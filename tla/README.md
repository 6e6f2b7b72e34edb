# hardcache in TLA+

hardcache trims the Go build cache: it removes entries that were not used for a
while, and then the least recently used ones until the cache fits a size. It
does so beside go commands that read and write the cache, beside their own trim,
and beside other trims of its own, with almost no locking. These modules model
the cache directory, both kinds of trims and the daemon that repeats one of them, the
storing of outputs and the way to them through the index, and the locked file the trims
share. TLC checks them on small instances and TLAPS proves the main properties for
every instance.

Paths below are relative to the repository (`src/` in `PROJECT.json`).

## The system

| Component | State | Operations | Hard behaviours | What makes it correct |
|---|---|---|---|---|
| Cache directory, `internal/go/cache/cache.go` | `xx/…-a` index entries, `xx/…-d` outputs (a file, or a directory with one executable), their modification times | `Get`, `OutputFile`, `GetFile`, `GetBytes`, `GetMmap`, `Put`, `PutExecutable` | no locks: names vanish between two calls; `markUsed` saves writes by leaving a time up to an hour old | what a reader takes for complete is intact; what was used or put recently stays |
| Storing an output, `copyFile` | one inode under the name, others still open or mapped | `Stat`, hash check, write all but the last byte, check the hash, write it, `Close` | several writers of one output, kills, I/O errors, changing sources, trims | the size is right only if the contents are |
| Forced trim, `internal/go/cache/cache_extra.go` | a list made by `read`, `freed`, `trim.txt` | `TrimExtra`, `TrimForce`, `read` | works on an old list; other trims; errors on single entries; kills | limits enforced, LRU order, no more removed than needed, terminates |
| Options, `internal/commands/local_trim.go` | cutoff and limit, nil when disabled | `localTrim` | rounding of a percentage; 0 disables | the limits are the ones asked for |
| Daemon, `internal/commands/local_trimd.go`, `internal/sigterm` | a ticker, a context | `LocalTrimd` | a trim longer than the interval, a tick and a signal at once, an error | trims go on until it is cancelled |
| The go command's trim, `cache.go` | `trim.txt` | `Close` → `Trim` → `trimSubdir` | checks the stamp twice, once under the lock, with an old time | at most one trim a day; removes nothing used in five days |
| Locked files, `internal/go/lockedfile` | `trim.txt` and its lock | `Read`, `Write`, `Transform`, `Mutex` | a write that fails half way; a crash after truncation | readers see whole contents |
| File locks, `…/internal/filelock` | an owner and a queue of waiters per inode | `lock`, `unlock` | threads and processes; POSIX locks dropped by any `close` | mutual exclusion of writers |
| Hashes, statistics, units, protocol types, mmap | counters, memo tables | | | |

Processes meet only in the directory: a trim reads names and times that go
commands write, and the entries it removes are the ones they would read. They
exchange no messages. `trim.txt` is the one file used under a lock.
`PROJECT.json` lists the hazards of this code, each at its line, with the
properties that cover it or the reason why none does.

## Modules

| Module | Models |
|---|---|
| `CacheDir` | the directory, the clock, and what go commands do to what a trim sees |
| `TrimForce` | any number of `TrimForce`/`TrimExtra` calls beside them (extends `CacheDir`) |
| `OutputFile` | what whole calls of `copyFile` make of one output's file |
| `CopyFile` | `copyFile`, `GetFile`/`GetMmap` and removals, write by write, for one output, implementing `OutputFile` |
| `Index` | any number of puts of actions, gets of them, and trims, step by step, for the whole index, with `OutputFile` for each file |
| `Trimd` | the daemon, other forced trims and go commands that end, and the age of `trim.txt` |
| `GoTrim` | any number of the go command's own trims, `Close` → `Trim` → `trimSubdir` (extends `CacheDir`) |
| `FileContents`, `AtomicFile` | what a locked file may hold; what `lockedfile` promises of it |
| `LockedFile` | `Read`, `Write`, `Transform` and `Mutex` on one file, implementing `AtomicFile` |
| `CacheDirProofs`, `TrimForceProofs`, `TrimSizeProofs`, `GoTrimProofs`, `CopyFileProofs`, `LockedFileProofs`, `TrimdProofs`, `IndexProofs` | theorems and their proofs |
| `MCTrimForce`, `MCTwoTrims`, `MCGoTrim`, `MCCopyFile`, `MCLockedFile`, `MCTrimd`, `MCIndex` | instances for TLC |

### CacheDir

`dir` maps every name to what a trim can see of it: modification time, size and,
for an executable's directory, the number of files in it (0, 1, or 2 for more),
or to `None`. Contents are left to `CopyFile` and `Index`. The actions are `MarkUsed` (what
`Get` does to an index entry and `OutputFile` to an output), `PutIndexEntry`,
`PutOutput` and `PutExecutable` (`copyFile`, with and without an executable
name).

A put is a step for each of its system calls that a trim can see: `Create`, `Write` (which
makes the file longer, up to its size), `Cut` (`O_TRUNC`, or `Truncate(0)` after a failure),
`RemoveFile`, and for executables `os.Mkdir`, one more file in the directory, and `RemoveInner`
(`os.Remove` after a failed `Close`, which removes one file of a directory, also one that was
there before). `Stored` is the end of a put that succeeds. The steps of one put are not tied together: nothing
keeps which put made a file, and any of them may have begun before the behaviour. So a trim may at
any moment meet a file of any length, a directory with no file or two, and one that has just
become an entry again. A put that is killed makes no further step. This allows some orders no put has,
and none of the properties needs them to be excluded.

A put that finds its output in place does not refresh its time, as in the code. `lastGet`
and `lastPut` are history variables. A Get that finds nothing changes nothing and is no
action. `MarkUsed` is one step, though the code calls `os.Stat`, `c.now` and `os.Chtimes`: what
happens to the entry between the `Stat` and the `Chtimes` is that it is removed, which
is as if it had been before, or gets a new time, and that the clock does not advance in between is an
abstraction. In the code a process that stops for long between its `c.now` and its `os.Chtimes` can set a time back
to the earlier of the two; in the model no file's time goes back. The same is true of the `os.Chtimes` at
the end of a put.

### TrimForce

`pc[t]` of a trim goes through

    idle -> open -> [force] -> read -> [cutoff] -> [size] -> stamp -> done
                 -> skipped                                    or killed

* `LocalTrim` is `localTrim` up to the opening of the cache: it computes `cutoff`
  and `maxSize`, `None` for nil. `Begin` is `TrimForce` up to the call of `read`;
  from `open` it is a call by `local trim`, from `force` one by `TrimExtra`.
* `OpenSubdir`, `StatName`, `ReadExecutable`, `EndRead` are `read`, one system
  call each: names first, then a stat of each, then the file in each executable's
  directory. `snap[t]` is the list `files`, as a function from names.
* The sort has no step. `Oldest(t)` are the entries that may come next in the
  sorted list; `slices.SortFunc` is not stable, so with equal times any order is
  possible.
* `CutoffStep`, `EndCutoff`, `SizeStep`, `EndSize` are the two loops. `Remove` is
  `os.RemoveAll`, which may fail, for a directory after having removed some of its
  files.
* `WriteStamp` is the deferred `lockedfile.Write` of `trim.txt`, with its silent
  failures; `Crash` is a kill, which in `stamp` may leave the file empty, and in the loops the
  directory that was being removed (`InHand`) with fewer files.

`changed` is a history variable: the entries of which any step has made something else since the trim began,
a file where there was none, another size, or another number of files (`Remember`, a conjunct of
every step).

`before` is -1 in the code when nothing is set, and the value is only logged; the
model has 0 there. A trimmer trims once: the daemon's next trim is another member
of `Trimmers`. A percentage of the disk is one of the values in `MaxSizes`; its arithmetic
(`total / 100 * p`) rounds down by less than 100 bytes.

### GoTrim

    idle -> check -> transform -> trim -> done
              \-> skipped  \-> skipped, unsupported        or killed

* `Close` takes the time, `Check` compares it with `trim.txt` without the exclusive
  lock, `Transform` does so again under it and writes it. The clock may tick, and
  other calls may stamp, between any two of them. `TransformFails` keeps the two
  kinds of errors apart: without support for locks `Trim` returns, on any other error
  it trims without a stamp. `Tear` is what a failed or interrupted write may leave: no time, or, from
  digits of two, any one.
* `OpenSubdir`, `StatEntry`, `RemoveEntry`, `EndTrim` are the loop over the
  subdirectories and `trimSubdir`. Unlike `TrimForce` it looks at each entry just
  before it removes it, and removes executables' directories whatever is in them.

`Crash` may leave a directory half removed, as in `TrimForce`. `stampAt`, `statAt`, `torn` and `missed` are
history variables.

### CopyFile

The file is `N` units long, the last unit being the last byte. `name` is the inode
the name leads to; `len` and `right` are an inode's length and the units that hold
the bytes they should. All writers write the same bytes, so nothing more of the
contents matters. A reader of `GetFile` or `GetMmap` takes a file by its length
(`Get`) and keeps the inode (`held`); `GetBytes` checks the hash and is not at risk.
`lost` remembers inodes whose `Close` failed and lost what was written: the code
removes such a file after the fact, and `LostIsRemoved` says how long it can be seen. `TextBusy` is
ETXTBSY: of a file that a reader holds the put takes for granted that it is the output, whatever
it holds by now. That may be a file of `lost`, which `StoredStaysIntact` leaves out.

With failures and overlapping writers at once the file is not safe (run
`copy_faults`), so a behaviour is either without faults, with writers as concurrent
as they like, or with faults (`faults`), and then writers come one after the other
unless `Overlap`. Kills, trims and readers happen in both.

### OutputFile

    idle -> open or trunc -> copy -> close -> stored
                              |        '-> drop -> error
                              '-> spoilt -> error             or killed

This is what may be said of the file without looking at its bytes: it is missing, shorter than
the output (`partial`), the output (`whole`), as long but something else (`wrong`), or longer (`long`). A
put that has the file open under its name knows whether all it has written is still there
(`sound`) or may have been overwritten or cut off (`holed`). `Commit` is the last byte: of a `sound`
put it makes the output, of a `holed` one perhaps something as long. What a put that fails does to the
others is in `Abort` (`Truncate(0)`), `Spoil` (a source that has changed), `CloseFails` and `Drop`. `Trim` and
`Drop` take the name away, after which those who have the file open do not matter to it any more.

`CopyFile` implements it by the mapping at its end: contents are told by the length and the right
units, and a put is `sound` if it will pass the check of the hash and the units up to its offset
are right, or if it has written the last byte. Faults and overlaps are not kept apart in
`OutputFile`, nor need they be: the mapping holds with both at once (`KeepsOutput`).

### Index

    put: idle -> [mkdir] -> [open -> copy -> close] -> index -> write -> truncate -> ok
                           error <- drop <-'             error <- remove <-'
    get: idle -> output -> stat -> hit or miss -> idle

* `Put` is `put` up to what `copyFile` finds: the output in place, a directory for it, or
  nothing. `Mkdir` and `OpenOutput` are the next calls of `copyFile`, which may find what another put has
  made meanwhile; `TextBusy` is its ETXTBSY, which is taken for the output whatever the file holds (if it
  is not whole, the put is `disturbed`).
* The rest of `copyFile`, which `CopyFile` has write by write, is here as in `OutputFile`, for every name an output
  may have: `Mend` and `Spoil` while it copies, `Commit`, `CloseOutput`, and `CopyFails`, `CloseFails` and `RemoveOutput` for its
  failures, which also concern others that have the file open (`Harm`). `OutputsAreKept` says that this is
  never more than `OutputFile` allows. Nor is less of it there, but for outputs that are empty or files
  that are too long at first: the actions correspond one to one, and where `OutputFile` leaves open which
  other puts are now `holed`, `Index` takes all of them, whose `Commit` may have either outcome.
* `OpenIndex`, `WriteIndex`, `Truncate` are `putIndexEntry`; `IndexFails` and `RemoveIndex` are its
  failures, where a write that stops in the middle mixes two entries (`Mixtures`): an output
  with the size of another (`sized`), or an ID that is of no output.
* `Get`, `OutputFile`, `StatFile` are `GetFile`, one look at the directory each. `GetBytes` compares the
  hash and so takes nothing wrong for a hit; `GetMmap` does what `GetFile` does.
* `TrimEntry`, `TrimFile`, `TrimDir` are removals by whatever trim, at any time; `Crash` and `Fails` are kills
  and errors of every put.

Of an entry it matters which output it names, whether the size is that of the output, and
whether `get` accepts it at all (`Junk`, or `long` when something follows it). An entry is less than a
page, so that its write and read are one step; a directory's size is not an
output's. The history variables say which puts have failed while they copied (`failed`),
which puts something has happened to since (`disturbed`), and which of the others a get may rely
on (`sure`). `disturbed` is narrow on purpose: a put is not disturbed by other puts of the same
action and output, or by kills.

### Trimd

    daemon: off -> trim -> select -> trim ...      other trims: idle -> trim -> idle
                     '-> failed  '-> stopped       go commands: idle -> check -> transform -> standard -> idle

`LocalTrimd` waits for its ticker or its context (`NextTrim`, `Stop`); if both are ready `select` takes
either. `Clock` is the clock and `time.Tick`, whose channel holds one tick. The go command's part is
that of `GoTrim` up to the stamp. Times are kept as their ages, so that the daemon runs for ever
in a finite model: `Old` is the age from which stamps are not told apart. A trim takes no longer than
`MaxTrim` and a go command comes to the lock within `MaxDelay`; the clock does not pass them.
`covered` is a history variable: the daemon runs, it has written `trim.txt`, and no write of it
has failed since.

### LockedFile and AtomicFile

    idle -> open -> lock -> read -------------------------------> close -> returned
                      |      \-> apply -> [tail] -> head -> [shrink] -^
                      |-> truncate -> copy -----------------------^
                      \-> mu -> held -----------------------------^

Threads of several processes call `Read`, `Write`, `Transform` or `Mutex.Lock` on one
file. Every byte that is read or written is a step, so nothing of what happens inside
a call is taken to be atomic but the system calls. The lock is `flock`: any number of
readers, or one writer, and it goes with the process. `io` says what kind of device it
is: only a write that makes the file longer may fail, or anything may. A Transform that fails
while it overwrites goes to `rollback`; `res` remembers whether that failed as well
(`torn`), which the caller cannot tell.

`AtomicFile` has one step per call, in which it takes effect and is answered, `Create`
for the empty file that all but `Read` leave before they have the lock, and
`Broken` for what a call that failed or was killed may leave: of a `Write` some
beginning, of a `Transform` contents that mix old and new bytes and are not
shorter than both. A `Transform` that fails for want of space leaves nothing. `LockedFile`
implements it with its value taken to be `base`, the contents when the exclusive lock was
taken, for as long as somebody has that lock: calls take effect when they unlock.

This is what allows `GoTrim` and `TrimForce` to have one locked call as one step.
Nobody removes `trim.txt`, so the name always leads to the file that is locked.

## Runs

| Run | Checks | Bounds |
|---|---|---|
| `trim` | `TypeOK`, `CutoffEnforced`, `LruOrder`, `SizeEnforced`, `NoOverTrim`, `RemovedWasUnused`, `TrimEnds` | one trim; an index entry, an output, an executable in two subdirectories; at first an output that is too short, and a directory with two files, among others; two system calls of go commands; the clock ticks once during the trim |
| `two_trims` | `CutoffEnforced`, `SizeEnforced`, `NoOverTrim` | two trims with any options; an output and an executable; one system call of a go command; new entries have the time of a cutoff |
| `copy` | `TypeOK`, `CompleteIsIntact`, `StoredStaysIntact`, `HeldStaysIntact`, `LostIsRemoved`, `KeepsOutput` | three puts of a file of 3 units, a reader, two inodes in turn, any initial length up to 4 |
| `go_trim` | `TypeOK`, `TrimsApart`, `CutoffEnforced`, `RemovedWasUnused` | two calls of `Close`; an output and an executable, at first of two files or one; one system call of a go command; the clock ticks three times, enough for two trims a `TrimInterval` apart and for a late one |
| `locked_file` | `TypeOK`, `RoomBeforeOverwrite`, `ErrorRestores`, `MuIsRedundant`, `LockedIsStable`, `IsAtomic`, `LocksAreReleased` | three threads in two processes with two or three kinds of calls each; contents of up to 2 bytes, any at first, or no file; a transform that makes the file longer and one that makes it shorter |
| `trimd` | `TypeOK`, `StampIsFresh`, `StandardTrimPrevented`, `KeepsTrimming`, `CancelEnds` | the daemon, one other trim and one go command, each again and again; an interval of 2, trims of up to 2, a trim interval of 7: the first in which the standard trim is prevented |
| `index` | `TypeOK`, `IndexedIsUsable`, `PutIsFound`, `MissIsExplained`, `HitIsWhole`, `MixedIsBrief`, `SomePutSucceeds` | one action; three puts, of an executable, the same under the same name, another one or none, and another output, or three times the same; a reader; trims, failures and kills without limit; any index file at first |
| `recent_use` | violates `RecentUseKept` | |
| `unused_for` | violates `UnusedForHonoured` | |
| `always_removed` | violates `AlwaysRemoved` | |
| `copy_faults` | violates `CompleteIsIntact` | two puts that overlap and may fail |
| `go_trim_put` | violates `RemovedWasNotPut` | |

Why these bounds. Hours become small integers that keep their order:
`MtimeInterval < TrimInterval`, an old entry is older than every cutoff, a new one
is less than `MtimeInterval` old. `trim.txt` starts in the future, within and then
beyond the tolerance of an hour (6 against a start of 4 and `MtimeInterval` 2), or
missing, so that `TrimExtra` both skips and proceeds. The limit 2 is met with equality,
exceeded and undercut by the sums of sizes 1, 2 and 2. Three entries give an
expired one, a surviving one and one to be removed for its size, in every order. Two
system calls are enough for a put after a use of the same entry, for the creation of a second file and its removal, and for
a file that is truncated and grows again; as what puts have done before is in the initial directories, more of them are
needed only for one entry each. In `copy`, three
units are a first, a middle and a last byte; three writers let one complete the
file, one arrive late, and one be in the middle. Deadlock is not checked: trims, writers and
the clock all come to an end. It is checked in `locked_file`, where calls never end. Two bytes
are a head and a tail in every transform, and the second thread of a process is what
`Mutex.mu` and the death of more than one thread need. In `index` and `trimd` it is checked as well:
readers, the clock and go commands never end. Two outputs of one action are what entries
can be mixed of, two names are what can crowd a directory, and the third put is the one that
comes between two others. With several actions nothing more meets: they share only outputs.

Fairness. `TrimForce` assumes weak fairness of a trim's next system call
(`Proceed`, with `Remember`, which only records what has changed) and nothing else: a process inside `TrimForce` runs until it
returns or is killed, and does not wait for anyone. A go command need never run, and nothing makes
anyone start a trim. `CopyFile` has no liveness property and no fairness.
`LockedFile` assumes weak fairness of every thread inside a call: what it runs between `Lock`
and `Close` is its own code, the function given to `Transform`, and the section
between `Mutex.Lock` and unlock, which are taken to end. `flock` is not fair, so that
who asks for a lock gets it is not claimed. `Trimd` assumes that time passes, that every trim
and go command ends, and that a select with something ready goes on. For `Stop` the fairness is
strong: `select` chooses at random among the ready cases, so it does not choose the tick for ever.
`Index` has no liveness property: nothing in it waits, and a reader may always be killed.

What the passing runs show:

* **CutoffEnforced.** After the cutoff loop no usable entry is older than the cutoff,
  from then on, however the directory changes: also what becomes usable again when one of two
  files is removed has a new time then. (That no time is set back is `CacheDir`'s abstraction of `os.Chtimes`.)
  Entries the trim met an error on are excepted, and directories without exactly
  one file, which `read` does not see.
* **LruOrder.** Of what is listed nothing is removed before something older, the two
  loops taken together.
* **SizeEnforced.** At its end the usable entries fit, though two trims both count what either
  removed, and others fail or are killed meanwhile. Left out is what the trim met an error on itself, and what was
  changed since it began: files that puts created, lengthened or truncated, and directories that a put or a trim
  made usable by removing one of several files. Their size is in no sum, so nothing can be said of it; a trim
  during which puts write may end above its limit by just as much.
* **NoOverTrim.** Nothing that is not older than the cutoff is removed, unless what was listed was over the
  limit with it: neither at a time that equals the cutoff, nor at a size that equals the limit.
* **RemovedWasUnused.** What the cutoff removes was last used before the cutoff plus
  `mtimeInterval`, or after the trim had begun. Both exceptions are real: the
  runs `unused_for` and `recent_use` show them to contradict documented promises.
* **TrimEnds.** A trim terminates, whatever other processes put into the directory.
* **TrimsApart.** The go command trims at most once in `TrimInterval`, however many
  commands end at once. The exception is a call that comes to the lock an hour after it
  took its time: to it a new stamp is one from the future.
* **CutoffEnforced, RemovedWasUnused** of `GoTrim`. They are stronger than those of
  `TrimForce`: no directory is skipped, and only a use between `Stat` and `Remove` is lost.
* **CompleteIsIntact, StoredStaysIntact, HeldStaysIntact.** No reader is deceived by
  a size, a stored file is not damaged by a later put of the same output, and a
  mapped file does not change. In this run puts that fail, or find the file too long, do not overlap others; what
  they do then is finding 4 and `DamageCorrect`. Left out are files of `lost`: the second says of them that
  a put reports one as stored only while a reader uses it.
* **LostIsRemoved.** A file whose `Close` has failed stays only until its writer has removed it, or is
  killed before.
* **KeepsOutput.** What single writes and truncations of several processes do to a file comes down to
  `OutputFile`: a file is completed only by a put that has checked the hash, damaged only by a put that fails or by a
  hole that such a put has left, and removed only by a trim or after a failed `Close`.
* **IsAtomic.** Readers see whole contents, and nothing is lost between the reading and
  the writing of a `Transform`, also while other calls fail and processes die.
* **LockedIsStable, RoomBeforeOverwrite, ErrorRestores.** Why: truncation waits for the lock, the
  tail is written first, and the rollback also cuts off what was added.
* **MuIsRedundant, LocksAreReleased.** Two locks in a row never make anyone wait for the
  second, and no error path leaves the file locked.
* **StampIsFresh, StandardTrimPrevented.** While the daemon runs, `trim.txt` is never older than the
  gap between two trims and twice the time of a trim, and if that is less than 24 hours the
  standard trim never runs. Twice, because a trim writes the time of its beginning, and a slow one
  writes over what a faster one has written. The bound is tight.
* **KeepsTrimming, CancelEnds.** A tick comes again however long a trim takes, and a cancellation is
  taken even if trims take longer than the interval, so that there is always a tick as well.
* **IndexedIsUsable, PutIsFound.** The output is there before the entry is, and a put is found from
  its return on, also while another put of the same rewrites its entry. What ends it is a trim, a
  failure that leaves the output or the entry damaged or removes the file of another process, another
  output for the action, or another executable name for the output: `OutputFile` then
  refuses the directory for both names, and no put repairs it.
* **MissIsExplained, HitIsWhole.** The three looks of a get agree although nothing is locked. `HitIsWhole` has
  two exceptions, both after a failure: the hole of finding 4, and an entry mixed of two.
* **MixedIsBrief.** The second of them lasts until its writer has removed the entry, or is killed before.
* **SomePutSucceeds.** The `Mkdir` that fails because another process was faster fails nobody else: without
  failures and trims, a put of the output has succeeded or is still on its way.

## Findings

1. `recent_use`: `TrimForce` removes what its list says is old without looking again. An
   entry that is used after it was listed is removed although it was used a moment
   ago, against the rule in `cache.go:59-63`.
2. `unused_for`: an entry used within `--unused-for` may be removed, because its
   time may be an hour behind and the cutoff makes no allowance; the go command's
   own `Trim` does (`cache.go:395-397`). Against `README.md:56`.
3. `always_removed`: directories with no file, or two, are never removed, against
   `main.go:63`. A partial `RemoveAll` of hardcache itself produces them.
4. `copy_faults`: `Truncate(0)` of a writer that fails hits a file another one is writing; the
   other one completes a file with a hole, against `cache.go:85-88`. This is the go
   command's code as it was taken over. `DamageCorrect` says what else can do this.
5. `go_trim_put`: a put that finds its output in place leaves its old time, and the next
   trim removes what has just been put, against `cache.go:59-63`. In the run no call fails: there is no `trim.txt`, and
   the trim follows the put. Also code of the go
   command, and the same happens under `TrimForce`.

## Proofs

All theorems hold for every value of the constants that the named assumptions
allow: any sets of entries, trims, writers and readers, any sizes and times.

**TrimForce** (`TypeCorrect`, `CutoffCorrect`, `LruCorrect`, `RemovedCorrect`). The
inductive invariant `IInv` is `TypeOK`, `LagInv` and, for every trim, `TrimInv`:

* `LagInv`: an entry's time is less than `MtimeInterval` behind its last use, and
  never ahead of the clock. It is what `markUsed` maintains.
* `TimeInv`: a trim began, and its cutoff lies, in the past.
* `ListInv`: the list lags behind the directory, and an entry was last used soon after
  the listed time or after the trim began. This gives `RemovedWasUnused`.
* `DueInv`: an entry older than the cutoff is still ahead of the trim: in a
  subdirectory to be read, among the names, in the list, or in the rest of the loop.
  `CutoffEnforced` is what is left of it at the end; by itself it is not
  inductive, since it says nothing before the loop has ended.
* `OrderInv`: every listed entry is to come, removed or met an error; `LruOrder` is its
  last part.

One lemma per action shows that it preserves `TrimInv` of its own trim.
`OutsideStep` shows that steps of others do, and needs only `Ages` of them: a step
either leaves an entry's time, or sets it to the present, or removes the entry.
`CacheDirProofs` proves `Ages` and `LagInv` of every step of a go command. That the
list has an oldest member is proved from the well-ordering of the natural
numbers (`OldestExists`).

`TrimSizeProofs` adds the size limit (`NoOverTrimCorrect`, `SizeCorrect`), for any finite set of
entries. Its invariant `AllSizeInv` says, of every trim, that `before` and `freed` are the sums of what is
listed and of what is removed (`CountInv`), that nothing is listed or removed twice (`OnceInv`), that
what the size loop removes is not newer than what it leaves (`LastInv`), and that an entry
whose contents and usability did not change since the trim began is in the list with at least its
size, or still to be listed, or the reason of an error (`StoredInv`). At the end the rest of the list fits
(`FitInv`), and what is stored is part of that rest. A sum over a set is a recursive function of
the library; the lemmas about it (`TotalRemove`, `TotalBounded`, `TotalSame`, `TotalSplit`) are proved by
looking at the smallest set for which they fail.

**GoTrim** (`TypeCorrect`, `ApartCorrect`, `CutoffCorrect`, `RemovedCorrect`). `StampInv`
says that, as long as nothing was damaged and nobody late, `trim.txt` holds the
last of the times written and is not in the future; a call that passes `skipTrim`
is then a `TrimInterval` later than all before it. `DueInv` is as in `TrimForce`. `StatInv` says
that the entry about to be removed was not used for `TrimLimit`, or was since the
`Stat`; it follows from `LagInv` and the hour in `Cutoff`. What steps of others
preserve is again proved from `Ages` alone.

**CopyFile** (`TypeCorrect`, `CompleteCorrect`, `StoredCorrect`, `HeldCorrect`, `LostCorrect`, `KeepsCorrect`,
`DamageCorrect`). The second to the fifth assume `~Overlap`: with it, finding 4 is a counterexample.
The invariant adds, to their four properties: inodes not in use are empty and unknown to anyone (`UnusedInv`); right units lie
inside the file, and a file that lost its contents lacks its last unit
(`ContentInv`); without faults every file is right up to its end (`PrefixInv`); with faults there is
one writer at a time (`AloneInv`); a writer about to open the file does not
truncate one that has become complete (`OpenInv`); a writer's prefix is right when
what it has hashed is (`WriteInv`). `StoredCorrect` needs more than that, because a put that gets `ETXTBSY`
reports success whatever the file holds: a file reported as stored is intact, or has lost what
was written and is being used (`Reported`), and a file about to be closed has been reported only if it is
being used (`NotStored`).

`KeepsCorrect` is the refinement, for which nothing is assumed of overlaps: `CopyFile` implements `OutputFile`, for
any writers, readers, inodes and size, faults and all. Its invariant `KeepInv` needs less than the
others: inodes not yet created are empty and unknown, no unit is right beyond the end of its
file (`FileInv`), nobody writes to a file that is too long, and who is about to open one has seen that it is
(`SizeInv`). `CompleteIsIntact` is not among it, which is why overlaps do no harm. Most steps are one action of `OutputFile`; `Write` is `Mend`, `Spoil`
or a stutter, as what is written is right and as others have missed it; the steps of readers,
and those of writers whose file has lost its name, are stutters.

`DamageCorrect` says what is left of the three promises to readers when writers overlap and calls fail: they
can only be broken by a put that failed with the file open, was killed when it closed it, read a source that
changed, or truncated a file it had found too long (`Culprit`); kills before the last byte, trims and
whatever the file held at first break nothing. Each of the four can: without any one of
them TLC finds a counterexample with two puts. The invariant `SoundInv` holds as long as there is no culprit,
and has every writer's prefix in its file; `CulpritStays` shows that a culprit is never forgotten. It is not
among the runs, where puts with faults do not overlap and `CompleteIsIntact` says more; TLC has
checked it with `Overlap`.

**LockedFile** (`TypeCorrect`, `StableCorrect`, `RoomCorrect`, `ErrorCorrect`, `MuCorrect`, `AtomicCorrect`), for any
threads, processes, contents and functions given to `Transform`. The invariant says
where each kind of call may be (`CallInv`), which lock it has there (`LockInv`), that an
exclusive lock is the only one (`Exclusion`), and what a thread with the lock knows of
the file (`ReadInv`, `WriteInv`, `CloseInv`): how much of it agrees with `base` and how
long it is. `TypeOK` is not inductive without them, since cutting a file to a length
needs it to be that long. `OutsideStep` shows that none of this is lost by steps of
others, because these leave a locked file alone; one lemma per action shows the rest.

`AtomicCorrect` is the refinement: `LockedFile` implements `AtomicFile` under the mapping in `LockedFile.tla`.
`AtomicInv` adds what the file holds at every place of a call, compared with `base` and with
what the call writes (`EffectInv`, `EndInv`). `WriterLeaves` concludes that the file of a writer is
always something that its interrupted call may leave, and its result when it has succeeded. Every step up
to `Close` but the creation of the file is then a stutter, `Close` is `Succeed` or `Fail`, and a
crash breaks the one call with the exclusive lock.

**Trimd** (`TypeCorrect`, `FreshCorrect`, `PreventedCorrect`), for any number of trims and go commands and
any intervals with `MaxDelay < MtimeInterval`. The invariant bounds the age of every time that a call
holds (`TimelyInv`), relates the daemon's own time and its ticker (`DaemonInv`), and says how old the stamp
is at most at each place of the daemon (`FreshInv`). `StampIsFresh` alone is not inductive: the
daemon must be about to write before the bound is reached.

**Index** (`TypeCorrect`, `IndexedCorrect`, `FoundCorrect`, `MissCorrect`, `HitCorrect`, `MixedCorrect`, `SomeCorrect`), for any
actions, outputs, names, puts and gets. The invariant follows an undisturbed put: while it
copies it has created the file and all it writes gets there, then the output is stored
(`StoredInv`), then the entry is its own or names the same output (`FoundInv`); every entry, in its file or in the
hands of a get, tells what its put has stored (`EntryInv`, `IndexInv`, `GetInv`). `WrongInv` ties wrong
contents to a put that has failed, `CreatorInv` a directory or file to a put that has
created it. What others may do is again one predicate, `Steady`, which every put's and trim's step
satisfies and which preserves what entries and gets know (`EntriesStay`, `GetsStay`).

`OutputsCorrect` is the second half of the refinement: for every output and every name, `Index` implements
`OutputFile` (`OutputsAreKept`), which by `KeepsCorrect` is also what the single writes of `copyFile` come down to. That `Index`
has all of it is not a theorem: it would say that steps are possible, which is `ENABLED`.
The mapping looks at one file: puts of other outputs or under other names are idle in it
for ever, and `Stage` forgets what a put does after its output is stored. What must be shown of a step is
that the other puts' handles change as `OutputFile` has it (`HandlesHurt`, `Unlinks`) and that the other files
do not notice (`OtherFile`, `OtherUnlinked`); that a put with the file open finds it there is from
`StoredInv`. It is no property of a run: TLC cannot evaluate the conjunction over outputs and names as
it stands, and written out for each of them the run takes more than half an hour. TLC has checked it for two puts.

Only model-checked: `TrimEnds`, `LocksAreReleased`, `KeepsTrimming` and `CancelEnds`, which are liveness and
out of the prover's reach, as is all that needs `ENABLED`: that calls never wait for ever (deadlock in
`locked_file`, `trimd` and `index`). The violations are TLC counterexamples. That the right bytes in all
units are the output with the right hash is the models' assumption on SHA-256.

## Not modelled

* The fcntl implementation of file locks (`filelock_fcntl.go`), with its queue of waiters: only AIX and
  Solaris builds contain it, and hardcache as well as the go command lock `trim.txt` from
  one goroutine at a time, so that the queue stays empty. Its two hazards are listed
  without a property.
* `lockedfile_plan9.go` and the Windows variants of locks and memory mapping, for the same reason.
* Hashes, taken as injective, and the memo of `FileHash`, which hardcache does not use; the
  statistics wrapper, which nothing runs; `cacheprog`, which is only types.
* Parsing and formatting of units and options, the command line, logging, `mmap`.
* Fuzzing data (`FuzzDir`), which hardcache never opens.
