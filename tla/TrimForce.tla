------------------------------ MODULE TrimForce ------------------------------
(***************************************************************************)
(* hardcache's trims of the cache directory: TrimForce and TrimExtra of    *)
(* internal/go/cache/cache_extra.go, as internal/commands/local_trim.go    *)
(* and internal/caches/local/local.go call them.  Any number of trims run  *)
(* at once (hardcache local trim, trimd, programs that use the package),   *)
(* beside the go commands of CacheDir.                                     *)
(*                                                                         *)
(* A trim works on the list it made when it read the directory (snap), and *)
(* by the time it removes an entry the directory may have changed.  Every  *)
(* system call of a trim is a step of its own, except that reading or      *)
(* removing an executable's directory with its file is one.  The sort is   *)
(* not a step: the loops take an entry with the oldest time of those left, *)
(* and as slices.SortFunc is not stable, any of them.                      *)
(***************************************************************************)
EXTENDS CacheDir, FiniteSets, FiniteSetsExt

CONSTANTS
  Trimmers,     \* the trims; trimd's next one is another member
  NumSubdirs,   \* 256 in the code
  SubdirOf,     \* [entry -> its subdirectory]
  UnusedFors,   \* values of --unused-for; 0 disables the cutoff
  MaxSizes      \* values of --max-size; 0 disables the limit

\* fileInfo.
Listing == [mtime : Nat, size : Nat]

ASSUME TrimAssumption ==
  /\ IsFiniteSet(Entries)
  /\ NumSubdirs \in Nat
  /\ SubdirOf \in [Entries -> 1..NumSubdirs]
  /\ UnusedFors \subseteq Nat /\ MaxSizes \subseteq Nat
  /\ None \notin Listing

VARIABLES
  pc,       \* where the trim is
  cutoff,   \* *time.Time, None when nil
  maxSize,  \* *int64, None when nil
  began,    \* now of TrimForce
  subdir,   \* subdirectories read so far
  names,    \* names read from the current subdirectory, not yet stat'ed
  dirs,     \* directories stat'ed in it, not yet read
  snap,     \* files: what the list says of each entry, None if not in it
  todo,     \* entries the current loop has not come to
  gone,     \* entries the trim removed (files[i] = fileInfo{})
  missed,   \* entries it could not read or remove
  before,   \* size of the listed entries
  freed,    \* size of those removed
  changed   \* history: entries someone has written to since the trim began

listVars == <<subdir, names, dirs, snap, before>>
loopVars == <<todo, gone, missed, freed>>
optVars  == <<cutoff, maxSize, began>>
vars == <<dirVars, pc, optVars, listVars, loopVars, changed>>

Listed(t) == {e \in Entries : snap[t][e] # None}

Goto(t, l) == pc' = [pc EXCEPT ![t] = l]

-----------------------------------------------------------------------------
\* localTrim up to the call of TrimForce, with the options of New and Open.
LocalTrim(t) ==
  /\ pc[t] = "idle"
  /\ \E unusedFor \in UnusedFors, max \in MaxSizes :
       /\ cutoff' = [cutoff EXCEPT ![t] =
                       IF unusedFor > 0 THEN now - unusedFor ELSE None]
       /\ maxSize' = [maxSize EXCEPT ![t] = IF max > 0 THEN max ELSE None]
  /\ Goto(t, "open")
  /\ UNCHANGED <<dirVars, began, listVars, loopVars>>

\* TrimExtra, from Cache.Close: nothing to do if the last trim was recent.
Recent(stamp, time) ==
  /\ stamp # None
  /\ time - stamp < TrimInterval
  /\ time - stamp > -MtimeInterval

TrimExtra(t) ==
  /\ pc[t] = "open"
  /\ Goto(t, IF Recent(trimTxt, now) THEN "skipped" ELSE "force")
  /\ UNCHANGED <<dirVars, optVars, listVars, loopVars>>

\* The local variables of TrimForce and read, at their declarations.
Declared(t) ==
  /\ subdir' = [subdir EXCEPT ![t] = 0]
  /\ names' = [names EXCEPT ![t] = {}]
  /\ dirs' = [dirs EXCEPT ![t] = {}]
  /\ snap' = [snap EXCEPT ![t] = [e \in Entries |-> None]]
  /\ before' = [before EXCEPT ![t] = 0]
  /\ todo' = [todo EXCEPT ![t] = {}]
  /\ gone' = [gone EXCEPT ![t] = {}]
  /\ missed' = [missed EXCEPT ![t] = {}]
  /\ freed' = [freed EXCEPT ![t] = 0]

\* The beginning of TrimForce, up to read.
Begin(t) ==
  /\ pc[t] \in {"open", "force"}
  /\ began' = [began EXCEPT ![t] = now]
  /\ Declared(t)
  /\ Goto(t, IF cutoff[t] = None /\ maxSize[t] = None THEN "stamp" ELSE "read")
  /\ UNCHANGED <<dirVars, cutoff, maxSize>>

-----------------------------------------------------------------------------
\* A mutation of OpenSubdir: the loop runs once too often.
OpenSubdirOnceMore(t) ==
  /\ pc[t] = "read"
  /\ names[t] = {} /\ dirs[t] = {} /\ subdir[t] <= NumSubdirs
  /\ subdir' = [subdir EXCEPT ![t] = @ + 1]
  /\ names' = [names EXCEPT ![t] =
                  {e \in Entries : SubdirOf[e] = subdir[t] + 1 /\ dir[e] # None}]
  /\ UNCHANGED <<dirVars, pc, optVars, dirs, snap, before, loopVars>>

\* read: the names of the next subdirectory, or none of them on an error.
OpenSubdir(t) ==
  /\ pc[t] = "read"
  /\ names[t] = {} /\ dirs[t] = {} /\ subdir[t] < NumSubdirs
  /\ subdir' = [subdir EXCEPT ![t] = @ + 1]
  /\ LET here == {e \in Entries : SubdirOf[e] = subdir[t] + 1} IN
       \/ /\ names' = [names EXCEPT ![t] = {e \in here : dir[e] # None}]
          /\ UNCHANGED missed
       \/ /\ missed' = [missed EXCEPT ![t] = @ \cup here]
          /\ UNCHANGED names
  /\ UNCHANGED <<dirVars, pc, optVars, dirs, snap, before, todo, gone, freed>>

\* Readdir stats each name it has read.  One that has vanished is left out,
\* a file is listed, a directory is to be read in its turn.
StatName(t) ==
  /\ pc[t] = "read"
  /\ \E e \in names[t] :
       /\ names' = [names EXCEPT ![t] = @ \ {e}]
       /\ IF dir[e] = None
            THEN UNCHANGED <<dirs, snap, before>>
            ELSE LET isDir == e \in Executables
                     size  == IF isDir THEN 0 ELSE dir[e].size IN
                 /\ snap' = [snap EXCEPT ![t][e] =
                               [mtime |-> dir[e].mtime, size |-> size]]
                 /\ before' = [before EXCEPT ![t] = @ + size]
                 /\ dirs' = IF isDir THEN [dirs EXCEPT ![t] = @ \cup {e}] ELSE dirs
  /\ UNCHANGED <<dirVars, pc, optVars, subdir, loopVars>>

\* A mutation of ReadExecutable: the size stays that of the directory.
ReadExecutableOfDir(t) ==
  /\ pc[t] = "read" /\ names[t] = {}
  /\ \E e \in dirs[t] :
       /\ dirs' = [dirs EXCEPT ![t] = @ \ {e}]
       /\ snap' = IF dir[e] # None /\ dir[e].parts = 1
                    THEN snap ELSE [snap EXCEPT ![t][e] = None]
  /\ UNCHANGED <<dirVars, pc, optVars, subdir, names, before, loopVars>>

\* os.ReadDir of an executable's directory: listed, with the size of the one
\* file in it, unless it has vanished, holds another number of files, or
\* cannot be read.
ReadExecutable(t) ==
  /\ pc[t] = "read" /\ names[t] = {}
  /\ \E e \in dirs[t] :
       /\ dirs' = [dirs EXCEPT ![t] = @ \ {e}]
       /\ \/ /\ dir[e] # None /\ dir[e].parts = 1
             /\ snap' = [snap EXCEPT ![t][e].size = dir[e].size]
             /\ before' = [before EXCEPT ![t] = @ + dir[e].size]
             /\ UNCHANGED missed
          \/ /\ snap' = [snap EXCEPT ![t][e] = None]
             /\ missed' = IF dir[e] # None /\ dir[e].parts = 1
                            THEN [missed EXCEPT ![t] = @ \cup {e}] ELSE missed
             /\ UNCHANGED before
  /\ UNCHANGED <<dirVars, pc, optVars, subdir, names, todo, gone, freed>>

\* read has returned.
EndRead(t) ==
  /\ pc[t] = "read"
  /\ names[t] = {} /\ dirs[t] = {} /\ subdir[t] = NumSubdirs
  /\ todo' = [todo EXCEPT ![t] = Listed(t)]
  /\ Goto(t, IF cutoff[t] # None THEN "cutoff"
             ELSE IF before[t] <= maxSize[t] THEN "stamp" ELSE "size")
  /\ UNCHANGED <<dirVars, optVars, listVars, gone, missed, freed>>

-----------------------------------------------------------------------------
\* A mutation of Oldest: sorted the other way.
Newest(t) ==
  {e \in todo[t] : \A f \in todo[t] : snap[t][e].mtime >= snap[t][f].mtime}

\* Of what is left to look at, the entries that may come next in the order.
Oldest(t) ==
  {e \in todo[t] : \A f \in todo[t] : snap[t][e].mtime <= snap[t][f].mtime}

\* The body of both loops.
Remove(t, e) ==
  /\ todo' = [todo EXCEPT ![t] = @ \ {e}]
  /\ \/ /\ RemoveAll(e)
        /\ gone' = [gone EXCEPT ![t] = @ \cup {e}]
        /\ missed' = [missed EXCEPT ![t] = @ \ {e}]
        /\ freed' = [freed EXCEPT ![t] = @ + snap[t][e].size]
     \/ /\ RemoveAllFails(e)
        /\ missed' = [missed EXCEPT ![t] = @ \cup {e}]
        /\ UNCHANGED <<gone, freed>>
  /\ UNCHANGED <<pc, optVars, listVars>>

\* Mutations of Expired: the cutoff is off by mtimeInterval, either way.
ExpiredLate(t, e) == snap[t][e].mtime < cutoff[t] - MtimeInterval
ExpiredEarly(t, e) == snap[t][e].mtime < cutoff[t] + MtimeInterval

\* Another one: an entry whose time is the cutoff goes too.
ExpiredAtCutoff(t, e) == snap[t][e].mtime <= cutoff[t]

Expired(t, e) == snap[t][e].mtime < cutoff[t]

CutoffStep(t) ==
  /\ pc[t] = "cutoff"
  /\ \E e \in Oldest(t) : Expired(t, e) /\ Remove(t, e)

\* A mutation of EndCutoff: without files[i] = fileInfo{} the next loop comes
\* to the removed entries again.
EndCutoffKeepsRemoved(t) ==
  /\ pc[t] = "cutoff"
  /\ \A e \in Oldest(t) : ~Expired(t, e)
  /\ Goto(t, IF maxSize[t] = None THEN "stamp" ELSE "size")
  /\ todo' = [todo EXCEPT ![t] = Listed(t)]
  /\ UNCHANGED <<dirVars, optVars, listVars, gone, missed, freed>>

\* The list is at its end, or at an entry that is not older than the cutoff.
EndCutoff(t) ==
  /\ pc[t] = "cutoff"
  /\ \A e \in Oldest(t) : ~Expired(t, e)
  /\ Goto(t, IF maxSize[t] = None THEN "stamp" ELSE "size")
  /\ todo' = [todo EXCEPT ![t] = Listed(t) \ gone[t]]
  /\ UNCHANGED <<dirVars, optVars, listVars, gone, missed, freed>>

\* A mutation of Fits: < for <=.
FitsStrictly(t) == before[t] - freed[t] < maxSize[t]

Fits(t) == before[t] - freed[t] <= maxSize[t]

SizeStep(t) ==
  /\ pc[t] = "size"
  /\ ~Fits(t)
  /\ \E e \in Oldest(t) : Remove(t, e)

\* A mutation of EndSize: only the size ends the loop.
EndSizeWhenItFits(t) ==
  /\ pc[t] = "size"
  /\ Fits(t)
  /\ Goto(t, "stamp")
  /\ UNCHANGED <<dirVars, optVars, listVars, loopVars>>

EndSize(t) ==
  /\ pc[t] = "size"
  /\ Fits(t) \/ todo[t] = {}
  /\ Goto(t, "stamp")
  /\ UNCHANGED <<dirVars, optVars, listVars, loopVars>>

-----------------------------------------------------------------------------
\* The deferred write of trim.txt, which truncates it first.  Its failure is
\* only logged.  It may leave some of the digits, which are no time or one
\* long past: None stands for both.
WriteStamp(t) ==
  /\ pc[t] = "stamp"
  /\ trimTxt' \in {began[t], trimTxt, None}
  /\ Goto(t, "done")
  /\ UNCHANGED <<now, dir, history, optVars, listVars, loopVars>>

\* What the loop is about to remove.
InHand(t) ==
  {e \in Oldest(t) : \/ pc[t] = "cutoff" /\ Expired(t, e)
                     \/ pc[t] = "size" /\ ~Fits(t)}

\* The process is killed, and what it had in memory is lost.  A directory it
\* was removing may be left with fewer files.
Crash(t) ==
  /\ pc[t] \notin {"idle", "skipped", "done", "killed"}
  /\ Goto(t, "killed")
  /\ cutoff' = [cutoff EXCEPT ![t] = None]
  /\ maxSize' = [maxSize EXCEPT ![t] = None]
  /\ began' = [began EXCEPT ![t] = 0]
  /\ Declared(t)
  /\ \/ /\ trimTxt' \in IF pc[t] = "stamp" THEN {trimTxt, None} ELSE {trimTxt}
        /\ UNCHANGED <<now, dir, history>>
     \/ \E e \in InHand(t) : RemoveAllFails(e)

\* The steps of a trim that has begun.
Proceed(t) ==
  \/ OpenSubdir(t) \/ StatName(t) \/ ReadExecutable(t) \/ EndRead(t)
  \/ CutoffStep(t) \/ EndCutoff(t) \/ SizeStep(t) \/ EndSize(t)
  \/ WriteStamp(t)

TrimStep(t) ==
  LocalTrim(t) \/ TrimExtra(t) \/ Begin(t) \/ Proceed(t) \/ Crash(t)

Environment ==
  /\ \/ GoCommand
     \/ Tick
  /\ UNCHANGED <<pc, optVars, listVars, loopVars>>

Init ==
  /\ DirInit
  /\ pc = [t \in Trimmers |-> "idle"]
  /\ cutoff = [t \in Trimmers |-> None]
  /\ maxSize = [t \in Trimmers |-> None]
  /\ began = [t \in Trimmers |-> 0]
  /\ subdir = [t \in Trimmers |-> 0]
  /\ names = [t \in Trimmers |-> {}]
  /\ dirs = [t \in Trimmers |-> {}]
  /\ snap = [t \in Trimmers |-> [e \in Entries |-> None]]
  /\ todo = [t \in Trimmers |-> {}]
  /\ gone = [t \in Trimmers |-> {}]
  /\ missed = [t \in Trimmers |-> {}]
  /\ before = [t \in Trimmers |-> 0]
  /\ freed = [t \in Trimmers |-> 0]
  /\ changed = [t \in Trimmers |-> {}]

\* The step makes something else of the entry: a file where there was none,
\* or one of another size, or another number of them.
Rewritten(e) ==
  /\ dir'[e] # None
  /\ \/ dir[e] = None
     \/ dir'[e].size # dir[e].size
     \/ dir'[e].parts # dir[e].parts

\* What is remembered of every step, whoever takes it.
Remember ==
  changed' = [t \in Trimmers |->
                IF pc'[t] \in {"read", "cutoff", "size", "stamp", "done"}
                  THEN changed[t] \cup {e \in Entries : Rewritten(e)}
                  ELSE {}]

Next ==
  /\ Environment \/ \E t \in Trimmers : TrimStep(t)
  /\ Remember

\* A process inside TrimForce makes its next system call unless it is killed.
\* Nothing obliges a go command to run, or anyone to start a trim.
Fairness == \A t \in Trimmers : WF_vars(Proceed(t) /\ Remember)

Spec == Init /\ [][Next]_vars /\ Fairness

-----------------------------------------------------------------------------
PCs == {"idle", "open", "force", "skipped", "read", "cutoff", "size", "stamp",
        "done", "killed"}

\* Every variable has its type.
TypeOK ==
  /\ DirTypeOK
  /\ pc \in [Trimmers -> PCs]
  /\ cutoff \in [Trimmers -> Int \cup {None}]
  /\ maxSize \in [Trimmers -> Nat \cup {None}]
  /\ began \in [Trimmers -> Nat]
  /\ subdir \in [Trimmers -> 0..NumSubdirs]
  /\ names \in [Trimmers -> SUBSET Entries]
  /\ dirs \in [Trimmers -> SUBSET Executables]
  /\ snap \in [Trimmers -> [Entries -> Listing \cup {None}]]
  /\ todo \in [Trimmers -> SUBSET Entries]
  /\ gone \in [Trimmers -> SUBSET Entries]
  /\ missed \in [Trimmers -> SUBSET Entries]
  /\ before \in [Trimmers -> Nat]
  /\ freed \in [Trimmers -> Nat]
  /\ changed \in [Trimmers -> SUBSET Entries]

\* An entry as read understands it: present, with one file.
Usable(e) == dir[e] # None /\ dir[e].parts = 1

\* Once a trim is past its cutoff loop, and for ever after, no usable entry in
\* the directory is older than its cutoff, whatever go commands and other
\* trims do meanwhile: except those it met an error on.
CutoffEnforced ==
  \A t \in Trimmers :
    pc[t] \in {"size", "stamp", "done"} /\ cutoff[t] # None =>
      \A e \in Entries \ missed[t] : Usable(e) => dir[e].mtime >= cutoff[t]

\* Least recently used goes first: an entry the list has as older than one
\* the trim removed is itself removed, or met an error.  Both loops together
\* obey this, and what a failed first loop leaves behind comes first again.
LruOrder ==
  \A t \in Trimmers : \A e \in gone[t], f \in Listed(t) :
    snap[t][f].mtime < snap[t][e].mtime => f \in gone[t] \cup missed[t]

\* The size of every entry according to the list, and in the directory.
ListedSize(t) == [e \in Entries |-> IF snap[t][e] = None THEN 0 ELSE snap[t][e].size]
StoredSize == [e \in Entries |-> IF dir[e] = None THEN 0 ELSE dir[e].size]

TotalSize(sizes, S) == MapThenSumSet(LAMBDA e : sizes[e], S)

\* When a trim with a size limit has ended, the usable entries fit in the
\* limit: in the directory as it is, though other trims may have removed
\* entries this one counted, go commands replaced them, and freed counts what
\* was already gone.  Left out is what the trim met an error on, and what was
\* written since it began: by a put, with success or not, or when a put or a
\* trim removed one of several files of an executable and made usable what
\* this trim had skipped.  Nothing is asked of other trims.
SizeEnforced ==
  \A t \in Trimmers :
    pc[t] \in {"stamp", "done"} /\ maxSize[t] # None =>
      TotalSize(StoredSize, {e \in Entries \ (missed[t] \cup changed[t]) : Usable(e)})
        <= maxSize[t]

\* Nothing is removed without need: when the trim removed an entry that was
\* not older than the cutoff, what it had listed and not yet removed, that
\* entry included, was over the limit.
NoOverTrim ==
  \A t \in Trimmers : \A e \in gone[t] :
    (cutoff[t] = None \/ snap[t][e].mtime >= cutoff[t]) =>
      /\ maxSize[t] # None
      /\ TotalSize(ListedSize(t), (Listed(t) \ gone[t]) \cup
                     {f \in gone[t] : snap[t][f].mtime >= snap[t][e].mtime})
           > maxSize[t]

\* The step takes the entry out of the directory in t's loop over the cutoff.
ExpiredBy(t, e) ==
  /\ pc[t] = "cutoff"
  /\ e \in gone'[t] \ gone[t]
  /\ dir[e] # None

\* What the cutoff may cost a go command.  An entry removed as unused was
\* last used before the cutoff plus the hour markUsed saves, or else after
\* the trim began to read.
RemovedWasUnused ==
  [][\A t \in Trimmers, e \in Entries :
       ExpiredBy(t, e) => \/ lastGet[e] < cutoff[t] + MtimeInterval
                          \/ lastGet[e] >= began[t]]_vars

\* Whoever has just used an entry needs it for a while: "a cache trim from one
\* process should not delete an OutputID from disk that was recently Get or
\* Put from another process.  As a rule of thumb, don't trim things used in
\* the last day."  (The Close method of Cache, cache.go.)
RecentUseKept ==
  [][\A t \in Trimmers, e \in Entries :
       ExpiredBy(t, e) => now - lastGet[e] >= TrimInterval]_vars

\* --unused-for as the README has it: "remove cache entries that were unused
\* for 2 weeks", here but for what is used while the trim runs.
UnusedForHonoured ==
  [][\A t \in Trimmers, e \in Entries :
       ExpiredBy(t, e) => lastGet[e] < cutoff[t] \/ lastGet[e] >= began[t]]_vars

\* --unused-for as main.go has it: "Always remove entries unused for this
\* duration".  No entry is left that was neither used nor put since the
\* cutoff, once a trim has ended without an error.
AlwaysRemoved ==
  \A t \in Trimmers :
    pc[t] = "done" /\ cutoff[t] # None /\ missed[t] = {} =>
      \A e \in Entries :
        dir[e] # None => dir[e].mtime >= cutoff[t]

\* A trim that has begun ends, whatever the go commands and other trims do,
\* unless it is killed.
TrimEnds ==
  \A t \in Trimmers : pc[t] = "read" ~> pc[t] \in {"done", "killed"}

=============================================================================
