------------------------------- MODULE GoTrim -------------------------------
(***************************************************************************)
(* The trim of the go command itself: Trim and trimSubdir of               *)
(* internal/go/cache/cache.go, which Close calls at the end of every go    *)
(* command.  hardcache exists because of it: it removes what has not been  *)
(* used for five days, whatever one would like to keep.                    *)
(*                                                                         *)
(* trim.txt keeps the trims apart.  The time that is compared with it, and *)
(* written to it, is taken before the file is looked at: a process may be  *)
(* delayed in between, and others may write the file.  One locked read, or *)
(* one Transform, is one step.                                             *)
(***************************************************************************)
EXTENDS CacheDir

CONSTANTS
  Closers,    \* calls of Close; the next command of a user is another one
  NumSubdirs, \* 256 in the code
  SubdirOf,   \* [entry -> its subdirectory]
  TrimLimit   \* trimLimit, 5 days in the code

ASSUME GoTrimAssumption ==
  /\ NumSubdirs \in Nat
  /\ SubdirOf \in [Entries -> 1..NumSubdirs]
  /\ TrimLimit \in Nat
  /\ None \notin Entries

VARIABLES
  pc,       \* where the call is
  time,     \* its now
  subdir,   \* subdirectories read so far
  names,    \* names of the current one, not yet looked at
  entry,    \* the entry found to be old and not yet removed, or None
  statAt,   \* history: the clock at the Stat of that entry
  stampAt,  \* history: the clock at the Transform, None before
  torn,     \* history: whether a failure or a kill has damaged trim.txt
  missed    \* history: entries the call could not list or remove

loopVars == <<subdir, names, entry, statAt, missed>>
vars == <<dirVars, pc, time, loopVars, stampAt, torn>>

Goto(c, l) == pc' = [pc EXCEPT ![c] = l]

Close(c) ==
  /\ pc[c] = "idle"
  /\ time' = [time EXCEPT ![c] = now]
  /\ Goto(c, "check")
  /\ UNCHANGED <<dirVars, loopVars, stampAt, torn>>

\* skipTrim.
SkipTrim(stamp, t) ==
  /\ stamp # None
  /\ t - stamp < TrimInterval
  /\ t - stamp > -MtimeInterval

\* The check without the exclusive lock.  If the file cannot be read, the
\* trim goes on.
Check(c) ==
  /\ pc[c] = "check"
  /\ \/ SkipTrim(trimTxt, time[c]) /\ Goto(c, "skipped")
     \/ ~SkipTrim(trimTxt, time[c]) /\ Goto(c, "transform")
     \/ Goto(c, "transform")
  /\ UNCHANGED <<dirVars, time, loopVars, stampAt, torn>>

\* A mutation of Transform: the time is not checked again under the lock.
TransformUnchecked(c) ==
  /\ pc[c] = "transform"
  /\ trimTxt' = time[c]
  /\ stampAt' = [stampAt EXCEPT ![c] = now]
  /\ Goto(c, "trim")
  /\ UNCHANGED <<now, dir, history, time, loopVars, torn>>

\* Transform checks again under the lock and writes the time.
Transform(c) ==
  /\ pc[c] = "transform"
  /\ IF SkipTrim(trimTxt, time[c])
       THEN /\ Goto(c, "skipped")
            /\ UNCHANGED <<trimTxt, stampAt>>
       ELSE /\ Goto(c, "trim")
            /\ trimTxt' = time[c]
            /\ stampAt' = [stampAt EXCEPT ![c] = now]
  /\ UNCHANGED <<now, dir, history, time, loopVars, torn>>

\* trim.txt is left with digits of the old and of the new time, or with some
\* of either: this may be no time, or any other.
Tear ==
  /\ trimTxt' \in {None} \cup Stamps
  /\ torn' = TRUE

\* A failure of it: if locks are not supported, Trim gives up; on any other,
\* it trims without a stamp.  A failed write may have damaged the file.
TransformFails(c) ==
  /\ pc[c] = "transform"
  /\ \/ pc' \in {[pc EXCEPT ![c] = "unsupported"], [pc EXCEPT ![c] = "trim"]}
        /\ UNCHANGED <<trimTxt, torn>>
     \/ Goto(c, "trim") /\ Tear
  /\ UNCHANGED <<now, dir, history, time, loopVars, stampAt>>

-----------------------------------------------------------------------------
\* A mutation of Cutoff: without the allowance for markUsed.
CutoffWithoutHour(c) == time[c] - TrimLimit

Cutoff(c) == time[c] - TrimLimit - MtimeInterval

\* A mutation of OpenSubdir: one subdirectory too many.
OpenSubdirOnceMore(c) ==
  /\ pc[c] = "trim"
  /\ names[c] = {} /\ entry[c] = None /\ subdir[c] <= NumSubdirs
  /\ subdir' = [subdir EXCEPT ![c] = @ + 1]
  /\ UNCHANGED <<dirVars, pc, time, names, entry, statAt, missed, stampAt, torn>>

\* trimSubdir: the names in the next subdirectory, or as many of them as were
\* read before an error.
OpenSubdir(c) ==
  /\ pc[c] = "trim"
  /\ names[c] = {} /\ entry[c] = None /\ subdir[c] < NumSubdirs
  /\ subdir' = [subdir EXCEPT ![c] = @ + 1]
  /\ LET here == {e \in Entries : SubdirOf[e] = subdir[c] + 1 /\ dir[e] # None} IN
       \E read \in SUBSET here :
         /\ names' = [names EXCEPT ![c] = read]
         /\ missed' = [missed EXCEPT ![c] = @ \cup (here \ read)]
  /\ UNCHANGED <<dirVars, pc, time, entry, statAt, stampAt, torn>>

\* os.Stat of the next name.  If that fails, an old entry is left alone too.
StatEntry(c) ==
  /\ pc[c] = "trim" /\ entry[c] = None
  /\ \E e \in names[c] :
       /\ names' = [names EXCEPT ![c] = @ \ {e}]
       /\ IF dir[e] # None /\ dir[e].mtime < Cutoff(c)
            THEN \/ /\ entry' = [entry EXCEPT ![c] = e]
                    /\ statAt' = [statAt EXCEPT ![c] = now]
                    /\ UNCHANGED missed
                 \/ /\ missed' = [missed EXCEPT ![c] = @ \cup {e}]
                    /\ UNCHANGED <<entry, statAt>>
            ELSE UNCHANGED <<entry, statAt, missed>>
  /\ UNCHANGED <<dirVars, pc, time, subdir, stampAt, torn>>

\* A mutation of RemoveEntry: executables' directories by os.Remove.
RemoveEntryOnly(c) ==
  /\ pc[c] = "trim" /\ entry[c] # None
  /\ IF entry[c] \in Executables /\ Parts(entry[c]) > 0
       THEN UNCHANGED dirVars
       ELSE RemoveAll(entry[c])
  /\ entry' = [entry EXCEPT ![c] = None]
  /\ UNCHANGED <<pc, time, subdir, names, statAt, missed, stampAt, torn>>

\* os.RemoveAll of a directory or os.Remove of a file; errors are ignored.
RemoveEntry(c) ==
  /\ pc[c] = "trim" /\ entry[c] # None
  /\ \/ RemoveAll(entry[c]) /\ UNCHANGED missed
     \/ /\ RemoveAllFails(entry[c])
        /\ missed' = [missed EXCEPT ![c] = @ \cup {entry[c]}]
  /\ entry' = [entry EXCEPT ![c] = None]
  /\ statAt' = [statAt EXCEPT ![c] = 0]
  /\ UNCHANGED <<pc, time, subdir, names, stampAt, torn>>

EndTrim(c) ==
  /\ pc[c] = "trim"
  /\ names[c] = {} /\ entry[c] = None /\ subdir[c] = NumSubdirs
  /\ Goto(c, "done")
  /\ UNCHANGED <<dirVars, time, loopVars, stampAt, torn>>

\* The go command is killed, and what it had in memory is lost.  A directory
\* it was removing may be left with fewer files.
Crash(c) ==
  /\ pc[c] \in {"check", "transform", "trim"}
  /\ Goto(c, "killed")
  /\ \/ UNCHANGED <<dirVars, torn>>
     \/ /\ pc[c] = "transform" /\ Tear
        /\ UNCHANGED <<now, dir, history>>
     \/ /\ pc[c] = "trim" /\ entry[c] # None /\ RemoveAllFails(entry[c])
        /\ UNCHANGED torn
  /\ subdir' = [subdir EXCEPT ![c] = 0]
  /\ names' = [names EXCEPT ![c] = {}]
  /\ entry' = [entry EXCEPT ![c] = None]
  /\ statAt' = [statAt EXCEPT ![c] = 0]
  /\ missed' = [missed EXCEPT ![c] = {}]
  /\ UNCHANGED <<time, stampAt>>

CloseStep(c) ==
  \/ Close(c) \/ Check(c) \/ Transform(c) \/ TransformFails(c)
  \/ OpenSubdir(c) \/ StatEntry(c) \/ RemoveEntry(c) \/ EndTrim(c) \/ Crash(c)

Environment ==
  /\ \/ GoCommand
     \/ Tick
  /\ UNCHANGED <<pc, time, loopVars, stampAt, torn>>

CloseInit ==
  /\ pc = [c \in Closers |-> "idle"]
  /\ time = [c \in Closers |-> 0]
  /\ subdir = [c \in Closers |-> 0]
  /\ names = [c \in Closers |-> {}]
  /\ entry = [c \in Closers |-> None]
  /\ statAt = [c \in Closers |-> 0]
  /\ missed = [c \in Closers |-> {}]
  /\ stampAt = [c \in Closers |-> None]
  /\ torn = FALSE

Init == DirInit /\ CloseInit

Next == Environment \/ \E c \in Closers : CloseStep(c)

Spec == Init /\ [][Next]_vars

-----------------------------------------------------------------------------
PCs == {"idle", "check", "transform", "trim", "skipped", "unsupported", "done",
        "killed"}

\* Every variable has its type.
TypeOK ==
  /\ DirTypeOK
  /\ pc \in [Closers -> PCs]
  /\ time \in [Closers -> Nat]
  /\ subdir \in [Closers -> 0..NumSubdirs]
  /\ names \in [Closers -> SUBSET Entries]
  /\ entry \in [Closers -> Entries \cup {None}]
  /\ statAt \in [Closers -> Nat]
  /\ missed \in [Closers -> SUBSET Entries]
  /\ stampAt \in [Closers -> Nat \cup {None}]
  /\ torn \in BOOLEAN

\* A call is late when an hour passes between its taking the time and its
\* writing it.
Late(c) == stampAt[c] # None /\ stampAt[c] - time[c] >= MtimeInterval

\* trimInterval is kept: any two calls that got past the lock took their
\* times a day apart, however their checks are interleaved.  But for one
\* that was late: to it, a new stamp is one from the future, and is
\* overwritten with an old one.  Nor if the file was damaged by a failure.
TrimsApart ==
  ~torn /\ (\A c \in Closers : ~Late(c)) =>
    \A c, d \in Closers :
      c # d /\ stampAt[c] # None /\ stampAt[d] # None =>
        \/ time[c] - time[d] >= TrimInterval
        \/ time[d] - time[c] >= TrimInterval

\* Once a trim is done, and for ever after, nothing in the directory is older
\* than its cutoff: executables' directories with any number of files
\* included, entries it met an error on excepted.
CutoffEnforced ==
  \A c \in Closers : pc[c] = "done" =>
    \A e \in Entries \ missed[c] : dir[e] # None => dir[e].mtime >= Cutoff(c)

\* The step takes the entry out of the directory for c.
RemovedBy(c, e) ==
  /\ pc[c] = "trim" /\ entry[c] = e /\ entry'[c] = None
  /\ dir[e] # None /\ dir'[e] = None

\* What is removed was not used in the last five days; or it has been used
\* since the Stat that found it old.  The hour by which a modification time
\* may lag is allowed for.
RemovedWasUnused ==
  [][\A c \in Closers, e \in Entries :
       RemovedBy(c, e) => \/ lastGet[e] < time[c] - TrimLimit
                          \/ lastGet[e] >= statAt[c]]_vars

\* The same of what is put, as the Close method of Cache has it: "a cache trim
\* from one process should not delete an OutputID from disk that was recently
\* Get or Put from another process.  As a rule of thumb, don't trim things
\* used in the last day" (cache.go).  Only what is put after the Stat is
\* excepted.
RemovedWasNotPut ==
  [][\A c \in Closers, e \in Entries :
       RemovedBy(c, e) => \/ lastPut[e] < time[c] - TrimInterval
                          \/ lastPut[e] >= statAt[c]]_vars

=============================================================================
