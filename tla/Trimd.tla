-------------------------------- MODULE Trimd --------------------------------
(***************************************************************************)
(* hardcache local trimd (internal/commands/local_trimd.go) beside other   *)
(* trims of hardcache and go commands that end, all of which read or write *)
(* the time in trim.txt.  Of a TrimForce only its first and last steps     *)
(* matter here: it takes the time, and some time later writes that time,   *)
(* however many others have done so meanwhile.                             *)
(*                                                                         *)
(* Times are kept as ages, so that behaviours need not end: the age of     *)
(* what trim.txt says, of the time a call has taken, and what is left      *)
(* until the ticker fires.  A call takes no longer than its bound: the     *)
(* clock does not advance past it.                                         *)
(***************************************************************************)
EXTENDS Integers

CONSTANTS
  Daemon,        \* the trims of trimd, one after the other
  Trims,         \* hardcache local trim, and programs that close a Cache
  Closers,       \* go commands that end
  Interval,      \* --interval
  TrimInterval,  \* trimInterval, 24 hours in the code
  MtimeInterval, \* mtimeInterval, 1 hour in the code
  MaxTrim,       \* bound: how long a trim takes
  MaxDelay,      \* bound: how long a go command takes from its time to the lock
  Old            \* bound: the age from which stamps are not told apart

ASSUME CallsAssumption ==
  /\ Daemon \notin Trims \cup Closers
  /\ Trims \cap Closers = {}

ASSUME TimesAssumption ==
  /\ Interval \in Nat \ {0} /\ TrimInterval \in Nat
  /\ MtimeInterval \in Nat \ {0}
  /\ MaxTrim \in Nat /\ MaxDelay \in Nat /\ MaxDelay < MtimeInterval
  /\ Old \in Nat /\ Old >= TrimInterval + MaxDelay

VARIABLES
  stamp,     \* the age of the time in trim.txt; Old if there is none
  pc,        \* [call -> where it is]
  age,       \* [call -> the age of the time it has taken]
  tickIn,    \* what is left until the ticker fires
  tick,      \* whether its channel, of capacity one, holds a tick
  cancelled, \* whether ctx is done: SIGTERM or SIGINT has arrived
  covered    \* history: the daemon runs, has written trim.txt, and nothing
             \* of what is done to trim.txt has failed since

vars == <<stamp, pc, age, tickIn, tick, cancelled, covered>>
ticker == <<tickIn, tick>>

Forces == {Daemon} \cup Trims
Calls == Forces \cup Closers

Goto(c, l) == pc' = [pc EXCEPT ![c] = l]

\* now := c.now() of a TrimForce or a Trim.
TakeTime(c) == age' = [age EXCEPT ![c] = 0]

-----------------------------------------------------------------------------
\* LocalTrimd up to its first localTrim; the ticker is created before it.
Start ==
  /\ pc[Daemon] = "off"
  /\ tickIn' = Interval
  /\ tick' = FALSE
  /\ TakeTime(Daemon)
  /\ Goto(Daemon, "trim")
  /\ UNCHANGED <<stamp, cancelled, covered>>

\* localTrim returns an error before it trims (its options, the size of the
\* disk, the directory), which ends the daemon; or it is killed in a trim,
\* perhaps in the middle of writing trim.txt.
DaemonFails ==
  /\ pc[Daemon] = "trim"
  /\ stamp' \in {stamp, Old}
  /\ covered' = FALSE
  /\ Goto(Daemon, "failed")
  /\ UNCHANGED <<age, ticker, cancelled>>

\* The select of LocalTrimd: the next trim.
NextTrim ==
  /\ pc[Daemon] = "select"
  /\ tick
  /\ tick' = FALSE
  /\ TakeTime(Daemon)
  /\ Goto(Daemon, "trim")
  /\ UNCHANGED <<stamp, tickIn, cancelled, covered>>

\* A mutation of Stop: a tick that is ready goes first.
StopAfterTicks ==
  /\ pc[Daemon] = "select"
  /\ cancelled /\ ~tick
  /\ covered' = FALSE
  /\ Goto(Daemon, "stopped")
  /\ UNCHANGED <<stamp, age, ticker, cancelled>>

\* The select of LocalTrimd: the end.  If both are ready, it is either.
Stop ==
  /\ pc[Daemon] = "select"
  /\ cancelled
  /\ covered' = FALSE
  /\ Goto(Daemon, "stopped")
  /\ UNCHANGED <<stamp, age, ticker, cancelled>>

\* A signal arrives.
Cancel ==
  /\ ~cancelled
  /\ cancelled' = TRUE
  /\ UNCHANGED <<stamp, pc, age, ticker, covered>>

-----------------------------------------------------------------------------
\* Another TrimForce begins; that of a TrimExtra is one that begins when
\* trim.txt was old some time before, which is no restriction.
Begin(t) ==
  /\ pc[t] = "idle"
  /\ TakeTime(t)
  /\ Goto(t, "trim")
  /\ UNCHANGED <<stamp, ticker, cancelled, covered>>

Ended(t) == Goto(t, IF t = Daemon THEN "select" ELSE "idle")

\* A mutation of Stamp: nothing is written when nothing was to be removed.
StampIfTrimmed(t) ==
  /\ pc[t] = "trim"
  /\ stamp' \in {stamp, age[t]}
  /\ covered' = (covered \/ t = Daemon)
  /\ Ended(t)
  /\ UNCHANGED <<age, ticker, cancelled>>

\* The end of TrimForce: trim.txt gets the time of its beginning.
Stamp(t) ==
  /\ pc[t] = "trim"
  /\ stamp' = age[t]
  /\ covered' = (covered \/ t = Daemon)
  /\ Ended(t)
  /\ UNCHANGED <<age, ticker, cancelled>>

\* Writing it fails, which TrimForce does not tell, or another trim is killed.
StampFails(t) ==
  /\ pc[t] = "trim"
  /\ stamp' \in {stamp, Old}
  /\ covered' = (covered /\ t # Daemon /\ stamp' = stamp)
  /\ Ended(t)
  /\ UNCHANGED <<age, ticker, cancelled>>

-----------------------------------------------------------------------------
\* skipTrim, for the go command's time.
SkipTrim(g) ==
  /\ stamp - age[g] < TrimInterval
  /\ stamp - age[g] > -MtimeInterval

\* A go command closes its cache.
Close(g) ==
  /\ pc[g] = "idle"
  /\ TakeTime(g)
  /\ Goto(g, "check")
  /\ UNCHANGED <<stamp, ticker, cancelled, covered>>

\* The first look at trim.txt; if it cannot be read, the second decides.
Check(g) ==
  /\ pc[g] = "check"
  /\ \/ Goto(g, IF SkipTrim(g) THEN "idle" ELSE "transform")
     \/ Goto(g, "transform")
  /\ UNCHANGED <<stamp, age, ticker, cancelled, covered>>

\* A mutation of Transform: what Check has found is still taken for true.
TransformUnchecked(g) ==
  /\ pc[g] = "transform"
  /\ stamp' = age[g]
  /\ Goto(g, "standard")
  /\ UNCHANGED <<age, ticker, cancelled, covered>>

\* The second look, under the lock, and the standard trim.
Transform(g) ==
  /\ pc[g] = "transform"
  /\ IF SkipTrim(g)
       THEN Goto(g, "idle") /\ UNCHANGED stamp
       ELSE Goto(g, "standard") /\ stamp' = age[g]
  /\ UNCHANGED <<age, ticker, cancelled, covered>>

\* Transform fails, and the go command trims all the same.
TransformFails(g) ==
  /\ pc[g] = "transform"
  /\ Goto(g, "standard")
  /\ stamp' \in {stamp, Old}
  /\ covered' = FALSE
  /\ UNCHANGED <<age, ticker, cancelled>>

EndTrim(g) ==
  /\ pc[g] = "standard"
  /\ Goto(g, "idle")
  /\ UNCHANGED <<stamp, age, ticker, cancelled, covered>>

-----------------------------------------------------------------------------
Running(c) == pc[c] \in {"trim", "select", "check", "transform"}

\* Nobody is late, and a select with something ready does not wait.
InTime ==
  /\ \A t \in Forces : pc[t] = "trim" => age[t] < MaxTrim
  /\ \A g \in Closers : pc[g] \in {"check", "transform"} => age[g] < MaxDelay
  /\ pc[Daemon] = "select" => ~tick /\ ~cancelled

Older(a) == IF a < Old THEN a + 1 ELSE a

Ages ==
  /\ InTime
  /\ stamp' = Older(stamp)
  /\ age' = [c \in Calls |-> IF Running(c) THEN Older(age[c]) ELSE age[c]]
  /\ UNCHANGED <<pc, cancelled, covered>>

\* A mutation of Clock: a timer instead of a ticker.
ClockFiresOnce ==
  /\ Ages
  /\ IF tickIn = 1 THEN tick' = TRUE ELSE UNCHANGED tick
  /\ tickIn' = IF tickIn > 0 THEN tickIn - 1 ELSE 0

\* The clock, and time.Tick: a tick that finds the channel full is dropped.
Clock ==
  /\ Ages
  /\ IF tickIn = 1
       THEN tickIn' = Interval /\ tick' = TRUE
       ELSE tickIn' = tickIn - 1 /\ UNCHANGED tick

Init ==
  /\ stamp \in 0..Old
  /\ pc = [c \in Calls |-> IF c = Daemon THEN "off" ELSE "idle"]
  /\ age = [c \in Calls |-> 0]
  /\ tickIn = Interval
  /\ tick = FALSE
  /\ cancelled = FALSE
  /\ covered = FALSE

\* A step of a call that has begun.
Proceed(c) ==
  \/ c \in Forces /\ (Stamp(c) \/ StampFails(c))
  \/ c \in Closers /\ (Check(c) \/ Transform(c) \/ TransformFails(c) \/ EndTrim(c))

Next ==
  \/ Start \/ DaemonFails \/ NextTrim \/ Stop \/ Cancel \/ Clock
  \/ \E t \in Trims : Begin(t)
  \/ \E g \in Closers : Close(g)
  \/ \E c \in Calls : Proceed(c)

\* Stop is strongly fair: a select with several cases ready chooses at random,
\* so it does not choose the same one for ever.
Fairness ==
  /\ WF_vars(Clock) /\ WF_vars(NextTrim) /\ SF_vars(Stop)
  /\ \A c \in Calls : WF_vars(Proceed(c))

Spec == Init /\ [][Next]_vars /\ Fairness

-----------------------------------------------------------------------------
PCs == {"off", "idle", "trim", "select", "stopped", "failed",
        "check", "transform", "standard"}

\* Every variable has its type.
TypeOK ==
  /\ stamp \in 0..Old
  /\ pc \in [Calls -> PCs]
  /\ age \in [Calls -> 0..Old]
  /\ tickIn \in 1..Interval
  /\ tick \in BOOLEAN
  /\ cancelled \in BOOLEAN
  /\ covered \in BOOLEAN

\* How far apart trims of the daemon can begin.
Gap == IF Interval > MaxTrim THEN Interval ELSE MaxTrim

\* While the daemon runs, trim.txt is never older than the time between two of
\* its trims, and twice the time a trim takes: once because a trim writes the
\* time of its beginning, and once more because another one that began before
\* it may have written trim.txt after it.
StampIsFresh == covered => stamp <= Gap + 2 * MaxTrim

\* So the standard trim is prevented ("to prevent the standard trimming
\* mechanism from triggering", README.md:47-48), if trims begin often enough.
\* It holds again as soon as the daemon has written trim.txt after a failure.
StandardTrimPrevented ==
  [][Gap + 2 * MaxTrim < TrimInterval =>
       \A g \in Closers :
         pc[g] # "standard" /\ pc'[g] = "standard" => ~covered']_vars

\* The daemon does not wait for ever ("continuously trims", local_trimd.go:20).
KeepsTrimming ==
  pc[Daemon] = "select" ~> pc[Daemon] \in {"trim", "stopped"}

\* It ends when it is cancelled ("until ctx is canceled", local_trimd.go:20),
\* though a trim may take longer than the interval, so that there is always a
\* tick as well.
CancelEnds ==
  cancelled /\ pc[Daemon] # "off" ~> pc[Daemon] \in {"stopped", "failed"}

=============================================================================
