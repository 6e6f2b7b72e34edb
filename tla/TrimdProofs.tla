----------------------------- MODULE TrimdProofs -----------------------------
(***************************************************************************)
(* Theorems about Trimd.  The inductive invariant relates the age of the   *)
(* time in trim.txt to that of the daemon's last trim, and that one to     *)
(* what is left until the ticker fires.                                    *)
(***************************************************************************)
EXTENDS Trimd, TLAPS

\* Nobody is later than the bounds.
TimelyInv ==
  /\ \A t \in Forces : pc[t] = "trim" => age[t] <= MaxTrim
  /\ \A g \in Closers : pc[g] \in {"check", "transform"} => age[g] <= MaxDelay

\* Unless a tick waits in its channel, the next is due an interval after the
\* daemon's trim began, or earlier.
DaemonInv ==
  pc[Daemon] \in {"trim", "select"} =>
    /\ ~tick => age[Daemon] + tickIn <= Interval
    /\ pc[Daemon] = "select" => age[Daemon] <= Gap

\* Between trims, trim.txt is as old as the daemon's last one, or as one that
\* was running at that time.  During one, the last one is the one before.
FreshInv ==
  covered =>
    /\ pc[Daemon] \in {"trim", "select"}
    /\ pc[Daemon] = "select" => stamp <= age[Daemon] + MaxTrim
    /\ pc[Daemon] = "trim" => stamp <= age[Daemon] + Gap + MaxTrim

IInv == TypeOK /\ TimelyInv /\ DaemonInv /\ FreshInv

-----------------------------------------------------------------------------
\* Gap is a time not smaller than either of the two.
LEMMA GapBounds ==
  /\ Gap \in Nat
  /\ Interval <= Gap
  /\ MaxTrim <= Gap
BY TimesAssumption DEF Gap

\* Who is who.
LEMMA Roles ==
  /\ Daemon \in Forces /\ Daemon \notin Trims
  /\ \A t \in Trims : t \in Forces
  /\ \A t \in Forces : t \in Calls /\ t \notin Closers
  /\ \A g \in Closers : g \in Calls
BY CallsAssumption DEF Forces, Calls

\* What Goto and TakeTime do.
LEMMA Went ==
  ASSUME TypeOK, NEW c \in Calls, NEW l \in PCs, Goto(c, l)
  PROVE  /\ pc' \in [Calls -> PCs]
         /\ pc'[c] = l
         /\ \A d \in Calls : d # c => pc'[d] = pc[d]
BY DEF TypeOK, Goto

LEMMA TookTime ==
  ASSUME TypeOK, NEW c \in Calls, TakeTime(c)
  PROVE  /\ age' \in [Calls -> 0..Old]
         /\ age'[c] = 0
         /\ \A d \in Calls : d # c => age'[d] = age[d]
BY TimesAssumption DEF TypeOK, TakeTime

\* The types, as arithmetic wants them.
LEMMA Times ==
  ASSUME TypeOK
  PROVE  /\ stamp \in Nat /\ tickIn \in Nat /\ tickIn <= Interval
         /\ \A c \in Calls : age[c] \in Nat
         /\ Interval \in Nat /\ MaxTrim \in Nat /\ MaxDelay \in Nat /\ Old \in Nat
BY TimesAssumption DEF TypeOK

LEMMA InitInv == Init => IInv
<1> SUFFICES ASSUME Init PROVE IInv
  OBVIOUS
<1>1. stamp \in 0..Old /\ pc \in [Calls -> PCs] /\ age \in [Calls -> 0..Old]
  BY TimesAssumption DEF Init, PCs
<1>2. tickIn \in 1..Interval
  BY TimesAssumption DEF Init
<1>5. tick \in BOOLEAN /\ cancelled \in BOOLEAN /\ covered \in BOOLEAN
  BY DEF Init
<1>3. pc[Daemon] = "off" /\ ~covered
  BY Roles DEF Init
<1>4. TimelyInv
  BY Roles DEF Init, TimelyInv
<1> QED
  BY <1>1, <1>2, <1>3, <1>4, <1>5 DEF IInv, TypeOK, DaemonInv, FreshInv

\* What StampIsFresh says follows from the invariant.
LEMMA Fresh == IInv => StampIsFresh
<1> SUFFICES ASSUME IInv, covered PROVE stamp <= Gap + 2 * MaxTrim
  BY DEF StampIsFresh
<1>1. stamp \in Nat /\ age[Daemon] \in Nat /\ Gap \in Nat /\ MaxTrim \in Nat
  BY Roles, GapBounds, TimesAssumption DEF IInv, TypeOK
<1>2. CASE pc[Daemon] = "select"
  <2>1. stamp <= age[Daemon] + MaxTrim /\ age[Daemon] <= Gap
    BY <1>2 DEF IInv, FreshInv, DaemonInv
  <2> QED
    BY <1>1, <2>1
<1>3. CASE pc[Daemon] = "trim"
  <2>1. stamp <= age[Daemon] + Gap + MaxTrim /\ age[Daemon] <= MaxTrim
    BY <1>3, Roles DEF IInv, FreshInv, TimelyInv
  <2> QED
    BY <1>1, <2>1
<1> QED
  BY <1>2, <1>3 DEF IInv, FreshInv

\* Steps of the daemon alone.
LEMMA DaemonStep ==
  ASSUME IInv, Start \/ DaemonFails \/ NextTrim \/ Stop \/ Cancel
  PROVE  IInv'
<1> USE Roles, GapBounds, Times DEF IInv
<1>1. CASE Start
  <2>1. pc' \in [Calls -> PCs] /\ pc'[Daemon] = "trim"
        /\ \A d \in Calls : d # Daemon => pc'[d] = pc[d]
    BY <1>1, Went DEF Start, PCs
  <2>2. age' \in [Calls -> 0..Old] /\ age'[Daemon] = 0
        /\ \A d \in Calls : d # Daemon => age'[d] = age[d]
    BY <1>1, TookTime DEF Start
  <2>3. tickIn' = Interval /\ ~tick' /\ UNCHANGED <<stamp, cancelled, covered>>
    BY <1>1 DEF Start
  <2>4. TypeOK'
    <3>1. tickIn' \in 1..Interval /\ tick' \in BOOLEAN
      <4>1. tickIn' = Interval /\ tick' = FALSE
        BY <1>1 DEF Start
      <4>2. Interval \in 1..Interval
        BY TimesAssumption
      <4> QED
        BY <4>1, <4>2
    <3> QED
      BY <2>1, <2>2, <2>3, <3>1 DEF TypeOK
  <2>5. TimelyInv'
    BY <2>1, <2>2 DEF TimelyInv
  <2>6. DaemonInv' /\ FreshInv'
    BY <1>1, <2>1, <2>2, <2>3 DEF DaemonInv, FreshInv, Start
  <2> QED
    BY <2>4, <2>5, <2>6
<1>2. CASE DaemonFails
  <2>1. pc' \in [Calls -> PCs] /\ pc'[Daemon] = "failed"
        /\ \A d \in Calls : d # Daemon => pc'[d] = pc[d]
    BY <1>2, Went DEF DaemonFails, PCs
  <2>2. TypeOK'
    <3>1. stamp' \in 0..Old
      BY <1>2 DEF TypeOK, DaemonFails
    <3>2. UNCHANGED <<age, ticker, cancelled>> /\ covered' = FALSE
      BY <1>2 DEF DaemonFails
    <3> QED
      BY <2>1, <3>1, <3>2 DEF TypeOK, ticker
  <2>3. TimelyInv'
    BY <1>2, <2>1 DEF TimelyInv, DaemonFails
  <2>4. DaemonInv' /\ FreshInv'
    BY <1>2, <2>1 DEF DaemonInv, FreshInv, DaemonFails
  <2> QED
    BY <2>2, <2>3, <2>4
<1>3. CASE NextTrim
  <2>1. pc' \in [Calls -> PCs] /\ pc'[Daemon] = "trim"
        /\ \A d \in Calls : d # Daemon => pc'[d] = pc[d]
    BY <1>3, Went DEF NextTrim, PCs
  <2>2. age' \in [Calls -> 0..Old] /\ age'[Daemon] = 0
        /\ \A d \in Calls : d # Daemon => age'[d] = age[d]
    BY <1>3, TookTime DEF NextTrim
  <2>3. tick' = FALSE /\ UNCHANGED <<stamp, tickIn, cancelled, covered>>
    BY <1>3 DEF NextTrim
  <2>4. TypeOK'
    BY <2>1, <2>2, <2>3 DEF TypeOK
  <2>5. TimelyInv'
    BY <2>1, <2>2 DEF TimelyInv
  <2>6. DaemonInv'
    BY <2>1, <2>2, <2>3 DEF DaemonInv
  <2>7. covered => stamp <= age[Daemon] + MaxTrim /\ age[Daemon] <= Gap
    BY <1>3 DEF FreshInv, DaemonInv, NextTrim
  <2>8. FreshInv'
    BY <2>1, <2>2, <2>3, <2>7 DEF FreshInv
  <2> QED
    BY <2>4, <2>5, <2>6, <2>8
<1>4. CASE Stop
  <2>1. pc' \in [Calls -> PCs] /\ pc'[Daemon] = "stopped"
        /\ \A d \in Calls : d # Daemon => pc'[d] = pc[d]
    BY <1>4, Went DEF Stop, PCs
  <2>2. TypeOK'
    BY <1>4, <2>1 DEF TypeOK, Stop, ticker
  <2>3. TimelyInv'
    BY <1>4, <2>1 DEF TimelyInv, Stop
  <2>4. DaemonInv' /\ FreshInv'
    BY <1>4, <2>1 DEF DaemonInv, FreshInv, Stop
  <2> QED
    BY <2>2, <2>3, <2>4
<1>5. CASE Cancel
  BY <1>5 DEF Cancel, ticker, TypeOK, TimelyInv, DaemonInv, FreshInv
<1> QED
  BY <1>1, <1>2, <1>3, <1>4, <1>5

\* A step of a call other than the daemon, which takes no time and leaves
\* trim.txt not older than what the daemon has left, or the daemon uncovered.
LEMMA OtherStep ==
  ASSUME IInv, TypeOK', TimelyInv', UNCHANGED ticker,
         pc'[Daemon] = pc[Daemon], age'[Daemon] = age[Daemon],
         covered' => covered /\ (stamp' <= stamp \/ stamp' <= MaxTrim)
  PROVE  IInv'
<1> USE Roles, GapBounds, Times DEF IInv
<1>1. DaemonInv'
  BY DEF DaemonInv, ticker
<1>2. FreshInv'
  BY DEF FreshInv, TypeOK
<1> QED
  BY <1>1, <1>2

\* Where a TrimForce is when it has ended.
LEMMA EndedAt ==
  ASSUME TypeOK, NEW t \in Forces, Ended(t)
  PROVE  /\ pc' \in [Calls -> PCs]
         /\ pc'[t] = IF t = Daemon THEN "select" ELSE "idle"
         /\ \A d \in Calls : d # t => pc'[d] = pc[d]
<1> DEFINE l == IF t = Daemon THEN "select" ELSE "idle"
<1>1. t \in Calls /\ l \in PCs /\ Goto(t, l)
  BY Roles DEF PCs, Ended
<1> HIDE DEF l
<1>2. pc' \in [Calls -> PCs] /\ pc'[t] = l /\ \A d \in Calls : d # t => pc'[d] = pc[d]
  BY <1>1, Went
<1> QED
  BY <1>2 DEF l

\* Steps of a TrimForce, the daemon's included.
LEMMA ForceStep ==
  ASSUME IInv, NEW t \in Forces,
         (t \in Trims /\ Begin(t)) \/ Stamp(t) \/ StampFails(t)
  PROVE  IInv'
<1> USE Roles, GapBounds, Times DEF IInv
<1>1. CASE t \in Trims /\ Begin(t)
  <2>1. pc' \in [Calls -> PCs] /\ pc'[t] = "trim"
        /\ \A d \in Calls : d # t => pc'[d] = pc[d]
    BY <1>1, Went DEF Begin, PCs
  <2>2. age' \in [Calls -> 0..Old] /\ age'[t] = 0
        /\ \A d \in Calls : d # t => age'[d] = age[d]
    BY <1>1, TookTime DEF Begin
  <2>3. UNCHANGED <<stamp, ticker, cancelled, covered>>
    BY <1>1 DEF Begin
  <2>4. TypeOK'
    BY <2>1, <2>2, <2>3 DEF TypeOK, ticker
  <2>5. TimelyInv'
    BY <2>1, <2>2 DEF TimelyInv
  <2> QED
    BY <1>1, <2>1, <2>2, <2>3, <2>4, <2>5, OtherStep
<1>2. CASE Stamp(t) \/ StampFails(t)
  <2>1. /\ pc' \in [Calls -> PCs]
        /\ pc'[t] = IF t = Daemon THEN "select" ELSE "idle"
        /\ \A d \in Calls : d # t => pc'[d] = pc[d]
    BY <1>2, EndedAt DEF Stamp, StampFails
  <2>2. UNCHANGED <<age, ticker, cancelled>> /\ pc[t] = "trim"
    BY <1>2 DEF Stamp, StampFails
  <2>3. stamp' \in 0..Old /\ covered' \in BOOLEAN
    <3>1. stamp' \in {stamp, Old, age[t]}
      BY <1>2 DEF Stamp, StampFails
    <3>2. stamp' \in 0..Old
      BY <3>1 DEF TypeOK
    <3>3. covered' \in BOOLEAN
      BY <1>2, Zenon DEF Stamp, StampFails
    <3> QED
      BY <3>2, <3>3
  <2>4. TypeOK'
    BY <2>1, <2>2, <2>3 DEF TypeOK, ticker
  <2>5. TimelyInv'
    BY <2>1, <2>2 DEF TimelyInv
  <2>6. age[t] \in Nat /\ age[t] <= MaxTrim /\ stamp' \in Nat
    BY <2>2, <2>3 DEF TimelyInv
  <2>7. CASE t = Daemon
    <3>1. pc[Daemon] = "trim" /\ pc'[Daemon] = "select" /\ age'[Daemon] = age[Daemon]
          /\ age[Daemon] \in Nat /\ age[Daemon] <= MaxTrim
      BY <2>1, <2>2, <2>6, <2>7
    <3>2. DaemonInv'
      BY <3>1, <2>2 DEF DaemonInv, ticker
    <3>3. covered' => stamp' = age[Daemon]
      BY <1>2, <2>7 DEF Stamp, StampFails
    <3>4. FreshInv'
      BY <3>1, <3>3, <2>6 DEF FreshInv
    <3> QED
      BY <2>4, <2>5, <3>2, <3>4
  <2>8. CASE t # Daemon
    <3>1. covered' => covered /\ (stamp' <= stamp \/ stamp' <= MaxTrim)
      <4>1. CASE Stamp(t)
        <5>1. stamp' = age[t] /\ covered' = (covered \/ t = Daemon)
          BY <4>1 DEF Stamp
        <5> QED
          BY <5>1, <2>6, <2>8
      <4>2. CASE StampFails(t)
        <5>1. covered' = (covered /\ t # Daemon /\ stamp' = stamp)
          BY <4>2 DEF StampFails
        <5>2. covered' => covered /\ stamp' = stamp
          BY <5>1, Zenon
        <5> QED
          BY <5>2, <2>6
      <4> QED
        BY <1>2, <4>1, <4>2
    <3>2. pc'[Daemon] = pc[Daemon] /\ age'[Daemon] = age[Daemon]
      BY <2>1, <2>2, <2>8
    <3> QED
      BY <2>2, <2>4, <2>5, <3>1, <3>2, OtherStep
  <2> QED
    BY <2>7, <2>8
<1> QED
  BY <1>1, <1>2

\* Steps of a go command.  One that trims leaves its own time in trim.txt, and
\* it is not older than what was there: nobody is as late as MtimeInterval.
LEMMA CloserStep ==
  ASSUME IInv, NEW g \in Closers,
         Close(g) \/ Check(g) \/ Transform(g) \/ TransformFails(g) \/ EndTrim(g)
  PROVE  IInv'
<1> USE Roles, GapBounds, Times DEF IInv
<1>1. CASE Close(g)
  <2>1. pc' \in [Calls -> PCs] /\ pc'[g] = "check"
        /\ \A d \in Calls : d # g => pc'[d] = pc[d]
    BY <1>1, Went DEF Close, PCs
  <2>2. age' \in [Calls -> 0..Old] /\ age'[g] = 0
        /\ \A d \in Calls : d # g => age'[d] = age[d]
    BY <1>1, TookTime DEF Close
  <2>3. UNCHANGED <<stamp, ticker, cancelled, covered>>
    BY <1>1 DEF Close
  <2>4. TypeOK'
    BY <2>1, <2>2, <2>3 DEF TypeOK, ticker
  <2>5. TimelyInv'
    BY <2>1, <2>2 DEF TimelyInv
  <2> QED
    BY <2>1, <2>2, <2>3, <2>4, <2>5, OtherStep
<1>2. CASE Check(g) \/ EndTrim(g)
  <2>1. /\ pc' \in [Calls -> PCs]
        /\ pc'[g] = "transform" => pc[g] = "check"
        /\ pc'[g] # "check" /\ pc'[g] # "trim"
        /\ \A d \in Calls : d # g => pc'[d] = pc[d]
    BY <1>2, Went DEF Check, EndTrim, PCs
  <2>2. UNCHANGED <<stamp, age, ticker, cancelled, covered>>
    BY <1>2 DEF Check, EndTrim
  <2>3. TypeOK'
    BY <2>1, <2>2 DEF TypeOK, ticker
  <2>4. TimelyInv'
    BY <2>1, <2>2 DEF TimelyInv
  <2> QED
    BY <2>1, <2>2, <2>3, <2>4, OtherStep
<1>3. CASE Transform(g) \/ TransformFails(g)
  <2>1. /\ pc' \in [Calls -> PCs]
        /\ pc'[g] \in {"idle", "standard"}
        /\ \A d \in Calls : d # g => pc'[d] = pc[d]
    BY <1>3, Went DEF Transform, TransformFails, PCs
  <2>2. UNCHANGED <<age, ticker, cancelled>>
    BY <1>3 DEF Transform, TransformFails
  <2>3. stamp' \in 0..Old /\ covered' \in BOOLEAN
    <3>1. stamp' \in {stamp, Old, age[g]}
      BY <1>3 DEF Transform, TransformFails
    <3>2. stamp' \in 0..Old
      BY <3>1 DEF TypeOK
    <3>3. covered' = FALSE \/ covered' = covered
      BY <1>3 DEF Transform, TransformFails
    <3> QED
      BY <3>2, <3>3 DEF TypeOK
  <2>4. TypeOK'
    BY <2>1, <2>2, <2>3 DEF TypeOK, ticker
  <2>5. TimelyInv'
    BY <2>1, <2>2 DEF TimelyInv
  <2>6. covered' => covered /\ (stamp' = stamp \/ (~SkipTrim(g) /\ stamp' = age[g]))
    <3>1. CASE Transform(g) /\ SkipTrim(g)
      BY <3>1 DEF Transform
    <3>2. CASE Transform(g) /\ ~SkipTrim(g)
      BY <3>2 DEF Transform
    <3>3. CASE TransformFails(g)
      BY <3>3 DEF TransformFails
    <3> QED
      BY <1>3, <3>1, <3>2, <3>3
  <2>7. age[g] \in Nat /\ age[g] <= MaxDelay
    BY <1>3 DEF TimelyInv, Transform, TransformFails
  <2>8. ~SkipTrim(g) => age[g] <= stamp
    BY <2>7, TimesAssumption DEF SkipTrim
  <2>9. covered' => covered /\ (stamp' <= stamp \/ stamp' <= MaxTrim)
    BY <2>6, <2>8
  <2>10. pc'[Daemon] = pc[Daemon] /\ age'[Daemon] = age[Daemon]
    BY <2>1, <2>2
  <2> QED
    BY <2>2, <2>4, <2>5, <2>9, <2>10, OtherStep
<1> QED
  BY <1>1, <1>2, <1>3

\* The clock.
LEMMA ClockStep == IInv /\ Clock => IInv'
<1> SUFFICES ASSUME IInv, Clock PROVE IInv'
  OBVIOUS
<1> USE Roles, GapBounds, TimesAssumption DEF IInv, TypeOK
<1>1. /\ stamp' \in 0..Old /\ stamp' <= stamp + 1 /\ stamp <= stamp'
      /\ UNCHANGED <<pc, cancelled, covered>>
  BY DEF Clock, Ages, Older
<1>2. /\ age' \in [Calls -> 0..Old]
      /\ \A c \in Calls : ~Running(c) => age'[c] = age[c]
      /\ \A c \in Calls : Running(c) => age'[c] = Older(age[c])
  BY DEF Clock, Ages, Older
<1>3. tickIn' \in 1..Interval /\ tick' \in BOOLEAN
  <2>1. CASE tickIn = 1
    BY <2>1, TimesAssumption DEF Clock
  <2>2. CASE tickIn # 1
    <3>1. tickIn' = tickIn - 1 /\ tick' = tick
      BY <2>2 DEF Clock
    <3> QED
      BY <2>2, <3>1
  <2> QED
    BY <2>1, <2>2
<1>4. TimelyInv'
  BY <1>1, <1>2 DEF TimelyInv, Clock, Ages, InTime, Older, Running
<1>5. pc[Daemon] \in {"trim", "select"} => age'[Daemon] = Older(age[Daemon])
  BY <1>2 DEF Running
<1>6. DaemonInv'
  BY <1>1, <1>2, <1>3, <1>5
     DEF DaemonInv, Clock, Ages, InTime, Older
<1>7. FreshInv'
  BY <1>1, <1>2, <1>5 DEF FreshInv, Clock, Ages, Older
<1> QED
  BY <1>1, <1>2, <1>3, <1>4, <1>6, <1>7

\* Every step preserves the invariant.
LEMMA Step == IInv /\ [Next]_vars => IInv'
<1> SUFFICES ASSUME IInv, [Next]_vars PROVE IInv'
  OBVIOUS
<1>1. CASE Start \/ DaemonFails \/ NextTrim \/ Stop \/ Cancel
  BY <1>1, DaemonStep
<1>2. CASE Clock
  BY <1>2, ClockStep
<1>3. ASSUME NEW t \in Trims, Begin(t) PROVE IInv'
  BY <1>3, ForceStep DEF Forces
<1>4. ASSUME NEW g \in Closers, Close(g) PROVE IInv'
  BY <1>4, CloserStep
<1>5. ASSUME NEW c \in Calls, Proceed(c) PROVE IInv'
  BY <1>5, ForceStep, CloserStep DEF Proceed
<1>6. CASE UNCHANGED vars
  BY <1>6 DEF vars, ticker, IInv, TypeOK, TimelyInv, DaemonInv, FreshInv
<1> QED
  BY <1>1, <1>2, <1>3, <1>4, <1>5, <1>6 DEF Next

-----------------------------------------------------------------------------
\* The invariant holds of every behaviour.
THEOREM Invariant == Spec => []IInv
BY InitInv, Step, PTL DEF Spec

\* Every variable of Trimd has its type, for any number of calls and any times.
THEOREM TypeCorrect == Spec => []TypeOK
BY Invariant, PTL DEF IInv

\* trim.txt is never older than the daemon's gap and twice the time of a trim,
\* however many trims overlap: what a slow trim overwrites costs no more.
THEOREM FreshCorrect == Spec => []StampIsFresh
BY Invariant, Fresh, PTL

\* A step by which a go command begins the standard trim is one of Transform.
LEMMA PreventedStep ==
  ASSUME IInv, [Next]_vars,
         Gap + 2 * MaxTrim < TrimInterval,
         NEW g \in Closers, pc[g] # "standard", pc'[g] = "standard"
  PROVE  ~covered'
<1> USE Roles DEF IInv, TypeOK, Goto
<1>1. CASE Start \/ DaemonFails \/ NextTrim \/ Stop \/ Cancel \/ Clock
  BY <1>1 DEF Start, DaemonFails, NextTrim, Stop, Cancel, Clock, Ages
<1>2. ASSUME NEW t \in Trims, Begin(t) PROVE FALSE
  BY <1>2 DEF Begin
<1>3. ASSUME NEW h \in Closers, Close(h) PROVE FALSE
  BY <1>3 DEF Close
<1>4. ASSUME NEW t \in Forces, Stamp(t) \/ StampFails(t) PROVE FALSE
  BY <1>4 DEF Stamp, StampFails, Ended
<1>5. ASSUME NEW h \in Closers, Check(h) \/ EndTrim(h) PROVE FALSE
  BY <1>5 DEF Check, EndTrim
<1>6. ASSUME NEW h \in Closers, Transform(h) PROVE ~covered'
  <2>1. h = g /\ ~SkipTrim(g) /\ covered' = covered
    BY <1>6 DEF Transform
  <2>2. age[g] \in Nat /\ age[g] <= MaxDelay
    BY <1>6, <2>1 DEF Transform, TimelyInv
  <2>3. covered => SkipTrim(g)
    <3>1. stamp \in Nat /\ Gap \in Nat /\ MaxTrim \in Nat /\ MaxDelay \in Nat
          /\ MtimeInterval \in Nat /\ TrimInterval \in Nat /\ MaxDelay < MtimeInterval
      BY GapBounds, Times, TimesAssumption
    <3>2. covered => stamp <= Gap + 2 * MaxTrim
      BY Fresh DEF StampIsFresh
    <3> QED
      BY <2>2, <3>1, <3>2 DEF SkipTrim
  <2> QED
    BY <2>1, <2>3
<1>7. ASSUME NEW h \in Closers, TransformFails(h) PROVE ~covered'
  BY <1>7 DEF TransformFails
<1>8. CASE UNCHANGED vars
  BY <1>8 DEF vars
<1> QED
  BY <1>1, <1>2, <1>3, <1>4, <1>5, <1>6, <1>7, <1>8 DEF Next, Proceed

\* As long as the daemon is covered, no go command starts the standard trim,
\* for any intervals that leave room for two trims.
THEOREM PreventedCorrect == Spec => StandardTrimPrevented
<1>1. IInv /\ [Next]_vars =>
        [Gap + 2 * MaxTrim < TrimInterval =>
           \A g \in Closers :
             pc[g] # "standard" /\ pc'[g] = "standard" => ~covered']_vars
  BY PreventedStep
<1> QED
  BY <1>1, Invariant, PTL DEF Spec, StandardTrimPrevented

=============================================================================
