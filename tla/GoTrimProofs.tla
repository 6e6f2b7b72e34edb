---------------------------- MODULE GoTrimProofs ----------------------------
(***************************************************************************)
(* The types of GoTrim, and that it keeps its trims apart, leaves nothing  *)
(* older than the cutoff and removes nothing that was in use, for every    *)
(* value of the constants.                                                 *)
(***************************************************************************)
EXTENDS GoTrim, CacheDirProofs, TLAPS

\* A call has the time of a moment ago, and has not stamped or begun to read
\* before it is past the lock.
OrderInv(c) ==
  /\ time[c] <= now
  /\ pc[c] \in {"idle", "check", "transform"} =>
       stampAt[c] = None /\ subdir[c] = 0
  /\ entry[c] # None => pc[c] = "trim"

\* The entry is one the call has to remove.
Due(c, e) ==
  /\ pc[c] \in {"trim", "done"}
  /\ e \notin missed[c]
  /\ dir[e] # None /\ dir[e].mtime < Cutoff(c)

\* Such an entry is ahead of the call until it is removed.
DueInv(c) ==
  \A e \in Entries : Due(c, e) =>
    /\ pc[c] # "done"
    /\ SubdirOf[e] > subdir[c] \/ e \in names[c] \/ e = entry[c]

\* What the call is about to remove has not been used for long, or it has
\* been used since the call looked.
StatInv(c) ==
  \A e \in Entries : entry[c] = e =>
    /\ statAt[c] <= now
    /\ lastGet[e] < time[c] - TrimLimit \/ lastGet[e] >= statAt[c]

CallInv(c) == OrderInv(c) /\ DueInv(c) /\ StatInv(c)

\* While nothing has damaged trim.txt and no call was late, it holds the last
\* of the times written to it.
StampInv ==
  ~torn /\ (\A c \in Closers : ~Late(c)) =>
    \A c \in Closers : stampAt[c] # None =>
      trimTxt # None /\ trimTxt <= now /\ time[c] <= trimTxt

IInv ==
  /\ TypeOK /\ LagInv /\ StampInv /\ TrimsApart
  /\ \A c \in Closers : CallInv(c)

-----------------------------------------------------------------------------
\* What is assumed of the constants, in the form the steps use.
LEMMA TrimConstants ==
  /\ NumSubdirs \in Nat /\ TrimLimit \in Nat
  /\ SubdirOf \in [Entries -> 1..NumSubdirs]
  /\ MtimeInterval \in Nat \ {0} /\ TrimInterval \in Nat \ {0}
  /\ None \notin Int /\ None \notin File /\ None \notin Entries
BY GoTrimAssumption, TimeAssumption, NoneAssumption

\* The directory, in any step.
LEMMA DirStep ==
  ASSUME TypeOK, LagInv, [Next]_vars
  PROVE  DirTypeOK' /\ LagInv' /\ Ages
<1>1. DirTypeOK
  BY DEF TypeOK
<1>2. CASE Environment
  BY <1>1, <1>2, GoCommandStep, TickStep DEF Environment
<1>3. ASSUME NEW c \in Closers, entry[c] # None,
             RemoveAll(entry[c]) \/ RemoveAllFails(entry[c])
      PROVE  DirTypeOK' /\ LagInv' /\ Ages
  <2>1. entry[c] \in Entries
    BY <1>3 DEF TypeOK
  <2> QED
    BY <1>1, <1>3, <2>1, RemoveStep
<1>4. ASSUME NEW c \in Closers,
             trimTxt' \in {trimTxt, time[c]} \cup {None} \cup Stamps,
             UNCHANGED <<now, dir, history>>
      PROVE  DirTypeOK' /\ LagInv' /\ Ages
  <2>1. trimTxt' \in Nat \cup {None}
    BY <1>4, TimeAssumption DEF TypeOK, DirTypeOK
  <2> QED
    BY <1>1, <1>4, <2>1, OtherStep
<1>5. ASSUME NEW c \in Closers,
             Close(c) \/ Check(c) \/ OpenSubdir(c) \/ StatEntry(c) \/ EndTrim(c)
      PROVE  DirTypeOK' /\ LagInv' /\ Ages
  <2>1. UNCHANGED dirVars
    BY <1>5 DEF Close, Check, OpenSubdir, StatEntry, EndTrim
  <2> QED
    BY <1>1, <2>1, OtherStep DEF dirVars, DirTypeOK
<1>6. CASE UNCHANGED vars
  BY <1>1, <1>6, OtherStep DEF vars, dirVars, DirTypeOK
<1>7. ASSUME NEW c \in Closers, Transform(c) \/ TransformFails(c)
      PROVE  DirTypeOK' /\ LagInv' /\ Ages
  BY <1>4, <1>7 DEF Transform, TransformFails, Tear
<1>8. ASSUME NEW c \in Closers, RemoveEntry(c)
      PROVE  DirTypeOK' /\ LagInv' /\ Ages
  BY <1>3, <1>8 DEF RemoveEntry
<1>9. ASSUME NEW c \in Closers, Crash(c)
      PROVE  DirTypeOK' /\ LagInv' /\ Ages
  BY <1>3, <1>4, <1>9 DEF Crash, Tear, dirVars
<1> QED
  BY <1>2, <1>5, <1>6, <1>7, <1>8, <1>9 DEF Next, CloseStep

LEMMA InitType == Init => TypeOK
<1> SUFFICES ASSUME Init PROVE TypeOK
  OBVIOUS
<1>1. DirTypeOK
  BY InitDir DEF Init
<1>2. torn \in BOOLEAN
  BY DEF Init, CloseInit
<1> QED
  BY <1>1, <1>2, TrimConstants DEF Init, CloseInit, TypeOK, PCs

LEMMA StepType ==
  ASSUME TypeOK, LagInv, [Next]_vars
  PROVE  TypeOK'
<1> USE TrimConstants DEF PCs, Goto, loopVars
<1>1. DirTypeOK /\ DirTypeOK'
  BY DirStep DEF TypeOK
<1>2. ASSUME NEW c \in Closers, Close(c) PROVE TypeOK'
  BY <1>1, <1>2 DEF Close, TypeOK, DirTypeOK
<1>3. ASSUME NEW c \in Closers, Check(c) PROVE TypeOK'
  BY <1>1, <1>3 DEF Check, TypeOK
<1>4. ASSUME NEW c \in Closers, Transform(c) PROVE TypeOK'
  BY <1>1, <1>4 DEF Transform, TypeOK, DirTypeOK
<1>5. ASSUME NEW c \in Closers, TransformFails(c) PROVE TypeOK'
  BY <1>1, <1>5 DEF TransformFails, Tear, TypeOK
<1>6. ASSUME NEW c \in Closers, OpenSubdir(c) PROVE TypeOK'
  <2>1. PICK read \in SUBSET Entries :
          /\ names' = [names EXCEPT ![c] = read]
          /\ \E more \in SUBSET Entries :
               missed' = [missed EXCEPT ![c] = @ \cup more]
    BY <1>6 DEF OpenSubdir
  <2>2. names' \in [Closers -> SUBSET Entries] /\ missed' \in [Closers -> SUBSET Entries]
    BY <2>1 DEF TypeOK
  <2>3. subdir' \in [Closers -> 0..NumSubdirs]
    BY <1>6 DEF OpenSubdir, TypeOK
  <2> QED
    BY <1>1, <1>6, <2>2, <2>3 DEF OpenSubdir, TypeOK
<1>7. ASSUME NEW c \in Closers, StatEntry(c) PROVE TypeOK'
  <2>1. PICK e \in names[c] :
          /\ names' = [names EXCEPT ![c] = @ \ {e}]
          /\ entry' \in {entry, [entry EXCEPT ![c] = e]}
          /\ statAt' \in {statAt, [statAt EXCEPT ![c] = now]}
          /\ missed' \in {missed, [missed EXCEPT ![c] = @ \cup {e}]}
    BY <1>7 DEF StatEntry
  <2>2. e \in Entries /\ now \in Nat
    BY DEF TypeOK, DirTypeOK
  <2> QED
    BY <1>1, <1>7, <2>1, <2>2 DEF StatEntry, TypeOK
<1>8. ASSUME NEW c \in Closers, RemoveEntry(c) PROVE TypeOK'
  <2>1. missed' \in {missed, [missed EXCEPT ![c] = @ \cup {entry[c]}]}
    BY <1>8 DEF RemoveEntry
  <2>2. entry[c] \in Entries
    BY <1>8 DEF RemoveEntry, TypeOK
  <2> QED
    BY <1>1, <1>8, <2>1, <2>2 DEF RemoveEntry, TypeOK
<1>9. ASSUME NEW c \in Closers, EndTrim(c) PROVE TypeOK'
  BY <1>1, <1>9 DEF EndTrim, TypeOK
<1>10. ASSUME NEW c \in Closers, Crash(c) PROVE TypeOK'
  <2>1. torn' \in BOOLEAN
    BY <1>10 DEF Crash, Tear, TypeOK
  <2>2. pc' \in [Closers -> PCs] /\ subdir' \in [Closers -> 0..NumSubdirs]
    BY <1>10 DEF Crash, TypeOK
  <2>3. names' \in [Closers -> SUBSET Entries] /\ missed' \in [Closers -> SUBSET Entries]
    BY <1>10 DEF Crash, TypeOK
  <2>4. entry' \in [Closers -> Entries \cup {None}] /\ statAt' \in [Closers -> Nat]
    BY <1>10 DEF Crash, TypeOK
  <2>5. time' \in [Closers -> Nat] /\ stampAt' \in [Closers -> Nat \cup {None}]
    BY <1>10 DEF Crash, TypeOK
  <2> QED
    BY <1>1, <2>1, <2>2, <2>3, <2>4, <2>5 DEF TypeOK
<1>11. CASE Environment \/ UNCHANGED vars
  BY <1>1, <1>11 DEF Environment, vars, TypeOK
<1> QED
  BY <1>2, <1>3, <1>4, <1>5, <1>6, <1>7, <1>8, <1>9, <1>10, <1>11
     DEF Next, CloseStep

-----------------------------------------------------------------------------
\* The call is where it was.
SameCall(c) ==
  /\ pc'[c] = pc[c] /\ time'[c] = time[c] /\ stampAt'[c] = stampAt[c]
  /\ subdir'[c] = subdir[c] /\ names'[c] = names[c] /\ entry'[c] = entry[c]
  /\ statAt'[c] = statAt[c] /\ missed'[c] = missed[c]

LEMMA OthersSame ==
  ASSUME TypeOK, NEW c \in Closers,
         \/ Environment \/ UNCHANGED vars
         \/ \E d \in Closers : d # c /\ CloseStep(d)
  PROVE  SameCall(c)
<1> USE DEF SameCall, TypeOK, Goto, loopVars
<1>1. CASE Environment \/ UNCHANGED vars
  BY <1>1 DEF Environment, vars
<1>2. ASSUME NEW d \in Closers, d # c, CloseStep(d) PROVE SameCall(c)
  <2>1. CASE Close(d) \/ Check(d) \/ Transform(d) \/ TransformFails(d)
    BY <1>2, <2>1 DEF Close, Check, Transform, TransformFails
  <2>2. CASE OpenSubdir(d)
    BY <1>2, <2>2 DEF OpenSubdir
  <2>3. CASE StatEntry(d)
    BY <1>2, <2>3 DEF StatEntry
  <2>4. CASE RemoveEntry(d)
    BY <1>2, <2>4 DEF RemoveEntry
  <2>5. CASE EndTrim(d) \/ Crash(d)
    BY <1>2, <2>5 DEF EndTrim, Crash
  <2> QED
    BY <1>2, <2>1, <2>2, <2>3, <2>4, <2>5 DEF CloseStep
<1> QED
  BY <1>1, <1>2

\* An entry does not come to be due to a call that has taken its time.
LEMMA OldStays ==
  ASSUME TypeOK, TypeOK', Ages, NEW c \in Closers, time[c] <= now,
         time'[c] = time[c], NEW e \in Entries,
         dir'[e] # None, dir'[e].mtime < Cutoff(c)'
  PROVE  dir[e] # None /\ dir[e].mtime < Cutoff(c)
<1>1. /\ time[c] \in Nat /\ now \in Nat /\ now' \in Nat /\ now <= now'
  BY DEF TypeOK, DirTypeOK, Ages
<1>2. Cutoff(c)' = Cutoff(c) /\ Cutoff(c) <= now
  BY <1>1, TrimConstants DEF Cutoff
<1>3. dir'[e].mtime \in Nat
  BY DEF TypeOK, DirTypeOK, File
<1> QED
  BY <1>1, <1>2, <1>3, TrimConstants DEF Ages, Cutoff

\* What others do does not disturb the invariant of a call.
LEMMA OutsideStep ==
  ASSUME TypeOK, TypeOK', Ages, NEW c \in Closers, CallInv(c), SameCall(c)
  PROVE  CallInv(c)'
<1>1. /\ now \in Nat /\ now' \in Nat /\ now <= now'
      /\ time[c] \in Nat /\ time[c] <= now /\ statAt[c] \in Nat
  BY DEF TypeOK, DirTypeOK, Ages, CallInv, OrderInv
<1>2. OrderInv(c)'
  BY <1>1 DEF SameCall, CallInv, OrderInv
<1>3. DueInv(c)'
  <2> SUFFICES ASSUME NEW e \in Entries, Due(c, e)'
               PROVE  /\ pc[c] # "done"
                      /\ SubdirOf[e] > subdir[c] \/ e \in names[c] \/ e = entry[c]
    BY DEF SameCall, DueInv
  <2>1. Due(c, e)
    BY <1>1, OldStays DEF SameCall, Due
  <2> QED
    BY <2>1 DEF CallInv, DueInv
<1>4. StatInv(c)'
  <2> SUFFICES ASSUME NEW e \in Entries, entry[c] = e
               PROVE  /\ statAt[c] <= now'
                      /\ \/ lastGet'[e] < time[c] - TrimLimit
                         \/ lastGet'[e] >= statAt[c]
    BY DEF SameCall, StatInv
  <2>1. /\ statAt[c] <= now
        /\ lastGet[e] < time[c] - TrimLimit \/ lastGet[e] >= statAt[c]
    BY DEF CallInv, StatInv
  <2>2. lastGet'[e] = lastGet[e] \/ lastGet'[e] >= statAt[c]
    BY <1>1, <2>1 DEF Ages
  <2> QED
    BY <1>1, <2>1, <2>2
<1> QED
  BY <1>2, <1>3, <1>4 DEF CallInv

-----------------------------------------------------------------------------
\* A call's own steps.
LEMMA GateStep ==
  ASSUME TypeOK, TypeOK', NEW c \in Closers, CallInv(c),
         Close(c) \/ Check(c) \/ Transform(c) \/ TransformFails(c)
  PROVE  CallInv(c)'
<1> USE TrimConstants
<1>1. /\ UNCHANGED <<now, dir, lastGet, subdir, names, entry, statAt, missed>>
      /\ pc[c] \in {"idle", "check", "transform"}
      /\ pc'[c] \in {"check", "transform", "skipped", "unsupported", "trim"}
      /\ time'[c] \in {time[c], now}
      /\ pc'[c] \in {"check", "transform"} => stampAt'[c] = stampAt[c]
  BY DEF Close, Check, Transform, TransformFails, Goto, loopVars, dirVars,
         history, TypeOK
<1>2. stampAt[c] = None /\ subdir[c] = 0 /\ entry[c] = None
  BY <1>1 DEF CallInv, OrderInv
<1>3. OrderInv(c)'
  BY <1>1, <1>2 DEF CallInv, OrderInv, TypeOK, DirTypeOK
<1>4. DueInv(c)'
  BY <1>1, <1>2 DEF DueInv, Due
<1>5. StatInv(c)'
  BY <1>1, <1>2 DEF StatInv
<1> QED
  BY <1>3, <1>4, <1>5 DEF CallInv

LEMMA OpenSubdirStep ==
  ASSUME TypeOK, NEW c \in Closers, CallInv(c), OpenSubdir(c)
  PROVE  CallInv(c)'
<1> USE TrimConstants
<1>1. /\ UNCHANGED <<now, dir, lastGet, pc, time, entry, statAt, stampAt>>
      /\ pc[c] = "trim" /\ names[c] = {} /\ entry[c] = None
      /\ subdir'[c] = subdir[c] + 1 /\ subdir[c] \in Nat
  BY DEF OpenSubdir, dirVars, history, TypeOK
<1>2. PICK read :
        /\ names'[c] = read
        /\ missed'[c] = missed[c] \cup
             ({e \in Entries : SubdirOf[e] = subdir[c] + 1 /\ dir[e] # None} \ read)
  BY DEF OpenSubdir, TypeOK
<1>3. DueInv(c)'
  <2> SUFFICES ASSUME NEW e \in Entries, Due(c, e)'
               PROVE  SubdirOf[e] > subdir[c] + 1 \/ e \in read
    BY <1>1, <1>2 DEF DueInv
  <2>1. Due(c, e)
    BY <1>1, <1>2 DEF Due, Cutoff
  <2>2. SubdirOf[e] > subdir[c]
    BY <1>1, <2>1 DEF CallInv, DueInv
  <2>3. SubdirOf[e] = subdir[c] + 1 => e \in read
    BY <1>1, <1>2 DEF Due
  <2> QED
    BY <1>1, <2>2, <2>3
<1>4. OrderInv(c)' /\ StatInv(c)'
  BY <1>1 DEF CallInv, OrderInv, StatInv
<1> QED
  BY <1>3, <1>4 DEF CallInv

LEMMA StatEntryStep ==
  ASSUME TypeOK, LagInv, NEW c \in Closers, CallInv(c), StatEntry(c)
  PROVE  CallInv(c)'
<1> USE TrimConstants
<1>1. /\ UNCHANGED <<now, dir, lastGet, pc, time, subdir, stampAt>>
      /\ pc[c] = "trim" /\ entry[c] = None
  BY DEF StatEntry, dirVars, history
<1>2. PICK e \in names[c] :
        /\ names' = [names EXCEPT ![c] = @ \ {e}]
        /\ IF dir[e] # None /\ dir[e].mtime < Cutoff(c)
             THEN \/ /\ entry' = [entry EXCEPT ![c] = e]
                     /\ statAt' = [statAt EXCEPT ![c] = now]
                     /\ UNCHANGED missed
                  \/ /\ missed' = [missed EXCEPT ![c] = @ \cup {e}]
                     /\ UNCHANGED <<entry, statAt>>
             ELSE UNCHANGED <<entry, statAt, missed>>
  BY DEF StatEntry
<1>3. e \in Entries /\ names'[c] = names[c] \ {e}
  BY <1>2 DEF TypeOK
<1>4. /\ entry'[c] \in {e, None}
      /\ entry'[c] = e => /\ statAt'[c] = now
                          /\ dir[e] # None /\ dir[e].mtime < Cutoff(c)
      /\ missed[c] \subseteq missed'[c]
      /\ dir[e] # None /\ dir[e].mtime < Cutoff(c) =>
           entry'[c] = e \/ e \in missed'[c]
  BY <1>1, <1>2, <1>3 DEF TypeOK
<1>5. DueInv(c)'
  <2> SUFFICES ASSUME NEW f \in Entries, Due(c, f)'
               PROVE  SubdirOf[f] > subdir[c] \/ f \in names'[c] \/ f = entry'[c]
    BY <1>1 DEF DueInv
  <2>1. Due(c, f)
    BY <1>1, <1>4 DEF Due, Cutoff
  <2>2. SubdirOf[f] > subdir[c] \/ f \in names[c]
    BY <1>1, <2>1 DEF CallInv, DueInv
  <2>3. f = e => f = entry'[c]
    BY <1>4, <2>1 DEF Due
  <2> QED
    BY <1>3, <2>2, <2>3
<1>6. StatInv(c)'
  <2> SUFFICES ASSUME entry'[c] = e
               PROVE  /\ statAt'[c] <= now
                      /\ lastGet[e] < time[c] - TrimLimit
    BY <1>1, <1>3, <1>4 DEF StatInv
  <2>1. /\ statAt'[c] = now /\ now \in Nat
        /\ dir[e] # None /\ dir[e].mtime < time[c] - TrimLimit - MtimeInterval
        /\ dir[e].mtime \in Nat /\ lastGet[e] \in Nat /\ time[c] \in Nat
    BY <1>3, <1>4 DEF Cutoff, TypeOK, DirTypeOK, File
  <2>2. lastGet[e] < dir[e].mtime + MtimeInterval
    BY <1>3, <2>1 DEF LagInv
  <2> QED
    BY <2>1, <2>2
<1>7. OrderInv(c)'
  BY <1>1 DEF CallInv, OrderInv
<1> QED
  BY <1>5, <1>6, <1>7 DEF CallInv

LEMMA RemoveEntryStep ==
  ASSUME TypeOK, TypeOK', Ages, NEW c \in Closers, CallInv(c), RemoveEntry(c)
  PROVE  CallInv(c)'
<1> USE TrimConstants
<1>1. /\ UNCHANGED <<now, lastGet, pc, time, subdir, names, stampAt>>
      /\ pc[c] = "trim" /\ entry[c] # None /\ entry[c] \in Entries
      /\ entry'[c] = None
  BY DEF RemoveEntry, RemoveAll, RemoveAllFails, history, TypeOK
<1>2. /\ dir'[entry[c]] = None \/ entry[c] \in missed'[c]
      /\ missed[c] \subseteq missed'[c]
  BY <1>1 DEF RemoveEntry, RemoveAll, TypeOK, DirTypeOK
<1>3. DueInv(c)'
  <2> SUFFICES ASSUME NEW e \in Entries, Due(c, e)'
               PROVE  SubdirOf[e] > subdir[c] \/ e \in names[c]
    BY <1>1 DEF DueInv
  <2>1. Due(c, e)
    BY <1>1, <1>2, OldStays DEF Due, CallInv, OrderInv
  <2>2. e # entry[c]
    BY <1>2 DEF Due
  <2> QED
    BY <2>1, <2>2 DEF CallInv, DueInv
<1>4. OrderInv(c)' /\ StatInv(c)'
  BY <1>1 DEF CallInv, OrderInv, StatInv
<1> QED
  BY <1>3, <1>4 DEF CallInv

LEMMA EndTrimStep ==
  ASSUME TypeOK, NEW c \in Closers, CallInv(c), EndTrim(c)
  PROVE  CallInv(c)'
<1> USE TrimConstants
<1>1. /\ UNCHANGED <<now, dir, lastGet, time, subdir, names, entry, statAt, missed, stampAt>>
      /\ pc[c] = "trim" /\ pc'[c] = "done"
      /\ names[c] = {} /\ entry[c] = None /\ subdir[c] = NumSubdirs
  BY DEF EndTrim, dirVars, history, loopVars, Goto, TypeOK
<1>2. DueInv(c)'
  <2> SUFFICES ASSUME NEW e \in Entries, Due(c, e)' PROVE FALSE
    BY DEF DueInv
  <2>1. Due(c, e)
    BY <1>1 DEF Due, Cutoff
  <2> QED
    BY <1>1, <2>1 DEF CallInv, DueInv
<1>3. OrderInv(c)' /\ StatInv(c)'
  BY <1>1 DEF CallInv, OrderInv, StatInv
<1> QED
  BY <1>2, <1>3 DEF CallInv

LEMMA CrashStep ==
  ASSUME TypeOK, NEW c \in Closers, CallInv(c), Crash(c)
  PROVE  CallInv(c)'
<1>1. /\ UNCHANGED <<now, time>>
      /\ pc'[c] = "killed" /\ entry'[c] = None
  BY DEF Crash, RemoveAllFails, dirVars, Goto, TypeOK
<1> QED
  BY <1>1, TrimConstants DEF CallInv, OrderInv, DueInv, Due, StatInv

-----------------------------------------------------------------------------
\* The stamps.  A step that writes none leaves the times of those who have
\* stamped alone.
StampsSame ==
  /\ now <= now'
  /\ stampAt' = stampAt
  /\ \A c \in Closers : stampAt[c] # None => time'[c] = time[c]
  /\ torn \/ torn' \/ trimTxt' = trimTxt
  /\ torn => torn'

LEMMA NoStamp ==
  ASSUME TypeOK, TypeOK', StampInv, TrimsApart, StampsSame
  PROVE  StampInv' /\ TrimsApart'
<1>1. ASSUME ~torn', \A c \in Closers : ~Late(c)'
      PROVE  ~torn /\ (\A c \in Closers : ~Late(c)) /\ trimTxt' = trimTxt
  BY <1>1 DEF StampsSame, Late
<1>2. StampInv'
  <2> SUFFICES ASSUME ~torn', \A c \in Closers : ~Late(c)',
                      NEW c \in Closers, stampAt'[c] # None
               PROVE  trimTxt' # None /\ trimTxt' <= now' /\ time'[c] <= trimTxt'
    BY DEF StampInv
  <2>1. trimTxt # None /\ trimTxt <= now /\ time[c] <= trimTxt
    BY <1>1 DEF StampInv, StampsSame
  <2>2. trimTxt \in Nat /\ now \in Nat /\ now' \in Nat
    BY <2>1 DEF TypeOK, DirTypeOK
  <2> QED
    BY <1>1, <2>1, <2>2 DEF StampsSame
<1>3. TrimsApart'
  BY <1>1 DEF TrimsApart, StampsSame
<1> QED
  BY <1>2, <1>3

LEMMA TransformStep ==
  ASSUME TypeOK, TypeOK', StampInv, TrimsApart, NEW c \in Closers, CallInv(c),
         Transform(c)
  PROVE  StampInv' /\ TrimsApart'
<1> USE TrimConstants
<1>1. CASE SkipTrim(trimTxt, time[c])
  <2>1. StampsSame
    BY <1>1 DEF Transform, StampsSame, TypeOK, DirTypeOK
  <2> QED
    BY <2>1, NoStamp
<1>2. CASE ~SkipTrim(trimTxt, time[c])
  <2>1. /\ trimTxt' = time[c] /\ UNCHANGED <<now, time, torn>>
        /\ stampAt'[c] = now /\ stampAt[c] = None
        /\ \A d \in Closers : d # c => stampAt'[d] = stampAt[d]
        /\ now \in Nat /\ time[c] \in Nat /\ time[c] <= now
    BY <1>2 DEF Transform, CallInv, OrderInv, TypeOK, DirTypeOK
  <2>2. ASSUME ~torn', \A d \in Closers : ~Late(d)', NEW d \in Closers, d # c,
               stampAt[d] # None
        PROVE  time[c] - time[d] >= TrimInterval
    <3>1. ~torn /\ \A b \in Closers : ~Late(b)
      BY <2>1, <2>2 DEF Late
    <3>2. /\ trimTxt # None /\ trimTxt \in Nat /\ trimTxt <= now
          /\ time[d] <= trimTxt /\ time[d] \in Nat
      BY <2>2, <3>1 DEF StampInv, TypeOK, DirTypeOK
    <3>3. now - time[c] < MtimeInterval
      BY <2>1, <2>2 DEF Late
    <3>4. \/ time[c] - trimTxt >= TrimInterval
          \/ time[c] - trimTxt <= -MtimeInterval
      BY <1>2, <2>1, <3>2 DEF SkipTrim
    <3> QED
      BY <2>1, <3>2, <3>3, <3>4
  <2>3. StampInv'
    <3> SUFFICES ASSUME ~torn', \A d \in Closers : ~Late(d)',
                        NEW d \in Closers, stampAt'[d] # None
                 PROVE  time[d] <= time[c]
      BY <2>1 DEF StampInv
    <3>1. time[d] \in Nat
      BY DEF TypeOK
    <3> QED
      BY <2>1, <2>2, <3>1
  <2>4. TrimsApart'
    BY <2>1, <2>2 DEF TrimsApart, Late
  <2> QED
    BY <2>3, <2>4
<1> QED
  BY <1>1, <1>2

LEMMA OtherStamps ==
  ASSUME TypeOK, TypeOK', Ages, \A c \in Closers : CallInv(c), [Next]_vars,
         \A c \in Closers : ~Transform(c)
  PROVE  StampsSame
<1>1. now <= now' /\ now \in Nat
  BY DEF Ages, TypeOK, DirTypeOK
<1>2. CASE Environment \/ UNCHANGED vars
  BY <1>1, <1>2 DEF Environment, GoCommand, MarkUsed, PutIndexEntry, PutOutput,
     PutExecutable, Tick, StampsSame, vars, dirVars
<1>3. ASSUME NEW c \in Closers, Close(c) PROVE StampsSame
  BY <1>1, <1>3 DEF Close, StampsSame, CallInv, OrderInv, TypeOK, dirVars
<1>4. ASSUME NEW c \in Closers, TransformFails(c) \/ Crash(c) PROVE StampsSame
  BY <1>1, <1>4 DEF TransformFails, Crash, Tear, RemoveAllFails, dirVars, StampsSame
<1>5. ASSUME NEW c \in Closers, RemoveEntry(c) PROVE StampsSame
  BY <1>1, <1>5 DEF RemoveEntry, RemoveAll, RemoveAllFails, StampsSame
<1>6. ASSUME NEW c \in Closers,
             Check(c) \/ OpenSubdir(c) \/ StatEntry(c) \/ EndTrim(c)
      PROVE  StampsSame
  BY <1>1, <1>6 DEF Check, OpenSubdir, StatEntry, EndTrim, StampsSame, dirVars
<1> QED
  BY <1>2, <1>3, <1>4, <1>5, <1>6 DEF Next, CloseStep

-----------------------------------------------------------------------------
LEMMA InitInv == Init => IInv
<1> SUFFICES ASSUME Init PROVE IInv
  OBVIOUS
<1>1. TypeOK /\ LagInv
  BY InitType, InitDir DEF Init
<1>2. StampInv /\ TrimsApart
  BY DEF Init, CloseInit, StampInv, TrimsApart
<1>3. ASSUME NEW c \in Closers PROVE CallInv(c)
  BY <1>1, TrimConstants DEF Init, CloseInit, CallInv, OrderInv, DueInv, Due,
     StatInv, TypeOK, DirTypeOK
<1> QED
  BY <1>1, <1>2, <1>3 DEF IInv

LEMMA NextInv ==
  ASSUME IInv, [Next]_vars
  PROVE  IInv'
<1>1. TypeOK /\ LagInv /\ TypeOK' /\ LagInv' /\ Ages
  BY StepType, DirStep DEF IInv
<1>2. ASSUME NEW c \in Closers PROVE CallInv(c)'
  <2>1. CallInv(c)
    BY DEF IInv
  <2>2. CASE CloseStep(c)
    BY <1>1, <2>1, <2>2, GateStep, OpenSubdirStep, StatEntryStep,
       RemoveEntryStep, EndTrimStep, CrashStep DEF CloseStep
  <2>3. CASE ~CloseStep(c)
    <3>1. SameCall(c)
      BY <1>1, <2>3, OthersSame DEF Next
    <3> QED
      BY <1>1, <2>1, <3>1, OutsideStep
  <2> QED
    BY <2>2, <2>3
<1>3. StampInv' /\ TrimsApart'
  <2>1. ASSUME NEW c \in Closers, Transform(c) PROVE StampInv' /\ TrimsApart'
    BY <1>1, <2>1, TransformStep DEF IInv
  <2>2. CASE \A c \in Closers : ~Transform(c)
    BY <1>1, <2>2, OtherStamps, NoStamp DEF IInv
  <2> QED
    BY <2>1, <2>2
<1> QED
  BY <1>1, <1>2, <1>3 DEF IInv

LEMMA Invariant == Spec => []IInv
<1>1. IInv /\ [Next]_vars => IInv'
  BY NextInv
<1> QED
  BY <1>1, InitInv, PTL DEF Spec

\* The variables of GoTrim have their types.
THEOREM TypeCorrect == Spec => []TypeOK
<1>1. IInv => TypeOK
  BY DEF IInv
<1> QED
  BY <1>1, Invariant, PTL

\* The go command's trims that pass the lock of trim.txt took their times at
\* least trimInterval apart, unless one was an hour late or the file was
\* damaged.
THEOREM ApartCorrect == Spec => []TrimsApart
<1>1. IInv => TrimsApart
  BY DEF IInv
<1> QED
  BY <1>1, Invariant, PTL

\* When Trim is done, nothing is left that is older than its cutoff, now or
\* later, but for entries it met an error on.
THEOREM CutoffCorrect == Spec => []CutoffEnforced
<1>1. IInv => CutoffEnforced
  <2> SUFFICES ASSUME IInv, NEW c \in Closers, pc[c] = "done",
                      NEW e \in Entries \ missed[c], dir[e] # None
               PROVE  dir[e].mtime >= Cutoff(c)
    BY DEF CutoffEnforced
  <2>1. ~Due(c, e)
    BY DEF IInv, CallInv, DueInv
  <2>2. dir[e].mtime \in Nat /\ Cutoff(c) \in Int
    BY TrimConstants DEF IInv, TypeOK, DirTypeOK, File, Cutoff
  <2> QED
    BY <2>1, <2>2 DEF Due
<1> QED
  BY <1>1, Invariant, PTL

\* Trim removes only what was not used for trimLimit, or was used between its
\* Stat and its Remove.
THEOREM RemovedCorrect == Spec => RemovedWasUnused
<1> DEFINE Cost == \A c \in Closers, e \in Entries :
             RemovedBy(c, e) => \/ lastGet[e] < time[c] - TrimLimit
                                \/ lastGet[e] >= statAt[c]
<1>1. IInv => Cost
  BY DEF IInv, CallInv, StatInv, RemovedBy
<1>2. IInv /\ [Next]_vars => [Cost]_vars
  BY <1>1
<1> QED
  BY <1>2, Invariant, PTL DEF Spec, RemovedWasUnused

=============================================================================
