--------------------------- MODULE TrimForceProofs ---------------------------
(***************************************************************************)
(* Proofs about TrimForce, for any number of trims, any entries and any    *)
(* values of the options and the intervals.                                *)
(***************************************************************************)
EXTENDS TrimForce, CacheDirProofs, WellFoundedInduction, TLAPS

\* The trim began, and computed its cutoff, in the past.
TimeInv(t) == began[t] <= now /\ (cutoff[t] # None => cutoff[t] <= now)

\* The list is behind the directory.  What go commands have used since the
\* trim looked at it, they have used since the trim began.
ListInv(t) ==
  \A e \in Listed(t) :
    /\ dir[e] # None => snap[t][e].mtime <= dir[e].mtime
    /\ snap[t][e].mtime <= now
    /\ \/ lastGet[e] < snap[t][e].mtime + MtimeInterval
       \/ lastGet[e] >= began[t]

\* The entry is one the trim t has to remove.
Due(t, e) ==
  /\ cutoff[t] # None /\ e \notin missed[t]
  /\ Usable(e) /\ dir[e].mtime < cutoff[t]

\* Such an entry is ahead of the trim until it is removed.
DueInv(t) ==
  \A e \in Entries : Due(t, e) =>
    /\ pc[t] = "read" =>
         SubdirOf[e] > subdir[t] \/ e \in names[t] \/ e \in Listed(t)
    /\ pc[t] = "cutoff" => e \in todo[t]
    /\ pc[t] \notin {"size", "stamp", "done"}

\* The trim works on what it listed.  Every listed entry is still to come,
\* removed, or met an error.
OrderInv(t) ==
  /\ dirs[t] \cup gone[t] \cup todo[t] \subseteq Listed(t)
  /\ pc[t] \notin {"cutoff", "size", "stamp", "done"} =>
       gone[t] = {} /\ todo[t] = {}
  /\ pc[t] = "cutoff" => cutoff[t] # None
  /\ pc[t] \in {"cutoff", "size"} =>
       Listed(t) \subseteq todo[t] \cup gone[t] \cup missed[t]
  /\ \A e \in gone[t], f \in Listed(t) :
       snap[t][f].mtime < snap[t][e].mtime => f \in gone[t] \cup missed[t]

TrimInv(t) == TimeInv(t) /\ ListInv(t) /\ DueInv(t) /\ OrderInv(t)

IInv == TypeOK /\ LagInv /\ \A t \in Trimmers : TrimInv(t)

-----------------------------------------------------------------------------
\* What is assumed of the constants, in the form the steps use.
LEMMA TrimConstants ==
  /\ NumSubdirs \in Nat
  /\ SubdirOf \in [Entries -> 1..NumSubdirs]
  /\ UnusedFors \subseteq Nat /\ MaxSizes \subseteq Nat
  /\ MtimeInterval \in Nat \ {0}
  /\ None \notin Int /\ None \notin File /\ None \notin Listing
BY TrimAssumption, TimeAssumption, NoneAssumption

\* The natural numbers are well ordered: of the entries left, one is the
\* oldest.
LessThan == {m \in Nat \X Nat : m[1] < m[2]}

LEMMA LessThanWellFounded == IsWellFoundedOn(LessThan, Nat)
BY NatLessThanWellFounded DEF OpToRel, LessThan

LEMMA LeastExists ==
  ASSUME NEW S \in SUBSET Nat, S # {}
  PROVE  \E m \in S : \A n \in S : m <= n
<1>1. PICK m \in S : \A n \in S : <<n, m>> \notin LessThan
  BY LessThanWellFounded, WFMin
<1>2. \A n \in S : ~(n < m)
  BY <1>1 DEF LessThan
<1> QED
  BY <1>2

LEMMA UpdateType ==
  ASSUME NEW D, NEW R, NEW f \in [D -> R], NEW x \in D, NEW y \in R
  PROVE  [f EXCEPT ![x] = y] \in [D -> R]
OBVIOUS

LEMMA ListedType ==
  ASSUME TypeOK, NEW t \in Trimmers, NEW e \in Listed(t)
  PROVE  e \in Entries /\ snap[t][e].mtime \in Nat /\ snap[t][e].size \in Nat
BY DEF TypeOK, Listed, Listing

LEMMA OldestExists ==
  ASSUME TypeOK, NEW t \in Trimmers, todo[t] # {}, todo[t] \subseteq Listed(t)
  PROVE  \E e \in Oldest(t) : \A f \in todo[t] : snap[t][e].mtime <= snap[t][f].mtime
<1> DEFINE times == {snap[t][e].mtime : e \in todo[t]}
<1>1. times \in SUBSET Nat /\ times # {}
  BY ListedType
<1>2. PICK m \in times : \A n \in times : m <= n
  BY <1>1, LeastExists
<1>3. PICK e \in todo[t] : snap[t][e].mtime = m
  BY <1>2
<1> QED
  BY <1>2, <1>3 DEF Oldest

-----------------------------------------------------------------------------
\* The directory, in any step.
LEMMA DirStep ==
  ASSUME TypeOK, LagInv, [Next]_vars
  PROVE  DirTypeOK' /\ LagInv' /\ Ages
<1> USE TrimConstants
<1>1. DirTypeOK
  BY DEF TypeOK
<1>2. CASE Environment
  BY <1>1, <1>2, GoCommandStep, TickStep DEF Environment
<1>3. ASSUME NEW t \in Trimmers, CutoffStep(t) \/ SizeStep(t)
      PROVE  DirTypeOK' /\ LagInv' /\ Ages
  <2>1. PICK e \in todo[t] : RemoveAll(e) \/ RemoveAllFails(e)
    BY <1>3 DEF CutoffStep, SizeStep, Oldest, Remove
  <2>2. e \in Entries
    BY <2>1 DEF TypeOK
  <2> QED
    BY <1>1, <2>1, <2>2, RemoveStep
<1>4. ASSUME NEW t \in Trimmers,
             \/ LocalTrim(t) \/ TrimExtra(t) \/ Begin(t) \/ OpenSubdir(t)
             \/ StatName(t) \/ ReadExecutable(t) \/ EndRead(t) \/ EndCutoff(t)
             \/ EndSize(t)
      PROVE  DirTypeOK' /\ LagInv' /\ Ages
  <2>1. UNCHANGED dirVars
    BY <1>4 DEF LocalTrim, TrimExtra, Begin, OpenSubdir, StatName,
                ReadExecutable, EndRead, EndCutoff, EndSize
  <2> QED
    BY <1>1, <2>1, OtherStep DEF dirVars, DirTypeOK
<1>5. ASSUME NEW t \in Trimmers, WriteStamp(t) \/ Crash(t)
      PROVE  DirTypeOK' /\ LagInv' /\ Ages
  <2>1. CASE UNCHANGED <<now, dir, history>> /\ trimTxt' \in {began[t], trimTxt, None}
    <3>1. trimTxt' \in Nat \cup {None}
      BY <2>1 DEF TypeOK, DirTypeOK
    <3> QED
      BY <1>1, <2>1, <3>1, OtherStep
  <2>2. ASSUME NEW e \in InHand(t), RemoveAllFails(e)
        PROVE  DirTypeOK' /\ LagInv' /\ Ages
    <3>1. e \in Entries
      BY DEF InHand, Oldest, TypeOK
    <3> QED
      BY <1>1, <2>2, <3>1, RemoveStep
  <2>3. \/ UNCHANGED <<now, dir, history>> /\ trimTxt' \in {began[t], trimTxt, None}
        \/ \E e \in InHand(t) : RemoveAllFails(e)
    BY <1>5 DEF WriteStamp, Crash
  <2> QED
    BY <2>1, <2>2, <2>3
<1>6. CASE UNCHANGED vars
  BY <1>1, <1>6, OtherStep DEF vars, dirVars, DirTypeOK
<1> QED
  BY <1>2, <1>3, <1>4, <1>5, <1>6 DEF Next, TrimStep, Proceed

LEMMA InitType == Init => TypeOK
<1> SUFFICES ASSUME Init PROVE TypeOK
  OBVIOUS
<1>1. DirTypeOK
  BY InitDir DEF Init
<1> QED
  BY <1>1, TrimConstants DEF Init, TypeOK, PCs

LEMMA StepType ==
  ASSUME IInv, [Next]_vars
  PROVE  TypeOK'
<1> USE TrimConstants DEF PCs, Goto, listVars, loopVars, optVars
<1>1. /\ TypeOK /\ LagInv /\ DirTypeOK' /\ DirTypeOK
      /\ changed' \in [Trimmers -> SUBSET Entries]
  <2>1. TypeOK /\ LagInv /\ DirTypeOK' /\ DirTypeOK
    BY DirStep DEF IInv, TypeOK
  <2>2. Remember \/ UNCHANGED changed
    BY DEF Next, vars
  <2>3. changed' \in [Trimmers -> SUBSET Entries]
    <3> DEFINE W == {e \in Entries : Rewritten(e)}
    <3>1. W \in SUBSET Entries
      OBVIOUS
    <3>2. changed \in [Trimmers -> SUBSET Entries]
      BY <2>1 DEF TypeOK
    <3>3. \/ UNCHANGED changed
          \/ changed' = [t \in Trimmers |->
               IF pc'[t] \in {"read", "cutoff", "size", "stamp", "done"}
                 THEN changed[t] \cup W ELSE {}]
      BY <2>2 DEF Remember
    <3> HIDE DEF W
    <3> QED
      BY <3>1, <3>2, <3>3
  <2> QED
    BY <2>1, <2>3
<1>2. ASSUME NEW t \in Trimmers, LocalTrim(t) PROVE TypeOK'
  BY <1>1, <1>2 DEF LocalTrim, TypeOK, DirTypeOK
<1>3. ASSUME NEW t \in Trimmers, TrimExtra(t) PROVE TypeOK'
  BY <1>1, <1>3 DEF TrimExtra, TypeOK
<1>4. ASSUME NEW t \in Trimmers, Begin(t) PROVE TypeOK'
  BY <1>1, <1>4 DEF Begin, Declared, TypeOK, DirTypeOK
<1>5. ASSUME NEW t \in Trimmers, OpenSubdir(t) PROVE TypeOK'
  <2> DEFINE here == {e \in Entries : SubdirOf[e] = subdir[t] + 1}
             present == {e \in here : dir[e] # None}
  <2>1. here \in SUBSET Entries /\ present \in SUBSET Entries
    OBVIOUS
  <2>2. /\ names' = names \/ names' = [names EXCEPT ![t] = present]
        /\ missed' = missed \/ missed' = [missed EXCEPT ![t] = @ \cup here]
    BY <1>5 DEF OpenSubdir
  <2> HIDE DEF here, present
  <2>3. missed[t] \cup here \in SUBSET Entries
    BY <1>1, <2>1 DEF TypeOK
  <2>4. /\ names' \in [Trimmers -> SUBSET Entries]
        /\ missed' \in [Trimmers -> SUBSET Entries]
    <3>1. names \in [Trimmers -> SUBSET Entries] /\ missed \in [Trimmers -> SUBSET Entries]
      BY <1>1 DEF TypeOK
    <3>2. [names EXCEPT ![t] = present] \in [Trimmers -> SUBSET Entries]
      BY <2>1, <3>1, UpdateType
    <3>3. [missed EXCEPT ![t] = @ \cup here] \in [Trimmers -> SUBSET Entries]
      BY <2>3, <3>1, UpdateType
    <3> QED
      BY <2>2, <3>1, <3>2, <3>3
  <2>5. subdir' \in [Trimmers -> 0..NumSubdirs]
    BY <1>1, <1>5 DEF OpenSubdir, TypeOK
  <2> QED
    BY <1>1, <1>5, <2>4, <2>5 DEF OpenSubdir, TypeOK
<1>6. ASSUME NEW t \in Trimmers, StatName(t) PROVE TypeOK'
  <2>1. PICK e \in names[t] :
          /\ names' = [names EXCEPT ![t] = @ \ {e}]
          /\ IF dir[e] = None
               THEN UNCHANGED <<dirs, snap, before>>
               ELSE LET size == IF e \in Executables THEN 0 ELSE dir[e].size IN
                 /\ snap' = [snap EXCEPT ![t][e] =
                               [mtime |-> dir[e].mtime, size |-> size]]
                 /\ before' = [before EXCEPT ![t] = @ + size]
                 /\ dirs' = IF e \in Executables
                              THEN [dirs EXCEPT ![t] = @ \cup {e}] ELSE dirs
    BY <1>6 DEF StatName
  <2> DEFINE size == IF e \in Executables THEN 0 ELSE dir[e].size
             listing == [mtime |-> dir[e].mtime, size |-> size]
  <2>2. e \in Entries /\ dir[e] \in File \cup {None}
    BY <1>1 DEF TypeOK, DirTypeOK
  <2>3. dir[e] # None => size \in Nat /\ listing \in Listing
    BY <2>2 DEF File, Listing
  <2>4. \/ UNCHANGED <<dirs, snap, before>>
        \/ /\ dir[e] # None
           /\ snap' = [snap EXCEPT ![t][e] = listing]
           /\ before' = [before EXCEPT ![t] = @ + size]
           /\ \/ UNCHANGED dirs
              \/ e \in Executables /\ dirs' = [dirs EXCEPT ![t] = @ \cup {e}]
    <3>1. CASE dir[e] = None
      BY <2>1, <3>1
    <3>2. CASE dir[e] # None /\ e \in Executables
      BY <2>1, <3>2
    <3>3. CASE dir[e] # None /\ e \notin Executables
      BY <2>1, <3>3
    <3> QED
      BY <3>1, <3>2, <3>3
  <2> HIDE DEF size, listing
  <2>5. /\ dirs' \in [Trimmers -> SUBSET Executables]
        /\ before' \in [Trimmers -> Nat]
    <3>1. dirs \in [Trimmers -> SUBSET Executables] /\ before \in [Trimmers -> Nat]
      BY <1>1 DEF TypeOK
    <3>2. e \in Executables => dirs[t] \cup {e} \in SUBSET Executables
      BY <3>1
    <3>3. e \in Executables =>
            [dirs EXCEPT ![t] = @ \cup {e}] \in [Trimmers -> SUBSET Executables]
      BY <3>1, <3>2, UpdateType
    <3>4. dir[e] # None => [before EXCEPT ![t] = @ + size] \in [Trimmers -> Nat]
      BY <2>3, <3>1
    <3> QED
      BY <2>4, <3>1, <3>3, <3>4
  <2>6. snap' \in [Trimmers -> [Entries -> Listing \cup {None}]]
    <3>1. snap \in [Trimmers -> [Entries -> Listing \cup {None}]]
      BY <1>1 DEF TypeOK
    <3> QED
      BY <2>2, <2>3, <2>4, <3>1
  <2>7. names' \in [Trimmers -> SUBSET Entries]
    BY <1>1, <2>1 DEF TypeOK
  <2> QED
    BY <1>1, <1>6, <2>5, <2>6, <2>7 DEF StatName, TypeOK
<1>7. ASSUME NEW t \in Trimmers, ReadExecutable(t) PROVE TypeOK'
  <2>1. PICK e \in dirs[t] :
          /\ dirs' = [dirs EXCEPT ![t] = @ \ {e}]
          /\ \/ /\ dir[e] # None
                /\ snap' = [snap EXCEPT ![t][e].size = dir[e].size]
                /\ before' = [before EXCEPT ![t] = @ + dir[e].size]
             \/ snap' = [snap EXCEPT ![t][e] = None] /\ UNCHANGED before
          /\ missed' = missed \/ missed' = [missed EXCEPT ![t] = @ \cup {e}]
    BY <1>7 DEF ReadExecutable
  <2>2. e \in Entries /\ dir[e] \in File \cup {None}
    BY <1>1 DEF TypeOK, DirTypeOK, Entries
  <2>3. dir[e] # None => dir[e].size \in Nat
    BY <2>2 DEF File
  <2>4. /\ missed' \in [Trimmers -> SUBSET Entries] /\ before' \in [Trimmers -> Nat]
        /\ dirs' \in [Trimmers -> SUBSET Executables]
    <3>1. missed[t] \cup {e} \in SUBSET Entries /\ dirs[t] \ {e} \in SUBSET Executables
      BY <1>1, <2>2 DEF TypeOK
    <3>2. dir[e] # None => before[t] + dir[e].size \in Nat
      BY <1>1, <2>3 DEF TypeOK
    <3>3. /\ missed \in [Trimmers -> SUBSET Entries] /\ before \in [Trimmers -> Nat]
          /\ dirs \in [Trimmers -> SUBSET Executables]
      BY <1>1 DEF TypeOK
    <3>4. /\ [missed EXCEPT ![t] = @ \cup {e}] \in [Trimmers -> SUBSET Entries]
          /\ [dirs EXCEPT ![t] = @ \ {e}] \in [Trimmers -> SUBSET Executables]
      BY <3>1, <3>3, UpdateType
    <3>5. before' \in [Trimmers -> Nat]
      BY <2>1, <3>2, <3>3
    <3> QED
      BY <2>1, <3>3, <3>4, <3>5
  <2>5. snap[t][e] \in Listing
    BY <1>1, <2>2 DEF IInv, TrimInv, OrderInv, Listed, TypeOK
  <2>6. snap' \in [Trimmers -> [Entries -> Listing \cup {None}]]
    <3>1. CASE snap' = [snap EXCEPT ![t][e] = None]
      BY <1>1, <3>1 DEF TypeOK
    <3>2. CASE snap' # [snap EXCEPT ![t][e] = None]
      <4> DEFINE listing == [snap[t][e] EXCEPT !.size = dir[e].size]
      <4>1. listing \in Listing
        BY <2>1, <2>3, <2>5, <3>2 DEF Listing
      <4>2. snap' = [snap EXCEPT ![t][e] = listing]
        BY <2>1, <3>2
      <4> HIDE DEF listing
      <4> QED
        BY <1>1, <2>2, <4>1, <4>2 DEF TypeOK
    <3> QED
      BY <3>1, <3>2
  <2> QED
    BY <1>1, <1>7, <2>4, <2>6 DEF ReadExecutable, TypeOK
<1>8. ASSUME NEW t \in Trimmers, EndRead(t) PROVE TypeOK'
  <2>1. Listed(t) \in SUBSET Entries
    BY DEF Listed
  <2>2. pc' \in [Trimmers -> PCs] /\ todo' \in [Trimmers -> SUBSET Entries]
    <3>1. Listed(t) \ gone[t] \in SUBSET Entries
      BY <2>1
    <3> QED
      BY <1>1, <1>8, <2>1, <3>1 DEF EndRead, TypeOK
  <2> QED
    BY <1>1, <1>8, <2>2 DEF EndRead, TypeOK
<1>9. ASSUME NEW t \in Trimmers, NEW e \in todo[t], Remove(t, e) PROVE TypeOK'
  <2>1. e \in Listed(t)
    BY <1>9 DEF IInv, TrimInv, OrderInv
  <2>2. e \in Entries /\ snap[t][e].size \in Nat
    BY <1>1, <2>1, ListedType
  <2>3. freed' \in [Trimmers -> Nat]
    <3>1. freed \in [Trimmers -> Nat]
      BY <1>1 DEF TypeOK
    <3>2. freed[t] + snap[t][e].size \in Nat
      BY <2>2, <3>1
    <3>3. [freed EXCEPT ![t] = @ + snap[t][e].size] \in [Trimmers -> Nat]
      BY <3>1, <3>2, UpdateType
    <3> QED
      BY <1>9, <3>1, <3>3 DEF Remove
  <2>4. /\ todo[t] \ {e} \in SUBSET Entries
        /\ gone[t] \cup {e} \in SUBSET Entries
        /\ missed[t] \ {e} \in SUBSET Entries /\ missed[t] \cup {e} \in SUBSET Entries
    BY <1>1, <2>2 DEF TypeOK
  <2>5. /\ todo' \in [Trimmers -> SUBSET Entries]
        /\ gone' \in [Trimmers -> SUBSET Entries]
        /\ missed' \in [Trimmers -> SUBSET Entries]
    <3>1. /\ todo \in [Trimmers -> SUBSET Entries]
          /\ gone \in [Trimmers -> SUBSET Entries]
          /\ missed \in [Trimmers -> SUBSET Entries]
      BY <1>1 DEF TypeOK
    <3>2. /\ [todo EXCEPT ![t] = @ \ {e}] \in [Trimmers -> SUBSET Entries]
          /\ [gone EXCEPT ![t] = @ \cup {e}] \in [Trimmers -> SUBSET Entries]
          /\ [missed EXCEPT ![t] = @ \ {e}] \in [Trimmers -> SUBSET Entries]
          /\ [missed EXCEPT ![t] = @ \cup {e}] \in [Trimmers -> SUBSET Entries]
      BY <2>4, <3>1, UpdateType
    <3> QED
      BY <1>9, <3>1, <3>2 DEF Remove
  <2> QED
    BY <1>1, <1>9, <2>3, <2>5 DEF Remove, TypeOK
<1>10. ASSUME NEW t \in Trimmers, EndCutoff(t) PROVE TypeOK'
  <2>1. Listed(t) \in SUBSET Entries
    BY DEF Listed
  <2>2. pc' \in [Trimmers -> PCs] /\ todo' \in [Trimmers -> SUBSET Entries]
    <3>1. Listed(t) \ gone[t] \in SUBSET Entries
      BY <2>1
    <3> QED
      BY <1>1, <1>10, <2>1, <3>1 DEF EndCutoff, TypeOK
  <2> QED
    BY <1>1, <1>10, <2>2 DEF EndCutoff, TypeOK
<1>11. ASSUME NEW t \in Trimmers, EndSize(t) PROVE TypeOK'
  BY <1>1, <1>11 DEF EndSize, TypeOK
<1>12. ASSUME NEW t \in Trimmers, WriteStamp(t) PROVE TypeOK'
  BY <1>1, <1>12 DEF WriteStamp, TypeOK
<1>13. ASSUME NEW t \in Trimmers, Crash(t) PROVE TypeOK'
  BY <1>1, <1>13 DEF Crash, Declared, TypeOK
<1>14. CASE Environment
  BY <1>1, <1>14 DEF Environment, TypeOK
<1>15. CASE UNCHANGED vars
  BY <1>1, <1>15 DEF vars, TypeOK
<1> QED
  BY <1>2, <1>3, <1>4, <1>5, <1>6, <1>7, <1>8, <1>9, <1>10, <1>11, <1>12,
     <1>13, <1>14, <1>15
     DEF Next, TrimStep, Proceed, CutoffStep, SizeStep, Oldest

-----------------------------------------------------------------------------
\* What the trim t has in memory does not change.
SameTrim(t) ==
  /\ pc'[t] = pc[t] /\ cutoff'[t] = cutoff[t] /\ began'[t] = began[t]
  /\ subdir'[t] = subdir[t] /\ names'[t] = names[t] /\ dirs'[t] = dirs[t]
  /\ snap'[t] = snap[t]
  /\ todo'[t] = todo[t] /\ gone'[t] = gone[t] /\ missed'[t] = missed[t]

LEMMA OthersSame ==
  ASSUME TypeOK, NEW t \in Trimmers,
         \/ Environment \/ UNCHANGED vars
         \/ \E u \in Trimmers : u # t /\ TrimStep(u)
  PROVE  SameTrim(t)
<1> USE DEF SameTrim, TypeOK, Goto
<1>1. CASE Environment
  BY <1>1 DEF Environment, optVars, listVars, loopVars
<1>2. CASE UNCHANGED vars
  BY <1>2 DEF vars, optVars, listVars, loopVars
<1>3. ASSUME NEW u \in Trimmers, u # t, TrimStep(u) PROVE SameTrim(t)
  <2> USE <1>3 DEF optVars, listVars, loopVars
  <2>1. CASE LocalTrim(u)
    BY <2>1 DEF LocalTrim
  <2>2. CASE TrimExtra(u)
    BY <2>2 DEF TrimExtra
  <2>3. CASE Begin(u)
    BY <2>3 DEF Begin, Declared
  <2>4. CASE OpenSubdir(u)
    BY <2>4 DEF OpenSubdir
  <2>5. CASE StatName(u)
    BY <2>5 DEF StatName
  <2>6. CASE ReadExecutable(u)
    BY <2>6 DEF ReadExecutable
  <2>7. CASE EndRead(u)
    BY <2>7 DEF EndRead
  <2>8. CASE CutoffStep(u) \/ SizeStep(u)
    BY <2>8 DEF CutoffStep, SizeStep, Remove
  <2>9. CASE EndCutoff(u)
    BY <2>9 DEF EndCutoff
  <2>10. CASE EndSize(u)
    BY <2>10 DEF EndSize
  <2>11. CASE WriteStamp(u)
    BY <2>11 DEF WriteStamp
  <2>12. CASE Crash(u)
    BY <2>12 DEF Crash, Declared
  <2> QED
    BY <2>1, <2>2, <2>3, <2>4, <2>5, <2>6, <2>7, <2>8, <2>9, <2>10, <2>11,
       <2>12 DEF TrimStep, Proceed
<1> QED
  BY <1>1, <1>2, <1>3

\* An entry does not come to be due while the trim runs.
LEMMA DueStays ==
  ASSUME TypeOK, TypeOK', Ages, NEW t \in Trimmers, TimeInv(t),
         cutoff'[t] = cutoff[t], NEW e \in Entries, Due(t, e)'
  PROVE  e \notin missed[t] => Due(t, e)
<1>1. /\ cutoff[t] # None /\ cutoff[t] \in Int /\ cutoff[t] <= now
      /\ now \in Nat /\ now' \in Nat /\ now <= now'
  BY DEF Due, TimeInv, TypeOK, DirTypeOK, Ages
<1>2. dir'[e] # None /\ dir'[e].parts = 1 /\ dir'[e].mtime < cutoff[t]
  BY DEF Due, Usable
<1>3. /\ dir[e] # None /\ dir'[e].mtime = dir[e].mtime
      /\ dir[e].parts = 1
  BY <1>1, <1>2 DEF Ages
<1> QED
  BY <1>1, <1>2, <1>3 DEF Due, Usable

\* What others do does not disturb the trim's invariant.
LEMMA OutsideStep ==
  ASSUME TypeOK, TypeOK', LagInv, Ages, NEW t \in Trimmers, TrimInv(t), SameTrim(t)
  PROVE  TrimInv(t)'
<1> USE TrimConstants
<1>1. now \in Nat /\ now' \in Nat /\ now <= now' /\ began[t] \in Nat
  BY DEF TypeOK, DirTypeOK, Ages
<1>2. TimeInv(t)'
  BY <1>1 DEF SameTrim, TrimInv, TimeInv, TypeOK
<1>3. ListInv(t)'
  <2> SUFFICES ASSUME NEW e \in Listed(t)
               PROVE  /\ dir'[e] # None => snap[t][e].mtime <= dir'[e].mtime
                      /\ snap[t][e].mtime <= now'
                      /\ \/ lastGet'[e] < snap[t][e].mtime + MtimeInterval
                         \/ lastGet'[e] >= began[t]
    BY DEF SameTrim, ListInv, Listed
  <2>1. e \in Entries /\ snap[t][e].mtime \in Nat
    BY ListedType
  <2>2. /\ dir[e] # None => snap[t][e].mtime <= dir[e].mtime
        /\ snap[t][e].mtime <= now
        /\ \/ lastGet[e] < snap[t][e].mtime + MtimeInterval
           \/ lastGet[e] >= began[t]
    BY DEF TrimInv, ListInv
  <2>3. lastGet'[e] = lastGet[e] \/ lastGet'[e] >= began[t]
    BY <1>1, <2>1 DEF Ages, TrimInv, TimeInv
  <2>4. dir'[e] # None => snap[t][e].mtime <= dir'[e].mtime
    BY <1>1, <2>1, <2>2 DEF Ages
  <2> QED
    BY <1>1, <2>1, <2>2, <2>3, <2>4
<1>4. DueInv(t)'
  <2> SUFFICES ASSUME NEW e \in Entries, Due(t, e)'
               PROVE  /\ pc[t] = "read" =>
                           SubdirOf[e] > subdir[t] \/ e \in names[t] \/ e \in Listed(t)
                      /\ pc[t] = "cutoff" => e \in todo[t]
                      /\ pc[t] \notin {"size", "stamp", "done"}
    BY DEF SameTrim, DueInv, Listed
  <2>1. e \notin missed[t]
    BY DEF SameTrim, Due
  <2>2. Due(t, e)
    BY <2>1, DueStays DEF SameTrim, TrimInv
  <2> QED
    BY <2>2 DEF TrimInv, DueInv
<1>5. OrderInv(t)'
  BY DEF SameTrim, TrimInv, OrderInv, Listed
<1> QED
  BY <1>2, <1>3, <1>4, <1>5 DEF TrimInv

-----------------------------------------------------------------------------
\* The trim's own steps.
LEMMA LocalTrimStep ==
  ASSUME TypeOK, NEW t \in Trimmers, TrimInv(t), LocalTrim(t)
  PROVE  TrimInv(t)'
<1> USE TrimConstants
<1>1. /\ UNCHANGED <<now, dir, lastGet, subdir, names, dirs, snap, todo, gone,
                     missed, began>>
      /\ pc[t] = "idle" /\ pc'[t] = "open"
  BY DEF LocalTrim, Goto, dirVars, history, listVars, loopVars, TypeOK
<1>2. cutoff'[t] = None \/ \E u \in Nat : cutoff'[t] = now - u
  BY DEF LocalTrim, TypeOK
<1>3. TimeInv(t)'
  BY <1>1, <1>2 DEF TrimInv, TimeInv, TypeOK, DirTypeOK
<1>4. ListInv(t)'
  BY <1>1 DEF TrimInv, ListInv, Listed
<1>5. DueInv(t)' /\ OrderInv(t)'
  BY <1>1 DEF TrimInv, DueInv, OrderInv, Listed
<1> QED
  BY <1>3, <1>4, <1>5 DEF TrimInv

LEMMA TrimExtraStep ==
  ASSUME TypeOK, NEW t \in Trimmers, TrimInv(t), TrimExtra(t)
  PROVE  TrimInv(t)'
<1>1. /\ UNCHANGED <<now, dir, lastGet, subdir, names, dirs, snap, todo, gone,
                     missed, began, cutoff>>
      /\ pc[t] = "open" /\ pc'[t] \in {"skipped", "force"}
  BY DEF TrimExtra, Goto, dirVars, history, optVars, listVars, loopVars, TypeOK
<1>2. TimeInv(t)' /\ ListInv(t)'
  BY <1>1 DEF TrimInv, TimeInv, ListInv, Listed
<1>3. DueInv(t)' /\ OrderInv(t)'
  BY <1>1 DEF TrimInv, DueInv, OrderInv, Listed
<1> QED
  BY <1>2, <1>3 DEF TrimInv

LEMMA BeginStep ==
  ASSUME TypeOK, NEW t \in Trimmers, TrimInv(t), Begin(t)
  PROVE  TrimInv(t)'
<1> USE TrimConstants
<1>1. /\ UNCHANGED <<now, dir, lastGet, cutoff>> /\ began'[t] = now
      /\ pc'[t] = IF cutoff[t] = None /\ maxSize[t] = None THEN "stamp" ELSE "read"
  BY DEF Begin, Goto, dirVars, history, TypeOK
<1>2. /\ subdir'[t] = 0 /\ dirs'[t] = {} /\ todo'[t] = {} /\ gone'[t] = {}
      /\ snap'[t] = [e \in Entries |-> None]
  BY DEF Begin, Declared, TypeOK
<1>3. Listed(t)' = {}
  BY <1>2 DEF Listed
<1>4. TimeInv(t)' /\ ListInv(t)'
  BY <1>1, <1>3 DEF TrimInv, TimeInv, ListInv, TypeOK, DirTypeOK
<1>5. DueInv(t)'
  <2> SUFFICES ASSUME NEW e \in Entries, Due(t, e)'
               PROVE  pc'[t] = "read" /\ SubdirOf[e] > subdir'[t]
    BY DEF DueInv
  <2> QED
    BY <1>1, <1>2 DEF Due
<1>6. OrderInv(t)'
  BY <1>1, <1>2, <1>3 DEF OrderInv
<1> QED
  BY <1>4, <1>5, <1>6 DEF TrimInv

LEMMA OpenSubdirStep ==
  ASSUME TypeOK, NEW t \in Trimmers, TrimInv(t), OpenSubdir(t)
  PROVE  TrimInv(t)'
<1> USE TrimConstants
<1> DEFINE here == {e \in Entries : SubdirOf[e] = subdir[t] + 1}
<1>1. /\ UNCHANGED <<now, dir, lastGet, dirs, snap, todo, gone, began, cutoff>>
      /\ pc[t] = "read" /\ UNCHANGED pc
      /\ names[t] = {} /\ subdir'[t] = subdir[t] + 1 /\ subdir[t] \in Nat
  BY DEF OpenSubdir, dirVars, history, optVars, TypeOK
<1>2. \/ names'[t] = {e \in here : dir[e] # None} /\ missed'[t] = missed[t]
      \/ missed'[t] = missed[t] \cup here
  BY DEF OpenSubdir, TypeOK
<1>3. TimeInv(t)' /\ ListInv(t)'
  BY <1>1 DEF TrimInv, TimeInv, ListInv, Listed
<1>4. DueInv(t)'
  <2> SUFFICES ASSUME NEW e \in Entries, Due(t, e)'
               PROVE  SubdirOf[e] > subdir[t] + 1 \/ e \in names'[t] \/ e \in Listed(t)
    BY <1>1 DEF DueInv, Listed
  <2>1. Due(t, e)
    BY <1>1, <1>2 DEF Due, Usable
  <2>2. SubdirOf[e] > subdir[t] \/ e \in Listed(t)
    BY <1>1, <2>1 DEF TrimInv, DueInv
  <2>3. e \in here => e \in names'[t]
    BY <1>2, <2>1 DEF Due, Usable
  <2>4. SubdirOf[e] \in Nat
    OBVIOUS
  <2> QED
    BY <1>1, <2>2, <2>3, <2>4
<1>5. OrderInv(t)'
  BY <1>1 DEF TrimInv, OrderInv, Listed
<1> QED
  BY <1>3, <1>4, <1>5 DEF TrimInv

LEMMA StatNameStep ==
  ASSUME TypeOK, LagInv, NEW t \in Trimmers, TrimInv(t), StatName(t)
  PROVE  TrimInv(t)'
<1> USE TrimConstants
<1>1. /\ UNCHANGED <<now, dir, lastGet, subdir, todo, gone, missed, began, cutoff>>
      /\ pc[t] = "read" /\ UNCHANGED pc
      /\ gone[t] = {} /\ todo[t] = {}
  BY DEF StatName, dirVars, history, optVars, loopVars, TrimInv, OrderInv
<1>2. PICK e \in names[t] :
        /\ names' = [names EXCEPT ![t] = @ \ {e}]
        /\ IF dir[e] = None
             THEN UNCHANGED <<dirs, snap>>
             ELSE /\ \E n \in {0, dir[e].size} :
                       snap' = [snap EXCEPT ![t][e] =
                                  [mtime |-> dir[e].mtime, size |-> n]]
                  /\ dirs' \in {dirs, [dirs EXCEPT ![t] = @ \cup {e}]}
  BY DEF StatName
<1>3. e \in Entries /\ dir[e] \in File \cup {None}
  BY DEF TypeOK, DirTypeOK
<1>4. names'[t] = names[t] \ {e}
  BY <1>2 DEF TypeOK
<1>5. \A f \in Entries : f # e => snap'[t][f] = snap[t][f]
  BY <1>2, <1>3 DEF TypeOK
<1>6. dir[e] # None => snap'[t][e] # None /\ snap'[t][e].mtime = dir[e].mtime
  <2> SUFFICES ASSUME dir[e] # None
               PROVE  snap'[t][e] # None /\ snap'[t][e].mtime = dir[e].mtime
    OBVIOUS
  <2>1. PICK n \in {0, dir[e].size} :
          snap' = [snap EXCEPT ![t][e] = [mtime |-> dir[e].mtime, size |-> n]]
    BY <1>2
  <2>2. snap'[t][e] = [mtime |-> dir[e].mtime, size |-> n]
    BY <1>3, <2>1 DEF TypeOK
  <2>3. snap'[t][e] \in Listing
    BY <1>3, <2>2 DEF File, Listing
  <2> QED
    BY <2>2, <2>3
<1>7. dir[e] = None => snap'[t] = snap[t]
  BY <1>2
<1>8. /\ Listed(t) \subseteq Listed(t)' /\ Listed(t)' \subseteq Listed(t) \cup {e}
      /\ dir[e] # None => e \in Listed(t)'
      /\ dirs'[t] \subseteq Listed(t)'
  <2>1. Listed(t) \subseteq Listed(t)' /\ Listed(t)' \subseteq Listed(t) \cup {e}
    BY <1>5, <1>6, <1>7 DEF Listed
  <2>2. dir[e] # None => e \in Listed(t)'
    BY <1>3, <1>6 DEF Listed
  <2>3. dirs'[t] \subseteq dirs[t] \cup {e} /\ (dir[e] = None => dirs'[t] = dirs[t])
    BY <1>2 DEF TypeOK
  <2>4. dirs[t] \subseteq Listed(t)
    BY DEF TrimInv, OrderInv
  <2> QED
    BY <2>1, <2>2, <2>3, <2>4
<1>a. TimeInv(t)'
  BY <1>1 DEF TrimInv, TimeInv
<1>b. ListInv(t)'
  <2> SUFFICES ASSUME NEW f \in Listed(t)'
               PROVE  /\ dir[f] # None => snap'[t][f].mtime <= dir[f].mtime
                      /\ snap'[t][f].mtime <= now
                      /\ \/ lastGet[f] < snap'[t][f].mtime + MtimeInterval
                         \/ lastGet[f] >= began[t]
    BY <1>1 DEF ListInv
  <2>1. CASE f = e /\ dir[e] # None
    <3>1. dir[e].mtime \in Nat
      BY <1>3, <2>1 DEF File
    <3> QED
      BY <1>3, <1>6, <2>1, <3>1 DEF LagInv
  <2>2. CASE ~(f = e /\ dir[e] # None)
    <3>1. f \in Listed(t) /\ snap'[t][f] = snap[t][f]
      BY <1>5, <1>7, <1>8, <2>2 DEF Listed
    <3> QED
      BY <3>1 DEF TrimInv, ListInv
  <2> QED
    BY <2>1, <2>2
<1>c. DueInv(t)'
  <2> SUFFICES ASSUME NEW f \in Entries, Due(t, f)'
               PROVE  SubdirOf[f] > subdir[t] \/ f \in names'[t] \/ f \in Listed(t)'
    BY <1>1 DEF DueInv
  <2>1. Due(t, f)
    BY <1>1 DEF Due, Usable
  <2>2. SubdirOf[f] > subdir[t] \/ f \in names[t] \/ f \in Listed(t)
    BY <1>1, <2>1 DEF TrimInv, DueInv
  <2>3. f = e => f \in Listed(t)'
    BY <1>8, <2>1 DEF Due, Usable
  <2> QED
    BY <2>2, <2>3, <1>4, <1>8
<1>d. OrderInv(t)'
  <2>1. /\ pc'[t] = "read" /\ gone'[t] = {} /\ todo'[t] = {}
        /\ dirs'[t] \subseteq Listed(t)'
    BY <1>1, <1>8
  <2> QED
    BY <2>1 DEF OrderInv
<1> QED
  BY <1>a, <1>b, <1>c, <1>d DEF TrimInv

LEMMA ReadExecutableStep ==
  ASSUME TypeOK, NEW t \in Trimmers, TrimInv(t), ReadExecutable(t)
  PROVE  TrimInv(t)'
<1> USE TrimConstants
<1>1. /\ UNCHANGED <<now, dir, lastGet, subdir, names, todo, gone, began, cutoff>>
      /\ pc[t] = "read" /\ UNCHANGED pc
      /\ gone[t] = {} /\ todo[t] = {}
  BY DEF ReadExecutable, dirVars, history, optVars, TrimInv, OrderInv
<1>2. PICK e \in dirs[t] :
        /\ dirs' = [dirs EXCEPT ![t] = @ \ {e}]
        /\ \/ /\ dir[e] # None
              /\ snap' = [snap EXCEPT ![t][e].size = dir[e].size]
              /\ UNCHANGED missed
           \/ /\ snap' = [snap EXCEPT ![t][e] = None]
              /\ missed' = IF dir[e] # None /\ dir[e].parts = 1
                             THEN [missed EXCEPT ![t] = @ \cup {e}] ELSE missed
  BY DEF ReadExecutable
<1>3. /\ e \in Entries /\ e \in Listed(t) /\ snap[t][e] \in Listing
      /\ dirs[t] \subseteq Listed(t)
  BY DEF TypeOK, TrimInv, OrderInv, Listed
<1>4. dirs'[t] = dirs[t] \ {e}
  BY <1>2 DEF TypeOK
<1>5. \A f \in Entries : f # e => snap'[t][f] = snap[t][f]
  BY <1>2, <1>3 DEF TypeOK
<1>6. \/ /\ snap'[t][e] # None /\ snap'[t][e].mtime = snap[t][e].mtime
         /\ missed'[t] = missed[t]
      \/ /\ snap'[t][e] = None /\ missed[t] \subseteq missed'[t]
         /\ Usable(e) => e \in missed'[t]
  <2>1. CASE /\ dir[e] # None
             /\ snap' = [snap EXCEPT ![t][e].size = dir[e].size]
             /\ UNCHANGED missed
    <3>1. snap'[t][e] = [snap[t][e] EXCEPT !.size = dir[e].size]
      BY <2>1, <1>3 DEF TypeOK
    <3>2. dir[e].size \in Nat
      BY <2>1, <1>3 DEF TypeOK, DirTypeOK, File
    <3>3. /\ [snap[t][e] EXCEPT !.size = dir[e].size] \in Listing
          /\ [snap[t][e] EXCEPT !.size = dir[e].size].mtime = snap[t][e].mtime
      BY <1>3, <3>2 DEF Listing
    <3> QED
      BY <2>1, <3>1, <3>3
  <2>2. CASE /\ snap' = [snap EXCEPT ![t][e] = None]
             /\ missed' = IF dir[e] # None /\ dir[e].parts = 1
                            THEN [missed EXCEPT ![t] = @ \cup {e}] ELSE missed
    <3>1. snap'[t][e] = None
      BY <2>2, <1>3 DEF TypeOK
    <3>2. missed[t] \subseteq missed'[t] /\ (Usable(e) => e \in missed'[t])
      BY <2>2 DEF TypeOK, Usable
    <3> QED
      BY <3>1, <3>2
  <2> QED
    BY <1>2, <2>1, <2>2
<1>7. /\ Listed(t)' \subseteq Listed(t) /\ Listed(t) \subseteq Listed(t)' \cup {e}
      /\ e \in Listed(t)' \/ snap'[t][e] = None
      /\ \A f \in Listed(t)' : snap'[t][f].mtime = snap[t][f].mtime
  BY <1>3, <1>5, <1>6 DEF Listed
<1>a. TimeInv(t)'
  BY <1>1 DEF TrimInv, TimeInv
<1>b. ListInv(t)'
  BY <1>1, <1>7 DEF TrimInv, ListInv
<1>c. DueInv(t)'
  <2> SUFFICES ASSUME NEW f \in Entries, Due(t, f)'
               PROVE  SubdirOf[f] > subdir[t] \/ f \in names[t] \/ f \in Listed(t)'
    BY <1>1 DEF DueInv
  <2>1. Due(t, f)
    BY <1>1, <1>6 DEF Due, Usable
  <2>2. f = e => f \in Listed(t)'
    BY <1>1, <1>6, <1>7, <2>1 DEF Due
  <2> QED
    BY <1>1, <1>7, <2>1, <2>2 DEF TrimInv, DueInv
<1>d. OrderInv(t)'
  <2>1. dirs'[t] \subseteq Listed(t)'
    BY <1>3, <1>4, <1>7
  <2>2. pc'[t] = "read" /\ gone'[t] = {} /\ todo'[t] = {}
    BY <1>1
  <2> QED
    BY <2>1, <2>2 DEF OrderInv
<1> QED
  BY <1>a, <1>b, <1>c, <1>d DEF TrimInv

LEMMA EndReadStep ==
  ASSUME TypeOK, NEW t \in Trimmers, TrimInv(t), EndRead(t)
  PROVE  TrimInv(t)'
<1> USE TrimConstants
<1>1. /\ UNCHANGED <<now, dir, lastGet, subdir, names, dirs, snap, gone, missed,
                     began, cutoff>>
      /\ pc[t] = "read" /\ gone[t] = {} /\ todo'[t] = Listed(t)
      /\ pc'[t] = IF cutoff[t] # None THEN "cutoff"
                  ELSE IF before[t] <= maxSize[t] THEN "stamp" ELSE "size"
      /\ names[t] = {} /\ subdir[t] = NumSubdirs
  BY DEF EndRead, Goto, dirVars, history, optVars, listVars, TrimInv, OrderInv,
         TypeOK
<1>2. TimeInv(t)' /\ ListInv(t)'
  BY <1>1 DEF TrimInv, TimeInv, ListInv, Listed
<1>3. DueInv(t)'
  <2> SUFFICES ASSUME NEW e \in Entries, Due(t, e)'
               PROVE  pc'[t] = "cutoff" /\ e \in Listed(t)
    BY <1>1 DEF DueInv
  <2>1. Due(t, e) /\ cutoff[t] # None
    BY <1>1 DEF Due, Usable
  <2>2. ~(SubdirOf[e] > NumSubdirs)
    OBVIOUS
  <2> QED
    BY <1>1, <2>1, <2>2 DEF TrimInv, DueInv
<1>4. OrderInv(t)'
  <2>1. Listed(t)' = Listed(t) /\ dirs[t] \subseteq Listed(t)
    BY <1>1 DEF Listed, TrimInv, OrderInv
  <2> QED
    BY <1>1, <2>1 DEF OrderInv
<1> QED
  BY <1>2, <1>3, <1>4 DEF TrimInv

\* Both loops.  The entry is the oldest of those left, so every listed entry
\* that is older has been removed or met an error.
LEMMA RemoveInv ==
  ASSUME TypeOK, TypeOK', LagInv', Ages, NEW t \in Trimmers, TrimInv(t),
         pc[t] \in {"cutoff", "size"}, NEW e \in Oldest(t), Remove(t, e)
  PROVE  TrimInv(t)'
<1> USE TrimConstants
<1>1. /\ UNCHANGED <<now, lastGet, subdir, names, dirs, snap, pc, began, cutoff>>
      /\ todo'[t] = todo[t] \ {e}
  BY DEF Remove, RemoveAll, RemoveAllFails, history, optVars, listVars, TypeOK
<1>2. \/ /\ dir'[e] = None
         /\ gone'[t] = gone[t] \cup {e} /\ missed'[t] = missed[t] \ {e}
      \/ gone'[t] = gone[t] /\ missed'[t] = missed[t] \cup {e}
  <2>1. e \in Entries
    BY DEF Oldest, TypeOK
  <2> QED
    BY <2>1 DEF Remove, RemoveAll, TypeOK, DirTypeOK
<1>3. /\ e \in todo[t] /\ e \in Listed(t) /\ e \in Entries
      /\ \A f \in todo[t] : snap[t][e].mtime <= snap[t][f].mtime
      /\ \A f \in Listed(t) : snap[t][f].mtime \in Nat
  BY ListedType DEF Oldest, TrimInv, OrderInv
<1>4. /\ dirs[t] \cup gone[t] \cup todo[t] \subseteq Listed(t)
      /\ Listed(t) \subseteq todo[t] \cup gone[t] \cup missed[t]
      /\ pc[t] = "cutoff" => cutoff[t] # None
      /\ \A f \in gone[t], g \in Listed(t) :
           snap[t][g].mtime < snap[t][f].mtime => g \in gone[t] \cup missed[t]
  BY DEF TrimInv, OrderInv
<1>5. Listed(t)' = Listed(t)
  BY <1>1 DEF Listed
<1>a. TimeInv(t)'
  BY <1>1 DEF TrimInv, TimeInv
<1>b. ListInv(t)'
  <2> SUFFICES ASSUME NEW f \in Listed(t)
               PROVE  dir'[f] # None => snap[t][f].mtime <= dir'[f].mtime
    BY <1>1, <1>5 DEF TrimInv, ListInv
  <2>1. f \in Entries /\ snap[t][f].mtime <= now
        /\ (dir[f] # None => snap[t][f].mtime <= dir[f].mtime)
    BY DEF TrimInv, ListInv, Listed
  <2> QED
    BY <1>1, <2>1 DEF Ages
<1>c. DueInv(t)'
  <2> SUFFICES ASSUME NEW f \in Entries, Due(t, f)'
               PROVE  pc[t] = "cutoff" /\ f \in todo'[t]
    BY <1>1 DEF DueInv
  <2>1. f # e
    BY <1>2 DEF Due, Usable
  <2>2. f \notin missed[t]
    BY <1>2, <2>1 DEF Due
  <2>3. Due(t, f)
    BY <1>1, <2>2, DueStays DEF TrimInv
  <2> QED
    BY <1>1, <2>1, <2>3 DEF TrimInv, DueInv
<1>d. OrderInv(t)'
  <2>1. \A f \in gone'[t], g \in Listed(t) :
          snap[t][g].mtime < snap[t][f].mtime => g \in gone'[t] \cup missed'[t]
    <3> SUFFICES ASSUME NEW f \in gone'[t], NEW g \in Listed(t),
                        snap[t][g].mtime < snap[t][f].mtime
                 PROVE  g \in gone'[t] \cup missed'[t]
      OBVIOUS
    <3>1. CASE f \in gone[t]
      BY <3>1, <1>2, <1>4
    <3>2. CASE f = e
      <4>1. g \notin todo[t]
        BY <3>2, <1>3
      <4> QED
        BY <4>1, <1>2, <1>4
    <3> QED
      BY <3>1, <3>2, <1>2
  <2>2. /\ dirs[t] \cup gone'[t] \cup todo'[t] \subseteq Listed(t)
        /\ Listed(t) \subseteq todo'[t] \cup gone'[t] \cup missed'[t]
    BY <1>1, <1>2, <1>3, <1>4
  <2> QED
    BY <1>1, <1>4, <1>5, <2>1, <2>2 DEF OrderInv
<1> QED
  BY <1>a, <1>b, <1>c, <1>d DEF TrimInv

\* The oldest of the entries left is not older than the cutoff: so none is.
LEMMA EndCutoffStep ==
  ASSUME TypeOK, NEW t \in Trimmers, TrimInv(t), EndCutoff(t)
  PROVE  TrimInv(t)'
<1> USE TrimConstants
<1>1. /\ UNCHANGED <<now, dir, lastGet, subdir, names, dirs, snap, gone, missed,
                     began, cutoff>>
      /\ pc[t] = "cutoff" /\ pc'[t] \in {"stamp", "size"}
      /\ todo'[t] = Listed(t) \ gone[t]
  BY DEF EndCutoff, Goto, dirVars, history, optVars, listVars, TypeOK
<1>2. TimeInv(t)' /\ ListInv(t)'
  BY <1>1 DEF TrimInv, TimeInv, ListInv, Listed
<1>3. todo[t] \subseteq Listed(t) /\ cutoff[t] # None
  BY <1>1 DEF TrimInv, OrderInv
<1>4. \A e \in todo[t] : ~(snap[t][e].mtime < cutoff[t])
  <2> SUFFICES ASSUME NEW e \in todo[t] PROVE ~(snap[t][e].mtime < cutoff[t])
    OBVIOUS
  <2>1. PICK o \in Oldest(t) : snap[t][o].mtime <= snap[t][e].mtime
    BY <1>3, OldestExists
  <2>2. ~(snap[t][o].mtime < cutoff[t]) /\ o \in todo[t]
    BY <2>1 DEF EndCutoff, Expired, Oldest
  <2>3. /\ snap[t][o].mtime \in Nat /\ snap[t][e].mtime \in Nat
        /\ cutoff[t] \in Int
    BY <1>3, <2>2, ListedType DEF TypeOK
  <2> QED
    BY <2>1, <2>2, <2>3
<1>5. \A e \in Entries : ~Due(t, e)
  <2> SUFFICES ASSUME NEW e \in Entries, Due(t, e) PROVE FALSE
    OBVIOUS
  <2>1. e \in todo[t]
    BY <1>1 DEF TrimInv, DueInv
  <2>2. snap[t][e].mtime <= dir[e].mtime /\ dir[e].mtime < cutoff[t]
    BY <1>3, <2>1 DEF Due, Usable, TrimInv, ListInv
  <2>3. snap[t][e].mtime \in Nat /\ dir[e].mtime \in Nat /\ cutoff[t] \in Int
    BY <1>3, <2>1, ListedType DEF TypeOK, DirTypeOK, File, Due, Usable
  <2> QED
    BY <1>4, <2>1, <2>2, <2>3
<1>6. DueInv(t)'
  BY <1>1, <1>5 DEF DueInv, Due, Usable
<1>7. OrderInv(t)'
  BY <1>1 DEF TrimInv, OrderInv, Listed
<1> QED
  BY <1>2, <1>6, <1>7 DEF TrimInv

LEMMA EndSizeStep ==
  ASSUME TypeOK, NEW t \in Trimmers, TrimInv(t), EndSize(t) \/ WriteStamp(t)
  PROVE  TrimInv(t)'
<1>1. /\ UNCHANGED <<now, dir, lastGet, subdir, names, dirs, snap, todo, gone,
                     missed, began, cutoff>>
      /\ pc[t] \in {"size", "stamp"} /\ pc'[t] \in {"stamp", "done"}
  BY DEF EndSize, WriteStamp, Goto, dirVars, history, optVars, listVars,
         loopVars, TypeOK
<1>2. TimeInv(t)' /\ ListInv(t)'
  BY <1>1 DEF TrimInv, TimeInv, ListInv, Listed
<1>3. DueInv(t)'
  BY <1>1 DEF TrimInv, DueInv, Due, Usable
<1>4. OrderInv(t)'
  BY <1>1 DEF TrimInv, OrderInv, Listed
<1> QED
  BY <1>2, <1>3, <1>4 DEF TrimInv

LEMMA CrashStep ==
  ASSUME TypeOK, NEW t \in Trimmers, Crash(t)
  PROVE  TrimInv(t)'
<1>1. /\ pc'[t] = "killed" /\ cutoff'[t] = None /\ began'[t] = 0
      /\ now' = now /\ now \in Nat
  BY DEF Crash, Goto, RemoveAllFails, TypeOK, DirTypeOK
<1>2. /\ dirs'[t] = {} /\ todo'[t] = {} /\ gone'[t] = {}
      /\ snap'[t] = [e \in Entries |-> None]
  BY DEF Crash, Declared, TypeOK
<1>3. Listed(t)' = {}
  BY <1>2 DEF Listed
<1>4. TimeInv(t)' /\ ListInv(t)'
  BY <1>1, <1>3 DEF TimeInv, ListInv
<1>5. DueInv(t)' /\ OrderInv(t)'
  BY <1>1, <1>2, <1>3 DEF DueInv, OrderInv, Due
<1> QED
  BY <1>4, <1>5 DEF TrimInv

-----------------------------------------------------------------------------
LEMMA InitInv == Init => IInv
<1> SUFFICES ASSUME Init PROVE IInv
  OBVIOUS
<1>1. TypeOK /\ LagInv
  BY InitType, InitDir DEF Init
<1>2. ASSUME NEW t \in Trimmers PROVE TrimInv(t)
  <2>1. /\ pc[t] = "idle" /\ cutoff[t] = None /\ began[t] = 0 /\ now \in Nat
        /\ dirs[t] = {} /\ todo[t] = {} /\ gone[t] = {}
        /\ snap[t] = [e \in Entries |-> None]
    BY <1>1 DEF Init, TypeOK, DirTypeOK
  <2>2. Listed(t) = {}
    BY <2>1 DEF Listed
  <2> QED
    BY <2>1, <2>2 DEF TrimInv, TimeInv, ListInv, DueInv, OrderInv, Due
<1> QED
  BY <1>1, <1>2 DEF IInv

LEMMA NextInv ==
  ASSUME IInv, [Next]_vars
  PROVE  IInv'
<1>1. TypeOK /\ LagInv /\ TypeOK' /\ LagInv' /\ Ages
  BY StepType, DirStep DEF IInv
<1>2. ASSUME NEW t \in Trimmers PROVE TrimInv(t)'
  <2>1. TrimInv(t)
    BY DEF IInv
  <2>2. CASE TrimStep(t)
    <3>1. CASE CutoffStep(t) \/ SizeStep(t)
      <4>1. /\ pc[t] \in {"cutoff", "size"}
            /\ \E e \in Oldest(t) : Remove(t, e)
        BY <3>1 DEF CutoffStep, SizeStep
      <4> QED
        BY <1>1, <2>1, <4>1, RemoveInv
    <3>2. CASE ~(CutoffStep(t) \/ SizeStep(t))
      BY <1>1, <2>1, <2>2, <3>2, LocalTrimStep, TrimExtraStep, BeginStep,
         OpenSubdirStep, StatNameStep, ReadExecutableStep, EndReadStep,
         EndCutoffStep, EndSizeStep, CrashStep
         DEF TrimStep, Proceed
    <3> QED
      BY <3>1, <3>2
  <2>3. CASE ~TrimStep(t)
    <3>1. SameTrim(t)
      BY <1>1, <2>3, OthersSame DEF Next
    <3> QED
      BY <1>1, <2>1, <3>1, OutsideStep
  <2> QED
    BY <2>2, <2>3
<1> QED
  BY <1>1, <1>2 DEF IInv

LEMMA Invariant == Spec => []IInv
<1>1. IInv /\ [Next]_vars => IInv'
  BY NextInv
<1> QED
  BY <1>1, InitInv, PTL DEF Spec

\* The variables of TrimForce have their types.
THEOREM TypeCorrect == Spec => []TypeOK
<1>1. IInv => TypeOK
  BY DEF IInv
<1> QED
  BY <1>1, Invariant, PTL

\* When the cutoff loop of TrimForce is over, nothing usable is older than
\* the cutoff, now or later: whatever other trims and go commands do.
THEOREM CutoffCorrect == Spec => []CutoffEnforced
<1>1. IInv => CutoffEnforced
  <2> SUFFICES ASSUME IInv, NEW t \in Trimmers,
                      pc[t] \in {"size", "stamp", "done"}, cutoff[t] # None,
                      NEW e \in Entries \ missed[t], Usable(e)
               PROVE  dir[e].mtime >= cutoff[t]
    BY DEF CutoffEnforced
  <2>1. ~Due(t, e)
    BY DEF IInv, TrimInv, DueInv
  <2>2. cutoff[t] \in Int /\ dir[e].mtime \in Nat
    BY DEF IInv, TypeOK, DirTypeOK, File, Usable
  <2> QED
    BY <2>1, <2>2 DEF Due
<1> QED
  BY <1>1, Invariant, PTL

\* TrimForce removes the least recently used first, in the order of what
\* read listed, over both of its loops.
THEOREM LruCorrect == Spec => []LruOrder
<1>1. IInv => LruOrder
  BY DEF IInv, TrimInv, OrderInv, LruOrder
<1> QED
  BY <1>1, Invariant, PTL

\* What the loop over the cutoff costs the go commands: an entry last used
\* before the cutoff plus mtimeInterval, or used while the trim ran.
THEOREM RemovedCorrect == Spec => RemovedWasUnused
<1> DEFINE Cost == \A t \in Trimmers, e \in Entries :
             ExpiredBy(t, e) => \/ lastGet[e] < cutoff[t] + MtimeInterval
                                \/ lastGet[e] >= began[t]
<1>1. ASSUME IInv, [Next]_vars PROVE Cost
  <2> SUFFICES ASSUME NEW t \in Trimmers, NEW e \in Entries, ExpiredBy(t, e)
               PROVE  \/ lastGet[e] < cutoff[t] + MtimeInterval
                      \/ lastGet[e] >= began[t]
    OBVIOUS
  <2>1. pc[t] = "cutoff" /\ e \in gone'[t] /\ e \notin gone[t]
    BY DEF ExpiredBy
  <2>2. TypeOK /\ TrimInv(t)
    BY <1>1 DEF IInv
  <2>3. CutoffStep(t)
    <3>1. TrimStep(t)
      BY <1>1, <2>1, <2>2, OthersSame DEF Next, SameTrim
    <3>2. ~Crash(t) /\ ~EndCutoff(t)
      BY <2>1, <2>2 DEF Crash, Declared, EndCutoff, TypeOK
    <3> QED
      BY <2>1, <3>1, <3>2 DEF TrimStep, Proceed, LocalTrim, TrimExtra, Begin,
         OpenSubdir, StatName, ReadExecutable, EndRead, SizeStep, EndSize,
         WriteStamp
  <2>4. PICK f \in Oldest(t) : Expired(t, f) /\ Remove(t, f)
    BY <2>3 DEF CutoffStep
  <2>5. f = e
    BY <2>1, <2>2, <2>4 DEF Remove, TypeOK
  <2>6. e \in Listed(t) /\ cutoff[t] # None
    BY <2>1, <2>2, <2>4, <2>5 DEF Oldest, TrimInv, OrderInv
  <2>7. /\ snap[t][e].mtime \in Nat /\ cutoff[t] \in Int /\ began[t] \in Nat
        /\ lastGet[e] \in Nat
    BY <2>2, <2>6, ListedType DEF TypeOK, DirTypeOK
  <2>8. snap[t][e].mtime < cutoff[t]
    BY <2>4, <2>5 DEF Expired
  <2>9. \/ lastGet[e] < snap[t][e].mtime + MtimeInterval
        \/ lastGet[e] >= began[t]
    BY <2>2, <2>6 DEF TrimInv, ListInv
  <2> QED
    BY <2>7, <2>8, <2>9, TrimConstants
<1>2. IInv /\ [Next]_vars => [Cost]_vars
  BY <1>1
<1> QED
  BY <1>2, Invariant, PTL DEF Spec, RemovedWasUnused

=============================================================================
