--------------------------- MODULE CopyFileProofs ---------------------------
(***************************************************************************)
(* Proofs about CopyFile, for any number of writers, readers and inodes,   *)
(* and any size of the output: its invariants, when writers of one output  *)
(* do not overlap in the presence of faults; then, with or without that    *)
(* restriction, that it implements OutputFile.                             *)
(***************************************************************************)
EXTENDS CopyFile, TLAPS

\* Files not yet created are empty, and nobody has them.
UnusedInv ==
  /\ name \notin unused
  /\ \A i \in unused : len[i] = 0 /\ right[i] = {} /\ i \notin lost
  /\ \A p \in Procs : fd[p] \notin unused
  /\ \A r \in Readers : held[r] \notin unused

\* Nothing is right beyond the end.  A file that lost its contents is no
\* longer than the output, and does not have its last byte again.
ContentInv ==
  /\ \A i \in Inodes : right[i] \subseteq 1..len[i]
  /\ \A i \in lost : len[i] <= N /\ N > 0 /\ N \notin right[i]

\* Without faults every file is right up to its end.
PrefixInv ==
  ~faults => /\ lost = {}
             /\ \A i \in Inodes : len[i] <= N /\ right[i] = 1..len[i]

\* With faults there is one writer at a time.
AloneInv == faults => \A p, q \in Active : p = q

\* A writer that is about to open the file has an up-to-date idea of it: it
\* truncates a file that is too long, and only such a file.
OpenInv(p) ==
  pc[p] \in {"check", "open"} =>
    /\ ~faults => statSize[p] = None \/ statSize[p] <= N
    /\ faults => name = None \/ statSize[p] = len[name]
    /\ pc[p] = "open" /\ faults => name = None \/ len[name] # N \/ name \in lost

\* A reader uses the file, or executes it.
Used(i) == \E r \in Readers : held[r] = i

\* What holds of a file that has been reported as stored.
Reported(i) == IF i \in lost THEN Used(i) ELSE Intact(i)

\* With faults, a file that is being closed has been reported as stored only
\* if it had lost what was written and was busy: then it still is.
NotStored(p) ==
  faults => \A q \in Procs : pc[q] = "ok" /\ fd[q] = fd[p] => Used(fd[p])

WriteInv(p) ==
  pc[p] = "write" =>
    /\ fd[p] \in Inodes
    /\ offset[p] <= N - 1 /\ offset[p] <= len[fd[p]]
    /\ hashOK[p] => 1..offset[p] \subseteq right[fd[p]]
    /\ ~faults => hashOK[p]
    /\ len[fd[p]] <= N
    /\ faults => len[fd[p]] # N \/ fd[p] \in lost

CloseInv(p) ==
  /\ pc[p] = "close" =>
       fd[p] \in Inodes \ lost /\ Intact(fd[p]) /\ N > 0 /\ NotStored(p)
  /\ pc[p] = "remove" => fd[p] \in Inodes
  /\ pc[p] = "ok" => fd[p] \in Inodes /\ Reported(fd[p])

Inv ==
  /\ UnusedInv /\ ContentInv /\ PrefixInv /\ AloneInv
  /\ \A p \in Procs : OpenInv(p) /\ WriteInv(p) /\ CloseInv(p)
  /\ CompleteIsIntact /\ HeldStaysIntact /\ LostIsRemoved

IInv == TypeOK /\ Inv

-----------------------------------------------------------------------------
\* What is assumed of the constants, in the form the steps use.
LEMMA Constants ==
  /\ N \in Nat /\ None \notin Inodes /\ None \notin Int
  /\ \A l \in InitialLens \cup {0} : l \in Nat
BY CopyAssumption

LEMMA InitType == Init => TypeOK
<1> SUFFICES ASSUME Init PROVE TypeOK
  OBVIOUS
<1>1. PICK l \in InitialLens \cup {0} : \E good \in SUBSET (1..l) :
        /\ len = [i \in Inodes |-> IF i = name THEN l ELSE 0]
        /\ right = [i \in Inodes |-> IF i = name THEN good ELSE {}]
  BY DEF Init
<1>2. PICK good \in SUBSET (1..l) :
        /\ len = [i \in Inodes |-> IF i = name THEN l ELSE 0]
        /\ right = [i \in Inodes |-> IF i = name THEN good ELSE {}]
  BY <1>1
<1>3. l \in Nat /\ good \in SUBSET Nat
  BY Constants
<1>4. len \in [Inodes -> Nat] /\ right \in [Inodes -> SUBSET Nat]
  BY <1>2, <1>3
<1> QED
  BY <1>4, Constants DEF Init, TypeOK, PCs

LEMMA StepType ==
  ASSUME TypeOK, [Next]_vars
  PROVE  TypeOK'
<1> USE Constants DEF TypeOK, PCs, Goto
<1>1. ASSUME NEW p \in Procs, Stat(p) PROVE TypeOK'
  BY <1>1 DEF Stat, fileVars
<1>2. ASSUME NEW p \in Procs, CheckHash(p) PROVE TypeOK'
  BY <1>2 DEF CheckHash, fileVars
<1>3. ASSUME NEW p \in Procs, OpenFile(p) PROVE TypeOK'
  BY <1>3 DEF OpenFile
<1>4. ASSUME NEW p \in Procs, TextBusy(p) PROVE TypeOK'
  BY <1>4 DEF TextBusy, fileVars
<1>5. ASSUME NEW p \in Procs, OpenFails(p) PROVE TypeOK'
  BY <1>5 DEF OpenFails, fileVars
<1>6. ASSUME NEW p \in Procs, Write(p) PROVE TypeOK'
  BY <1>6 DEF Write, WriteUnit
<1>7. ASSUME NEW p \in Procs, Commit(p) PROVE TypeOK'
  BY <1>7 DEF Commit, WriteUnit
<1>8. ASSUME NEW p \in Procs, Fail(p) PROVE TypeOK'
  BY <1>8 DEF Fail
<1>9. ASSUME NEW p \in Procs, Close(p) PROVE TypeOK'
  BY <1>9 DEF Close, fileVars
<1>10. ASSUME NEW p \in Procs, CloseFails(p) PROVE TypeOK'
  BY <1>10 DEF CloseFails
<1>11. ASSUME NEW p \in Procs, RemoveFile(p) PROVE TypeOK'
  BY <1>11 DEF RemoveFile
<1>12. ASSUME NEW p \in Procs, Crash(p) PROVE TypeOK'
  BY <1>12 DEF Crash, fileVars
<1>13. ASSUME NEW r \in Readers, Get(r) PROVE TypeOK'
  BY <1>13 DEF Get, fileVars, procVars
<1>14. CASE TrimRemoves
  BY <1>14 DEF TrimRemoves, procVars
<1>15. CASE UNCHANGED vars
  BY <1>15 DEF vars, fileVars, procVars
<1> HIDE DEF TypeOK
<1> QED
  BY <1>1, <1>2, <1>3, <1>4, <1>5, <1>6, <1>7, <1>8, <1>9, <1>10, <1>11,
     <1>12, <1>13, <1>14, <1>15 DEF Next, Step

-----------------------------------------------------------------------------
\* Each action preserves the invariant.

\* copyFile finds the output in place: CheckHash or TextBusy.
LEMMA FoundStep ==
  ASSUME IInv, TypeOK', NEW p \in Procs, pc[p] \in {"check", "open"},
         name \in Inodes, Reported(name),
         UNCHANGED <<faults, fileVars, statSize, offset, hashOK, held>>,
         fd' = [fd EXCEPT ![p] = name], Goto(p, "ok")
  PROVE  Inv'
<1> USE Constants
<1>1. UNCHANGED <<faults, name, len, right, unused, lost, statSize, offset,
                  hashOK, held>>
  BY DEF fileVars
<1>2. /\ pc'[p] = "ok" /\ fd'[p] = name
      /\ \A q \in Procs : q # p => pc'[q] = pc[q] /\ fd'[q] = fd[q]
  BY DEF Goto, IInv, TypeOK
<1>3. ASSUME faults, NEW q \in Procs, q # p
      PROVE  pc[q] \notin {"write", "close"}
  BY <1>3 DEF IInv, Inv, AloneInv, Active
<1>a. UnusedInv' /\ ContentInv' /\ PrefixInv'
  BY <1>1, <1>2 DEF UnusedInv, ContentInv, PrefixInv, IInv, Inv
<1>b. AloneInv'
  BY <1>1, <1>2 DEF AloneInv, Active, IInv, Inv
<1>c. \A q \in Procs : OpenInv(q)'
  BY <1>1, <1>2 DEF OpenInv, IInv, Inv
<1>d. \A q \in Procs : WriteInv(q)'
  <2> SUFFICES ASSUME NEW q \in Procs, q # p, pc[q] = "write"
               PROVE  WriteInv(q)'
    BY <1>2 DEF WriteInv
  <2>1. ~faults
    BY <1>3
  <2> QED
    BY <2>1, <1>1, <1>2 DEF WriteInv, IInv, Inv
<1>e. \A q \in Procs : CloseInv(q)'
  <2>1. CloseInv(p)'
    BY <1>1, <1>2 DEF CloseInv, Reported, Used, Intact
  <2>2. ASSUME NEW q \in Procs, q # p PROVE CloseInv(q)'
    <3>1. pc[q] = "close" => ~faults
      BY <2>2, <1>3
    <3>2. CloseInv(q)
      BY DEF IInv, Inv
    <3> QED
      BY <3>1, <3>2, <2>2, <1>1, <1>2 DEF CloseInv, NotStored, Reported, Used, Intact
  <2> QED
    BY <2>1, <2>2
<1>f. CompleteIsIntact' /\ HeldStaysIntact'
  BY <1>1 DEF CompleteIsIntact, HeldStaysIntact, Intact, IInv, Inv
<1>g. LostIsRemoved'
  BY <1>1, <1>2 DEF LostIsRemoved, IInv, Inv
<1> QED
  BY <1>a, <1>b, <1>c, <1>d, <1>e, <1>f, <1>g DEF Inv

LEMMA StatStep ==
  ASSUME ~Overlap, IInv, TypeOK', NEW p \in Procs, Stat(p)
  PROVE  Inv'
<1> USE Constants
<1>1. UNCHANGED <<faults, name, len, right, unused, lost, fd, offset, hashOK, held>>
  BY DEF Stat, fileVars
<1>2. /\ pc[p] = "idle"
      /\ pc'[p] = IF name # None /\ len[name] = N THEN "check" ELSE "open"
      /\ statSize'[p] = IF name = None THEN None ELSE len[name]
      /\ \A q \in Procs : q # p => pc'[q] = pc[q] /\ statSize'[q] = statSize[q]
  BY DEF Stat, Goto, IInv, TypeOK
<1>3. UnusedInv' /\ ContentInv' /\ PrefixInv'
  BY <1>1 DEF UnusedInv, ContentInv, PrefixInv, IInv, Inv
<1>4. AloneInv'
  <2>1. faults => Active = {}
    BY DEF Stat
  <2> QED
    BY <2>1, <1>1, <1>2 DEF AloneInv, Active
<1>5. \A q \in Procs : OpenInv(q)'
  <2>1. OpenInv(p)'
    <3>1. ~faults => statSize'[p] = None \/ statSize'[p] <= N
      BY <1>2 DEF IInv, Inv, PrefixInv, TypeOK
    <3> QED
      BY <3>1, <1>1, <1>2 DEF OpenInv
  <2>2. ASSUME NEW q \in Procs, q # p PROVE OpenInv(q)'
    BY <2>2, <1>1, <1>2 DEF OpenInv, IInv, Inv
  <2> QED
    BY <2>1, <2>2
<1>6. \A q \in Procs : WriteInv(q)' /\ CloseInv(q)'
  BY <1>1, <1>2 DEF WriteInv, CloseInv, NotStored, Reported, Used, Intact, IInv, Inv
<1>7. CompleteIsIntact' /\ HeldStaysIntact'
  BY <1>1 DEF CompleteIsIntact, HeldStaysIntact, Intact, IInv, Inv
<1>8. LostIsRemoved'
  BY <1>1, <1>2 DEF LostIsRemoved, IInv, Inv
<1> QED
  BY <1>3, <1>4, <1>5, <1>6, <1>7, <1>8 DEF Inv

LEMMA CheckHashStep ==
  ASSUME IInv, TypeOK', NEW p \in Procs, CheckHash(p)
  PROVE  Inv'
<1> USE Constants
<1>1. CASE name # None /\ Intact(name)
  <2>1. name \in Inodes /\ Reported(name)
    BY <1>1 DEF Reported, Intact, IInv, Inv, ContentInv, TypeOK
  <2> QED
    BY <1>1, <2>1, FoundStep DEF CheckHash
<1>2. CASE ~(name # None /\ Intact(name))
  <2>1. UNCHANGED <<faults, name, len, right, unused, lost, statSize, fd, offset,
                    hashOK, held>>
    BY <1>2 DEF CheckHash, fileVars
  <2>2. /\ pc[p] = "check" /\ pc'[p] = "open"
        /\ \A q \in Procs : q # p => pc'[q] = pc[q]
    BY <1>2 DEF CheckHash, Goto, IInv, TypeOK
  <2>a. UnusedInv' /\ ContentInv' /\ PrefixInv'
    BY <2>1 DEF UnusedInv, ContentInv, PrefixInv, IInv, Inv
  <2>b. AloneInv'
    BY <2>1, <2>2 DEF AloneInv, Active, IInv, Inv
  <2>c. \A q \in Procs : OpenInv(q)'
    <3>1. name = None \/ len[name] # N \/ name \in lost
      BY <1>2 DEF IInv, Inv, CompleteIsIntact, TypeOK
    <3> QED
      BY <3>1, <2>1, <2>2 DEF OpenInv, IInv, Inv
  <2>d. \A q \in Procs : WriteInv(q)' /\ CloseInv(q)'
    BY <2>1, <2>2 DEF WriteInv, CloseInv, NotStored, Reported, Used, Intact, IInv, Inv
  <2>e. CompleteIsIntact' /\ HeldStaysIntact'
    BY <2>1 DEF CompleteIsIntact, HeldStaysIntact, Intact, IInv, Inv
  <2>f. LostIsRemoved'
    BY <2>1, <2>2 DEF LostIsRemoved, IInv, Inv
  <2> QED
    BY <2>a, <2>b, <2>c, <2>d, <2>e, <2>f DEF Inv
<1> QED
  BY <1>1, <1>2

LEMMA TextBusyStep ==
  ASSUME IInv, TypeOK', NEW p \in Procs, TextBusy(p)
  PROVE  Inv'
<1>1. PICK r \in Readers : held[r] = name
  BY DEF TextBusy
<1>2. name \in Inodes /\ name # None
  BY DEF TextBusy, IInv, TypeOK
<1>3. CASE name \in lost
  BY <1>1, <1>2, <1>3, FoundStep DEF TextBusy, Reported, Used
<1>4. CASE name \notin lost
  <2>1. Intact(name)
    BY <1>1, <1>2, <1>4 DEF IInv, Inv, HeldStaysIntact
  <2> QED
    BY <2>1, <1>2, <1>4, FoundStep DEF TextBusy, Reported
<1> QED
  BY <1>3, <1>4

LEMMA OpenFileStep ==
  ASSUME IInv, TypeOK', NEW p \in Procs, OpenFile(p)
  PROVE  Inv'
<1> DEFINE i == fd'[p]
<1> USE Constants
<1>1. UNCHANGED <<faults, statSize, held, lost>>
  BY DEF OpenFile
<1>2. /\ pc[p] = "open" /\ pc'[p] = IF N = 0 THEN "ok" ELSE "write"
      /\ offset'[p] = 0 /\ hashOK'[p]
      /\ \A q \in Procs : q # p => /\ pc'[q] = pc[q] /\ fd'[q] = fd[q]
                                   /\ offset'[q] = offset[q]
                                   /\ hashOK'[q] = hashOK[q]
  BY DEF OpenFile, Goto, IInv, TypeOK
<1>3. i \in Inodes /\ name' = i /\ len[i] \in Nat /\ right[i] \in SUBSET Nat
  BY DEF OpenFile, IInv, TypeOK
<1>4. /\ unused' \subseteq unused /\ i \notin unused'
      /\ unused' = unused \/ (name = None /\ unused' = unused \ {i} /\ i \in unused)
  BY DEF OpenFile, IInv, Inv, TypeOK, UnusedInv
<1>5. \A j \in Inodes : j # i => len'[j] = len[j] /\ right'[j] = right[j]
  BY DEF OpenFile, IInv, TypeOK
\* The file is as it was, or, if it was too long, empty.
<1>6. \/ UNCHANGED <<len, right>>
      \/ len'[i] = 0 /\ right'[i] = {} /\ faults /\ i = name /\ len[i] > N
  <2>1. CASE name = None \/ statSize[p] = None \/ ~(statSize[p] > N)
    BY <2>1 DEF OpenFile
  <2>2. CASE name # None /\ statSize[p] # None /\ statSize[p] > N
    <3>1. statSize[p] \in Nat
      BY <2>2 DEF IInv, TypeOK
    <3>2. faults
      BY <2>2, <3>1, <1>2 DEF IInv, Inv, OpenInv
    <3>3. statSize[p] = len[name] /\ i = name
      BY <2>2, <3>2, <1>2 DEF IInv, Inv, OpenInv, OpenFile, TypeOK
    <3> QED
      BY <2>2, <3>2, <3>3, <1>3 DEF OpenFile, IInv, TypeOK
  <2> QED
    BY <2>1, <2>2
\* In either case it is not one of the right size already.
<1>7. faults /\ N # 0 => len'[i] < N \/ (i \in lost /\ len'[i] <= N)
  <2> SUFFICES ASSUME faults, N # 0
               PROVE  len'[i] < N \/ (i \in lost /\ len'[i] <= N)
    OBVIOUS
  <2>1. CASE name = None
    <3>1. i \in unused /\ UNCHANGED len
      BY <2>1 DEF OpenFile, IInv, TypeOK
    <3> QED
      BY <3>1 DEF IInv, Inv, UnusedInv
  <2>2. CASE name # None
    <3>1. statSize[p] = len[name] /\ (len[name] # N \/ name \in lost) /\ i = name
      BY <2>2, <1>2 DEF OpenFile, OpenInv, IInv, Inv, TypeOK
    <3>2. len[name] \in Nat
      BY <1>3, <3>1
    <3>3. CASE len[name] > N
      BY <2>2, <3>1, <3>2, <3>3 DEF OpenFile, IInv, TypeOK
    <3>4. CASE len[name] <= N
      BY <2>2, <3>1, <3>2, <3>4, <1>6
    <3> QED
      BY <3>2, <3>3, <3>4
  <2> QED
    BY <2>1, <2>2
<1>8. ~faults => UNCHANGED <<len, right>>
  BY <1>6
<1>9. \A j \in Inodes : N # 0 /\ Reported(j) => Reported(j)'
  <2> SUFFICES ASSUME NEW j \in Inodes, N # 0, Reported(j) PROVE Reported(j)'
    OBVIOUS
  <2>1. CASE j \in lost
    BY <2>1, <1>1 DEF Reported, Used
  <2>2. CASE j \notin lost
    <3>1. Intact(j)
      BY <2>2 DEF Reported
    <3>2. j # i \/ UNCHANGED <<len, right>>
      BY <3>1, <1>6 DEF Intact
    <3> QED
      BY <2>2, <3>1, <3>2, <1>1, <1>5 DEF Reported, Intact
  <2> QED
    BY <2>1, <2>2
<1> HIDE DEF i
<1>a. UnusedInv'
  <2>1. \A j \in unused' : len'[j] = 0 /\ right'[j] = {} /\ j \notin lost
    BY <1>4, <1>5 DEF IInv, Inv, UnusedInv, TypeOK
  <2>2. \A q \in Procs : fd'[q] \notin unused'
    BY <1>2, <1>4 DEF i, IInv, Inv, UnusedInv
  <2> QED
    BY <2>1, <2>2, <1>1, <1>3, <1>4 DEF UnusedInv, IInv, Inv
<1>b. ContentInv'
  <2>1. \A j \in Inodes : right'[j] \subseteq 1..len'[j]
    BY <1>5, <1>6 DEF IInv, Inv, ContentInv
  <2>2. \A j \in lost : len'[j] <= N /\ N > 0 /\ N \notin right'[j]
    BY <1>5, <1>6 DEF IInv, Inv, ContentInv, TypeOK
  <2> QED
    BY <2>1, <2>2, <1>1 DEF ContentInv
<1>c. PrefixInv'
  BY <1>1, <1>8 DEF PrefixInv, IInv, Inv
<1>d. AloneInv'
  BY <1>1, <1>2 DEF AloneInv, Active, IInv, Inv
<1>e. \A q \in Procs : OpenInv(q)'
  <2> SUFFICES ASSUME NEW q \in Procs, q # p, pc[q] \in {"check", "open"}
               PROVE  OpenInv(q)'
    BY <1>2 DEF OpenInv
  <2>1. ~faults
    BY <1>2 DEF IInv, Inv, AloneInv, Active
  <2> QED
    BY <2>1, <1>1, <1>2 DEF OpenInv, IInv, Inv
<1>f. \A q \in Procs : WriteInv(q)'
  <2> SUFFICES ASSUME NEW q \in Procs, pc'[q] = "write"
               PROVE  WriteInv(q)'
    BY DEF WriteInv
  <2>1. CASE q = p
    <3>1. N # 0
      BY <2>1, <1>2
    <3>3. len'[i] <= N /\ (faults => len'[i] # N \/ i \in lost)
      <4>1. ~faults => len'[i] <= N
        BY <1>3, <1>8 DEF IInv, Inv, PrefixInv
      <4>2. len'[i] \in Nat
        BY <1>3 DEF TypeOK
      <4> QED
        BY <4>1, <4>2, <1>7, <3>1
    <3>4. 1..0 \subseteq right'[i] /\ 0 <= N - 1 /\ 0 <= len'[i]
      BY <3>1, <1>3 DEF TypeOK
    <3> QED
      BY <2>1, <3>3, <3>4, <1>1, <1>2, <1>3 DEF WriteInv, i
  <2>2. CASE q # p
    <3>1. ~faults
      BY <2>2, <1>2 DEF IInv, Inv, AloneInv, Active
    <3> QED
      BY <2>2, <3>1, <1>1, <1>2, <1>8 DEF WriteInv, IInv, Inv
  <2> QED
    BY <2>1, <2>2
\* Only an empty output is complete as soon as its file is open.
<1>g. \A q \in Procs : CloseInv(q)'
  <2>1. CASE N = 0
    <3>1. lost = {}
      BY <2>1 DEF IInv, Inv, ContentInv
    <3>2. len'[i] = 0 /\ right'[i] = {}
      <4>1. len[i] = 0 => right[i] = {}
        BY <1>3 DEF IInv, Inv, ContentInv
      <4>2. len'[i] = 0 \/ (UNCHANGED <<len, right>> /\ len[i] = 0)
        <5>1. CASE name = None
          BY <5>1 DEF i, OpenFile, IInv, Inv, TypeOK, UnusedInv
        <5>2. CASE name # None /\ ~faults
          BY <5>2, <2>1, <1>3, <1>8 DEF IInv, Inv, PrefixInv
        <5>3. CASE name # None /\ faults
          <6>1. statSize[p] = len[name] /\ i = name
            BY <5>3, <1>2 DEF i, OpenFile, OpenInv, IInv, Inv, TypeOK
          <6> QED
            BY <5>3, <6>1, <2>1, <1>3, <1>6 DEF OpenFile, IInv, TypeOK
        <5> QED
          BY <5>1, <5>2, <5>3
      <4> QED
        BY <4>1, <4>2, <1>6
    <3>3. CloseInv(p)'
      BY <2>1, <3>1, <3>2, <1>1, <1>2, <1>3 DEF CloseInv, Reported, Intact, i
    <3>4. ASSUME NEW q \in Procs, q # p PROVE CloseInv(q)'
      <4>1. CloseInv(q)
        BY DEF IInv, Inv
      <4>2. pc[q] = "ok" => Intact(fd[q])'
        BY <4>1, <3>1, <3>2, <3>4, <2>1, <1>2, <1>5 DEF CloseInv, Reported, Intact
      <4> QED
        BY <4>1, <4>2, <3>1, <3>4, <2>1, <1>1, <1>2 DEF CloseInv, Reported
    <3> QED
      BY <3>3, <3>4
  <2>2. CASE N # 0
    <3>1. CloseInv(p)'
      BY <2>2, <1>2 DEF CloseInv
    <3>2. ASSUME NEW q \in Procs, q # p PROVE CloseInv(q)'
      <4>1. CloseInv(q)
        BY DEF IInv, Inv
      <4>2. pc[q] = "close" => ~faults
        BY <3>2, <1>2 DEF IInv, Inv, AloneInv, Active
      <4>3. pc[q] = "close" => Intact(fd[q])'
        BY <4>1, <4>2, <3>2, <1>2, <1>8 DEF CloseInv, Intact
      <4>4. pc[q] = "ok" => Reported(fd[q])'
        <5>1. pc[q] = "ok" => fd[q] \in Inodes /\ Reported(fd[q])
          BY <4>1 DEF CloseInv
        <5>2. fd'[q] = fd[q]
          BY <3>2, <1>2
        <5> QED
          BY <5>1, <5>2, <2>2, <1>9 DEF Reported, Used, Intact
      <4>5. pc'[q] = pc[q] /\ fd'[q] = fd[q]
        BY <3>2, <1>2
      <4> QED
        BY <4>1, <4>2, <4>3, <4>4, <4>5, <1>1 DEF CloseInv, NotStored, Reported, Used, Intact
    <3> QED
      BY <3>1, <3>2
  <2> QED
    BY <2>1, <2>2
<1>h. CompleteIsIntact'
  <2> SUFFICES ASSUME NEW j \in Inodes \ lost, len'[j] = N PROVE Intact(j)'
    BY <1>1 DEF CompleteIsIntact
  <2>1. CASE j # i \/ UNCHANGED <<len, right>>
    BY <2>1, <1>5 DEF IInv, Inv, CompleteIsIntact, Intact
  <2>2. CASE len'[i] = 0 /\ right'[i] = {} /\ j = i
    <3>1. N = 0 /\ 1..0 = {}
      BY <2>2
    <3> QED
      BY <2>2, <3>1 DEF Intact
  <2> QED
    BY <2>1, <2>2, <1>6
<1>i. HeldStaysIntact'
  <2> SUFFICES ASSUME NEW r \in Readers, held[r] \notin lost \cup {None}
               PROVE  Intact(held[r])'
    BY <1>1 DEF HeldStaysIntact
  <2>1. held[r] \in Inodes /\ Intact(held[r])
    BY DEF IInv, Inv, TypeOK, HeldStaysIntact
  <2>2. CASE held[r] # i \/ UNCHANGED <<len, right>>
    BY <2>1, <2>2, <1>1, <1>5 DEF Intact
  <2>3. CASE held[r] = i /\ len[i] > N
    BY <2>1, <2>3 DEF Intact
  <2> QED
    BY <2>2, <2>3, <1>6
<1>j. LostIsRemoved'
  <2> SUFFICES ASSUME name' \in lost
               PROVE  \E q \in Procs : pc'[q] \in {"remove", "killed"} /\ fd'[q] = name'
    BY <1>1 DEF LostIsRemoved
  <2>1. name' = name
    BY DEF OpenFile, IInv, Inv, UnusedInv
  <2> QED
    BY <2>1, <1>2 DEF IInv, Inv, LostIsRemoved
<1> QED
  BY <1>a, <1>b, <1>c, <1>d, <1>e, <1>f, <1>g, <1>h, <1>i, <1>j DEF Inv

\* The writer gives up or is killed, and leaves the file as it is.
LEMMA LeaveStep ==
  ASSUME IInv, TypeOK', NEW p \in Procs,
         \/ pc'[p] = "killed"
         \/ pc[p] = "open" /\ pc'[p] = "error",
         \A q \in Procs : q # p => pc'[q] = pc[q],
         UNCHANGED <<faults, fileVars, statSize, fd, offset, hashOK, held>>
  PROVE  Inv'
<1>1. UNCHANGED <<faults, name, len, right, unused, lost, statSize, fd, offset,
                  hashOK, held>>
  BY DEF fileVars
<1>2. pc'[p] \in {"killed", "error"}
  OBVIOUS
<1>3. UnusedInv' /\ ContentInv' /\ PrefixInv'
  BY <1>1 DEF UnusedInv, ContentInv, PrefixInv, IInv, Inv
<1>4. AloneInv'
  BY <1>1, <1>2 DEF AloneInv, Active, IInv, Inv
<1>5. \A q \in Procs : OpenInv(q)' /\ WriteInv(q)' /\ CloseInv(q)'
  BY <1>1, <1>2 DEF OpenInv, WriteInv, CloseInv, NotStored, Reported, Used, Intact, IInv, Inv
<1>6. CompleteIsIntact' /\ HeldStaysIntact'
  BY <1>1 DEF CompleteIsIntact, HeldStaysIntact, Intact, IInv, Inv
<1>7. LostIsRemoved'
  BY <1>1 DEF LostIsRemoved, IInv, Inv
<1> QED
  BY <1>3, <1>4, <1>5, <1>6, <1>7 DEF Inv

LEMMA OpenFailsStep ==
  ASSUME IInv, TypeOK', NEW p \in Procs, OpenFails(p)
  PROVE  Inv'
<1>1. /\ pc[p] = "open" /\ pc'[p] = "error"
      /\ \A q \in Procs : q # p => pc'[q] = pc[q]
  BY DEF OpenFails, Goto, IInv, TypeOK
<1> QED
  BY <1>1, LeaveStep DEF OpenFails

LEMMA WriteStep ==
  ASSUME IInv, TypeOK', NEW p \in Procs, Write(p)
  PROVE  Inv'
<1> DEFINE i == fd[p]
           u == offset[p] + 1
<1> USE Constants
<1>1. PICK same \in {TRUE, ~(faults /\ SourceChanges)} :
        WriteUnit(p, same) /\ hashOK' = [hashOK EXCEPT ![p] = @ /\ same]
  BY DEF Write
<1>2. UNCHANGED <<faults, name, unused, pc, statSize, fd, held, lost>>
  BY <1>1 DEF Write, WriteUnit
<1>3. /\ pc[p] = "write" /\ i \in Inodes /\ len[i] \in Nat
      /\ offset[p] \in Nat /\ u < N /\ u \in 1..N
      /\ offset[p] <= len[i] /\ len[i] <= N
  BY DEF IInv, Inv, TypeOK, WriteInv, Write
<1>4. /\ len'[i] = IF len[i] < u THEN u ELSE len[i]
      /\ right'[i] = IF same THEN right[i] \cup {u} ELSE right[i] \ {u}
      /\ \A j \in Inodes : j # i => len'[j] = len[j] /\ right'[j] = right[j]
  BY <1>1, <1>3 DEF WriteUnit, IInv, TypeOK
<1>5. /\ offset'[p] = u /\ hashOK'[p] = (hashOK[p] /\ same)
      /\ \A q \in Procs : q # p => offset'[q] = offset[q] /\ hashOK'[q] = hashOK[q]
  BY <1>1, <1>3 DEF WriteUnit, IInv, TypeOK
<1> HIDE DEF i, u
<1>6. i \notin unused
  BY DEF i, IInv, Inv, UnusedInv
<1>7. faults => len[i] # N \/ i \in lost
  BY <1>3 DEF i, IInv, Inv, WriteInv
<1>a. UnusedInv'
  BY <1>2, <1>4, <1>6 DEF UnusedInv, IInv, Inv, TypeOK
<1>b. ContentInv'
  <2>1. \A j \in Inodes : right'[j] \subseteq 1..len'[j]
    <3>1. right'[i] \subseteq 1..len'[i]
      <4>1. right[i] \subseteq 1..len[i]
        BY <1>3 DEF IInv, Inv, ContentInv
      <4> QED
        BY <4>1, <1>3, <1>4
    <3> QED
      BY <3>1, <1>4 DEF IInv, Inv, ContentInv
  <2>2. \A j \in lost : len'[j] <= N /\ N > 0 /\ N \notin right'[j]
    BY <1>3, <1>4 DEF IInv, Inv, ContentInv, TypeOK
  <2> QED
    BY <2>1, <2>2, <1>2 DEF ContentInv
<1>c. PrefixInv'
  <2> SUFFICES ASSUME ~faults PROVE PrefixInv'
    BY <1>2 DEF PrefixInv
  <2>1. same /\ right[i] = 1..len[i]
    BY <1>1, <1>3 DEF IInv, Inv, PrefixInv
  <2>2. len'[i] <= N /\ right'[i] = 1..len'[i]
    BY <2>1, <1>3, <1>4 DEF u
  <2> QED
    BY <2>2, <1>2, <1>4 DEF IInv, Inv, PrefixInv
<1>d. AloneInv'
  BY <1>2 DEF AloneInv, Active, IInv, Inv
<1>e. \A q \in Procs : OpenInv(q)'
  <2> SUFFICES ASSUME NEW q \in Procs, pc[q] \in {"check", "open"}
               PROVE  OpenInv(q)'
    BY <1>2 DEF OpenInv
  <2>1. ~faults
    BY <1>3 DEF IInv, Inv, AloneInv, Active
  <2> QED
    BY <2>1, <1>2 DEF OpenInv, IInv, Inv
<1>f. \A q \in Procs : WriteInv(q)'
  <2> SUFFICES ASSUME NEW q \in Procs, pc[q] = "write"
               PROVE  WriteInv(q)'
    BY <1>2 DEF WriteInv
  <2>1. fd'[q] \in Inodes
    BY <1>2 DEF IInv, Inv, WriteInv
  <2>2. CASE q = p
    <3>1. hashOK'[p] => 1..u \subseteq right'[i]
      <4>1. hashOK'[p] => 1..offset[p] \subseteq right[i] /\ same
        BY <1>3, <1>5 DEF i, IInv, Inv, WriteInv
      <4>2. 1..u = 1..offset[p] \cup {u}
        BY <1>3 DEF u
      <4> QED
        BY <4>1, <4>2, <1>4
    <3>2. ~faults => hashOK'[p]
      BY <1>1, <1>3, <1>5 DEF IInv, Inv, WriteInv
    <3>3. u <= N - 1 /\ u <= len'[i] /\ len'[i] <= N
      BY <1>3, <1>4 DEF u
    <3>4. faults => len'[i] # N \/ i \in lost
      BY <1>3, <1>4, <1>7
    <3> QED
      BY <2>1, <2>2, <3>1, <3>2, <3>3, <3>4, <1>2, <1>5 DEF WriteInv, i
  <2>3. CASE q # p
    <3>1. ~faults
      BY <1>3, <2>3 DEF IInv, Inv, AloneInv, Active
    <3>2. offset[q] <= N - 1 /\ offset[q] <= len[fd[q]] /\ hashOK[q]
          /\ 1..offset[q] \subseteq right[fd[q]] /\ len[fd[q]] <= N
      BY <3>1 DEF IInv, Inv, WriteInv
    <3>3. offset[q] <= len'[fd[q]] /\ 1..offset[q] \subseteq right'[fd[q]]
          /\ len'[fd[q]] <= N
      <4>1. same
        BY <1>1, <3>1
      <4>2. len[fd[q]] \in Nat /\ offset[q] \in Nat /\ fd[q] \in Inodes
        BY <2>1, <1>2 DEF IInv, TypeOK
      <4> QED
        BY <4>1, <4>2, <3>2, <1>3, <1>4 DEF u
    <3> QED
      BY <2>1, <2>3, <3>1, <3>2, <3>3, <1>2, <1>5 DEF WriteInv
  <2> QED
    BY <2>2, <2>3
<1>g. \A q \in Procs : CloseInv(q)'
  <2> SUFFICES ASSUME NEW q \in Procs PROVE CloseInv(q)'
    OBVIOUS
  <2>1. NotStored(q) => NotStored(q)'
    BY <1>2 DEF NotStored, Used
  <2>2. ASSUME fd[q] \in Inodes, Intact(fd[q]), fd[q] \notin lost
        PROVE  Intact(fd[q])'
    <3>1. CASE fd[q] = i
      <4>1. ~faults
        BY <2>2, <3>1, <1>7 DEF Intact
      <4>2. same
        BY <4>1, <1>1
      <4>3. len[i] = N /\ right[i] = 1..N
        BY <2>2, <3>1 DEF Intact
      <4>4. len'[i] = N /\ right'[i] = 1..N
        BY <4>2, <4>3, <1>3, <1>4
      <4> QED
        BY <4>4, <3>1, <1>2 DEF Intact
    <3>2. CASE fd[q] # i
      BY <2>2, <3>2, <1>2, <1>4 DEF Intact
    <3> QED
      BY <3>1, <3>2
  <2>3. fd[q] \in Inodes /\ Reported(fd[q]) => Reported(fd[q])'
    BY <2>2, <1>2 DEF Reported, Used
  <2> QED
    BY <2>1, <2>2, <2>3, <1>2 DEF CloseInv, IInv, Inv
<1>h. CompleteIsIntact'
  <2> SUFFICES ASSUME NEW j \in Inodes \ lost, len'[j] = N PROVE Intact(j)'
    BY <1>2 DEF CompleteIsIntact
  <2>1. CASE j # i
    BY <2>1, <1>4 DEF IInv, Inv, CompleteIsIntact, Intact
  <2>2. CASE j = i
    <3>1. len[i] = N
      BY <2>2, <1>3, <1>4
    <3>2. ~faults
      BY <3>1, <2>2, <1>7
    <3>3. right[i] = 1..N /\ same
      BY <3>1, <3>2, <1>1, <1>3 DEF IInv, Inv, PrefixInv
    <3> QED
      BY <2>2, <3>3, <1>3, <1>4 DEF Intact
  <2> QED
    BY <2>1, <2>2
<1>i. HeldStaysIntact'
  BY <1>h, <1>2, <1>3, <1>4, <1>7 DEF HeldStaysIntact, CompleteIsIntact, Intact, IInv, Inv, TypeOK
<1>j. LostIsRemoved'
  BY <1>2 DEF LostIsRemoved, IInv, Inv
<1> QED
  BY <1>a, <1>b, <1>c, <1>d, <1>e, <1>f, <1>g, <1>h, <1>i, <1>j DEF Inv

LEMMA CommitStep ==
  ASSUME IInv, TypeOK', NEW p \in Procs, Commit(p)
  PROVE  Inv'
<1> DEFINE i == fd[p]
<1> USE Constants
<1>1. /\ UNCHANGED <<faults, name, unused, statSize, fd, hashOK, held>>
      /\ lost' = lost \ {i}
  BY DEF Commit, WriteUnit
<1>2. /\ pc[p] = "write" /\ pc'[p] = "close"
      /\ \A q \in Procs : q # p => pc'[q] = pc[q] /\ offset'[q] = offset[q]
  BY DEF Commit, WriteUnit, Goto, IInv, TypeOK
<1>3. /\ i \in Inodes /\ offset[p] = N - 1 /\ N > 0 /\ len[i] \in Nat /\ len[i] <= N
      /\ 1..(N - 1) \subseteq right[i] /\ right[i] \subseteq 1..len[i]
  <2>1. WriteInv(p) /\ ContentInv /\ pc[p] = "write" /\ offset[p] = N - 1 /\ hashOK[p]
    BY DEF IInv, Inv, Commit
  <2>2. i \in Inodes /\ len[i] \in Nat /\ offset[p] \in 0..N
    BY <2>1 DEF WriteInv, IInv, TypeOK
  <2> QED
    BY <2>1, <2>2 DEF WriteInv, ContentInv
<1>4. /\ len'[i] = N
      /\ right'[i] = right[i] \cup {N}
      /\ \A j \in Inodes : j # i => len'[j] = len[j] /\ right'[j] = right[j]
  BY <1>3 DEF Commit, WriteUnit, IInv, TypeOK
<1>5. right'[i] = 1..N
  BY <1>3, <1>4
<1>6. i \notin unused /\ (faults => len[i] # N \/ i \in lost)
  BY <1>2 DEF IInv, Inv, WriteInv, UnusedInv
<1>7. \A j \in Inodes : j = i \/ Intact(j) => len'[j] = N /\ right'[j] = 1..N
  BY <1>3, <1>4, <1>5 DEF Intact
<1> HIDE DEF i
<1>a. UnusedInv'
  BY <1>1, <1>4, <1>6 DEF UnusedInv, IInv, Inv, TypeOK
<1>b. ContentInv'
  BY <1>1, <1>4, <1>5 DEF ContentInv, IInv, Inv, TypeOK
<1>c. PrefixInv'
  BY <1>1, <1>4, <1>5 DEF PrefixInv, IInv, Inv
<1>d. AloneInv'
  BY <1>1, <1>2 DEF AloneInv, Active, IInv, Inv
<1>e. \A q \in Procs : OpenInv(q)'
  <2> SUFFICES ASSUME NEW q \in Procs, q # p, pc[q] \in {"check", "open"}
               PROVE  OpenInv(q)'
    BY <1>2 DEF OpenInv
  <2>1. ~faults
    BY <1>2 DEF IInv, Inv, AloneInv, Active
  <2> QED
    BY <2>1, <1>1, <1>2 DEF OpenInv, IInv, Inv
<1>f. \A q \in Procs : WriteInv(q)'
  <2> SUFFICES ASSUME NEW q \in Procs, q # p, pc[q] = "write"
               PROVE  WriteInv(q)'
    BY <1>2 DEF WriteInv
  <2>1. ~faults
    BY <1>2 DEF IInv, Inv, AloneInv, Active
  <2>2. WriteInv(q) /\ fd[q] \in Inodes /\ offset[q] \in Nat /\ len[fd[q]] \in Nat
    BY DEF IInv, Inv, TypeOK, WriteInv
  <2>3. /\ offset[q] <= len'[fd[q]] /\ len'[fd[q]] <= N
        /\ hashOK[q] => 1..offset[q] \subseteq right'[fd[q]]
    BY <2>2, <1>3, <1>4 DEF WriteInv
  <2> QED
    BY <2>1, <2>2, <2>3, <1>1, <1>2 DEF WriteInv
<1>g. \A q \in Procs : CloseInv(q)'
  <2>1. CloseInv(p)'
    <3>1. NotStored(p)'
      <4> SUFFICES ASSUME faults, NEW q \in Procs, q # p, pc[q] = "ok", fd[q] = i
                   PROVE  Used(i)'
        BY <1>1, <1>2 DEF NotStored, i
      <4> QED
        <5>1. Reported(fd[q])
          BY DEF IInv, Inv, CloseInv
        <5>2. Used(fd[q])
          BY <5>1, <1>1, <1>6 DEF Reported, Intact
        <5> QED
          BY <5>2, <1>1 DEF Used, i
    <3>2. fd'[p] = i /\ i \in Inodes \ lost'
      BY <1>1, <1>3 DEF i
    <3>3. Intact(fd[p])'
      BY <3>2, <1>7 DEF Intact
    <3> QED
      BY <3>1, <3>2, <3>3, <1>2, <1>3 DEF CloseInv
  <2>2. ASSUME NEW q \in Procs, q # p PROVE CloseInv(q)'
    <3>1. CloseInv(q)
      BY DEF IInv, Inv
    <3>2. pc[q] = "close" => ~faults
      BY <2>2, <1>2 DEF IInv, Inv, AloneInv, Active
    <3>3. fd[q] \in Inodes /\ Intact(fd[q]) => Intact(fd[q])'
      BY <1>1, <1>7 DEF Intact
    <3>4. fd[q] \in Inodes /\ Reported(fd[q]) => Reported(fd[q])'
      BY <3>3, <1>1, <1>7 DEF Reported, Used, Intact
    <3> QED
      BY <3>1, <3>2, <3>3, <3>4, <2>2, <1>1, <1>2 DEF CloseInv, NotStored, Used
  <2> QED
    BY <2>1, <2>2
<1>h. CompleteIsIntact'
  <2> SUFFICES ASSUME NEW j \in Inodes \ lost', len'[j] = N PROVE Intact(j)'
    BY DEF CompleteIsIntact
  <2>1. CASE j = i
    BY <2>1, <1>7 DEF Intact
  <2>2. CASE j # i
    BY <2>2, <1>1, <1>4, <1>7 DEF IInv, Inv, CompleteIsIntact, Intact
  <2> QED
    BY <2>1, <2>2
<1>i. HeldStaysIntact'
  <2> SUFFICES ASSUME NEW r \in Readers, held[r] \notin lost' \cup {None}
               PROVE  Intact(held[r])'
    BY <1>1 DEF HeldStaysIntact, Intact
  <2>1. held[r] = i \/ Intact(held[r])
    BY <1>1 DEF IInv, Inv, HeldStaysIntact
  <2>2. held[r] \in Inodes
    BY DEF IInv, TypeOK
  <2> QED
    BY <2>1, <2>2, <1>1, <1>7 DEF Intact
<1>j. LostIsRemoved'
  BY <1>1, <1>2 DEF LostIsRemoved, IInv, Inv
<1> QED
  BY <1>a, <1>b, <1>c, <1>d, <1>e, <1>f, <1>g, <1>h, <1>i, <1>j DEF Inv

LEMMA FailStep ==
  ASSUME IInv, TypeOK', NEW p \in Procs, Fail(p)
  PROVE  Inv'
<1> DEFINE i == fd[p]
<1> USE Constants
<1>1. faults /\ UNCHANGED <<faults, name, unused, lost, statSize, fd, offset,
                            hashOK, held>>
  BY DEF Fail
<1>2. /\ pc[p] = "write" /\ pc'[p] = "error"
      /\ \A q \in Procs : q # p => pc'[q] = pc[q]
  BY DEF Fail, Goto, IInv, TypeOK
<1>3. i \in Inodes /\ N > 0 /\ (len[i] # N \/ i \in lost)
  BY <1>1, <1>2 DEF IInv, Inv, WriteInv, TypeOK
<1>4. /\ \A j \in Inodes : j # i => len'[j] = len[j] /\ right'[j] = right[j]
      /\ UNCHANGED <<len, right>> \/ (len'[i] = 0 /\ right'[i] = {})
  BY DEF Fail, IInv, TypeOK
<1>5. ASSUME NEW q \in Procs, q # p
      PROVE  pc[q] \notin {"check", "open", "write", "close", "remove"}
  BY <1>1, <1>2, <1>5 DEF IInv, Inv, AloneInv, Active
<1> HIDE DEF i
<1>6. \A j \in Inodes : Intact(j) /\ j \notin lost => Intact(j)'
  BY <1>3, <1>4 DEF Intact
<1>a. UnusedInv'
  BY <1>1, <1>4 DEF UnusedInv, IInv, Inv, TypeOK
<1>b. ContentInv'
  <2>1. \A j \in Inodes : right'[j] \subseteq 1..len'[j]
    BY <1>4 DEF ContentInv, IInv, Inv
  <2>2. \A j \in lost : len'[j] <= N /\ N > 0 /\ N \notin right'[j]
    BY <1>3, <1>4 DEF IInv, Inv, ContentInv, TypeOK
  <2> QED
    BY <2>1, <2>2, <1>1 DEF ContentInv
<1>c. PrefixInv'
  BY <1>1 DEF PrefixInv
<1>d. AloneInv'
  BY <1>1, <1>2 DEF AloneInv, Active, IInv, Inv
<1>e. \A q \in Procs : OpenInv(q)' /\ WriteInv(q)'
  BY <1>2, <1>5 DEF OpenInv, WriteInv
<1>f. \A q \in Procs : CloseInv(q)'
  <2>1. CloseInv(p)'
    BY <1>2 DEF CloseInv
  <2>2. ASSUME NEW q \in Procs, q # p PROVE CloseInv(q)'
    <3>1. CloseInv(q)
      BY DEF IInv, Inv
    <3>2. fd[q] \in Inodes /\ Reported(fd[q]) => Reported(fd[q])'
      BY <1>1, <1>6 DEF Reported, Used, Intact
    <3> QED
      BY <3>1, <3>2, <2>2, <1>1, <1>2, <1>5 DEF CloseInv
  <2> QED
    BY <2>1, <2>2
<1>g. CompleteIsIntact'
  <2> SUFFICES ASSUME NEW j \in Inodes \ lost, len'[j] = N PROVE Intact(j)'
    BY <1>1 DEF CompleteIsIntact
  <2>1. len[j] = N
    BY <1>3, <1>4
  <2> QED
    BY <2>1, <1>6 DEF IInv, Inv, CompleteIsIntact
<1>h. HeldStaysIntact'
  <2> SUFFICES ASSUME NEW r \in Readers, held[r] \notin lost \cup {None}
               PROVE  Intact(held[r])'
    BY <1>1 DEF HeldStaysIntact, Intact
  <2>1. held[r] \in Inodes /\ Intact(held[r])
    BY DEF IInv, Inv, TypeOK, HeldStaysIntact
  <2> QED
    BY <2>1, <1>1, <1>6 DEF Intact
<1>i. LostIsRemoved'
  BY <1>1, <1>2 DEF LostIsRemoved, IInv, Inv
<1> QED
  BY <1>a, <1>b, <1>c, <1>d, <1>e, <1>f, <1>g, <1>h, <1>i DEF Inv

LEMMA CloseStep ==
  ASSUME IInv, TypeOK', NEW p \in Procs, Close(p)
  PROVE  Inv'
<1>1. UNCHANGED <<faults, name, len, right, unused, lost, statSize, fd, offset,
                  hashOK, held>>
  BY DEF Close, fileVars
<1>2. /\ pc[p] = "close" /\ pc'[p] = "ok"
      /\ \A q \in Procs : q # p => pc'[q] = pc[q]
  BY DEF Close, Goto, IInv, TypeOK
<1>3. ASSUME faults, NEW q \in Procs, q # p
      PROVE  pc[q] \notin {"write", "close"}
  BY <1>2, <1>3 DEF IInv, Inv, AloneInv, Active
<1>4. UnusedInv' /\ ContentInv' /\ PrefixInv'
  BY <1>1 DEF UnusedInv, ContentInv, PrefixInv, IInv, Inv
<1>5. AloneInv'
  BY <1>1, <1>2 DEF AloneInv, Active, IInv, Inv
<1>6. \A q \in Procs : OpenInv(q)'
  BY <1>1, <1>2 DEF OpenInv, IInv, Inv
<1>7. \A q \in Procs : WriteInv(q)'
  <2> SUFFICES ASSUME NEW q \in Procs, q # p, pc[q] = "write"
               PROVE  WriteInv(q)'
    BY <1>2 DEF WriteInv
  <2>1. ~faults
    BY <1>3
  <2> QED
    BY <2>1, <1>1, <1>2 DEF WriteInv, IInv, Inv
<1>8. \A q \in Procs : CloseInv(q)'
  <2>1. CloseInv(p)'
    BY <1>1, <1>2 DEF CloseInv, Reported, Intact, IInv, Inv
  <2>2. ASSUME NEW q \in Procs, q # p PROVE CloseInv(q)'
    <3>1. pc[q] = "close" => ~faults
      BY <2>2, <1>3
    <3>2. CloseInv(q)
      BY DEF IInv, Inv
    <3> QED
      BY <3>1, <3>2, <2>2, <1>1, <1>2 DEF CloseInv, NotStored, Reported, Used, Intact
  <2> QED
    BY <2>1, <2>2
<1>9. CompleteIsIntact' /\ HeldStaysIntact'
  BY <1>1 DEF CompleteIsIntact, HeldStaysIntact, Intact, IInv, Inv
<1>10. LostIsRemoved'
  BY <1>1, <1>2 DEF LostIsRemoved, IInv, Inv
<1> QED
  BY <1>4, <1>5, <1>6, <1>7, <1>8, <1>9, <1>10 DEF Inv

LEMMA CloseFailsStep ==
  ASSUME IInv, TypeOK', NEW p \in Procs, CloseFails(p)
  PROVE  Inv'
<1> DEFINE i == fd[p]
<1> USE Constants
<1>1. faults /\ UNCHANGED <<faults, name, len, unused, statSize, fd, offset,
                            hashOK, held>>
  BY DEF CloseFails
<1>2. /\ pc[p] = "close" /\ pc'[p] = "remove"
      /\ \A q \in Procs : q # p => pc'[q] = pc[q]
  BY DEF CloseFails, Goto, IInv, TypeOK
<1>3. /\ i \in Inodes \ lost /\ Intact(i) /\ N > 0 /\ i \notin unused
      /\ NotStored(p)
  BY <1>2 DEF IInv, Inv, CloseInv, UnusedInv
<1>4. /\ lost \subseteq lost' /\ lost' \subseteq lost \cup {i}
      /\ \A j \in Inodes : j # i \/ i \notin lost' => right'[j] = right[j]
      /\ i \in lost' => right'[i] = {}
  BY <1>3 DEF CloseFails, IInv, TypeOK
<1>5. ASSUME NEW q \in Procs, q # p
      PROVE  pc[q] \notin {"check", "open", "write", "close", "remove"}
  BY <1>1, <1>2, <1>5 DEF IInv, Inv, AloneInv, Active
<1> HIDE DEF i
<1>6. \A j \in Inodes : Intact(j) /\ j \notin lost' => Intact(j)'
  BY <1>1, <1>4 DEF Intact
<1>a. UnusedInv'
  BY <1>1, <1>3, <1>4 DEF UnusedInv, IInv, Inv, TypeOK
<1>b. ContentInv'
  <2>1. len[i] = N
    BY <1>3 DEF Intact
  <2> QED
    BY <2>1, <1>1, <1>3, <1>4 DEF ContentInv, IInv, Inv, TypeOK
<1>c. PrefixInv'
  BY <1>1 DEF PrefixInv
<1>d. AloneInv'
  BY <1>1, <1>2 DEF AloneInv, Active, IInv, Inv
<1>e. \A q \in Procs : OpenInv(q)' /\ WriteInv(q)'
  BY <1>2, <1>5 DEF OpenInv, WriteInv
<1>f. \A q \in Procs : CloseInv(q)'
  <2>1. CloseInv(p)'
    BY <1>1, <1>2, <1>3 DEF CloseInv, i
  <2>2. ASSUME NEW q \in Procs, q # p PROVE CloseInv(q)'
    <3>1. CloseInv(q)
      BY DEF IInv, Inv
    <3>2. pc[q] = "ok" /\ fd[q] = i => Used(i)
      BY <1>1, <1>3 DEF NotStored, i
    <3>3. pc[q] = "ok" => fd[q] \in Inodes /\ Reported(fd[q])'
      BY <3>1, <3>2, <1>1, <1>4, <1>6 DEF CloseInv, Reported, Used, Intact
    <3> QED
      BY <3>1, <3>3, <2>2, <1>1, <1>2, <1>5 DEF CloseInv
  <2> QED
    BY <2>1, <2>2
<1>g. CompleteIsIntact'
  BY <1>1, <1>4, <1>6 DEF IInv, Inv, CompleteIsIntact
<1>h. HeldStaysIntact'
  <2> SUFFICES ASSUME NEW r \in Readers, held[r] \notin lost' \cup {None}
               PROVE  Intact(held[r])'
    BY <1>1 DEF HeldStaysIntact, Intact
  <2>1. held[r] \in Inodes /\ Intact(held[r])
    BY <1>4 DEF IInv, Inv, TypeOK, HeldStaysIntact
  <2> QED
    BY <2>1, <1>1, <1>6 DEF Intact
<1>i. LostIsRemoved'
  <2>1. CASE name = i
    BY <2>1, <1>1, <1>2 DEF LostIsRemoved, i
  <2>2. CASE name # i
    BY <2>2, <1>1, <1>2, <1>4 DEF LostIsRemoved, IInv, Inv
  <2> QED
    BY <2>1, <2>2
<1> QED
  BY <1>a, <1>b, <1>c, <1>d, <1>e, <1>f, <1>g, <1>h, <1>i DEF Inv

LEMMA RemoveFileStep ==
  ASSUME IInv, TypeOK', NEW p \in Procs, RemoveFile(p)
  PROVE  Inv'
<1> USE Constants
<1>1. name' = None /\ UNCHANGED <<faults, len, right, unused, lost, statSize, fd,
                                  offset, hashOK, held>>
  BY DEF RemoveFile
<1>2. /\ pc[p] = "remove" /\ pc'[p] = "error"
      /\ \A q \in Procs : q # p => pc'[q] = pc[q]
  BY DEF RemoveFile, Goto, IInv, TypeOK
<1>3. UnusedInv' /\ ContentInv' /\ PrefixInv'
  BY <1>1 DEF UnusedInv, ContentInv, PrefixInv, IInv, Inv, TypeOK
<1>4. AloneInv'
  BY <1>1, <1>2 DEF AloneInv, Active, IInv, Inv
<1>5. \A q \in Procs : OpenInv(q)' /\ WriteInv(q)' /\ CloseInv(q)'
  BY <1>1, <1>2 DEF OpenInv, WriteInv, CloseInv, NotStored, Reported, Used, Intact, IInv, Inv
<1>6. CompleteIsIntact' /\ HeldStaysIntact'
  BY <1>1 DEF CompleteIsIntact, HeldStaysIntact, Intact, IInv, Inv
<1>7. LostIsRemoved'
  BY <1>1 DEF LostIsRemoved, IInv, TypeOK
<1> QED
  BY <1>3, <1>4, <1>5, <1>6, <1>7 DEF Inv

LEMMA CrashStep ==
  ASSUME IInv, TypeOK', NEW p \in Procs, Crash(p)
  PROVE  Inv'
<1>1. pc'[p] = "killed" /\ \A q \in Procs : q # p => pc'[q] = pc[q]
  BY DEF Crash, Goto, IInv, TypeOK
<1> QED
  BY <1>1, LeaveStep DEF Crash

LEMMA GetStep ==
  ASSUME IInv, TypeOK', NEW r \in Readers, Get(r)
  PROVE  Inv'
<1>1. UNCHANGED <<faults, name, len, right, unused, lost, pc, statSize, fd,
                  offset, hashOK>>
  BY DEF Get, fileVars, procVars
<1>2. UnusedInv' /\ ContentInv' /\ PrefixInv' /\ AloneInv' /\ LostIsRemoved'
  BY <1>1 DEF Get, UnusedInv, ContentInv, PrefixInv, AloneInv, Active,
              LostIsRemoved, IInv, Inv, TypeOK
<1>3. \A p \in Procs : OpenInv(p)' /\ WriteInv(p)' /\ CloseInv(p)'
  <2>1. ASSUME NEW i \in Inodes, Used(i) PROVE Used(i)'
    <3>1. PICK s \in Readers : held[s] = i
      BY <2>1 DEF Used
    <3>2. s # r
      BY <3>1, Constants DEF Get
    <3>3. held'[s] = i
      BY <3>1, <3>2 DEF Get, IInv, TypeOK
    <3> QED
      BY <3>3 DEF Used
  <2>2. \A i \in Inodes : Intact(i) => Intact(i)'
    BY <1>1 DEF Intact
  <2> QED
    BY <2>1, <2>2, <1>1 DEF OpenInv, WriteInv, CloseInv, NotStored, Reported, IInv, Inv
<1>4. CompleteIsIntact' /\ HeldStaysIntact'
  BY <1>1 DEF Get, CompleteIsIntact, HeldStaysIntact, Intact, IInv, Inv, TypeOK
<1> QED
  BY <1>2, <1>3, <1>4 DEF Inv

LEMMA TrimRemovesStep ==
  ASSUME IInv, TypeOK', TrimRemoves
  PROVE  Inv'
<1> USE Constants
<1>1. name' = None /\ UNCHANGED <<faults, len, right, unused, lost, pc, statSize,
                                  fd, offset, hashOK, held>>
  BY DEF TrimRemoves, procVars
<1>2. UnusedInv' /\ ContentInv' /\ PrefixInv' /\ AloneInv' /\ LostIsRemoved'
  BY <1>1 DEF UnusedInv, ContentInv, PrefixInv, AloneInv, Active,
              LostIsRemoved, IInv, Inv, TypeOK
<1>3. \A p \in Procs : OpenInv(p)' /\ WriteInv(p)' /\ CloseInv(p)'
  BY <1>1 DEF OpenInv, WriteInv, CloseInv, NotStored, Reported, Used, Intact, IInv, Inv
<1>4. CompleteIsIntact' /\ HeldStaysIntact'
  BY <1>1 DEF CompleteIsIntact, HeldStaysIntact, Intact, IInv, Inv
<1> QED
  BY <1>2, <1>3, <1>4 DEF Inv

LEMMA StutterStep ==
  ASSUME IInv, TypeOK', UNCHANGED vars
  PROVE  Inv'
<1>1. UNCHANGED <<faults, name, len, right, unused, lost, pc, statSize, fd,
                  offset, hashOK, held>>
  BY DEF vars, fileVars, procVars
<1>2. UnusedInv' /\ ContentInv' /\ PrefixInv' /\ AloneInv' /\ LostIsRemoved'
  BY <1>1 DEF UnusedInv, ContentInv, PrefixInv, AloneInv, Active,
              LostIsRemoved, IInv, Inv
<1>3. \A p \in Procs : OpenInv(p)' /\ WriteInv(p)' /\ CloseInv(p)'
  BY <1>1 DEF OpenInv, WriteInv, CloseInv, NotStored, Reported, Used, Intact, IInv, Inv
<1>4. CompleteIsIntact' /\ HeldStaysIntact'
  BY <1>1 DEF CompleteIsIntact, HeldStaysIntact, Intact, IInv, Inv
<1> QED
  BY <1>2, <1>3, <1>4 DEF Inv

-----------------------------------------------------------------------------
LEMMA InitInv == Init => Inv
<1> SUFFICES ASSUME Init PROVE Inv
  OBVIOUS
<1> USE Constants
<1>1. PICK l \in InitialLens \cup {0} : \E good \in SUBSET (1..l) :
        /\ IF name = None THEN l = 0
           ELSE IF faults THEN l # N
           ELSE l <= N /\ good = 1..l
        /\ len = [i \in Inodes |-> IF i = name THEN l ELSE 0]
        /\ right = [i \in Inodes |-> IF i = name THEN good ELSE {}]
  BY DEF Init
<1>2. PICK good \in SUBSET (1..l) :
        /\ IF name = None THEN l = 0
           ELSE IF faults THEN l # N
           ELSE l <= N /\ good = 1..l
        /\ len = [i \in Inodes |-> IF i = name THEN l ELSE 0]
        /\ right = [i \in Inodes |-> IF i = name THEN good ELSE {}]
  BY <1>1
<1>3. l \in Nat /\ 1..0 = {}
  OBVIOUS
<1>4. /\ \A p \in Procs : pc[p] = "idle" /\ fd[p] = None
      /\ \A r \in Readers : held[r] = None
      /\ lost = {} /\ unused = Inodes \ {name} /\ name \in Inodes \cup {None}
  BY DEF Init
<1>5. \A i \in Inodes : /\ i = name => len[i] = l /\ right[i] = good
                        /\ i # name => len[i] = 0 /\ right[i] = {}
  BY <1>2
<1>6. UnusedInv
  BY <1>4, <1>5 DEF UnusedInv
<1>7. ContentInv
  BY <1>3, <1>4, <1>5 DEF ContentInv
<1>8. PrefixInv
  <2> SUFFICES ASSUME ~faults, NEW i \in Inodes
               PROVE  len[i] <= N /\ right[i] = 1..len[i]
    BY <1>4 DEF PrefixInv
  <2> QED
    BY <1>2, <1>3, <1>5
<1>9. AloneInv /\ \A p \in Procs : OpenInv(p) /\ WriteInv(p) /\ CloseInv(p)
  BY <1>4 DEF AloneInv, Active, OpenInv, WriteInv, CloseInv
<1>10. CompleteIsIntact
  <2> SUFFICES ASSUME NEW i \in Inodes, len[i] = N PROVE right[i] = 1..N
    BY DEF CompleteIsIntact, Intact
  <2>1. CASE i = name
    BY <2>1, <1>2, <1>3, <1>5
  <2>2. CASE i # name
    BY <2>2, <1>3, <1>5
  <2> QED
    BY <2>1, <2>2
<1>11. HeldStaysIntact /\ LostIsRemoved
  BY <1>4 DEF HeldStaysIntact, LostIsRemoved
<1> QED
  BY <1>6, <1>7, <1>8, <1>9, <1>10, <1>11 DEF Inv

LEMMA NextInv ==
  ASSUME ~Overlap, IInv, [Next]_vars
  PROVE  IInv'
<1>1. TypeOK'
  BY StepType DEF IInv
<1>2. Inv'
  BY <1>1, StatStep, CheckHashStep, OpenFileStep, TextBusyStep, OpenFailsStep,
     WriteStep, CommitStep, FailStep, CloseStep, CloseFailsStep, RemoveFileStep,
     CrashStep, GetStep, TrimRemovesStep, StutterStep DEF Next, Step
<1> QED
  BY <1>1, <1>2 DEF IInv

\* The variables of CopyFile have their types, for every writer and reader:
\* faults or not, and whether or not writers overlap.
THEOREM TypeCorrect == Spec => []TypeOK
<1>1. Init => TypeOK
  BY InitType
<1>2. TypeOK /\ [Next]_vars => TypeOK'
  BY StepType
<1> QED
  BY <1>1, <1>2, PTL DEF Spec

\* The inductive invariant, when writers do not overlap in the presence of
\* faults.
THEOREM Invariant ==
  ASSUME ~Overlap
  PROVE  Spec => []IInv
<1>1. Init => IInv
  BY InitType, InitInv DEF IInv
<1>2. IInv /\ [Next]_vars => IInv'
  BY NextInv
<1> QED
  BY <1>1, <1>2, PTL DEF Spec

\* What GetFile and GetMmap take for complete by its size is the output, with
\* copyFile's writers in any place and after any crash.
THEOREM CompleteCorrect ==
  ASSUME ~Overlap
  PROVE  Spec => []CompleteIsIntact
<1>1. IInv => CompleteIsIntact
  BY DEF IInv, Inv
<1> QED
  BY <1>1, Invariant, PTL

\* The file copyFile reported as stored keeps its contents while others put
\* the output again: writers that overlap as they like where nothing fails, or
\* writers one after the other that may fail at any call and truncate a file
\* that is too long.  Writers that overlap one that fails, or that found the
\* file too long, are left to DamageCorrect; a file that lost what was written
\* to it and is executed is left out of StoredStaysIntact itself.
THEOREM StoredCorrect ==
  ASSUME ~Overlap
  PROVE  Spec => []StoredStaysIntact
<1>1. ASSUME IInv, NEW p \in Procs, pc[p] = "ok"
      PROVE  Intact(fd[p]) \/ fd[p] \in lost \cap {held[r] : r \in Readers}
  BY <1>1 DEF IInv, Inv, CloseInv, Reported, Used
<1>2. IInv => StoredStaysIntact
  BY <1>1 DEF StoredStaysIntact
<1> QED
  BY <1>2, Invariant, PTL

\* Who has mapped a complete file does not see copyFile change it.
THEOREM HeldCorrect ==
  ASSUME ~Overlap
  PROVE  Spec => []HeldStaysIntact
<1>1. IInv => HeldStaysIntact
  BY DEF IInv, Inv
<1> QED
  BY <1>1, Invariant, PTL

\* A file whose Close failed is removed by its writer, unless it is killed.
THEOREM LostCorrect ==
  ASSUME ~Overlap
  PROVE  Spec => []LostIsRemoved
<1>1. IInv => LostIsRemoved
  BY DEF IInv, Inv
<1> QED
  BY <1>1, Invariant, PTL

-----------------------------------------------------------------------------
\* What the refinement rests on.  It says nothing of what the writers write,
\* so it holds for overlapping writers and faults of every kind.
\*
\* A new file is empty, and nobody has it open; no file is right beyond its end.
FileInv ==
  /\ name \notin unused
  /\ \A i \in unused : len[i] = 0 /\ right[i] = {}
  /\ \A p \in Procs : fd[p] \notin unused
  /\ \A i \in Inodes : right[i] \subseteq 1..len[i]

\* Only a file nobody writes to can be too long, and who is about to open it
\* knows.
SizeInv(p) ==
  /\ pc[p] \in {"check", "open"} /\ name # None /\ len[name] > N =>
       statSize[p] # None /\ statSize[p] > N
  /\ pc[p] = "check" => statSize[p] = N
  /\ pc[p] \in {"write", "close"} => fd[p] \in Inodes /\ len[fd[p]] <= N /\ N > 0
  /\ pc[p] = "write" => offset[p] <= N - 1

KeepInv == TypeOK /\ FileInv /\ \A p \in Procs : SizeInv(p)

\* Files only get longer up to N.
LEMMA SizesStay ==
  ASSUME KeepInv, TypeOK', NEW p \in Procs,
         name' \in {name, None} \cup unused,
         UNCHANGED <<fd, statSize>>,
         \A i \in Inodes : len'[i] = len[i] \/ len'[i] <= N,
         name' \in unused => len'[name'] = 0,
         \A q \in Procs \ {p} : pc'[q] = pc[q] /\ offset'[q] = offset[q]
  PROVE  \A q \in Procs \ {p} : SizeInv(q)'
<1> SUFFICES ASSUME NEW q \in Procs \ {p} PROVE SizeInv(q)'
  OBVIOUS
<1>1. SizeInv(q) /\ N \in Nat /\ None \notin Inodes
  BY Constants DEF KeepInv
<1>2. len \in [Inodes -> Nat] /\ len' \in [Inodes -> Nat] /\ name' \in Inodes \cup {None}
  BY DEF KeepInv, TypeOK
<1> QED
  BY <1>1, <1>2 DEF SizeInv

\* That is inductive.
LEMMA KeepStep ==
  ASSUME KeepInv, [Next]_vars
  PROVE  KeepInv'
<1> USE Constants
<1>0. TypeOK /\ TypeOK' /\ FileInv /\ \A q \in Procs : SizeInv(q)
  BY StepType DEF KeepInv
<1> SUFFICES FileInv' /\ \A q \in Procs : SizeInv(q)'
  BY <1>0 DEF KeepInv
<1>1. ASSUME NEW p \in Procs, Stat(p) PROVE FileInv' /\ \A q \in Procs : SizeInv(q)'
  BY <1>0, <1>1 DEF Stat, Goto, FileInv, SizeInv, TypeOK, fileVars
<1>2. ASSUME NEW p \in Procs, CheckHash(p) PROVE FileInv' /\ \A q \in Procs : SizeInv(q)'
  BY <1>0, <1>2 DEF CheckHash, Goto, FileInv, SizeInv, TypeOK, fileVars
<1>3. ASSUME NEW p \in Procs, OpenFile(p) PROVE FileInv' /\ \A q \in Procs : SizeInv(q)'
  <2> DEFINE i == fd'[p]
  <2>1. /\ i \in Inodes /\ name' = i /\ len[i] \in Nat /\ right[i] \in SUBSET Nat
        /\ pc[p] = "open" /\ pc'[p] = IF N = 0 THEN "ok" ELSE "write"
        /\ offset'[p] = 0
        /\ \A q \in Procs : q # p => pc'[q] = pc[q] /\ fd'[q] = fd[q]
                                   /\ offset'[q] = offset[q]
        /\ UNCHANGED statSize
    BY <1>0, <1>3 DEF OpenFile, Goto, TypeOK
  <2>2. unused' \subseteq unused /\ i \notin unused' /\ (i = name \/ (name = None /\ i \in unused))
    BY <1>0, <1>3 DEF OpenFile, FileInv, TypeOK
  <2>3. \A j \in Inodes : j # i => len'[j] = len[j] /\ right'[j] = right[j]
    BY <1>0, <1>3 DEF OpenFile, TypeOK
  <2>4. \/ len'[i] = len[i] /\ right'[i] = right[i] /\ len[i] <= N
        \/ len'[i] = 0 /\ right'[i] = {}
    <3>1. SizeInv(p) /\ statSize[p] \in Nat \cup {None}
      BY <1>0 DEF TypeOK
    <3>2. CASE name # None /\ statSize[p] # None /\ statSize[p] > N
      BY <1>0, <1>3, <2>1, <3>2 DEF OpenFile, TypeOK
    <3>3. CASE name # None /\ ~(statSize[p] # None /\ statSize[p] > N)
      <4>1. UNCHANGED <<len, right>> /\ i = name
        BY <1>0, <1>3, <3>3 DEF OpenFile, TypeOK
      <4> QED
        BY <4>1, <3>1, <3>3, <2>1 DEF SizeInv
    <3>4. CASE name = None
      BY <1>0, <1>3, <2>1, <2>2, <3>4 DEF OpenFile, FileInv
    <3> QED
      BY <3>2, <3>3, <3>4
  <2> HIDE DEF i
  <2>5. FileInv'
    <3>1. right'[i] \subseteq 1..len'[i]
      BY <1>0, <2>1, <2>4 DEF FileInv
    <3>2. \A q \in Procs : fd'[q] \notin unused'
      BY <1>0, <2>1, <2>2 DEF i, FileInv
    <3> QED
      BY <1>0, <2>1, <2>2, <2>3, <3>1, <3>2 DEF FileInv, TypeOK
  <2>6. ASSUME NEW q \in Procs, q # p PROVE SizeInv(q)'
    <3>1. SizeInv(q) /\ len'[i] <= N /\ len'[i] \in Nat /\ name' = i
      BY <1>0, <2>1, <2>4
    <3>2. /\ pc'[q] = pc[q] /\ fd'[q] = fd[q] /\ offset'[q] = offset[q]
          /\ statSize'[q] = statSize[q]
      BY <2>1, <2>6
    <3>3. fd[q] \in Inodes /\ len[fd[q]] <= N => len'[fd[q]] <= N
      BY <2>3, <3>1
    <3> QED
      BY <3>1, <3>2, <3>3 DEF SizeInv
  <2>7. SizeInv(p)'
    BY <2>1, <2>4 DEF SizeInv, i
  <2> QED
    BY <2>5, <2>6, <2>7
<1>4. ASSUME NEW p \in Procs, TextBusy(p) PROVE FileInv' /\ \A q \in Procs : SizeInv(q)'
  BY <1>0, <1>4 DEF TextBusy, Goto, FileInv, SizeInv, TypeOK, fileVars
<1>5. ASSUME NEW p \in Procs, OpenFails(p) \/ Close(p) \/ Crash(p)
      PROVE  FileInv' /\ \A q \in Procs : SizeInv(q)'
  BY <1>0, <1>5 DEF OpenFails, Close, Crash, Goto, FileInv, SizeInv, TypeOK, fileVars
<1>6. ASSUME NEW p \in Procs, Write(p) \/ Commit(p)
      PROVE  FileInv' /\ \A q \in Procs : SizeInv(q)'
  <2>1. /\ fd[p] \in Inodes /\ len[fd[p]] <= N /\ len[fd[p]] \in Nat /\ N > 0
        /\ right[fd[p]] \subseteq 1..len[fd[p]]
        /\ offset[p] \in Nat /\ offset[p] <= N - 1
    <3>1. pc[p] = "write" /\ SizeInv(p)
      BY <1>0, <1>6 DEF Write, Commit
    <3>2. fd[p] \in Inodes /\ len[fd[p]] <= N /\ N > 0 /\ offset[p] <= N - 1
      BY <3>1 DEF SizeInv
    <3> QED
      BY <1>0, <3>2 DEF FileInv, TypeOK
  <2>2. PICK isRight \in BOOLEAN : WriteUnit(p, isRight)
    BY <1>6 DEF Write, Commit
  <2>3. /\ UNCHANGED <<name, unused, fd, statSize>>
        /\ pc'[p] \in {"write", "close"} /\ (pc'[p] = "write" => offset[p] < N - 1)
        /\ \A q \in Procs \ {p} : pc'[q] = pc[q] /\ offset'[q] = offset[q]
    BY <1>0, <1>6, <2>2 DEF Write, Commit, WriteUnit, Goto, TypeOK
  <2>4. /\ len'[fd[p]] <= N /\ len'[fd[p]] \in Nat
        /\ len[fd[p]] <= len'[fd[p]] /\ offset[p] + 1 <= len'[fd[p]]
        /\ right'[fd[p]] \subseteq right[fd[p]] \cup {offset[p] + 1}
        /\ \A i \in Inodes : i # fd[p] => len'[i] = len[i] /\ right'[i] = right[i]
        /\ offset'[p] = offset[p] + 1
    BY <1>0, <2>1, <2>2 DEF WriteUnit, TypeOK
  <2>5. FileInv'
    <3>1. right'[fd[p]] \subseteq 1..len'[fd[p]]
      BY <2>1, <2>4
    <3> QED
      BY <1>0, <2>1, <2>3, <2>4, <3>1 DEF FileInv, TypeOK
  <2>6. \A q \in Procs \ {p} : SizeInv(q)'
    <3>1. \A i \in Inodes : len'[i] = len[i] \/ len'[i] <= N
      BY <2>4
    <3> QED
      BY <1>0, <2>3, <3>1, SizesStay DEF FileInv
  <2>7. SizeInv(p)'
    BY <2>1, <2>3, <2>4 DEF SizeInv
  <2> QED
    BY <2>5, <2>6, <2>7
<1>7. ASSUME NEW p \in Procs, Fail(p) \/ CloseFails(p)
      PROVE  FileInv' /\ \A q \in Procs : SizeInv(q)'
  <2>1. fd[p] \in Inodes /\ N > 0
    BY <1>0, <1>7 DEF Fail, CloseFails, SizeInv
  <2>2. /\ UNCHANGED <<name, unused, fd, statSize>>
        /\ pc'[p] \in {"error", "remove"}
        /\ \A q \in Procs \ {p} : pc'[q] = pc[q] /\ offset'[q] = offset[q]
    BY <1>0, <1>7 DEF Fail, CloseFails, Goto, TypeOK
  <2>3. /\ \A i \in Inodes : (len'[i] = len[i] \/ len'[i] = 0)
        /\ \A i \in Inodes : right'[i] = {} \/ (right'[i] = right[i] /\ len'[i] = len[i])
        /\ \A i \in Inodes : i # fd[p] => len'[i] = len[i] /\ right'[i] = right[i]
    BY <1>0, <1>7, <2>1 DEF Fail, CloseFails, TypeOK
  <2>5. FileInv'
    BY <1>0, <2>2, <2>3, <2>1 DEF FileInv, TypeOK
  <2>6. \A q \in Procs \ {p} : SizeInv(q)'
    <3>1. \A i \in Inodes : len'[i] = len[i] \/ len'[i] <= N
      BY <2>3
    <3> QED
      BY <1>0, <2>2, <3>1, SizesStay DEF FileInv
  <2>7. SizeInv(p)'
    BY <2>2 DEF SizeInv
  <2> QED
    BY <2>5, <2>6, <2>7
<1>8. ASSUME NEW p \in Procs, RemoveFile(p) PROVE FileInv' /\ \A q \in Procs : SizeInv(q)'
  BY <1>0, <1>8 DEF RemoveFile, Goto, FileInv, SizeInv, TypeOK
<1>9. ASSUME NEW r \in Readers, Get(r) PROVE FileInv' /\ \A q \in Procs : SizeInv(q)'
  BY <1>0, <1>9 DEF Get, FileInv, SizeInv, fileVars, procVars
<1>10. CASE TrimRemoves
  BY <1>0, <1>10 DEF TrimRemoves, FileInv, SizeInv, procVars, TypeOK
<1>11. CASE UNCHANGED vars
  BY <1>0, <1>11 DEF vars, FileInv, SizeInv, fileVars, procVars
<1> QED
  BY <1>1, <1>2, <1>3, <1>4, <1>5, <1>6, <1>7, <1>8, <1>9, <1>10, <1>11 DEF Next, Step

-----------------------------------------------------------------------------
LEMMA Absent == None \notin {"partial", "whole", "wrong", "long", "sound", "holed"}
BY CopyAssumption

\* The values of OutputFile's pc and fd.
At == [p \in Procs |-> Stage(p)]
Fds == [p \in Procs |-> Written(p)]

LEMMA Values ==
  ASSUME TypeOK
  PROVE  /\ Held \in {"partial", "whole", "wrong", "long", None}
         /\ \A p \in Procs : Written(p) \in {None, "sound", "holed"}
BY DEF Held, Written

\* OutputFile's variables in the next state, from the writers' one by one.
LEMMA Goes ==
  ASSUME NEW p \in Procs, NEW l, Stage(p)' = l,
         \A q \in Procs : q # p => Stage(q)' = Stage(q)
  PROVE  Output!Goto(p, l)
BY DEF Output!Goto

LEMMA StagesStay ==
  ASSUME \A q \in Procs : Stage(q)' = Stage(q)
  PROVE  At' = At
BY DEF At

LEMMA FdsStay ==
  ASSUME \A q \in Procs : Written(q)' = Written(q)
  PROVE  Fds' = Fds
BY DEF Fds

LEMMA FdSet ==
  ASSUME NEW p \in Procs, NEW v, Written(p)' = v,
         \A q \in Procs : q # p => Written(q)' = Written(q)
  PROVE  Fds' = [Fds EXCEPT ![p] = v]
BY DEF Fds

LEMMA FdsHurt ==
  ASSUME TypeOK', NEW p \in Procs, NEW v, Written(p)' = v,
         \A q \in Procs : q # p =>
           Written(q)' = Written(q) \/ (Written(q) = "sound" /\ Written(q)' = "holed")
  PROVE  Fds' \in Output!Hurt(p, v)
<1>1. \A q \in Procs : Written(q)' \in {None, "sound", "holed"}
  BY DEF Written
<1> QED
  BY <1>1 DEF Fds, Output!Hurt, Output!FDs

LEMMA FdsMended ==
  ASSUME TypeOK',
         \A q \in Procs :
           Written(q)' = Written(q) \/ (Written(q) = "holed" /\ Written(q)' = "sound")
  PROVE  Fds' \in Output!Mended
<1>1. \A q \in Procs : Written(q)' \in {None, "sound", "holed"}
  BY DEF Written
<1> QED
  BY <1>1 DEF Fds, Output!Mended, Output!FDs

\* What is the same for a put that does nothing, if its file is not touched.
LEMMA Others ==
  ASSUME NEW q \in Procs, pc'[q] = pc[q], statSize'[q] = statSize[q], hashOK'[q] = hashOK[q]
  PROVE  Stage(q)' = Stage(q)
BY DEF Stage

\* copyFile looks at the file.
LEMMA StatKeeps ==
  ASSUME KeepInv, NEW p \in Procs, Stat(p)
  PROVE  [Output!Next]_(Output!vars)
<1> USE Constants, Absent
<1>1. /\ Held' = Held /\ \A q \in Procs : Written(q)' = Written(q)
      /\ \A q \in Procs : q # p => Stage(q)' = Stage(q)
      /\ Stage(p) = "idle"
  BY DEF Stat, Goto, Held, Written, Stage, KeepInv, TypeOK, fileVars
<1>2. Fds' = Fds
  BY <1>1, FdsStay
<1>3. CASE name # None /\ len[name] = N
  <2>1. Stage(p)' = "idle"
    BY <1>3 DEF Stat, Goto, Stage, KeepInv, TypeOK
  <2> QED
    BY <1>1, <1>2, <2>1, StagesStay DEF Output!vars, At, Fds
<1>4. CASE ~(name # None /\ len[name] = N)
  <2>1. Held # "whole"
    BY <1>4 DEF Held, KeepInv, TypeOK
  <2>2. Stage(p)' = IF Held = "long" THEN "trunc" ELSE "open"
    BY <1>4 DEF Stat, Goto, Stage, Held, KeepInv, TypeOK
  <2>3. Output!Miss(p)
    BY <1>1, <1>2, <2>1, <2>2, Goes DEF Output!Miss, Fds
  <2> QED
    BY <2>3 DEF Output!Next, Output!PutStep
<1> QED
  BY <1>3, <1>4

\* It finds the output, or rewrites the file.
LEMMA CheckHashKeeps ==
  ASSUME KeepInv, NEW p \in Procs, CheckHash(p)
  PROVE  [Output!Next]_(Output!vars)
<1> USE Constants, Absent
<1>1. /\ Held' = Held /\ pc[p] = "check"
      /\ \A q \in Procs : q # p => Stage(q)' = Stage(q) /\ Written(q)' = Written(q)
      /\ Stage(p) = "idle" /\ Written(p) = None /\ Written(p)' = None
  BY DEF CheckHash, Goto, Held, Written, Stage, KeepInv, TypeOK, fileVars
<1>2. Fds' = Fds
  BY <1>1, FdsStay
<1>3. CASE name # None /\ Intact(name)
  <2>1. Stage(p)' = "stored" /\ Held = "whole"
    BY <1>3 DEF CheckHash, Goto, Stage, Held, Intact, KeepInv, TypeOK
  <2>2. Output!Find(p)
    BY <1>1, <1>2, <2>1, Goes DEF Output!Find, Fds
  <2> QED
    BY <2>2 DEF Output!Next, Output!PutStep
<1>4. CASE ~(name # None /\ Intact(name))
  <2>1. SizeInv(p)
    BY DEF KeepInv
  <2>2. Held # "whole" /\ Held # "long" /\ statSize[p] = N
    BY <1>1, <1>4, <2>1 DEF Held, Intact, SizeInv, KeepInv, TypeOK
  <2>3. Stage(p)' = "open"
    BY <1>4, <2>2 DEF CheckHash, Goto, Stage, KeepInv, TypeOK
  <2>4. Output!Miss(p)
    BY <1>1, <1>2, <2>2, <2>3, Goes DEF Output!Miss, Fds
  <2> QED
    BY <2>4 DEF Output!Next, Output!PutStep
<1> QED
  BY <1>3, <1>4

\* Steps that leave the file as it is.
LEMMA TextBusyKeeps ==
  ASSUME KeepInv, NEW p \in Procs, TextBusy(p)
  PROVE  Output!Busy(p)
<1> USE Constants, Absent
<1>1. /\ Held' = Held /\ Held # None /\ Stage(p)' = "stored"
      /\ \A q \in Procs : q # p => Stage(q)' = Stage(q) /\ Written(q)' = Written(q)
      /\ Stage(p) \in {"open", "trunc"} /\ Written(p) = None /\ Written(p)' = None
  BY DEF TextBusy, Goto, Held, Written, Stage, Intact, KeepInv, TypeOK, fileVars
<1> QED
  BY <1>1, FdsStay, Goes DEF Output!Busy, Fds

LEMMA OpenFailsKeeps ==
  ASSUME KeepInv, NEW p \in Procs, OpenFails(p)
  PROVE  Output!Fails(p)
<1>1. /\ Held' = Held /\ Stage(p)' = "error"
      /\ \A q \in Procs : q # p => Stage(q)' = Stage(q) /\ Written(q)' = Written(q)
      /\ Stage(p) \in {"open", "trunc"} /\ Written(p) = None /\ Written(p)' = None
  BY DEF OpenFails, Goto, Held, Written, Stage, KeepInv, TypeOK, fileVars
<1> QED
  BY <1>1, FdsStay, Goes DEF Output!Fails, Fds

LEMMA CloseKeeps ==
  ASSUME KeepInv, NEW p \in Procs, Close(p)
  PROVE  Output!Close(p)
<1>1. /\ Held' = Held /\ Stage(p) = "close" /\ Stage(p)' = "stored"
      /\ \A q \in Procs : q # p => Stage(q)' = Stage(q) /\ Written(q)' = Written(q)
      /\ Written(p)' = None
  BY DEF Close, Goto, Held, Written, Stage, KeepInv, TypeOK, fileVars
<1> QED
  BY <1>1, FdSet, Goes DEF Output!Close, Fds

LEMMA CrashKeeps ==
  ASSUME KeepInv, NEW p \in Procs, Crash(p)
  PROVE  Output!Crash(p)
<1>1. /\ Held' = Held /\ Stage(p) \notin {"error", "killed"} /\ Stage(p)' = "killed"
      /\ \A q \in Procs : q # p => Stage(q)' = Stage(q) /\ Written(q)' = Written(q)
      /\ Written(p)' = None
  BY DEF Crash, Active, Goto, Held, Written, Stage, KeepInv, TypeOK, fileVars, PCs
<1> QED
  BY <1>1, FdSet, Goes DEF Output!Crash, Fds

\* The name goes.
LEMMA UnlinkKeeps ==
  ASSUME KeepInv, KeepInv', name' = None
  PROVE  Output!Unlink
<1>1. \A q \in Procs : Written(q)' = None
  BY Constants DEF Written, KeepInv, SizeInv
<1>2. Held' = None
  BY DEF Held
<1> QED
  BY <1>1, <1>2 DEF Output!Unlink

LEMMA RemoveFileKeeps ==
  ASSUME KeepInv, KeepInv', NEW p \in Procs, RemoveFile(p)
  PROVE  Output!Drop(p)
<1>1. /\ Stage(p) = "drop" /\ Stage(p)' = "error"
      /\ \A q \in Procs : q # p => Stage(q)' = Stage(q)
      /\ name' = None
  BY DEF RemoveFile, Goto, Stage, KeepInv, TypeOK
<1> QED
  BY <1>1, UnlinkKeeps, Goes DEF Output!Drop

LEMMA TrimRemovesKeeps ==
  ASSUME KeepInv, KeepInv', TrimRemoves
  PROVE  Output!Trim
<1> USE Constants, Absent
<1>1. \A q \in Procs : Stage(q)' = Stage(q)
  BY Others DEF TrimRemoves, procVars
<1>2. Held # None /\ name' = None
  BY DEF TrimRemoves, Held
<1> QED
  BY <1>1, <1>2, UnlinkKeeps, StagesStay DEF Output!Trim, At

LEMMA StutterKeeps ==
  ASSUME UNCHANGED <<name, len, right, procVars>>
  PROVE  UNCHANGED Output!vars
<1>1. Held' = Held /\ \A q \in Procs : Stage(q)' = Stage(q) /\ Written(q)' = Written(q)
  BY DEF Held, Stage, Written, procVars
<1> QED
  BY <1>1, StagesStay, FdsStay DEF Output!vars, At, Fds

\* What of the others is in the file: nothing new, if it only loses contents.
LEMMA OthersHurt ==
  ASSUME KeepInv, NEW p \in Procs, name \in Inodes, UNCHANGED <<name, fd>>,
         right'[name] \subseteq right[name],
         \A q \in Procs : q # p =>
           pc'[q] = pc[q] /\ hashOK'[q] = hashOK[q] /\ offset'[q] = offset[q]
  PROVE  \A q \in Procs : q # p =>
           Written(q)' = Written(q) \/ (Written(q) = "sound" /\ Written(q)' = "holed")
BY DEF Written

\* A file without a name may change as it likes.
LEMMA Unnamed ==
  ASSUME KeepInv, NEW p \in Procs, fd[p] # name, UNCHANGED <<name, fd>>,
         \A i \in Inodes : i # fd[p] => len'[i] = len[i] /\ right'[i] = right[i],
         \A q \in Procs : q # p =>
           pc'[q] = pc[q] /\ hashOK'[q] = hashOK[q] /\ offset'[q] = offset[q]
  PROVE  /\ Held' = Held /\ Fds' = Fds
         /\ Written(p) = None /\ Written(p)' = None
<1>1. name \in Inodes \cup {None}
  BY DEF KeepInv, TypeOK
<1>2. name # None => len'[name] = len[name] /\ right'[name] = right[name]
  BY <1>1
<1>3. Held' = Held
  BY <1>2 DEF Held
<1>4. Written(p) = None /\ Written(p)' = None
  BY DEF Written
<1>5. ASSUME NEW q \in Procs, q # p PROVE Written(q)' = Written(q)
  <2>1. CASE name = None
    BY <1>5, <2>1, Constants DEF Written, KeepInv, SizeInv
  <2>2. CASE name # None
    BY <1>2, <1>5, <2>2 DEF Written
  <2> QED
    BY <2>1, <2>2
<1> QED
  BY <1>3, <1>4, <1>5, FdsStay

\* copyFile opens the file, creates it, or truncates it.
LEMMA OpenFileKeeps ==
  ASSUME KeepInv, KeepInv', NEW p \in Procs, OpenFile(p)
  PROVE  Output!Next
<1> USE Constants, Absent
<1> DEFINE i == name'
<1>1. /\ i \in Inodes /\ fd'[p] = i /\ len[i] \in Nat /\ len'[i] \in Nat
      /\ i = name \/ (name = None /\ i \in unused)
      /\ pc[p] = "open" /\ pc'[p] = (IF N = 0 THEN "ok" ELSE "write")
      /\ offset'[p] = 0 /\ hashOK'[p]
      /\ \A q \in Procs : q # p => /\ pc'[q] = pc[q] /\ fd'[q] = fd[q]
                                   /\ offset'[q] = offset[q]
                                   /\ hashOK'[q] = hashOK[q]
      /\ UNCHANGED statSize
  BY DEF OpenFile, Goto, KeepInv, TypeOK
<1>2. /\ Stage(p) = IF statSize[p] # None /\ statSize[p] > N THEN "trunc" ELSE "open"
      /\ Stage(p)' = IF N = 0 THEN "stored" ELSE "copy"
      /\ \A q \in Procs : q # p => Stage(q)' = Stage(q)
  BY <1>1 DEF Stage
<1>3. /\ Written(p) = None
      /\ N # 0 => Written(p)' = "sound"
      /\ N = 0 => Written(p)' = None
  <2>1. 1..0 = {}
    OBVIOUS
  <2> QED
    BY <1>1, <2>1 DEF Written
\* Without truncation.
<1>4. CASE Stage(p) = "open"
  <2>1. name = i => len'[i] = len[i] /\ right'[i] = right[i] /\ len[i] <= N
    BY <1>1, <1>2, <1>4 DEF OpenFile, KeepInv, SizeInv
  <2>2. name = None => len'[i] = 0 /\ right'[i] = {} /\ \A q \in Procs : q # p => fd[q] # i
    BY <1>1 DEF OpenFile, KeepInv, FileInv
  <2>3. ASSUME NEW q \in Procs, q # p PROVE Written(q)' = Written(q)
    <3>1. CASE name = i
      BY <1>1, <2>1, <2>3, <3>1 DEF Written
    <3>2. CASE name = None
      BY <1>1, <2>2, <2>3, <3>2 DEF Written, KeepInv, SizeInv
    <3> QED
      BY <1>1, <3>1, <3>2
  <2>4. CASE N # 0
    <3>1. Held' = IF Held = None THEN "partial" ELSE Held
      BY <1>1, <2>1, <2>2, <2>4 DEF Held
    <3>2. Fds' = [Fds EXCEPT ![p] = "sound"]
      BY <1>3, <2>3, <2>4, FdSet
    <3>3. Output!Goto(p, "copy")
      BY <1>2, <2>4, Goes
    <3>4. Output!Open(p)
      BY <1>4, <2>4, <3>1, <3>2, <3>3 DEF Output!Open, Fds
    <3> QED
      BY <3>4 DEF Output!Next, Output!PutStep
  <2>5. CASE N = 0
    <3>1. len'[i] = 0 /\ right'[i] \subseteq 1..0 /\ 1..0 = {}
      BY <1>1, <2>1, <2>2, <2>5 DEF KeepInv, FileInv
    <3>2. Held' = "whole"
      BY <1>1, <2>5, <3>1 DEF Held
    <3>3. Fds' = Fds
      BY <1>3, <2>3, <2>5, FdsStay
    <3>4. Output!Goto(p, "stored")
      BY <1>2, <2>5, Goes
    <3>5. Output!OpenEmpty(p)
      BY <1>4, <2>5, <3>2, <3>3, <3>4 DEF Output!OpenEmpty, Fds
    <3> QED
      BY <3>5 DEF Output!Next, Output!PutStep
  <2> QED
    BY <2>4, <2>5
\* With it.
<1>5. CASE Stage(p) = "trunc"
  <2>1. len'[i] = 0 /\ right'[i] = {}
    BY <1>1, <1>2, <1>5 DEF OpenFile, KeepInv, FileInv, TypeOK
  <2>2. ASSUME NEW q \in Procs, q # p
        PROVE  Written(q)' = Written(q) \/ (Written(q) = "sound" /\ Written(q)' = "holed")
    <3>1. CASE name = i
      BY <1>1, <2>1, <2>2, <3>1 DEF Written
    <3>2. CASE name = None
      <4>1. fd[q] # i
        BY <1>1, <3>2 DEF KeepInv, FileInv
      <4> QED
        BY <1>1, <2>2, <3>2, <4>1 DEF Written, KeepInv, SizeInv
    <3> QED
      BY <1>1, <3>1, <3>2
  <2>4. CASE N # 0
    <3>1. Held' = "partial"
      BY <1>1, <2>1, <2>4 DEF Held
    <3>2. Fds' \in Output!Hurt(p, "sound")
      <4>1. TypeOK' /\ Written(p)' = "sound"
        BY <1>3, <2>4 DEF KeepInv
      <4> QED
        BY <2>2, <4>1, FdsHurt
    <3>3. Output!OpenTruncates(p)
      BY <1>2, <1>5, <2>4, <3>1, <3>2, Goes DEF Output!OpenTruncates, Fds
    <3> QED
      BY <3>3 DEF Output!Next, Output!PutStep
  <2>5. CASE N = 0
    <3>1. Held' = "whole"
      <4>1. 1..0 = {}
        OBVIOUS
      <4> QED
        BY <1>1, <2>1, <2>5, <4>1 DEF Held
    <3>2. \A q \in Procs : Written(q)' = Written(q)
      BY <1>1, <1>3, <2>5 DEF Written, KeepInv, SizeInv
    <3>3. Output!OpenEmpty(p)
      BY <1>2, <1>3, <1>5, <2>5, <3>1, <3>2, FdsStay, Goes DEF Output!OpenEmpty, Fds
    <3> QED
      BY <3>3 DEF Output!Next, Output!PutStep
  <2> QED
    BY <2>4, <2>5
<1> QED
  BY <1>2, <1>4, <1>5

\* A write of the right bytes: other puts of the same output write the same.
LEMMA RightUnit ==
  ASSUME KeepInv, KeepInv', NEW p \in Procs, pc[p] = "write", WriteUnit(p, TRUE),
         UNCHANGED <<fd, hashOK, statSize>>,
         \A q \in Procs : q # p => pc'[q] = pc[q]
  PROVE  \A q \in Procs : q # p => /\ Stage(q)' = Stage(q)
                                  /\ \/ Written(q)' = Written(q)
                                     \/ Written(q) = "holed" /\ Written(q)' = "sound"
<1>1. \A q \in Procs : q # p => Stage(q)' = Stage(q)
  BY Others
<1>2. \A q \in Procs : q # p => offset'[q] = offset[q]
  BY DEF WriteUnit, KeepInv, TypeOK
<1>3. \A i \in Inodes : right[i] \subseteq right'[i]
  BY DEF WriteUnit, KeepInv, TypeOK
<1>4. name' = name /\ name \in Inodes \cup {None}
  BY DEF WriteUnit, KeepInv, TypeOK
<1> SUFFICES ASSUME NEW q \in Procs, q # p
             PROVE  Written(q)' = Written(q) \/ (Written(q) = "holed" /\ Written(q)' = "sound")
  BY <1>1
<1>5. CASE name = None
  BY <1>4, <1>5, Constants DEF Written, KeepInv, SizeInv
<1>6. CASE name \in Inodes
  BY <1>2, <1>3, <1>4, <1>6 DEF Written
<1> QED
  BY <1>4, <1>5, <1>6

\* Units of the output may fill a hole, and others spoil the file.
LEMMA WriteKeeps ==
  ASSUME KeepInv, KeepInv', NEW p \in Procs, Write(p)
  PROVE  [Output!Next]_(Output!vars)
<1> USE Constants, Absent
<1>1. PICK same \in BOOLEAN : /\ WriteUnit(p, same)
                             /\ hashOK' = [hashOK EXCEPT ![p] = @ /\ same]
  BY DEF Write
<1>2. /\ pc[p] = "write" /\ offset[p] \in Nat /\ offset[p] < N - 1
      /\ UNCHANGED <<pc, statSize, fd, name, held>>
      /\ offset'[p] = offset[p] + 1 /\ hashOK'[p] = (hashOK[p] /\ same)
      /\ fd[p] \in Inodes /\ len[fd[p]] \in Nat /\ len[fd[p]] <= N
      /\ right[fd[p]] \subseteq 1..len[fd[p]]
      /\ \A q \in Procs : q # p => hashOK'[q] = hashOK[q] /\ offset'[q] = offset[q]
  <2>1. pc[p] = "write" /\ SizeInv(p)
    BY DEF Write, KeepInv
  <2> QED
    BY <1>1, <2>1 DEF Write, WriteUnit, SizeInv, FileInv, KeepInv, TypeOK
<1>3. /\ len'[fd[p]] = IF len[fd[p]] < offset[p] + 1 THEN offset[p] + 1 ELSE len[fd[p]]
      /\ right'[fd[p]] = IF same THEN right[fd[p]] \cup {offset[p] + 1}
                         ELSE right[fd[p]] \ {offset[p] + 1}
      /\ \A i \in Inodes : i # fd[p] => len'[i] = len[i] /\ right'[i] = right[i]
  BY <1>1, <1>2 DEF WriteUnit, KeepInv, TypeOK
<1>4. /\ \A q \in Procs : q # p => Stage(q)' = Stage(q)
      /\ Stage(p) = IF hashOK[p] THEN "copy" ELSE "spoilt"
      /\ Stage(p)' = IF hashOK[p] /\ same THEN "copy" ELSE "spoilt"
  BY <1>2, Others DEF Stage
<1>5. CASE fd[p] # name
  <2>1. Held' = Held /\ Fds' = Fds /\ Written(p) = None
    BY <1>2, <1>3, <1>5, Unnamed
  <2>2. CASE same \/ ~hashOK[p]
    <3>1. At' = At
      BY <1>4, <2>2, StagesStay
    <3> QED
      BY <2>1, <3>1 DEF Output!vars, At, Fds
  <2>3. CASE ~same /\ hashOK[p]
    <3>1. Output!Goto(p, "spoilt")
      BY <1>4, <2>3, Goes
    <3>2. Output!Spoil(p)
      BY <1>4, <2>1, <2>3, <3>1 DEF Output!Spoil, Fds
    <3> QED
      BY <3>2 DEF Output!Next, Output!PutStep
  <2> QED
    BY <2>2, <2>3
<1>6. CASE fd[p] = name /\ same
  <2>1. At' = At
    BY <1>4, <1>6, StagesStay
  <2>2. Held' \in {Held} \cup (IF Held = "wrong" THEN {"whole"} ELSE {})
    <3>1. CASE len[name] < N
      BY <1>2, <1>3, <1>6, <3>1 DEF Held
    <3>2. CASE len[name] = N
      <4>1. right[name] = 1..N => right'[name] = 1..N
        <5>1. offset[p] + 1 \in 1..N
          BY <1>2
        <5>2. right'[name] = right[name] \cup {offset[p] + 1}
          BY <1>2, <1>3, <1>6
        <5> QED
          BY <5>1, <5>2
      <4>2. len'[name] = N
        BY <1>2, <1>3, <1>6, <3>2
      <4> QED
        BY <4>1, <4>2, <1>2, <1>6, <3>2 DEF Held
    <3> QED
      BY <1>2, <1>6, <3>1, <3>2
  <2>3. hashOK'[p] = hashOK[p] /\ WriteUnit(p, TRUE)
    BY <1>1, <1>2, <1>6 DEF KeepInv, TypeOK
  <2>4. Written(p) # None /\ Written(p)' = Written(p)
    BY <1>2, <1>3, <1>6, <2>3 DEF Written
  <2>5. hashOK' = hashOK
    BY <1>1, <1>6 DEF KeepInv, TypeOK
  <2>6. Fds' \in Output!Mended
    <3>1. \A q \in Procs : Written(q)' = Written(q) \/ (Written(q) = "holed" /\ Written(q)' = "sound")
      BY <1>2, <2>3, <2>4, <2>5, RightUnit
    <3> QED
      BY <3>1, FdsMended DEF KeepInv
  <2>7. Output!Mend(p)
    BY <1>4, <1>6, <2>1, <2>2, <2>4, <2>6 DEF Output!Mend, At, Fds
  <2> QED
    BY <2>7 DEF Output!Next, Output!PutStep
<1>7. CASE fd[p] = name /\ ~same
  <2>1. Held' = IF Held = "whole" THEN "wrong" ELSE Held
    <3>1. CASE len[name] < N
      BY <1>2, <1>3, <1>7, <3>1 DEF Held
    <3>2. CASE len[name] = N
      BY <1>2, <1>3, <1>7, <3>2 DEF Held
    <3> QED
      BY <1>2, <1>7, <3>1, <3>2
  <2>2. Written(p) # None /\ Written(p)' = "holed"
    BY <1>2, <1>7 DEF Written
  <2>3. Fds' \in Output!Hurt(p, "holed")
    <3>1. \A q \in Procs : q # p =>
            Written(q)' = Written(q) \/ (Written(q) = "sound" /\ Written(q)' = "holed")
      BY <1>2, <1>3, <1>7, OthersHurt
    <3> QED
      BY <2>2, <3>1, FdsHurt DEF KeepInv
  <2>4. Output!Goto(p, "spoilt")
    BY <1>4, <1>7, Goes
  <2>5. Output!Spoil(p)
    BY <1>4, <2>1, <2>2, <2>3, <2>4 DEF Output!Spoil, Fds
  <2> QED
    BY <2>5 DEF Output!Next, Output!PutStep
<1> QED
  BY <1>5, <1>6, <1>7

\* With the last byte the file is the output, unless it has a hole.
LEMMA CommitKeeps ==
  ASSUME KeepInv, KeepInv', NEW p \in Procs, Commit(p)
  PROVE  Output!Commit(p)
<1> USE Constants, Absent
<1>1. /\ pc[p] = "write" /\ pc'[p] = "close" /\ hashOK[p] /\ WriteUnit(p, TRUE)
      /\ offset[p] = N - 1
      /\ UNCHANGED <<statSize, fd, name, hashOK, held>>
      /\ \A q \in Procs : q # p => pc'[q] = pc[q] /\ offset'[q] = offset[q]
  BY DEF Commit, WriteUnit, Goto, KeepInv, TypeOK
<1>2. /\ fd[p] \in Inodes /\ len[fd[p]] \in Nat /\ len[fd[p]] <= N /\ N > 0
      /\ right[fd[p]] \subseteq 1..len[fd[p]]
  <2>1. SizeInv(p)
    BY DEF KeepInv
  <2> QED
    BY <1>1, <2>1 DEF SizeInv, FileInv, KeepInv, TypeOK
<1>3. /\ len'[fd[p]] = N
      /\ right'[fd[p]] = right[fd[p]] \cup {N}
      /\ \A i \in Inodes : i # fd[p] => len'[i] = len[i] /\ right'[i] = right[i]
  BY <1>1, <1>2 DEF WriteUnit, KeepInv, TypeOK
<1>4. Output!Goto(p, "close") /\ Stage(p) = "copy"
  <2>1. /\ \A q \in Procs : q # p => Stage(q)' = Stage(q)
        /\ Stage(p) = "copy" /\ Stage(p)' = "close"
    BY <1>1, Others DEF Stage
  <2> QED
    BY <2>1, Goes
<1>5. CASE fd[p] # name
  <2>1. Held' = Held /\ Fds' = Fds /\ Written(p) = None
    BY <1>1, <1>3, <1>5, Unnamed
  <2> QED
    BY <1>4, <2>1 DEF Output!Commit, At, Fds
<1>6. CASE fd[p] = name
  <2>1. Written(p)' = "sound"
    BY <1>1, <1>6 DEF Written
  <2>2. right'[name] = 1..N <=> 1..(N - 1) \subseteq right[name]
    <3>1. /\ right'[name] = right[name] \cup {N}
          /\ right[name] \subseteq 1..len[name] /\ len[name] \in Nat /\ len[name] <= N
      BY <1>2, <1>3, <1>6
    <3>2. ASSUME right'[name] = 1..N, NEW u \in 1..(N - 1) PROVE u \in right[name]
      BY <3>1, <3>2
    <3>3. ASSUME 1..(N - 1) \subseteq right[name] PROVE right'[name] = 1..N
      <4>1. 1..N = 1..(N - 1) \cup {N}
        BY <1>2
      <4>2. right[name] \subseteq 1..N
        BY <3>1
      <4> QED
        BY <3>1, <3>3, <4>1, <4>2
    <3> QED
      BY <3>2, <3>3
  <2>3. Held' = IF Written(p) = "sound" THEN "whole" ELSE "wrong"
    BY <1>1, <1>2, <1>3, <1>6, <2>2 DEF Held, Written
  <2>4. CASE Written(p) = "sound"
    <3>1. Fds' \in Output!Mended
      <4>1. \A q \in Procs : Written(q)' = Written(q) \/ (Written(q) = "holed" /\ Written(q)' = "sound")
        BY <1>1, <2>1, <2>4, RightUnit
      <4> QED
        BY <4>1, FdsMended DEF KeepInv
    <3> QED
      BY <1>4, <2>3, <2>4, <3>1 DEF Output!Commit, At, Fds
  <2>5. CASE Written(p) # "sound"
    <3>1. Written(p) = "holed" /\ Held # "whole"
      <4>1. Held = "whole" => 1..(N - 1) \subseteq right[name]
        BY <1>2, <1>6 DEF Held
      <4> QED
        BY <1>1, <1>2, <1>6, <2>5, <4>1 DEF Written
    <3>2. Fds' = [Fds EXCEPT ![p] = "sound"]
      <4>1. ASSUME NEW q \in Procs, q # p PROVE Written(q)' = Written(q)
        <5>1. ASSUME pc[q] = "write"
              PROVE  1..offset[q] \subseteq right[name] <=> 1..offset[q] \subseteq right'[name]
          <6>1. SizeInv(q) /\ offset[q] \in Nat
            BY DEF KeepInv, TypeOK
          <6>2. offset[q] <= N - 1
            BY <5>1, <6>1 DEF SizeInv
          <6>3. N \notin 1..offset[q]
            BY <6>1, <6>2
          <6> QED
            BY <6>3, <1>3, <1>6
        <5> QED
          BY <1>1, <4>1, <5>1 DEF Written
      <4> QED
        BY <2>1, <4>1, FdSet
    <3> QED
      BY <1>4, <2>3, <3>1, <3>2 DEF Output!Commit, At, Fds
  <2> QED
    BY <2>4, <2>5
<1> QED
  BY <1>5, <1>6

\* The truncation, or none, of a writer that fails.
LEMMA FailKeeps ==
  ASSUME KeepInv, KeepInv', NEW p \in Procs, Fail(p)
  PROVE  Output!Abort(p)
<1> USE Constants, Absent
<1>1. /\ pc[p] = "write" /\ pc'[p] = "error"
      /\ UNCHANGED <<statSize, fd, name, hashOK, offset>>
      /\ \A q \in Procs : q # p => pc'[q] = pc[q]
      /\ N > 0 /\ fd[p] \in Inodes
  <2>1. SizeInv(p)
    BY DEF KeepInv
  <2> QED
    BY <2>1 DEF Fail, Goto, KeepInv, TypeOK, SizeInv
<1>2. /\ Output!Goto(p, "error") /\ Stage(p) \in {"copy", "spoilt"}
      /\ Written(p)' = None
  <2>1. /\ \A q \in Procs : q # p => Stage(q)' = Stage(q)
        /\ Stage(p) \in {"copy", "spoilt"} /\ Stage(p)' = "error"
        /\ Written(p)' = None
    BY <1>1, Others DEF Stage, Written
  <2> QED
    BY <2>1, Goes
<1>3. CASE UNCHANGED <<len, right>>
  <2>1. Held' = Held /\ \A q \in Procs : q # p => Written(q)' = Written(q)
    BY <1>1, <1>3 DEF Held, Written
  <2>2. Fds' = [Fds EXCEPT ![p] = None]
    BY <1>2, <2>1, FdSet
  <2> QED
    BY <1>2, <2>1, <2>2 DEF Output!Abort, At, Fds
<1>4. CASE /\ len' = [len EXCEPT ![fd[p]] = 0]
           /\ right' = [right EXCEPT ![fd[p]] = {}]
  <2>1. /\ len'[fd[p]] = 0 /\ right'[fd[p]] = {}
        /\ \A i \in Inodes : i # fd[p] => len'[i] = len[i] /\ right'[i] = right[i]
    BY <1>1, <1>4 DEF KeepInv, TypeOK
  <2>2. CASE fd[p] # name
    <3>1. Held' = Held /\ Fds' = Fds /\ Written(p) = None
      BY <1>1, <2>1, <2>2, Unnamed
    <3>2. Fds' = [Fds EXCEPT ![p] = None]
      BY <3>1 DEF Fds
    <3> QED
      BY <1>2, <3>1, <3>2 DEF Output!Abort, At, Fds
  <2>3. CASE fd[p] = name
    <3>1. Held' = "partial" /\ Written(p) # None
      BY <1>1, <2>1, <2>3 DEF Held, Written
    <3>2. \A q \in Procs : q # p =>
            Written(q)' = Written(q) \/ (Written(q) = "sound" /\ Written(q)' = "holed")
      BY <1>1, <2>1, <2>3, OthersHurt
    <3>3. Fds' \in Output!Hurt(p, None)
      BY <1>2, <3>2, FdsHurt DEF KeepInv
    <3> QED
      BY <1>2, <3>1, <3>3 DEF Output!Abort, At, Fds
  <2> QED
    BY <2>2, <2>3
<1> QED
  BY <1>3, <1>4 DEF Fail

\* What has been written is lost, or is not.
LEMMA CloseFailsKeeps ==
  ASSUME KeepInv, KeepInv', NEW p \in Procs, CloseFails(p)
  PROVE  Output!CloseFails(p)
<1> USE Constants, Absent
<1>1. /\ pc[p] = "close" /\ pc'[p] = "remove"
      /\ UNCHANGED <<statSize, fd, name, hashOK, offset, len>>
      /\ \A q \in Procs : q # p => pc'[q] = pc[q]
      /\ N > 0 /\ fd[p] \in Inodes
  <2>1. SizeInv(p)
    BY DEF KeepInv
  <2> QED
    BY <2>1 DEF CloseFails, Goto, KeepInv, TypeOK, SizeInv
<1>2. /\ Output!Goto(p, "drop") /\ Stage(p) = "close"
      /\ Written(p)' = None
  <2>1. /\ \A q \in Procs : q # p => Stage(q)' = Stage(q)
        /\ Stage(p) = "close" /\ Stage(p)' = "drop"
        /\ Written(p)' = None
    BY <1>1, Others DEF Stage, Written
  <2> QED
    BY <2>1, Goes
<1>3. CASE UNCHANGED right
  <2>1. Held' = Held /\ \A q \in Procs : q # p => Written(q)' = Written(q)
    BY <1>1, <1>3 DEF Held, Written
  <2>2. Fds' = [Fds EXCEPT ![p] = None]
    BY <1>2, <2>1, FdSet
  <2> QED
    BY <1>2, <2>1, <2>2 DEF Output!CloseFails, At, Fds
<1>4. CASE right' = [right EXCEPT ![fd[p]] = {}]
  <2>1. /\ right'[fd[p]] = {}
        /\ \A i \in Inodes : i # fd[p] => len'[i] = len[i] /\ right'[i] = right[i]
    BY <1>1, <1>4 DEF KeepInv, TypeOK
  <2>2. CASE fd[p] # name
    <3>1. Held' = Held /\ Fds' = Fds /\ Written(p) = None
      BY <1>1, <2>1, <2>2, Unnamed
    <3>2. Fds' = [Fds EXCEPT ![p] = None]
      BY <3>1 DEF Fds
    <3> QED
      BY <1>2, <3>1, <3>2 DEF Output!CloseFails, At, Fds
  <2>3. CASE fd[p] = name
    <3>1. Held' = (IF Held = "whole" THEN "wrong" ELSE Held) /\ Written(p) # None
      <4>1. 1..N # {}
        BY <1>1
      <4> QED
        BY <1>1, <2>1, <2>3, <4>1 DEF Held, Written
    <3>2. \A q \in Procs : q # p =>
            Written(q)' = Written(q) \/ (Written(q) = "sound" /\ Written(q)' = "holed")
      BY <1>1, <2>1, <2>3, OthersHurt
    <3>3. Fds' \in Output!Hurt(p, None)
      BY <1>2, <3>2, FdsHurt DEF KeepInv
    <3> QED
      BY <1>2, <3>1, <3>3 DEF Output!CloseFails, At, Fds
  <2> QED
    BY <2>2, <2>3
<1> QED
  BY <1>3, <1>4 DEF CloseFails

\* Every step of CopyFile is one of OutputFile, or leaves its state as it is.
LEMMA StepKeeps ==
  ASSUME KeepInv, [Next]_vars
  PROVE  [Output!Next]_(Output!vars)
<1>0. KeepInv'
  BY KeepStep
<1>1. ASSUME NEW p \in Procs, Step(p) PROVE [Output!Next]_(Output!vars)
  <2>1. CASE Stat(p) \/ CheckHash(p)
    BY <2>1, StatKeeps, CheckHashKeeps
  <2>2. CASE OpenFile(p)
    BY <1>0, <2>2, OpenFileKeeps
  <2>3. CASE TextBusy(p) \/ OpenFails(p) \/ Close(p) \/ Crash(p)
    BY <2>3, TextBusyKeeps, OpenFailsKeeps, CloseKeeps, CrashKeeps
       DEF Output!Next, Output!PutStep
  <2>4. CASE Write(p)
    BY <1>0, <2>4, WriteKeeps
  <2>5. CASE Commit(p) \/ Fail(p) \/ CloseFails(p) \/ RemoveFile(p)
    BY <1>0, <2>5, CommitKeeps, FailKeeps, CloseFailsKeeps, RemoveFileKeeps
       DEF Output!Next, Output!PutStep
  <2> QED
    BY <1>1, <2>1, <2>2, <2>3, <2>4, <2>5 DEF Step
<1>2. CASE TrimRemoves
  BY <1>0, <1>2, TrimRemovesKeeps DEF Output!Next
<1>3. CASE (\E r \in Readers : Get(r)) \/ UNCHANGED vars
  BY <1>3, StutterKeeps DEF Get, vars, fileVars
<1> QED
  BY <1>1, <1>2, <1>3 DEF Next

LEMMA InitKeep == Init => KeepInv
<1> SUFFICES ASSUME Init PROVE KeepInv
  OBVIOUS
<1>1. TypeOK /\ FileInv
  BY InitType, InitInv DEF Inv, UnusedInv, ContentInv, FileInv
<1>2. \A p \in Procs : SizeInv(p)
  BY DEF Init, SizeInv
<1> QED
  BY <1>1, <1>2 DEF KeepInv

LEMMA InitKeeps == Init => Output!Init
<1> SUFFICES ASSUME Init PROVE Output!Init
  OBVIOUS
<1>1. Held \in {"partial", "whole", "wrong", "long", None}
  BY DEF Held
<1>2. \A p \in Procs : Stage(p) = "idle" /\ Written(p) = None
  BY DEF Init, Stage, Written
<1> QED
  BY <1>1, <1>2 DEF Output!Init, Output!Contents

\* CopyFile implements OutputFile, for any number of writers and size of the
\* output, whether or not writers overlap, fail, or read a source that changes.
THEOREM KeepsCorrect == Spec => KeepsOutput
<1>1. KeepInv /\ [Next]_vars => KeepInv'
  BY KeepStep
<1>2. KeepInv /\ [Next]_vars => [Output!Next]_(Output!vars)
  BY StepKeeps
<1> QED
  BY <1>1, <1>2, InitKeep, InitKeeps, PTL DEF Spec, KeepsOutput, Output!Spec

-----------------------------------------------------------------------------
\* What a writer has at first, and how far it is at its end.
EarlyInv(p) ==
  /\ pc[p] \in {"idle", "check", "open"} => fd[p] = None /\ hashOK[p]
  /\ pc[p] = "idle" => statSize[p] = None
  /\ pc[p] \in {"close", "remove"} => offset[p] = N /\ N > 0
  /\ pc[p] = "ok" => fd[p] # None

Clean == \A p \in Procs : ~Culprit(p)

\* As long as nobody damages anything, all that is written is there.
SoundInv ==
  /\ lost = {}
  /\ \A i \in Inodes : len[i] = N => Intact(i)
  /\ \A p \in Procs :
       /\ pc[p] = "write" => 1..offset[p] \subseteq right[fd[p]]
       /\ pc[p] \in {"close", "ok"} => Intact(fd[p])
  /\ \A r \in Readers : held[r] # None => Intact(held[r])

DamageInv == KeepInv /\ (\A p \in Procs : EarlyInv(p)) /\ (Clean => SoundInv)

\* Only the writer that takes the step changes.
LEMMA OneWriter ==
  ASSUME TypeOK, NEW p \in Procs, Step(p)
  PROVE  \A q \in Procs : q # p =>
           /\ pc'[q] = pc[q] /\ statSize'[q] = statSize[q] /\ fd'[q] = fd[q]
           /\ offset'[q] = offset[q] /\ hashOK'[q] = hashOK[q]
<1> USE DEF TypeOK, Goto
<1>1. CASE Stat(p) \/ CheckHash(p) \/ OpenFile(p) \/ TextBusy(p) \/ OpenFails(p)
  BY <1>1 DEF Stat, CheckHash, OpenFile, TextBusy, OpenFails
<1>2. CASE Write(p) \/ Commit(p) \/ Fail(p)
  BY <1>2 DEF Write, Commit, Fail, WriteUnit
<1>3. CASE Close(p) \/ CloseFails(p) \/ RemoveFile(p) \/ Crash(p)
  BY <1>3 DEF Close, CloseFails, RemoveFile, Crash
<1> QED
  BY <1>1, <1>2, <1>3 DEF Step

LEMMA EarlyStep ==
  ASSUME KeepInv, \A q \in Procs : EarlyInv(q), [Next]_vars
  PROVE  \A q \in Procs : EarlyInv(q)'
<1> USE Constants
<1>0. TypeOK /\ \A q \in Procs : SizeInv(q)
  BY DEF KeepInv
<1>1. ASSUME NEW p \in Procs, Step(p) PROVE \A q \in Procs : EarlyInv(q)'
  <2>1. \A q \in Procs : q # p => EarlyInv(q)'
    BY <1>0, <1>1, OneWriter DEF EarlyInv
  <2>2. EarlyInv(p) /\ SizeInv(p)
    BY <1>0
  <2>3. EarlyInv(p)'
    <3> USE DEF EarlyInv, TypeOK, Goto
    <3>1. CASE Stat(p) \/ CheckHash(p) \/ OpenFile(p) \/ TextBusy(p) \/ OpenFails(p)
      BY <1>0, <2>2, <3>1 DEF Stat, CheckHash, OpenFile, TextBusy, OpenFails
    <3>2. CASE Write(p) \/ Commit(p) \/ Fail(p)
      BY <1>0, <2>2, <3>2 DEF Write, Commit, Fail, WriteUnit, SizeInv
    <3>3. CASE Close(p) \/ CloseFails(p) \/ RemoveFile(p) \/ Crash(p)
      BY <1>0, <2>2, <3>3 DEF Close, CloseFails, RemoveFile, Crash
    <3> QED
      BY <1>1, <3>1, <3>2, <3>3 DEF Step
  <2> QED
    BY <2>1, <2>3
<1>2. CASE (\E r \in Readers : Get(r)) \/ TrimRemoves \/ UNCHANGED vars
  BY <1>2 DEF Get, TrimRemoves, vars, procVars, EarlyInv
<1> QED
  BY <1>1, <1>2 DEF Next

\* Who may damage something is known as one that may from then on.
LEMMA CulpritStays ==
  ASSUME KeepInv, \A q \in Procs : EarlyInv(q), [Next]_vars, Clean'
  PROVE  Clean
<1> USE Constants
<1>0. TypeOK /\ \A q \in Procs : SizeInv(q)
  BY DEF KeepInv
<1>1. ASSUME NEW p \in Procs, Step(p) PROVE Clean
  <2>1. \A q \in Procs : q # p => ~Culprit(q)
    BY <1>0, <1>1, OneWriter DEF Clean, Culprit
  <2>2. EarlyInv(p) /\ SizeInv(p) /\ ~Culprit(p)'
    BY <1>0 DEF Clean
  <2>3. ~Culprit(p)
    <3> USE DEF Culprit, EarlyInv, TypeOK, Goto
    <3>1. CASE Stat(p) \/ CheckHash(p) \/ OpenFile(p) \/ TextBusy(p) \/ OpenFails(p)
      BY <1>0, <2>2, <3>1 DEF Stat, CheckHash, OpenFile, TextBusy, OpenFails
    <3>2. CASE Write(p) \/ Commit(p) \/ Fail(p)
      BY <1>0, <2>2, <3>2 DEF Write, Commit, Fail, WriteUnit
    <3>3. CASE Close(p) \/ CloseFails(p) \/ RemoveFile(p) \/ Crash(p)
      BY <1>0, <2>2, <3>3 DEF Close, CloseFails, RemoveFile, Crash, Active
    <3> QED
      BY <1>1, <3>1, <3>2, <3>3 DEF Step
  <2> QED
    BY <2>1, <2>3 DEF Clean
<1>2. CASE (\E r \in Readers : Get(r)) \/ TrimRemoves \/ UNCHANGED vars
  BY <1>2 DEF Get, TrimRemoves, vars, procVars, Clean, Culprit
<1> QED
  BY <1>1, <1>2 DEF Next

\* Where only right units are added, nothing is lost.
LEMMA Undamaged ==
  ASSUME KeepInv, TypeOK', SoundInv, NEW p \in Procs,
         \A q \in Procs : q # p =>
           pc'[q] = pc[q] /\ fd'[q] = fd[q] /\ offset'[q] = offset[q],
         \A i \in Inodes : Intact(i) => Intact(i)',
         \A i \in Inodes : right[i] \subseteq right'[i],
         \A i \in Inodes : len'[i] = N => Intact(i)',
         \A q \in Procs : EarlyInv(q),
         lost' = {}, UNCHANGED held,
         pc'[p] = "write" => 1..offset'[p] \subseteq right'[fd'[p]],
         pc'[p] \in {"close", "ok"} => Intact(fd[p])'
  PROVE  SoundInv'
<1>1. /\ fd \in [Procs -> Inodes \cup {None}]
      /\ held \in [Readers -> Inodes \cup {None}]
      /\ \A q \in Procs : pc[q] \in {"write", "close", "ok"} => fd[q] # None
  BY DEF KeepInv, TypeOK, EarlyInv
<1>2. ASSUME NEW q \in Procs, q # p
      PROVE  /\ pc'[q] = "write" => 1..offset'[q] \subseteq right'[fd'[q]]
             /\ pc'[q] \in {"close", "ok"} => Intact(fd[q])'
  <2>1. pc[q] = "write" => 1..offset[q] \subseteq right[fd[q]] /\ fd[q] \in Inodes
    BY <1>1 DEF SoundInv
  <2>2. pc[q] \in {"close", "ok"} => Intact(fd[q]) /\ fd[q] \in Inodes
    BY <1>1 DEF SoundInv
  <2>3. ASSUME pc[q] \in {"close", "ok"} PROVE Intact(fd[q])'
    BY <1>2, <2>2, <2>3 DEF Intact
  <2> QED
    BY <1>2, <2>1, <2>3
<1>3. ASSUME NEW r \in Readers, held'[r] # None PROVE Intact(held[r])'
  BY <1>1, <1>3 DEF SoundInv, Intact
<1> QED
  BY <1>2, <1>3 DEF SoundInv

\* Steps that change no file but add an empty one at most.
LEMMA QuietSound ==
  ASSUME KeepInv, SoundInv, NEW p \in Procs, EarlyInv(p)', TypeOK', Clean',
         \A q \in Procs : EarlyInv(q),
         Stat(p) \/ CheckHash(p) \/ TextBusy(p) \/ OpenFails(p) \/ Close(p) \/ Crash(p)
  PROVE  SoundInv'
<1>1. TypeOK /\ Step(p)
  BY DEF KeepInv, Step
<1>2. UNCHANGED <<fileVars, held>> /\ pc'[p] # "write"
  <2>1. CASE Stat(p) \/ CheckHash(p) \/ TextBusy(p)
    BY <1>1, <2>1 DEF Stat, CheckHash, TextBusy, Goto, TypeOK
  <2>2. CASE OpenFails(p) \/ Close(p) \/ Crash(p)
    BY <1>1, <2>2 DEF OpenFails, Close, Crash, Goto, TypeOK
  <2> QED
    BY <2>1, <2>2
<1>3. pc'[p] \in {"close", "ok"} => Intact(fd[p])'
  <2>1. CASE CheckHash(p)
    BY <1>1, <1>2, <2>1 DEF CheckHash, Goto, TypeOK, Intact, fileVars
  <2>4. CASE TextBusy(p)
    <3>1. Intact(name) /\ fd'[p] = name
      BY <1>1, <2>4 DEF TextBusy, TypeOK, SoundInv
    <3> QED
      BY <3>1, <1>2 DEF Intact, fileVars
  <2>2. CASE Close(p)
    BY <1>1, <1>2, <2>2 DEF Close, Goto, TypeOK, Intact, fileVars, SoundInv
  <2>3. CASE Stat(p) \/ OpenFails(p) \/ Crash(p)
    BY <1>1, <2>3 DEF Stat, OpenFails, Crash, Goto, TypeOK
  <2> QED
    BY <2>1, <2>2, <2>3, <2>4
<1>4. /\ \A i \in Inodes : (Intact(i) => Intact(i)') /\ right[i] \subseteq right'[i]
      /\ \A i \in Inodes : len'[i] = N => Intact(i)'
      /\ lost' = {}
  BY <1>2 DEF fileVars, Intact, SoundInv
<1> QED
  BY <1>1, <1>2, <1>3, <1>4, OneWriter, Undamaged

\* Who finds the file too long is a culprit before it truncates it.
LEMMA OpenFileSound ==
  ASSUME KeepInv, KeepInv', SoundInv, \A q \in Procs : EarlyInv(q), Clean',
         NEW p \in Procs, OpenFile(p)
  PROVE  SoundInv'
<1> USE Constants
<1>1. TypeOK /\ Step(p) /\ TypeOK' /\ FileInv /\ SizeInv(p)
  BY DEF KeepInv, Step
<1>2. ~(statSize[p] # None /\ statSize[p] > N)
  BY DEF Clean, Culprit, OpenFile
<1>3. UNCHANGED <<len, right, lost, held>>
  BY <1>2 DEF OpenFile
<1>4. offset'[p] = 0 /\ pc'[p] = IF N = 0 THEN "ok" ELSE "write"
  BY <1>1 DEF OpenFile, Goto, TypeOK
<1>5. fd'[p] \in Inodes /\ (N = 0 => len[fd'[p]] = N)
  <2>1. CASE name = None
    BY <1>1, <2>1 DEF OpenFile, TypeOK, FileInv
  <2>2. CASE name # None
    BY <1>1, <1>2, <2>2 DEF OpenFile, TypeOK, SizeInv
  <2> QED
    BY <2>1, <2>2
<1>6. /\ \A i \in Inodes : (Intact(i) => Intact(i)') /\ right[i] \subseteq right'[i]
      /\ \A i \in Inodes : len'[i] = N => Intact(i)'
      /\ lost' = {}
  BY <1>3 DEF Intact, SoundInv
<1>7. pc'[p] = "write" => 1..offset'[p] \subseteq right'[fd'[p]]
  BY <1>4
<1>8. pc'[p] \in {"close", "ok"} => Intact(fd[p])'
  BY <1>3, <1>4, <1>5, <1>6
<1> QED
  BY <1>1, <1>3, <1>6, <1>7, <1>8, OneWriter, Undamaged

\* A unit that is written is right, or its writer a culprit.
LEMMA WriteSound ==
  ASSUME KeepInv, KeepInv', SoundInv, \A q \in Procs : EarlyInv(q), Clean',
         NEW p \in Procs, Write(p)
  PROVE  SoundInv'
<1> DEFINE u == offset[p] + 1
<1> USE Constants
<1>1. TypeOK /\ Step(p) /\ TypeOK' /\ FileInv' /\ SizeInv(p)
  BY DEF KeepInv, Step
<1>0. PICK i \in Inodes : i = fd[p]
  BY <1>1 DEF Write, TypeOK
<1>2. PICK same \in BOOLEAN : /\ WriteUnit(p, same)
                             /\ hashOK' = [hashOK EXCEPT ![p] = @ /\ same]
  BY DEF Write
<1>3. same
  BY <1>1, <1>2 DEF Clean, Culprit, TypeOK
<1>4. /\ pc[p] = "write" /\ UNCHANGED <<pc, fd, held, lost>>
      /\ offset[p] \in Nat /\ u < N /\ len[i] <= N /\ len[i] \in Nat
  BY <1>0, <1>1 DEF Write, SizeInv, TypeOK
<1>5. /\ right' = [right EXCEPT ![i] = @ \cup {u}]
      /\ len' = [len EXCEPT ![i] = IF @ < u THEN u ELSE @]
      /\ offset' = [offset EXCEPT ![p] = u]
  BY <1>0, <1>2, <1>3 DEF WriteUnit
<1>6. /\ \A j \in Inodes : right[j] \subseteq right'[j]
      /\ \A j \in Inodes : j # i => right'[j] = right[j] /\ len'[j] = len[j]
      /\ right'[i] = right[i] \cup {u} /\ len'[i] = (IF len[i] < u THEN u ELSE len[i])
      /\ offset'[p] = u
  BY <1>1, <1>4, <1>5 DEF TypeOK
<1>7. ASSUME NEW j \in Inodes, len[j] = N PROVE Intact(j)'
  <2>1. Intact(j)
    BY <1>7 DEF SoundInv
  <2>2. u \in 1..N
    BY <1>4
  <2>3. right'[j] = 1..N /\ len'[j] = N
    <3>1. CASE j = i
      <4>1. right'[j] = (1..N) \cup {u} /\ len'[j] = N
        BY <1>4, <1>6, <1>7, <2>1, <3>1 DEF Intact
      <4> QED
        BY <2>2, <4>1
    <3>2. CASE j # i
      BY <1>6, <2>1, <3>2 DEF Intact
    <3> QED
      BY <3>1, <3>2
  <2> QED
    BY <2>3 DEF Intact
<1>8. \A j \in Inodes : len'[j] = N => len[j] = N
  BY <1>4, <1>6
<1>9. 1..offset'[p] \subseteq right'[fd'[p]]
  <2>1. 1..offset[p] \subseteq right[i]
    BY <1>0, <1>4 DEF SoundInv
  <2>2. 1..u = (1..offset[p]) \cup {u}
    BY <1>4
  <2> QED
    BY <1>0, <1>4, <1>6, <2>1, <2>2
<1>10. /\ \A j \in Inodes : Intact(j) => Intact(j)'
       /\ \A j \in Inodes : len'[j] = N => Intact(j)'
  BY <1>7, <1>8 DEF Intact
<1>11. lost' = {} /\ pc'[p] = "write"
  BY <1>4 DEF SoundInv
<1> QED
  BY <1>1, <1>4, <1>6, <1>9, <1>10, <1>11, OneWriter, Undamaged

\* The last byte completes a file that has all the others.
LEMMA CommitSound ==
  ASSUME KeepInv, KeepInv', SoundInv, \A q \in Procs : EarlyInv(q), Clean',
         NEW p \in Procs, Commit(p)
  PROVE  SoundInv'
<1> USE Constants
<1>1. TypeOK /\ Step(p) /\ TypeOK' /\ FileInv' /\ SizeInv(p)
  BY DEF KeepInv, Step
<1>0. PICK i \in Inodes : i = fd[p]
  BY <1>1 DEF Commit, TypeOK
<1>2. /\ pc[p] = "write" /\ UNCHANGED <<fd, held>>
      /\ offset[p] = N - 1 /\ N > 0 /\ len[i] <= N /\ len[i] \in Nat
      /\ pc'[p] = "close" /\ lost' = lost \ {i}
  BY <1>0, <1>1 DEF Commit, SizeInv, TypeOK, Goto
<1>3. /\ right' = [right EXCEPT ![i] = @ \cup {N}]
      /\ len' = [len EXCEPT ![i] = IF @ < N THEN N ELSE @]
  <2>1. offset[p] + 1 = N
    BY <1>2
  <2> QED
    BY <1>0, <2>1 DEF Commit, WriteUnit
<1>4. 1..(N - 1) \subseteq right[i]
  BY <1>0, <1>2 DEF SoundInv
<1>5. /\ \A j \in Inodes : right[j] \subseteq right'[j]
      /\ \A j \in Inodes : j # i => right'[j] = right[j] /\ len'[j] = len[j]
      /\ right'[i] = right[i] \cup {N} /\ len'[i] = N
  BY <1>1, <1>2, <1>3 DEF TypeOK
<1>6. Intact(i)'
  <2>1. right'[i] \subseteq 1..N
    BY <1>1, <1>2, <1>5 DEF FileInv
  <2>2. 1..N = (1..(N - 1)) \cup {N}
    BY <1>2
  <2>3. right'[i] = 1..N
    BY <1>4, <1>5, <2>1, <2>2
  <2> QED
    BY <1>5, <2>3 DEF Intact
<1>7. /\ \A j \in Inodes : Intact(j) => Intact(j)'
      /\ \A j \in Inodes : len'[j] = N => Intact(j)'
  <2>1. ASSUME NEW j \in Inodes, j # i
        PROVE  (Intact(j) => Intact(j)') /\ (len'[j] = N => Intact(j)')
    BY <1>5, <2>1 DEF Intact, SoundInv
  <2> QED
    BY <1>6, <2>1
<1>8. lost' = {} /\ Intact(fd[p])'
  BY <1>0, <1>2, <1>6 DEF SoundInv, Intact
<1> QED
  BY <1>1, <1>2, <1>5, <1>7, <1>8, OneWriter, Undamaged

\* Who fails with the file open is a culprit.
LEMMA FailuresBlamed ==
  ASSUME KeepInv, \A q \in Procs : EarlyInv(q), NEW p \in Procs,
         Fail(p) \/ CloseFails(p) \/ RemoveFile(p)
  PROVE  ~Clean'
<1>1. TypeOK
  BY DEF KeepInv
<1>2. pc'[p] \in {"error", "remove"} /\ fd'[p] # None
  BY <1>1 DEF Fail, CloseFails, RemoveFile, Goto, TypeOK
<1> QED
  BY <1>2 DEF Clean, Culprit

LEMMA DamageStep ==
  ASSUME DamageInv, [Next]_vars
  PROVE  DamageInv'
<1>0. /\ KeepInv /\ KeepInv' /\ TypeOK'
      /\ \A q \in Procs : EarlyInv(q) /\ EarlyInv(q)'
  BY KeepStep, EarlyStep DEF DamageInv, KeepInv
<1>1. SUFFICES ASSUME Clean' PROVE SoundInv'
  BY <1>0 DEF DamageInv
<1>2. SoundInv
  BY <1>0, <1>1, CulpritStays DEF DamageInv
<1>3. ASSUME NEW p \in Procs, Step(p) PROVE SoundInv'
  BY <1>0, <1>1, <1>2, <1>3, QuietSound, OpenFileSound, WriteSound, CommitSound,
     FailuresBlamed DEF Step
<1>4. ASSUME NEW r \in Readers, Get(r) PROVE SoundInv'
  <2>1. name \in Inodes /\ Intact(name)
    BY <1>0, <1>2, <1>4 DEF Get, SoundInv, KeepInv, TypeOK
  <2>2. /\ UNCHANGED <<len, right, lost, pc, fd, offset>>
        /\ \A s \in Readers : held'[s] # None => held'[s] = held[s] \/ held'[s] = name
    BY <1>0, <1>4 DEF Get, fileVars, procVars, KeepInv, TypeOK
  <2>3. ASSUME NEW s \in Readers, held'[s] # None PROVE Intact(held[s])'
    BY <1>2, <2>1, <2>2, <2>3 DEF SoundInv, Intact
  <2> QED
    BY <1>2, <2>2, <2>3 DEF SoundInv, Intact
<1>5. CASE TrimRemoves \/ UNCHANGED vars
  BY <1>2, <1>5 DEF TrimRemoves, vars, fileVars, procVars, SoundInv, Intact
<1> QED
  BY <1>3, <1>4, <1>5 DEF Next

LEMMA InitDamage == Init => DamageInv
<1> SUFFICES ASSUME Init PROVE DamageInv
  OBVIOUS
<1>1. KeepInv
  BY InitKeep
<1>2. \A p \in Procs : EarlyInv(p)
  BY DEF Init, EarlyInv
<1>3. ASSUME NEW i \in Inodes, len[i] = N PROVE Intact(i)
  <2>1. right[i] \subseteq 1..N
    BY <1>1, <1>3 DEF KeepInv, FileInv
  <2>2. PICK l \in InitialLens \cup {0} : \E good \in SUBSET (1..l) :
          /\ IF name = None THEN l = 0
             ELSE IF faults THEN l # N
             ELSE l <= N /\ good = 1..l
          /\ len = [j \in Inodes |-> IF j = name THEN l ELSE 0]
          /\ right = [j \in Inodes |-> IF j = name THEN good ELSE {}]
    BY DEF Init
  <2>3. CASE i = name
    BY <1>3, <2>2, <2>3, Constants DEF Intact
  <2>4. CASE i # name
    BY <1>3, <2>1, <2>2, <2>4, Constants DEF Intact
  <2> QED
    BY <2>3, <2>4
<1>4. SoundInv
  BY <1>3 DEF Init, SoundInv
<1> QED
  BY <1>1, <1>2, <1>4 DEF DamageInv

\* However writers overlap and are killed, with faults or without, only one that
\* has failed with the file open, read a source that changed, or truncated a
\* file that was too long can damage what readers see.
THEOREM DamageCorrect == Spec => []OnlyFailuresDamage
<1>1. DamageInv => OnlyFailuresDamage
  <2> SUFFICES ASSUME DamageInv, Clean
               PROVE  CompleteIsIntact /\ StoredStaysIntact /\ HeldStaysIntact
    BY DEF OnlyFailuresDamage, Clean
  <2> QED
    BY DEF DamageInv, SoundInv, CompleteIsIntact, StoredStaysIntact, HeldStaysIntact
<1> QED
  BY <1>1, DamageStep, InitDamage, PTL DEF Spec

=============================================================================
