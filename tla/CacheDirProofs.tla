--------------------------- MODULE CacheDirProofs ---------------------------
(***************************************************************************)
(* Facts about CacheDir that proofs about trims rest on: types, and how    *)
(* far an entry's time of modification is behind its last use.             *)
(***************************************************************************)
EXTENDS CacheDir, TLAPS

\* What is assumed of the constants, in the form the steps use.
LEMMA DirConstants ==
  /\ None \notin Int /\ None \notin File
  /\ MtimeInterval \in Nat \ {0} /\ TrimInterval \in Nat \ {0}
  /\ Start \in Nat /\ MaxTime \in Nat
  /\ SizeOf \in [Entries -> Nat]
  /\ \A d \in InitialDirs :
       /\ d \in [Entries -> File \cup {None}]
       /\ \A e \in Entries : d[e] # None => d[e].mtime <= Start
  /\ \A s \in Stamps : s \in Nat \cup {None}
BY NoneAssumption, TimeAssumption, EntriesAssumption, InitialAssumption

\* No step makes an entry older.  It has the time it had before, and then
\* is not a directory that holds one file only now; or else it has the time
\* of the step.
Ages ==
  /\ now <= now'
  /\ \A e \in Entries :
       dir'[e] # None =>
         \/ dir'[e].mtime = now'
         \/ /\ dir[e] # None /\ dir'[e].mtime = dir[e].mtime
            /\ dir'[e].parts = 1 => dir[e].parts = 1
  /\ \A e \in Entries : lastGet'[e] = lastGet[e] \/ lastGet'[e] = now

\* markUsed saves a write when the time is less than mtimeInterval old, so
\* an entry has been used up to that long after its time of modification.
LagInv ==
  \A e \in Entries :
    /\ lastGet[e] <= now
    /\ dir[e] # None => /\ dir[e].mtime <= now
                        /\ lastGet[e] < dir[e].mtime + MtimeInterval

-----------------------------------------------------------------------------
LEMMA InitDir == DirInit => DirTypeOK /\ LagInv
<1> SUFFICES ASSUME DirInit PROVE DirTypeOK /\ LagInv
  OBVIOUS
<1> USE DirConstants
<1>1. /\ now = Start /\ dir \in InitialDirs /\ trimTxt \in Stamps
      /\ lastGet = [e \in Entries |-> IF dir[e] = None THEN 0 ELSE dir[e].mtime]
      /\ lastPut = lastGet /\ calls = 0
  BY DEF DirInit
<1>2. dir \in [Entries -> File \cup {None}]
  BY <1>1
<1>3. \A e \in Entries : dir[e] # None => dir[e].mtime \in Nat
  BY <1>2 DEF File
<1>4. lastGet \in [Entries -> Nat]
  BY <1>1, <1>3
<1>5. DirTypeOK
  BY <1>1, <1>2, <1>4 DEF DirTypeOK
<1>6. LagInv
  BY <1>1, <1>3 DEF LagInv
<1> QED
  BY <1>5, <1>6

\* The operations, one at a time.
LEMMA MarkUsedStep ==
  ASSUME DirTypeOK, LagInv, NEW e \in Entries, MarkUsed(e), calls' \in Nat
  PROVE  DirTypeOK' /\ LagInv' /\ Ages
<1> USE DirConstants
<1>1. /\ UNCHANGED <<now, trimTxt, lastPut>> /\ dir[e] \in File
      /\ lastGet' = [lastGet EXCEPT ![e] = now]
  BY DEF MarkUsed, DirTypeOK
<1>2. \A f \in Entries : f # e => dir'[f] = dir[f] /\ lastGet'[f] = lastGet[f]
  BY DEF MarkUsed, DirTypeOK
<1>3. lastGet'[e] = now
  BY DEF MarkUsed, DirTypeOK
<1>4. CASE now - dir[e].mtime >= MtimeInterval
  <2>1. dir' = [dir EXCEPT ![e] = [dir[e] EXCEPT !.mtime = now]]
    BY <1>4 DEF MarkUsed
  <2>2. [dir[e] EXCEPT !.mtime = now] \in File
    BY <1>1 DEF File, DirTypeOK
  <2>3. dir'[e].mtime = now
    BY <1>1, <2>1 DEF DirTypeOK, File
  <2>4. DirTypeOK'
    BY <1>1, <2>1, <2>2 DEF DirTypeOK
  <2>5. Ages
    BY <1>1, <1>2, <1>3, <2>3 DEF Ages, DirTypeOK
  <2>6. LagInv'
    BY <1>1, <1>2, <1>3, <2>3 DEF LagInv, DirTypeOK
  <2> QED
    BY <2>4, <2>5, <2>6
<1>5. CASE ~(now - dir[e].mtime >= MtimeInterval)
  <2>1. UNCHANGED dir
    BY <1>5 DEF MarkUsed
  <2>2. now < dir[e].mtime + MtimeInterval
    BY <1>1, <1>5 DEF File, DirTypeOK
  <2>3. DirTypeOK'
    BY <1>1, <2>1 DEF DirTypeOK
  <2>4. Ages
    BY <1>1, <1>2, <1>3, <2>1 DEF Ages, DirTypeOK
  <2>5. LagInv'
    BY <1>1, <1>2, <1>3, <2>1, <2>2 DEF LagInv, DirTypeOK
  <2> QED
    BY <2>3, <2>4, <2>5
<1> QED
  BY <1>4, <1>5

\* All the others leave lastGet, and every entry but one, alone.  That one
\* they remove, or give the current time, or keep as old as it was.
Affects(e) ==
  \E x \in File \cup {None} :
    /\ dir' = [dir EXCEPT ![e] = x]
    /\ x # None => \/ x.mtime = now
                   \/ /\ dir[e] # None /\ x.mtime = dir[e].mtime
                      /\ x.parts = 1 => dir[e].parts = 1

LEMMA EntryStep ==
  ASSUME DirTypeOK, LagInv, NEW e \in Entries, Affects(e),
         UNCHANGED <<now, lastGet>>,
         trimTxt' \in Nat \cup {None}, lastPut' \in [Entries -> Nat],
         calls' \in Nat
  PROVE  DirTypeOK' /\ LagInv' /\ Ages
<1> USE DirConstants
<1> PICK x \in File \cup {None} :
           /\ dir' = [dir EXCEPT ![e] = x]
           /\ x # None => \/ x.mtime = now
                          \/ /\ dir[e] # None /\ x.mtime = dir[e].mtime
                             /\ x.parts = 1 => dir[e].parts = 1
  BY DEF Affects
<1>1. dir'[e] = x /\ \A f \in Entries : f # e => dir'[f] = dir[f]
  BY DEF DirTypeOK
<1>2. DirTypeOK'
  BY DEF DirTypeOK
<1>3. Ages
  BY <1>1 DEF Ages, DirTypeOK
<1>4. LagInv'
  BY <1>1 DEF LagInv, DirTypeOK
<1> QED
  BY <1>2, <1>3, <1>4

\* The system calls of a put.
LEMMA ResizeAffects ==
  ASSUME DirTypeOK, NEW e \in Entries, NEW n \in Nat, Resize(e, n)
  PROVE  Affects(e)
<1> DEFINE x == [mtime |-> IF e \in Executables THEN dir[e].mtime ELSE now,
                 size  |-> n,
                 parts |-> 1]
<1>1. dir[e] # None /\ dir[e].parts = 1 /\ dir' = [dir EXCEPT ![e] = x]
  BY DEF Resize, Parts
<1>2. dir[e] \in File /\ now \in Nat
  BY <1>1 DEF DirTypeOK
<1>3. x \in File /\ (x.mtime = now \/ x.mtime = dir[e].mtime)
  BY <1>2 DEF File
<1> HIDE DEF x
<1> QED
  BY <1>1, <1>3 DEF Affects

LEMMA WriteAffects ==
  ASSUME DirTypeOK, NEW e \in Entries, Write(e) \/ Cut(e)
  PROVE  Affects(e)
<1>1. Parts(e) = 1 => dir[e] # None /\ dir[e] \in File
  BY DEF Parts, DirTypeOK
<1>2. SizeOf[e] \in Nat
  BY DirConstants
<1>3. PICK n \in Nat : Resize(e, n)
  BY <1>1, <1>2 DEF Write, Cut, File
<1> QED
  BY <1>3, ResizeAffects

LEMMA FileAffects ==
  ASSUME DirTypeOK, NEW e \in Entries, Create(e) \/ RemoveFile(e)
  PROVE  Affects(e)
<1> DEFINE x == [mtime |-> now, size |-> 0, parts |-> 1]
<1>1. x \in File /\ x.mtime = now
  BY DEF File, DirTypeOK
<1>2. dir' = [dir EXCEPT ![e] = x] \/ dir' = [dir EXCEPT ![e] = None]
  BY DEF Create, RemoveFile
<1> HIDE DEF x
<1> QED
  BY <1>1, <1>2 DEF Affects

LEMMA DirectoryType ==
  ASSUME DirTypeOK, NEW e \in Entries, NEW n \in 0..2, NEW d \in Directories(e, n)
  PROVE  d \in File /\ d.mtime = now
<1>1. SizeOf[e] \in Nat /\ now \in Nat
  BY DirConstants DEF DirTypeOK
<1>2. PICK s \in Nat : d = [mtime |-> now, size |-> s, parts |-> n]
  BY <1>1 DEF Directories
<1> QED
  BY <1>1, <1>2 DEF File

LEMMA DirectoryAffects ==
  ASSUME DirTypeOK, NEW e \in Entries, NEW n \in 0..2, NEW d \in Directories(e, n),
         dir' = [dir EXCEPT ![e] = d]
  PROVE  Affects(e)
BY DirectoryType DEF Affects

LEMMA NothingAffects ==
  ASSUME DirTypeOK, NEW e \in Entries, UNCHANGED dir
  PROVE  Affects(e)
<1>1. dir' = [dir EXCEPT ![e] = dir[e]] /\ dir[e] \in File \cup {None}
  BY DEF DirTypeOK
<1> QED
  BY <1>1 DEF Affects

LEMMA StoredAffects ==
  ASSUME DirTypeOK, NEW e \in Entries, Stored(e)
  PROVE  Affects(e) /\ lastPut' \in [Entries -> Nat]
<1>1. Parts(e) = 1 => dir[e] # None /\ dir[e] \in File
  BY DEF Parts, DirTypeOK
<1>2. SizeOf[e] \in Nat
  BY DirConstants
<1>3. UNCHANGED dir \/ \E n \in Nat : Resize(e, n)
  BY <1>1, <1>2 DEF Stored, File
<1>4. lastPut' \in [Entries -> Nat]
  BY DEF Stored, DirTypeOK
<1> QED
  BY <1>3, <1>4, NothingAffects, ResizeAffects

LEMMA PutStep ==
  ASSUME DirTypeOK, LagInv, NEW e \in Entries, calls' \in Nat,
         PutIndexEntry(e) \/ PutOutput(e) \/ PutExecutable(e)
  PROVE  DirTypeOK' /\ LagInv' /\ Ages
<1>1. UNCHANGED <<now, trimTxt, lastGet>>
  BY DEF PutIndexEntry, PutOutput, PutExecutable
<1>2. [lastPut EXCEPT ![e] = now] \in [Entries -> Nat] /\ lastPut \in [Entries -> Nat]
  BY DEF DirTypeOK
<1>3. Affects(e) /\ lastPut' \in [Entries -> Nat]
  <2>1. CASE Stored(e)
    BY <2>1, StoredAffects
  <2>2. CASE PutIndexEntry(e) /\ ~Stored(e)
    <3>1. (Create(e) \/ Write(e) \/ RemoveFile(e)) /\ UNCHANGED lastPut
      BY <2>2 DEF PutIndexEntry
    <3> QED
      BY <1>2, <3>1, WriteAffects, FileAffects
  <2>3. CASE PutOutput(e) /\ ~Stored(e)
    <3>1. \/ UNCHANGED dir /\ lastPut' = [lastPut EXCEPT ![e] = now]
          \/ /\ Create(e) \/ Write(e) \/ Cut(e) \/ RemoveFile(e)
             /\ UNCHANGED lastPut
      BY <2>3 DEF PutOutput
    <3> QED
      BY <1>2, <3>1, WriteAffects, FileAffects, NothingAffects
  <2>4. CASE PutExecutable(e) /\ ~Stored(e)
    <3>1. CASE UNCHANGED dir /\ lastPut' = [lastPut EXCEPT ![e] = now]
      BY <1>2, <3>1, NothingAffects
    <3>2. ASSUME \E d \in Directories(e, 0) : dir' = [dir EXCEPT ![e] = d]
          PROVE  Affects(e)
      <4>1. PICK d \in Directories(e, 0) : dir' = [dir EXCEPT ![e] = d]
        BY <3>2
      <4>2. 0 \in 0..2
        OBVIOUS
      <4> QED
        BY <4>1, <4>2, DirectoryAffects
    <3>3. ASSUME NEW n \in 1..2,
                 dir' = [dir EXCEPT ![e] = [mtime |-> now, size |-> 0, parts |-> n]]
          PROVE  Affects(e)
      <4> DEFINE x == [mtime |-> now, size |-> 0, parts |-> n]
      <4>1. x \in File /\ x.mtime = now
        BY DEF File, DirTypeOK
      <4> HIDE DEF x
      <4> QED
        BY <3>3, <4>1 DEF Affects, x
    <3>4. ASSUME RemoveInner(e) PROVE Affects(e)
      <4>1. PICK n \in 0..2 : \E d \in Directories(e, n) : dir' = [dir EXCEPT ![e] = d]
        <5>1. (IF Parts(e) = 1 THEN {0} ELSE {1, 2}) \subseteq 0..2
          OBVIOUS
        <5> QED
          BY <3>4, <5>1, Zenon DEF RemoveInner
      <4> QED
        BY <4>1, DirectoryAffects
    <3>5. Write(e) \/ Cut(e) => Affects(e)
      BY WriteAffects
    <3>6. \/ UNCHANGED dir /\ lastPut' = [lastPut EXCEPT ![e] = now]
          \/ /\ \/ /\ dir[e] = None
                   /\ \E d \in Directories(e, 0) : dir' = [dir EXCEPT ![e] = d]
                \/ \E n \in 1..2 :
                     dir' = [dir EXCEPT ![e] = [mtime |-> now, size |-> 0, parts |-> n]]
                \/ Write(e) \/ Cut(e) \/ RemoveInner(e)
             /\ UNCHANGED lastPut
      BY <2>4 DEF PutExecutable
    <3> QED
      BY <1>2, <3>1, <3>2, <3>3, <3>4, <3>5, <3>6
  <2> QED
    BY <2>1, <2>2, <2>3, <2>4
<1>4. trimTxt' \in Nat \cup {None}
  BY <1>1 DEF DirTypeOK
<1> QED
  BY <1>1, <1>3, <1>4, EntryStep

LEMMA RemoveStep ==
  ASSUME DirTypeOK, LagInv, NEW e \in Entries, RemoveAll(e) \/ RemoveAllFails(e)
  PROVE  DirTypeOK' /\ LagInv' /\ Ages
<1>1. /\ UNCHANGED <<now, lastGet>> /\ now \in Nat
      /\ trimTxt' \in Nat \cup {None} /\ lastPut' \in [Entries -> Nat]
      /\ calls' \in Nat
  BY DEF RemoveAll, RemoveAllFails, DirTypeOK, history
<1>2. Affects(e)
  <2>1. CASE dir' = [dir EXCEPT ![e] = None]
    BY <2>1 DEF Affects
  <2>2. CASE UNCHANGED dir
    BY <2>2, NothingAffects
  <2>3. ASSUME NEW n \in 0..2, NEW d \in Directories(e, n),
               dir' = [dir EXCEPT ![e] = d]
        PROVE  Affects(e)
    BY <2>3, DirectoryAffects
  <2>4. RemoveAllFails(e) => Parts(e) \in 0..2
    BY DEF RemoveAllFails, Parts, DirTypeOK, File
  <2> QED
    BY <2>1, <2>2, <2>3, <2>4 DEF RemoveAll, RemoveAllFails
<1> QED
  BY <1>1, <1>2, EntryStep

LEMMA GoCommandStep ==
  ASSUME DirTypeOK, LagInv, GoCommand
  PROVE  DirTypeOK' /\ LagInv' /\ Ages
<1>1. calls' \in Nat
  BY DEF GoCommand, DirTypeOK
<1> QED
  BY <1>1, MarkUsedStep, PutStep DEF GoCommand

LEMMA TickStep ==
  ASSUME DirTypeOK, LagInv, Tick
  PROVE  DirTypeOK' /\ LagInv' /\ Ages
<1>1. now' = now + 1 /\ UNCHANGED <<dir, trimTxt, lastGet, lastPut, calls>>
  BY DEF Tick, history
<1>2. DirTypeOK'
  BY <1>1 DEF DirTypeOK
<1>3. Ages
  BY <1>1 DEF Ages, DirTypeOK
<1>4. LagInv'
  <2> SUFFICES ASSUME NEW e \in Entries
               PROVE  /\ lastGet[e] <= now'
                      /\ dir[e] # None =>
                           /\ dir[e].mtime <= now'
                           /\ lastGet[e] < dir[e].mtime + MtimeInterval
    BY <1>1 DEF LagInv
  <2>1. dir[e] # None => dir[e].mtime \in Nat
    BY DEF DirTypeOK, File
  <2> QED
    BY <1>1, <2>1 DEF LagInv, DirTypeOK
<1> QED
  BY <1>2, <1>3, <1>4

\* A step that leaves the directory as it is.
LEMMA OtherStep ==
  ASSUME DirTypeOK, LagInv, trimTxt' \in Nat \cup {None},
         UNCHANGED <<now, dir, history>>
  PROVE  DirTypeOK' /\ LagInv' /\ Ages
BY DEF DirTypeOK, LagInv, Ages, history

=============================================================================
