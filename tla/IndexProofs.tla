----------------------------- MODULE IndexProofs -----------------------------
(***************************************************************************)
(* Theorems about Index.  The inductive invariant follows an undisturbed   *)
(* put from the file it creates to the entry that others read, and a get   *)
(* from the entry to what it returns.  From it follows also that each file *)
(* of an output goes through what OutputFile says of copyFile.             *)
(***************************************************************************)
EXTENDS Index, TLAPS

\* The put's output is there, under its name and no other.
Stored(p) ==
  LET o == call[p].out  n == call[p].name IN
  files[o][n] = "whole" /\ \A k \in Names \ {n} : files[o][k] = None

\* Where a put has copied its output, and where it has the output open.
AfterCopy == {"close", "index", "write", "truncate", "ok"}
InOutput == {"copy", "spoilt", "close"}
USE DEF AfterCopy, InOutput

\* What a put has copied is stored, and what it is copying it has created,
\* under one name, and all it writes gets there; unless it is disturbed.
StoredInv ==
  \A p \in Putters :
    /\ pc[p] \in AfterCopy /\ p \notin disturbed => Stored(p)
    /\ pc[p] = "copy" /\ p \notin disturbed =>
         /\ fd[p] = "sound"
         /\ \A k \in Names \ {call[p].name} : files[call[p].out][k] = None
    /\ pc[p] \in InOutput /\ fd[p] # None => files[call[p].out][call[p].name] # None
    /\ pc[p] = "mkdir" => call[p].name # Plain

\* An entry, in a file or in the hands of a get, tells what its put has stored,
\* and has the right size, unless that put is disturbed.
EntryInv(e) ==
  /\ pc[e.by] # "idle"
  /\ e.out = call[e.by].out
  /\ e.by \notin disturbed => Stored(e.by) /\ e.sized

IndexInv ==
  \A a \in Actions : index[a] \notin {None, Junk} =>
    /\ EntryInv(index[a])
    /\ call[index[a].by].act = a
    /\ ~index[a].sized => pc[index[a].by] \in {"remove", "killed"}

\* A put that has written its entry is found in the index.
FoundInv ==
  \A p \in Putters : p \notin disturbed =>
    LET a == call[p].act IN
    /\ pc[p] \in {"write", "truncate"} => fd[p] = "sound"
    /\ pc[p] \in {"truncate", "ok"} =>
         index[a] \notin {None, Junk} /\ index[a].sized /\ index[a].out = call[p].out
    /\ pc[p] = "ok" => a \notin long

\* A get is on its way to what undisturbed puts have stored.
GetInv ==
  \A g \in Getters :
    /\ at[g] \in {"output", "stat", "hit"} => want[g] \in EntryRecords /\ EntryInv(want[g])
    /\ \A p \in sure[g] \ disturbed :
         /\ pc[p] = "ok" /\ at[g] # "miss"
         /\ at[g] \in {"output", "stat"} => want[g].out = call[p].out /\ want[g].sized
         /\ at[g] = "stat" => path[g] = call[p].name

\* A put has failed while it copied the output.
Failed(o) == \E q \in failed : call[q].out = o

\* Nothing else makes a file of the right size wrong, or leaves holes.
WrongInv ==
  /\ \A o \in Outputs, n \in Names \cup {Plain} : files[o][n] = "wrong" => Failed(o)
  /\ \A p \in Putters : fd[p] = "holed" => Failed(call[p].out)

\* Without trouble, an output's directory or file has a put that has created
\* it and has not failed, and nothing but such a directory or file makes one
\* fail.
CreatorInv ==
  ~trouble =>
    /\ \A o \in dirs : \E q \in PutsOf(o) :
         call[q].name # Plain /\ pc[q] \notin {"idle", "mkdir", "error"}
    /\ \A o \in Outputs : files[o][Plain] # None => \E q \in PutsOf(o) :
         call[q].name = Plain /\ pc[q] \notin {"idle", "mkdir", "open", "error"}
    /\ \A p \in Putters : pc[p] = "error" =>
         call[p].out \in dirs \/ files[call[p].out][Plain] # None
    /\ \A p \in Putters : pc[p] = "open" /\ call[p].name # Plain => call[p].out \in dirs
    /\ \A p \in Putters : pc[p] \notin {"remove", "spoilt", "drop"}

IInv ==
  /\ TypeOK /\ StoredInv /\ IndexInv /\ FoundInv /\ GetInv /\ WrongInv
  /\ CreatorInv /\ HitIsWhole

-----------------------------------------------------------------------------
\* What a step may do to puts, as entries and gets see it: the disturbed ones
\* stay so, as do those that have failed, they do not go back, and what is
\* stored of the others stays.
Steady ==
  /\ call' = call
  /\ disturbed \subseteq disturbed'
  /\ \A q \in Putters : pc[q] # "idle" => pc'[q] # "idle"
  /\ \A q \in Putters : pc[q] = "ok" => pc'[q] = "ok"
  /\ failed \subseteq failed'
  /\ \A q \in Putters : pc[q] # "idle" /\ q \notin disturbed' /\ Stored(q) => Stored(q)'

\* The records that are put.
LEMMA CallTypes ==
  ASSUME TypeOK
  PROVE  \A p \in Putters : /\ call[p].act \in Actions
                             /\ call[p].out \in Outputs
                             /\ call[p].name \in Names \cup {Plain}
<1>1. call \in [Putters -> [act : Actions, out : Outputs, name : Names \cup {Plain}]]
  BY IndexAssumption DEF TypeOK
<1> QED
  BY <1>1

LEMMA EntryTypes ==
  \A e \in EntryRecords : e.by \in Putters /\ e.out \in Outputs /\ e.sized \in BOOLEAN
BY DEF EntryRecords

\* What Goto does.
LEMMA Went ==
  ASSUME TypeOK, NEW p \in Putters, NEW l \in PCs, Goto(p, l)
  PROVE  /\ pc' \in [Putters -> PCs]
         /\ pc'[p] = l
         /\ \A q \in Putters : q # p => pc'[q] = pc[q]
BY DEF TypeOK, Goto

\* Gets do not mind a steady step of others.
LEMMA GetsStay ==
  ASSUME IInv, Steady, UNCHANGED getVars
  PROVE  GetInv' /\ HitIsWhole'
<1>1. UNCHANGED <<at, want, path, seen, sure>>
  BY DEF getVars
<1>2. ASSUME NEW g \in Getters, at[g] \in {"output", "stat", "hit"}
      PROVE  /\ want[g] \in EntryRecords
             /\ pc[want[g].by] # "idle" /\ pc'[want[g].by] # "idle"
             /\ want[g].out = call[want[g].by].out
             /\ want[g].by \notin disturbed' =>
                  Stored(want[g].by)' /\ want[g].sized
  <2>1. want[g] \in EntryRecords /\ EntryInv(want[g])
    BY <1>2 DEF IInv, GetInv
  <2>2. want[g].by \in Putters
    BY <2>1, EntryTypes
  <2> QED
    BY <1>1, <2>1, <2>2 DEF EntryInv, Steady, Stored
<1>3. ASSUME NEW g \in Getters, NEW p \in sure'[g] \ disturbed'
      PROVE  /\ p \in Putters /\ pc'[p] = "ok" /\ at[g] # "miss"
             /\ at[g] \in {"output", "stat"} => want[g].out = call[p].out /\ want[g].sized
             /\ at[g] = "stat" => path[g] = call[p].name
  BY <1>1 DEF IInv, GetInv, Steady, TypeOK
<1>4. GetInv'
  BY <1>1, <1>2, <1>3 DEF GetInv, EntryInv, Steady
<1>5. ASSUME NEW g \in Getters, at[g] = "hit"
      PROVE  \/ seen[g] = "whole"
             \/ /\ want[g].by \in disturbed'
                /\ ~want[g].sized \/ \E q \in failed' : call[q].out = want[g].out
  <2>1. CASE seen[g] = "whole"
    BY <2>1
  <2>2. CASE seen[g] # "whole"
    BY <1>5, <2>2 DEF IInv, HitIsWhole, Steady
  <2> QED
    BY <2>1, <2>2
<1> QED
  BY <1>1, <1>4, <1>5 DEF HitIsWhole, Steady

\* What is left of TypeOK when a put or a trim has moved.
LEMMA TypeStep ==
  ASSUME TypeOK, UNCHANGED <<call, getVars>>,
         index' \in [Actions -> EntryRecords \cup {None, Junk}],
         long' \in SUBSET Actions,
         dirs' \in SUBSET Outputs,
         files' \in [Outputs -> [Names \cup {Plain} -> Contents \cup {None}]],
         pc' \in [Putters -> PCs],
         fd' \in [Putters -> {None, "sound", "holed"}],
         failed' \in SUBSET Putters, disturbed' \in SUBSET Putters,
         trouble' \in BOOLEAN,
         \A o \in Outputs, n \in Names \cup {Plain} :
           files'[o][n] # None => (n = Plain <=> o \notin dirs')
  PROVE  TypeOK'
BY DEF TypeOK, getVars

\* One file of an output changes.
LEMMA FileSet ==
  ASSUME TypeOK, NEW o \in Outputs, NEW n \in Names \cup {Plain},
         NEW c \in Contents \cup {None}, files' = [files EXCEPT ![o][n] = c]
  PROVE  /\ files' \in [Outputs -> [Names \cup {Plain} -> Contents \cup {None}]]
         /\ files'[o][n] = c
         /\ \A d \in Outputs, k \in Names \cup {Plain} :
              d # o \/ k # n => files'[d][k] = files[d][k]
<1> DEFINE S == Names \cup {Plain}  T == Contents \cup {None}
<1>1. files \in [Outputs -> [S -> T]]
  BY DEF TypeOK
<1> HIDE DEF S, T
<1>2. n \in S /\ c \in T
  BY DEF S, T
<1> QED
  BY <1>1, <1>2 DEF S, T

\* Entries that were written before do not mind a steady step.
LEMMA EntriesStay ==
  ASSUME IInv, Steady, NEW a \in Actions, index[a] \notin {None, Junk}, index'[a] = index[a]
  PROVE  /\ index[a] \in EntryRecords
         /\ EntryInv(index[a])'
         /\ call'[index'[a].by].act = a
         /\ ~index'[a].sized => pc[index[a].by] \in {"remove", "killed"}
<1>1. /\ EntryInv(index[a]) /\ call[index[a].by].act = a
      /\ ~index[a].sized => pc[index[a].by] \in {"remove", "killed"}
  BY DEF IInv, IndexInv
<1>2. index[a] \in EntryRecords
  BY DEF IInv, TypeOK
<1>3. index[a].by \in Putters
  BY <1>2, EntryTypes
<1> QED
  BY <1>1, <1>2, <1>3 DEF EntryInv, Steady, Stored

LEMMA IndexStays ==
  ASSUME IInv, Steady, UNCHANGED index,
         \A q \in Putters : pc[q] \in {"remove", "killed"} => pc'[q] \in {"remove", "killed"}
  PROVE  IndexInv'
<1> SUFFICES ASSUME NEW a \in Actions, index[a] \notin {None, Junk}
             PROVE  /\ EntryInv(index[a])'
                    /\ call'[index'[a].by].act = a
                    /\ ~index'[a].sized => pc'[index'[a].by] \in {"remove", "killed"}
  BY DEF IndexInv
<1>1. index[a].by \in Putters
  BY EntryTypes DEF IInv, TypeOK
<1> QED
  BY <1>1, EntriesStay

LEMMA FailedStays ==
  ASSUME Steady, NEW o, Failed(o)
  PROVE  Failed(o)'
BY DEF Steady, Failed

\* A put goes on, fails or is killed, and the files stay as they are.
LEMMA Move ==
  ASSUME IInv, NEW p \in Putters, NEW l \in {"mkdir", "open", "close", "index", "error", "killed"},
         Goto(p, l),
         pc[p] \notin {"ok", "error", "killed"}, pc[p] = "remove" => l = "killed",
         UNCHANGED <<index, long, files, failed, call, getVars>>,
         fd' = fd \/ fd' = [fd EXCEPT ![p] = None],
         disturbed \subseteq disturbed', disturbed' \subseteq Putters,
         l = "close" => pc[p] = "copy",
         l \in {"close", "index"} /\ p \notin disturbed' => Stored(p),
         l = "mkdir" => call[p].name # Plain,
         dirs' \in SUBSET Outputs, trouble' \in BOOLEAN,
         \A o \in Outputs, n \in Names \cup {Plain} :
           files[o][n] # None => (n = Plain <=> o \notin dirs'),
         CreatorInv'
  PROVE  IInv'
<1>1. TypeOK
  BY DEF IInv
<1>2. /\ pc' \in [Putters -> PCs] /\ pc'[p] = l
      /\ \A q \in Putters : q # p => pc'[q] = pc[q]
  BY <1>1, Went DEF PCs
<1>3. /\ fd' \in [Putters -> {None, "sound", "holed"}]
      /\ fd'[p] \in {fd[p], None}
      /\ \A q \in Putters : q # p => fd'[q] = fd[q]
  BY <1>1 DEF TypeOK
<1>4. TypeOK'
  BY <1>1, <1>2, <1>3, TypeStep DEF TypeOK
<1>5. \A q \in Putters : Stored(q)' <=> Stored(q)
  BY DEF Stored
<1>6. Steady
  BY <1>2, <1>5 DEF Steady
<1>7. StoredInv'
  BY <1>2, <1>3, <1>5 DEF IInv, StoredInv
<1>8. IndexInv'
  <2> SUFFICES ASSUME NEW a \in Actions, index[a] \notin {None, Junk}
               PROVE  /\ EntryInv(index[a])'
                      /\ call'[index'[a].by].act = a
                      /\ ~index'[a].sized => pc'[index'[a].by] \in {"remove", "killed"}
    BY DEF IndexInv
  <2>1. /\ EntryInv(index[a]) /\ call[index[a].by].act = a
        /\ ~index[a].sized => pc[index[a].by] \in {"remove", "killed"}
    BY DEF IInv, IndexInv
  <2>2. index[a].by \in Putters
    BY <1>1, EntryTypes DEF TypeOK
  <2> QED
    BY <1>2, <1>5, <2>1, <2>2 DEF EntryInv, Stored
<1>9. FoundInv'
  BY <1>2, <1>3 DEF IInv, FoundInv
<1>10. WrongInv'
  <2>1. \A q \in Putters : fd'[q] = "holed" => fd[q] = "holed"
    BY <1>3, IndexAssumption
  <2> QED
    BY <2>1 DEF IInv, WrongInv, Failed
<1> QED
  BY <1>4, <1>6, <1>7, <1>8, <1>9, <1>10, GetsStay DEF IInv

\* The directory and the files of an output that one put moves beside.
LEMMA PutCase ==
  ASSUME IInv, NEW p \in Putters, Put(p)
  PROVE  IInv'
<1> DEFINE o == call[p].out
           n == call[p].name
<1>1. TypeOK /\ o \in Outputs /\ n \in Names \cup {Plain}
  BY CallTypes DEF IInv
<1>2. PICK l \in {"mkdir", "open", "index", "error"} :
        /\ Goto(p, l)
        /\ l = "index" => files[o][n] = "whole"
        /\ l = "open" => n = Plain \/ o \in dirs
        /\ l = "mkdir" => n # Plain
        /\ l = "error" => files[o][Plain] # None
  BY DEF Put
<1>3. /\ pc[p] = "idle" /\ disturbed' = disturbed \cup Crowd(p)
      /\ UNCHANGED <<index, long, dirs, files, fd, failed, call, getVars, trouble>>
  BY DEF Put, Disturb
<1>4. disturbed' \subseteq Putters
  BY <1>1, <1>3 DEF TypeOK, Crowd, PutsOf
<1>5. l = "index" /\ p \notin disturbed' => Stored(p)
  BY <1>2, <1>3 DEF Stored, Crowd
<1>6. /\ pc'[p] = l
      /\ \A q \in Putters : q # p => pc'[q] = pc[q]
  BY <1>1, <1>2, Went DEF PCs
<1>7. CreatorInv'
  <2> SUFFICES ASSUME ~trouble PROVE CreatorInv'
    BY <1>3 DEF CreatorInv
  <2>1. CreatorInv
    BY DEF IInv
  <2>2. ASSUME NEW d \in dirs
        PROVE  \E q \in PutsOf(d)' :
                 call[q].name # Plain /\ pc'[q] \notin {"idle", "mkdir", "error"}
    <3>1. PICK q \in PutsOf(d) :
            call[q].name # Plain /\ pc[q] \notin {"idle", "mkdir", "error"}
      BY <2>1, <2>2 DEF CreatorInv
    <3>2. q # p /\ q \in PutsOf(d)'
      BY <1>3, <1>6, <3>1 DEF PutsOf
    <3> QED
      BY <1>6, <3>1, <3>2 DEF PutsOf
  <2>3. ASSUME NEW d \in Outputs, files[d][Plain] # None
        PROVE  \E q \in PutsOf(d)' :
                 call[q].name = Plain /\ pc'[q] \notin {"idle", "mkdir", "open", "error"}
    <3>1. PICK q \in PutsOf(d) :
            call[q].name = Plain /\ pc[q] \notin {"idle", "mkdir", "open", "error"}
      BY <2>1, <2>3 DEF CreatorInv
    <3>2. q # p /\ q \in PutsOf(d)'
      BY <1>3, <1>6, <3>1 DEF PutsOf
    <3> QED
      BY <1>6, <3>1, <3>2 DEF PutsOf
  <2>4. \A q \in Putters :
          /\ pc'[q] = "error" => call[q].out \in dirs \/ files[call[q].out][Plain] # None
          /\ pc'[q] = "open" /\ call[q].name # Plain => call[q].out \in dirs
          /\ pc'[q] \notin {"remove", "spoilt", "drop"}
    BY <1>2, <1>6, <2>1 DEF CreatorInv
  <2> QED
    BY <1>3, <2>2, <2>3, <2>4 DEF CreatorInv
<1> QED
  BY <1>1, <1>2, <1>3, <1>4, <1>5, <1>7, Move DEF TypeOK

LEMMA MkdirCase ==
  ASSUME IInv, NEW p \in Putters, Mkdir(p)
  PROVE  IInv'
<1> DEFINE o == call[p].out
<1>1. TypeOK /\ o \in Outputs /\ call[p].name \in Names \cup {Plain}
  BY CallTypes DEF IInv
<1>2. PICK l \in {"open", "error"} : 
        /\ Goto(p, l)
        /\ l = "error" => dirs' = dirs /\ (o \in dirs \/ files[o][Plain] # None)
        /\ l = "open" => dirs' = dirs \cup {o} /\ o \notin dirs /\ files[o][Plain] = None
  BY DEF Mkdir
<1>3. /\ pc[p] = "mkdir"
      /\ UNCHANGED <<index, long, files, fd, failed, disturbed, call, getVars, trouble>>
  BY DEF Mkdir
<1>4. /\ pc'[p] = l
      /\ \A q \in Putters : q # p => pc'[q] = pc[q]
  BY <1>1, <1>2, Went DEF PCs
<1>5. /\ dirs' \in SUBSET Outputs
      /\ \A d \in Outputs, n \in Names \cup {Plain} :
           files[d][n] # None => (n = Plain <=> d \notin dirs')
  BY <1>1, <1>2 DEF TypeOK
<1>6. ASSUME ~trouble PROVE CreatorInv'
  <2>1. CreatorInv
    BY DEF IInv
  <2>2. ASSUME NEW d \in dirs'
        PROVE  \E q \in PutsOf(d)' :
                 call[q].name # Plain /\ pc'[q] \notin {"idle", "mkdir", "error"}
    <3>1. CASE d \in dirs
      <4>1. PICK q \in PutsOf(d) :
              call[q].name # Plain /\ pc[q] \notin {"idle", "mkdir", "error"}
        BY <1>6, <2>1, <3>1 DEF CreatorInv
      <4>2. q # p /\ pc'[q] = pc[q]
        BY <1>3, <1>4, <4>1 DEF PutsOf
      <4> QED
        BY <1>3, <4>1, <4>2 DEF PutsOf
    <3>2. CASE d \notin dirs
      <4>1. l = "open" /\ d = o
        BY <1>2, <2>2, <3>2
      <4>2. call[p].name # Plain
        BY <1>3 DEF IInv, StoredInv
      <4> QED
        BY <1>3, <1>4, <4>1, <4>2 DEF PutsOf
    <3> QED
      BY <3>1, <3>2
  <2>3. ASSUME NEW d \in Outputs, files[d][Plain] # None
        PROVE  \E q \in PutsOf(d)' :
                 call[q].name = Plain /\ pc'[q] \notin {"idle", "mkdir", "open", "error"}
    <3>1. PICK q \in PutsOf(d) :
            call[q].name = Plain /\ pc[q] \notin {"idle", "mkdir", "open", "error"}
      BY <1>6, <2>1, <2>3 DEF CreatorInv
    <3>2. q # p /\ pc'[q] = pc[q]
      BY <1>3, <1>4, <3>1 DEF PutsOf
    <3> QED
      BY <1>3, <3>1, <3>2 DEF PutsOf
  <2>4. \A q \in Putters :
          /\ pc'[q] = "error" => call[q].out \in dirs' \/ files[call[q].out][Plain] # None
          /\ pc'[q] = "open" /\ call[q].name # Plain => call[q].out \in dirs'
          /\ pc'[q] \notin {"remove", "spoilt", "drop"}
    BY <1>2, <1>4, <1>6, <2>1 DEF CreatorInv
  <2> QED
    BY <1>3, <2>2, <2>3, <2>4 DEF CreatorInv
<1>7. CreatorInv'
  BY <1>3, <1>6 DEF CreatorInv
<1> QED
  BY <1>1, <1>2, <1>3, <1>5, <1>7, Move DEF TypeOK

\* A put that fails before it has opened a file, or is killed.
LEMMA StopCase ==
  ASSUME IInv, NEW p \in Putters, Fails(p) \/ Crash(p)
  PROVE  IInv'
<1>1. PICK l \in {"error", "killed"} : Goto(p, l) /\ (pc[p] = "remove" => l = "killed")
  BY DEF Fails, Crash
<1>2. /\ pc[p] \notin {"ok", "error", "killed"}
      /\ trouble' = TRUE
      /\ UNCHANGED <<index, long, dirs, files, failed, disturbed, call, getVars>>
      /\ fd' = fd \/ fd' = [fd EXCEPT ![p] = None]
  BY DEF Fails, Crash
<1>3. CreatorInv'
  BY <1>2 DEF CreatorInv
<1>4. TypeOK
  BY DEF IInv
<1> QED
  BY <1>1, <1>2, <1>3, <1>4, Move DEF TypeOK

LEMMA OpenOutputCase ==
  ASSUME IInv, NEW p \in Putters, OpenOutput(p)
  PROVE  IInv'
<1> DEFINE o == call[p].out
           n == call[p].name
<1>1. TypeOK /\ o \in Outputs /\ n \in Names \cup {Plain}
  BY CallTypes DEF IInv
<1>2. CASE (n = Plain) = (o \in dirs)
  <2>1. /\ pc[p] = "open" /\ Goto(p, "error")
        /\ UNCHANGED <<index, long, dirs, files, fd, failed, disturbed, call, getVars, trouble>>
    BY <1>2 DEF OpenOutput
  <2>2. /\ pc'[p] = "error"
        /\ \A q \in Putters : q # p => pc'[q] = pc[q]
    BY <1>1, <2>1, Went DEF PCs
  <2>3. ASSUME ~trouble PROVE CreatorInv'
    <3>1. CreatorInv
      BY DEF IInv
    <3>2. o \in dirs
      BY <1>2, <2>1, <2>3, <3>1 DEF CreatorInv
    <3>3. n = Plain
      BY <1>2, <3>2
    <3>4. ASSUME NEW d \in dirs
          PROVE  \E q \in PutsOf(d)' :
                   call[q].name # Plain /\ pc'[q] \notin {"idle", "mkdir", "error"}
      <4>1. PICK q \in PutsOf(d) :
              call[q].name # Plain /\ pc[q] \notin {"idle", "mkdir", "error"}
        BY <2>3, <3>1, <3>4 DEF CreatorInv
      <4>2. q # p /\ pc'[q] = pc[q]
        BY <2>2, <3>3, <4>1 DEF PutsOf
      <4> QED
        BY <2>1, <4>1, <4>2 DEF PutsOf
    <3>5. ASSUME NEW d \in Outputs, files[d][Plain] # None
          PROVE  \E q \in PutsOf(d)' :
                   call[q].name = Plain /\ pc'[q] \notin {"idle", "mkdir", "open", "error"}
      <4>1. PICK q \in PutsOf(d) :
              call[q].name = Plain /\ pc[q] \notin {"idle", "mkdir", "open", "error"}
        BY <2>3, <3>1, <3>5 DEF CreatorInv
      <4>2. q # p /\ pc'[q] = pc[q]
        BY <2>1, <2>2, <4>1 DEF PutsOf
      <4> QED
        BY <2>1, <4>1, <4>2 DEF PutsOf
    <3> QED
      BY <2>1, <2>2, <2>3, <3>1, <3>2, <3>4, <3>5 DEF CreatorInv
  <2>4. CreatorInv'
    BY <2>1, <2>3 DEF CreatorInv
  <2> QED
    BY <1>1, <2>1, <2>4, Move DEF TypeOK
<1>3. CASE (n = Plain) # (o \in dirs)
  <2>1. /\ pc[p] = "open" /\ Goto(p, "copy")
        /\ files' = [files EXCEPT ![o][n] =
                       IF files[o][n] = None THEN "partial" ELSE files[o][n]]
        /\ fd' = [fd EXCEPT ![p] = "sound"]
        /\ disturbed' = disturbed \cup Crowd(p)
        /\ UNCHANGED <<index, long, dirs, failed, call, getVars, trouble>>
    BY <1>3 DEF OpenOutput, Disturb
  <2>2. /\ pc' \in [Putters -> PCs] /\ pc'[p] = "copy"
        /\ \A q \in Putters : q # p => pc'[q] = pc[q]
    BY <1>1, <2>1, Went DEF PCs
  <2>3. /\ files' \in [Outputs -> [Names \cup {Plain} -> Contents \cup {None}]]
        /\ files'[o][n] = IF files[o][n] = None THEN "partial" ELSE files[o][n]
        /\ \A d \in Outputs, k \in Names \cup {Plain} :
             d # o \/ k # n => files'[d][k] = files[d][k]
    <3> DEFINE c == IF files[o][n] = None THEN "partial" ELSE files[o][n]
    <3>1. c \in Contents \cup {None} /\ files' = [files EXCEPT ![o][n] = c]
      BY <1>1, <2>1 DEF TypeOK, Contents
    <3>2. files'[o][n] = c => files'[o][n] =
            IF files[o][n] = None THEN "partial" ELSE files[o][n]
      OBVIOUS
    <3> HIDE DEF c
    <3>3. /\ files' \in [Outputs -> [Names \cup {Plain} -> Contents \cup {None}]]
          /\ files'[o][n] = c
          /\ \A d \in Outputs, k \in Names \cup {Plain} :
               d # o \/ k # n => files'[d][k] = files[d][k]
      <4> HIDE DEF o, n
      <4> QED
        BY <1>1, <3>1, FileSet
    <3> QED
      BY <3>2, <3>3
  <2>4. files'[o][n] # None
    BY <2>3, IndexAssumption DEF Contents
  <2>5. /\ fd' \in [Putters -> {None, "sound", "holed"}] /\ fd'[p] = "sound"
        /\ \A q \in Putters : q # p => fd'[q] = fd[q]
    BY <1>1, <2>1 DEF TypeOK
  <2>6. disturbed' \in SUBSET Putters
    BY <1>1, <2>1 DEF TypeOK, Crowd, PutsOf
  <2>7. n = Plain <=> o \notin dirs
    BY <1>3
  <2>8. TypeOK'
    <3>1. \A d \in Outputs, k \in Names \cup {Plain} :
            files'[d][k] # None => (k = Plain <=> d \notin dirs')
      BY <1>1, <2>1, <2>3, <2>7 DEF TypeOK
    <3>2. /\ index' \in [Actions -> EntryRecords \cup {None, Junk}]
          /\ long' \in SUBSET Actions /\ dirs' \in SUBSET Outputs /\ trouble' \in BOOLEAN
          /\ failed' \in SUBSET Putters
      BY <1>1, <2>1 DEF TypeOK
    <3> QED
      BY <1>1, <2>1, <2>2, <2>3, <2>5, <2>6, <3>1, <3>2, TypeStep
  <2>9. ASSUME NEW q \in Putters, pc[q] # "idle", q \notin disturbed', call[q].out = o,
               \E m \in {call[q].name} : files[o][m] # None
        PROVE  call[q].name = n
    <3>1. call[q].name \in Names => call[q].name \notin Names \ {n}
      BY <1>1, <2>1, <2>9 DEF Crowd, PutsOf
    <3>2. call[q].name \in Names \cup {Plain}
      BY <1>1, CallTypes
    <3>3. call[q].name = Plain <=> n = Plain
      BY <1>1, <2>7, <2>9, <3>2 DEF TypeOK
    <3> QED
      BY <3>1, <3>2, <3>3
  <2>10. ASSUME NEW q \in Putters, pc[q] # "idle", q \notin disturbed', Stored(q)
         PROVE  Stored(q)'
    <3>1. call[q].out \in Outputs /\ call[q].name \in Names \cup {Plain}
      BY <1>1, CallTypes
    <3>2. CASE call[q].out # o
      BY <2>1, <2>3, <2>10, <3>1, <3>2 DEF Stored
    <3>3. CASE call[q].out = o
      <4>1. "whole" # None
        BY IndexAssumption DEF Contents
      <4>2. call[q].name = n
        BY <2>9, <2>10, <3>3, <4>1 DEF Stored
      <4> QED
        BY <2>1, <2>3, <2>10, <3>1, <3>3, <4>1, <4>2 DEF Stored
    <3> QED
      BY <3>2, <3>3
  <2>11. Steady
    BY <2>1, <2>2, <2>10 DEF Steady
  <2>12. IndexInv'
    BY <2>1, <2>2, <2>11, IndexStays
  <2>13. FoundInv'
    BY <2>1, <2>2, <2>5 DEF IInv, FoundInv
  <2>14. WrongInv'
    <3>1. \A d \in Outputs, k \in Names \cup {Plain} :
            files'[d][k] = "wrong" => files[d][k] = "wrong"
      BY <2>3
    <3>2. \A q \in Putters : fd'[q] = "holed" => fd[q] = "holed"
      BY <2>5
    <3> QED
      BY <1>1, <2>11, <3>1, <3>2, FailedStays, CallTypes DEF IInv, WrongInv, Steady
  <2>15. StoredInv'
    <3> SUFFICES ASSUME NEW q \in Putters
        PROVE  /\ pc'[q] \in AfterCopy /\ q \notin disturbed'
                    => Stored(q)'
               /\ pc'[q] = "copy" /\ q \notin disturbed' =>
                    /\ fd'[q] = "sound"
                    /\ \A k \in Names \ {call[q].name} : files'[call[q].out][k] = None
               /\ pc'[q] \in InOutput /\ fd'[q] # None => files'[call[q].out][call[q].name] # None
               /\ pc'[q] = "mkdir" => call[q].name # Plain
      BY <2>1 DEF StoredInv
    <3>1. call[q].out \in Outputs /\ call[q].name \in Names \cup {Plain}
      BY <1>1, CallTypes
    <3>2. CASE q = p
      <4>1. q \notin disturbed' => \A k \in Names \ {n} : files[o][k] = None
        BY <2>1, <3>2 DEF Crowd
      <4> QED
        BY <1>1, <2>2, <2>3, <2>4, <2>5, <3>2, <4>1
    <3>3. CASE q # p
      <4>1. /\ pc[q] \in AfterCopy /\ q \notin disturbed
                 => Stored(q)
            /\ pc[q] = "copy" /\ q \notin disturbed =>
                 /\ fd[q] = "sound"
                 /\ \A k \in Names \ {call[q].name} : files[call[q].out][k] = None
            /\ pc[q] \in InOutput /\ fd[q] # None => files[call[q].out][call[q].name] # None
            /\ pc[q] = "mkdir" => call[q].name # Plain
        BY DEF IInv, StoredInv
      <4>2. pc'[q] = pc[q] /\ fd'[q] = fd[q] /\ (q \in disturbed => q \in disturbed')
        BY <2>1, <2>2, <2>5, <3>3
      <4>3. pc[q] \in AfterCopy /\ q \notin disturbed' => Stored(q)'
        BY <2>10, <4>1, <4>2
      <4>4. ASSUME pc[q] = "copy", q \notin disturbed', NEW k \in Names \ {call[q].name}
            PROVE  files'[call[q].out][k] = None
        <5>1. fd[q] # None /\ files[call[q].out][k] = None
          BY <4>1, <4>2, <4>4, IndexAssumption
        <5>2. files[call[q].out][call[q].name] # None
          BY <4>1, <4>4, <5>1
        <5>3. call[q].out = o => call[q].name = n
          BY <2>9, <4>4, <5>2
        <5> QED
          BY <2>3, <3>1, <4>4, <5>1, <5>3
      <4>5. pc[q] \in InOutput /\ fd[q] # None => files'[call[q].out][call[q].name] # None
        BY <2>3, <2>4, <3>1, <4>1
      <4> QED
        BY <4>1, <4>2, <4>3, <4>4, <4>5
    <3> QED
      BY <3>2, <3>3
  <2>16. ASSUME ~trouble PROVE CreatorInv'
    <3>1. CreatorInv
      BY DEF IInv
    <3>2. ASSUME NEW d \in dirs
          PROVE  \E q \in PutsOf(d)' :
                   call[q].name # Plain /\ pc'[q] \notin {"idle", "mkdir", "error"}
      <4>1. PICK q \in PutsOf(d) :
              call[q].name # Plain /\ pc[q] \notin {"idle", "mkdir", "error"}
        BY <2>16, <3>1, <3>2 DEF CreatorInv
      <4>2. pc'[q] \notin {"idle", "mkdir", "error"}
        BY <2>2, <4>1 DEF PutsOf
      <4> QED
        BY <2>1, <4>1, <4>2 DEF PutsOf
    <3>3. ASSUME NEW d \in Outputs, files'[d][Plain] # None
          PROVE  \E q \in PutsOf(d)' :
                   call[q].name = Plain /\ pc'[q] \notin {"idle", "mkdir", "open", "error"}
      <4>1. CASE d = o /\ n = Plain
        BY <2>1, <2>2, <4>1 DEF PutsOf
      <4>2. CASE d # o \/ n # Plain
        <5>1. files[d][Plain] # None
          BY <2>3, <3>3, <4>2
        <5>2. PICK q \in PutsOf(d) :
                call[q].name = Plain /\ pc[q] \notin {"idle", "mkdir", "open", "error"}
          BY <2>16, <3>1, <5>1 DEF CreatorInv
        <5>3. pc'[q] \notin {"idle", "mkdir", "open", "error"}
          BY <2>2, <5>2 DEF PutsOf
        <5> QED
          BY <2>1, <5>2, <5>3 DEF PutsOf
      <4> QED
        BY <4>1, <4>2
    <3>4. ASSUME NEW q \in Putters
          PROVE  /\ pc'[q] = "error" =>
                      call[q].out \in dirs \/ files'[call[q].out][Plain] # None
                 /\ pc'[q] = "open" /\ call[q].name # Plain => call[q].out \in dirs
                 /\ pc'[q] \notin {"remove", "spoilt", "drop"}
      <4>1. call[q].out \in Outputs
        BY <1>1, CallTypes
      <4>2. files[call[q].out][Plain] # None => files'[call[q].out][Plain] # None
        BY <2>3, <2>4, <4>1
      <4> QED
        BY <2>2, <2>16, <3>1, <4>2 DEF CreatorInv
    <3> QED
      BY <2>1, <3>2, <3>3, <3>4 DEF CreatorInv
  <2>17. CreatorInv'
    BY <2>1, <2>16 DEF CreatorInv
  <2>18. GetInv' /\ HitIsWhole'
    BY <2>1, <2>11, GetsStay
  <2> QED
    BY <2>8, <2>12, <2>13, <2>14, <2>15, <2>17, <2>18 DEF IInv
<1> QED
  BY <1>2, <1>3

\* A put that finds its file, or has created it, goes on.
LEMMA Onward ==
  ASSUME IInv, NEW p \in Putters,
         pc[p] \in {"open", "copy"} \cup AfterCopy, pc'[p] \in AfterCopy,
         \A q \in Putters : q # p => pc'[q] = pc[q],
         UNCHANGED <<call, dirs, trouble>>,
         \A d \in Outputs : files'[d][Plain] # None <=> files[d][Plain] # None
  PROVE  CreatorInv'
<1> SUFFICES ASSUME ~trouble PROVE CreatorInv'
  BY DEF CreatorInv
<1>1. CreatorInv
  BY DEF IInv
<1>2. ASSUME NEW d \in dirs
      PROVE  \E q \in PutsOf(d)' :
               call[q].name # Plain /\ pc'[q] \notin {"idle", "mkdir", "error"}
  <2>1. PICK q \in PutsOf(d) :
          call[q].name # Plain /\ pc[q] \notin {"idle", "mkdir", "error"}
    BY <1>1, <1>2 DEF CreatorInv
  <2>2. pc'[q] \notin {"idle", "mkdir", "error"}
    BY <2>1 DEF PutsOf
  <2> QED
    BY <2>1, <2>2 DEF PutsOf
<1>3. ASSUME NEW d \in Outputs, files'[d][Plain] # None
      PROVE  \E q \in PutsOf(d)' :
               call[q].name = Plain /\ pc'[q] \notin {"idle", "mkdir", "open", "error"}
  <2>1. PICK q \in PutsOf(d) :
          call[q].name = Plain /\ pc[q] \notin {"idle", "mkdir", "open", "error"}
    BY <1>1, <1>3 DEF CreatorInv
  <2>2. pc'[q] \notin {"idle", "mkdir", "open", "error"}
    BY <2>1 DEF PutsOf
  <2> QED
    BY <2>1, <2>2 DEF PutsOf
<1>4. ASSUME NEW q \in Putters
      PROVE  /\ pc'[q] = "error" =>
                  call[q].out \in dirs \/ files'[call[q].out][Plain] # None
             /\ pc'[q] = "open" /\ call[q].name # Plain => call[q].out \in dirs
             /\ pc'[q] \notin {"remove", "spoilt", "drop"}
  <2>1. call[q].out \in Outputs
    BY CallTypes DEF IInv
  <2> QED
    BY <1>1, <2>1 DEF CreatorInv
<1> QED
  BY <1>2, <1>3, <1>4 DEF CreatorInv

\* A put goes on with its entry, and leaves the output as it is.
LEMMA TextBusyCase ==
  ASSUME IInv, NEW p \in Putters, TextBusy(p)
  PROVE  IInv'
<1> DEFINE o == call[p].out
           n == call[p].name
<1>1. TypeOK /\ o \in Outputs /\ n \in Names \cup {Plain}
  BY CallTypes DEF IInv
<1>2. /\ pc[p] = "open" /\ n # Plain
      /\ disturbed' = disturbed \cup
           (Crowd(p) \cup IF files[o][n] = "whole" THEN {} ELSE {p})
      /\ Goto(p, "index")
      /\ UNCHANGED <<index, long, dirs, files, fd, failed, call, getVars, trouble>>
  BY DEF TextBusy, Disturb
<1>3. /\ pc'[p] = "index"
      /\ \A q \in Putters : q # p => pc'[q] = pc[q]
  BY <1>1, <1>2, Went DEF PCs
<1>4. disturbed' \subseteq Putters
  BY <1>1, <1>2 DEF TypeOK, Crowd, PutsOf
<1>5. p \notin disturbed' => Stored(p)
  BY <1>2 DEF Stored, Crowd
<1>6. CreatorInv'
  BY <1>2, <1>3, Onward
<1> QED
  BY <1>1, <1>2, <1>4, <1>5, <1>6, Move DEF TypeOK

\* The last byte is written, or a hole filled.
LEMMA OutputWritten ==
  ASSUME IInv, NEW p \in Putters, pc[p] \in {"copy", "spoilt"}, fd[p] # None,
         NEW c \in {"whole", "wrong"},
         files' = [files EXCEPT ![call[p].out][call[p].name] = c],
         files[call[p].out][call[p].name] = "whole" => c = "whole",
         c = "wrong" => fd[p] = "holed",
         UNCHANGED <<index, long, dirs, failed, disturbed, call, getVars, trouble>>,
         NEW l \in {"copy", "spoilt", "close"}, Goto(p, l),
         l = pc[p] \/ (pc[p] = "copy" /\ l = "close"),
         fd' = fd \/ fd' = [fd EXCEPT ![p] = "sound"]
  PROVE  IInv'
<1> DEFINE o == call[p].out
           n == call[p].name
<1>1. TypeOK /\ o \in Outputs /\ n \in Names \cup {Plain}
  BY CallTypes DEF IInv
<1>2. /\ pc' \in [Putters -> PCs] /\ pc'[p] = l
      /\ \A q \in Putters : q # p => pc'[q] = pc[q]
  BY <1>1, Went DEF PCs
<1>3. /\ pc[p] = "copy" /\ p \notin disturbed =>
           fd[p] = "sound" /\ \A k \in Names \ {n} : files[o][k] = None
      /\ files[o][n] # None
  BY DEF IInv, StoredInv
<1>4. /\ files' \in [Outputs -> [Names \cup {Plain} -> Contents \cup {None}]]
      /\ files'[o][n] = c
      /\ \A d \in Outputs, k \in Names \cup {Plain} :
           d # o \/ k # n => files'[d][k] = files[d][k]
  <2>1. c \in Contents \cup {None}
    BY DEF Contents
  <2>2. files' = [files EXCEPT ![o][n] = c]
    OBVIOUS
  <2> HIDE DEF o, n
  <2> QED
    BY <1>1, <2>1, <2>2, FileSet
<1>5. c # None /\ "whole" # None
  BY IndexAssumption DEF Contents
<1>6. \A d \in Outputs, k \in Names \cup {Plain} : files'[d][k] # None <=> files[d][k] # None
  BY <1>3, <1>4, <1>5
<1>7. /\ fd' \in [Putters -> {None, "sound", "holed"}] /\ fd'[p] \in {fd[p], "sound"}
      /\ \A q \in Putters : q # p => fd'[q] = fd[q]
  BY <1>1 DEF TypeOK
<1>8. TypeOK'
  <2>1. \A d \in Outputs, k \in Names \cup {Plain} :
          files'[d][k] # None => (k = Plain <=> d \notin dirs')
    BY <1>1, <1>6 DEF TypeOK
  <2>2. /\ index' \in [Actions -> EntryRecords \cup {None, Junk}]
        /\ long' \in SUBSET Actions /\ dirs' \in SUBSET Outputs /\ trouble' \in BOOLEAN
        /\ failed' \in SUBSET Putters /\ disturbed' \in SUBSET Putters
    BY <1>1 DEF TypeOK
  <2> QED
    BY <1>1, <1>2, <1>4, <1>7, <2>1, <2>2, TypeStep
<1>9. ASSUME NEW q \in Putters, Stored(q)
      PROVE  Stored(q)'
  <2>1. call[q].out \in Outputs /\ call[q].name \in Names \cup {Plain}
    BY <1>1, CallTypes
  <2>2. /\ files[call[q].out][call[q].name] = "whole"
        /\ \A k \in Names \ {call[q].name} : files[call[q].out][k] = None
    BY <1>9 DEF Stored
  <2>3. files'[call[q].out][call[q].name] = "whole"
    BY <1>4, <2>1, <2>2
  <2>4. \A k \in Names \ {call[q].name} : files'[call[q].out][k] = None
    BY <1>6, <2>1, <2>2
  <2> QED
    BY <2>3, <2>4 DEF Stored
<1>10. Steady
  BY <1>2, <1>9 DEF Steady
<1>11. pc[p] = "copy" /\ p \notin disturbed => Stored(p)'
  <2>1. pc[p] = "copy" /\ p \notin disturbed =>
          c = "whole" /\ \A k \in Names \ {n} : files[o][k] = None
    BY <1>3
  <2> QED
    BY <1>1, <1>4, <2>1 DEF Stored
<1>12. StoredInv'
  <2> SUFFICES ASSUME NEW q \in Putters
      PROVE  /\ pc'[q] \in AfterCopy /\ q \notin disturbed => Stored(q)'
             /\ pc'[q] = "copy" /\ q \notin disturbed =>
                  /\ fd'[q] = "sound"
                  /\ \A k \in Names \ {call[q].name} : files'[call[q].out][k] = None
             /\ pc'[q] \in InOutput /\ fd'[q] # None =>
                  files'[call[q].out][call[q].name] # None
             /\ pc'[q] = "mkdir" => call[q].name # Plain
    BY DEF StoredInv
  <2>1. call[q].out \in Outputs /\ call[q].name \in Names \cup {Plain}
    BY <1>1, CallTypes
  <2>2. CASE q = p
    <3>1. files'[call[q].out][call[q].name] # None
      BY <1>4, <1>5, <2>2
    <3>2. pc'[q] \in AfterCopy => pc[p] = "copy"
      BY <1>2, <2>2
    <3> QED
      BY <1>2, <1>3, <1>6, <1>7, <1>11, <2>1, <2>2, <3>1, <3>2
  <2>3. CASE q # p
    <3>1. pc'[q] = pc[q] /\ fd'[q] = fd[q]
      BY <1>2, <1>7, <2>3
    <3> QED
      BY <1>6, <1>9, <2>1, <3>1 DEF IInv, StoredInv
  <2> QED
    BY <2>2, <2>3
<1>13. IndexInv'
  BY <1>2, <1>10, IndexStays
<1>14. FoundInv'
  BY <1>2, <1>7 DEF IInv, FoundInv
<1>15. WrongInv'
  <2>1. ASSUME NEW d \in Outputs, NEW k \in Names \cup {Plain}, files'[d][k] = "wrong"
        PROVE  Failed(d)
    <3>1. CASE files[d][k] = "wrong"
      BY <3>1 DEF IInv, WrongInv
    <3>2. CASE files[d][k] # "wrong"
      <4>1. d = o /\ c = "wrong"
        BY <1>4, <2>1, <3>2
      <4> QED
        BY <4>1 DEF IInv, WrongInv
    <3> QED
      BY <3>1, <3>2
  <2>2. \A q \in Putters : fd'[q] = "holed" => fd[q] = "holed"
    BY <1>7
  <2> QED
    BY <2>1, <2>2 DEF IInv, WrongInv, Failed
<1>16. CreatorInv'
  <2> SUFFICES ASSUME ~trouble PROVE CreatorInv'
    BY DEF CreatorInv
  <2>1. CreatorInv
    BY DEF IInv
  <2>2. Plain \in Names \cup {Plain}
    OBVIOUS
  <2>3. \A d \in Outputs : files'[d][Plain] # None <=> files[d][Plain] # None
    BY <1>6, <2>2
  <2>4. pc[p] = "copy"
    BY <2>1 DEF CreatorInv
  <2>5. CASE l = "close"
    BY <1>2, <2>3, <2>4, <2>5, Onward
  <2>6. CASE l # "close"
    <3>1. \A q \in Putters : pc'[q] = pc[q]
      BY <1>2, <2>6
    <3> QED
      BY <2>1, <2>3, <3>1, CallTypes, <1>1 DEF CreatorInv, PutsOf
  <2> QED
    BY <2>5, <2>6
<1>17. GetInv' /\ HitIsWhole'
  BY <1>10, GetsStay
<1> QED
  BY <1>8, <1>12, <1>13, <1>14, <1>15, <1>16, <1>17 DEF IInv

LEMMA MendCase ==
  ASSUME IInv, NEW p \in Putters, Mend(p)
  PROVE  IInv'
<1>1. /\ pc[p] \in {"copy", "spoilt"} /\ fd[p] # None
      /\ files[call[p].out][call[p].name] = "wrong"
      /\ files' = [files EXCEPT ![call[p].out][call[p].name] = "whole"]
      /\ UNCHANGED <<index, long, dirs, pc, fd, failed, disturbed, call, getVars, trouble>>
  BY DEF Mend
<1>2. Goto(p, pc[p])
  BY <1>1 DEF IInv, TypeOK, Goto
<1> QED
  BY <1>1, <1>2, OutputWritten

LEMMA CommitCase ==
  ASSUME IInv, NEW p \in Putters, Commit(p)
  PROVE  IInv'
<1>1. TypeOK
  BY DEF IInv
<1>2. /\ pc[p] = "copy" /\ Goto(p, "close")
      /\ fd' = [fd EXCEPT ![p] = IF fd[p] = None THEN None ELSE "sound"]
      /\ UNCHANGED <<index, long, dirs, failed, disturbed, call, getVars, trouble>>
  BY DEF Commit
<1>3. CASE fd[p] = None
  <2>1. UNCHANGED files
    BY <1>3 DEF Commit
  <2>2. p \in disturbed
    BY <1>2, <1>3, IndexAssumption DEF IInv, StoredInv
  <2>3. /\ pc'[p] = "close"
        /\ \A q \in Putters : q # p => pc'[q] = pc[q]
    BY <1>1, <1>2, Went DEF PCs
  <2>4. CreatorInv'
    BY <1>2, <2>1, <2>3, Onward
  <2>5. fd' = [fd EXCEPT ![p] = None]
    BY <1>2, <1>3
  <2> QED
    BY <1>1, <1>2, <2>1, <2>2, <2>4, <2>5, Move DEF TypeOK
<1>4. CASE fd[p] # None
  <2>1. PICK c \in {"whole", "wrong"} :
          /\ files' = [files EXCEPT ![call[p].out][call[p].name] = c]
          /\ c = "wrong" => fd[p] # "sound" /\ files[call[p].out][call[p].name] # "whole"
    BY <1>4 DEF Commit
  <2>2. c = "wrong" => fd[p] = "holed"
    BY <1>1, <1>4, <2>1 DEF TypeOK
  <2>3. fd' = [fd EXCEPT ![p] = "sound"]
    BY <1>2, <1>4
  <2> QED
    BY <1>2, <1>4, <2>1, <2>2, <2>3, OutputWritten
<1> QED
  BY <1>3, <1>4

LEMMA CloseOutputCase ==
  ASSUME IInv, NEW p \in Putters, CloseOutput(p)
  PROVE  IInv'
<1>1. TypeOK
  BY DEF IInv
<1>2. /\ pc[p] = "close" /\ Goto(p, "index") /\ fd' = [fd EXCEPT ![p] = None]
      /\ UNCHANGED <<index, long, dirs, files, failed, disturbed, call, getVars, trouble>>
  BY DEF CloseOutput
<1>3. /\ pc'[p] = "index"
      /\ \A q \in Putters : q # p => pc'[q] = pc[q]
  BY <1>1, <1>2, Went DEF PCs
<1>4. p \notin disturbed => Stored(p)
  BY <1>2 DEF IInv, StoredInv
<1>5. CreatorInv'
  BY <1>2, <1>3, Onward
<1> QED
  BY <1>1, <1>2, <1>4, <1>5, Move DEF TypeOK

\* Something happens to an output, which disturbs its puts, and perhaps one of
\* them fails.
LEMMA OutputHurt ==
  ASSUME IInv, NEW o \in Outputs,
         UNCHANGED <<index, long, call, getVars>>,
         disturbed' = disturbed \cup PutsOf(o), trouble' = TRUE,
         dirs' \in SUBSET Outputs,
         files' \in [Outputs -> [Names \cup {Plain} -> Contents \cup {None}]],
         \A d \in Outputs : d # o => files'[d] = files[d],
         \A d \in Outputs, n \in Names \cup {Plain} :
           files'[d][n] # None => (n = Plain <=> d \notin dirs'),
         pc' \in [Putters -> PCs],
         failed' \in SUBSET Putters, failed \subseteq failed',
         \A q \in Putters :
           \/ pc'[q] = pc[q]
           \/ pc[q] \in InOutput \cup {"drop"} /\ pc'[q] \in {"spoilt", "drop", "error"},
         fd' \in [Putters -> {None, "sound", "holed"}],
         \A q \in Putters : fd'[q] = fd[q] \/ (pc[q] \in InOutput /\ call[q].out = o),
         \A q \in Putters : pc'[q] \in InOutput /\ fd'[q] # None =>
           files'[call[q].out][call[q].name] # None,
         WrongInv'
  PROVE  IInv'
<1>1. TypeOK
  BY DEF IInv
<1>2. TypeOK'
  <2>1. /\ index' \in [Actions -> EntryRecords \cup {None, Junk}]
        /\ long' \in SUBSET Actions /\ trouble' \in BOOLEAN
        /\ disturbed' \in SUBSET Putters
    BY <1>1 DEF TypeOK, PutsOf
  <2> QED
    BY <1>1, <2>1, TypeStep
<1>3. ASSUME NEW q \in Putters, pc[q] # "idle", q \notin disturbed'
      PROVE  /\ q \notin disturbed /\ call[q].out # o /\ call[q].out \in Outputs
             /\ files'[call[q].out] = files[call[q].out] /\ fd'[q] = fd[q]
  BY <1>1, <1>3, CallTypes DEF PutsOf
<1>4. Steady
  BY <1>3 DEF Steady, Stored
<1>5. StoredInv'
  <2> SUFFICES ASSUME NEW q \in Putters
      PROVE  /\ pc'[q] \in AfterCopy /\ q \notin disturbed'
                  => Stored(q)'
             /\ pc'[q] = "copy" /\ q \notin disturbed' =>
                  /\ fd'[q] = "sound"
                  /\ \A k \in Names \ {call[q].name} : files'[call[q].out][k] = None
             /\ pc'[q] \in InOutput /\ fd'[q] # None => files'[call[q].out][call[q].name] # None
             /\ pc'[q] = "mkdir" => call[q].name # Plain
    BY DEF StoredInv
  <2>1. /\ pc[q] \in AfterCopy /\ q \notin disturbed => Stored(q)
        /\ pc[q] = "copy" /\ q \notin disturbed =>
             /\ fd[q] = "sound"
             /\ \A k \in Names \ {call[q].name} : files[call[q].out][k] = None
        /\ pc[q] = "mkdir" => call[q].name # Plain
    BY DEF IInv, StoredInv
  <2> QED
    BY <1>3, <2>1 DEF Stored
<1>6. IndexInv'
  BY <1>4, IndexStays
<1>7. FoundInv'
  BY <1>3 DEF IInv, FoundInv
<1>8. CreatorInv'
  BY DEF CreatorInv
<1>9. GetInv' /\ HitIsWhole'
  BY <1>4, GetsStay
<1> QED
  BY <1>2, <1>5, <1>6, <1>7, <1>8, <1>9 DEF IInv

LEMMA TrimDirCase ==
  ASSUME IInv, NEW o \in Outputs, TrimDir(o)
  PROVE  IInv'
<1>1. /\ o \in dirs /\ (\A n \in Names : files[o][n] = None)
      /\ dirs' = dirs \ {o} /\ disturbed' = disturbed \cup PutsOf(o) /\ trouble' = TRUE
      /\ UNCHANGED <<index, long, files, pc, fd, failed, call, getVars>>
  BY DEF TrimDir, Disturb
<1>2. TypeOK
  BY DEF IInv
<1>3. \A d \in Outputs, n \in Names \cup {Plain} :
        files'[d][n] # None => (n = Plain <=> d \notin dirs')
  BY <1>1, <1>2 DEF TypeOK
<1>4. WrongInv'
  BY <1>1 DEF IInv, WrongInv, Failed, PutsOf
<1>5. \A q \in Putters : pc'[q] \in InOutput /\ fd'[q] # None =>
        files'[call[q].out][call[q].name] # None
  BY <1>1 DEF IInv, StoredInv
<1> QED
  BY <1>1, <1>2, <1>3, <1>4, <1>5, OutputHurt DEF TypeOK

LEMMA RemoveFileCase ==
  ASSUME IInv, NEW o \in Outputs, NEW n \in Names \cup {Plain}, RemoveFile(o, n),
         trouble' = TRUE, pc' \in [Putters -> PCs],
         \A q \in Putters : pc'[q] = pc[q] \/ (pc[q] = "drop" /\ pc'[q] = "error")
  PROVE  IInv'
<1>1. /\ files' = [files EXCEPT ![o][n] = None]
      /\ fd' = [q \in Putters |-> IF q \in Copying(o, n) THEN None ELSE fd[q]]
      /\ disturbed' = disturbed \cup PutsOf(o)
      /\ UNCHANGED <<index, long, dirs, failed, call, getVars>>
  BY DEF RemoveFile, Disturb
<1>2. TypeOK
  BY DEF IInv
<1>3. /\ files' \in [Outputs -> [Names \cup {Plain} -> Contents \cup {None}]]
      /\ files'[o][n] = None
      /\ \A d \in Outputs, k \in Names \cup {Plain} :
           d # o \/ k # n => files'[d][k] = files[d][k]
  BY <1>1, <1>2, FileSet
<1>4. \A d \in Outputs, k \in Names \cup {Plain} :
        files'[d][k] # None => files'[d][k] = files[d][k]
  BY <1>3
<1>5. \A d \in Outputs : d # o => files'[d] = files[d]
  BY <1>1
<1>6. /\ fd' \in [Putters -> {None, "sound", "holed"}]
      /\ \A q \in Putters : fd'[q] = fd[q] \/ (q \in Copying(o, n) /\ fd'[q] = None)
  BY <1>1, <1>2 DEF TypeOK
<1>7. WrongInv'
  <2>1. \A q \in Putters : fd'[q] = "holed" => fd[q] = "holed"
    BY <1>6, IndexAssumption
  <2>2. \A d \in Outputs, k \in Names \cup {Plain} :
          files'[d][k] = "wrong" => files[d][k] = "wrong"
    BY <1>4, IndexAssumption DEF Contents
  <2> QED
    BY <1>1, <2>1, <2>2 DEF IInv, WrongInv, Failed
<1>8. \A q \in Putters : pc'[q] \in InOutput /\ fd'[q] # None =>
        files'[call[q].out][call[q].name] # None
  <2> SUFFICES ASSUME NEW q \in Putters, pc'[q] \in InOutput, fd'[q] # None
               PROVE  files'[call[q].out][call[q].name] # None
    OBVIOUS
  <2>1. pc[q] \in InOutput
    OBVIOUS
  <2>2. q \notin Copying(o, n) /\ fd[q] # None
    BY <1>1, <1>6
  <2>3. call[q].out # o \/ call[q].name # n
    BY <2>1, <2>2 DEF Copying
  <2>4. files[call[q].out][call[q].name] # None
    BY <2>1, <2>2 DEF IInv, StoredInv
  <2> QED
    BY <1>2, <1>3, <2>3, <2>4, CallTypes
<1>9. \A d \in Outputs, k \in Names \cup {Plain} :
        files'[d][k] # None => (k = Plain <=> d \notin dirs')
  BY <1>1, <1>2, <1>4 DEF TypeOK
<1>10. \A q \in Putters : fd'[q] = fd[q] \/ (pc[q] \in InOutput /\ call[q].out = o)
  BY <1>6 DEF Copying
<1>11. dirs' \in SUBSET Outputs /\ failed' \in SUBSET Putters /\ failed \subseteq failed'
  BY <1>1, <1>2 DEF TypeOK
<1>12. \A q \in Putters :
         \/ pc'[q] = pc[q]
         \/ pc[q] \in InOutput \cup {"drop"} /\ pc'[q] \in {"spoilt", "drop", "error"}
  OBVIOUS
<1> QED
  BY <1>1, <1>3, <1>5, <1>6, <1>7, <1>8, <1>9, <1>10, <1>11, <1>12, OutputHurt

LEMMA TrimFileCase ==
  ASSUME IInv, NEW o \in Outputs, NEW n \in Names \cup {Plain}, TrimFile(o, n)
  PROVE  IInv'
<1>1. RemoveFile(o, n) /\ trouble' = TRUE /\ UNCHANGED pc
  BY DEF TrimFile
<1>2. pc' \in [Putters -> PCs]
  BY <1>1 DEF IInv, TypeOK
<1> QED
  BY <1>1, <1>2, RemoveFileCase

LEMMA RemoveOutputCase ==
  ASSUME IInv, NEW p \in Putters, RemoveOutput(p)
  PROVE  IInv'
<1>1. /\ pc[p] = "drop" /\ RemoveFile(call[p].out, call[p].name)
      /\ Goto(p, "error") /\ UNCHANGED trouble
  BY DEF RemoveOutput
<1>2. TypeOK
  BY DEF IInv
<1>3. call[p].out \in Outputs /\ call[p].name \in Names \cup {Plain}
  BY <1>2, CallTypes
<1>4. /\ pc' \in [Putters -> PCs]
      /\ \A q \in Putters : pc'[q] = pc[q] \/ (pc[q] = "drop" /\ pc'[q] = "error")
  BY <1>1, <1>2, Went DEF PCs
<1>5. trouble' = TRUE
  BY <1>1, <1>2 DEF IInv, CreatorInv, TypeOK
<1> QED
  BY <1>1, <1>3, <1>4, <1>5, RemoveFileCase

\* A put fails while it copies, and the file may suffer.
LEMMA HarmCase ==
  ASSUME IInv, NEW p \in Putters, pc[p] \in InOutput, Blame(p),
         NEW l \in {"spoilt", "drop", "error"}, Goto(p, l),
         NEW c \in Contents, NEW v \in {None, "holed"},
         \/ UNCHANGED files /\ fd' = [fd EXCEPT ![p] = None]
         \/ fd[p] # None /\ Harm(p, c, v)
  PROVE  IInv'
<1> DEFINE o == call[p].out
           n == call[p].name
<1>1. TypeOK /\ o \in Outputs /\ n \in Names \cup {Plain}
  BY CallTypes DEF IInv
<1>2. /\ failed' = failed \cup {p} /\ disturbed' = disturbed \cup PutsOf(o)
      /\ trouble' = TRUE /\ UNCHANGED <<index, long, dirs, call, getVars>>
  BY DEF Blame, Disturb
<1>3. /\ pc' \in [Putters -> PCs] /\ pc'[p] = l
      /\ \A q \in Putters : q # p => pc'[q] = pc[q]
  BY <1>1, Went DEF PCs
<1>4. PICK b \in Contents \cup {None} :
        /\ b # None <=> files[o][n] # None
        /\ \/ files' = files /\ b = files[o][n]
           \/ files' = [files EXCEPT ![o][n] = b]
  <2>1. CASE UNCHANGED files
    <3>1. files[o][n] \in Contents \cup {None}
      BY <1>1 DEF TypeOK
    <3> QED
      BY <2>1, <3>1
  <2>2. CASE fd[p] # None /\ Harm(p, c, v)
    <3>1. files[o][n] # None /\ files' = [files EXCEPT ![o][n] = c]
      BY <2>2 DEF IInv, StoredInv, Harm
    <3>2. c # None
      BY IndexAssumption
    <3> QED
      BY <2>2, <3>1, <3>2
  <2> QED
    BY <2>1, <2>2
<1>5. /\ files' \in [Outputs -> [Names \cup {Plain} -> Contents \cup {None}]]
      /\ files'[o][n] = b
      /\ \A d \in Outputs, k \in Names \cup {Plain} :
           d # o \/ k # n => files'[d][k] = files[d][k]
  <2>1. CASE files' = files /\ b = files[o][n]
    BY <1>1, <2>1 DEF TypeOK
  <2>2. CASE files' = [files EXCEPT ![o][n] = b]
    <3> HIDE DEF o, n
    <3> QED
      BY <1>1, <1>4, <2>2, FileSet
  <2> QED
    BY <1>4, <2>1, <2>2
<1>6. \A d \in Outputs, k \in Names \cup {Plain} : files'[d][k] # None <=> files[d][k] # None
  BY <1>1, <1>4, <1>5
<1>7. \A d \in Outputs : d # o => files'[d] = files[d]
  <2>1. CASE files' = files
    BY <2>1
  <2>2. CASE files' = [files EXCEPT ![o][n] = b]
    BY <1>1, <2>2 DEF TypeOK
  <2> QED
    BY <1>4, <2>1, <2>2
<1>8. /\ fd' \in [Putters -> {None, "sound", "holed"}]
      /\ \A q \in Putters : fd'[q] = fd[q] \/ (pc[q] \in InOutput /\ call[q].out = o)
      /\ \A q \in Putters : fd'[q] # None => fd[q] # None
  <2>1. CASE fd' = [fd EXCEPT ![p] = None]
    BY <1>1, <2>1 DEF TypeOK
  <2>2. CASE fd[p] # None /\ Harm(p, c, v)
    <3>1. fd' = [q \in Putters |->
                   IF q = p THEN v
                   ELSE IF q \in Copying(o, n) /\ fd[q] # None THEN "holed" ELSE fd[q]]
      BY <2>2 DEF Harm
    <3>2. \A q \in Copying(o, n) : pc[q] \in InOutput /\ call[q].out = o
      BY DEF Copying
    <3> QED
      BY <1>1, <2>2, <3>1, <3>2 DEF TypeOK
  <2> QED
    BY <2>1, <2>2
<1>9. Failed(o)'
  BY <1>2 DEF Failed
<1>10. WrongInv'
  <2>1. ASSUME NEW d \in Outputs, d # o, Failed(d) PROVE Failed(d)'
    BY <1>2, <2>1 DEF Failed
  <2>2. ASSUME NEW d \in Outputs, NEW k \in Names \cup {Plain}, files'[d][k] = "wrong"
        PROVE  Failed(d)'
    <3>1. CASE d = o
      BY <1>2, <1>9, <3>1 DEF Failed
    <3>2. CASE d # o
      <4>1. files[d][k] = "wrong"
        BY <1>5, <2>2, <3>2
      <4> QED
        BY <2>1, <3>2, <4>1 DEF IInv, WrongInv
    <3> QED
      BY <3>1, <3>2
  <2>3. ASSUME NEW q \in Putters, fd'[q] = "holed" PROVE Failed(call[q].out)'
    <3>1. CASE call[q].out = o
      BY <1>2, <1>9, <3>1 DEF Failed
    <3>2. CASE call[q].out # o
      BY <1>1, <1>2, <1>8, <2>1, <2>3, <3>2, CallTypes DEF IInv, WrongInv, Failed
    <3> QED
      BY <3>1, <3>2
  <2> QED
    BY <2>2, <2>3 DEF WrongInv
<1>11. ASSUME NEW q \in Putters, pc'[q] \in InOutput, fd'[q] # None
       PROVE  files'[call[q].out][call[q].name] # None
  <2>1. pc[q] \in InOutput /\ fd[q] # None
    BY <1>3, <1>8, <1>11
  <2> QED
    BY <1>1, <1>6, <2>1, CallTypes DEF IInv, StoredInv
<1>12. \A d \in Outputs, k \in Names \cup {Plain} :
         files'[d][k] # None => (k = Plain <=> d \notin dirs')
  BY <1>1, <1>2, <1>6 DEF TypeOK
<1>13. dirs' \in SUBSET Outputs /\ failed' \in SUBSET Putters /\ failed \subseteq failed'
  BY <1>1, <1>2 DEF TypeOK
<1>14. \A q \in Putters :
         \/ pc'[q] = pc[q]
         \/ pc[q] \in InOutput \cup {"drop"} /\ pc'[q] \in {"spoilt", "drop", "error"}
  BY <1>3
<1> QED
  BY <1>1, <1>2, <1>3, <1>5, <1>7, <1>8, <1>10, <1>11, <1>12, <1>13, <1>14, OutputHurt

\* What is left of the contents when a part is replaced.
LEMMA WorseContents ==
  ASSUME IInv, NEW p \in Putters, pc[p] \in InOutput, fd[p] # None
  PROVE  Worse(files[call[p].out][call[p].name]) \in Contents
<1>1. files[call[p].out][call[p].name] # None
  BY DEF IInv, StoredInv
<1>2. TypeOK
  BY DEF IInv
<1>3. call[p].out \in Outputs /\ call[p].name \in Names \cup {Plain}
  BY <1>2, CallTypes
<1>4. files[call[p].out][call[p].name] \in Contents \cup {None}
  BY <1>2, <1>3 DEF TypeOK
<1> QED
  BY <1>1, <1>4 DEF Worse, Contents

LEMMA SpoilCase ==
  ASSUME IInv, NEW p \in Putters, Spoil(p)
  PROVE  IInv'
<1>1. pc[p] \in InOutput /\ Goto(p, "spoilt") /\ Blame(p)
  BY DEF Spoil
<1>2. CASE fd[p] = None
  <2>1. UNCHANGED <<files, fd>> /\ fd' = [fd EXCEPT ![p] = None]
    BY <1>2 DEF Spoil, IInv, TypeOK
  <2>2. "whole" \in Contents
    BY DEF Contents
  <2> QED
    BY <1>1, <2>1, <2>2, HarmCase
<1>3. CASE fd[p] # None
  <2>1. Harm(p, Worse(files[call[p].out][call[p].name]), "holed")
    BY <1>3 DEF Spoil
  <2> QED
    BY <1>1, <1>3, <2>1, HarmCase, WorseContents
<1> QED
  BY <1>2, <1>3

LEMMA CopyFailsCase ==
  ASSUME IInv, NEW p \in Putters, CopyFails(p)
  PROVE  IInv'
<1>1. pc[p] \in InOutput /\ Goto(p, "error") /\ Blame(p)
  BY DEF CopyFails
<1>2. \/ UNCHANGED files /\ fd' = [fd EXCEPT ![p] = None]
      \/ fd[p] # None /\ Harm(p, "partial", None)
  BY DEF CopyFails
<1>3. "partial" \in Contents
  BY DEF Contents
<1> QED
  BY <1>1, <1>2, <1>3, HarmCase

LEMMA CloseFailsCase ==
  ASSUME IInv, NEW p \in Putters, CloseFails(p)
  PROVE  IInv'
<1>1. pc[p] \in InOutput /\ Goto(p, "drop") /\ Blame(p)
  BY DEF CloseFails
<1>2. CASE UNCHANGED files /\ fd' = [fd EXCEPT ![p] = None]
  <2>1. "whole" \in Contents
    BY DEF Contents
  <2> QED
    BY <1>1, <1>2, <2>1, HarmCase
<1>3. CASE fd[p] # None /\ Harm(p, Worse(files[call[p].out][call[p].name]), None)
  BY <1>1, <1>3, HarmCase, WorseContents
<1> QED
  BY <1>2, <1>3 DEF CloseFails

-----------------------------------------------------------------------------
\* What TypeOK says of the outputs.
FilesTyped ==
  /\ files \in [Outputs -> [Names \cup {Plain} -> Contents \cup {None}]]
  /\ dirs \in SUBSET Outputs
  /\ \A o \in Outputs, n \in Names \cup {Plain} :
       files[o][n] # None => (n = Plain <=> o \notin dirs)

LEMMA FilesStay ==
  ASSUME FilesTyped, UNCHANGED <<dirs, files>>
  PROVE  FilesTyped'
BY DEF FilesTyped

\* A step beside the outputs: of the puts that have stored theirs, or a trim
\* of an entry.  Each entry after it was there before, or is one of a put that
\* was about to write.
LEMMA EntryStep ==
  ASSUME IInv, UNCHANGED <<dirs, files, call, getVars>>,
         index' \in [Actions -> EntryRecords \cup {None, Junk}],
         long' \in SUBSET Actions,
         pc' \in [Putters -> PCs],
         fd' \in [Putters -> {None, "sound", "holed"}],
         disturbed' \in SUBSET Putters, disturbed \subseteq disturbed',
         trouble' \in BOOLEAN, UNCHANGED failed,
         \A q \in Putters :
           \/ pc'[q] = pc[q]
           \/ pc[q] \in {"index", "write", "truncate"}
              /\ pc'[q] \in {"write", "truncate", "ok", "remove"}
           \/ pc[q] = "remove" /\ pc'[q] = "error",
         \A q \in Putters : pc[q] \in InOutput => fd'[q] = fd[q],
         \A q \in Putters : fd'[q] = "holed" => fd[q] = "holed",
         \A a \in Actions : index'[a] \notin {None, Junk} =>
           \/ /\ index'[a] = index[a]
              /\ index[a].sized \/ pc'[index[a].by] = pc[index[a].by]
           \/ \E q \in Putters, z \in BOOLEAN :
                /\ index'[a] = Entry(q, z) /\ call[q].act = a /\ pc[q] = "write"
                /\ z \/ (pc'[q] = "remove" /\ q \in disturbed'),
         FoundInv', CreatorInv'
  PROVE  IInv'
<1>1. TypeOK
  BY DEF IInv
<1>2. TypeOK'
  <2>1. FilesTyped
    BY <1>1 DEF TypeOK, FilesTyped
  <2>2. FilesTyped'
    BY <2>1, FilesStay
  <2>3. failed' \in SUBSET Putters
    BY <1>1 DEF TypeOK
  <2> QED
    BY <1>1, <2>2, <2>3, TypeStep DEF FilesTyped
<1>3. Steady
  <2>1. \A q \in Putters : Stored(q)' <=> Stored(q)
    BY DEF Stored
  <2>2. \A q \in Putters : /\ pc[q] # "idle" => pc'[q] # "idle"
                           /\ pc[q] \in {"ok", "error"} => pc'[q] = pc[q]
    OBVIOUS
  <2> QED
    BY <2>1, <2>2 DEF Steady
<1>4. StoredInv'
  <2> SUFFICES ASSUME NEW q \in Putters
      PROVE  /\ pc'[q] \in AfterCopy /\ q \notin disturbed'
                  => Stored(q)'
             /\ pc'[q] = "copy" /\ q \notin disturbed' =>
                  /\ fd'[q] = "sound"
                  /\ \A k \in Names \ {call[q].name} : files'[call[q].out][k] = None
             /\ pc'[q] \in InOutput /\ fd'[q] # None => files'[call[q].out][call[q].name] # None
             /\ pc'[q] = "mkdir" => call[q].name # Plain
    BY DEF StoredInv
  <2>1. /\ pc[q] \in AfterCopy /\ q \notin disturbed => Stored(q)
        /\ pc[q] = "copy" /\ q \notin disturbed =>
             /\ fd[q] = "sound"
             /\ \A k \in Names \ {call[q].name} : files[call[q].out][k] = None
        /\ pc[q] \in InOutput /\ fd[q] # None => files[call[q].out][call[q].name] # None
        /\ pc[q] = "mkdir" => call[q].name # Plain
    BY DEF IInv, StoredInv
  <2>2. Stored(q)' <=> Stored(q)
    BY DEF Stored
  <2>3. pc'[q] \in {"index", "write", "truncate", "ok"} =>
          pc[q] \in {"index", "write", "truncate", "ok"}
    OBVIOUS
  <2>4. pc'[q] \in {"copy", "mkdir"} => pc'[q] = pc[q]
    OBVIOUS
  <2> QED
    BY <2>1, <2>2, <2>3, <2>4
<1>5. IndexInv'
  <2> SUFFICES ASSUME NEW a \in Actions, index'[a] \notin {None, Junk}
               PROVE  /\ EntryInv(index[a])'
                      /\ call'[index'[a].by].act = a
                      /\ ~index'[a].sized => pc'[index'[a].by] \in {"remove", "killed"}
    BY DEF IndexInv
  <2>1. CASE /\ index'[a] = index[a]
             /\ index[a].sized \/ pc'[index[a].by] = pc[index[a].by]
    <3>1. /\ EntryInv(index[a])' /\ call'[index'[a].by].act = a
          /\ ~index'[a].sized => pc[index[a].by] \in {"remove", "killed"}
      BY <1>3, <2>1, EntriesStay
    <3> QED
      BY <2>1, <3>1
  <2>2. CASE \E q \in Putters, z \in BOOLEAN :
               /\ index'[a] = Entry(q, z) /\ call[q].act = a /\ pc[q] = "write"
               /\ z \/ (pc'[q] = "remove" /\ q \in disturbed')
    <3>1. PICK q \in Putters, z \in BOOLEAN :
            /\ index'[a] = Entry(q, z) /\ call[q].act = a /\ pc[q] = "write"
            /\ z \/ (pc'[q] = "remove" /\ q \in disturbed')
      BY <2>2
    <3>2. index'[a].by = q /\ index'[a].out = call[q].out /\ index'[a].sized = z
      BY <3>1 DEF Entry
    <3>3. pc'[q] # "idle" /\ (q \notin disturbed' => Stored(q)')
      BY <1>3, <3>1 DEF IInv, StoredInv, Steady
    <3> QED
      BY <3>1, <3>2, <3>3 DEF EntryInv, Stored
  <2> QED
    BY <2>1, <2>2
<1>6. WrongInv'
  <2>1. \A d \in Outputs, k \in Names \cup {Plain} : files[d][k] = "wrong" => Failed(d)'
    BY <1>3, FailedStays DEF IInv, WrongInv
  <2>2. \A q \in Putters : fd'[q] = "holed" => Failed(call[q].out)'
    BY <1>3, FailedStays DEF IInv, WrongInv
  <2> QED
    BY <2>1, <2>2 DEF WrongInv, Failed, PutsOf
<1>7. GetInv' /\ HitIsWhole'
  BY <1>3, GetsStay
<1> QED
  BY <1>2, <1>4, <1>5, <1>6, <1>7 DEF IInv

LEMMA OpenIndexCase ==
  ASSUME IInv, NEW p \in Putters, OpenIndex(p)
  PROVE  IInv'
<1> DEFINE a == call[p].act
<1>1. TypeOK /\ a \in Actions
  BY CallTypes DEF IInv
<1>2. /\ pc[p] = "index" /\ Goto(p, "write")
      /\ index' = [index EXCEPT ![a] = IF index[a] = None THEN Junk ELSE index[a]]
      /\ fd' = [fd EXCEPT ![p] = "sound"]
      /\ UNCHANGED <<long, dirs, files, failed, disturbed, call, getVars, trouble>>
  BY DEF OpenIndex
<1>3. /\ pc' \in [Putters -> PCs] /\ pc'[p] = "write"
      /\ \A q \in Putters : q # p => pc'[q] = pc[q]
  BY <1>1, <1>2, Went DEF PCs
<1>4. /\ fd' \in [Putters -> {None, "sound", "holed"}] /\ fd'[p] = "sound"
      /\ \A q \in Putters : q # p => fd'[q] = fd[q]
  BY <1>1, <1>2 DEF TypeOK
<1>5. /\ index' \in [Actions -> EntryRecords \cup {None, Junk}]
      /\ \A b \in Actions : index[b] # None => index'[b] = index[b]
      /\ \A b \in Actions : index'[b] \notin {None, Junk} => index'[b] = index[b]
  BY <1>1, <1>2 DEF TypeOK
<1>6. \A b \in Actions : index[b] \notin {None, Junk} /\ ~index[b].sized =>
        index[b].by # p
  BY <1>2 DEF IInv, IndexInv
<1>7. \A b \in Actions : index[b] \notin {None, Junk} => index[b].by \in Putters
  BY <1>1, EntryTypes DEF TypeOK
<1>8. FoundInv'
  <2>1. \A q \in Putters : call[q].act \in Actions
    BY <1>1, CallTypes
  <2> QED
    BY <1>2, <1>3, <1>4, <1>5, <2>1 DEF IInv, FoundInv
<1>9. CreatorInv'
  BY <1>2, <1>3, Onward
<1>10. \A b \in Actions : index'[b] \notin {None, Junk} =>
         index'[b] = index[b] /\ (index[b].sized \/ pc'[index[b].by] = pc[index[b].by])
  BY <1>3, <1>5, <1>6, <1>7
<1>11. /\ long' \in SUBSET Actions /\ disturbed' \in SUBSET Putters /\ trouble' \in BOOLEAN
       /\ disturbed \subseteq disturbed'
  BY <1>1, <1>2 DEF TypeOK
<1>12. \A q \in Putters : /\ pc[q] \in InOutput => fd'[q] = fd[q]
                          /\ fd'[q] = "holed" => fd[q] = "holed"
  BY <1>2, <1>4
<1>13. \A q \in Putters : \/ pc'[q] = pc[q]
                          \/ pc[q] = "index" /\ pc'[q] = "write"
  BY <1>2, <1>3
<1> QED
  BY <1>2, <1>3, <1>4, <1>5, <1>8, <1>9, <1>10, <1>11, <1>12, <1>13, EntryStep

LEMMA WriteIndexCase ==
  ASSUME IInv, NEW p \in Putters, WriteIndex(p)
  PROVE  IInv'
<1> DEFINE a == call[p].act
<1>1. TypeOK /\ a \in Actions /\ call[p].out \in Outputs
  BY CallTypes DEF IInv
<1>2. /\ pc[p] = "write" /\ Goto(p, "truncate")
      /\ UNCHANGED <<long, dirs, files, fd, failed, call, getVars, trouble>>
      /\ fd[p] = None => index' = index /\ disturbed' = disturbed
      /\ fd[p] # None =>
           /\ index' = [index EXCEPT ![a] = Entry(p, TRUE)]
           /\ disturbed' = disturbed \cup {q \in Indexing(a) :
                             pc[q] # "write" /\ call[q].out # call[p].out}
  BY DEF WriteIndex, Disturb
<1>3. /\ pc' \in [Putters -> PCs] /\ pc'[p] = "truncate"
      /\ \A q \in Putters : q # p => pc'[q] = pc[q]
  BY <1>1, <1>2, Went DEF PCs
<1>4. Entry(p, TRUE) \in EntryRecords
  BY <1>1 DEF Entry, EntryRecords
<1>5. /\ index' \in [Actions -> EntryRecords \cup {None, Junk}]
      /\ \A b \in Actions : index'[b] = index[b] \/ (b = a /\ index'[b] = Entry(p, TRUE))
      /\ fd[p] # None => index'[a] = Entry(p, TRUE)
  <2>1. index \in [Actions -> EntryRecords \cup {None, Junk}]
    BY <1>1 DEF TypeOK
  <2>2. CASE fd[p] = None
    BY <1>2, <2>1, <2>2
  <2>3. CASE fd[p] # None
    BY <1>1, <1>2, <1>4, <2>1, <2>3
  <2> QED
    BY <2>2, <2>3
<1>6. \A b \in Actions : index[b] \notin {None, Junk} /\ ~index[b].sized =>
        index[b].by # p
  BY <1>2 DEF IInv, IndexInv
<1>7. \A b \in Actions : index[b] \notin {None, Junk} => index[b].by \in Putters
  BY <1>1, EntryTypes DEF TypeOK
<1>8. FoundInv'
  <2> SUFFICES ASSUME NEW q \in Putters, q \notin disturbed'
      PROVE  /\ pc'[q] \in {"write", "truncate"} => fd[q] = "sound"
             /\ pc'[q] \in {"truncate", "ok"} =>
                  /\ index'[call[q].act] \notin {None, Junk}
                  /\ index'[call[q].act].sized
                  /\ index'[call[q].act].out = call[q].out
             /\ pc'[q] = "ok" => call[q].act \notin long
    BY <1>2 DEF FoundInv
  <2>1. q \notin disturbed /\ call[q].act \in Actions
    BY <1>1, <1>2, CallTypes
  <2>2. /\ pc[q] \in {"write", "truncate"} => fd[q] = "sound"
        /\ pc[q] \in {"truncate", "ok"} =>
             /\ index[call[q].act] \notin {None, Junk}
             /\ index[call[q].act].sized
             /\ index[call[q].act].out = call[q].out
        /\ pc[q] = "ok" => call[q].act \notin long
    BY <2>1 DEF IInv, FoundInv
  <2>3. ASSUME index'[call[q].act] = Entry(p, TRUE)
        PROVE  /\ index'[call[q].act] \notin {None, Junk} /\ index'[call[q].act].sized
               /\ index'[call[q].act].out = call[p].out
    <3>1. Entry(p, TRUE) \notin {None, Junk}
      BY <1>4, IndexAssumption
    <3>2. Entry(p, TRUE).sized /\ Entry(p, TRUE).out = call[p].out
      BY DEF Entry
    <3> QED
      BY <2>3, <3>1, <3>2
  <2>4. CASE q = p
    <3>1. fd[p] # None
      BY <1>2, <2>2, <2>4, IndexAssumption
    <3> QED
      BY <1>2, <1>3, <1>5, <2>2, <2>3, <2>4, <3>1
  <2>5. CASE q # p
    <3>1. ASSUME pc[q] \in {"truncate", "ok"}, call[q].act = a, fd[p] # None
          PROVE  call[q].out = call[p].out
      BY <1>2, <3>1 DEF Indexing
    <3>2. pc'[q] = pc[q]
      BY <1>3, <2>5
    <3>3. CASE index'[call[q].act] = index[call[q].act]
      BY <2>2, <3>2, <3>3
    <3>4. CASE index'[call[q].act] # index[call[q].act]
      <4>1. call[q].act = a /\ index'[call[q].act] = Entry(p, TRUE) /\ fd[p] # None
        BY <1>2, <1>5, <2>1, <3>4
      <4> QED
        BY <2>2, <2>3, <3>1, <3>2, <4>1
    <3> QED
      BY <3>3, <3>4
  <2> QED
    BY <2>4, <2>5
<1>9. CreatorInv'
  BY <1>2, <1>3, Onward
<1>10. ASSUME NEW b \in Actions, index'[b] \notin {None, Junk}
       PROVE  \/ /\ index'[b] = index[b]
                 /\ index[b].sized \/ pc'[index[b].by] = pc[index[b].by]
              \/ \E q \in Putters, z \in BOOLEAN :
                   /\ index'[b] = Entry(q, z) /\ call[q].act = b /\ pc[q] = "write"
                   /\ z \/ (pc'[q] = "remove" /\ q \in disturbed')
  <2>1. CASE index'[b] = index[b]
    BY <1>3, <1>6, <1>7, <1>10, <2>1
  <2>2. CASE b = a /\ index'[b] = Entry(p, TRUE)
    BY <1>2, <2>2
  <2> QED
    BY <1>5, <2>1, <2>2
<1>11. /\ long' \in SUBSET Actions /\ disturbed' \in SUBSET Putters /\ trouble' \in BOOLEAN
       /\ disturbed \subseteq disturbed' /\ fd' \in [Putters -> {None, "sound", "holed"}]
  BY <1>1, <1>2 DEF TypeOK, Indexing
<1>12. \A q \in Putters : \/ pc'[q] = pc[q]
                          \/ pc[q] = "write" /\ pc'[q] = "truncate"
  BY <1>2, <1>3
<1> QED
  BY <1>2, <1>3, <1>5, <1>8, <1>9, <1>10, <1>11, <1>12, EntryStep

LEMMA TruncateCase ==
  ASSUME IInv, NEW p \in Putters, Truncate(p)
  PROVE  IInv'
<1> DEFINE a == call[p].act
<1>1. TypeOK /\ a \in Actions
  BY CallTypes DEF IInv
<1>2. /\ pc[p] = "truncate" /\ Goto(p, "ok")
      /\ long' = IF fd[p] = None THEN long ELSE long \ {a}
      /\ fd' = [fd EXCEPT ![p] = None]
      /\ UNCHANGED <<index, dirs, files, failed, disturbed, call, getVars, trouble>>
  BY DEF Truncate
<1>3. /\ pc' \in [Putters -> PCs] /\ pc'[p] = "ok"
      /\ \A q \in Putters : q # p => pc'[q] = pc[q]
  BY <1>1, <1>2, Went DEF PCs
<1>4. /\ fd' \in [Putters -> {None, "sound", "holed"}] /\ fd'[p] = None
      /\ \A q \in Putters : q # p => fd'[q] = fd[q]
  BY <1>1, <1>2 DEF TypeOK
<1>5. p \notin disturbed => fd[p] # None
  BY <1>2, IndexAssumption DEF IInv, FoundInv
<1>6. \A b \in Actions : index[b] \notin {None, Junk} /\ ~index[b].sized =>
        index[b].by # p
  BY <1>2 DEF IInv, IndexInv
<1>7. \A b \in Actions : index[b] \notin {None, Junk} => index[b].by \in Putters
  BY <1>1, EntryTypes DEF TypeOK
<1>8. FoundInv'
  BY <1>2, <1>3, <1>4, <1>5 DEF IInv, FoundInv
<1>9. CreatorInv'
  BY <1>2, <1>3, Onward
<1>10. \A b \in Actions : index'[b] \notin {None, Junk} =>
         index'[b] = index[b] /\ (index[b].sized \/ pc'[index[b].by] = pc[index[b].by])
  BY <1>2, <1>3, <1>6, <1>7
<1>11. /\ long' \in SUBSET Actions /\ disturbed' \in SUBSET Putters /\ trouble' \in BOOLEAN
       /\ disturbed \subseteq disturbed'
       /\ index' \in [Actions -> EntryRecords \cup {None, Junk}]
  BY <1>1, <1>2 DEF TypeOK
<1>12. \A q \in Putters : /\ pc[q] \in InOutput => fd'[q] = fd[q]
                          /\ fd'[q] = "holed" => fd[q] = "holed"
  BY <1>2, <1>4, IndexAssumption
<1>13. \A q \in Putters : \/ pc'[q] = pc[q]
                          \/ pc[q] = "truncate" /\ pc'[q] = "ok"
  BY <1>2, <1>3
<1> QED
  BY <1>2, <1>3, <1>4, <1>8, <1>9, <1>10, <1>11, <1>12, <1>13, EntryStep

LEMMA IndexFailsCase ==
  ASSUME IInv, NEW p \in Putters, IndexFails(p)
  PROVE  IInv'
<1> DEFINE a == call[p].act
<1>1. TypeOK /\ a \in Actions /\ call[p].out \in Outputs
  BY CallTypes DEF IInv
<1>2. PICK e \in Mixtures(p) : index' = [index EXCEPT ![a] = e]
  BY DEF IndexFails
<1>3. /\ pc[p] \in {"write", "truncate"} /\ Goto(p, "remove")
      /\ disturbed' = disturbed \cup Indexing(a)
      /\ fd' = [fd EXCEPT ![p] = None]
      /\ trouble' = TRUE
      /\ UNCHANGED <<long, dirs, files, failed, call, getVars>>
  BY DEF IndexFails, Disturb
<1>4. /\ pc' \in [Putters -> PCs] /\ pc'[p] = "remove"
      /\ \A q \in Putters : q # p => pc'[q] = pc[q]
  BY <1>1, <1>3, Went DEF PCs
<1>5. /\ fd' \in [Putters -> {None, "sound", "holed"}] /\ fd'[p] = None
      /\ \A q \in Putters : q # p => fd'[q] = fd[q]
  BY <1>1, <1>3 DEF TypeOK
<1>6. Entry(p, TRUE) \in EntryRecords /\ Entry(p, FALSE) \in EntryRecords
  BY <1>1 DEF Entry, EntryRecords
<1>7. \/ e = index[a]
      \/ e = Junk
      \/ pc[p] = "write" /\ e \in {Entry(p, TRUE), Entry(p, FALSE)}
  BY <1>2, <1>3 DEF Mixtures
<1>8. /\ index' \in [Actions -> EntryRecords \cup {None, Junk}]
      /\ index'[a] = e
      /\ \A b \in Actions : b # a => index'[b] = index[b]
  BY <1>1, <1>2, <1>6, <1>7 DEF TypeOK
<1>9. p \in disturbed'
  BY <1>3 DEF Indexing
<1>10. FoundInv'
  <2> SUFFICES ASSUME NEW q \in Putters, q \notin disturbed'
      PROVE  /\ pc'[q] \in {"write", "truncate"} => fd'[q] = "sound"
             /\ pc'[q] \in {"truncate", "ok"} =>
                  /\ index'[call[q].act] \notin {None, Junk}
                  /\ index'[call[q].act].sized
                  /\ index'[call[q].act].out = call[q].out
             /\ pc'[q] = "ok" => call[q].act \notin long
    BY <1>3 DEF FoundInv
  <2>1. q # p /\ q \notin disturbed /\ pc'[q] = pc[q] /\ fd'[q] = fd[q]
    BY <1>3, <1>4, <1>5, <1>9
  <2>2. pc[q] \in {"truncate", "ok"} => index'[call[q].act] = index[call[q].act]
    BY <1>1, <1>3, <1>8, CallTypes DEF Indexing
  <2> QED
    BY <2>1, <2>2 DEF IInv, FoundInv
<1>11. CreatorInv'
  BY <1>3 DEF CreatorInv
<1>12. \A b \in Actions : index[b] \notin {None, Junk} /\ ~index[b].sized =>
         index[b].by # p
  BY <1>3 DEF IInv, IndexInv
<1>13. \A b \in Actions : index[b] \notin {None, Junk} => index[b].by \in Putters
  BY <1>1, EntryTypes DEF TypeOK
<1>14. ASSUME NEW b \in Actions, index'[b] \notin {None, Junk}
       PROVE  \/ /\ index'[b] = index[b]
                 /\ index[b].sized \/ pc'[index[b].by] = pc[index[b].by]
              \/ \E q \in Putters, z \in BOOLEAN :
                   /\ index'[b] = Entry(q, z) /\ call[q].act = b /\ pc[q] = "write"
                   /\ z \/ (pc'[q] = "remove" /\ q \in disturbed')
  <2>1. CASE index'[b] = index[b]
    BY <1>4, <1>12, <1>13, <1>14, <2>1
  <2>2. CASE index'[b] # index[b]
    <3>1. b = a /\ pc[p] = "write" /\ index'[b] \in {Entry(p, TRUE), Entry(p, FALSE)}
      BY <1>7, <1>8, <1>14, <2>2
    <3> QED
      BY <1>4, <1>9, <3>1
  <2> QED
    BY <2>1, <2>2
<1>15. /\ long' \in SUBSET Actions /\ disturbed' \in SUBSET Putters /\ trouble' \in BOOLEAN
       /\ disturbed \subseteq disturbed'
  BY <1>1, <1>3 DEF TypeOK, Indexing
<1>16. \A q \in Putters : /\ pc[q] \in InOutput => fd'[q] = fd[q]
                          /\ fd'[q] = "holed" => fd[q] = "holed"
  BY <1>3, <1>5, IndexAssumption
<1>17. \A q \in Putters : \/ pc'[q] = pc[q]
                          \/ pc[q] \in {"write", "truncate"} /\ pc'[q] = "remove"
  BY <1>3, <1>4
<1> QED
  BY <1>3, <1>4, <1>5, <1>8, <1>10, <1>11, <1>14, <1>15, <1>16, <1>17, EntryStep

\* An entry is removed by the put whose write failed, or by a trim.
LEMMA RemoveCase ==
  ASSUME IInv, NEW a \in Actions, RemoveEntry(a),
         \/ trouble' = TRUE /\ UNCHANGED pc
         \/ \E p \in Putters : call[p].act = a /\ RemoveIndex(p)
  PROVE  IInv'
<1>1. TypeOK
  BY DEF IInv
<1>2. /\ index' = [index EXCEPT ![a] = None]
      /\ long' = long \ {a}
      /\ fd' = [q \in Putters |-> IF q \in Indexing(a) THEN None ELSE fd[q]]
      /\ disturbed' = disturbed \cup Indexing(a)
      /\ UNCHANGED <<dirs, files, failed, call, getVars>>
  BY DEF RemoveEntry, Disturb
<1>3. /\ index' \in [Actions -> EntryRecords \cup {None, Junk}]
      /\ index'[a] = None
      /\ \A b \in Actions : b # a => index'[b] = index[b]
  BY <1>1, <1>2 DEF TypeOK
<1>4. /\ fd' \in [Putters -> {None, "sound", "holed"}]
      /\ \A q \in Putters : fd'[q] = IF q \in Indexing(a) THEN None ELSE fd[q]
  BY <1>1, <1>2 DEF TypeOK
<1>5. /\ pc' \in [Putters -> PCs]
      /\ \A q \in Putters :
           pc'[q] = pc[q] \/ (pc[q] = "remove" /\ pc'[q] = "error" /\ call[q].act = a)
      /\ trouble' = TRUE \/ trouble' = trouble
      /\ trouble' = trouble => trouble = TRUE
  <2>1. CASE trouble' = TRUE /\ UNCHANGED pc
    BY <1>1, <2>1 DEF TypeOK
  <2>2. CASE \E p \in Putters : call[p].act = a /\ RemoveIndex(p)
    <3>1. PICK p \in Putters : /\ call[p].act = a /\ pc[p] = "remove"
                               /\ Goto(p, "error") /\ trouble' = trouble
      BY <2>2 DEF RemoveIndex
    <3>2. /\ pc' \in [Putters -> PCs] /\ pc'[p] = "error"
          /\ \A q \in Putters : q # p => pc'[q] = pc[q]
      BY <1>1, <3>1, Went DEF PCs
    <3>3. trouble = TRUE
      BY <1>1, <3>1 DEF IInv, CreatorInv, TypeOK
    <3> QED
      BY <3>1, <3>2, <3>3
  <2> QED
    BY <2>1, <2>2
<1>6. trouble' = TRUE
  BY <1>5
<1>7. CreatorInv'
  BY <1>6 DEF CreatorInv
<1>8. FoundInv'
  <2> SUFFICES ASSUME NEW q \in Putters, q \notin disturbed'
      PROVE  /\ pc'[q] \in {"write", "truncate"} => fd'[q] = "sound"
             /\ pc'[q] \in {"truncate", "ok"} =>
                  /\ index'[call[q].act] \notin {None, Junk}
                  /\ index'[call[q].act].sized
                  /\ index'[call[q].act].out = call[q].out
             /\ pc'[q] = "ok" => call[q].act \notin long'
    BY <1>2 DEF FoundInv
  <2>1. q \notin disturbed /\ q \notin Indexing(a) /\ fd'[q] = fd[q]
    BY <1>2, <1>4
  <2>2. pc'[q] \in {"write", "truncate", "ok"} =>
          /\ pc[q] = pc'[q]
          /\ index'[call[q].act] = index[call[q].act]
    BY <1>1, <1>3, <1>5, <2>1, CallTypes DEF Indexing
  <2> QED
    BY <1>2, <2>1, <2>2 DEF IInv, FoundInv
<1>9. ASSUME NEW b \in Actions, index'[b] \notin {None, Junk}
      PROVE  /\ index'[b] = index[b]
             /\ pc'[index[b].by] = pc[index[b].by]
  <2>1. b # a /\ index'[b] = index[b]
    BY <1>3, <1>9
  <2>2. index[b].by \in Putters
    BY <1>1, <1>9, <2>1, EntryTypes DEF TypeOK
  <2>3. call[index[b].by].act = b
    BY <1>9, <2>1 DEF IInv, IndexInv
  <2> QED
    BY <1>5, <2>1, <2>2, <2>3
<1>10. /\ long' \in SUBSET Actions /\ disturbed' \in SUBSET Putters /\ trouble' \in BOOLEAN
       /\ disturbed \subseteq disturbed'
  BY <1>1, <1>2, <1>6 DEF TypeOK, Indexing
<1>11. \A q \in Putters : /\ pc[q] \in InOutput => fd'[q] = fd[q]
                          /\ fd'[q] = "holed" => fd[q] = "holed"
  BY <1>4, IndexAssumption DEF Indexing
<1> QED
  BY <1>2, <1>3, <1>4, <1>5, <1>7, <1>8, <1>9, <1>10, <1>11, EntryStep

-----------------------------------------------------------------------------
\* What a get moves.
LEMMA GetAlone ==
  ASSUME IInv, UNCHANGED <<putVars, call, trouble>>,
         at' \in [Getters -> {"idle", "output", "stat", "hit", "miss"}],
         want' \in [Getters -> EntryRecords \cup {None}],
         path' \in [Getters -> Names \cup {Plain, None}],
         seen' \in [Getters -> Contents \cup {None}],
         sure' \in [Getters -> SUBSET Putters],
         GetInv', HitIsWhole'
  PROVE  IInv'
<1>1. UNCHANGED <<index, long, dirs, files, pc, fd, failed, disturbed, call, trouble>>
  BY DEF putVars
<1>2. TypeOK'
  BY <1>1 DEF IInv, TypeOK
<1>3. StoredInv' /\ FoundInv'
  BY <1>1 DEF IInv, StoredInv, FoundInv, Stored
<1>4. IndexInv'
  BY <1>1 DEF IInv, IndexInv, EntryInv, Stored
<1>5. WrongInv' /\ CreatorInv'
  BY <1>1 DEF IInv, WrongInv, CreatorInv, Failed, PutsOf
<1> QED
  BY <1>2, <1>3, <1>4, <1>5 DEF IInv

\* One get moves, and the others are as they were.
LEMMA GetsMove ==
  ASSUME IInv, NEW g \in Getters, UNCHANGED <<putVars, call>>,
         \A h \in Getters : h # g =>
           /\ at'[h] = at[h] /\ want'[h] = want[h] /\ path'[h] = path[h]
           /\ seen'[h] = seen[h] /\ sure'[h] = sure[h],
         at'[g] \in {"output", "stat", "hit"} =>
           want'[g] \in EntryRecords /\ EntryInv(want[g])',
         \A p \in sure'[g] \ disturbed :
           /\ pc[p] = "ok" /\ at'[g] # "miss"
           /\ at'[g] \in {"output", "stat"} => want'[g].out = call[p].out /\ want'[g].sized
           /\ at'[g] = "stat" => path'[g] = call[p].name,
         at'[g] = "hit" =>
           \/ seen'[g] = "whole"
           \/ /\ want'[g].by \in disturbed
              /\ ~want'[g].sized \/ Failed(want[g].out)'
  PROVE  GetInv' /\ HitIsWhole'
<1>1. UNCHANGED <<index, long, dirs, files, pc, fd, failed, disturbed, call>>
  BY DEF putVars
<1>2. ASSUME NEW h \in Getters, h # g
      PROVE  /\ at'[h] \in {"output", "stat", "hit"} =>
                  want'[h] \in EntryRecords /\ EntryInv(want[h])'
             /\ \A p \in sure'[h] \ disturbed :
                  /\ pc[p] = "ok" /\ at'[h] # "miss"
                  /\ at'[h] \in {"output", "stat"} =>
                       want'[h].out = call[p].out /\ want'[h].sized
                  /\ at'[h] = "stat" => path'[h] = call[p].name
  BY <1>1, <1>2 DEF IInv, GetInv, EntryInv, Stored
<1>3. ASSUME NEW h \in Getters, h # g, at'[h] = "hit"
      PROVE  \/ seen'[h] = "whole"
             \/ /\ want'[h].by \in disturbed
                /\ ~want'[h].sized \/ \E q \in failed : call[q].out = want[h].out
  BY <1>1, <1>3 DEF IInv, HitIsWhole
<1>4. GetInv'
  BY <1>1, <1>2 DEF GetInv
<1>5. HitIsWhole'
  BY <1>1, <1>3 DEF HitIsWhole, Failed
<1> QED
  BY <1>4, <1>5

\* What a get has read leads to the files of an undisturbed put.
LEMMA Reached ==
  ASSUME IInv, NEW g \in Getters, NEW p \in Putters, p \notin disturbed,
         pc[p] # "idle", Stored(p)
  PROVE  LET o == call[p].out  n == call[p].name IN
         /\ o \in Outputs /\ n \in Names \cup {Plain}
         /\ files[o][n] = "whole" /\ files[o][n] # None
         /\ n = Plain <=> o \notin dirs
         /\ \A k \in Names \cup {Plain} : k # n => files[o][k] = None
         /\ n # Plain => {k \in Names : files[o][k] # None} = {n}
<1> DEFINE o == call[p].out
           n == call[p].name
<1>1. TypeOK /\ o \in Outputs /\ n \in Names \cup {Plain}
  BY CallTypes DEF IInv
<1>2. files[o][n] = "whole" /\ (\A k \in Names : k # n => files[o][k] = None)
  BY DEF Stored
<1>3. files[o][n] # None
  BY <1>2, IndexAssumption DEF Contents
<1>4. n = Plain <=> o \notin dirs
  BY <1>1, <1>3 DEF TypeOK
<1>5. n # Plain => files[o][Plain] = None
  BY <1>1, <1>4 DEF TypeOK
<1>6. n # Plain => {k \in Names : files[o][k] # None} = {n}
  BY <1>1, <1>2, <1>3
<1> QED
  BY <1>1, <1>2, <1>3, <1>4, <1>5, <1>6

LEMMA GetCase ==
  ASSUME IInv, NEW g \in Getters, NEW a \in Actions, Get(g, a)
  PROVE  IInv'
<1>1. TypeOK
  BY DEF IInv
<1>2. /\ sure' = [sure EXCEPT ![g] =
                    {p \in Putters \ disturbed : pc[p] = "ok" /\ call[p].act = a}]
      /\ UNCHANGED <<putVars, call, path, seen, trouble>>
      /\ Readable(a) => /\ at' = [at EXCEPT ![g] = "output"]
                        /\ want' = [want EXCEPT ![g] = index[a]]
      /\ ~Readable(a) => at' = [at EXCEPT ![g] = "miss"] /\ want' = want
  BY DEF Get, GetGoto
<1>3. UNCHANGED <<index, long, dirs, files, pc, fd, failed, disturbed>>
  BY <1>2 DEF putVars
<1>4. Readable(a) => index[a] \in EntryRecords /\ EntryInv(index[a])
  BY <1>1 DEF IInv, IndexInv, TypeOK, Readable
<1>5. /\ at' \in [Getters -> {"idle", "output", "stat", "hit", "miss"}]
      /\ want' \in [Getters -> EntryRecords \cup {None}]
      /\ sure' \in [Getters -> SUBSET Putters]
      /\ path' \in [Getters -> Names \cup {Plain, None}]
      /\ seen' \in [Getters -> Contents \cup {None}]
  BY <1>1, <1>2, <1>4 DEF TypeOK
<1>6. \A h \in Getters : h # g =>
        /\ at'[h] = at[h] /\ want'[h] = want[h] /\ path'[h] = path[h]
        /\ seen'[h] = seen[h] /\ sure'[h] = sure[h]
  BY <1>1, <1>2 DEF TypeOK
<1>7. /\ at'[g] = IF Readable(a) THEN "output" ELSE "miss"
      /\ Readable(a) => want'[g] = index[a]
      /\ sure'[g] = {p \in Putters \ disturbed : pc[p] = "ok" /\ call[p].act = a}
  BY <1>1, <1>2 DEF TypeOK
<1>8. at'[g] \in {"output", "stat", "hit"} =>
        want'[g] \in EntryRecords /\ EntryInv(want[g])'
  BY <1>2, <1>3, <1>4, <1>7 DEF EntryInv, Stored
<1>9. ASSUME NEW p \in sure'[g] \ disturbed
      PROVE  /\ pc[p] = "ok" /\ at'[g] # "miss"
             /\ at'[g] \in {"output", "stat"} => want'[g].out = call[p].out /\ want'[g].sized
             /\ at'[g] = "stat" => path'[g] = call[p].name
  <2>1. p \in Putters /\ p \notin disturbed /\ pc[p] = "ok" /\ call[p].act = a
    BY <1>7, <1>9
  <2>2. /\ index[a] \notin {None, Junk} /\ index[a].sized
        /\ index[a].out = call[p].out /\ a \notin long
    BY <2>1 DEF IInv, FoundInv
  <2> QED
    BY <1>7, <2>1, <2>2 DEF Readable
<1>10. at'[g] # "hit"
  BY <1>7
<1>11. GetInv' /\ HitIsWhole'
  BY <1>2, <1>6, <1>8, <1>9, <1>10, GetsMove
<1> QED
  BY <1>2, <1>5, <1>11, GetAlone

LEMMA OutputFileCase ==
  ASSUME IInv, NEW g \in Getters, OutputFile(g)
  PROVE  IInv'
<1> DEFINE o == want[g].out
<1>1. TypeOK
  BY DEF IInv
<1>2. /\ at[g] = "output" /\ at' = [at EXCEPT ![g] = "stat"]
      /\ UNCHANGED <<putVars, call, want, seen, sure, trouble>>
  BY DEF OutputFile, GetGoto
<1>3. \E n \in Names \cup {Plain, None} :
        /\ path' = [path EXCEPT ![g] = n]
        /\ o \notin dirs => n = Plain
        /\ \A k \in Names :
             o \in dirs /\ {m \in Names : files[o][m] # None} = {k} => n = k
  <2>1. CASE o \notin dirs
    BY <2>1 DEF OutputFile
  <2>2. CASE o \in dirs /\ \E n \in Names : {k \in Names : files[o][k] # None} = {n}
    <3>1. PICK n \in Names : /\ {k \in Names : files[o][k] # None} = {n}
                             /\ path' = [path EXCEPT ![g] = n]
      BY <2>2 DEF OutputFile
    <3>2. \A k \in Names : {m \in Names : files[o][m] # None} = {k} => n = k
      BY <3>1
    <3> QED
      BY <2>2, <3>1, <3>2
  <2>3. CASE o \in dirs /\ ~\E n \in Names : {k \in Names : files[o][k] # None} = {n}
    <3>1. path' = path
      BY <2>3 DEF OutputFile
    <3>2. path' = [path EXCEPT ![g] = path[g]] /\ path[g] \in Names \cup {Plain, None}
      BY <1>1, <3>1 DEF TypeOK
    <3> QED
      BY <2>3, <3>2
  <2> QED
    BY <2>1, <2>2, <2>3
<1>4. PICK n \in Names \cup {Plain, None} :
        /\ path' = [path EXCEPT ![g] = n]
        /\ o \notin dirs => n = Plain
        /\ \A k \in Names :
             o \in dirs /\ {m \in Names : files[o][m] # None} = {k} => n = k
  BY <1>3
<1>5. UNCHANGED <<index, long, dirs, files, pc, fd, failed, disturbed>>
  BY <1>2 DEF putVars
<1>6. /\ at' \in [Getters -> {"idle", "output", "stat", "hit", "miss"}]
      /\ want' \in [Getters -> EntryRecords \cup {None}]
      /\ sure' \in [Getters -> SUBSET Putters]
      /\ path' \in [Getters -> Names \cup {Plain, None}]
      /\ seen' \in [Getters -> Contents \cup {None}]
  BY <1>1, <1>2, <1>4 DEF TypeOK
<1>7. \A h \in Getters : h # g =>
        /\ at'[h] = at[h] /\ want'[h] = want[h] /\ path'[h] = path[h]
        /\ seen'[h] = seen[h] /\ sure'[h] = sure[h]
  BY <1>1, <1>2, <1>4 DEF TypeOK
<1>8. at'[g] = "stat" /\ path'[g] = n /\ want'[g] = want[g] /\ sure'[g] = sure[g]
  BY <1>1, <1>2, <1>4 DEF TypeOK
<1>9. want[g] \in EntryRecords /\ EntryInv(want[g])
  BY <1>2 DEF IInv, GetInv
<1>10. want'[g] \in EntryRecords /\ EntryInv(want[g])'
  BY <1>2, <1>5, <1>9 DEF EntryInv, Stored
<1>11. ASSUME NEW p \in sure'[g] \ disturbed
       PROVE  /\ pc[p] = "ok" /\ at'[g] # "miss"
              /\ at'[g] \in {"output", "stat"} => want'[g].out = call[p].out /\ want'[g].sized
              /\ at'[g] = "stat" => path'[g] = call[p].name
  <2>1. p \in sure[g] \ disturbed /\ p \in Putters
    BY <1>1, <1>8, <1>11 DEF TypeOK
  <2>2. pc[p] = "ok" /\ o = call[p].out /\ want[g].sized
    BY <1>2, <2>1 DEF IInv, GetInv
  <2>3. Stored(p)
    BY <2>1, <2>2 DEF IInv, StoredInv
  <2>4. /\ call[p].name \in Names \cup {Plain}
        /\ call[p].name = Plain <=> o \notin dirs
        /\ call[p].name # Plain => {k \in Names : files[o][k] # None} = {call[p].name}
    BY <2>1, <2>2, <2>3, Reached
  <2>5. n = call[p].name
    BY <1>4, <2>4
  <2> QED
    BY <1>8, <2>2, <2>5
<1>12. at'[g] # "hit"
  BY <1>8
<1>13. GetInv' /\ HitIsWhole'
  BY <1>2, <1>7, <1>10, <1>11, <1>12, GetsMove
<1> QED
  BY <1>2, <1>6, <1>13, GetAlone

LEMMA StatFileCase ==
  ASSUME IInv, NEW g \in Getters, StatFile(g)
  PROVE  IInv'
<1> DEFINE o == want[g].out
           c == IF path[g] = None THEN None ELSE files[o][path[g]]
<1>1. TypeOK
  BY DEF IInv
<1>2. /\ at[g] = "stat"
      /\ UNCHANGED <<putVars, call, want, path, sure, trouble>>
  BY DEF StatFile
<1>3. \/ /\ IF want[g].sized THEN c \in {"whole", "wrong"} ELSE c = "partial"
         /\ at' = [at EXCEPT ![g] = "hit"] /\ seen' = [seen EXCEPT ![g] = c]
      \/ /\ ~want[g].sized \/ c \notin {"whole", "wrong"}
         /\ at' = [at EXCEPT ![g] = "miss"] /\ seen' = seen
  BY DEF StatFile, GetGoto
<1>4. UNCHANGED <<index, long, dirs, files, pc, fd, failed, disturbed>>
  BY <1>2 DEF putVars
<1>5. want[g] \in EntryRecords /\ EntryInv(want[g])
  BY <1>2 DEF IInv, GetInv
<1>6. want[g].by \in Putters /\ o \in Outputs
  BY <1>5, EntryTypes
<1>7. path[g] \in Names \cup {Plain, None}
  BY <1>1 DEF TypeOK
<1>8. c \in Contents \cup {None}
  BY <1>1, <1>6, <1>7 DEF TypeOK
<1> HIDE DEF c
<1>9. /\ at' \in [Getters -> {"idle", "output", "stat", "hit", "miss"}]
      /\ want' \in [Getters -> EntryRecords \cup {None}]
      /\ sure' \in [Getters -> SUBSET Putters]
      /\ path' \in [Getters -> Names \cup {Plain, None}]
      /\ seen' \in [Getters -> Contents \cup {None}]
  BY <1>1, <1>2, <1>3, <1>8 DEF TypeOK
<1>10. \A h \in Getters : h # g =>
         /\ at'[h] = at[h] /\ want'[h] = want[h] /\ path'[h] = path[h]
         /\ seen'[h] = seen[h] /\ sure'[h] = sure[h]
  BY <1>1, <1>2, <1>3 DEF TypeOK
<1>11. /\ at'[g] \in {"hit", "miss"}
       /\ at'[g] = "hit" => /\ seen'[g] = c
                            /\ IF want[g].sized THEN c \in {"whole", "wrong"} ELSE c = "partial"
       /\ at'[g] = "miss" => ~want[g].sized \/ c \notin {"whole", "wrong"}
  BY <1>1, <1>3 DEF TypeOK
<1>12. want'[g] \in EntryRecords /\ EntryInv(want[g])'
  BY <1>2, <1>4, <1>5 DEF EntryInv, Stored
<1>13. ASSUME NEW p \in sure'[g] \ disturbed
       PROVE  pc[p] = "ok" /\ at'[g] = "hit"
  <2>1. p \in sure[g] \ disturbed /\ p \in Putters
    BY <1>1, <1>2, <1>13 DEF TypeOK
  <2>2. pc[p] = "ok" /\ o = call[p].out /\ want[g].sized /\ path[g] = call[p].name
    BY <1>2, <2>1 DEF IInv, GetInv
  <2>3. Stored(p)
    BY <2>1, <2>2 DEF IInv, StoredInv
  <2>4. call[p].name \in Names \cup {Plain} /\ files[o][call[p].name] = "whole"
    BY <2>1, <2>2, <2>3, Reached
  <2>5. path[g] # None
    BY <2>2, <2>4, IndexAssumption
  <2>6. c = "whole"
    BY <2>2, <2>4, <2>5 DEF c
  <2> QED
    BY <1>11, <2>2, <2>6
<1>14. ASSUME at'[g] = "hit"
       PROVE  \/ seen'[g] = "whole"
              \/ /\ want'[g].by \in disturbed
                 /\ ~want'[g].sized \/ Failed(want[g].out)'
  <2>1. seen'[g] = c
    BY <1>11, <1>14
  <2>2. CASE ~want[g].sized
    <3>1. want[g].by \in disturbed
      BY <1>5, <2>2 DEF EntryInv
    <3> QED
      BY <1>2, <2>2, <3>1
  <2>3. CASE want[g].sized /\ c = "wrong"
    <3>1. path[g] # None /\ files[o][path[g]] = "wrong"
      BY <2>3, IndexAssumption DEF Contents, c
    <3>2. path[g] \in Names \cup {Plain}
      BY <1>7, <3>1
    <3>3. Failed(o)
      BY <1>6, <3>1, <3>2 DEF IInv, WrongInv
    <3>4. want[g].by \in disturbed
      <4> SUFFICES ASSUME want[g].by \notin disturbed PROVE FALSE
        OBVIOUS
      <4>1. /\ Stored(want[g].by) /\ pc[want[g].by] # "idle"
            /\ o = call[want[g].by].out
        BY <1>5 DEF EntryInv
      <4>2. /\ files[o][call[want[g].by].name] = "whole"
            /\ \A k \in Names \cup {Plain} :
                 k # call[want[g].by].name => files[o][k] = None
        BY <1>6, <4>1, Reached
      <4>3. "wrong" # None
        BY IndexAssumption DEF Contents
      <4> QED
        BY <3>1, <3>2, <4>2, <4>3
    <3>5. Failed(want[g].out)'
      BY <1>2, <1>4, <3>3 DEF Failed
    <3> QED
      BY <1>2, <3>4, <3>5
  <2>4. CASE want[g].sized /\ c = "whole"
    BY <2>1, <2>4
  <2> QED
    BY <1>11, <1>14, <2>2, <2>3, <2>4
<1>15. GetInv' /\ HitIsWhole'
  BY <1>2, <1>10, <1>11, <1>12, <1>13, <1>14, GetsMove
<1> QED
  BY <1>2, <1>9, <1>15, GetAlone

LEMMA ReturnCase ==
  ASSUME IInv, NEW g \in Getters, Return(g)
  PROVE  IInv'
<1>1. TypeOK
  BY DEF IInv
<1>2. /\ at' = [at EXCEPT ![g] = "idle"] /\ want' = [want EXCEPT ![g] = None]
      /\ path' = [path EXCEPT ![g] = None] /\ seen' = [seen EXCEPT ![g] = None]
      /\ sure' = [sure EXCEPT ![g] = {}]
      /\ UNCHANGED <<putVars, call, trouble>>
  BY DEF Return, GetGoto
<1>3. /\ at' \in [Getters -> {"idle", "output", "stat", "hit", "miss"}]
      /\ want' \in [Getters -> EntryRecords \cup {None}]
      /\ sure' \in [Getters -> SUBSET Putters]
      /\ path' \in [Getters -> Names \cup {Plain, None}]
      /\ seen' \in [Getters -> Contents \cup {None}]
  BY <1>1, <1>2 DEF TypeOK
<1>4. \A h \in Getters : h # g =>
        /\ at'[h] = at[h] /\ want'[h] = want[h] /\ path'[h] = path[h]
        /\ seen'[h] = seen[h] /\ sure'[h] = sure[h]
  BY <1>1, <1>2 DEF TypeOK
<1>5. at'[g] = "idle" /\ sure'[g] = {}
  BY <1>1, <1>2 DEF TypeOK
<1>6. GetInv' /\ HitIsWhole'
  BY <1>2, <1>4, <1>5, GetsMove
<1> QED
  BY <1>2, <1>3, <1>6, GetAlone

-----------------------------------------------------------------------------
LEMMA InitInv ==
  ASSUME Init
  PROVE  IInv
<1>1. TypeOK
  <2>1. /\ index \in [Actions -> EntryRecords \cup {None, Junk}]
        /\ long \in SUBSET Actions /\ dirs \in SUBSET Outputs
    BY DEF Init
  <2>2. files \in [Outputs -> [Names \cup {Plain} -> Contents \cup {None}]]
    BY DEF Init
  <2>3. \A o \in Outputs, n \in Names \cup {Plain} : files[o][n] = None
    BY DEF Init
  <2> QED
    BY <2>1, <2>2, <2>3 DEF Init, TypeOK, PCs
<1>2. \A p \in Putters : pc[p] = "idle" /\ fd[p] = None
  BY DEF Init
<1>3. \A o \in Outputs, n \in Names \cup {Plain} : files[o][n] = None
  BY DEF Init
<1>4. \A a \in Actions : index[a] \in {None, Junk}
  BY DEF Init
<1>5. \A g \in Getters : at[g] = "idle" /\ sure[g] = {}
  BY DEF Init
<1>6. StoredInv /\ FoundInv
  BY <1>2 DEF StoredInv, FoundInv
<1>7. IndexInv
  BY <1>4 DEF IndexInv
<1>8. GetInv /\ HitIsWhole
  BY <1>5 DEF GetInv, HitIsWhole
<1>9. WrongInv
  BY <1>2, <1>3, IndexAssumption DEF WrongInv, Contents
<1>10. CreatorInv
  BY <1>2, <1>3 DEF CreatorInv, Init
<1> QED
  BY <1>1, <1>6, <1>7, <1>8, <1>9, <1>10 DEF IInv

LEMMA Step ==
  ASSUME IInv, [Next]_vars
  PROVE  IInv'
<1>1. ASSUME NEW p \in Putters, PutStep(p)
      PROVE  IInv'
  <2>1. CASE RemoveIndex(p)
    <3>1. TypeOK
      BY DEF IInv
    <3>2. call[p].act \in Actions
      BY <3>1, CallTypes
    <3>3. RemoveEntry(call[p].act)
      BY <2>1 DEF RemoveIndex
    <3> QED
      BY <2>1, <3>2, <3>3, RemoveCase
  <2> QED
    BY <1>1, <2>1, PutCase, MkdirCase, OpenOutputCase, TextBusyCase, MendCase,
       SpoilCase, CommitCase, CloseOutputCase, CopyFailsCase, CloseFailsCase,
       RemoveOutputCase, OpenIndexCase, WriteIndexCase, TruncateCase, IndexFailsCase, StopCase
       DEF PutStep
<1>2. ASSUME NEW g \in Getters, GetStep(g)
      PROVE  IInv'
  BY <1>2, GetCase, OutputFileCase, StatFileCase, ReturnCase DEF GetStep
<1>3. CASE Trim
  <2>1. ASSUME NEW a \in Actions, TrimEntry(a)
        PROVE  IInv'
    <3>1. RemoveEntry(a) /\ trouble' = TRUE /\ UNCHANGED pc
      BY <2>1 DEF TrimEntry
    <3> QED
      BY <3>1, RemoveCase
  <2> QED
    BY <1>3, <2>1, TrimDirCase, TrimFileCase DEF Trim
<1>4. CASE UNCHANGED vars
  <2>1. UNCHANGED <<putVars, call, getVars, trouble>>
    BY <1>4 DEF vars
  <2>2. UNCHANGED <<index, long, dirs, files, pc, fd, failed, disturbed, call,
                    at, want, path, seen, sure, trouble>>
    BY <2>1 DEF putVars, getVars
  <2>3. TypeOK'
    BY <2>2 DEF IInv, TypeOK
  <2>4. StoredInv' /\ FoundInv' /\ IndexInv' /\ GetInv'
    BY <2>2 DEF IInv, StoredInv, FoundInv, IndexInv, GetInv, EntryInv, Stored
  <2>5. WrongInv' /\ CreatorInv' /\ HitIsWhole'
    BY <2>2 DEF IInv, WrongInv, CreatorInv, HitIsWhole, Failed, PutsOf
  <2> QED
    BY <2>3, <2>4, <2>5 DEF IInv
<1> QED
  BY <1>1, <1>2, <1>3, <1>4 DEF Next

\* The inductive invariant holds in every reachable state.
THEOREM Invariant == Spec => []IInv
<1>1. Init => IInv
  BY InitInv
<1>2. IInv /\ [Next]_vars => IInv'
  BY Step
<1> QED
  BY <1>1, <1>2, PTL DEF Spec

\* Every variable has its type, whatever puts, gets and trims do, and the name
\* of an output is never a file and a directory at once.
THEOREM TypeCorrect == Spec => []TypeOK
<1>1. IInv => TypeOK
  BY DEF IInv
<1> QED
  BY <1>1, Invariant, PTL

LEMMA StoredUsable ==
  ASSUME TypeOK, NEW p \in Putters, Stored(p)
  PROVE  Usable(call[p].out)
<1>1. call[p].name \in Names \cup {Plain}
  BY CallTypes
<1> QED
  BY <1>1 DEF Stored, Usable

\* An entry of putIndexEntry leads to an output that copyFile has stored and
\* OutputFile finds, unless something has happened to that.
THEOREM IndexedCorrect == Spec => []IndexedIsUsable
<1>1. IInv => IndexedIsUsable
  <2> SUFFICES ASSUME IInv, NEW a \in Actions, index[a] \notin {None, Junk},
                      index[a].by \notin disturbed
               PROVE  Usable(index[a].out)
    BY DEF IndexedIsUsable
  <2>1. TypeOK
    BY DEF IInv
  <2>2. index[a].by \in Putters
    BY <2>1, EntryTypes DEF TypeOK
  <2>3. Stored(index[a].by) /\ index[a].out = call[index[a].by].out
    BY DEF IInv, IndexInv, EntryInv
  <2>4. Usable(call[index[a].by].out)
    BY <2>1, <2>2, <2>3, StoredUsable
  <2> QED
    BY <2>3, <2>4
<1> QED
  BY <1>1, Invariant, PTL

\* What put has returned is found from then on, also while and after other
\* processes put the same.
THEOREM FoundCorrect == Spec => []PutIsFound
<1>1. IInv => PutIsFound
  <2> SUFFICES ASSUME IInv, NEW p \in Putters, pc[p] = "ok", p \notin disturbed
               PROVE  LET a == call[p].act IN
                      /\ Readable(a) /\ index[a].sized /\ index[a].out = call[p].out
                      /\ Usable(call[p].out)
    BY DEF PutIsFound
  <2>1. TypeOK
    BY DEF IInv
  <2>2. Stored(p)
    BY DEF IInv, StoredInv
  <2>3. LET a == call[p].act IN
        /\ index[a] \notin {None, Junk} /\ a \notin long
        /\ index[a].sized /\ index[a].out = call[p].out
    BY DEF IInv, FoundInv
  <2> QED
    BY <2>1, <2>2, <2>3, StoredUsable DEF Readable
<1> QED
  BY <1>1, Invariant, PTL

\* Get, OutputFile and the Stat of GetFile look at three different times, and
\* yet miss only what was removed, replaced or damaged.
THEOREM MissCorrect == Spec => []MissIsExplained
<1>1. IInv => MissIsExplained
  BY DEF IInv, GetInv, MissIsExplained
<1> QED
  BY <1>1, Invariant, PTL

\* GetFile returns what the put has stored, unless a copy of that output has
\* failed, or a mixed entry was read.
THEOREM HitCorrect == Spec => []HitIsWhole
<1>1. IInv => HitIsWhole
  BY DEF IInv
<1> QED
  BY <1>1, Invariant, PTL

\* putIndexEntry leaves no entry with another output's size, unless killed
\* between its failed write and its Remove.
THEOREM MixedCorrect == Spec => []MixedIsBrief
<1>1. IInv => MixedIsBrief
  BY DEF IInv, IndexInv, MixedIsBrief
<1> QED
  BY <1>1, Invariant, PTL

\* Of the processes that put an output for the first time, the Mkdir of
\* copyFile makes only those fail that were not the first.
THEOREM SomeCorrect == Spec => []SomePutSucceeds
<1>1. IInv => SomePutSucceeds
  <2> SUFFICES ASSUME IInv, ~trouble, NEW p \in Putters, pc[p] = "error"
               PROVE  \E q \in PutsOf(call[p].out) : pc[q] \notin {"idle", "mkdir", "error"}
    BY DEF SomePutSucceeds
  <2>1. call[p].out \in Outputs
    BY CallTypes DEF IInv
  <2>2. call[p].out \in dirs \/ files[call[p].out][Plain] # None
    BY DEF IInv, CreatorInv
  <2> QED
    BY <2>1, <2>2 DEF IInv, CreatorInv
<1> QED
  BY <1>1, Invariant, PTL

-----------------------------------------------------------------------------
\* A put that has the file open as OutputFile sees it, and what INSTANCE makes
\* of OutputFile's variables.
Handle(p) == IF pc[p] \in InOutput THEN fd[p] ELSE None

InFile(p, o, n) == call[p].out = o /\ call[p].name = n

Stages(o, n) ==
  [p \in Putters |-> IF call[p].out = o /\ call[p].name = n THEN Stage(p) ELSE "idle"]

Handles(o, n) == [p \in Putters |-> IF p \in Copying(o, n) THEN fd[p] ELSE None]

\* What a put leaves alone: all other files, and where others are.
Alone(p) ==
  /\ call' = call
  /\ \A q \in Putters \ {p} : pc'[q] = pc[q]
  /\ \A o \in Outputs, n \in Names \cup {Plain} : ~InFile(p, o, n) =>
       /\ files'[o][n] = files[o][n]
       /\ \A q \in Putters : InFile(q, o, n) => Handle(q)' = Handle(q)

LEMMA HandlesAre ==
  ASSUME NEW o, NEW n, NEW p \in Putters
  PROVE  Handles(o, n)[p] = IF InFile(p, o, n) THEN Handle(p) ELSE None
BY DEF Handles, Handle, InFile, Copying

LEMMA HandlesAreNext ==
  ASSUME NEW o, NEW n, NEW p \in Putters
  PROVE  Handles(o, n)'[p] = IF InFile(p, o, n)' THEN Handle(p)' ELSE None
BY DEF Handles, Handle, InFile, Copying

\* No put of the file has moved, as OutputFile sees it.
LEMMA Stutters ==
  ASSUME NEW o \in Outputs, NEW n \in Names \cup {Plain},
         call' = call, files'[o][n] = files[o][n],
         \A q \in Putters : InFile(q, o, n) =>
           Stage(q)' = Stage(q) /\ Handle(q)' = Handle(q)
  PROVE  UNCHANGED Out(o, n)!vars
<1>1. Stages(o, n)' = Stages(o, n)
  BY DEF Stages, InFile
<1>2. \A q \in Putters : Handles(o, n)'[q] = Handles(o, n)[q]
  BY HandlesAre, HandlesAreNext DEF InFile
<1>3. Handles(o, n)' = Handles(o, n)
  BY <1>2 DEF Handles
<1> QED
  BY <1>1, <1>3 DEF Out!vars, Stages, Handles

LEMMA OtherFile ==
  ASSUME NEW o \in Outputs, NEW n \in Names \cup {Plain}, NEW p \in Putters,
         Alone(p), ~InFile(p, o, n)
  PROVE  UNCHANGED Out(o, n)!vars
<1>1. \A q \in Putters : InFile(q, o, n) => q # p
  OBVIOUS
<1>2. \A q \in Putters : InFile(q, o, n) => Stage(q)' = Stage(q)
  BY <1>1 DEF Alone, Stage
<1> QED
  BY <1>2, Stutters DEF Alone

\* The put that moves, in its own file.
LEMMA Goes ==
  ASSUME NEW o \in Outputs, NEW n \in Names \cup {Plain}, NEW p \in Putters,
         NEW l, Stage(p)' = l, Alone(p), InFile(p, o, n)
  PROVE  /\ Stages(o, n)[p] = Stage(p)
         /\ Out(o, n)!Goto(p, l)
         /\ l = Stage(p) => UNCHANGED Stages(o, n)
<1>1. \A q \in Putters : q # p => Stage(q)' = Stage(q)
  BY DEF Alone, Stage
<1>2. Stages(o, n)' = [Stages(o, n) EXCEPT ![p] = l]
  BY <1>1 DEF Stages, Alone, InFile
<1>3. l = Stage(p) => UNCHANGED Stages(o, n)
  BY <1>1 DEF Stages, Alone, InFile
<1>4. Stages(o, n)[p] = Stage(p)
  BY DEF Stages, InFile
<1> QED
  BY <1>2, <1>3, <1>4 DEF Out!Goto, Stages

LEMMA HandleTypes ==
  ASSUME TypeOK, NEW o, NEW n
  PROVE  Handles(o, n) \in Out(o, n)!FDs
BY DEF TypeOK, Handles, Out!FDs

\* The put opens or closes its file, and the others do nothing.
LEMMA HandleSet ==
  ASSUME NEW o \in Outputs, NEW n \in Names \cup {Plain}, NEW p \in Putters,
         call' = call, InFile(p, o, n),
         \A q \in Putters : q # p => Handle(q)' = Handle(q)
  PROVE  /\ Handles(o, n)[p] = Handle(p)
         /\ Handles(o, n)' = [Handles(o, n) EXCEPT ![p] = Handle(p)']
         /\ Handle(p)' = Handle(p) => UNCHANGED Handles(o, n)
<1>1. \A q \in Putters : Handles(o, n)'[q] =
                           IF q = p THEN Handle(p)' ELSE Handles(o, n)[q]
  BY HandlesAre, HandlesAreNext DEF InFile
<1>2. Handles(o, n)' = [Handles(o, n) EXCEPT ![p] = Handle(p)']
  BY <1>1 DEF Handles
<1>3. Handles(o, n)[p] = Handle(p)
  BY HandlesAre
<1>4. Handle(p)' = Handle(p) => UNCHANGED Handles(o, n)
  BY <1>1, <1>3 DEF Handles
<1> QED
  BY <1>2, <1>3, <1>4

\* Others lose what they have written.
LEMMA HandlesHurt ==
  ASSUME TypeOK, NEW o \in Outputs, NEW n \in Names \cup {Plain}, NEW p \in Putters,
         NEW c, NEW v \in {None, "sound", "holed"}, Harm(p, c, v), InFile(p, o, n),
         Alone(p), Handle(p)' = v
  PROVE  Handles(o, n)' \in Out(o, n)!Hurt(p, v)
<1>1. fd' = [q \in Putters |->
               IF q = p THEN v
               ELSE IF q \in Copying(o, n) /\ fd[q] # None THEN "holed" ELSE fd[q]]
  BY DEF Harm, InFile
<1>2. fd' \in [Putters -> {None, "sound", "holed"}]
  BY <1>1 DEF TypeOK
<1>3. Handles(o, n)' \in Out(o, n)!FDs
  BY <1>2 DEF Handles, Out!FDs
<1>4. Handles(o, n)'[p] = v
  BY HandlesAreNext DEF InFile, Alone
<1>5. ASSUME NEW q \in Putters \ {p}
      PROVE  \/ Handles(o, n)'[q] = Handles(o, n)[q]
             \/ Handles(o, n)[q] = "sound" /\ Handles(o, n)'[q] = "holed"
  <2>1. pc'[q] = pc[q] /\ (InFile(q, o, n)' <=> InFile(q, o, n))
    BY DEF Alone, InFile
  <2>2. CASE q \in Copying(o, n)
    <3>1. Handles(o, n)[q] = fd[q] /\ Handles(o, n)'[q] = fd'[q]
      BY <2>1, <2>2, HandlesAre, HandlesAreNext DEF Copying, InFile, Handle
    <3> QED
      BY <1>1, <2>2, <3>1 DEF TypeOK
  <2>3. CASE q \notin Copying(o, n)
    <3>1. Handles(o, n)[q] = None /\ Handles(o, n)'[q] = None
      BY <2>1, <2>3, HandlesAre, HandlesAreNext DEF Copying, InFile, Handle
    <3> QED
      BY <3>1
  <2> QED
    BY <2>2, <2>3
<1> QED
  BY <1>3, <1>4, <1>5 DEF Out!Hurt, Handles

\* The name of the file goes.
LEMMA Unlinks ==
  ASSUME TypeOK, NEW o \in Outputs, NEW n \in Names \cup {Plain}, RemoveFile(o, n),
         \A q \in Putters : pc'[q] \in InOutput => pc'[q] = pc[q]
  PROVE  Out(o, n)!Unlink
<1>1. /\ files' = [files EXCEPT ![o][n] = None]
      /\ fd' = [q \in Putters |-> IF q \in Copying(o, n) THEN None ELSE fd[q]]
      /\ call' = call
  BY DEF RemoveFile
<1>2. files'[o][n] = None
  BY <1>1, FileSet
<1>3. ASSUME NEW q \in Putters PROVE Handles(o, n)'[q] = None
  BY <1>1, HandlesAreNext DEF InFile, Handle, Copying
<1>4. Handles(o, n)' = [q \in Putters |-> None]
  BY <1>3 DEF Handles
<1> QED
  BY <1>2, <1>4 DEF Out!Unlink, Handles

LEMMA OneFile ==
  ASSUME TypeOK, NEW d, NEW k, NEW c, files' = [files EXCEPT ![d][k] = c],
         NEW o \in Outputs, NEW n \in Names \cup {Plain}
  PROVE  /\ d # o \/ k # n => files'[o][n] = files[o][n]
         /\ d = o /\ k = n => files'[o][n] = c
<1>1. files \in [Outputs -> [Names \cup {Plain} -> Contents \cup {None}]]
  BY DEF TypeOK
<1>2. CASE d = o
  <2>1. files'[o] = [files[o] EXCEPT ![k] = c]
    BY <1>1, <1>2
  <2>2. files[o] \in [Names \cup {Plain} -> Contents \cup {None}]
    BY <1>1
  <2> HIDE DEF Contents
  <2> QED
    BY <1>2, <2>1, <2>2
<1>3. CASE d # o
  BY <1>1, <1>3
<1> QED
  BY <1>2, <1>3

\* Only the put's own handle changes, or those of its file.
LEMMA OwnHandle ==
  ASSUME TypeOK, NEW p \in Putters, \A q \in Putters \ {p} : pc'[q] = pc[q],
         fd' = fd \/ \E v : fd' = [fd EXCEPT ![p] = v]
  PROVE  \A q \in Putters : q # p => Handle(q)' = Handle(q)
BY DEF Handle, TypeOK

LEMMA AloneCase ==
  ASSUME TypeOK, NEW p \in Putters, NEW l, Goto(p, l) \/ UNCHANGED pc, call' = call,
         files' = files \/ \E c : files' = [files EXCEPT ![call[p].out][call[p].name] = c],
         \A q \in Putters : q # p => Handle(q)' = Handle(q) \/ InFile(q, call[p].out, call[p].name)
  PROVE  Alone(p)
<1>1. \A q \in Putters \ {p} : pc'[q] = pc[q]
  BY DEF Goto, TypeOK
<1>2. ASSUME NEW o \in Outputs, NEW n \in Names \cup {Plain}, ~InFile(p, o, n)
      PROVE  /\ files'[o][n] = files[o][n]
             /\ \A q \in Putters : InFile(q, o, n) => Handle(q)' = Handle(q)
  <2>1. CASE files' = files
    BY <1>2, <2>1 DEF InFile
  <2>2. CASE files' # files
    <3> DEFINE d == call[p].out
               k == call[p].name
    <3>1. PICK c : files' = [files EXCEPT ![d][k] = c]
      BY <2>2
    <3>2. d # o \/ k # n
      BY <1>2 DEF InFile
    <3> HIDE DEF d, k
    <3>3. files'[o][n] = files[o][n]
      BY <3>1, <3>2, OneFile
    <3> QED
      BY <1>2, <3>3 DEF InFile
  <2> QED
    BY <2>1, <2>2
<1> QED
  BY <1>1, <1>2 DEF Alone

\* A put that leaves the file alone.
LEMMA Quietly ==
  ASSUME NEW o \in Outputs, NEW n \in Names \cup {Plain}, NEW p \in Putters,
         InFile(p, o, n), Alone(p), files'[o][n] = files[o][n],
         \A q \in Putters : Handle(q)' = Handle(q),
         \/ Stage(p)' = Stage(p)
         \/ Stage(p) = "idle" /\ Stage(p)' = "stored" /\ files[o][n] = "whole"
         \/ Stage(p) = "idle" /\ Stage(p)' = "open" /\ files[o][n] \notin {"whole", "long"}
         \/ Stage(p) = "open" /\ Stage(p)' = "stored" /\ files[o][n] # None
         \/ Stage(p) \in {"idle", "open", "stored"} /\ Stage(p)' = "error"
  PROVE  [Out(o, n)!Next]_(Out(o, n)!vars)
<1>1. UNCHANGED Handles(o, n)
  BY HandleSet DEF Alone
<1>2. CASE Stage(p)' = Stage(p)
  <2>1. \A q \in Putters : Stage(q)' = Stage(q)
    BY <1>2 DEF Alone, Stage
  <2> QED
    BY <2>1, Stutters DEF Alone
<1>3. CASE Stage(p) = "idle" /\ Stage(p)' = "stored" /\ files[o][n] = "whole"
  <2>1. Stages(o, n)[p] = "idle" /\ Out(o, n)!Goto(p, "stored")
    BY <1>3, Goes
  <2>2. Out(o, n)!Find(p)
    BY <1>1, <1>3, <2>1 DEF Out!Find, Stages, Handles
  <2> QED
    BY <2>2 DEF Out!Next, Out!PutStep
<1>4. CASE /\ Stage(p) = "idle" /\ Stage(p)' = "open" /\ files[o][n] \notin {"whole", "long"}
  <2>1. Stages(o, n)[p] = "idle" /\ Out(o, n)!Goto(p, "open")
    BY <1>4, Goes
  <2>2. Out(o, n)!Miss(p)
    BY <1>1, <1>4, <2>1 DEF Out!Miss, Out!Goto, Stages, Handles
  <2> QED
    BY <2>2 DEF Out!Next, Out!PutStep
<1>5. CASE Stage(p) = "open" /\ Stage(p)' = "stored" /\ files[o][n] # None
  <2>1. Stages(o, n)[p] = "open" /\ Out(o, n)!Goto(p, "stored")
    BY <1>5, Goes
  <2>2. Out(o, n)!Busy(p)
    BY <1>1, <1>5, <2>1 DEF Out!Busy, Stages, Handles
  <2> QED
    BY <2>2 DEF Out!Next, Out!PutStep
<1>6. CASE Stage(p) \in {"idle", "open", "stored"} /\ Stage(p)' = "error"
  <2>1. Stages(o, n)[p] \in {"idle", "open", "stored"} /\ Out(o, n)!Goto(p, "error")
    BY <1>6, Goes
  <2>2. Out(o, n)!Fails(p)
    BY <1>1, <2>1 DEF Out!Fails, Stages, Handles
  <2> QED
    BY <2>2 DEF Out!Next, Out!PutStep
<1> QED
  BY <1>2, <1>3, <1>4, <1>5, <1>6

\* The files of all outputs.
Kept == \A o \in Outputs, n \in Names \cup {Plain} : [Out(o, n)!Next]_(Out(o, n)!vars)

LEMMA OwnFile ==
  ASSUME NEW p \in Putters, Alone(p),
         \A o \in Outputs, n \in Names \cup {Plain} :
           InFile(p, o, n) => [Out(o, n)!Next]_(Out(o, n)!vars)
  PROVE  Kept
BY OtherFile DEF Kept

LEMMA QuietKeeps ==
  ASSUME TypeOK, NEW p \in Putters, NEW l \in PCs, Goto(p, l), UNCHANGED <<call, files>>,
         \A q \in Putters : q # p /\ pc[q] \in InOutput => fd'[q] = fd[q],
         LET c == files[call[p].out][call[p].name] IN
         \/ pc[p] = "idle" /\ l = "mkdir"
         \/ pc[p] = "idle" /\ l = "index" /\ c = "whole"
         \/ pc[p] \in {"idle", "mkdir"} /\ l = "open" /\ c # "whole"
         \/ pc[p] = "open" /\ l = "index" /\ c # None
         \/ pc[p] \in {"index", "write", "truncate"} /\ l \in {"write", "truncate", "remove", "ok"}
         \/ pc[p] \in {"idle", "mkdir", "open", "index", "remove"} /\ l = "error"
  PROVE  Kept
<1>1. /\ pc'[p] = l
      /\ \A q \in Putters : q # p => pc'[q] = pc[q]
  BY Went
<1>2. \A q \in Putters : Handle(q)' = Handle(q)
  BY <1>1 DEF Handle
<1>3. Alone(p)
  BY <1>2, AloneCase
<1>4. call[p].out \in Outputs /\ call[p].name \in Names \cup {Plain}
  BY CallTypes
<1>5. files[call[p].out][call[p].name] # "long"
  BY <1>4, IndexAssumption DEF TypeOK, Contents
<1>6. LET c == files[call[p].out][call[p].name] IN
      \/ Stage(p)' = Stage(p)
      \/ Stage(p) = "idle" /\ Stage(p)' = "stored" /\ c = "whole"
      \/ Stage(p) = "idle" /\ Stage(p)' = "open" /\ c # "whole"
      \/ Stage(p) = "open" /\ Stage(p)' = "stored" /\ c # None
      \/ Stage(p) \in {"idle", "open", "stored"} /\ Stage(p)' = "error"
  BY <1>1 DEF Stage
<1>7. ASSUME NEW o \in Outputs, NEW n \in Names \cup {Plain}, InFile(p, o, n)
      PROVE  [Out(o, n)!Next]_(Out(o, n)!vars)
  BY <1>2, <1>3, <1>5, <1>6, <1>7, Quietly DEF InFile
<1> QED
  BY <1>3, <1>7, OwnFile

LEMMA PutKeeps ==
  ASSUME IInv, NEW p \in Putters, Put(p) \/ Mkdir(p)
  PROVE  Kept
<1> DEFINE o == call[p].out
           n == call[p].name
<1>1. TypeOK /\ o \in Outputs /\ n \in Names \cup {Plain}
  BY CallTypes DEF IInv
<1>2. UNCHANGED <<call, files, fd>>
  BY DEF Put, Mkdir
<1>3. CASE Put(p)
  <2>1. PICK l \in {"mkdir", "open", "index", "error"} :
          /\ Goto(p, l)
          /\ l = "index" => files[o][n] = "whole"
          /\ l = "open" => files[o][n] # "whole"
    <3>1. files[o][n] # "whole" /\ (n = Plain \/ o \in dirs) /\ Goto(p, "open")
            => \E l \in {"mkdir", "open", "index", "error"} :
                 /\ Goto(p, l)
                 /\ l = "index" => files[o][n] = "whole"
                 /\ l = "open" => files[o][n] # "whole"
      OBVIOUS
    <3> QED
      BY <1>3, <3>1 DEF Put
  <2>2. pc[p] = "idle"
    BY <1>3 DEF Put
  <2> QED
    BY <1>1, <1>2, <2>1, <2>2, QuietKeeps DEF PCs
<1>4. CASE Mkdir(p)
  <2>1. PICK l \in {"open", "error"} :
          Goto(p, l) /\ (l = "open" => o \notin dirs /\ files[o][Plain] = None)
    BY <1>4 DEF Mkdir
  <2>2. pc[p] = "mkdir" /\ n # Plain
    BY <1>4 DEF Mkdir, IInv, StoredInv
  <2>3. l = "open" => files[o][n] # "whole"
    BY <1>1, <2>1, <2>2, IndexAssumption DEF TypeOK, Contents
  <2> QED
    BY <1>1, <1>2, <2>1, <2>2, <2>3, QuietKeeps DEF PCs
<1> QED
  BY <1>3, <1>4

LEMMA EntryKeeps ==
  ASSUME TypeOK, NEW p \in Putters,
         \/ OpenIndex(p) \/ WriteIndex(p) \/ Truncate(p) \/ IndexFails(p) \/ RemoveIndex(p)
  PROVE  Kept
<1>1. CASE RemoveIndex(p)
  <2>1. /\ pc[p] = "remove" /\ Goto(p, "error") /\ UNCHANGED <<call, files>>
        /\ fd' = [q \in Putters |-> IF q \in Indexing(call[p].act) THEN None ELSE fd[q]]
    BY <1>1 DEF RemoveIndex, RemoveEntry
  <2>2. \A q \in Putters : pc[q] \in InOutput => fd'[q] = fd[q]
    BY <2>1 DEF Indexing
  <2> QED
    BY <2>1, <2>2, QuietKeeps DEF PCs
<1>2. CASE OpenIndex(p) \/ WriteIndex(p) \/ Truncate(p) \/ IndexFails(p)
  <2>1. /\ pc[p] \in {"index", "write", "truncate"}
        /\ \E l \in {"write", "truncate", "remove", "ok"} : Goto(p, l)
        /\ UNCHANGED <<call, files>>
        /\ fd' = fd \/ \E v : fd' = [fd EXCEPT ![p] = v]
    BY <1>2 DEF OpenIndex, WriteIndex, Truncate, IndexFails
  <2>2. \A q \in Putters : q # p => fd'[q] = fd[q]
    BY <2>1 DEF TypeOK
  <2> QED
    BY <2>1, <2>2, QuietKeeps DEF PCs
<1> QED
  BY <1>1, <1>2

LEMMA BusyKeeps ==
  ASSUME TypeOK, NEW p \in Putters, TextBusy(p) \/ Fails(p)
  PROVE  Kept
<1>1. CASE TextBusy(p)
  <2>1. /\ pc[p] = "open" /\ Goto(p, "index") /\ UNCHANGED <<call, files, fd>>
        /\ files[call[p].out][call[p].name] # None
    BY <1>1 DEF TextBusy
  <2> QED
    BY <2>1, QuietKeeps DEF PCs
<1>2. CASE Fails(p)
  <2>1. /\ pc[p] \in {"idle", "mkdir", "open", "index"}
        /\ Goto(p, "error") /\ UNCHANGED <<call, files, fd>>
    BY <1>2 DEF Fails
  <2> QED
    BY <2>1, QuietKeeps DEF PCs
<1> QED
  BY <1>1, <1>2

\* A put that opens, writes or closes its file.
LEMMA OwnSet ==
  ASSUME TypeOK, NEW p \in Putters, NEW l \in PCs, Goto(p, l), call' = call,
         files' = files \/ \E c : files' = [files EXCEPT ![call[p].out][call[p].name] = c],
         \E v : fd' = [fd EXCEPT ![p] = v]
  PROVE  /\ Alone(p)
         /\ \A o \in Outputs, n \in Names \cup {Plain} : InFile(p, o, n) =>
              /\ Handles(o, n)[p] = Handle(p)
              /\ Handles(o, n)' = [Handles(o, n) EXCEPT ![p] = Handle(p)']
<1>1. \A q \in Putters : q # p => pc'[q] = pc[q]
  BY Went
<1>2. \A q \in Putters : q # p => Handle(q)' = Handle(q)
  BY <1>1, OwnHandle
<1>3. Alone(p)
  BY <1>2, AloneCase
<1> QED
  BY <1>2, <1>3, HandleSet

LEMMA OpenOutputKeeps ==
  ASSUME TypeOK, NEW p \in Putters, OpenOutput(p)
  PROVE  Kept
<1> DEFINE d == call[p].out
           k == call[p].name
<1>1. CASE (k = Plain) = (d \in dirs)
  <2>1. /\ pc[p] = "open" /\ Goto(p, "error") /\ UNCHANGED <<call, files, fd>>
    BY <1>1 DEF OpenOutput
  <2> QED
    BY <2>1, QuietKeeps DEF PCs
<1>2. CASE (k = Plain) # (d \in dirs)
  <2>1. /\ pc[p] = "open" /\ Goto(p, "copy") /\ call' = call
        /\ files' = [files EXCEPT ![d][k] = IF files[d][k] = None THEN "partial" ELSE files[d][k]]
        /\ fd' = [fd EXCEPT ![p] = "sound"]
    BY <1>2 DEF OpenOutput
  <2>2. pc'[p] = "copy" /\ fd'[p] = "sound"
    BY <2>1, Went DEF PCs, TypeOK
  <2>3. Stage(p) = "open" /\ Stage(p)' = "copy" /\ Handle(p)' = "sound"
    BY <2>1, <2>2 DEF Stage, Handle
  <2>4. (\E c : files' = [files EXCEPT ![d][k] = c]) /\ \E v : fd' = [fd EXCEPT ![p] = v]
    BY <2>1
  <2>5. /\ Alone(p)
        /\ \A o \in Outputs, n \in Names \cup {Plain} : InFile(p, o, n) =>
             Handles(o, n)' = [Handles(o, n) EXCEPT ![p] = Handle(p)']
    BY <2>1, <2>4, OwnSet DEF PCs
  <2>6. ASSUME NEW o \in Outputs, NEW n \in Names \cup {Plain}, InFile(p, o, n)
        PROVE  Out(o, n)!Open(p)
    <3>1. Handles(o, n)' = [Handles(o, n) EXCEPT ![p] = "sound"]
      BY <2>3, <2>5, <2>6
    <3>2. files'[o][n] = IF files[o][n] = None THEN "partial" ELSE files[o][n]
      BY <2>1, <2>6 DEF TypeOK, InFile
    <3>3. Stages(o, n)[p] = "open" /\ Out(o, n)!Goto(p, "copy")
      BY <2>3, <2>5, <2>6, Goes
    <3> QED
      BY <3>1, <3>2, <3>3 DEF Out!Open, Stages, Handles
  <2> QED
    BY <2>5, <2>6, OwnFile DEF Out!Next, Out!PutStep
<1> QED
  BY <1>1, <1>2

LEMMA MendKeeps ==
  ASSUME TypeOK, NEW p \in Putters, Mend(p)
  PROVE  Kept
<1>1. /\ pc[p] \in {"copy", "spoilt"} /\ fd[p] # None
      /\ files[call[p].out][call[p].name] = "wrong"
      /\ files' = [files EXCEPT ![call[p].out][call[p].name] = "whole"]
      /\ UNCHANGED <<pc, fd, call>>
  BY DEF Mend
<1>2. \A q \in Putters : Handle(q)' = Handle(q)
  BY <1>1 DEF Handle
<1>3. Alone(p)
  BY <1>1, <1>2, AloneCase
<1>4. ASSUME NEW o \in Outputs, NEW n \in Names \cup {Plain}, InFile(p, o, n)
      PROVE  Out(o, n)!Mend(p)
  <2>1. files[o][n] = "wrong" /\ files'[o][n] = "whole"
    BY <1>1, <1>4 DEF TypeOK, InFile
  <2>2. Stages(o, n)[p] \in {"copy", "spoilt"} /\ UNCHANGED Stages(o, n)
    BY <1>1, <1>4 DEF Stages, Stage, InFile
  <2>3. Handles(o, n)[p] # None /\ UNCHANGED Handles(o, n)
    BY <1>1, <1>2, <1>4, HandleSet DEF Handle
  <2>4. Handles(o, n)' \in Out(o, n)!Mended
    BY <2>3, HandleTypes DEF Out!Mended, Handles
  <2> QED
    BY <2>1, <2>2, <2>3, <2>4 DEF Out!Mend, Stages, Handles
<1> QED
  BY <1>3, <1>4, OwnFile DEF Out!Next, Out!PutStep

LEMMA CommitKeeps ==
  ASSUME TypeOK, NEW p \in Putters, Commit(p)
  PROVE  Kept
<1>1. /\ pc[p] = "copy" /\ Goto(p, "close") /\ call' = call
      /\ fd' = [fd EXCEPT ![p] = IF fd[p] = None THEN None ELSE "sound"]
      /\ files' = files \/ \E c : files' = [files EXCEPT ![call[p].out][call[p].name] = c]
  BY DEF Commit
<1>2. pc'[p] = "close" /\ fd'[p] = IF fd[p] = None THEN None ELSE "sound"
  BY <1>1, Went DEF PCs, TypeOK
<1>3. /\ Stage(p) = "copy" /\ Stage(p)' = "close"
      /\ Handle(p) = fd[p] /\ Handle(p)' = IF fd[p] = None THEN None ELSE "sound"
  BY <1>1, <1>2 DEF Stage, Handle
<1>4. \E v : fd' = [fd EXCEPT ![p] = v]
  BY <1>1
<1>5. /\ Alone(p)
      /\ \A o \in Outputs, n \in Names \cup {Plain} : InFile(p, o, n) =>
           /\ Handles(o, n)[p] = Handle(p)
           /\ Handles(o, n)' = [Handles(o, n) EXCEPT ![p] = Handle(p)']
  BY <1>1, <1>4, OwnSet DEF PCs
<1>6. ASSUME NEW o \in Outputs, NEW n \in Names \cup {Plain}, InFile(p, o, n)
      PROVE  Out(o, n)!Commit(p)
  <2>1. /\ Handles(o, n)[p] = fd[p]
        /\ Handles(o, n)' =
             [Handles(o, n) EXCEPT ![p] = IF fd[p] = None THEN None ELSE "sound"]
    BY <1>3, <1>5, <1>6
  <2>2. Stages(o, n)[p] = "copy" /\ Out(o, n)!Goto(p, "close")
    BY <1>3, <1>5, <1>6, Goes
  <2>3. CASE fd[p] = None
    <3>1. files' = files /\ UNCHANGED Handles(o, n)
      BY <2>1, <2>3 DEF Commit, Handles
    <3> QED
      BY <2>1, <2>2, <2>3, <3>1 DEF Out!Commit, Stages, Handles
  <2>4. CASE fd[p] # None
    <3>1. PICK c \in {"whole", "wrong"} :
            /\ files' = [files EXCEPT ![call[p].out][call[p].name] = c]
            /\ c = "wrong" => fd[p] # "sound" /\ files[call[p].out][call[p].name] # "whole"
      BY <2>4 DEF Commit
    <3>2. files'[o][n] = c /\ (c = "wrong" => fd[p] # "sound" /\ files[o][n] # "whole")
      BY <1>6, <3>1 DEF TypeOK, InFile
    <3>3. CASE fd[p] = "sound"
      <4>1. Handles(o, n)' = Handles(o, n)
        BY <2>1, <3>3 DEF Handles
      <4>2. Handles(o, n)' \in Out(o, n)!Mended
        BY <4>1, HandleTypes DEF Out!Mended, Handles
      <4> QED
        BY <2>1, <2>2, <3>2, <3>3, <4>2 DEF Out!Commit, Stages, Handles
    <3>4. CASE fd[p] = "holed"
      <4>1. Handles(o, n)' = [Handles(o, n) EXCEPT ![p] = "sound"]
        BY <2>1, <2>4
      <4> QED
        BY <2>1, <2>2, <3>2, <3>4, <4>1 DEF Out!Commit, Stages, Handles
    <3> QED
      BY <2>4, <3>3, <3>4 DEF TypeOK
  <2> QED
    BY <2>1, <2>3, <2>4
<1> QED
  BY <1>5, <1>6, OwnFile DEF Out!Next, Out!PutStep

LEMMA CloseKeeps ==
  ASSUME TypeOK, NEW p \in Putters, CloseOutput(p)
  PROVE  Kept
<1>1. /\ pc[p] = "close" /\ Goto(p, "index") /\ UNCHANGED <<call, files>>
      /\ fd' = [fd EXCEPT ![p] = None]
  BY DEF CloseOutput
<1>2. pc'[p] = "index"
  BY <1>1, Went DEF PCs
<1>3. Stage(p) = "close" /\ Stage(p)' = "stored" /\ Handle(p)' = None
  BY <1>1, <1>2 DEF Stage, Handle
<1>4. /\ Alone(p)
      /\ \A o \in Outputs, n \in Names \cup {Plain} : InFile(p, o, n) =>
           Handles(o, n)' = [Handles(o, n) EXCEPT ![p] = Handle(p)']
  BY <1>1, OwnSet DEF PCs
<1>5. ASSUME NEW o \in Outputs, NEW n \in Names \cup {Plain}, InFile(p, o, n)
      PROVE  Out(o, n)!Close(p)
  <2>1. Stages(o, n)[p] = "close" /\ Out(o, n)!Goto(p, "stored")
    BY <1>3, <1>4, <1>5, Goes
  <2>2. Handles(o, n)' = [Handles(o, n) EXCEPT ![p] = None]
    BY <1>3, <1>4, <1>5
  <2> QED
    BY <1>1, <2>1, <2>2 DEF Out!Close, Stages, Handles
<1> QED
  BY <1>4, <1>5, OwnFile DEF Out!Next, Out!PutStep

LEMMA CrashKeeps ==
  ASSUME TypeOK, NEW p \in Putters, Crash(p)
  PROVE  Kept
<1>1. /\ pc[p] \notin {"idle", "ok", "error", "killed"} /\ Goto(p, "killed")
      /\ UNCHANGED <<call, files>> /\ fd' = [fd EXCEPT ![p] = None]
  BY DEF Crash
<1>2. pc'[p] = "killed"
  BY <1>1, Went DEF PCs
<1>3. Stage(p) \notin {"error", "killed"} /\ Stage(p)' = "killed" /\ Handle(p)' = None
  BY <1>1, <1>2 DEF Stage, Handle
<1>4. /\ Alone(p)
      /\ \A o \in Outputs, n \in Names \cup {Plain} : InFile(p, o, n) =>
           Handles(o, n)' = [Handles(o, n) EXCEPT ![p] = Handle(p)']
  BY <1>1, OwnSet DEF PCs
<1>5. ASSUME NEW o \in Outputs, NEW n \in Names \cup {Plain}, InFile(p, o, n)
      PROVE  Out(o, n)!Crash(p)
  <2>1. Stages(o, n)[p] \notin {"error", "killed"} /\ Out(o, n)!Goto(p, "killed")
    BY <1>3, <1>4, <1>5, Goes
  <2>2. Handles(o, n)' = [Handles(o, n) EXCEPT ![p] = None]
    BY <1>3, <1>4, <1>5
  <2> QED
    BY <1>1, <2>1, <2>2 DEF Out!Crash, Stages, Handles
<1> QED
  BY <1>4, <1>5, OwnFile DEF Out!Next, Out!PutStep

\* A put fails while it copies: it loses its file, or the file suffers.
LEMMA Suffers ==
  ASSUME TypeOK, NEW p \in Putters, pc[p] \in InOutput,
         NEW l \in PCs, Goto(p, l), call' = call,
         NEW c, NEW v \in {None, "holed"}, v = None <=> l \notin InOutput,
         fd[p] # None, Harm(p, c, v)
  PROVE  /\ Alone(p)
         /\ \A o \in Outputs, n \in Names \cup {Plain} : InFile(p, o, n) =>
              /\ files'[o][n] = c
              /\ Handles(o, n)[p] # None
              /\ Handles(o, n)' \in Out(o, n)!Hurt(p, v)
<1> DEFINE d == call[p].out
           k == call[p].name
<1>1. /\ files' = [files EXCEPT ![d][k] = c]
      /\ fd' = [q \in Putters |->
                  IF q = p THEN v
                  ELSE IF q \in Copying(d, k) /\ fd[q] # None THEN "holed" ELSE fd[q]]
  BY DEF Harm
<1>2. /\ pc'[p] = l /\ fd'[p] = v
      /\ \A q \in Putters : q # p => pc'[q] = pc[q]
  BY <1>1, Went
<1>3. ASSUME NEW q \in Putters, q # p, ~InFile(q, d, k)
      PROVE  Handle(q)' = Handle(q)
  BY <1>1, <1>2, <1>3 DEF Handle, Copying, InFile
<1>4. \E b : files' = [files EXCEPT ![d][k] = b]
  BY <1>1
<1>5. Alone(p)
  BY <1>3, <1>4, AloneCase
<1>6. Handle(p)' = v /\ Handle(p) # None
  BY <1>2, IndexAssumption DEF Handle
<1>7. ASSUME NEW o \in Outputs, NEW n \in Names \cup {Plain}, InFile(p, o, n)
      PROVE  /\ files'[o][n] = c
             /\ Handles(o, n)[p] # None
             /\ Handles(o, n)' \in Out(o, n)!Hurt(p, v)
  <2>1. files'[o][n] = c
    BY <1>1, <1>7 DEF TypeOK, InFile
  <2>2. Handles(o, n)[p] # None
    BY <1>6, <1>7, HandlesAre
  <2>3. v \in {None, "sound", "holed"}
    OBVIOUS
  <2>4. Handles(o, n)' \in Out(o, n)!Hurt(p, v)
    BY <1>5, <1>6, <1>7, <2>3, HandlesHurt
  <2> QED
    BY <2>1, <2>2, <2>4
<1> QED
  BY <1>5, <1>7

LEMMA SpoilKeeps ==
  ASSUME TypeOK, NEW p \in Putters, Spoil(p)
  PROVE  Kept
<1> DEFINE c == files[call[p].out][call[p].name]
<1>1. pc[p] \in {"copy", "spoilt"} /\ Goto(p, "spoilt") /\ call' = call
  BY DEF Spoil, Blame
<1>2. pc'[p] = "spoilt"
  BY <1>1, Went DEF PCs
<1>3. Stage(p) \in {"copy", "spoilt"} /\ Stage(p)' = "spoilt"
  BY <1>1, <1>2 DEF Stage
<1>4. CASE fd[p] = None
  <2>1. UNCHANGED <<files, fd>> /\ fd' = [fd EXCEPT ![p] = None]
    BY <1>4 DEF Spoil, TypeOK
  <2>2. Handle(p) = None /\ Handle(p)' = None
    BY <1>4, <2>1 DEF Handle
  <2>3. /\ Alone(p)
        /\ \A o \in Outputs, n \in Names \cup {Plain} : InFile(p, o, n) =>
             /\ Handles(o, n)[p] = Handle(p)
             /\ Handles(o, n)' = [Handles(o, n) EXCEPT ![p] = Handle(p)']
    BY <1>1, <2>1, OwnSet DEF PCs
  <2>4. ASSUME NEW o \in Outputs, NEW n \in Names \cup {Plain}, InFile(p, o, n)
        PROVE  Out(o, n)!Spoil(p)
    <3>1. Stages(o, n)[p] \in {"copy", "spoilt"} /\ Out(o, n)!Goto(p, "spoilt")
      BY <1>3, <2>3, <2>4, Goes
    <3>2. \A q \in Putters : q # p => Handle(q)' = Handle(q)
      BY <2>1, <2>3 DEF Alone, Handle
    <3>3. Handles(o, n)[p] = None /\ UNCHANGED Handles(o, n)
      BY <2>2, <2>3, <2>4, <3>2, HandleSet DEF Alone
    <3> QED
      BY <2>1, <3>1, <3>3 DEF Out!Spoil, Stages, Handles
  <2> QED
    BY <2>3, <2>4, OwnFile DEF Out!Next, Out!PutStep
<1>5. CASE fd[p] # None
  <2>1. Harm(p, Worse(c), "holed")
    BY <1>5 DEF Spoil
  <2>2. /\ Alone(p)
        /\ \A o \in Outputs, n \in Names \cup {Plain} : InFile(p, o, n) =>
             /\ files'[o][n] = Worse(c)
             /\ Handles(o, n)[p] # None
             /\ Handles(o, n)' \in Out(o, n)!Hurt(p, "holed")
    BY <1>1, <1>5, <2>1, Suffers, IndexAssumption DEF PCs
  <2>3. ASSUME NEW o \in Outputs, NEW n \in Names \cup {Plain}, InFile(p, o, n)
        PROVE  Out(o, n)!Spoil(p)
    <3>1. Stages(o, n)[p] \in {"copy", "spoilt"} /\ Out(o, n)!Goto(p, "spoilt")
      BY <1>3, <2>2, <2>3, Goes
    <3>2. files'[o][n] = IF files[o][n] = "whole" THEN "wrong" ELSE files[o][n]
      BY <2>2, <2>3 DEF InFile, Worse
    <3> QED
      BY <2>2, <2>3, <3>1, <3>2 DEF Out!Spoil, Stages, Handles
  <2> QED
    BY <2>2, <2>3, OwnFile DEF Out!Next, Out!PutStep
<1> QED
  BY <1>4, <1>5

LEMMA FailKeeps ==
  ASSUME TypeOK, NEW p \in Putters, CopyFails(p) \/ CloseFails(p)
  PROVE  Kept
<1> DEFINE c == files[call[p].out][call[p].name]
<1>1. PICK l \in {"error", "drop"}, b \in {"partial", Worse(c)} :
        /\ Goto(p, l)
        /\ l = "error" => pc[p] \in {"copy", "spoilt"} /\ b = "partial"
        /\ l = "drop" => pc[p] = "close" /\ b = Worse(c)
        /\ \/ fd' = [fd EXCEPT ![p] = None] /\ UNCHANGED files
           \/ fd[p] # None /\ Harm(p, b, None)
  <2>1. CASE CopyFails(p)
    <3>1. /\ pc[p] \in {"copy", "spoilt"} /\ Goto(p, "error")
          /\ \/ fd' = [fd EXCEPT ![p] = None] /\ UNCHANGED files
             \/ fd[p] # None /\ Harm(p, "partial", None)
      BY <2>1 DEF CopyFails
    <3> QED
      BY <3>1
  <2>2. CASE CloseFails(p)
    <3>1. /\ pc[p] = "close" /\ Goto(p, "drop")
          /\ \/ fd' = [fd EXCEPT ![p] = None] /\ UNCHANGED files
             \/ fd[p] # None /\ Harm(p, Worse(c), None)
      BY <2>2 DEF CloseFails
    <3> QED
      BY <3>1
  <2> QED
    BY <2>1, <2>2
<1>2. call' = call /\ pc[p] \in InOutput /\ l \in PCs /\ l \notin InOutput
  BY <1>1 DEF CopyFails, CloseFails, Blame, PCs
<1>3. pc'[p] = l
  BY <1>1, <1>2, Went
<1>4. Stage(p) = pc[p] /\ Stage(p)' = l /\ Handle(p)' = None
  BY <1>1, <1>2, <1>3 DEF Stage, Handle
<1>5. CASE fd' = [fd EXCEPT ![p] = None] /\ UNCHANGED files
  <2>1. \E v : fd' = [fd EXCEPT ![p] = v]
    BY <1>5
  <2>2. /\ Alone(p)
        /\ \A o \in Outputs, n \in Names \cup {Plain} : InFile(p, o, n) =>
             Handles(o, n)' = [Handles(o, n) EXCEPT ![p] = Handle(p)']
    BY <1>1, <1>2, <1>5, <2>1, OwnSet
  <2>3. ASSUME NEW o \in Outputs, NEW n \in Names \cup {Plain}, InFile(p, o, n)
        PROVE  Out(o, n)!Abort(p) \/ Out(o, n)!CloseFails(p)
    <3>1. Stages(o, n)[p] = pc[p] /\ Out(o, n)!Goto(p, l)
      BY <1>4, <2>2, <2>3, Goes
    <3>2. Handles(o, n)' = [Handles(o, n) EXCEPT ![p] = None]
      BY <1>4, <2>2, <2>3
    <3>3. l = "error" => Out(o, n)!Abort(p)
      BY <1>1, <1>5, <3>1, <3>2 DEF Out!Abort, Stages, Handles
    <3>4. l = "drop" => Out(o, n)!CloseFails(p)
      BY <1>1, <1>5, <3>1, <3>2 DEF Out!CloseFails, Stages, Handles
    <3> QED
      BY <3>3, <3>4
  <2> QED
    BY <2>2, <2>3, OwnFile DEF Out!Next, Out!PutStep
<1>6. CASE fd[p] # None /\ Harm(p, b, None)
  <2>1. /\ Alone(p)
        /\ \A o \in Outputs, n \in Names \cup {Plain} : InFile(p, o, n) =>
             /\ files'[o][n] = b
             /\ Handles(o, n)[p] # None
             /\ Handles(o, n)' \in Out(o, n)!Hurt(p, None)
    BY <1>1, <1>2, <1>6, Suffers
  <2>2. ASSUME NEW o \in Outputs, NEW n \in Names \cup {Plain}, InFile(p, o, n)
        PROVE  Out(o, n)!Abort(p) \/ Out(o, n)!CloseFails(p)
    <3>1. Stages(o, n)[p] = pc[p] /\ Out(o, n)!Goto(p, l)
      BY <1>4, <2>1, <2>2, Goes
    <3>2. /\ files'[o][n] = b
          /\ Handles(o, n)[p] # None
          /\ Handles(o, n)' \in Out(o, n)!Hurt(p, None)
      BY <2>1, <2>2
    <3>3. l = "error" => Out(o, n)!Abort(p)
      BY <1>1, <3>1, <3>2 DEF Out!Abort, Stages, Handles
    <3>4. l = "drop" => files'[o][n] = IF files[o][n] = "whole" THEN "wrong" ELSE files[o][n]
      BY <1>1, <2>2, <3>2 DEF InFile, Worse
    <3>5. l = "drop" => Out(o, n)!CloseFails(p)
      BY <1>1, <3>1, <3>2, <3>4 DEF Out!CloseFails, Stages, Handles
    <3> QED
      BY <3>3, <3>5
  <2> QED
    BY <2>1, <2>2, OwnFile DEF Out!Next, Out!PutStep
<1> QED
  BY <1>1, <1>5, <1>6

\* What the removal of one file leaves alone.
LEMMA OtherUnlinked ==
  ASSUME TypeOK, NEW d \in Outputs, NEW k \in Names \cup {Plain}, RemoveFile(d, k),
         \A q \in Putters : pc'[q] = pc[q] \/ (InFile(q, d, k) /\ pc[q] = "drop" /\ pc'[q] = "error"),
         NEW o \in Outputs, NEW n \in Names \cup {Plain}, o # d \/ n # k
  PROVE  UNCHANGED Out(o, n)!vars
<1>1. /\ files' = [files EXCEPT ![d][k] = None]
      /\ fd' = [q \in Putters |-> IF q \in Copying(d, k) THEN None ELSE fd[q]]
      /\ call' = call
  BY DEF RemoveFile
<1>2. files'[o][n] = files[o][n]
  BY <1>1, OneFile
<1>3. ASSUME NEW q \in Putters, InFile(q, o, n)
      PROVE  Stage(q)' = Stage(q) /\ Handle(q)' = Handle(q)
  <2>1. pc'[q] = pc[q] /\ fd'[q] = fd[q]
    BY <1>1, <1>3 DEF InFile, Copying
  <2> QED
    BY <2>1 DEF Stage, Handle
<1> QED
  BY <1>1, <1>2, <1>3, Stutters

LEMMA DropKeeps ==
  ASSUME TypeOK, NEW p \in Putters, RemoveOutput(p)
  PROVE  Kept
<1> DEFINE d == call[p].out
           k == call[p].name
<1>1. pc[p] = "drop" /\ RemoveFile(d, k) /\ Goto(p, "error") /\ call' = call
  BY DEF RemoveOutput, RemoveFile
<1>2. /\ pc'[p] = "error"
      /\ \A q \in Putters : q # p => pc'[q] = pc[q]
  BY <1>1, Went DEF PCs
<1>3. d \in Outputs /\ k \in Names \cup {Plain} /\ InFile(p, d, k)
  BY CallTypes DEF InFile
<1>4. Stage(p) = "drop" /\ Stage(p)' = "error"
  BY <1>1, <1>2 DEF Stage
<1>5. ASSUME NEW o \in Outputs, NEW n \in Names \cup {Plain}, InFile(p, o, n)
      PROVE  Out(o, n)!Drop(p)
  <2>1. RemoveFile(o, n)
    BY <1>1, <1>5 DEF InFile
  <2>2. Out(o, n)!Unlink
    BY <1>2, <2>1, Unlinks
  <2>3. \A q \in Putters : q # p => Stage(q)' = Stage(q)
    BY <1>2 DEF Stage
  <2>4. Stages(o, n)[p] = "drop" /\ Stages(o, n)' = [Stages(o, n) EXCEPT ![p] = "error"]
    BY <1>1, <1>4, <1>5, <2>3 DEF Stages, InFile
  <2> QED
    BY <2>2, <2>4 DEF Out!Drop, Out!Goto, Stages
<1>6. ASSUME NEW o \in Outputs, NEW n \in Names \cup {Plain}, ~InFile(p, o, n)
      PROVE  UNCHANGED Out(o, n)!vars
  <2>1. o # d \/ n # k
    BY <1>6 DEF InFile
  <2>2. \A q \in Putters :
          pc'[q] = pc[q] \/ (InFile(q, d, k) /\ pc[q] = "drop" /\ pc'[q] = "error")
    BY <1>1, <1>2, <1>3
  <2> HIDE DEF d, k
  <2> QED
    BY <1>1, <1>3, <2>1, <2>2, OtherUnlinked
<1> QED
  BY <1>5, <1>6 DEF Kept, Out!Next, Out!PutStep

LEMMA TrimKeeps ==
  ASSUME TypeOK, Trim
  PROVE  Kept
<1>1. ASSUME NEW a \in Actions, TrimEntry(a) PROVE Kept
  <2>1. /\ UNCHANGED <<pc, files, call>>
        /\ fd' = [q \in Putters |-> IF q \in Indexing(a) THEN None ELSE fd[q]]
    BY <1>1 DEF TrimEntry, RemoveEntry
  <2>2. \A q \in Putters : Stage(q)' = Stage(q) /\ Handle(q)' = Handle(q)
    BY <2>1 DEF Stage, Handle, Indexing
  <2> QED
    BY <2>1, <2>2, Stutters DEF Kept
<1>2. ASSUME NEW d \in Outputs, TrimDir(d) PROVE Kept
  <2>1. UNCHANGED <<pc, fd, files, call>>
    BY <1>2 DEF TrimDir
  <2>2. \A q \in Putters : Stage(q)' = Stage(q) /\ Handle(q)' = Handle(q)
    BY <2>1 DEF Stage, Handle
  <2> QED
    BY <2>1, <2>2, Stutters DEF Kept
<1>3. ASSUME NEW d \in Outputs, NEW k \in Names \cup {Plain}, TrimFile(d, k) PROVE Kept
  <2>1. files[d][k] # None /\ RemoveFile(d, k) /\ UNCHANGED <<pc, call>>
    BY <1>3 DEF TrimFile, RemoveFile
  <2>2. Out(d, k)!Unlink
    BY <2>1, Unlinks
  <2>3. UNCHANGED Stages(d, k)
    BY <2>1 DEF Stages, Stage
  <2>4. Out(d, k)!Trim
    BY <2>1, <2>2, <2>3 DEF Out!Trim, Stages
  <2>5. ASSUME NEW o \in Outputs, NEW n \in Names \cup {Plain}, o # d \/ n # k
        PROVE  UNCHANGED Out(o, n)!vars
    BY <2>1, <2>5, OtherUnlinked
  <2> QED
    BY <2>4, <2>5 DEF Kept, Out!Next
<1> QED
  BY <1>1, <1>2, <1>3 DEF Trim

\* Gets change no output.
LEMMA StayKeeps ==
  ASSUME UNCHANGED <<putVars, call>>
  PROVE  Kept
<1>1. UNCHANGED <<pc, fd, files, call>>
  BY DEF putVars
<1>2. \A q \in Putters : Stage(q)' = Stage(q) /\ Handle(q)' = Handle(q)
  BY <1>1 DEF Stage, Handle
<1> QED
  BY <1>1, <1>2, Stutters DEF Kept

LEMMA StepKeeps ==
  ASSUME IInv, [Next]_vars
  PROVE  Kept
<1>1. TypeOK
  BY DEF IInv
<1>2. ASSUME NEW p \in Putters, PutStep(p)
      PROVE  Kept
  BY <1>1, <1>2, PutKeeps, OpenOutputKeeps, BusyKeeps, MendKeeps, SpoilKeeps, CommitKeeps,
     CloseKeeps, FailKeeps, DropKeeps, EntryKeeps, CrashKeeps DEF PutStep
<1>3. ASSUME NEW g \in Getters, GetStep(g)
      PROVE  Kept
  BY <1>3, StayKeeps DEF GetStep, Get, OutputFile, StatFile, Return
<1>4. CASE Trim
  BY <1>1, <1>4, TrimKeeps
<1>5. CASE UNCHANGED vars
  BY <1>5, StayKeeps DEF vars
<1> QED
  BY <1>2, <1>3, <1>4, <1>5 DEF Next

LEMMA InitKept ==
  ASSUME Init, NEW o \in Outputs, NEW n \in Names \cup {Plain}
  PROVE  Out(o, n)!Init
<1>1. files[o][n] = None
  BY DEF Init
<1>2. \A p \in Putters : Stage(p) = "idle" /\ p \notin Copying(o, n)
  BY DEF Init, Stage, Copying
<1> QED
  BY <1>1, <1>2 DEF Out!Init

\* All that Index has of an output's file is what OutputFile, which copyFile
\* implements, says of it: for any number of puts, in whatever forms, with
\* their entries, gets and trims beside them.
THEOREM OutputsCorrect == Spec => OutputsAreKept
<1>1. ASSUME NEW o \in Outputs, NEW n \in Names \cup {Plain}
      PROVE  Spec => Out(o, n)!Spec
  <2>1. Init => Out(o, n)!Init
    BY InitKept
  <2>2. IInv /\ [Next]_vars => [Out(o, n)!Next]_(Out(o, n)!vars)
    BY StepKeeps DEF Kept
  <2> QED
    BY <2>1, <2>2, Invariant, PTL DEF Spec, Out!Spec
<1> QED
  BY <1>1 DEF OutputsAreKept

=============================================================================
