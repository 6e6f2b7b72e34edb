-------------------------- MODULE LockedFileProofs --------------------------
(***************************************************************************)
(* The types of LockedFile, that what is locked is stable, that its two    *)
(* locks are taken in one order, and that it implements AtomicFile, for    *)
(* any threads, processes, contents and functions given to Transform.      *)
(***************************************************************************)
EXTENDS LockedFile, TLAPS

Locked ==
  {"truncate", "copy", "read", "apply", "tail", "head", "shrink", "rollback",
   "mu", "held", "close"}

\* A thread is in the part of the code its call leads to.
CallInv(p) ==
  /\ th[p].call = None <=> At(p, "idle")
  /\ th[p].pc \in {"truncate", "copy"} => Op(p) = "write"
  /\ At(p, "read") => Op(p) \in {"read", "transform"}
  /\ th[p].pc \in {"apply", "tail", "head", "shrink", "rollback"} =>
       Op(p) = "transform"
  /\ th[p].pc \in {"mu", "held"} => Op(p) = "mutex"
  /\ th[p].pc \in {"idle", "open", "lock", "truncate", "copy", "mu", "held"} =>
       th[p].buf = <<>>
  /\ th[p].pc \in {"idle", "open", "lock", "truncate", "read", "apply"} =>
       th[p].off = 0

\* It has the lock its call asks for, from Lock to Close, and then the file
\* exists.
LockInv(p) ==
  /\ mode[p] = IF th[p].pc \notin Locked THEN "none"
               ELSE IF Op(p) = "read" THEN "read" ELSE "write"
  /\ th[p].pc \in Locked \cup {"lock"} => file # None

\* s and t agree on their first n bytes.
Agree(s, t, n) == \A i \in 1..n : s[i] = t[i]

\* What a thread with the lock knows of the file.
ReadInv(p) ==
  /\ At(p, "read") =>
       Len(th[p].buf) <= Len(file) /\ Agree(th[p].buf, file, Len(th[p].buf))
  /\ At(p, "read") /\ Op(p) = "transform" => base = file
  /\ At(p, "apply") => base = file /\ th[p].buf = file
  /\ At(p, "copy") => th[p].off <= Len(file)

WriteInv(p) ==
  /\ th[p].pc \in {"tail", "head", "shrink", "rollback"} =>
       th[p].buf = base /\ Len(base) <= Len(file)
  /\ At(p, "tail") =>
       /\ Len(base) <= th[p].off /\ th[p].off <= Len(New(p))
       /\ Len(file) = th[p].off
       /\ Agree(base, file, Len(base))
  /\ th[p].pc \in {"head", "shrink", "rollback"} => Len(New(p)) <= Len(file)
  /\ At(p, "head") => th[p].off <= HeadLen(p)
  /\ At(p, "shrink") => Len(New(p)) < Len(base)
  /\ At(p, "rollback") =>
       io /\ th[p].off <= Len(base) /\ Agree(base, file, th[p].off)

CloseInv(p) ==
  At(p, "close") /\ Op(p) = "transform" =>
    /\ th[p].res = "failed" => file = base
    /\ th[p].res = "torn" => io
    /\ \/ Len(New(p)) <= Len(file)
       \/ Len(th[p].buf) <= Len(file) /\ Agree(th[p].buf, file, Len(th[p].buf))

ThreadInv(p) ==
  CallInv(p) /\ LockInv(p) /\ ReadInv(p) /\ WriteInv(p) /\ CloseInv(p)

\* Who holds the exclusive lock holds the only one.
Exclusion ==
  \A p, q \in Threads : p # q /\ mode[p] = "write" => mode[q] = "none"

\* Mutex.mu is held from MuLock to MuUnlock.
MuInv == \A p \in Threads : \A P \in Processes :
  p \in mu[P] <=> At(p, "held") /\ Home[p] = P

IInv ==
  /\ TypeOK /\ Exclusion /\ MuInv
  /\ \A p \in Threads : ThreadInv(p)

-----------------------------------------------------------------------------
LEMMA ContentsAre ==
  /\ \A s \in Contents : s \in Seq(Bytes) /\ Len(s) \in 0..MaxLen /\ DOMAIN s = 1..Len(s)
  /\ \A s \in Seq(Bytes) : Len(s) <= MaxLen => s \in Contents
  /\ <<>> \in Contents
<1> USE ContentsAssumption DEF Contents
<1>1. ASSUME NEW s \in Contents
      PROVE  s \in Seq(Bytes) /\ Len(s) \in 0..MaxLen /\ DOMAIN s = 1..Len(s)
  <2>1. PICK n \in 0..MaxLen : s \in [1..n -> Bytes]
    OBVIOUS
  <2> QED
    BY <2>1
<1>2. ASSUME NEW s \in Seq(Bytes), Len(s) <= MaxLen PROVE s \in Contents
  <2>1. Len(s) \in 0..MaxLen /\ s \in [1..Len(s) -> Bytes]
    BY <1>2
  <2> QED
    BY <2>1
<1>3. <<>> \in Contents
  <2>1. <<>> \in Seq(Bytes) /\ Len(<<>>) <= MaxLen
    OBVIOUS
  <2> QED
    BY <2>1, <1>2
<1> QED
  BY <1>1, <1>2, <1>3

\* What one byte of a write does, at an offset within the file or at its end.
LEMMA OverwriteFacts ==
  ASSUME NEW s \in Contents, NEW i \in 1..MaxLen, NEW b \in Bytes, i <= Len(s) + 1
  PROVE  /\ Overwrite(s, i, b) \in Contents
         /\ Len(Overwrite(s, i, b)) = IF i <= Len(s) THEN Len(s) ELSE i
         /\ Overwrite(s, i, b)[i] = b
         /\ \A j \in 1..Len(s) : j # i => Overwrite(s, i, b)[j] = s[j]
<1>1. s \in Seq(Bytes) /\ Len(s) \in Nat /\ Len(s) <= MaxLen /\ MaxLen \in Nat
  BY ContentsAre, ContentsAssumption
<1>2. ASSUME NEW t \in Seq(Bytes), Len(t) <= MaxLen PROVE t \in Contents
  BY <1>2, ContentsAre
<1>3. CASE i <= Len(s)
  <2>1. Overwrite(s, i, b) = [s EXCEPT ![i] = b]
    BY <1>3 DEF Overwrite
  <2>2. /\ [s EXCEPT ![i] = b] \in Seq(Bytes) /\ Len([s EXCEPT ![i] = b]) = Len(s)
        /\ [s EXCEPT ![i] = b][i] = b
        /\ \A j \in 1..Len(s) : j # i => [s EXCEPT ![i] = b][j] = s[j]
    BY <1>1, <1>3
  <2> QED
    BY <2>1, <2>2, <1>1, <1>2, <1>3
<1>4. CASE i = Len(s) + 1
  <2>1. Overwrite(s, i, b) = Append(s, b)
    BY <1>1, <1>4 DEF Overwrite
  <2>2. /\ Append(s, b) \in Seq(Bytes) /\ Len(Append(s, b)) = i
        /\ Append(s, b)[i] = b
        /\ \A j \in 1..Len(s) : Append(s, b)[j] = s[j]
    BY <1>1, <1>4
  <2>3. ~(i <= Len(s)) /\ i <= MaxLen
    BY <1>1, <1>4
  <2> QED
    BY <2>1, <2>2, <2>3, <1>2
<1> QED
  BY <1>1, <1>3, <1>4

\* f.Truncate to no more than the length.
LEMMA CutFacts ==
  ASSUME NEW s \in Contents, NEW n \in Nat, n <= Len(s)
  PROVE  /\ Cut(s, n) \in Contents /\ Len(Cut(s, n)) = n
         /\ \A i \in 1..n : Cut(s, n)[i] = s[i]
<1>1. s \in Seq(Bytes) /\ Len(s) \in Nat /\ Len(s) <= MaxLen
  BY ContentsAre, ContentsAssumption
<1>2. Cut(s, n) \in Seq(Bytes) /\ Len(Cut(s, n)) = n /\ \A i \in 1..n : Cut(s, n)[i] = s[i]
  BY <1>1 DEF Cut
<1> QED
  BY <1>1, <1>2, ContentsAre, ContentsAssumption

\* Contents of the same length that agree are the same.
LEMMA SameContents ==
  ASSUME NEW s \in Contents, NEW t \in Contents, Len(s) = Len(t), Agree(s, t, Len(s))
  PROVE  s = t
BY ContentsAre DEF Agree

LEMMA AgreeIsStart ==
  ASSUME NEW s \in Contents, NEW t \in Contents, Len(s) <= Len(t)
  PROVE  Agree(s, t, Len(s)) <=> IsStart(s, t)
<1>1. Len(s) \in Nat
  BY ContentsAre
<1>2. Cut(t, Len(s)) \in Contents /\ Len(Cut(t, Len(s))) = Len(s)
      /\ \A i \in 1..Len(s) : Cut(t, Len(s))[i] = t[i]
  BY <1>1, CutFacts
<1>3. ASSUME Agree(s, t, Len(s)) PROVE s = Cut(t, Len(s))
  BY <1>2, <1>3, SameContents DEF Agree
<1>4. ASSUME s = Cut(t, Len(s)) PROVE Agree(s, t, Len(s))
  BY <1>2, <1>4 DEF Agree
<1> QED
  BY <1>3, <1>4 DEF IsStart

-----------------------------------------------------------------------------
\* A thread's local variables, and what its call is going to write.
LEMMA LocalTypes ==
  ASSUME TypeOK, NEW p \in Threads
  PROVE  /\ th[p].pc \in PCs /\ th[p].call \in Calls \cup {None}
         /\ th[p].buf \in Contents
         /\ th[p].off \in Nat /\ th[p].off <= MaxLen
         /\ th[p].res \in {"ok", "failed", "torn"}
BY ContentsAssumption DEF TypeOK, Locals

LEMMA NewType ==
  ASSUME TypeOK, NEW p \in Threads, th[p].call # None,
         Op(p) \in {"write", "transform"}
  PROVE  New(p) \in Contents
<1>1. th[p].call \in Calls /\ th[p].buf \in Contents
  BY LocalTypes
<1>2. CASE Op(p) = "write"
  <2>1. th[p].call.data \in Data
    BY <1>1, <1>2 DEF Calls, Op
  <2> QED
    BY <1>2, <2>1, ContentsAssumption DEF New
<1>3. CASE Op(p) = "transform"
  <2>1. th[p].call.by \in Transforms
    BY <1>1, <1>3 DEF Calls, Op
  <2> QED
    BY <1>1, <1>3, <2>1, ContentsAssumption DEF New
<1> QED
  BY <1>2, <1>3

-----------------------------------------------------------------------------
\* What a step of somebody else may do to a thread.
LEMMA OutsideStep ==
  ASSUME NEW q \in Threads, ThreadInv(q),
         th'[q] = th[q], mode'[q] = mode[q], io' = io,
         mode[q] # "none" => file' = file,
         mode[q] = "write" => base' = base,
         file # None => file' # None
  PROVE  ThreadInv(q)'
<1> USE DEF ThreadInv, At, Op, New, HeadLen
<1>1. CallInv(q)' /\ LockInv(q)'
  BY DEF CallInv, LockInv, Locked
<1>2. CASE th[q].pc \notin Locked
  BY <1>1, <1>2 DEF Locked, ReadInv, WriteInv, CloseInv
<1>3. CASE th[q].pc \in Locked
  <2>1. file' = file
    BY <1>3 DEF LockInv
  <2>2. Op(q) # "read" => base' = base
    BY <1>3 DEF LockInv
  <2>3. ReadInv(q)'
    BY <2>1, <2>2 DEF ReadInv, CallInv
  <2>4. WriteInv(q)' /\ CloseInv(q)'
    BY <2>1, <2>2 DEF WriteInv, CallInv, CloseInv
  <2> QED
    BY <1>1, <2>3, <2>4
<1> QED
  BY <1>2, <1>3

\* What a step of a thread does to its own variables.
Moves(p, l, call, buf, off, res) ==
  th' = [th EXCEPT ![p] =
          [pc |-> l, call |-> call, buf |-> buf, off |-> off, res |-> res]]

LEMMA MovesFacts ==
  ASSUME TypeOK, NEW p \in Threads, NEW l \in PCs, NEW c \in Calls \cup {None},
         NEW b \in Contents, NEW o \in 0..MaxLen, NEW r \in {"ok", "failed", "torn"},
         Moves(p, l, c, b, o, r)
  PROVE  /\ th' \in [Threads -> Locals]
         /\ th'[p].pc = l /\ th'[p].call = c /\ th'[p].buf = b
         /\ th'[p].off = o /\ th'[p].res = r
         /\ \A q \in Threads : q # p => th'[q] = th[q]
BY DEF Moves, TypeOK, Locals

\* The forms in which the actions are written.
LEMMA ActionMoves ==
  ASSUME TypeOK, NEW p \in Threads
  PROVE  /\ \A l : Goto(p, l) =>
              Moves(p, l, th[p].call, th[p].buf, th[p].off, th[p].res)
         /\ \A l, r : End(p, l, r) =>
              Moves(p, l, th[p].call, th[p].buf, th[p].off, r)
         /\ \A l, o : th' = [th EXCEPT ![p].pc = l, ![p].off = o] =>
              Moves(p, l, th[p].call, th[p].buf, o, th[p].res)
         /\ th' = [th EXCEPT ![p].off = @ + 1] =>
              Moves(p, th[p].pc, th[p].call, th[p].buf, th[p].off + 1, th[p].res)
         /\ \A b : th' = [th EXCEPT ![p].buf = Append(@, b)] =>
              Moves(p, th[p].pc, th[p].call, Append(th[p].buf, b), th[p].off, th[p].res)
         /\ \A c : th' = [th EXCEPT ![p].pc = "open", ![p].call = c] =>
              Moves(p, "open", c, th[p].buf, th[p].off, th[p].res)
BY DEF Goto, End, Moves, TypeOK, Locals

\* The steps up to the lock.
LEMMA BeginStep ==
  ASSUME IInv, NEW p \in Threads, Begin(p)
  PROVE  TypeOK' /\ ThreadInv(p)'
<1> USE DEF IInv, At, Op
<1>1. PICK c \in CallsOf[p] : th' = [th EXCEPT ![p].pc = "open", ![p].call = c]
  BY DEF Begin
<1>2. c \in Calls /\ c # None
  BY ContentsAssumption
<1>3. Moves(p, "open", c, th[p].buf, th[p].off, th[p].res)
  BY <1>1, ActionMoves
<1>4. /\ th' \in [Threads -> Locals]
      /\ th'[p].pc = "open" /\ th'[p].call = c
      /\ th'[p].buf = th[p].buf /\ th'[p].off = th[p].off
  BY <1>2, <1>3, LocalTypes, MovesFacts, ContentsAssumption DEF PCs
<1>5. mode[p] = "none" /\ th[p].buf = <<>> /\ th[p].off = 0
  BY DEF Begin, ThreadInv, CallInv, LockInv, Locked
<1> QED
  BY <1>2, <1>4, <1>5 DEF Begin, TypeOK, ThreadInv, CallInv, LockInv, Locked,
     ReadInv, WriteInv, CloseInv

LEMMA OpenStep ==
  ASSUME IInv, NEW p \in Threads, OpenFile(p) \/ OpenFails(p) \/ LockFails(p)
  PROVE  TypeOK' /\ ThreadInv(p)'
<1> USE DEF IInv, At, Op
<1>1. PICK l \in {"lock", "returned"}, r \in {th[p].res, "failed"} :
        /\ Moves(p, l, th[p].call, th[p].buf, th[p].off, r)
        /\ l = "lock" => file' # None
  <2>1. CASE OpenFile(p)
    BY <2>1, ActionMoves, ContentsAssumption, ContentsAre DEF OpenFile
  <2>2. CASE OpenFails(p)
    BY <2>2, ActionMoves DEF OpenFails
  <2>3. CASE LockFails(p)
    BY <2>3, ActionMoves DEF LockFails
  <2> QED
    BY <2>1, <2>2, <2>3
<1>2. /\ th' \in [Threads -> Locals]
      /\ th'[p].pc = l /\ th'[p].call = th[p].call
      /\ th'[p].buf = th[p].buf /\ th'[p].off = th[p].off
  <2>1. r \in {"ok", "failed", "torn"} /\ l \in PCs /\ th[p].off \in 0..MaxLen
    BY LocalTypes, ContentsAssumption DEF PCs
  <2> QED
    BY <1>1, <2>1, LocalTypes, MovesFacts
<1>3. /\ mode[p] = "none" /\ th[p].call # None
      /\ th[p].buf = <<>> /\ th[p].off = 0
  BY DEF OpenFile, OpenFails, LockFails, ThreadInv, CallInv, LockInv, Locked
<1>4. file' \in Contents \cup {None} /\ UNCHANGED <<mode, mu, base, io>>
  BY ContentsAre DEF OpenFile, OpenFails, LockFails, TypeOK
<1> QED
  BY <1>1, <1>2, <1>3, <1>4 DEF TypeOK, ThreadInv, CallInv, LockInv, Locked,
     ReadInv, WriteInv, CloseInv

LEMMA LockStep ==
  ASSUME IInv, NEW p \in Threads, Lock(p)
  PROVE  TypeOK' /\ ThreadInv(p)'
<1> USE DEF IInv, At, Op
<1> DEFINE l == FirstStep(Op(p))
<1>1. /\ th[p].call \in Calls /\ th[p].buf = <<>> /\ th[p].off = 0
      /\ file \in Contents
  BY LocalTypes DEF Lock, ThreadInv, CallInv, LockInv, TypeOK
<1>2. Op(p) \in {"read", "write", "mutex", "transform"}
  BY <1>1 DEF Calls
<1>3. l \in {"truncate", "mu", "read"}
  BY DEF FirstStep
<1>4. Moves(p, l, th[p].call, th[p].buf, th[p].off, th[p].res)
  BY ActionMoves DEF Lock
<1>5. /\ th' \in [Threads -> Locals]
      /\ th'[p].pc = l /\ th'[p].call = th[p].call
      /\ th'[p].buf = <<>> /\ th'[p].off = 0
  BY <1>1, <1>3, <1>4, LocalTypes, MovesFacts, ContentsAssumption DEF PCs
<1>6. /\ mode' = [mode EXCEPT ![p] = IF Op(p) = "read" THEN "read" ELSE "write"]
      /\ Op(p) # "read" => base' = file
      /\ base' \in {base, file} /\ UNCHANGED <<file, mu, io>>
  BY DEF Lock, Exclusive
<1>7. TypeOK'
  BY <1>1, <1>5, <1>6 DEF TypeOK
<1>8. CallInv(p)' /\ LockInv(p)'
  BY <1>1, <1>2, <1>5, <1>6, ContentsAssumption
     DEF TypeOK, CallInv, LockInv, Locked, FirstStep
<1>9. ReadInv(p)'
  BY <1>1, <1>3, <1>5, <1>6, ContentsAre DEF ReadInv, Agree
<1>10. WriteInv(p)' /\ CloseInv(p)'
  BY <1>3, <1>5 DEF WriteInv, CloseInv
<1> QED
  BY <1>7, <1>8, <1>9, <1>10 DEF ThreadInv

-----------------------------------------------------------------------------
\* A thread with the exclusive lock, in Write or in Transform.
LEMMA WriterFacts ==
  ASSUME IInv, NEW p \in Threads,
         th[p].pc \in {"truncate", "copy", "apply", "tail", "head", "shrink", "rollback"}
  PROVE  /\ mode[p] = "write" /\ file \in Contents /\ New(p) \in Contents
         /\ th[p].call \in Calls
         /\ Len(file) \in Nat /\ Len(New(p)) \in Nat /\ Len(th[p].buf) \in Nat
         /\ Len(New(p)) <= MaxLen
<1> USE DEF IInv, ThreadInv, Op, At
<1>1. /\ th[p].call # None /\ Op(p) \in {"write", "transform"}
      /\ mode[p] = "write" /\ file # None
  BY DEF CallInv, LockInv, Locked
<1>2. New(p) \in Contents /\ th[p].call \in Calls /\ file \in Contents
  BY <1>1, NewType, LocalTypes DEF TypeOK
<1> QED
  BY <1>1, <1>2, ContentsAre, LocalTypes, ContentsAssumption

LEMMA WriteStep ==
  ASSUME IInv, NEW p \in Threads, Truncate(p) \/ Copy(p)
  PROVE  TypeOK' /\ ThreadInv(p)'
<1> USE DEF IInv, At
<1>1. /\ mode[p] = "write" /\ file \in Contents /\ New(p) \in Contents
      /\ th[p].call \in Calls /\ Len(file) \in Nat /\ Len(New(p)) <= MaxLen
      /\ Len(New(p)) \in Nat
  BY WriterFacts DEF Truncate, Copy
<1>2. /\ Op(p) = "write" /\ th[p].buf = <<>>
      /\ At(p, "truncate") => th[p].off = 0
      /\ At(p, "copy") => th[p].off <= Len(file)
  BY DEF Truncate, Copy, ThreadInv, CallInv, ReadInv
<1>3. UNCHANGED <<mode, mu, base, io>>
  BY DEF Truncate, Copy
<1>4. PICK l \in {"copy", "close"}, o \in 0..MaxLen, r \in {"ok", "failed", "torn"} :
        /\ Moves(p, l, th[p].call, th[p].buf, o, r)
        /\ file' \in Contents
        /\ l = "copy" => o <= Len(file')
  <2>1. ASSUME Truncate(p)
        PROVE  /\ file' \in {<<>>, file} /\ Len(<<>>) = 0
               /\ \/ /\ Moves(p, "copy", th[p].call, th[p].buf, th[p].off, th[p].res)
                     /\ file' = <<>> /\ th[p].off = 0
                  \/ Moves(p, "close", th[p].call, th[p].buf, th[p].off, "failed")
    BY <1>2, <2>1, ActionMoves DEF Truncate
  <2>2. ASSUME Copy(p), th[p].off < Len(New(p)), WriteByte(p, New(p))
        PROVE  /\ Moves(p, "copy", th[p].call, th[p].buf, th[p].off + 1, th[p].res)
               /\ file' \in Contents /\ th[p].off + 1 <= Len(file')
    <3> DEFINE i == th[p].off + 1
    <3>1. i \in 1..MaxLen /\ i \in 1..Len(New(p)) /\ i <= Len(file) + 1
      BY <1>1, <1>2, <2>2, LocalTypes, ContentsAssumption DEF Copy
    <3>2. New(p)[i] \in Bytes
      BY <1>1, <3>1, ContentsAre
    <3>3. file' \in Contents /\ i <= Len(file')
      BY <1>1, <2>2, <3>1, <3>2, OverwriteFacts DEF WriteByte
    <3>4. th[p].pc = "copy"
      BY <2>2 DEF Copy
    <3> QED
      BY <2>2, <3>3, <3>4, ActionMoves DEF WriteByte
  <2>3. ASSUME Copy(p), ~WriteByte(p, New(p))
        PROVE  /\ file' = file
               /\ \E r \in {"ok", "failed"} :
                    Moves(p, "close", th[p].call, th[p].buf, th[p].off, r)
    BY <2>3, ActionMoves DEF Copy
  <2>4. ASSUME Copy(p), ~(th[p].off < Len(New(p)))
        PROVE  /\ file' = file
               /\ \E r \in {"ok", "failed"} :
                    Moves(p, "close", th[p].call, th[p].buf, th[p].off, r)
    BY <2>4, ActionMoves DEF Copy
  <2>5. th[p].off \in 0..MaxLen /\ (th[p].off < Len(New(p)) => th[p].off + 1 \in 0..MaxLen)
    BY <1>1, LocalTypes, ContentsAssumption
  <2> QED
    <3>1. CASE Truncate(p)
      BY <1>1, <2>1, <2>5, <3>1, LocalTypes, ContentsAre
    <3>2. CASE Copy(p)
      BY <1>1, <2>2, <2>3, <2>4, <2>5, <3>2, LocalTypes
    <3> QED
      BY <3>1, <3>2
<1>5. /\ th' \in [Threads -> Locals]
      /\ th'[p].pc = l /\ th'[p].call = th[p].call
      /\ th'[p].buf = <<>> /\ th'[p].off = o
  BY <1>2, <1>4, LocalTypes, MovesFacts DEF PCs
<1>6. TypeOK'
  BY <1>3, <1>4, <1>5 DEF TypeOK
<1>7. CallInv(p)' /\ LockInv(p)'
  BY <1>1, <1>2, <1>3, <1>4, <1>5, ContentsAssumption DEF CallInv, LockInv, Locked, Op
<1>8. ReadInv(p)' /\ WriteInv(p)' /\ CloseInv(p)'
  BY <1>2, <1>4, <1>5 DEF ReadInv, WriteInv, CloseInv, Op
<1> QED
  BY <1>6, <1>7, <1>8 DEF ThreadInv

LEMMA ReadStep ==
  ASSUME IInv, NEW p \in Threads, ReadAll(p)
  PROVE  TypeOK' /\ ThreadInv(p)'
<1> USE DEF IInv, At
<1> DEFINE buf == th[p].buf
           n   == Len(buf)
<1>1. /\ th[p].pc = "read" /\ th[p].call \in Calls /\ th[p].call # None
      /\ file \in Contents /\ buf \in Contents
      /\ Len(file) \in Nat /\ Len(file) <= MaxLen /\ n \in Nat
  BY LocalTypes, ContentsAre, ContentsAssumption
     DEF ReadAll, ThreadInv, CallInv, LockInv, Locked, TypeOK
<1>2. /\ Op(p) \in {"read", "transform"} /\ th[p].off = 0
      /\ mode[p] = IF Op(p) = "read" THEN "read" ELSE "write"
      /\ n <= Len(file) /\ Agree(buf, file, n)
      /\ Op(p) = "transform" => base = file
  BY <1>1 DEF ThreadInv, CallInv, LockInv, Locked, ReadInv
<1>3. UNCHANGED <<file, mode, mu, base, io>>
  BY DEF ReadAll
<1>4. CASE n < Len(file) /\ th' = [th EXCEPT ![p].buf = Append(@, file[n + 1])]
  <2> DEFINE more == Append(buf, file[n + 1])
  <2>1. n + 1 \in 1..Len(file) /\ file[n + 1] \in Bytes /\ buf \in Seq(Bytes)
    BY <1>1, <1>4, ContentsAre
  <2>2. more \in Seq(Bytes) /\ Len(more) = n + 1 /\ more[n + 1] = file[n + 1]
        /\ \A i \in 1..n : more[i] = buf[i]
    BY <1>1, <2>1
  <2>3. n + 1 <= Len(file) /\ n + 1 <= MaxLen
    BY <1>1, <1>4, ContentsAssumption
  <2>4. more \in Contents /\ Len(more) <= Len(file)
    BY <2>2, <2>3, ContentsAre
  <2>5. Agree(more, file, Len(more))
    BY <1>1, <1>2, <2>2 DEF Agree
  <2>6. Moves(p, "read", th[p].call, more, th[p].off, th[p].res)
    BY <1>1, <1>4, ActionMoves
  <2>7. /\ th' \in [Threads -> Locals]
        /\ th'[p].pc = "read" /\ th'[p].call = th[p].call
        /\ th'[p].buf = more /\ th'[p].off = 0
    <3> HIDE DEF more
    <3>1. 0 \in 0..MaxLen /\ "read" \in PCs
      BY ContentsAssumption DEF PCs
    <3> QED
      BY <1>1, <1>2, <2>4, <2>6, <3>1, LocalTypes, MovesFacts
  <2> HIDE DEF more, n, buf
  <2>8. TypeOK'
    BY <1>3, <2>7 DEF TypeOK
  <2>9. CallInv(p)' /\ LockInv(p)'
    BY <1>1, <1>2, <1>3, <2>7, ContentsAssumption DEF CallInv, LockInv, Locked, Op
  <2>10. ReadInv(p)'
    BY <1>2, <1>3, <2>4, <2>5, <2>7 DEF ReadInv, Op, Agree
  <2>11. WriteInv(p)' /\ CloseInv(p)'
    BY <2>7 DEF WriteInv, CloseInv
  <2> QED
    BY <2>8, <2>9, <2>10, <2>11 DEF ThreadInv
<1>5. CASE ~(n < Len(file) /\ th' = [th EXCEPT ![p].buf = Append(@, file[n + 1])])
  <2>1. PICK l \in {"close", "apply"}, r \in {"ok", "failed", "torn"} :
          /\ Moves(p, l, th[p].call, buf, th[p].off, r)
          /\ l = "apply" => Op(p) = "transform" /\ n >= Len(file)
          /\ l = "close" => Op(p) = "read" \/ r = "failed"
    <3>1. \/ n >= Len(file) /\ Op(p) = "read" /\ End(p, "close", "ok")
          \/ n >= Len(file) /\ Op(p) = "transform" /\ Goto(p, "apply")
          \/ End(p, "close", "failed")
      BY <1>5 DEF ReadAll
    <3>2. th[p].res \in {"ok", "failed", "torn"}
      BY LocalTypes
    <3> QED
      BY <3>1, <3>2, ActionMoves
  <2>2. /\ th' \in [Threads -> Locals]
        /\ th'[p].pc = l /\ th'[p].call = th[p].call
        /\ th'[p].buf = buf /\ th'[p].off = 0 /\ th'[p].res = r
    BY <1>1, <1>2, <2>1, LocalTypes, MovesFacts, ContentsAssumption DEF PCs
  <2>3. l = "apply" => buf = file
    BY <1>1, <1>2, <2>1, SameContents
  <2>4. TypeOK'
    BY <1>3, <2>2 DEF TypeOK
  <2>5. CallInv(p)' /\ LockInv(p)'
    BY <1>1, <1>2, <1>3, <2>1, <2>2, ContentsAssumption DEF CallInv, LockInv, Locked, Op
  <2>6. ReadInv(p)' /\ WriteInv(p)'
    BY <1>2, <1>3, <2>1, <2>2, <2>3 DEF ReadInv, WriteInv
  <2>7. CloseInv(p)'
    BY <1>2, <1>3, <2>1, <2>2 DEF CloseInv, Op, Agree
  <2> QED
    BY <2>4, <2>5, <2>6, <2>7 DEF ThreadInv
<1> QED
  BY <1>4, <1>5

LEMMA ApplyStep ==
  ASSUME IInv, NEW p \in Threads, Apply(p)
  PROVE  TypeOK' /\ ThreadInv(p)'
<1> USE DEF IInv, At
<1>1. /\ mode[p] = "write" /\ file \in Contents /\ New(p) \in Contents
      /\ th[p].call \in Calls /\ th[p].pc = "apply"
      /\ Len(file) \in Nat /\ Len(New(p)) \in Nat /\ Len(file) <= MaxLen
  BY WriterFacts, ContentsAre, ContentsAssumption DEF Apply
<1>2. /\ Op(p) = "transform" /\ th[p].off = 0
      /\ th[p].buf = file /\ base = file
  BY <1>1 DEF ThreadInv, CallInv, ReadInv
<1>3. UNCHANGED <<file, mode, mu, base, io>>
  BY DEF Apply
<1>4. PICK l \in {"close", "tail", "head"}, o \in 0..MaxLen, r \in {th[p].res, "failed"} :
        /\ Moves(p, l, th[p].call, th[p].buf, o, r)
        /\ l = "close" => r = "failed"
        /\ l = "tail" => Len(New(p)) > Len(file) /\ o = Len(file)
        /\ l = "head" => Len(New(p)) <= Len(file) /\ o = 0
  <2>1. 0 \in 0..MaxLen /\ Len(file) \in 0..MaxLen
    BY <1>1, ContentsAssumption
  <2>2. CASE End(p, "close", "failed")
    BY <1>2, <2>1, <2>2, ActionMoves
  <2>3. CASE /\ Len(New(p)) > Len(th[p].buf)
             /\ th' = [th EXCEPT ![p].pc = "tail", ![p].off = Len(th[p].buf)]
    BY <1>2, <2>1, <2>3, ActionMoves
  <2>4. CASE Len(New(p)) <= Len(th[p].buf) /\ Goto(p, "head")
    BY <1>2, <2>1, <2>4, ActionMoves
  <2> QED
    BY <2>2, <2>3, <2>4 DEF Apply
<1>5. /\ th' \in [Threads -> Locals]
      /\ th'[p].pc = l /\ th'[p].call = th[p].call
      /\ th'[p].buf = file /\ th'[p].off = o /\ th'[p].res = r
  <2>1. r \in {"ok", "failed", "torn"} /\ l \in PCs
    BY LocalTypes DEF PCs
  <2> QED
    BY <1>1, <1>2, <1>4, <2>1, LocalTypes, MovesFacts
<1>6. New(p)' = New(p)
  BY <1>2, <1>5 DEF New, Op
<1>7. TypeOK'
  BY <1>3, <1>5 DEF TypeOK
<1>8. CallInv(p)' /\ LockInv(p)'
  BY <1>1, <1>2, <1>3, <1>5, ContentsAssumption DEF CallInv, LockInv, Locked, Op
<1>9. ReadInv(p)' /\ WriteInv(p)'
  BY <1>1, <1>2, <1>3, <1>4, <1>5, <1>6 DEF ReadInv, WriteInv, HeadLen, Agree
<1>10. CloseInv(p)'
  BY <1>1, <1>2, <1>3, <1>4, <1>5, <1>6 DEF CloseInv, Agree
<1> QED
  BY <1>7, <1>8, <1>9, <1>10 DEF ThreadInv

\* One byte of a WriteAt.
LEMMA WriteByteStep ==
  ASSUME IInv, NEW p \in Threads, NEW s \in Contents, WriteByte(p, s),
         file \in Contents, th[p].off < Len(s), th[p].off <= Len(file)
  PROVE  /\ th' \in [Threads -> Locals]
         /\ th'[p].pc = th[p].pc /\ th'[p].call = th[p].call
         /\ th'[p].buf = th[p].buf /\ th'[p].off = th[p].off + 1
         /\ file' \in Contents
         /\ Len(file') = IF th[p].off < Len(file) THEN Len(file) ELSE th[p].off + 1
         /\ file'[th[p].off + 1] = s[th[p].off + 1]
         /\ \A j \in 1..Len(file) : j # th[p].off + 1 => file'[j] = file[j]
<1> USE DEF IInv
<1> DEFINE i == th[p].off + 1
<1>1. /\ Len(s) \in Nat /\ Len(s) <= MaxLen /\ Len(file) \in Nat /\ MaxLen \in Nat
      /\ th[p].off \in Nat
  BY ContentsAre, LocalTypes, ContentsAssumption
<1>2. i \in 1..MaxLen /\ i \in 1..Len(s) /\ i <= Len(file) + 1 /\ i \in 0..MaxLen
  BY <1>1
<1>3. s[i] \in Bytes
  BY <1>2, ContentsAre
<1>4. file' = Overwrite(file, i, s[i])
  BY DEF WriteByte
<1>5. Moves(p, th[p].pc, th[p].call, th[p].buf, i, th[p].res)
  BY ActionMoves DEF WriteByte
<1>6. /\ th' \in [Threads -> Locals]
      /\ th'[p].pc = th[p].pc /\ th'[p].call = th[p].call
      /\ th'[p].buf = th[p].buf /\ th'[p].off = i
  <2> HIDE DEF i
  <2>1. /\ th[p].pc \in PCs /\ th[p].call \in Calls \cup {None}
        /\ th[p].buf \in Contents /\ th[p].res \in {"ok", "failed", "torn"}
    BY LocalTypes
  <2> QED
    BY <1>2, <1>5, <2>1, MovesFacts
<1>7. i <= Len(file) <=> th[p].off < Len(file)
  BY <1>1
<1> HIDE DEF i
<1>8. /\ file' \in Contents
      /\ Len(file') = IF i <= Len(file) THEN Len(file) ELSE i
      /\ file'[i] = s[i]
      /\ \A j \in 1..Len(file) : j # i => file'[j] = file[j]
  BY <1>2, <1>3, <1>4, OverwriteFacts
<1> QED
  BY <1>6, <1>7, <1>8 DEF i

LEMMA TailStep ==
  ASSUME IInv, NEW p \in Threads, WriteTail(p) \/ TailFails(p)
  PROVE  TypeOK' /\ ThreadInv(p)'
<1> USE DEF IInv, At
<1> DEFINE n == Len(New(p))
<1>1. /\ mode[p] = "write" /\ file \in Contents /\ New(p) \in Contents
      /\ th[p].call \in Calls /\ th[p].pc = "tail"
      /\ Len(file) \in Nat /\ n \in Nat /\ Len(th[p].buf) \in Nat /\ n <= MaxLen
      /\ th[p].buf \in Contents /\ th[p].off \in 0..MaxLen /\ 0 \in 0..MaxLen
  BY WriterFacts, LocalTypes, ContentsAssumption DEF WriteTail, TailFails
<1>2. /\ Op(p) = "transform" /\ th[p].buf = base
      /\ Len(base) <= th[p].off /\ th[p].off <= n /\ Len(file) = th[p].off
      /\ Agree(base, file, Len(base))
  BY <1>1 DEF ThreadInv, CallInv, WriteInv
<1>3. UNCHANGED <<mode, mu, base, io>>
  BY DEF WriteTail, TailFails
<1>4. PICK l \in {"close", "tail", "head"} :
        /\ th' \in [Threads -> Locals]
        /\ th'[p].pc = l /\ th'[p].call = th[p].call /\ th'[p].buf = base
        /\ file' \in Contents /\ Len(base) <= Len(file')
        /\ \A j \in 1..Len(base) : file'[j] = base[j]
        /\ l = "tail" => th'[p].off = Len(file') /\ Len(file') <= n
        /\ l = "head" => th'[p].off = 0 /\ Len(file') = n /\ Len(base) <= n
        /\ l = "close" => \/ th'[p].res = "torn" /\ io
                          \/ th'[p].res = "failed" /\ file' = base
  <2>1. ASSUME WriteTail(p), th[p].off < n, WriteByte(p, New(p))
        PROVE  /\ th' \in [Threads -> Locals]
               /\ th'[p].pc = "tail" /\ th'[p].call = th[p].call /\ th'[p].buf = base
               /\ file' \in Contents /\ Len(base) <= Len(file')
               /\ \A j \in 1..Len(base) : file'[j] = base[j]
               /\ th'[p].off = Len(file') /\ Len(file') <= n
    BY <1>1, <1>2, <2>1, WriteByteStep DEF Agree
  <2>2. ASSUME th' = [th EXCEPT ![p].pc = "head", ![p].off = 0], file' = file,
               th[p].off = n
        PROVE  /\ th' \in [Threads -> Locals]
               /\ th'[p].pc = "head" /\ th'[p].call = th[p].call /\ th'[p].buf = base
               /\ th'[p].off = 0 /\ Len(file') = n
    <3>1. Moves(p, "head", th[p].call, th[p].buf, 0, th[p].res) /\ "head" \in PCs
      BY <2>2, ActionMoves DEF PCs
    <3>2. /\ th[p].call \in Calls \cup {None} /\ th[p].buf \in Contents
          /\ th[p].res \in {"ok", "failed", "torn"}
      BY LocalTypes
    <3>3. /\ th' \in [Threads -> Locals]
          /\ th'[p].pc = "head" /\ th'[p].call = th[p].call
          /\ th'[p].buf = th[p].buf /\ th'[p].off = 0
      BY <1>1, <3>1, <3>2, MovesFacts
    <3> QED
      BY <1>2, <2>2, <3>3
  <2>3. ASSUME TailFails(p)
        PROVE  \E r \in {"failed", "torn"} :
                 /\ th' \in [Threads -> Locals]
                 /\ th'[p].pc = "close" /\ th'[p].call = th[p].call
                 /\ th'[p].buf = base /\ th'[p].res = r
                 /\ \/ r = "torn" /\ io /\ file' = file
                    \/ r = "failed" /\ file' = base
    <3>1. PICK r \in {"failed", "torn"} :
            /\ Moves(p, "close", th[p].call, th[p].buf, th[p].off, r)
            /\ \/ r = "torn" /\ io /\ file' = file
               \/ r = "failed" /\ file' = Cut(file, Len(base))
      BY <1>2, <2>3, ActionMoves DEF TailFails
    <3>2. Len(base) \in Nat /\ Len(base) <= Len(file)
      BY <1>1, <1>2
    <3>3. Cut(file, Len(base)) = base
      <4>1. base \in Contents /\ Cut(file, Len(base)) \in Contents
            /\ Len(Cut(file, Len(base))) = Len(base)
            /\ \A i \in 1..Len(base) : Cut(file, Len(base))[i] = file[i]
        BY <1>1, <1>2, <3>2, CutFacts
      <4>2. Agree(Cut(file, Len(base)), base, Len(base))
        BY <1>2, <4>1 DEF Agree
      <4> QED
        BY <4>1, <4>2, SameContents
    <3>4. /\ th' \in [Threads -> Locals]
          /\ th'[p].pc = "close" /\ th'[p].call = th[p].call
          /\ th'[p].buf = base /\ th'[p].res = r
      BY <1>1, <1>2, <3>1, LocalTypes, MovesFacts DEF PCs
    <3> QED
      BY <3>1, <3>3, <3>4
  <2>4. CASE WriteTail(p)
    BY <1>1, <1>2, <2>1, <2>2, <2>4 DEF WriteTail, Agree
  <2>5. CASE TailFails(p)
    BY <1>1, <1>2, <2>3, <2>5 DEF Agree
  <2> QED
    BY <2>4, <2>5
<1>5. New(p)' = New(p) /\ Op(p)' = "transform"
  BY <1>2, <1>4 DEF New, Op
<1>6. TypeOK'
  BY <1>3, <1>4 DEF TypeOK
<1>7. CallInv(p)' /\ LockInv(p)'
  BY <1>1, <1>2, <1>3, <1>4, <1>5, ContentsAssumption DEF CallInv, LockInv, Locked
<1>8. ReadInv(p)' /\ WriteInv(p)'
  BY <1>1, <1>2, <1>3, <1>4, <1>5 DEF ReadInv, WriteInv, HeadLen, Agree
<1>9. CloseInv(p)'
  BY <1>1, <1>2, <1>3, <1>4, <1>5 DEF CloseInv, Agree
<1> QED
  BY <1>6, <1>7, <1>8, <1>9 DEF ThreadInv

LEMMA TransformFacts ==
  ASSUME IInv, NEW p \in Threads, th[p].pc \in {"head", "shrink", "rollback"}
  PROVE  /\ mode[p] = "write" /\ Op(p) = "transform"
         /\ file \in Contents /\ base \in Contents /\ New(p) \in Contents
         /\ th[p].call \in Calls /\ th[p].buf = base
         /\ Len(file) \in Nat /\ Len(base) \in Nat /\ Len(New(p)) \in Nat
         /\ Len(base) <= Len(file) /\ Len(New(p)) <= Len(file)
         /\ th[p].off \in 0..MaxLen /\ 0 \in 0..MaxLen
         /\ th[p].res \in {"ok", "failed", "torn"}
<1>1. /\ mode[p] = "write" /\ file \in Contents /\ New(p) \in Contents
      /\ th[p].call \in Calls
      /\ Len(file) \in Nat /\ Len(New(p)) \in Nat /\ Len(th[p].buf) \in Nat
  BY WriterFacts
<1>2. /\ Op(p) = "transform" /\ th[p].buf = base
      /\ Len(base) <= Len(file) /\ Len(New(p)) <= Len(file)
  BY DEF IInv, ThreadInv, CallInv, WriteInv, At
<1> QED
  BY <1>1, <1>2, LocalTypes, ContentsAssumption DEF IInv

LEMMA HeadStep ==
  ASSUME IInv, NEW p \in Threads, WriteHead(p) \/ HeadFails(p)
  PROVE  TypeOK' /\ ThreadInv(p)'
<1> USE DEF IInv, At
<1> DEFINE n == Len(New(p))
<1>1. /\ mode[p] = "write" /\ Op(p) = "transform"
      /\ file \in Contents /\ base \in Contents /\ New(p) \in Contents
      /\ th[p].call \in Calls /\ th[p].buf = base
      /\ Len(file) \in Nat /\ Len(base) \in Nat /\ n \in Nat
      /\ Len(base) <= Len(file) /\ n <= Len(file)
      /\ th[p].off \in 0..MaxLen /\ 0 \in 0..MaxLen
      /\ th[p].res \in {"ok", "failed", "torn"}
  BY TransformFacts DEF WriteHead, HeadFails
<1>2. /\ th[p].pc = "head" /\ th[p].off <= HeadLen(p)
      /\ HeadLen(p) = IF n < Len(base) THEN n ELSE Len(base)
  BY <1>1 DEF WriteHead, HeadFails, ThreadInv, WriteInv, HeadLen
<1>3. UNCHANGED <<mode, mu, base, io>>
  BY DEF WriteHead, HeadFails
<1>4. PICK l \in {"close", "head", "shrink", "rollback"} :
        /\ th' \in [Threads -> Locals]
        /\ th'[p].pc = l /\ th'[p].call = th[p].call /\ th'[p].buf = base
        /\ file' \in Contents /\ Len(file') = Len(file)
        /\ l = "head" => th'[p].off <= HeadLen(p)
        /\ l = "close" => th'[p].res = "ok"
        /\ l = "shrink" => n < Len(base)
        /\ l = "rollback" => th'[p].off = 0 /\ io
  <2>1. ASSUME WriteHead(p), th[p].off < HeadLen(p), WriteByte(p, New(p))
        PROVE  /\ th' \in [Threads -> Locals]
               /\ th'[p].pc = "head" /\ th'[p].call = th[p].call /\ th'[p].buf = base
               /\ file' \in Contents /\ Len(file') = Len(file)
               /\ th'[p].off <= HeadLen(p)
    <3>1. th[p].off < n /\ th[p].off < Len(file) /\ th[p].off + 1 <= HeadLen(p)
      BY <1>1, <1>2, <2>1
    <3> QED
      BY <1>1, <1>2, <2>1, <3>1, WriteByteStep
  <2>2. ASSUME NEW l \in {"shrink", "close", "rollback"}, NEW o \in 0..MaxLen,
               NEW r \in {"ok", "failed", "torn"},
               Moves(p, l, th[p].call, th[p].buf, o, r)
        PROVE  /\ th' \in [Threads -> Locals]
               /\ th'[p].pc = l /\ th'[p].call = th[p].call /\ th'[p].buf = base
               /\ th'[p].off = o /\ th'[p].res = r
    BY <1>1, <2>2, MovesFacts DEF PCs
  <2>3. ASSUME Goto(p, "shrink")
        PROVE  Moves(p, "shrink", th[p].call, th[p].buf, th[p].off, th[p].res)
    BY <2>3, ActionMoves
  <2>4. ASSUME End(p, "close", "ok")
        PROVE  Moves(p, "close", th[p].call, th[p].buf, th[p].off, "ok")
    BY <2>4, ActionMoves
  <2>5. ASSUME th' = [th EXCEPT ![p].pc = "rollback", ![p].off = 0]
        PROVE  Moves(p, "rollback", th[p].call, th[p].buf, 0, th[p].res)
    BY <2>5, ActionMoves
  <2>6. CASE WriteHead(p) /\ th[p].off < HeadLen(p) /\ WriteByte(p, New(p))
    BY <2>1, <2>6
  <2>7. CASE /\ n < Len(base) /\ Goto(p, "shrink") /\ file' = file
    BY <1>1, <2>2, <2>3, <2>7
  <2>8. CASE End(p, "close", "ok") /\ file' = file
    BY <1>1, <2>2, <2>4, <2>8
  <2>9. CASE HeadFails(p)
    <3>1. io
      BY <1>1, <1>2, <2>9 DEF HeadFails, MayFail
    <3> QED
      BY <1>1, <2>2, <2>5, <2>9, <3>1 DEF HeadFails
  <2> QED
    BY <1>1, <2>6, <2>7, <2>8, <2>9 DEF WriteHead
<1>5. New(p)' = New(p) /\ Op(p)' = "transform" /\ HeadLen(p)' = HeadLen(p)
  BY <1>1, <1>4 DEF New, Op, HeadLen
<1>6. TypeOK'
  BY <1>3, <1>4 DEF TypeOK
<1>7. CallInv(p)' /\ LockInv(p)'
  BY <1>1, <1>3, <1>4, <1>5, ContentsAssumption DEF CallInv, LockInv, Locked
<1>8. ReadInv(p)' /\ WriteInv(p)'
  BY <1>1, <1>3, <1>4, <1>5 DEF ReadInv, WriteInv, Agree
<1>9. CloseInv(p)'
  BY <1>1, <1>3, <1>4, <1>5 DEF CloseInv
<1> QED
  BY <1>6, <1>7, <1>8, <1>9 DEF ThreadInv

LEMMA ShrinkStep ==
  ASSUME IInv, NEW p \in Threads, Shrink(p)
  PROVE  TypeOK' /\ ThreadInv(p)'
<1> USE DEF IInv, At
<1> DEFINE n == Len(New(p))
<1>1. /\ mode[p] = "write" /\ Op(p) = "transform"
      /\ file \in Contents /\ base \in Contents /\ New(p) \in Contents
      /\ th[p].call \in Calls /\ th[p].buf = base
      /\ Len(file) \in Nat /\ Len(base) \in Nat /\ n \in Nat
      /\ Len(base) <= Len(file) /\ n <= Len(file)
      /\ th[p].off \in 0..MaxLen /\ 0 \in 0..MaxLen
      /\ th[p].res \in {"ok", "failed", "torn"}
  BY TransformFacts DEF Shrink
<1>2. UNCHANGED <<mode, mu, base, io>>
  BY DEF Shrink
<1>3. PICK l \in {"close", "rollback"} :
        /\ th' \in [Threads -> Locals]
        /\ th'[p].pc = l /\ th'[p].call = th[p].call /\ th'[p].buf = base
        /\ file' \in Contents
        /\ l = "close" => th'[p].res = "ok" /\ Len(file') = n
        /\ l = "rollback" => th'[p].off = 0 /\ io /\ file' = file
  <2>1. ASSUME NEW l \in {"close", "rollback"}, NEW o \in 0..MaxLen,
               NEW r \in {"ok", "failed", "torn"},
               Moves(p, l, th[p].call, th[p].buf, o, r)
        PROVE  /\ th' \in [Threads -> Locals]
               /\ th'[p].pc = l /\ th'[p].call = th[p].call /\ th'[p].buf = base
               /\ th'[p].off = o /\ th'[p].res = r
    BY <1>1, <2>1, MovesFacts DEF PCs
  <2>2. CASE file' = Cut(file, Len(New(p))) /\ End(p, "close", "ok")
    <3>1. Moves(p, "close", th[p].call, th[p].buf, th[p].off, "ok")
      BY <2>2, ActionMoves
    <3>2. file' \in Contents /\ Len(file') = n
      BY <1>1, <2>2, CutFacts
    <3> QED
      BY <1>1, <2>1, <3>1, <3>2
  <2>3. CASE /\ io /\ file' = file
             /\ th' = [th EXCEPT ![p].pc = "rollback", ![p].off = 0]
    <3>1. Moves(p, "rollback", th[p].call, th[p].buf, 0, th[p].res)
      BY <2>3, ActionMoves
    <3> QED
      BY <1>1, <2>1, <2>3, <3>1
  <2> QED
    BY <2>2, <2>3 DEF Shrink
<1>4. New(p)' = New(p) /\ Op(p)' = "transform"
  BY <1>1, <1>3 DEF New, Op
<1>5. TypeOK'
  BY <1>2, <1>3 DEF TypeOK
<1>6. CallInv(p)' /\ LockInv(p)'
  BY <1>1, <1>2, <1>3, <1>4, ContentsAssumption DEF CallInv, LockInv, Locked
<1>7. ReadInv(p)' /\ WriteInv(p)' /\ CloseInv(p)'
  BY <1>1, <1>2, <1>3, <1>4 DEF ReadInv, WriteInv, CloseInv, Agree
<1> QED
  BY <1>5, <1>6, <1>7 DEF ThreadInv

LEMMA RollbackStep ==
  ASSUME IInv, NEW p \in Threads, Rollback(p) \/ RollbackFails(p)
  PROVE  TypeOK' /\ ThreadInv(p)'
<1> USE DEF IInv, At
<1> DEFINE n == Len(New(p))
<1>1. /\ mode[p] = "write" /\ Op(p) = "transform"
      /\ file \in Contents /\ base \in Contents /\ New(p) \in Contents
      /\ th[p].call \in Calls /\ th[p].buf = base
      /\ Len(file) \in Nat /\ Len(base) \in Nat /\ n \in Nat
      /\ Len(base) <= Len(file) /\ n <= Len(file)
      /\ th[p].off \in 0..MaxLen /\ 0 \in 0..MaxLen
      /\ th[p].res \in {"ok", "failed", "torn"}
  BY TransformFacts DEF Rollback, RollbackFails
<1>2. /\ th[p].pc = "rollback" /\ io /\ th[p].off <= Len(base)
      /\ \A i \in 1..th[p].off : base[i] = file[i]
  BY DEF Rollback, RollbackFails, ThreadInv, WriteInv, Agree
<1>3. UNCHANGED <<mode, mu, base, io>>
  BY DEF Rollback, RollbackFails
<1>4. PICK l \in {"close", "rollback"} :
        /\ th' \in [Threads -> Locals]
        /\ th'[p].pc = l /\ th'[p].call = th[p].call /\ th'[p].buf = base
        /\ file' \in Contents
        /\ l = "rollback" => /\ Len(file') = Len(file) /\ th'[p].off <= Len(base)
                             /\ \A i \in 1..th'[p].off : base[i] = file'[i]
        /\ l = "close" => \/ th'[p].res = "failed" /\ file' = base
                          \/ th'[p].res = "torn" /\ file' = file
  <2>1. ASSUME NEW r \in {"ok", "failed", "torn"}, End(p, "close", r)
        PROVE  /\ th' \in [Threads -> Locals]
               /\ th'[p].pc = "close" /\ th'[p].call = th[p].call
               /\ th'[p].buf = base /\ th'[p].res = r
    <3>1. Moves(p, "close", th[p].call, th[p].buf, th[p].off, r)
      BY <2>1, ActionMoves
    <3> QED
      BY <1>1, <3>1, MovesFacts DEF PCs
  <2>2. CASE th[p].off < Len(th[p].buf) /\ WriteByte(p, th[p].buf)
    <3>1. th[p].off < Len(base) /\ th[p].off < Len(file)
      BY <1>1, <2>2
    <3>2. /\ th' \in [Threads -> Locals]
          /\ th'[p].pc = "rollback" /\ th'[p].call = th[p].call
          /\ th'[p].buf = base /\ th'[p].off = th[p].off + 1
          /\ file' \in Contents /\ Len(file') = Len(file)
          /\ file'[th[p].off + 1] = base[th[p].off + 1]
          /\ \A j \in 1..Len(file) : j # th[p].off + 1 => file'[j] = file[j]
      BY <1>1, <1>2, <2>2, <3>1, WriteByteStep
    <3>3. \A i \in 1..(th[p].off + 1) : base[i] = file'[i]
      BY <1>1, <1>2, <3>1, <3>2
    <3> QED
      BY <1>1, <3>1, <3>2, <3>3
  <2>3. CASE /\ th[p].off = Len(th[p].buf) /\ file' = Cut(file, Len(th[p].buf))
             /\ End(p, "close", "failed")
    <3>1. file' \in Contents /\ Len(file') = Len(base)
          /\ \A i \in 1..Len(base) : file'[i] = file[i]
      BY <1>1, <2>3, CutFacts
    <3>2. file' = base
      <4>1. Agree(file', base, Len(file'))
        BY <1>1, <1>2, <2>3, <3>1 DEF Agree
      <4> QED
        BY <1>1, <3>1, <4>1, SameContents
    <3> QED
      BY <1>1, <2>1, <2>3, <3>2
  <2>4. CASE End(p, "close", "torn") /\ file' = file
    BY <1>1, <2>1, <2>4
  <2> QED
    BY <2>2, <2>3, <2>4 DEF Rollback, RollbackFails
<1>5. New(p)' = New(p) /\ Op(p)' = "transform"
  BY <1>1, <1>4 DEF New, Op
<1>6. TypeOK'
  BY <1>3, <1>4 DEF TypeOK
<1>7. CallInv(p)' /\ LockInv(p)'
  BY <1>1, <1>3, <1>4, <1>5, ContentsAssumption DEF CallInv, LockInv, Locked
<1>8. ReadInv(p)' /\ WriteInv(p)'
  BY <1>1, <1>2, <1>3, <1>4, <1>5 DEF ReadInv, WriteInv, Agree
<1>9. CloseInv(p)'
  BY <1>1, <1>2, <1>3, <1>4, <1>5 DEF CloseInv, Agree
<1> QED
  BY <1>6, <1>7, <1>8, <1>9 DEF ThreadInv

-----------------------------------------------------------------------------
LEMMA MutexStep ==
  ASSUME IInv, NEW p \in Threads, MuLock(p) \/ MuUnlock(p)
  PROVE  TypeOK' /\ ThreadInv(p)'
<1> USE DEF IInv, At
<1>1. /\ Op(p) = "mutex" /\ th[p].call \in Calls
      /\ mode[p] = "write" /\ file # None /\ th[p].buf = <<>>
  BY LocalTypes DEF MuLock, MuUnlock, ThreadInv, CallInv, LockInv, Locked
<1>2. /\ UNCHANGED <<file, mode, base, io>>
      /\ mu' \in [Processes -> SUBSET Threads]
  BY ContentsAssumption DEF MuLock, MuUnlock, TypeOK
<1>3. PICK l \in {"held", "close"}, r \in {th[p].res, "ok"} :
        Moves(p, l, th[p].call, th[p].buf, th[p].off, r)
  BY ActionMoves DEF MuLock, MuUnlock
<1>4. /\ th' \in [Threads -> Locals]
      /\ th'[p].pc = l /\ th'[p].call = th[p].call /\ th'[p].buf = <<>>
  <2>1. /\ r \in {"ok", "failed", "torn"} /\ l \in PCs
        /\ th[p].call \in Calls \cup {None} /\ th[p].buf \in Contents
        /\ th[p].off \in 0..MaxLen
    BY LocalTypes, ContentsAssumption DEF PCs
  <2> QED
    BY <1>1, <1>3, <2>1, MovesFacts
<1>5. TypeOK'
  BY <1>2, <1>4 DEF TypeOK
<1>6. CallInv(p)' /\ LockInv(p)'
  BY <1>1, <1>2, <1>4, ContentsAssumption DEF CallInv, LockInv, Locked, Op
<1>7. ReadInv(p)' /\ WriteInv(p)' /\ CloseInv(p)'
  BY <1>1, <1>4 DEF ReadInv, WriteInv, CloseInv, Op
<1> QED
  BY <1>5, <1>6, <1>7 DEF ThreadInv

LEMMA CloseStep ==
  ASSUME IInv, NEW p \in Threads, Close(p)
  PROVE  TypeOK' /\ ThreadInv(p)'
<1> USE DEF IInv, At
<1>1. th[p].call \in Calls
  BY LocalTypes DEF Close, ThreadInv, CallInv
<1>2. /\ mode' = [mode EXCEPT ![p] = "none"] /\ UNCHANGED <<file, mu, io>>
      /\ base' \in {base, None}
  BY DEF Close
<1>3. PICK r \in {"ok", "failed", "torn"}, b \in Contents :
        Moves(p, "returned", th[p].call, b, 0, r)
  <2> DEFINE b(r) == IF r = "ok" /\ Op(p) = "read" THEN th[p].buf ELSE <<>>
  <2>1. PICK r \in {th[p].res, "failed"} : Moves(p, "returned", th[p].call, b(r), 0, r)
    BY DEF Close, Moves
  <2>2. b(r) \in Contents /\ r \in {"ok", "failed", "torn"}
    BY LocalTypes, ContentsAre
  <2> QED
    BY <2>1, <2>2
<1>4. /\ th' \in [Threads -> Locals]
      /\ th'[p].pc = "returned" /\ th'[p].call = th[p].call
  BY <1>1, <1>3, MovesFacts, ContentsAssumption DEF PCs
<1>5. TypeOK'
  BY <1>2, <1>4 DEF TypeOK
<1>6. CallInv(p)' /\ LockInv(p)'
  BY <1>1, <1>2, <1>4, ContentsAssumption DEF CallInv, LockInv, Locked, TypeOK
<1>7. ReadInv(p)' /\ WriteInv(p)' /\ CloseInv(p)'
  BY <1>4 DEF ReadInv, WriteInv, CloseInv
<1> QED
  BY <1>5, <1>6, <1>7 DEF ThreadInv

\* A thread that is idle and has no lock is as it should be.
LEMMA IdleFacts ==
  /\ Idle \in Locals
  /\ \A p \in Threads :
       th'[p] = Idle /\ mode'[p] = "none" => ThreadInv(p)'
<1>1. Idle \in Locals
  BY ContentsAre, ContentsAssumption DEF Idle, Locals, PCs
<1>2. ASSUME NEW p \in Threads, th'[p] = Idle, mode'[p] = "none"
      PROVE  ThreadInv(p)'
  <2>1. /\ th'[p].pc = "idle" /\ th'[p].call = None /\ th'[p].buf = <<>>
        /\ th'[p].off = 0
    BY <1>2 DEF Idle
  <2> QED
    BY <1>2, <2>1 DEF ThreadInv, CallInv, LockInv, Locked, ReadInv, WriteInv, CloseInv, At
<1> QED
  BY <1>1, <1>2

LEMMA ReturnStep ==
  ASSUME IInv, NEW p \in Threads, Return(p)
  PROVE  TypeOK' /\ ThreadInv(p)'
<1>1. mode'[p] = "none" /\ th'[p] = Idle
  BY DEF IInv, TypeOK, Return, ThreadInv, LockInv, Locked, At
<1>2. TypeOK'
  BY IdleFacts DEF IInv, TypeOK, Return
<1> QED
  BY <1>1, <1>2, IdleFacts

-----------------------------------------------------------------------------
\* What a thread's step does to the others.
Apart(p) ==
  /\ \A q \in Threads : q # p => th'[q] = th[q] /\ mode'[q] = mode[q]
  /\ io' = io
  /\ file' # file => file = None \/ mode[p] = "write"
  /\ file # None => file' # None
  /\ base' # base => mode[p] = "write" \/ mode'[p] = "write"
  /\ mode'[p] = "write" /\ mode[p] # "write" =>
       \A q \in Threads : q # p => mode[q] = "none"
  /\ mode'[p] # "none" /\ mode[p] = "none" =>
       \A q \in Threads : q # p => mode[q] # "write"
  /\ mode'[p] \in {"none", mode[p]} \/ mode[p] = "none"

LEMMA StepOfThread ==
  ASSUME IInv, NEW p \in Threads, Begin(p) \/ Proceed(p) \/ Return(p)
  PROVE  TypeOK' /\ ThreadInv(p)' /\ Apart(p)
<1> USE DEF IInv
<1>1. TypeOK' /\ ThreadInv(p)'
  BY BeginStep, OpenStep, LockStep, WriteStep, ReadStep, ApplyStep, TailStep, HeadStep,
     ShrinkStep, RollbackStep, MutexStep, CloseStep, ReturnStep DEF Proceed, Edit
<1>2. \A q \in Threads : q # p => th'[q] = th[q]
  <2>1. CASE Begin(p) \/ Return(p) \/ Close(p) \/ MuLock(p) \/ MuUnlock(p)
    BY <2>1 DEF TypeOK, Begin, Return, Close, MuLock, MuUnlock, Goto, End
  <2>2. CASE OpenFile(p) \/ OpenFails(p) \/ Lock(p) \/ LockFails(p)
    BY <2>2 DEF TypeOK, OpenFile, OpenFails, Lock, LockFails, Goto, End
  <2>3. CASE Truncate(p) \/ Copy(p) \/ ReadAll(p)
    BY <2>3 DEF TypeOK, Truncate, Copy, ReadAll, Goto, End, WriteByte
  <2>4. CASE Edit(p)
    BY <2>4 DEF TypeOK, Edit, Apply, WriteTail, TailFails, WriteHead, HeadFails, Shrink,
       Rollback, RollbackFails, Goto, End, WriteByte
  <2> QED
    BY <2>1, <2>2, <2>3, <2>4 DEF Proceed
<1>3. Apart(p)
  <2>1. CASE \/ Begin(p) \/ Return(p) \/ OpenFails(p) \/ LockFails(p)
             \/ ReadAll(p) \/ MuLock(p) \/ MuUnlock(p)
    BY <1>2, <2>1 DEF Apart, Begin, Return, OpenFails, LockFails, ReadAll, MuLock, MuUnlock,
       TypeOK
  <2>2. CASE OpenFile(p)
    <3>1. file = None => file' # None
      BY <2>2, ContentsAre, ContentsAssumption DEF OpenFile
    <3> QED
      BY <1>2, <2>2, <3>1 DEF Apart, OpenFile, TypeOK
  <2>3. CASE Lock(p)
    <3>1. mode[p] = "none"
      BY <2>3 DEF Lock, At, ThreadInv, LockInv, Locked
    <3> QED
      BY <1>2, <2>3, <3>1 DEF Apart, Lock, Others, TypeOK
  <2>4. CASE Close(p)
    BY <1>2, <2>4 DEF Apart, Close, TypeOK
  <2>5. CASE Truncate(p) \/ Copy(p) \/ Edit(p)
    <3>1. /\ th[p].pc \in {"truncate", "copy", "apply", "tail", "head", "shrink", "rollback"}
          /\ UNCHANGED <<mode, mu, base, io>>
      BY <2>5 DEF Truncate, Copy, Edit, Apply, WriteTail, TailFails, WriteHead, HeadFails,
         Shrink, Rollback, RollbackFails, At
    <3>2. mode[p] = "write" /\ th[p].call # None
      BY <3>1, WriterFacts, ContentsAssumption
    <3>3. th'[p].pc \in Locked
      BY <1>1, <3>1, <3>2 DEF ThreadInv, LockInv
    <3>4. file' # None
      BY <1>1, <3>3 DEF ThreadInv, LockInv
    <3> QED
      BY <1>2, <3>1, <3>2, <3>4 DEF Apart
  <2> QED
    BY <2>1, <2>2, <2>3, <2>4, <2>5 DEF Proceed
<1> QED
  BY <1>1, <1>3

LEMMA InitIInv == Init => IInv
<1> SUFFICES ASSUME Init PROVE IInv
  OBVIOUS
<1>1. TypeOK
  BY IdleFacts DEF Init, TypeOK
<1>2. Exclusion /\ MuInv
  BY DEF Init, Exclusion, MuInv, At, Idle
<1>3. ASSUME NEW p \in Threads PROVE ThreadInv(p)
  BY DEF Init, Idle, ThreadInv, CallInv, LockInv, Locked, ReadInv, WriteInv, CloseInv, At
<1> QED
  BY <1>1, <1>2, <1>3 DEF IInv

LEMMA StepExclusion ==
  ASSUME IInv, [Next]_vars
  PROVE  Exclusion'
<1> USE DEF IInv, TypeOK
<1>1. ASSUME NEW p \in Threads, Apart(p) PROVE Exclusion'
  BY <1>1 DEF Apart, Exclusion
<1>2. CASE (\E P \in Processes : Crash(P)) \/ UNCHANGED vars
  BY <1>2 DEF Crash, vars, Exclusion
<1> QED
  BY <1>1, <1>2, StepOfThread DEF Next

LEMMA StepMu ==
  ASSUME IInv, [Next]_vars
  PROVE  MuInv'
<1> USE DEF IInv, At
<1>1. ASSUME NEW p \in Threads, Begin(p) \/ Proceed(p) \/ Return(p) PROVE MuInv'
  <2>1. Apart(p) /\ TypeOK'
    BY <1>1, StepOfThread
  <2>2. CASE MuLock(p)
    <3>1. th'[p].pc = "held"
      BY <2>2 DEF MuLock, Goto, TypeOK, Locals
    <3> QED
      BY <2>1, <2>2, <3>1, ContentsAssumption DEF MuLock, Apart, MuInv, TypeOK
  <2>3. CASE MuUnlock(p)
    <3>1. th'[p].pc = "close"
      BY <2>3 DEF MuUnlock, End, TypeOK, Locals
    <3>2. \A q \in Threads : q # p => th[q].pc # "held"
      <4>1. mode[p] = "write"
        BY <2>3 DEF MuUnlock, ThreadInv, CallInv, LockInv, Locked
      <4> QED
        BY <4>1 DEF Exclusion, ThreadInv, CallInv, LockInv, Locked
    <3>3. /\ \A q \in Threads : q # p => th'[q] = th[q]
          /\ mu' = [mu EXCEPT ![Home[p]] = {}] /\ Home[p] \in Processes
      BY <2>1, <2>3, ContentsAssumption DEF MuUnlock, Apart
    <3>4. ASSUME NEW q \in Threads, NEW P \in Processes
          PROVE  q \in mu'[P] <=> th'[q].pc = "held" /\ Home[q] = P
      <4>1. th'[q].pc # "held" /\ (q = p \/ th[q].pc # "held")
        BY <3>1, <3>2, <3>3
      <4>2. CASE P = Home[p]
        BY <3>3, <4>1, <4>2 DEF TypeOK
      <4>3. CASE P # Home[p]
        BY <3>3, <4>1, <4>3 DEF TypeOK, MuInv
      <4> QED
        BY <4>2, <4>3
    <3> QED
      BY <3>4 DEF MuInv
  <2>4. CASE ~MuLock(p) /\ ~MuUnlock(p)
    <3>1. mu' = mu
      BY <1>1, <2>4 DEF Proceed, Edit, Begin, Return, OpenFile, OpenFails, Lock, LockFails,
         Truncate, Copy, ReadAll, Apply, WriteTail, TailFails, WriteHead, HeadFails, Shrink,
         Rollback, RollbackFails, Close
    <3>2. th[p].pc # "held"
      <4>1. CASE Begin(p) \/ Return(p) \/ Close(p)
        BY <4>1 DEF Begin, Return, Close
      <4>2. CASE OpenFile(p) \/ OpenFails(p) \/ Lock(p) \/ LockFails(p)
        BY <4>2 DEF OpenFile, OpenFails, Lock, LockFails
      <4>3. CASE Truncate(p) \/ Copy(p) \/ ReadAll(p)
        BY <4>3 DEF Truncate, Copy, ReadAll
      <4>4. CASE Edit(p)
        BY <4>4 DEF Edit, Apply, WriteTail, TailFails, WriteHead, HeadFails, Shrink,
           Rollback, RollbackFails
      <4> QED
        BY <1>1, <2>4, <4>1, <4>2, <4>3, <4>4 DEF Proceed
    <3>3. th'[p].pc # "held"
      <4>0. CASE Begin(p)
        BY <4>0 DEF TypeOK, Locals, Begin
      <4>1. CASE Return(p) \/ Close(p)
        BY <4>1 DEF TypeOK, Return, Close, Idle
      <4>2. CASE OpenFile(p) \/ OpenFails(p) \/ Lock(p) \/ LockFails(p)
        BY <4>2 DEF TypeOK, Locals, OpenFile, OpenFails, Lock, LockFails, Goto, End, FirstStep
      <4>3. CASE Truncate(p) \/ Copy(p) \/ ReadAll(p)
        BY <4>3 DEF TypeOK, Locals, Truncate, Copy, ReadAll, Goto, End, WriteByte
      <4>4. CASE Edit(p)
        BY <4>4 DEF TypeOK, Locals, Edit, Apply, WriteTail, TailFails, WriteHead, HeadFails,
           Shrink, Rollback, RollbackFails, Goto, End, WriteByte
      <4> QED
        BY <1>1, <2>4, <4>0, <4>1, <4>2, <4>3, <4>4 DEF Proceed
    <3> QED
      BY <2>1, <3>1, <3>2, <3>3 DEF Apart, MuInv
  <2> QED
    BY <2>2, <2>3, <2>4
<1>2. ASSUME NEW P \in Processes, Crash(P) PROVE MuInv'
  BY <1>2 DEF Crash, MuInv, TypeOK, Idle
<1>3. CASE UNCHANGED vars
  BY <1>3 DEF vars, MuInv
<1> QED
  BY <1>1, <1>2, <1>3 DEF Next

LEMMA StepIInv ==
  ASSUME IInv, [Next]_vars
  PROVE  IInv'
<1> USE DEF IInv
<1>1. Exclusion' /\ MuInv'
  BY StepExclusion, StepMu
<1>2. ASSUME NEW p \in Threads, Begin(p) \/ Proceed(p) \/ Return(p)
      PROVE  TypeOK' /\ \A q \in Threads : ThreadInv(q)'
  <2>1. TypeOK' /\ ThreadInv(p)' /\ Apart(p)
    BY <1>2, StepOfThread
  <2>2. ASSUME NEW q \in Threads, q # p PROVE ThreadInv(q)'
    <3>1. mode[q] # "none" => file' = file
      <4>1. mode[q] # "none" => file # None
        BY DEF ThreadInv, LockInv
      <4> QED
        BY <2>1, <2>2, <4>1 DEF Apart, Exclusion
    <3>2. mode[q] = "write" => base' = base
      BY <2>1, <2>2 DEF Apart, Exclusion, TypeOK
    <3> QED
      BY <2>1, <2>2, <3>1, <3>2, OutsideStep DEF Apart
  <2> QED
    BY <2>1, <2>2
<1>3. ASSUME NEW P \in Processes, Crash(P)
      PROVE  TypeOK' /\ \A q \in Threads : ThreadInv(q)'
  <2>1. TypeOK'
    BY <1>3, IdleFacts DEF Crash, TypeOK
  <2>2. ASSUME NEW q \in Threads, Home[q] = P PROVE ThreadInv(q)'
    BY <1>3, <2>2, IdleFacts DEF Crash
  <2>3. ASSUME NEW q \in Threads, Home[q] # P PROVE ThreadInv(q)'
    <3>1. mode[q] = "write" => base' = base
      BY <1>3, <2>3 DEF Crash, Exclusion
    <3> QED
      BY <1>3, <2>3, <3>1, OutsideStep DEF Crash
  <2> QED
    BY <2>1, <2>2, <2>3
<1>4. CASE UNCHANGED vars
  <2>1. TypeOK'
    BY <1>4 DEF vars, TypeOK
  <2>2. ASSUME NEW q \in Threads PROVE ThreadInv(q)'
    <3>1. UNCHANGED <<file, mode, th, mu, base, io>>
      BY <1>4 DEF vars
    <3>2. /\ th'[q] = th[q] /\ mode'[q] = mode[q] /\ io' = io
          /\ file' = file /\ base' = base
      BY <3>1
    <3>3. ThreadInv(q) /\ (file # None => file' # None)
      BY <3>2
    <3> QED
      BY <3>2, <3>3, OutsideStep
  <2> QED
    BY <1>1, <2>1, <2>2
<1> QED
  BY <1>1, <1>2, <1>3, <1>4 DEF Next

-----------------------------------------------------------------------------
THEOREM Invariance == Spec => []IInv
<1>1. Init => IInv
  BY InitIInv
<1>2. IInv /\ [Next]_vars => IInv'
  BY StepIInv
<1> QED
  BY <1>1, <1>2, PTL DEF Spec

\* Every variable of LockedFile has its type.
THEOREM TypeCorrect == Spec => []TypeOK
<1>1. IInv => TypeOK
  BY DEF IInv
<1> QED
  BY <1>1, Invariance, PTL

\* While a thread has the file locked, no step of another changes it.
THEOREM StableCorrect == Spec => LockedIsStable
<1>1. IInv /\ [Next]_vars =>
        [\A p \in Threads :
           mode[p] # "none" /\ th'[p] = th[p] => file' = file]_vars
  <2> SUFFICES ASSUME IInv, Next, NEW p \in Threads, mode[p] # "none", th'[p] = th[p]
               PROVE  file' = file
    BY DEF vars
  <2> USE DEF IInv
  <2>1. file # None
    BY DEF ThreadInv, LockInv
  <2>2. ASSUME NEW q \in Threads, q # p, Begin(q) \/ Proceed(q) \/ Return(q)
        PROVE  file' = file
    BY <2>1, <2>2, StepOfThread DEF Apart, Exclusion
  <2>3. ASSUME Begin(p) \/ Proceed(p) \/ Return(p) PROVE file' = file
    <3>1. CASE \/ Begin(p) \/ Return(p) \/ OpenFails(p) \/ Lock(p) \/ LockFails(p)
               \/ ReadAll(p) \/ MuLock(p) \/ MuUnlock(p) \/ Close(p)
               \/ Apply(p) \/ HeadFails(p) \/ RollbackFails(p)
      BY <3>1 DEF Begin, Return, OpenFails, Lock, LockFails, ReadAll, MuLock, MuUnlock,
         Close, Apply, HeadFails, RollbackFails
    <3>2. CASE OpenFile(p)
      BY <2>1, <3>2 DEF OpenFile
    <3>3. ASSUME NEW s, WriteByte(p, s) PROVE FALSE
      <4>1. th'[p].off = th[p].off + 1 /\ th[p].off \in Nat
        BY <3>3, LocalTypes DEF WriteByte, TypeOK, Locals
      <4> QED
        BY <4>1
    <3>4. ASSUME NEW l, NEW r, End(p, l, r) \/ Goto(p, l) PROVE th'[p].pc = l
      BY <3>4 DEF End, Goto, TypeOK, Locals
    <3>5. CASE Truncate(p) \/ Copy(p)
      BY <3>3, <3>4, <3>5 DEF Truncate, Copy, At
    <3>6. CASE \/ WriteTail(p) \/ TailFails(p) \/ WriteHead(p) \/ Shrink(p) \/ Rollback(p)
      BY <3>3, <3>4, <3>6 DEF WriteTail, TailFails, WriteHead, Shrink, Rollback, At
    <3> QED
      BY <2>3, <3>1, <3>2, <3>5, <3>6 DEF Proceed, Edit
  <2>4. ASSUME NEW P \in Processes, Crash(P) PROVE file' = file
    BY <2>4 DEF Crash
  <2> QED
    BY <2>2, <2>3, <2>4 DEF Next
<1> QED
  BY <1>1, Invariance, PTL DEF Spec, LockedIsStable

\* A Transform overwrites nothing of the old contents before the file has
\* room for all of the new, nor after it gave up.
THEOREM RoomCorrect == Spec => []RoomBeforeOverwrite
<1>1. IInv => RoomBeforeOverwrite
  <2> SUFFICES ASSUME IInv, NEW p \in Threads, mode[p] = "write", Op(p) = "transform",
                      ~At(p, "read")
               PROVE  IsStart(th[p].buf, file) \/ Len(file) >= Len(New(p))
    BY DEF RoomBeforeOverwrite
  <2> USE DEF IInv, At
  <2>1. /\ th[p].pc \in Locked /\ th[p].call # None /\ file \in Contents
        /\ th[p].buf \in Contents
    BY LocalTypes DEF ThreadInv, CallInv, LockInv, Locked, TypeOK
  <2>2. New(p) \in Contents /\ Len(New(p)) \in Nat /\ Len(file) \in Nat
        /\ Len(th[p].buf) \in Nat
    BY <2>1, NewType, ContentsAre
  <2>3. th[p].pc \in {"apply", "tail", "head", "shrink", "rollback", "close"}
    BY <2>1 DEF ThreadInv, CallInv, Locked
  <2>4. \/ Len(New(p)) <= Len(file)
        \/ Len(th[p].buf) <= Len(file) /\ Agree(th[p].buf, file, Len(th[p].buf))
    BY <2>1, <2>2, <2>3 DEF ThreadInv, ReadInv, WriteInv, CloseInv, Agree
  <2> QED
    BY <2>1, <2>2, <2>4, AgreeIsStart
<1> QED
  BY <1>1, Invariance, PTL

\* A Transform that returns an error leaves the file as it was, unless the
\* device fails, for another reason than want of space, in restoring it too.
THEOREM ErrorCorrect == Spec => []ErrorRestores
<1>1. IInv => ErrorRestores
  BY DEF IInv, ErrorRestores, ThreadInv, CloseInv
<1> QED
  BY <1>1, Invariance, PTL

\* Nobody who has locked the file waits for Mutex.mu.
THEOREM MuCorrect == Spec => []MuIsRedundant
<1>1. IInv => MuIsRedundant
  <2> SUFFICES ASSUME IInv, NEW p \in Threads, At(p, "mu")
               PROVE  mu[Home[p]] = {}
    BY DEF MuIsRedundant
  <2> USE DEF IInv
  <2>1. mode[p] = "write" /\ Home[p] \in Processes
    BY ContentsAssumption DEF ThreadInv, CallInv, LockInv, Locked, At
  <2>2. ASSUME NEW q \in mu[Home[p]] PROVE FALSE
    <3>1. q \in Threads /\ At(q, "held")
      BY <2>1, <2>2 DEF MuInv, TypeOK
    <3>2. mode[q] = "write" /\ q # p
      BY <3>1 DEF ThreadInv, CallInv, LockInv, Locked, At
    <3> QED
      BY <2>1, <3>1, <3>2 DEF Exclusion
  <2> QED
    BY <2>2
<1> QED
  BY <1>1, Invariance, PTL

-----------------------------------------------------------------------------
(***************************************************************************)
(* The refinement.  What a call has left in the file, at any place of it,  *)
(* is what an interrupted abstract call may leave; when it is about to     *)
(* unlock the file, it has done what the abstract call does.               *)
(***************************************************************************)

\* Every byte of m comes from one of the two.
Mixed(m, old, new) ==
  \A i \in 1..Len(m) :
    \/ i <= Len(old) /\ m[i] = old[i]
    \/ i <= Len(new) /\ m[i] = new[i]

\* m and new agree on the bytes of m after the first n.
SameTail(m, new, n) == \A i \in (n + 1)..Len(m) : m[i] = new[i]

\* What the file holds at each place of a call, compared with what it held
\* when it was locked and with what the call writes.
EffectInv(p) ==
  /\ mode[p] = "write" => base \in Contents
  /\ th[p].pc \notin {"close", "returned"} => th[p].res = "ok"
  /\ th[p].pc \in {"truncate", "mu", "held"} => file = base
  /\ At(p, "copy") =>
       /\ Len(file) = th[p].off /\ th[p].off <= Len(New(p))
       /\ Agree(file, New(p), th[p].off)
  /\ At(p, "tail") => SameTail(file, New(p), Len(base))
  /\ At(p, "head") =>
       /\ Len(file) = Len(base) \/ Len(file) = Len(New(p))
       /\ SameTail(file, New(p), Len(base)) /\ Agree(file, New(p), th[p].off)
  /\ At(p, "shrink") => Agree(file, New(p), Len(New(p)))
  /\ th[p].pc \in {"head", "shrink", "rollback"} => Mixed(file, base, New(p))

\* The same when the call is about to unlock the file.
EndInv(p) ==
  At(p, "close") =>
    /\ Op(p) = "read" => /\ th[p].res # "torn"
                         /\ th[p].res = "ok" => th[p].buf = file
    /\ Op(p) = "mutex" => th[p].res = "ok" /\ file = base
    /\ Op(p) = "write" => /\ th[p].res # "torn"
                          /\ th[p].res = "ok" => file = New(p)
                          /\ file = base \/ IsStart(file, New(p))
    /\ Op(p) = "transform" =>
         /\ th[p].res # "failed" => th[p].buf = base
         /\ th[p].res = "ok" => file = New(p)
         /\ th[p].res = "torn" => Len(base) <= Len(file) /\ Mixed(file, base, New(p))

AtomicInv == IInv /\ \A p \in Threads : EffectInv(p) /\ EndInv(p)

-----------------------------------------------------------------------------
\* The call and what it has read stay the same, and so does what it writes.
Kept(p) == th'[p].buf = th[p].buf /\ th'[p].call = th[p].call

LEMMA KeptSame ==
  ASSUME NEW p, Kept(p)
  PROVE  Op(p)' = Op(p) /\ New(p)' = New(p)
BY DEF Kept, Op, New

LEMMA Going ==
  ASSUME TypeOK, NEW p \in Threads
  PROVE  /\ \A l : Goto(p, l) =>
              /\ th'[p].pc = l /\ th'[p].off = th[p].off
              /\ th'[p].res = th[p].res /\ Kept(p)
         /\ \A l, r : End(p, l, r) =>
              th'[p].pc = l /\ th'[p].res = r /\ Kept(p)
         /\ \A l, o : th' = [th EXCEPT ![p].pc = l, ![p].off = o] =>
              /\ th'[p].pc = l /\ th'[p].off = o
              /\ th'[p].res = th[p].res /\ Kept(p)
         /\ \A s : WriteByte(p, s) =>
              th'[p].pc = th[p].pc /\ th'[p].res = th[p].res /\ Kept(p)
BY DEF Goto, End, WriteByte, TypeOK, Locals, Kept

LEMMA OutsideEffect ==
  ASSUME NEW q \in Threads, ThreadInv(q), EffectInv(q), EndInv(q),
         th'[q] = th[q], mode'[q] = mode[q],
         mode[q] # "none" => file' = file,
         mode[q] = "write" => base' = base
  PROVE  EffectInv(q)' /\ EndInv(q)'
<1> USE DEF At
<1>1. Op(q)' = Op(q) /\ New(q)' = New(q)
  BY KeptSame DEF Kept
<1>2. CASE th[q].pc \notin Locked
  BY <1>2 DEF Locked, EffectInv, EndInv, ThreadInv, LockInv
<1>3. CASE th[q].pc \in Locked
  <2>1. file' = file
    BY <1>3 DEF ThreadInv, LockInv
  <2>2. Op(q) # "read" => base' = base
    BY <1>3 DEF ThreadInv, LockInv
  <2>3. CASE Op(q) = "read"
    <3>1. th[q].pc \in {"read", "close"} /\ mode[q] = "read"
      BY <1>3, <2>3 DEF ThreadInv, CallInv, LockInv, Locked
    <3> QED
      BY <1>1, <2>1, <2>3, <3>1 DEF EffectInv, EndInv
  <2>4. CASE Op(q) # "read"
    BY <1>1, <2>1, <2>2, <2>4 DEF EffectInv, EndInv
  <2> QED
    BY <2>3, <2>4
<1> QED
  BY <1>2, <1>3

-----------------------------------------------------------------------------
\* The steps before the lock, and those after Close.
LEMMA UnlockedEffect ==
  ASSUME AtomicInv, NEW p \in Threads,
         \/ Begin(p) \/ OpenFile(p) \/ OpenFails(p) \/ LockFails(p)
         \/ Close(p) \/ Return(p)
  PROVE  EffectInv(p)' /\ EndInv(p)'
<1> USE DEF At
<1>1. TypeOK /\ ThreadInv(p) /\ EffectInv(p)
  BY DEF AtomicInv, IInv
<1>2. ThreadInv(p)'
  BY StepOfThread DEF AtomicInv, Proceed
<1>3. /\ th'[p].pc \in {"open", "lock", "returned", "idle"}
      /\ th'[p].pc # "returned" => th'[p].res = "ok"
  <2>1. CASE Begin(p)
    <3>1. PICK c \in CallsOf[p] : th' = [th EXCEPT ![p].pc = "open", ![p].call = c]
      BY <2>1 DEF Begin
    <3>2. th'[p].pc = "open" /\ th'[p].res = th[p].res
      BY <1>1, <3>1 DEF TypeOK, Locals
    <3> QED
      BY <1>1, <2>1, <3>2 DEF Begin, EffectInv
  <2>2. CASE OpenFile(p) \/ OpenFails(p) \/ LockFails(p)
    BY <1>1, <2>2, Going DEF OpenFile, OpenFails, LockFails, EffectInv
  <2>3. CASE Close(p)
    <3>1. th'[p].pc = "returned"
      BY <1>1, <2>3 DEF Close, TypeOK
    <3> QED
      BY <3>1
  <2>4. CASE Return(p)
    BY <1>1, <2>4 DEF Return, TypeOK, Idle
  <2> QED
    BY <2>1, <2>2, <2>3, <2>4
<1>4. mode'[p] = "none"
  BY <1>2, <1>3 DEF ThreadInv, LockInv, Locked
<1> QED
  BY <1>3, <1>4 DEF EffectInv, EndInv

LEMMA LockEffect ==
  ASSUME AtomicInv, NEW p \in Threads, Lock(p)
  PROVE  EffectInv(p)' /\ EndInv(p)'
<1> USE DEF At
<1>1. TypeOK /\ ThreadInv(p) /\ EffectInv(p)
  BY DEF AtomicInv, IInv
<1>2. /\ th[p].call \in Calls /\ file \in Contents /\ file' = file
      /\ th[p].res = "ok"
  BY <1>1, LocalTypes DEF Lock, ThreadInv, CallInv, LockInv, TypeOK, EffectInv
<1>3. Op(p) \in {"read", "write", "mutex", "transform"}
  BY <1>2 DEF Calls, Op
<1>4. /\ th'[p].pc = FirstStep(Op(p)) /\ th'[p].res = "ok"
  BY <1>1, <1>2, Going DEF Lock
<1>5. /\ mode'[p] = IF Op(p) = "read" THEN "read" ELSE "write"
      /\ Op(p) # "read" => base' = file
  BY <1>1 DEF Lock, Exclusive, TypeOK
<1> QED
  BY <1>2, <1>3, <1>4, <1>5 DEF EffectInv, EndInv, FirstStep

\* What Write leaves is the beginning of what it was called with.
LEMMA WriteEffect ==
  ASSUME AtomicInv, NEW p \in Threads, Truncate(p) \/ Copy(p)
  PROVE  EffectInv(p)' /\ EndInv(p)'
<1> USE DEF At
<1>1. IInv /\ TypeOK /\ ThreadInv(p) /\ EffectInv(p)
  BY DEF AtomicInv, IInv
<1>2. /\ mode[p] = "write" /\ file \in Contents /\ New(p) \in Contents
      /\ Len(file) \in Nat /\ Len(New(p)) \in Nat /\ base \in Contents
  BY <1>1, WriterFacts DEF Truncate, Copy, EffectInv
<1>3. Op(p) = "write" /\ (At(p, "truncate") => th[p].off = 0)
  BY <1>1 DEF Truncate, Copy, ThreadInv, CallInv
<1>4. UNCHANGED <<mode, base>>
  BY DEF Truncate, Copy
<1>5. CASE Truncate(p) /\ file' = <<>> /\ Goto(p, "copy")
  <2>1. /\ th'[p].pc = "copy" /\ th'[p].off = 0 /\ th'[p].res = "ok"
        /\ New(p)' = New(p) /\ Op(p)' = "write"
    BY <1>1, <1>3, <1>5, Going, KeptSame DEF Truncate, EffectInv
  <2>2. Len(file') = 0
    BY <1>5
  <2> QED
    BY <1>2, <1>4, <2>1, <2>2 DEF EffectInv, EndInv, Agree
<1>6. CASE Truncate(p) /\ End(p, "close", "failed") /\ file' = file
  <2>1. /\ th'[p].pc = "close" /\ th'[p].res = "failed" /\ Op(p)' = "write"
        /\ New(p)' = New(p)
    BY <1>1, <1>3, <1>6, Going, KeptSame
  <2>2. file = base
    BY <1>1, <1>6 DEF Truncate, EffectInv
  <2> QED
    BY <1>2, <1>4, <1>6, <2>1, <2>2 DEF EffectInv, EndInv
<1>7. ASSUME Copy(p)
      PROVE  /\ Len(file) = th[p].off /\ th[p].off <= Len(New(p))
             /\ \A i \in 1..th[p].off : file[i] = New(p)[i]
             /\ IsStart(file, New(p)) /\ th[p].pc = "copy" /\ th[p].res = "ok"
  <2>1. /\ Len(file) = th[p].off /\ th[p].off <= Len(New(p))
        /\ Agree(file, New(p), Len(file)) /\ th[p].pc = "copy" /\ th[p].res = "ok"
    BY <1>1, <1>7 DEF Copy, EffectInv
  <2> QED
    BY <1>2, <2>1, AgreeIsStart DEF Agree
<1>8. CASE Copy(p) /\ th[p].off < Len(New(p)) /\ WriteByte(p, New(p))
  <2> DEFINE i == th[p].off + 1
  <2>1. /\ th'[p].pc = "copy" /\ th'[p].off = i /\ Len(file') = i
        /\ file'[i] = New(p)[i]
        /\ \A j \in 1..Len(file) : j # i => file'[j] = file[j]
    BY <1>1, <1>2, <1>7, <1>8, WriteByteStep
  <2>2. th'[p].res = "ok" /\ New(p)' = New(p) /\ Op(p)' = "write"
    BY <1>1, <1>3, <1>7, <1>8, Going, KeptSame
  <2>3. i <= Len(New(p))
    BY <1>2, <1>7, <1>8
  <2>4. Agree(file', New(p), i)
    <3>1. Len(file) = th[p].off /\ \A j \in 1..th[p].off : file[j] = New(p)[j]
      BY <1>7, <1>8
    <3>2. ASSUME NEW j \in 1..i PROVE file'[j] = New(p)[j]
      <4>1. j = i \/ (j \in 1..Len(file) /\ j # i)
        BY <1>2, <3>1
      <4> QED
        BY <2>1, <3>1, <4>1
    <3> HIDE DEF i
    <3> QED
      BY <3>2 DEF Agree
  <2> QED
    BY <1>2, <1>4, <2>1, <2>2, <2>3, <2>4 DEF EffectInv, EndInv
<1>9. CASE Copy(p) /\ th[p].off < Len(New(p)) /\ End(p, "close", "failed") /\ file' = file
  <2>1. /\ th'[p].pc = "close" /\ th'[p].res = "failed" /\ Op(p)' = "write"
        /\ New(p)' = New(p)
    BY <1>1, <1>3, <1>9, Going, KeptSame
  <2> QED
    BY <1>2, <1>4, <1>7, <1>9, <2>1 DEF EffectInv, EndInv
<1>10. CASE Copy(p) /\ th[p].off = Len(New(p)) /\ End(p, "close", "ok") /\ file' = file
  <2>1. /\ th'[p].pc = "close" /\ th'[p].res = "ok" /\ Op(p)' = "write"
        /\ New(p)' = New(p)
    BY <1>1, <1>3, <1>10, Going, KeptSame
  <2>2. file = New(p)
    <3>1. Agree(file, New(p), Len(file)) /\ Len(file) = Len(New(p))
      BY <1>7, <1>10 DEF Agree
    <3> QED
      BY <1>2, <3>1, SameContents
  <2> QED
    BY <1>2, <1>4, <1>7, <1>10, <2>1, <2>2 DEF EffectInv, EndInv
<1> QED
  BY <1>5, <1>6, <1>8, <1>9, <1>10 DEF Truncate, Copy

LEMMA ReadEffect ==
  ASSUME AtomicInv, NEW p \in Threads, ReadAll(p)
  PROVE  EffectInv(p)' /\ EndInv(p)'
<1> USE DEF At
<1> DEFINE n == Len(th[p].buf)
<1>1. IInv /\ TypeOK /\ ThreadInv(p) /\ EffectInv(p)
  BY DEF AtomicInv, IInv
<1>2. /\ th[p].pc = "read" /\ file \in Contents /\ th[p].buf \in Contents
      /\ Len(file) \in Nat /\ n \in Nat /\ th[p].res = "ok"
  BY <1>1, LocalTypes, ContentsAre
     DEF ReadAll, ThreadInv, LockInv, Locked, TypeOK, EffectInv
<1>3. /\ Op(p) \in {"read", "transform"}
      /\ n <= Len(file) /\ Agree(th[p].buf, file, n)
  BY <1>1, <1>2 DEF ThreadInv, CallInv, ReadInv
<1>4. UNCHANGED <<file, mode, base>>
  BY DEF ReadAll
<1>5. CASE th' = [th EXCEPT ![p].buf = Append(@, file[n + 1])]
  <2>1. th'[p].pc = "read" /\ th'[p].res = "ok"
    BY <1>1, <1>2, <1>5 DEF TypeOK, Locals
  <2> QED
    BY <1>1, <1>4, <2>1 DEF EffectInv, EndInv
<1>6. CASE n >= Len(file) /\ Op(p) = "read" /\ End(p, "close", "ok")
  <2>1. /\ th'[p].pc = "close" /\ th'[p].res = "ok" /\ Op(p)' = "read"
        /\ th'[p].buf = th[p].buf
    BY <1>1, <1>6, Going, KeptSame DEF Kept
  <2>2. th[p].buf = file
    BY <1>2, <1>3, <1>6, SameContents
  <2> QED
    BY <1>1, <1>4, <2>1, <2>2 DEF EffectInv, EndInv
<1>7. CASE Goto(p, "apply")
  <2>1. th'[p].pc = "apply" /\ th'[p].res = "ok"
    BY <1>1, <1>2, <1>7, Going
  <2> QED
    BY <1>1, <1>4, <2>1 DEF EffectInv, EndInv
<1>8. CASE End(p, "close", "failed")
  <2>1. /\ th'[p].pc = "close" /\ th'[p].res = "failed"
        /\ Op(p)' \in {"read", "transform"}
    BY <1>1, <1>3, <1>8, Going, KeptSame
  <2> QED
    BY <1>1, <1>4, <2>1 DEF EffectInv, EndInv
<1> QED
  BY <1>5, <1>6, <1>7, <1>8 DEF ReadAll

LEMMA MutexEffect ==
  ASSUME AtomicInv, NEW p \in Threads, MuLock(p) \/ MuUnlock(p)
  PROVE  EffectInv(p)' /\ EndInv(p)'
<1> USE DEF At
<1>1. TypeOK /\ ThreadInv(p) /\ EffectInv(p)
  BY DEF AtomicInv, IInv
<1>2. th[p].res = "ok" /\ Op(p) = "mutex" /\ file = base
  BY <1>1 DEF MuLock, MuUnlock, ThreadInv, CallInv, EffectInv
<1>3. /\ th'[p].pc \in {"held", "close"} /\ th'[p].res = "ok" /\ Op(p)' = "mutex"
  BY <1>1, <1>2, Going, KeptSame DEF MuLock, MuUnlock
<1>4. UNCHANGED <<file, mode, base>>
  BY DEF MuLock, MuUnlock
<1> QED
  BY <1>1, <1>2, <1>3, <1>4 DEF EffectInv, EndInv

-----------------------------------------------------------------------------
\* What holds in all of Transform after it has read the file.
LEMMA TransformEffect ==
  ASSUME AtomicInv, NEW p \in Threads,
         th[p].pc \in {"apply", "tail", "head", "shrink", "rollback"}
  PROVE  /\ IInv /\ TypeOK /\ EffectInv(p) /\ ThreadInv(p)
         /\ file \in Contents /\ base \in Contents /\ New(p) \in Contents
         /\ Op(p) = "transform" /\ th[p].buf = base /\ th[p].res = "ok"
         /\ th[p].off \in Nat
         /\ Len(file) \in Nat /\ Len(base) \in Nat /\ Len(New(p)) \in Nat
         /\ Len(base) <= Len(file)
<1> USE DEF At
<1>1. IInv /\ TypeOK /\ ThreadInv(p) /\ EffectInv(p)
  BY DEF AtomicInv, IInv
<1>2. /\ mode[p] = "write" /\ file \in Contents /\ New(p) \in Contents
      /\ Len(file) \in Nat /\ Len(New(p)) \in Nat
  BY <1>1, WriterFacts
<1>3. base \in Contents /\ Len(base) \in Nat /\ th[p].off \in Nat
  BY <1>1, <1>2, ContentsAre, LocalTypes DEF EffectInv
<1>4. /\ Op(p) = "transform" /\ th[p].buf = base /\ Len(base) <= Len(file)
      /\ th[p].res = "ok"
  BY <1>1, <1>3 DEF ThreadInv, CallInv, ReadInv, WriteInv, EffectInv
<1> QED
  BY <1>1, <1>2, <1>3, <1>4

LEMMA ApplyEffect ==
  ASSUME AtomicInv, NEW p \in Threads, Apply(p)
  PROVE  EffectInv(p)' /\ EndInv(p)'
<1> USE DEF At
<1>1. /\ TypeOK /\ EffectInv(p) /\ ThreadInv(p)
      /\ file \in Contents /\ base \in Contents /\ New(p) \in Contents
      /\ Op(p) = "transform" /\ th[p].buf = base /\ th[p].res = "ok"
      /\ Len(file) \in Nat /\ Len(New(p)) \in Nat
      /\ file = base /\ th[p].off = 0
  BY TransformEffect DEF Apply, ThreadInv, ReadInv, CallInv
<1>2. UNCHANGED <<file, mode, base>>
  BY DEF Apply
<1>3. SameTail(file, New(p), Len(base)) /\ Mixed(file, base, New(p))
  BY <1>1 DEF SameTail, Mixed
<1>4. Kept(p) => New(p)' = New(p) /\ Op(p)' = "transform"
  BY <1>1, KeptSame
<1>5. CASE End(p, "close", "failed")
  <2>1. th'[p].pc = "close" /\ th'[p].res = "failed" /\ Kept(p)
    BY <1>1, <1>5, Going
  <2> QED
    BY <1>1, <1>2, <1>4, <2>1 DEF EffectInv, EndInv
<1>6. CASE th' = [th EXCEPT ![p].pc = "tail", ![p].off = Len(th[p].buf)]
  <2>1. th'[p].pc = "tail" /\ th'[p].res = "ok" /\ Kept(p)
    BY <1>1, <1>6, Going
  <2> QED
    BY <1>1, <1>2, <1>3, <1>4, <2>1 DEF EffectInv, EndInv
<1>7. CASE Goto(p, "head")
  <2>1. th'[p].pc = "head" /\ th'[p].off = 0 /\ th'[p].res = "ok" /\ Kept(p)
    BY <1>1, <1>7, Going
  <2> QED
    BY <1>1, <1>2, <1>3, <1>4, <2>1 DEF EffectInv, EndInv, Agree
<1> QED
  BY <1>5, <1>6, <1>7 DEF Apply

LEMMA TailEffect ==
  ASSUME AtomicInv, NEW p \in Threads, WriteTail(p) \/ TailFails(p)
  PROVE  EffectInv(p)' /\ EndInv(p)'
<1> USE DEF At
<1>1. /\ IInv /\ TypeOK /\ EffectInv(p) /\ ThreadInv(p)
      /\ file \in Contents /\ base \in Contents /\ New(p) \in Contents
      /\ Op(p) = "transform" /\ th[p].buf = base /\ th[p].res = "ok"
      /\ Len(file) \in Nat /\ Len(base) \in Nat /\ Len(New(p)) \in Nat
      /\ th[p].off \in Nat /\ th[p].pc = "tail"
  BY TransformEffect DEF WriteTail, TailFails
<1>2. /\ Len(base) <= th[p].off /\ th[p].off <= Len(New(p)) /\ Len(file) = th[p].off
      /\ \A i \in 1..Len(base) : file[i] = base[i]
      /\ \A i \in (Len(base) + 1)..Len(file) : file[i] = New(p)[i]
  BY <1>1 DEF ThreadInv, WriteInv, EffectInv, Agree, SameTail
<1>3. UNCHANGED <<mode, base>>
  BY DEF WriteTail, TailFails
<1>4. Kept(p) => New(p)' = New(p) /\ Op(p)' = "transform"
  BY <1>1, KeptSame
<1>5. Mixed(file, base, New(p)) /\ SameTail(file, New(p), Len(base))
  <2>1. ASSUME NEW i \in 1..Len(file)
        PROVE  \/ i <= Len(base) /\ file[i] = base[i]
               \/ i <= Len(New(p)) /\ file[i] = New(p)[i]
    BY <1>1, <1>2
  <2> QED
    BY <1>2, <2>1 DEF Mixed, SameTail
<1>6. CASE WriteTail(p) /\ th[p].off < Len(New(p)) /\ WriteByte(p, New(p))
  <2> DEFINE i == th[p].off + 1
  <2>1. /\ th'[p].pc = "tail" /\ Len(file') = i
        /\ file'[i] = New(p)[i]
        /\ \A j \in 1..Len(file) : j # i => file'[j] = file[j]
    BY <1>1, <1>2, <1>6, WriteByteStep
  <2>2. th'[p].res = "ok" /\ Kept(p)
    BY <1>1, <1>6, Going
  <2>3. ASSUME NEW j \in (Len(base) + 1)..i PROVE file'[j] = New(p)[j]
    BY <1>1, <1>2, <2>1
  <2> HIDE DEF i
  <2>4. SameTail(file', New(p), Len(base))
    BY <2>1, <2>3 DEF SameTail
  <2> QED
    BY <1>1, <1>3, <1>4, <2>1, <2>2, <2>4 DEF EffectInv, EndInv
<1>7. CASE /\ th[p].off = Len(New(p)) /\ file' = file
           /\ th' = [th EXCEPT ![p].pc = "head", ![p].off = 0]
  <2>1. th' = [th EXCEPT ![p].pc = "head", ![p].off = 0] /\ file' = file
    BY <1>7
  <2>2. th'[p].pc = "head" /\ th'[p].off = 0 /\ th'[p].res = th[p].res /\ Kept(p)
    BY <1>1, <2>1 DEF TypeOK, Locals, Kept
  <2>3. Len(file) = Len(New(p)) /\ Agree(file, New(p), 0)
    BY <1>2, <1>7 DEF Agree
  <2> QED
    BY <1>1, <1>3, <1>4, <1>5, <2>1, <2>2, <2>3 DEF EffectInv, EndInv
<1>8. CASE End(p, "close", "failed")
  <2>1. th'[p].pc = "close" /\ th'[p].res = "failed" /\ Kept(p)
    BY <1>1, <1>8, Going
  <2> QED
    BY <1>1, <1>3, <1>4, <2>1 DEF EffectInv, EndInv
<1>9. CASE file' = file /\ End(p, "close", "torn")
  <2>1. th'[p].pc = "close" /\ th'[p].res = "torn" /\ Kept(p)
    BY <1>1, <1>9, Going
  <2>2. th'[p].buf = base /\ Len(base) <= Len(file)
    BY <1>1, <1>2, <2>1 DEF Kept
  <2> QED
    BY <1>1, <1>3, <1>4, <1>5, <1>9, <2>1, <2>2 DEF EffectInv, EndInv
<1> QED
  BY <1>6, <1>7, <1>8, <1>9 DEF WriteTail, TailFails

LEMMA HeadEffect ==
  ASSUME AtomicInv, NEW p \in Threads, WriteHead(p) \/ HeadFails(p)
  PROVE  EffectInv(p)' /\ EndInv(p)'
<1> USE DEF At
<1> DEFINE n == Len(New(p))
<1>1. /\ IInv /\ TypeOK /\ EffectInv(p) /\ ThreadInv(p)
      /\ file \in Contents /\ base \in Contents /\ New(p) \in Contents
      /\ Op(p) = "transform" /\ th[p].buf = base /\ th[p].res = "ok"
      /\ Len(file) \in Nat /\ Len(base) \in Nat /\ n \in Nat
      /\ Len(base) <= Len(file)
      /\ th[p].off \in Nat /\ th[p].pc = "head"
  BY TransformEffect DEF WriteHead, HeadFails
<1>2. /\ n <= Len(file) /\ th[p].off <= HeadLen(p)
      /\ HeadLen(p) = IF n < Len(base) THEN n ELSE Len(base)
      /\ Len(file) = Len(base) \/ Len(file) = n
      /\ \A i \in (Len(base) + 1)..Len(file) : file[i] = New(p)[i]
      /\ \A i \in 1..th[p].off : file[i] = New(p)[i]
      /\ Mixed(file, base, New(p))
  BY <1>1 DEF ThreadInv, WriteInv, EffectInv, SameTail, Agree, HeadLen
<1>3. UNCHANGED <<mode, base>>
  BY DEF WriteHead, HeadFails
<1>4. Kept(p) => New(p)' = New(p) /\ Op(p)' = "transform"
  BY <1>1, KeptSame
<1>5. CASE WriteHead(p) /\ th[p].off < HeadLen(p) /\ WriteByte(p, New(p))
  <2> DEFINE i == th[p].off + 1
  <2>1. i <= n /\ i <= Len(base) /\ i \in Nat /\ th[p].off < n /\ th[p].off < Len(file)
    BY <1>1, <1>2, <1>5
  <2>2. /\ th'[p].pc = "head" /\ th'[p].off = i /\ Len(file') = Len(file)
        /\ file'[i] = New(p)[i]
        /\ \A j \in 1..Len(file) : j # i => file'[j] = file[j]
    BY <1>1, <1>5, <2>1, WriteByteStep
  <2>3. th'[p].res = "ok" /\ Kept(p)
    BY <1>1, <1>5, Going
  <2>4. ASSUME NEW j \in (Len(base) + 1)..Len(file) PROVE file'[j] = New(p)[j]
    BY <1>1, <1>2, <2>1, <2>2
  <2>5. ASSUME NEW j \in 1..i PROVE file'[j] = New(p)[j]
    BY <1>1, <1>2, <2>1, <2>2
  <2> HIDE DEF i
  <2>6. ASSUME NEW j \in 1..Len(file)
        PROVE  \/ j <= Len(base) /\ file'[j] = base[j]
               \/ j <= n /\ file'[j] = New(p)[j]
    BY <1>2, <2>1, <2>2 DEF Mixed
  <2>7. /\ SameTail(file', New(p), Len(base)) /\ Agree(file', New(p), i)
        /\ Mixed(file', base, New(p))
    BY <2>2, <2>4, <2>5, <2>6 DEF SameTail, Agree, Mixed
  <2> QED
    BY <1>1, <1>2, <1>3, <1>4, <2>2, <2>3, <2>7 DEF EffectInv, EndInv
<1>6. CASE th[p].off = HeadLen(p) /\ n < Len(base) /\ Goto(p, "shrink") /\ file' = file
  <2>1. th'[p].pc = "shrink" /\ th'[p].res = "ok" /\ Kept(p)
    BY <1>1, <1>6, Going
  <2>2. Agree(file, New(p), n)
    BY <1>2, <1>6 DEF Agree
  <2> QED
    BY <1>1, <1>2, <1>3, <1>4, <1>6, <2>1, <2>2 DEF EffectInv, EndInv
<1>7. CASE /\ th[p].off = HeadLen(p) /\ ~(n < Len(base)) /\ End(p, "close", "ok")
           /\ file' = file
  <2>1. th'[p].pc = "close" /\ th'[p].res = "ok" /\ Kept(p)
    BY <1>1, <1>7, Going
  <2>2. Len(file) = n /\ th[p].off = Len(base)
    BY <1>1, <1>2, <1>7
  <2>3. ASSUME NEW i \in 1..Len(file) PROVE file[i] = New(p)[i]
    BY <1>1, <1>2, <2>2
  <2>4. file = New(p)
    BY <1>1, <2>2, <2>3, SameContents DEF Agree
  <2>5. th'[p].buf = base
    BY <1>1, <2>1 DEF Kept
  <2> QED
    BY <1>1, <1>3, <1>4, <1>7, <2>1, <2>4, <2>5 DEF EffectInv, EndInv
<1>8. CASE HeadFails(p)
  <2>1. th'[p].pc = "rollback" /\ th'[p].res = "ok" /\ Kept(p) /\ file' = file
    BY <1>1, <1>8, Going DEF HeadFails
  <2> QED
    BY <1>1, <1>2, <1>3, <1>4, <2>1 DEF EffectInv, EndInv
<1> QED
  BY <1>1, <1>5, <1>6, <1>7, <1>8 DEF WriteHead

LEMMA ShrinkEffect ==
  ASSUME AtomicInv, NEW p \in Threads, Shrink(p)
  PROVE  EffectInv(p)' /\ EndInv(p)'
<1> USE DEF At
<1> DEFINE n == Len(New(p))
<1>1. /\ TypeOK /\ EffectInv(p) /\ ThreadInv(p)
      /\ file \in Contents /\ base \in Contents /\ New(p) \in Contents
      /\ Op(p) = "transform" /\ th[p].buf = base /\ th[p].res = "ok"
      /\ Len(file) \in Nat /\ n \in Nat /\ th[p].pc = "shrink"
  BY TransformEffect DEF Shrink
<1>2. n <= Len(file) /\ Agree(file, New(p), n) /\ Mixed(file, base, New(p))
  BY <1>1 DEF ThreadInv, WriteInv, EffectInv
<1>3. UNCHANGED <<mode, base>>
  BY DEF Shrink
<1>4. Kept(p) => New(p)' = New(p) /\ Op(p)' = "transform"
  BY <1>1, KeptSame
<1>5. CASE file' = Cut(file, n) /\ End(p, "close", "ok")
  <2>1. th'[p].pc = "close" /\ th'[p].res = "ok" /\ Kept(p)
    BY <1>1, <1>5, Going
  <2>2. file' \in Contents /\ Len(file') = n /\ \A i \in 1..n : file'[i] = file[i]
    BY <1>1, <1>2, <1>5, CutFacts
  <2>3. Agree(file', New(p), Len(file'))
    BY <1>2, <2>2 DEF Agree
  <2>4. file' = New(p)
    BY <1>1, <2>2, <2>3, SameContents
  <2>5. th'[p].buf = base
    BY <1>1, <2>1 DEF Kept
  <2> QED
    BY <1>1, <1>3, <1>4, <2>1, <2>4, <2>5 DEF EffectInv, EndInv
<1>6. CASE file' = file /\ th' = [th EXCEPT ![p].pc = "rollback", ![p].off = 0]
  <2>1. th'[p].pc = "rollback" /\ th'[p].res = "ok" /\ Kept(p)
    BY <1>1, <1>6, Going
  <2> QED
    BY <1>1, <1>2, <1>3, <1>4, <1>6, <2>1 DEF EffectInv, EndInv
<1> QED
  BY <1>5, <1>6 DEF Shrink

LEMMA RollbackEffect ==
  ASSUME AtomicInv, NEW p \in Threads, Rollback(p) \/ RollbackFails(p)
  PROVE  EffectInv(p)' /\ EndInv(p)'
<1> USE DEF At
<1>1. /\ IInv /\ TypeOK /\ EffectInv(p) /\ ThreadInv(p)
      /\ file \in Contents /\ base \in Contents /\ New(p) \in Contents
      /\ Op(p) = "transform" /\ th[p].buf = base /\ th[p].res = "ok"
      /\ Len(file) \in Nat /\ Len(base) \in Nat /\ Len(New(p)) \in Nat
      /\ Len(base) <= Len(file) /\ th[p].off \in Nat /\ th[p].pc = "rollback"
  BY TransformEffect DEF Rollback, RollbackFails
<1>2. th[p].off <= Len(base) /\ Mixed(file, base, New(p))
  BY <1>1 DEF ThreadInv, WriteInv, EffectInv
<1>3. UNCHANGED <<mode, base>>
  BY DEF Rollback, RollbackFails
<1>4. Kept(p) => New(p)' = New(p) /\ Op(p)' = "transform"
  BY <1>1, KeptSame
<1>5. CASE th[p].off < Len(th[p].buf) /\ WriteByte(p, th[p].buf)
  <2> DEFINE i == th[p].off + 1
  <2>1. i <= Len(base) /\ i \in Nat /\ th[p].off < Len(file)
    BY <1>1, <1>2, <1>5
  <2>2. /\ th'[p].pc = "rollback" /\ Len(file') = Len(file)
        /\ file'[i] = base[i]
        /\ \A j \in 1..Len(file) : j # i => file'[j] = file[j]
    BY <1>1, <1>5, <2>1, WriteByteStep
  <2>3. th'[p].res = "ok" /\ Kept(p)
    BY <1>1, <1>5, Going
  <2> HIDE DEF i
  <2>4. Mixed(file', base, New(p))
    BY <1>2, <2>1, <2>2 DEF Mixed
  <2> QED
    BY <1>1, <1>3, <1>4, <2>2, <2>3, <2>4 DEF EffectInv, EndInv
<1>6. CASE End(p, "close", "failed")
  <2>1. th'[p].pc = "close" /\ th'[p].res = "failed" /\ Kept(p)
    BY <1>1, <1>6, Going
  <2> QED
    BY <1>1, <1>3, <1>4, <2>1 DEF EffectInv, EndInv
<1>7. CASE RollbackFails(p)
  <2>1. /\ th'[p].pc = "close" /\ th'[p].res = "torn" /\ Kept(p) /\ file' = file
    BY <1>1, <1>7, Going DEF RollbackFails
  <2>2. th'[p].buf = base
    BY <1>1, <2>1 DEF Kept
  <2> QED
    BY <1>1, <1>2, <1>3, <1>4, <2>1, <2>2 DEF EffectInv, EndInv
<1> QED
  BY <1>5, <1>6, <1>7 DEF Rollback

-----------------------------------------------------------------------------
LEMMA InitAtomicInv == Init => AtomicInv
<1> SUFFICES ASSUME Init PROVE AtomicInv
  OBVIOUS
<1>1. ASSUME NEW p \in Threads PROVE EffectInv(p) /\ EndInv(p)
  BY DEF Init, Idle, EffectInv, EndInv, At
<1> QED
  BY <1>1, InitIInv DEF AtomicInv

LEMMA StepEffect ==
  ASSUME AtomicInv, NEW p \in Threads, Begin(p) \/ Proceed(p) \/ Return(p)
  PROVE  EffectInv(p)' /\ EndInv(p)'
BY UnlockedEffect, LockEffect, WriteEffect, ReadEffect, MutexEffect, ApplyEffect,
   TailEffect, HeadEffect, ShrinkEffect, RollbackEffect DEF Proceed, Edit

LEMMA StepAtomicInv ==
  ASSUME AtomicInv, [Next]_vars
  PROVE  AtomicInv'
<1> USE DEF AtomicInv
<1>1. IInv'
  BY StepIInv
<1>2. ASSUME NEW p \in Threads, Begin(p) \/ Proceed(p) \/ Return(p),
             NEW q \in Threads, q # p
      PROVE  EffectInv(q)' /\ EndInv(q)'
  <2>1. Apart(p) /\ ThreadInv(q) /\ EffectInv(q) /\ EndInv(q)
    BY <1>2, StepOfThread DEF IInv
  <2>2. mode[q] # "none" => file' = file
    BY <1>2, <2>1 DEF Apart, IInv, Exclusion, ThreadInv, LockInv
  <2>3. mode[q] = "write" => base' = base
    BY <1>2, <2>1 DEF Apart, IInv, Exclusion, TypeOK
  <2>4. th'[q] = th[q] /\ mode'[q] = mode[q]
    BY <1>2, <2>1 DEF Apart
  <2> QED
    BY <2>1, <2>2, <2>3, <2>4, OutsideEffect
<1>3. ASSUME NEW P \in Processes, Crash(P), NEW q \in Threads
      PROVE  EffectInv(q)' /\ EndInv(q)'
  <2>1. CASE Home[q] = P
    <3>1. th'[q] = Idle /\ mode'[q] = "none"
      BY <1>3, <2>1 DEF Crash
    <3> QED
      BY <3>1 DEF Idle, EffectInv, EndInv, At
  <2>2. CASE Home[q] # P
    <3>1. th'[q] = th[q] /\ mode'[q] = mode[q] /\ file' = file
      BY <1>3, <2>2 DEF Crash
    <3>2. mode[q] = "write" => base' = base
      BY <1>3, <2>2 DEF Crash, IInv, Exclusion
    <3>3. ThreadInv(q) /\ EffectInv(q) /\ EndInv(q)
      BY DEF IInv
    <3> QED
      BY <3>1, <3>2, <3>3, OutsideEffect
  <2> QED
    BY <2>1, <2>2
<1>4. ASSUME UNCHANGED vars, NEW q \in Threads PROVE EffectInv(q)' /\ EndInv(q)'
  <2>1. th'[q] = th[q] /\ mode'[q] = mode[q] /\ file' = file /\ base' = base
    BY <1>4 DEF vars
  <2>2. ThreadInv(q) /\ EffectInv(q) /\ EndInv(q)
    BY DEF IInv
  <2> QED
    BY <2>1, <2>2, OutsideEffect
<1> QED
  BY <1>1, <1>2, <1>3, <1>4, StepEffect DEF Next

-----------------------------------------------------------------------------
\* The abstract variables.
Value == IF \E p \in Threads : mode[p] = "write" THEN base ELSE file
Call == [p \in Threads |-> th[p].call]
ReplyOf(p) ==
  IF th[p].pc # "returned" THEN None
  ELSE [ok |-> th[p].res = "ok",
        data |-> IF th[p].res = "ok" /\ th[p].call.op = "read" THEN th[p].buf ELSE None]
Reply == [p \in Threads |-> ReplyOf(p)]

\* What has returned has a reply.
LEMMA ReplyFacts ==
  ASSUME TypeOK, NEW p \in Threads
  PROVE  /\ At(p, "returned") => ReplyOf(p) # None
         /\ ~At(p, "returned") => ReplyOf(p) = None
<1>1. ASSUME At(p, "returned") PROVE ReplyOf(p) \in Replies
  <2>1. th[p].buf \in Contents
    BY LocalTypes
  <2> QED
    BY <1>1, <2>1 DEF ReplyOf, Replies, At
<1> QED
  BY <1>1, ContentsAssumption DEF ReplyOf, At

\* A writer's file is no worse than what its interrupted call may leave.
LEMMA WriterLeaves ==
  ASSUME AtomicInv, NEW p \in Threads, mode[p] = "write"
  PROVE  /\ base \in Contents /\ th[p].call # None
         /\ ~At(p, "returned") /\ file \in Contents
         /\ file \in Atomic!Broken(th[p].call, base)
         /\ At(p, "close") /\ th[p].res = "ok" => file = Atomic!Effect(th[p].call, base)
         /\ At(p, "close") /\ th[p].res # "ok" =>
              file = base \/ Op(p) = "write" \/ io
<1> USE DEF At
<1>1. /\ IInv /\ TypeOK /\ ThreadInv(p) /\ EffectInv(p) /\ EndInv(p)
  BY DEF AtomicInv, IInv
<1>2. /\ th[p].pc \in Locked /\ Op(p) # "read" /\ file # None
      /\ th[p].call \in Calls /\ th[p].call # None
  BY <1>1, LocalTypes DEF ThreadInv, LockInv, CallInv, Locked
<1>3. file \in Contents /\ base \in Contents
  BY <1>1, <1>2 DEF TypeOK, EffectInv
<1>4. Op(p) \in {"write", "mutex", "transform"}
  BY <1>2 DEF Calls, Op
<1>5. CASE Op(p) = "mutex"
  <2>1. file = base
    BY <1>1, <1>2, <1>5 DEF ThreadInv, CallInv, Locked, EffectInv, EndInv
  <2>2. base \in Atomic!Broken(th[p].call, base) /\ Atomic!Effect(th[p].call, base) = base
    BY <1>5 DEF Atomic!Broken, Atomic!Effect, Op
  <2> QED
    BY <1>2, <1>3, <2>1, <2>2 DEF Locked
<1>6. CASE Op(p) = "write"
  <2>1. New(p) \in Contents /\ New(p) = th[p].call.data
    BY <1>1, <1>2, <1>6, NewType DEF New
  <2>2. file = base \/ IsStart(file, New(p))
    <3>1. CASE At(p, "copy")
      <4>1. Len(file) <= Len(New(p)) /\ Agree(file, New(p), Len(file))
        BY <1>1, <3>1 DEF EffectInv
      <4> QED
        BY <1>3, <2>1, <4>1, AgreeIsStart
    <3> QED
      BY <1>1, <1>2, <1>6, <3>1 DEF ThreadInv, CallInv, Locked, EffectInv, EndInv
  <2>3. IsStart(file, New(p)) => \E n \in 0..Len(New(p)) : file = SubSeq(New(p), 1, n)
    <3>1. Len(file) \in Nat /\ Len(New(p)) \in Nat
      BY <1>3, <2>1, ContentsAre
    <3>2. ASSUME IsStart(file, New(p))
          PROVE  Len(file) \in 0..Len(New(p)) /\ file = SubSeq(New(p), 1, Len(file))
      BY <3>1, <3>2 DEF IsStart, Cut
    <3> QED
      BY <3>2
  <2>4. file \in Atomic!Broken(th[p].call, base)
    BY <1>6, <2>1, <2>2, <2>3 DEF Atomic!Broken, Atomic!Cut, Op
  <2>5. At(p, "close") /\ th[p].res = "ok" => file = Atomic!Effect(th[p].call, base)
    BY <1>1, <1>6, <2>1 DEF EndInv, Atomic!Effect, Op
  <2> QED
    BY <1>2, <1>3, <1>6, <2>4, <2>5 DEF Locked
<1>7. CASE Op(p) = "transform"
  <2> DEFINE new == th[p].call.by[base]
  <2>1. new \in Contents
    <3>1. th[p].call.by \in Transforms
      BY <1>2, <1>7 DEF Calls, Op
    <3> QED
      BY <1>3, <3>1, ContentsAssumption
  <2>2. th[p].buf = base => New(p) = new
    BY <1>7 DEF New
  <2>3. Len(file) \in Nat /\ Len(base) \in Nat /\ Len(new) \in Nat
    BY <1>3, <2>1, ContentsAre
  <2> HIDE DEF new
  <2>4. \/ file = base \/ file = new
        \/ Len(base) <= Len(file) /\ Mixed(file, base, new)
    <3>1. CASE th[p].pc \in {"read", "apply"}
      BY <1>1, <1>7, <3>1 DEF ThreadInv, ReadInv
    <3>2. CASE th[p].pc = "tail"
      <4>1. /\ Len(base) <= Len(file) /\ Len(file) <= Len(new)
            /\ \A i \in 1..Len(base) : file[i] = base[i]
            /\ \A i \in (Len(base) + 1)..Len(file) : file[i] = new[i]
        BY <1>1, <2>2, <2>3, <3>2
           DEF ThreadInv, WriteInv, EffectInv, SameTail, Agree
      <4>2. ASSUME NEW i \in 1..Len(file)
            PROVE  \/ i <= Len(base) /\ file[i] = base[i]
                   \/ i <= Len(new) /\ file[i] = new[i]
        BY <2>3, <4>1
      <4> QED
        BY <4>1, <4>2 DEF Mixed
    <3>3. CASE th[p].pc \in {"head", "shrink", "rollback"}
      BY <1>1, <2>2, <3>3 DEF ThreadInv, WriteInv, EffectInv
    <3>4. CASE th[p].pc = "close"
      BY <1>1, <1>7, <2>2, <3>4, LocalTypes DEF EndInv, ThreadInv, CloseInv
    <3> QED
      BY <1>1, <1>2, <1>7, <3>1, <3>2, <3>3, <3>4 DEF ThreadInv, CallInv, Locked
  <2>5. file \in Atomic!Broken(th[p].call, base)
    <3>1. DOMAIN file = 1..Len(file) /\ DOMAIN base = 1..Len(base) /\ DOMAIN new = 1..Len(new)
      BY <1>3, <2>1, ContentsAre
    <3>2. file = base \/ file \in Atomic!Mixtures(base, new)
      <4>1. CASE file = new
        BY <1>3, <2>3, <4>1 DEF Atomic!Mixtures, Atomic!Contents, Contents
      <4>2. CASE Len(base) <= Len(file) /\ Mixed(file, base, new)
        <5>1. ASSUME NEW i \in DOMAIN file
              PROVE  \/ i \in DOMAIN base /\ file[i] = base[i]
                     \/ i \in DOMAIN new /\ file[i] = new[i]
          BY <2>3, <3>1, <4>2 DEF Mixed
        <5>2. Len(file) >= Len(base)
          BY <2>3, <4>2
        <5> QED
          BY <1>3, <5>1, <5>2 DEF Atomic!Mixtures, Atomic!Contents, Contents
      <4> QED
        BY <2>4, <4>1, <4>2
    <3>3. Atomic!Broken(th[p].call, base) = {base} \cup Atomic!Mixtures(base, new)
      BY <1>7 DEF Atomic!Broken, Op, new
    <3> QED
      BY <3>2, <3>3
  <2>6. At(p, "close") /\ th[p].res = "ok" => file = Atomic!Effect(th[p].call, base)
    BY <1>1, <1>7, <2>2 DEF EndInv, Atomic!Effect, Op, new
  <2>7. At(p, "close") /\ th[p].res # "ok" => file = base \/ io
    BY <1>1, <1>7, LocalTypes DEF ThreadInv, CloseInv
  <2> QED
    BY <1>2, <1>3, <2>5, <2>6, <2>7 DEF Locked
<1> QED
  BY <1>4, <1>5, <1>6, <1>7

\* The contents as they are for the others.
LEMMA ValueFacts ==
  ASSUME IInv
  PROVE  /\ \A p \in Threads : mode[p] = "write" => Value = base
         /\ (\A p \in Threads : mode[p] # "write") => Value = file
BY DEF Value

\* A step that leaves file and base alone unless its thread has the lock, and
\* does not take or release an exclusive lock, leaves the value alone.
LEMMA SameValue ==
  ASSUME AtomicInv, NEW p \in Threads, Begin(p) \/ Proceed(p) \/ Return(p), ~Close(p)
  PROVE  Value' = Value \/ (file = None /\ OpenFile(p))
<1>1. TypeOK /\ IInv /\ ThreadInv(p)
  BY DEF AtomicInv, IInv
<1>2. Apart(p)
  BY <1>1, StepOfThread
<1>3. CASE Lock(p)
  <2>1. mode[p] = "none" /\ file' = file
    BY <1>1, <1>3 DEF Lock, At, ThreadInv, LockInv, Locked
  <2>2. CASE mode'[p] = "write"
    <3>1. base' = file
      BY <1>1, <1>3, <2>2 DEF Lock, TypeOK
    <3>2. \A q \in Threads : mode[q] # "write"
      BY <1>2, <2>1, <2>2 DEF Apart
    <3> QED
      BY <2>2, <3>1, <3>2 DEF Value
  <2>3. CASE mode'[p] # "write"
    <3>1. base' = base
      BY <1>1, <1>3, <2>3 DEF Lock, TypeOK
    <3>2. \A q \in Threads : mode'[q] = "write" <=> mode[q] = "write"
      BY <1>2, <2>1, <2>3 DEF Apart
    <3> QED
      BY <2>1, <3>1, <3>2 DEF Value
  <2> QED
    BY <2>2, <2>3
<1>4. CASE ~Lock(p)
  <2>1. UNCHANGED <<mode, base>>
    BY <1>4 DEF Proceed, Edit, Begin, Return, OpenFile, OpenFails, LockFails, Truncate,
       Copy, ReadAll, Apply, WriteTail, TailFails, WriteHead, HeadFails, Shrink, Rollback,
       RollbackFails, MuLock, MuUnlock
  <2>2. CASE file' = file
    BY <2>1, <2>2 DEF Value
  <2>3. CASE mode[p] = "write"
    BY <2>1, <2>3 DEF Value
  <2>4. CASE file' # file /\ mode[p] # "write"
    <3>1. file = None
      BY <1>2, <2>4 DEF Apart
    <3>2. th[p].pc \notin Locked
      BY <1>1, <3>1 DEF ThreadInv, LockInv
    <3>3. OpenFile(p)
      BY <1>4, <2>4, <3>2 DEF Proceed, Edit, Begin, Return, OpenFails, LockFails, Truncate,
         Copy, ReadAll, Apply, WriteTail, TailFails, WriteHead, HeadFails, Shrink, Rollback,
         RollbackFails, MuLock, MuUnlock, Close, At, Locked
    <3> QED
      BY <3>1, <3>3
  <2> QED
    BY <2>2, <2>3, <2>4
<1> QED
  BY <1>3, <1>4

\* What the reply of a call becomes.
LEMMA CallAndReply ==
  ASSUME TypeOK, TypeOK', NEW p \in Threads,
         \A q \in Threads : q # p => th'[q] = th[q]
  PROVE  /\ Call' = [Call EXCEPT ![p] = th'[p].call]
         /\ Reply' = [Reply EXCEPT ![p] = ReplyOf(p)']
         /\ th'[p].call = th[p].call => Call' = Call
         /\ ReplyOf(p)' = ReplyOf(p) => Reply' = Reply
<1>1. \A q \in Threads : q # p => ReplyOf(q)' = ReplyOf(q)
  BY DEF ReplyOf
<1>2. \A q \in Threads : q # p => th'[q].call = th[q].call
  OBVIOUS
<1>3. Call' = [Call EXCEPT ![p] = th'[p].call]
  BY <1>2 DEF Call
<1>4. Reply' = [Reply EXCEPT ![p] = ReplyOf(p)']
  BY <1>1 DEF Reply
<1>5. th'[p].call = th[p].call => Call' = Call
  BY <1>2 DEF Call
<1>6. ReplyOf(p)' = ReplyOf(p) => Reply' = Reply
  BY <1>1 DEF Reply
<1> QED
  BY <1>3, <1>4, <1>5, <1>6

LEMMA InitAtomic == Init => Atomic!Init
<1> SUFFICES ASSUME Init PROVE Atomic!Init
  OBVIOUS
<1>1. \A p \in Threads : mode[p] # "write" /\ th[p].call = None /\ th[p].pc # "returned"
  BY DEF Init, Idle
<1>2. Value = file /\ file \in Contents \cup {None} /\ io \in BOOLEAN
  BY <1>1 DEF Value, Init
<1>3. Call = [p \in Threads |-> None] /\ Reply = [p \in Threads |-> None]
  BY <1>1 DEF Call, Reply, ReplyOf
<1> QED
  BY <1>2, <1>3 DEF Atomic!Init, Value, Call, Reply, ReplyOf, Atomic!Contents, Contents

-----------------------------------------------------------------------------
\* The abstract actions, in terms of the three.
LEMMA AtomicActions ==
  ASSUME io' = io
  PROVE  /\ UNCHANGED <<Value, Call, Reply>> => UNCHANGED Atomic!vars
         /\ \A p \in Threads :
              /\ /\ Call[p] = None
                 /\ \E c \in CallsOf[p] : Call' = [Call EXCEPT ![p] = c]
                 /\ UNCHANGED <<Value, Reply>>
                 => Atomic!Invoke(p)
              /\ /\ Call[p] # None /\ Reply[p] = None
                 /\ Value = None /\ Call[p].op # "read" /\ Value' = <<>>
                 /\ UNCHANGED <<Call, Reply>>
                 => Atomic!Create(p)
              /\ /\ Reply[p] # None /\ UNCHANGED Value
                 /\ Call' = [Call EXCEPT ![p] = None]
                 /\ Reply' = [Reply EXCEPT ![p] = None]
                 => Atomic!Return(p)
BY DEF Value, Call, Reply, ReplyOf, Atomic!vars, Atomic!Invoke, Atomic!Create,
   Atomic!Pending, Atomic!Return

LEMMA AtomicAnswers ==
  ASSUME io' = io, NEW p \in Threads,
         Call[p] # None, Reply[p] = None, Call' = Call
  PROVE  /\ /\ Value # None /\ Value' = Atomic!Effect(Call[p], Value)
            /\ Reply' = [Reply EXCEPT ![p] =
                 [ok |-> TRUE, data |-> IF Call[p].op = "read" THEN Value ELSE None]]
            => Atomic!Succeed(p)
         /\ /\ \/ Value' = Value
               \/ /\ Value # None /\ (Call[p].op = "write" \/ io)
                  /\ Value' \in Atomic!Broken(Call[p], Value)
            /\ Reply' = [Reply EXCEPT ![p] = [ok |-> FALSE, data |-> None]]
            => Atomic!Fail(p)
BY DEF Value, Call, Reply, ReplyOf, Atomic!Pending, Atomic!Answer, Atomic!Succeed, Atomic!Fail

LEMMA BeginAtomic ==
  ASSUME AtomicInv, NEW p \in Threads, Begin(p) \/ Return(p)
  PROVE  Atomic!Next
<1> USE DEF At
<1>1. TypeOK /\ TypeOK' /\ IInv /\ ThreadInv(p)
  BY StepOfThread DEF AtomicInv, IInv
<1>2. \A q \in Threads : q # p => th'[q] = th[q]
  BY <1>1, StepOfThread DEF Apart
<1>3. Value' = Value /\ io' = io
  BY SameValue DEF Begin, Return, Close, OpenFile
<1>4. CASE Begin(p)
  <2>1. th[p].call = None /\ th[p].pc = "idle"
    BY <1>1, <1>4 DEF Begin, ThreadInv, CallInv
  <2>2. PICK c \in CallsOf[p] : th' = [th EXCEPT ![p].pc = "open", ![p].call = c]
    BY <1>4 DEF Begin
  <2>3. th'[p].call = c /\ th'[p].pc = "open"
    BY <1>1, <2>2 DEF TypeOK, Locals
  <2>4. ReplyOf(p)' = ReplyOf(p)
    BY <2>1, <2>3 DEF ReplyOf
  <2>5. /\ Call[p] = None /\ Call' = [Call EXCEPT ![p] = c] /\ Reply' = Reply
    BY <1>1, <1>2, <2>1, <2>3, <2>4, CallAndReply DEF Call
  <2>6. Atomic!Invoke(p)
    BY <1>3, <2>5, AtomicActions
  <2> QED
    BY <2>6 DEF Atomic!Next
<1>5. CASE Return(p)
  <2>1. th[p].pc = "returned" /\ th'[p].call = None /\ th'[p].pc = "idle"
    BY <1>1, <1>5 DEF Return, TypeOK, Idle
  <2>2. ReplyOf(p)' = None /\ ReplyOf(p) # None
    BY <1>1, <2>1, ReplyFacts DEF ReplyOf
  <2>3. /\ Reply[p] # None /\ Call' = [Call EXCEPT ![p] = None]
        /\ Reply' = [Reply EXCEPT ![p] = None]
    BY <1>1, <1>2, <2>1, <2>2, CallAndReply DEF Reply
  <2>4. Atomic!Return(p)
    BY <1>3, <2>3, AtomicActions
  <2> QED
    BY <2>4 DEF Atomic!Next
<1> QED
  BY <1>4, <1>5

LEMMA OpenAtomic ==
  ASSUME AtomicInv, NEW p \in Threads, OpenFile(p)
  PROVE  Atomic!Next \/ UNCHANGED Atomic!vars
<1> USE DEF At
<1>1. TypeOK /\ TypeOK' /\ IInv /\ ThreadInv(p) /\ Apart(p)
  BY StepOfThread DEF AtomicInv, IInv, Proceed
<1>2. /\ th[p].pc = "open" /\ th'[p].pc = "lock" /\ th'[p].call = th[p].call
      /\ th[p].call # None
  BY <1>1, Going DEF OpenFile, Kept, ThreadInv, CallInv
<1>3. ReplyOf(p)' = ReplyOf(p) /\ ReplyOf(p) = None
  BY <1>2 DEF ReplyOf
<1>4. Call' = Call /\ Reply' = Reply /\ io' = io
  BY <1>1, <1>2, <1>3, CallAndReply DEF Apart
<1>5. CASE file = None
  <2>1. \A q \in Threads : mode[q] # "write"
    BY <1>5 DEF AtomicInv, IInv, ThreadInv, LockInv
  <2>2. Value = None /\ Value' = <<>>
    BY <1>5, <2>1 DEF Value, OpenFile
  <2>3. Call[p] # None /\ Reply[p] = None /\ Call[p].op # "read"
    BY <1>2, <1>3, <1>5 DEF Call, Reply, OpenFile, Op
  <2>4. Atomic!Create(p)
    BY <1>4, <2>2, <2>3, AtomicActions
  <2> QED
    BY <2>4 DEF Atomic!Next
<1>6. CASE file # None
  <2>1. Value' = Value
    BY <1>6, SameValue DEF Proceed, OpenFile, Close
  <2> QED
    BY <1>4, <2>1, AtomicActions
<1> QED
  BY <1>5, <1>6

LEMMA FailAtomic ==
  ASSUME AtomicInv, NEW p \in Threads, OpenFails(p) \/ LockFails(p)
  PROVE  Atomic!Next
<1> USE DEF At
<1>1. TypeOK /\ TypeOK' /\ IInv /\ ThreadInv(p) /\ Apart(p)
  BY StepOfThread DEF AtomicInv, IInv, Proceed
<1>2. /\ th[p].pc \in {"open", "lock"} /\ th'[p].pc = "returned"
      /\ th'[p].res = "failed" /\ th'[p].call = th[p].call /\ th[p].call # None
  BY <1>1, Going DEF OpenFails, LockFails, Kept, ThreadInv, CallInv
<1>3. Value' = Value
  BY DEF Value, OpenFails, LockFails
<1>4. ReplyOf(p)' = [ok |-> FALSE, data |-> None] /\ ReplyOf(p) = None
  BY <1>2 DEF ReplyOf
<1>5. /\ Call' = Call /\ io' = io
      /\ Reply' = [Reply EXCEPT ![p] = [ok |-> FALSE, data |-> None]]
  BY <1>1, <1>2, <1>4, CallAndReply DEF Apart
<1>6. Call[p] # None /\ Reply[p] = None
  BY <1>2, <1>4 DEF Call, Reply
<1>7. Atomic!Fail(p)
  BY <1>3, <1>5, <1>6, AtomicAnswers
<1> QED
  BY <1>7 DEF Atomic!Next

\* The steps between Lock and Close cannot be seen.
LEMMA HiddenAtomic ==
  ASSUME AtomicInv, NEW p \in Threads, Proceed(p),
         ~OpenFile(p), ~OpenFails(p), ~LockFails(p), ~Close(p)
  PROVE  UNCHANGED Atomic!vars
<1> USE DEF At
<1>1. TypeOK /\ TypeOK' /\ IInv /\ ThreadInv(p) /\ Apart(p)
  BY StepOfThread DEF AtomicInv, IInv
<1>2. Value' = Value
  BY SameValue
<1>3. /\ th[p].pc # "returned" /\ th'[p].pc # "returned" /\ th'[p].call = th[p].call
  <2>1. CASE Lock(p)
    BY <1>1, <2>1, Going DEF Lock, FirstStep, Kept
  <2>2. CASE Truncate(p) \/ Copy(p) \/ MuLock(p) \/ MuUnlock(p)
    BY <1>1, <2>2, Going DEF Truncate, Copy, MuLock, MuUnlock, Kept
  <2>3. CASE ReadAll(p)
    <3>1. ASSUME th' = [th EXCEPT ![p].buf = Append(@, file[Len(th[p].buf) + 1])]
          PROVE  th'[p].pc = th[p].pc /\ th'[p].call = th[p].call
      BY <1>1, <3>1 DEF TypeOK, Locals
    <3> QED
      BY <1>1, <2>3, <3>1, Going DEF ReadAll, Kept
  <2>4. CASE Edit(p)
    <3>1. CASE Apply(p) \/ RollbackFails(p) \/ TailFails(p)
      <4>1. CASE th' = [th EXCEPT ![p].pc = "tail", ![p].off = Len(th[p].buf)]
        BY <3>1, <4>1, <1>1 DEF TypeOK, Locals, Apply, RollbackFails, TailFails
      <4> QED
        BY <1>1, <3>1, <4>1, Going DEF Apply, RollbackFails, TailFails, Kept
    <3>2. CASE WriteTail(p)
      <4>1. CASE th' = [th EXCEPT ![p].pc = "head", ![p].off = 0]
        BY <3>2, <4>1, <1>1 DEF TypeOK, Locals, WriteTail
      <4> QED
        BY <1>1, <3>2, <4>1, Going DEF WriteTail, Kept
    <3>3. CASE WriteHead(p) \/ Rollback(p)
      BY <1>1, <3>3, Going DEF WriteHead, Rollback, Kept
    <3>4. CASE HeadFails(p) \/ Shrink(p)
      <4>1. CASE th' = [th EXCEPT ![p].pc = "rollback", ![p].off = 0]
        BY <3>4, <4>1, <1>1 DEF TypeOK, Locals, HeadFails, Shrink
      <4> QED
        BY <1>1, <3>4, <4>1, Going DEF HeadFails, Shrink, Kept
    <3> QED
      BY <2>4, <3>1, <3>2, <3>3, <3>4 DEF Edit
  <2> QED
    BY <2>1, <2>2, <2>3, <2>4 DEF Proceed
<1>4. ReplyOf(p)' = ReplyOf(p)
  BY <1>3 DEF ReplyOf
<1>5. Call' = Call /\ Reply' = Reply /\ io' = io
  BY <1>1, <1>3, <1>4, CallAndReply DEF Apart
<1> QED
  BY <1>2, <1>5, AtomicActions

\* A call takes effect when it unlocks the file.
LEMMA CloseAtomic ==
  ASSUME AtomicInv, NEW p \in Threads, Close(p)
  PROVE  Atomic!Next
<1> USE DEF At
<1>1. TypeOK /\ TypeOK' /\ IInv /\ ThreadInv(p) /\ Apart(p) /\ EndInv(p)
  BY StepOfThread DEF AtomicInv, IInv, Proceed
<1>2. PICK res \in {th[p].res} \cup (IF io /\ Op(p) = "write" THEN {"failed"} ELSE {}) :
        th' = [th EXCEPT ![p] =
          [pc |-> "returned", call |-> th[p].call,
           buf |-> IF res = "ok" /\ Op(p) = "read" THEN th[p].buf ELSE <<>>,
           off |-> 0, res |-> res]]
  BY DEF Close
<1>3. /\ th[p].pc = "close" /\ th'[p].pc = "returned" /\ th'[p].res = res
      /\ th'[p].call = th[p].call /\ th[p].call # None
      /\ res = "ok" /\ Op(p) = "read" => th'[p].buf = th[p].buf
  BY <1>1, <1>2 DEF Close, TypeOK, ThreadInv, CallInv
<1>4. /\ mode[p] = IF Op(p) = "read" THEN "read" ELSE "write"
      /\ file # None /\ file \in Contents /\ file' = file
  BY <1>1, <1>3 DEF ThreadInv, LockInv, Locked, TypeOK, Close
<1>5. /\ \A q \in Threads : mode'[q] # "write"
      /\ Op(p) = "read" => \A q \in Threads : mode[q] # "write"
  <2>1. ASSUME NEW q \in Threads, q # p PROVE mode[q] # "write"
    BY <1>1, <1>4, <2>1 DEF IInv, Exclusion
  <2> QED
    BY <1>1, <1>4, <2>1 DEF Close, TypeOK
<1>6. Value' = file /\ Value = IF Op(p) = "read" THEN file ELSE base
  BY <1>4, <1>5, ValueFacts, <1>1 DEF Value
<1>7. ReplyOf(p) = None /\ Call[p] = th[p].call /\ Call[p].op = Op(p) /\ Reply[p] = None
  BY <1>3 DEF ReplyOf, Call, Reply, Op
<1>8. /\ Call' = Call /\ io' = io
      /\ Reply' = [Reply EXCEPT ![p] = ReplyOf(p)']
  BY <1>1, <1>3, CallAndReply DEF Apart
<1>9. CASE res = "ok"
  <2>1. th[p].res = "ok"
    BY <1>2, <1>9
  <2>2. CASE Op(p) = "read"
    <3>1. th[p].buf = file
      BY <1>1, <1>3, <2>1, <2>2 DEF EndInv
    <3>2. ReplyOf(p)' = [ok |-> TRUE, data |-> Value]
      BY <1>3, <1>6, <1>9, <2>2, <3>1 DEF ReplyOf, Op
    <3>3. Value' = Atomic!Effect(Call[p], Value)
      BY <1>6, <1>7, <2>2 DEF Atomic!Effect
    <3>4. Atomic!Succeed(p)
      BY <1>3, <1>4, <1>6, <1>7, <1>8, <2>2, <3>2, <3>3, AtomicAnswers
    <3> QED
      BY <3>4 DEF Atomic!Next
  <2>3. CASE Op(p) # "read"
    <3>1. base \in Contents /\ file = Atomic!Effect(th[p].call, base)
      BY <1>3, <1>4, <2>1, <2>3, WriterLeaves
    <3>2. ReplyOf(p)' = [ok |-> TRUE, data |-> None]
      BY <1>3, <1>9, <2>3 DEF ReplyOf, Op
    <3>3. Value' = Atomic!Effect(Call[p], Value) /\ Value # None
      BY <1>6, <1>7, <2>3, <3>1, ContentsAssumption
    <3>4. Atomic!Succeed(p)
      BY <1>3, <1>7, <1>8, <2>3, <3>2, <3>3, AtomicAnswers
    <3> QED
      BY <3>4 DEF Atomic!Next
  <2> QED
    BY <2>2, <2>3
<1>10. CASE res # "ok"
  <2>1. ReplyOf(p)' = [ok |-> FALSE, data |-> None]
    BY <1>3, <1>10 DEF ReplyOf
  <2>2. CASE Op(p) = "read"
    <3>1. Atomic!Fail(p)
      BY <1>3, <1>6, <1>7, <1>8, <2>1, <2>2, AtomicAnswers
    <3> QED
      BY <3>1 DEF Atomic!Next
  <2>3. CASE Op(p) # "read"
    <3>1. /\ base \in Contents /\ file \in Atomic!Broken(th[p].call, base)
          /\ th[p].res # "ok" => file = base \/ Op(p) = "write" \/ io
      BY <1>3, <1>4, <2>3, WriterLeaves
    <3>2. file = base \/ Op(p) = "write" \/ io
      BY <1>2, <1>10, <3>1
    <3>3. /\ Value' \in Atomic!Broken(Call[p], Value) /\ Value # None
          /\ Value' = Value \/ Call[p].op = "write" \/ io
      BY <1>6, <1>7, <2>3, <3>1, <3>2, ContentsAssumption
    <3>4. Atomic!Fail(p)
      BY <1>3, <1>7, <1>8, <2>1, <3>3, AtomicAnswers
    <3> QED
      BY <3>4 DEF Atomic!Next
  <2> QED
    BY <2>2, <2>3
<1> QED
  BY <1>9, <1>10

\* A crash breaks the call that has the exclusive lock.
LEMMA CrashAtomic ==
  ASSUME AtomicInv, NEW P \in Processes, Crash(P)
  PROVE  Atomic!Next
<1>1. TypeOK /\ IInv
  BY DEF AtomicInv, IInv
<1>2. Call' = [p \in Threads |-> IF Home[p] = P THEN None ELSE Call[p]]
  BY <1>1 DEF Crash, Call, Idle, TypeOK
<1>3. Reply' = [p \in Threads |-> IF Home[p] = P THEN None ELSE Reply[p]]
  <2>1. ASSUME NEW p \in Threads
        PROVE  ReplyOf(p)' = IF Home[p] = P THEN None ELSE ReplyOf(p)
    <3>1. th'[p] = IF Home[p] = P THEN Idle ELSE th[p]
      BY DEF Crash
    <3> QED
      BY <3>1 DEF ReplyOf, Idle
  <2> QED
    BY <2>1 DEF Reply
<1>4. \/ Value' = Value
      \/ \E p \in Threads :
           /\ Home[p] = P /\ Call[p] # None /\ Reply[p] = None /\ Value # None
           /\ Value' \in Atomic!Broken(Call[p], Value)
  <2>1. CASE \E p \in Threads : Home[p] = P /\ mode[p] = "write"
    <3>1. PICK p \in Threads : Home[p] = P /\ mode[p] = "write"
      BY <2>1
    <3>2. \A q \in Threads : mode'[q] # "write"
      BY <1>1, <3>1 DEF Crash, IInv, Exclusion
    <3>3. Value = base /\ Value' = file
      BY <3>1, <3>2 DEF Value, Crash
    <3>4. /\ base \in Contents /\ th[p].call # None /\ ~At(p, "returned")
          /\ file \in Atomic!Broken(th[p].call, base)
      BY <3>1, WriterLeaves
    <3>5. Call[p] = th[p].call /\ Reply[p] = None /\ base # None
      BY <3>4, ContentsAssumption DEF Call, Reply, ReplyOf, At
    <3> QED
      BY <3>1, <3>3, <3>4, <3>5
  <2>2. CASE ~\E p \in Threads : Home[p] = P /\ mode[p] = "write"
    <3>1. /\ \A p \in Threads : mode'[p] = "write" <=> mode[p] = "write"
          /\ base' = base /\ file' = file
      BY <2>2 DEF Crash
    <3> QED
      BY <3>1 DEF Value
  <2> QED
    BY <2>1, <2>2
<1>5. io' = io
  BY DEF Crash
<1>6. Atomic!Crash(P)
  BY <1>2, <1>3, <1>4, <1>5
     DEF Value, Call, Reply, ReplyOf, Atomic!Crash, Atomic!Pending
<1> QED
  BY <1>6 DEF Atomic!Next

LEMMA StepAtomic ==
  ASSUME AtomicInv, [Next]_vars
  PROVE  Atomic!Next \/ UNCHANGED Atomic!vars
<1>1. ASSUME NEW p \in Threads, Begin(p) \/ Proceed(p) \/ Return(p)
      PROVE  Atomic!Next \/ UNCHANGED Atomic!vars
  BY <1>1, BeginAtomic, OpenAtomic, FailAtomic, HiddenAtomic, CloseAtomic
<1>2. CASE UNCHANGED vars
  BY <1>2 DEF vars, Atomic!vars
<1> QED
  BY <1>1, <1>2, CrashAtomic DEF Next

\* What calls leave is an invariant.
THEOREM AtomicInvariance == Spec => []AtomicInv
<1>1. AtomicInv /\ [Next]_vars => AtomicInv'
  BY StepAtomicInv
<1> QED
  BY <1>1, InitAtomicInv, PTL DEF Spec

\* LockedFile implements AtomicFile: calls take effect atomically when they
\* unlock the file, and one that failed or was killed has left no more than
\* AtomicFile allows.
THEOREM AtomicCorrect == Spec => IsAtomic
<1>1. AtomicInv /\ [Next]_vars => [Atomic!Next]_(Atomic!vars)
  BY StepAtomic
<1> QED
  BY <1>1, InitAtomic, AtomicInvariance, PTL DEF Spec, IsAtomic, Atomic!Spec

=============================================================================
