----------------------------- MODULE AtomicFile -----------------------------
(***************************************************************************)
(* What package lockedfile promises of a file: a call takes effect at one  *)
(* moment between its beginning and its return.  "Contents should only     *)
(* change atomically" (lockedfile.go:5) is true of calls that succeed; the *)
(* operators below say what one that fails, or is killed, may leave.       *)
(***************************************************************************)
EXTENDS FileContents

VARIABLES
  value, \* the contents, or None while the file does not exist
  call,  \* [thread -> its call, or None]
  reply, \* [thread -> the answer, until the thread takes it]
  io     \* whether the device may fail other than for want of space

vars == <<value, call, reply, io>>

TypeOK ==
  /\ value \in Contents \cup {None}
  /\ call \in [Threads -> Calls \cup {None}]
  /\ reply \in [Threads -> Replies \cup {None}]
  /\ io \in BOOLEAN

Init ==
  /\ value \in Contents \cup {None}
  /\ call = [p \in Threads |-> None]
  /\ reply = [p \in Threads |-> None]
  /\ io \in BOOLEAN

Invoke(p) ==
  /\ call[p] = None
  /\ \E c \in CallsOf[p] : call' = [call EXCEPT ![p] = c]
  /\ UNCHANGED <<value, reply, io>>

Pending(p) == call[p] # None /\ reply[p] = None

\* All but Read create the file, some time before they take effect.
Create(p) ==
  /\ Pending(p)
  /\ value = None /\ call[p].op # "read"
  /\ value' = <<>>
  /\ UNCHANGED <<call, reply, io>>

Effect(c, v) ==
  CASE c.op = "write"     -> c.data
    [] c.op = "transform" -> c.by[v]
    [] OTHER              -> v

Answer(p, ok, data) == reply' = [reply EXCEPT ![p] = [ok |-> ok, data |-> data]]

Succeed(p) ==
  /\ Pending(p)
  /\ value # None
  /\ value' = Effect(call[p], value)
  /\ Answer(p, TRUE, IF call[p].op = "read" THEN value ELSE None)
  /\ UNCHANGED <<call, io>>

\* What an interrupted call may leave.
Broken(c, v) ==
  CASE c.op = "write"     -> {v} \cup {Cut(c.data, n) : n \in 0..Len(c.data)}
    [] c.op = "transform" -> {v} \cup Mixtures(v, c.by[v])
    [] OTHER              -> {v}

\* A Transform that fails for want of space changes nothing.
Fail(p) ==
  /\ Pending(p)
  /\ \/ value' = value
     \/ /\ value # None
        /\ call[p].op = "write" \/ io
        /\ value' \in Broken(call[p], value)
  /\ Answer(p, FALSE, None)
  /\ UNCHANGED <<call, io>>

Return(p) ==
  /\ reply[p] # None
  /\ call' = [call EXCEPT ![p] = None]
  /\ reply' = [reply EXCEPT ![p] = None]
  /\ UNCHANGED <<value, io>>

\* A killed process breaks at most one of its calls.
Crash(P) ==
  /\ \/ value' = value
     \/ \E p \in Threads :
          /\ Home[p] = P /\ Pending(p) /\ value # None
          /\ value' \in Broken(call[p], value)
  /\ call' = [p \in Threads |-> IF Home[p] = P THEN None ELSE call[p]]
  /\ reply' = [p \in Threads |-> IF Home[p] = P THEN None ELSE reply[p]]
  /\ UNCHANGED io

Next ==
  \/ \E p \in Threads :
       Invoke(p) \/ Create(p) \/ Succeed(p) \/ Fail(p) \/ Return(p)
  \/ \E P \in Processes : Crash(P)

Spec == Init /\ [][Next]_vars

=============================================================================
