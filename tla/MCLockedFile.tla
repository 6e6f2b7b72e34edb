---------------------------- MODULE MCLockedFile ----------------------------
(* LockedFile on contents of up to two bytes. *)
EXTENDS LockedFile, TLC

CONSTANTS t1, t2, t3, P1, P2

MCHome == t1 :> P1 @@ t2 :> P1 @@ t3 :> P2

MCData == {<<0, 1>>}

Ones(n) == [i \in 1..n |-> 1]

\* One byte more, and one byte less, with every other byte overwritten.
Longer ==
  [s \in Contents |-> IF Len(s) < MaxLen THEN Append(Ones(Len(s)), 0) ELSE s]
Shorter ==
  [s \in Contents |-> IF s = <<>> THEN s ELSE Ones(Len(s) - 1)]
MCTransforms == {Longer, Shorter}

Read     == [op |-> "read"]
Mutex    == [op |-> "mutex"]
Write(d) == [op |-> "write", data |-> d]
By(t)    == [op |-> "transform", by |-> t]
MCCallsOf ==
  t1 :> {Mutex, By(Longer)}
    @@ t2 :> {Mutex, By(Shorter), Write(<<0, 1>>)}
    @@ t3 :> {Read, By(Longer)}

=============================================================================
