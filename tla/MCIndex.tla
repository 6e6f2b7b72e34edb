------------------------------- MODULE MCIndex -------------------------------
(* Index with three puts for one action: an executable, the same under the   *)
(* same or another name or as a plain file, and another output; or three     *)
(* times the same; and a get.                                                *)
EXTENDS Index

CONSTANTS a1, o1, o2, n1, n2, p1, p2, p3, g1

Of(o, n) == [act |-> a1, out |-> o, name |-> n]

MCCalls ==
  {c \in [Putters -> {Of(o1, n1), Of(o1, n2), Of(o1, Plain), Of(o2, Plain)}] :
     /\ c[p1] = Of(o1, n1) /\ c[p2].out = o1
     /\ \/ c[p3] = Of(o2, Plain)
        \/ c[p2] = c[p1] /\ c[p3] = c[p1]}

=============================================================================
