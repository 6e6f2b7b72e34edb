----------------------------- MODULE MCTwoTrims -----------------------------
(* TrimForce: two trims at once, of a cache of two entries. *)
EXTENDS TrimForce, TLC

CONSTANTS d1, x1, t1, t2

MCPlainOutputs == {d1}
MCExecutables  == {x1}
MCSizeOf   == d1 :> 1 @@ x1 :> 2
MCSubdirOf == d1 :> 1 @@ x1 :> 1

Old == 0
New == Start - 1
At(e, t) == [mtime |-> t, size |-> MCSizeOf[e], parts |-> 1]
MCInitialDirs ==
  { d1 :> At(d1, Old) @@ x1 :> At(x1, New),
    d1 :> At(d1, New) @@ x1 :> At(x1, Old) }
MCStamps == {None}

Symmetry == Permutations({t1, t2})

=============================================================================
