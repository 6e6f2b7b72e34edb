------------------------------ MODULE MCGoTrim ------------------------------
(* GoTrim on a small cache. *)
EXTENDS GoTrim, TLC

CONSTANTS d1, x1, c1, c2

MCPlainOutputs == {d1}
MCExecutables  == {x1}
MCSizeOf   == d1 :> 1 @@ x1 :> 1
MCSubdirOf == d1 :> 1 @@ x1 :> 1

Old == 0
New == Start - 1
At(e, t) == [mtime |-> t, size |-> MCSizeOf[e], parts |-> 1]
TwoFiles(t) == [mtime |-> t, size |-> 0, parts |-> 2]
MCInitialDirs ==
  { d1 :> At(d1, Old) @@ x1 :> TwoFiles(Old),
    d1 :> At(d1, New) @@ x1 :> At(x1, Old) }
MCStamps == {Start + MtimeInterval}

Symmetry == Permutations(Closers)

=============================================================================
