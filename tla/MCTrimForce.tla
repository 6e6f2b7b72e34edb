---------------------------- MODULE MCTrimForce ----------------------------
(* TrimForce on a small cache. *)
EXTENDS TrimForce, TLC

CONSTANTS a1, d1, x1, t1, t2

MCIndexEntries == {a1}
MCPlainOutputs == {d1}
MCExecutables  == {x1}
MCSizeOf    == a1 :> 1 @@ d1 :> 2 @@ x1 :> 2
MCSubdirOf  == a1 :> 1 @@ d1 :> 2 @@ x1 :> 2

Old == 0
New == Start - 1
At(e, t) == [mtime |-> t, size |-> MCSizeOf[e], parts |-> 1]
Partial(t) == [mtime |-> t, size |-> 1, parts |-> 1]
TwoFiles(t) == [mtime |-> t, size |-> 0, parts |-> 2]
MCInitialDirs ==
  { a1 :> At(a1, Old) @@ d1 :> At(d1, Old)  @@ x1 :> At(x1, New),
    a1 :> At(a1, Old) @@ d1 :> At(d1, New)  @@ x1 :> At(x1, Old),
    a1 :> None        @@ d1 :> Partial(Old) @@ x1 :> At(x1, Old),
    a1 :> At(a1, New) @@ d1 :> At(d1, Old)  @@ x1 :> TwoFiles(Old) }
MCStamps == {6}

=============================================================================
