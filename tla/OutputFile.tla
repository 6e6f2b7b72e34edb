------------------------------ MODULE OutputFile ------------------------------
(***************************************************************************)
(* What copyFile of internal/go/cache/cache.go makes of the file that an   *)
(* output has under one name, seen from outside: its contents, and who has *)
(* it open.  Puts of the output come to it at any time, fail and are       *)
(* killed, and trims remove it.                                            *)
(*                                                                         *)
(* CopyFile, which has every write, implements it.  It is what Index takes *)
(* for granted of a put's output.                                          *)
(***************************************************************************)
CONSTANTS
  Puts,   \* calls of copyFile
  Empty,  \* whether the output has no bytes
  None

VARIABLES
  file,   \* what the file holds, or None
  pc,     \* where the put is
  fd      \* [put -> None, or, if the file it has open still has its name,
          \* whether all it has written is in it]

vars == <<file, pc, fd>>

\* Shorter than the output, the output, as long but something else, longer.
Contents == {"partial", "whole", "wrong", "long"}

Goto(p, l) == pc' = [pc EXCEPT ![p] = l]

FDs == [Puts -> {None, "sound", "holed"}]

\* Something has been written over, or cut off: the others may miss what they
\* have written.
Hurt(p, v) ==
  {g \in FDs : /\ g[p] = v
               /\ \A q \in Puts \ {p} :
                    g[q] = fd[q] \/ (fd[q] = "sound" /\ g[q] = "holed")}

\* Something has been written that others have missed.
Mended == {g \in FDs : \A q \in Puts : g[q] = fd[q] \/ (fd[q] = "holed" /\ g[q] = "sound")}

-----------------------------------------------------------------------------
\* The output is in place, or not.
Find(p) ==
  /\ pc[p] = "idle" /\ file = "whole"
  /\ Goto(p, "stored")
  /\ UNCHANGED <<file, fd>>

Miss(p) ==
  /\ pc[p] = "idle" /\ file # "whole"
  /\ Goto(p, IF file = "long" THEN "trunc" ELSE "open")
  /\ UNCHANGED <<file, fd>>

\* A file is there and being executed, whatever it holds.
Busy(p) ==
  /\ pc[p] \in {"open", "trunc"} /\ file # None
  /\ Goto(p, "stored")
  /\ UNCHANGED <<file, fd>>

Open(p) ==
  /\ pc[p] = "open" /\ ~Empty
  /\ file' = IF file = None THEN "partial" ELSE file
  /\ fd' = [fd EXCEPT ![p] = "sound"]
  /\ Goto(p, "copy")

\* The file was too long when the put looked at it.
OpenTruncates(p) ==
  /\ pc[p] = "trunc" /\ ~Empty
  /\ file' = "partial"
  /\ fd' \in Hurt(p, "sound")
  /\ Goto(p, "copy")

OpenEmpty(p) ==
  /\ pc[p] \in {"open", "trunc"} /\ Empty
  /\ file' = "whole"
  /\ Goto(p, "stored")
  /\ UNCHANGED fd

\* A put that copies may fill a hole that another has.
Mend(p) ==
  /\ pc[p] \in {"copy", "spoilt"} /\ fd[p] # None
  /\ file' \in {file} \cup (IF file = "wrong" THEN {"whole"} ELSE {})
  /\ fd' \in Mended
  /\ UNCHANGED pc

\* The source has changed: wrong bytes are written, and the put will fail.
Spoil(p) ==
  /\ pc[p] \in {"copy", "spoilt"}
  /\ \/ fd[p] = None /\ UNCHANGED <<file, fd>>
     \/ /\ fd[p] # None
        /\ file' = IF file = "whole" THEN "wrong" ELSE file
        /\ fd' \in Hurt(p, "holed")
  /\ Goto(p, "spoilt")

\* The last byte is written.
Commit(p) ==
  /\ pc[p] = "copy"
  /\ \/ fd[p] = None /\ UNCHANGED <<file, fd>>
     \/ fd[p] = "sound" /\ file' = "whole" /\ fd' \in Mended
     \/ /\ fd[p] = "holed"
        /\ file' \in {"whole"} \cup (IF file = "whole" THEN {} ELSE {"wrong"})
        /\ fd' = [fd EXCEPT ![p] = "sound"]
  /\ Goto(p, "close")

Close(p) ==
  /\ pc[p] = "close"
  /\ fd' = [fd EXCEPT ![p] = None]
  /\ Goto(p, "stored")
  /\ UNCHANGED file

\* A put that fails truncates the file, if it can.
Abort(p) ==
  /\ pc[p] \in {"copy", "spoilt"}
  /\ \/ fd' = [fd EXCEPT ![p] = None] /\ UNCHANGED file
     \/ fd[p] # None /\ file' = "partial" /\ fd' \in Hurt(p, None)
  /\ Goto(p, "error")

\* What was written may be lost when the file is closed.  It is removed, but
\* not at once.
CloseFails(p) ==
  /\ pc[p] = "close"
  /\ \/ fd' = [fd EXCEPT ![p] = None] /\ UNCHANGED file
     \/ /\ fd[p] # None
        /\ file' = IF file = "whole" THEN "wrong" ELSE file
        /\ fd' \in Hurt(p, None)
  /\ Goto(p, "drop")

\* The name goes, and who has the file open writes to one without.
Unlink ==
  /\ file' = None
  /\ fd' = [p \in Puts |-> None]

Drop(p) ==
  /\ pc[p] = "drop"
  /\ Unlink
  /\ Goto(p, "error")

\* It cannot be looked for or opened, or the put fails when it has stored it.
Fails(p) ==
  /\ pc[p] \in {"idle", "open", "trunc", "stored"}
  /\ Goto(p, "error")
  /\ UNCHANGED <<file, fd>>

Crash(p) ==
  /\ pc[p] \notin {"error", "killed"}
  /\ fd' = [fd EXCEPT ![p] = None]
  /\ Goto(p, "killed")
  /\ UNCHANGED file

Trim == file # None /\ Unlink /\ UNCHANGED pc

-----------------------------------------------------------------------------
PutStep(p) ==
  \/ Find(p) \/ Miss(p) \/ Busy(p) \/ Open(p) \/ OpenTruncates(p) \/ OpenEmpty(p)
  \/ Mend(p) \/ Spoil(p) \/ Commit(p) \/ Close(p) \/ Abort(p) \/ CloseFails(p)
  \/ Drop(p) \/ Fails(p) \/ Crash(p)

Init ==
  /\ file \in Contents \cup {None}
  /\ pc = [p \in Puts |-> "idle"]
  /\ fd = [p \in Puts |-> None]

Next == Trim \/ \E p \in Puts : PutStep(p)

Spec == Init /\ [][Next]_vars

=============================================================================
