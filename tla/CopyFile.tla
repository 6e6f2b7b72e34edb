------------------------------ MODULE CopyFile ------------------------------
(***************************************************************************)
(* copyFile of internal/go/cache/cache.go: processes put the same output   *)
(* into one file xxxx-d at once, without a lock, while others read it and  *)
(* trims remove it.  A reader takes a file for complete by its size alone  *)
(* (GetFile, GetMmap), so the last byte is written on its own, after the   *)
(* hash of the rest has been checked.                                      *)
(*                                                                         *)
(* The file is N units long, the last of them the last byte.  Every writer *)
(* writes the same bytes, so of the contents it is enough to know which    *)
(* units are the right ones.  A name leads to an inode; who has opened the *)
(* inode keeps it when the name is removed.                                *)
(*                                                                         *)
(* Behaviours are of two kinds.  In one, I/O never fails and writers run   *)
(* as they like.  In the other (faults), any call may fail, the source may *)
(* change under a writer if SourceChanges, and only if Overlap do writers  *)
(* still run at the same time.                                             *)
(***************************************************************************)
EXTENDS Integers

CONSTANTS
  Procs,     \* calls of copyFile
  Readers,   \* calls of GetFile or GetMmap
  Inodes,    \* bound: the files there can be under the name, in turn
  N,         \* size of the output
  Overlap,   \* whether writers overlap in behaviours with faults
  SourceChanges, \* whether the source may change in them
  InitialLens, \* bound: lengths of the file at the beginning
  None

ASSUME CopyAssumption ==
  /\ N \in Nat
  /\ Overlap \in BOOLEAN /\ SourceChanges \in BOOLEAN
  /\ InitialLens \subseteq Nat
  /\ None \notin Inodes /\ None \notin Int
  /\ None \notin {"partial", "whole", "wrong", "long", "sound", "holed"}

VARIABLES
  faults,   \* whether anything fails in this behaviour
  name,     \* the inode the name leads to, or None
  len,      \* [inode -> length of the file]
  right,    \* [inode -> the units that hold the right bytes]
  unused,   \* inodes not yet created
  pc,       \* where the writer is
  statSize, \* info.Size() of the writer's Stat, None if there is no file
  fd,       \* the inode the writer has opened or found
  offset,   \* of the writer's next unit
  hashOK,   \* whether what the writer has hashed is the output so far
  held,     \* [reader -> the inode it uses, or None]
  lost      \* history: inodes whose Close lost what was written, until it
            \* is written again

fileVars == <<name, len, right, unused, lost>>
procVars == <<pc, statSize, fd, offset, hashOK>>
vars == <<faults, fileVars, procVars, held>>

Intact(i) == len[i] = N /\ right[i] = 1..N

Goto(p, l) == pc' = [pc EXCEPT ![p] = l]

Active == {p \in Procs : pc[p] \notin {"idle", "ok", "error", "killed"}}

-----------------------------------------------------------------------------
\* os.Stat(name).
Stat(p) ==
  /\ pc[p] = "idle"
  /\ faults /\ ~Overlap => Active = {}
  /\ statSize' = [statSize EXCEPT ![p] = IF name = None THEN None ELSE len[name]]
  /\ Goto(p, IF name # None /\ len[name] = N THEN "check" ELSE "open")
  /\ UNCHANGED <<faults, fileVars, fd, offset, hashOK, held>>

\* A mutation of CheckHash: an existing file is always rewritten.
CheckHashSkipped(p) ==
  /\ pc[p] = "check"
  /\ Goto(p, "open")
  /\ UNCHANGED <<faults, fileVars, statSize, fd, offset, hashOK, held>>

\* A file of the right size: if it can be opened and its hash is right, it is
\* the output.  Otherwise it is rewritten.
CheckHash(p) ==
  /\ pc[p] = "check"
  /\ IF name # None /\ Intact(name)
       THEN Goto(p, "ok") /\ fd' = [fd EXCEPT ![p] = name]
       ELSE Goto(p, "open") /\ UNCHANGED fd
  /\ UNCHANGED <<faults, fileVars, statSize, offset, hashOK, held>>

\* A mutation of OpenFile: always with O_TRUNC.
OpenFileTruncates(p) ==
  /\ pc[p] = "open"
  /\ IF name = None
       THEN \E i \in unused : name' = i /\ unused' = unused \ {i}
       ELSE UNCHANGED <<name, unused>>
  /\ fd' = [fd EXCEPT ![p] = name']
  /\ len' = [len EXCEPT ![name'] = 0]
  /\ right' = [right EXCEPT ![name'] = {}]
  /\ offset' = [offset EXCEPT ![p] = 0]
  /\ hashOK' = [hashOK EXCEPT ![p] = TRUE]
  /\ Goto(p, IF N = 0 THEN "ok" ELSE "write")
  /\ UNCHANGED <<faults, statSize, held, lost>>

\* A mutation of OpenFile: f is another variable, in an inner scope.
OpenFileShadowed(p) ==
  /\ pc[p] = "open"
  /\ IF name = None
       THEN \E i \in unused : name' = i /\ unused' = unused \ {i}
       ELSE UNCHANGED <<name, unused>>
  /\ Goto(p, "write")
  /\ UNCHANGED <<faults, len, right, lost, statSize, fd, offset, hashOK, held>>

\* OpenFile creates the file if there is none, and truncates it only if it
\* was found too long.  An empty output is then complete.
OpenFile(p) ==
  LET trunc == statSize[p] # None /\ statSize[p] > N IN
  /\ pc[p] = "open"
  /\ IF name = None
       THEN \E i \in unused :
              /\ name' = i
              /\ unused' = unused \ {i}
              /\ fd' = [fd EXCEPT ![p] = i]
              /\ UNCHANGED <<len, right>>
       ELSE /\ fd' = [fd EXCEPT ![p] = name]
            /\ len' = IF trunc THEN [len EXCEPT ![name] = 0] ELSE len
            /\ right' = IF trunc THEN [right EXCEPT ![name] = {}] ELSE right
            /\ UNCHANGED <<name, unused>>
  /\ offset' = [offset EXCEPT ![p] = 0]
  /\ hashOK' = [hashOK EXCEPT ![p] = TRUE]
  /\ Goto(p, IF N = 0 THEN "ok" ELSE "write")
  /\ UNCHANGED <<faults, statSize, held, lost>>

\* ETXTBSY: the file is being executed, so another process has completed it.
\* It is taken for the output, whatever it holds by now.
TextBusy(p) ==
  /\ pc[p] = "open"
  /\ name # None /\ \E r \in Readers : held[r] = name
  /\ fd' = [fd EXCEPT ![p] = name]
  /\ Goto(p, "ok")
  /\ UNCHANGED <<faults, fileVars, statSize, offset, hashOK, held>>

\* A write of the next unit to the file, right or wrong.  Writing behind the
\* end leaves a hole: units of the file that are not right.
WriteUnit(p, isRight) ==
  LET i == fd[p]  u == offset[p] + 1 IN
  /\ len' = [len EXCEPT ![i] = IF @ < u THEN u ELSE @]
  /\ right' = [right EXCEPT ![i] = IF isRight THEN @ \cup {u} ELSE @ \ {u}]
  /\ offset' = [offset EXCEPT ![p] = u]
  /\ UNCHANGED <<name, unused>>

\* A mutation of Write: the last byte is not held back.
WriteAll(p) ==
  /\ pc[p] = "write" /\ offset[p] < N
  /\ \E same \in {TRUE, ~(faults /\ SourceChanges)} :
       /\ WriteUnit(p, same)
       /\ hashOK' = [hashOK EXCEPT ![p] = @ /\ same]
  /\ UNCHANGED <<faults, pc, statSize, fd, held, lost>>

\* io.CopyN of all but the last byte.  The source may have changed.
Write(p) ==
  /\ pc[p] = "write" /\ offset[p] < N - 1
  /\ \E same \in {TRUE, ~(faults /\ SourceChanges)} :
       /\ WriteUnit(p, same)
       /\ hashOK' = [hashOK EXCEPT ![p] = @ /\ same]
  /\ UNCHANGED <<faults, pc, statSize, fd, held, lost>>

\* A mutation of Commit: the hash is not checked.
CommitUnchecked(p) ==
  /\ pc[p] = "write" /\ offset[p] = N - 1
  /\ WriteUnit(p, TRUE)
  /\ lost' = lost \ {fd[p]}
  /\ Goto(p, "close")
  /\ UNCHANGED <<faults, statSize, fd, hashOK, held>>

\* The last byte, when the hash is right.
Commit(p) ==
  /\ pc[p] = "write" /\ offset[p] = N - 1
  /\ hashOK[p]
  /\ WriteUnit(p, TRUE)
  /\ lost' = lost \ {fd[p]}
  /\ Goto(p, "close")
  /\ UNCHANGED <<faults, statSize, fd, hashOK, held>>

\* An error between OpenFile and Close: from the source, from the file, or
\* the hash is not the output's.  The file is truncated, if that succeeds.
Fail(p) ==
  /\ faults
  /\ pc[p] = "write"
  /\ \/ /\ len' = [len EXCEPT ![fd[p]] = 0]
        /\ right' = [right EXCEPT ![fd[p]] = {}]
     \/ UNCHANGED <<len, right>>
  /\ Goto(p, "error")
  /\ UNCHANGED <<faults, name, unused, lost, statSize, fd, offset, hashOK, held>>

Close(p) ==
  /\ pc[p] = "close"
  /\ Goto(p, "ok")
  /\ UNCHANGED <<faults, fileVars, statSize, fd, offset, hashOK, held>>

\* A mutation of CloseFails: the error is returned, the file left.
CloseFailsOnly(p) ==
  /\ faults
  /\ pc[p] = "close"
  /\ right' = [right EXCEPT ![fd[p]] = {}]
  /\ lost' = lost \cup {fd[p]}
  /\ Goto(p, "error")
  /\ UNCHANGED <<faults, name, len, unused, statSize, fd, offset, hashOK, held>>

\* Close fails: what has been written may be lost, though the file may look
\* like it is the right size.
CloseFails(p) ==
  /\ faults
  /\ pc[p] = "close"
  /\ \/ /\ right' = [right EXCEPT ![fd[p]] = {}]
        /\ lost' = lost \cup {fd[p]}
     \/ UNCHANGED <<right, lost>>
  /\ Goto(p, "remove")
  /\ UNCHANGED <<faults, name, len, unused, statSize, fd, offset, hashOK, held>>

\* So os.Remove removes whatever file the name leads to.
RemoveFile(p) ==
  /\ pc[p] = "remove"
  /\ name' = None
  /\ Goto(p, "error")
  /\ UNCHANGED <<faults, len, right, unused, lost, statSize, fd, offset, hashOK,
                 held>>

OpenFails(p) ==
  /\ faults
  /\ pc[p] = "open"
  /\ Goto(p, "error")
  /\ UNCHANGED <<faults, fileVars, statSize, fd, offset, hashOK, held>>

\* The go command is killed; the file stays as it is.
Crash(p) ==
  /\ p \in Active
  /\ Goto(p, "killed")
  /\ UNCHANGED <<faults, fileVars, statSize, fd, offset, hashOK, held>>

-----------------------------------------------------------------------------
\* GetFile or GetMmap, for an index entry that says the size is N.
Get(r) ==
  /\ held[r] = None
  /\ name # None /\ len[name] = N
  /\ held' = [held EXCEPT ![r] = name]
  /\ UNCHANGED <<faults, fileVars, procVars>>

\* A trim removes the name (while there is an inode left for another file).
TrimRemoves ==
  /\ name # None /\ unused # {}
  /\ name' = None
  /\ UNCHANGED <<faults, len, right, unused, lost, procVars, held>>

Step(p) ==
  \/ Stat(p) \/ CheckHash(p) \/ OpenFile(p) \/ TextBusy(p) \/ OpenFails(p)
  \/ Write(p) \/ Commit(p) \/ Fail(p) \/ Close(p) \/ CloseFails(p) \/ RemoveFile(p)
  \/ Crash(p)

\* The file a behaviour begins with is what a killed writer leaves, or, in
\* behaviours with faults, anything that is not of the right size.
Init ==
  /\ faults \in BOOLEAN
  /\ name \in {None} \cup Inodes
  /\ unused = Inodes \ {name}
  /\ \E l \in InitialLens \cup {0} : \E good \in SUBSET (1..l) :
       /\ IF name = None THEN l = 0
          ELSE IF faults THEN l # N
          ELSE l <= N /\ good = 1..l
       /\ len = [i \in Inodes |-> IF i = name THEN l ELSE 0]
       /\ right = [i \in Inodes |-> IF i = name THEN good ELSE {}]
  /\ pc = [p \in Procs |-> "idle"]
  /\ statSize = [p \in Procs |-> None]
  /\ fd = [p \in Procs |-> None]
  /\ offset = [p \in Procs |-> 0]
  /\ hashOK = [p \in Procs |-> TRUE]
  /\ held = [r \in Readers |-> None]
  /\ lost = {}

Next ==
  \/ \E p \in Procs : Step(p)
  \/ \E r \in Readers : Get(r)
  \/ TrimRemoves

Spec == Init /\ [][Next]_vars

-----------------------------------------------------------------------------
PCs == {"idle", "check", "open", "write", "close", "remove", "ok", "error", "killed"}

\* Every variable has its type, and a writer that writes has opened a file.
TypeOK ==
  /\ faults \in BOOLEAN
  /\ name \in Inodes \cup {None}
  /\ len \in [Inodes -> Nat]
  /\ right \in [Inodes -> SUBSET Nat]
  /\ unused \in SUBSET Inodes
  /\ pc \in [Procs -> PCs]
  /\ statSize \in [Procs -> Nat \cup {None}]
  /\ fd \in [Procs -> Inodes \cup {None}]
  /\ offset \in [Procs -> 0..N]
  /\ hashOK \in [Procs -> BOOLEAN]
  /\ held \in [Readers -> Inodes \cup {None}]
  /\ lost \in SUBSET Inodes
  /\ \A p \in Procs : pc[p] \in {"write", "close", "remove"} => fd[p] # None

\* What GetFile takes for complete by its size has the right contents, in the
\* middle of any number of puts and after any crash: but for a file that has
\* just lost what was written to it (LostIsRemoved).
CompleteIsIntact == \A i \in Inodes \ lost : len[i] = N => Intact(i)

\* The file copyFile reported as stored keeps its contents: no later put of
\* the same output damages it, not even for a moment.  Left out is a file that
\* lost what was written when it was closed, and is executed all the same: as
\* long as it is not removed, copyFile reports it as stored.
StoredStaysIntact ==
  \A p \in Procs : pc[p] = "ok" =>
    Intact(fd[p]) \/ fd[p] \in lost \cap {held[r] : r \in Readers}

\* Nor does a reader that has mapped the file see it change.
HeldStaysIntact ==
  \A r \in Readers : held[r] \notin lost \cup {None} => Intact(held[r])

\* A file that lost its contents when it was closed stays under its name only
\* until the writer that closed it has removed it, or was killed before.
LostIsRemoved ==
  name \in lost =>
    \E p \in Procs : pc[p] \in {"remove", "killed"} /\ fd[p] = name

\* The writer may damage what others write or have written: it found the file
\* too long, has read a source that changed, failed with the file open, or was
\* killed when it closed it.
Culprit(p) ==
  \/ statSize[p] # None /\ statSize[p] > N
  \/ ~hashOK[p]
  \/ pc[p] \in {"remove", "error"} /\ fd[p] # None
  \/ pc[p] = "killed" /\ offset[p] = N /\ N > 0

\* Nothing else does: writers may overlap in any way, also with faults, be
\* killed, or fail before they have opened the file, and what is complete is
\* intact, stays intact, and is not seen to change.
OnlyFailuresDamage ==
  (\A p \in Procs : ~Culprit(p)) =>
    CompleteIsIntact /\ StoredStaysIntact /\ HeldStaysIntact

-----------------------------------------------------------------------------
\* What the file under the name holds.
Held ==
  IF name = None THEN None
  ELSE IF len[name] < N THEN "partial"
  ELSE IF len[name] > N THEN "long"
  ELSE IF right[name] = 1..N THEN "whole" ELSE "wrong"

\* Whether the writer must truncate the file when it opens it, and whether it
\* will fail because of what it has hashed.
Stage(p) ==
  CASE pc[p] = "check"  -> "idle"
    [] pc[p] = "open"   -> IF statSize[p] # None /\ statSize[p] > N THEN "trunc" ELSE "open"
    [] pc[p] = "write"  -> IF hashOK[p] THEN "copy" ELSE "spoilt"
    [] pc[p] = "remove" -> "drop"
    [] pc[p] = "ok"     -> "stored"
    [] OTHER            -> pc[p]

\* Whether what the writer has written is in the file under the name.
Written(p) ==
  IF pc[p] \notin {"write", "close"} \/ fd[p] # name THEN None
  ELSE IF pc[p] = "close" \/ (hashOK[p] /\ 1..offset[p] \subseteq right[name])
  THEN "sound" ELSE "holed"

Output == INSTANCE OutputFile WITH
  Puts  <- Procs,
  Empty <- N = 0,
  file  <- Held,
  pc    <- [p \in Procs |-> Stage(p)],
  fd    <- [p \in Procs |-> Written(p)]

\* CopyFile implements OutputFile: whatever the writers' single writes and
\* truncations do to each other, with overlaps and faults of any kind, is
\* what OutputFile says of whole calls.
KeepsOutput == Output!Spec

=============================================================================
