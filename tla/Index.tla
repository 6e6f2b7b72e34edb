-------------------------------- MODULE Index --------------------------------
(***************************************************************************)
(* From an action to its output: Put, PutExecutable, Get and GetFile of    *)
(* internal/go/cache/cache.go.  A put copies the output into the cache and *)
(* then writes the action's index entry; a get reads the entry, asks for   *)
(* the name of the output's file, and looks at its size.  Nothing is       *)
(* locked, so puts of the same action or output, trims, failures and kills *)
(* come between any two of these steps.                                    *)
(*                                                                         *)
(* An output is a file, or, if it is an executable, a directory with the   *)
(* file in it.  Of copyFile, which CopyFile has in every write, there is   *)
(* here what OutputFile says of it, for each file an output may be in, of  *)
(* outputs that are not empty.  A write or a read of an index entry, less  *)
(* than a page, is one step.                                               *)
(***************************************************************************)
EXTENDS Integers

CONSTANTS
  Actions, Outputs,
  Names,    \* base names of executables
  Plain,    \* stands for the name of an output that is none
  Putters,  \* calls of Put (name = Plain) and PutExecutable
  Calls,    \* bound: what they may put, functions from Putters to records
  Getters,  \* calls of GetFile, one after the other
  None, Junk

\* What a file of an output holds, and what get makes of an entry's file.
\* (by: history, the put that has written it.)
Contents == {"partial", "whole", "wrong"}
EntryRecords == [out : Outputs, sized : BOOLEAN, by : Putters]

ASSUME IndexAssumption ==
  /\ Calls \subseteq
       [Putters -> [act : Actions, out : Outputs, name : Names \cup {Plain}]]
  /\ Plain \notin Names
  /\ None # Junk /\ None \notin Contents \cup Names \cup {Plain, "long", "sound", "holed"}
  /\ None \notin EntryRecords /\ Junk \notin EntryRecords

VARIABLES
  index,     \* [action -> the entry in its file; Junk if get does not accept
             \* what is there; None if there is no file]
  long,      \* actions whose file goes on after its entry
  dirs,      \* outputs whose name is a directory
  files,     \* [output -> [name -> None, or what the file holds]]
  call,      \* [put -> what it puts]
  pc,        \* where the put is
  fd,        \* [put -> None, or whether all it has written is in the file
             \* it has opened, and that file has still its name]
  at,        \* where the get is
  want,      \* [get -> the entry it has read, or None]
  path,      \* [get -> the name in the output's directory, Plain, or None]
  seen,      \* [get -> what it has returned holds, or None]
  failed,    \* history: puts that have failed while they copied
  disturbed, \* history: puts whose entry or output was removed or replaced,
             \* or damaged by a failure, has another name beside it, or was
             \* not the output but being executed
  sure,      \* history: [get -> undisturbed puts that had returned before it]
  trouble    \* history: whether anything has failed, been killed or trimmed

putVars == <<index, long, dirs, files, pc, fd, failed, disturbed>>
getVars == <<at, want, path, seen, sure>>
vars == <<putVars, call, getVars, trouble>>

Goto(p, l) == pc' = [pc EXCEPT ![p] = l]

\* Puts that a change of the output, or of the action's file, concerns.
PutsOf(o) == {p \in Putters : pc[p] # "idle" /\ call[p].out = o}
Indexing(a) ==
  {p \in Putters : call[p].act = a /\ pc[p] \in {"write", "truncate", "ok"}}

Disturb(ps) == disturbed' = disturbed \cup ps

\* The output's directory holds a name that is not this put's.
Crowd(p) ==
  LET o == call[p].out IN
  IF \E n \in Names \ {call[p].name} : files[o][n] # None
    THEN PutsOf(o) \cup {p} ELSE {}

-----------------------------------------------------------------------------
\* put up to the first os.Stat of copyFile, and the Stat and the check of the
\* hash of an executable if its directory is there.
Put(p) ==
  LET o == call[p].out  n == call[p].name IN
  /\ pc[p] = "idle"
  /\ \/ files[o][n] = "whole" /\ Goto(p, "index")
     \/ files[o][n] # "whole" /\ (n = Plain \/ o \in dirs) /\ Goto(p, "open")
     \/ n # Plain /\ o \notin dirs
        /\ Goto(p, IF files[o][Plain] = None THEN "mkdir" ELSE "error")
  /\ Disturb(Crowd(p))
  /\ UNCHANGED <<index, long, dirs, files, fd, failed, call, getVars, trouble>>

\* A mutation of Mkdir: a failure of it is cleaned up.
MkdirCleansUp(p) ==
  LET o == call[p].out IN
  /\ pc[p] = "mkdir"
  /\ IF o \in dirs \/ files[o][Plain] # None
       THEN Goto(p, "error") /\ dirs' = dirs \ {o}
       ELSE Goto(p, "open") /\ dirs' = dirs \cup {o}
  /\ UNCHANGED <<index, long, files, fd, failed, disturbed, call, getVars, trouble>>

\* os.Mkdir fails if another put has been faster.
Mkdir(p) ==
  LET o == call[p].out IN
  /\ pc[p] = "mkdir"
  /\ IF o \in dirs \/ files[o][Plain] # None
       THEN Goto(p, "error") /\ UNCHANGED dirs
       ELSE Goto(p, "open") /\ dirs' = dirs \cup {o}
  /\ UNCHANGED <<index, long, files, fd, failed, disturbed, call, getVars, trouble>>

\* os.OpenFile of the output.  A plain one cannot be where a directory is, an
\* executable not where there is none any more.
OpenOutput(p) ==
  LET o == call[p].out  n == call[p].name IN
  /\ pc[p] = "open"
  /\ IF (n = Plain) = (o \in dirs)
       THEN Goto(p, "error") /\ UNCHANGED <<files, fd, disturbed>>
       ELSE /\ files' = [files EXCEPT ![o][n] = IF @ = None THEN "partial" ELSE @]
            /\ fd' = [fd EXCEPT ![p] = "sound"]
            /\ Disturb(Crowd(p))
            /\ Goto(p, "copy")
  /\ UNCHANGED <<index, long, dirs, failed, call, getVars, trouble>>

\* ETXTBSY: it is being executed, and is taken for the output.
TextBusy(p) ==
  LET o == call[p].out  n == call[p].name IN
  /\ pc[p] = "open"
  /\ n # Plain /\ files[o][n] # None
  /\ Disturb(Crowd(p) \cup IF files[o][n] = "whole" THEN {} ELSE {p})
  /\ Goto(p, "index")
  /\ UNCHANGED <<index, long, dirs, files, fd, failed, call, getVars, trouble>>

\* Puts that have the same file open.
Copying(o, n) ==
  {q \in Putters :
     pc[q] \in {"copy", "spoilt", "close"} /\ call[q].out = o /\ call[q].name = n}

\* What a put that fails makes of the file's contents, if they are under its
\* name, and of what others have written; all know of it.
Harm(p, c, v) ==
  LET o == call[p].out  n == call[p].name IN
  /\ files' = [files EXCEPT ![o][n] = c]
  /\ fd' = [q \in Putters |->
              IF q = p THEN v
              ELSE IF q \in Copying(o, n) /\ fd[q] # None THEN "holed" ELSE fd[q]]

Blame(p) ==
  /\ failed' = failed \cup {p}
  /\ Disturb(PutsOf(call[p].out))
  /\ trouble' = TRUE
  /\ UNCHANGED <<index, long, dirs, call, getVars>>

\* Not the output any more.
Worse(c) == IF c = "whole" THEN "wrong" ELSE c

\* What is copied fills a hole that another put has left.
Mend(p) ==
  LET o == call[p].out  n == call[p].name IN
  /\ pc[p] \in {"copy", "spoilt"} /\ fd[p] # None
  /\ files[o][n] = "wrong"
  /\ files' = [files EXCEPT ![o][n] = "whole"]
  /\ UNCHANGED <<index, long, dirs, pc, fd, failed, disturbed, call, getVars, trouble>>

\* The source has changed, and what is copied is not the output.
Spoil(p) ==
  /\ pc[p] \in {"copy", "spoilt"}
  /\ IF fd[p] = None
       THEN UNCHANGED <<files, fd>>
       ELSE Harm(p, Worse(files[call[p].out][call[p].name]), "holed")
  /\ Goto(p, "spoilt")
  /\ Blame(p)

\* A mutation of Commit: the entry is written first, and the output after it.
CommitUnwritten(p) ==
  /\ pc[p] = "copy"
  /\ Goto(p, "index")
  /\ UNCHANGED <<index, long, dirs, files, fd, failed, disturbed, call, getVars, trouble>>

\* The last byte is written.  Where another put has truncated the file
\* meanwhile, there may be a hole.
Commit(p) ==
  LET o == call[p].out  n == call[p].name IN
  /\ pc[p] = "copy"
  /\ \/ fd[p] = None /\ UNCHANGED files
     \/ /\ fd[p] # None
        /\ \E c \in {"whole"} \cup
                    (IF fd[p] = "sound" \/ files[o][n] = "whole" THEN {} ELSE {"wrong"}) :
             files' = [files EXCEPT ![o][n] = c]
  /\ fd' = [fd EXCEPT ![p] = IF @ = None THEN None ELSE "sound"]
  /\ Goto(p, "close")
  /\ UNCHANGED <<index, long, dirs, failed, disturbed, call, getVars, trouble>>

CloseOutput(p) ==
  /\ pc[p] = "close"
  /\ fd' = [fd EXCEPT ![p] = None]
  /\ Goto(p, "index")
  /\ UNCHANGED <<index, long, dirs, files, failed, disturbed, call, getVars, trouble>>

\* An error before the last byte.  The file is truncated, if that succeeds.
CopyFails(p) ==
  /\ pc[p] \in {"copy", "spoilt"}
  /\ \/ fd' = [fd EXCEPT ![p] = None] /\ UNCHANGED files
     \/ fd[p] # None /\ Harm(p, "partial", None)
  /\ Goto(p, "error")
  /\ Blame(p)

\* What was written may be lost.
CloseFails(p) ==
  /\ pc[p] = "close"
  /\ \/ fd' = [fd EXCEPT ![p] = None] /\ UNCHANGED files
     \/ fd[p] # None /\ Harm(p, Worse(files[call[p].out][call[p].name]), None)
  /\ Goto(p, "drop")
  /\ Blame(p)

\* The file goes, and who copies into it writes to one without a name.
RemoveFile(o, n) ==
  /\ files' = [files EXCEPT ![o][n] = None]
  /\ fd' = [q \in Putters |-> IF q \in Copying(o, n) THEN None ELSE fd[q]]
  /\ Disturb(PutsOf(o))
  /\ UNCHANGED <<index, long, dirs, failed, call, getVars>>

\* So os.Remove removes whatever file the name leads to.
RemoveOutput(p) ==
  /\ pc[p] = "drop"
  /\ RemoveFile(call[p].out, call[p].name)
  /\ Goto(p, "error")
  /\ UNCHANGED trouble

-----------------------------------------------------------------------------
Entry(p, sized) == [out |-> call[p].out, sized |-> sized, by |-> p]

\* A mutation of OpenIndex: with O_TRUNC, as os.WriteFile does.
OpenIndexTruncates(p) ==
  LET a == call[p].act IN
  /\ pc[p] = "index"
  /\ index' = [index EXCEPT ![a] = Junk]
  /\ long' = long \ {a}
  /\ fd' = [fd EXCEPT ![p] = "sound"]
  /\ Goto(p, "write")
  /\ UNCHANGED <<dirs, files, failed, disturbed, call, getVars, trouble>>

\* putIndexEntry opens the file, or creates an empty one.
OpenIndex(p) ==
  LET a == call[p].act IN
  /\ pc[p] = "index"
  /\ index' = [index EXCEPT ![a] = IF @ = None THEN Junk ELSE @]
  /\ fd' = [fd EXCEPT ![p] = "sound"]
  /\ Goto(p, "write")
  /\ UNCHANGED <<long, dirs, files, failed, disturbed, call, getVars, trouble>>

\* f.WriteString(entry), which replaces what another put has written.
WriteIndex(p) ==
  LET a == call[p].act IN
  /\ pc[p] = "write"
  /\ IF fd[p] = None
       THEN UNCHANGED <<index, disturbed>>
       ELSE /\ index' = [index EXCEPT ![a] = Entry(p, TRUE)]
            /\ Disturb({q \in Indexing(a) :
                          pc[q] # "write" /\ call[q].out # call[p].out})
  /\ Goto(p, "truncate")
  /\ UNCHANGED <<long, dirs, files, fd, failed, call, getVars, trouble>>

\* A mutation of Truncate: what is behind the entry stays.
TruncateNot(p) ==
  /\ pc[p] = "truncate"
  /\ fd' = [fd EXCEPT ![p] = None]
  /\ Goto(p, "ok")
  /\ UNCHANGED <<index, long, dirs, files, failed, disturbed, call, getVars, trouble>>

\* f.Truncate and f.Close; the put returns.
Truncate(p) ==
  /\ pc[p] = "truncate"
  /\ long' = IF fd[p] = None THEN long ELSE long \ {call[p].act}
  /\ fd' = [fd EXCEPT ![p] = None]
  /\ Goto(p, "ok")
  /\ UNCHANGED <<index, dirs, files, failed, disturbed, call, getVars, trouble>>

\* A write that fails may have replaced the first part of an entry: as far as
\* into the output's ID, which then is of no output, as far as the size, which
\* then is the old one's, or farther.  (Entries of one output have the same
\* beginning.)
Mixtures(p) ==
  LET e == index[call[p].act] IN
  {e} \cup (IF pc[p] # "write" \/ fd[p] = None \/ e = Junk THEN {}
            ELSE IF e.out = call[p].out THEN {Entry(p, TRUE)}
            ELSE {Junk, Entry(p, FALSE), Entry(p, TRUE)})

\* A mutation of IndexFails: the error is returned, the file left.
IndexFailsOnly(p) ==
  LET a == call[p].act IN
  /\ pc[p] \in {"write", "truncate"}
  /\ \E e \in Mixtures(p) : index' = [index EXCEPT ![a] = e]
  /\ Disturb(Indexing(a))
  /\ fd' = [fd EXCEPT ![p] = None]
  /\ Goto(p, "error")
  /\ trouble' = TRUE
  /\ UNCHANGED <<long, dirs, files, failed, call, getVars>>

\* WriteString, Truncate or Close fails.
IndexFails(p) ==
  LET a == call[p].act IN
  /\ pc[p] \in {"write", "truncate"}
  /\ \E e \in Mixtures(p) : index' = [index EXCEPT ![a] = e]
  /\ Disturb(Indexing(a))
  /\ fd' = [fd EXCEPT ![p] = None]
  /\ Goto(p, "remove")
  /\ trouble' = TRUE
  /\ UNCHANGED <<long, dirs, files, failed, call, getVars>>

\* The action's file goes, whoever has written it, and who has it open writes
\* to one without a name.
RemoveEntry(a) ==
  /\ index' = [index EXCEPT ![a] = None]
  /\ long' = long \ {a}
  /\ fd' = [q \in Putters |-> IF q \in Indexing(a) THEN None ELSE fd[q]]
  /\ Disturb(Indexing(a))
  /\ UNCHANGED <<dirs, files, failed, call, getVars>>

\* So os.Remove removes whatever file the name leads to.
RemoveIndex(p) ==
  /\ pc[p] = "remove"
  /\ RemoveEntry(call[p].act)
  /\ Goto(p, "error")
  /\ UNCHANGED trouble

\* The source cannot be read, or Stat, Mkdir or OpenFile fails.
Fails(p) ==
  /\ pc[p] \in {"idle", "mkdir", "open", "index"}
  /\ Goto(p, "error")
  /\ trouble' = TRUE
  /\ UNCHANGED <<index, long, dirs, files, fd, failed, disturbed, call, getVars>>

\* The go command is killed.
Crash(p) ==
  /\ pc[p] \notin {"idle", "ok", "error", "killed"}
  /\ fd' = [fd EXCEPT ![p] = None]
  /\ Goto(p, "killed")
  /\ trouble' = TRUE
  /\ UNCHANGED <<index, long, dirs, files, failed, disturbed, call, getVars>>

-----------------------------------------------------------------------------
\* Trims remove entries and outputs of any age: with a size limit, also those
\* just used.  RemoveAll removes the file in a directory first.
TrimEntry(a) ==
  /\ index[a] # None
  /\ RemoveEntry(a)
  /\ trouble' = TRUE
  /\ UNCHANGED pc

TrimFile(o, n) ==
  /\ files[o][n] # None
  /\ RemoveFile(o, n)
  /\ trouble' = TRUE
  /\ UNCHANGED pc

TrimDir(o) ==
  /\ o \in dirs /\ \A n \in Names : files[o][n] = None
  /\ dirs' = dirs \ {o}
  /\ Disturb(PutsOf(o))
  /\ trouble' = TRUE
  /\ UNCHANGED <<index, long, files, pc, fd, failed, call, getVars>>

-----------------------------------------------------------------------------
GetGoto(g, l) == at' = [at EXCEPT ![g] = l]

\* What get accepts.
Readable(a) == index[a] \notin {None, Junk} /\ a \notin long

\* Get reads the entry.
Get(g, a) ==
  /\ at[g] = "idle"
  /\ sure' = [sure EXCEPT ![g] =
                {p \in Putters \ disturbed : pc[p] = "ok" /\ call[p].act = a}]
  /\ IF Readable(a)
       THEN GetGoto(g, "output") /\ want' = [want EXCEPT ![g] = index[a]]
       ELSE GetGoto(g, "miss") /\ UNCHANGED want
  /\ UNCHANGED <<putVars, call, path, seen, trouble>>

\* OutputFile: the name, which is only found to lead nowhere by the Stat.
OutputFile(g) ==
  LET o == want[g].out IN
  /\ at[g] = "output"
  /\ \/ /\ o \notin dirs
        /\ path' = [path EXCEPT ![g] = Plain]
     \/ /\ o \in dirs
        /\ \E n \in Names : /\ {k \in Names : files[o][k] # None} = {n}
                            /\ path' = [path EXCEPT ![g] = n]
     \/ /\ o \in dirs
        /\ ~\E n \in Names : {k \in Names : files[o][k] # None} = {n}
        /\ UNCHANGED path
  /\ GetGoto(g, "stat")
  /\ UNCHANGED <<putVars, call, want, seen, sure, trouble>>

\* A mutation of StatFile: a file that is there is taken for the output.
StatFileOnly(g) ==
  LET c == IF path[g] = None THEN None ELSE files[want[g].out][path[g]] IN
  /\ at[g] = "stat"
  /\ IF c # None
       THEN GetGoto(g, "hit") /\ seen' = [seen EXCEPT ![g] = c]
       ELSE GetGoto(g, "miss") /\ UNCHANGED seen
  /\ UNCHANGED <<putVars, call, want, path, sure, trouble>>

\* The Stat of GetFile: the size is the entry's.  That of a partial file may
\* be, if the entry has another size than the output.
StatFile(g) ==
  LET c == IF path[g] = None THEN None ELSE files[want[g].out][path[g]] IN
  /\ at[g] = "stat"
  /\ \/ /\ IF want[g].sized THEN c \in {"whole", "wrong"} ELSE c = "partial"
        /\ GetGoto(g, "hit")
        /\ seen' = [seen EXCEPT ![g] = c]
     \/ /\ ~want[g].sized \/ c \notin {"whole", "wrong"}
        /\ GetGoto(g, "miss")
        /\ UNCHANGED seen
  /\ UNCHANGED <<putVars, call, want, path, sure, trouble>>

Return(g) ==
  /\ at[g] \in {"hit", "miss"}
  /\ GetGoto(g, "idle")
  /\ want' = [want EXCEPT ![g] = None]
  /\ path' = [path EXCEPT ![g] = None]
  /\ seen' = [seen EXCEPT ![g] = None]
  /\ sure' = [sure EXCEPT ![g] = {}]
  /\ UNCHANGED <<putVars, call, trouble>>

-----------------------------------------------------------------------------
PutStep(p) ==
  \/ Put(p) \/ Mkdir(p) \/ OpenOutput(p) \/ TextBusy(p) \/ Mend(p) \/ Spoil(p)
  \/ Commit(p) \/ CloseOutput(p) \/ CopyFails(p) \/ CloseFails(p) \/ RemoveOutput(p)
  \/ OpenIndex(p) \/ WriteIndex(p) \/ Truncate(p) \/ IndexFails(p)
  \/ RemoveIndex(p) \/ Fails(p) \/ Crash(p)

GetStep(g) ==
  \/ \E a \in Actions : Get(g, a)
  \/ OutputFile(g) \/ StatFile(g) \/ Return(g)

Trim ==
  \/ \E a \in Actions : TrimEntry(a)
  \/ \E o \in Outputs : TrimDir(o) \/ \E n \in Names \cup {Plain} : TrimFile(o, n)

\* At the beginning an action's file may be corrupted, as put allows for.
Init ==
  /\ index \in [Actions -> {None, Junk}]
  /\ long \in SUBSET {a \in Actions : index[a] = Junk}
  /\ dirs = {}
  /\ files = [o \in Outputs |-> [n \in Names \cup {Plain} |-> None]]
  /\ call \in Calls
  /\ pc = [p \in Putters |-> "idle"]
  /\ fd = [p \in Putters |-> None]
  /\ at = [g \in Getters |-> "idle"]
  /\ want = [g \in Getters |-> None]
  /\ path = [g \in Getters |-> None]
  /\ seen = [g \in Getters |-> None]
  /\ failed = {}
  /\ disturbed = {}
  /\ sure = [g \in Getters |-> {}]
  /\ trouble = FALSE

Next ==
  \/ \E p \in Putters : PutStep(p)
  \/ \E g \in Getters : GetStep(g)
  \/ Trim

Spec == Init /\ [][Next]_vars

-----------------------------------------------------------------------------
PCs == {"idle", "mkdir", "open", "copy", "spoilt", "close", "drop", "index", "write",
        "truncate", "remove", "ok", "error", "killed"}

\* Every variable has its type, and an output is a file or a directory.
TypeOK ==
  /\ index \in [Actions -> EntryRecords \cup {None, Junk}]
  /\ long \in SUBSET Actions
  /\ dirs \in SUBSET Outputs
  /\ files \in [Outputs -> [Names \cup {Plain} -> Contents \cup {None}]]
  /\ call \in Calls
  /\ pc \in [Putters -> PCs]
  /\ fd \in [Putters -> {None, "sound", "holed"}]
  /\ at \in [Getters -> {"idle", "output", "stat", "hit", "miss"}]
  /\ want \in [Getters -> EntryRecords \cup {None}]
  /\ path \in [Getters -> Names \cup {Plain, None}]
  /\ seen \in [Getters -> Contents \cup {None}]
  /\ failed \in SUBSET Putters
  /\ disturbed \in SUBSET Putters
  /\ sure \in [Getters -> SUBSET Putters]
  /\ trouble \in BOOLEAN
  /\ \A o \in Outputs, n \in Names \cup {Plain} :
       files[o][n] # None => (n = Plain <=> o \notin dirs)

\* OutputFile gives the name of a file that is the output.
Usable(o) ==
  \E n \in Names \cup {Plain} :
    /\ files[o][n] = "whole"
    /\ n # Plain => \A k \in Names \ {n} : files[o][k] = None

\* An entry leads to an output that is there, also when its put is killed
\* before it returns; unless something has happened to the output.
IndexedIsUsable ==
  \A a \in Actions :
    index[a] \notin {None, Junk} /\ index[a].by \notin disturbed
      => Usable(index[a].out)

\* A put that has returned is found from then on, until something happens to
\* it, and a put of the same content is none of these things: it "does not -
\* even temporarily! - undo the effect of the first" (cache.go:470-473).
PutIsFound ==
  \A p \in Putters : pc[p] = "ok" /\ p \notin disturbed =>
    LET a == call[p].act IN
    /\ Readable(a) /\ index[a].sized /\ index[a].out = call[p].out
    /\ Usable(call[p].out)

\* Nor does a get miss, which looks at the entry, the output's name and its
\* file at three different times, unless it happened meanwhile.
MissIsExplained == \A g \in Getters : at[g] = "miss" => sure[g] \subseteq disturbed

\* What a get returns is the output, also if that was removed and put again
\* meanwhile, so that it is there in part; unless a put has failed to copy it
\* after the put whose entry the get has read, or has failed to write its entry.
HitIsWhole ==
  \A g \in Getters : at[g] = "hit" =>
    \/ seen[g] = "whole"
    \/ /\ want[g].by \in disturbed
       /\ ~want[g].sized \/ \E q \in failed : call[q].out = want[g].out

\* An entry with an output and a size that do not belong together is removed
\* by its writer, unless that is killed.
MixedIsBrief ==
  \A a \in Actions : index[a] \notin {None, Junk} /\ ~index[a].sized =>
    pc[index[a].by] \in {"remove", "killed"}

\* When two processes put the same executable for the first time, or the same
\* output in two forms, one of them may fail, but not both.
SomePutSucceeds ==
  ~trouble => \A p \in Putters : pc[p] = "error" =>
    \E q \in PutsOf(call[p].out) : pc[q] \notin {"idle", "mkdir", "error"}

-----------------------------------------------------------------------------
\* Where a put of the output under the name is with its file.
Stage(p) ==
  IF pc[p] = "mkdir" THEN "idle"
  ELSE IF pc[p] \in {"index", "write", "truncate", "remove", "ok"} THEN "stored"
  ELSE pc[p]

Out(o, n) == INSTANCE OutputFile WITH
  Puts  <- Putters,
  Empty <- FALSE,
  file  <- files[o][n],
  pc    <- [p \in Putters |->
              IF call[p].out = o /\ call[p].name = n THEN Stage(p) ELSE "idle"],
  fd    <- [p \in Putters |-> IF p \in Copying(o, n) THEN fd[p] ELSE None]

\* Every file of an output, with all that puts of other forms of it, entries
\* and trims do beside it, goes through what OutputFile says of copyFile.
OutputsAreKept == \A o \in Outputs, n \in Names \cup {Plain} : Out(o, n)!Spec

=============================================================================
