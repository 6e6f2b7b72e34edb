------------------------------ MODULE CacheDir ------------------------------
(***************************************************************************)
(* The directory tree of the Go build cache, and what go commands do to it *)
(* while trims run: internal/go/cache/cache.go.                            *)
(*                                                                         *)
(* An entry is one name xxxx-a (an index entry) or xxxx-d (an output; an   *)
(* executable's output is a directory with the binary inside).  Of a file  *)
(* the trims look only at its time of modification and its size, so that   *)
(* is what is kept; of a directory, also how many files it holds.  What a  *)
(* file contains is the subject of CopyFile.tla.                           *)
(*                                                                         *)
(* Any number of go commands run, and any of them may have begun before    *)
(* the behaviour does.  A put is here a step for each of its system calls  *)
(* that a trim can see; which put makes it is not kept.  So at any time    *)
(* some put may create, lengthen, cut or remove a file, and may be killed  *)
(* (which is to make no further step) or left behind by a trim that        *)
(* removes the file under it.                                              *)
(***************************************************************************)
EXTENDS Integers

CONSTANTS
  IndexEntries,   \* the names xxxx-a
  PlainOutputs,   \* the names xxxx-d stored as files
  Executables,    \* the names xxxx-d stored as directories
  SizeOf,         \* [entry -> size of the complete file]
  MtimeInterval,  \* mtimeInterval, 1 hour in the code
  TrimInterval,   \* trimInterval, 24 hours in the code
  Start,          \* the clock when the behaviour begins
  MaxTime,        \* bound: the clock stops here
  MaxCalls,       \* bound: system calls of go commands in a behaviour
  InitialDirs,    \* bound: what the directory may hold at the beginning
  Stamps,         \* bound: what trim.txt may hold at first, or once damaged
  None            \* no such file, nil, or no readable trim.txt

Entries == IndexEntries \cup PlainOutputs \cup Executables

ASSUME EntriesAssumption ==
  /\ IndexEntries \cap PlainOutputs = {}
  /\ IndexEntries \cap Executables = {}
  /\ PlainOutputs \cap Executables = {}
  /\ SizeOf \in [Entries -> Nat]

ASSUME TimeAssumption ==
  /\ MtimeInterval \in Nat \ {0} /\ TrimInterval \in Nat \ {0}
  /\ Start \in Nat /\ MaxTime \in Nat /\ MaxCalls \in Nat
  /\ Stamps \subseteq Nat \cup {None}

(***************************************************************************)
(* parts is the number of files inside an executable's directory, counted  *)
(* up to 2: OutputFile and read accept exactly one.  A plain file has one  *)
(* part, itself.  size is that of the file, or of the only one inside, and *)
(* 0 if there is no such one.                                              *)
(***************************************************************************)
File == [mtime : Nat, size : Nat, parts : 0..2]

ASSUME NoneAssumption == None \notin Int /\ None \notin File

ASSUME InitialAssumption ==
  \A d \in InitialDirs :
    /\ d \in [Entries -> File \cup {None}]
    /\ \A e \in Entries : d[e] # None => d[e].mtime <= Start

VARIABLES
  now,      \* the clock: never goes back
  dir,      \* the cache directory, [Entries -> File or None]
  trimTxt,  \* the time in trim.txt, or None: missing or unparsable
  lastGet,  \* history: when a go command last marked the entry used
  lastPut,  \* history: when a go command last put it with success
  calls     \* bound: how many system calls of go commands there have been

history == <<lastGet, lastPut, calls>>
dirVars == <<now, dir, trimTxt, history>>

Parts(e) == IF dir[e] = None THEN 0 ELSE dir[e].parts

\* markUsed: refresh the modification time if it is an hour old.
\* Get does this to an index entry, OutputFile to an output.  The clock is
\* taken not to advance between the call of c.now and that of os.Chtimes.
MarkUsed(e) ==
  /\ dir[e] # None
  /\ dir' = IF now - dir[e].mtime >= MtimeInterval
              THEN [dir EXCEPT ![e].mtime = now]
              ELSE dir
  /\ lastGet' = [lastGet EXCEPT ![e] = now]
  /\ UNCHANGED <<now, trimTxt, lastPut>>

-----------------------------------------------------------------------------
\* System calls of putIndexEntry and copyFile.  Creating and removing a file
\* in an executable's directory sets the time of the directory, writing one
\* does not.

\* os.OpenFile with O_CREATE, of a file that is missing.
Create(e) ==
  /\ dir[e] = None
  /\ dir' = [dir EXCEPT ![e] = [mtime |-> now, size |-> 0, parts |-> 1]]

\* The file has the size n from now on.
Resize(e, n) ==
  /\ Parts(e) = 1
  /\ dir' = [dir EXCEPT ![e] =
               [mtime |-> IF e \in Executables THEN @.mtime ELSE now,
                size  |-> n,
                parts |-> 1]]

\* Writes start at the beginning of the file, and can only make it longer.
Write(e) ==
  /\ Parts(e) = 1
  /\ \E n \in {dir[e].size} \cup (dir[e].size .. SizeOf[e]) : Resize(e, n)

\* O_TRUNC of a file that is too long, or f.Truncate(0) after a failure.
Cut(e) == Resize(e, 0)

\* os.Remove of a file after a failure, whoever has written it.
RemoveFile(e) == dir[e] # None /\ dir' = [dir EXCEPT ![e] = None]

\* An executable's directory with n files at this time.  If one is left of
\* several, it may have any size.
Directories(e, n) ==
  {[mtime |-> now, size |-> s, parts |-> n] :
     s \in IF n = 1 THEN 0..SizeOf[e] ELSE {0}}

\* os.Remove of a file in an executable's directory: the first one, a name
\* that was there before, or one more name.
RemoveInner(e) ==
  /\ Parts(e) > 0
  /\ \E n \in IF Parts(e) = 1 THEN {0} ELSE {1, 2} :
       \E d \in Directories(e, n) : dir' = [dir EXCEPT ![e] = d]

\* The end of a put that succeeds: the last byte or, of an index entry, the
\* Truncate, then Close and Chtimes.  A file that has lost its name meanwhile
\* does not get longer, and one that another put has made stays as it is.
Stored(e) ==
  /\ IF Parts(e) = 1
       THEN \E n \in {dir[e].size, SizeOf[e]} : Resize(e, n)
       ELSE UNCHANGED dir
  /\ lastPut' = [lastPut EXCEPT ![e] = now]

\* putIndexEntry; if it fails, it removes the file.
PutIndexEntry(e) ==
  /\ e \in IndexEntries
  /\ \/ (Create(e) \/ Write(e) \/ RemoveFile(e)) /\ UNCHANGED lastPut
     \/ Stored(e)
  /\ UNCHANGED <<now, trimTxt, lastGet>>

\* copyFile of a plain output.  An identical file is left alone, its
\* modification time too.
PutOutput(e) ==
  /\ e \in PlainOutputs
  /\ \/ /\ dir[e] # None /\ dir[e].size = SizeOf[e]
        /\ lastPut' = [lastPut EXCEPT ![e] = now]
        /\ UNCHANGED dir
     \/ /\ Create(e) \/ Write(e) \/ Cut(e) \/ RemoveFile(e)
        /\ UNCHANGED lastPut
     \/ Stored(e)
  /\ UNCHANGED <<now, trimTxt, lastGet>>

\* copyFile of an executable.  One that is found in its directory is left
\* alone if it is identical, or whatever it holds if it is being executed.
PutExecutable(e) ==
  /\ e \in Executables
  /\ \/ /\ Parts(e) > 0
        /\ lastPut' = [lastPut EXCEPT ![e] = now]
        /\ UNCHANGED dir
     \/ /\ \/ /\ dir[e] = None                         \* os.Mkdir
              /\ \E d \in Directories(e, 0) : dir' = [dir EXCEPT ![e] = d]
           \/ /\ dir[e] # None                         \* O_CREATE
              /\ dir' = [dir EXCEPT ![e] =
                           [mtime |-> now, size |-> 0,
                            parts |-> IF Parts(e) = 0 THEN 1 ELSE 2]]
           \/ Write(e) \/ Cut(e) \/ RemoveInner(e)
        /\ UNCHANGED lastPut
     \/ Stored(e)
  /\ UNCHANGED <<now, trimTxt, lastGet>>

Tick ==
  /\ now < MaxTime
  /\ now' = now + 1
  /\ UNCHANGED <<dir, trimTxt, history>>

\* Everything that happens to the directory other than trims.
GoCommand ==
  /\ calls < MaxCalls
  /\ calls' = calls + 1
  /\ \E e \in Entries :
       MarkUsed(e) \/ PutIndexEntry(e) \/ PutOutput(e) \/ PutExecutable(e)

\* os.RemoveAll(e) without an error; a name already gone is no error.
RemoveAll(e) ==
  /\ dir' = [dir EXCEPT ![e] = None]
  /\ UNCHANGED <<now, trimTxt, history>>

\* os.RemoveAll(e) with an error: a directory may be left with fewer files,
\* and removing them has set its modification time.
RemoveAllFails(e) ==
  /\ dir[e] # None
  /\ \/ UNCHANGED dir
     \/ /\ e \in Executables
        /\ \E n \in 0..Parts(e) :
             /\ n < Parts(e) \/ n = 2
             /\ \E d \in Directories(e, n) : dir' = [dir EXCEPT ![e] = d]
  /\ UNCHANGED <<now, trimTxt, history>>

(***************************************************************************)
(* A cache go commands have used, with a trim.txt left by an earlier trim, *)
(* or by a clock that was ahead.                                           *)
(***************************************************************************)
DirInit ==
  /\ now = Start
  /\ dir \in InitialDirs
  /\ trimTxt \in Stamps
  /\ lastGet = [e \in Entries |-> IF dir[e] = None THEN 0 ELSE dir[e].mtime]
  /\ lastPut = lastGet
  /\ calls = 0

DirTypeOK ==
  /\ now \in Nat
  /\ dir \in [Entries -> File \cup {None}]
  /\ trimTxt \in Nat \cup {None}
  /\ lastGet \in [Entries -> Nat]
  /\ lastPut \in [Entries -> Nat]
  /\ calls \in Nat

=============================================================================
