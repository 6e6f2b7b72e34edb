----------------------------- MODULE LockedFile -----------------------------
(***************************************************************************)
(* Read, Write, Transform and Mutex of internal/go/lockedfile, on one file *)
(* that nobody removes (trim.txt), one byte of input or output per step.   *)
(*                                                                         *)
(* The lock is flock (filelock_unix.go): it belongs to the open file, so   *)
(* the threads of one process exclude each other, and it goes when the     *)
(* file is unlocked or its process dies.                                   *)
(***************************************************************************)
EXTENDS FileContents

VARIABLES
  file,  \* the contents, or None while the file does not exist
  mode,  \* [thread -> the lock on its open file]
  th,    \* [thread -> where it is, and its local variables]
  mu,    \* [process -> the threads that hold Mutex.mu]
  base,  \* history: the contents when a thread got the exclusive lock
  io     \* whether the device may fail other than for want of space

vars == <<file, mode, th, mu, base, io>>

Idle == [pc |-> "idle", call |-> None, buf |-> <<>>, off |-> 0, res |-> "ok"]

PCs ==
  {"idle", "open", "lock", "truncate", "copy", "read", "apply", "tail", "head",
   "shrink", "rollback", "mu", "held", "close", "returned"}

Locals ==
  [pc : PCs, call : Calls \cup {None}, buf : Contents, off : 0..MaxLen,
   res : {"ok", "failed", "torn"}]

TypeOK ==
  /\ file \in Contents \cup {None}
  /\ mode \in [Threads -> {"none", "read", "write"}]
  /\ th \in [Threads -> Locals]
  /\ mu \in [Processes -> SUBSET Threads]
  /\ base \in Contents \cup {None}
  /\ io \in BOOLEAN

Init ==
  /\ file \in Contents \cup {None}
  /\ mode = [p \in Threads |-> "none"]
  /\ th = [p \in Threads |-> Idle]
  /\ mu = [P \in Processes |-> {}]
  /\ base = None
  /\ io \in BOOLEAN

-----------------------------------------------------------------------------
At(p, l) == th[p].pc = l

Op(p) == th[p].call.op

\* What the call is going to leave in the file.
New(p) ==
  IF Op(p) = "write" THEN th[p].call.data ELSE th[p].call.by[th[p].buf]

Goto(p, l) == th' = [th EXCEPT ![p].pc = l]

\* The call succeeded, or failed, or failed and could not restore the file
\* either; the last two are the same error to the caller.
End(p, l, res) == th' = [th EXCEPT ![p].pc = l, ![p].res = res]

\* A write may fail when it makes the file longer, or when anything may.
MayFail(p) == io \/ th[p].off >= Len(file)

\* A mutation of Overwrite: as if the file were opened with O_APPEND.
OverwriteAppends(s, i, b) == Append(s, b)

Overwrite(s, i, b) == IF i <= Len(s) THEN [s EXCEPT ![i] = b] ELSE Append(s, b)

\* One byte of a write of s, at the offset.
WriteByte(p, s) ==
  /\ file' = Overwrite(file, th[p].off + 1, s[th[p].off + 1])
  /\ th' = [th EXCEPT ![p].off = @ + 1]

-----------------------------------------------------------------------------
Begin(p) ==
  /\ At(p, "idle")
  /\ \E c \in CallsOf[p] : th' = [th EXCEPT ![p].pc = "open", ![p].call = c]
  /\ UNCHANGED <<file, mode, mu, base, io>>

\* A mutation of OpenFile: O_TRUNC is left in the flags.
OpenFileTruncates(p) ==
  /\ At(p, "open")
  /\ file # None \/ Op(p) # "read"
  /\ file' = IF file = None \/ Op(p) = "write" THEN <<>> ELSE file
  /\ Goto(p, "lock")
  /\ UNCHANGED <<mode, mu, base, io>>

\* os.OpenFile, without O_TRUNC: all but Read create the file.
OpenFile(p) ==
  /\ At(p, "open")
  /\ file # None \/ Op(p) # "read"
  /\ file' = IF file = None THEN <<>> ELSE file
  /\ Goto(p, "lock")
  /\ UNCHANGED <<mode, mu, base, io>>

OpenFails(p) ==
  /\ At(p, "open")
  /\ io \/ (file = None /\ Op(p) = "read")
  /\ End(p, "returned", "failed")
  /\ UNCHANGED <<file, mode, mu, base, io>>

Others(p) == Threads \ {p}

\* A mutation of Exclusive: Edit asks for a shared lock.
ExclusiveWrites(op) == op = "write"

\* Whether the flags ask for a write lock.
Exclusive(op) == op # "read"

FirstStep(op) ==
  CASE op = "write" -> "truncate" [] op = "mutex" -> "mu" [] OTHER -> "read"

\* filelock.Lock or RLock: flock blocks, and is tried again on EINTR.
Lock(p) ==
  /\ At(p, "lock")
  /\ \/ /\ Exclusive(Op(p))
        /\ \A q \in Others(p) : mode[q] = "none"
        /\ mode' = [mode EXCEPT ![p] = "write"]
        /\ base' = file
     \/ /\ ~Exclusive(Op(p))
        /\ \A q \in Others(p) : mode[q] # "write"
        /\ mode' = [mode EXCEPT ![p] = "read"]
        /\ UNCHANGED base
  /\ Goto(p, FirstStep(Op(p)))
  /\ UNCHANGED <<file, mu, io>>

LockFails(p) ==
  /\ At(p, "lock")
  /\ io
  /\ End(p, "returned", "failed")
  /\ UNCHANGED <<file, mode, mu, base, io>>

\* f.Truncate(0) under the lock.
Truncate(p) ==
  /\ At(p, "truncate")
  /\ \/ file' = <<>> /\ Goto(p, "copy")
     \/ io /\ End(p, "close", "failed") /\ UNCHANGED file
  /\ UNCHANGED <<mode, mu, base, io>>

\* io.Copy of Write.
Copy(p) ==
  /\ At(p, "copy")
  /\ \/ th[p].off < Len(New(p)) /\ WriteByte(p, New(p))
     \/ th[p].off < Len(New(p)) /\ MayFail(p)
          /\ End(p, "close", "failed") /\ UNCHANGED file
     \/ th[p].off = Len(New(p)) /\ End(p, "close", "ok") /\ UNCHANGED file
  /\ UNCHANGED <<mode, mu, base, io>>

\* io.ReadAll of Read and of Transform.
ReadAll(p) ==
  /\ At(p, "read")
  /\ LET n == Len(th[p].buf) IN
       \/ n < Len(file) /\ th' = [th EXCEPT ![p].buf = Append(@, file[n + 1])]
       \/ n >= Len(file) /\ Op(p) = "read" /\ End(p, "close", "ok")
       \/ n >= Len(file) /\ Op(p) = "transform" /\ Goto(p, "apply")
       \/ io /\ End(p, "close", "failed")
  /\ UNCHANGED <<file, mode, mu, base, io>>

-----------------------------------------------------------------------------
\* A mutation of Apply: an error of t leaves the file locked.
ApplyWithoutClose(p) ==
  /\ At(p, "apply")
  /\ End(p, "returned", "failed")
  /\ UNCHANGED <<file, mode, mu, base, io>>

\* A mutation of Apply: a longer file is written from its beginning.
ApplyInOrder(p) ==
  /\ At(p, "apply")
  /\ IF Len(New(p)) > Len(th[p].buf) THEN Goto(p, "tail") ELSE Goto(p, "head")
  /\ UNCHANGED <<file, mode, mu, base, io>>

\* t(old): an error of it, or what to write; if that is longer, its tail first.
Apply(p) ==
  /\ At(p, "apply")
  /\ \/ End(p, "close", "failed")
     \/ /\ Len(New(p)) > Len(th[p].buf)
        /\ th' = [th EXCEPT ![p].pc = "tail", ![p].off = Len(th[p].buf)]
     \/ /\ Len(New(p)) <= Len(th[p].buf)
        /\ Goto(p, "head")
  /\ UNCHANGED <<file, mode, mu, base, io>>

\* f.WriteAt(new[len(old):], len(old)).
WriteTail(p) ==
  /\ At(p, "tail")
  /\ \/ th[p].off < Len(New(p)) /\ WriteByte(p, New(p))
     \/ /\ th[p].off = Len(New(p))
        /\ th' = [th EXCEPT ![p].pc = "head", ![p].off = 0]
        /\ UNCHANGED file
  /\ UNCHANGED <<mode, mu, base, io>>

\* A best effort to remove an incomplete tail.
TailFails(p) ==
  /\ At(p, "tail")
  /\ th[p].off < Len(New(p)) /\ MayFail(p)
  /\ \/ file' = Cut(file, Len(th[p].buf)) /\ End(p, "close", "failed")
     \/ io /\ UNCHANGED file /\ End(p, "close", "torn")
  /\ UNCHANGED <<mode, mu, base, io>>

\* The bytes of new that overwrite bytes of old.
HeadLen(p) ==
  IF Len(New(p)) < Len(th[p].buf) THEN Len(New(p)) ELSE Len(th[p].buf)

WriteHead(p) ==
  /\ At(p, "head")
  /\ \/ th[p].off < HeadLen(p) /\ WriteByte(p, New(p))
     \/ /\ th[p].off = HeadLen(p)
        /\ IF Len(New(p)) < Len(th[p].buf)
             THEN Goto(p, "shrink") ELSE End(p, "close", "ok")
        /\ UNCHANGED file
  /\ UNCHANGED <<mode, mu, base, io>>

HeadFails(p) ==
  /\ At(p, "head")
  /\ th[p].off < HeadLen(p) /\ MayFail(p)
  /\ th' = [th EXCEPT ![p].pc = "rollback", ![p].off = 0]
  /\ UNCHANGED <<file, mode, mu, base, io>>

\* f.Truncate(len(new)).
Shrink(p) ==
  /\ At(p, "shrink")
  /\ \/ file' = Cut(file, Len(New(p))) /\ End(p, "close", "ok")
     \/ /\ io /\ UNCHANGED file
        /\ th' = [th EXCEPT ![p].pc = "rollback", ![p].off = 0]
  /\ UNCHANGED <<mode, mu, base, io>>

\* A mutation of Rollback: what a longer file gained is left.
RollbackBytes(p) ==
  /\ At(p, "rollback")
  /\ \/ th[p].off < Len(th[p].buf) /\ WriteByte(p, th[p].buf)
     \/ th[p].off = Len(th[p].buf) /\ End(p, "close", "failed") /\ UNCHANGED file
  /\ UNCHANGED <<mode, mu, base, io>>

\* The deferred f.WriteAt(old, 0), and f.Truncate(len(old)) after it.
Rollback(p) ==
  /\ At(p, "rollback")
  /\ \/ th[p].off < Len(th[p].buf) /\ WriteByte(p, th[p].buf)
     \/ /\ th[p].off = Len(th[p].buf)
        /\ file' = Cut(file, Len(th[p].buf))
        /\ End(p, "close", "failed")
  /\ UNCHANGED <<mode, mu, base, io>>

RollbackFails(p) ==
  /\ At(p, "rollback")
  /\ io
  /\ End(p, "close", "torn")
  /\ UNCHANGED <<file, mode, mu, base, io>>

-----------------------------------------------------------------------------
\* Mutex.Lock: mu.mu.Lock() with the file locked.
MuLock(p) ==
  /\ At(p, "mu")
  /\ mu[Home[p]] = {}
  /\ mu' = [mu EXCEPT ![Home[p]] = {p}]
  /\ Goto(p, "held")
  /\ UNCHANGED <<file, mode, base, io>>

\* A mutation of MuUnlock: the two locks are released the other way round.
MuUnlockLast(p) ==
  /\ At(p, "held")
  /\ IF mode[p] = "write"
       THEN /\ mode' = [mode EXCEPT ![p] = "none"]
            /\ base' = None
            /\ UNCHANGED <<th, mu>>
       ELSE /\ mu' = [mu EXCEPT ![Home[p]] = {}]
            /\ End(p, "returned", "ok")
            /\ UNCHANGED <<mode, base>>
  /\ UNCHANGED <<file, io>>

\* The caller calls unlock, which releases mu.mu and then closes the file.
MuUnlock(p) ==
  /\ At(p, "held")
  /\ mu' = [mu EXCEPT ![Home[p]] = {}]
  /\ End(p, "close", "ok")
  /\ UNCHANGED <<file, mode, base, io>>

\* File.Close: the lock is released whether or not an error is returned, and
\* only Write returns it.
Close(p) ==
  /\ At(p, "close")
  /\ mode' = [mode EXCEPT ![p] = "none"]
  /\ base' = IF mode[p] = "write" THEN None ELSE base
  /\ \E res \in {th[p].res} \cup IF io /\ Op(p) = "write" THEN {"failed"} ELSE {} :
       th' = [th EXCEPT ![p] =
         [pc |-> "returned", call |-> th[p].call,
          buf |-> IF res = "ok" /\ Op(p) = "read" THEN th[p].buf ELSE <<>>,
          off |-> 0, res |-> res]]
  /\ UNCHANGED <<file, mu, io>>

Return(p) ==
  /\ At(p, "returned")
  /\ th' = [th EXCEPT ![p] = Idle]
  /\ UNCHANGED <<file, mode, mu, base, io>>

\* A process dies with all its threads; the system closes its files.
Crash(P) ==
  /\ th' = [p \in Threads |-> IF Home[p] = P THEN Idle ELSE th[p]]
  /\ mode' = [p \in Threads |-> IF Home[p] = P THEN "none" ELSE mode[p]]
  /\ mu' = [mu EXCEPT ![P] = {}]
  /\ base' = IF \E p \in Threads : Home[p] = P /\ mode[p] = "write"
               THEN None ELSE base
  /\ UNCHANGED <<file, io>>

Edit(p) ==
  \/ Apply(p) \/ WriteTail(p) \/ TailFails(p) \/ WriteHead(p) \/ HeadFails(p)
  \/ Shrink(p) \/ Rollback(p) \/ RollbackFails(p)

\* A step of a call that has begun.
Proceed(p) ==
  \/ OpenFile(p) \/ OpenFails(p) \/ Lock(p) \/ LockFails(p)
  \/ Truncate(p) \/ Copy(p) \/ ReadAll(p) \/ Edit(p)
  \/ MuLock(p) \/ MuUnlock(p) \/ Close(p)

Next ==
  \/ \E p \in Threads : Begin(p) \/ Proceed(p) \/ Return(p)
  \/ \E P \in Processes : Crash(P)

Spec == Init /\ [][Next]_vars /\ \A p \in Threads : WF_vars(Proceed(p))

-----------------------------------------------------------------------------
\* While a thread has the file locked, no step of another changes it: this is
\* why openFile takes O_TRUNC out of the flags and truncates under the lock
\* (lockedfile_filelock.go:22, 38-48), and a Close comes after the last write.
LockedIsStable ==
  [][\A p \in Threads :
       mode[p] # "none" /\ th'[p] = th[p] => file' = file]_vars

\* Transform overwrites nothing of the old contents before the file has room
\* for all of the new ("we would rather detect that failure before we have
\* overwritten the original contents", lockedfile.go:156-158), and that stays
\* so when it gives up.
RoomBeforeOverwrite ==
  \A p \in Threads :
    /\ mode[p] = "write" /\ Op(p) = "transform" /\ ~At(p, "read")
    => IsStart(th[p].buf, file) \/ Len(file) >= Len(New(p))

\* A Transform that returns an error leaves the file as it was
\* (lockedfile.go:134-135, 166-174), unless the device fails in restoring it
\* too, which it does not when it only lacks space.
ErrorRestores ==
  \A p \in Threads :
    mode[p] = "write" /\ Op(p) = "transform" /\ At(p, "close") =>
      /\ th[p].res = "failed" => file = base
      /\ th[p].res = "torn" => io

\* Nobody who has locked the file waits for Mutex.mu ("a redundant mutex",
\* mutex.go:26), so two locks that are taken one after the other cannot make
\* threads wait for each other.
MuIsRedundant ==
  \A p \in Threads : At(p, "mu") => mu[Home[p]] = {}

\* Who has locked the file unlocks it, whatever fails (lockedfile.go:50-53).
\* That who asks for the lock gets it is not claimed: flock is not fair.
LocksAreReleased ==
  \A p \in Threads : mode[p] # "none" ~> mode[p] = "none"

-----------------------------------------------------------------------------
\* Calls take effect atomically, when they unlock the file: until then what
\* counts is what the file held when the exclusive lock was taken.
Atomic == INSTANCE AtomicFile WITH
  value <- IF \E p \in Threads : mode[p] = "write" THEN base ELSE file,
  call  <- [p \in Threads |-> th[p].call],
  reply <- [p \in Threads |->
              IF th[p].pc # "returned" THEN None
              ELSE [ok |-> th[p].res = "ok",
                    data |-> IF th[p].res = "ok" /\ th[p].call.op = "read"
                               THEN th[p].buf ELSE None]]

\* LockedFile implements AtomicFile: readers see whole contents, no update is
\* lost between the reading and the writing of a Transform, and a call that
\* failed or was killed has left no more than Broken allows.
IsAtomic == Atomic!Spec

=============================================================================
