---------------------------- MODULE FileContents ----------------------------
(***************************************************************************)
(* What a locked file may hold, and the calls of package lockedfile that   *)
(* threads of several processes make on it (internal/go/lockedfile).       *)
(***************************************************************************)
EXTENDS Naturals, Sequences

CONSTANTS
  Threads,
  Processes,
  Home,       \* [thread -> its process]
  Bytes,
  MaxLen,     \* bound: the longest contents
  Data,       \* contents that Write is called with
  Transforms, \* functions that Transform is called with
  CallsOf,    \* [thread -> the calls it may make]
  None

Contents == UNION {[1..n -> Bytes] : n \in 0..MaxLen}

Calls ==
  [op : {"read", "mutex"}]
    \cup [op : {"write"}, data : Data]
    \cup [op : {"transform"}, by : Transforms]

Replies == [ok : BOOLEAN, data : Contents \cup {None}]

ASSUME ContentsAssumption ==
  /\ MaxLen \in Nat
  /\ Home \in [Threads -> Processes]
  /\ Data \subseteq Contents
  /\ Transforms \subseteq [Contents -> Contents]
  /\ CallsOf \in [Threads -> SUBSET Calls]
  /\ None \notin Contents \cup Calls \cup Replies

Cut(s, n) == SubSeq(s, 1, n)

IsStart(s, t) == Len(s) <= Len(t) /\ s = Cut(t, Len(s))

\* Contents whose bytes come from either of two, and which are no shorter
\* than both.
Mixtures(old, new) ==
  { m \in Contents :
      /\ Len(m) >= Len(old) \/ Len(m) >= Len(new)
      /\ \A i \in DOMAIN m :
           \/ i \in DOMAIN old /\ m[i] = old[i]
           \/ i \in DOMAIN new /\ m[i] = new[i] }

=============================================================================
