--------------------------- MODULE TrimSizeProofs ---------------------------
(***************************************************************************)
(* Proofs about the size limit of TrimForce, for any number of trims, any  *)
(* finite set of entries, and any sizes and limits: what a trim counts is  *)
(* what it has listed, and what it leaves fits.                            *)
(***************************************************************************)
EXTENDS TrimForceProofs, FiniteSetTheorems

-----------------------------------------------------------------------------
(***************************************************************************)
(* Sums of sizes.  TotalSize is a recursive function on the subsets of a   *)
(* set.  Facts about it follow from the smallest set for which they fail.  *)
(***************************************************************************)
Body(f, g, s) ==
  IF s = {} THEN 0
  ELSE f[CHOOSE x \in s : TRUE] + g[s \ {CHOOSE x \in s : TRUE}]

Sums(f, S) == CHOOSE g : g = [s \in SUBSET S |-> Body(f, g, s)]

LEMMA TotalDefinition ==
  ASSUME NEW f, NEW S
  PROVE  TotalSize(f, S) = Sums(f, S)[S]
BY DEF TotalSize, Sums, Body, MapThenSumSet, MapThenFoldSet

LEMMA SmallestSet ==
  ASSUME NEW E, IsFiniteSet(E), NEW B \in SUBSET (SUBSET E), B # {}
  PROVE  \E s \in B : \A r \in B : ~(Cardinality(r) < Cardinality(s))
<1> DEFINE N == {Cardinality(s) : s \in B}
<1>1. N \in SUBSET Nat /\ N # {}
  BY FS_Subset, FS_CardinalityType
<1>2. PICK m \in N : \A n \in N : m <= n
  BY <1>1, LeastExists
<1>3. PICK s \in B : Cardinality(s) = m
  BY <1>2
<1>4. ASSUME NEW r \in B PROVE ~(Cardinality(r) < Cardinality(s))
  <2>1. Cardinality(r) \in N
    OBVIOUS
  <2> HIDE DEF N
  <2>2. m \in Nat /\ Cardinality(r) \in Nat /\ m <= Cardinality(r)
    BY <1>1, <1>2, <2>1
  <2> QED
    BY <1>3, <2>2
<1> QED
  BY <1>4

\* A set without one of its elements is smaller.
LEMMA Smaller ==
  ASSUME NEW s, IsFiniteSet(s), NEW x \in s
  PROVE  /\ IsFiniteSet(s \ {x}) /\ Cardinality(s) \in Nat
         /\ Cardinality(s \ {x}) \in Nat
         /\ Cardinality(s \ {x}) < Cardinality(s)
         /\ Cardinality(s \ {x}) = Cardinality(s) - 1
<1>1. IsFiniteSet(s \ {x}) /\ Cardinality(s \ {x}) = Cardinality(s) - 1
  BY FS_RemoveElement
<1>2. Cardinality(s) \in Nat /\ Cardinality(s \ {x}) \in Nat
  BY <1>1, FS_CardinalityType
<1> QED
  BY <1>1, <1>2

Sizes(f, S) == \A e \in S : f[e] \in Nat

LEMMA BodyType ==
  ASSUME NEW f, NEW S, Sizes(f, S), NEW g \in [SUBSET S -> Nat],
         NEW s \in SUBSET S
  PROVE  Body(f, g, s) \in Nat
<1>1. CASE s = {}
  BY <1>1 DEF Body
<1>2. CASE s # {}
  <2> DEFINE x == CHOOSE x \in s : TRUE
  <2>1. x \in s
    BY <1>2
  <2> HIDE DEF x
  <2>2. f[x] \in Nat /\ g[s \ {x}] \in Nat
    BY <2>1 DEF Sizes
  <2>3. Body(f, g, s) = f[x] + g[s \ {x}]
    BY <1>2 DEF Body, x
  <2> QED
    BY <2>2, <2>3
<1> QED
  BY <1>1, <1>2

\* The recursion defines a function on the sets of up to n elements, for
\* every n.
SumsUpTo(f, S, n) ==
  \E g \in [SUBSET S -> Nat] :
    \A s \in SUBSET S : Cardinality(s) <= n => g[s] = Body(f, g, s)

LEMMA SumsNext ==
  ASSUME NEW f, NEW S, IsFiniteSet(S), Sizes(f, S), NEW n \in Nat,
         SumsUpTo(f, S, n)
  PROVE  SumsUpTo(f, S, n + 1)
<1> PICK g \in [SUBSET S -> Nat] :
           \A s \in SUBSET S : Cardinality(s) <= n => g[s] = Body(f, g, s)
  BY DEF SumsUpTo
<1> DEFINE h == [s \in SUBSET S |-> Body(f, g, s)]
<1>1. h \in [SUBSET S -> Nat]
  BY BodyType
<1>2. ASSUME NEW s \in SUBSET S, Cardinality(s) <= n + 1
      PROVE  h[s] = Body(f, h, s)
  <2>1. CASE s = {}
    BY <2>1 DEF Body
  <2>2. CASE s # {}
    <3> DEFINE x == CHOOSE x \in s : TRUE
    <3>1. x \in s
      BY <2>2
    <3> HIDE DEF x
    <3>2. s \ {x} \in SUBSET S /\ Cardinality(s \ {x}) <= n
      <4>1. IsFiniteSet(s)
        BY FS_Subset
      <4> QED
        BY <1>2, <3>1, <4>1, Smaller
    <3>3. h[s \ {x}] = g[s \ {x}]
      BY <3>2
    <3>4. h[s] = f[x] + g[s \ {x}]
      BY <2>2 DEF Body, x
    <3>5. Body(f, h, s) = f[x] + h[s \ {x}]
      BY <2>2 DEF Body, x
    <3> QED
      BY <3>3, <3>4, <3>5
  <2> QED
    BY <2>1, <2>2
<1> QED
  BY <1>1, <1>2 DEF SumsUpTo

LEMMA SumsExist ==
  ASSUME NEW f, NEW S, IsFiniteSet(S), Sizes(f, S)
  PROVE  /\ Sums(f, S) \in [SUBSET S -> Nat]
         /\ \A s \in SUBSET S : Sums(f, S)[s] = Body(f, Sums(f, S), s)
<1> DEFINE bad == {n \in Nat : ~SumsUpTo(f, S, n)}
<1>1. bad = {}
  <2> SUFFICES ASSUME bad # {} PROVE FALSE
    OBVIOUS
  <2>1. PICK m \in bad : \A n \in bad : m <= n
    BY LeastExists
  <2>2. CASE m = 0
    <3> DEFINE g == [s \in SUBSET S |-> 0]
    <3>1. ASSUME NEW s \in SUBSET S, Cardinality(s) <= 0
          PROVE  g[s] = Body(f, g, s)
      <4>1. s = {}
        BY <3>1, FS_Subset, FS_EmptySet, FS_CardinalityType
      <4> QED
        BY <4>1 DEF Body
    <3>2. g \in [SUBSET S -> Nat]
      OBVIOUS
    <3> HIDE DEF g
    <3>3. SumsUpTo(f, S, 0)
      BY <3>1, <3>2 DEF SumsUpTo
    <3> QED
      BY <2>2, <3>3
  <2>3. CASE m # 0
    <3>1. m - 1 \in Nat /\ m - 1 \notin bad
      BY <2>1, <2>3
    <3>2. SumsUpTo(f, S, (m - 1) + 1)
      BY <3>1, SumsNext
    <3> QED
      BY <3>1, <3>2
  <2> QED
    BY <2>2, <2>3
<1>2. SumsUpTo(f, S, Cardinality(S))
  BY <1>1, FS_CardinalityType
<1>3. PICK g \in [SUBSET S -> Nat] : \A s \in SUBSET S : g[s] = Body(f, g, s)
  <2>1. \A s \in SUBSET S : Cardinality(s) <= Cardinality(S)
    BY FS_Subset
  <2> QED
    BY <1>2, <2>1 DEF SumsUpTo
<1>4. g = [s \in SUBSET S |-> Body(f, g, s)]
  BY <1>3
<1> DEFINE h == Sums(f, S)
<1>5. h = [s \in SUBSET S |-> Body(f, h, s)]
  BY <1>4 DEF Sums
<1>6. ASSUME NEW s \in SUBSET S PROVE h[s] = Body(f, h, s)
  BY <1>5
<1>7. \A s \in SUBSET S : h[s] = g[s]
  <2> HIDE DEF h
  <2> DEFINE B == {s \in SUBSET S : h[s] # g[s]}
  <2> SUFFICES ASSUME B # {} PROVE FALSE
    OBVIOUS
  <2>1. PICK s \in B : \A r \in B : ~(Cardinality(r) < Cardinality(s))
    <3>1. B \in SUBSET (SUBSET S)
      OBVIOUS
    <3> QED
      BY <3>1, SmallestSet
  <2>2. s # {}
    BY <1>3, <1>6 DEF Body
  <2> DEFINE x == CHOOSE x \in s : TRUE
  <2>3. x \in s
    BY <2>2
  <2> HIDE DEF x
  <2>4. h[s \ {x}] = g[s \ {x}]
    <3>1. Cardinality(s \ {x}) < Cardinality(s) /\ s \ {x} \in SUBSET S
      BY <2>3, FS_Subset, Smaller
    <3> QED
      BY <2>1, <3>1
  <2>5. h[s] = f[x] + h[s \ {x}] /\ g[s] = f[x] + g[s \ {x}]
    BY <1>3, <1>6, <2>2 DEF Body, x
  <2> QED
    BY <2>4, <2>5
<1> HIDE DEF h
<1>8. h = g
  <2>1. h = [s \in SUBSET S |-> h[s]]
    BY <1>5
  <2> QED
    BY <1>7, <2>1
<1> QED
  BY <1>3, <1>8 DEF h

\* The sums over one set and over a larger one agree.
LEMMA SumsAgree ==
  ASSUME NEW f, NEW S, IsFiniteSet(S), Sizes(f, S), NEW T \in SUBSET S
  PROVE  Sums(f, S)[T] = Sums(f, T)[T]
<1> DEFINE g == Sums(f, S)
           h == Sums(f, T)
           B == {s \in SUBSET T : g[s] # h[s]}
<1>1. IsFiniteSet(T) /\ Sizes(f, T)
  BY FS_Subset DEF Sizes
<1>2. /\ \A s \in SUBSET S : g[s] = Body(f, g, s)
      /\ \A s \in SUBSET T : h[s] = Body(f, h, s)
  BY <1>1, SumsExist
<1> HIDE DEF g, h
<1>3. B = {}
  <2> SUFFICES ASSUME B # {} PROVE FALSE
    OBVIOUS
  <2>1. PICK s \in B : \A r \in B : ~(Cardinality(r) < Cardinality(s))
    <3>1. B \in SUBSET (SUBSET T)
      OBVIOUS
    <3> QED
      BY <1>1, <3>1, SmallestSet
  <2>2. s # {}
    BY <1>2 DEF Body
  <2> DEFINE x == CHOOSE x \in s : TRUE
  <2>3. x \in s
    BY <2>2
  <2> HIDE DEF x
  <2>4. g[s \ {x}] = h[s \ {x}]
    <3>1. Cardinality(s \ {x}) < Cardinality(s) /\ s \ {x} \in SUBSET T
      BY <1>1, <2>3, FS_Subset, Smaller
    <3> QED
      BY <2>1, <3>1
  <2>5. g[s] = f[x] + g[s \ {x}] /\ h[s] = f[x] + h[s \ {x}]
    BY <1>2, <2>2 DEF Body, x
  <2> QED
    BY <2>4, <2>5
<1> QED
  BY <1>3 DEF g, h

LEMMA TotalType ==
  ASSUME NEW f, NEW S, IsFiniteSet(S), Sizes(f, S)
  PROVE  TotalSize(f, S) \in Nat
<1>1. S \in SUBSET S
  OBVIOUS
<1>2. Sums(f, S) \in [SUBSET S -> Nat]
  BY SumsExist
<1> HIDE DEF Sizes
<1>3. Sums(f, S)[S] \in Nat
  BY <1>1, <1>2
<1> QED
  BY <1>3, TotalDefinition

LEMMA TotalEmpty ==
  ASSUME NEW f
  PROVE  TotalSize(f, {}) = 0
<1>1. IsFiniteSet({}) /\ Sizes(f, {})
  BY FS_EmptySet DEF Sizes
<1>2. {} \in SUBSET {}
  OBVIOUS
<1>3. Sums(f, {})[{}] = Body(f, Sums(f, {}), {})
  BY <1>1, <1>2, SumsExist
<1> QED
  BY <1>3, TotalDefinition DEF Body

LEMMA TotalChosen ==
  ASSUME NEW f, NEW S, IsFiniteSet(S), Sizes(f, S), S # {}
  PROVE  \E x \in S : TotalSize(f, S) = f[x] + TotalSize(f, S \ {x})
<1> DEFINE x == CHOOSE x \in S : TRUE
<1>1. x \in S
  OBVIOUS
<1>2. Sums(f, S)[S] = f[x] + Sums(f, S)[S \ {x}]
  <2>1. Sums(f, S)[S] = Body(f, Sums(f, S), S)
    BY SumsExist
  <2> QED
    BY <2>1 DEF Body
<1> HIDE DEF x
<1>3. Sums(f, S)[S \ {x}] = Sums(f, S \ {x})[S \ {x}]
  BY SumsAgree
<1> QED
  BY <1>1, <1>2, <1>3, TotalDefinition

\* A sum is that of any of the elements and that of the others.
LEMMA TotalRemove ==
  ASSUME NEW f, NEW S, IsFiniteSet(S), Sizes(f, S), NEW y \in S
  PROVE  TotalSize(f, S) = f[y] + TotalSize(f, S \ {y})
<1> DEFINE B == {s \in SUBSET S : \E z \in s :
                   TotalSize(f, s) # f[z] + TotalSize(f, s \ {z})}
<1>1. B = {}
  <2> SUFFICES ASSUME B # {} PROVE FALSE
    OBVIOUS
  <2>1. PICK s \in B : \A r \in B : ~(Cardinality(r) < Cardinality(s))
    <3>1. B \in SUBSET (SUBSET S)
      OBVIOUS
    <3> QED
      BY <3>1, SmallestSet
  <2>2. PICK z \in s : TotalSize(f, s) # f[z] + TotalSize(f, s \ {z})
    OBVIOUS
  <2>3. s \in SUBSET S /\ IsFiniteSet(s) /\ Sizes(f, s)
    BY FS_Subset DEF Sizes
  <2>4. PICK x \in s : TotalSize(f, s) = f[x] + TotalSize(f, s \ {x})
    BY <2>2, <2>3, TotalChosen
  <2>5. x # z
    BY <2>2, <2>4
  <2>6. s \ {x} \notin B /\ s \ {z} \notin B
    BY <2>1, <2>3, Smaller
  <2>7. /\ TotalSize(f, s \ {x}) = f[z] + TotalSize(f, (s \ {x}) \ {z})
        /\ TotalSize(f, s \ {z}) = f[x] + TotalSize(f, (s \ {z}) \ {x})
    BY <2>3, <2>5, <2>6
  <2>8. (s \ {x}) \ {z} = (s \ {z}) \ {x}
    OBVIOUS
  <2>9. /\ f[x] \in Nat /\ f[z] \in Nat
        /\ TotalSize(f, (s \ {x}) \ {z}) \in Nat
    <3>1. IsFiniteSet((s \ {x}) \ {z}) /\ Sizes(f, (s \ {x}) \ {z})
      BY <2>3, FS_Subset DEF Sizes
    <3> QED
      BY <2>3, <3>1, TotalType DEF Sizes
  <2> HIDE DEF B
  <2> QED
    BY <2>2, <2>4, <2>7, <2>8, <2>9
<1>2. S \notin B
  BY <1>1
<1> QED
  BY <1>2

\* A sum is not larger than another one that has all it has, but for zeros.
LEMMA TotalBounded ==
  ASSUME NEW f, NEW g, NEW E, IsFiniteSet(E), Sizes(f, E), Sizes(g, E),
         NEW S \in SUBSET E, NEW T \in SUBSET E,
         \A e \in S : f[e] = 0 \/ (e \in T /\ f[e] <= g[e])
  PROVE  TotalSize(f, S) <= TotalSize(g, T)
<1> DEFINE Below(s, r) == \A e \in s : f[e] = 0 \/ (e \in r /\ f[e] <= g[e])
           B == {s \in SUBSET E : \E r \in SUBSET E :
                   Below(s, r) /\ ~(TotalSize(f, s) <= TotalSize(g, r))}
<1>a. \A s \in SUBSET E : /\ IsFiniteSet(s) /\ Sizes(f, s) /\ Sizes(g, s)
                          /\ TotalSize(f, s) \in Nat /\ TotalSize(g, s) \in Nat
  <2> SUFFICES ASSUME NEW s \in SUBSET E
               PROVE  /\ IsFiniteSet(s) /\ Sizes(f, s) /\ Sizes(g, s)
                      /\ TotalSize(f, s) \in Nat /\ TotalSize(g, s) \in Nat
    OBVIOUS
  <2>1. IsFiniteSet(s) /\ Sizes(f, s) /\ Sizes(g, s)
    BY FS_Subset DEF Sizes
  <2> QED
    BY <2>1, TotalType
<1>1. B = {}
  <2> SUFFICES ASSUME B # {} PROVE FALSE
    OBVIOUS
  <2>1. PICK s \in B : \A r \in B : ~(Cardinality(r) < Cardinality(s))
    <3>1. B \in SUBSET (SUBSET E)
      OBVIOUS
    <3> HIDE DEF B
    <3> QED
      BY <3>1, SmallestSet
  <2>2. PICK r \in SUBSET E : Below(s, r) /\ ~(TotalSize(f, s) <= TotalSize(g, r))
    OBVIOUS
  <2>3. s \in SUBSET E
    OBVIOUS
  <2>4. s # {}
    BY <1>a, <2>2, TotalEmpty
  <2>5. PICK y \in s : TRUE
    BY <2>4
  <2>6. s \ {y} \notin B
    BY <1>a, <2>1, <2>3, Smaller
  <2>7. /\ s \ {y} \in SUBSET E /\ r \ {y} \in SUBSET E
        /\ f[y] \in Nat /\ g[y] \in Nat
    BY <2>3 DEF Sizes
  <2>8. TotalSize(f, s) = f[y] + TotalSize(f, s \ {y})
    BY <1>a, <2>3, TotalRemove
  <2>9. CASE f[y] = 0
    <3>1. Below(s \ {y}, r)
      BY <2>2
    <3>2. TotalSize(f, s \ {y}) <= TotalSize(g, r)
      BY <2>6, <2>7, <3>1
    <3> HIDE DEF B, Below
    <3> QED
      BY <1>a, <2>2, <2>7, <2>8, <2>9, <3>2
  <2>10. CASE f[y] # 0
    <3>1. y \in r /\ f[y] <= g[y]
      BY <2>2, <2>10
    <3>2. Below(s \ {y}, r \ {y})
      BY <2>2
    <3>3. TotalSize(f, s \ {y}) <= TotalSize(g, r \ {y})
      BY <2>6, <2>7, <3>2
    <3>4. TotalSize(g, r) = g[y] + TotalSize(g, r \ {y})
      BY <1>a, <3>1, TotalRemove
    <3> HIDE DEF B, Below
    <3>5. /\ TotalSize(f, s \ {y}) \in Nat /\ TotalSize(g, r \ {y}) \in Nat
      BY <1>a, <2>7
    <3> QED
      BY <2>2, <2>7, <2>8, <3>1, <3>3, <3>4, <3>5
  <2> QED
    BY <2>9, <2>10
<1>2. S \notin B /\ Below(S, T)
  BY <1>1
<1> QED
  BY <1>2

\* It depends on the sizes of the elements only.
LEMMA TotalSame ==
  ASSUME NEW f, NEW g, NEW S, IsFiniteSet(S), Sizes(f, S),
         \A e \in S : f[e] = g[e]
  PROVE  TotalSize(f, S) = TotalSize(g, S)
<1>1. Sizes(g, S)
  BY DEF Sizes
<1>2. \A e \in S : f[e] <= g[e] /\ g[e] <= f[e]
  BY DEF Sizes
<1>3. S \in SUBSET S
  OBVIOUS
<1>4. TotalSize(f, S) <= TotalSize(g, S)
  BY <1>1, <1>2, <1>3, TotalBounded
<1>5. TotalSize(g, S) <= TotalSize(f, S)
  BY <1>1, <1>2, <1>3, TotalBounded
<1>6. TotalSize(f, S) \in Nat /\ TotalSize(g, S) \in Nat
  BY <1>1, TotalType
<1> QED
  BY <1>4, <1>5, <1>6

\* And is that of a part and that of the rest.
LEMMA TotalSplit ==
  ASSUME NEW f, NEW S, IsFiniteSet(S), Sizes(f, S), NEW T \in SUBSET S
  PROVE  TotalSize(f, S) = TotalSize(f, T) + TotalSize(f, S \ T)
<1> DEFINE B == {s \in SUBSET S :
                   TotalSize(f, S) # TotalSize(f, s) + TotalSize(f, S \ s)}
<1>a. \A s \in SUBSET S : IsFiniteSet(s) /\ Sizes(f, s) /\ TotalSize(f, s) \in Nat
  <2> SUFFICES ASSUME NEW s \in SUBSET S
               PROVE  IsFiniteSet(s) /\ Sizes(f, s) /\ TotalSize(f, s) \in Nat
    OBVIOUS
  <2>1. IsFiniteSet(s) /\ Sizes(f, s)
    BY FS_Subset DEF Sizes
  <2> QED
    BY <2>1, TotalType
<1>1. B = {}
  <2> SUFFICES ASSUME B # {} PROVE FALSE
    OBVIOUS
  <2>1. PICK s \in B : \A r \in B : ~(Cardinality(r) < Cardinality(s))
    <3>1. B \in SUBSET (SUBSET S)
      OBVIOUS
    <3> QED
      BY <3>1, SmallestSet
  <2>2. s \in SUBSET S /\ TotalSize(f, S) # TotalSize(f, s) + TotalSize(f, S \ s)
    OBVIOUS
  <2>3. s # {}
    <3>1. TotalSize(f, S) = 0 + TotalSize(f, S)
      BY <1>a
    <3>2. S \ {} = S
      OBVIOUS
    <3> HIDE DEF B
    <3> QED
      BY <2>2, <3>1, <3>2, TotalEmpty
  <2>4. PICK y \in s : TRUE
    BY <2>3
  <2>5. s \ {y} \notin B /\ s \ {y} \in SUBSET S /\ y \in S
    BY <1>a, <2>1, <2>2, Smaller
  <2>6. TotalSize(f, S) = TotalSize(f, s \ {y}) + TotalSize(f, S \ (s \ {y}))
    BY <2>5
  <2> HIDE DEF B
  <2>7. TotalSize(f, s) = f[y] + TotalSize(f, s \ {y})
    BY <1>a, <2>2, TotalRemove
  <2>8. TotalSize(f, S \ (s \ {y})) = f[y] + TotalSize(f, S \ s)
    <3>1. /\ S \ (s \ {y}) \in SUBSET S /\ y \in S \ (s \ {y})
          /\ (S \ (s \ {y})) \ {y} = S \ s
      BY <2>5
    <3>2. /\ IsFiniteSet(S \ (s \ {y})) /\ Sizes(f, S \ (s \ {y}))
      BY <1>a, <3>1
    <3> QED
      BY <3>1, <3>2, TotalRemove
  <2>9. /\ f[y] \in Nat /\ TotalSize(f, s \ {y}) \in Nat /\ TotalSize(f, S \ s) \in Nat
    BY <1>a, <2>5 DEF Sizes
  <2> QED
    BY <2>2, <2>6, <2>7, <2>8, <2>9
<1>2. T \notin B
  BY <1>1
<1> QED
  BY <1>2

-----------------------------------------------------------------------------
\* What a trim has counted is what it has listed, and what it has removed.
CountInv(t) ==
  /\ before[t] = TotalSize(ListedSize(t), Listed(t))
  /\ freed[t] = TotalSize(ListedSize(t), gone[t])

\* No entry is listed twice: those still to be looked at are not listed, or
\* are directories without a size so far.  None is removed twice either.
OnceInv(t) ==
  /\ pc[t] = "read" =>
       /\ names[t] \cap Listed(t) = {}
       /\ \A e \in names[t] \cup Listed(t) : SubdirOf[e] <= subdir[t]
  /\ \A e \in dirs[t] : snap[t][e].size = 0
  /\ pc[t] \in {"cutoff", "size", "stamp", "done"} => dirs[t] = {}
  /\ todo[t] \cap gone[t] = {}

ExpiredOne(t, e) == cutoff[t] # None /\ Expired(t, e)

\* What the loop over the size removes is not newer than what it has left.
LastInv(t) ==
  /\ pc[t] = "read" => cutoff[t] # None \/ maxSize[t] # None
  /\ pc[t] = "size" => maxSize[t] # None
  /\ pc[t] = "cutoff" => \A e \in gone[t] : Expired(t, e)
  /\ pc[t] = "size" => \A e \in gone[t], f \in todo[t] :
       ExpiredOne(t, e) \/ snap[t][e].mtime <= snap[t][f].mtime

OverInv(t) ==
  \A e \in gone[t] : ~ExpiredOne(t, e) =>
    /\ maxSize[t] # None
    /\ TotalSize(ListedSize(t), (Listed(t) \ gone[t]) \cup
                   {f \in gone[t] : snap[t][f].mtime >= snap[t][e].mtime})
         > maxSize[t]

Began(t) == pc[t] \in {"read", "cutoff", "size", "stamp", "done"} /\ maxSize[t] # None

\* The trim has the entry with its size in the list, or is still to list it.
Counted(t, e) ==
  \/ /\ e \in Listed(t) \ (gone[t] \cup dirs[t])
     /\ dir[e].size = snap[t][e].size
  \/ /\ pc[t] = "read"
     /\ SubdirOf[e] > subdir[t] \/ e \in names[t] \/ e \in dirs[t]

\* An entry counts for the limit: it is as it was when the trim began, and
\* the trim has met no error on it.
Counts(t, e) == Usable(e) /\ e \notin missed[t] \cup changed[t]

StoredInv(t) ==
  \A e \in Entries : Began(t) /\ Counts(t, e) => Counted(t, e)

\* The loop over the size ends when the rest fits, or when nothing is left.
FitInv(t) ==
  pc[t] \in {"stamp", "done"} /\ maxSize[t] # None =>
    Fits(t) \/ Listed(t) \subseteq gone[t] \cup missed[t]

SizeInv(t) ==
  /\ CountInv(t) /\ OnceInv(t) /\ LastInv(t) /\ OverInv(t)
  /\ StoredInv(t) /\ FitInv(t)

AllSizeInv == \A t \in Trimmers : SizeInv(t)

-----------------------------------------------------------------------------
LEMMA ListedSizes ==
  ASSUME TypeOK, NEW t \in Trimmers, NEW S \in SUBSET Entries
  PROVE  /\ IsFiniteSet(S) /\ Sizes(ListedSize(t), S)
         /\ TotalSize(ListedSize(t), S) \in Nat
<1>1. IsFiniteSet(S)
  BY TrimAssumption, FS_Subset
<1>2. Sizes(ListedSize(t), S)
  BY DEF Sizes, ListedSize, TypeOK, Listing
<1> QED
  BY <1>1, <1>2, TotalType

\* What the trim t has in memory and SameTrim leaves out.
SameCount(t) ==
  maxSize'[t] = maxSize[t] /\ before'[t] = before[t] /\ freed'[t] = freed[t]

LEMMA OthersSameCount ==
  ASSUME TypeOK, NEW t \in Trimmers,
         \/ Environment \/ UNCHANGED vars
         \/ \E u \in Trimmers : u # t /\ TrimStep(u)
  PROVE  SameCount(t)
<1> USE DEF SameCount, TypeOK
<1>1. CASE Environment
  BY <1>1 DEF Environment, optVars, listVars, loopVars
<1>2. CASE UNCHANGED vars
  BY <1>2 DEF vars, optVars, listVars, loopVars
<1>3. ASSUME NEW u \in Trimmers, u # t, TrimStep(u) PROVE SameCount(t)
  <2> USE <1>3 DEF optVars, listVars, loopVars
  <2>1. CASE LocalTrim(u) \/ TrimExtra(u)
    BY <2>1 DEF LocalTrim, TrimExtra
  <2>2. CASE Begin(u)
    BY <2>2 DEF Begin, Declared
  <2>3. CASE OpenSubdir(u) \/ EndRead(u)
    BY <2>3 DEF OpenSubdir, EndRead
  <2>4. CASE StatName(u)
    BY <2>4 DEF StatName
  <2>5. CASE ReadExecutable(u)
    BY <2>5 DEF ReadExecutable
  <2>6. CASE CutoffStep(u) \/ SizeStep(u)
    BY <2>6 DEF CutoffStep, SizeStep, Remove
  <2>7. CASE EndCutoff(u) \/ EndSize(u) \/ WriteStamp(u)
    BY <2>7 DEF EndCutoff, EndSize, WriteStamp
  <2>8. CASE Crash(u)
    BY <2>8 DEF Crash, Declared
  <2> QED
    BY <2>1, <2>2, <2>3, <2>4, <2>5, <2>6, <2>7, <2>8 DEF TrimStep, Proceed
<1> QED
  BY <1>1, <1>2, <1>3

-----------------------------------------------------------------------------
\* What counts after a step was the same before it, whoever has taken it.
LEMMA AsItWas ==
  ASSUME TypeOK, [Next]_vars, NEW t \in Trimmers, Began(t)', NEW e \in Entries,
         Usable(e)', e \notin changed'[t]
  PROVE  Usable(e) /\ dir'[e].size = dir[e].size /\ e \notin changed[t]
<1>1. CASE UNCHANGED vars
  BY <1>1 DEF vars, dirVars, Usable
<1>2. CASE Next
  <2>1. changed'[t] = changed[t] \cup {x \in Entries : Rewritten(x)}
    BY <1>2 DEF Next, Remember, Began
  <2>2. ~Rewritten(e) /\ e \notin changed[t]
    BY <2>1
  <2> QED
    BY <2>2 DEF Rewritten, Usable
<1> QED
  BY <1>1, <1>2

\* What a step of anyone leaves of StoredInv, but for the trim's own list.
LEMMA StoredStays ==
  ASSUME TypeOK, [Next]_vars, NEW t \in Trimmers, StoredInv(t), Began(t), Began(t)',
         NEW e \in Entries, Counts(t, e)', e \notin missed[t]
  PROVE  Counted(t, e) /\ Usable(e) /\ dir'[e].size = dir[e].size
<1>1. Usable(e) /\ dir'[e].size = dir[e].size /\ e \notin changed[t]
  BY AsItWas DEF Counts
<1> QED
  BY <1>1 DEF StoredInv, Counts

LEMMA SameList ==
  ASSUME NEW t \in Trimmers, snap'[t] = snap[t]
  PROVE  Listed(t)' = Listed(t) /\ ListedSize(t)' = ListedSize(t)
BY DEF Listed, ListedSize

\* What others do does not disturb it.
LEMMA OutsideSizeStep ==
  ASSUME TypeOK, TypeOK', [Next]_vars, NEW t \in Trimmers, SizeInv(t),
         SameTrim(t), SameCount(t)
  PROVE  SizeInv(t)'
<1> USE DEF SameTrim, SameCount
<1>1. Listed(t)' = Listed(t) /\ ListedSize(t)' = ListedSize(t)
  BY SameList
<1>2. CountInv(t)' /\ OnceInv(t)'
  BY <1>1 DEF SizeInv, CountInv, OnceInv
<1>3. LastInv(t)' /\ FitInv(t)'
  BY <1>1 DEF SizeInv, LastInv, FitInv, ExpiredOne, Expired, Fits
<1>4. OverInv(t)'
  BY <1>1 DEF SizeInv, OverInv, ExpiredOne, Expired
<1>5. StoredInv(t)'
  <2> SUFFICES ASSUME NEW e \in Entries, Began(t)', Counts(t, e)'
               PROVE  Counted(t, e)'
    BY DEF StoredInv
  <2>1. Began(t) /\ e \notin missed[t]
    BY DEF Began, Counts
  <2>2. Counted(t, e) /\ dir'[e].size = dir[e].size
    BY <2>1, StoredStays DEF SizeInv
  <2> QED
    BY <1>1, <2>2 DEF Counted
<1> QED
  BY <1>2, <1>3, <1>4, <1>5 DEF SizeInv

-----------------------------------------------------------------------------
\* The trim's own steps.
LEMMA OptionsSizeStep ==
  ASSUME TypeOK, NEW t \in Trimmers, TrimInv(t), SizeInv(t),
         LocalTrim(t) \/ TrimExtra(t)
  PROVE  SizeInv(t)'
<1>1. /\ pc[t] \in {"idle", "open"} /\ pc'[t] \in {"open", "force", "skipped"}
      /\ UNCHANGED <<subdir, names, dirs, snap, before, todo, gone, missed, freed>>
  BY DEF LocalTrim, TrimExtra, Goto, listVars, loopVars, TypeOK
<1>2. gone[t] = {}
  BY <1>1 DEF TrimInv, OrderInv
<1>3. Listed(t)' = Listed(t) /\ ListedSize(t)' = ListedSize(t)
  BY <1>1, SameList
<1>4. CountInv(t)' /\ OnceInv(t)'
  BY <1>1, <1>2, <1>3 DEF SizeInv, CountInv, OnceInv
<1>5. LastInv(t)' /\ FitInv(t)' /\ OverInv(t)' /\ StoredInv(t)'
  BY <1>1, <1>2 DEF LastInv, FitInv, OverInv, StoredInv, Began
<1> QED
  BY <1>4, <1>5 DEF SizeInv

LEMMA DeclaredSizeStep ==
  ASSUME TypeOK, NEW t \in Trimmers, Begin(t) \/ Crash(t)
  PROVE  SizeInv(t)'
<1> USE TrimConstants
<1>1. /\ subdir'[t] = 0 /\ names'[t] = {} /\ dirs'[t] = {} /\ todo'[t] = {}
      /\ gone'[t] = {} /\ missed'[t] = {} /\ before'[t] = 0 /\ freed'[t] = 0
      /\ snap'[t] = [e \in Entries |-> None]
  BY DEF Begin, Crash, Declared, TypeOK
<1>2. Listed(t)' = {}
  BY <1>1 DEF Listed
<1>3. \/ pc'[t] = "killed"
      \/ pc'[t] = "read" /\ (cutoff'[t] # None \/ maxSize'[t] # None)
      \/ pc'[t] = "stamp" /\ maxSize'[t] = None
  BY DEF Begin, Crash, Goto, TypeOK
<1>4. CountInv(t)'
  <2>1. TotalSize(ListedSize(t)', {}) = 0
    BY TotalEmpty
  <2> QED
    BY <1>1, <1>2, <2>1 DEF CountInv
<1>5. OnceInv(t)'
  BY <1>1, <1>2 DEF OnceInv
<1>6. LastInv(t)' /\ FitInv(t)' /\ OverInv(t)'
  BY <1>1, <1>3 DEF LastInv, FitInv, OverInv
<1>7. StoredInv(t)'
  <2>1. \A e \in Entries : SubdirOf[e] > 0
    OBVIOUS
  <2> QED
    BY <1>1, <1>3, <2>1 DEF StoredInv, Counted, Began
<1> QED
  BY <1>4, <1>5, <1>6, <1>7 DEF SizeInv

LEMMA OpenSubdirSizeStep ==
  ASSUME TypeOK, TypeOK', [Next]_vars, NEW t \in Trimmers,
         TrimInv(t), SizeInv(t), OpenSubdir(t)
  PROVE  SizeInv(t)'
<1> USE TrimConstants
<1>1. /\ UNCHANGED <<dir, pc, cutoff, maxSize, began, dirs, snap, before,
                     todo, gone, freed>>
      /\ pc[t] = "read" /\ names[t] = {} /\ dirs[t] = {} /\ gone[t] = {}
      /\ subdir'[t] = subdir[t] + 1 /\ subdir[t] \in Nat
  BY DEF OpenSubdir, dirVars, history, optVars, TypeOK, TrimInv, OrderInv
<1> DEFINE here == {e \in Entries : SubdirOf[e] = subdir[t] + 1}
<1>2. \/ names'[t] = {e \in here : dir[e] # None}
      \/ names'[t] = {} /\ missed'[t] = missed[t] \cup here
  BY <1>1 DEF OpenSubdir, TypeOK
<1>3. Listed(t)' = Listed(t) /\ ListedSize(t)' = ListedSize(t)
  BY <1>1, SameList
<1>4. CountInv(t)' /\ LastInv(t)' /\ FitInv(t)' /\ OverInv(t)'
  BY <1>1, <1>3 DEF SizeInv, CountInv, LastInv, FitInv, OverInv
<1>5. OnceInv(t)'
  <2>1. \A e \in Listed(t) : e \in Entries /\ SubdirOf[e] \in Nat /\ SubdirOf[e] <= subdir[t]
    BY <1>1 DEF SizeInv, OnceInv, Listed
  <2>2. \A e \in names'[t] : e \in Entries /\ SubdirOf[e] = subdir[t] + 1
    BY <1>2
  <2> QED
    BY <1>1, <1>3, <2>1, <2>2 DEF SizeInv, OnceInv
<1>6. StoredInv(t)'
  <2> SUFFICES ASSUME NEW e \in Entries, Began(t)', Counts(t, e)'
               PROVE  Counted(t, e)'
    BY DEF StoredInv
  <2>1. Began(t) /\ e \notin missed'[t] /\ Usable(e)
    BY <1>1 DEF Began, Counts, Usable
  <2>2. e \notin missed[t]
    BY <2>1 DEF OpenSubdir, TypeOK
  <2>3. e \in here => e \in names'[t]
    BY <1>2, <2>1 DEF Usable
  <2>4. SubdirOf[e] \in Nat
    OBVIOUS
  <2>5. SubdirOf[e] > subdir[t] => SubdirOf[e] > subdir'[t] \/ e \in here
    BY <1>1, <2>4
  <2>6. Counted(t, e)
    BY <2>1, <2>2, StoredStays DEF SizeInv
  <2> QED
    BY <1>1, <1>3, <2>3, <2>5, <2>6 DEF Counted
<1> QED
  BY <1>4, <1>5, <1>6 DEF SizeInv

LEMMA StatNameSizeStep ==
  ASSUME TypeOK, TypeOK', [Next]_vars, NEW t \in Trimmers, TrimInv(t), SizeInv(t),
         StatName(t)
  PROVE  SizeInv(t)'
<1> USE TrimConstants
<1>1. /\ UNCHANGED <<dir, pc, cutoff, maxSize, began, subdir, missed, todo,
                     gone, freed>>
      /\ pc[t] = "read" /\ gone[t] = {}
  BY DEF StatName, dirVars, history, optVars, loopVars, TrimInv, OrderInv
<1>2. PICK e \in names[t] :
        /\ names' = [names EXCEPT ![t] = @ \ {e}]
        /\ IF dir[e] = None
             THEN UNCHANGED <<dirs, snap, before>>
             ELSE LET size == IF e \in Executables THEN 0 ELSE dir[e].size IN
               /\ snap' = [snap EXCEPT ![t][e] =
                             [mtime |-> dir[e].mtime, size |-> size]]
               /\ before' = [before EXCEPT ![t] = @ + size]
               /\ dirs' = IF e \in Executables
                            THEN [dirs EXCEPT ![t] = @ \cup {e}] ELSE dirs
  BY DEF StatName
<1> DEFINE size == IF e \in Executables THEN 0 ELSE dir[e].size
<1>3. /\ e \in Entries /\ e \notin Listed(t) /\ names'[t] = names[t] \ {e}
      /\ dirs[t] \subseteq Listed(t) /\ Listed(t) \subseteq Entries
  BY <1>1, <1>2 DEF TypeOK, SizeInv, OnceInv, TrimInv, OrderInv, Listed
<1>4. ASSUME NEW x \in Entries, Began(t)', Counts(t, x)'
      PROVE  Counted(t, x) /\ Usable(x)
  <2>1. Began(t) /\ x \notin missed[t]
    BY <1>1, <1>4 DEF Began, Counts
  <2> QED
    BY <1>4, <2>1, StoredStays DEF SizeInv
<1>5. CASE dir[e] = None
  <2>1. UNCHANGED <<dirs, snap, before>>
    BY <1>2, <1>5
  <2>2. Listed(t)' = Listed(t) /\ ListedSize(t)' = ListedSize(t)
    BY <2>1, SameList
  <2>3. CountInv(t)' /\ LastInv(t)' /\ FitInv(t)' /\ OverInv(t)'
    BY <1>1, <2>1, <2>2 DEF SizeInv, CountInv, LastInv, FitInv, OverInv
  <2>4. OnceInv(t)'
    BY <1>1, <1>3, <2>1, <2>2 DEF SizeInv, OnceInv
  <2>5. StoredInv(t)'
    BY <1>1, <1>3, <1>5, <1>4, <2>1, <2>2 DEF StoredInv, Counted, Usable
  <2> QED
    BY <2>3, <2>4, <2>5 DEF SizeInv
<1>6. CASE dir[e] # None
  <2>1. /\ snap'[t][e] = [mtime |-> dir[e].mtime, size |-> size]
        /\ \A f \in Entries : f # e => snap'[t][f] = snap[t][f]
        /\ before'[t] = before[t] + size
        /\ dirs'[t] = IF e \in Executables THEN dirs[t] \cup {e} ELSE dirs[t]
    BY <1>2, <1>3, <1>6 DEF TypeOK
  <2>2. size \in Nat /\ snap'[t][e] # None /\ snap'[t][e].size = size
    <3>1. dir[e].size \in Nat /\ dir[e].mtime \in Nat
      BY <1>3, <1>6 DEF TypeOK, DirTypeOK, File
    <3>2. [mtime |-> dir[e].mtime, size |-> size] \in Listing
      BY <3>1 DEF Listing
    <3> QED
      BY <2>1, <3>1, <3>2
  <2>3. Listed(t)' = Listed(t) \cup {e}
    BY <1>3, <2>1, <2>2 DEF Listed
  <2>4. CountInv(t)'
    <3> DEFINE f == ListedSize(t)
               g == ListedSize(t)'
    <3>1. g[e] = size /\ \A x \in Listed(t) : g[x] = f[x]
      BY <1>3, <2>1, <2>2 DEF ListedSize
    <3>2. /\ IsFiniteSet(Listed(t)) /\ Sizes(f, Listed(t))
          /\ TotalSize(f, Listed(t)) \in Nat
      BY <1>3, ListedSizes
    <3> HIDE DEF f, g
    <3>3. TotalSize(f, Listed(t)) = TotalSize(g, Listed(t))
      BY <3>1, <3>2, TotalSame
    <3>4. /\ IsFiniteSet(Listed(t) \cup {e}) /\ Sizes(g, Listed(t) \cup {e})
          /\ (Listed(t) \cup {e}) \ {e} = Listed(t)
      BY <1>3, <2>2, <3>1, <3>2, FS_AddElement DEF Sizes
    <3>5. TotalSize(g, Listed(t) \cup {e}) = g[e] + TotalSize(g, Listed(t))
      <4>1. e \in Listed(t) \cup {e}
        OBVIOUS
      <4> QED
        BY <3>4, <4>1, TotalRemove
    <3>6. before[t] = TotalSize(f, Listed(t))
      BY DEF SizeInv, CountInv, f
    <3>7. before'[t] = TotalSize(g, Listed(t)')
      BY <2>1, <2>2, <2>3, <3>1, <3>2, <3>3, <3>5, <3>6
    <3>8. freed'[t] = TotalSize(g, gone'[t])
      <4>1. freed[t] = TotalSize(f, {}) /\ gone'[t] = {} /\ freed'[t] = freed[t]
        BY <1>1 DEF SizeInv, CountInv, f
      <4> QED
        BY <4>1, TotalEmpty
    <3> QED
      BY <3>7, <3>8 DEF CountInv, g
  <2>5. LastInv(t)' /\ FitInv(t)' /\ OverInv(t)'
    BY <1>1 DEF SizeInv, LastInv, FitInv, OverInv
  <2>6. OnceInv(t)'
    <3>1. \A x \in dirs'[t] : snap'[t][x].size = 0
      <4> SUFFICES ASSUME NEW x \in dirs'[t] PROVE snap'[t][x].size = 0
        OBVIOUS
      <4>1. CASE x = e
        <5>1. e \notin dirs[t]
          BY <1>3
        <5>2. e \in Executables
          BY <2>1, <4>1, <5>1
        <5> QED
          BY <2>2, <4>1, <5>2
      <4>2. CASE x # e
        BY <1>3, <2>1, <4>2 DEF SizeInv, OnceInv
      <4> QED
        BY <4>1, <4>2
    <3>2. /\ names'[t] \cap Listed(t)' = {}
          /\ \A x \in names'[t] \cup Listed(t)' : SubdirOf[x] <= subdir'[t]
      BY <1>1, <1>3, <2>3 DEF SizeInv, OnceInv
    <3> QED
      BY <1>1, <3>1, <3>2 DEF SizeInv, OnceInv
  <2>7. StoredInv(t)'
    <3> SUFFICES ASSUME NEW x \in Entries, Began(t)', Counts(t, x)'
                 PROVE  Counted(t, x)'
      BY DEF StoredInv
    <3>1. CASE x # e
      BY <1>1, <1>3, <1>4, <2>1, <2>3, <3>1 DEF Counted
    <3>2. CASE x = e /\ e \in Executables
      BY <1>1, <2>1, <3>2 DEF Counted
    <3>3. CASE x = e /\ e \notin Executables
      BY <1>1, <1>3, <2>1, <2>2, <2>3, <3>3 DEF Counted
    <3> QED
      BY <3>1, <3>2, <3>3
  <2> QED
    BY <2>4, <2>5, <2>6, <2>7 DEF SizeInv
<1> QED
  BY <1>5, <1>6

LEMMA ReadExecutableSizeStep ==
  ASSUME TypeOK, TypeOK', [Next]_vars, NEW t \in Trimmers, TrimInv(t), SizeInv(t),
         ReadExecutable(t)
  PROVE  SizeInv(t)'
<1> USE TrimConstants
<1>1. /\ UNCHANGED <<dir, pc, cutoff, maxSize, began, subdir, names, todo,
                     gone, freed>>
      /\ pc[t] = "read" /\ gone[t] = {}
  BY DEF ReadExecutable, dirVars, history, optVars, TrimInv, OrderInv
<1>2. PICK e \in dirs[t] :
        /\ dirs' = [dirs EXCEPT ![t] = @ \ {e}]
        /\ \/ /\ dir[e] # None
              /\ snap' = [snap EXCEPT ![t][e].size = dir[e].size]
              /\ before' = [before EXCEPT ![t] = @ + dir[e].size]
              /\ UNCHANGED missed
           \/ /\ snap' = [snap EXCEPT ![t][e] = None]
              /\ missed' = IF dir[e] # None /\ dir[e].parts = 1
                             THEN [missed EXCEPT ![t] = @ \cup {e}] ELSE missed
              /\ UNCHANGED before
  BY DEF ReadExecutable
<1>3. /\ e \in Entries /\ e \in Listed(t) /\ snap[t][e] \in Listing
      /\ dirs[t] \subseteq Listed(t) /\ Listed(t) \subseteq Entries
      /\ dirs'[t] = dirs[t] \ {e} /\ snap[t][e].size = 0
  BY <1>2 DEF TypeOK, TrimInv, OrderInv, Listed, SizeInv, OnceInv
<1>4. \A f \in Entries : f # e => snap'[t][f] = snap[t][f]
  BY <1>2, <1>3 DEF TypeOK
<1> DEFINE f == ListedSize(t)
           g == ListedSize(t)'
           L == Listed(t)
<1>5. \A x \in L \ {e} : g[x] = f[x]
  BY <1>3, <1>4 DEF ListedSize
<1>6. f[e] = 0
  BY <1>3, TrimConstants DEF ListedSize
<1>7. /\ IsFiniteSet(L) /\ Sizes(f, L) /\ TotalSize(f, L) \in Nat
      /\ IsFiniteSet(L \ {e}) /\ Sizes(f, L \ {e}) /\ TotalSize(f, L \ {e}) \in Nat
  BY <1>3, ListedSizes
<1>8. TotalSize(f, L) = TotalSize(g, L \ {e})
  <2> HIDE DEF f, g, L
  <2>1. e \in L
    BY <1>3 DEF L
  <2>2. TotalSize(f, L) = f[e] + TotalSize(f, L \ {e})
    BY <1>7, <2>1, TotalRemove
  <2>3. TotalSize(f, L \ {e}) = TotalSize(g, L \ {e})
    BY <1>5, <1>7, TotalSame
  <2> QED
    BY <1>6, <1>7, <2>2, <2>3
<1>9. before[t] = TotalSize(f, L) /\ freed[t] = 0
  BY <1>1, TotalEmpty DEF SizeInv, CountInv
<1>10. freed'[t] = TotalSize(g, gone'[t])
  BY <1>1, <1>9, TotalEmpty
<1>11. LastInv(t)' /\ FitInv(t)' /\ OverInv(t)'
  BY <1>1 DEF SizeInv, LastInv, FitInv, OverInv
\* The step is right if what it does to the list is.
<1>12. ASSUME Listed(t)' \subseteq L, CountInv(t)',
              \/ /\ e \in Listed(t)' /\ dir[e].size = snap'[t][e].size
                 /\ L = Listed(t)'
              \/ (Usable(e) => e \in missed'[t]) /\ Listed(t)' = L \ {e}
       PROVE  SizeInv(t)'
  <2>1. OnceInv(t)'
    <3>1. \A x \in dirs'[t] : snap'[t][x].size = 0
      BY <1>3, <1>4 DEF SizeInv, OnceInv
    <3>2. /\ names'[t] \cap Listed(t)' = {}
          /\ \A x \in names'[t] \cup Listed(t)' : SubdirOf[x] <= subdir'[t]
      BY <1>1, <1>12 DEF SizeInv, OnceInv
    <3> QED
      BY <1>1, <3>1, <3>2 DEF SizeInv, OnceInv
  <2>2. StoredInv(t)'
    <3> SUFFICES ASSUME NEW x \in Entries, Began(t)', Counts(t, x)'
                 PROVE  Counted(t, x)'
      BY DEF StoredInv
    <3>1. Counted(t, x) /\ Usable(x) /\ x \notin missed'[t]
      <4>1. Began(t) /\ x \notin missed'[t]
        BY <1>1 DEF Began, Counts
      <4>2. missed[t] \subseteq missed'[t]
        BY <1>2 DEF TypeOK
      <4> QED
        BY <4>1, <4>2, StoredStays DEF SizeInv
    <3>2. CASE x = e
      BY <1>1, <1>3, <1>12, <3>1, <3>2 DEF Counted
    <3>3. CASE x # e
      <4>1. x \in L => x \in Listed(t)'
        BY <1>12, <3>3
      <4> QED
        BY <1>1, <1>3, <1>4, <3>1, <3>3, <4>1 DEF Counted
    <3> QED
      BY <3>2, <3>3
  <2> QED
    BY <1>11, <1>12, <2>1, <2>2 DEF SizeInv
<1>13. CASE /\ dir[e] # None
            /\ snap' = [snap EXCEPT ![t][e].size = dir[e].size]
            /\ before' = [before EXCEPT ![t] = @ + dir[e].size]
            /\ UNCHANGED missed
  <2>1. dir[e].size \in Nat
    BY <1>3, <1>13 DEF TypeOK, DirTypeOK, File
  <2>2. /\ snap'[t][e] = [snap[t][e] EXCEPT !.size = dir[e].size]
        /\ before'[t] = before[t] + dir[e].size
    BY <1>3, <1>13 DEF TypeOK
  <2>3. snap'[t][e].size = dir[e].size /\ snap'[t][e] \in Listing
    BY <1>3, <2>1, <2>2 DEF Listing
  <2>4. Listed(t)' = L
    BY <1>3, <1>4, <2>3 DEF Listed
  <2>5. g[e] = dir[e].size
    BY <1>3, <2>3 DEF ListedSize
  <2>6. CountInv(t)'
    <3> HIDE DEF f, g, L
    <3>1. Sizes(g, L) /\ e \in L
      BY <1>3, <1>5, <1>7, <2>1, <2>5 DEF Sizes, L
    <3>2. TotalSize(g, L) = g[e] + TotalSize(g, L \ {e})
      BY <1>7, <3>1, TotalRemove
    <3>3. before'[t] = TotalSize(g, Listed(t)')
      BY <1>7, <1>8, <1>9, <2>1, <2>2, <2>4, <2>5, <3>2
    <3> QED
      BY <1>10, <3>3 DEF CountInv, g
  <2>7. dir[e].size = snap'[t][e].size
    BY <2>3
  <2> QED
    BY <1>3, <1>12, <2>4, <2>6, <2>7
<1>14. CASE /\ snap' = [snap EXCEPT ![t][e] = None]
            /\ missed' = IF dir[e] # None /\ dir[e].parts = 1
                           THEN [missed EXCEPT ![t] = @ \cup {e}] ELSE missed
            /\ UNCHANGED before
  <2>1. snap'[t][e] = None
    BY <1>3, <1>14 DEF TypeOK
  <2>2. Listed(t)' = L \ {e}
    BY <1>4, <2>1 DEF Listed
  <2>3. Usable(e) => e \in missed'[t]
    BY <1>14 DEF Usable, TypeOK
  <2>4. CountInv(t)'
    BY <1>8, <1>9, <1>10, <1>14, <2>2 DEF CountInv
  <2> QED
    BY <1>12, <2>2, <2>3, <2>4
<1> QED
  BY <1>2, <1>13, <1>14

LEMMA EndReadSizeStep ==
  ASSUME TypeOK, TypeOK', [Next]_vars, NEW t \in Trimmers, TrimInv(t), SizeInv(t),
         EndRead(t)
  PROVE  SizeInv(t)'
<1> USE TrimConstants
<1>1. /\ UNCHANGED <<dir, cutoff, maxSize, began, subdir, names, dirs, snap,
                     before, gone, missed, freed>>
      /\ pc[t] = "read" /\ gone[t] = {} /\ names[t] = {} /\ dirs[t] = {}
      /\ subdir[t] = NumSubdirs /\ todo'[t] = Listed(t)
      /\ pc'[t] = IF cutoff[t] # None THEN "cutoff"
                  ELSE IF before[t] <= maxSize[t] THEN "stamp" ELSE "size"
      /\ \A u \in Trimmers : u # t => pc'[u] = pc[u]
  BY DEF EndRead, Goto, dirVars, history, optVars, listVars, TypeOK, TrimInv, OrderInv
<1>2. Listed(t)' = Listed(t) /\ ListedSize(t)' = ListedSize(t)
  BY <1>1, SameList
<1>3. CountInv(t)' /\ OnceInv(t)' /\ OverInv(t)'
  BY <1>1, <1>2 DEF SizeInv, CountInv, OnceInv, OverInv
<1>4. LastInv(t)'
  BY <1>1 DEF SizeInv, LastInv
<1>5. FitInv(t)'
  <2> SUFFICES ASSUME pc'[t] = "stamp" PROVE Fits(t)'
    BY <1>1 DEF FitInv
  <2>1. freed[t] = 0
    BY <1>1, TotalEmpty DEF SizeInv, CountInv
  <2>2. before[t] \in Nat /\ before[t] <= maxSize[t]
    BY <1>1 DEF TypeOK
  <2> QED
    BY <1>1, <2>1, <2>2 DEF Fits
<1>6. StoredInv(t)'
  <2> SUFFICES ASSUME NEW e \in Entries, Began(t)', Counts(t, e)'
               PROVE  Counted(t, e)'
    BY DEF StoredInv
  <2>1. Began(t) /\ e \notin missed[t]
    BY <1>1 DEF Began, Counts
  <2>2. Counted(t, e)
    BY <2>1, StoredStays DEF SizeInv
  <2>3. ~(SubdirOf[e] > NumSubdirs)
    OBVIOUS
  <2> QED
    BY <1>1, <1>2, <2>2, <2>3 DEF Counted
<1> QED
  BY <1>3, <1>4, <1>5, <1>6 DEF SizeInv

LEMMA EndCutoffSizeStep ==
  ASSUME TypeOK, TypeOK', [Next]_vars, NEW t \in Trimmers, TrimInv(t), SizeInv(t),
         EndCutoff(t)
  PROVE  SizeInv(t)'
<1>1. /\ UNCHANGED <<dir, cutoff, maxSize, began, subdir, names, dirs, snap,
                     before, gone, missed, freed>>
      /\ pc[t] = "cutoff" /\ todo'[t] = Listed(t) \ gone[t]
      /\ pc'[t] = IF maxSize[t] = None THEN "stamp" ELSE "size"
      /\ \A u \in Trimmers : u # t => pc'[u] = pc[u]
  BY DEF EndCutoff, Goto, dirVars, history, optVars, listVars, TypeOK
<1>2. Listed(t)' = Listed(t) /\ ListedSize(t)' = ListedSize(t)
  BY <1>1, SameList
<1>3. CountInv(t)' /\ OnceInv(t)' /\ FitInv(t)'
  BY <1>1, <1>2 DEF SizeInv, CountInv, OnceInv, FitInv
<1>4. OverInv(t)'
  BY <1>1, <1>2 DEF SizeInv, OverInv, ExpiredOne, Expired
<1>5. LastInv(t)'
  <2>1. cutoff[t] # None /\ \A e \in gone[t] : Expired(t, e)
    BY <1>1 DEF SizeInv, LastInv, TrimInv, OrderInv
  <2> QED
    BY <1>1, <2>1 DEF LastInv, ExpiredOne, Expired
<1>6. StoredInv(t)'
  <2> SUFFICES ASSUME NEW e \in Entries, Began(t)', Counts(t, e)'
               PROVE  Counted(t, e)'
    BY DEF StoredInv
  <2>1. Began(t) /\ e \notin missed[t]
    BY <1>1 DEF Began, Counts
  <2>2. Counted(t, e)
    BY <2>1, StoredStays DEF SizeInv
  <2> QED
    BY <1>1, <1>2, <2>2 DEF Counted
<1> QED
  BY <1>3, <1>4, <1>5, <1>6 DEF SizeInv

LEMMA EndSizeSizeStep ==
  ASSUME TypeOK, TypeOK', [Next]_vars, NEW t \in Trimmers, TrimInv(t), SizeInv(t),
         EndSize(t) \/ WriteStamp(t)
  PROVE  SizeInv(t)'
<1>1. /\ UNCHANGED <<dir, cutoff, maxSize, began, subdir, names, dirs, snap,
                     before, todo, gone, missed, freed>>
      /\ \/ pc[t] = "size" /\ pc'[t] = "stamp" /\ (Fits(t) \/ todo[t] = {})
         \/ pc[t] = "stamp" /\ pc'[t] = "done"
      /\ \A u \in Trimmers : u # t => pc'[u] = pc[u]
  BY DEF EndSize, WriteStamp, Goto, dirVars, history, optVars, listVars, loopVars,
         TypeOK
<1>2. Listed(t)' = Listed(t) /\ ListedSize(t)' = ListedSize(t)
  BY <1>1, SameList
<1>3. CountInv(t)' /\ OnceInv(t)' /\ LastInv(t)'
  BY <1>1, <1>2 DEF SizeInv, CountInv, OnceInv, LastInv
<1>4. OverInv(t)'
  BY <1>1, <1>2 DEF SizeInv, OverInv, ExpiredOne, Expired
<1>5. FitInv(t)'
  <2>1. pc[t] = "size" => Listed(t) \subseteq todo[t] \cup gone[t] \cup missed[t]
    BY DEF TrimInv, OrderInv
  <2>2. Fits(t)' = Fits(t)
    BY <1>1 DEF Fits
  <2> QED
    BY <1>1, <1>2, <2>1, <2>2 DEF SizeInv, FitInv
<1>6. StoredInv(t)'
  <2> SUFFICES ASSUME NEW e \in Entries, Began(t)', Counts(t, e)'
               PROVE  Counted(t, e)'
    BY DEF StoredInv
  <2>1. Began(t) /\ e \notin missed[t]
    BY <1>1 DEF Began, Counts
  <2>2. Counted(t, e)
    BY <2>1, StoredStays DEF SizeInv
  <2> QED
    BY <1>1, <1>2, <2>2 DEF Counted
<1> QED
  BY <1>3, <1>4, <1>5, <1>6 DEF SizeInv

\* Both loops.  The loop over the size removes the oldest entry of those
\* left, and only when what is listed and not removed is over the limit.
LEMMA RemoveSizeStep ==
  ASSUME TypeOK, TypeOK', [Next]_vars, NEW t \in Trimmers, TrimInv(t), SizeInv(t),
         CutoffStep(t) \/ SizeStep(t)
  PROVE  SizeInv(t)'
<1>1. PICK e \in Oldest(t) :
        /\ Remove(t, e)
        /\ \/ pc[t] = "cutoff" /\ Expired(t, e)
           \/ pc[t] = "size" /\ ~Fits(t)
  BY DEF CutoffStep, SizeStep
<1>2. /\ UNCHANGED <<pc, cutoff, maxSize, began, subdir, names, dirs, snap, before>>
      /\ todo'[t] = todo[t] \ {e}
  BY <1>1 DEF Remove, optVars, listVars, TypeOK
<1> DEFINE L == Listed(t)
           G == gone[t]
           f == ListedSize(t)
<1>3. /\ e \in todo[t] /\ e \in L /\ e \in Entries /\ e \notin G
      /\ L \subseteq Entries /\ G \subseteq L /\ todo[t] \subseteq L /\ dirs[t] = {}
      /\ \A x \in todo[t] : snap[t][e].mtime <= snap[t][x].mtime
      /\ \A x \in L : snap[t][x].mtime \in Nat
      /\ f[e] = snap[t][e].size /\ snap[t][e].size \in Nat
  <2>1. e \in todo[t] /\ e \in L
    BY DEF Oldest, TrimInv, OrderInv
  <2>2. \A x \in todo[t] : snap[t][e].mtime <= snap[t][x].mtime
    BY DEF Oldest
  <2>3. G \subseteq L /\ todo[t] \subseteq L /\ L \subseteq Entries
    BY DEF TrimInv, OrderInv, Listed
  <2>4. e \notin G /\ dirs[t] = {}
    BY <1>1, <2>1 DEF SizeInv, OnceInv
  <2>5. f[e] = snap[t][e].size /\ snap[t][e].size \in Nat
    BY <2>1, ListedType DEF Listed, ListedSize
  <2>6. \A x \in L : snap[t][x].mtime \in Nat
    BY ListedType
  <2> QED
    BY <2>1, <2>2, <2>3, <2>4, <2>5, <2>6
<1>4. \/ /\ gone'[t] = G \cup {e} /\ freed'[t] = freed[t] + f[e] /\ dir'[e] = None
      \/ gone'[t] = G /\ freed'[t] = freed[t] /\ e \in missed'[t]
  BY <1>1, <1>3 DEF Remove, RemoveAll, TypeOK, DirTypeOK
<1>5. Listed(t)' = L /\ ListedSize(t)' = f
  BY <1>2, SameList
<1>6. \A S \in SUBSET Entries :
        IsFiniteSet(S) /\ Sizes(f, S) /\ TotalSize(f, S) \in Nat
  BY ListedSizes
<1>7. before[t] = TotalSize(f, L) /\ freed[t] = TotalSize(f, G)
  BY DEF SizeInv, CountInv
<1>8. CountInv(t)'
  <2>1. CASE gone'[t] = G
    <3>1. freed'[t] = freed[t]
      BY <1>3, <1>4, <2>1
    <3> QED
      BY <1>2, <1>5, <1>7, <2>1, <3>1 DEF CountInv
  <2>2. CASE gone'[t] = G \cup {e} /\ freed'[t] = freed[t] + f[e]
    <3> HIDE DEF L, G, f
    <3>1. G \cup {e} \in SUBSET Entries /\ G \in SUBSET Entries
          /\ (G \cup {e}) \ {e} = G /\ e \in G \cup {e}
      BY <1>3
    <3>2. TotalSize(f, G \cup {e}) = f[e] + TotalSize(f, G)
      BY <1>6, <3>1, TotalRemove
    <3>3. freed'[t] = TotalSize(f, gone'[t])
      BY <1>3, <1>6, <1>7, <2>2, <3>1, <3>2
    <3> QED
      BY <1>2, <1>5, <1>7, <3>3 DEF CountInv
  <2> QED
    BY <1>4, <2>1, <2>2
<1>9. OnceInv(t)'
  BY <1>1, <1>2, <1>3, <1>4 DEF SizeInv, OnceInv
<1>10. LastInv(t)'
  <2>1. CASE pc[t] = "cutoff"
    BY <1>1, <1>2, <1>4, <2>1 DEF SizeInv, LastInv, Expired
  <2>2. CASE pc[t] = "size"
    <3>1. maxSize[t] # None
      BY <2>2 DEF SizeInv, LastInv
    <3>2. \A x \in G, y \in todo[t] :
            ExpiredOne(t, x) \/ snap[t][x].mtime <= snap[t][y].mtime
      BY <2>2 DEF SizeInv, LastInv
    <3>3. \A x \in gone'[t], y \in todo'[t] :
            ExpiredOne(t, x) \/ snap[t][x].mtime <= snap[t][y].mtime
      BY <1>2, <1>3, <1>4, <3>2
    <3> QED
      BY <1>2, <2>2, <3>1, <3>3 DEF LastInv, ExpiredOne, Expired
  <2> QED
    BY <1>1, <2>1, <2>2
<1>11. OverInv(t)'
  <2> DEFINE Rest(x) == (L \ G) \cup {y \in G : snap[t][y].mtime >= snap[t][x].mtime}
             After(x) == (L \ gone'[t]) \cup
                           {y \in gone'[t] : snap[t][y].mtime >= snap[t][x].mtime}
  <2> SUFFICES ASSUME NEW x \in gone'[t], ~ExpiredOne(t, x)
               PROVE  maxSize[t] # None /\ TotalSize(f, After(x)) > maxSize[t]
    BY <1>2, <1>5 DEF OverInv, ExpiredOne, Expired
  <2>1. CASE x \in G
    <3>1. maxSize[t] # None /\ TotalSize(f, Rest(x)) > maxSize[t]
      BY <2>1 DEF SizeInv, OverInv
    <3>2. CASE gone'[t] = G
      BY <3>1, <3>2
    <3>3. CASE gone'[t] = G \cup {e}
      <4>1. pc[t] = "size"
        BY <1>1, <2>1 DEF SizeInv, LastInv, ExpiredOne, TrimInv, OrderInv
      <4>2. snap[t][e].mtime >= snap[t][x].mtime
        <5>1. snap[t][x].mtime <= snap[t][e].mtime
          BY <1>3, <2>1, <4>1 DEF SizeInv, LastInv
        <5> QED
          BY <1>3, <2>1, <5>1
      <4>3. After(x) = Rest(x)
        <5> HIDE DEF L, G, f
        <5> QED
          BY <1>3, <3>3, <4>2
      <4> QED
        BY <3>1, <4>3
    <3> QED
      BY <1>4, <3>2, <3>3
  <2>2. CASE x \notin G
    <3>1. x = e /\ gone'[t] = G \cup {e}
      BY <1>4, <2>2
    <3>2. pc[t] = "size" /\ ~Fits(t)
      BY <1>1, <3>1 DEF ExpiredOne, TrimInv, OrderInv
    <3>3. maxSize[t] # None /\ maxSize[t] \in Nat
      BY <3>2 DEF SizeInv, LastInv, TypeOK
    <3>4. L \ G \subseteq After(x) /\ After(x) \in SUBSET Entries
      <4> HIDE DEF L, G, f
      <4> QED
        BY <1>3, <3>1
    <3> HIDE DEF After, L, G, f
    <3>5. TotalSize(f, L \ G) <= TotalSize(f, After(x))
      <4>1. \A y \in L \ G : f[y] = 0 \/ (y \in After(x) /\ f[y] <= f[y])
        <5>1. Sizes(f, L)
          BY <1>3, <1>6
        <5> QED
          BY <3>4, <5>1 DEF Sizes
      <4>2. L \ G \in SUBSET Entries
        BY <1>3
      <4> QED
        BY <1>6, <3>4, <4>1, <4>2, TotalBounded
    <3>6. TotalSize(f, L) = TotalSize(f, G) + TotalSize(f, L \ G)
      BY <1>3, <1>6, TotalSplit
    <3>7. ~(TotalSize(f, L \ G) <= maxSize[t])
      <4>1. TotalSize(f, G) \in Nat /\ TotalSize(f, L \ G) \in Nat
        BY <1>3, <1>6
      <4>2. before[t] - freed[t] = TotalSize(f, L \ G)
        BY <1>7, <3>6, <4>1
      <4> QED
        BY <3>2, <4>2 DEF Fits
    <3> QED
      <4>1. TotalSize(f, After(x)) \in Nat /\ TotalSize(f, L \ G) \in Nat
        BY <1>3, <1>6, <3>4
      <4> QED
        BY <3>3, <3>5, <3>7, <4>1
  <2> QED
    BY <2>1, <2>2
<1>12. StoredInv(t)'
  <2> SUFFICES ASSUME NEW x \in Entries, Began(t)', Counts(t, x)'
               PROVE  Counted(t, x)'
    BY DEF StoredInv
  <2>1. Began(t) /\ pc[t] # "read"
    BY <1>1, <1>2 DEF Began
  <2>2. x # e
    BY <1>4 DEF Counts, Usable
  <2>3. x \notin missed[t]
    BY <1>1, <2>2 DEF Remove, Counts, TypeOK
  <2>4. Counted(t, x) /\ dir'[x].size = dir[x].size
    BY <2>1, <2>3, StoredStays DEF SizeInv
  <2> QED
    BY <1>2, <1>4, <1>5, <2>1, <2>2, <2>4 DEF Counted
<1>13. FitInv(t)'
  BY <1>1, <1>2 DEF FitInv
<1> QED
  BY <1>8, <1>9, <1>10, <1>11, <1>12, <1>13 DEF SizeInv

-----------------------------------------------------------------------------
LEMMA InitSize == Init => AllSizeInv
<1> SUFFICES ASSUME Init, NEW t \in Trimmers PROVE SizeInv(t)
  BY DEF AllSizeInv
<1>1. /\ pc[t] = "idle" /\ dirs[t] = {} /\ todo[t] = {} /\ gone[t] = {}
      /\ before[t] = 0 /\ freed[t] = 0
      /\ snap[t] = [e \in Entries |-> None]
  BY DEF Init
<1>2. Listed(t) = {}
  BY <1>1 DEF Listed
<1>3. TotalSize(ListedSize(t), {}) = 0
  BY TotalEmpty
<1>4. CountInv(t)
  BY <1>1, <1>2, <1>3 DEF CountInv
<1>5. OnceInv(t) /\ LastInv(t) /\ OverInv(t) /\ StoredInv(t) /\ FitInv(t)
  BY <1>1 DEF OnceInv, LastInv, OverInv, StoredInv, Began, FitInv
<1> QED
  BY <1>4, <1>5 DEF SizeInv

LEMMA NextSize ==
  ASSUME IInv, IInv', AllSizeInv, [Next]_vars
  PROVE  AllSizeInv'
<1> SUFFICES ASSUME NEW t \in Trimmers PROVE SizeInv(t)'
  BY DEF AllSizeInv
<1>1. TypeOK /\ TypeOK' /\ TrimInv(t) /\ SizeInv(t)
  BY DEF IInv, AllSizeInv
<1>2. CASE TrimStep(t)
  <2>1. CASE LocalTrim(t) \/ TrimExtra(t)
    BY <1>1, <2>1, OptionsSizeStep
  <2>2. CASE Begin(t) \/ Crash(t)
    BY <1>1, <2>2, DeclaredSizeStep
  <2>3. CASE OpenSubdir(t)
    BY <1>1, <2>3, OpenSubdirSizeStep
  <2>4. CASE StatName(t)
    BY <1>1, <2>4, StatNameSizeStep
  <2>5. CASE ReadExecutable(t)
    BY <1>1, <2>5, ReadExecutableSizeStep
  <2>6. CASE EndRead(t)
    BY <1>1, <2>6, EndReadSizeStep
  <2>7. CASE CutoffStep(t) \/ SizeStep(t)
    BY <1>1, <2>7, RemoveSizeStep
  <2>8. CASE EndCutoff(t)
    BY <1>1, <2>8, EndCutoffSizeStep
  <2>9. CASE EndSize(t) \/ WriteStamp(t)
    BY <1>1, <2>9, EndSizeSizeStep
  <2> QED
    BY <1>2, <2>1, <2>2, <2>3, <2>4, <2>5, <2>6, <2>7, <2>8, <2>9
       DEF TrimStep, Proceed
<1>3. CASE ~TrimStep(t)
  <2>1. SameTrim(t) /\ SameCount(t)
    BY <1>1, <1>3, OthersSame, OthersSameCount DEF Next
  <2> QED
    BY <1>1, <2>1, OutsideSizeStep
<1> QED
  BY <1>2, <1>3

LEMMA SizeInvariant == Spec => [](IInv /\ AllSizeInv)
<1>1. IInv /\ IInv' /\ AllSizeInv /\ [Next]_vars => AllSizeInv'
  BY NextSize
<1> QED
  BY <1>1, InitSize, Invariant, PTL DEF Spec

\* The loop of TrimForce over the size removes an entry only when what is
\* listed was over the limit with it, however many trims run and whatever
\* go commands do: before and freed count every listed entry once.
THEOREM NoOverTrimCorrect == Spec => []NoOverTrim
<1>1. IInv /\ AllSizeInv => NoOverTrim
  <2> SUFFICES ASSUME IInv, AllSizeInv, NEW t \in Trimmers, NEW e \in gone[t],
                      cutoff[t] = None \/ snap[t][e].mtime >= cutoff[t]
               PROVE  /\ maxSize[t] # None
                      /\ TotalSize(ListedSize(t), (Listed(t) \ gone[t]) \cup
                           {f \in gone[t] : snap[t][f].mtime >= snap[t][e].mtime})
                           > maxSize[t]
    BY DEF NoOverTrim
  <2>1. ~ExpiredOne(t, e)
    <3>1. CASE cutoff[t] = None
      BY <3>1 DEF ExpiredOne
    <3>2. CASE cutoff[t] # None
      <4>1. TypeOK /\ TrimInv(t)
        BY DEF IInv
      <4>2. e \in Entries /\ snap[t][e] # None
        BY <4>1 DEF TypeOK, TrimInv, OrderInv, Listed
      <4>3. snap[t][e].mtime \in Nat /\ cutoff[t] \in Int
        BY <3>2, <4>1, <4>2 DEF TypeOK, Listing
      <4> QED
        BY <3>2, <4>3 DEF ExpiredOne, Expired
    <3> QED
      BY <3>1, <3>2
  <2> QED
    BY <2>1 DEF AllSizeInv, SizeInv, OverInv
<1> QED
  BY <1>1, Invariant, SizeInvariant, PTL

\* When TrimForce ends, the usable entries fit in the limit, but for those it
\* met an error on and those someone has written to since it began: whatever
\* errors and kills other trims and puts meet meanwhile.
THEOREM SizeCorrect == Spec => []SizeEnforced
<1>1. IInv /\ AllSizeInv => SizeEnforced
  <2> SUFFICES ASSUME IInv, AllSizeInv, NEW t \in Trimmers,
                      pc[t] \in {"stamp", "done"}, maxSize[t] # None
               PROVE  TotalSize(StoredSize,
                        {e \in Entries \ (missed[t] \cup changed[t]) : Usable(e)})
                        <= maxSize[t]
    BY DEF SizeEnforced
  <2> DEFINE U == {e \in Entries \ (missed[t] \cup changed[t]) : Usable(e)}
             L == Listed(t)
             G == gone[t]
             M == missed[t]
             f == ListedSize(t)
  <2>1. TypeOK /\ SizeInv(t) /\ TrimInv(t)
    BY DEF IInv, AllSizeInv
  <2>2. \A e \in U : e \in (L \ G) \ M /\ StoredSize[e] <= f[e]
    <3> SUFFICES ASSUME NEW e \in U
                 PROVE  e \in (L \ G) \ M /\ StoredSize[e] <= f[e]
      OBVIOUS
    <3>1. Counted(t, e)
      BY <2>1 DEF SizeInv, StoredInv, Began, Counts
    <3>2. e \in L \ G /\ dir[e].size = snap[t][e].size
      BY <3>1 DEF Counted
    <3>3. StoredSize[e] = dir[e].size /\ f[e] = snap[t][e].size
      BY <3>2 DEF StoredSize, Usable, Listed, ListedSize
    <3>4. dir[e].size \in Nat
      BY <2>1 DEF TypeOK, DirTypeOK, File, Usable
    <3> QED
      BY <3>2, <3>3, <3>4
  <2>3. /\ \A S \in SUBSET Entries :
             IsFiniteSet(S) /\ Sizes(f, S) /\ TotalSize(f, S) \in Nat
        /\ IsFiniteSet(Entries)
    BY <2>1, ListedSizes, TrimAssumption
  <2>4. Sizes(StoredSize, Entries)
    BY <2>1 DEF Sizes, StoredSize, TypeOK, DirTypeOK, File
  <2>5. L \in SUBSET Entries /\ G \in SUBSET L /\ U \in SUBSET Entries
    BY <2>1 DEF TrimInv, OrderInv, Listed
  <2>6. maxSize[t] \in Nat
    BY <2>1 DEF TypeOK
  <2>7. Fits(t) \/ U = {}
    <3>1. Fits(t) \/ L \subseteq G \cup M
      BY <2>1 DEF SizeInv, FitInv
    <3> HIDE DEF U, L, G, M, f
    <3> QED
      BY <2>2, <3>1
  <2>8. before[t] = TotalSize(f, L) /\ freed[t] = TotalSize(f, G)
    BY <2>1 DEF SizeInv, CountInv
  <2> HIDE DEF U, L, G, M, f
  <2>9. TotalSize(StoredSize, U) <= TotalSize(f, L \ G)
    <3>1. L \ G \in SUBSET Entries /\ Sizes(f, Entries)
      BY <2>3, <2>5
    <3> QED
      BY <2>2, <2>3, <2>4, <2>5, <3>1, TotalBounded
  <2>10. Fits(t) => TotalSize(f, L \ G) <= maxSize[t]
    <3>1. TotalSize(f, L) = TotalSize(f, G) + TotalSize(f, L \ G)
      <4>1. IsFiniteSet(L) /\ Sizes(f, L)
        BY <2>3, <2>5
      <4> QED
        BY <2>5, <4>1, TotalSplit
    <3>2. TotalSize(f, G) \in Nat /\ TotalSize(f, L \ G) \in Nat
      BY <2>3, <2>5
    <3> QED
      BY <2>6, <2>8, <3>1, <3>2 DEF Fits
  <2>11. TotalSize(f, L \ G) \in Nat /\ TotalSize(StoredSize, U) \in Nat
    <3>1. IsFiniteSet(U) /\ Sizes(StoredSize, U)
      BY <2>3, <2>4, <2>5 DEF Sizes
    <3> QED
      BY <2>3, <2>5, <3>1, TotalType
  <2>12. U = {} => TotalSize(StoredSize, U) = 0
    BY TotalEmpty
  <2> QED
    BY <2>6, <2>7, <2>9, <2>10, <2>11, <2>12 DEF U
<1> QED
  BY <1>1, SizeInvariant, PTL

=============================================================================
