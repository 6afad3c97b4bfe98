---------------------------- MODULE FlatccProofs ----------------------------
(***************************************************************************)
(* Proofs about flatcc's emitter and builder: EmitterHoldsDeque holds in   *)
(* every state of FlatccSession, whatever the page size, the document, the *)
(* order in which its objects are built and the number of pages malloc can *)
(* give.                                                                   *)
(***************************************************************************)
EXTENDS FlatccSession, FiniteSetTheorems, SequenceTheorems, WellFoundedInduction, TLAPS

-----------------------------------------------------------------------------
(* Sequences: their parts and their concatenation, and functions that are  *)
(* defined by recursion.                                                   *)

\* What follows the first n elements.
Rest(s, n) == SubSeq(s, n + 1, Len(s))

LEMMA RestType ==
  ASSUME NEW V, NEW s \in Seq(V), NEW n \in 0 .. Len(s)
  PROVE  /\ Rest(s, n) \in Seq(V)
         /\ Len(Rest(s, n)) = Len(s) - n
         /\ \A i \in 1 .. Len(s) - n : Rest(s, n)[i] = s[n + i]
<1>1. \A i \in n + 1 .. Len(s) : s[i] \in V
  OBVIOUS
<1> QED BY <1>1, SubSeqProperties DEF Rest

LEMMA FirstType ==
  ASSUME NEW V, NEW s \in Seq(V), NEW n \in 0 .. Len(s)
  PROVE  /\ SubSeq(s, 1, n) \in Seq(V)
         /\ Len(SubSeq(s, 1, n)) = n
         /\ \A i \in 1 .. n : SubSeq(s, 1, n)[i] = s[i]
<1>1. \A i \in 1 .. n : s[i] \in V
  OBVIOUS
<1> QED BY <1>1, SubSeqProperties

LEMMA FirstAndRest ==
  ASSUME NEW V, NEW s \in Seq(V), NEW n \in 0 .. Len(s)
  PROVE  SubSeq(s, 1, n) \o Rest(s, n) = s
<1>1. 1 \in 1 .. Len(s) + 1 /\ n \in 1 - 1 .. Len(s) /\ Len(s) \in n .. Len(s)
  OBVIOUS
<1>2. SubSeq(s, 1, n) \o SubSeq(s, n + 1, Len(s)) = SubSeq(s, 1, Len(s))
  BY <1>1, ConcatAdjacentSubSeq
<1> QED BY <1>2, SubSeqFull DEF Rest

\* Concatenation is associative.
Regroups(s, x, y) == (s \o x) \o y = s \o (x \o y)

LEMMA Regroup ==
  ASSUME NEW V, NEW s \in Seq(V), NEW x \in Seq(V), NEW y \in Seq(V)
  PROVE  Regroups(s, x, y)
<1>1. (s \o x) \o y = s \o (x \o y)
  BY ConcatAssociative
<1> QED BY <1>1 DEF Regroups

\* A part moves from the front of one sequence to the end of another.
LEMMA MoveFirst ==
  ASSUME NEW V, NEW s \in Seq(V), NEW t \in Seq(V), NEW n \in 0 .. Len(t)
  PROVE  (s \o SubSeq(t, 1, n)) \o Rest(t, n) = s \o t
<1>1. SubSeq(t, 1, n) \in Seq(V) /\ Rest(t, n) \in Seq(V)
  BY FirstType, RestType
<1>2. SubSeq(t, 1, n) \o Rest(t, n) = t
  BY FirstAndRest
<1>3. Regroups(s, SubSeq(t, 1, n), Rest(t, n))
  BY <1>1, Regroup
<1> QED BY <1>2, <1>3, Zenon DEF Regroups

LEMMA AppendAt ==
  ASSUME NEW V, NEW s \in Seq(V), NEW x \in V
  PROVE  /\ Append(s, x) \in Seq(V) /\ Len(Append(s, x)) = Len(s) + 1
         /\ Append(s, x)[Len(s) + 1] = x
         /\ \A i \in 1 .. Len(s) : Append(s, x)[i] = s[i]
  BY AppendProperties

LEMMA ConcatAt ==
  ASSUME NEW V, NEW s \in Seq(V), NEW t \in Seq(V)
  PROVE  /\ s \o t \in Seq(V) /\ Len(s \o t) = Len(s) + Len(t)
         /\ \A i \in 1 .. Len(s) : (s \o t)[i] = s[i]
<1>1. /\ s \o t \in Seq(V) /\ Len(s \o t) = Len(s) + Len(t)
      /\ \A i \in 1 .. Len(s) + Len(t) : (s \o t)[i] = IF i <= Len(s) THEN s[i] ELSE t[i - Len(s)]
  BY ConcatProperties
<1>2. \A i \in 1 .. Len(s) : i \in 1 .. Len(s) + Len(t) /\ i <= Len(s)
  OBVIOUS
<1> QED BY <1>1, <1>2

-----------------------------------------------------------------------------
\* Induction over the natural numbers, for a set of them.
Less == {p \in Nat \X Nat : p[1] < p[2]}

LEMMA LessWF == IsWellFoundedOn(Less, Nat)
<1>1. OpToRel(<, Nat) = Less
  BY DEF OpToRel, Less
<1>2. IsWellFoundedOn(OpToRel(<, Nat), Nat)
  BY NatLessThanWellFounded
<1> QED BY <1>1, <1>2

LEMMA NatSetInduction ==
  ASSUME NEW S, 0 \in S, \A n \in Nat : n \in S => n + 1 \in S
  PROVE Nat \subseteq S
<1> DEFINE T == Nat \ S
<1> SUFFICES ASSUME T # {} PROVE FALSE
  OBVIOUS
<1>0. T \subseteq Nat
  OBVIOUS
<1> HIDE DEF T
<1>1. PICK x \in T : \A y \in T : ~ (<<y, x>> \in Less)
  BY <1>0, LessWF, WFMin
<1>2. x \in Nat /\ x \notin S /\ x # 0
  BY DEF T
<1>3. x - 1 \in Nat /\ x - 1 < x /\ (x - 1) + 1 = x
  BY <1>2
<1>4. x - 1 \in S
  <2> SUFFICES ASSUME x - 1 \in T PROVE FALSE
    BY <1>3 DEF T
  <2>1. <<x - 1, x>> \in Less
    BY <1>2, <1>3 DEF Less
  <2> QED BY <1>1, <2>1
<1> QED BY <1>2, <1>3, <1>4

\* A function over 0 .. n that starts at c and goes on as step says.
Steps(g, c, step, n) == g[0] = c /\ \A i \in 0 .. n - 1 : g[i + 1] = step[<<g[i], i>>]

LEMMA StepsUnique ==
  ASSUME NEW c, NEW step, NEW m \in Nat, NEW n \in Nat, m <= n,
         NEW g, NEW h, Steps(g, c, step, m), Steps(h, c, step, n)
  PROVE  g[m] = h[m]
<1> DEFINE S == {i \in Nat : i <= m => g[i] = h[i]}
<1>1. 0 \in S
  BY DEF Steps
<1>2. ASSUME NEW i \in Nat, i \in S PROVE i + 1 \in S
  <2> SUFFICES ASSUME i + 1 <= m PROVE g[i + 1] = h[i + 1]
    OBVIOUS
  <2>1. i \in 0 .. m - 1 /\ i \in 0 .. n - 1 /\ i <= m
    OBVIOUS
  <2>2. g[i] = h[i]
    BY <1>2, <2>1
  <2>3. g[i + 1] = step[<<g[i], i>>] /\ h[i + 1] = step[<<h[i], i>>]
    BY <2>1 DEF Steps
  <2> QED BY <2>2, <2>3
<1> HIDE DEF S
<1>3. m \in S
  BY <1>1, <1>2, NatSetInduction
<1> QED BY <1>3 DEF S

\* Primitive recursion defines a function.
Recurs(f, c, step) == f[0] = c /\ \A n \in Nat : f[n + 1] = step[<<f[n], n>>]

LEMMA Recursion ==
  ASSUME NEW A, NEW c \in A, NEW step \in [A \X Nat -> A]
  PROVE  \E f \in [Nat -> A] : Recurs(f, c, step)
<1> DEFINE S == {n \in Nat : \E g \in [0 .. n -> A] : Steps(g, c, step, n)}
<1>1. 0 \in S
  <2>1. [i \in 0 .. 0 |-> c] \in [0 .. 0 -> A] /\ Steps([i \in 0 .. 0 |-> c], c, step, 0)
    BY DEF Steps
  <2> QED BY <2>1
<1>2. ASSUME NEW n \in Nat, n \in S PROVE n + 1 \in S
  <2>1. PICK g \in [0 .. n -> A] : Steps(g, c, step, n)
    BY <1>2
  <2> DEFINE x == step[<<g[n], n>>]
             h == [i \in 0 .. n + 1 |-> IF i <= n THEN g[i] ELSE x]
  <2>2. x \in A
    OBVIOUS
  <2>3. h \in [0 .. n + 1 -> A]
    BY <2>2
  <2>4. (\A i \in 0 .. n : h[i] = g[i]) /\ h[n + 1] = x
    OBVIOUS
  <2> HIDE DEF h
  <2>5. ASSUME NEW i \in 0 .. n PROVE h[i + 1] = step[<<h[i], i>>]
    <3>1. CASE i = n
      BY <2>4, <3>1
    <3>2. CASE i # n
      <4>1. i \in 0 .. n - 1 /\ i + 1 \in 0 .. n
        BY <3>2
      <4> QED BY <2>1, <2>4, <4>1 DEF Steps
    <3> QED BY <3>1, <3>2
  <2>6. Steps(h, c, step, n + 1)
    <3>1. h[0] = c
      BY <2>1, <2>4 DEF Steps
    <3>2. 0 .. (n + 1) - 1 = 0 .. n
      OBVIOUS
    <3> QED BY <2>5, <3>1, <3>2 DEF Steps
  <2> QED BY <2>3, <2>6
<1> HIDE DEF S
<1>3. \A n \in Nat : n \in S
  BY <1>1, <1>2, NatSetInduction
<1> DEFINE F(n) == CHOOSE g \in [0 .. n -> A] : Steps(g, c, step, n)
           f == [n \in Nat |-> F(n)[n]]
<1>4. ASSUME NEW n \in Nat PROVE F(n) \in [0 .. n -> A] /\ Steps(F(n), c, step, n)
  <2>1. \E g \in [0 .. n -> A] : Steps(g, c, step, n)
    BY <1>3 DEF S
  <2> QED BY <2>1
<1>5. \A n \in Nat : f[n] = F(n)[n]
  OBVIOUS
<1> HIDE DEF F
<1>6. f \in [Nat -> A]
  BY <1>4
<1> HIDE DEF f
<1>7. f[0] = c
  BY <1>4, <1>5 DEF Steps
<1>8. ASSUME NEW n \in Nat PROVE f[n + 1] = step[<<f[n], n>>]
  <2>1. n + 1 \in Nat /\ n <= n + 1 /\ n \in 0 .. (n + 1) - 1
    OBVIOUS
  <2>2. Steps(F(n), c, step, n) /\ Steps(F(n + 1), c, step, n + 1)
    BY <1>4, <2>1
  <2>3. F(n)[n] = F(n + 1)[n]
    BY <2>1, <2>2, StepsUnique
  <2>4. F(n + 1)[n + 1] = step[<<F(n + 1)[n], n>>]
    BY <2>1, <2>2 DEF Steps
  <2> QED BY <1>5, <2>1, <2>3, <2>4
<1> QED BY <1>6, <1>7, <1>8 DEF Recurs

\* f is the function by which FlattenSeq concatenates the first n of seqs.
IsFlat(f, seqs, n) == f = [i \in 1 .. n |-> IF i = 1 THEN seqs[i] ELSE f[i - 1] \o seqs[i]]

LEMMA FlatValue ==
  ASSUME NEW f, NEW seqs, NEW n \in Nat, IsFlat(f, seqs, n), NEW i \in 1 .. n
  PROVE  f[i] = IF i = 1 THEN seqs[i] ELSE f[i - 1] \o seqs[i]
<1> DEFINE e(h) == [j \in 1 .. n |-> IF j = 1 THEN seqs[j] ELSE h[j - 1] \o seqs[j]]
<1>1. f = e(f)
  BY DEF IsFlat
<1>2. e(f)[i] = IF i = 1 THEN seqs[i] ELSE f[i - 1] \o seqs[i]
  OBVIOUS
<1> HIDE DEF e
<1> QED BY <1>1, <1>2

\* There is such a function for every length.
LEMMA FlatExists ==
  ASSUME NEW seqs, NEW m \in Nat
  PROVE  \E f : IsFlat(f, seqs, m)
<1> DEFINE S == {n \in Nat : \E f : IsFlat(f, seqs, n)}
<1>1. 0 \in S
  <2>1. IsFlat([i \in 1..0 |-> 0], seqs, 0)
    BY DEF IsFlat
  <2> QED BY <2>1
<1>2. ASSUME NEW n \in Nat, n \in S PROVE n + 1 \in S
  <2>1. PICK f : IsFlat(f, seqs, n)
    BY <1>2
  <2> DEFINE g == [i \in 1 .. n + 1 |-> IF i = 1 THEN seqs[i] ELSE f[i - 1] \o seqs[i]]
  <2>2. ASSUME NEW i \in 1 .. n PROVE g[i] = f[i]
    <3>1. f[i] = IF i = 1 THEN seqs[i] ELSE f[i - 1] \o seqs[i]
      BY <2>1, FlatValue
    <3> QED BY <3>1
  <2>3. IsFlat(g, seqs, n + 1)
    <3>1. ASSUME NEW i \in 1 .. n + 1, i # 1 PROVE g[i - 1] = f[i - 1]
      <4>1. i - 1 \in 1 .. n BY <3>1
      <4> HIDE DEF g
      <4> QED BY <2>2, <4>1
    <3> DEFINE G == g
    <3>2. G = [i \in 1 .. n + 1 |-> IF i = 1 THEN seqs[i] ELSE f[i - 1] \o seqs[i]]
      OBVIOUS
    <3>3. \A i \in 1 .. n + 1 : i # 1 => G[i - 1] = f[i - 1]
      BY <3>1
    <3> HIDE DEF G
    <3>4. G = [i \in 1 .. n + 1 |-> IF i = 1 THEN seqs[i] ELSE G[i - 1] \o seqs[i]]
      BY <3>2, <3>3
    <3> QED BY <3>4 DEF IsFlat, G
  <2> QED BY <2>3
<1> HIDE DEF S
<1>3. Nat \subseteq S BY <1>1, <1>2, NatSetInduction
<1> QED BY <1>3 DEF S

LEMMA FlatDef ==
  ASSUME NEW seqs, Len(seqs) \in Nat, Len(seqs) # 0
  PROVE  \E f : IsFlat(f, seqs, Len(seqs)) /\ FlattenSeq(seqs) = f[Len(seqs)]
<1> DEFINE F == CHOOSE f : IsFlat(f, seqs, Len(seqs))
<1>1. IsFlat(F, seqs, Len(seqs)) BY FlatExists
<1>2. FlattenSeq(seqs) = F[Len(seqs)]
  BY DEF FlattenSeq, IsFlat
<1> QED BY <1>1, <1>2

\* The elements of the sequences up to the n-th, one after the other.
LEMMA FlatType ==
  ASSUME NEW V, NEW seqs \in Seq(Seq(V)), NEW f, IsFlat(f, seqs, Len(seqs)), NEW n \in 1 .. Len(seqs)
  PROVE  f[n] \in Seq(V)
<1> DEFINE S == {m \in Nat : m \in 1 .. Len(seqs) => f[m] \in Seq(V)}
<1>1. 0 \in S
  OBVIOUS
<1>2. ASSUME NEW m \in Nat, m \in S PROVE m + 1 \in S
  <2> SUFFICES ASSUME m + 1 \in 1 .. Len(seqs) PROVE f[m + 1] \in Seq(V)
    OBVIOUS
  <2>1. f[m + 1] = IF m + 1 = 1 THEN seqs[m + 1] ELSE f[m + 1 - 1] \o seqs[m + 1]
    BY FlatValue
  <2>2. seqs[m + 1] \in Seq(V)
    OBVIOUS
  <2>3. CASE m = 0
    BY <2>1, <2>2, <2>3
  <2>4. CASE m # 0
    <3>1. f[m] \in Seq(V) /\ m + 1 - 1 = m /\ m + 1 # 1
      BY <1>2, <2>4
    <3>2. f[m] \o seqs[m + 1] \in Seq(V)
      BY <3>1, <2>2, ConcatProperties
    <3> QED BY <2>1, <3>1, <3>2
  <2> QED BY <2>3, <2>4
<1> HIDE DEF S
<1>3. Nat \subseteq S
  BY <1>1, <1>2, NatSetInduction
<1> QED BY <1>3 DEF S

\* It does not depend on the sequences behind.
LEMMA FlatPrefix ==
  ASSUME NEW f, NEW g, NEW s, NEW t, NEW m \in Nat, NEW n \in Nat, m <= n,
         IsFlat(f, s, m), IsFlat(g, t, n), \A i \in 1 .. m : s[i] = t[i],
         NEW k \in 1 .. m
  PROVE  f[k] = g[k]
<1> DEFINE S == {i \in Nat : i \in 1 .. m => f[i] = g[i]}
<1>1. 0 \in S
  OBVIOUS
<1>2. ASSUME NEW i \in Nat, i \in S PROVE i + 1 \in S
  <2> SUFFICES ASSUME i + 1 \in 1 .. m PROVE f[i + 1] = g[i + 1]
    OBVIOUS
  <2>1. f[i + 1] = IF i + 1 = 1 THEN s[i + 1] ELSE f[i + 1 - 1] \o s[i + 1]
    BY FlatValue
  <2>2. g[i + 1] = IF i + 1 = 1 THEN t[i + 1] ELSE g[i + 1 - 1] \o t[i + 1]
    <3>1. i + 1 \in 1 .. n
      OBVIOUS
    <3> QED BY <3>1, FlatValue
  <2>3. i + 1 # 1 => f[i + 1 - 1] = g[i + 1 - 1]
    BY <1>2
  <2> QED BY <2>1, <2>2, <2>3
<1> HIDE DEF S
<1>3. Nat \subseteq S
  BY <1>1, <1>2, NatSetInduction
<1> QED BY <1>3 DEF S

LEMMA FlattenEmpty == FlattenSeq(<<>>) = <<>>
  BY DEF FlattenSeq

LEMMA FlattenType ==
  ASSUME NEW V, NEW seqs \in Seq(Seq(V))
  PROVE  FlattenSeq(seqs) \in Seq(V)
<1>1. CASE Len(seqs) = 0
  BY <1>1, EmptySeq DEF FlattenSeq
<1>2. CASE Len(seqs) # 0
  <2>1. PICK f : IsFlat(f, seqs, Len(seqs)) /\ FlattenSeq(seqs) = f[Len(seqs)]
    BY <1>2, FlatDef
  <2> QED BY <1>2, <2>1, FlatType
<1> QED BY <1>1, <1>2

LEMMA FlattenAppend ==
  ASSUME NEW V, NEW seqs \in Seq(Seq(V)), NEW x \in Seq(V)
  PROVE  FlattenSeq(Append(seqs, x)) = FlattenSeq(seqs) \o x
<1> DEFINE n == Len(seqs)
           more == Append(seqs, x)
<1>1. /\ n \in Nat /\ Len(more) = n + 1 /\ more[n + 1] = x
      /\ \A i \in 1 .. n : more[i] = seqs[i]
  BY AppendProperties
<1> HIDE DEF more
<1>2. PICK g : IsFlat(g, more, n + 1) /\ FlattenSeq(more) = g[n + 1]
  BY <1>1, FlatDef
<1>3. g[n + 1] = IF n + 1 = 1 THEN x ELSE g[n + 1 - 1] \o x
  BY <1>1, <1>2, FlatValue
<1>4. CASE n = 0
  <2>1. FlattenSeq(seqs) = <<>>
    BY <1>4, FlattenEmpty, EmptySeq
  <2> QED BY <1>2, <1>3, <1>4, <2>1, ConcatEmptySeq DEF more
<1>5. CASE n # 0
  <2>1. PICK f : IsFlat(f, seqs, n) /\ FlattenSeq(seqs) = f[n]
    BY <1>1, <1>5, FlatDef
  <2>2. f[n] = g[n]
    <3>1. n <= n + 1 /\ n \in 1 .. n /\ n + 1 \in Nat
      BY <1>1, <1>5
    <3>2. \A i \in 1 .. n : seqs[i] = more[i]
      BY <1>1
    <3> HIDE DEF n
    <3> QED BY <1>1, <1>2, <2>1, <3>1, <3>2, FlatPrefix
  <2>3. n + 1 # 1 /\ n + 1 - 1 = n
    BY <1>1, <1>5
  <2> QED BY <1>2, <1>3, <2>1, <2>2, <2>3 DEF more
<1> QED BY <1>4, <1>5

-----------------------------------------------------------------------------
(* The emitter's state *)

\* Records of the shape of struct flatcc_emitter, with pages of values in V.
Emitters(V) ==
    [front : Pages \cup {NULL}, back : Pages \cup {NULL},
     next : [Pages -> Pages \cup {NULL}], prev : [Pages -> Pages \cup {NULL}],
     page : [Pages -> [1 .. SIZE -> V]], page_offset : [Pages -> Int],
     front_left : 0 .. SIZE, back_left : 0 .. SIZE,
     used : Nat, capacity : Nat, used_average : Nat,
     heap : SUBSET Pages, memory : Nat]

\* The n pages of E in the order of their ring, from the front page on.
IsRing(E, r, n) ==
    /\ n \in Nat \ {0} /\ n = Cardinality(E.heap)
    /\ r \in [0 .. n - 1 -> E.heap]
    /\ \A i, j \in 0 .. n - 1 : r[i] = r[j] => i = j
    /\ \A p \in E.heap : \E i \in 0 .. n - 1 : r[i] = p
    /\ \A i \in 0 .. n - 2 : E.next[r[i]] = r[i + 1] /\ E.prev[r[i + 1]] = r[i]
    /\ E.next[r[n - 1]] = r[0] /\ E.prev[r[0]] = r[n - 1]
    /\ E.front = r[0]

\* The pages up to the back page, r[b], have addresses one after the other.
IsSpan(E, r, n, b) ==
    /\ b \in 0 .. n - 1 /\ E.back = r[b]
    /\ \A i \in 0 .. b - 1 : E.page_offset[r[i + 1]] = E.page_offset[r[i]] + SIZE
    /\ \A i, j \in 0 .. b : i < j => E.page_offset[r[j]] >= E.page_offset[r[i]] + SIZE

IsEmpty(E) ==
    /\ E.front = NULL /\ E.back = NULL /\ E.heap = {}
    /\ E.front_left = 0 /\ E.back_left = 0

\* malloc's pages are counted, and there are as many as it may give.
IsCounted(E) ==
    /\ E.capacity = SIZE * Cardinality(E.heap)
    /\ Cardinality(E.heap) <= E.memory /\ E.memory <= Cardinality(Pages)

IsWhole(E, r, n, b) == IsRing(E, r, n) /\ IsSpan(E, r, n, b)

\* The byte at address start + i - 1 is bytes[i], in whichever page it is.
HasContent(E, r, b, start, bytes) ==
    /\ E.page_offset[r[0]] + E.front_left = start
    /\ E.page_offset[r[b]] + SIZE - E.back_left = start + Len(bytes)
    /\ \A i \in 0 .. b, j \in 1 .. SIZE :
          E.page_offset[r[i]] + j - start \in 1 .. Len(bytes)
             => E.page[r[i]][j] = bytes[E.page_offset[r[i]] + j - start]

\* E holds bytes, the first of them at address start.
Holds(E, V, start, bytes) ==
    /\ E \in Emitters(V) /\ Garbage \in V /\ IsCounted(E)
    /\ start \in Int /\ bytes \in Seq(V)
    /\ \/ IsEmpty(E) /\ start = 0 /\ bytes = <<>>
       \/ \E r, n, b : IsWhole(E, r, n, b) /\ HasContent(E, r, b, start, bytes)

\* The rings and counters are sound, whatever the pages hold.
IsSound(E, V) == \E start, bytes : Holds(E, V, start, bytes)

\* What the calls of the emit function leave as it is.
SameUse(F, E) == F.used = E.used /\ F.used_average = E.used_average /\ F.memory = E.memory

EmitterFields == {"front", "back", "next", "prev", "page", "page_offset", "front_left",
                  "back_left", "used", "capacity", "used_average", "heap", "memory"}
IsRecord(E) == DOMAIN E = EmitterFields /\ E = [x \in EmitterFields |-> E[x]]

LEMMA RecordOfEmitter ==
  ASSUME NEW V, NEW E \in Emitters(V)
  PROVE  IsRecord(E) /\ DOMAIN E = EmitterFields
  BY DEF Emitters, IsRecord, EmitterFields

LEMMA EmitterFromFields ==
  ASSUME NEW V, NEW E, IsRecord(E),
         E.front \in Pages \cup {NULL}, E.back \in Pages \cup {NULL},
         E.next \in [Pages -> Pages \cup {NULL}], E.prev \in [Pages -> Pages \cup {NULL}],
         E.page \in [Pages -> [1 .. SIZE -> V]], E.page_offset \in [Pages -> Int],
         E.front_left \in 0 .. SIZE, E.back_left \in 0 .. SIZE,
         E.used \in Nat, E.capacity \in Nat, E.used_average \in Nat,
         E.heap \in SUBSET Pages, E.memory \in Nat
  PROVE  E \in Emitters(V)
  BY DEF Emitters, IsRecord, EmitterFields

-----------------------------------------------------------------------------
(* Pages *)

\* The ring seen from the page before the front page.
Before(r, n) == [i \in 0 .. n - 1 |-> IF i = 0 THEN r[n - 1] ELSE r[i - 1]]

LEMMA BeforeRing ==
  ASSUME NEW E, NEW F, NEW r, NEW n, IsRing(E, r, n),
         F.heap = E.heap, F.next = E.next, F.prev = E.prev, F.front = r[n - 1]
  PROVE  IsRing(F, Before(r, n), n)
<1> DEFINE s == Before(r, n)
<1>1. n \in Nat /\ n >= 1 /\ n - 1 \in 0 .. n - 1 /\ 0 \in 0 .. n - 1
  BY DEF IsRing
<1>2. /\ s[0] = r[n - 1] /\ DOMAIN s = 0 .. n - 1
      /\ \A i \in 1 .. n - 1 : s[i] = r[i - 1] /\ i - 1 \in 0 .. n - 2
      /\ \A i \in 0 .. n - 2 : s[i + 1] = r[i] /\ i \in 0 .. n - 1
  BY <1>1 DEF Before
<1>3. s \in [0 .. n - 1 -> F.heap]
  <2>1. r \in [0 .. n - 1 -> F.heap]
    BY DEF IsRing
  <2> QED BY <2>1, <1>1 DEF Before
<1> HIDE DEF s
<1>4. ASSUME NEW i \in 0 .. n - 1, NEW j \in 0 .. n - 1, s[i] = s[j] PROVE i = j
  <2>1. \A k, l \in 0 .. n - 1 : r[k] = r[l] => k = l
    BY DEF IsRing
  <2> DEFINE q(k) == IF k = 0 THEN n - 1 ELSE k - 1
  <2>2. \A k \in 0 .. n - 1 : s[k] = r[q(k)] /\ q(k) \in 0 .. n - 1
    <3>1. TAKE k \in 0 .. n - 1
    <3>2. CASE k = 0
      BY <1>1, <1>2, <3>2
    <3>3. CASE k # 0
      BY <1>1, <1>2, <3>3
    <3> QED BY <3>2, <3>3
  <2>3. q(i) = q(j)
    <3> HIDE DEF q
    <3> QED BY <1>4, <2>1, <2>2
  <2> QED BY <1>1, <2>3
<1>5. ASSUME NEW p \in F.heap PROVE \E i \in 0 .. n - 1 : s[i] = p
  <2>1. PICK i \in 0 .. n - 1 : r[i] = p
    BY DEF IsRing
  <2>2. CASE i = n - 1
    BY <1>1, <1>2, <2>1, <2>2
  <2>3. CASE i # n - 1
    <3>1. i + 1 \in 0 .. n - 1 /\ i \in 0 .. n - 2
      BY <1>1, <2>3
    <3> QED BY <1>2, <2>1, <3>1
  <2> QED BY <2>2, <2>3
<1>6. ASSUME NEW i \in 0 .. n - 2 PROVE F.next[s[i]] = s[i + 1] /\ F.prev[s[i + 1]] = s[i]
  <2>1. CASE i = 0
    BY <1>1, <1>2, <2>1 DEF IsRing
  <2>2. CASE i # 0
    <3>1. i - 1 \in 0 .. n - 2 /\ i \in 1 .. n - 1 /\ (i - 1) + 1 = i
      BY <1>1, <2>2
    <3>2. \A k \in 0 .. n - 2 : F.next[r[k]] = r[k + 1] /\ F.prev[r[k + 1]] = r[k]
      BY DEF IsRing
    <3>3. F.next[r[i - 1]] = r[i] /\ F.prev[r[i]] = r[i - 1]
      BY <3>1, <3>2
    <3>4. s[i] = r[i - 1] /\ s[i + 1] = r[i]
      BY <1>2, <3>1
    <3> QED BY ONLY <3>3, <3>4
  <2> QED BY <2>1, <2>2
<1>7. F.next[s[n - 1]] = s[0] /\ F.prev[s[0]] = s[n - 1]
  <2>1. CASE n = 1
    BY <1>2, <2>1 DEF IsRing
  <2>2. CASE n # 1
    <3>1. n - 2 \in 0 .. n - 2 /\ n - 1 \in 1 .. n - 1 /\ (n - 2) + 1 = n - 1 /\ (n - 1) - 1 = n - 2
      BY <1>1, <2>2
    <3> QED BY <1>2, <3>1 DEF IsRing
  <2> QED BY <2>1, <2>2
<1> QED BY <1>1, <1>2, <1>3, <1>4, <1>5, <1>6, <1>7 DEF IsRing, s

\* A ring of one page more, linked behind the last.
Longer(r, n, p) == [i \in 0 .. n |-> IF i = n THEN p ELSE r[i]]

LEMMA LongerRing ==
  ASSUME NEW E, NEW F, NEW r, NEW n, IsRing(E, r, n), IsFiniteSet(E.heap),
         NEW p, p \notin E.heap, F.heap = E.heap \cup {p}, F.front = r[0],
         F.next[p] = r[0], F.prev[p] = r[n - 1], F.next[r[n - 1]] = p, F.prev[r[0]] = p,
         \A q \in E.heap : q # r[n - 1] => F.next[q] = E.next[q],
         \A q \in E.heap : q # r[0] => F.prev[q] = E.prev[q]
  PROVE  IsRing(F, Longer(r, n, p), n + 1)
<1> DEFINE s == Longer(r, n, p)
<1>1. n \in Nat /\ n >= 1 /\ n - 1 \in 0 .. n - 1 /\ 0 \in 0 .. n - 1 /\ (n + 1) - 1 = n
  BY DEF IsRing
<1>2. /\ s[n] = p /\ \A i \in 0 .. n - 1 : s[i] = r[i] /\ r[i] \in E.heap
      /\ DOMAIN s = 0 .. n
  BY <1>1 DEF Longer, IsRing
<1>3. s \in [0 .. n -> F.heap]
  BY <1>1 DEF Longer, IsRing
<1>4. n + 1 = Cardinality(F.heap)
  <2>1. Cardinality(E.heap \cup {p}) = Cardinality(E.heap) + 1
    BY FS_AddElement, IsFiniteSet(E.heap), p \notin E.heap
  <2> QED BY <2>1 DEF IsRing
<1> HIDE DEF s
<1>5. ASSUME NEW i \in 0 .. n, NEW j \in 0 .. n, s[i] = s[j] PROVE i = j
  <2>1. \A k, l \in 0 .. n - 1 : r[k] = r[l] => k = l
    BY DEF IsRing
  <2>2. CASE i \in 0 .. n - 1 /\ j \in 0 .. n - 1
    BY <1>2, <1>5, <2>1, <2>2
  <2>3. CASE i = n \/ j = n
    <3>1. \A k \in 0 .. n - 1 : s[k] # p
      BY <1>2
    <3> QED BY <1>1, <1>2, <1>5, <2>3, <3>1
  <2> QED BY <1>1, <2>2, <2>3
<1>6. ASSUME NEW q \in F.heap PROVE \E i \in 0 .. n : s[i] = q
  <2>1. CASE q = p
    BY <1>1, <1>2, <2>1
  <2>2. CASE q # p
    <3>1. PICK i \in 0 .. n - 1 : r[i] = q
      BY <2>2 DEF IsRing
    <3> QED BY <1>1, <1>2, <3>1
  <2> QED BY <2>1, <2>2
<1>7. ASSUME NEW i \in 0 .. (n + 1) - 2 PROVE F.next[s[i]] = s[i + 1] /\ F.prev[s[i + 1]] = s[i]
  <2>1. CASE i = n - 1
    BY <1>1, <1>2, <2>1
  <2>2. CASE i # n - 1
    <3>1. i \in 0 .. n - 2 /\ i + 1 \in 0 .. n - 1 /\ i \in 0 .. n - 1 /\ i + 1 # 0
      BY <1>1, <2>2
    <3>2. r[i] # r[n - 1] /\ r[i + 1] # r[0]
      BY <1>1, <2>2, <3>1 DEF IsRing
    <3>3. E.next[r[i]] = r[i + 1] /\ E.prev[r[i + 1]] = r[i]
      BY <3>1 DEF IsRing
    <3>4. s[i] = r[i] /\ s[i + 1] = r[i + 1] /\ r[i] \in E.heap /\ r[i + 1] \in E.heap
      BY <1>2, <3>1
    <3>5. F.next[r[i]] = E.next[r[i]]
      BY <3>2, <3>4
    <3>6. F.prev[r[i + 1]] = E.prev[r[i + 1]]
      BY <3>2, <3>4
    <3> QED BY <3>3, <3>4, <3>5, <3>6
  <2> QED BY <2>1, <2>2
<1>8. F.next[s[(n + 1) - 1]] = s[0] /\ F.prev[s[0]] = s[(n + 1) - 1] /\ F.front = s[0]
  BY <1>1, <1>2
<1>9. IsRing(F, s, n + 1)
  BY ONLY <1>1, <1>3, <1>4, <1>5, <1>6, <1>7, <1>8 DEF IsRing
<1> QED BY ONLY <1>9 DEF s

LEMMA SizeFacts ==
  /\ SIZE \in Nat /\ SIZE >= 2 /\ IsFiniteSet(Pages) /\ NULL \notin Pages
  /\ SIZE \div 2 \in 1 .. SIZE - 1
  BY PageAssumption DEF PageAssumption, SIZE

\* F is E with a page opened in front of the span, or behind it; s are its pages.
OpensFront(F, E, r, s, b) ==
    /\ E.front_left = 0
    /\ \A i \in 0 .. b : s[i + 1] = r[i]
    /\ F.back = E.back /\ F.front_left = SIZE /\ F.back_left = E.back_left
    /\ F.page_offset[s[0]] = E.page_offset[r[0]] - SIZE
    /\ \A i \in 0 .. b : F.page_offset[r[i]] = E.page_offset[r[i]]
    /\ \A i \in 0 .. b : F.page[r[i]] = E.page[r[i]]
OpensBack(F, E, r, s, b) ==
    /\ E.back_left = 0
    /\ \A i \in 0 .. b : s[i] = r[i]
    /\ F.back = s[b + 1] /\ F.front_left = E.front_left /\ F.back_left = SIZE
    /\ F.page_offset[s[b + 1]] = E.page_offset[r[b]] + SIZE
    /\ \A i \in 0 .. b : F.page_offset[r[i]] = E.page_offset[r[i]]
    /\ \A i \in 0 .. b : F.page[r[i]] = E.page[r[i]]

LEMMA OpenedFront ==
  ASSUME NEW V, NEW E, NEW F, NEW r, NEW s, NEW n, NEW m, NEW b, NEW start, NEW bytes,
         E \in Emitters(V), IsSpan(E, r, n, b), HasContent(E, r, b, start, bytes),
         r \in [0 .. n - 1 -> Pages], n \in Nat, m \in Nat, b + 1 \in 0 .. m - 1,
         bytes \in Seq(V), start \in Int, OpensFront(F, E, r, s, b)
  PROVE  IsSpan(F, s, m, b + 1) /\ HasContent(F, s, b + 1, start, bytes)
<1> USE DEF OpensFront
<1> DEFINE off == E.page_offset
           new == F.page_offset
           base == off[r[0]]
<1>1. SIZE \in Nat /\ b \in 0 .. n - 1 /\ b \in Nat /\ 0 \in 0 .. b /\ b \in 0 .. b
  BY SizeFacts DEF IsSpan
<1>2. \A i \in 0 .. b : r[i] \in Pages /\ off[r[i]] \in Int
  <2>1. off \in [Pages -> Int]
    BY DEF Emitters
  <2>2. \A i \in 0 .. b : i \in 0 .. n - 1
    BY <1>1
  <2> HIDE DEF off
  <2> QED BY <2>1, <2>2
<1>3. base = start /\ base \in Int
  BY <1>1, <1>2 DEF HasContent, Emitters
<1>4. new[s[0]] = base - SIZE /\ \A i \in 0 .. b : new[s[i + 1]] = off[r[i]]
  OBVIOUS
<1>5. \A i \in 1 .. b + 1 : i - 1 \in 0 .. b /\ (i - 1) + 1 = i
  BY <1>1
<1>6. \A i \in 1 .. b + 1 : new[s[i]] = off[r[i - 1]]
  BY <1>4, <1>5
<1>7. \A i \in 0 .. b : off[r[i]] >= base
  <2>1. TAKE i \in 0 .. b
  <2>2. CASE i = 0
    BY <1>3, <2>2
  <2>3. CASE i # 0
    <3>1. off[r[i]] >= base + SIZE
      BY <1>1, <2>3 DEF IsSpan
    <3> QED BY <1>1, <1>2, <1>3, <3>1
  <2> QED BY <2>2, <2>3
<1>8. ASSUME NEW i \in 0 .. (b + 1) - 1 PROVE new[s[i + 1]] = new[s[i]] + SIZE
  <2>1. CASE i = 0
    BY <1>1, <1>3, <1>4, <2>1
  <2>2. CASE i # 0
    <3>1. i \in 1 .. b + 1 /\ i \in 0 .. b /\ i - 1 \in 0 .. b - 1 /\ (i - 1) + 1 = i
      BY <1>1, <2>2
    <3>2. off[r[(i - 1) + 1]] = off[r[i - 1]] + SIZE
      BY <3>1 DEF IsSpan
    <3> QED BY <1>4, <1>6, <3>1, <3>2
  <2> QED BY <2>1, <2>2
<1>9. ASSUME NEW i \in 0 .. b + 1, NEW j \in 0 .. b + 1, i < j
      PROVE  new[s[j]] >= new[s[i]] + SIZE
  <2>1. j \in 1 .. b + 1 /\ j - 1 \in 0 .. b
    BY <1>1, <1>9
  <2>2. CASE i = 0
    <3>1. new[s[j]] = off[r[j - 1]] /\ off[r[j - 1]] \in Int /\ off[r[j - 1]] >= base
      BY <1>2, <1>6, <1>7, <2>1
    <3>2. new[s[i]] = base - SIZE
      BY <1>4, <2>2
    <3> HIDE DEF new, off, base
    <3> QED BY <1>1, <1>3, <3>1, <3>2
  <2>3. CASE i # 0
    <3>1. i \in 1 .. b + 1 /\ i - 1 \in 0 .. b /\ i - 1 < j - 1
      BY <1>1, <1>9, <2>3
    <3>2. off[r[j - 1]] >= off[r[i - 1]] + SIZE
      BY <2>1, <3>1 DEF IsSpan
    <3> QED BY <1>6, <2>1, <3>1, <3>2
  <2> QED BY <2>2, <2>3
<1>10. IsSpan(F, s, m, b + 1)
  <2>1. F.back = s[b + 1]
    BY <1>1 DEF IsSpan
  <2> HIDE DEF new, off
  <2> QED BY <1>8, <1>9, <2>1 DEF IsSpan, new
<1>11. ASSUME NEW i \in 0 .. b + 1, NEW j \in 1 .. SIZE, new[s[i]] + j - start \in 1 .. Len(bytes)
       PROVE  F.page[s[i]][j] = bytes[new[s[i]] + j - start]
  <2>1. CASE i = 0
    BY <1>1, <1>3, <1>4, <1>11, <2>1
  <2>2. CASE i # 0
    <3>1. i \in 1 .. b + 1 /\ i - 1 \in 0 .. b /\ (i - 1) + 1 = i
      BY <1>1, <2>2
    <3>2. F.page[s[i]] = E.page[r[i - 1]] /\ new[s[i]] = off[r[i - 1]]
      BY <1>6, <3>1
    <3> QED BY <1>11, <3>1, <3>2 DEF HasContent
  <2> QED BY <2>1, <2>2
<1>12. HasContent(F, s, b + 1, start, bytes)
  <2>1. new[s[0]] + F.front_left = start
    BY <1>1, <1>3, <1>4
  <2>2. new[s[b + 1]] + SIZE - F.back_left = start + Len(bytes)
    BY <1>1, <1>4 DEF HasContent
  <2> HIDE DEF new, off
  <2> QED BY <1>11, <2>1, <2>2 DEF HasContent, new
<1> QED BY <1>10, <1>12

LEMMA OpenedBack ==
  ASSUME NEW V, NEW E, NEW F, NEW r, NEW s, NEW n, NEW m, NEW b, NEW start, NEW bytes,
         E \in Emitters(V), IsSpan(E, r, n, b), HasContent(E, r, b, start, bytes),
         r \in [0 .. n - 1 -> Pages], n \in Nat, m \in Nat, b + 1 \in 0 .. m - 1,
         bytes \in Seq(V), start \in Int, OpensBack(F, E, r, s, b)
  PROVE  IsSpan(F, s, m, b + 1) /\ HasContent(F, s, b + 1, start, bytes)
<1> USE DEF OpensBack
<1> DEFINE off == E.page_offset
           new == F.page_offset
           base == off[r[b]]
<1>1. SIZE \in Nat /\ b \in 0 .. n - 1 /\ b \in Nat /\ 0 \in 0 .. b /\ b \in 0 .. b
  BY SizeFacts DEF IsSpan
<1>2. \A i \in 0 .. b : r[i] \in Pages /\ off[r[i]] \in Int
  <2>1. off \in [Pages -> Int]
    BY DEF Emitters
  <2>2. \A i \in 0 .. b : i \in 0 .. n - 1
    BY <1>1
  <2> HIDE DEF off
  <2> QED BY <2>1, <2>2
<1>3. base + SIZE = start + Len(bytes) /\ base \in Int /\ Len(bytes) \in Nat
  BY <1>1, <1>2 DEF HasContent, Emitters
<1>4. new[s[b + 1]] = base + SIZE /\ \A i \in 0 .. b : new[s[i]] = off[r[i]]
  OBVIOUS
<1>5. \A i \in 0 .. b : off[r[i]] <= base
  <2>1. TAKE i \in 0 .. b
  <2>2. CASE i = b
    BY <1>3, <2>2
  <2>3. CASE i # b
    <3>1. base >= off[r[i]] + SIZE
      BY <1>1, <2>3 DEF IsSpan
    <3>2. off[r[i]] \in Int
      BY <1>2
    <3> HIDE DEF off, base
    <3> QED BY <1>1, <1>3, <3>1, <3>2
  <2> QED BY <2>2, <2>3
<1>6. ASSUME NEW i \in 0 .. (b + 1) - 1 PROVE new[s[i + 1]] = new[s[i]] + SIZE
  <2>1. CASE i = b
    BY <1>1, <1>4, <2>1
  <2>2. CASE i # b
    <3>1. i \in 0 .. b - 1 /\ i \in 0 .. b /\ i + 1 \in 0 .. b
      BY <1>1, <2>2
    <3>2. off[r[i + 1]] = off[r[i]] + SIZE
      BY <3>1 DEF IsSpan
    <3> QED BY <1>4, <3>1, <3>2
  <2> QED BY <2>1, <2>2
<1>7. ASSUME NEW i \in 0 .. b + 1, NEW j \in 0 .. b + 1, i < j
      PROVE  new[s[j]] >= new[s[i]] + SIZE
  <2>1. i \in 0 .. b
    BY <1>1, <1>7
  <2>2. CASE j = b + 1
    <3>1. new[s[i]] = off[r[i]] /\ off[r[i]] \in Int /\ off[r[i]] <= base
      BY <1>2, <1>4, <1>5, <2>1
    <3>2. new[s[j]] = base + SIZE
      BY <1>4, <2>2
    <3> HIDE DEF new, off, base
    <3> QED BY <1>1, <1>3, <3>1, <3>2
  <2>3. CASE j # b + 1
    <3>1. j \in 0 .. b
      BY <1>1, <2>3
    <3>2. off[r[j]] >= off[r[i]] + SIZE
      BY <1>7, <2>1, <3>1 DEF IsSpan
    <3> QED BY <1>4, <2>1, <3>1, <3>2
  <2> QED BY <2>2, <2>3
<1>8. IsSpan(F, s, m, b + 1)
  <2> HIDE DEF new, off
  <2> QED BY <1>6, <1>7 DEF IsSpan, new
<1>9. ASSUME NEW i \in 0 .. b + 1, NEW j \in 1 .. SIZE, new[s[i]] + j - start \in 1 .. Len(bytes)
      PROVE  F.page[s[i]][j] = bytes[new[s[i]] + j - start]
  <2>1. CASE i = b + 1
    BY <1>1, <1>3, <1>4, <1>9, <2>1
  <2>2. CASE i # b + 1
    <3>1. i \in 0 .. b
      BY <1>1, <2>2
    <3>2. F.page[s[i]] = E.page[r[i]] /\ new[s[i]] = off[r[i]]
      BY <1>4, <3>1
    <3> QED BY <1>9, <3>1, <3>2 DEF HasContent
  <2> QED BY <2>1, <2>2
<1>10. HasContent(F, s, b + 1, start, bytes)
  <2>1. new[s[0]] + F.front_left = start
    BY <1>1, <1>4 DEF HasContent
  <2>2. new[s[b + 1]] + SIZE - F.back_left = start + Len(bytes)
    BY <1>1, <1>3, <1>4
  <2> HIDE DEF new, off
  <2> QED BY <1>9, <2>1, <2>2 DEF HasContent, new
<1> QED BY <1>8, <1>10

\* malloc has a page left, and it is none of E's.
LEMMA NewPageType ==
  ASSUME NEW E, E.heap \in SUBSET Pages, IsCounted(E), ~OutOfMemory(E), E.memory \in Nat
  PROVE  NewPage(E) \in Pages /\ NewPage(E) \notin E.heap
<1>1. IsFiniteSet(E.heap) /\ IsFiniteSet(Pages)
  BY SizeFacts, FS_Subset
<1>2. Cardinality(E.heap) \in Nat /\ Cardinality(Pages) \in Nat
  BY <1>1, FS_CardinalityType
<1>3. Cardinality(E.heap) < Cardinality(Pages)
  BY <1>2 DEF IsCounted, OutOfMemory
<1>4. \E p \in Pages : p \notin E.heap
  <2> SUFFICES ASSUME ~ \E p \in Pages : p \notin E.heap PROVE FALSE
    OBVIOUS
  <2>1. E.heap = Pages
    OBVIOUS
  <2> QED BY <1>2, <1>3, <2>1
<1> QED BY <1>4 DEF NewPage

LEMMA AllocatedType ==
  ASSUME NEW V, NEW E, E \in Emitters(V), Garbage \in V, IsCounted(E), ~OutOfMemory(E),
         NEW p \in Pages, p \notin E.heap
  PROVE  /\ Allocated(E, p) \in Emitters(V) /\ IsCounted(Allocated(E, p))
         /\ Allocated(E, p).heap = E.heap \cup {p}
         /\ Allocated(E, p).page = [E.page EXCEPT ![p] = Blank]
         /\ Allocated(E, p).front = E.front /\ Allocated(E, p).back = E.back
         /\ Allocated(E, p).next = E.next /\ Allocated(E, p).prev = E.prev
         /\ Allocated(E, p).page_offset = E.page_offset
         /\ Allocated(E, p).front_left = E.front_left
         /\ Allocated(E, p).back_left = E.back_left
         /\ SameUse(Allocated(E, p), E)
<1> DEFINE F == Allocated(E, p)
<1>1. DOMAIN E = EmitterFields
  BY RecordOfEmitter
<1>2. IsRecord(F)
  BY ONLY <1>1 DEF IsRecord, F, Allocated
<1>3. /\ F.heap = E.heap \cup {p} /\ F.page = [E.page EXCEPT ![p] = Blank]
      /\ F.capacity = E.capacity + SIZE
      /\ F.front = E.front /\ F.back = E.back /\ F.next = E.next /\ F.prev = E.prev
      /\ F.page_offset = E.page_offset /\ F.front_left = E.front_left
      /\ F.back_left = E.back_left /\ F.memory = E.memory
      /\ F.used = E.used /\ F.used_average = E.used_average
  BY ONLY <1>1 DEF EmitterFields, F, Allocated
<1> HIDE DEF F
<1>4. Blank \in [1 .. SIZE -> V]
  BY DEF Blank
<1>5. F.page \in [Pages -> [1 .. SIZE -> V]] /\ F.heap \in SUBSET Pages
  BY <1>3, <1>4 DEF Emitters
<1>6. SIZE \in Nat /\ E.capacity \in Nat /\ F.capacity \in Nat /\ E.memory \in Nat
  BY <1>3, SizeFacts DEF Emitters
<1>7. F \in Emitters(V)
  <2>1. /\ E.front \in Pages \cup {NULL} /\ E.back \in Pages \cup {NULL}
        /\ E.next \in [Pages -> Pages \cup {NULL}] /\ E.prev \in [Pages -> Pages \cup {NULL}]
        /\ E.page_offset \in [Pages -> Int]
        /\ E.front_left \in 0 .. SIZE /\ E.back_left \in 0 .. SIZE
        /\ E.used \in Nat /\ E.used_average \in Nat
    BY DEF Emitters
  <2> QED BY <1>2, <1>3, <1>5, <1>6, <2>1, EmitterFromFields
<1>8. IsFiniteSet(E.heap)
  BY SizeFacts, FS_Subset DEF Emitters
<1>9. Cardinality(F.heap) = Cardinality(E.heap) + 1 /\ Cardinality(E.heap) \in Nat
  BY <1>3, <1>8, FS_AddElement, FS_CardinalityType
<1>10. IsCounted(F)
  <2> DEFINE c == Cardinality(E.heap)
  <2>1. E.capacity = SIZE * c /\ c < E.memory /\ E.memory <= Cardinality(Pages)
    BY <1>6, <1>9 DEF IsCounted, OutOfMemory
  <2> HIDE DEF c
  <2>2. SIZE * (c + 1) = SIZE * c + SIZE /\ c \in Nat
    BY <1>6, <1>9 DEF c
  <2>3. F.capacity = SIZE * (c + 1) /\ c + 1 <= F.memory /\ F.memory <= Cardinality(Pages)
    BY <1>3, <1>6, <2>1, <2>2
  <2> QED BY <1>9, <2>3 DEF IsCounted, c
<1> QED BY <1>3, <1>7, <1>10 DEF SameUse, F

LEMMA FirstPageHolds ==
  ASSUME NEW V, NEW E, E \in Emitters(V), Garbage \in V, IsCounted(E),
         NEW p \in Pages, E.heap = {p}
  PROVE  /\ Holds(FirstPage(E, p), V, 0, <<>>)
         /\ FirstPage(E, p).front = p /\ FirstPage(E, p).back = p
         /\ SameUse(FirstPage(E, p), E)
         /\ FirstPage(E, p).front_left > 0 /\ FirstPage(E, p).back_left > 0
<1> DEFINE F == FirstPage(E, p)
           H == SIZE \div 2
           r == [i \in 0 .. 0 |-> p]
<1>1. SIZE \in Nat /\ H \in 1 .. SIZE - 1 /\ p # NULL /\ -H \in Int
  BY SizeFacts
<1> HIDE DEF H
<1>2. DOMAIN E = EmitterFields
  BY RecordOfEmitter
<1>3. IsRecord(F)
  BY ONLY <1>2 DEF IsRecord, F, FirstPage
<1>4. /\ F.heap = E.heap /\ F.capacity = E.capacity /\ F.front = p /\ F.back = p
      /\ F.front_left = H /\ F.back_left = SIZE - H /\ F.memory = E.memory
      /\ F.used = E.used /\ F.used_average = E.used_average /\ F.page = E.page
      /\ F.next = [E.next EXCEPT ![p] = p] /\ F.prev = [E.prev EXCEPT ![p] = p]
      /\ F.page_offset = [E.page_offset EXCEPT ![p] = -H]
  BY ONLY <1>2 DEF EmitterFields, F, FirstPage, H
<1> HIDE DEF F
<1>5. F.next[p] = p /\ F.prev[p] = p /\ F.page_offset[p] = -H
  BY <1>4 DEF Emitters
<1>6. Cardinality(F.heap) = 1
  <2>1. Cardinality({p}) = 1
    BY FS_Singleton
  <2> QED BY <1>4, <2>1
<1>7. F \in Emitters(V)
  <2>1. /\ F.next \in [Pages -> Pages \cup {NULL}] /\ F.prev \in [Pages -> Pages \cup {NULL}]
        /\ F.page_offset \in [Pages -> Int]
    BY <1>1, <1>4 DEF Emitters
  <2>2. /\ F.used \in Nat /\ F.used_average \in Nat /\ F.memory \in Nat /\ F.capacity \in Nat
        /\ F.page \in [Pages -> [1 .. SIZE -> V]]
    BY <1>4 DEF Emitters
  <2>3. F.front_left \in 0 .. SIZE /\ F.back_left \in 0 .. SIZE
    BY <1>1, <1>4
  <2>4. F.heap \in SUBSET Pages /\ F.front \in Pages \cup {NULL} /\ F.back \in Pages \cup {NULL}
    BY <1>4
  <2> QED BY <1>3, <2>1, <2>2, <2>3, <2>4, EmitterFromFields
<1>8. IsCounted(F)
  BY <1>4 DEF IsCounted
<1>9. r[0] = p /\ r \in [0 .. 1 - 1 -> F.heap] /\ \A i \in 0 .. 0 : i = 0
  BY <1>4
<1> HIDE DEF r
<1>10. IsRing(F, r, 1)
  BY <1>4, <1>5, <1>6, <1>9 DEF IsRing
<1>11. IsSpan(F, r, 1, 0)
  BY <1>4, <1>9 DEF IsSpan
<1>12. HasContent(F, r, 0, 0, <<>>)
  BY <1>1, <1>4, <1>5, <1>9 DEF HasContent
<1>13. IsWhole(F, r, 1, 0)
  BY <1>10, <1>11 DEF IsWhole
<1>14. Holds(F, V, 0, <<>>)
  BY <1>7, <1>8, <1>12, <1>13 DEF Holds
<1> QED BY <1>1, <1>4, <1>14 DEF SameUse, F

\* What becomes of a deque when advance_front or advance_back succeeds on E.
AdvancedFrom(F, E, V, start, bytes) ==
    Holds(F, V, start, bytes) /\ F.front # NULL /\ F.back # NULL /\ SameUse(F, E)

\* A is E with s[0] as its front page, or s[b + 1] as its back page, before
\* the page is opened.
PutsFront(A, E, r, s, b) ==
    /\ \A i \in 0 .. b : s[i + 1] = r[i] /\ A.page[r[i]] = E.page[r[i]]
    /\ \A i \in 0 .. b : r[i] # s[0]
    /\ A.back = E.back /\ A.back_left = E.back_left /\ A.page_offset = E.page_offset
PutsBack(A, E, r, s, b) ==
    /\ \A i \in 0 .. b : s[i] = r[i] /\ A.page[r[i]] = E.page[r[i]]
    /\ \A i \in 0 .. b : r[i] # s[b + 1]
    /\ A.back = s[b + 1] /\ A.front_left = E.front_left /\ A.page_offset = E.page_offset

LEMMA OpenFrontHolds ==
  ASSUME NEW V, NEW E, NEW A, NEW r, NEW s, NEW n, NEW m, NEW b, NEW start, NEW bytes,
         E \in Emitters(V), IsSpan(E, r, n, b), HasContent(E, r, b, start, bytes),
         r \in [0 .. n - 1 -> Pages], n \in Nat, m \in Nat, b + 1 \in 0 .. m - 1,
         bytes \in Seq(V), start \in Int, E.front_left = 0, Garbage \in V,
         A \in Emitters(V), IsCounted(A), IsRing(A, s, m), SameUse(A, E),
         PutsFront(A, E, r, s, b)
  PROVE  AdvancedFrom(OpenFront(A), E, V, start, bytes) /\ OpenFront(A).front_left > 0
<1> USE DEF PutsFront
<1> DEFINE F == OpenFront(A)
<1>1. DOMAIN A = EmitterFields
  BY RecordOfEmitter
<1>2. IsRecord(F)
  BY ONLY <1>1 DEF IsRecord, F, OpenFront
<1>3. /\ F.heap = A.heap /\ F.capacity = A.capacity /\ F.front = A.front /\ F.back = A.back
      /\ F.front_left = SIZE /\ F.back_left = A.back_left /\ F.memory = A.memory
      /\ F.used = A.used /\ F.used_average = A.used_average /\ F.page = A.page
      /\ F.next = A.next /\ F.prev = A.prev
      /\ F.page_offset = [A.page_offset EXCEPT
                             ![A.front] = A.page_offset[A.next[A.front]] - SIZE]
  BY ONLY <1>1 DEF EmitterFields, F, OpenFront
<1> HIDE DEF F
<1>4. SIZE \in Nat /\ SIZE >= 2 /\ NULL \notin Pages
  BY SizeFacts
<1>5. /\ b \in 0 .. n - 1 /\ b \in Nat /\ 0 \in 0 .. b /\ b \in 0 .. b /\ m >= 2
      /\ 0 \in 0 .. m - 2 /\ 0 \in 0 .. m - 1
  BY DEF IsSpan
<1>6. s[0] \in Pages /\ A.front = s[0] /\ A.next[s[0]] = r[0] /\ r[0] \in Pages
  <2>1. s[0] \in A.heap /\ A.front = s[0] /\ A.next[s[0]] = s[0 + 1]
    BY <1>5 DEF IsRing
  <2>2. s[0 + 1] = r[0] /\ A.heap \in SUBSET Pages
    BY <1>5 DEF Emitters
  <2> QED BY <1>5, <2>1, <2>2
<1>7. F.page_offset = [E.page_offset EXCEPT ![s[0]] = E.page_offset[r[0]] - SIZE]
  BY <1>3, <1>6
<1>8. E.page_offset \in [Pages -> Int] /\ E.page_offset[r[0]] - SIZE \in Int
  <2>1. E.page_offset \in [Pages -> Int]
    BY DEF Emitters
  <2> QED BY <1>4, <1>6, <2>1
<1>9. /\ F.page_offset \in [Pages -> Int]
      /\ F.page_offset[s[0]] = E.page_offset[r[0]] - SIZE
  BY <1>6, <1>7, <1>8
<1>10. \A i \in 0 .. b : F.page_offset[r[i]] = E.page_offset[r[i]] /\ r[i] \in Pages
  <2>1. \A i \in 0 .. b : r[i] \in Pages /\ r[i] # s[0]
    BY <1>5
  <2> QED BY <1>7, <1>8, <2>1
<1>11. F \in Emitters(V)
  <2>1. /\ A.next \in [Pages -> Pages \cup {NULL}] /\ A.prev \in [Pages -> Pages \cup {NULL}]
        /\ A.front \in Pages \cup {NULL} /\ A.back \in Pages \cup {NULL}
        /\ A.page \in [Pages -> [1 .. SIZE -> V]] /\ A.back_left \in 0 .. SIZE
        /\ A.used \in Nat /\ A.used_average \in Nat /\ A.memory \in Nat /\ A.capacity \in Nat
        /\ A.heap \in SUBSET Pages
    BY DEF Emitters
  <2>2. F.front_left \in 0 .. SIZE
    BY <1>3, <1>4
  <2> QED BY <1>2, <1>3, <1>9, <2>1, <2>2, EmitterFromFields
<1>12. IsCounted(F)
  BY <1>3 DEF IsCounted
<1>13. IsRing(F, s, m)
  BY <1>3 DEF IsRing
<1>14. IsSpan(F, s, m, b + 1) /\ HasContent(F, s, b + 1, start, bytes)
  <2>1. \A i \in 0 .. b : s[i + 1] = r[i]
    OBVIOUS
  <2>2. \A i \in 0 .. b : F.page[r[i]] = E.page[r[i]]
    BY <1>3
  <2>3. \A i \in 0 .. b : F.page_offset[r[i]] = E.page_offset[r[i]]
    BY <1>10
  <2>5. F.page_offset[s[0]] = E.page_offset[r[0]] - SIZE
    BY <1>9
  <2>4. F.back = E.back /\ F.front_left = SIZE /\ F.back_left = E.back_left
    BY <1>3
  <2>6. OpensFront(F, E, r, s, b)
    BY <2>1, <2>2, <2>3, <2>4, <2>5 DEF OpensFront
  <2> QED BY <2>6, OpenedFront
<1>15. IsWhole(F, s, m, b + 1)
  BY <1>13, <1>14 DEF IsWhole
<1>16. Holds(F, V, start, bytes)
  BY <1>11, <1>12, <1>14, <1>15 DEF Holds
<1>17. F.front # NULL /\ F.back # NULL
  BY <1>3, <1>4, <1>5, <1>6 DEF IsSpan
<1> QED BY <1>3, <1>4, <1>16, <1>17 DEF SameUse, AdvancedFrom, F

LEMMA OpenBackHolds ==
  ASSUME NEW V, NEW E, NEW A, NEW r, NEW s, NEW n, NEW m, NEW b, NEW start, NEW bytes,
         E \in Emitters(V), IsSpan(E, r, n, b), HasContent(E, r, b, start, bytes),
         r \in [0 .. n - 1 -> Pages], n \in Nat, m \in Nat, b + 1 \in 0 .. m - 1,
         bytes \in Seq(V), start \in Int, E.back_left = 0, Garbage \in V,
         A \in Emitters(V), IsCounted(A), IsRing(A, s, m), SameUse(A, E),
         PutsBack(A, E, r, s, b)
  PROVE  AdvancedFrom(OpenBack(A), E, V, start, bytes) /\ OpenBack(A).back_left > 0
<1> USE DEF PutsBack
<1> DEFINE F == OpenBack(A)
<1>1. DOMAIN A = EmitterFields
  BY RecordOfEmitter
<1>2. IsRecord(F)
  BY ONLY <1>1 DEF IsRecord, F, OpenBack
<1>3. /\ F.heap = A.heap /\ F.capacity = A.capacity /\ F.front = A.front /\ F.back = A.back
      /\ F.front_left = A.front_left /\ F.back_left = SIZE /\ F.memory = A.memory
      /\ F.used = A.used /\ F.used_average = A.used_average /\ F.page = A.page
      /\ F.next = A.next /\ F.prev = A.prev
      /\ F.page_offset = [A.page_offset EXCEPT
                             ![A.back] = A.page_offset[A.prev[A.back]] + SIZE]
  BY ONLY <1>1 DEF EmitterFields, F, OpenBack
<1> HIDE DEF F
<1>4. SIZE \in Nat /\ SIZE >= 2 /\ NULL \notin Pages
  BY SizeFacts
<1>5. /\ b \in 0 .. n - 1 /\ b \in Nat /\ 0 \in 0 .. b /\ b \in 0 .. b /\ m >= 2
      /\ b \in 0 .. m - 2 /\ 0 \in 0 .. m - 1
  BY DEF IsSpan
<1>6. s[b + 1] \in Pages /\ A.prev[s[b + 1]] = r[b] /\ r[b] \in Pages
  <2>1. s[b + 1] \in A.heap /\ A.prev[s[b + 1]] = s[b]
    BY <1>5 DEF IsRing
  <2>2. s[b] = r[b] /\ A.heap \in SUBSET Pages
    BY <1>5 DEF Emitters
  <2> QED BY <1>5, <2>1, <2>2
<1>7. F.page_offset = [E.page_offset EXCEPT ![s[b + 1]] = E.page_offset[r[b]] + SIZE]
  BY <1>3, <1>6
<1>8. E.page_offset \in [Pages -> Int] /\ E.page_offset[r[b]] + SIZE \in Int
  <2>1. E.page_offset \in [Pages -> Int]
    BY DEF Emitters
  <2> QED BY <1>4, <1>6, <2>1
<1>9. /\ F.page_offset \in [Pages -> Int]
      /\ F.page_offset[s[b + 1]] = E.page_offset[r[b]] + SIZE
  BY <1>6, <1>7, <1>8
<1>10. \A i \in 0 .. b : F.page_offset[r[i]] = E.page_offset[r[i]] /\ r[i] \in Pages
  <2>1. \A i \in 0 .. b : r[i] \in Pages /\ r[i] # s[b + 1]
    BY <1>5
  <2> QED BY <1>7, <1>8, <2>1
<1>11. F \in Emitters(V)
  <2>1. /\ A.next \in [Pages -> Pages \cup {NULL}] /\ A.prev \in [Pages -> Pages \cup {NULL}]
        /\ A.front \in Pages \cup {NULL} /\ A.back \in Pages \cup {NULL}
        /\ A.page \in [Pages -> [1 .. SIZE -> V]] /\ A.front_left \in 0 .. SIZE
        /\ A.used \in Nat /\ A.used_average \in Nat /\ A.memory \in Nat /\ A.capacity \in Nat
        /\ A.heap \in SUBSET Pages
    BY DEF Emitters
  <2>2. F.back_left \in 0 .. SIZE
    BY <1>3, <1>4
  <2> QED BY <1>2, <1>3, <1>9, <2>1, <2>2, EmitterFromFields
<1>12. IsCounted(F)
  BY <1>3 DEF IsCounted
<1>13. IsRing(F, s, m)
  BY <1>3 DEF IsRing
<1>14. IsSpan(F, s, m, b + 1) /\ HasContent(F, s, b + 1, start, bytes)
  <2>1. \A i \in 0 .. b : s[i] = r[i]
    OBVIOUS
  <2>2. \A i \in 0 .. b : F.page[r[i]] = E.page[r[i]]
    BY <1>3
  <2>3. \A i \in 0 .. b : F.page_offset[r[i]] = E.page_offset[r[i]]
    BY <1>10
  <2>4. F.back = s[b + 1] /\ F.front_left = E.front_left /\ F.back_left = SIZE
    BY <1>3
  <2>5. OpensBack(F, E, r, s, b)
    BY <1>9, <2>1, <2>2, <2>3, <2>4 DEF OpensBack
  <2> QED BY <2>5, OpenedBack
<1>15. IsWhole(F, s, m, b + 1)
  BY <1>13, <1>14 DEF IsWhole
<1>16. Holds(F, V, start, bytes)
  BY <1>11, <1>12, <1>14, <1>15 DEF Holds
<1>17. F.front # NULL /\ F.back # NULL
  <2>1. A.front = s[0] /\ s[0] \in A.heap /\ A.heap \in SUBSET Pages
    BY <1>5 DEF IsRing, Emitters
  <2> QED BY <1>3, <1>4, <1>6, <2>1
<1> QED BY <1>3, <1>4, <1>16, <1>17 DEF SameUse, AdvancedFrom, F

\* A new page is linked into a ring whose pages are all in use.
LEMMA LinkedRing ==
  ASSUME NEW V, NEW E, NEW r, NEW n, E \in Emitters(V), Garbage \in V, IsCounted(E),
         ~OutOfMemory(E), IsRing(E, r, n), E.back = r[n - 1],
         NEW p \in Pages, p \notin E.heap, NEW A, A = LinkPage(Allocated(E, p), p)
  PROVE  /\ A \in Emitters(V) /\ IsCounted(A) /\ SameUse(A, E)
         /\ IsRing(A, Longer(r, n, p), n + 1)
         /\ A.front = E.front /\ A.back = E.back
         /\ A.page = [E.page EXCEPT ![p] = Blank] /\ A.page_offset = E.page_offset
         /\ A.front_left = E.front_left /\ A.back_left = E.back_left
<1> DEFINE F == Allocated(E, p)
<1>1. /\ F \in Emitters(V) /\ IsCounted(F)
      /\ F.heap = E.heap \cup {p} /\ F.page = [E.page EXCEPT ![p] = Blank]
      /\ F.front = E.front /\ F.back = E.back /\ F.next = E.next /\ F.prev = E.prev
      /\ F.page_offset = E.page_offset
      /\ F.front_left = E.front_left /\ F.back_left = E.back_left /\ SameUse(F, E)
  BY AllocatedType
<1> HIDE DEF F
<1>2. DOMAIN F = EmitterFields
  BY <1>1, RecordOfEmitter
<1>3. A = LinkPage(F, p)
  BY DEF F
<1>4. IsRecord(A)
  BY ONLY <1>2, <1>3 DEF IsRecord, LinkPage
<1>5. /\ A.heap = F.heap /\ A.capacity = F.capacity /\ A.front = F.front /\ A.back = F.back
      /\ A.front_left = F.front_left /\ A.back_left = F.back_left /\ A.memory = F.memory
      /\ A.used = F.used /\ A.used_average = F.used_average /\ A.page = F.page
      /\ A.page_offset = F.page_offset
      /\ A.next = [F.next EXCEPT ![p] = F.front, ![F.back] = p]
      /\ A.prev = [F.prev EXCEPT ![p] = F.back, ![F.front] = p]
  BY ONLY <1>2, <1>3 DEF EmitterFields, LinkPage
<1>6. n \in Nat /\ n >= 1 /\ 0 \in 0 .. n - 1 /\ n - 1 \in 0 .. n - 1
  BY DEF IsRing
<1>7. /\ E.front = r[0] /\ r[0] \in E.heap /\ r[n - 1] \in E.heap /\ E.heap \in SUBSET Pages
      /\ r[0] \in Pages /\ r[n - 1] \in Pages /\ r[0] # p /\ r[n - 1] # p
  <2>1. E.front = r[0] /\ r[0] \in E.heap /\ r[n - 1] \in E.heap
    BY <1>6 DEF IsRing
  <2>2. E.heap \in SUBSET Pages
    BY DEF Emitters
  <2> QED BY <2>1, <2>2
<1>8. /\ E.next \in [Pages -> Pages \cup {NULL}] /\ E.prev \in [Pages -> Pages \cup {NULL}]
  BY DEF Emitters
<1>9. /\ A.next = [E.next EXCEPT ![p] = r[0], ![r[n - 1]] = p]
      /\ A.prev = [E.prev EXCEPT ![p] = r[n - 1], ![r[0]] = p]
  BY <1>1, <1>5, <1>7
<1>10. /\ A.next \in [Pages -> Pages \cup {NULL}] /\ A.prev \in [Pages -> Pages \cup {NULL}]
       /\ A.next[p] = r[0] /\ A.prev[p] = r[n - 1]
       /\ A.next[r[n - 1]] = p /\ A.prev[r[0]] = p
       /\ \A q \in E.heap : q # r[n - 1] => A.next[q] = E.next[q]
       /\ \A q \in E.heap : q # r[0] => A.prev[q] = E.prev[q]
  BY <1>7, <1>8, <1>9
<1>11. A \in Emitters(V)
  <2>1. /\ F.front \in Pages \cup {NULL} /\ F.back \in Pages \cup {NULL}
        /\ F.page \in [Pages -> [1 .. SIZE -> V]] /\ F.page_offset \in [Pages -> Int]
        /\ F.front_left \in 0 .. SIZE /\ F.back_left \in 0 .. SIZE
        /\ F.used \in Nat /\ F.used_average \in Nat /\ F.memory \in Nat /\ F.capacity \in Nat
        /\ F.heap \in SUBSET Pages
    BY <1>1 DEF Emitters
  <2> QED BY <1>4, <1>5, <1>10, <2>1, EmitterFromFields
<1>12. IsCounted(A) /\ SameUse(A, E)
  BY <1>1, <1>5 DEF IsCounted, SameUse
<1>13. IsRing(A, Longer(r, n, p), n + 1)
  <2>1. IsFiniteSet(E.heap)
    BY <1>7, SizeFacts, FS_Subset
  <2>2. A.heap = E.heap \cup {p} /\ A.front = r[0]
    BY <1>1, <1>5, <1>7
  <2> QED BY <1>10, <2>1, <2>2, LongerRing
<1> QED BY <1>1, <1>5, <1>11, <1>12, <1>13

LEMMA AdvanceFront ==
  ASSUME NEW V, NEW E, NEW start, NEW bytes, Holds(E, V, start, bytes), E.front_left = 0
  PROVE  \/ /\ advance_front(E).ok = TRUE
            /\ AdvancedFrom(advance_front(E).E, E, V, start, bytes)
            /\ advance_front(E).E.front_left > 0
         \/ /\ advance_front(E).ok = FALSE /\ advance_front(E).E = E
            /\ E.front = NULL => E.memory = 0
<1> DEFINE a == advance_front(E)
           p == NewPage(E)
<1>1. /\ E \in Emitters(V) /\ Garbage \in V /\ IsCounted(E) /\ start \in Int /\ bytes \in Seq(V)
      /\ DOMAIN E = EmitterFields /\ E.heap \in SUBSET Pages /\ E.memory \in Nat
  BY RecordOfEmitter DEF Holds, Emitters
<1>2. ~OutOfMemory(E) => p \in Pages /\ p \notin E.heap
  BY <1>1, NewPageType
<1>3. CASE IsEmpty(E)
  <2>1. E.front = NULL /\ E.heap = {} /\ start = 0 /\ bytes = <<>>
    <3>1. ~ \E r, n, b : IsWhole(E, r, n, b)
      <4> SUFFICES ASSUME NEW r, NEW n, NEW b, IsRing(E, r, n) PROVE FALSE
        BY DEF IsWhole
      <4>1. n >= 1 /\ n \in Nat
        BY DEF IsRing
      <4>2. r[0] \in E.heap
        BY <4>1 DEF IsRing
      <4> QED BY <1>3, <4>2 DEF IsEmpty
    <3> QED BY <1>3, <3>1 DEF IsEmpty, Holds
  <2>2. CASE OutOfMemory(E)
    <3>1. a = Fails(E)
      BY <2>1, <2>2 DEF advance_front
    <3>2. E.memory = 0
      <4>1. Cardinality({}) = 0
        BY FS_EmptySet
      <4> QED BY <1>1, <2>1, <2>2, <4>1 DEF OutOfMemory
    <3> QED BY <3>1, <3>2 DEF Fails
  <2>3. CASE ~OutOfMemory(E)
    <3>1. PICK q \in Pages : q = NewPage(E) /\ q \notin E.heap
      BY <1>2, <2>3
    <3> DEFINE A == Allocated(E, q)
    <3>2. a = Done(FirstPage(A, q))
      BY <2>1, <2>3, <3>1 DEF advance_front, Allocated
    <3>3. A \in Emitters(V) /\ IsCounted(A) /\ SameUse(A, E) /\ A.heap = E.heap \cup {q}
      <4>1. E \in Emitters(V) /\ Garbage \in V /\ IsCounted(E) /\ ~OutOfMemory(E)
        BY <1>1, <2>3
      <4>2. q \in Pages /\ q \notin E.heap
        BY <3>1
      <4>3. A \in Emitters(V) /\ IsCounted(A)
        BY ONLY <4>1, <4>2, AllocatedType
      <4>4. A.heap = E.heap \cup {q}
        BY <1>1 DEF Allocated, EmitterFields
      <4>5. SameUse(A, E)
        BY ONLY <4>1, <4>2, AllocatedType
      <4> QED BY <4>3, <4>4, <4>5
    <3> HIDE DEF A
    <3>4. A.heap = {q}
      BY <2>1, <3>3
    <3>5. /\ Holds(FirstPage(A, q), V, 0, <<>>) /\ SameUse(FirstPage(A, q), A)
          /\ FirstPage(A, q).front = q /\ FirstPage(A, q).back = q
          /\ FirstPage(A, q).front_left > 0
      BY <1>1, <3>1, <3>3, <3>4, FirstPageHolds
    <3>6. AdvancedFrom(FirstPage(A, q), E, V, start, bytes)
      BY <2>1, <3>1, <3>3, <3>5, SizeFacts DEF AdvancedFrom, SameUse
    <3> QED BY <3>2, <3>5, <3>6 DEF Done
  <2> QED BY <2>2, <2>3
<1>4. CASE ~IsEmpty(E)
  <2>1. PICK r, n, b : IsWhole(E, r, n, b) /\ HasContent(E, r, b, start, bytes)
    BY <1>4 DEF Holds
  <2>2. IsRing(E, r, n) /\ IsSpan(E, r, n, b)
    BY <2>1 DEF IsWhole
  <2>3. /\ n \in Nat /\ n >= 1 /\ 0 \in 0 .. n - 1 /\ n - 1 \in 0 .. n - 1
        /\ b \in 0 .. n - 1 /\ E.back = r[b] /\ E.front = r[0] /\ E.prev[r[0]] = r[n - 1]
    BY <2>2 DEF IsRing, IsSpan
  <2>4. r \in [0 .. n - 1 -> Pages] /\ \A i \in 0 .. n - 1 : r[i] \in E.heap
    BY <1>1, <2>2 DEF IsRing
  <2>5. E.front # NULL /\ E.prev[E.front] = r[n - 1]
    BY <2>3, <2>4, SizeFacts
  <2>6. CASE E.prev[E.front] # E.back
    <3> DEFINE A == [E EXCEPT !.front = E.prev[E.front]]
               s == Before(r, n)
    <3>1. a = Done(OpenFront(A))
      BY <2>5, <2>6 DEF advance_front
    <3>2. A = [E EXCEPT !.front = r[n - 1]] /\ r[n - 1] \in Pages
      BY <2>3, <2>4, <2>5
    <3>3. /\ A.front = r[n - 1] /\ A.back = E.back /\ A.heap = E.heap
          /\ A.next = E.next /\ A.prev = E.prev /\ A.page = E.page
          /\ A.page_offset = E.page_offset /\ A.back_left = E.back_left
          /\ A.capacity = E.capacity /\ A.memory = E.memory
          /\ A.used = E.used /\ A.used_average = E.used_average
      BY ONLY <1>1, <3>2 DEF EmitterFields
    <3>4. A \in Emitters(V)
      BY <1>1, <3>2 DEF Emitters
    <3> HIDE DEF A
    <3>5. IsRing(A, s, n)
      BY <2>2, <3>3, BeforeRing
    <3>6. IsCounted(A) /\ SameUse(A, E)
      BY <1>1, <3>3 DEF IsCounted, SameUse
    <3>7. b # n - 1 /\ b \in Nat /\ b + 1 \in 0 .. n - 1
      BY <2>3, <2>5, <2>6
    <3>8. s[0] = r[n - 1] /\ \A i \in 0 .. b : s[i + 1] = r[i] /\ r[i] # s[0]
      <4>1. \A i \in 0 .. b : i + 1 \in 0 .. n - 1 /\ i + 1 # 0 /\ (i + 1) - 1 = i
                              /\ i \in 0 .. n - 1 /\ i # n - 1
        BY <2>3, <3>7
      <4>2. s[0] = r[n - 1]
        BY <2>3 DEF Before
      <4>3. \A i \in 0 .. b : s[i + 1] = r[i]
        BY <4>1 DEF Before
      <4>4. \A i \in 0 .. b : r[i] # r[n - 1]
        BY <2>2, <2>3, <4>1 DEF IsRing
      <4> QED BY <4>2, <4>3, <4>4
    <3> HIDE DEF s
    <3>9. \A i \in 0 .. b : s[i + 1] = r[i] /\ A.page[r[i]] = E.page[r[i]]
      BY <3>3, <3>8
    <3>10. \A i \in 0 .. b : r[i] # s[0]
      BY <3>8
    <3>11. A.back = E.back /\ A.back_left = E.back_left /\ A.page_offset = E.page_offset
      BY <3>3
    <3>12. AdvancedFrom(OpenFront(A), E, V, start, bytes) /\ OpenFront(A).front_left > 0
      <4>1. PutsFront(A, E, r, s, b)
        BY <3>9, <3>10, <3>11 DEF PutsFront
      <4> QED BY <1>1, <2>1, <2>2, <2>3, <2>4, <3>4, <3>5, <3>6, <3>7, <4>1, OpenFrontHolds
    <3> QED BY <3>1, <3>12 DEF Done
  <2>7. CASE E.prev[E.front] = E.back /\ OutOfMemory(E)
    <3>1. a = Fails(E)
      BY <2>5, <2>7 DEF advance_front
    <3> QED BY <2>5, <3>1 DEF Fails
  <2>8. CASE E.prev[E.front] = E.back /\ ~OutOfMemory(E)
    <3> DEFINE L == LinkPage(Allocated(E, p), p)
               A == [L EXCEPT !.front = p]
               s == Before(Longer(r, n, p), n + 1)
    <3>1. a = Done(OpenFront(A))
      BY <2>5, <2>8 DEF advance_front
    <3>2. b = n - 1 /\ p \in Pages /\ p \notin E.heap /\ E.back = r[n - 1]
      BY <1>2, <2>2, <2>3, <2>5, <2>8 DEF IsRing
    <3>3. /\ L \in Emitters(V) /\ IsCounted(L) /\ SameUse(L, E)
          /\ IsRing(L, Longer(r, n, p), n + 1) /\ L.back = E.back
          /\ L.page = [E.page EXCEPT ![p] = Blank] /\ L.page_offset = E.page_offset
          /\ L.back_left = E.back_left
      BY <1>1, <2>2, <2>8, <3>2, LinkedRing
    <3> HIDE DEF L
    <3>4. DOMAIN L = EmitterFields
      BY <3>3, RecordOfEmitter
    <3>5. /\ A.front = p /\ A.back = L.back /\ A.heap = L.heap
          /\ A.next = L.next /\ A.prev = L.prev /\ A.page = L.page
          /\ A.page_offset = L.page_offset /\ A.back_left = L.back_left
          /\ A.capacity = L.capacity /\ A.memory = L.memory
          /\ A.used = L.used /\ A.used_average = L.used_average
      BY ONLY <3>4 DEF EmitterFields
    <3>6. A \in Emitters(V)
      BY <3>2, <3>3 DEF Emitters
    <3> HIDE DEF A
    <3>7. (n + 1) - 1 = n /\ Longer(r, n, p)[n] = p
      BY <2>3 DEF Longer
    <3>8. IsRing(A, s, n + 1)
      BY <3>3, <3>5, <3>7, BeforeRing
    <3>9. IsCounted(A) /\ SameUse(A, E)
      BY <3>3, <3>5 DEF IsCounted, SameUse
    <3>10. b + 1 \in 0 .. (n + 1) - 1 /\ n + 1 \in Nat
      BY <2>3, <3>2
    <3>11. s[0] = p /\ \A i \in 0 .. b : s[i + 1] = r[i]
      <4>1. \A i \in 0 .. b : /\ i + 1 \in 0 .. (n + 1) - 1 /\ i + 1 # 0 /\ (i + 1) - 1 = i
                              /\ i \in 0 .. n /\ i # n
        BY <2>3, <3>2
      <4>2. s[0] = p
        BY <2>3, <3>7 DEF Before
      <4>3. \A i \in 0 .. b : s[i + 1] = Longer(r, n, p)[i]
        BY <4>1 DEF Before
      <4>4. \A i \in 0 .. b : Longer(r, n, p)[i] = r[i]
        BY <4>1 DEF Longer
      <4> QED BY <4>2, <4>3, <4>4
    <3> HIDE DEF s
    <3>12. \A i \in 0 .. b : r[i] \in E.heap /\ r[i] # p
      BY <2>3, <2>4, <3>2
    <3>13. \A i \in 0 .. b : s[i + 1] = r[i] /\ A.page[r[i]] = E.page[r[i]]
      <4>1. E.page \in [Pages -> [1 .. SIZE -> V]]
        BY <1>1 DEF Emitters
      <4> QED BY <1>1, <3>3, <3>5, <3>11, <3>12, <4>1
    <3>14. \A i \in 0 .. b : r[i] # s[0]
      BY <3>11, <3>12
    <3>15. A.back = E.back /\ A.back_left = E.back_left /\ A.page_offset = E.page_offset
      BY <3>3, <3>5
    <3>16. AdvancedFrom(OpenFront(A), E, V, start, bytes) /\ OpenFront(A).front_left > 0
      <4>1. PutsFront(A, E, r, s, b)
        BY <3>13, <3>14, <3>15 DEF PutsFront
      <4> QED BY <1>1, <2>1, <2>2, <2>3, <2>4, <3>6, <3>8, <3>9, <3>10, <4>1, OpenFrontHolds
    <3> QED BY <3>1, <3>16 DEF Done
  <2> QED BY <2>6, <2>7, <2>8
<1> QED BY <1>3, <1>4
LEMMA AdvanceBack ==
  ASSUME NEW V, NEW E, NEW start, NEW bytes, Holds(E, V, start, bytes), E.back_left = 0
  PROVE  \/ /\ advance_back(E).ok = TRUE
            /\ AdvancedFrom(advance_back(E).E, E, V, start, bytes)
            /\ advance_back(E).E.back_left > 0
         \/ /\ advance_back(E).ok = FALSE /\ advance_back(E).E = E
            /\ E.back = NULL => E.memory = 0
<1> DEFINE a == advance_back(E)
           p == NewPage(E)
<1>1. /\ E \in Emitters(V) /\ Garbage \in V /\ IsCounted(E) /\ start \in Int /\ bytes \in Seq(V)
      /\ DOMAIN E = EmitterFields /\ E.heap \in SUBSET Pages /\ E.memory \in Nat
  BY RecordOfEmitter DEF Holds, Emitters
<1>2. ~OutOfMemory(E) => p \in Pages /\ p \notin E.heap
  BY <1>1, NewPageType
<1>3. CASE IsEmpty(E)
  <2>1. E.back = NULL /\ E.heap = {} /\ start = 0 /\ bytes = <<>>
    <3>1. ~ \E r, n, b : IsWhole(E, r, n, b)
      <4> SUFFICES ASSUME NEW r, NEW n, NEW b, IsRing(E, r, n) PROVE FALSE
        BY DEF IsWhole
      <4>1. n >= 1 /\ n \in Nat
        BY DEF IsRing
      <4>2. r[0] \in E.heap
        BY <4>1 DEF IsRing
      <4> QED BY <1>3, <4>2 DEF IsEmpty
    <3> QED BY <1>3, <3>1 DEF IsEmpty, Holds
  <2>2. CASE OutOfMemory(E)
    <3>1. a = Fails(E)
      BY <2>1, <2>2 DEF advance_back
    <3>2. E.memory = 0
      <4>1. Cardinality({}) = 0
        BY FS_EmptySet
      <4> QED BY <1>1, <2>1, <2>2, <4>1 DEF OutOfMemory
    <3> QED BY <3>1, <3>2 DEF Fails
  <2>3. CASE ~OutOfMemory(E)
    <3>1. PICK q \in Pages : q = NewPage(E) /\ q \notin E.heap
      BY <1>2, <2>3
    <3> DEFINE A == Allocated(E, q)
    <3>2. a = Done(FirstPage(A, q))
      BY <2>1, <2>3, <3>1 DEF advance_back, Allocated
    <3>3. A \in Emitters(V) /\ IsCounted(A) /\ SameUse(A, E) /\ A.heap = E.heap \cup {q}
      <4>1. E \in Emitters(V) /\ Garbage \in V /\ IsCounted(E) /\ ~OutOfMemory(E)
        BY <1>1, <2>3
      <4>2. q \in Pages /\ q \notin E.heap
        BY <3>1
      <4>3. A \in Emitters(V) /\ IsCounted(A)
        BY ONLY <4>1, <4>2, AllocatedType
      <4>4. A.heap = E.heap \cup {q}
        BY <1>1 DEF Allocated, EmitterFields
      <4>5. SameUse(A, E)
        BY ONLY <4>1, <4>2, AllocatedType
      <4> QED BY <4>3, <4>4, <4>5
    <3> HIDE DEF A
    <3>4. A.heap = {q}
      BY <2>1, <3>3
    <3>5. /\ Holds(FirstPage(A, q), V, 0, <<>>) /\ SameUse(FirstPage(A, q), A)
          /\ FirstPage(A, q).front = q /\ FirstPage(A, q).back = q
          /\ FirstPage(A, q).back_left > 0
      BY <1>1, <3>1, <3>3, <3>4, FirstPageHolds
    <3>6. AdvancedFrom(FirstPage(A, q), E, V, start, bytes)
      BY <2>1, <3>1, <3>3, <3>5, SizeFacts DEF AdvancedFrom, SameUse
    <3> QED BY <3>2, <3>5, <3>6 DEF Done
  <2> QED BY <2>2, <2>3
<1>4. CASE ~IsEmpty(E)
  <2>1. PICK r, n, b : IsWhole(E, r, n, b) /\ HasContent(E, r, b, start, bytes)
    BY <1>4 DEF Holds
  <2>2. IsRing(E, r, n) /\ IsSpan(E, r, n, b)
    BY <2>1 DEF IsWhole
  <2>3. /\ n \in Nat /\ n >= 1 /\ 0 \in 0 .. n - 1 /\ n - 1 \in 0 .. n - 1
        /\ b \in 0 .. n - 1 /\ E.back = r[b] /\ E.front = r[0] /\ E.next[r[n - 1]] = r[0]
    BY <2>2 DEF IsRing, IsSpan
  <2>4. r \in [0 .. n - 1 -> Pages] /\ \A i \in 0 .. n - 1 : r[i] \in E.heap
    BY <1>1, <2>2 DEF IsRing
  <2>5. /\ E.back # NULL
        /\ E.next[E.back] = E.front => b = n - 1
        /\ E.next[E.back] # E.front => /\ b \in 0 .. n - 2 /\ b + 1 \in 0 .. n - 1
                                       /\ E.next[E.back] = r[b + 1]
    <3>1. E.back # NULL
      BY <2>3, <2>4, SizeFacts
    <3>2. CASE b = n - 1
      BY <2>3, <3>1, <3>2
    <3>3. CASE b # n - 1
      <4>1. b \in 0 .. n - 2 /\ b + 1 \in 0 .. n - 1 /\ b + 1 # 0
        BY <2>3, <3>3
      <4>2. E.next[r[b]] = r[b + 1] /\ r[b + 1] # r[0]
        BY <2>2, <2>3, <4>1 DEF IsRing
      <4> QED BY <2>3, <3>1, <4>1, <4>2
    <3> QED BY <3>2, <3>3
  <2>6. CASE E.next[E.back] # E.front
    <3> DEFINE A == [E EXCEPT !.back = E.next[E.back]]
    <3>1. a = Done(OpenBack(A))
      BY <2>5, <2>6 DEF advance_back
    <3>2. A = [E EXCEPT !.back = r[b + 1]] /\ r[b + 1] \in Pages
      BY <2>4, <2>5, <2>6
    <3>3. /\ A.front = E.front /\ A.back = r[b + 1] /\ A.heap = E.heap
          /\ A.next = E.next /\ A.prev = E.prev /\ A.page = E.page
          /\ A.page_offset = E.page_offset /\ A.front_left = E.front_left
          /\ A.capacity = E.capacity /\ A.memory = E.memory
          /\ A.used = E.used /\ A.used_average = E.used_average
      BY ONLY <1>1, <3>2 DEF EmitterFields
    <3>4. A \in Emitters(V)
      BY <1>1, <3>2 DEF Emitters
    <3> HIDE DEF A
    <3>5. IsRing(A, r, n)
      BY <2>2, <3>3 DEF IsRing
    <3>6. IsCounted(A) /\ SameUse(A, E)
      BY <1>1, <3>3 DEF IsCounted, SameUse
    <3>7. \A i \in 0 .. b : r[i] # r[b + 1]
      <4>1. \A i \in 0 .. b : i \in 0 .. n - 1 /\ i # b + 1
        BY <2>3
      <4> QED BY <2>2, <2>5, <2>6, <4>1 DEF IsRing
    <3>8. PutsBack(A, E, r, r, b)
      BY <3>3, <3>7 DEF PutsBack
    <3>9. AdvancedFrom(OpenBack(A), E, V, start, bytes) /\ OpenBack(A).back_left > 0
      BY <1>1, <2>1, <2>2, <2>3, <2>4, <2>5, <2>6, <3>4, <3>5, <3>6, <3>8, OpenBackHolds
    <3> QED BY <3>1, <3>9 DEF Done
  <2>7. CASE E.next[E.back] = E.front /\ OutOfMemory(E)
    <3>1. a = Fails(E)
      BY <2>5, <2>7 DEF advance_back
    <3> QED BY <2>5, <3>1 DEF Fails
  <2>8. CASE E.next[E.back] = E.front /\ ~OutOfMemory(E)
    <3> DEFINE L == LinkPage(Allocated(E, p), p)
               A == [L EXCEPT !.back = p]
               s == Longer(r, n, p)
    <3>1. a = Done(OpenBack(A))
      BY <2>5, <2>8 DEF advance_back
    <3>2. b = n - 1 /\ p \in Pages /\ p \notin E.heap /\ E.back = r[n - 1]
      BY <1>2, <2>3, <2>5, <2>8
    <3>3. /\ L \in Emitters(V) /\ IsCounted(L) /\ SameUse(L, E)
          /\ IsRing(L, Longer(r, n, p), n + 1) /\ L.front = E.front
          /\ L.page = [E.page EXCEPT ![p] = Blank] /\ L.page_offset = E.page_offset
          /\ L.front_left = E.front_left
      BY <1>1, <2>2, <2>8, <3>2, LinkedRing
    <3> HIDE DEF L
    <3>4. DOMAIN L = EmitterFields
      BY <3>3, RecordOfEmitter
    <3>5. /\ A.back = p /\ A.front = L.front /\ A.heap = L.heap
          /\ A.next = L.next /\ A.prev = L.prev /\ A.page = L.page
          /\ A.page_offset = L.page_offset /\ A.front_left = L.front_left
          /\ A.capacity = L.capacity /\ A.memory = L.memory
          /\ A.used = L.used /\ A.used_average = L.used_average
      BY ONLY <3>4 DEF EmitterFields
    <3>6. A \in Emitters(V)
      BY <3>2, <3>3 DEF Emitters
    <3> HIDE DEF A
    <3>7. b + 1 = n /\ s[b + 1] = p /\ \A i \in 0 .. b : s[i] = r[i]
      <4>1. b + 1 = n /\ n \in 0 .. n /\ \A i \in 0 .. b : i \in 0 .. n /\ i # n
        BY <2>3, <3>2
      <4> QED BY <4>1 DEF Longer
    <3>8. IsRing(A, s, n + 1)
      BY <3>3, <3>5 DEF IsRing
    <3>9. IsCounted(A) /\ SameUse(A, E)
      BY <3>3, <3>5 DEF IsCounted, SameUse
    <3>10. b + 1 \in 0 .. (n + 1) - 1 /\ n + 1 \in Nat
      BY <2>3, <3>2
    <3> HIDE DEF s
    <3>11. \A i \in 0 .. b : r[i] \in E.heap /\ r[i] # p
      BY <2>3, <2>4, <3>2
    <3>12. \A i \in 0 .. b : s[i] = r[i] /\ A.page[r[i]] = E.page[r[i]]
      <4>1. E.page \in [Pages -> [1 .. SIZE -> V]]
        BY <1>1 DEF Emitters
      <4> QED BY <1>1, <3>3, <3>5, <3>7, <3>11, <4>1
    <3>13. PutsBack(A, E, r, s, b)
      BY <3>3, <3>5, <3>7, <3>11, <3>12 DEF PutsBack
    <3>14. AdvancedFrom(OpenBack(A), E, V, start, bytes) /\ OpenBack(A).back_left > 0
      BY <1>1, <2>1, <2>2, <2>3, <2>4, <3>6, <3>8, <3>9, <3>10, <3>13, OpenBackHolds
    <3> QED BY <3>1, <3>14 DEF Done
  <2> QED BY <2>6, <2>7, <2>8
<1> QED BY <1>3, <1>4

-----------------------------------------------------------------------------
(* Writing *)

\* w is the pages of old with data in page p behind the first at bytes.
IsWritten(w, old, p, at, data) ==
    /\ \A q \in Pages : q # p => w[q] = old[q]
    /\ \A i \in 1 .. SIZE :
          /\ i - at \in 1 .. Len(data) => w[p][i] = data[i - at]
          /\ i - at \notin 1 .. Len(data) => w[p][i] = old[p][i]

LEMMA WriteType ==
  ASSUME NEW V, NEW E, E.page \in [Pages -> [1 .. SIZE -> V]], NEW p \in Pages,
         NEW at \in Int, NEW data \in Seq(V)
  PROVE  /\ Write(E, p, at, data) \in [Pages -> [1 .. SIZE -> V]]
         /\ IsWritten(Write(E, p, at, data), E.page, p, at, data)
<1> DEFINE w == [i \in 1 .. SIZE |-> IF i - at \in 1 .. Len(data) THEN data[i - at]
                                     ELSE E.page[p][i]]
<1>1. \A i \in 1 .. SIZE : i - at \in 1 .. Len(data) => data[i - at] \in V
  OBVIOUS
<1>2. E.page[p] \in [1 .. SIZE -> V]
  OBVIOUS
<1>3. w \in [1 .. SIZE -> V]
  BY <1>1, <1>2
<1>4. \A i \in 1 .. SIZE :
         /\ i - at \in 1 .. Len(data) => w[i] = data[i - at]
         /\ i - at \notin 1 .. Len(data) => w[i] = E.page[p][i]
  OBVIOUS
<1>5. Write(E, p, at, data) = [E.page EXCEPT ![p] = w]
  BY DEF Write
<1> HIDE DEF w
<1> QED BY <1>3, <1>4, <1>5 DEF IsWritten

\* Only the pages and one of the rooms change.
LEMMA TakeFrontFields ==
  ASSUME NEW V, NEW E \in Emitters(V), NEW data
  PROVE  LET F == TakeFront(E, data)
         IN  /\ IsRecord(F)
             /\ F.front_left = E.front_left - Len(data)
             /\ F.page = Write(E, E.front, E.front_left - Len(data), data)
             /\ F.front = E.front /\ F.back = E.back /\ F.next = E.next /\ F.prev = E.prev
             /\ F.page_offset = E.page_offset /\ F.back_left = E.back_left
             /\ F.used = E.used /\ F.capacity = E.capacity /\ F.heap = E.heap
             /\ F.used_average = E.used_average /\ F.memory = E.memory
<1>1. DOMAIN E = EmitterFields
  BY RecordOfEmitter
<1>2. IsRecord(TakeFront(E, data))
  BY ONLY <1>1 DEF IsRecord, TakeFront
<1> QED BY ONLY <1>1, <1>2 DEF EmitterFields, TakeFront

LEMMA TakeBackFields ==
  ASSUME NEW V, NEW E \in Emitters(V), NEW data
  PROVE  LET F == TakeBack(E, data)
         IN  /\ IsRecord(F)
             /\ F.back_left = E.back_left - Len(data)
             /\ F.page = Write(E, E.back, SIZE - E.back_left, data)
             /\ F.front = E.front /\ F.back = E.back /\ F.next = E.next /\ F.prev = E.prev
             /\ F.page_offset = E.page_offset /\ F.front_left = E.front_left
             /\ F.used = E.used /\ F.capacity = E.capacity /\ F.heap = E.heap
             /\ F.used_average = E.used_average /\ F.memory = E.memory
<1>1. DOMAIN E = EmitterFields
  BY RecordOfEmitter
<1>2. IsRecord(TakeBack(E, data))
  BY ONLY <1>1 DEF IsRecord, TakeBack
<1> QED BY ONLY <1>1, <1>2 DEF EmitterFields, TakeBack

\* The contents, when the bytes of data lie in page r[0] before the first one.
LEMMA ContentInFront ==
  ASSUME NEW V, NEW E, NEW F, NEW r, NEW n, NEW b, NEW start, NEW bytes, NEW data,
         E \in Emitters(V), IsSpan(E, r, n, b), HasContent(E, r, b, start, bytes),
         r \in [0 .. n - 1 -> Pages], n \in Nat, \A i, j \in 0 .. n - 1 : r[i] = r[j] => i = j,
         bytes \in Seq(V), data \in Seq(V), start \in Int,
         Len(data) <= E.front_left, F.front_left = E.front_left - Len(data),
         F.back_left = E.back_left, F.page_offset = E.page_offset,
         F.page = Write(E, r[0], E.front_left - Len(data), data)
  PROVE  HasContent(F, r, b, start - Len(data), data \o bytes)
<1> DEFINE off == E.page_offset
           all == data \o bytes
<1>0. PICK d \in Nat : d = Len(data)
  OBVIOUS
<1>1. SIZE \in Nat /\ b \in 0 .. n - 1 /\ b \in Nat /\ 0 \in 0 .. b /\ b \in 0 .. b
  BY SizeFacts DEF IsSpan
<1>2. \A i \in 0 .. b : r[i] \in Pages /\ off[r[i]] \in Int
  <2>1. off \in [Pages -> Int]
    BY DEF Emitters
  <2>2. \A i \in 0 .. b : i \in 0 .. n - 1
    BY <1>1
  <2> HIDE DEF off
  <2> QED BY <2>1, <2>2
<1>3. off[r[0]] + E.front_left = start /\ off[r[0]] \in Int
  BY <1>1, <1>2 DEF HasContent
<1>4. off[r[b]] + SIZE - E.back_left = start + Len(bytes) /\ off[r[b]] \in Int
  BY <1>1, <1>2 DEF HasContent
<1>5. E.front_left \in 0 .. SIZE /\ E.back_left \in 0 .. SIZE
  BY DEF Emitters
<1>6. PICK at \in 0 .. SIZE : at = E.front_left - d
  BY <1>0, <1>1, <1>5
<1>7. /\ all \in Seq(V) /\ Len(all) = d + Len(bytes)
      /\ \A i \in 1 .. d : all[i] = data[i]
      /\ \A i \in 1 .. Len(bytes) : all[d + i] = bytes[i]
  BY <1>0, ConcatAt
<1>8. Len(bytes) \in Nat
  OBVIOUS
<1> HIDE DEF all
<1>9. /\ \A q \in Pages : q # r[0] => F.page[q] = E.page[q]
      /\ \A i \in 1 .. SIZE : /\ i - at \in 1 .. d => F.page[r[0]][i] = data[i - at]
                              /\ i - at \notin 1 .. d => F.page[r[0]][i] = E.page[r[0]][i]
  <2>1. E.page \in [Pages -> [1 .. SIZE -> V]]
    BY DEF Emitters
  <2>2. r[0] \in Pages /\ at \in Int /\ F.page = Write(E, r[0], at, data)
    BY <1>0, <1>1, <1>2, <1>6
  <2>3. IsWritten(Write(E, r[0], at, data), E.page, r[0], at, data)
    BY ONLY data \in Seq(V), <2>1, <2>2, WriteType
  <2> QED BY ONLY <1>0, <2>2, <2>3 DEF IsWritten
<1>10. \A i \in 0 .. b : \A j \in 1 .. SIZE :
          off[r[i]] + j - start \in 1 .. Len(bytes)
             => E.page[r[i]][j] = bytes[off[r[i]] + j - start]
  BY DEF HasContent
<1>11. \A i \in 1 .. b : off[r[i]] >= off[r[0]] + SIZE /\ r[i] # r[0]
  BY <1>1, <1>2 DEF IsSpan
<1> HIDE DEF off
<1>12. ASSUME NEW i \in 0 .. b, NEW j \in 1 .. SIZE,
              off[r[i]] + j - (start - d) \in 1 .. Len(all)
       PROVE  F.page[r[i]][j] = all[off[r[i]] + j - (start - d)]
  <2>0. off[r[i]] \in Int /\ j \in Int /\ i \in Int
    BY <1>1, <1>2
  <2>1. PICK a \in Int : a = off[r[i]] + j - start
    BY <2>0
  <2>2. off[r[i]] + j - (start - d) = d + a
    BY ONLY <2>0, <2>1, <1>0, start \in Int
  <2>3. d + a \in 1 .. d + Len(bytes)
    BY ONLY <2>2, <1>7, <1>12
  <2>4. CASE i = 0
    <3>1. j - at = d + a
      <4>1. E.front_left \in Int /\ at \in Int /\ a = off[r[0]] + j - start
        BY ONLY <1>1, <1>5, <1>6, <2>1, <2>4
      <4>2. PICK o \in Int, l \in Int : o = off[r[0]] /\ l = E.front_left
        BY ONLY <1>3, <4>1
      <4>3. o + l = start /\ at = l - d /\ a = o + j - start
        BY ONLY <1>3, <1>6, <4>1, <4>2
      <4> QED BY ONLY <2>0, <4>1, <4>2, <4>3, start \in Int, d \in Nat, a \in Int
    <3>2. CASE a <= 0
      <4>1. j - at \in 1 .. d /\ d + a \in 1 .. d
        BY ONLY <1>0, <1>8, <2>1, <2>3, <3>1, <3>2
      <4> QED BY ONLY <1>7, <1>9, <1>12, <2>2, <2>4, <3>1, <4>1
    <3>3. CASE a > 0
      <4>1. j - at \notin 1 .. d /\ a \in 1 .. Len(bytes)
        BY ONLY <1>0, <1>8, <2>1, <2>3, <3>1, <3>3
      <4>2. E.page[r[0]][j] = bytes[a]
        BY ONLY <1>10, <1>12, <2>1, <2>4, <4>1
      <4> QED BY ONLY <1>7, <1>9, <1>12, <2>2, <2>4, <4>1, <4>2
    <3> QED BY ONLY <2>1, <3>2, <3>3
  <2>5. CASE i # 0
    <3>1. i \in 1 .. b
      BY ONLY <1>1, <2>0, <2>5, <1>12
    <3>2. r[i] \in Pages /\ r[i] # r[0] /\ off[r[i]] >= off[r[0]] + SIZE
      BY ONLY <1>2, <1>11, <1>12, <3>1
    <3>3. a \in 1 .. Len(bytes)
      <4>1. E.front_left \in Int /\ E.front_left <= SIZE /\ j >= 1 /\ SIZE \in Int
        BY ONLY <1>1, <1>5, <1>12
      <4>2. a >= 1
        BY ONLY <1>3, <2>0, <2>1, <3>2, <4>1, start \in Int
      <4> QED BY ONLY <1>0, <1>8, <2>1, <2>3, <4>2
    <3>4. E.page[r[i]][j] = bytes[a]
      BY ONLY <1>10, <1>12, <2>1, <3>3
    <3> QED BY ONLY <1>7, <1>9, <1>12, <2>2, <3>2, <3>3, <3>4
  <2> QED BY <2>4, <2>5
<1>13. off[r[0]] + F.front_left = start - d
  BY ONLY <1>0, <1>3, <1>5, start \in Int, F.front_left = E.front_left - Len(data)
<1>14. off[r[b]] + SIZE - F.back_left = (start - d) + Len(all)
  BY ONLY <1>0, <1>1, <1>4, <1>5, <1>7, <1>8, start \in Int, F.back_left = E.back_left
<1>15. \A i \in 0 .. b, j \in 1 .. SIZE :
          off[r[i]] + j - (start - d) \in 1 .. Len(all)
             => F.page[r[i]][j] = all[off[r[i]] + j - (start - d)]
  BY <1>12
<1> QED BY ONLY <1>0, <1>13, <1>14, <1>15, F.page_offset = E.page_offset DEF HasContent, off, all

\* The contents, when the bytes of data lie in page r[b] behind the last one.
LEMMA ContentInBack ==
  ASSUME NEW V, NEW E, NEW F, NEW r, NEW n, NEW b, NEW start, NEW bytes, NEW data,
         E \in Emitters(V), IsSpan(E, r, n, b), HasContent(E, r, b, start, bytes),
         r \in [0 .. n - 1 -> Pages], n \in Nat, \A i, j \in 0 .. n - 1 : r[i] = r[j] => i = j,
         bytes \in Seq(V), data \in Seq(V), start \in Int,
         Len(data) <= E.back_left, F.back_left = E.back_left - Len(data),
         F.front_left = E.front_left, F.page_offset = E.page_offset,
         F.page = Write(E, r[b], SIZE - E.back_left, data)
  PROVE  HasContent(F, r, b, start, bytes \o data)
<1> DEFINE off == E.page_offset
           all == bytes \o data
<1>0. PICK d \in Nat : d = Len(data)
  OBVIOUS
<1>1. SIZE \in Nat /\ b \in 0 .. n - 1 /\ b \in Nat /\ 0 \in 0 .. b /\ b \in 0 .. b
  BY SizeFacts DEF IsSpan
<1>2. \A i \in 0 .. b : r[i] \in Pages /\ off[r[i]] \in Int
  <2>1. off \in [Pages -> Int]
    BY DEF Emitters
  <2>2. \A i \in 0 .. b : i \in 0 .. n - 1
    BY <1>1
  <2> HIDE DEF off
  <2> QED BY <2>1, <2>2
<1>3. off[r[0]] + E.front_left = start /\ off[r[0]] \in Int
  BY <1>1, <1>2 DEF HasContent
<1>4. off[r[b]] + SIZE - E.back_left = start + Len(bytes) /\ off[r[b]] \in Int
  BY <1>1, <1>2 DEF HasContent
<1>5. E.front_left \in 0 .. SIZE /\ E.back_left \in 0 .. SIZE
  BY DEF Emitters
<1>6. PICK at \in 0 .. SIZE : at = SIZE - E.back_left
  BY <1>1, <1>5
<1>7. PICK l \in Nat : l = Len(bytes)
  OBVIOUS
<1>8. /\ all \in Seq(V) /\ Len(all) = l + d
      /\ \A i \in 1 .. l : all[i] = bytes[i]
      /\ \A i \in 1 .. d : all[l + i] = data[i]
  BY <1>0, <1>7, ConcatAt
<1> HIDE DEF all
<1>9. /\ \A q \in Pages : q # r[b] => F.page[q] = E.page[q]
      /\ \A i \in 1 .. SIZE : /\ i - at \in 1 .. d => F.page[r[b]][i] = data[i - at]
                              /\ i - at \notin 1 .. d => F.page[r[b]][i] = E.page[r[b]][i]
  <2>1. E.page \in [Pages -> [1 .. SIZE -> V]]
    BY DEF Emitters
  <2>2. r[b] \in Pages /\ at \in Int /\ F.page = Write(E, r[b], at, data)
    BY <1>0, <1>1, <1>2, <1>6
  <2>3. IsWritten(Write(E, r[b], at, data), E.page, r[b], at, data)
    BY ONLY data \in Seq(V), <2>1, <2>2, WriteType
  <2> QED BY ONLY <1>0, <2>2, <2>3 DEF IsWritten
<1>10. \A i \in 0 .. b : \A j \in 1 .. SIZE :
          off[r[i]] + j - start \in 1 .. l
             => E.page[r[i]][j] = bytes[off[r[i]] + j - start]
  BY <1>7 DEF HasContent
<1>11. \A i \in 0 .. b : i # b => off[r[b]] >= off[r[i]] + SIZE /\ r[i] # r[b]
  BY <1>1, <1>2 DEF IsSpan
<1> HIDE DEF off
<1>12. ASSUME NEW i \in 0 .. b, NEW j \in 1 .. SIZE,
              off[r[i]] + j - start \in 1 .. Len(all)
       PROVE  F.page[r[i]][j] = all[off[r[i]] + j - start]
  <2>0. off[r[i]] \in Int /\ j \in Int /\ i \in Int
    BY ONLY <1>1, <1>2, <1>12
  <2>1. PICK a \in Int : a = off[r[i]] + j - start
    BY <2>0
  <2>3. a \in 1 .. l + d
    BY ONLY <2>1, <1>8, <1>12
  <2>4. CASE i = b
    <3>1. j - at = a - l
      <4>1. E.back_left \in Int /\ at \in Int /\ a = off[r[b]] + j - start /\ SIZE \in Int
        BY ONLY <1>1, <1>5, <1>6, <2>1, <2>4
      <4>2. PICK o \in Int, k \in Int : o = off[r[b]] /\ k = E.back_left
        BY ONLY <1>4, <4>1
      <4>3. o + SIZE - k = start + l /\ at = SIZE - k /\ a = o + j - start
        BY ONLY <1>4, <1>6, <1>7, <4>1, <4>2
      <4> QED BY ONLY <1>1, <2>0, <4>1, <4>2, <4>3, start \in Int, l \in Nat, a \in Int
    <3>2. CASE a > l
      <4>1. j - at \in 1 .. d /\ l + (j - at) = a
        <5>1. PICK k \in Int : k = j - at
          BY ONLY <1>6, <2>0, SizeFacts
        <5> QED BY ONLY <1>7, <2>3, <3>1, <3>2, <5>1, d \in Nat, a \in Int
      <4> QED BY ONLY <1>8, <1>9, <1>12, <2>1, <2>4, <4>1
    <3>3. CASE a <= l
      <4>1. j - at \notin 1 .. d /\ a \in 1 .. l
        BY ONLY <1>0, <1>7, <2>1, <2>3, <3>1, <3>3
      <4>2. E.page[r[b]][j] = bytes[a]
        BY ONLY <1>10, <1>12, <2>1, <2>4, <4>1
      <4> QED BY ONLY <1>8, <1>9, <1>12, <2>1, <2>4, <4>1, <4>2
    <3> QED BY ONLY <1>7, <2>1, <3>2, <3>3
  <2>5. CASE i # b
    <3>2. r[i] \in Pages /\ r[i] # r[b] /\ off[r[b]] >= off[r[i]] + SIZE
      BY ONLY <1>2, <1>11, <1>12, <2>5
    <3>3. a \in 1 .. l
      <4>1. E.back_left \in Int /\ E.back_left <= SIZE /\ j <= SIZE /\ SIZE \in Int
        BY ONLY <1>1, <1>5, <1>12
      <4>3. PICK o \in Int, k \in Int, u \in Int :
               o = off[r[b]] /\ k = E.back_left /\ u = off[r[i]]
        BY ONLY <1>4, <2>0, <4>1
      <4>4. /\ o + SIZE - k = start + l /\ o >= u + SIZE /\ a = u + j - start
            /\ k <= SIZE /\ j <= SIZE
        BY ONLY <1>4, <1>7, <2>1, <3>2, <4>1, <4>3
      <4>2. a <= l
        BY ONLY <2>0, <4>1, <4>3, <4>4, start \in Int, l \in Nat, a \in Int
      <4> QED BY ONLY <1>0, <1>7, <2>1, <2>3, <4>2
    <3>4. E.page[r[i]][j] = bytes[a]
      BY ONLY <1>10, <1>12, <2>1, <3>3
    <3> QED BY ONLY <1>8, <1>9, <1>12, <2>1, <3>2, <3>3, <3>4
  <2> QED BY <2>4, <2>5
<1>13. off[r[0]] + F.front_left = start
  BY ONLY <1>3, F.front_left = E.front_left
<1>14. off[r[b]] + SIZE - F.back_left = start + Len(all)
  <2>1. E.back_left \in Int /\ SIZE \in Int /\ F.back_left = E.back_left - d
    BY ONLY <1>0, <1>1, <1>5, F.back_left = E.back_left - Len(data)
  <2>2. off[r[b]] + SIZE - E.back_left = start + l
    BY ONLY <1>4, <1>7
  <2>3. PICK o \in Int, k \in Int : o = off[r[b]] /\ k = E.back_left
    BY ONLY <1>4, <2>1
  <2>4. o + SIZE - k = start + l /\ off[r[b]] + SIZE - F.back_left = o + SIZE - (k - d)
    BY ONLY <2>1, <2>2, <2>3
  <2>5. o + SIZE - (k - d) = start + (l + d)
    BY ONLY <2>1, <2>3, <2>4, start \in Int, l \in Nat, d \in Nat
  <2> QED BY ONLY <1>8, <2>4, <2>5
<1>15. \A i \in 0 .. b, j \in 1 .. SIZE :
          off[r[i]] + j - start \in 1 .. Len(all)
             => F.page[r[i]][j] = all[off[r[i]] + j - start]
  BY <1>12
<1> QED BY ONLY <1>13, <1>14, <1>15, F.page_offset = E.page_offset DEF HasContent, off, all

LEMMA TakeFrontHolds ==
  ASSUME NEW V, NEW E, NEW start, NEW bytes, NEW data, Holds(E, V, start, bytes),
         data \in Seq(V), Len(data) <= E.front_left
  PROVE  /\ Holds(TakeFront(E, data), V, start - Len(data), data \o bytes)
         /\ SameUse(TakeFront(E, data), E)
         /\ TakeFront(E, data).front = E.front
<1> DEFINE F == TakeFront(E, data)
<1>1. /\ E \in Emitters(V) /\ Garbage \in V /\ IsCounted(E) /\ start \in Int /\ bytes \in Seq(V)
  BY DEF Holds
<1>2. /\ IsRecord(F)
      /\ F.front_left = E.front_left - Len(data)
      /\ F.page = Write(E, E.front, E.front_left - Len(data), data)
      /\ F.front = E.front /\ F.back = E.back /\ F.next = E.next /\ F.prev = E.prev
      /\ F.page_offset = E.page_offset /\ F.back_left = E.back_left
      /\ F.used = E.used /\ F.capacity = E.capacity /\ F.heap = E.heap
      /\ F.used_average = E.used_average /\ F.memory = E.memory
  BY <1>1, TakeFrontFields
<1> HIDE DEF F
<1>3. /\ E.next \in [Pages -> Pages \cup {NULL}] /\ E.prev \in [Pages -> Pages \cup {NULL}]
      /\ E.front \in Pages \cup {NULL} /\ E.back \in Pages \cup {NULL}
      /\ E.page \in [Pages -> [1 .. SIZE -> V]] /\ E.page_offset \in [Pages -> Int]
      /\ E.front_left \in 0 .. SIZE /\ E.back_left \in 0 .. SIZE
      /\ E.used \in Nat /\ E.used_average \in Nat /\ E.memory \in Nat /\ E.capacity \in Nat
      /\ E.heap \in SUBSET Pages
  BY <1>1 DEF Emitters
<1>4. Len(data) \in Nat /\ SIZE \in Nat /\ E.front_left - Len(data) \in 0 .. SIZE
  BY <1>3, SizeFacts
<1>5. F.page \in [Pages -> [1 .. SIZE -> V]]
  <2>1. CASE E.front \in Pages
    <3>1. PICK at \in Int : at = E.front_left - Len(data)
      BY <1>4
    <3>2. Write(E, E.front, at, data) \in [Pages -> [1 .. SIZE -> V]]
      BY <1>3, <2>1, WriteType
    <3> QED BY <1>2, <3>1, <3>2
  <2>2. CASE E.front = NULL
    <3>1. F.page = E.page
      BY <1>2, <1>3, <2>2, SizeFacts DEF Write
    <3> QED BY <1>3, <3>1
  <2> QED BY <1>3, <2>1, <2>2
<1>6. F \in Emitters(V)
  BY <1>2, <1>3, <1>4, <1>5, EmitterFromFields
<1>7. IsCounted(F) /\ SameUse(F, E)
  BY <1>1, <1>2 DEF IsCounted, SameUse
<1>8. /\ start - Len(data) \in Int
      /\ data \o bytes \in Seq(V)
  BY <1>1, <1>4, ConcatAt
<1>9. CASE IsEmpty(E) /\ start = 0 /\ bytes = <<>>
  <2>1. Len(data) = 0
    BY <1>4, <1>9 DEF IsEmpty
  <2>2. data = <<>>
    BY <2>1
  <2>3. data \o bytes = <<>>
    BY <1>9, <2>2
  <2>4. start - Len(data) = 0
    BY <1>9, <2>1
  <2>5. IsEmpty(F)
    BY <1>2, <1>9, <2>1 DEF IsEmpty
  <2> QED BY <1>1, <1>2, <1>6, <1>7, <1>8, <2>3, <2>4, <2>5 DEF Holds, F
<1>10. CASE \E r, n, b : IsWhole(E, r, n, b) /\ HasContent(E, r, b, start, bytes)
  <2>1. PICK r, n, b : IsWhole(E, r, n, b) /\ HasContent(E, r, b, start, bytes)
    BY <1>10
  <2>2. IsRing(E, r, n) /\ IsSpan(E, r, n, b)
    BY <2>1 DEF IsWhole
  <2>3. /\ n \in Nat /\ r \in [0 .. n - 1 -> Pages] /\ E.front = r[0]
        /\ \A i, j \in 0 .. n - 1 : r[i] = r[j] => i = j
    BY <1>3, <2>2 DEF IsRing
  <2>4. F.page = Write(E, r[0], E.front_left - Len(data), data)
    BY <1>2, <2>3
  <2>5. HasContent(F, r, b, start - Len(data), data \o bytes)
    BY <1>1, <1>2, <2>1, <2>2, <2>3, <2>4, ContentInFront
  <2>6. IsRing(F, r, n)
    BY <1>2, <2>2 DEF IsRing
  <2>7. IsSpan(F, r, n, b)
    BY <1>2, <2>2 DEF IsSpan
  <2>8. IsWhole(F, r, n, b)
    BY <2>6, <2>7 DEF IsWhole
  <2> QED BY <1>1, <1>2, <1>6, <1>7, <1>8, <2>5, <2>8 DEF Holds, F
<1> QED BY <1>9, <1>10 DEF Holds

LEMMA TakeBackHolds ==
  ASSUME NEW V, NEW E, NEW start, NEW bytes, NEW data, Holds(E, V, start, bytes),
         data \in Seq(V), Len(data) <= E.back_left
  PROVE  /\ Holds(TakeBack(E, data), V, start, bytes \o data)
         /\ SameUse(TakeBack(E, data), E)
         /\ TakeBack(E, data).back = E.back
<1> DEFINE F == TakeBack(E, data)
<1>1. /\ E \in Emitters(V) /\ Garbage \in V /\ IsCounted(E) /\ start \in Int /\ bytes \in Seq(V)
  BY DEF Holds
<1>2. /\ IsRecord(F)
      /\ F.back_left = E.back_left - Len(data)
      /\ F.page = Write(E, E.back, SIZE - E.back_left, data)
      /\ F.front = E.front /\ F.back = E.back /\ F.next = E.next /\ F.prev = E.prev
      /\ F.page_offset = E.page_offset /\ F.front_left = E.front_left
      /\ F.used = E.used /\ F.capacity = E.capacity /\ F.heap = E.heap
      /\ F.used_average = E.used_average /\ F.memory = E.memory
  BY <1>1, TakeBackFields
<1> HIDE DEF F
<1>3. /\ E.next \in [Pages -> Pages \cup {NULL}] /\ E.prev \in [Pages -> Pages \cup {NULL}]
      /\ E.front \in Pages \cup {NULL} /\ E.back \in Pages \cup {NULL}
      /\ E.page \in [Pages -> [1 .. SIZE -> V]] /\ E.page_offset \in [Pages -> Int]
      /\ E.front_left \in 0 .. SIZE /\ E.back_left \in 0 .. SIZE
      /\ E.used \in Nat /\ E.used_average \in Nat /\ E.memory \in Nat /\ E.capacity \in Nat
      /\ E.heap \in SUBSET Pages
  BY <1>1 DEF Emitters
<1>4. Len(data) \in Nat /\ SIZE \in Nat /\ E.back_left - Len(data) \in 0 .. SIZE
  BY <1>3, SizeFacts
<1>5. F.page \in [Pages -> [1 .. SIZE -> V]]
  <2>1. CASE E.back \in Pages
    <3>1. PICK at \in Int : at = SIZE - E.back_left
      BY <1>3, <1>4
    <3>2. Write(E, E.back, at, data) \in [Pages -> [1 .. SIZE -> V]]
      BY <1>3, <2>1, WriteType
    <3> QED BY <1>2, <3>1, <3>2
  <2>2. CASE E.back = NULL
    <3>1. F.page = E.page
      BY <1>2, <1>3, <2>2, SizeFacts DEF Write
    <3> QED BY <1>3, <3>1
  <2> QED BY <1>3, <2>1, <2>2
<1>6. F \in Emitters(V)
  BY <1>2, <1>3, <1>4, <1>5, EmitterFromFields
<1>7. IsCounted(F) /\ SameUse(F, E)
  BY <1>1, <1>2 DEF IsCounted, SameUse
<1>8. /\ start \in Int
      /\ bytes \o data \in Seq(V)
  BY <1>1, <1>4, ConcatAt
<1>9. CASE IsEmpty(E) /\ start = 0 /\ bytes = <<>>
  <2>1. Len(data) = 0
    BY <1>4, <1>9 DEF IsEmpty
  <2>2. data = <<>>
    BY <2>1
  <2>3. bytes \o data = <<>>
    BY <1>9, <2>2
  <2>4. start = 0
    BY <1>9, <2>1
  <2>5. IsEmpty(F)
    BY <1>2, <1>9, <2>1 DEF IsEmpty
  <2> QED BY <1>1, <1>2, <1>6, <1>7, <1>8, <2>3, <2>4, <2>5 DEF Holds, F
<1>10. CASE \E r, n, b : IsWhole(E, r, n, b) /\ HasContent(E, r, b, start, bytes)
  <2>1. PICK r, n, b : IsWhole(E, r, n, b) /\ HasContent(E, r, b, start, bytes)
    BY <1>10
  <2>2. IsRing(E, r, n) /\ IsSpan(E, r, n, b)
    BY <2>1 DEF IsWhole
  <2>3. /\ n \in Nat /\ r \in [0 .. n - 1 -> Pages] /\ E.back = r[b]
        /\ \A i, j \in 0 .. n - 1 : r[i] = r[j] => i = j
    BY <1>3, <2>2 DEF IsRing, IsSpan
  <2>4. F.page = Write(E, r[b], SIZE - E.back_left, data)
    BY <1>2, <2>3
  <2>5. HasContent(F, r, b, start, bytes \o data)
    BY <1>1, <1>2, <2>1, <2>2, <2>3, <2>4, ContentInBack
  <2>6. IsRing(F, r, n)
    BY <1>2, <2>2 DEF IsRing
  <2>7. IsSpan(F, r, n, b)
    BY <1>2, <2>2 DEF IsSpan
  <2>8. IsWhole(F, r, n, b)
    BY <2>6, <2>7 DEF IsWhole
  <2> QED BY <1>1, <1>2, <1>6, <1>7, <1>8, <2>5, <2>8 DEF Holds, F
<1> QED BY <1>9, <1>10 DEF Holds

-----------------------------------------------------------------------------
(* The loops of copy_front and copy_back *)

\* What was copied, and what of the data is left to copy, make up all.
TakenFront(c, V, E, end, all) ==
    /\ c \in [ok : BOOLEAN, E : Emitters(V), data : Seq(V)]
    /\ SameUse(c.E, E)
    /\ \E bytes \in Seq(V) : Holds(c.E, V, end - Len(bytes), bytes) /\ c.data \o bytes = all
    /\ c.ok = FALSE => (c.E.front = NULL => c.E.memory = 0)
TakenBack(c, V, E, start, all) ==
    /\ c \in [ok : BOOLEAN, E : Emitters(V), data : Seq(V)]
    /\ SameUse(c.E, E)
    /\ \E bytes \in Seq(V) : Holds(c.E, V, start, bytes) /\ bytes \o c.data = all
    /\ c.ok = FALSE => (c.E.front = NULL => c.E.memory = 0)

\* A turn that goes on copies something.
Copies(d, c) == d.ok = TRUE => c.ok = TRUE /\ (d.data = <<>> \/ Len(d.data) < Len(c.data))

LEMMA PrependRest ==
  ASSUME NEW W, NEW s \in Seq(W), NEW t \in Seq(W), NEW n \in 0 .. Len(s)
  PROVE  SubSeq(s, 1, n) \o (Rest(s, n) \o t) = s \o t
<1>1. SubSeq(s, 1, n) \in Seq(W) /\ Rest(s, n) \in Seq(W)
  BY FirstType, RestType
<1>2. SubSeq(s, 1, n) \o Rest(s, n) = s
  BY FirstAndRest
<1>3. Regroups(SubSeq(s, 1, n), Rest(s, n), t)
  BY ONLY <1>1, t \in Seq(W), Regroup
<1> QED BY ONLY <1>2, <1>3 DEF Regroups

FrontRoomOf(E) == IF E.front_left = 0 THEN advance_front(E) ELSE Done(E)
BackRoomOf(E) == IF E.back_left = 0 THEN advance_back(E) ELSE Done(E)

\* A ring has a front page.
LEMMA RingFront ==
  ASSUME NEW V, NEW E \in Emitters(V), NEW r, NEW n, IsRing(E, r, n)
  PROVE  E.front \in E.heap /\ E.front \in Pages /\ E.front # NULL
<1>1. 0 \in 0 .. n - 1
  BY DEF IsRing
<1>2. E.front = r[0] /\ r \in [0 .. n - 1 -> E.heap]
  BY DEF IsRing
<1>3. E.heap \in SUBSET Pages
  BY DEF Emitters
<1> QED BY <1>1, <1>2, <1>3, SizeFacts

LEMMA NoFront ==
  ASSUME NEW V, NEW E, NEW start, NEW bytes, Holds(E, V, start, bytes), E.front = NULL
  PROVE  IsEmpty(E) /\ start = 0 /\ bytes = <<>>
<1>1. E \in Emitters(V)
  BY DEF Holds
<1>2. ~ \E r, n, b : IsWhole(E, r, n, b)
  BY <1>1, RingFront DEF IsWhole
<1> QED BY <1>2 DEF Holds

LEMMA FrontRoom ==
  ASSUME NEW V, NEW E, NEW start, NEW bytes, Holds(E, V, start, bytes)
  PROVE  LET a == FrontRoomOf(E)
         IN  \/ /\ a.ok = TRUE /\ Holds(a.E, V, start, bytes) /\ SameUse(a.E, E)
                /\ a.E.front_left > 0
             \/ a.ok = FALSE /\ a.E = E /\ (E.front = NULL => E.memory = 0)
<1>1. CASE E.front_left = 0
  <2>1. PICK a : a = advance_front(E)
    OBVIOUS
  <2>2. \/ /\ a.ok = TRUE /\ AdvancedFrom(a.E, E, V, start, bytes) /\ a.E.front_left > 0
        \/ a.ok = FALSE /\ a.E = E /\ (E.front = NULL => E.memory = 0)
    BY <1>1, <2>1, AdvanceFront
  <2>3. FrontRoomOf(E) = a
    BY <1>1, <2>1 DEF FrontRoomOf
  <2> QED BY <2>2, <2>3 DEF AdvancedFrom
<1>2. CASE E.front_left # 0
  <2>1. E.front_left \in Nat
    BY SizeFacts DEF Holds, Emitters
  <2> QED BY <1>2, <2>1 DEF FrontRoomOf, Done, SameUse
<1> QED BY <1>1, <1>2

LEMMA BackRoom ==
  ASSUME NEW V, NEW E, NEW start, NEW bytes, Holds(E, V, start, bytes)
  PROVE  LET a == BackRoomOf(E)
         IN  \/ /\ a.ok = TRUE /\ Holds(a.E, V, start, bytes) /\ SameUse(a.E, E)
                /\ a.E.back_left > 0
             \/ a.ok = FALSE /\ a.E = E /\ (E.front = NULL => E.memory = 0)
<1>1. CASE E.back_left = 0
  <2>1. PICK a : a = advance_back(E)
    OBVIOUS
  <2>2. \/ /\ a.ok = TRUE /\ AdvancedFrom(a.E, E, V, start, bytes) /\ a.E.back_left > 0
        \/ a.ok = FALSE /\ a.E = E /\ (E.front = NULL => E.memory = 0)
    BY <1>1, <2>1, AdvanceBack, NoFront DEF IsEmpty
  <2>3. BackRoomOf(E) = a
    BY <1>1, <2>1 DEF BackRoomOf
  <2> QED BY <2>2, <2>3 DEF AdvancedFrom
<1>2. CASE E.back_left # 0
  <2>1. E.back_left \in Nat
    BY SizeFacts DEF Holds, Emitters
  <2> QED BY <1>2, <2>1 DEF BackRoomOf, Done, SameUse
<1> QED BY <1>1, <1>2

LEMMA FittingFacts ==
  ASSUME NEW V, NEW data \in Seq(V), NEW room \in Nat, room > 0, data # <<>>
  PROVE  Fitting(data, room) \in 1 .. Len(data) /\ Fitting(data, room) <= room
<1>1. Len(data) \in Nat /\ Len(data) # 0
  BY EmptySeq
<1> QED BY <1>1 DEF Fitting

LEMMA FrontTurnKeeps ==
  ASSUME NEW V, NEW E, NEW c, NEW end \in Int, NEW all, TakenFront(c, V, E, end, all)
  PROVE  TakenFront(FrontTurn(c), V, E, end, all) /\ Copies(FrontTurn(c), c)
<1>1. /\ c \in [ok : BOOLEAN, E : Emitters(V), data : Seq(V)] /\ SameUse(c.E, E)
      /\ c.data \in Seq(V)
  BY DEF TakenFront
<1>2. PICK bytes \in Seq(V) : Holds(c.E, V, end - Len(bytes), bytes) /\ c.data \o bytes = all
  BY DEF TakenFront
<1>3. CASE ~c.ok \/ c.data = <<>>
  BY <1>1, <1>3 DEF FrontTurn, Copies
<1>4. CASE c.ok /\ c.data # <<>>
  <2>1. PICK a : a = FrontRoomOf(c.E)
    OBVIOUS
  <2>2. \/ /\ a.ok = TRUE /\ Holds(a.E, V, end - Len(bytes), bytes) /\ SameUse(a.E, c.E)
           /\ a.E.front_left > 0
        \/ a.ok = FALSE /\ a.E = c.E /\ (c.E.front = NULL => c.E.memory = 0)
    BY <1>2, <2>1, FrontRoom
  <2>3. CASE a.ok = FALSE /\ (c.E.front = NULL => c.E.memory = 0)
    <3>1. FrontTurn(c) = [c EXCEPT !.ok = FALSE]
      BY <1>4, <2>1, <2>3 DEF FrontTurn, FrontRoomOf
    <3> DEFINE d == [c EXCEPT !.ok = FALSE]
    <3>2. /\ d \in [ok : BOOLEAN, E : Emitters(V), data : Seq(V)]
          /\ d.ok = FALSE /\ d.E = c.E /\ d.data = c.data
      BY <1>1
    <3> HIDE DEF d
    <3>3. TakenFront(d, V, E, end, all)
      BY <1>1, <1>2, <2>3, <3>2 DEF TakenFront
    <3>4. Copies(d, c)
      BY <3>2 DEF Copies
    <3> QED BY <3>1, <3>3, <3>4 DEF d
  <2>4. CASE /\ a.ok = TRUE /\ Holds(a.E, V, end - Len(bytes), bytes) /\ SameUse(a.E, c.E)
             /\ a.E.front_left > 0
    <3>1. a.E.front_left \in Nat
      BY <2>4, SizeFacts DEF Holds, Emitters
    <3>2. PICK m : m = Fitting(c.data, a.E.front_left)
      OBVIOUS
    <3>3. m \in 1 .. Len(c.data) /\ m <= a.E.front_left
      BY <1>1, <1>4, <2>4, <3>1, <3>2, FittingFacts
    <3>4. PICK k \in Nat : k = Len(c.data) - m
      <4>1. Len(c.data) \in Nat
        BY <1>1
      <4>2. Len(c.data) - m \in Nat
        BY ONLY <3>3, <4>1
      <4> QED BY ONLY <4>2
    <3>5. k \in 0 .. Len(c.data) /\ Len(c.data) - k = m /\ k < Len(c.data)
      BY <1>1, <3>3, <3>4
    <3>6. /\ Rest(c.data, k) \in Seq(V) /\ Len(Rest(c.data, k)) = m
          /\ SubSeq(c.data, 1, k) \in Seq(V) /\ Len(SubSeq(c.data, 1, k)) = k
      BY <1>1, <3>5, RestType, FirstType
    <3> DEFINE F == TakeFront(a.E, Rest(c.data, k))
               d == [ok |-> TRUE, E |-> F, data |-> SubSeq(c.data, 1, k)]
               new == Rest(c.data, k) \o bytes
    <3>7. FrontTurn(c) = d
      BY <1>4, <2>1, <2>4, <3>2, <3>4 DEF FrontTurn, FrontRoomOf, Rest
    <3>8. Holds(F, V, (end - Len(bytes)) - m, new) /\ SameUse(F, a.E)
      BY <2>4, <3>3, <3>6, TakeFrontHolds
    <3>9. new \in Seq(V) /\ (end - Len(bytes)) - m = end - Len(new)
      <4>1. new \in Seq(V) /\ Len(new) = m + Len(bytes)
        BY <3>6, ConcatAt
      <4> HIDE DEF new
      <4> QED BY <3>3, <4>1
    <3>10. SubSeq(c.data, 1, k) \o new = all
      BY <1>1, <1>2, <3>5, PrependRest
    <3>11. d \in [ok : BOOLEAN, E : Emitters(V), data : Seq(V)]
      BY <3>6, <3>8 DEF Holds
    <3>12. d.ok = TRUE /\ d.E = F /\ d.data = SubSeq(c.data, 1, k)
      OBVIOUS
    <3> HIDE DEF d, F, new
    <3>13. SameUse(d.E, E)
      BY <1>1, <2>4, <3>8, <3>12 DEF SameUse
    <3>14. TakenFront(d, V, E, end, all)
      BY <3>8, <3>9, <3>10, <3>11, <3>12, <3>13 DEF TakenFront
    <3>15. Copies(d, c)
      BY <1>4, <3>5, <3>6, <3>12 DEF Copies
    <3> QED BY <3>7, <3>14, <3>15
  <2> QED BY <2>2, <2>3, <2>4
<1> QED BY <1>3, <1>4

LEMMA BackTurnKeeps ==
  ASSUME NEW V, NEW E, NEW c, NEW start \in Int, NEW all, TakenBack(c, V, E, start, all)
  PROVE  TakenBack(BackTurn(c), V, E, start, all) /\ Copies(BackTurn(c), c)
<1>1. /\ c \in [ok : BOOLEAN, E : Emitters(V), data : Seq(V)] /\ SameUse(c.E, E)
      /\ c.data \in Seq(V)
  BY DEF TakenBack
<1>2. PICK bytes \in Seq(V) : Holds(c.E, V, start, bytes) /\ bytes \o c.data = all
  BY DEF TakenBack
<1>3. CASE ~c.ok \/ c.data = <<>>
  BY <1>1, <1>3 DEF BackTurn, Copies
<1>4. CASE c.ok /\ c.data # <<>>
  <2>1. PICK a : a = BackRoomOf(c.E)
    OBVIOUS
  <2>2. \/ /\ a.ok = TRUE /\ Holds(a.E, V, start, bytes) /\ SameUse(a.E, c.E)
           /\ a.E.back_left > 0
        \/ a.ok = FALSE /\ a.E = c.E /\ (c.E.front = NULL => c.E.memory = 0)
    BY <1>2, <2>1, BackRoom
  <2>3. CASE a.ok = FALSE /\ (c.E.front = NULL => c.E.memory = 0)
    <3>1. BackTurn(c) = [c EXCEPT !.ok = FALSE]
      BY <1>4, <2>1, <2>3 DEF BackTurn, BackRoomOf
    <3> DEFINE d == [c EXCEPT !.ok = FALSE]
    <3>2. /\ d \in [ok : BOOLEAN, E : Emitters(V), data : Seq(V)]
          /\ d.ok = FALSE /\ d.E = c.E /\ d.data = c.data
      BY <1>1
    <3> HIDE DEF d
    <3>3. TakenBack(d, V, E, start, all)
      BY <1>1, <1>2, <2>3, <3>2 DEF TakenBack
    <3>4. Copies(d, c)
      BY <3>2 DEF Copies
    <3> QED BY <3>1, <3>3, <3>4 DEF d
  <2>4. CASE /\ a.ok = TRUE /\ Holds(a.E, V, start, bytes) /\ SameUse(a.E, c.E)
             /\ a.E.back_left > 0
    <3>1. a.E.back_left \in Nat
      BY <2>4, SizeFacts DEF Holds, Emitters
    <3>2. PICK m : m = Fitting(c.data, a.E.back_left)
      OBVIOUS
    <3>3. m \in 1 .. Len(c.data) /\ m <= a.E.back_left
      BY <1>1, <1>4, <2>4, <3>1, <3>2, FittingFacts
    <3>4. m \in 0 .. Len(c.data)
      BY <1>1, <3>3
    <3>5. /\ Rest(c.data, m) \in Seq(V) /\ Len(Rest(c.data, m)) < Len(c.data)
          /\ SubSeq(c.data, 1, m) \in Seq(V) /\ Len(SubSeq(c.data, 1, m)) = m
      <4>1. /\ Rest(c.data, m) \in Seq(V) /\ Len(Rest(c.data, m)) = Len(c.data) - m
            /\ SubSeq(c.data, 1, m) \in Seq(V) /\ Len(SubSeq(c.data, 1, m)) = m
        BY <1>1, <3>4, RestType, FirstType
      <4> QED BY <1>1, <3>3, <4>1
    <3> DEFINE F == TakeBack(a.E, SubSeq(c.data, 1, m))
               d == [ok |-> TRUE, E |-> F, data |-> Rest(c.data, m)]
               new == bytes \o SubSeq(c.data, 1, m)
    <3>6. BackTurn(c) = d
      BY <1>4, <2>1, <2>4, <3>2 DEF BackTurn, BackRoomOf, Rest
    <3>7. Holds(F, V, start, new) /\ SameUse(F, a.E)
      BY <2>4, <3>3, <3>5, TakeBackHolds
    <3>8. new \in Seq(V)
      BY <3>5, ConcatAt
    <3>9. new \o Rest(c.data, m) = all
      BY <1>1, <1>2, <3>4, MoveFirst
    <3>10. d \in [ok : BOOLEAN, E : Emitters(V), data : Seq(V)]
      BY <3>5, <3>7 DEF Holds
    <3>11. d.ok = TRUE /\ d.E = F /\ d.data = Rest(c.data, m)
      OBVIOUS
    <3> HIDE DEF d, F, new
    <3>12. SameUse(d.E, E)
      BY <1>1, <2>4, <3>7, <3>11 DEF SameUse
    <3>13. TakenBack(d, V, E, start, all)
      BY <3>7, <3>8, <3>9, <3>10, <3>11, <3>12 DEF TakenBack
    <3>14. Copies(d, c)
      BY <1>4, <3>5, <3>11 DEF Copies
    <3> QED BY <3>6, <3>13, <3>14
  <2> QED BY <2>2, <2>3, <2>4
<1> QED BY <1>3, <1>4

\* The turns from data on: their number is never more than what is left.
TurnsFront(f, E, data) ==
    f = [i \in Nat |-> IF i = 0 THEN Copying(E, data) ELSE FrontTurn(f[i - 1])]
TurnsBack(f, E, data) ==
    f = [i \in Nat |-> IF i = 0 THEN Copying(E, data) ELSE BackTurn(f[i - 1])]
Left(c, n, i) == c.ok = TRUE => c.data = <<>> \/ Len(c.data) <= n - i

LEMMA FrontTurnsExist ==
  ASSUME NEW V, NEW E, NEW data, NEW end \in Int, NEW all,
         TakenFront(Copying(E, data), V, E, end, all)
  PROVE  \E f : TurnsFront(f, E, data)
<1> DEFINE A == {c \in [ok : BOOLEAN, E : Emitters(V), data : Seq(V)] :
                    TakenFront(c, V, E, end, all)}
           step == [x \in A \X Nat |-> FrontTurn(x[1])]
           zero == Copying(E, data)
<1>1. zero \in A
  BY DEF TakenFront
<1>2. \A c \in A : FrontTurn(c) \in A
  <2> SUFFICES ASSUME NEW c \in A PROVE FrontTurn(c) \in A
    OBVIOUS
  <2>1. TakenFront(FrontTurn(c), V, E, end, all)
    BY FrontTurnKeeps
  <2> QED BY <2>1 DEF TakenFront
<1> HIDE DEF A
<1>3. step \in [A \X Nat -> A]
  BY <1>2
<1>4. PICK f \in [Nat -> A] : Recurs(f, zero, step)
  <2> HIDE DEF step, zero
  <2> QED BY <1>1, <1>3, Recursion
<1>5. f[0] = zero /\ \A n \in Nat : f[n + 1] = FrontTurn(f[n])
  <2>1. f[0] = zero /\ \A n \in Nat : f[n + 1] = step[<<f[n], n>>]
    BY <1>4 DEF Recurs
  <2>2. \A n \in Nat : step[<<f[n], n>>] = FrontTurn(f[n])
    BY <1>4
  <2> QED BY <2>1, <2>2
<1> DEFINE g == [i \in Nat |-> IF i = 0 THEN zero ELSE FrontTurn(f[i - 1])]
<1>6. f = g
  <2>1. f = [i \in Nat |-> f[i]]
    BY <1>4
  <2>2. \A i \in Nat : f[i] = IF i = 0 THEN zero ELSE FrontTurn(f[i - 1])
    <3> SUFFICES ASSUME NEW i \in Nat, i # 0 PROVE f[i] = FrontTurn(f[i - 1])
      BY <1>5
    <3>1. i - 1 \in Nat /\ (i - 1) + 1 = i
      OBVIOUS
    <3> QED BY <1>5, <3>1
  <2> HIDE DEF zero
  <2> QED BY <2>1, <2>2
<1> QED BY <1>6 DEF TurnsFront

LEMMA FrontTurnsKeep ==
  ASSUME NEW V, NEW E, NEW data \in Seq(V), NEW end \in Int, NEW all,
         TakenFront(Copying(E, data), V, E, end, all), NEW f, TurnsFront(f, E, data)
  PROVE  \A i \in Nat : TakenFront(f[i], V, E, end, all) /\ Left(f[i], Len(data), i)
<1> DEFINE n == Len(data)
           S == {i \in Nat : TakenFront(f[i], V, E, end, all) /\ Left(f[i], n, i)}
<1>1. f[0] = Copying(E, data) /\ \A i \in Nat : f[i + 1] = FrontTurn(f[i])
  <2>1. f[0] = Copying(E, data)
    BY DEF TurnsFront
  <2>2. \A i \in Nat : f[i + 1] = FrontTurn(f[i])
    <3> SUFFICES ASSUME NEW i \in Nat PROVE f[i + 1] = FrontTurn(f[i])
      OBVIOUS
    <3>1. i + 1 \in Nat /\ i + 1 # 0 /\ (i + 1) - 1 = i
      OBVIOUS
    <3> QED BY <3>1 DEF TurnsFront
  <2> QED BY <2>1, <2>2
<1>2. n \in Nat
  OBVIOUS
<1>3. 0 \in S
  BY <1>1, <1>2 DEF Copying, Left
<1>4. ASSUME NEW i \in Nat, i \in S PROVE i + 1 \in S
  <2>1. TakenFront(f[i + 1], V, E, end, all) /\ Copies(f[i + 1], f[i])
    BY <1>1, <1>4, FrontTurnKeeps
  <2>2. f[i].data \in Seq(V) /\ f[i + 1].data \in Seq(V)
    BY <1>4, <2>1 DEF TakenFront
  <2>3. Left(f[i + 1], n, i + 1)
    <3>1. CASE f[i + 1].ok = TRUE /\ f[i + 1].data # <<>>
      <4>1. f[i].ok = TRUE /\ Len(f[i + 1].data) < Len(f[i].data)
        BY <2>1, <3>1 DEF Copies
      <4>2. f[i].data # <<>>
        <5>1. Len(f[i + 1].data) \in Nat
          BY <2>2
        <5> QED BY <4>1, <5>1
      <4>3. Len(f[i].data) <= n - i
        BY <1>4, <4>1, <4>2 DEF Left
      <4>4. Len(f[i].data) \in Nat /\ Len(f[i + 1].data) \in Nat
        BY <2>2
      <4> HIDE DEF n
      <4>5. Len(f[i + 1].data) <= n - (i + 1)
        BY <1>2, <4>1, <4>3, <4>4
      <4> QED BY <4>5 DEF Left
    <3>2. CASE f[i + 1].ok # TRUE \/ f[i + 1].data = <<>>
      BY <3>2 DEF Left
    <3> QED BY <3>1, <3>2
  <2> QED BY <2>1, <2>3
<1> HIDE DEF S
<1>5. Nat \subseteq S
  BY <1>3, <1>4, NatSetInduction
<1> QED BY <1>5 DEF S

LEMMA BackTurnsExist ==
  ASSUME NEW V, NEW E, NEW data, NEW start \in Int, NEW all,
         TakenBack(Copying(E, data), V, E, start, all)
  PROVE  \E f : TurnsBack(f, E, data)
<1> DEFINE A == {c \in [ok : BOOLEAN, E : Emitters(V), data : Seq(V)] :
                    TakenBack(c, V, E, start, all)}
           step == [x \in A \X Nat |-> BackTurn(x[1])]
           zero == Copying(E, data)
<1>1. zero \in A
  BY DEF TakenBack
<1>2. \A c \in A : BackTurn(c) \in A
  <2> SUFFICES ASSUME NEW c \in A PROVE BackTurn(c) \in A
    OBVIOUS
  <2>1. TakenBack(BackTurn(c), V, E, start, all)
    BY BackTurnKeeps
  <2> QED BY <2>1 DEF TakenBack
<1> HIDE DEF A
<1>3. step \in [A \X Nat -> A]
  BY <1>2
<1>4. PICK f \in [Nat -> A] : Recurs(f, zero, step)
  <2> HIDE DEF step, zero
  <2> QED BY <1>1, <1>3, Recursion
<1>5. f[0] = zero /\ \A n \in Nat : f[n + 1] = BackTurn(f[n])
  <2>1. f[0] = zero /\ \A n \in Nat : f[n + 1] = step[<<f[n], n>>]
    BY <1>4 DEF Recurs
  <2>2. \A n \in Nat : step[<<f[n], n>>] = BackTurn(f[n])
    BY <1>4
  <2> QED BY <2>1, <2>2
<1> DEFINE g == [i \in Nat |-> IF i = 0 THEN zero ELSE BackTurn(f[i - 1])]
<1>6. f = g
  <2>1. f = [i \in Nat |-> f[i]]
    BY <1>4
  <2>2. \A i \in Nat : f[i] = IF i = 0 THEN zero ELSE BackTurn(f[i - 1])
    <3> SUFFICES ASSUME NEW i \in Nat, i # 0 PROVE f[i] = BackTurn(f[i - 1])
      BY <1>5
    <3>1. i - 1 \in Nat /\ (i - 1) + 1 = i
      OBVIOUS
    <3> QED BY <1>5, <3>1
  <2> HIDE DEF zero
  <2> QED BY <2>1, <2>2
<1> QED BY <1>6 DEF TurnsBack

LEMMA BackTurnsKeep ==
  ASSUME NEW V, NEW E, NEW data \in Seq(V), NEW start \in Int, NEW all,
         TakenBack(Copying(E, data), V, E, start, all), NEW f, TurnsBack(f, E, data)
  PROVE  \A i \in Nat : TakenBack(f[i], V, E, start, all) /\ Left(f[i], Len(data), i)
<1> DEFINE n == Len(data)
           S == {i \in Nat : TakenBack(f[i], V, E, start, all) /\ Left(f[i], n, i)}
<1>1. f[0] = Copying(E, data) /\ \A i \in Nat : f[i + 1] = BackTurn(f[i])
  <2>1. f[0] = Copying(E, data)
    BY DEF TurnsBack
  <2>2. \A i \in Nat : f[i + 1] = BackTurn(f[i])
    <3> SUFFICES ASSUME NEW i \in Nat PROVE f[i + 1] = BackTurn(f[i])
      OBVIOUS
    <3>1. i + 1 \in Nat /\ i + 1 # 0 /\ (i + 1) - 1 = i
      OBVIOUS
    <3> QED BY <3>1 DEF TurnsBack
  <2> QED BY <2>1, <2>2
<1>2. n \in Nat
  OBVIOUS
<1>3. 0 \in S
  BY <1>1, <1>2 DEF Copying, Left
<1>4. ASSUME NEW i \in Nat, i \in S PROVE i + 1 \in S
  <2>1. TakenBack(f[i + 1], V, E, start, all) /\ Copies(f[i + 1], f[i])
    BY <1>1, <1>4, BackTurnKeeps
  <2>2. f[i].data \in Seq(V) /\ f[i + 1].data \in Seq(V)
    BY <1>4, <2>1 DEF TakenBack
  <2>3. Left(f[i + 1], n, i + 1)
    <3>1. CASE f[i + 1].ok = TRUE /\ f[i + 1].data # <<>>
      <4>1. f[i].ok = TRUE /\ Len(f[i + 1].data) < Len(f[i].data)
        BY <2>1, <3>1 DEF Copies
      <4>2. f[i].data # <<>>
        <5>1. Len(f[i + 1].data) \in Nat
          BY <2>2
        <5> QED BY <4>1, <5>1
      <4>3. Len(f[i].data) <= n - i
        BY <1>4, <4>1, <4>2 DEF Left
      <4>4. Len(f[i].data) \in Nat /\ Len(f[i + 1].data) \in Nat
        BY <2>2
      <4> HIDE DEF n
      <4>5. Len(f[i + 1].data) <= n - (i + 1)
        BY <1>2, <4>1, <4>3, <4>4
      <4> QED BY <4>5 DEF Left
    <3>2. CASE f[i + 1].ok # TRUE \/ f[i + 1].data = <<>>
      BY <3>2 DEF Left
    <3> QED BY <3>1, <3>2
  <2> QED BY <2>1, <2>3
<1> HIDE DEF S
<1>5. Nat \subseteq S
  BY <1>3, <1>4, NatSetInduction
<1> QED BY <1>5 DEF S

\* What copying data to an end of the buffer comes to.
CopiesFront(c, V, E, start, bytes, data) ==
    /\ c.ok \in BOOLEAN /\ SameUse(c.E, E)
    /\ c.ok = TRUE => Holds(c.E, V, start - Len(data), data \o bytes)
    /\ c.ok = FALSE => /\ \E s, x : Holds(c.E, V, s, x)
                       /\ c.E.front = NULL => c.E.memory = 0
CopiesBack(c, V, E, start, bytes, data) ==
    /\ c.ok \in BOOLEAN /\ SameUse(c.E, E)
    /\ c.ok = TRUE => Holds(c.E, V, start, bytes \o data)
    /\ c.ok = FALSE => /\ \E s, x : Holds(c.E, V, s, x)
                       /\ c.E.front = NULL => c.E.memory = 0

LEMMA CopyFront ==
  ASSUME NEW V, NEW E, NEW start, NEW bytes, NEW data \in Seq(V), Holds(E, V, start, bytes)
  PROVE  CopiesFront(copy_front(E, data), V, E, start, bytes, data)
<1> DEFINE t == CHOOSE f : TurnsFront(f, E, data)
           n == Len(data)
           end == start + Len(bytes)
           all == data \o bytes
<1>1. E \in Emitters(V) /\ start \in Int /\ bytes \in Seq(V)
  BY DEF Holds
<1>2. end \in Int /\ end - Len(bytes) = start /\ n \in Nat
  BY <1>1
<1>3. TakenFront(Copying(E, data), V, E, end, all)
  BY <1>1, <1>2 DEF TakenFront, Copying, SameUse
<1>4. all \in Seq(V) /\ Len(all) = n + Len(bytes)
  BY <1>1, ConcatAt
<1>5. end - Len(all) = start - n
  BY <1>1, <1>2, <1>4
<1> HIDE DEF all, end
<1>6. \E f : TurnsFront(f, E, data)
  BY <1>2, <1>3, FrontTurnsExist
<1>7. TurnsFront(t, E, data)
  BY <1>6
<1>8. copy_front(E, data) = [ok |-> t[n].ok, E |-> t[n].E]
  BY DEF copy_front, TurnsFront
<1> HIDE DEF t
<1>9. TakenFront(t[n], V, E, end, all) /\ Left(t[n], n, n)
  BY <1>2, <1>3, <1>7, FrontTurnsKeep
<1> HIDE DEF n
<1>10. /\ t[n] \in [ok : BOOLEAN, E : Emitters(V), data : Seq(V)]
       /\ SameUse(t[n].E, E)
       /\ t[n].ok = FALSE => (t[n].E.front = NULL => t[n].E.memory = 0)
  BY <1>9 DEF TakenFront
<1>11. PICK x \in Seq(V) : Holds(t[n].E, V, end - Len(x), x) /\ t[n].data \o x = all
  BY <1>9 DEF TakenFront
<1>12. ASSUME t[n].ok = TRUE PROVE Holds(t[n].E, V, start - n, all)
  <2>1. t[n].data = <<>>
    <3>1. n - n = 0
      BY <1>2
    <3>2. Len(t[n].data) \in Nat /\ (t[n].data = <<>> \/ Len(t[n].data) <= 0)
      BY <1>9, <1>10, <1>12, <3>1 DEF Left
    <3>3. t[n].data \in Seq(V)
      BY <1>10
    <3> QED BY <3>2, <3>3, EmptySeq
  <2>2. x = all
    BY <1>11, <2>1
  <2> QED BY <1>5, <1>11, <2>2
<1>13. PICK c : c = copy_front(E, data)
  OBVIOUS
<1>14. c.ok = t[n].ok /\ c.E = t[n].E
  BY <1>8, <1>13
<1>15. c.ok = TRUE => Holds(c.E, V, start - Len(data), data \o bytes)
  BY ONLY <1>12, <1>14 DEF n, all
<1>16. CopiesFront(c, V, E, start, bytes, data)
  BY <1>10, <1>11, <1>14, <1>15 DEF CopiesFront
<1> QED BY <1>13, <1>16

LEMMA CopyBack ==
  ASSUME NEW V, NEW E, NEW start, NEW bytes, NEW data \in Seq(V), Holds(E, V, start, bytes)
  PROVE  CopiesBack(copy_back(E, data), V, E, start, bytes, data)
<1> DEFINE t == CHOOSE f : TurnsBack(f, E, data)
           n == Len(data)
           all == bytes \o data
<1>1. E \in Emitters(V) /\ start \in Int /\ bytes \in Seq(V)
  BY DEF Holds
<1>2. n \in Nat
  BY <1>1
<1>3. TakenBack(Copying(E, data), V, E, start, all)
  BY <1>1, <1>2 DEF TakenBack, Copying, SameUse
<1> HIDE DEF all
<1>6. \E f : TurnsBack(f, E, data)
  BY <1>1, <1>3, BackTurnsExist
<1>7. TurnsBack(t, E, data)
  BY <1>6
<1>8. copy_back(E, data) = [ok |-> t[n].ok, E |-> t[n].E]
  BY DEF copy_back, TurnsBack
<1> HIDE DEF t
<1>9. TakenBack(t[n], V, E, start, all) /\ Left(t[n], n, n)
  BY <1>1, <1>2, <1>3, <1>7, BackTurnsKeep
<1> HIDE DEF n
<1>10. /\ t[n] \in [ok : BOOLEAN, E : Emitters(V), data : Seq(V)]
       /\ SameUse(t[n].E, E)
       /\ t[n].ok = FALSE => (t[n].E.front = NULL => t[n].E.memory = 0)
  BY <1>9 DEF TakenBack
<1>11. PICK x \in Seq(V) : Holds(t[n].E, V, start, x) /\ x \o t[n].data = all
  BY <1>9 DEF TakenBack
<1>12. ASSUME t[n].ok = TRUE PROVE Holds(t[n].E, V, start, all)
  <2>1. t[n].data = <<>>
    <3>1. n - n = 0
      BY <1>2
    <3>2. Len(t[n].data) \in Nat /\ (t[n].data = <<>> \/ Len(t[n].data) <= 0)
      BY <1>9, <1>10, <1>12, <3>1 DEF Left
    <3>3. t[n].data \in Seq(V)
      BY <1>10
    <3> QED BY <3>2, <3>3, EmptySeq
  <2>2. x = all
    BY <1>11, <2>1
  <2> QED BY <1>11, <2>2
<1>13. PICK c : c = copy_back(E, data)
  OBVIOUS
<1>14. c.ok = t[n].ok /\ c.E = t[n].E
  BY <1>8, <1>13
<1>15. c.ok = TRUE => Holds(c.E, V, start, bytes \o data)
  BY ONLY <1>12, <1>14 DEF all
<1>16. CopiesBack(c, V, E, start, bytes, data)
  BY <1>10, <1>11, <1>14, <1>15 DEF CopiesBack
<1> QED BY <1>13, <1>16

-----------------------------------------------------------------------------
(* The entries of iov one by one *)

FlatUpTo(iov, m) == FlattenSeq(SubSeq(iov, 1, m))

LEMMA FlatUpToFacts ==
  ASSUME NEW V, NEW iov \in Seq(Seq(V))
  PROVE  /\ FlatUpTo(iov, 0) = <<>> /\ FlatUpTo(iov, Len(iov)) = FlattenSeq(iov)
         /\ \A m \in 0 .. Len(iov) : FlatUpTo(iov, m) \in Seq(V)
         /\ \A m \in 0 .. Len(iov) - 1 :
               iov[m + 1] \in Seq(V) /\ FlatUpTo(iov, m + 1) = FlatUpTo(iov, m) \o iov[m + 1]
<1>1. SubSeq(iov, 1, 0) = <<>> /\ SubSeq(iov, 1, Len(iov)) = iov
  OBVIOUS
<1>2. \A m \in 0 .. Len(iov) : SubSeq(iov, 1, m) \in Seq(Seq(V))
  OBVIOUS
<1>3. \A m \in 0 .. Len(iov) : FlatUpTo(iov, m) \in Seq(V)
  BY <1>2, FlattenType DEF FlatUpTo
<1>4. ASSUME NEW m \in 0 .. Len(iov) - 1
      PROVE  iov[m + 1] \in Seq(V) /\ FlatUpTo(iov, m + 1) = FlatUpTo(iov, m) \o iov[m + 1]
  <2>1. iov[m + 1] \in Seq(V) /\ m \in 0 .. Len(iov)
    OBVIOUS
  <2>2. SubSeq(iov, 1, m + 1) = Append(SubSeq(iov, 1, m), iov[m + 1])
    OBVIOUS
  <2>3. SubSeq(iov, 1, m) \in Seq(Seq(V))
    BY <1>2, <2>1
  <2> QED BY <2>1, <2>2, <2>3, FlattenAppend DEF FlatUpTo
<1> QED BY <1>1, <1>3, <1>4, FlattenEmpty DEF FlatUpTo

\* A recursive function over 0 .. n.
LEMMA RecursionUpTo ==
  ASSUME NEW A, NEW c \in A, NEW n \in Nat, NEW step \in [A \X (0 .. n - 1) -> A]
  PROVE  \E f \in [0 .. n -> A] : Steps(f, c, step, n)
<1> DEFINE on == [x \in A \X Nat |-> IF x[2] < n THEN step[x] ELSE x[1]]
<1>1. on \in [A \X Nat -> A]
  <2>1. \A x \in A \X Nat : x[2] < n => x \in A \X (0 .. n - 1)
    OBVIOUS
  <2>2. \A x \in A \X Nat : (IF x[2] < n THEN step[x] ELSE x[1]) \in A
    BY <2>1
  <2> QED BY <2>2
<1>2. PICK f \in [Nat -> A] : Recurs(f, c, on)
  <2> HIDE DEF on
  <2> QED BY <1>1, Recursion
<1>3. f[0] = c /\ \A i \in Nat : f[i + 1] = on[<<f[i], i>>]
  BY <1>2 DEF Recurs
<1> DEFINE g == [i \in 0 .. n |-> f[i]]
<1>4. g \in [0 .. n -> A] /\ g[0] = c
  BY <1>2, <1>3
<1>5. ASSUME NEW i \in 0 .. n - 1 PROVE g[i + 1] = step[<<g[i], i>>]
  <2>1. i \in 0 .. n /\ i + 1 \in 0 .. n /\ i \in Nat /\ i < n /\ f[i] \in A
    BY <1>2
  <2>2. g[i + 1] = f[i + 1] /\ g[i] = f[i]
    BY <2>1
  <2>3. f[i + 1] = on[<<f[i], i>>]
    BY <1>3, <2>1
  <2>4. on[<<f[i], i>>] = step[<<f[i], i>>]
    BY <2>1
  <2> QED BY <2>2, <2>3, <2>4
<1> HIDE DEF g
<1> QED BY <1>4, <1>5 DEF Steps

\* What the emitter holds when m entries are still to be put in front of it,
\* and when m entries have been put behind it.
FrontSoFar(c, V, E, end, all, iov, m) ==
    /\ c \in [ok : BOOLEAN, E : Emitters(V)] /\ SameUse(c.E, E)
    /\ \E s, x : Holds(c.E, V, s, x)
    /\ c.ok = TRUE => \E x \in Seq(V) : Holds(c.E, V, end - Len(x), x)
                                        /\ FlatUpTo(iov, m) \o x = all
    /\ c.ok = FALSE => (c.E.front = NULL => c.E.memory = 0)
BackSoFar(c, V, E, start, bytes, iov, m) ==
    /\ c \in [ok : BOOLEAN, E : Emitters(V)] /\ SameUse(c.E, E)
    /\ \E s, x : Holds(c.E, V, s, x)
    /\ c.ok = TRUE => Holds(c.E, V, start, bytes \o FlatUpTo(iov, m))
    /\ c.ok = FALSE => (c.E.front = NULL => c.E.memory = 0)

LEMMA CopyFrontType ==
  ASSUME NEW V, NEW E, NEW start, NEW bytes, NEW data \in Seq(V), Holds(E, V, start, bytes)
  PROVE  /\ copy_front(E, data) \in [ok : BOOLEAN, E : Emitters(V)]
         /\ \E s, x : Holds(copy_front(E, data).E, V, s, x)
<1>1. CopiesFront(copy_front(E, data), V, E, start, bytes, data)
  BY CopyFront
<1>2. copy_front(E, data) = [ok |-> copy_front(E, data).ok, E |-> copy_front(E, data).E]
  BY DEF copy_front
<1>3. \E s, x : Holds(copy_front(E, data).E, V, s, x)
  BY <1>1 DEF CopiesFront
<1>4. copy_front(E, data).E \in Emitters(V) /\ copy_front(E, data).ok \in BOOLEAN
  BY <1>1, <1>3 DEF Holds, CopiesFront
<1> QED BY <1>2, <1>3, <1>4

LEMMA CopyBackType ==
  ASSUME NEW V, NEW E, NEW start, NEW bytes, NEW data \in Seq(V), Holds(E, V, start, bytes)
  PROVE  /\ copy_back(E, data) \in [ok : BOOLEAN, E : Emitters(V)]
         /\ \E s, x : Holds(copy_back(E, data).E, V, s, x)
<1>1. CopiesBack(copy_back(E, data), V, E, start, bytes, data)
  BY CopyBack
<1>2. copy_back(E, data) = [ok |-> copy_back(E, data).ok, E |-> copy_back(E, data).E]
  BY DEF copy_back
<1>3. \E s, x : Holds(copy_back(E, data).E, V, s, x)
  BY <1>1 DEF CopiesBack
<1>4. copy_back(E, data).E \in Emitters(V) /\ copy_back(E, data).ok \in BOOLEAN
  BY <1>1, <1>3 DEF Holds, CopiesBack
<1> QED BY <1>2, <1>3, <1>4

LEMMA FrontPieceKeeps ==
  ASSUME NEW V, NEW E, NEW c, NEW end \in Int, NEW all, NEW iov \in Seq(Seq(V)),
         NEW m \in 0 .. Len(iov) - 1, FrontSoFar(c, V, E, end, all, iov, m + 1)
  PROVE  FrontSoFar(FrontPiece(c, iov[m + 1]), V, E, end, all, iov, m)
<1>1. /\ iov[m + 1] \in Seq(V) /\ FlatUpTo(iov, m) \in Seq(V)
      /\ FlatUpTo(iov, m + 1) = FlatUpTo(iov, m) \o iov[m + 1]
  <2>1. m \in 0 .. Len(iov)
    OBVIOUS
  <2> QED BY <2>1, FlatUpToFacts
<1>2. c \in [ok : BOOLEAN, E : Emitters(V)] /\ SameUse(c.E, E)
  BY DEF FrontSoFar
<1>3. CASE c.ok = FALSE
  BY <1>3 DEF FrontPiece, FrontSoFar
<1>4. CASE c.ok = TRUE
  <2>1. PICK x \in Seq(V) : Holds(c.E, V, end - Len(x), x) /\ FlatUpTo(iov, m + 1) \o x = all
    BY <1>4 DEF FrontSoFar
  <2>2. PICK piece \in Seq(V) : piece = iov[m + 1]
    BY <1>1
  <2>3. PICK d : d = copy_front(c.E, piece)
    OBVIOUS
  <2>4. /\ d \in [ok : BOOLEAN, E : Emitters(V)]
        /\ \E s, y : Holds(d.E, V, s, y)
    BY <2>1, <2>3, CopyFrontType
  <2>5. CopiesFront(d, V, c.E, end - Len(x), x, piece)
    BY <2>1, <2>3, CopyFront
  <2>6. SameUse(d.E, E)
    BY <1>2, <2>5 DEF CopiesFront, SameUse
  <2>7. FrontPiece(c, piece) = d
    BY <1>4, <2>3 DEF FrontPiece
  <2>8. ASSUME d.ok = TRUE
        PROVE  \E y \in Seq(V) : Holds(d.E, V, end - Len(y), y) /\ FlatUpTo(iov, m) \o y = all
    <3>1. PICK y : y = piece \o x
      OBVIOUS
    <3>2. y \in Seq(V) /\ Len(y) = Len(piece) + Len(x)
      BY ONLY <3>1, piece \in Seq(V), x \in Seq(V), ConcatAt
    <3>3. Holds(d.E, V, (end - Len(x)) - Len(piece), y)
      BY <2>5, <2>8, <3>1 DEF CopiesFront
    <3>4. (end - Len(x)) - Len(piece) = end - Len(y)
      <4>1. Len(x) \in Nat /\ Len(piece) \in Nat
        OBVIOUS
      <4> QED BY ONLY <3>2, <4>1, end \in Int
    <3>5. Regroups(FlatUpTo(iov, m), piece, x)
      BY ONLY <1>1, piece \in Seq(V), x \in Seq(V), Regroup
    <3>6. FlatUpTo(iov, m) \o y = all
      BY ONLY <1>1, <2>1, <2>2, <3>1, <3>5 DEF Regroups
    <3> QED BY <3>2, <3>3, <3>4, <3>6
  <2>9. d.ok = FALSE => (d.E.front = NULL => d.E.memory = 0)
    BY <2>5 DEF CopiesFront
  <2> QED BY <2>2, <2>4, <2>6, <2>7, <2>8, <2>9 DEF FrontSoFar
<1> QED BY <1>2, <1>3, <1>4

LEMMA BackPieceKeeps ==
  ASSUME NEW V, NEW E, NEW c, NEW start \in Int, NEW bytes \in Seq(V), NEW iov \in Seq(Seq(V)),
         NEW m \in 0 .. Len(iov) - 1, BackSoFar(c, V, E, start, bytes, iov, m)
  PROVE  BackSoFar(BackPiece(c, iov[m + 1]), V, E, start, bytes, iov, m + 1)
<1>1. /\ iov[m + 1] \in Seq(V) /\ FlatUpTo(iov, m) \in Seq(V)
      /\ FlatUpTo(iov, m + 1) = FlatUpTo(iov, m) \o iov[m + 1]
  <2>1. m \in 0 .. Len(iov)
    OBVIOUS
  <2> QED BY <2>1, FlatUpToFacts
<1>2. c \in [ok : BOOLEAN, E : Emitters(V)] /\ SameUse(c.E, E)
  BY DEF BackSoFar
<1>3. CASE c.ok = FALSE
  BY <1>3 DEF BackPiece, BackSoFar
<1>4. CASE c.ok = TRUE
  <2>1. Holds(c.E, V, start, bytes \o FlatUpTo(iov, m))
    BY <1>4 DEF BackSoFar
  <2>2. PICK piece \in Seq(V) : piece = iov[m + 1]
    BY <1>1
  <2>3. PICK d : d = copy_back(c.E, piece)
    OBVIOUS
  <2>4. /\ d \in [ok : BOOLEAN, E : Emitters(V)]
        /\ \E s, y : Holds(d.E, V, s, y)
    BY <2>1, <2>3, CopyBackType
  <2>5. CopiesBack(d, V, c.E, start, bytes \o FlatUpTo(iov, m), piece)
    BY <2>1, <2>3, CopyBack
  <2>6. SameUse(d.E, E)
    BY <1>2, <2>5 DEF CopiesBack, SameUse
  <2>7. BackPiece(c, piece) = d
    BY <1>4, <2>3 DEF BackPiece
  <2>8. d.ok = TRUE => Holds(d.E, V, start, bytes \o FlatUpTo(iov, m + 1))
    <3>1. d.ok = TRUE => Holds(d.E, V, start, (bytes \o FlatUpTo(iov, m)) \o piece)
      BY <2>5 DEF CopiesBack
    <3>2. Regroups(bytes, FlatUpTo(iov, m), piece)
      BY ONLY <1>1, piece \in Seq(V), bytes \in Seq(V), Regroup
    <3> QED BY ONLY <1>1, <2>2, <3>1, <3>2 DEF Regroups
  <2>9. d.ok = FALSE => (d.E.front = NULL => d.E.memory = 0)
    BY <2>5 DEF CopiesBack
  <2> QED BY <2>2, <2>4, <2>6, <2>7, <2>8, <2>9 DEF BackSoFar
<1> QED BY <1>2, <1>3, <1>4

\* The entries from the first turn on.
PutsEachFront(f, E, iov) ==
    f = [i \in 0 .. Len(iov) |-> IF i = 0 THEN Done(E)
                                 ELSE FrontPiece(f[i - 1], iov[Len(iov) - i + 1])]
PutsEachBack(f, E, iov) ==
    f = [i \in 0 .. Len(iov) |-> IF i = 0 THEN Done(E) ELSE BackPiece(f[i - 1], iov[i])]

\* Pairs of an emitter that holds something and whether all went well.
Pairs(V) == {c \in [ok : BOOLEAN, E : Emitters(V)] : \E s, x : Holds(c.E, V, s, x)}

LEMMA PairPieces ==
  ASSUME NEW V, NEW c \in Pairs(V), NEW piece \in Seq(V)
  PROVE  FrontPiece(c, piece) \in Pairs(V) /\ BackPiece(c, piece) \in Pairs(V)
<1>1. PICK s, x : Holds(c.E, V, s, x)
  BY DEF Pairs
<1>2. copy_front(c.E, piece) \in Pairs(V)
  BY <1>1, CopyFrontType DEF Pairs
<1>3. copy_back(c.E, piece) \in Pairs(V)
  BY <1>1, CopyBackType DEF Pairs
<1> QED BY <1>2, <1>3 DEF FrontPiece, BackPiece

LEMMA PutsEachFrontExists ==
  ASSUME NEW V, NEW E, NEW iov \in Seq(Seq(V)), Done(E) \in Pairs(V)
  PROVE  \E f : PutsEachFront(f, E, iov)
<1> DEFINE n == Len(iov)
           step == [x \in Pairs(V) \X (0 .. n - 1) |-> FrontPiece(x[1], iov[n - (x[2] + 1) + 1])]
           zero == Done(E)
<1>1. n \in Nat
  OBVIOUS
<1>2. step \in [Pairs(V) \X (0 .. n - 1) -> Pairs(V)]
  <2>1. \A i \in 0 .. n - 1 : iov[n - (i + 1) + 1] \in Seq(V)
    OBVIOUS
  <2>2. \A x \in Pairs(V) \X (0 .. n - 1) :
           FrontPiece(x[1], iov[n - (x[2] + 1) + 1]) \in Pairs(V)
    BY <2>1, PairPieces
  <2> QED BY <2>2
<1>3. PICK f \in [0 .. n -> Pairs(V)] : Steps(f, zero, step, n)
  <2> HIDE DEF step, zero
  <2> QED BY <1>1, <1>2, RecursionUpTo DEF zero
<1>4. /\ f[0] = zero
      /\ \A i \in 0 .. n - 1 : f[i + 1] = FrontPiece(f[i], iov[n - (i + 1) + 1])
  <2>1. f[0] = zero /\ \A i \in 0 .. n - 1 : f[i + 1] = step[<<f[i], i>>]
    BY <1>3 DEF Steps
  <2>2. \A i \in 0 .. n - 1 : step[<<f[i], i>>] = FrontPiece(f[i], iov[n - (i + 1) + 1])
    <3>1. \A i \in 0 .. n - 1 : f[i] \in Pairs(V)
      <4>1. \A i \in 0 .. n - 1 : i \in 0 .. n
        BY <1>1
      <4> QED BY <1>3, <4>1
    <3> QED BY <3>1
  <2> QED BY <2>1, <2>2
<1>5. \A i \in 0 .. n : f[i] = IF i = 0 THEN zero ELSE FrontPiece(f[i - 1], iov[n - i + 1])
  <2> SUFFICES ASSUME NEW i \in 0 .. n, i # 0
               PROVE  f[i] = FrontPiece(f[i - 1], iov[n - i + 1])
    BY <1>4
  <2>1. i - 1 \in 0 .. n - 1 /\ (i - 1) + 1 = i
    BY <1>1
  <2> QED BY <1>4, <2>1
<1>6. f = [i \in 0 .. n |-> IF i = 0 THEN zero ELSE FrontPiece(f[i - 1], iov[n - i + 1])]
  <2>1. f = [i \in 0 .. n |-> f[i]]
    BY <1>3
  <2> HIDE DEF zero, n
  <2> QED BY <1>5, <2>1
<1> QED BY <1>6 DEF PutsEachFront

LEMMA PutsEachBackExists ==
  ASSUME NEW V, NEW E, NEW iov \in Seq(Seq(V)), Done(E) \in Pairs(V)
  PROVE  \E f : PutsEachBack(f, E, iov)
<1> DEFINE n == Len(iov)
           step == [x \in Pairs(V) \X (0 .. n - 1) |-> BackPiece(x[1], iov[x[2] + 1])]
           zero == Done(E)
<1>1. n \in Nat
  OBVIOUS
<1>2. step \in [Pairs(V) \X (0 .. n - 1) -> Pairs(V)]
  <2>1. \A i \in 0 .. n - 1 : iov[i + 1] \in Seq(V)
    OBVIOUS
  <2>2. \A x \in Pairs(V) \X (0 .. n - 1) : BackPiece(x[1], iov[x[2] + 1]) \in Pairs(V)
    BY <2>1, PairPieces
  <2> QED BY <2>2
<1>3. PICK f \in [0 .. n -> Pairs(V)] : Steps(f, zero, step, n)
  <2> HIDE DEF step, zero
  <2> QED BY <1>1, <1>2, RecursionUpTo DEF zero
<1>4. f[0] = zero /\ \A i \in 0 .. n - 1 : f[i + 1] = BackPiece(f[i], iov[i + 1])
  <2>1. f[0] = zero /\ \A i \in 0 .. n - 1 : f[i + 1] = step[<<f[i], i>>]
    BY <1>3 DEF Steps
  <2>2. \A i \in 0 .. n - 1 : step[<<f[i], i>>] = BackPiece(f[i], iov[i + 1])
    <3>1. \A i \in 0 .. n - 1 : f[i] \in Pairs(V)
      <4>1. \A i \in 0 .. n - 1 : i \in 0 .. n
        BY <1>1
      <4> QED BY <1>3, <4>1
    <3> QED BY <3>1
  <2> QED BY <2>1, <2>2
<1>5. \A i \in 0 .. n : f[i] = IF i = 0 THEN zero ELSE BackPiece(f[i - 1], iov[i])
  <2> SUFFICES ASSUME NEW i \in 0 .. n, i # 0
               PROVE  f[i] = BackPiece(f[i - 1], iov[i])
    BY <1>4
  <2>1. i - 1 \in 0 .. n - 1 /\ (i - 1) + 1 = i
    BY <1>1
  <2> QED BY <1>4, <2>1
<1>6. f = [i \in 0 .. n |-> IF i = 0 THEN zero ELSE BackPiece(f[i - 1], iov[i])]
  <2>1. f = [i \in 0 .. n |-> f[i]]
    BY <1>3
  <2> HIDE DEF zero, n
  <2> QED BY <1>5, <2>1
<1> QED BY <1>6 DEF PutsEachBack

LEMMA EachFrontHolds ==
  ASSUME NEW V, NEW E, NEW start, NEW bytes, NEW iov \in Seq(Seq(V)), Holds(E, V, start, bytes)
  PROVE  CopiesFront(EachFront(E, iov), V, E, start, bytes, FlattenSeq(iov))
<1> DEFINE f == CHOOSE g : PutsEachFront(g, E, iov)
           n == Len(iov)
           data == FlattenSeq(iov)
           end == start + Len(bytes)
           all == data \o bytes
           S == {i \in Nat : i <= n => FrontSoFar(f[i], V, E, end, all, iov, n - i)}
<1>1. E \in Emitters(V) /\ start \in Int /\ bytes \in Seq(V) /\ data \in Seq(V)
  BY FlattenType DEF Holds
<1>2. end \in Int /\ end - Len(bytes) = start /\ n \in Nat
  BY <1>1
<1>3. Done(E) \in [ok : BOOLEAN, E : Emitters(V)] /\ Done(E).ok = TRUE /\ Done(E).E = E
  BY <1>1 DEF Done
<1>4. Done(E) \in Pairs(V)
  BY <1>3 DEF Pairs
<1>5. PutsEachFront(f, E, iov)
  BY <1>4, PutsEachFrontExists
<1>6. EachFront(E, iov) = f[n]
  BY DEF EachFront, PutsEachFront
<1>7. all \in Seq(V) /\ Len(all) = Len(data) + Len(bytes)
  BY <1>1, ConcatAt
<1>8. end - Len(all) = start - Len(data)
  BY <1>1, <1>2, <1>7
<1>9. FlatUpTo(iov, n) \o bytes = all /\ FlatUpTo(iov, 0) = <<>>
  BY FlatUpToFacts
<1> HIDE DEF f, data, end, all
<1>10. f[0] = Done(E)
  BY <1>2, <1>5 DEF PutsEachFront
<1>11. \A i \in 0 .. n - 1 : f[i + 1] = FrontPiece(f[i], iov[n - (i + 1) + 1])
  <2> SUFFICES ASSUME NEW i \in 0 .. n - 1
               PROVE  f[i + 1] = FrontPiece(f[i], iov[n - (i + 1) + 1])
    OBVIOUS
  <2>1. i + 1 \in 0 .. n /\ i + 1 # 0 /\ (i + 1) - 1 = i
    BY <1>2
  <2> QED BY <1>5, <2>1 DEF PutsEachFront
<1>12. 0 \in S
  <2>1. FrontSoFar(f[0], V, E, end, all, iov, n)
    BY <1>1, <1>2, <1>3, <1>9, <1>10 DEF FrontSoFar, SameUse
  <2>2. n - 0 = n
    BY <1>2
  <2> QED BY <2>1, <2>2
<1>13. ASSUME NEW i \in Nat, i \in S PROVE i + 1 \in S
  <2>1. CASE i + 1 <= n
    <3>1. /\ n - (i + 1) \in 0 .. n - 1 /\ n - i = (n - (i + 1)) + 1
          /\ i \in 0 .. n - 1 /\ i <= n
      BY <1>2, <2>1
    <3>2. FrontSoFar(f[i], V, E, end, all, iov, (n - (i + 1)) + 1)
      BY <1>13, <3>1
    <3>3. FrontSoFar(f[i + 1], V, E, end, all, iov, n - (i + 1))
      BY <1>2, <1>11, <3>1, <3>2, FrontPieceKeeps
    <3> QED BY <3>3
  <2>2. CASE ~(i + 1 <= n)
    BY <2>2
  <2> QED BY <2>1, <2>2
<1>14. FrontSoFar(f[n], V, E, end, all, iov, 0)
  <2> HIDE DEF S
  <2>1. Nat \subseteq S
    BY <1>12, <1>13, NatSetInduction
  <2>2. n \in S /\ n - n = 0 /\ n <= n
    BY <1>2, <2>1
  <2> QED BY <2>2 DEF S
<1> HIDE DEF n
<1>15. /\ f[n].ok \in BOOLEAN /\ SameUse(f[n].E, E)
       /\ f[n].ok = FALSE => /\ \E s, x : Holds(f[n].E, V, s, x)
                             /\ f[n].E.front = NULL => f[n].E.memory = 0
  BY <1>14 DEF FrontSoFar
<1>16. ASSUME f[n].ok = TRUE PROVE Holds(f[n].E, V, start - Len(data), all)
  <2>1. PICK x \in Seq(V) : Holds(f[n].E, V, end - Len(x), x) /\ FlatUpTo(iov, 0) \o x = all
    BY <1>14, <1>16 DEF FrontSoFar
  <2>2. <<>> \o x = all
    BY ONLY <1>9, <2>1
  <2>3. <<>> \o x = x
    OBVIOUS
  <2> QED BY <1>8, <2>1, <2>2, <2>3
<1> QED BY <1>6, <1>15, <1>16 DEF CopiesFront, all, data

LEMMA EachBackHolds ==
  ASSUME NEW V, NEW E, NEW start, NEW bytes, NEW iov \in Seq(Seq(V)), Holds(E, V, start, bytes)
  PROVE  CopiesBack(EachBack(E, iov), V, E, start, bytes, FlattenSeq(iov))
<1> DEFINE f == CHOOSE g : PutsEachBack(g, E, iov)
           n == Len(iov)
           S == {i \in Nat : i <= n => BackSoFar(f[i], V, E, start, bytes, iov, i)}
<1>1. E \in Emitters(V) /\ start \in Int /\ bytes \in Seq(V)
  BY DEF Holds
<1>2. n \in Nat
  BY <1>1
<1>3. Done(E) \in [ok : BOOLEAN, E : Emitters(V)] /\ Done(E).ok = TRUE /\ Done(E).E = E
  BY <1>1 DEF Done
<1>4. Done(E) \in Pairs(V)
  BY <1>3 DEF Pairs
<1>5. PutsEachBack(f, E, iov)
  BY <1>4, PutsEachBackExists
<1>6. EachBack(E, iov) = f[n]
  BY DEF EachBack, PutsEachBack
<1>7. bytes \o FlatUpTo(iov, 0) = bytes /\ FlatUpTo(iov, n) = FlattenSeq(iov)
  BY <1>1, FlatUpToFacts
<1> HIDE DEF f
<1>10. f[0] = Done(E)
  BY <1>2, <1>5 DEF PutsEachBack
<1>11. \A i \in 0 .. n - 1 : f[i + 1] = BackPiece(f[i], iov[i + 1])
  <2> SUFFICES ASSUME NEW i \in 0 .. n - 1
               PROVE  f[i + 1] = BackPiece(f[i], iov[i + 1])
    OBVIOUS
  <2>1. i + 1 \in 0 .. n /\ i + 1 # 0 /\ (i + 1) - 1 = i
    BY <1>2
  <2> QED BY <1>5, <2>1 DEF PutsEachBack
<1>12. 0 \in S
  <2>1. Holds(E, V, start, bytes \o FlatUpTo(iov, 0))
    BY ONLY <1>7, Holds(E, V, start, bytes)
  <2>2. PICK c : c = f[0] /\ c = Done(E)
    BY <1>10
  <2>3. BackSoFar(c, V, E, start, bytes, iov, 0)
    BY ONLY <1>3, <2>1, <2>2 DEF BackSoFar, SameUse
  <2> QED BY <2>2, <2>3
<1>13. ASSUME NEW i \in Nat, i \in S PROVE i + 1 \in S
  <2>1. CASE i + 1 <= n
    <3>1. i \in 0 .. n - 1 /\ i <= n
      BY <1>2, <2>1
    <3>2. BackSoFar(f[i], V, E, start, bytes, iov, i)
      BY <1>13, <3>1
    <3>3. BackSoFar(f[i + 1], V, E, start, bytes, iov, i + 1)
      BY <1>1, <1>11, <3>1, <3>2, BackPieceKeeps
    <3> QED BY <3>3
  <2>2. CASE ~(i + 1 <= n)
    BY <2>2
  <2> QED BY <2>1, <2>2
<1>14. BackSoFar(f[n], V, E, start, bytes, iov, n)
  <2> HIDE DEF S
  <2>1. Nat \subseteq S
    BY <1>12, <1>13, NatSetInduction
  <2>2. n \in S /\ n <= n
    BY <1>2, <2>1
  <2> QED BY <2>2 DEF S
<1> QED BY <1>6, <1>7, <1>14 DEF CopiesBack, BackSoFar

-----------------------------------------------------------------------------
(* The emit function *)

\* What the emitter holds depends neither on the use nor on its average.
LEMMA HoldsSame ==
  ASSUME NEW V, NEW E, NEW F, NEW start, NEW bytes, Holds(E, V, start, bytes),
         F \in Emitters(V),
         F.front = E.front, F.back = E.back, F.next = E.next, F.prev = E.prev,
         F.page = E.page, F.page_offset = E.page_offset, F.front_left = E.front_left,
         F.back_left = E.back_left, F.capacity = E.capacity, F.heap = E.heap,
         F.memory = E.memory
  PROVE  Holds(F, V, start, bytes)
<1>1. Garbage \in V /\ IsCounted(F) /\ start \in Int /\ bytes \in Seq(V)
  BY DEF Holds, IsCounted
<1>2. CASE IsEmpty(E) /\ start = 0 /\ bytes = <<>>
  <2>1. IsEmpty(F)
    BY <1>2 DEF IsEmpty
  <2> QED BY <1>1, <1>2, <2>1 DEF Holds
<1>3. CASE \E r, n, b : IsWhole(E, r, n, b) /\ HasContent(E, r, b, start, bytes)
  <2>1. PICK r, n, b : IsWhole(E, r, n, b) /\ HasContent(E, r, b, start, bytes)
    BY <1>3
  <2>2. IsRing(F, r, n)
    BY <2>1 DEF IsWhole, IsRing
  <2>3. IsSpan(F, r, n, b)
    BY <2>1 DEF IsWhole, IsSpan
  <2>4. HasContent(F, r, b, start, bytes)
    BY <2>1 DEF HasContent
  <2>5. IsWhole(F, r, n, b)
    BY <2>2, <2>3 DEF IsWhole
  <2> QED BY <1>1, <2>4, <2>5 DEF Holds
<1> QED BY <1>2, <1>3 DEF Holds

LEMMA SetUsed ==
  ASSUME NEW V, NEW E, NEW start, NEW bytes, Holds(E, V, start, bytes), NEW k \in Nat
  PROVE  LET F == [E EXCEPT !.used = E.used + k]
         IN  /\ Holds(F, V, start, bytes) /\ F.used = E.used + k
             /\ F.front = E.front /\ F.memory = E.memory
             /\ F.front_left = E.front_left /\ F.back_left = E.back_left
<1> DEFINE F == [E EXCEPT !.used = E.used + k]
<1>1. E \in Emitters(V) /\ DOMAIN E = EmitterFields /\ E.used \in Nat
  BY RecordOfEmitter DEF Holds, Emitters
<1>2. E.used + k \in Nat
  BY <1>1
<1>3. F \in Emitters(V)
  BY <1>1, <1>2 DEF Emitters
<1>4. /\ F.front = E.front /\ F.back = E.back /\ F.next = E.next /\ F.prev = E.prev
      /\ F.page = E.page /\ F.page_offset = E.page_offset /\ F.front_left = E.front_left
      /\ F.back_left = E.back_left /\ F.capacity = E.capacity /\ F.heap = E.heap
      /\ F.memory = E.memory /\ F.used = E.used + k
  BY ONLY <1>1 DEF EmitterFields
<1> HIDE DEF F
<1>5. Holds(F, V, start, bytes)
  BY ONLY <1>3, <1>4, Holds(E, V, start, bytes), HoldsSame
<1> QED BY <1>4, <1>5 DEF F

\* What the emit function does: data becomes the first or the last part of
\* the buffer, or fails and leaves rings and counters sound.
Emitted(c, V, E, start, bytes, data, offset) ==
    /\ c.ok \in BOOLEAN
    /\ c.E.used = E.used + Len(data) /\ c.E.memory = E.memory
    /\ (c.ok = TRUE /\ offset < 0) => Holds(c.E, V, start - Len(data), data \o bytes)
    /\ (c.ok = TRUE /\ ~(offset < 0)) => Holds(c.E, V, start, bytes \o data)
    /\ c.ok = FALSE => /\ \E s, x : Holds(c.E, V, s, x)
                       /\ c.E.front = NULL => c.E.memory = 0

\* The emitter is a deque: what is emitted at a negative offset goes in front
\* of what it holds, the rest behind it, however many pages that takes; when
\* malloc fails on the way its ring of pages stays whole (emitter.c:6-241).
THEOREM EmitterIsDeque ==
  ASSUME NEW V, NEW E, NEW start, NEW bytes, Holds(E, V, start, bytes),
         NEW iov \in Seq(Seq(V)), NEW offset \in Int
  PROVE  Emitted(flatcc_emitter(E, iov, offset), V, E, start, bytes, Gathered(iov), offset)
<1>1. PICK data \in Seq(V) : data = Gathered(iov) /\ data = FlattenSeq(iov)
  BY FlattenType DEF Gathered
<1>2. PICK F : F = [E EXCEPT !.used = E.used + Len(data)]
  OBVIOUS
<1>3. /\ Holds(F, V, start, bytes) /\ F.used = E.used + Len(data)
      /\ F.front = E.front /\ F.memory = E.memory
  <2>1. PICK k \in Nat : k = Len(data)
    OBVIOUS
  <2>2. F = [E EXCEPT !.used = E.used + k]
    BY ONLY <1>2, <2>1
  <2>3. /\ Holds(F, V, start, bytes) /\ F.used = E.used + k
        /\ F.front = E.front /\ F.memory = E.memory
    BY ONLY <2>2, Holds(E, V, start, bytes), k \in Nat, SetUsed
  <2> QED BY ONLY <2>1, <2>3
<1>4. F = [E EXCEPT !.used = @ + Len(data)]
  BY <1>2
<1>5. F \in Emitters(V) /\ F.front_left \in Nat /\ F.back_left \in Nat
  <2>1. F \in Emitters(V)
    BY <1>3 DEF Holds
  <2>2. F.front_left \in 0 .. SIZE /\ F.back_left \in 0 .. SIZE
    BY <2>1 DEF Emitters
  <2> QED BY <2>1, <2>2, SizeFacts
<1>6. PICK c : c = flatcc_emitter(E, iov, offset)
  OBVIOUS
<1>7. CASE offset < 0
  <2>1. CASE Len(data) <= F.front_left
    <3>1. c = Done(TakeFront(F, data))
      BY <1>1, <1>4, <1>6, <1>7, <2>1 DEF flatcc_emitter
    <3>2. Holds(TakeFront(F, data), V, start - Len(data), data \o bytes)
          /\ SameUse(TakeFront(F, data), F)
      BY <1>3, <2>1, TakeFrontHolds
    <3>3. c.ok = TRUE /\ c.E = TakeFront(F, data)
      BY <3>1 DEF Done
    <3>4. Emitted(c, V, E, start, bytes, data, offset)
      BY <1>3, <1>7, <3>2, <3>3 DEF Emitted, SameUse
    <3> QED BY <1>1, <1>6, <3>4
  <2>2. CASE ~(Len(data) <= F.front_left)
    <3>1. c = EachFront(F, iov)
      BY <1>1, <1>4, <1>6, <1>7, <2>2 DEF flatcc_emitter
    <3>2. CopiesFront(c, V, F, start, bytes, data)
      BY <1>1, <1>3, <3>1, EachFrontHolds
    <3>3. Emitted(c, V, E, start, bytes, data, offset)
      BY <1>3, <1>7, <3>2 DEF Emitted, SameUse, CopiesFront
    <3> QED BY <1>1, <1>6, <3>3
  <2> QED BY <2>1, <2>2
<1>8. CASE ~(offset < 0)
  <2>1. CASE Len(data) <= F.back_left
    <3>1. c = Done(TakeBack(F, data))
      BY <1>1, <1>4, <1>6, <1>8, <2>1 DEF flatcc_emitter
    <3>2. Holds(TakeBack(F, data), V, start, bytes \o data)
          /\ SameUse(TakeBack(F, data), F)
      BY <1>3, <2>1, TakeBackHolds
    <3>3. c.ok = TRUE /\ c.E = TakeBack(F, data)
      BY <3>1 DEF Done
    <3>4. Emitted(c, V, E, start, bytes, data, offset)
      BY <1>3, <1>8, <3>2, <3>3 DEF Emitted, SameUse
    <3> QED BY <1>1, <1>6, <3>4
  <2>2. CASE ~(Len(data) <= F.back_left)
    <3>1. c = EachBack(F, iov)
      BY <1>1, <1>4, <1>6, <1>8, <2>2 DEF flatcc_emitter
    <3>2. CopiesBack(c, V, F, start, bytes, data)
      BY <1>1, <1>3, <3>1, EachBackHolds
    <3>3. Emitted(c, V, E, start, bytes, data, offset)
      BY <1>3, <1>8, <3>2 DEF Emitted, SameUse, CopiesBack
    <3> QED BY <1>1, <1>6, <3>3
  <2> QED BY <2>1, <2>2
<1> QED BY <1>7, <1>8

-----------------------------------------------------------------------------
(* Reading *)

NthFunction(f, E) == f = [i \in Nat |-> IF i = 0 THEN E.front ELSE E.next[f[i - 1]]]

\* Going round the ring from the front page.
LEMMA NthRing ==
  ASSUME NEW E, NEW r, NEW n, IsRing(E, r, n)
  PROVE  \A i \in 0 .. n - 1 : Nth(E)[i] = r[i]
<1> DEFINE heap == E.heap
           step == [x \in heap \X Nat |-> E.next[x[1]]]
           g == CHOOSE f : NthFunction(f, E)
           S == {i \in Nat : i <= n - 1 => g[i] = r[i]}
<1>1. n \in Nat /\ n >= 1 /\ r \in [0 .. n - 1 -> heap]
  BY DEF IsRing
<1>2. 0 \in 0 .. n - 1 /\ n - 1 \in 0 .. n - 1
  BY <1>1
<1>3. r[0] \in heap /\ E.front = r[0]
  BY <1>1, <1>2 DEF IsRing
<1>4. \A p \in heap : E.next[p] \in heap
  <2> SUFFICES ASSUME NEW p \in heap PROVE E.next[p] \in heap
    OBVIOUS
  <2>1. PICK i \in 0 .. n - 1 : r[i] = p
    BY DEF IsRing
  <2>2. CASE i = n - 1
    <3>1. E.next[r[n - 1]] = r[0]
      BY DEF IsRing
    <3> QED BY <1>3, <2>1, <2>2, <3>1
  <2>3. CASE i # n - 1
    <3>1. i \in 0 .. n - 2 /\ i + 1 \in 0 .. n - 1
      BY <1>1, <2>3
    <3>2. E.next[r[i]] = r[i + 1]
      BY <3>1 DEF IsRing
    <3> QED BY <1>1, <2>1, <3>1, <3>2
  <2> QED BY <2>2, <2>3
<1> HIDE DEF heap
<1>5. step \in [heap \X Nat -> heap]
  BY <1>4
<1>6. PICK f \in [Nat -> heap] : Recurs(f, r[0], step)
  <2> HIDE DEF step
  <2> QED BY <1>3, <1>5, Recursion
<1>7. f[0] = E.front /\ \A i \in Nat : f[i + 1] = E.next[f[i]]
  <2>1. f[0] = r[0] /\ \A i \in Nat : f[i + 1] = step[<<f[i], i>>]
    BY <1>6 DEF Recurs
  <2>2. \A i \in Nat : step[<<f[i], i>>] = E.next[f[i]]
    BY <1>6
  <2> QED BY <1>3, <2>1, <2>2
<1>8. \A i \in Nat : f[i] = IF i = 0 THEN E.front ELSE E.next[f[i - 1]]
  <2> SUFFICES ASSUME NEW i \in Nat, i # 0 PROVE f[i] = E.next[f[i - 1]]
    BY <1>7
  <2>1. i - 1 \in Nat /\ (i - 1) + 1 = i
    OBVIOUS
  <2> QED BY <1>7, <2>1
<1>9. NthFunction(f, E)
  <2>1. f = [i \in Nat |-> f[i]]
    BY <1>6
  <2> QED BY <1>8, <2>1 DEF NthFunction
<1>10. NthFunction(g, E)
  BY <1>9
<1>11. Nth(E) = g
  BY DEF Nth, NthFunction
<1> HIDE DEF g
<1>12. g[0] = E.front /\ \A i \in Nat : g[i + 1] = E.next[g[i]]
  <2>1. \A i \in Nat : i + 1 \in Nat /\ i + 1 # 0 /\ (i + 1) - 1 = i
    OBVIOUS
  <2> QED BY <1>10, <2>1 DEF NthFunction
<1>13. 0 \in S
  BY <1>3, <1>12
<1>14. ASSUME NEW i \in Nat, i \in S PROVE i + 1 \in S
  <2>1. CASE i + 1 <= n - 1
    <3>1. i \in 0 .. n - 2 /\ i <= n - 1
      BY <1>1, <2>1
    <3>2. E.next[r[i]] = r[i + 1]
      BY <3>1 DEF IsRing
    <3> QED BY <1>12, <1>14, <3>1, <3>2
  <2>2. CASE ~(i + 1 <= n - 1)
    BY <2>2
  <2> QED BY <2>1, <2>2
<1> HIDE DEF S
<1>15. Nat \subseteq S
  BY <1>13, <1>14, NatSetInduction
<1>16. \A i \in 0 .. n - 1 : i \in Nat /\ i <= n - 1
  BY <1>1
<1> QED BY <1>11, <1>15, <1>16 DEF S

LEMMA BackAtSpan ==
  ASSUME NEW E, NEW r, NEW n, NEW b, IsWhole(E, r, n, b)
  PROVE  BackAt(E) = b
<1>1. IsRing(E, r, n) /\ b \in 0 .. n - 1 /\ E.back = r[b] /\ Cardinality(E.heap) = n
  BY DEF IsWhole, IsSpan, IsRing
<1>2. \A i, j \in 0 .. n - 1 : r[i] = r[j] => i = j
  BY <1>1 DEF IsRing
<1>3. \A i \in 0 .. n - 1 : Nth(E)[i] = r[i]
  BY <1>1, NthRing
<1>4. \A k \in 0 .. n - 1 : Nth(E)[k] = E.back => k = b
  BY <1>1, <1>2, <1>3
<1>5. Nth(E)[b] = E.back
  BY <1>1, <1>3
<1>6. BackAt(E) = CHOOSE k \in 0 .. n - 1 : Nth(E)[k] = E.back
  BY <1>1 DEF BackAt
<1> HIDE DEF Nth
<1> QED BY <1>1, <1>4, <1>5, <1>6

\* Whatever the emitter holds, its ring is whole.
LEMMA RingOfHolds ==
  ASSUME NEW V, NEW E, NEW start, NEW bytes, Holds(E, V, start, bytes)
  PROVE  RingIsWhole(E)
<1>1. E \in Emitters(V) /\ E.capacity = SIZE * Cardinality(E.heap)
  BY DEF Holds, IsCounted
<1>2. CASE IsEmpty(E)
  <2>1. E.heap = {} /\ E.front = NULL /\ E.back = NULL
    BY <1>2 DEF IsEmpty
  <2>2. E.capacity = SIZE * 0
    BY <1>1, <2>1, FS_EmptySet
  <2>3. E.capacity = 0
    BY <2>2, SizeFacts
  <2> QED BY <2>1, <2>3 DEF RingIsWhole
<1>3. CASE \E r, n, b : IsWhole(E, r, n, b)
  <2>1. PICK r, n, b : IsWhole(E, r, n, b)
    BY <1>3
  <2>2. /\ IsRing(E, r, n) /\ b \in 0 .. n - 1 /\ E.back = r[b] /\ Cardinality(E.heap) = n
        /\ r \in [0 .. n - 1 -> E.heap] /\ n \in Nat
    BY <2>1 DEF IsWhole, IsSpan, IsRing
  <2>3. E.front # NULL
    BY <1>1, <2>2, RingFront
  <2>4. E.back \in E.heap
    BY <2>2
  <2>5. {Nth(E)[i] : i \in 0 .. Cardinality(E.heap) - 1} = E.heap
    <3>1. \A i \in 0 .. n - 1 : Nth(E)[i] = r[i] /\ r[i] \in E.heap
      BY <2>2, NthRing
    <3>2. \A p \in E.heap : \E i \in 0 .. n - 1 : r[i] = p
      BY <2>2 DEF IsRing
    <3> HIDE DEF Nth
    <3>3. {Nth(E)[i] : i \in 0 .. n - 1} = E.heap
      BY <3>1, <3>2
    <3> QED BY <2>2, <3>3
  <2>6. \A p \in E.heap : E.next[E.prev[p]] = p /\ E.prev[E.next[p]] = p
    <3> SUFFICES ASSUME NEW p \in E.heap
                 PROVE  E.next[E.prev[p]] = p /\ E.prev[E.next[p]] = p
      OBVIOUS
    <3>1. PICK i \in 0 .. n - 1 : r[i] = p
      BY <2>2 DEF IsRing
    <3>2. E.next[r[n - 1]] = r[0] /\ E.prev[r[0]] = r[n - 1]
      BY <2>2 DEF IsRing
    <3>3. \A k \in 0 .. n - 2 : E.next[r[k]] = r[k + 1] /\ E.prev[r[k + 1]] = r[k]
      BY <2>2 DEF IsRing
    <3>4. E.next[E.prev[p]] = p
      <4>1. CASE i = 0
        BY <3>1, <3>2, <4>1
      <4>2. CASE i # 0
        <5>1. PICK k \in 0 .. n - 2 : k + 1 = i
          <6>1. i - 1 \in 0 .. n - 2 /\ (i - 1) + 1 = i
            BY <2>2, <4>2
          <6> QED BY <6>1
        <5> QED BY <3>1, <3>3, <5>1
      <4> QED BY <4>1, <4>2
    <3>5. E.prev[E.next[p]] = p
      <4>1. CASE i = n - 1
        BY <3>1, <3>2, <4>1
      <4>2. CASE i # n - 1
        <5>1. i \in 0 .. n - 2
          BY <2>2, <4>2
        <5> QED BY <3>1, <3>3, <5>1
      <4> QED BY <4>1, <4>2
    <3> QED BY <3>4, <3>5
  <2> HIDE DEF Nth
  <2> QED BY <1>1, <2>3, <2>4, <2>5, <2>6 DEF RingIsWhole
<1> QED BY <1>2, <1>3 DEF Holds

LEMMA StretchesOfHolds ==
  ASSUME NEW E, NEW r, NEW n, NEW b, IsWhole(E, r, n, b)
  PROVE  StretchesMeet(E)
<1>1. /\ IsRing(E, r, n) /\ b \in 0 .. n - 1 /\ n \in Nat
      /\ \A i \in 0 .. b - 1 : E.page_offset[r[i + 1]] = E.page_offset[r[i]] + SIZE
  BY DEF IsWhole, IsSpan, IsRing
<1>2. BackAt(E) = b /\ \A i \in 0 .. n - 1 : Nth(E)[i] = r[i]
  BY <1>1, BackAtSpan, NthRing
<1> SUFFICES ASSUME NEW i \in 1 .. b
             PROVE  E.page_offset[Nth(E)[i]] = E.page_offset[Nth(E)[i - 1]] + SIZE
  BY <1>2 DEF StretchesMeet
<1>3. i \in 0 .. n - 1 /\ i - 1 \in 0 .. n - 1 /\ i - 1 \in 0 .. b - 1 /\ (i - 1) + 1 = i
  BY <1>1
<1>4. E.page_offset[r[(i - 1) + 1]] = E.page_offset[r[i - 1]] + SIZE
  BY <1>1, <1>3
<1>5. Nth(E)[i] = r[i] /\ Nth(E)[i - 1] = r[i - 1] /\ r[(i - 1) + 1] = r[i]
  BY <1>2, <1>3
<1> QED BY ONLY <1>4, <1>5

\* The d bytes of page p behind the first at are those behind the first c of
\* the len bytes from start on.
LiesIn(E, p, at, d, start, c, len) ==
    /\ at \in 0 .. SIZE /\ d \in Nat /\ at + d <= SIZE
    /\ c \in 0 .. len /\ c + d <= len
    /\ E.page_offset[p] + at = start + c

IsPart(E, p, at, d, bytes, c) == Bytes(E, p, at, d) = SubSeq(bytes, c + 1, c + d)

\* Bytes of a page in use are bytes of the buffer.
LEMMA PageBytes ==
  ASSUME NEW V, NEW E \in Emitters(V), NEW r, NEW b \in Nat, NEW start \in Int,
         NEW bytes \in Seq(V), HasContent(E, r, b, start, bytes),
         NEW k \in 0 .. b, r[k] \in Pages, NEW at, NEW c, NEW d,
         LiesIn(E, r[k], at, d, start, c, Len(bytes))
  PROVE  IsPart(E, r[k], at, d, bytes, c)
<1> USE DEF LiesIn
<1> DEFINE x == Bytes(E, r[k], at, d)
           y == SubSeq(bytes, c + 1, c + d)
           z == [i \in 1 .. d |-> bytes[c + i]]
<1>1. SIZE \in Nat /\ Len(bytes) \in Nat
  BY SizeFacts
<1>2. PICK o \in Int : o = E.page_offset[r[k]]
  BY DEF Emitters
<1>3. \A j \in 1 .. SIZE : o + j - start \in 1 .. Len(bytes)
                             => E.page[r[k]][j] = bytes[o + j - start]
  BY <1>2 DEF HasContent
<1>4. o + at = start + c
  BY <1>2
<1>5. ASSUME NEW i \in 1 .. d
      PROVE  at + i <= SIZE /\ E.page[r[k]][at + i] = bytes[c + i]
  <2>1. at + i \in 1 .. SIZE /\ c + i \in 1 .. Len(bytes) /\ at + i <= SIZE
    BY <1>1
  <2>2. o + (at + i) - start = c + i
    BY ONLY <1>1, <1>4, i \in 1 .. d, d \in Nat, o \in Int, at \in 0 .. SIZE, start \in Int,
            c \in 0 .. Len(bytes)
  <2>3. PICK j \in 1 .. SIZE : j = at + i
    BY <2>1
  <2>4. o + j - start = c + i
    BY <2>2, <2>3
  <2>5. E.page[r[k]][j] = bytes[c + i]
    BY <1>3, <2>1, <2>4
  <2> QED BY <2>1, <2>3, <2>5
<1>6. x = z
  BY <1>5 DEF Bytes
<1>7. y = z
  <2>1. bytes = [i \in 1 .. Len(bytes) |-> bytes[i]]
    OBVIOUS
  <2>2. c + 1 \in 1 .. Len(bytes) + 1 /\ c + d \in 0 .. Len(bytes) /\ c + 1 \in Int /\ c + d \in Int
    BY <1>1
  <2>3. Len(y) = d /\ y \in Seq(V) /\ \A i \in 1 .. d : y[i] = bytes[c + i]
    <3>1. y = SubSeq(Rest(bytes, c), 1, d)
      BY <1>1 DEF Rest
    <3>2. /\ Rest(bytes, c) \in Seq(V) /\ Len(Rest(bytes, c)) = Len(bytes) - c
          /\ \A i \in 1 .. Len(bytes) - c : Rest(bytes, c)[i] = bytes[c + i]
      BY RestType
    <3>3. d \in 0 .. Len(Rest(bytes, c))
      BY <1>1, <3>2
    <3>4. /\ y \in Seq(V) /\ Len(y) = d
          /\ \A i \in 1 .. d : y[i] = Rest(bytes, c)[i]
      BY ONLY <3>1, <3>2, <3>3, FirstType
    <3>5. \A i \in 1 .. d : i \in 1 .. Len(bytes) - c
      BY <1>1
    <3> QED BY <3>2, <3>4, <3>5
  <2> HIDE DEF y
  <2>4. y = [i \in 1 .. d |-> y[i]]
    BY <2>3
  <2> QED BY <2>3, <2>4
<1> QED BY <1>6, <1>7 DEF x, y, IsPart

\* Two pieces of bytes that meet make one.
LEMMA Meet ==
  ASSUME NEW V, NEW bytes \in Seq(V), NEW c \in 0 .. Len(bytes), NEW e \in 0 .. Len(bytes),
         c <= e
  PROVE  SubSeq(bytes, 1, c) \o SubSeq(bytes, c + 1, e) = SubSeq(bytes, 1, e)
<1>1. PICK s \in Seq(V) : s = SubSeq(bytes, 1, e)
  BY FirstType
<1>2. Len(s) = e /\ \A i \in 1 .. e : s[i] = bytes[i]
  BY <1>1, FirstType
<1>3. c \in 0 .. Len(s)
  BY <1>2
<1>4. SubSeq(s, 1, c) \o Rest(s, c) = s
  BY <1>3, FirstAndRest
<1>5. SubSeq(s, 1, c) = SubSeq(bytes, 1, c)
  BY <1>1
<1>6. Rest(s, c) = SubSeq(bytes, c + 1, e)
  BY <1>1, <1>2 DEF Rest
<1> QED BY <1>1, <1>4, <1>5, <1>6

\* The addresses of the pages behind the front page.
LEMMA PageAddresses ==
  ASSUME NEW V, NEW E \in Emitters(V), NEW r, NEW n, NEW b, IsWhole(E, r, n, b),
         NEW start \in Int, NEW bytes \in Seq(V), HasContent(E, r, b, start, bytes)
  PROVE  /\ b \in Nat /\ \A k \in 0 .. b : r[k] \in Pages /\ E.page_offset[r[k]] \in Int
         /\ \A k \in 0 .. b - 1 : E.page_offset[r[k + 1]] = E.page_offset[r[k]] + SIZE
         /\ \A k \in 1 .. b : E.page_offset[r[k]] >= start
         /\ \A k \in 0 .. b - 1 : E.page_offset[r[k]] + SIZE <= start + Len(bytes)
<1>1. /\ b \in 0 .. n - 1 /\ n \in Nat /\ r \in [0 .. n - 1 -> E.heap] /\ E.heap \in SUBSET Pages
      /\ b \in Nat
  <2>1. E.heap \in SUBSET Pages
    BY ONLY E \in Emitters(V) DEF Emitters
  <2>2. IsRing(E, r, n) /\ b \in 0 .. n - 1
    BY ONLY IsWhole(E, r, n, b) DEF IsWhole, IsSpan
  <2>3. n \in Nat /\ r \in [0 .. n - 1 -> E.heap]
    BY ONLY <2>2 DEF IsRing
  <2> QED BY ONLY <2>1, <2>2, <2>3
<1>2. \A k \in 0 .. b : r[k] \in Pages
  <2>1. \A k \in 0 .. b : k \in 0 .. n - 1
    BY <1>1
  <2> QED BY <1>1, <2>1
<1>3. \A k \in 0 .. b : E.page_offset[r[k]] \in Int
  <2>1. E.page_offset \in [Pages -> Int]
    BY DEF Emitters
  <2> QED BY <1>2, <2>1
<1>4. /\ \A k \in 0 .. b - 1 : E.page_offset[r[k + 1]] = E.page_offset[r[k]] + SIZE
      /\ \A i, j \in 0 .. b : i < j => E.page_offset[r[j]] >= E.page_offset[r[i]] + SIZE
  BY DEF IsWhole, IsSpan
<1>5. E.front_left \in 0 .. SIZE /\ E.back_left \in 0 .. SIZE /\ SIZE \in Nat /\ Len(bytes) \in Nat
  BY SizeFacts DEF Emitters
<1>6. 0 \in 0 .. b /\ b \in 0 .. b
  BY <1>1
<1>7. PICK f \in Int, e \in Int : f = E.page_offset[r[0]] /\ e = E.page_offset[r[b]]
  BY <1>3, <1>6
<1>8. f + E.front_left = start /\ e + SIZE - E.back_left = start + Len(bytes)
  BY <1>7 DEF HasContent
<1>9. ASSUME NEW k \in 1 .. b PROVE E.page_offset[r[k]] >= start
  <2>1. k \in 0 .. b /\ 0 < k
    BY <1>1
  <2>2. PICK o \in Int : o = E.page_offset[r[k]]
    BY <1>3, <2>1
  <2>3. o >= f + SIZE
    BY <1>4, <1>6, <1>7, <2>1, <2>2
  <2>4. o >= start
    BY <1>5, <1>8, <2>3
  <2> QED BY <2>2, <2>4
<1>10. ASSUME NEW k \in 0 .. b - 1 PROVE E.page_offset[r[k]] + SIZE <= start + Len(bytes)
  <2>1. k \in 0 .. b /\ k < b
    BY <1>1
  <2>2. PICK o \in Int : o = E.page_offset[r[k]]
    BY <1>3, <2>1
  <2>3. e >= o + SIZE
    BY <1>4, <1>6, <1>7, <2>1, <2>2
  <2>4. o + SIZE <= start + Len(bytes)
    BY <1>5, <1>8, <2>3
  <2> QED BY <2>2, <2>4
<1> QED BY <1>1, <1>2, <1>3, <1>4, <1>9, <1>10

\* What is read of the front page, and of the pages between it and the back.
FirstPart(E, r) == Bytes(E, r[0], E.front_left, SIZE - E.front_left)
Middle(E, r, b) == [i \in 1 .. b - 1 |-> Bytes(E, r[i], 0, SIZE)]

\* The pages in the middle hold what follows one another in bytes.
IsMiddle(mid, E, r, b, start, bytes) ==
    \A i \in 1 .. b - 1 : mid[i] = SubSeq(bytes, E.page_offset[r[i]] - start + 1,
                                          E.page_offset[r[i]] - start + SIZE)

LEMMA MiddlePages ==
  ASSUME NEW V, NEW E \in Emitters(V), NEW r, NEW n, NEW b, IsWhole(E, r, n, b),
         NEW start \in Int, NEW bytes \in Seq(V), HasContent(E, r, b, start, bytes),
         b >= 1
  PROVE  /\ Middle(E, r, b) \in Seq(Seq(V)) /\ Len(Middle(E, r, b)) = b - 1
         /\ IsMiddle(Middle(E, r, b), E, r, b, start, bytes)
<1>0. PICK mid : mid = Middle(E, r, b) /\ mid = [i \in 1 .. b - 1 |-> Bytes(E, r[i], 0, SIZE)]
  BY DEF Middle
<1>1. /\ b \in Nat /\ \A k \in 0 .. b : r[k] \in Pages /\ E.page_offset[r[k]] \in Int
      /\ \A k \in 1 .. b : E.page_offset[r[k]] >= start
      /\ \A k \in 0 .. b - 1 : E.page_offset[r[k]] + SIZE <= start + Len(bytes)
  BY PageAddresses
<1>2. SIZE \in Nat /\ Len(bytes) \in Nat
  BY SizeFacts
<1>3. ASSUME NEW i \in 1 .. b - 1
      PROVE  /\ mid[i] = SubSeq(bytes, E.page_offset[r[i]] - start + 1,
                                E.page_offset[r[i]] - start + SIZE)
             /\ mid[i] \in Seq(V)
  <2>1. i \in 0 .. b /\ i \in 1 .. b /\ i \in 0 .. b - 1
    BY <1>1
  <2>2. PICK o \in Int : o = E.page_offset[r[i]]
    BY <1>1, <2>1
  <2>3. o >= start /\ o + SIZE <= start + Len(bytes)
    BY <1>1, <2>1, <2>2
  <2>4. PICK c \in Int : c = o - start
    OBVIOUS
  <2>5. c \in 0 .. Len(bytes) /\ c + SIZE <= Len(bytes) /\ o + 0 = start + c
    BY <1>2, <2>3, <2>4
  <2>6. Bytes(E, r[i], 0, SIZE) = SubSeq(bytes, c + 1, c + SIZE)
    <3>1. LiesIn(E, r[i], 0, SIZE, start, c, Len(bytes)) /\ r[i] \in Pages
      BY <1>1, <1>2, <2>1, <2>2, <2>5 DEF LiesIn
    <3>2. IsPart(E, r[i], 0, SIZE, bytes, c)
      BY <1>1, <2>1, <3>1, PageBytes
    <3> QED BY ONLY <3>2 DEF IsPart
  <2>7. SubSeq(bytes, c + 1, c + SIZE) \in Seq(V)
    <3>1. c + SIZE \in Int /\ c + 1 >= 1
      BY <1>2, <2>5
    <3> QED BY <1>2, <2>5
  <2> QED BY <1>0, <2>2, <2>4, <2>6, <2>7
<1>4. \A i \in 1 .. b - 1 : mid[i] \in Seq(V)
  BY <1>3
<1>5. mid \in Seq(Seq(V)) /\ Len(mid) = b - 1
  <2>1. b - 1 \in Nat
    BY <1>1
  <2>2. mid \in [1 .. b - 1 -> Seq(V)]
    BY <1>0, <1>4
  <2> QED BY <2>1, <2>2
<1> QED BY <1>0, <1>3, <1>5 DEF IsMiddle

IsFrontPart(E, r, b, start, bytes) ==
    FirstPart(E, r) \o FlattenSeq(Middle(E, r, b)) = SubSeq(bytes, 1, E.page_offset[r[b]] - start)

\* The front page and the full pages behind it hold the first part of bytes.
LEMMA FrontPart ==
  ASSUME NEW V, NEW E \in Emitters(V), NEW r, NEW n, NEW b, IsWhole(E, r, n, b),
         NEW start \in Int, NEW bytes \in Seq(V), HasContent(E, r, b, start, bytes),
         b >= 1
  PROVE  IsFrontPart(E, r, b, start, bytes)
<1>0. PICK mid, head : mid = Middle(E, r, b) /\ head = FirstPart(E, r)
  OBVIOUS
<1> DEFINE cut(m) == E.page_offset[r[m]] + SIZE - start
           S == {m \in Nat : m <= b - 1 => head \o FlatUpTo(mid, m) = SubSeq(bytes, 1, cut(m))}
<1>1. /\ b \in Nat /\ \A k \in 0 .. b : r[k] \in Pages /\ E.page_offset[r[k]] \in Int
      /\ \A k \in 0 .. b - 1 : E.page_offset[r[k + 1]] = E.page_offset[r[k]] + SIZE
      /\ \A k \in 1 .. b : E.page_offset[r[k]] >= start
      /\ \A k \in 0 .. b - 1 : E.page_offset[r[k]] + SIZE <= start + Len(bytes)
  BY PageAddresses
<1>2. SIZE \in Nat /\ Len(bytes) \in Nat /\ E.front_left \in 0 .. SIZE
  BY SizeFacts DEF Emitters
<1>3. /\ mid \in Seq(Seq(V)) /\ Len(mid) = b - 1
      /\ \A i \in 1 .. b - 1 :
            mid[i] = SubSeq(bytes, E.page_offset[r[i]] - start + 1,
                            E.page_offset[r[i]] - start + SIZE)
  <2>1. mid \in Seq(Seq(V)) /\ Len(mid) = b - 1 /\ IsMiddle(mid, E, r, b, start, bytes)
    BY <1>0, MiddlePages
  <2> QED BY <2>1 DEF IsMiddle
<1>4. 0 \in 0 .. b /\ 0 \in 0 .. b - 1 /\ b - 1 \in 0 .. b - 1 /\ b - 1 \in Nat /\ b \in 0 .. b
      /\ (b - 1) + 1 = b
  BY <1>1
<1>5. \A m \in 0 .. b - 1 : cut(m) \in 0 .. Len(bytes)
  <2> SUFFICES ASSUME NEW m \in 0 .. b - 1 PROVE cut(m) \in 0 .. Len(bytes)
    OBVIOUS
  <2>1. m \in 0 .. b /\ m + 1 \in 1 .. b /\ m + 1 \in 0 .. b
    BY <1>1
  <2>2. PICK o \in Int : o = E.page_offset[r[m]]
    BY <1>1, <2>1
  <2>3. E.page_offset[r[m + 1]] = o + SIZE /\ E.page_offset[r[m + 1]] >= start
    BY <1>1, <2>1, <2>2
  <2>4. o + SIZE >= start /\ o + SIZE <= start + Len(bytes)
    BY <1>1, <2>2, <2>3
  <2>5. o + SIZE - start \in 0 .. Len(bytes)
    BY <1>2, <2>4
  <2> QED BY <2>2, <2>5
<1>6. head = SubSeq(bytes, 1, cut(0))
  <2>1. PICK o \in Int : o = E.page_offset[r[0]]
    BY <1>1, <1>4
  <2>2. o + E.front_left = start
    BY <2>1 DEF HasContent
  <2>3. PICK d \in Nat : d = SIZE - E.front_left
    BY <1>2
  <2>4. d = cut(0) /\ E.front_left + d <= SIZE /\ d <= Len(bytes)
    <3>1. o + SIZE - start = d
      BY <1>2, <2>2, <2>3
    <3>2. cut(0) = d
      BY <2>1, <3>1
    <3>3. d \in 0 .. Len(bytes)
      BY <1>4, <1>5, <3>2
    <3> QED BY <1>2, <2>3, <3>2, <3>3
  <2>5. 0 \in 0 .. Len(bytes) /\ 0 + d <= Len(bytes) /\ r[0] \in Pages
        /\ E.page_offset[r[0]] + E.front_left = start + 0
    BY <1>1, <1>2, <1>4, <2>1, <2>2, <2>4
  <2>8. PICK c \in 0 .. Len(bytes) : c = 0
    BY <2>5
  <2>9. c + d <= Len(bytes) /\ E.page_offset[r[0]] + E.front_left = start + c
    BY <2>5, <2>8
  <2>6. Bytes(E, r[0], E.front_left, d) = SubSeq(bytes, c + 1, c + d)
    <3>1. LiesIn(E, r[0], E.front_left, d, start, c, Len(bytes)) /\ r[0] \in Pages
      BY <1>2, <2>4, <2>5, <2>9 DEF LiesIn
    <3>2. IsPart(E, r[0], E.front_left, d, bytes, c)
      BY <1>4, <3>1, PageBytes
    <3> QED BY ONLY <3>2 DEF IsPart
  <2>7. c + 1 = 1 /\ c + d = cut(0)
    BY <2>3, <2>4, <2>8
  <2> QED BY <1>0, <2>3, <2>6, <2>7 DEF FirstPart
<1>7. head \in Seq(V)
  BY <1>2, <1>4, <1>5, <1>6, FirstType
<1>8. FlatUpTo(mid, 0) = <<>> /\ FlatUpTo(mid, b - 1) = FlattenSeq(mid)
  BY <1>3, FlatUpToFacts
<1> HIDE DEF cut
<1>9. 0 \in S
  <2>1. head \o <<>> = head
    BY <1>7
  <2>2. head \o FlatUpTo(mid, 0) = SubSeq(bytes, 1, cut(0))
    BY ONLY <1>6, <1>8, <2>1
  <2> QED BY ONLY <2>2
<1>10. ASSUME NEW m \in Nat, m \in S PROVE m + 1 \in S
  <2>1. CASE m + 1 <= b - 1
    <3>1. m \in 0 .. b - 1 /\ m + 1 \in 0 .. b - 1 /\ m + 1 \in 1 .. b - 1 /\ m \in 0 .. Len(mid) - 1
          /\ m + 1 \in 0 .. b /\ m \in 0 .. b /\ m <= b - 1 /\ m \in 0 .. Len(mid)
      BY <1>1, <1>3, <2>1
    <3>2. /\ mid[m + 1] \in Seq(V) /\ FlatUpTo(mid, m) \in Seq(V)
          /\ FlatUpTo(mid, m + 1) = FlatUpTo(mid, m) \o mid[m + 1]
      BY <1>3, <3>1, FlatUpToFacts
    <3>3. head \o FlatUpTo(mid, m) = SubSeq(bytes, 1, cut(m))
      BY <1>10, <3>1
    <3>4. Regroups(head, FlatUpTo(mid, m), mid[m + 1])
      BY ONLY <1>7, <3>2, Regroup
    <3>5. head \o FlatUpTo(mid, m + 1) = SubSeq(bytes, 1, cut(m)) \o mid[m + 1]
      BY ONLY <3>2, <3>3, <3>4 DEF Regroups
    <3>6. mid[m + 1] = SubSeq(bytes, cut(m) + 1, cut(m + 1))
      <4>1. PICK o \in Int, u \in Int : o = E.page_offset[r[m + 1]] /\ u = E.page_offset[r[m]]
        BY <1>1, <3>1
      <4>2. o = u + SIZE
        BY <1>1, <3>1, <4>1
      <4>3. mid[m + 1] = SubSeq(bytes, o - start + 1, o - start + SIZE)
        BY <1>3, <3>1, <4>1
      <4>4. cut(m) + 1 = o - start + 1 /\ cut(m + 1) = o - start + SIZE
        <5>1. cut(m) = u + SIZE - start /\ cut(m + 1) = o + SIZE - start
          BY <4>1 DEF cut
        <5> QED BY <1>2, <4>2, <5>1
      <4> QED BY <4>3, <4>4
    <3>7. cut(m) \in 0 .. Len(bytes) /\ cut(m + 1) \in 0 .. Len(bytes) /\ cut(m) <= cut(m + 1)
      <4>1. PICK o \in Int, u \in Int : o = E.page_offset[r[m + 1]] /\ u = E.page_offset[r[m]]
        BY <1>1, <3>1
      <4>2. o = u + SIZE
        BY <1>1, <3>1, <4>1
      <4>3. cut(m) = u + SIZE - start /\ cut(m + 1) = o + SIZE - start
        BY <4>1 DEF cut
      <4>4. cut(m) <= cut(m + 1)
        BY <1>2, <4>2, <4>3
      <4> QED BY <1>5, <3>1, <4>4
    <3>8. SubSeq(bytes, 1, cut(m)) \o SubSeq(bytes, cut(m) + 1, cut(m + 1))
             = SubSeq(bytes, 1, cut(m + 1))
      BY ONLY <3>7, bytes \in Seq(V), Meet
    <3>9. head \o FlatUpTo(mid, m + 1) = SubSeq(bytes, 1, cut(m + 1))
      BY ONLY <3>5, <3>6, <3>8
    <3>10. PICK k \in Nat : k = m + 1
      OBVIOUS
    <3>11. head \o FlatUpTo(mid, k) = SubSeq(bytes, 1, cut(k))
      BY ONLY <3>9, <3>10
    <3>12. k \in S
      BY ONLY <3>11, k \in Nat
    <3> QED BY <3>10, <3>12
  <2>2. CASE ~(m + 1 <= b - 1)
    BY <2>2
  <2> QED BY <2>1, <2>2
<1>11. head \o FlatUpTo(mid, b - 1) = SubSeq(bytes, 1, cut(b - 1))
  <2> HIDE DEF S
  <2>1. Nat \subseteq S
    BY <1>9, <1>10, NatSetInduction
  <2>2. b - 1 \in S /\ b - 1 <= b - 1
    BY <1>4, <2>1
  <2> QED BY <2>2 DEF S
<1>12. cut(b - 1) = E.page_offset[r[b]] - start
  <2>1. PICK u \in Int : u = E.page_offset[r[b - 1]]
    <3>1. b - 1 \in 0 .. b
      BY <1>1, <1>4
    <3> QED BY <1>1, <3>1
  <2>2. E.page_offset[r[(b - 1) + 1]] = u + SIZE
    BY <1>1, <1>4, <2>1
  <2>3. E.page_offset[r[b]] = u + SIZE
    BY <1>4, <2>2
  <2>4. cut(b - 1) = u + SIZE - start
    BY <2>1 DEF cut
  <2>5. PICK o \in Int : o = E.page_offset[r[b]]
    BY <1>1, <1>4
  <2>6. o = u + SIZE
    BY ONLY <2>3, <2>5
  <2> QED BY ONLY <1>2, <2>4, <2>5, <2>6, start \in Int, o \in Int, u \in Int
<1>13. head \o FlattenSeq(mid) = SubSeq(bytes, 1, E.page_offset[r[b]] - start)
  BY ONLY <1>8, <1>11, <1>12
<1> QED BY ONLY <1>0, <1>13 DEF IsFrontPart

\* What is copied out is what the emitter holds (emitter.c:243-268).
THEOREM CopyIsContent ==
  ASSUME NEW V, NEW E, NEW start, NEW bytes, Holds(E, V, start, bytes), bytes # <<>>,
         E.used = Len(bytes)
  PROVE  /\ flatcc_emitter_copy_buffer(E, Len(bytes)) = bytes
         /\ FirstAddress(E) = start /\ StretchesMeet(E)
<1>1. E \in Emitters(V) /\ start \in Int /\ bytes \in Seq(V)
  BY DEF Holds
<1>2. PICK r, n, b : IsWhole(E, r, n, b) /\ HasContent(E, r, b, start, bytes)
  BY DEF Holds
<1>3. /\ IsRing(E, r, n) /\ E.front = r[0] /\ E.back = r[b] /\ b \in 0 .. n - 1 /\ n \in Nat
      /\ \A i, j \in 0 .. n - 1 : r[i] = r[j] => i = j
  BY <1>2 DEF IsWhole, IsRing, IsSpan
<1>4. E.front # NULL
  BY <1>1, <1>3, RingFront
<1>5. FirstAddress(E) = start
  BY <1>2, <1>3, <1>4 DEF FirstAddress, HasContent
<1>6. StretchesMeet(E)
  BY <1>2, StretchesOfHolds
<1>7. SIZE \in Nat /\ Len(bytes) \in Nat /\ E.front_left \in 0 .. SIZE /\ E.back_left \in 0 .. SIZE
  BY <1>1, SizeFacts DEF Emitters
<1>8. /\ b \in Nat /\ 0 \in 0 .. b /\ b \in 0 .. b /\ 0 \in 0 .. n - 1
      /\ \A k \in 0 .. b : r[k] \in Pages /\ E.page_offset[r[k]] \in Int
      /\ \A k \in 1 .. b : E.page_offset[r[k]] >= start
  <2>1. /\ b \in Nat /\ \A k \in 0 .. b : r[k] \in Pages /\ E.page_offset[r[k]] \in Int
        /\ \A k \in 1 .. b : E.page_offset[r[k]] >= start
    BY <1>1, <1>2, PageAddresses
  <2> QED BY <1>3, <2>1
<1>9. PICK o \in Int, u \in Int : o = E.page_offset[r[0]] /\ u = E.page_offset[r[b]]
  BY <1>8
<1>10. o + E.front_left = start /\ u + SIZE - E.back_left = start + Len(bytes)
  BY <1>2, <1>9 DEF HasContent
<1>11. PICK x : x = flatcc_emitter_copy_buffer(E, Len(bytes))
  OBVIOUS
<1>12. ~(Len(bytes) < E.used \/ E.front = NULL)
  BY <1>4, <1>7
<1>13. CASE b = 0
  <2>1. x = Bytes(E, r[0], E.front_left, Len(bytes))
    BY <1>3, <1>11, <1>12, <1>13 DEF flatcc_emitter_copy_buffer
  <2>2. E.front_left + Len(bytes) <= SIZE
    <3>1. u = o
      BY <1>9, <1>13
    <3> QED BY <1>7, <1>10, <3>1
  <2>3. PICK c \in 0 .. Len(bytes), d \in Nat : c = 0 /\ d = Len(bytes)
    BY <1>7
  <2>4. /\ c + d <= Len(bytes) /\ E.front_left + d <= SIZE
        /\ E.page_offset[r[0]] + E.front_left = start + c /\ r[0] \in Pages
    BY <1>1, <1>7, <1>8, <1>9, <1>10, <2>2, <2>3
  <2>5. Bytes(E, r[0], E.front_left, d) = SubSeq(bytes, c + 1, c + d)
    <3>1. LiesIn(E, r[0], E.front_left, d, start, c, Len(bytes))
      BY <1>7, <2>4 DEF LiesIn
    <3>2. r[0] \in Pages
      BY <2>4
    <3>3. IsPart(E, r[0], E.front_left, d, bytes, c)
      BY ONLY <1>1, <1>2, <1>8, <3>1, <3>2, PageBytes
    <3> QED BY ONLY <3>3 DEF IsPart
  <2>6. c + 1 = 1 /\ c + d = Len(bytes)
    BY <2>3
  <2>7. SubSeq(bytes, 1, Len(bytes)) = bytes
    BY <1>1
  <2> QED BY ONLY <1>5, <1>6, <1>11, <2>1, <2>3, <2>5, <2>6, <2>7
<1>14. CASE b # 0
  <2>1. E.front # E.back /\ b >= 1
    BY <1>3, <1>8, <1>14
  <2>2. BackAt(E) = b /\ \A i \in 1 .. b - 1 : Nth(E)[i] = r[i]
    <3>1. \A i \in 0 .. n - 1 : Nth(E)[i] = r[i]
      BY <1>3, NthRing
    <3>2. \A i \in 1 .. b - 1 : i \in 0 .. n - 1
      BY <1>3
    <3> QED BY <1>2, <3>1, <3>2, BackAtSpan
  <2>3. PICK tail : tail = Bytes(E, r[b], 0, SIZE - E.back_left)
    OBVIOUS
  <2>4. PICK pages : pages = [i \in 1 .. BackAt(E) - 1 |-> Bytes(E, Nth(E)[i], 0, SIZE)]
    OBVIOUS
  <2>5. x = Bytes(E, E.front, E.front_left, SIZE - E.front_left) \o FlattenSeq(pages)
               \o Bytes(E, E.back, 0, SIZE - E.back_left)
    BY <1>11, <1>12, <2>1, <2>4 DEF flatcc_emitter_copy_buffer
  <2>6. pages = Middle(E, r, b)
    BY <2>2, <2>4 DEF Middle
  <2>7. x = FirstPart(E, r) \o FlattenSeq(Middle(E, r, b)) \o tail
    <3>1. Bytes(E, E.front, E.front_left, SIZE - E.front_left) = FirstPart(E, r)
      BY ONLY <1>3 DEF FirstPart
    <3>2. Bytes(E, E.back, 0, SIZE - E.back_left) = tail
      BY ONLY <1>3, <2>3
    <3> QED BY ONLY <2>5, <2>6, <3>1, <3>2
  <2>8. PICK c \in Int : c = u - start
    BY <1>1
  <2>9. FirstPart(E, r) \o FlattenSeq(Middle(E, r, b)) = SubSeq(bytes, 1, c)
    <3>1. FirstPart(E, r) \o FlattenSeq(Middle(E, r, b))
             = SubSeq(bytes, 1, E.page_offset[r[b]] - start)
      <4>1. IsFrontPart(E, r, b, start, bytes)
        BY <1>1, <1>2, <2>1, FrontPart
      <4> QED BY ONLY <4>1 DEF IsFrontPart
    <3> QED BY ONLY <1>9, <2>8, <3>1
  <2>10. u >= start
    BY <1>8, <1>9, <2>1
  <2>20. PICK k \in Nat, l \in Nat : k = E.back_left /\ l = Len(bytes) /\ k <= SIZE
    BY <1>7
  <2>21. SIZE - k \in Nat
    BY <1>7, <2>20
  <2>11. PICK d \in Nat : k = E.back_left /\ l = Len(bytes) /\ d = SIZE - k /\ k <= SIZE
    BY ONLY <2>20, <2>21
  <2>12. c \in 0 .. l /\ c + d = l /\ d <= SIZE /\ u = start + c
    <3>1. u + SIZE - k = start + l
      BY <1>10, <2>11
    <3>2. SIZE \in Nat /\ start \in Int
      BY <1>1, <1>7
    <3>3. c = u - start /\ d = SIZE - k /\ u >= start
      BY ONLY <2>8, <2>10, <2>11
    <3>4. u = start + c /\ c >= 0
      BY ONLY <3>2, <3>3, u \in Int, c \in Int
    <3>5. c + d = l
      BY ONLY <3>1, <3>2, <3>3, u \in Int, c \in Int, d \in Nat, k \in Nat, l \in Nat
    <3>6. d <= SIZE
      BY ONLY <3>2, <3>3, d \in Nat, k \in Nat
    <3> QED BY ONLY <3>4, <3>5, <3>6, c \in Int, d \in Nat, l \in Nat
  <2>13. tail = SubSeq(bytes, c + 1, l)
    <3>4. r[b] \in Pages /\ SIZE \in Nat /\ E.page_offset[r[b]] + 0 = start + c
      BY <1>7, <1>8, <1>9, <2>12
    <3>5. 0 \in 0 .. SIZE /\ 0 + d <= SIZE /\ c + d <= l /\ c \in 0 .. l
      BY ONLY <2>12, <3>4, d \in Nat, l \in Nat
    <3>1. LiesIn(E, r[b], 0, d, start, c, Len(bytes)) /\ r[b] \in Pages
      BY ONLY <2>11, <3>4, <3>5, d \in Nat DEF LiesIn
    <3>3. IsPart(E, r[b], 0, d, bytes, c)
      BY ONLY <1>1, <1>2, <1>8, <3>1, PageBytes
    <3>2. Bytes(E, r[b], 0, d) = SubSeq(bytes, c + 1, c + d)
      BY ONLY <3>3 DEF IsPart
    <3> QED BY ONLY <2>3, <2>11, <2>12, <3>2
  <2>14. c <= l /\ l \in 0 .. l /\ c \in 0 .. l
    BY <2>12
  <2>15. SubSeq(bytes, 1, c) \o SubSeq(bytes, c + 1, l) = SubSeq(bytes, 1, l)
    BY ONLY <1>1, <2>11, <2>14, Meet
  <2>16. SubSeq(bytes, 1, l) = bytes
    BY <1>1, <2>11
  <2> QED BY ONLY <1>5, <1>6, <1>11, <2>7, <2>9, <2>13, <2>15, <2>16
<1> QED BY <1>13, <1>14

-----------------------------------------------------------------------------
(* Between two buffers *)

Shorter(r, n) == [i \in 0 .. n - 2 |-> IF i = 0 THEN r[0] ELSE r[i + 1]]

\* The page behind the front page leaves the ring.
LEMMA ShorterRing ==
  ASSUME NEW E, NEW F, NEW r, NEW n, IsRing(E, r, n), IsFiniteSet(E.heap), n >= 2,
         F.heap = E.heap \ {r[1]}, F.front = r[0],
         F.next[r[0]] = E.next[r[1]], F.prev[E.next[r[1]]] = r[0],
         \A q \in E.heap : (q # r[0] /\ q # r[1]) => F.next[q] = E.next[q],
         \A q \in E.heap : (q # r[1] /\ q # E.next[r[1]]) => F.prev[q] = E.prev[q]
  PROVE  IsRing(F, Shorter(r, n), n - 1)
<1> DEFINE s == Shorter(r, n)
<1>1. /\ n \in Nat /\ n - 1 \in 0 .. n - 1 /\ 0 \in 0 .. n - 1 /\ 1 \in 0 .. n - 1
      /\ (n - 1) - 1 = n - 2 /\ n - 1 \in Nat \ {0} /\ 0 \in 0 .. n - 2
  BY DEF IsRing
<1>2. /\ r \in [0 .. n - 1 -> E.heap] /\ \A i, j \in 0 .. n - 1 : r[i] = r[j] => i = j
      /\ \A i \in 0 .. n - 2 : E.next[r[i]] = r[i + 1] /\ E.prev[r[i + 1]] = r[i]
      /\ E.next[r[n - 1]] = r[0] /\ E.prev[r[0]] = r[n - 1]
  BY DEF IsRing
<1>3. /\ s[0] = r[0] /\ DOMAIN s = 0 .. n - 2
      /\ \A i \in 1 .. n - 2 : s[i] = r[i + 1] /\ i + 1 \in 2 .. n - 1 /\ i + 1 \in 0 .. n - 1
  BY <1>1 DEF Shorter
<1>4. \A i \in 0 .. n - 1 : r[i] \in E.heap
  BY <1>2
<1>5. \A i \in 0 .. n - 2 : s[i] \in F.heap
  <2> SUFFICES ASSUME NEW i \in 0 .. n - 2 PROVE s[i] \in F.heap
    OBVIOUS
  <2>1. CASE i = 0
    <3>1. r[0] # r[1] /\ r[0] \in E.heap
      BY <1>1, <1>2, <1>4
    <3> QED BY <1>3, <2>1, <3>1
  <2>2. CASE i # 0
    <3>1. i \in 1 .. n - 2
      BY <1>1, <2>2
    <3>2. s[i] = r[i + 1] /\ i + 1 \in 0 .. n - 1 /\ i + 1 # 1
      BY <1>3, <3>1
    <3>3. r[i + 1] # r[1] /\ r[i + 1] \in E.heap
      BY <1>1, <1>2, <1>4, <3>2
    <3> QED BY <3>2, <3>3
  <2> QED BY <2>1, <2>2
<1>6. s \in [0 .. (n - 1) - 1 -> F.heap]
  <2>1. s = [i \in 0 .. n - 2 |-> s[i]]
    BY DEF Shorter
  <2> HIDE DEF s
  <2> QED BY <1>1, <1>5, <2>1
<1> HIDE DEF s
<1>7. n - 1 = Cardinality(F.heap)
  <2>1. PICK p : p = r[1] /\ p \in E.heap /\ F.heap = E.heap \ {p}
    BY <1>1, <1>4
  <2>2. Cardinality(E.heap \ {p}) = Cardinality(E.heap) - 1
    BY <2>1, FS_RemoveElement, IsFiniteSet(E.heap)
  <2>3. n = Cardinality(E.heap)
    BY DEF IsRing
  <2> QED BY <2>1, <2>2, <2>3
<1>8. ASSUME NEW i \in 0 .. n - 2, NEW j \in 0 .. n - 2, s[i] = s[j] PROVE i = j
  <2>1. CASE i = 0 /\ j = 0
    BY <2>1
  <2>2. CASE i # 0 /\ j # 0
    <3>1. i \in 1 .. n - 2 /\ j \in 1 .. n - 2
      BY <1>1, <2>2
    <3>2. r[i + 1] = r[j + 1] /\ i + 1 \in 0 .. n - 1 /\ j + 1 \in 0 .. n - 1
      BY <1>3, <1>8, <3>1
    <3>3. i + 1 = j + 1
      BY <1>2, <3>2
    <3> QED BY <3>1, <3>3
  <2>3. CASE i = 0 /\ j # 0
    <3>1. j \in 1 .. n - 2
      BY <1>1, <2>3
    <3>2. r[0] = r[j + 1] /\ j + 1 \in 0 .. n - 1 /\ j + 1 # 0
      BY <1>3, <1>8, <2>3, <3>1
    <3> QED BY <1>1, <1>2, <3>2
  <2>4. CASE i # 0 /\ j = 0
    <3>1. i \in 1 .. n - 2
      BY <1>1, <2>4
    <3>2. r[0] = r[i + 1] /\ i + 1 \in 0 .. n - 1 /\ i + 1 # 0
      BY <1>3, <1>8, <2>4, <3>1
    <3> QED BY <1>1, <1>2, <3>2
  <2> QED BY <2>1, <2>2, <2>3, <2>4
<1>9. ASSUME NEW q \in F.heap PROVE \E i \in 0 .. n - 2 : s[i] = q
  <2>1. PICK k \in 0 .. n - 1 : r[k] = q
    BY DEF IsRing
  <2>2. k # 1
    BY <2>1
  <2>3. CASE k = 0
    BY <1>1, <1>3, <2>1, <2>3
  <2>4. CASE k # 0
    <3>1. PICK i \in 1 .. n - 2 : i + 1 = k
      <4>1. k - 1 \in 1 .. n - 2 /\ (k - 1) + 1 = k
        BY <1>1, <2>2, <2>4
      <4> QED BY <4>1
    <3>2. i \in 0 .. n - 2 /\ s[i] = r[k]
      BY <1>3, <3>1
    <3> QED BY <2>1, <3>2
  <2> QED BY <2>3, <2>4
<1>10. n >= 3 => E.next[r[1]] = r[2] /\ 2 \in 0 .. n - 1
  <2> SUFFICES ASSUME n >= 3 PROVE E.next[r[1]] = r[2] /\ 2 \in 0 .. n - 1
    OBVIOUS
  <2>1. 1 \in 0 .. n - 2 /\ 1 + 1 = 2 /\ 2 \in 0 .. n - 1
    BY <1>1
  <2>2. E.next[r[1]] = r[1 + 1]
    BY <1>2, <2>1
  <2> QED BY <2>1, <2>2
<1>11. n = 2 => E.next[r[1]] = r[0]
  BY <1>2
<1>12. ASSUME NEW i \in 0 .. (n - 1) - 2
       PROVE  F.next[s[i]] = s[i + 1] /\ F.prev[s[i + 1]] = s[i]
  <2>1. /\ n >= 3 /\ i + 1 \in 1 .. n - 2 /\ (i + 1) + 1 = i + 2 /\ i + 2 \in 0 .. n - 1
        /\ i + 1 \in 0 .. n - 2 /\ i + 2 # 1 /\ i \in Nat
    BY <1>1
  <2>2. s[i + 1] = r[i + 2]
    BY <1>3, <2>1
  <2>3. E.next[r[1]] = r[2] /\ 2 \in 0 .. n - 1
    BY <1>10, <2>1
  <2>4. CASE i = 0
    <3>1. s[0] = r[0] /\ i + 2 = 2
      BY <1>3, <2>4
    <3> QED BY <2>2, <2>3, <2>4, <3>1
  <2>5. CASE i # 0
    <3>1. i \in 1 .. n - 2 /\ i + 1 \in 0 .. n - 1 /\ i + 1 # 0 /\ i + 1 # 1 /\ i + 2 # 2
      BY <1>1, <2>1, <2>5
    <3>2. s[i] = r[i + 1]
      BY <1>3, <3>1
    <3>3. E.next[r[i + 1]] = r[(i + 1) + 1] /\ E.prev[r[(i + 1) + 1]] = r[i + 1]
      BY <1>2, <2>1
    <3>4. r[i + 1] # r[0] /\ r[i + 1] # r[1] /\ r[i + 2] # r[1] /\ r[i + 2] # r[2]
      BY <1>1, <1>2, <2>1, <2>3, <3>1
    <3>5. r[i + 1] \in E.heap /\ r[i + 2] \in E.heap
      BY <1>4, <2>1, <3>1
    <3>6. F.next[r[i + 1]] = E.next[r[i + 1]]
      BY <3>4, <3>5
    <3>7. F.prev[r[i + 2]] = E.prev[r[i + 2]]
      BY <2>3, <3>4, <3>5
    <3> QED BY <2>1, <2>2, <3>2, <3>3, <3>6, <3>7
  <2> QED BY <2>4, <2>5
<1>13. F.next[s[(n - 1) - 1]] = s[0] /\ F.prev[s[0]] = s[(n - 1) - 1]
  <2>1. CASE n = 2
    <3>1. (n - 1) - 1 = 0
      BY <2>1
    <3> QED BY <1>3, <1>11, <2>1, <3>1
  <2>2. CASE n # 2
    <3>1. n >= 3 /\ n - 2 \in 1 .. n - 2 /\ (n - 2) + 1 = n - 1 /\ n - 1 # 0 /\ n - 1 # 1
      BY <1>1, <2>2
    <3>2. s[n - 2] = r[n - 1]
      BY <1>3, <3>1
    <3>3. r[n - 1] # r[0] /\ r[n - 1] # r[1] /\ r[0] # r[1] /\ r[0] # r[2]
      BY <1>1, <1>2, <1>10, <3>1
    <3>4. F.next[r[n - 1]] = r[0] /\ F.prev[r[0]] = r[n - 1]
      BY <1>1, <1>2, <1>4, <1>10, <3>1, <3>3
    <3> QED BY <1>1, <1>3, <3>2, <3>4
  <2> QED BY <2>1, <2>2
<1>14. F.front = s[0]
  BY <1>3
<1>15. IsRing(F, s, n - 1)
  BY ONLY <1>1, <1>6, <1>7, <1>8, <1>9, <1>12, <1>13, <1>14 DEF IsRing
<1> QED BY ONLY <1>15 DEF s

\* An emitter with a page and nothing in it: the first byte will lie at the
\* half of the front page.
AtStart(E, V) ==
    /\ E \in Emitters(V) /\ Garbage \in V /\ IsCounted(E)
    /\ E.back = E.front /\ E.used = 0
    /\ E.front_left = SIZE \div 2 /\ E.back_left = SIZE - SIZE \div 2
    /\ E.page_offset[E.front] = -(SIZE \div 2)
    /\ \E r, n : IsRing(E, r, n)

LEMMA StartHolds ==
  ASSUME NEW V, NEW E, AtStart(E, V)
  PROVE  Holds(E, V, 0, <<>>) /\ E.front # NULL
<1> DEFINE H == SIZE \div 2
<1>1. SIZE \in Nat /\ H \in 1 .. SIZE - 1 /\ NULL \notin Pages
  BY SizeFacts
<1>2. PICK r, n : IsRing(E, r, n)
  BY DEF AtStart
<1>3. /\ n \in Nat /\ 0 \in 0 .. n - 1 /\ r[0] = E.front /\ r[0] \in E.heap
      /\ E.heap \subseteq Pages
  BY <1>2 DEF IsRing, AtStart, Emitters
<1>4. /\ E.front_left = H /\ E.back_left = SIZE - H /\ E.page_offset[r[0]] = -H
      /\ E.back = r[0] /\ IsCounted(E) /\ E \in Emitters(V) /\ Garbage \in V
  BY <1>3 DEF AtStart
<1> HIDE DEF H
<1>5. IsSpan(E, r, n, 0)
  BY <1>3, <1>4 DEF IsSpan
<1>6. HasContent(E, r, 0, 0, <<>>)
  BY <1>1, <1>4 DEF HasContent
<1>7. IsWhole(E, r, n, 0)
  BY <1>2, <1>5 DEF IsWhole
<1> QED BY <1>1, <1>3, <1>4, <1>6, <1>7 DEF Holds

\* A page freed behind the back page leaves the rest of the ring as it was.
LEMMA FreeBehindKeeps ==
  ASSUME NEW V, NEW E, AtStart(E, V)
  PROVE  AtStart(FreeBehind(E), V) /\ FreeBehind(E).memory = E.memory
<1> DEFINE p == E.next[E.back]
           F == FreeBehind(E)
<1>1. CASE ~(E.used_average * 2 < E.capacity /\ p # E.front)
  BY <1>1 DEF FreeBehind
<1>2. CASE E.used_average * 2 < E.capacity /\ p # E.front
  <2>1. PICK r, n : IsRing(E, r, n)
    BY DEF AtStart
  <2>2. /\ E \in Emitters(V) /\ Garbage \in V /\ IsCounted(E) /\ DOMAIN E = EmitterFields
        /\ E.back = r[0] /\ E.front = r[0] /\ E.used = 0
        /\ E.front_left = SIZE \div 2 /\ E.back_left = SIZE - SIZE \div 2
        /\ E.page_offset[r[0]] = -(SIZE \div 2)
    BY <2>1, RecordOfEmitter DEF AtStart, IsRing
  <2>3. n >= 2 /\ p = r[1] /\ n \in Nat /\ {0, 1, n - 1} \subseteq 0 .. n - 1
    <3>1. n \in Nat /\ n # 0 /\ E.next[r[n - 1]] = r[0] /\ \A i \in 0 .. n - 2 : E.next[r[i]] = r[i + 1]
      BY <2>1 DEF IsRing
    <3>2. n # 1
      BY <1>2, <2>2, <3>1
    <3>3. n >= 2 /\ 0 \in 0 .. n - 2 /\ {0, 1, n - 1} \subseteq 0 .. n - 1
      BY <3>1, <3>2
    <3> QED BY <2>2, <3>1, <3>3
  <2>4. PICK q : q = E.next[p] /\ q \in E.heap /\ q # p
    <3>1. CASE n = 2
      <4>1. E.next[r[1]] = r[0] /\ r[0] \in E.heap /\ r[0] # r[1]
        BY <2>1, <2>3, <3>1 DEF IsRing
      <4> QED BY <2>3, <4>1
    <3>2. CASE n # 2
      <4>1. 1 \in 0 .. n - 2 /\ 2 \in 0 .. n - 1 /\ 1 + 1 = 2
        BY <2>3, <3>2
      <4>2. E.next[r[1]] = r[2] /\ r[2] \in E.heap /\ r[2] # r[1]
        BY <2>1, <2>3, <4>1 DEF IsRing
      <4> QED BY <2>3, <4>2
    <3> QED BY <3>1, <3>2
  <2>5. /\ r[0] \in E.heap /\ r[1] \in E.heap /\ r[0] # r[1] /\ E.heap \subseteq Pages
        /\ IsFiniteSet(E.heap) /\ q \in Pages /\ r[0] \in Pages /\ r[1] \in Pages
    <3>1. E.heap \subseteq Pages
      BY <2>2 DEF Emitters
    <3>2. IsFiniteSet(E.heap)
      BY <3>1, SizeFacts, FS_Subset
    <3> QED BY <2>1, <2>3, <2>4, <3>1, <3>2 DEF IsRing
  <2>6. F = [E EXCEPT !.next = [E.next EXCEPT ![r[0]] = q, ![r[1]] = NULL],
                      !.prev = [E.prev EXCEPT ![q] = r[0], ![r[1]] = NULL],
                      !.page = [E.page EXCEPT ![r[1]] = Blank],
                      !.page_offset = [E.page_offset EXCEPT ![r[1]] = 0],
                      !.heap = E.heap \ {r[1]}, !.capacity = E.capacity - SIZE]
    BY <1>2, <2>2, <2>3, <2>4 DEF FreeBehind
  <2> HIDE DEF F, p
  <2>7. IsRecord(F)
    BY ONLY <2>2, <2>6 DEF IsRecord
  <2>8. /\ F.front = E.front /\ F.back = E.back /\ F.heap = E.heap \ {r[1]}
        /\ F.front_left = E.front_left /\ F.back_left = E.back_left /\ F.memory = E.memory
        /\ F.used = E.used /\ F.used_average = E.used_average
        /\ F.capacity = E.capacity - SIZE
        /\ F.next = [E.next EXCEPT ![r[0]] = q, ![r[1]] = NULL]
        /\ F.prev = [E.prev EXCEPT ![q] = r[0], ![r[1]] = NULL]
        /\ F.page = [E.page EXCEPT ![r[1]] = Blank]
        /\ F.page_offset = [E.page_offset EXCEPT ![r[1]] = 0]
    BY ONLY <2>2, <2>6 DEF EmitterFields
  <2>9. /\ E.next \in [Pages -> Pages \cup {NULL}] /\ E.prev \in [Pages -> Pages \cup {NULL}]
        /\ E.page \in [Pages -> [1 .. SIZE -> V]] /\ E.page_offset \in [Pages -> Int]
        /\ E.front \in Pages \cup {NULL} /\ E.back \in Pages \cup {NULL}
        /\ E.front_left \in 0 .. SIZE /\ E.back_left \in 0 .. SIZE
        /\ E.used \in Nat /\ E.used_average \in Nat /\ E.memory \in Nat
        /\ E.capacity \in Nat
    BY <2>2 DEF Emitters
  <2>10. /\ F.next \in [Pages -> Pages \cup {NULL}] /\ F.prev \in [Pages -> Pages \cup {NULL}]
         /\ F.page \in [Pages -> [1 .. SIZE -> V]] /\ F.page_offset \in [Pages -> Int]
    <3>1. Blank \in [1 .. SIZE -> V]
      BY <2>2 DEF Blank
    <3>2. F.next \in [Pages -> Pages \cup {NULL}]
      <4>1. PICK f \in [Pages -> Pages \cup {NULL}] : f = [E.next EXCEPT ![r[0]] = q]
        BY ONLY <2>5, <2>9
      <4>2. F.next = [f EXCEPT ![r[1]] = NULL]
        BY ONLY <2>8, <4>1
      <4> QED BY ONLY <4>2
    <3>3. F.prev \in [Pages -> Pages \cup {NULL}]
      <4>1. PICK f \in [Pages -> Pages \cup {NULL}] : f = [E.prev EXCEPT ![q] = r[0]]
        BY ONLY <2>5, <2>9
      <4>2. F.prev = [f EXCEPT ![r[1]] = NULL]
        BY ONLY <2>8, <4>1
      <4> QED BY ONLY <4>2
    <3>4. F.page \in [Pages -> [1 .. SIZE -> V]]
      BY ONLY <2>5, <2>8, <2>9, <3>1
    <3>5. F.page_offset \in [Pages -> Int]
      BY ONLY <2>5, <2>8, <2>9
    <3> QED BY <3>2, <3>3, <3>4, <3>5
  <2>11. /\ F.next[r[0]] = q /\ F.prev[q] = r[0]
         /\ \A x \in E.heap : (x # r[0] /\ x # r[1]) => F.next[x] = E.next[x]
         /\ \A x \in E.heap : (x # r[1] /\ x # q) => F.prev[x] = E.prev[x]
         /\ F.page_offset[r[0]] = E.page_offset[r[0]]
    <3>1. q # r[1]
      BY <2>3, <2>4
    <3> QED BY ONLY <2>5, <2>8, <2>9, <3>1
  <2>12. Cardinality(F.heap) = n - 1 /\ Cardinality(E.heap) = n
    <3>1. Cardinality(E.heap) = n
      BY <2>1 DEF IsRing
    <3>2. Cardinality(E.heap \ {r[1]}) = Cardinality(E.heap) - 1
      BY <2>5, FS_RemoveElement
    <3> QED BY <2>8, <3>1, <3>2
  <2>13. F.capacity = SIZE * (n - 1) /\ F.capacity \in Nat
    <3>1. E.capacity = SIZE * n
      BY <2>2, <2>12 DEF IsCounted
    <3>2. SIZE * (n - 1) = SIZE * n - SIZE /\ SIZE * (n - 1) \in Nat
      <4>1. n - 1 \in Nat /\ SIZE \in Nat /\ n \in Nat
        BY <2>3, SizeFacts
      <4>2. SIZE * (n - 1) \in Nat
        BY <4>1
      <4>3. SIZE * (n - 1) = SIZE * n - SIZE
        BY <4>1
      <4> QED BY <4>2, <4>3
    <3> QED BY <2>8, <3>1, <3>2
  <2>14. IsCounted(F)
    <3>1. n <= E.memory /\ E.memory <= Cardinality(Pages) /\ E.memory \in Nat
      BY <2>2, <2>9, <2>12 DEF IsCounted
    <3>2. n - 1 <= F.memory /\ F.memory <= Cardinality(Pages)
      BY <2>3, <2>8, <3>1
    <3> QED BY <2>12, <2>13, <3>2 DEF IsCounted
  <2>15. F \in Emitters(V)
    <3>1. F.heap \in SUBSET Pages
      BY <2>5, <2>8
    <3> QED BY ONLY <2>7, <2>8, <2>9, <2>10, <2>13, <3>1, EmitterFromFields
  <2>16. IsRing(F, Shorter(r, n), n - 1)
    <3>1. q = E.next[r[1]]
      BY <2>3, <2>4
    <3>2. F.front = r[0] /\ F.heap = E.heap \ {r[1]}
      BY <2>2, <2>8
    <3>3. /\ F.next[r[0]] = E.next[r[1]] /\ F.prev[E.next[r[1]]] = r[0]
          /\ \A x \in E.heap : (x # r[0] /\ x # r[1]) => F.next[x] = E.next[x]
          /\ \A x \in E.heap : (x # r[1] /\ x # E.next[r[1]]) => F.prev[x] = E.prev[x]
      BY ONLY <2>11, <3>1
    <3> QED BY ONLY <2>1, <2>3, <2>5, <3>2, <3>3, ShorterRing
  <2>17. /\ F.back = F.front /\ F.used = 0 /\ F.memory = E.memory
         /\ F.front_left = SIZE \div 2 /\ F.back_left = SIZE - SIZE \div 2
         /\ F.page_offset[F.front] = -(SIZE \div 2)
    BY ONLY <2>2, <2>8, <2>11
  <2>18. AtStart(F, V)
    BY ONLY <2>2, <2>14, <2>15, <2>16, <2>17 DEF AtStart
  <2> QED BY <2>17, <2>18 DEF F
<1> QED BY <1>1, <1>2

ShrinksPool(f, E) == f = [i \in Nat |-> IF i = 0 THEN E ELSE FreeBehind(f[i - 1])]

\* The states of an emitter at its start that has memory pages at most.
Starting(V, memory) == {E \in Emitters(V) : AtStart(E, V) /\ E.memory = memory}

LEMMA ShrinksPoolExists ==
  ASSUME NEW V, NEW memory, NEW E \in Starting(V, memory)
  PROVE  \E f : ShrinksPool(f, E) /\ f \in [Nat -> Starting(V, memory)]
<1> DEFINE A == Starting(V, memory)
           step == [x \in A \X Nat |-> FreeBehind(x[1])]
<1>1. \A F \in A : FreeBehind(F) \in A
  <2> SUFFICES ASSUME NEW F \in A PROVE FreeBehind(F) \in A
    OBVIOUS
  <2>1. AtStart(F, V) /\ F.memory = memory
    BY DEF Starting
  <2>2. AtStart(FreeBehind(F), V) /\ FreeBehind(F).memory = memory
    BY <2>1, FreeBehindKeeps
  <2> QED BY <2>2 DEF Starting, AtStart
<1> HIDE DEF A
<1>2. step \in [A \X Nat -> A]
  BY <1>1
<1>3. PICK f \in [Nat -> A] : Recurs(f, E, step)
  <2>1. E \in A
    BY DEF A
  <2> HIDE DEF step
  <2> QED BY <1>2, <2>1, Recursion
<1>4. f[0] = E /\ \A i \in Nat : f[i + 1] = FreeBehind(f[i])
  BY <1>3 DEF Recurs
<1>5. \A i \in Nat : f[i] = IF i = 0 THEN E ELSE FreeBehind(f[i - 1])
  <2> SUFFICES ASSUME NEW i \in Nat, i # 0 PROVE f[i] = FreeBehind(f[i - 1])
    BY <1>4
  <2>1. i - 1 \in Nat /\ (i - 1) + 1 = i
    OBVIOUS
  <2> QED BY <1>4, <2>1
<1>6. f = [i \in Nat |-> IF i = 0 THEN E ELSE FreeBehind(f[i - 1])]
  <2>1. f = [i \in Nat |-> f[i]]
    BY <1>3
  <2> QED BY <1>5, <2>1
<1> QED BY <1>3, <1>6 DEF ShrinksPool, A

LEMMA ShrinkPoolKeeps ==
  ASSUME NEW V, NEW E, AtStart(E, V)
  PROVE  AtStart(ShrinkPool(E), V) /\ ShrinkPool(E).memory = E.memory
<1> DEFINE f == CHOOSE g : ShrinksPool(g, E)
           S == {i \in Nat : AtStart(f[i], V) /\ f[i].memory = E.memory}
           n == Cardinality(E.heap)
<1>1. E \in Starting(V, E.memory)
  BY DEF Starting, AtStart
<1>2. ShrinksPool(f, E)
  BY <1>1, ShrinksPoolExists
<1>3. ShrinkPool(E) = f[n]
  BY DEF ShrinkPool, ShrinksPool
<1>4. n \in Nat
  <2>1. E.heap \subseteq Pages
    BY DEF AtStart, Emitters
  <2> QED BY <2>1, SizeFacts, FS_Subset, FS_CardinalityType
<1> HIDE DEF f, n
<1>5. f[0] = E /\ \A i \in Nat : f[i + 1] = FreeBehind(f[i])
  <2>1. f[0] = E
    BY <1>2 DEF ShrinksPool
  <2>2. ASSUME NEW i \in Nat PROVE f[i + 1] = FreeBehind(f[i])
    <3>1. i + 1 \in Nat /\ i + 1 # 0 /\ (i + 1) - 1 = i
      OBVIOUS
    <3> QED BY <1>2, <3>1 DEF ShrinksPool
  <2> QED BY <2>1, <2>2
<1>6. 0 \in S
  BY <1>5
<1>7. ASSUME NEW i \in Nat, i \in S PROVE i + 1 \in S
  BY <1>5, <1>7, FreeBehindKeeps
<1> HIDE DEF S
<1>8. n \in S
  BY <1>4, <1>6, <1>7, NatSetInduction
<1> QED BY <1>3, <1>8 DEF S

LEMMA NullIsEmpty ==
  ASSUME NEW V, NEW E, NEW start, NEW bytes, Holds(E, V, start, bytes), E.front = NULL
  PROVE  IsEmpty(E) /\ start = 0 /\ bytes = <<>> /\ Holds(E, V, 0, <<>>)
<1>1. ASSUME NEW r, NEW n, NEW b, IsWhole(E, r, n, b) PROVE FALSE
  <2>1. /\ n \in Nat /\ n # 0 /\ r \in [0 .. n - 1 -> E.heap] /\ E.front = r[0]
    BY <1>1 DEF IsWhole, IsRing
  <2>2. 0 \in 0 .. n - 1
    BY <2>1
  <2>3. E.front \in E.heap
    BY <2>1, <2>2
  <2>4. E.heap \subseteq Pages /\ NULL \notin Pages
    BY SizeFacts DEF Holds, Emitters
  <2> QED BY <2>3, <2>4
<1>2. IsEmpty(E) /\ start = 0 /\ bytes = <<>>
  BY <1>1 DEF Holds
<1> QED BY <1>2 DEF Holds

\* A reset emitter is empty again and has its pages in one ring, however its
\* last buffer ended and however many of them it frees; one without a page is
\* left as it is (emitter.c:152-179).
THEOREM ResetStarts ==
  ASSUME NEW V, NEW E, IsSound(E, V)
  PROVE  LET F == flatcc_emitter_reset(E)
         IN  /\ E.front = NULL => F = E
             /\ E.front # NULL => AtStart(F, V)
             /\ Holds(F, V, 0, <<>>) /\ F.memory = E.memory
<1>1. PICK start, bytes : Holds(E, V, start, bytes)
  BY DEF IsSound
<1>2. E \in Emitters(V) /\ Garbage \in V /\ IsCounted(E) /\ DOMAIN E = EmitterFields
  BY <1>1, RecordOfEmitter DEF Holds
<1>3. PICK F : F = flatcc_emitter_reset(E)
  OBVIOUS
<1>4. CASE E.front = NULL
  <2>1. F = E
    BY <1>3, <1>4 DEF flatcc_emitter_reset
  <2>2. Holds(E, V, 0, <<>>)
    BY <1>1, <1>4, NullIsEmpty
  <2> QED BY <1>3, <1>4, <2>1, <2>2
<1>5. CASE E.front # NULL
  <2>1. PICK r, n, b : IsWhole(E, r, n, b)
    BY <1>1, <1>5 DEF Holds, IsEmpty
  <2> DEFINE H == SIZE \div 2
             average == IF E.used_average = 0 THEN E.used ELSE E.used_average
  <2>2. PICK u \in Nat : u = (average * 3) \div 4 + E.used \div 4
    <3>1. E.used \in Nat /\ average \in Nat
      BY <1>2 DEF Emitters
    <3> HIDE DEF average
    <3>2. average * 3 \in Nat
      BY <3>1
    <3>3. (average * 3) \div 4 \in Nat /\ E.used \div 4 \in Nat
      BY <3>1, <3>2
    <3>4. (average * 3) \div 4 + E.used \div 4 \in Nat
      BY <3>3
    <3> QED BY <3>4
  <2>3. PICK G : G = [E EXCEPT !.back = E.front, !.front_left = H, !.back_left = SIZE - H,
                      !.page_offset = [E.page_offset EXCEPT ![E.front] = -H],
                      !.used_average = u, !.used = 0]
    OBVIOUS
  <2>4. F = ShrinkPool(G)
    BY <1>3, <1>5, <2>2, <2>3 DEF flatcc_emitter_reset
  <2>5. SIZE \in Nat /\ H \in 1 .. SIZE - 1 /\ -H \in Int /\ H \in 0 .. SIZE /\ SIZE - H \in 0 .. SIZE
    BY SizeFacts
  <2> HIDE DEF H, average
  <2>6. IsRecord(G)
    BY ONLY <1>2, <2>3 DEF IsRecord
  <2>7. /\ G.front = E.front /\ G.back = E.front /\ G.heap = E.heap
        /\ G.front_left = H /\ G.back_left = SIZE - H /\ G.memory = E.memory
        /\ G.used = 0 /\ G.used_average = u /\ G.capacity = E.capacity
        /\ G.next = E.next /\ G.prev = E.prev /\ G.page = E.page
        /\ G.page_offset = [E.page_offset EXCEPT ![E.front] = -H]
    BY ONLY <1>2, <2>3 DEF EmitterFields
  <2>8. /\ E.next \in [Pages -> Pages \cup {NULL}] /\ E.prev \in [Pages -> Pages \cup {NULL}]
        /\ E.page \in [Pages -> [1 .. SIZE -> V]] /\ E.page_offset \in [Pages -> Int]
        /\ E.front \in Pages \cup {NULL} /\ E.memory \in Nat /\ E.capacity \in Nat
        /\ E.heap \in SUBSET Pages
    BY <1>2 DEF Emitters
  <2>9. G.page_offset \in [Pages -> Int] /\ G.page_offset[G.front] = -H
    BY ONLY <1>5, <2>5, <2>7, <2>8
  <2>10. G \in Emitters(V)
    BY ONLY <2>2, <2>5, <2>6, <2>7, <2>8, <2>9, 0 \in Nat, EmitterFromFields
  <2>11. IsRing(G, r, n)
    BY ONLY <2>1, <2>7 DEF IsWhole, IsRing
  <2>12. IsCounted(G)
    BY ONLY <1>2, <2>7 DEF IsCounted
  <2>13. AtStart(G, V)
    BY ONLY <1>2, <2>7, <2>9, <2>10, <2>11, <2>12 DEF AtStart, H
  <2>14. AtStart(F, V) /\ F.memory = E.memory
    BY <2>4, <2>7, <2>13, ShrinkPoolKeeps
  <2> QED BY <1>3, <1>5, <2>14, StartHolds
<1> QED BY <1>4, <1>5

LEMMA InitHolds ==
  ASSUME NEW V, NEW memory \in 0 .. Cardinality(Pages), Garbage \in V
  PROVE  LET F == flatcc_emitter_init(memory)
         IN  Holds(F, V, 0, <<>>) /\ F.used = 0 /\ F.memory = memory
<1> DEFINE F == flatcc_emitter_init(memory)
<1>1. Cardinality(Pages) \in Nat /\ SIZE \in Nat /\ 0 \in 0 .. SIZE
  BY SizeFacts, FS_CardinalityType
<1>2. Blank \in [1 .. SIZE -> V]
  BY DEF Blank
<1>3. F \in Emitters(V)
  BY <1>1, <1>2 DEF Emitters, flatcc_emitter_init
<1>4. Cardinality(F.heap) = 0
  BY FS_EmptySet DEF flatcc_emitter_init
<1>5. IsCounted(F)
  <2>1. F.capacity = 0 /\ F.memory = memory
    BY DEF flatcc_emitter_init
  <2>2. SIZE * 0 = 0 /\ 0 <= memory /\ memory <= Cardinality(Pages)
    BY <1>1
  <2> QED BY <1>4, <2>1, <2>2 DEF IsCounted
<1>6. IsEmpty(F)
  BY DEF IsEmpty, flatcc_emitter_init
<1>7. F.used = 0 /\ F.memory = memory
  BY DEF flatcc_emitter_init
<1> QED BY <1>3, <1>5, <1>6, <1>7 DEF Holds

LEMMA ClearHolds ==
  ASSUME NEW V, NEW E, IsSound(E, V)
  PROVE  LET F == flatcc_emitter_clear(E)
         IN  /\ E.front = NULL => F = E
             /\ E.front # NULL => F.used = 0
             /\ Holds(F, V, 0, <<>>) /\ F.memory = E.memory
<1>1. PICK start, bytes : Holds(E, V, start, bytes)
  BY DEF IsSound
<1>2. E \in Emitters(V) /\ Garbage \in V /\ IsCounted(E)
  BY <1>1 DEF Holds
<1>3. CASE E.front = NULL
  <2>1. Holds(E, V, 0, <<>>)
    BY <1>1, <1>3, NullIsEmpty
  <2> QED BY <1>3, <2>1 DEF flatcc_emitter_clear
<1>4. CASE E.front # NULL
  <2>1. E.memory \in Nat /\ E.memory <= Cardinality(Pages)
    BY <1>2 DEF Emitters, IsCounted
  <2>2. E.memory \in 0 .. Cardinality(Pages)
    BY <2>1, SizeFacts, FS_CardinalityType
  <2>3. flatcc_emitter_clear(E) = flatcc_emitter_init(E.memory)
    BY <1>4 DEF flatcc_emitter_clear
  <2> QED BY <1>2, <1>4, <2>2, <2>3, InitHolds
<1> QED BY <1>3, <1>4

-----------------------------------------------------------------------------
(* The builder *)

BuilderFields ==
    {"ds_mem", "ds", "ds_first", "ds_offset", "ds_limit", "vs_mem", "vs", "id_end",
     "pl_mem", "pl", "frame", "align", "min_align", "block_align", "emit_start",
     "emit_end", "buffer_mark", "nest_count", "nest_id", "with_size", "identifier",
     "vb", "vd", "vd_room", "chain", "vb_flush_limit", "disable_vt_clustering", "E", "sent"}

\* What decides how long the pieces are that a builder emits, and where they go.
IsBuilder(C) ==
    /\ DOMAIN C = BuilderFields /\ DOMAIN C.sent = {"start", "bytes"}
    /\ C.align \in Nat /\ C.min_align \in Nat /\ C.block_align \in Nat
    /\ C.ds_offset \in Int /\ C.id_end \in Int /\ C.identifier = _pad(4)
    /\ C.emit_start \in Int /\ C.emit_start <= 0 /\ C.emit_end \in Nat

\* The emitter's rings and counters are sound, and so is its use.
IsStable(E) ==
    /\ \E V : IsSound(E, V)
    /\ E.front = NULL => E.used = 0 \/ E.memory = 0

\* The emitter holds what it was handed, at the addresses of the builder.
IsHolding(C) ==
    /\ \E V : Holds(C.E, V, C.emit_start, C.sent.bytes)
    /\ C.sent.start = C.emit_start
    /\ C.emit_end = C.emit_start + Len(C.sent.bytes)
    /\ C.E.used = Len(C.sent.bytes) \/ C.E.memory = 0

\* D is what is left of C by a step that emits nothing.
SameOut(D, C) ==
    /\ D.E = C.E /\ D.emit_start = C.emit_start /\ D.emit_end = C.emit_end
    /\ D.sent = C.sent
Kept(D, C) == IsBuilder(D) /\ SameOut(D, C) /\ D.frame = C.frame /\ D.align = C.align

LEMMA SameOutHolding ==
  ASSUME NEW C, NEW D, SameOut(D, C), IsHolding(C)
  PROVE  IsHolding(D)
  BY DEF SameOut, IsHolding

LEMMA KeptTwice ==
  ASSUME NEW B0, NEW C, NEW D, Kept(C, B0), Kept(D, C)
  PROVE  Kept(D, B0)
  BY DEF Kept, SameOut

LEMMA GreaterType ==
  ASSUME NEW a \in Nat, NEW b \in Nat
  PROVE  Greater(a, b) \in Nat /\ Greater(a, b) >= a /\ Greater(a, b) >= b
  BY DEF Greater

\* What every step that emits nothing leaves as it is.
Essential == {"align", "block_align", "identifier", "emit_start", "emit_end", "E", "sent",
              "frame"}
SameEssentials(D, C) == DOMAIN D = BuilderFields /\ \A x \in Essential : D[x] = C[x]

LEMMA KeptByFields ==
  ASSUME NEW C, IsBuilder(C), NEW D, SameEssentials(D, C),
         D.min_align \in Nat, D.ds_offset \in Int, D.id_end \in Int
  PROVE  Kept(D, C)
<1>1. /\ D.align = C.align /\ D.block_align = C.block_align
      /\ D.identifier = C.identifier /\ D.emit_start = C.emit_start
      /\ D.emit_end = C.emit_end /\ D.E = C.E /\ D.sent = C.sent /\ D.frame = C.frame
      /\ DOMAIN D = BuilderFields
  BY DEF SameEssentials, Essential
<1> QED BY ONLY <1>1, IsBuilder(C), D.min_align \in Nat, D.ds_offset \in Int, D.id_end \in Int
        DEF IsBuilder, Kept, SameOut

LEMMA SetMinAlignKeeps ==
  ASSUME NEW C, IsBuilder(C), NEW a \in Nat
  PROVE  Kept(set_min_align(C, a), C)
<1>1. PICK m \in Nat : m = Greater(C.min_align, a)
  BY GreaterType DEF IsBuilder
<1>2. PICK D : D = [C EXCEPT !.min_align = m]
  OBVIOUS
<1>3. D = set_min_align(C, a)
  BY <1>1, <1>2 DEF set_min_align
<1>4. D.min_align = m /\ D.ds_offset = C.ds_offset /\ D.id_end = C.id_end
  BY ONLY <1>2, IsBuilder(C) DEF IsBuilder, BuilderFields
<1>5. SameEssentials(D, C)
  BY ONLY <1>2, IsBuilder(C) DEF IsBuilder, BuilderFields, SameEssentials, Essential
<1>6. C.ds_offset \in Int /\ C.id_end \in Int
  BY DEF IsBuilder
<1> QED BY <1>3, <1>4, <1>5, <1>6, KeptByFields

LEMMA PokeKeeps ==
  ASSUME NEW C, IsBuilder(C), NEW at, NEW data
  PROVE  Kept(Poke(C, at, data), C)
<1>1. PICK D : D = Poke(C, at, data)
  OBVIOUS
<1>2. PICK mem : D = [C EXCEPT !.ds_mem = mem]
  BY <1>1 DEF Poke
<1>3. D.min_align = C.min_align /\ D.ds_offset = C.ds_offset /\ D.id_end = C.id_end
  BY ONLY <1>2, IsBuilder(C) DEF IsBuilder, BuilderFields
<1>4. SameEssentials(D, C)
  BY ONLY <1>2, IsBuilder(C) DEF IsBuilder, BuilderFields, SameEssentials, Essential
<1>5. C.min_align \in Nat /\ C.ds_offset \in Int /\ C.id_end \in Int
  BY DEF IsBuilder
<1> QED BY <1>1, <1>3, <1>4, <1>5, KeptByFields

-----------------------------------------------------------------------------
(* Frames *)

FrameFields == {"type", "align", "ds_first", "ds_offset", "type_limit", "c"}

Elements == {"vector", "offsets", "unions", "string"}

\* The container of a frame of kind k.
IsContainer(c, k) ==
    /\ k = "buffer" => c.identifier = _pad(4)
    /\ k = "table" => c.id_end \in Int
    /\ k \in Elements => /\ DOMAIN c = {"elem_size", "count"}
                         /\ c.elem_size \in Int /\ c.count \in Int

IsFrame(f, k) ==
    /\ DOMAIN f = FrameFields /\ f.align \in Nat /\ f.ds_offset \in Int
    /\ f.type_limit \in Int /\ IsContainer(f.c, k)

\* The frames of open objects of these kinds, of which the innermost has the
\* alignment a: each frame has that of the object around it.
IsFrames(fs, a, ks) ==
    /\ ks \in Seq(Kinds) /\ Len(fs) = Len(ks)
    /\ \E S : fs \in Seq(S)
    /\ \A l \in 1 .. Len(ks) : IsFrame(fs[l], ks[l])
    /\ \A l \in 1 .. Len(ks) - 1 : ks[l] = "struct" => fs[l + 1].align > 0
    /\ Len(ks) > 0 /\ ks[Len(ks)] = "struct" => a > 0

\* A builder with open objects of these kinds.
Standing(C, ks) == IsBuilder(C) /\ IsFrames(C.frame, C.align, ks)

LEMMA KeptStanding ==
  ASSUME NEW C, NEW D, NEW ks, Standing(C, ks), Kept(D, C)
  PROVE  Standing(D, ks) /\ SameOut(D, C)
  BY DEF Standing, Kept

\* One frame replaced by one that is like it.
LEMMA FrameReplaced ==
  ASSUME NEW fs, NEW a, NEW ks, IsFrames(fs, a, ks), NEW n \in 1 .. Len(ks), NEW g,
         IsFrame(g, ks[n]), g.align = fs[n].align, NEW gs, gs = [fs EXCEPT ![n] = g]
  PROVE  IsFrames(gs, a, ks)
<1>1. PICK S : fs \in Seq(S)
  BY DEF IsFrames
<1>2. Len(fs) = Len(ks) /\ ks \in Seq(Kinds) /\ Len(ks) \in Nat
  BY DEF IsFrames
<1>3. gs \in Seq(S \cup {g}) /\ Len(gs) = Len(ks)
      /\ \A l \in 1 .. Len(ks) : gs[l] = IF l = n THEN g ELSE fs[l]
  BY ONLY <1>1, <1>2, n \in 1 .. Len(ks), gs = [fs EXCEPT ![n] = g]
<1>4. ASSUME NEW l \in 1 .. Len(ks) PROVE IsFrame(gs[l], ks[l]) /\ gs[l].align = fs[l].align
  BY <1>3 DEF IsFrames
<1>5. ASSUME NEW l \in 1 .. Len(ks) - 1, ks[l] = "struct" PROVE gs[l + 1].align > 0
  <2>1. l + 1 \in 1 .. Len(ks)
    BY <1>2
  <2>2. gs[l + 1].align = fs[l + 1].align
    BY <1>4, <2>1
  <2>3. fs[l + 1].align > 0
    BY <1>5 DEF IsFrames
  <2> QED BY <2>2, <2>3
<1>6. Len(ks) > 0 /\ ks[Len(ks)] = "struct" => a > 0
  BY DEF IsFrames
<1> QED BY ONLY <1>2, <1>3, <1>4, <1>5, <1>6 DEF IsFrames

LEMMA FramesAppend ==
  ASSUME NEW fs, NEW a, NEW ks, IsFrames(fs, a, ks), NEW f, NEW k \in Kinds,
         IsFrame(f, k), f.align = a, NEW b, k = "struct" => b > 0
  PROVE  IsFrames(Append(fs, f), b, Append(ks, k))
<1>1. PICK S : fs \in Seq(S)
  BY DEF IsFrames
<1>2. Len(fs) = Len(ks) /\ ks \in Seq(Kinds) /\ Len(ks) \in Nat
  BY DEF IsFrames
<1>3. PICK n \in Nat : n = Len(ks)
  BY <1>2
<1>4. PICK gs, ls : gs = Append(fs, f) /\ ls = Append(ks, k)
  OBVIOUS
<1>5. /\ gs \in Seq(S \cup {f}) /\ Len(gs) = n + 1 /\ gs[n + 1] = f
      /\ \A l \in 1 .. n : gs[l] = fs[l]
  <2>1. fs \in Seq(S \cup {f})
    BY <1>1
  <2> QED BY <1>2, <1>3, <1>4, <2>1, AppendAt
<1>6. /\ ls \in Seq(Kinds) /\ Len(ls) = n + 1 /\ ls[n + 1] = k
      /\ \A l \in 1 .. n : ls[l] = ks[l]
  BY <1>2, <1>3, <1>4, AppendAt
<1>7. ASSUME NEW l \in 1 .. n + 1 PROVE IsFrame(gs[l], ls[l])
  <2>1. CASE l = n + 1
    BY <1>5, <1>6, <2>1
  <2>2. CASE l # n + 1
    <3>1. l \in 1 .. n
      BY <2>2
    <3> QED BY <1>3, <1>5, <1>6, <3>1 DEF IsFrames
  <2> QED BY <2>1, <2>2
<1>8. ASSUME NEW l \in 1 .. n, ls[l] = "struct" PROVE gs[l + 1].align > 0
  <2>1. CASE l = n
    <3>1. ks[n] = "struct" /\ n > 0
      BY <1>6, <1>8, <2>1
    <3>2. a > 0
      BY <1>3, <3>1 DEF IsFrames
    <3> QED BY <1>5, <2>1, <3>2
  <2>2. CASE l # n
    <3>1. l \in 1 .. n - 1 /\ l + 1 \in 1 .. n
      BY <2>2
    <3>2. fs[l + 1].align > 0
      BY <1>3, <1>6, <1>8, <3>1 DEF IsFrames
    <3> QED BY <1>5, <3>1, <3>2
  <2> QED BY <2>1, <2>2
<1>9. n + 1 > 0 /\ (n + 1) - 1 = n
  OBVIOUS
<1>10. IsFrames(gs, b, ls)
  BY ONLY <1>5, <1>6, <1>7, <1>8, <1>9, k = "struct" => b > 0 DEF IsFrames
<1> QED BY <1>4, <1>10

LEMMA FramesFront ==
  ASSUME NEW fs, NEW a, NEW ks, IsFrames(fs, a, ks), Len(ks) > 0
  PROVE  IsFrames(Front(fs), fs[Len(fs)].align, Front(ks))
<1>1. PICK S : fs \in Seq(S)
  BY DEF IsFrames
<1>2. Len(fs) = Len(ks) /\ ks \in Seq(Kinds) /\ Len(ks) \in Nat
  BY DEF IsFrames
<1>3. PICK n \in Nat : n + 1 = Len(ks)
  <2>1. Len(ks) - 1 \in Nat /\ (Len(ks) - 1) + 1 = Len(ks)
    BY <1>2
  <2> QED BY <2>1
<1>4. PICK gs, ls : gs = Front(fs) /\ ls = Front(ks)
  OBVIOUS
<1>5. /\ gs \in Seq(S) /\ Len(gs) = n /\ \A l \in 1 .. n : gs[l] = fs[l]
  <2>1. gs = SubSeq(fs, 1, n)
    BY <1>2, <1>3, <1>4 DEF Front
  <2>2. n \in 0 .. Len(fs)
    BY <1>2, <1>3
  <2> QED BY <1>1, <2>1, <2>2, FirstType
<1>6. /\ ls \in Seq(Kinds) /\ Len(ls) = n /\ \A l \in 1 .. n : ls[l] = ks[l]
  <2>1. ls = SubSeq(ks, 1, n)
    BY <1>2, <1>3, <1>4 DEF Front
  <2>2. n \in 0 .. Len(ks)
    BY <1>2, <1>3
  <2> QED BY <1>2, <2>1, <2>2, FirstType
<1>7. ASSUME NEW l \in 1 .. n PROVE IsFrame(gs[l], ls[l])
  <2>1. l \in 1 .. Len(ks)
    BY <1>3
  <2> QED BY <1>5, <1>6, <2>1 DEF IsFrames
<1>8. ASSUME NEW l \in 1 .. n - 1, ls[l] = "struct" PROVE gs[l + 1].align > 0
  <2>1. l \in 1 .. n /\ l \in 1 .. Len(ks) - 1 /\ l + 1 \in 1 .. n
    BY <1>3
  <2>2. fs[l + 1].align > 0
    BY <1>6, <1>8, <2>1 DEF IsFrames
  <2> QED BY <1>5, <2>1, <2>2
<1>9. n > 0 /\ ls[n] = "struct" => fs[n + 1].align > 0
  <2> SUFFICES ASSUME n > 0, ls[n] = "struct" PROVE fs[n + 1].align > 0
    OBVIOUS
  <2>1. n \in 1 .. n /\ n \in 1 .. Len(ks) - 1
    BY <1>3
  <2>2. ks[n] = "struct"
    BY <1>6, <2>1
  <2> QED BY <2>1, <2>2 DEF IsFrames
<1>10. IsFrames(gs, fs[n + 1].align, ls)
  BY ONLY <1>5, <1>6, <1>7, <1>8, <1>9 DEF IsFrames
<1> QED BY <1>2, <1>3, <1>4, <1>10

-----------------------------------------------------------------------------
(* The stack of bytes *)

\* D is C after a step on the stack of bytes.
Stacked(D, C, ks) ==
    /\ Standing(D, ks) /\ SameOut(D, C) /\ D.align = C.align
    /\ D.frame[Len(ks)].align = C.frame[Len(ks)].align

LEMMA KeptStacked ==
  ASSUME NEW C, NEW D, NEW ks, Standing(C, ks), Kept(D, C)
  PROVE  Stacked(D, C, ks)
  BY KeptStanding DEF Kept, Stacked

LEMMA StackedTwice ==
  ASSUME NEW B0, NEW C, NEW D, NEW ks, Stacked(C, B0, ks), Stacked(D, C, ks)
  PROVE  Stacked(D, B0, ks)
  BY DEF Stacked, SameOut

LEMMA LimitTypes == data_limit \in Int /\ table_limit \in Int
<1>1. UOFFSET_MAX \in Int /\ VOFFSET_MAX \in Int
  BY RadixAssumption DEF UOFFSET_MAX, VOFFSET_MAX
<1> QED BY <1>1 DEF data_limit, table_limit, field_size

LEMMA RefreshStands ==
  ASSUME NEW C, NEW ks, Standing(C, ks), Len(ks) > 0, NEW limit \in Int
  PROVE  LET D == refresh_ds(C, limit)
         IN  Stacked(D, C, ks) /\ D.ds_offset = C.ds_offset
<1>1. /\ IsBuilder(C) /\ IsFrames(C.frame, C.align, ks) /\ Len(ks) \in Nat
      /\ Len(C.frame) = Len(ks)
  BY DEF Standing, IsFrames
<1>2. PICK n \in 1 .. Len(ks) : n = Len(C.frame) /\ n = Len(ks)
  BY <1>1
<1>3. PICK fs : fs = C.frame
  OBVIOUS
<1>4. PICK g : g = [fs[n] EXCEPT !.type_limit = limit]
  OBVIOUS
<1>5. IsFrame(fs[n], ks[n])
  BY <1>1, <1>3 DEF IsFrames
<1>6. IsFrame(g, ks[n]) /\ g.align = fs[n].align
  <2>1. /\ DOMAIN g = FrameFields /\ g.align = fs[n].align /\ g.c = fs[n].c
        /\ g.ds_offset = fs[n].ds_offset /\ g.type_limit = limit
    BY ONLY <1>4, <1>5 DEF IsFrame, FrameFields
  <2> QED BY <1>5, <2>1 DEF IsFrame
<1>7. PICK gs : gs = [fs EXCEPT ![n] = g]
  OBVIOUS
<1>8. IsFrames(gs, C.align, ks)
  BY <1>1, <1>3, <1>6, <1>7, FrameReplaced
<1>9. gs[n] = g
  <2>1. n \in DOMAIN fs
    BY <1>1, <1>2, <1>3 DEF IsFrames
  <2> QED BY <1>7, <2>1
<1>10. PICK x, y : x = C.ds_first /\ y = Lesser(Len(C.ds_mem) - C.ds_first, limit)
  OBVIOUS
<1>11. PICK D : D = [C EXCEPT !.ds = x, !.ds_limit = y, !.frame = gs]
  OBVIOUS
<1>12. D = refresh_ds(C, limit)
  BY <1>2, <1>3, <1>4, <1>7, <1>10, <1>11 DEF refresh_ds, level
<1>13. /\ DOMAIN D = BuilderFields /\ D.frame = gs /\ D.align = C.align
       /\ D.min_align = C.min_align /\ D.block_align = C.block_align
       /\ D.ds_offset = C.ds_offset /\ D.id_end = C.id_end /\ D.identifier = C.identifier
       /\ D.emit_start = C.emit_start /\ D.emit_end = C.emit_end /\ D.E = C.E
       /\ D.sent = C.sent
  <2>1. DOMAIN C = BuilderFields
    BY <1>1 DEF IsBuilder
  <2> QED BY ONLY <1>11, <2>1 DEF BuilderFields
<1>14. IsBuilder(D) /\ SameOut(D, C)
  BY ONLY <1>1, <1>13 DEF IsBuilder, SameOut
<1>15. Stacked(D, C, ks)
  BY ONLY <1>2, <1>3, <1>6, <1>8, <1>9, <1>13, <1>14 DEF Stacked, Standing
<1> QED BY <1>12, <1>13, <1>15

\* A larger ds_mem changes nothing else.
LEMMA MoreMemory ==
  ASSUME NEW C, IsBuilder(C), NEW mem, NEW D, D = [C EXCEPT !.ds_mem = mem]
  PROVE  Kept(D, C) /\ D.ds_offset = C.ds_offset
<1>1. D.min_align = C.min_align /\ D.ds_offset = C.ds_offset /\ D.id_end = C.id_end
  BY ONLY D = [C EXCEPT !.ds_mem = mem], IsBuilder(C) DEF IsBuilder, BuilderFields
<1>2. SameEssentials(D, C)
  BY ONLY D = [C EXCEPT !.ds_mem = mem], IsBuilder(C)
     DEF IsBuilder, BuilderFields, SameEssentials, Essential
<1>3. C.min_align \in Nat /\ C.ds_offset \in Int /\ C.id_end \in Int
  BY DEF IsBuilder
<1> QED BY <1>1, <1>2, <1>3, KeptByFields

LEMMA ReserveStands ==
  ASSUME NEW C, NEW ks, Standing(C, ks), Len(ks) > 0, NEW need, NEW limit \in Int
  PROVE  LET D == reserve_ds(C, need, limit)
         IN  Stacked(D, C, ks) /\ D.ds_offset = C.ds_offset
<1>1. PICK mem : mem = default_alloc(C.ds_mem, C.ds_first + need)
  OBVIOUS
<1>2. PICK F : F = [C EXCEPT !.ds_mem = mem]
  OBVIOUS
<1>3. reserve_ds(C, need, limit) = refresh_ds(F, limit)
  BY <1>1, <1>2 DEF reserve_ds
<1>4. Kept(F, C) /\ F.ds_offset = C.ds_offset
  BY <1>2, MoreMemory DEF Standing
<1>5. Stacked(F, C, ks) /\ Standing(F, ks)
  BY <1>4, KeptStacked, KeptStanding
<1> QED BY <1>3, <1>4, <1>5, RefreshStands, StackedTwice

LEMMA SetOffset ==
  ASSUME NEW C, NEW ks, Standing(C, ks), NEW offset \in Int, NEW D,
         D = [C EXCEPT !.ds_offset = offset]
  PROVE  Stacked(D, C, ks) /\ D.ds_offset = offset
<1>1. IsBuilder(C)
  BY DEF Standing
<1>2. D.min_align = C.min_align /\ D.ds_offset = offset /\ D.id_end = C.id_end
  BY ONLY <1>1, D = [C EXCEPT !.ds_offset = offset] DEF IsBuilder, BuilderFields
<1>3. SameEssentials(D, C)
  BY ONLY <1>1, D = [C EXCEPT !.ds_offset = offset]
     DEF IsBuilder, BuilderFields, SameEssentials, Essential
<1>4. C.min_align \in Nat /\ C.id_end \in Int
  BY <1>1 DEF IsBuilder
<1> QED BY <1>1, <1>2, <1>3, <1>4, KeptByFields, KeptStacked

LEMMA PushStands ==
  ASSUME NEW C, NEW ks, Standing(C, ks), Len(ks) > 0, NEW size \in Int
  PROVE  Stacked(push_ds(C, size), C, ks)
<1>1. PICK offset \in Int : offset = C.ds_offset + size
  BY DEF Standing, IsBuilder
<1>2. PICK F : F = [C EXCEPT !.ds_offset = offset]
  OBVIOUS
<1>3. Stacked(F, C, ks) /\ Standing(F, ks)
  BY <1>2, SetOffset DEF Stacked
<1>4. push_ds(C, size) = IF offset >= C.ds_limit THEN reserve_ds(F, offset + 1, data_limit) ELSE F
  BY <1>1, <1>2 DEF push_ds
<1>5. PICK need : need = offset + 1
  OBVIOUS
<1>6. Stacked(reserve_ds(F, need, data_limit), C, ks)
  BY <1>3, ReserveStands, LimitTypes, StackedTwice
<1> QED BY <1>3, <1>4, <1>5, <1>6

LEMMA PokeStands ==
  ASSUME NEW C, NEW ks, Standing(C, ks), NEW at, NEW data
  PROVE  Stacked(Poke(C, at, data), C, ks)
  BY PokeKeeps, KeptStacked DEF Standing

LEMMA PushCopyStands ==
  ASSUME NEW C, NEW ks, Standing(C, ks), Len(ks) > 0, NEW data, Len(data) \in Nat
  PROVE  Stacked(push_ds_copy(C, data), C, ks)
<1>1. PICK size \in Int : size = Len(data)
  OBVIOUS
<1>2. PICK F : F = push_ds(C, size)
  OBVIOUS
<1>3. Stacked(F, C, ks) /\ Standing(F, ks)
  BY <1>2, PushStands DEF Stacked
<1>4. PICK at : at = C.ds_offset
  OBVIOUS
<1>5. push_ds_copy(C, data) = Poke(F, at, data)
  BY <1>1, <1>2, <1>4 DEF push_ds_copy
<1> QED BY <1>3, <1>5, PokeStands, StackedTwice

LEMMA UnpushStands ==
  ASSUME NEW C, NEW ks, Standing(C, ks), NEW size \in Int
  PROVE  Stacked(unpush_ds(C, size), C, ks)
<1>1. PICK offset \in Int : offset = C.ds_offset - size
  BY DEF Standing, IsBuilder
<1>2. PICK F : F = [C EXCEPT !.ds_offset = offset]
  OBVIOUS
<1>3. Stacked(F, C, ks) /\ Standing(F, ks)
  BY <1>2, SetOffset DEF Stacked
<1>4. unpush_ds(C, size) = Poke(F, offset, _pad(size))
  BY <1>1, <1>2 DEF unpush_ds
<1> QED BY <1>3, <1>4, PokeStands, StackedTwice

LEMMA AlignupType ==
  ASSUME NEW x \in Int, NEW align \in Nat \ {0}
  PROVE  alignup(x, align) \in Int
<1>1. PICK q \in Int : q = (x + align - 1) \div align
  OBVIOUS
<1>2. q * align \in Int
  OBVIOUS
<1> QED BY <1>1, <1>2 DEF alignup

LEMMA NoteFieldStands ==
  ASSUME NEW C, NEW ks, Standing(C, ks), NEW id \in Int, NEW offset
  PROVE  Stacked(NoteField(C, id, offset), C, ks)
<1>1. DOMAIN C = BuilderFields /\ C.id_end \in Int /\ C.min_align \in Nat /\ C.ds_offset \in Int
  BY DEF Standing, IsBuilder
<1>2. PICK m \in Int : m = Greater(C.id_end, id + 1)
  BY <1>1 DEF Greater
<1>3. PICK v : v = [C.vs_mem EXCEPT ![C.vs + id] = voffset(offset + field_size)]
  OBVIOUS
<1>4. PICK D : D = [C EXCEPT !.vs_mem = v, !.id_end = m]
  OBVIOUS
<1>5. D = NoteField(C, id, offset)
  BY <1>2, <1>3, <1>4 DEF NoteField
<1>6. D.min_align = C.min_align /\ D.ds_offset = C.ds_offset /\ D.id_end = m
  BY ONLY <1>1, <1>4 DEF BuilderFields
<1>7. SameEssentials(D, C)
  BY ONLY <1>1, <1>4 DEF BuilderFields, SameEssentials, Essential
<1>8. Kept(D, C)
  BY <1>1, <1>6, <1>7, KeptByFields DEF Standing
<1> QED BY <1>5, <1>8, KeptStacked

LEMMA PushFieldStands ==
  ASSUME NEW C, NEW ks, Standing(C, ks), Len(ks) > 0, NEW size \in Nat,
         NEW align \in Nat \ {0}, NEW id \in Int
  PROVE  Stacked(push_ds_field(C, size, align, id), C, ks)
<1>1. PICK offset \in Int : offset = alignup(C.ds_offset, align)
  BY AlignupType DEF Standing, IsBuilder
<1>2. PICK end \in Int : end = offset + size
  OBVIOUS
<1>3. PICK need : need = end + 1
  OBVIOUS
<1>4. PICK F : F = IF end >= C.ds_limit THEN reserve_ds(C, need, table_limit) ELSE C
  OBVIOUS
<1>5. Stacked(F, C, ks) /\ Standing(F, ks)
  <2>1. Stacked(reserve_ds(C, need, table_limit), C, ks)
    BY ReserveStands, LimitTypes
  <2>2. Stacked(C, C, ks)
    BY DEF Stacked, SameOut
  <2> QED BY <1>4, <2>1, <2>2 DEF Stacked
<1>6. PICK G : G = [F EXCEPT !.ds_offset = end]
  OBVIOUS
<1>7. Stacked(G, F, ks) /\ Standing(G, ks)
  BY <1>5, <1>6, SetOffset DEF Stacked
<1>8. push_ds_field(C, size, align, id) = NoteField(G, id, offset)
  BY <1>1, <1>2, <1>3, <1>4, <1>6 DEF push_ds_field
<1>9. Stacked(NoteField(G, id, offset), G, ks)
  BY <1>7, NoteFieldStands
<1> QED BY <1>5, <1>7, <1>8, <1>9, StackedTwice

LEMMA PushOffsetFieldStands ==
  ASSUME NEW C, NEW ks, Standing(C, ks), Len(ks) > 0, NEW id \in Int
  PROVE  Stacked(push_ds_offset_field(C, id), C, ks)
<1>1. PICK offset \in Int : offset = alignup(C.ds_offset, field_size)
  <2>1. field_size \in Nat \ {0}
    BY DEF field_size
  <2> QED BY <2>1, AlignupType DEF Standing, IsBuilder
<1>2. PICK end \in Int : end = offset + field_size
  BY DEF field_size
<1>4. PICK F : F = IF end > C.ds_limit THEN reserve_ds(C, end, table_limit) ELSE C
  OBVIOUS
<1>5. Stacked(F, C, ks) /\ Standing(F, ks)
  <2>1. Stacked(reserve_ds(C, end, table_limit), C, ks)
    BY ReserveStands, LimitTypes
  <2>2. Stacked(C, C, ks)
    BY DEF Stacked, SameOut
  <2> QED BY <1>4, <2>1, <2>2 DEF Stacked
<1>6. PICK G : G = NoteField(F, id, offset)
  OBVIOUS
<1>7. Stacked(G, F, ks) /\ Standing(G, ks)
  BY <1>5, <1>6, NoteFieldStands DEF Stacked
<1>8. PICK x, y : x = [G.pl_mem EXCEPT ![C.pl] = offset] /\ y = G.pl + 1
  OBVIOUS
<1>9. PICK D : D = [G EXCEPT !.ds_offset = end, !.pl_mem = x, !.pl = y]
  OBVIOUS
<1>10. D = push_ds_offset_field(C, id)
  BY <1>1, <1>2, <1>4, <1>6, <1>8, <1>9 DEF push_ds_offset_field
<1>11. DOMAIN G = BuilderFields /\ G.id_end \in Int /\ G.min_align \in Nat
  BY <1>7 DEF Standing, IsBuilder
<1>12. D.min_align = G.min_align /\ D.ds_offset = end /\ D.id_end = G.id_end
  BY ONLY <1>9, <1>11 DEF BuilderFields
<1>13. SameEssentials(D, G)
  BY ONLY <1>9, <1>11 DEF BuilderFields, SameEssentials, Essential
<1>14. Kept(D, G)
  BY <1>7, <1>11, <1>12, <1>13, KeptByFields DEF Standing
<1>15. Stacked(D, G, ks)
  BY <1>7, <1>14, KeptStacked
<1> QED BY <1>5, <1>7, <1>10, <1>15, StackedTwice

-----------------------------------------------------------------------------
(* Entering and leaving a frame *)

LEMMA EnterFrameStands ==
  ASSUME NEW C, NEW ks, Standing(C, ks), NEW align \in Nat, NEW type, NEW c,
         NEW k \in Kinds, IsContainer(c, k), k = "struct" => align > 0
  PROVE  LET D == enter_frame(C, align, type, c)
         IN  Standing(D, Append(ks, k)) /\ SameOut(D, C) /\ D.align = align
<1>1. /\ DOMAIN C = BuilderFields /\ C.align \in Nat /\ C.ds_offset \in Int /\ IsBuilder(C)
      /\ IsFrames(C.frame, C.align, ks)
  BY DEF Standing, IsBuilder
<1>2. PICK f : f = [type |-> type, align |-> C.align, ds_first |-> C.ds_first,
                    ds_offset |-> C.ds_offset, type_limit |-> data_limit, c |-> c]
  OBVIOUS
<1>3. IsFrame(f, k) /\ f.align = C.align
  <2>1. /\ DOMAIN f = FrameFields /\ f.align = C.align /\ f.ds_offset = C.ds_offset
        /\ f.c = c /\ f.type_limit = data_limit
    BY ONLY <1>2 DEF FrameFields
  <2> QED BY <1>1, <2>1, LimitTypes DEF IsFrame
<1>4. PICK gs, x : gs = Append(C.frame, f) /\ x = alignup(C.ds_first + C.ds_offset, 8)
  OBVIOUS
<1>5. PICK D : D = [C EXCEPT !.frame = gs, !.align = align, !.ds_first = x, !.ds_offset = 0]
  OBVIOUS
<1>6. D = enter_frame(C, align, type, c)
  BY <1>2, <1>4, <1>5 DEF enter_frame
<1>7. IsFrames(gs, align, Append(ks, k))
  BY <1>1, <1>3, <1>4, FramesAppend
<1>8. /\ DOMAIN D = BuilderFields /\ D.frame = gs /\ D.align = align
      /\ D.min_align = C.min_align /\ D.block_align = C.block_align
      /\ D.ds_offset = 0 /\ D.id_end = C.id_end /\ D.identifier = C.identifier
      /\ D.emit_start = C.emit_start /\ D.emit_end = C.emit_end /\ D.E = C.E
      /\ D.sent = C.sent
  BY ONLY <1>1, <1>5 DEF BuilderFields
<1>9. IsBuilder(D) /\ SameOut(D, C)
  BY ONLY <1>1, <1>8, align \in Nat DEF IsBuilder, SameOut
<1> QED BY <1>6, <1>7, <1>8, <1>9 DEF Standing

LEMMA ExitFrameStands ==
  ASSUME NEW C, NEW ks, Standing(C, ks), Len(ks) > 0
  PROVE  Standing(exit_frame(C), Front(ks)) /\ SameOut(exit_frame(C), C)
<1>1. /\ IsBuilder(C) /\ IsFrames(C.frame, C.align, ks) /\ Len(ks) \in Nat
      /\ Len(C.frame) = Len(ks)
  BY DEF Standing, IsFrames
<1>2. PICK n \in 1 .. Len(ks) : n = Len(C.frame) /\ n = Len(ks)
  BY <1>1
<1>3. PICK f : f = C.frame[n]
  OBVIOUS
<1>4. f.align \in Nat /\ f.ds_offset \in Int /\ f.type_limit \in Int
  BY <1>1, <1>3 DEF IsFrames, IsFrame
<1>5. PICK P : P = Poke(C, 0, _pad(C.ds_offset))
  OBVIOUS
<1>6. Stacked(P, C, ks) /\ Standing(P, ks) /\ P.frame = C.frame
  BY <1>1, <1>5, PokeKeeps, PokeStands DEF Stacked, Kept
<1>7. PICK x, y : x = f.ds_offset /\ y = f.ds_first
  OBVIOUS
<1>8. PICK Q : Q = [P EXCEPT !.ds_offset = x, !.ds_first = y]
  OBVIOUS
<1>9. Kept(Q, P)
  <2>1. /\ DOMAIN P = BuilderFields /\ P.min_align \in Nat /\ P.id_end \in Int /\ x \in Int
    BY <1>4, <1>6, <1>7 DEF Standing, IsBuilder
  <2>2. Q.min_align = P.min_align /\ Q.ds_offset = x /\ Q.id_end = P.id_end
    BY ONLY <1>8, <2>1 DEF BuilderFields
  <2>3. SameEssentials(Q, P)
    BY ONLY <1>8, <2>1 DEF BuilderFields, SameEssentials, Essential
  <2> QED BY <1>6, <2>1, <2>2, <2>3, KeptByFields DEF Standing
<1>10. Stacked(Q, P, ks) /\ Standing(Q, ks)
  BY <1>6, <1>9, KeptStacked, KeptStanding
<1>11. PICK R : R = refresh_ds(Q, f.type_limit)
  OBVIOUS
<1>12. Stacked(R, Q, ks) /\ Standing(R, ks)
  <2>1. PICK limit \in Int : limit = f.type_limit
    BY <1>4
  <2>2. R = refresh_ds(Q, limit)
    BY <1>11, <2>1
  <2>3. Stacked(R, Q, ks)
    BY ONLY <1>10, <2>2, RefreshStands, limit \in Int, Len(ks) > 0
  <2> QED BY <2>3 DEF Stacked
<1>13. PICK M : M = set_min_align(R, C.align)
  OBVIOUS
<1>14. Kept(M, R) /\ Stacked(M, R, ks) /\ Standing(M, ks)
  <2>1. IsBuilder(R) /\ C.align \in Nat
    BY <1>1, <1>12 DEF Standing, IsBuilder
  <2>2. Kept(M, R)
    BY <1>13, <2>1, SetMinAlignKeeps
  <2> QED BY <1>12, <2>2, KeptStacked, KeptStanding
<1>15. Stacked(M, C, ks)
  BY <1>6, <1>10, <1>12, <1>14, StackedTwice
<1>16. M.frame[n].align = f.align /\ Len(M.frame) = n
  BY <1>2, <1>3, <1>15 DEF Stacked, Standing, IsFrames
<1>17. IsFrames(Front(M.frame), f.align, Front(ks))
  <2>1. IsFrames(M.frame, M.align, ks)
    BY <1>14 DEF Standing
  <2>2. IsFrames(Front(M.frame), M.frame[Len(M.frame)].align, Front(ks))
    BY <2>1, FramesFront
  <2> QED BY <1>16, <2>2
<1>18. PICK a, gs : a = f.align /\ gs = Front(M.frame)
  OBVIOUS
<1>19. PICK D : D = [M EXCEPT !.align = a, !.frame = gs]
  OBVIOUS
<1>20. D = exit_frame(C)
  BY <1>2, <1>3, <1>5, <1>7, <1>8, <1>11, <1>13, <1>18, <1>19 DEF exit_frame, frame, level
<1>21. DOMAIN M = BuilderFields /\ IsBuilder(M)
  BY <1>14 DEF Standing, IsBuilder
<1>22. /\ DOMAIN D = BuilderFields /\ D.frame = gs /\ D.align = a
       /\ D.min_align = M.min_align /\ D.block_align = M.block_align
       /\ D.ds_offset = M.ds_offset /\ D.id_end = M.id_end /\ D.identifier = M.identifier
       /\ D.emit_start = M.emit_start /\ D.emit_end = M.emit_end /\ D.E = M.E
       /\ D.sent = M.sent
  BY ONLY <1>19, <1>21 DEF BuilderFields
<1>23. IsBuilder(D) /\ SameOut(D, M)
  BY ONLY <1>4, <1>18, <1>21, <1>22 DEF IsBuilder, SameOut
<1>24. SameOut(D, C)
  BY <1>15, <1>23 DEF Stacked, SameOut
<1>25. Standing(D, Front(ks))
  BY <1>17, <1>18, <1>22, <1>23 DEF Standing
<1> QED BY <1>20, <1>24, <1>25

-----------------------------------------------------------------------------
(* Objects that are started *)

\* D is C with an object of kind k started.
Begun(D, C, ks, k) == Standing(D, Append(ks, k)) /\ SameOut(D, C)

LEMMA LongerKinds ==
  ASSUME NEW ks \in Seq(Kinds), NEW k \in Kinds
  PROVE  Len(Append(ks, k)) > 0
<1>1. Len(Append(ks, k)) = Len(ks) + 1 /\ Len(ks) \in Nat
  BY AppendAt
<1> QED BY <1>1

LEMMA KindsOfStanding ==
  ASSUME NEW C, NEW ks, Standing(C, ks)
  PROVE  ks \in Seq(Kinds)
  BY DEF Standing, IsFrames

LEMMA BegunStacked ==
  ASSUME NEW B0, NEW C, NEW D, NEW ks, NEW k, Begun(C, B0, ks, k), Stacked(D, C, Append(ks, k))
  PROVE  Begun(D, B0, ks, k)
  BY DEF Begun, Stacked, SameOut

LEMMA RefreshBegun ==
  ASSUME NEW B0, NEW C, NEW ks \in Seq(Kinds), NEW k \in Kinds, Begun(C, B0, ks, k), NEW limit \in Int
  PROVE  Begun(refresh_ds(C, limit), B0, ks, k)
<1>1. PICK ls : ls = Append(ks, k)
  OBVIOUS
<1>2. Standing(C, ls) /\ Len(ls) > 0
  BY <1>1, LongerKinds DEF Begun
<1>3. Stacked(refresh_ds(C, limit), C, ls)
  BY <1>2, RefreshStands
<1> QED BY <1>1, <1>3, BegunStacked

LEMMA StartBufferBegins ==
  ASSUME NEW C, NEW ks, Standing(C, ks), NEW block_align \in Nat, NEW with_size
  PROVE  Begun(start_buffer(C, _pad(4), block_align, with_size), C, ks, "buffer")
<1>1. C.identifier = _pad(4) /\ C.min_align \in Nat
  BY DEF Standing, IsBuilder
<1>2. PICK c : c = [block_align |-> C.block_align, with_size |-> C.with_size,
                    mark |-> C.buffer_mark, nest_id |-> C.nest_id,
                    identifier |-> C.identifier]
  OBVIOUS
<1>3. IsContainer(c, "buffer") /\ "buffer" \in Kinds
  <2>1. c.identifier = _pad(4)
    BY <1>1, <1>2
  <2> QED BY <2>1 DEF IsContainer, Elements, Kinds
<1>4. PICK F : F = enter_frame(C, C.min_align, "buffer", c)
  OBVIOUS
<1>5. Standing(F, Append(ks, "buffer")) /\ SameOut(F, C)
  BY <1>1, <1>3, <1>4, EnterFrameStands
<1>6. PICK u, v, w, p : u = C.emit_start /\ v = C.nest_count /\ w = F.nest_count + 1 /\ p = _pad(4)
  OBVIOUS
<1>7. PICK D : D = [F EXCEPT !.min_align = 1, !.block_align = block_align,
                       !.with_size = with_size, !.buffer_mark = u, !.nest_id = v,
                       !.nest_count = w, !.identifier = p]
  OBVIOUS
<1>8. D = start_buffer(C, _pad(4), block_align, with_size)
  BY <1>2, <1>4, <1>6, <1>7 DEF start_buffer
<1>9. DOMAIN F = BuilderFields /\ IsBuilder(F) /\ IsFrames(F.frame, F.align, Append(ks, "buffer"))
  BY <1>5 DEF Standing, IsBuilder
<1>10. /\ DOMAIN D = BuilderFields /\ D.frame = F.frame /\ D.align = F.align
       /\ D.min_align = 1 /\ D.block_align = block_align
       /\ D.ds_offset = F.ds_offset /\ D.id_end = F.id_end /\ D.identifier = p
       /\ D.emit_start = F.emit_start /\ D.emit_end = F.emit_end /\ D.E = F.E
       /\ D.sent = F.sent
  BY ONLY <1>7, <1>9 DEF BuilderFields
<1>11. IsBuilder(D) /\ SameOut(D, F)
  BY ONLY <1>6, <1>9, <1>10, block_align \in Nat DEF IsBuilder, SameOut
<1> QED BY <1>5, <1>8, <1>9, <1>10, <1>11 DEF Begun, Standing, SameOut

LEMMA StartTableBegins ==
  ASSUME NEW C, NEW ks, Standing(C, ks)
  PROVE  Begun(start_table(C), C, ks, "table")
<1>1. C.id_end \in Int /\ ks \in Seq(Kinds) /\ "table" \in Kinds
  BY KindsOfStanding DEF Standing, IsBuilder, Kinds
<1>2. PICK c : c = [vs_end |-> C.vs, pl_end |-> C.pl, id_end |-> C.id_end]
  OBVIOUS
<1>3. IsContainer(c, "table")
  <2>1. c.id_end \in Int
    BY <1>1, <1>2
  <2> QED BY <2>1 DEF IsContainer, Elements
<1>4. PICK F : F = enter_frame(C, field_size, "table", c)
  OBVIOUS
<1>5. Begun(F, C, ks, "table")
  <2>1. field_size \in Nat
    BY DEF field_size
  <2> QED BY <1>1, <1>3, <1>4, <2>1, EnterFrameStands DEF Begun
<1>6. PICK u, v : u = frame(F).c.vs_end + frame(F).c.id_end + 2 /\ v = frame(F).c.pl_end
  OBVIOUS
<1>7. PICK D : D = [F EXCEPT !.vs = u, !.pl = v, !.id_end = 0]
  OBVIOUS
<1>8. start_table(C) = refresh_ds(D, table_limit)
  <2>1. PICK R : R = [F EXCEPT !.vs = u, !.pl = v]
    OBVIOUS
  <2>2. R = flatcc_builder_reserve_table(F)
    BY <1>6, <2>1 DEF flatcc_builder_reserve_table
  <2>3. D = [R EXCEPT !.id_end = 0]
    BY <1>7, <2>1
  <2> QED BY <1>2, <1>4, <2>2, <2>3 DEF start_table
<1>9. DOMAIN F = BuilderFields /\ IsBuilder(F) /\ F.min_align \in Nat /\ F.ds_offset \in Int
  BY <1>5 DEF Begun, Standing, IsBuilder
<1>10. D.min_align = F.min_align /\ D.ds_offset = F.ds_offset /\ D.id_end = 0
  BY ONLY <1>7, <1>9 DEF BuilderFields
<1>11. SameEssentials(D, F)
  BY ONLY <1>7, <1>9 DEF BuilderFields, SameEssentials, Essential
<1>12. Kept(D, F)
  BY <1>9, <1>10, <1>11, KeptByFields
<1>13. Begun(D, C, ks, "table")
  BY <1>5, <1>12, KeptStacked, BegunStacked DEF Begun
<1> QED BY <1>1, <1>8, <1>13, LimitTypes, RefreshBegun

LEMMA StartElementsBegins ==
  ASSUME NEW C, NEW ks, Standing(C, ks), NEW type, NEW elem_size \in Int, NEW align \in Nat,
         NEW k \in Elements
  PROVE  Begun(start_elements(C, type, elem_size, align), C, ks, k)
<1>1. ks \in Seq(Kinds) /\ k \in Kinds
  BY KindsOfStanding DEF Elements, Kinds
<1>2. PICK c : c = [elem_size |-> elem_size, count |-> 0]
  OBVIOUS
<1>3. IsContainer(c, k)
  <2>1. DOMAIN c = {"elem_size", "count"} /\ c.elem_size \in Int /\ c.count \in Int
    BY <1>2
  <2>2. k # "buffer" /\ k # "table"
    BY DEF Elements
  <2> QED BY <2>1, <2>2 DEF IsContainer
<1>4. PICK F : F = enter_frame(C, align, type, c)
  OBVIOUS
<1>5. Begun(F, C, ks, k)
  <2>1. k # "struct"
    BY DEF Elements
  <2> QED BY <1>1, <1>3, <1>4, <2>1, EnterFrameStands DEF Begun
<1>6. start_elements(C, type, elem_size, align) = refresh_ds(F, data_limit)
  BY <1>2, <1>4 DEF start_elements
<1> QED BY <1>1, <1>5, <1>6, LimitTypes, RefreshBegun

LEMMA StartStructBegins ==
  ASSUME NEW C, NEW ks, Standing(C, ks), NEW size \in Int, NEW align \in Nat \ {0}
  PROVE  Begun(start_struct(C, size, align), C, ks, "struct")
<1>1. ks \in Seq(Kinds) /\ "struct" \in Kinds /\ align > 0 /\ align \in Nat
  BY KindsOfStanding DEF Kinds
<1>2. IsContainer(<<>>, "struct")
  BY DEF IsContainer, Elements
<1>3. PICK F : F = enter_frame(C, align, "struct", <<>>)
  OBVIOUS
<1>4. Begun(F, C, ks, "struct")
  BY <1>1, <1>2, <1>3, EnterFrameStands DEF Begun
<1>5. PICK G : G = refresh_ds(F, data_limit)
  OBVIOUS
<1>6. Begun(G, C, ks, "struct")
  BY <1>1, <1>4, <1>5, LimitTypes, RefreshBegun
<1>7. start_struct(C, size, align) = push_ds(G, size)
  BY <1>3, <1>5 DEF start_struct
<1>8. PICK ls : ls = Append(ks, "struct")
  OBVIOUS
<1>9. Standing(G, ls) /\ Len(ls) > 0
  BY <1>1, <1>6, <1>8, LongerKinds DEF Begun
<1>10. Stacked(push_ds(G, size), G, ls)
  BY <1>9, PushStands
<1> QED BY <1>6, <1>7, <1>8, <1>10, BegunStacked

-----------------------------------------------------------------------------
(* Objects that are filled *)

LEMMA CountAddStands ==
  ASSUME NEW C, NEW ks, Standing(C, ks), Len(ks) > 0, ks[Len(ks)] \in Elements, NEW count \in Int
  PROVE  Stacked(vector_count_add(C, count), C, ks)
<1>1. /\ IsBuilder(C) /\ IsFrames(C.frame, C.align, ks) /\ Len(ks) \in Nat
      /\ Len(C.frame) = Len(ks)
  BY DEF Standing, IsFrames
<1>2. PICK n \in 1 .. Len(ks) : n = Len(C.frame) /\ n = Len(ks)
  BY <1>1
<1>3. PICK fs : fs = C.frame
  OBVIOUS
<1>4. IsFrame(fs[n], ks[n]) /\ ks[n] \in Elements
  BY <1>1, <1>2, <1>3 DEF IsFrames
<1>5. PICK c : c = fs[n].c
  OBVIOUS
<1>6. DOMAIN c = {"elem_size", "count"} /\ c.elem_size \in Int /\ c.count \in Int
  BY <1>4, <1>5 DEF IsFrame, IsContainer
<1>7. PICK total \in Int : total = c.count + count
  BY <1>6
<1>8. PICK d : d = [c EXCEPT !.count = total]
  OBVIOUS
<1>9. IsContainer(d, ks[n])
  <2>1. DOMAIN d = {"elem_size", "count"} /\ d.elem_size = c.elem_size /\ d.count = total
    BY ONLY <1>6, <1>8
  <2>2. ks[n] # "buffer" /\ ks[n] # "table"
    BY <1>4 DEF Elements
  <2> QED BY <1>6, <2>1, <2>2 DEF IsContainer
<1>10. PICK g : g = [fs[n] EXCEPT !.c = d]
  OBVIOUS
<1>11. IsFrame(g, ks[n]) /\ g.align = fs[n].align
  <2>1. /\ DOMAIN g = FrameFields /\ g.align = fs[n].align /\ g.c = d
        /\ g.ds_offset = fs[n].ds_offset /\ g.type_limit = fs[n].type_limit
    BY ONLY <1>4, <1>10 DEF IsFrame, FrameFields
  <2> QED BY <1>4, <1>9, <2>1 DEF IsFrame
<1>12. PICK gs : gs = [fs EXCEPT ![n] = g]
  OBVIOUS
<1>13. IsFrames(gs, C.align, ks)
  BY <1>1, <1>3, <1>11, <1>12, FrameReplaced
<1>14. gs[n] = g
  <2>1. n \in DOMAIN fs
    BY <1>1, <1>2, <1>3 DEF IsFrames
  <2> QED BY <1>12, <2>1
<1>15. PICK D : D = [C EXCEPT !.frame = gs]
  OBVIOUS
<1>16. D = vector_count_add(C, count)
  BY <1>2, <1>3, <1>5, <1>7, <1>8, <1>10, <1>12, <1>15 DEF vector_count_add, level
<1>17. DOMAIN C = BuilderFields
  BY <1>1 DEF IsBuilder
<1>18. /\ DOMAIN D = BuilderFields /\ D.frame = gs /\ D.align = C.align
       /\ D.min_align = C.min_align /\ D.block_align = C.block_align
       /\ D.ds_offset = C.ds_offset /\ D.id_end = C.id_end /\ D.identifier = C.identifier
       /\ D.emit_start = C.emit_start /\ D.emit_end = C.emit_end /\ D.E = C.E
       /\ D.sent = C.sent
  BY ONLY <1>15, <1>17 DEF BuilderFields
<1>19. IsBuilder(D) /\ SameOut(D, C)
  BY ONLY <1>1, <1>18 DEF IsBuilder, SameOut
<1>20. Stacked(D, C, ks)
  BY ONLY <1>2, <1>3, <1>11, <1>13, <1>14, <1>18, <1>19 DEF Stacked, Standing
<1> QED BY <1>16, <1>20

LEMMA AppendVectorStands ==
  ASSUME NEW C, NEW ks, Standing(C, ks), Len(ks) > 0, ks[Len(ks)] \in Elements,
         NEW data, Len(data) \in Nat, NEW count \in Int
  PROVE  Stacked(append_vector(C, data, count), C, ks)
<1>1. PICK F : F = vector_count_add(C, count)
  OBVIOUS
<1>2. Stacked(F, C, ks) /\ Standing(F, ks)
  BY <1>1, CountAddStands DEF Stacked
<1>3. append_vector(C, data, count) = push_ds_copy(F, data)
  BY <1>1 DEF append_vector
<1>4. Stacked(push_ds_copy(F, data), F, ks)
  BY <1>2, PushCopyStands
<1> QED BY <1>2, <1>3, <1>4, StackedTwice

LEMMA TruncateVectorStands ==
  ASSUME NEW C, NEW ks, Standing(C, ks), Len(ks) > 0, ks[Len(ks)] \in Elements,
         NEW count \in Int
  PROVE  Stacked(truncate_vector(C, count), C, ks)
<1>1. PICK size \in Int : size = frame(C).c.elem_size * count
  <2>1. IsFrame(frame(C), ks[Len(ks)])
    <3>1. Len(ks) \in 1 .. Len(ks) /\ Len(C.frame) = Len(ks)
      BY DEF Standing, IsFrames
    <3> QED BY <3>1 DEF Standing, IsFrames, frame, level
  <2>2. PICK e \in Int : e = frame(C).c.elem_size
    BY <2>1 DEF IsFrame, IsContainer
  <2>3. e * count \in Int
    OBVIOUS
  <2> QED BY <2>2, <2>3
<1>2. PICK less \in Int : less = -count
  OBVIOUS
<1>3. PICK F : F = vector_count_add(C, less)
  OBVIOUS
<1>4. Stacked(F, C, ks) /\ Standing(F, ks)
  <2>1. Stacked(F, C, ks)
    BY ONLY <1>3, less \in Int, Standing(C, ks), Len(ks) > 0, ks[Len(ks)] \in Elements,
            CountAddStands
  <2> QED BY <2>1 DEF Stacked
<1>5. truncate_vector(C, count) = unpush_ds(F, size)
  BY <1>1, <1>2, <1>3 DEF truncate_vector
<1> QED BY <1>4, <1>5, UnpushStands, StackedTwice

\* D is C after a step that fills the innermost object.
Filled(D, C, ks) == Standing(D, ks) /\ SameOut(D, C)

LEMMA FilledTwice ==
  ASSUME NEW B0, NEW C, NEW D, NEW ks, Filled(C, B0, ks), Filled(D, C, ks)
  PROVE  Filled(D, B0, ks)
  BY DEF Filled, SameOut

LEMMA StackedFilled ==
  ASSUME NEW C, NEW D, NEW ks, Stacked(D, C, ks)
  PROVE  Filled(D, C, ks)
  BY DEF Stacked, Filled

LEMMA RaiseAlignStands ==
  ASSUME NEW C, NEW ks, Standing(C, ks), NEW align \in Nat
  PROVE  Filled([C EXCEPT !.align = Greater(@, align)], C, ks)
<1>1. /\ IsBuilder(C) /\ DOMAIN C = BuilderFields /\ C.align \in Nat
      /\ IsFrames(C.frame, C.align, ks)
  BY DEF Standing, IsBuilder
<1>2. PICK a \in Nat : a = Greater(C.align, align) /\ a >= C.align
  BY <1>1, GreaterType
<1>3. PICK D : D = [C EXCEPT !.align = a]
  OBVIOUS
<1>4. D = [C EXCEPT !.align = Greater(@, align)]
  BY <1>2, <1>3
<1>5. /\ DOMAIN D = BuilderFields /\ D.frame = C.frame /\ D.align = a
      /\ D.min_align = C.min_align /\ D.block_align = C.block_align
      /\ D.ds_offset = C.ds_offset /\ D.id_end = C.id_end /\ D.identifier = C.identifier
      /\ D.emit_start = C.emit_start /\ D.emit_end = C.emit_end /\ D.E = C.E
      /\ D.sent = C.sent
  BY ONLY <1>1, <1>3 DEF BuilderFields
<1>6. IsBuilder(D) /\ SameOut(D, C)
  BY ONLY <1>1, <1>2, <1>5 DEF IsBuilder, SameOut
<1>7. IsFrames(C.frame, a, ks)
  <2>1. Len(ks) > 0 /\ ks[Len(ks)] = "struct" => C.align > 0
    BY <1>1 DEF IsFrames
  <2>2. Len(ks) > 0 /\ ks[Len(ks)] = "struct" => a > 0
    BY <1>1, <1>2, <2>1
  <2> QED BY <1>1, <2>2 DEF IsFrames
<1> QED BY <1>4, <1>5, <1>6, <1>7 DEF Filled, Standing

LEMMA AddCopyStands ==
  ASSUME NEW C, NEW ks, Standing(C, ks), Len(ks) > 0, NEW id \in Int,
         NEW data, Len(data) \in Nat, NEW align \in Nat \ {0}
  PROVE  Filled(table_add_copy(C, id, data, align).B, C, ks)
<1>1. PICK F : F = [C EXCEPT !.align = Greater(@, align)]
  OBVIOUS
<1>2. Filled(F, C, ks) /\ Standing(F, ks)
  BY <1>1, RaiseAlignStands DEF Filled
<1>3. PICK size \in Nat : size = Len(data)
  OBVIOUS
<1>4. PICK G : G = push_ds_field(F, size, align, id)
  OBVIOUS
<1>5. Stacked(G, F, ks) /\ Standing(G, ks)
  <2>1. align \in Nat /\ align > 0
    OBVIOUS
  <2>2. Stacked(G, F, ks)
    BY ONLY <1>2, <1>4, <2>1, size \in Nat, Len(ks) > 0, id \in Int, align \in Nat \ {0},
            PushFieldStands
  <2> QED BY <2>2 DEF Stacked
<1>6. PICK H : H = Poke(G, G.ds_offset - Len(data), data)
  OBVIOUS
<1>7. Stacked(H, G, ks)
  BY <1>5, <1>6, PokeStands
<1>8. Filled(H, C, ks)
  BY <1>2, <1>5, <1>7, StackedFilled, FilledTwice
<1>9. table_add_copy(C, id, data, align) = IF IsSet(C, id) THEN Result(F, 0) ELSE Result(H, 1)
  BY <1>1, <1>3, <1>4, <1>6 DEF table_add_copy
<1> QED BY <1>2, <1>8, <1>9 DEF Result

LEMMA StandingFilled ==
  ASSUME NEW C, NEW ks, Standing(C, ks)
  PROVE  Filled(C, C, ks)
  BY DEF Filled, SameOut

LEMMA AddOffsetStands ==
  ASSUME NEW C, NEW ks, Standing(C, ks), Len(ks) > 0, NEW id \in Int, NEW ref
  PROVE  Filled(table_add_offset(C, id, ref).B, C, ks)
<1>1. PICK G : G = push_ds_offset_field(C, id)
  OBVIOUS
<1>2. Stacked(G, C, ks) /\ Standing(G, ks)
  BY <1>1, PushOffsetFieldStands DEF Stacked
<1>3. PICK H : H = Poke(G, G.ds_offset - field_size, write_uoffset(ref))
  OBVIOUS
<1>4. Stacked(H, G, ks)
  BY <1>2, <1>3, PokeStands
<1>5. Filled(H, C, ks) /\ Filled(C, C, ks)
  BY <1>2, <1>4, StackedFilled, FilledTwice, StandingFilled
<1>6. table_add_offset(C, id, ref) = IF IsSet(C, id) THEN Result(C, 0) ELSE Result(H, 1)
  BY <1>1, <1>3 DEF table_add_offset
<1> QED BY <1>5, <1>6 DEF Result

LEMMA AddUnionStands ==
  ASSUME NEW C, NEW ks, Standing(C, ks), Len(ks) > 0, NEW id \in Int, NEW type, NEW ref
  PROVE  Filled(table_add_union(C, id, type, ref).B, C, ks)
<1>1. PICK v : v = IF ref = 0 THEN Result(C, 1) ELSE table_add_offset(C, id, ref)
  OBVIOUS
<1>2. Filled(v.B, C, ks) /\ Standing(v.B, ks)
  BY <1>1, AddOffsetStands, StandingFilled DEF Result, Filled
<1>3. PICK before \in Int : before = id - 1
  OBVIOUS
<1>4. PICK data : data = <<type>>
  OBVIOUS
<1>5. PICK t : t = table_add_copy(v.B, before, data, utype_size)
  OBVIOUS
<1>6. Filled(t.B, v.B, ks)
  <2>1. utype_size \in Nat \ {0}
    BY DEF utype_size
  <2>2. PICK D : D = v.B
    OBVIOUS
  <2>3. Len(data) \in Nat
    BY ONLY <1>4
  <2> QED BY ONLY <1>2, <1>5, <2>1, <2>2, <2>3, before \in Int, Len(ks) > 0, AddCopyStands
<1>7. table_add_union(C, id, type, ref)
        = IF (type = 0 /\ ref # 0) \/ v.ref = 0 THEN Result(v.B, 0) ELSE t
  BY <1>1, <1>3, <1>4, <1>5 DEF table_add_union
<1> QED BY <1>2, <1>6, <1>7, FilledTwice DEF Result

LEMMA AddUnionVectorStands ==
  ASSUME NEW C, NEW ks, Standing(C, ks), Len(ks) > 0, NEW id \in Int, NEW type, NEW value
  PROVE  Filled(table_add_union_vector(C, id, type, value).B, C, ks)
<1>1. PICK before \in Int : before = id - 1
  OBVIOUS
<1>2. PICK t : t = table_add_offset(C, before, type)
  OBVIOUS
<1>3. Filled(t.B, C, ks) /\ Standing(t.B, ks)
  <2>1. Filled(t.B, C, ks)
    BY ONLY <1>2, before \in Int, Standing(C, ks), Len(ks) > 0, AddOffsetStands
  <2> QED BY <2>1 DEF Filled
<1>4. PICK w : w = table_add_offset(t.B, id, value)
  OBVIOUS
<1>5. Filled(w.B, C, ks)
  BY <1>3, <1>4, AddOffsetStands, FilledTwice
<1>6. table_add_union_vector(C, id, type, value)
        = IF type = 0 \/ value = 0 THEN Result(C, IF type = value THEN 1 ELSE 0)
          ELSE IF t.ref = 0 THEN t ELSE w
  BY <1>1, <1>2, <1>4 DEF table_add_union_vector
<1> QED BY <1>3, <1>5, <1>6, StandingFilled DEF Result

-----------------------------------------------------------------------------
(* Pieces of a buffer *)

\* A sequence of some values, and one of such sequences.
IsPiece(s) == \E V : s \in Seq(V)
IsPieces(iov) == \E V : iov \in Seq(Seq(V))

LEMMA CountedPiece ==
  ASSUME NEW f, NEW n \in Int, f = [i \in 1 .. n |-> f[i]]
  PROVE  IsPiece(f) /\ Len(f) \in Nat
<1>1. PICK m \in Nat : 1 .. n = 1 .. m
  <2>1. CASE n >= 0
    BY <2>1
  <2>2. CASE ~(n >= 0)
    <3>1. 1 .. n = 1 .. 0
      BY <2>2
    <3> QED BY <3>1
  <2> QED BY <2>1, <2>2
<1>2. PICK V : V = {f[i] : i \in 1 .. m}
  OBVIOUS
<1>3. f = [i \in 1 .. m |-> f[i]]
  BY ONLY <1>1, f = [i \in 1 .. n |-> f[i]]
<1>4. f \in [1 .. m -> V]
  BY ONLY <1>2, <1>3
<1>5. f \in Seq(V) /\ Len(f) = m
  BY ONLY <1>4, m \in Nat
<1> QED BY <1>5 DEF IsPiece

LEMMA PadPiece ==
  ASSUME NEW n \in Int
  PROVE  IsPiece(_pad(n))
<1>1. PICK f : f = _pad(n)
  OBVIOUS
<1>2. f = [i \in 1 .. n |-> f[i]]
  BY ONLY <1>1 DEF _pad
<1> QED BY <1>1, <1>2, CountedPiece

LEMMA UoffsetPiece ==
  ASSUME NEW x
  PROVE  IsPiece(write_uoffset(x)) /\ Len(write_uoffset(x)) \in Nat
<1>1. PICK f : f = write_uoffset(x)
  OBVIOUS
<1>2. field_size \in Int
  BY DEF field_size
<1>3. f = [i \in 1 .. field_size |-> f[i]]
  BY ONLY <1>1 DEF write_uoffset, write
<1> QED BY <1>1, <1>2, <1>3, CountedPiece

LEMMA EmptyPiece == IsPiece(<<>>)
  BY DEF IsPiece

LEMMA OnePiece ==
  ASSUME NEW s, IsPiece(s)
  PROVE  IsPieces(<<s>>)
<1>1. PICK V : s \in Seq(V)
  BY DEF IsPiece
<1>2. <<s>> \in Seq(Seq(V))
  BY <1>1
<1> QED BY <1>2 DEF IsPieces

LEMMA TwoPieces ==
  ASSUME NEW s, NEW t, IsPiece(s), IsPiece(t)
  PROVE  IsPieces(<<s, t>>)
<1>1. PICK V, W : s \in Seq(V) /\ t \in Seq(W)
  BY DEF IsPiece
<1>2. PICK U : U = V \cup W
  OBVIOUS
<1>3. s \in Seq(U) /\ t \in Seq(U)
  BY <1>1, <1>2
<1>4. <<s, t>> \in Seq(Seq(U))
  BY ONLY <1>3
<1> QED BY <1>4 DEF IsPieces

LEMMA ThreePieces ==
  ASSUME NEW s, NEW t, NEW u, IsPiece(s), IsPiece(t), IsPiece(u)
  PROVE  IsPieces(<<s, t, u>>)
<1>1. PICK V, W, X : s \in Seq(V) /\ t \in Seq(W) /\ u \in Seq(X)
  BY DEF IsPiece
<1>2. PICK U : U = V \cup (W \cup X)
  OBVIOUS
<1>3. s \in Seq(U) /\ t \in Seq(U) /\ u \in Seq(U)
  BY <1>1, <1>2
<1>4. <<s, t, u>> \in Seq(Seq(U))
  BY ONLY <1>3
<1> QED BY <1>4 DEF IsPieces

LEMMA FourPieces ==
  ASSUME NEW s, NEW t, NEW u, NEW v, IsPiece(s), IsPiece(t), IsPiece(u), IsPiece(v)
  PROVE  IsPieces(<<s, t, u, v>>)
<1>1. PICK V, W, X, Y : s \in Seq(V) /\ t \in Seq(W) /\ u \in Seq(X) /\ v \in Seq(Y)
  BY DEF IsPiece
<1>2. PICK U : U = (V \cup W) \cup (X \cup Y)
  OBVIOUS
<1>3. s \in Seq(U) /\ t \in Seq(U) /\ u \in Seq(U) /\ v \in Seq(U)
  BY <1>1, <1>2
<1>4. <<s, t, u, v>> \in Seq(Seq(U))
  BY ONLY <1>3
<1> QED BY <1>4 DEF IsPieces

LEMMA GatheredPiece ==
  ASSUME NEW iov, IsPieces(iov)
  PROVE  IsPiece(Gathered(iov)) /\ Len(Gathered(iov)) \in Nat
<1>1. PICK V : iov \in Seq(Seq(V))
  BY DEF IsPieces
<1>2. PICK data : data = Gathered(iov) /\ data = FlattenSeq(iov)
  BY DEF Gathered
<1>3. data \in Seq(V)
  BY <1>1, <1>2, FlattenType
<1>4. Len(data) \in Nat
  BY <1>3
<1> QED BY <1>2, <1>3, <1>4 DEF IsPiece

\* Values that a piece consists of.
ValuesOf(s) == CHOOSE V : s \in Seq(V)

LEMMA CountedPieces ==
  ASSUME NEW f, NEW n \in Int, f = [i \in 1 .. n |-> f[i]], \A i \in 1 .. n : IsPiece(f[i])
  PROVE  IsPieces(f)
<1>1. PICK m \in Nat : 1 .. n = 1 .. m
  <2>1. CASE n >= 0
    BY <2>1
  <2>2. CASE ~(n >= 0)
    <3>1. 1 .. n = 1 .. 0
      BY <2>2
    <3> QED BY <3>1
  <2> QED BY <2>1, <2>2
<1>2. PICK V : V = UNION {ValuesOf(f[i]) : i \in 1 .. m}
  OBVIOUS
<1>3. ASSUME NEW i \in 1 .. m PROVE f[i] \in Seq(V)
  <2>1. PICK g : g = f[i]
    OBVIOUS
  <2>2. IsPiece(g)
    BY <1>1, <2>1
  <2>3. g \in Seq(ValuesOf(g))
    BY <2>2 DEF IsPiece, ValuesOf
  <2>4. ValuesOf(g) \subseteq V
    BY <1>2, <2>1
  <2> QED BY <2>1, <2>3, <2>4
<1>4. f = [i \in 1 .. m |-> f[i]]
  BY ONLY <1>1, f = [i \in 1 .. n |-> f[i]]
<1>5. f \in [1 .. m -> Seq(V)]
  BY ONLY <1>3, <1>4
<1>6. f \in Seq(Seq(V))
  BY ONLY <1>5, m \in Nat
<1> QED BY <1>6 DEF IsPieces

-----------------------------------------------------------------------------
(* Emission *)

LEMMA MoreValues ==
  ASSUME NEW V, NEW W, V \subseteq W, NEW E, NEW start, NEW bytes, Holds(E, V, start, bytes)
  PROVE  Holds(E, W, start, bytes)
<1>1. E \in Emitters(V) /\ Garbage \in W /\ bytes \in Seq(W)
  BY DEF Holds
<1>2. [1 .. SIZE -> V] \subseteq [1 .. SIZE -> W]
  OBVIOUS
<1>3. E.page \in [Pages -> [1 .. SIZE -> W]]
  BY <1>1, <1>2 DEF Emitters
<1>4. IsRecord(E)
  BY <1>1, RecordOfEmitter
<1>5. E \in Emitters(W)
  <2>1. /\ E.front \in Pages \cup {NULL} /\ E.back \in Pages \cup {NULL}
        /\ E.next \in [Pages -> Pages \cup {NULL}] /\ E.prev \in [Pages -> Pages \cup {NULL}]
        /\ E.page_offset \in [Pages -> Int]
        /\ E.front_left \in 0 .. SIZE /\ E.back_left \in 0 .. SIZE
        /\ E.used \in Nat /\ E.capacity \in Nat /\ E.used_average \in Nat
        /\ E.heap \in SUBSET Pages /\ E.memory \in Nat
    BY <1>1 DEF Emitters
  <2> QED BY ONLY <1>3, <1>4, <2>1, EmitterFromFields
<1> QED BY <1>1, <1>5 DEF Holds

LEMMA SoundMoreValues ==
  ASSUME NEW V, NEW W, V \subseteq W, NEW E, IsSound(E, V)
  PROVE  IsSound(E, W)
  BY MoreValues DEF IsSound

LEMMA HoldingStable ==
  ASSUME NEW C, IsHolding(C)
  PROVE  IsStable(C.E)
<1>1. PICK V : Holds(C.E, V, C.emit_start, C.sent.bytes)
  BY DEF IsHolding
<1>2. IsSound(C.E, V)
  BY <1>1 DEF IsSound
<1>3. ASSUME C.E.front = NULL PROVE C.E.used = 0 \/ C.E.memory = 0
  <2>1. C.sent.bytes = <<>>
    BY <1>1, <1>3, NullIsEmpty
  <2>2. C.E.used = Len(C.sent.bytes) \/ C.E.memory = 0
    BY DEF IsHolding
  <2> QED BY <2>1, <2>2
<1> QED BY <1>2, <1>3 DEF IsStable

\* What a call leaves that emits an object, with the ref it returns.
Good(r, C) ==
    /\ IsBuilder(r.B) /\ r.B.frame = C.frame /\ r.B.align = C.align
    /\ IsStable(r.B.E)
    /\ r.ref # 0 => IsHolding(r.B)

\* What emission leaves of C, as one value for each field it changes.
LEMMA EmittedGood ==
  ASSUME NEW C, IsBuilder(C), NEW V, NEW E, NEW start \in Int, NEW bytes, NEW end \in Nat,
         Holds(E, V, start, bytes), start <= 0, end = start + Len(bytes),
         E.used = Len(bytes) \/ E.memory = 0,
         NEW D, NEW s, s = [start |-> start, bytes |-> bytes],
         D = [C EXCEPT !.E = E, !.emit_start = start, !.emit_end = end, !.sent = s],
         NEW ref
  PROVE  Good(Result(D, ref), C)
<1>1. /\ DOMAIN D = BuilderFields /\ D.frame = C.frame /\ D.align = C.align
      /\ D.min_align = C.min_align /\ D.block_align = C.block_align
      /\ D.ds_offset = C.ds_offset /\ D.id_end = C.id_end /\ D.identifier = C.identifier
      /\ D.emit_start = start /\ D.emit_end = end /\ D.E = E /\ D.sent = s
  <2>1. DOMAIN C = BuilderFields
    BY DEF IsBuilder
  <2> QED BY ONLY <2>1, D = [C EXCEPT !.E = E, !.emit_start = start, !.emit_end = end, !.sent = s]
          DEF BuilderFields
<1>2. DOMAIN s = {"start", "bytes"} /\ s.start = start /\ s.bytes = bytes
  OBVIOUS
<1>3. IsBuilder(D)
  BY ONLY <1>1, <1>2, IsBuilder(C), start \in Int, start <= 0, end \in Nat DEF IsBuilder
<1>4. IsHolding(D)
  BY ONLY <1>1, <1>2, Holds(E, V, start, bytes), end = start + Len(bytes),
          E.used = Len(bytes) \/ E.memory = 0
     DEF IsHolding
<1>5. IsStable(D.E)
  BY <1>4, HoldingStable
<1> QED BY <1>1, <1>3, <1>4, <1>5 DEF Good, Result

\* When malloc fails the builder has the emitter as it is then.
LEMMA FailedGood ==
  ASSUME NEW C, IsBuilder(C), NEW E, IsStable(E), NEW end \in Nat,
         NEW s, DOMAIN s = {"start", "bytes"},
         NEW D, D = [C EXCEPT !.E = E, !.emit_end = end, !.sent = s]
  PROVE  Good(Result(D, 0), C)
<1>1. /\ DOMAIN D = BuilderFields /\ D.frame = C.frame /\ D.align = C.align
      /\ D.min_align = C.min_align /\ D.block_align = C.block_align
      /\ D.ds_offset = C.ds_offset /\ D.id_end = C.id_end /\ D.identifier = C.identifier
      /\ D.emit_start = C.emit_start /\ D.emit_end = end /\ D.E = E /\ D.sent = s
  <2>1. DOMAIN C = BuilderFields
    BY DEF IsBuilder
  <2> QED BY ONLY <2>1, D = [C EXCEPT !.E = E, !.emit_end = end, !.sent = s] DEF BuilderFields
<1>2. IsBuilder(D)
  BY ONLY <1>1, IsBuilder(C), end \in Nat, DOMAIN s = {"start", "bytes"} DEF IsBuilder
<1> QED BY <1>1, <1>2 DEF Good, Result

LEMMA RecordFields ==
  ASSUME NEW C, IsBuilder(C), NEW start, NEW end, NEW s, NEW E,
         start = C.emit_start, end = C.emit_end, s = C.sent
  PROVE  /\ [C EXCEPT !.E = E] = [C EXCEPT !.E = E, !.emit_end = end, !.sent = s]
         /\ \A x, t : [C EXCEPT !.E = E, !.emit_start = x, !.sent = t]
                         = [C EXCEPT !.E = E, !.emit_start = x, !.emit_end = end, !.sent = t]
         /\ \A y, t : [C EXCEPT !.E = E, !.emit_end = y, !.sent = t]
                         = [C EXCEPT !.E = E, !.emit_start = start, !.emit_end = y, !.sent = t]
<1>1. DOMAIN C = BuilderFields
  BY DEF IsBuilder
<1> QED BY ONLY <1>1, start = C.emit_start, end = C.emit_end, s = C.sent DEF BuilderFields

LEMMA IovValues ==
  ASSUME NEW C, IsHolding(C), NEW iov, IsPieces(iov)
  PROVE  \E V : Holds(C.E, V, C.emit_start, C.sent.bytes) /\ iov \in Seq(Seq(V))
<1>1. PICK V : Holds(C.E, V, C.emit_start, C.sent.bytes)
  BY DEF IsHolding
<1>2. PICK W : iov \in Seq(Seq(W))
  BY DEF IsPieces
<1>3. PICK U : U = V \cup W
  OBVIOUS
<1>4. V \subseteq U /\ Seq(W) \subseteq Seq(U)
  BY ONLY <1>3
<1>5. iov \in Seq(Seq(U))
  BY ONLY <1>2, <1>4
<1>6. Holds(C.E, U, C.emit_start, C.sent.bytes)
  BY <1>1, <1>4, MoreValues
<1> QED BY <1>5, <1>6

\* e is what the emitter makes of iov, n bytes of data.
Asked(e, V, E, start, bytes, iov, data, n, offset) ==
    /\ Holds(E, V, start, bytes) /\ start \in Int /\ start <= 0
    /\ E.used = Len(bytes) \/ E.memory = 0
    /\ iov \in Seq(Seq(V)) /\ data = Gathered(iov) /\ n \in Nat /\ n = Len(data)
    /\ offset \in Int /\ e = flatcc_emitter(E, iov, offset)

Answered(e, V, start, bytes, data, n, offset) ==
    /\ e.ok \in BOOLEAN
    /\ (e.ok = TRUE /\ offset = start - n) =>
          /\ Holds(e.E, V, offset, data \o bytes) /\ Len(data \o bytes) = n + Len(bytes)
          /\ e.E.used = Len(data \o bytes) \/ e.E.memory = 0
    /\ (e.ok = TRUE /\ offset >= 0) =>
          /\ Holds(e.E, V, start, bytes \o data) /\ Len(bytes \o data) = Len(bytes) + n
          /\ e.E.used = Len(bytes \o data) \/ e.E.memory = 0
    /\ e.ok = FALSE => IsStable(e.E)

\* What the emitter is asked for is put in front of what it holds, or behind.
LEMMA EmittedAt ==
  ASSUME NEW e, NEW V, NEW E, NEW start, NEW bytes, NEW iov, NEW data, NEW n, NEW offset,
         Asked(e, V, E, start, bytes, iov, data, n, offset)
  PROVE  Answered(e, V, start, bytes, data, n, offset)
<1>0. /\ Holds(E, V, start, bytes) /\ start \in Int /\ start <= 0
      /\ E.used = Len(bytes) \/ E.memory = 0
      /\ iov \in Seq(Seq(V)) /\ data = Gathered(iov) /\ n \in Nat /\ n = Len(data)
      /\ offset \in Int /\ e = flatcc_emitter(E, iov, offset)
  BY DEF Asked
<1>1. Emitted(e, V, E, start, bytes, data, offset)
  BY <1>0, EmitterIsDeque
<1>2. /\ e.ok \in BOOLEAN /\ e.E.used = E.used + n /\ e.E.memory = E.memory
      /\ (e.ok = TRUE /\ offset < 0) => Holds(e.E, V, start - n, data \o bytes)
      /\ (e.ok = TRUE /\ ~(offset < 0)) => Holds(e.E, V, start, bytes \o data)
      /\ e.ok = FALSE => /\ \E s, x : Holds(e.E, V, s, x)
                         /\ e.E.front = NULL => e.E.memory = 0
  BY <1>0, <1>1 DEF Emitted
<1>3. bytes \in Seq(V) /\ data \in Seq(V)
  BY <1>0, FlattenType DEF Holds, Gathered
<1>4. PICK m \in Nat : m = Len(bytes)
  BY <1>3
<1>5. Len(data \o bytes) = n + m /\ Len(bytes \o data) = m + n
  BY <1>0, <1>3, <1>4, ConcatAt
<1>6. e.E.used = m + n \/ e.E.memory = 0
  BY <1>0, <1>2, <1>4
<1>7. ASSUME e.ok = TRUE, offset = start - n PROVE Holds(e.E, V, offset, data \o bytes)
  <2>1. CASE offset < 0
    BY <1>2, <1>7, <2>1
  <2>2. CASE ~(offset < 0)
    <3>1. n = 0 /\ start = 0 /\ offset = start
      BY ONLY <1>0, <1>7, <2>2
    <3>2. Len(data) = 0 /\ data \in Seq(V)
      BY ONLY <1>0, <1>3, <3>1
    <3>4. data = <<>>
      BY ONLY <3>2, EmptySeq
    <3>3. data \o bytes = bytes \o data
      BY <1>3, <3>4
    <3> QED BY <1>2, <1>7, <2>2, <3>1, <3>3
  <2> QED BY <2>1, <2>2
<1>8. ASSUME e.ok = FALSE PROVE IsStable(e.E)
  BY <1>2, <1>8 DEF IsStable, IsSound
<1>9. ASSUME e.ok = TRUE, offset >= 0 PROVE Holds(e.E, V, start, bytes \o data)
  <2>1. ~(offset < 0)
    BY ONLY <1>0, <1>9
  <2> QED BY <1>2, <1>9, <2>1
<1>10. Len(bytes \o data) = Len(bytes) + n /\ Len(data \o bytes) = n + Len(bytes)
  BY ONLY <1>0, <1>4, <1>5
<1>11. /\ e.E.used = Len(data \o bytes) \/ e.E.memory = 0
       /\ e.E.used = Len(bytes \o data) \/ e.E.memory = 0
  <2>1. n + m = m + n
    BY <1>0, <1>4
  <2> QED BY ONLY <1>5, <1>6, <2>1
<1> QED BY ONLY <1>2, <1>7, <1>8, <1>9, <1>10, <1>11 DEF Answered

LEMMA EmitFrontGood ==
  ASSUME NEW C, IsBuilder(C), IsHolding(C), NEW iov, IsPieces(iov)
  PROVE  Good(emit_front(C, iov), C)
<1>1. PICK V : Holds(C.E, V, C.emit_start, C.sent.bytes) /\ iov \in Seq(Seq(V))
  BY IovValues
<1>2. PICK start \in Int : start = C.emit_start /\ start <= 0
  BY DEF IsBuilder
<1>3. PICK bytes, data, E, end : /\ bytes = C.sent.bytes /\ data = Gathered(iov)
                                 /\ E = C.E /\ end = C.emit_end
  OBVIOUS
<1>4. PICK n \in Nat : n = Len(data)
  BY <1>3, GatheredPiece
<1>5. PICK ref \in Int : ref = start - n
  OBVIOUS
<1>6. PICK e : e = flatcc_emitter(E, iov, ref)
  OBVIOUS
<1>7. emit_front(C, iov) = InFront(C, e, data, ref)
  BY <1>2, <1>3, <1>4, <1>5, <1>6 DEF emit_front
<1>8. E.used = Len(bytes) \/ E.memory = 0
  BY <1>3 DEF IsHolding
<1>9. Holds(E, V, start, bytes)
  BY <1>1, <1>2, <1>3
<1>10. /\ e.ok \in BOOLEAN
       /\ e.ok = TRUE => /\ Holds(e.E, V, ref, data \o bytes)
                         /\ Len(data \o bytes) = n + Len(bytes)
                         /\ e.E.used = Len(data \o bytes) \/ e.E.memory = 0
       /\ e.ok = FALSE => IsStable(e.E)
  <2>1. data = Gathered(iov) /\ iov \in Seq(Seq(V)) /\ start <= 0
    BY <1>1, <1>2, <1>3
  <2>2. Asked(e, V, E, start, bytes, iov, data, n, ref)
    BY ONLY <2>1, <1>4, <1>6, <1>8, <1>9, start \in Int, ref \in Int, n \in Nat DEF Asked
  <2>3. Answered(e, V, start, bytes, data, n, ref)
    BY ONLY <2>2, EmittedAt
  <2> QED BY ONLY <1>5, <2>3 DEF Answered
<1>11. end \in Nat /\ end = start + Len(bytes) /\ bytes \in Seq(V)
  BY <1>1, <1>2, <1>3 DEF IsBuilder, IsHolding, Holds
<1>12. CASE e.ok = TRUE
  <2>1. PICK F, more : F = e.E /\ more = data \o bytes
    OBVIOUS
  <2>2. PICK s : s = [start |-> ref, bytes |-> more]
    OBVIOUS
  <2>3. PICK D : D = [C EXCEPT !.E = F, !.emit_start = ref, !.sent = s]
    OBVIOUS
  <2>4. D = [C EXCEPT !.E = F, !.emit_start = ref, !.emit_end = end, !.sent = s]
    BY <1>3, <2>3, RecordFields
  <2>5. InFront(C, e, data, ref) = Result(D, ref)
    BY <1>3, <1>12, <2>1, <2>2, <2>3 DEF InFront
  <2>6. Len(bytes) \in Nat /\ ref <= 0 /\ end = ref + (n + Len(bytes))
    BY <1>2, <1>5, <1>11
  <2>7. Holds(F, V, ref, more) /\ end = ref + Len(more) /\ (F.used = Len(more) \/ F.memory = 0)
    BY <1>10, <1>12, <2>1, <2>6
  <2>8. Good(Result(D, ref), C)
    BY ONLY IsBuilder(C), <1>11, <2>2, <2>4, <2>6, <2>7, ref \in Int, EmittedGood
  <2> QED BY <1>7, <2>5, <2>8
<1>13. CASE e.ok = FALSE
  <2>1. PICK F : F = e.E
    OBVIOUS
  <2>2. PICK D : D = [C EXCEPT !.E = F]
    OBVIOUS
  <2>3. PICK s : s = C.sent /\ DOMAIN s = {"start", "bytes"}
    BY DEF IsBuilder
  <2>7. D = [C EXCEPT !.E = F, !.emit_end = end, !.sent = s]
    BY <1>3, <2>2, <2>3, RecordFields
  <2>4. InFront(C, e, data, ref) = Result(D, 0)
    BY <1>13, <2>1, <2>2 DEF InFront
  <2>5. IsStable(F)
    BY <1>10, <1>13, <2>1
  <2>6. Good(Result(D, 0), C)
    BY ONLY IsBuilder(C), <1>11, <2>3, <2>7, <2>5, FailedGood
  <2> QED BY <1>7, <2>4, <2>6
<1> QED BY <1>10, <1>12, <1>13

LEMMA EmitBackGood ==
  ASSUME NEW C, IsBuilder(C), IsHolding(C), NEW iov, IsPieces(iov)
  PROVE  Good(emit_back(C, iov), C)
<1>1. PICK V : Holds(C.E, V, C.emit_start, C.sent.bytes) /\ iov \in Seq(Seq(V))
  BY IovValues
<1>2. PICK start \in Int : start = C.emit_start /\ start <= 0
  BY DEF IsBuilder
<1>3. PICK bytes, data, E, end : /\ bytes = C.sent.bytes /\ data = Gathered(iov)
                                 /\ E = C.E /\ end = C.emit_end
  OBVIOUS
<1>4. PICK n \in Nat : n = Len(data)
  BY <1>3, GatheredPiece
<1>5. end \in Nat /\ end = start + Len(bytes) /\ bytes \in Seq(V) /\ end \in Int /\ end >= 0
  BY <1>1, <1>2, <1>3 DEF IsBuilder, IsHolding, Holds
<1>6. PICK e : e = flatcc_emitter(E, iov, end)
  OBVIOUS
<1>7. emit_back(C, iov) = Behind(C, e, data, end)
  BY <1>3, <1>6 DEF emit_back
<1>8. E.used = Len(bytes) \/ E.memory = 0
  BY <1>3 DEF IsHolding
<1>9. Holds(E, V, start, bytes)
  BY <1>1, <1>2, <1>3
<1>10. /\ e.ok \in BOOLEAN
       /\ e.ok = TRUE => /\ Holds(e.E, V, start, bytes \o data)
                         /\ Len(bytes \o data) = Len(bytes) + n
                         /\ e.E.used = Len(bytes \o data) \/ e.E.memory = 0
       /\ e.ok = FALSE => IsStable(e.E)
  <2>1. data = Gathered(iov) /\ iov \in Seq(Seq(V)) /\ start <= 0
    BY <1>1, <1>2, <1>3
  <2>2. end \in Int /\ end >= 0
    BY <1>5
  <2>3. Asked(e, V, E, start, bytes, iov, data, n, end)
    BY ONLY <2>1, <2>2, <1>4, <1>6, <1>8, <1>9, start \in Int, n \in Nat DEF Asked
  <2>4. Answered(e, V, start, bytes, data, n, end)
    BY ONLY <2>3, EmittedAt
  <2> QED BY ONLY <2>2, <2>4 DEF Answered
<1>11. PICK last \in Nat : last = end + n
  BY <1>5
<1>12. DOMAIN C.sent = {"start", "bytes"} /\ C.sent.start = start
  BY <1>2 DEF IsBuilder, IsHolding
<1>13. CASE e.ok = TRUE
  <2>1. PICK F, more, t : F = e.E /\ more = bytes \o data /\ t = C.sent
    OBVIOUS
  <2>2. PICK s : s = [t EXCEPT !.bytes = more]
    OBVIOUS
  <2>3. s = [start |-> start, bytes |-> more]
    <3>1. DOMAIN t = {"start", "bytes"} /\ t.start = start
      BY <1>12, <2>1
    <3> QED BY ONLY <2>2, <3>1
  <2>4. PICK D : D = [C EXCEPT !.E = F, !.emit_end = last, !.sent = s]
    OBVIOUS
  <2>5. D = [C EXCEPT !.E = F, !.emit_start = start, !.emit_end = last, !.sent = s]
    BY <1>2, <2>4, RecordFields
  <2>6. Behind(C, e, data, end) = Result(D, end + 1)
    BY <1>3, <1>4, <1>11, <1>13, <2>1, <2>2, <2>4 DEF Behind
  <2>7. Len(bytes) \in Nat /\ last = start + (Len(bytes) + n)
    BY <1>5, <1>11
  <2>8. Holds(F, V, start, more) /\ last = start + Len(more) /\ (F.used = Len(more) \/ F.memory = 0)
    BY <1>10, <1>13, <2>1, <2>7
  <2>9. Good(Result(D, end + 1), C)
    BY ONLY IsBuilder(C), <1>2, <2>3, <2>5, <2>8, start \in Int, last \in Nat, EmittedGood
  <2> QED BY <1>7, <2>6, <2>9
<1>14. CASE e.ok = FALSE
  <2>1. PICK F : F = e.E
    OBVIOUS
  <2>2. PICK t, s : t = C.sent /\ s = [t EXCEPT !.bytes = t.bytes]
    OBVIOUS
  <2>6. DOMAIN s = {"start", "bytes"}
    BY <1>12, <2>2
  <2>7. PICK D : D = [C EXCEPT !.E = F, !.emit_end = last, !.sent = s]
    OBVIOUS
  <2>3. Behind(C, e, data, end) = Result(D, 0)
    BY <1>4, <1>11, <1>14, <2>1, <2>2, <2>7 DEF Behind
  <2>4. IsStable(F)
    BY <1>10, <1>14, <2>1
  <2>5. Good(Result(D, 0), C)
    BY ONLY IsBuilder(C), <2>6, <2>7, <2>4, last \in Nat, FailedGood
  <2> QED BY <1>7, <2>3, <2>5
<1> QED BY <1>10, <1>13, <1>14

\* C can emit: it is a builder that holds what it emitted.
Ready(C) == IsBuilder(C) /\ IsHolding(C)

LEMMA GoodReady ==
  ASSUME NEW C, NEW r, Good(r, C), r.ref # 0
  PROVE  Ready(r.B)
  BY DEF Good, Ready

LEMMA ReadyGood ==
  ASSUME NEW C, Ready(C), NEW ref
  PROVE  Good(Result(C, ref), C)
  BY HoldingStable DEF Ready, Good, Result

LEMMA KeptReady ==
  ASSUME NEW C, NEW D, Ready(C), Kept(D, C)
  PROVE  Ready(D)
  BY SameOutHolding DEF Ready, Kept

LEMMA GoodAfterKept ==
  ASSUME NEW C, NEW D, Kept(D, C), NEW r, Good(r, D)
  PROVE  Good(r, C)
  BY DEF Kept, Good

LEMMA GoodTwice ==
  ASSUME NEW C, NEW q, NEW r, Good(q, C), Good(r, q.B)
  PROVE  Good(r, C)
  BY DEF Good

LEMMA PieceLength ==
  ASSUME NEW s, IsPiece(s)
  PROVE  Len(s) \in Nat /\ s = [i \in 1 .. Len(s) |-> s[i]]
<1>1. PICK V : s \in Seq(V)
  BY DEF IsPiece
<1> QED BY <1>1

LEMMA FrontPadType ==
  ASSUME NEW C, IsBuilder(C), NEW size \in Int, NEW align \in Nat \ {0}
  PROVE  front_pad(C, size, align) \in Nat
<1>1. PICK x \in Int : x = C.emit_start - size
  BY DEF IsBuilder
<1>2. x % align \in 0 .. align - 1
  OBVIOUS
<1>3. x % align \in Nat
  BY <1>2
<1> QED BY <1>1, <1>3 DEF front_pad

\* What is emitted with an alignment that counts for the whole buffer.
LEMMA AlignedGood ==
  ASSUME NEW C, Ready(C), NEW al \in Nat, NEW iov, IsPieces(iov)
  PROVE  Good(emit_front(set_min_align(C, al), iov), C)
<1>1. PICK D : D = set_min_align(C, al)
  OBVIOUS
<1>2. Kept(D, C)
  BY <1>1, SetMinAlignKeeps DEF Ready
<1>3. Ready(D)
  BY <1>2, KeptReady
<1>4. Good(emit_front(D, iov), D)
  BY <1>3, EmitFrontGood DEF Ready
<1> QED BY <1>1, <1>2, <1>4, GoodAfterKept

LEMMA CreateStructGood ==
  ASSUME NEW C, Ready(C), NEW data, IsPiece(data), NEW align \in Nat \ {0}
  PROVE  Good(create_struct(C, data, align), C)
<1>1. PICK n \in Int : n = Len(data)
  BY PieceLength
<1>2. PICK pad \in Nat : pad = front_pad(C, n, align)
  BY FrontPadType DEF Ready
<1>3. IsPieces(<<data, _pad(pad)>>)
  BY PadPiece, TwoPieces
<1>4. create_struct(C, data, align) = emit_front(set_min_align(C, align), <<data, _pad(pad)>>)
  BY <1>1, <1>2 DEF create_struct
<1>5. align \in Nat
  OBVIOUS
<1> QED BY <1>3, <1>4, <1>5, AlignedGood

LEMMA FieldAlign ==
  ASSUME NEW align \in Nat
  PROVE  Greater(align, field_size) \in Nat \ {0}
  BY DEF Greater, field_size

LEMMA CreateVectorGood ==
  ASSUME NEW C, Ready(C), NEW data, IsPiece(data), NEW count, NEW align \in Nat
  PROVE  Good(create_vector(C, data, count, align), C)
<1>1. PICK n \in Int : n = Len(data)
  BY PieceLength
<1>2. PICK al \in Nat \ {0} : al = Greater(align, field_size)
  BY FieldAlign
<1>3. PICK pad \in Nat : pad = front_pad(C, n, al)
  BY FrontPadType DEF Ready
<1>4. PICK iov : iov = <<write_uoffset(count), data, _pad(pad)>>
  OBVIOUS
<1>5. IsPieces(iov)
  BY <1>4, PadPiece, UoffsetPiece, ThreePieces
<1>6. create_vector(C, data, count, align) = emit_front(set_min_align(C, al), iov)
  BY <1>1, <1>2, <1>3, <1>4 DEF create_vector
<1>7. al \in Nat
  OBVIOUS
<1> QED BY <1>5, <1>6, <1>7, AlignedGood

LEMMA CreateStringGood ==
  ASSUME NEW C, Ready(C), NEW s, IsPiece(s)
  PROVE  Good(create_string(C, s), C)
<1>1. PICK n \in Int : n = Len(s) + 1
  BY PieceLength
<1>2. field_size \in Nat \ {0}
  BY DEF field_size
<1>3. PICK pad \in Nat : pad = front_pad(C, n, field_size)
  BY <1>2, FrontPadType DEF Ready
<1>4. PICK more \in Int : more = pad + 1
  OBVIOUS
<1>5. PICK iov : iov = <<write_uoffset(Len(s)), s, _pad(more)>>
  OBVIOUS
<1>6. IsPieces(iov)
  BY <1>5, PadPiece, UoffsetPiece, ThreePieces
<1>7. create_string(C, s) = emit_front(C, iov)
  BY <1>1, <1>3, <1>4, <1>5 DEF create_string
<1> QED BY <1>6, <1>7, EmitFrontGood DEF Ready

LEMMA CreateOffsetsGood ==
  ASSUME NEW C, Ready(C), NEW rs, IsPiece(rs)
  PROVE  Good(create_offset_vector_direct(C, rs), C)
<1>1. PICK n \in Nat : n = Len(rs) /\ DOMAIN rs = 1 .. n
  BY PieceLength
<1>2. PICK size \in Int : size = n * field_size
  BY DEF field_size
<1>3. field_size \in Nat \ {0} /\ field_size \in Nat
  BY DEF field_size
<1>4. PICK pad \in Nat : pad = front_pad(C, size, field_size)
  BY <1>3, FrontPadType DEF Ready
<1>5. PICK base : base = C.emit_start - (field_size + size + pad)
  OBVIOUS
<1>6. PICK g : g = [i \in DOMAIN rs |->
                      write_uoffset(IF rs[i] = 0 THEN 0 ELSE rs[i] - base - i * field_size)]
  OBVIOUS
<1>7. IsPieces(g)
  <2>1. g = [i \in 1 .. n |-> g[i]]
    BY ONLY <1>1, <1>6
  <2>2. ASSUME NEW i \in 1 .. n PROVE IsPiece(g[i])
    <3>1. PICK x : x = IF rs[i] = 0 THEN 0 ELSE rs[i] - base - i * field_size
      OBVIOUS
    <3>2. g[i] = write_uoffset(x)
      BY ONLY <1>1, <1>6, <3>1
    <3> QED BY <3>2, UoffsetPiece
  <2> QED BY <2>1, <2>2, CountedPieces
<1>8. PICK iov : iov = <<write_uoffset(n), Gathered(g), _pad(pad)>>
  OBVIOUS
<1>9. IsPieces(iov)
  BY <1>7, <1>8, GatheredPiece, PadPiece, UoffsetPiece, ThreePieces
<1>10. create_offset_vector_direct(C, rs) = emit_front(set_min_align(C, field_size), iov)
  BY <1>1, <1>2, <1>4, <1>5, <1>6, <1>8 DEF create_offset_vector_direct
<1> QED BY <1>3, <1>9, <1>10, AlignedGood

-----------------------------------------------------------------------------
(* Objects that are ended *)

\* What a call leaves that emits an object, when these are the open objects then.
Outcome(r, ks) ==
    /\ IsBuilder(r.B) /\ IsStable(r.B.E)
    /\ r.ref # 0 => Standing(r.B, ks) /\ IsHolding(r.B)

LEMMA GoodStands ==
  ASSUME NEW C, NEW ks, Standing(C, ks), NEW r, Good(r, C)
  PROVE  Standing(r.B, ks) /\ Outcome(r, ks)
  BY DEF Standing, Good, Outcome

LEMMA EndedOutcome ==
  ASSUME NEW C, NEW ks, Standing(C, ks), Len(ks) > 0, NEW r, Good(r, C)
  PROVE  Outcome(Ended(r), Front(ks))
<1>1. CASE r.ref = 0
  BY <1>1 DEF Ended, Good, Outcome
<1>2. CASE r.ref # 0
  <2>1. PICK D, F : D = r.B /\ F = exit_frame(D)
    OBVIOUS
  <2>2. Standing(D, ks) /\ IsHolding(D) /\ IsStable(D.E)
    BY <1>2, <2>1, GoodStands DEF Good
  <2>3. Standing(F, Front(ks)) /\ SameOut(F, D)
    BY <2>1, <2>2, ExitFrameStands
  <2>4. IsHolding(F) /\ IsStable(F.E) /\ IsBuilder(F)
    BY <2>2, <2>3, SameOutHolding DEF SameOut, Standing
  <2>5. Ended(r) = Result(F, r.ref)
    BY <1>2, <2>1 DEF Ended
  <2> QED BY <2>3, <2>4, <2>5 DEF Outcome, Result
<1> QED BY <1>1, <1>2

LEMMA PeekPiece ==
  ASSUME NEW C, NEW at, NEW n \in Int
  PROVE  IsPiece(Peek(C, at, n))
<1>1. PICK f : f = Peek(C, at, n)
  OBVIOUS
<1>2. f = [i \in 1 .. n |-> f[i]]
  BY ONLY <1>1 DEF Peek
<1> QED BY <1>1, <1>2, CountedPiece

LEMMA RefsPiece ==
  ASSUME NEW C, NEW at, NEW step, NEW n \in Int
  PROVE  IsPiece(RefsAt(C, at, step, n))
<1>1. PICK f : f = RefsAt(C, at, step, n)
  OBVIOUS
<1>2. f = [i \in 1 .. n |-> f[i]]
  BY ONLY <1>1 DEF RefsAt
<1> QED BY <1>1, <1>2, CountedPiece

LEMMA InnermostFrame ==
  ASSUME NEW C, NEW ks, Standing(C, ks), Len(ks) > 0
  PROVE  /\ IsContainer(frame(C).c, ks[Len(ks)])
         /\ ks[Len(ks)] = "struct" => C.align > 0
<1>1. Len(ks) \in 1 .. Len(ks) /\ Len(C.frame) = Len(ks)
  BY DEF Standing, IsFrames
<1>2. IsFrame(frame(C), ks[Len(ks)])
  BY <1>1 DEF Standing, IsFrames, frame, level
<1>3. Len(ks) > 0 /\ ks[Len(ks)] = "struct" => C.align > 0
  BY DEF Standing, IsFrames
<1> QED BY <1>2, <1>3 DEF IsFrame

LEMMA StandingFields ==
  ASSUME NEW C, NEW ks, Standing(C, ks)
  PROVE  IsBuilder(C) /\ C.align \in Nat /\ C.ds_offset \in Int /\ C.id_end \in Int
  BY DEF Standing, IsBuilder

LEMMA EndStructOutcome ==
  ASSUME NEW C, NEW ks, Standing(C, ks), Len(ks) > 0, ks[Len(ks)] = "struct", IsHolding(C)
  PROVE  Outcome(end_struct(C), Front(ks))
<1>1. PICK al \in Nat \ {0} : al = C.align
  BY InnermostFrame, StandingFields
<1>2. PICK data : data = Peek(C, 0, C.ds_offset) /\ IsPiece(data)
  BY PeekPiece, StandingFields
<1>3. Good(create_struct(C, data, al), C)
  BY <1>2, StandingFields, CreateStructGood DEF Ready
<1>4. end_struct(C) = Ended(create_struct(C, data, al))
  BY <1>1, <1>2 DEF end_struct
<1> QED BY <1>3, <1>4, EndedOutcome

LEMMA ElementsCount ==
  ASSUME NEW C, NEW ks, Standing(C, ks), Len(ks) > 0, ks[Len(ks)] \in Elements
  PROVE  frame(C).c.count \in Int /\ frame(C).c.elem_size \in Int
  BY InnermostFrame DEF IsContainer

LEMMA EndVectorOutcome ==
  ASSUME NEW C, NEW ks, Standing(C, ks), Len(ks) > 0, ks[Len(ks)] \in Elements, IsHolding(C)
  PROVE  Outcome(end_vector(C), Front(ks))
<1>1. PICK count, elem_size \in Int : count = frame(C).c.count /\ elem_size = frame(C).c.elem_size
  BY ElementsCount
<1>2. PICK n \in Int : n = count * elem_size
  BY <1>1, ElementsCount
<1>3. PICK data : data = Peek(C, 0, n) /\ IsPiece(data)
  BY PeekPiece
<1>4. Good(create_vector(C, data, count, C.align), C)
  BY <1>3, StandingFields, CreateVectorGood DEF Ready
<1>5. end_vector(C) = Ended(create_vector(C, data, count, C.align))
  BY <1>1, <1>2, <1>3 DEF end_vector
<1> QED BY <1>4, <1>5, EndedOutcome

LEMMA EndStringOutcome ==
  ASSUME NEW C, NEW ks, Standing(C, ks), Len(ks) > 0, IsHolding(C)
  PROVE  Outcome(end_string(C), Front(ks))
<1>1. PICK data : data = Peek(C, 0, C.ds_offset) /\ IsPiece(data)
  BY PeekPiece, StandingFields
<1>2. Good(create_string(C, data), C)
  BY <1>1, StandingFields, CreateStringGood DEF Ready
<1> QED BY <1>1, <1>2, EndedOutcome DEF end_string

LEMMA EndOffsetsOutcome ==
  ASSUME NEW C, NEW ks, Standing(C, ks), Len(ks) > 0, ks[Len(ks)] \in Elements, IsHolding(C)
  PROVE  Outcome(end_offset_vector(C), Front(ks))
<1>1. PICK rs : rs = RefsAt(C, 0, field_size, frame(C).c.count) /\ IsPiece(rs)
  BY RefsPiece, ElementsCount
<1>2. Good(create_offset_vector_direct(C, rs), C)
  BY <1>1, StandingFields, CreateOffsetsGood DEF Ready
<1> QED BY <1>1, <1>2, EndedOutcome DEF end_offset_vector

\* A union vector is two objects; its frame is left when one of them fails too.
LEMMA EndUnionsOutcome ==
  ASSUME NEW C, NEW ks, Standing(C, ks), Len(ks) > 0, ks[Len(ks)] \in Elements, IsHolding(C)
  PROVE  LET u == end_union_vector(C) IN Outcome(Result(u.B, u.type), Front(ks))
<1>1. PICK count \in Int : count = frame(C).c.count
  BY ElementsCount
<1>2. PICK size \in Int : size = count * (utype_size + field_size)
  BY DEF utype_size, field_size
<1>3. PICK F : F = push_ds(C, size)
  OBVIOUS
<1>4. Standing(F, ks) /\ SameOut(F, C)
  BY <1>3, PushStands DEF Stacked
<1>5. Ready(F)
  BY <1>4, SameOutHolding DEF Ready, Standing
<1>6. PICK rs : rs = RefsAt(F, field_size, union_size, count) /\ IsPiece(rs)
  BY RefsPiece
<1>7. PICK types : types = [i \in 1 .. count |-> Peek(F, (i - 1) * union_size, utype_size)[1]]
  OBVIOUS
<1>8. IsPiece(types)
  <2>1. types = [i \in 1 .. count |-> types[i]]
    BY ONLY <1>7
  <2> QED BY <2>1, CountedPiece
<1>9. PICK v : v = create_offset_vector_direct(F, rs)
  OBVIOUS
<1>10. Good(v, F)
  BY <1>5, <1>6, <1>9, CreateOffsetsGood
<1>11. PICK t : t = IF v.ref = 0 THEN v
                    ELSE create_vector(v.B, types, Len(types), utype_size)
  OBVIOUS
<1>12. Good(t, F)
  <2>1. CASE v.ref = 0
    BY <1>10, <1>11, <2>1
  <2>2. CASE v.ref # 0
    <3>1. Ready(v.B)
      BY <1>10, <2>2, GoodReady
    <3>2. utype_size \in Nat
      BY DEF utype_size
    <3>3. PICK n, D : n = Len(types) /\ D = v.B
      OBVIOUS
    <3>4. Good(create_vector(D, types, n, utype_size), D)
      BY <1>8, <3>1, <3>2, <3>3, CreateVectorGood
    <3>5. Good(t, v.B)
      BY <1>11, <2>2, <3>3, <3>4
    <3> QED BY <1>10, <3>5, GoodTwice
  <2> QED BY <2>1, <2>2
<1>13. PICK D, G : D = t.B /\ G = exit_frame(D)
  OBVIOUS
<1>14. Standing(D, ks) /\ IsStable(D.E) /\ (t.ref # 0 => IsHolding(D))
  BY <1>4, <1>12, <1>13, GoodStands DEF Good
<1>15. Standing(G, Front(ks)) /\ SameOut(G, D)
  BY <1>13, <1>14, ExitFrameStands
<1>16. /\ IsBuilder(G) /\ IsStable(G.E)
       /\ t.ref # 0 => IsHolding(G)
  BY <1>14, <1>15, SameOutHolding DEF SameOut, Standing
<1>17. PICK u : u = end_union_vector(C)
  OBVIOUS
<1>18. u = UnionsEnded(v, t)
  <2>1. u = EmitUnions(F, count)
    BY <1>1, <1>2, <1>3, <1>17 DEF end_union_vector
  <2>2. u = EmitTypes(v, types)
    BY <1>6, <1>7, <1>9, <2>1 DEF EmitUnions
  <2> QED BY <1>11, <2>2 DEF EmitTypes
<1>19. u.B = G /\ u.type = t.ref
  BY <1>13, <1>18 DEF UnionsEnded
<1>20. Outcome(Result(u.B, u.type), Front(ks))
  BY <1>15, <1>16, <1>19 DEF Outcome, Result
<1> QED BY <1>17, <1>20

-----------------------------------------------------------------------------
(* Vtables *)

LEMMA ConcatPiece ==
  ASSUME NEW s, NEW t, IsPiece(s), IsPiece(t)
  PROVE  IsPiece(s \o t)
<1>1. PICK V, W : s \in Seq(V) /\ t \in Seq(W)
  BY DEF IsPiece
<1>2. PICK U : U = V \cup W
  OBVIOUS
<1>3. s \in Seq(U) /\ t \in Seq(U)
  BY <1>1, <1>2
<1>4. s \o t \in Seq(U)
  BY ONLY <1>3, ConcatAt
<1> QED BY <1>4 DEF IsPiece

LEMMA CreateVtableGood ==
  ASSUME NEW C, Ready(C), NEW vt, IsPiece(vt)
  PROVE  Good(create_vtable(C, vt), C)
<1>1. PICK n \in Nat : DOMAIN vt = 1 .. n
  BY PieceLength
<1>2. PICK g : g = [i \in DOMAIN vt |-> write_voffset(vt[i])]
  OBVIOUS
<1>3. IsPieces(g)
  <2>1. g = [i \in 1 .. n |-> g[i]]
    BY ONLY <1>1, <1>2
  <2>2. ASSUME NEW i \in 1 .. n PROVE IsPiece(g[i])
    <3>1. PICK f : f = g[i]
      OBVIOUS
    <3>2. f = [j \in 1 .. voffset_size |-> f[j]]
      BY ONLY <1>1, <1>2, <3>1 DEF write_voffset, write
    <3>3. voffset_size \in Int
      BY DEF voffset_size
    <3> QED BY <3>1, <3>2, <3>3, CountedPiece
  <2> QED BY <2>1, <2>2, CountedPieces
<1>4. PICK data : data = Gathered(g) /\ IsPiece(data)
  BY <1>3, GatheredPiece
<1>5. PICK iov : iov = <<data>> /\ IsPieces(iov)
  BY <1>4, OnePiece
<1>6. PICK b, f : b = emit_back(C, iov) /\ f = emit_front(C, iov)
  OBVIOUS
<1>7. Good(b, C) /\ Good(f, C)
  BY <1>5, <1>6, EmitBackGood, EmitFrontGood DEF Ready
<1>8. PICK t : t = IF f.ref = 0 THEN f ELSE Result(f.B, f.ref + 1)
  OBVIOUS
<1>9. Good(t, C)
  BY <1>7, <1>8 DEF Good, Result
<1>10. create_vtable(C, vt) = IF is_top_buffer(C) /\ ~C.disable_vt_clustering THEN b ELSE t
  BY <1>2, <1>4, <1>5, <1>6, <1>8 DEF create_vtable
<1> QED BY <1>7, <1>9, <1>10

\* Values of the cache's fields other than those of C.
LEMMA CacheKept ==
  ASSUME NEW C, IsBuilder(C), NEW D, NEW vb, NEW vd, NEW room, NEW chain,
         D = [C EXCEPT !.vb = vb, !.vd = vd, !.vd_room = room, !.chain = chain]
  PROVE  Kept(D, C)
<1>1. DOMAIN C = BuilderFields /\ C.min_align \in Nat /\ C.ds_offset \in Int /\ C.id_end \in Int
  BY DEF IsBuilder
<1>2. D.min_align = C.min_align /\ D.ds_offset = C.ds_offset /\ D.id_end = C.id_end
  BY ONLY <1>1, D = [C EXCEPT !.vb = vb, !.vd = vd, !.vd_room = room, !.chain = chain]
     DEF BuilderFields
<1>3. SameEssentials(D, C)
  BY ONLY <1>1, D = [C EXCEPT !.vb = vb, !.vd = vd, !.vd_room = room, !.chain = chain]
     DEF BuilderFields, SameEssentials, Essential
<1> QED BY <1>1, <1>2, <1>3, KeptByFields

LEMMA CacheFields ==
  ASSUME NEW C, IsBuilder(C), NEW vb, NEW vd, NEW room, NEW chain, NEW vb0, NEW vd0, NEW room0,
         NEW chain0, vb0 = C.vb, vd0 = C.vd, room0 = C.vd_room, chain0 = C.chain
  PROVE  /\ [C EXCEPT !.vd = vd, !.vd_room = room, !.chain = chain]
              = [C EXCEPT !.vb = vb0, !.vd = vd, !.vd_room = room, !.chain = chain]
         /\ [C EXCEPT !.chain = chain, !.vd = vd, !.vb = vb]
              = [C EXCEPT !.vb = vb, !.vd = vd, !.vd_room = room0, !.chain = chain]
         /\ [C EXCEPT !.vd = vd, !.vb = vb]
              = [C EXCEPT !.vb = vb, !.vd = vd, !.vd_room = room0, !.chain = chain0]
         /\ [C EXCEPT !.vd = vd]
              = [C EXCEPT !.vb = vb0, !.vd = vd, !.vd_room = room0, !.chain = chain0]
         /\ [C EXCEPT !.chain = chain]
              = [C EXCEPT !.vb = vb0, !.vd = vd0, !.vd_room = room0, !.chain = chain]
<1>1. DOMAIN C = BuilderFields
  BY DEF IsBuilder
<1> QED BY ONLY <1>1, vb0 = C.vb, vd0 = C.vd, room0 = C.vd_room, chain0 = C.chain
        DEF BuilderFields

LEMMA AllocKeeps ==
  ASSUME NEW C, IsBuilder(C)
  PROVE  Kept(alloc_vd(C), C)
<1>1. PICK vd, room, chain, vb0 :
        /\ vd = Append(C.vd, [nest_id |-> C.nest_id, vt_ref |-> 0, vb_start |-> 0])
        /\ room = (IF moved(C) THEN 2 * C.vd_room ELSE C.vd_room)
        /\ chain = <<Len(C.vd) + 1>> \o C.chain
        /\ vb0 = C.vb
  OBVIOUS
<1>2. PICK D : D = [C EXCEPT !.vd = vd, !.vd_room = room, !.chain = chain]
  OBVIOUS
<1>3. D = alloc_vd(C)
  BY <1>1, <1>2 DEF alloc_vd
<1>4. D = [C EXCEPT !.vb = vb0, !.vd = vd, !.vd_room = room, !.chain = chain]
  BY <1>1, <1>2, CacheFields
<1> QED BY <1>3, <1>4, CacheKept

LEMMA CacheEntriesKeeps ==
  ASSUME NEW C, IsBuilder(C), NEW vt
  PROVE  Kept(CacheEntries(C, vt), C)
<1>1. PICK room0, chain0 : room0 = C.vd_room /\ chain0 = C.chain
  OBVIOUS
<1>2. PICK F : F = flatcc_builder_flush_vtable_cache(C)
  OBVIOUS
<1>3. Kept(F, C)
  <2>1. PICK e : e = <<>>
    OBVIOUS
  <2>2. F = [C EXCEPT !.chain = e, !.vd = e, !.vb = e]
    BY <1>2, <2>1 DEF flatcc_builder_flush_vtable_cache
  <2>3. F = [C EXCEPT !.vb = e, !.vd = e, !.vd_room = room0, !.chain = e]
    BY <1>1, <2>2, CacheFields
  <2> QED BY <2>3, CacheKept
<1>4. PICK vd, vb : /\ vd = [C.vd EXCEPT ![Len(C.vd)].vb_start = Len(C.vb)]
                    /\ vb = C.vb \o vt
  OBVIOUS
<1>5. PICK G : G = [C EXCEPT !.vd = vd, !.vb = vb]
  OBVIOUS
<1>6. Kept(G, C)
  <2>1. G = [C EXCEPT !.vb = vb, !.vd = vd, !.vd_room = room0, !.chain = chain0]
    BY <1>1, <1>5, CacheFields
  <2> QED BY <2>1, CacheKept
<1>7. CacheEntries(C, vt) = F \/ CacheEntries(C, vt) = G
  BY <1>2, <1>4, <1>5 DEF CacheEntries
<1> QED BY <1>3, <1>6, <1>7

LEMMA CachedGood ==
  ASSUME NEW C, NEW v, Good(v, C), NEW vt, NEW starts
  PROVE  Good(Cached(v, vt, starts), C)
<1>1. CASE v.ref = 0
  BY <1>1 DEF Cached
<1>2. CASE v.ref # 0
  <2>1. PICK G, n, ref, at : /\ G = v.B /\ n = Len(v.B.vd) /\ ref = v.ref
                             /\ at = starts[1]
    OBVIOUS
  <2>2. Ready(G) /\ IsBuilder(G)
    BY <1>2, <2>1, GoodReady DEF Ready
  <2>3. PICK vd : vd = [G.vd EXCEPT ![n].vt_ref = ref]
    OBVIOUS
  <2>4. PICK D : D = [G EXCEPT !.vd = vd]
    OBVIOUS
  <2>5. PICK vb0, room0, chain0 : vb0 = G.vb /\ room0 = G.vd_room /\ chain0 = G.chain
    OBVIOUS
  <2>6. ASSUME NEW w, NEW F, F = [G EXCEPT !.vd = w] PROVE Kept(F, G)
    <3>1. F = [G EXCEPT !.vb = vb0, !.vd = w, !.vd_room = room0, !.chain = chain0]
      BY <2>2, <2>5, <2>6, CacheFields
    <3> QED BY <2>2, <3>1, CacheKept
  <2>7. Kept(D, G)
    BY <2>4, <2>6
  <2>8. PICK K : K = CacheEntries(D, vt)
    OBVIOUS
  <2>9. Kept(K, G)
    <3>1. Kept(K, D)
      BY <2>7, <2>8, CacheEntriesKeeps DEF Kept
    <3> QED BY <2>7, <3>1, KeptTwice
  <2>10. PICK w : w = [D.vd EXCEPT ![n].vb_start = at]
    OBVIOUS
  <2>11. PICK F : F = [D EXCEPT !.vd = w]
    OBVIOUS
  <2>12. Kept(F, G)
    <3>1. F = [G EXCEPT !.vd = w]
      BY ONLY <2>4, <2>11
    <3> QED BY <2>6, <3>1
  <2>13. Cached(v, vt, starts) = Result(K, ref) \/ Cached(v, vt, starts) = Result(F, ref)
    BY <1>2, <2>1, <2>3, <2>4, <2>8, <2>10, <2>11 DEF Cached
  <2>14. ASSUME NEW H, Kept(H, G) PROVE Good(Result(H, ref), C)
    <3>1. Ready(H)
      BY <2>2, <2>14, KeptReady
    <3>2. Good(Result(H, ref), H)
      BY <3>1, ReadyGood
    <3>3. Good(Result(H, ref), G)
      BY <2>14, <3>2, GoodAfterKept
    <3> QED BY <2>1, <3>3, GoodTwice
  <2>15. Good(Result(K, ref), C) /\ Good(Result(F, ref), C)
    BY <2>9, <2>12, <2>14
  <2> QED BY <2>13, <2>15
<1> QED BY <1>1, <1>2

LEMMA CachedVtableGood ==
  ASSUME NEW C, Ready(C), NEW vt, IsPiece(vt), NEW junk
  PROVE  Good(create_cached_vtable(C, vt, junk), C)
<1>1. PICK A : A = alloc_vd(C)
  OBVIOUS
<1>2. Kept(A, C) /\ Ready(A)
  BY <1>1, AllocKeeps, KeptReady DEF Ready
<1>3. PICK v : v = create_vtable(A, vt)
  OBVIOUS
<1>4. Good(v, C)
  BY <1>2, <1>3, CreateVtableGood, GoodAfterKept
<1>5. PICK vb0, vd0, room0 : vb0 = C.vb /\ vd0 = C.vd /\ room0 = C.vd_room
  OBVIOUS
<1>6. ASSUME NEW chain, NEW ref PROVE Good(Result([C EXCEPT !.chain = chain], ref), C)
  <2>1. PICK D : D = [C EXCEPT !.chain = chain]
    OBVIOUS
  <2>2. D = [C EXCEPT !.vb = vb0, !.vd = vd0, !.vd_room = room0, !.chain = chain]
    BY <1>5, <2>1, CacheFields DEF Ready
  <2>3. Kept(D, C)
    BY <2>2, CacheKept DEF Ready
  <2>4. Good(Result(D, ref), D)
    BY <2>3, KeptReady, ReadyGood
  <2> QED BY <2>1, <2>3, <2>4, GoodAfterKept
<1>7. ASSUME NEW starts PROVE Good(Cached(v, vt, starts), C)
  BY <1>4, CachedGood
<1> DEFINE known == SelectSeq(C.chain, LAMBDA i : Describes(C, C.vd[i], vt))
           here == SelectSeq(known, LAMBDA i : C.vd[i].nest_id = C.nest_id)
           starts == IF known = <<>> THEN <<>>
                     ELSE IF moved(C) THEN <<junk>>
                     ELSE <<C.vd[Last(known)].vb_start>>
           chain == <<here[1]>> \o SelectSeq(C.chain, LAMBDA i : i # here[1])
<1>8. create_cached_vtable(C, vt, junk)
        = IF here # <<>> THEN Result([C EXCEPT !.chain = chain], C.vd[here[1]].vt_ref)
          ELSE Cached(v, vt, starts)
  BY <1>1, <1>3, Zenon DEF create_cached_vtable
<1> HIDE DEF known, here, starts, chain
<1>9. CASE here # <<>>
  BY <1>6, <1>8, <1>9
<1>10. CASE here = <<>>
  BY <1>7, <1>8, <1>10
<1> QED BY <1>9, <1>10

-----------------------------------------------------------------------------
(* Tables and buffers *)

LEMMA PatchedPiece ==
  ASSUME NEW data, IsPiece(data), NEW offsets, NEW base
  PROVE  IsPiece(Patched(data, offsets, base))
<1>1. PICK n \in Nat : DOMAIN data = 1 .. n
  BY PieceLength
<1>2. PICK b : b = [at \in Range(offsets) |->
                      write_uoffset(RefAt(data, at) - base - at - field_size)]
  OBVIOUS
<1>3. PICK f : f = Overlaid(data, offsets, b)
  OBVIOUS
<1>4. f = [i \in 1 .. n |-> f[i]]
  BY ONLY <1>1, <1>3 DEF Overlaid
<1>5. f = Patched(data, offsets, base)
  BY <1>2, <1>3 DEF Patched
<1> QED BY <1>4, <1>5, CountedPiece

LEMMA CreateTableGood ==
  ASSUME NEW C, Ready(C), NEW data, IsPiece(data), NEW align \in Nat, NEW offsets, NEW vt_ref
  PROVE  Good(create_table(C, data, align, offsets, vt_ref), C)
<1>1. PICK n \in Int : n = Len(data)
  BY PieceLength
<1>2. PICK al \in Nat \ {0} : al = Greater(align, field_size)
  BY FieldAlign
<1>3. PICK pad \in Nat : pad = front_pad(C, n, al)
  BY FrontPadType DEF Ready
<1>4. PICK base : base = C.emit_start - (pad + n + field_size)
  OBVIOUS
<1>5. PICK x, patched : /\ x = base - (vt_ref - 1) /\ patched = Patched(data, offsets, base)
                        /\ IsPiece(patched)
  BY PatchedPiece
<1>6. PICK iov : iov = <<write_uoffset(x), patched, _pad(pad)>>
  OBVIOUS
<1>7. IsPieces(iov)
  BY <1>5, <1>6, PadPiece, UoffsetPiece, ThreePieces
<1>8. create_table(C, data, align, offsets, vt_ref) = emit_front(set_min_align(C, al), iov)
  BY <1>1, <1>2, <1>3, <1>4, <1>5, <1>6 DEF create_table
<1>9. al \in Nat
  OBVIOUS
<1> QED BY <1>7, <1>8, <1>9, AlignedGood

LEMMA EmitTableGood ==
  ASSUME NEW C, Ready(C), NEW c, NEW vt_ref
  PROVE  Good(EmitTable(C, c, vt_ref), C)
<1>1. PICK mem : mem = [i \in DOMAIN C.vs_mem |->
                          IF i \in C.vs - 2 .. C.vs + C.id_end - 1 THEN 0 ELSE C.vs_mem[i]]
  OBVIOUS
<1>2. PICK D : D = [C EXCEPT !.vs_mem = mem]
  OBVIOUS
<1>3. DOMAIN C = BuilderFields /\ C.min_align \in Nat /\ C.ds_offset \in Int /\ C.id_end \in Int
      /\ C.align \in Nat /\ IsBuilder(C)
  BY DEF Ready, IsBuilder
<1>4. D.min_align = C.min_align /\ D.ds_offset = C.ds_offset /\ D.id_end = C.id_end
  BY ONLY <1>2, <1>3 DEF BuilderFields
<1>5. SameEssentials(D, C)
  BY ONLY <1>2, <1>3 DEF BuilderFields, SameEssentials, Essential
<1>6. Kept(D, C) /\ Ready(D)
  BY <1>3, <1>4, <1>5, KeptByFields, KeptReady
<1>7. PICK data : data = Peek(C, 0, C.ds_offset) /\ IsPiece(data)
  BY <1>3, PeekPiece
<1>8. PICK offsets : offsets = [i \in 1 .. C.pl - c.pl_end |-> C.pl_mem[c.pl_end + i - 1]]
  OBVIOUS
<1>9. PICK al \in Nat : al = C.align
  BY <1>3
<1>10. EmitTable(C, c, vt_ref) = create_table(D, data, al, offsets, vt_ref)
  BY <1>1, <1>2, <1>7, <1>8, <1>9 DEF EmitTable
<1>11. Good(create_table(D, data, al, offsets, vt_ref), D)
  BY <1>6, <1>7, CreateTableGood
<1> QED BY <1>6, <1>10, <1>11, GoodAfterKept

\* A good call, some fields of whose builder get other values.
LEMMA GoodKept ==
  ASSUME NEW C, NEW r, Good(r, C), NEW D, Kept(D, r.B)
  PROVE  Good(Result(D, r.ref), C)
<1>1. IsBuilder(D) /\ SameOut(D, r.B) /\ D.frame = C.frame /\ D.align = C.align
  BY DEF Kept, Good
<1>2. IsStable(D.E)
  BY <1>1 DEF Good, SameOut
<1>3. r.ref # 0 => IsHolding(D)
  BY <1>1, SameOutHolding DEF Good
<1> QED BY <1>1, <1>2, <1>3 DEF Good, Result

LEMMA TableEndedOutcome ==
  ASSUME NEW C, NEW ks, Standing(C, ks), Len(ks) > 0, NEW r, Good(r, C), NEW c, c.id_end \in Int
  PROVE  Outcome(TableEnded(r, c), Front(ks))
<1>1. PICK F, u, v, w : F = r.B /\ u = c.id_end /\ v = c.vs_end /\ w = c.pl_end
  OBVIOUS
<1>2. PICK D : D = [F EXCEPT !.id_end = u, !.vs = v, !.pl = w]
  OBVIOUS
<1>3. DOMAIN F = BuilderFields /\ F.min_align \in Nat /\ F.ds_offset \in Int /\ IsBuilder(F)
  BY <1>1 DEF Good, IsBuilder
<1>4. D.min_align = F.min_align /\ D.ds_offset = F.ds_offset /\ D.id_end = u
  BY ONLY <1>2, <1>3 DEF BuilderFields
<1>5. SameEssentials(D, F)
  BY ONLY <1>2, <1>3 DEF BuilderFields, SameEssentials, Essential
<1>6. Kept(D, F)
  BY <1>1, <1>3, <1>4, <1>5, KeptByFields
<1>7. Good(Result(D, r.ref), C)
  BY <1>1, <1>6, GoodKept
<1>8. TableEnded(r, c) = Ended(Result(D, r.ref))
  BY <1>1, <1>2 DEF TableEnded
<1> QED BY <1>7, <1>8, EndedOutcome

LEMMA EndTableOutcome ==
  ASSUME NEW C, NEW ks, Standing(C, ks), Len(ks) > 0, ks[Len(ks)] = "table", IsHolding(C),
         NEW junk
  PROVE  Outcome(end_table(C, junk), Front(ks))
<1>1. Ready(C) /\ C.id_end \in Int
  BY StandingFields DEF Ready
<1>2. PICK x, y, e : /\ x = voffset_size * (C.id_end + 2)
                     /\ y = voffset(C.ds_offset + field_size)
                     /\ e = [i \in 1 .. C.id_end |-> C.vs_mem[C.vs + i - 1]]
  OBVIOUS
<1>3. IsPiece(<<x, y>>)
  <2>1. <<x, y>> \in Seq({x, y})
    OBVIOUS
  <2> QED BY <2>1 DEF IsPiece
<1>4. IsPiece(e)
  <2>1. PICK n \in Int : n = C.id_end
    BY <1>1
  <2>2. e = [i \in 1 .. n |-> e[i]]
    BY ONLY <1>2, <2>1
  <2> QED BY <2>2, CountedPiece
<1>5. PICK vt : vt = <<x, y>> \o e /\ IsPiece(vt)
  BY <1>3, <1>4, ConcatPiece
<1>6. PICK v : v = create_cached_vtable(C, vt, junk)
  OBVIOUS
<1>7. Good(v, C)
  BY <1>1, <1>5, <1>6, CachedVtableGood
<1>8. PICK c : c = frame(C).c /\ c.id_end \in Int
  BY InnermostFrame DEF IsContainer
<1>9. PICK F, t : F = v.B /\ t = EmitTable(F, c, v.ref)
  OBVIOUS
<1>10. end_table(C, junk) = IF v.ref = 0 THEN v ELSE TableEnded(t, c)
  BY <1>2, <1>5, <1>6, <1>8, <1>9 DEF end_table
<1>11. CASE v.ref = 0
  BY <1>7, <1>10, <1>11 DEF Good, Outcome
<1>12. CASE v.ref # 0
  <2>1. Ready(F)
    BY <1>7, <1>9, <1>12, GoodReady
  <2>2. Good(t, F)
    BY <1>9, <2>1, EmitTableGood
  <2>3. Good(t, C)
    BY <1>7, <1>9, <2>2, GoodTwice
  <2> QED BY <1>8, <1>10, <1>12, <2>3, TableEndedOutcome
<1> QED BY <1>11, <1>12

LEMMA AlignToBlockGood ==
  ASSUME NEW C, Ready(C), NEW block \in Nat \ {0}, NEW is_nested
  PROVE  Good(align_to_block(C, block, is_nested), C)
<1>1. PICK x \in Int : x = C.emit_end
  BY DEF Ready, IsBuilder
<1>2. x % block \in Int
  OBVIOUS
<1>3. PICK pad \in Int : pad = back_pad(C, block)
  BY <1>1, <1>2 DEF back_pad
<1>4. PICK iov : iov = <<_pad(pad)>> /\ IsPieces(iov)
  BY PadPiece, OnePiece
<1>5. align_to_block(C, block, is_nested) = Result(C, 1)
      \/ align_to_block(C, block, is_nested) = emit_back(C, iov)
  BY <1>3, <1>4 DEF align_to_block
<1>6. Good(emit_back(C, iov), C)
  BY <1>4, EmitBackGood DEF Ready
<1> QED BY <1>5, <1>6, ReadyGood

LEMMA WithHeaderGood ==
  ASSUME NEW C, NEW a, Good(a, C), NEW object_ref, NEW align \in Nat \ {0}, NEW is_nested,
         NEW with_size
  PROVE  Good(WithHeader(a, _pad(4), object_ref, align, is_nested, with_size), C)
<1>1. CASE a.ref = 0
  BY <1>1 DEF WithHeader
<1>2. CASE a.ref # 0
  <2>1. PICK F : F = a.B
    OBVIOUS
  <2>2. Ready(F)
    BY <1>2, <2>1, GoodReady
  <2>3. PICK id : id = <<>> /\ Len(id) = 0 /\ IsPiece(id)
    BY EmptyPiece
  <2>4. PICK size \in Int :
           size = field_size + Len(id) + (IF with_size THEN field_size ELSE 0)
    BY <2>3 DEF field_size
  <2>5. PICK pad \in Nat : pad = front_pad(F, size, align)
    BY <2>2, FrontPadType DEF Ready
  <2>6. PICK base, end : /\ base = F.emit_start - (field_size + Len(id) + pad)
                         /\ end = IF is_nested THEN F.buffer_mark ELSE F.emit_end
    OBVIOUS
  <2>7. PICK x, y, first : /\ x = end - base /\ y = object_ref - base
                           /\ first = IF is_nested \/ with_size THEN write_uoffset(x) ELSE <<>>
    OBVIOUS
  <2>8. IsPiece(first) /\ IsPiece(write_uoffset(y)) /\ IsPiece(_pad(pad))
    BY <2>7, EmptyPiece, UoffsetPiece, PadPiece
  <2>9. PICK iov : iov = <<first, write_uoffset(y), id, _pad(pad)>> /\ IsPieces(iov)
    BY <2>3, <2>8, FourPieces
  <2>10. WithHeader(a, _pad(4), object_ref, align, is_nested, with_size)
           = emit_front(set_min_align(F, align), iov)
    BY <1>2, <2>1, <2>3, <2>4, <2>5, <2>6, <2>7, <2>9 DEF WithHeader
  <2>11. Good(emit_front(set_min_align(F, align), iov), F)
    <3>1. align \in Nat
      OBVIOUS
    <3> QED BY <2>2, <2>9, <3>1, AlignedGood
  <2> QED BY <2>1, <2>10, <2>11, GoodTwice
<1> QED BY <1>1, <1>2

LEMMA CreateBufferGood ==
  ASSUME NEW C, Ready(C), NEW block_align \in Nat, NEW object_ref, NEW align \in Nat,
         NEW is_nested, NEW with_size
  PROVE  Good(create_buffer(C, _pad(4), block_align, object_ref, align, is_nested, with_size), C)
<1>1. C.block_align \in Nat
  BY DEF Ready, IsBuilder
<1>2. PICK block \in Nat \ {0} : block = IF block_align # 0 THEN block_align
                                        ELSE IF C.block_align # 0 THEN C.block_align ELSE 1
  BY <1>1
<1>3. PICK a : a = align_to_block(C, block, is_nested) /\ Good(a, C)
  BY AlignToBlockGood
<1>4. PICK most \in Nat \ {0} : most = Greater(Greater(align, field_size), block)
  <2>1. PICK al \in Nat \ {0} : al = Greater(align, field_size)
    BY FieldAlign
  <2> QED BY <2>1 DEF Greater
<1>5. create_buffer(C, _pad(4), block_align, object_ref, align, is_nested, with_size)
        = WithHeader(a, _pad(4), object_ref, most, is_nested, with_size)
  BY <1>2, <1>3, <1>4 DEF create_buffer
<1> QED BY <1>3, <1>5, WithHeaderGood

LEMMA OutsideOutcome ==
  ASSUME NEW C, NEW ks, Standing(C, ks), Len(ks) > 0, NEW r, Good(r, C),
         NEW c, c.identifier = _pad(4)
  PROVE  Outcome(Outside(r, c), Front(ks))
<1>1. PICK F, u, v, w, p : /\ F = r.B /\ u = c.mark /\ v = c.nest_id /\ w = c.with_size
                           /\ p = c.identifier
  OBVIOUS
<1>2. PICK D : D = [F EXCEPT !.buffer_mark = u, !.nest_id = v, !.identifier = p,
                             !.with_size = w]
  OBVIOUS
<1>3. /\ DOMAIN F = BuilderFields /\ F.min_align \in Nat /\ F.ds_offset \in Int
      /\ F.id_end \in Int /\ IsBuilder(F) /\ F.identifier = p
  BY <1>1 DEF Good, IsBuilder
<1>4. D.min_align = F.min_align /\ D.ds_offset = F.ds_offset /\ D.id_end = F.id_end
  BY ONLY <1>2, <1>3 DEF BuilderFields
<1>5. SameEssentials(D, F)
  BY ONLY <1>2, <1>3 DEF BuilderFields, SameEssentials, Essential
<1>6. Kept(D, F)
  BY <1>3, <1>4, <1>5, KeptByFields
<1>7. Good(Result(D, r.ref), C)
  BY <1>1, <1>6, GoodKept
<1>8. Outside(r, c) = Ended(Result(D, r.ref))
  BY <1>1, <1>2 DEF Outside
<1> QED BY <1>7, <1>8, EndedOutcome

LEMMA EndBufferOutcome ==
  ASSUME NEW C, NEW ks, Standing(C, ks), Len(ks) > 0, ks[Len(ks)] = "buffer", IsHolding(C),
         NEW root
  PROVE  Outcome(end_buffer(C, root), Front(ks))
<1>1. /\ IsBuilder(C) /\ DOMAIN C = BuilderFields /\ C.min_align \in Nat /\ C.block_align \in Nat
      /\ C.ds_offset \in Int /\ C.id_end \in Int /\ C.identifier = _pad(4) /\ Ready(C)
  BY DEF Standing, IsBuilder, Ready
<1>2. PICK al \in Nat : al = Greater(C.min_align, C.block_align)
  BY <1>1, GreaterType
<1>3. PICK D : D = [C EXCEPT !.min_align = al]
  OBVIOUS
<1>4. D.min_align = al /\ D.ds_offset = C.ds_offset /\ D.id_end = C.id_end
  BY ONLY <1>1, <1>3 DEF BuilderFields
<1>5. SameEssentials(D, C)
  BY ONLY <1>1, <1>3 DEF BuilderFields, SameEssentials, Essential
<1>6. Kept(D, C) /\ Ready(D)
  BY <1>1, <1>4, <1>5, KeptByFields, KeptReady
<1>7. PICK block \in Nat : block = C.block_align
  BY <1>1
<1>8. PICK nested, sized : nested = ~is_top_buffer(C) /\ sized = C.with_size
  OBVIOUS
<1>9. PICK r : r = create_buffer(D, _pad(4), block, root, al, nested, sized)
  OBVIOUS
<1>10. Good(r, C)
  BY <1>6, <1>9, CreateBufferGood, GoodAfterKept
<1>11. PICK c : c = frame(C).c /\ c.identifier = _pad(4)
  BY InnermostFrame DEF IsContainer
<1>12. end_buffer(C, root) = Outside(r, c)
  BY <1>1, <1>2, <1>3, <1>7, <1>8, <1>9, <1>11 DEF end_buffer
<1> QED BY <1>10, <1>11, <1>12, OutsideOutcome

-----------------------------------------------------------------------------
(* A builder that starts, or starts again *)

LEMMA NoFrames ==
  ASSUME NEW a
  PROVE  IsFrames(<<>>, a, <<>>)
<1>1. <<>> \in Seq(Kinds) /\ Len(<<>>) = 0 /\ 1 .. 0 = {} /\ 1 .. 0 - 1 = {} /\ ~(0 > 0)
  OBVIOUS
<1>2. \E S : <<>> \in Seq(S)
  BY <1>1
<1> QED BY ONLY <1>1, <1>2 DEF IsFrames

\* C is as before the first object of a document.
Fresh(C) == Standing(C, <<>>) /\ IsHolding(C)

LEMMA FreshFields ==
  ASSUME NEW C, DOMAIN C = BuilderFields, C.align \in Nat, C.block_align \in Nat,
         C.id_end \in Int, C.identifier = _pad(4), C.min_align = 0, C.ds_offset = 0,
         C.emit_start = 0, C.emit_end = 0, C.frame = <<>>,
         C.sent = [start |-> 0, bytes |-> <<>>],
         NEW V, Holds(C.E, V, 0, <<>>), C.E.used = 0 \/ C.E.memory = 0
  PROVE  Fresh(C)
<1>1. /\ DOMAIN C.sent = {"start", "bytes"} /\ C.sent.start = 0 /\ C.sent.bytes = <<>>
      /\ Len(<<>>) = 0
  OBVIOUS
<1>2. IsBuilder(C)
  BY <1>1 DEF IsBuilder
<1>3. IsHolding(C)
  BY <1>1 DEF IsHolding
<1> QED BY <1>2, <1>3, NoFrames DEF Fresh, Standing

LEMMA ResetFresh ==
  ASSUME NEW C, IsBuilder(C), IsStable(C.E), NEW set_defaults
  PROVE  Fresh(flatcc_builder_custom_reset(C, set_defaults))
<1>1. PICK V : IsSound(C.E, V)
  BY DEF IsStable
<1>2. PICK F : F = flatcc_emitter_reset(C.E)
  OBVIOUS
<1>3. /\ C.E.front = NULL => F = C.E
      /\ C.E.front # NULL => AtStart(F, V)
      /\ Holds(F, V, 0, <<>>)
  BY <1>1, <1>2, ResetStarts
<1>4. F.used = 0 \/ F.memory = 0
  BY <1>3 DEF IsStable, AtStart
<1>5. PICK none, zero, mem, vs, pl, limit, dis, s :
        /\ none = <<>> /\ zero = 0
        /\ mem = _pad(Len(C.ds_mem)) /\ vs = [i \in DOMAIN C.vs_mem |-> 0]
        /\ pl = [i \in DOMAIN C.pl_mem |-> 0]
        /\ limit = (IF set_defaults THEN 0 ELSE C.vb_flush_limit)
        /\ dis = (IF set_defaults THEN FALSE ELSE C.disable_vt_clustering)
        /\ s = [start |-> 0, bytes |-> <<>>]
  OBVIOUS
<1>6. PICK D : D = [C EXCEPT !.ds_mem = mem, !.vs_mem = vs, !.pl_mem = pl,
                       !.vb = none, !.vd = none, !.chain = none,
                       !.min_align = zero, !.emit_start = zero, !.emit_end = zero,
                       !.frame = none, !.ds_offset = zero, !.ds_limit = zero,
                       !.nest_count = zero, !.nest_id = zero,
                       !.ds = zero, !.pl = zero, !.vs = zero,
                       !.vb_flush_limit = limit, !.disable_vt_clustering = dis,
                       !.E = F, !.sent = s]
  OBVIOUS
<1>7. D = flatcc_builder_custom_reset(C, set_defaults)
  BY <1>2, <1>5, <1>6 DEF flatcc_builder_custom_reset
<1>8. DOMAIN C = BuilderFields
  BY DEF IsBuilder
<1>9. /\ DOMAIN D = BuilderFields /\ D.align = C.align /\ D.block_align = C.block_align
      /\ D.id_end = C.id_end /\ D.identifier = C.identifier /\ D.min_align = zero
      /\ D.ds_offset = zero /\ D.emit_start = zero /\ D.emit_end = zero /\ D.frame = none
      /\ D.sent = s /\ D.E = F
  BY ONLY <1>6, <1>8 DEF BuilderFields
<1>10. /\ C.align \in Nat /\ C.block_align \in Nat /\ C.id_end \in Int
       /\ C.identifier = _pad(4)
  BY DEF IsBuilder
<1>11. Fresh(D)
  BY ONLY <1>3, <1>4, <1>5, <1>9, <1>10, FreshFields
<1> QED BY <1>7, <1>11

LEMMA InitFields ==
  ASSUME NEW memory
  PROVE  LET D == flatcc_builder_init(memory)
         IN  /\ DOMAIN D = BuilderFields /\ D.align = 0 /\ D.block_align = 0
             /\ D.id_end = 0 /\ D.identifier = _pad(4) /\ D.min_align = 0
             /\ D.ds_offset = 0 /\ D.emit_start = 0 /\ D.emit_end = 0 /\ D.frame = <<>>
             /\ D.sent = [start |-> 0, bytes |-> <<>>]
             /\ D.E = flatcc_emitter_init(memory)
  BY DEF flatcc_builder_init, BuilderFields

LEMMA InitFresh ==
  ASSUME NEW memory \in 0 .. Cardinality(Pages), NEW f, NEW d
  PROVE  Fresh([flatcc_builder_init(memory) EXCEPT !.vb_flush_limit = f,
                                                   !.disable_vt_clustering = d])
<1>1. PICK C : C = flatcc_builder_init(memory)
  OBVIOUS
<1>2. PICK F : F = flatcc_emitter_init(memory)
  OBVIOUS
<1>3. Holds(F, {Garbage}, 0, <<>>) /\ F.used = 0
  BY <1>2, InitHolds
<1>4. PICK s, p, none : s = [start |-> 0, bytes |-> <<>>] /\ p = _pad(4) /\ none = <<>>
  OBVIOUS
<1>5. /\ DOMAIN C = BuilderFields /\ C.align = 0 /\ C.block_align = 0
      /\ C.id_end = 0 /\ C.identifier = p /\ C.min_align = 0
      /\ C.ds_offset = 0 /\ C.emit_start = 0 /\ C.emit_end = 0 /\ C.frame = none
      /\ C.sent = s /\ C.E = F
  BY <1>1, <1>2, <1>4, InitFields
<1>6. PICK D : D = [C EXCEPT !.vb_flush_limit = f, !.disable_vt_clustering = d]
  OBVIOUS
<1>7. /\ DOMAIN D = BuilderFields /\ D.align = 0 /\ D.block_align = 0
      /\ D.id_end = 0 /\ D.identifier = p /\ D.min_align = 0
      /\ D.ds_offset = 0 /\ D.emit_start = 0 /\ D.emit_end = 0 /\ D.frame = none
      /\ D.sent = s /\ D.E = F
  BY ONLY <1>5, <1>6 DEF BuilderFields
<1>8. 0 \in Nat /\ 0 \in Int
  OBVIOUS
<1>9. Fresh(D)
  BY ONLY <1>3, <1>4, <1>7, <1>8, FreshFields
<1> QED BY <1>1, <1>6, <1>9

LEMMA ClearFresh ==
  ASSUME NEW C, IsBuilder(C), IsStable(C.E)
  PROVE  Fresh(flatcc_builder_clear(C))
<1>1. PICK V : IsSound(C.E, V)
  BY DEF IsStable
<1>2. PICK F : F = flatcc_emitter_clear(C.E)
  OBVIOUS
<1>3. /\ C.E.front = NULL => F = C.E
      /\ C.E.front # NULL => F.used = 0
      /\ Holds(F, V, 0, <<>>)
  BY <1>1, <1>2, ClearHolds
<1>4. F.used = 0 \/ F.memory = 0
  BY <1>3 DEF IsStable
<1>5. PICK G : G = flatcc_builder_init(C.E.memory)
  OBVIOUS
<1>6. PICK s, p, none : s = [start |-> 0, bytes |-> <<>>] /\ p = _pad(4) /\ none = <<>>
  OBVIOUS
<1>7. /\ DOMAIN G = BuilderFields /\ G.align = 0 /\ G.block_align = 0
      /\ G.id_end = 0 /\ G.identifier = p /\ G.min_align = 0
      /\ G.ds_offset = 0 /\ G.emit_start = 0 /\ G.emit_end = 0 /\ G.frame = none
      /\ G.sent = s
  BY <1>5, <1>6, InitFields
<1>8. PICK D : D = [G EXCEPT !.E = F]
  OBVIOUS
<1>9. /\ DOMAIN D = BuilderFields /\ D.align = 0 /\ D.block_align = 0
      /\ D.id_end = 0 /\ D.identifier = p /\ D.min_align = 0
      /\ D.ds_offset = 0 /\ D.emit_start = 0 /\ D.emit_end = 0 /\ D.frame = none
      /\ D.sent = s /\ D.E = F
  BY ONLY <1>7, <1>8 DEF BuilderFields
<1>10. 0 \in Nat /\ 0 \in Int
  OBVIOUS
<1>11. Fresh(D)
  BY ONLY <1>3, <1>4, <1>6, <1>9, <1>10, FreshFields
<1>12. D = flatcc_builder_clear(C)
  BY <1>2, <1>5, <1>8 DEF flatcc_builder_clear
<1> QED BY <1>11, <1>12

-----------------------------------------------------------------------------
(* The open objects *)

IsOpen(op) ==
    /\ \E S : op \in Seq(S)
    /\ \A l \in 1 .. Len(op) : DOMAIN op[l] = {"o", "parts"} /\ op[l].o \in Objects
KindsOf(op) == [l \in 1 .. Len(op) |-> Doc[op[l].o].kind]

LEMMA DocFacts == \A o \in Objects : IsObject(Doc[o]) /\ Doc[o].kind \in Kinds
  BY DocAssumption DEF DocAssumption, IsObject, Objects

LEMMA KindsOfOpen ==
  ASSUME NEW op, IsOpen(op)
  PROVE  /\ Len(op) \in Nat /\ KindsOf(op) \in Seq(Kinds) /\ Len(KindsOf(op)) = Len(op)
         /\ \A l \in 1 .. Len(op) : KindsOf(op)[l] = Doc[op[l].o].kind
<1>1. PICK n \in Nat : n = Len(op)
  BY DEF IsOpen
<1>2. PICK ks : ks = KindsOf(op)
  OBVIOUS
<1>3. ks = [l \in 1 .. n |-> Doc[op[l].o].kind]
  BY <1>1, <1>2 DEF KindsOf
<1>4. \A l \in 1 .. n : Doc[op[l].o].kind \in Kinds
  BY <1>1, DocFacts DEF IsOpen
<1>5. ks \in [1 .. n -> Kinds]
  BY ONLY <1>3, <1>4
<1>6. ks \in Seq(Kinds) /\ Len(ks) = n
  BY ONLY <1>5, n \in Nat
<1> QED BY ONLY <1>1, <1>2, <1>3, <1>6

LEMMA OpenedKinds ==
  ASSUME NEW op, IsOpen(op), NEW o \in Objects
  PROVE  LET more == Append(op, [o |-> o, parts |-> {}])
         IN  IsOpen(more) /\ KindsOf(more) = Append(KindsOf(op), Doc[o].kind)
<1>1. PICK S : op \in Seq(S)
  BY DEF IsOpen
<1>2. PICK n \in Nat : n = Len(op)
  BY <1>1
<1>3. PICK f : f = [o |-> o, parts |-> {}]
  OBVIOUS
<1>4. PICK more : more = Append(op, f)
  OBVIOUS
<1>5. /\ more \in Seq(S \cup {f}) /\ Len(more) = n + 1 /\ more[n + 1] = f
      /\ \A l \in 1 .. n : more[l] = op[l]
  <2>1. op \in Seq(S \cup {f})
    BY <1>1
  <2> QED BY <1>2, <1>4, <2>1, AppendAt
<1>6. DOMAIN f = {"o", "parts"} /\ f.o = o
  BY <1>3
<1>7. ASSUME NEW l \in 1 .. n + 1
      PROVE  DOMAIN more[l] = {"o", "parts"} /\ more[l].o \in Objects
  <2>1. CASE l = n + 1
    BY <1>5, <1>6, <2>1
  <2>2. CASE l # n + 1
    <3>1. l \in 1 .. n
      BY <2>2
    <3> QED BY <1>2, <1>5, <3>1 DEF IsOpen
  <2> QED BY <2>1, <2>2
<1>8. IsOpen(more)
  BY <1>5, <1>7 DEF IsOpen
<1>9. PICK ks, ls, k : ks = KindsOf(op) /\ ls = KindsOf(more) /\ k = Doc[o].kind
  OBVIOUS
<1>10. /\ ks \in Seq(Kinds) /\ Len(ks) = n /\ k \in Kinds
       /\ \A l \in 1 .. n : ks[l] = Doc[op[l].o].kind
  BY <1>2, <1>9, KindsOfOpen, DocFacts
<1>11. /\ ls \in Seq(Kinds) /\ Len(ls) = n + 1
       /\ \A l \in 1 .. n + 1 : ls[l] = Doc[more[l].o].kind
  BY <1>5, <1>8, <1>9, KindsOfOpen
<1>12. PICK t : t = Append(ks, k)
  OBVIOUS
<1>13. /\ t \in Seq(Kinds) /\ Len(t) = n + 1 /\ t[n + 1] = k
       /\ \A l \in 1 .. n : t[l] = ks[l]
  BY <1>10, <1>12, AppendAt
<1>14. ASSUME NEW l \in 1 .. n + 1 PROVE ls[l] = t[l]
  <2>1. CASE l = n + 1
    BY <1>5, <1>6, <1>9, <1>11, <1>13, <2>1
  <2>2. CASE l # n + 1
    <3>1. l \in 1 .. n
      BY <2>2
    <3> QED BY <1>5, <1>10, <1>11, <1>13, <3>1
  <2> QED BY <2>1, <2>2
<1>15. ls = t
  BY ONLY <1>11, <1>13, <1>14
<1> QED BY <1>3, <1>4, <1>8, <1>9, <1>12, <1>15

LEMMA ClosedKinds ==
  ASSUME NEW op, IsOpen(op), op # <<>>
  PROVE  IsOpen(Front(op)) /\ KindsOf(Front(op)) = Front(KindsOf(op))
<1>1. PICK S : op \in Seq(S)
  BY DEF IsOpen
<1>2. Len(op) \in Nat /\ Len(op) # 0
  BY <1>1, EmptySeq
<1>3. PICK n \in Nat : n + 1 = Len(op)
  <2>1. Len(op) - 1 \in Nat /\ (Len(op) - 1) + 1 = Len(op)
    BY <1>2
  <2> QED BY <2>1
<1>4. PICK less : less = Front(op)
  OBVIOUS
<1>5. less \in Seq(S) /\ Len(less) = n /\ \A l \in 1 .. n : less[l] = op[l]
  <2>1. less = SubSeq(op, 1, n)
    BY <1>2, <1>3, <1>4 DEF Front
  <2>2. n \in 0 .. Len(op)
    BY <1>2, <1>3
  <2> QED BY <1>1, <2>1, <2>2, FirstType
<1>6. ASSUME NEW l \in 1 .. n
      PROVE  DOMAIN less[l] = {"o", "parts"} /\ less[l].o \in Objects
  <2>1. l \in 1 .. Len(op)
    BY <1>3
  <2> QED BY <1>5, <2>1 DEF IsOpen
<1>7. IsOpen(less)
  BY <1>5, <1>6 DEF IsOpen
<1>8. PICK ks, ls : ks = KindsOf(op) /\ ls = KindsOf(less)
  OBVIOUS
<1>9. /\ ks \in Seq(Kinds) /\ Len(ks) = n + 1
      /\ \A l \in 1 .. n + 1 : ks[l] = Doc[op[l].o].kind
  BY <1>3, <1>8, KindsOfOpen
<1>10. /\ ls \in Seq(Kinds) /\ Len(ls) = n
       /\ \A l \in 1 .. n : ls[l] = Doc[less[l].o].kind
  BY <1>5, <1>7, <1>8, KindsOfOpen
<1>11. PICK t : t = Front(ks)
  OBVIOUS
<1>12. t \in Seq(Kinds) /\ Len(t) = n /\ \A l \in 1 .. n : t[l] = ks[l]
  <2>1. t = SubSeq(ks, 1, n)
    BY <1>9, <1>11 DEF Front
  <2>2. n \in 0 .. Len(ks)
    BY <1>9
  <2> QED BY <1>9, <2>1, <2>2, FirstType
<1>13. ASSUME NEW l \in 1 .. n PROVE ls[l] = t[l]
  <2>1. l \in 1 .. n + 1
    OBVIOUS
  <2> QED BY <1>5, <1>9, <1>10, <1>12, <2>1
<1>14. ls = t
  BY ONLY <1>10, <1>12, <1>13
<1> QED BY <1>4, <1>7, <1>8, <1>11, <1>14

LEMMA PartsKinds ==
  ASSUME NEW op, IsOpen(op), op # <<>>, NEW s
  PROVE  LET more == [op EXCEPT ![Len(op)].parts = s]
         IN  IsOpen(more) /\ KindsOf(more) = KindsOf(op)
<1>1. PICK S : op \in Seq(S)
  BY DEF IsOpen
<1>2. PICK n \in Nat : n = Len(op) /\ n # 0
  BY <1>1, EmptySeq
<1>3. PICK f : f = [op[n] EXCEPT !.parts = s]
  OBVIOUS
<1>4. PICK more : more = [op EXCEPT ![n] = f]
  OBVIOUS
<1>5. more = [op EXCEPT ![Len(op)].parts = s]
  BY ONLY <1>2, <1>3, <1>4
<1>6. DOMAIN f = {"o", "parts"} /\ f.o = op[n].o /\ f.o \in Objects
  <2>1. DOMAIN op[n] = {"o", "parts"} /\ op[n].o \in Objects
    <3>1. n \in 1 .. Len(op)
      BY <1>2
    <3> QED BY <3>1 DEF IsOpen
  <2> QED BY ONLY <1>3, <2>1
<1>7. /\ more \in Seq(S \cup {f}) /\ Len(more) = n
      /\ \A l \in 1 .. n : more[l] = IF l = n THEN f ELSE op[l]
  BY ONLY <1>1, <1>2, <1>4
<1>8. ASSUME NEW l \in 1 .. n
      PROVE  DOMAIN more[l] = {"o", "parts"} /\ more[l].o \in Objects /\ more[l].o = op[l].o
  BY <1>2, <1>6, <1>7 DEF IsOpen
<1>9. IsOpen(more)
  BY <1>7, <1>8 DEF IsOpen
<1>10. KindsOf(more) = KindsOf(op)
  <2>1. \A l \in 1 .. n : Doc[more[l].o].kind = Doc[op[l].o].kind
    BY <1>8
  <2> QED BY ONLY <1>2, <1>7, <2>1 DEF KindsOf
<1> QED BY <1>5, <1>9, <1>10

-----------------------------------------------------------------------------
(* The session *)

\* A builder C with these open objects in this phase.
State(C, op, ph) ==
    /\ IsOpen(op)
    /\ IsBuilder(C) /\ IsStable(C.E)
    /\ ph # "failed" => IsHolding(C)
    /\ ph = "building" => Standing(C, KindsOf(op))

\* The inductive invariant.
SessionInv == State(B, open, phase) /\ top \in Objects

\* The client builds: what is open is on the builder's stack of frames.
LEMMA BuildingState ==
  ASSUME SessionInv, phase = "building"
  PROVE  /\ Standing(B, KindsOf(open)) /\ Ready(B) /\ IsHolding(B) /\ IsOpen(open)
         /\ KindsOf(open) \in Seq(Kinds) /\ Len(KindsOf(open)) = Len(open) /\ Len(open) \in Nat
<1>1. IsOpen(open) /\ IsBuilder(B) /\ IsHolding(B) /\ Standing(B, KindsOf(open))
  BY DEF SessionInv, State
<1> QED BY <1>1, KindsOfOpen DEF Ready

LEMMA InnermostKind ==
  ASSUME SessionInv, open # <<>>
  PROVE  /\ Innermost.o \in Objects /\ Len(KindsOf(open)) > 0
         /\ KindsOf(open)[Len(KindsOf(open))] = Doc[Innermost.o].kind
<1>1. IsOpen(open)
  BY DEF SessionInv, State
<1>2. Len(open) \in Nat /\ Len(open) # 0
  BY <1>1, EmptySeq DEF IsOpen
<1>3. Len(open) \in 1 .. Len(open)
  BY <1>2
<1> QED BY <1>1, <1>2, <1>3, KindsOfOpen DEF Innermost, IsOpen

LEMMA SeqPiece ==
  ASSUME NEW s, IsSeq(s)
  PROVE  IsPiece(s) /\ Len(s) \in Nat
<1>1. PICK n \in Int : n = Len(s)
  BY DEF IsSeq
<1>2. s = [i \in 1 .. n |-> s[i]] /\ Len(s) \in Nat
  BY <1>1 DEF IsSeq
<1> QED BY ONLY <1>2, n \in Int, CountedPiece

LEMMA SeqPieces ==
  ASSUME NEW s, IsSeq(s), \A i \in DOMAIN s : IsSeq(s[i])
  PROVE  IsPiece(FlattenSeq(s))
<1>1. PICK n \in Int : n = Len(s)
  BY DEF IsSeq
<1>2. s = [i \in 1 .. n |-> s[i]]
  BY <1>1 DEF IsSeq
<1>3. DOMAIN s = 1 .. n
  BY ONLY <1>2
<1>4. \A i \in 1 .. n : IsPiece(s[i])
  BY <1>3, SeqPiece
<1>5. IsPieces(s)
  BY ONLY <1>2, <1>4, n \in Int, CountedPieces
<1> QED BY <1>5, GatheredPiece DEF Gathered

LEMMA StartedBegins ==
  ASSUME NEW ks, Standing(B, ks), NEW o \in Objects
  PROVE  Begun(Started(o), B, ks, Doc[o].kind)
<1>1. PICK d : d = Doc[o]
  OBVIOUS
<1>2. IsObject(d) /\ d.kind \in Kinds
  BY <1>1, DocFacts
<1>3. field_size \in Nat /\ field_size \in Int /\ union_size \in Int /\ 1 \in Nat /\ 1 \in Int
  BY DEF field_size, union_size
<1>4. Started(o) = CASE d.kind = "buffer" -> start_buffer(B, _pad(4), d.block_align, FALSE)
          [] d.kind = "table" -> start_table(B)
          [] d.kind = "string" -> start_string(B)
          [] d.kind = "vector" -> start_vector(B, Len(d.elems[1]), d.align)
          [] d.kind = "offsets" -> start_offset_vector(B)
          [] d.kind = "unions" -> start_union_vector(B)
          [] d.kind = "struct" -> Poke(start_struct(B, Len(d.data), d.align), 0, d.data)
  BY ONLY <1>1 DEF Started
<1>5. CASE d.kind = "buffer"
  <2>1. d.block_align \in Nat
    BY <1>2, <1>5 DEF IsObject
  <2>2. Started(o) = start_buffer(B, _pad(4), d.block_align, FALSE)
    BY ONLY <1>4, <1>5
  <2> QED BY <1>1, <1>5, <2>1, <2>2, StartBufferBegins
<1>6. CASE d.kind = "table"
  <2>1. Started(o) = start_table(B)
    BY ONLY <1>4, <1>6
  <2> QED BY <1>1, <1>6, <2>1, StartTableBegins
<1>7. CASE d.kind = "string"
  <2>1. Started(o) = start_elements(B, "string", 1, 1)
    BY ONLY <1>4, <1>7 DEF start_string
  <2>2. "string" \in Elements
    BY DEF Elements
  <2> QED BY <1>1, <1>3, <1>7, <2>1, <2>2, StartElementsBegins
<1>8. CASE d.kind = "vector"
  <2>1. d.align \in Nat /\ IsSeq(d.elems) /\ d.elems # <<>> /\ \A i \in DOMAIN d.elems : IsSeq(d.elems[i])
    BY <1>2, <1>8 DEF IsObject
  <2>2. 1 \in DOMAIN d.elems
    <3>1. PICK n \in Nat : n = Len(d.elems) /\ d.elems = [i \in 1 .. n |-> d.elems[i]]
      BY <2>1 DEF IsSeq
    <3>2. n # 0
      BY <2>1, <3>1
    <3> QED BY <3>1, <3>2
  <2>3. PICK size \in Int : size = Len(d.elems[1])
    BY <2>1, <2>2, SeqPiece
  <2>4. PICK al \in Nat : al = Greater(d.align, field_size)
    BY <1>3, <2>1, GreaterType
  <2>5. Started(o) = start_elements(B, "vector", size, al)
    BY ONLY <1>4, <1>8, <2>3, <2>4 DEF start_vector
  <2>6. "vector" \in Elements
    BY DEF Elements
  <2> QED BY <1>1, <1>8, <2>5, <2>6, StartElementsBegins
<1>9. CASE d.kind = "offsets"
  <2>1. Started(o) = start_elements(B, "offset_vector", field_size, field_size)
    BY ONLY <1>4, <1>9 DEF start_offset_vector
  <2>2. "offsets" \in Elements
    BY DEF Elements
  <2> QED BY <1>1, <1>3, <1>9, <2>1, <2>2, StartElementsBegins
<1>10. CASE d.kind = "unions"
  <2>1. Started(o) = start_elements(B, "union_vector", union_size, field_size)
    BY ONLY <1>4, <1>10 DEF start_union_vector
  <2>2. "unions" \in Elements
    BY DEF Elements
  <2> QED BY <1>1, <1>3, <1>10, <2>1, <2>2, StartElementsBegins
<1>11. CASE d.kind = "struct"
  <2>1. d.align \in Nat \ {0} /\ IsSeq(d.data)
    BY <1>2, <1>11 DEF IsObject
  <2>2. PICK size \in Int : size = Len(d.data)
    BY <2>1, SeqPiece
  <2>3. PICK C : C = start_struct(B, size, d.align)
    OBVIOUS
  <2>4. Begun(C, B, ks, "struct")
    BY <2>1, <2>3, StartStructBegins
  <2>5. PICK F : F = Poke(C, 0, d.data)
    OBVIOUS
  <2>6. Started(o) = F
    BY ONLY <1>4, <1>11, <2>2, <2>3, <2>5
  <2>7. IsBuilder(C)
    BY <2>4 DEF Begun, Standing
  <2>8. Kept(F, C)
    BY <2>5, <2>7, PokeKeeps
  <2>9. Stacked(F, C, Append(ks, "struct"))
    BY <2>4, <2>8, KeptStacked DEF Begun
  <2>10. Begun(F, B, ks, "struct")
    BY <2>4, <2>9, BegunStacked
  <2> QED BY <1>1, <1>11, <2>6, <2>10
<1> QED BY <1>2, <1>5, <1>6, <1>7, <1>8, <1>9, <1>10, <1>11 DEF Kinds

LEMMA BuildableObjects ==
  ASSUME SessionInv, NEW o \in Buildable
  PROVE  o \in Objects /\ phase = "building"
<1>1. \A x \in Objects \cup {None} : Members[x] \subseteq Objects
  BY DEF Members
<1>2. phase = "building"
  BY DEF Buildable
<1>3. CurrentBuffer \in Objects \cup {None}
  <2>1. CASE open = <<>>
    BY <2>1 DEF CurrentBuffer
  <2>2. CASE open # <<>>
    <3>1. Innermost.o \in Objects
      BY <2>2, InnermostKind
    <3> QED BY <2>2, <3>1, MembersAssumption DEF MembersAssumption, CurrentBuffer
  <2> QED BY <2>1, <2>2
<1>4. top \in Objects
  BY DEF SessionInv
<1>5. o \in Members[CurrentBuffer] \/ o \in {top} \cup Members[top]
  BY DEF Buildable
<1> QED BY <1>1, <1>2, <1>3, <1>4, <1>5

\* A call that emits an object, successful or not.
LEMMA FinishedState ==
  ASSUME NEW r, NEW o, NEW op, IsOpen(op), Outcome(r, KindsOf(op)), SessionInv,
         Finished(r, o), open' = op
  PROVE  SessionInv'
<1>1. B' = r.B /\ top' = top /\ (phase' = "failed" \/ r.ref # 0)
  BY DEF Finished
<1>2. IsBuilder(r.B) /\ IsStable(r.B.E)
      /\ (r.ref # 0 => Standing(r.B, KindsOf(op)) /\ IsHolding(r.B))
  BY DEF Outcome
<1>3. State(r.B, op, phase')
  BY ONLY <1>1, <1>2, IsOpen(op) DEF State
<1> QED BY ONLY <1>1, <1>3, SessionInv, open' = op DEF SessionInv

LEMMA CreateState ==
  ASSUME SessionInv, NEW o \in Buildable, Create(o)
  PROVE  SessionInv'
<1>1. /\ o \in Objects /\ Standing(B, KindsOf(open)) /\ Ready(B) /\ IsOpen(open)
      /\ open' = open
  BY BuildableObjects, BuildingState DEF Create
<1>2. PICK d : d = Doc[o] /\ IsObject(d)
  BY <1>1, DocFacts
<1>3. ASSUME NEW r, Good(r, B), Finished(r, o) PROVE SessionInv'
  <2>1. Outcome(r, KindsOf(open))
    BY <1>1, <1>3, GoodStands
  <2> QED BY <1>1, <1>3, <2>1, FinishedState
<1>4. CASE d.kind = "string" /\ Finished(create_string(B, d.data), o)
  <2>1. IsPiece(d.data)
    BY <1>2, <1>4, SeqPiece DEF IsObject
  <2>2. Good(create_string(B, d.data), B)
    BY <1>1, <2>1, CreateStringGood
  <2> QED BY <1>3, <1>4, <2>2
<1>5. CASE d.kind = "struct" /\ Finished(create_struct(B, d.data, d.align), o)
  <2>1. IsPiece(d.data) /\ d.align \in Nat \ {0}
    BY <1>2, <1>5, SeqPiece DEF IsObject
  <2>2. Good(create_struct(B, d.data, d.align), B)
    BY <1>1, <2>1, CreateStructGood
  <2> QED BY <1>3, <1>5, <2>2
<1>6. CASE /\ d.kind = "vector"
           /\ Finished(create_vector(B, FlattenSeq(d.elems), Len(d.elems), d.align), o)
  <2>1. d.align \in Nat /\ IsSeq(d.elems) /\ \A i \in DOMAIN d.elems : IsSeq(d.elems[i])
    BY <1>2, <1>6 DEF IsObject
  <2>2. PICK data, n : data = FlattenSeq(d.elems) /\ n = Len(d.elems) /\ IsPiece(data)
    BY <2>1, SeqPieces
  <2>3. Good(create_vector(B, data, n, d.align), B)
    BY <1>1, <2>1, <2>2, CreateVectorGood
  <2> QED BY <1>3, <1>6, <2>2, <2>3
<1> QED BY <1>2, <1>4, <1>5, <1>6 DEF Create

LEMMA StartState ==
  ASSUME SessionInv, NEW o \in Buildable, Start(o)
  PROVE  SessionInv'
<1>1. o \in Objects /\ Standing(B, KindsOf(open)) /\ IsHolding(B) /\ IsOpen(open)
  BY BuildableObjects, BuildingState
<1>2. PICK C, op : C = Started(o) /\ op = Append(open, [o |-> o, parts |-> {}])
  OBVIOUS
<1>3. B' = C /\ open' = op /\ top' = top
  BY <1>2 DEF Start
<1>4. IsOpen(op) /\ KindsOf(op) = Append(KindsOf(open), Doc[o].kind)
  BY <1>1, <1>2, OpenedKinds
<1>5. Standing(C, KindsOf(op)) /\ SameOut(C, B)
  BY <1>1, <1>2, <1>4, StartedBegins DEF Begun
<1>6. IsHolding(C) /\ IsStable(C.E) /\ IsBuilder(C)
  BY <1>1, <1>5, SameOutHolding, HoldingStable DEF Standing
<1>7. State(C, op, phase')
  BY <1>4, <1>5, <1>6 DEF State
<1> QED BY ONLY <1>3, <1>7, SessionInv DEF SessionInv

\* A call that adds a part to the innermost object.
LEMMA AddedState ==
  ASSUME NEW r, NEW p, SessionInv, phase = "building", open # <<>>,
         Filled(r.B, B, KindsOf(open)), Added(r, p)
  PROVE  SessionInv'
<1>1. IsHolding(B) /\ IsOpen(open)
  BY BuildingState
<1>2. PICK C, s, op : /\ C = r.B /\ s = open[Len(open)].parts \cup {p}
                      /\ op = [open EXCEPT ![Len(open)].parts = s]
  OBVIOUS
<1>3. B' = C /\ top' = top /\ open' = op
  BY <1>2 DEF Added
<1>4. IsOpen(op) /\ KindsOf(op) = KindsOf(open)
  BY <1>1, <1>2, PartsKinds
<1>5. Standing(C, KindsOf(op)) /\ SameOut(C, B)
  BY <1>2, <1>4 DEF Filled
<1>6. IsHolding(C) /\ IsStable(C.E) /\ IsBuilder(C)
  BY <1>1, <1>5, SameOutHolding, HoldingStable DEF Standing
<1>7. State(C, op, phase')
  BY <1>4, <1>5, <1>6 DEF State
<1> QED BY ONLY <1>3, <1>7, SessionInv DEF SessionInv

LEMMA NextPartsFacts ==
  ASSUME SessionInv, NEW p \in NextParts
  PROVE  /\ phase = "building" /\ open # <<>> /\ p \in Parts(Innermost.o)
         /\ Standing(B, KindsOf(open)) /\ Innermost.o \in Objects /\ Len(KindsOf(open)) > 0
         /\ KindsOf(open)[Len(KindsOf(open))] = Doc[Innermost.o].kind
<1>1. phase = "building" /\ open # <<>>
  BY DEF NextParts
<1>2. p \in Parts(Innermost.o)
  BY <1>1 DEF NextParts
<1> QED BY <1>1, <1>2, BuildingState, InnermostKind

LEMMA AddFieldState ==
  ASSUME SessionInv, NEW p \in NextParts, AddField(p)
  PROVE  SessionInv'
<1>1. PICK ks : ks = KindsOf(open)
  OBVIOUS
<1>2. /\ phase = "building" /\ open # <<>> /\ p \in Parts(Innermost.o)
      /\ Standing(B, ks) /\ Innermost.o \in Objects /\ Len(ks) > 0
  BY <1>1, NextPartsFacts
<1>3. PICK d : d = Doc[Innermost.o] /\ IsObject(d)
  BY <1>2, DocFacts
<1>4. d.kind = "table"
  BY <1>3 DEF AddField
<1>5. p \in DOMAIN d.fields
  BY <1>2, <1>3, <1>4 DEF Parts
<1>6. PICK f : f = d.fields[p]
  OBVIOUS
<1>7. /\ f.id \in Int
      /\ f.kind = "inline" => f.align \in Nat \ {0} /\ IsSeq(f.data)
  BY <1>3, <1>4, <1>5, <1>6 DEF IsObject
<1>8. ASSUME NEW r, Filled(r.B, B, ks), Added(r, p) PROVE SessionInv'
  BY <1>1, <1>2, <1>8, AddedState
<1>9. \/ f.kind = "inline" /\ Added(table_add_copy(B, f.id, f.data, f.align), p)
      \/ Added(table_add_offset(B, f.id, Ref(f.to)), p)
      \/ Added(table_add_union(B, f.id, f.type, Ref(f.to)), p)
      \/ Added(table_add_union_vector(B, f.id, refs[f.to][1], refs[f.to][2]), p)
  BY <1>3, <1>6 DEF AddField
<1>10. CASE f.kind = "inline" /\ Added(table_add_copy(B, f.id, f.data, f.align), p)
  <2>1. Len(f.data) \in Nat /\ f.align \in Nat \ {0}
    BY <1>7, <1>10, SeqPiece
  <2>2. PICK data, align, id : data = f.data /\ align = f.align /\ id = f.id
    OBVIOUS
  <2>3. Filled(table_add_copy(B, id, data, align).B, B, ks)
    BY <1>2, <1>7, <2>1, <2>2, AddCopyStands
  <2> QED BY <1>8, <1>10, <2>2, <2>3
<1>11. CASE Added(table_add_offset(B, f.id, Ref(f.to)), p)
  <2>1. PICK id, ref : id = f.id /\ ref = Ref(f.to)
    OBVIOUS
  <2>2. Filled(table_add_offset(B, id, ref).B, B, ks)
    BY <1>2, <1>7, <2>1, AddOffsetStands
  <2> QED BY <1>8, <1>11, <2>1, <2>2
<1>12. CASE Added(table_add_union(B, f.id, f.type, Ref(f.to)), p)
  <2>1. PICK id, type, ref : id = f.id /\ type = f.type /\ ref = Ref(f.to)
    OBVIOUS
  <2>2. Filled(table_add_union(B, id, type, ref).B, B, ks)
    BY <1>2, <1>7, <2>1, AddUnionStands
  <2> QED BY <1>8, <1>12, <2>1, <2>2
<1>13. CASE Added(table_add_union_vector(B, f.id, refs[f.to][1], refs[f.to][2]), p)
  <2>1. PICK id, type, value : id = f.id /\ type = refs[f.to][1] /\ value = refs[f.to][2]
    OBVIOUS
  <2>2. Filled(table_add_union_vector(B, id, type, value).B, B, ks)
    BY <1>2, <1>7, <2>1, AddUnionVectorStands
  <2> QED BY <1>8, <1>13, <2>1, <2>2
<1> QED BY <1>9, <1>10, <1>11, <1>12, <1>13

LEMMA UnionRefLength ==
  ASSUME NEW type, NEW ref
  PROVE  Len(union_ref(type, ref)) \in Nat
<1>1. PICK n \in Int : n = field_size - utype_size
  BY DEF field_size, utype_size
<1>2. PICK s, t : s = <<type>> /\ t = _pad(n)
  OBVIOUS
<1>3. IsPiece(s) /\ IsPiece(t)
  <2>1. s \in Seq({type})
    BY <1>2
  <2> QED BY <1>2, <2>1, PadPiece DEF IsPiece
<1>4. PICK u, x : u = write_uoffset(ref) /\ x = s \o t
  OBVIOUS
<1>5. IsPiece(u) /\ IsPiece(x)
  BY <1>3, <1>4, UoffsetPiece, ConcatPiece
<1>6. PICK y : y = x \o u
  OBVIOUS
<1>7. IsPiece(y)
  BY <1>5, <1>6, ConcatPiece
<1>8. union_ref(type, ref) = y
  BY <1>1, <1>2, <1>4, <1>6 DEF union_ref
<1> QED BY <1>7, <1>8, PieceLength

LEMMA ElementLength ==
  ASSUME NEW o \in Objects, Doc[o].kind \in Elements, NEW p \in Parts(o)
  PROVE  Len(Element(o, p)) \in Nat
<1>1. PICK d : d = Doc[o] /\ IsObject(d)
  BY DocFacts
<1>2. Element(o, p) =
          CASE d.kind = "string" -> d.data
            [] d.kind = "vector" -> d.elems[p]
            [] d.kind = "offsets" -> write_uoffset(Ref(d.to[p]))
            [] d.kind = "unions" ->
                  union_ref(d.elems[p].type,
                            IF d.elems[p].type = 0 THEN 0 ELSE Ref(d.elems[p].to))
  BY ONLY <1>1 DEF Element
<1>3. CASE d.kind = "string"
  <2>1. Element(o, p) = d.data
    BY ONLY <1>2, <1>3
  <2> QED BY <1>1, <1>3, <2>1, SeqPiece DEF IsObject
<1>4. CASE d.kind = "vector"
  <2>1. Element(o, p) = d.elems[p]
    BY ONLY <1>2, <1>4
  <2>2. p \in DOMAIN d.elems
    BY <1>1, <1>4 DEF Parts
  <2>3. IsSeq(d.elems[p])
    BY <1>1, <1>4, <2>2 DEF IsObject
  <2> QED BY <2>1, <2>3, SeqPiece
<1>5. CASE d.kind = "offsets"
  <2>1. Element(o, p) = write_uoffset(Ref(d.to[p]))
    BY ONLY <1>2, <1>5
  <2> QED BY <2>1, UoffsetPiece
<1>6. CASE d.kind = "unions"
  <2>1. PICK x, y : x = d.elems[p].type /\ y = IF d.elems[p].type = 0 THEN 0 ELSE Ref(d.elems[p].to)
    OBVIOUS
  <2>2. Element(o, p) = union_ref(x, y)
    BY ONLY <1>2, <1>6, <2>1
  <2> QED BY <2>2, UnionRefLength
<1> QED BY <1>1, <1>3, <1>4, <1>5, <1>6 DEF Elements

LEMMA PushState ==
  ASSUME SessionInv, NEW p \in NextParts, Push(p)
  PROVE  SessionInv'
<1>1. PICK ks, o : ks = KindsOf(open) /\ o = Innermost.o
  OBVIOUS
<1>2. /\ phase = "building" /\ open # <<>> /\ p \in Parts(o)
      /\ Standing(B, ks) /\ o \in Objects /\ Len(ks) > 0 /\ ks[Len(ks)] = Doc[o].kind
  BY <1>1, NextPartsFacts
<1>3. Doc[o].kind \in Elements
  BY <1>1 DEF Push, Elements
<1>4. PICK n \in Int : n = IF Doc[o].kind = "string" THEN Len(Doc[o].data) ELSE 1
  <2>1. Doc[o].kind = "string" => Len(Doc[o].data) \in Nat
    BY <1>2, DocFacts, SeqPiece DEF IsObject
  <2> QED BY <2>1
<1>5. PICK data : data = Element(o, p) /\ Len(data) \in Nat
  BY <1>2, <1>3, ElementLength
<1>6. ks[Len(ks)] \in Elements
  BY <1>2, <1>3
<1>7. ASSUME NEW C, Standing(C, ks)
      PROVE  Filled(append_vector(C, data, n), C, ks)
  BY <1>2, <1>5, <1>6, <1>7, AppendVectorStands, StackedFilled
<1>8. PICK C : C = append_vector(B, data, n)
  OBVIOUS
<1>9. Filled(C, B, ks) /\ Standing(C, ks)
  BY <1>2, <1>7, <1>8 DEF Filled
<1>10. PICK D : D = append_vector(C, data, n)
  OBVIOUS
<1>11. Filled(D, C, ks) /\ Standing(D, ks)
  BY <1>7, <1>9, <1>10 DEF Filled
<1>12. PICK F : F = truncate_vector(D, n)
  OBVIOUS
<1>13. Filled(F, D, ks)
  BY <1>2, <1>6, <1>11, <1>12, TruncateVectorStands, StackedFilled
<1>14. Filled(F, B, ks)
  BY <1>9, <1>11, <1>13, FilledTwice
<1>15. Added(Result(F, 1), p) \/ Added(Result(C, 1), p)
  BY <1>1, <1>4, <1>5, <1>8, <1>10, <1>12 DEF Push
<1>16. Filled(Result(F, 1).B, B, ks) /\ Filled(Result(C, 1).B, B, ks)
  BY <1>9, <1>14 DEF Result
<1> QED BY <1>1, <1>2, <1>15, <1>16, AddedState

LEMMA UnionsFinishedState ==
  ASSUME NEW u, NEW o, NEW op, IsOpen(op), Outcome(Result(u.B, u.type), KindsOf(op)),
         SessionInv, UnionsFinished(u, o), open' = op
  PROVE  SessionInv'
<1>1. B' = u.B /\ top' = top /\ (phase' = "failed" \/ u.type # 0)
  BY DEF UnionsFinished
<1>2. IsBuilder(u.B) /\ IsStable(u.B.E)
      /\ (u.type # 0 => Standing(u.B, KindsOf(op)) /\ IsHolding(u.B))
  BY DEF Outcome, Result
<1>3. State(u.B, op, phase')
  BY ONLY <1>1, <1>2, IsOpen(op) DEF State
<1> QED BY ONLY <1>1, <1>3, SessionInv, open' = op DEF SessionInv

LEMMA EndState ==
  ASSUME SessionInv, End
  PROVE  SessionInv'
<1>1. PICK ks, o, op : ks = KindsOf(open) /\ o = Innermost.o /\ op = Front(open)
  OBVIOUS
<1>2. open # <<>> /\ phase = "building" /\ open' = op
  BY <1>1 DEF End
<1>3. /\ Standing(B, ks) /\ IsHolding(B) /\ o \in Objects /\ Len(ks) > 0
      /\ ks[Len(ks)] = Doc[o].kind
  BY <1>1, <1>2, BuildingState, InnermostKind
<1>4. IsOpen(op) /\ KindsOf(op) = Front(ks)
  BY <1>1, <1>2, BuildingState, ClosedKinds
<1>5. ASSUME NEW r, Outcome(r, Front(ks)), Finished(r, o) PROVE SessionInv'
  BY <1>2, <1>4, <1>5, FinishedState
<1>6. \/ Doc[o].kind = "buffer" /\ Finished(end_buffer(B, Ref(Doc[o].root)), o)
      \/ Doc[o].kind = "table" /\ \E junk \in Junk(B) : Finished(end_table(B, junk), o)
      \/ Doc[o].kind = "string" /\ Finished(end_string(B), o)
      \/ Doc[o].kind = "vector" /\ Finished(end_vector(B), o)
      \/ Doc[o].kind = "offsets" /\ Finished(end_offset_vector(B), o)
      \/ Doc[o].kind = "struct" /\ Finished(end_struct(B), o)
      \/ Doc[o].kind = "unions" /\ UnionsFinished(end_union_vector(B), o)
  BY <1>1 DEF End
<1>7. CASE Doc[o].kind = "buffer" /\ Finished(end_buffer(B, Ref(Doc[o].root)), o)
  <2>1. PICK root : root = Ref(Doc[o].root)
    OBVIOUS
  <2>2. Outcome(end_buffer(B, root), Front(ks))
    BY <1>3, <1>7, EndBufferOutcome
  <2> QED BY <1>5, <1>7, <2>1, <2>2
<1>8. CASE Doc[o].kind = "table" /\ \E junk \in Junk(B) : Finished(end_table(B, junk), o)
  <2>1. PICK junk \in Junk(B) : Finished(end_table(B, junk), o)
    BY <1>8
  <2>2. Outcome(end_table(B, junk), Front(ks))
    BY <1>3, <1>8, EndTableOutcome
  <2> QED BY <1>5, <2>1, <2>2
<1>9. CASE Doc[o].kind = "string" /\ Finished(end_string(B), o)
  <2>1. Outcome(end_string(B), Front(ks))
    BY <1>3, EndStringOutcome
  <2> QED BY <1>5, <1>9, <2>1
<1>10. CASE Doc[o].kind = "vector" /\ Finished(end_vector(B), o)
  <2>1. Outcome(end_vector(B), Front(ks))
    BY <1>3, <1>10, EndVectorOutcome DEF Elements
  <2> QED BY <1>5, <1>10, <2>1
<1>11. CASE Doc[o].kind = "offsets" /\ Finished(end_offset_vector(B), o)
  <2>1. Outcome(end_offset_vector(B), Front(ks))
    BY <1>3, <1>11, EndOffsetsOutcome DEF Elements
  <2> QED BY <1>5, <1>11, <2>1
<1>12. CASE Doc[o].kind = "struct" /\ Finished(end_struct(B), o)
  <2>1. Outcome(end_struct(B), Front(ks))
    BY <1>3, <1>12, EndStructOutcome
  <2> QED BY <1>5, <1>12, <2>1
<1>13. CASE Doc[o].kind = "unions" /\ UnionsFinished(end_union_vector(B), o)
  <2>1. PICK u : u = end_union_vector(B)
    OBVIOUS
  <2>2. Outcome(Result(u.B, u.type), Front(ks))
    BY <1>3, <1>13, <2>1, EndUnionsOutcome DEF Elements
  <2> QED BY <1>2, <1>4, <1>13, <2>1, <2>2, UnionsFinishedState
<1> QED BY <1>6, <1>7, <1>8, <1>9, <1>10, <1>11, <1>12, <1>13

LEMMA FinalizeState ==
  ASSUME SessionInv, Finalize
  PROVE  SessionInv'
<1>1. B' = B /\ top' = top /\ open' = open /\ phase = "building" /\ phase' = "done"
  BY DEF Finalize
<1>2. IsOpen(open) /\ IsBuilder(B) /\ IsStable(B.E) /\ IsHolding(B)
  BY <1>1 DEF SessionInv, State
<1>3. State(B, open, phase')
  BY <1>1, <1>2 DEF State
<1> QED BY ONLY <1>1, <1>3, SessionInv DEF SessionInv

LEMMA NoneOpen == IsOpen(<<>>) /\ KindsOf(<<>>) = <<>>
<1>1. \E S : <<>> \in Seq(S)
  OBVIOUS
<1>2. Len(<<>>) = 0 /\ 1 .. 0 = {}
  OBVIOUS
<1>3. IsOpen(<<>>)
  BY <1>1, <1>2 DEF IsOpen
<1>4. KindsOf(<<>>) \in Seq(Kinds) /\ Len(KindsOf(<<>>)) = 0
  BY <1>2, <1>3, KindsOfOpen
<1> QED BY <1>3, <1>4, EmptySeq

LEMMA FreshState ==
  ASSUME NEW C, Fresh(C)
  PROVE  State(C, <<>>, "building")
<1>1. Standing(C, KindsOf(<<>>)) /\ IsHolding(C)
  BY NoneOpen DEF Fresh
<1> QED BY <1>1, NoneOpen, HoldingStable DEF State, Standing

LEMMA AgainState ==
  ASSUME SessionInv, NEW C, Fresh(C), Again(C)
  PROVE  SessionInv'
<1>1. B' = C /\ open' = <<>> /\ phase' = "building" /\ top' \in Later
  BY DEF Again
<1>2. State(C, <<>>, "building")
  BY FreshState
<1>3. top' \in Objects
  <2>1. Members[None] \subseteq Objects
    BY DEF Members
  <2> QED BY <1>1, <2>1, MembersAssumption DEF MembersAssumption
<1> QED BY ONLY <1>1, <1>2, <1>3 DEF SessionInv

LEMMA InitState ==
  ASSUME Init
  PROVE  SessionInv
<1>1. PICK m \in PageLimits, f \in FlushLimits, d \in BOOLEAN :
         B = [flatcc_builder_init(m) EXCEPT !.vb_flush_limit = f, !.disable_vt_clustering = d]
  BY DEF Init
<1>2. m \in 0 .. Cardinality(Pages)
  BY LimitAssumption DEF LimitAssumption
<1>3. Fresh(B)
  BY <1>1, <1>2, InitFresh
<1>4. open = <<>> /\ phase = "building" /\ top \in Members[None] /\ Members[None] \subseteq Objects
  BY DEF Init, Members
<1>5. State(B, <<>>, "building")
  BY <1>3, FreshState
<1> QED BY ONLY <1>4, <1>5 DEF SessionInv

\* What is open, what the emitter holds and what the builder counts belong
\* together after every call, also one in which malloc failed
\* (builder.c:632-1500, emitter.c:6-241).
THEOREM SessionKeepsState == Spec => []SessionInv
<1>1. Init => SessionInv
  BY InitState
<1>2. SessionInv /\ [Next]_vars => SessionInv'
  <2> SUFFICES ASSUME SessionInv, [Next]_vars PROVE SessionInv'
    OBVIOUS
  <2>1. ASSUME NEW o \in Buildable, Create(o) PROVE SessionInv'
    BY <2>1, CreateState
  <2>2. ASSUME NEW o \in Buildable, Start(o) PROVE SessionInv'
    BY <2>2, StartState
  <2>3. ASSUME NEW p \in NextParts, AddField(p) PROVE SessionInv'
    BY <2>3, AddFieldState
  <2>4. ASSUME NEW p \in NextParts, Push(p) PROVE SessionInv'
    BY <2>4, PushState
  <2>5. CASE End
    BY <2>5, EndState
  <2>6. CASE Finalize
    BY <2>6, FinalizeState
  <2>7. CASE Reset
    <3>1. PICK sd \in BOOLEAN : Again(flatcc_builder_custom_reset(B, sd))
      BY <2>7 DEF Reset
    <3>2. Fresh(flatcc_builder_custom_reset(B, sd))
      BY ResetFresh DEF SessionInv, State
    <3> QED BY <3>1, <3>2, AgainState
  <2>8. CASE Clear
    <3>1. Fresh(flatcc_builder_clear(B))
      BY ClearFresh DEF SessionInv, State
    <3> QED BY <2>8, <3>1, AgainState DEF Clear
  <2>9. CASE UNCHANGED vars
    BY ONLY <2>9, SessionInv DEF vars, SessionInv
  <2> QED BY <2>1, <2>2, <2>3, <2>4, <2>5, <2>6, <2>7, <2>8, <2>9 DEF Next
<1> QED BY <1>1, <1>2, PTL DEF Spec

LEMMA MemoryOfHolds ==
  ASSUME NEW V, NEW E, NEW start, NEW bytes, Holds(E, V, start, bytes), bytes # <<>>
  PROVE  E.memory # 0
<1>1. PICK r, n, b : IsWhole(E, r, n, b)
  BY DEF Holds
<1>2. n \in Nat \ {0} /\ n = Cardinality(E.heap)
  BY <1>1 DEF IsWhole, IsRing
<1>3. Cardinality(E.heap) <= E.memory
  BY DEF Holds, IsCounted
<1> QED BY <1>2, <1>3

LEMMA StateHoldsDeque ==
  ASSUME SessionInv
  PROVE  EmitterHoldsDeque
<1>1. IsBuilder(B) /\ IsStable(B.E) /\ (phase # "failed" => IsHolding(B))
  BY DEF SessionInv, State
<1>2. RingIsWhole(B.E)
  <2>1. PICK V, start, bytes : Holds(B.E, V, start, bytes)
    BY <1>1 DEF IsStable, IsSound
  <2> QED BY <2>1, RingOfHolds
<1>3. ASSUME phase # "failed", B.sent.bytes # <<>>
      PROVE  /\ StretchesMeet(B.E)
             /\ flatcc_builder_finalize_buffer(B) = B.sent.bytes
             /\ FirstAddress(B.E) = B.sent.start /\ B.sent.start = B.emit_start
  <2>1. PICK V, start, bytes, E : /\ start = B.emit_start /\ bytes = B.sent.bytes
                                  /\ E = B.E /\ Holds(E, V, start, bytes)
    BY <1>1, <1>3 DEF IsHolding
  <2>2. /\ B.sent.start = start /\ B.emit_end = start + Len(bytes)
        /\ E.used = Len(bytes) \/ E.memory = 0
    BY <1>1, <1>3, <2>1 DEF IsHolding
  <2>3. E.memory # 0
    BY <1>3, <2>1, MemoryOfHolds
  <2>4. E.used = Len(bytes)
    BY <2>2, <2>3
  <2>5. bytes # <<>>
    BY <1>3, <2>1
  <2>6. /\ flatcc_emitter_copy_buffer(E, Len(bytes)) = bytes
        /\ FirstAddress(E) = start /\ StretchesMeet(E)
    BY ONLY <2>1, <2>4, <2>5, CopyIsContent
  <2>7. flatcc_builder_get_buffer_size(B) = Len(bytes)
    <3>1. start \in Int /\ Len(bytes) \in Nat
      BY <2>1 DEF Holds
    <3> QED BY <2>1, <2>2, <3>1 DEF flatcc_builder_get_buffer_size
  <2>8. flatcc_builder_finalize_buffer(B) = bytes
    BY <2>1, <2>6, <2>7 DEF flatcc_builder_finalize_buffer
  <2> QED BY <2>1, <2>2, <2>6, <2>8
<1> QED BY <1>2, <1>3 DEF EmitterHoldsDeque

\* The emitter is the deque its interface speaks of, in every state of a
\* session: what was emitted to the two ends is what is copied out, and the
\* ring of pages is whole even after a failure (emitter.c:45-268,
\* builder.c:640-699).
THEOREM EmitterStaysDeque == Spec => []EmitterHoldsDeque
<1>1. SessionInv => EmitterHoldsDeque
  BY StateHoldsDeque
<1> QED BY <1>1, SessionKeepsState, PTL
=============================================================================
