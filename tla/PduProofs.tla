----------------------------- MODULE PduProofs ------------------------------
(***************************************************************************)
(* Theorems about SocketBuffer and PduSession, for every size of buffer,   *)
(* header and message, and however the connection cuts the stream.         *)
(***************************************************************************)
EXTENDS PduSession, SequenceTheorems, WellFoundedInduction, TLAPS

-----------------------------------------------------------------------------
(* Sequences: what is left of a stream when a part of it has gone, and the *)
(* concatenation of a sequence of sequences.                               *)

\* What follows the first n elements.
Rest(s, n) == SubSeq(s, n + 1, Len(s))

LEMMA RestType ==
  ASSUME NEW B, NEW s \in Seq(B), NEW n \in 0 .. Len(s)
  PROVE  /\ Rest(s, n) \in Seq(B)
         /\ Len(Rest(s, n)) = Len(s) - n
         /\ \A i \in 1 .. Len(s) - n : Rest(s, n)[i] = s[n + i]
<1>1. \A i \in n + 1 .. Len(s) : s[i] \in B
  OBVIOUS
<1> QED BY <1>1, SubSeqProperties DEF Rest

LEMMA FirstType ==
  ASSUME NEW B, NEW s \in Seq(B), NEW n \in 0 .. Len(s)
  PROVE  /\ SubSeq(s, 1, n) \in Seq(B)
         /\ Len(SubSeq(s, 1, n)) = n
         /\ \A i \in 1 .. n : SubSeq(s, 1, n)[i] = s[i]
<1>1. \A i \in 1 .. n : s[i] \in B
  OBVIOUS
<1> QED BY <1>1, SubSeqProperties

LEMMA FirstAndRest ==
  ASSUME NEW B, NEW s \in Seq(B), NEW n \in 0 .. Len(s)
  PROVE  SubSeq(s, 1, n) \o Rest(s, n) = s
<1>1. 1 \in 1 .. Len(s) + 1 /\ n \in 1 - 1 .. Len(s) /\ Len(s) \in n .. Len(s)
  OBVIOUS
<1>2. SubSeq(s, 1, n) \o SubSeq(s, n + 1, Len(s)) = SubSeq(s, 1, Len(s))
  BY <1>1, ConcatAdjacentSubSeq
<1> QED BY <1>2, SubSeqFull DEF Rest

\* Concatenation is associative.
Regroups(s, x, y) == (s \o x) \o y = s \o (x \o y)

LEMMA Regroup ==
  ASSUME NEW B, NEW s \in Seq(B), NEW x \in Seq(B), NEW y \in Seq(B)
  PROVE  Regroups(s, x, y)
<1>1. (s \o x) \o y = s \o (x \o y)
  BY ConcatAssociative
<1> QED BY <1>1 DEF Regroups

\* A part moves from the front of one sequence to the end of another.
LEMMA MoveFirst ==
  ASSUME NEW B, NEW s \in Seq(B), NEW t \in Seq(B), NEW n \in 0 .. Len(t)
  PROVE  (s \o SubSeq(t, 1, n)) \o Rest(t, n) = s \o t
<1>1. SubSeq(t, 1, n) \in Seq(B) /\ Rest(t, n) \in Seq(B)
  BY FirstType, RestType
<1>2. SubSeq(t, 1, n) \o Rest(t, n) = t
  BY FirstAndRest
<1>3. Regroups(s, SubSeq(t, 1, n), Rest(t, n))
  BY <1>1, Regroup
<1> QED BY <1>2, <1>3, Zenon DEF Regroups

LEMMA RestOfConcat ==
  ASSUME NEW B, NEW s \in Seq(B), NEW t \in Seq(B), NEW n \in 0 .. Len(s)
  PROVE  Rest(s \o t, n) = Rest(s, n) \o t
<1>1. /\ s \o t \in Seq(B) /\ Len(s \o t) = Len(s) + Len(t)
      /\ \A i \in 1 .. Len(s) + Len(t) :
           (s \o t)[i] = IF i <= Len(s) THEN s[i] ELSE t[i - Len(s)]
  BY ConcatProperties
<1>2. /\ Rest(s \o t, n) \in Seq(B) /\ Len(Rest(s \o t, n)) = Len(s) + Len(t) - n
      /\ \A i \in 1 .. Len(s) + Len(t) - n : Rest(s \o t, n)[i] = (s \o t)[n + i]
  <2> DEFINE st == s \o t
  <2>1. st \in Seq(B) /\ Len(st) = Len(s) + Len(t) /\ n \in 0 .. Len(st)
    BY <1>1
  <2> HIDE DEF st
  <2>2. /\ Rest(st, n) \in Seq(B) /\ Len(Rest(st, n)) = Len(st) - n
        /\ \A i \in 1 .. Len(st) - n : Rest(st, n)[i] = st[n + i]
    BY <2>1, RestType
  <2>3. Len(st) - n = Len(s) + Len(t) - n
    BY <2>1
  <2> QED BY <2>2, <2>3 DEF st
<1>3. /\ Rest(s, n) \in Seq(B) /\ Len(Rest(s, n)) = Len(s) - n
      /\ \A i \in 1 .. Len(s) - n : Rest(s, n)[i] = s[n + i]
  BY RestType
<1>4. /\ Rest(s, n) \o t \in Seq(B) /\ Len(Rest(s, n) \o t) = Len(s) - n + Len(t)
      /\ \A i \in 1 .. Len(s) - n + Len(t) : (Rest(s, n) \o t)[i] =
           IF i <= Len(s) - n THEN Rest(s, n)[i] ELSE t[i - (Len(s) - n)]
  <2> DEFINE r == Rest(s, n)
  <2>1. /\ r \o t \in Seq(B) /\ Len(r \o t) = Len(r) + Len(t)
        /\ \A i \in 1 .. Len(r) + Len(t) :
             (r \o t)[i] = IF i <= Len(r) THEN r[i] ELSE t[i - Len(r)]
    BY <1>3, ConcatProperties
  <2> QED BY <1>3, <2>1
<1>5. ASSUME NEW i \in 1 .. Len(s) + Len(t) - n
      PROVE  Rest(s \o t, n)[i] = (Rest(s, n) \o t)[i]
  <2>1. Rest(s \o t, n)[i] = IF n + i <= Len(s) THEN s[n + i] ELSE t[n + i - Len(s)]
    BY <1>1, <1>2
  <2>2. (Rest(s, n) \o t)[i] = IF i <= Len(s) - n THEN s[n + i] ELSE t[i - (Len(s) - n)]
    BY <1>3, <1>4
  <2>3. n + i - Len(s) = i - (Len(s) - n) /\ (n + i <= Len(s) <=> i <= Len(s) - n)
    OBVIOUS
  <2> QED BY <2>1, <2>2, <2>3
<1> HIDE DEF Rest
<1>6. Len(Rest(s \o t, n)) = Len(Rest(s, n) \o t)
  BY <1>2, <1>4
<1>7. \A i \in 1 .. Len(Rest(s \o t, n)) : Rest(s \o t, n)[i] = (Rest(s, n) \o t)[i]
  BY <1>2, <1>5
<1> QED BY <1>2, <1>4, <1>6, <1>7, SeqEqual

LEMMA RestOfRest ==
  ASSUME NEW B, NEW s \in Seq(B), NEW m \in Nat, NEW n \in Nat, m + n <= Len(s)
  PROVE  Rest(Rest(s, m), n) = Rest(s, m + n)
<1>1. /\ Rest(s, m) \in Seq(B) /\ Len(Rest(s, m)) = Len(s) - m
      /\ \A i \in 1 .. Len(s) - m : Rest(s, m)[i] = s[m + i]
  <2>1. m \in 0 .. Len(s)
    OBVIOUS
  <2> QED BY <2>1, RestType
<1>2. /\ Rest(Rest(s, m), n) \in Seq(B) /\ Len(Rest(Rest(s, m), n)) = Len(s) - m - n
      /\ \A i \in 1 .. Len(s) - m - n : Rest(Rest(s, m), n)[i] = Rest(s, m)[n + i]
  BY <1>1, RestType
<1>3. /\ Rest(s, m + n) \in Seq(B) /\ Len(Rest(s, m + n)) = Len(s) - (m + n)
      /\ \A i \in 1 .. Len(s) - (m + n) : Rest(s, m + n)[i] = s[m + n + i]
  BY RestType
<1>4. ASSUME NEW i \in 1 .. Len(s) - m - n
      PROVE  Rest(Rest(s, m), n)[i] = Rest(s, m + n)[i]
  <2>1. n + i \in 1 .. Len(s) - m /\ i \in 1 .. Len(s) - (m + n) /\ m + (n + i) = m + n + i
    OBVIOUS
  <2>2. Rest(Rest(s, m), n)[i] = s[m + (n + i)]
    BY <1>1, <1>2, <2>1
  <2>3. Rest(s, m + n)[i] = s[m + n + i]
    BY <1>3, <2>1
  <2> QED BY <2>1, <2>2, <2>3
<1> QED BY <1>2, <1>3, <1>4, SeqEqual

LEMMA AppendAt ==
  ASSUME NEW B, NEW s \in Seq(B), NEW x \in B
  PROVE  /\ Append(s, x) \in Seq(B) /\ Len(Append(s, x)) = Len(s) + 1
         /\ Append(s, x)[Len(s) + 1] = x
         /\ \A i \in 1 .. Len(s) : Append(s, x)[i] = s[i]
  BY AppendProperties

LEMMA ConcatAt ==
  ASSUME NEW B, NEW s \in Seq(B), NEW t \in Seq(B)
  PROVE  /\ s \o t \in Seq(B) /\ Len(s \o t) = Len(s) + Len(t)
         /\ \A i \in 1 .. Len(s) : (s \o t)[i] = s[i]
<1>1. /\ s \o t \in Seq(B) /\ Len(s \o t) = Len(s) + Len(t)
      /\ \A i \in 1 .. Len(s) + Len(t) : (s \o t)[i] = IF i <= Len(s) THEN s[i] ELSE t[i - Len(s)]
  BY ConcatProperties
<1>2. \A i \in 1 .. Len(s) : i \in 1 .. Len(s) + Len(t) /\ i <= Len(s)
  OBVIOUS
<1> QED BY <1>1, <1>2

\* What is appended is appended to the rest.
LEMMA RestOfAppend ==
  ASSUME NEW B, NEW s \in Seq(B), NEW x \in B, NEW n \in 0 .. Len(s)
  PROVE  Rest(Append(s, x), n) = Append(Rest(s, n), x)
<1> DEFINE a == Append(s, x)
           r == Rest(s, n)
           l == Len(s)
<1>1. /\ a \in Seq(B) /\ Len(a) = l + 1 /\ a[l + 1] = x /\ l \in Nat /\ n \in Nat /\ n <= l
      /\ \A i \in 1 .. l : a[i] = s[i]
  BY AppendAt
<1>2. r \in Seq(B) /\ Len(r) = l - n /\ \A i \in 1 .. l - n : r[i] = s[n + i]
  BY RestType
<1> HIDE DEF a, r, l
<1>3. /\ Rest(a, n) \in Seq(B) /\ Len(Rest(a, n)) = (l + 1) - n
      /\ \A i \in 1 .. (l + 1) - n : Rest(a, n)[i] = a[n + i]
  <2>1. n \in 0 .. Len(a)
    BY <1>1
  <2>2. /\ Rest(a, n) \in Seq(B) /\ Len(Rest(a, n)) = Len(a) - n
        /\ \A i \in 1 .. Len(a) - n : Rest(a, n)[i] = a[n + i]
    BY <1>1, <2>1, RestType
  <2> QED BY ONLY <1>1, <2>2, Zenon
<1>4. /\ Append(r, x) \in Seq(B) /\ Len(Append(r, x)) = (l - n) + 1 /\ Append(r, x)[(l - n) + 1] = x
      /\ \A i \in 1 .. l - n : Append(r, x)[i] = r[i]
  BY <1>2, AppendAt
<1>5. (l + 1) - n = (l - n) + 1
  BY <1>1
<1>6. ASSUME NEW i \in 1 .. (l - n) + 1 PROVE Rest(a, n)[i] = Append(r, x)[i]
  <2>1. Rest(a, n)[i] = a[n + i]
    BY <1>3, <1>5
  <2>2. CASE i = (l - n) + 1
    <3>1. n + i = l + 1
      BY <1>1, <2>2
    <3> QED BY <1>1, <1>4, <2>1, <2>2, <3>1
  <2>3. CASE i # (l - n) + 1
    <3>1. i \in 1 .. l - n /\ n + i \in 1 .. l
      BY <1>1, <2>3
    <3> QED BY <1>1, <1>2, <1>4, <2>1, <3>1
  <2> QED BY <2>2, <2>3
<1>7. Rest(a, n) = Append(r, x)
  BY <1>3, <1>4, <1>5, <1>6, SeqEqual
<1> QED BY <1>7 DEF a, r

-----------------------------------------------------------------------------
\* Induction over the natural numbers, for a set of them.
Less == {p \in Nat \X Nat : p[1] < p[2]}

LEMMA LessWF == IsWellFoundedOn(Less, Nat)
<1>1. OpToRel(<, Nat) = Less
  BY DEF OpToRel, Less
<1>2. IsWellFoundedOn(OpToRel(<, Nat), Nat)
  BY NatLessThanWellFounded
<1> QED BY <1>1, <1>2

LEMMA NatSetInduction ==
  ASSUME NEW S, 0 \in S, \A n \in Nat : n \in S => n + 1 \in S
  PROVE Nat \subseteq S
<1> DEFINE T == Nat \ S
<1> SUFFICES ASSUME T # {} PROVE FALSE
  OBVIOUS
<1>0. T \subseteq Nat
  OBVIOUS
<1> HIDE DEF T
<1>1. PICK x \in T : \A y \in T : ~ (<<y, x>> \in Less)
  BY <1>0, LessWF, WFMin
<1>2. x \in Nat /\ x \notin S /\ x # 0
  BY DEF T
<1>3. x - 1 \in Nat /\ x - 1 < x /\ (x - 1) + 1 = x
  BY <1>2
<1>4. x - 1 \in S
  <2> SUFFICES ASSUME x - 1 \in T PROVE FALSE
    BY <1>3 DEF T
  <2>1. <<x - 1, x>> \in Less
    BY <1>2, <1>3 DEF Less
  <2> QED BY <1>1, <2>1
<1> QED BY <1>2, <1>3, <1>4

\* f is the function by which FlattenSeq concatenates the first n of seqs.
IsFlat(f, seqs, n) == f = [i \in 1 .. n |-> IF i = 1 THEN seqs[i] ELSE f[i - 1] \o seqs[i]]

LEMMA FlatValue ==
  ASSUME NEW f, NEW seqs, NEW n \in Nat, IsFlat(f, seqs, n), NEW i \in 1 .. n
  PROVE  f[i] = IF i = 1 THEN seqs[i] ELSE f[i - 1] \o seqs[i]
<1> DEFINE e(h) == [j \in 1 .. n |-> IF j = 1 THEN seqs[j] ELSE h[j - 1] \o seqs[j]]
<1>1. f = e(f)
  BY DEF IsFlat
<1>2. e(f)[i] = IF i = 1 THEN seqs[i] ELSE f[i - 1] \o seqs[i]
  OBVIOUS
<1> HIDE DEF e
<1> QED BY <1>1, <1>2

\* There is such a function for every length.
LEMMA FlatExists ==
  ASSUME NEW seqs, NEW m \in Nat
  PROVE  \E f : IsFlat(f, seqs, m)
<1> DEFINE S == {n \in Nat : \E f : IsFlat(f, seqs, n)}
<1>1. 0 \in S
  <2>1. IsFlat([i \in 1..0 |-> 0], seqs, 0)
    BY DEF IsFlat
  <2> QED BY <2>1
<1>2. ASSUME NEW n \in Nat, n \in S PROVE n + 1 \in S
  <2>1. PICK f : IsFlat(f, seqs, n)
    BY <1>2
  <2> DEFINE g == [i \in 1 .. n + 1 |-> IF i = 1 THEN seqs[i] ELSE f[i - 1] \o seqs[i]]
  <2>2. ASSUME NEW i \in 1 .. n PROVE g[i] = f[i]
    <3>1. f[i] = IF i = 1 THEN seqs[i] ELSE f[i - 1] \o seqs[i]
      BY <2>1, FlatValue
    <3> QED BY <3>1
  <2>3. IsFlat(g, seqs, n + 1)
    <3>1. ASSUME NEW i \in 1 .. n + 1, i # 1 PROVE g[i - 1] = f[i - 1]
      <4>1. i - 1 \in 1 .. n BY <3>1
      <4> HIDE DEF g
      <4> QED BY <2>2, <4>1
    <3> DEFINE G == g
    <3>2. G = [i \in 1 .. n + 1 |-> IF i = 1 THEN seqs[i] ELSE f[i - 1] \o seqs[i]]
      OBVIOUS
    <3>3. \A i \in 1 .. n + 1 : i # 1 => G[i - 1] = f[i - 1]
      BY <3>1
    <3> HIDE DEF G
    <3>4. G = [i \in 1 .. n + 1 |-> IF i = 1 THEN seqs[i] ELSE G[i - 1] \o seqs[i]]
      BY <3>2, <3>3
    <3> QED BY <3>4 DEF IsFlat, G
  <2> QED BY <2>3
<1> HIDE DEF S
<1>3. Nat \subseteq S BY <1>1, <1>2, NatSetInduction
<1> QED BY <1>3 DEF S

LEMMA FlatDef ==
  ASSUME NEW seqs, Len(seqs) \in Nat, Len(seqs) # 0
  PROVE  \E f : IsFlat(f, seqs, Len(seqs)) /\ FlattenSeq(seqs) = f[Len(seqs)]
<1> DEFINE F == CHOOSE f : IsFlat(f, seqs, Len(seqs))
<1>1. IsFlat(F, seqs, Len(seqs)) BY FlatExists
<1>2. FlattenSeq(seqs) = F[Len(seqs)]
  BY DEF FlattenSeq, IsFlat
<1> QED BY <1>1, <1>2

\* The elements of the sequences up to the n-th, one after the other.
LEMMA FlatType ==
  ASSUME NEW B, NEW seqs \in Seq(Seq(B)), NEW f, IsFlat(f, seqs, Len(seqs)), NEW n \in 1 .. Len(seqs)
  PROVE  f[n] \in Seq(B)
<1> DEFINE S == {m \in Nat : m \in 1 .. Len(seqs) => f[m] \in Seq(B)}
<1>1. 0 \in S
  OBVIOUS
<1>2. ASSUME NEW m \in Nat, m \in S PROVE m + 1 \in S
  <2> SUFFICES ASSUME m + 1 \in 1 .. Len(seqs) PROVE f[m + 1] \in Seq(B)
    OBVIOUS
  <2>1. f[m + 1] = IF m + 1 = 1 THEN seqs[m + 1] ELSE f[m + 1 - 1] \o seqs[m + 1]
    BY FlatValue
  <2>2. seqs[m + 1] \in Seq(B)
    OBVIOUS
  <2>3. CASE m = 0
    BY <2>1, <2>2, <2>3
  <2>4. CASE m # 0
    <3>1. f[m] \in Seq(B) /\ m + 1 - 1 = m /\ m + 1 # 1
      BY <1>2, <2>4
    <3>2. f[m] \o seqs[m + 1] \in Seq(B)
      BY <3>1, <2>2, ConcatProperties
    <3> QED BY <2>1, <3>1, <3>2
  <2> QED BY <2>3, <2>4
<1> HIDE DEF S
<1>3. Nat \subseteq S
  BY <1>1, <1>2, NatSetInduction
<1> QED BY <1>3 DEF S

\* It does not depend on the sequences behind.
LEMMA FlatPrefix ==
  ASSUME NEW f, NEW g, NEW s, NEW t, NEW m \in Nat, NEW n \in Nat, m <= n,
         IsFlat(f, s, m), IsFlat(g, t, n), \A i \in 1 .. m : s[i] = t[i],
         NEW k \in 1 .. m
  PROVE  f[k] = g[k]
<1> DEFINE S == {i \in Nat : i \in 1 .. m => f[i] = g[i]}
<1>1. 0 \in S
  OBVIOUS
<1>2. ASSUME NEW i \in Nat, i \in S PROVE i + 1 \in S
  <2> SUFFICES ASSUME i + 1 \in 1 .. m PROVE f[i + 1] = g[i + 1]
    OBVIOUS
  <2>1. f[i + 1] = IF i + 1 = 1 THEN s[i + 1] ELSE f[i + 1 - 1] \o s[i + 1]
    BY FlatValue
  <2>2. g[i + 1] = IF i + 1 = 1 THEN t[i + 1] ELSE g[i + 1 - 1] \o t[i + 1]
    <3>1. i + 1 \in 1 .. n
      OBVIOUS
    <3> QED BY <3>1, FlatValue
  <2>3. i + 1 # 1 => f[i + 1 - 1] = g[i + 1 - 1]
    BY <1>2
  <2> QED BY <2>1, <2>2, <2>3
<1> HIDE DEF S
<1>3. Nat \subseteq S
  BY <1>1, <1>2, NatSetInduction
<1> QED BY <1>3 DEF S

LEMMA FlattenEmpty == FlattenSeq(<<>>) = <<>>
  BY DEF FlattenSeq

LEMMA FlattenType ==
  ASSUME NEW B, NEW seqs \in Seq(Seq(B))
  PROVE  FlattenSeq(seqs) \in Seq(B)
<1>1. CASE Len(seqs) = 0
  BY <1>1, EmptySeq DEF FlattenSeq
<1>2. CASE Len(seqs) # 0
  <2>1. PICK f : IsFlat(f, seqs, Len(seqs)) /\ FlattenSeq(seqs) = f[Len(seqs)]
    BY <1>2, FlatDef
  <2> QED BY <1>2, <2>1, FlatType
<1> QED BY <1>1, <1>2

LEMMA FlattenAppend ==
  ASSUME NEW B, NEW seqs \in Seq(Seq(B)), NEW x \in Seq(B)
  PROVE  FlattenSeq(Append(seqs, x)) = FlattenSeq(seqs) \o x
<1> DEFINE n == Len(seqs)
           more == Append(seqs, x)
<1>1. /\ n \in Nat /\ Len(more) = n + 1 /\ more[n + 1] = x
      /\ \A i \in 1 .. n : more[i] = seqs[i]
  BY AppendProperties
<1> HIDE DEF more
<1>2. PICK g : IsFlat(g, more, n + 1) /\ FlattenSeq(more) = g[n + 1]
  BY <1>1, FlatDef
<1>3. g[n + 1] = IF n + 1 = 1 THEN x ELSE g[n + 1 - 1] \o x
  BY <1>1, <1>2, FlatValue
<1>4. CASE n = 0
  <2>1. FlattenSeq(seqs) = <<>>
    BY <1>4, FlattenEmpty, EmptySeq
  <2> QED BY <1>2, <1>3, <1>4, <2>1, ConcatEmptySeq DEF more
<1>5. CASE n # 0
  <2>1. PICK f : IsFlat(f, seqs, n) /\ FlattenSeq(seqs) = f[n]
    BY <1>1, <1>5, FlatDef
  <2>2. f[n] = g[n]
    <3>1. n <= n + 1 /\ n \in 1 .. n /\ n + 1 \in Nat
      BY <1>1, <1>5
    <3>2. \A i \in 1 .. n : seqs[i] = more[i]
      BY <1>1
    <3> HIDE DEF n
    <3> QED BY <1>1, <1>2, <2>1, <3>1, <3>2, FlatPrefix
  <2>3. n + 1 # 1 /\ n + 1 - 1 = n
    BY <1>1, <1>5
  <2> QED BY <1>2, <1>3, <2>1, <2>2, <2>3 DEF more
<1> QED BY <1>4, <1>5

-----------------------------------------------------------------------------
\* A buffer as every operation of SocketBuffer leaves it.
IsBuffer(b) == b \in Buffers /\ b.consumed <= b.used

-----------------------------------------------------------------------------
\* Storing bytes keeps the array an array of bytes.
LEMMA StoreType ==
  ASSUME NEW buffer \in [1 .. SIZE -> Byte], NEW offset \in Nat, NEW bytes \in Seq(Byte)
  PROVE  Store(buffer, offset, bytes) \in [1 .. SIZE -> Byte]
<1>1. ASSUME NEW i \in 1 .. SIZE, i > offset, i <= offset + Len(bytes)
      PROVE  bytes[i - offset] \in Byte
  BY <1>1, SocketBufferAssumption
<1> QED  BY <1>1 DEF Store

\* The bytes of a PDU.
LEMMA BytesType ==
  ASSUME NEW pdu \in Pdus
  PROVE  /\ Bytes(pdu) \in Seq(Byte)
         /\ Len(Bytes(pdu)) = HeaderSize + pdu.length
         /\ \A i \in 1 .. HeaderSize + pdu.length : Bytes(pdu)[i].pdu = pdu
<1>1. HeaderSize + pdu.length \in Nat
  BY SocketBufferAssumption DEF HeaderSize, Pdus
<1>2. \A i \in 1 .. HeaderSize + pdu.length : [pdu |-> pdu, at |-> i] \in Byte
  BY <1>1 DEF Byte
<1> QED  BY <1>1, <1>2 DEF Bytes

\* A part of an array of bytes is a sequence of bytes.
LEMMA PartType ==
  ASSUME NEW buffer \in [1 .. SIZE -> Byte], NEW m \in Nat \ {0}, NEW n \in Nat, n <= SIZE
  PROVE  /\ SubSeq(buffer, m, n) \in Seq(Byte)
         /\ Len(SubSeq(buffer, m, n)) = IF m <= n THEN n - m + 1 ELSE 0
         /\ \A i \in 1 .. n - m + 1 : SubSeq(buffer, m, n)[i] = buffer[m + i - 1]
<1>1. \A i \in m .. n : buffer[i] \in Byte
  BY SocketBufferAssumption
<1> QED  BY <1>1, SubSeqProperties

-----------------------------------------------------------------------------
LEMMA NewBuffer == IsBuffer(New) /\ New.consumed = 0
BY SocketBufferAssumption DEF IsBuffer, Buffers, New, NoByte, Byte

\* AddPdu, when SizeCheck lets it, stays within the array.
LEMMA AddPduBuffer ==
  ASSUME NEW b, IsBuffer(b), NEW pdu \in Pdus, CanAddPdu(b, pdu)
  PROVE  /\ IsBuffer(AddPdu(b, pdu))
         /\ AddPdu(b, pdu).consumed = b.consumed
<1>1. b.used + HeaderSize + pdu.length \in 0 .. SIZE
  BY SocketBufferAssumption
  DEF CanAddPdu, SizeCheck, HeaderSize, IsBuffer, Buffers, Pdus
<1>2. Store(b.buffer, b.used, Bytes(pdu)) \in [1 .. SIZE -> Byte]
  BY StoreType, BytesType DEF IsBuffer, Buffers
<1>3. b.used <= b.used + HeaderSize + pdu.length
  BY SocketBufferAssumption DEF HeaderSize, IsBuffer, Buffers, Pdus
<1>4. AddPdu(b, pdu) = [buffer   |-> Store(b.buffer, b.used, Bytes(pdu)),
                        used     |-> b.used + HeaderSize + pdu.length,
                        consumed |-> b.consumed]
  <2> DEFINE x == Store(b.buffer, b.used, Bytes(pdu))
             stored == [b EXCEPT !.buffer = x]
  <2>1. stored = [buffer |-> x, used |-> b.used, consumed |-> b.consumed]
    BY DEF IsBuffer, Buffers
  <2>2. AddPdu(b, pdu) = [stored EXCEPT !.used = stored.used + HeaderSize + pdu.length]
    BY DEF AddPdu
  <2> HIDE DEF stored, x
  <2>3. [stored EXCEPT !.used = stored.used + HeaderSize + pdu.length] =
         [buffer |-> x, used |-> b.used + HeaderSize + pdu.length, consumed |-> b.consumed]
    BY <2>1
  <2> QED  BY <2>2, <2>3 DEF x
<1>5. b.consumed \in 0 .. SIZE /\ b.consumed <= b.used + HeaderSize + pdu.length
  BY <1>1, <1>3, SocketBufferAssumption DEF IsBuffer, Buffers
<1> QED  BY <1>1, <1>2, <1>4, <1>5 DEF IsBuffer, Buffers

LEMMA ConsumeBuffer ==
  ASSUME NEW b, IsBuffer(b), NEW n \in Nat
  PROVE  IsBuffer(Consume(b, n))
BY SocketBufferAssumption DEF Consume, IsBuffer, Buffers

\* Sweep leaves the unconsumed bytes at the front.
LEMMA SweepBuffer ==
  ASSUME NEW b, IsBuffer(b)
  PROVE  IsBuffer(Sweep(b)) /\ Sweep(b).consumed = 0 /\ Sweep(b).used = GetUsed(b)
<1>1. SubSeq(b.buffer, b.consumed + 1, b.used) \in Seq(Byte)
  BY PartType DEF IsBuffer, Buffers
<1>2. Store(b.buffer, 0, SubSeq(b.buffer, b.consumed + 1, b.used)) \in [1 .. SIZE -> Byte]
  BY <1>1, StoreType DEF IsBuffer, Buffers
<1>3. b.used - b.consumed \in 0 .. SIZE /\ 0 \in 0 .. SIZE /\ 0 <= b.used - b.consumed
  BY SocketBufferAssumption DEF IsBuffer, Buffers
<1>4. Sweep(b) = [buffer   |-> Store(b.buffer, 0, SubSeq(b.buffer, b.consumed + 1, b.used)),
                  used     |-> b.used - b.consumed,
                  consumed |-> 0]
  BY DEF Sweep
<1> QED  BY <1>2, <1>3, <1>4 DEF GetUsed, IsBuffer, Buffers

\* What recv may store fits behind `used` when nothing is consumed.
LEMMA ReceiveBuffer ==
  ASSUME NEW b, IsBuffer(b), b.consumed = 0, NEW bytes \in Seq(Byte),
         Len(bytes) <= GetRemainingRecvSize(b)
  PROVE  /\ CountsReceived(b, Len(bytes))
         /\ IsBuffer(Receive(b, bytes))
         /\ Receive(b, bytes).consumed = 0
<1>1. CountsReceived(b, Len(bytes)) /\ b.used + Len(bytes) \in 0 .. SIZE
  BY SocketBufferAssumption
  DEF CountsReceived, GetRemainingRecvSize, GetUsed, IsBuffer, Buffers
<1>2. Store(b.buffer, b.consumed, bytes) \in [1 .. SIZE -> Byte]
  BY StoreType DEF IsBuffer, Buffers
<1>3. Receive(b, bytes) = [buffer   |-> Store(b.buffer, b.consumed, bytes),
                           used     |-> b.used + Len(bytes),
                           consumed |-> b.consumed]
  BY <1>1 DEF Receive, IsBuffer, Buffers
<1>4. 0 <= b.used + Len(bytes)
  BY <1>1
<1> QED  BY <1>1, <1>2, <1>3, <1>4 DEF IsBuffer, Buffers

\* The payload that GetPdu announces was received.
LEMMA SkipHeaderBuffer ==
  ASSUME NEW b, IsBuffer(b), b.consumed = 0, NEW length \in Nat, HasPdu(b, length)
  PROVE  IsBuffer(SkipHeader(b)) /\ GetUsed(SkipHeader(b)) >= length
<1>1. /\ b.used \in 0 .. SIZE /\ b.buffer \in [1 .. SIZE -> Byte]
      /\ HeaderSize \in Nat /\ SIZE \in Nat
  BY SocketBufferAssumption DEF HeaderSize, IsBuffer, Buffers
<1>2. b.used - HeaderSize >= length
  BY <1>1 DEF HasPdu, GetUsed
<1>3. SkipHeader(b) = [buffer |-> b.buffer, used |-> b.used, consumed |-> HeaderSize]
  BY <1>1 DEF SkipHeader, IsBuffer, Buffers
<1>4. HeaderSize \in 0 .. SIZE /\ HeaderSize <= b.used
  BY <1>1, <1>2
<1> QED  BY <1>1, <1>2, <1>3, <1>4 DEF GetUsed, IsBuffer, Buffers

\* A header read by GetPdu holds a length and a type in range.
LEMMA FieldsType ==
  ASSUME NEW b, IsBuffer(b), b.consumed = 0
  PROVE  /\ LengthFields(b) \subseteq 0 .. MaxLength
         /\ TypeFields(b, AnyType) \subseteq AnyType
<1>1. b.buffer \in [1 .. SIZE -> Byte] /\ HeaderSize \in Nat /\ HeaderSize <= SIZE
      /\ LenSize \in 1 .. HeaderSize /\ TypeSize \in Nat \ {0}
      /\ HeaderSize = LenSize + TypeSize
  BY SocketBufferAssumption, PduSessionAssumption DEF HeaderSize, IsBuffer, Buffers
<1>2. LengthFields(b) \subseteq 0 .. MaxLength
  <2> DEFINE field == SubSeq(b.buffer, 1, LenSize)
  <2>1. Len(field) = LenSize /\ \A i \in 1 .. LenSize : field[i] \in Byte
    <3>1. LenSize \in Nat /\ LenSize <= SIZE /\ 1 <= LenSize /\ LenSize - 1 + 1 = LenSize
      BY <1>1, SocketBufferAssumption
    <3>2. /\ Len(field) = LenSize
          /\ \A i \in 1 .. LenSize : field[i] = b.buffer[1 + i - 1]
      BY <1>1, <3>1, PartType
    <3>3. \A i \in 1 .. LenSize : 1 + i - 1 \in 1 .. SIZE
      BY <3>1, SocketBufferAssumption
    <3> HIDE DEF field
    <3> QED  BY <1>1, <3>2, <3>3
  <2>2. ASSUME NEW pdu \in {field[i].pdu : i \in 1 .. LenSize} \ {<<>>},
               field = SubSeq(Bytes(pdu), 1, LenSize)
        PROVE  field[1].pdu.length \in 0 .. MaxLength
    <3>1. pdu \in Pdus
      BY <2>1 DEF Byte
    <3>2. field[1].pdu = pdu
      <4>1. \A i \in 1 .. LenSize : Bytes(pdu)[i] \in Byte /\ Bytes(pdu)[i].pdu = pdu
        BY <1>1, <3>1, BytesType DEF Pdus
      <4>2. SubSeq(Bytes(pdu), 1, LenSize)[1] = Bytes(pdu)[1]
        BY <1>1, <4>1, SubSeqProperties
      <4> QED  BY <1>1, <2>2, <4>1, <4>2
    <3> QED  BY <3>1, <3>2 DEF Pdus
  <2> HIDE DEF field
  <2>3. LengthFields(b) = IF \E pdu \in {field[i].pdu : i \in 1 .. LenSize} \ {<<>>} :
                               field = SubSeq(Bytes(pdu), 1, LenSize)
                          THEN {field[1].pdu.length}
                          ELSE 0 .. MaxLength
    BY <1>1, b.consumed + 1 = 1, b.consumed + LenSize = LenSize DEF LengthFields, field
  <2> QED  BY <2>2, <2>3
<1>3. TypeFields(b, AnyType) \subseteq AnyType
  <2> DEFINE field == SubSeq(b.buffer, LenSize + 1, HeaderSize)
  <2>1. Len(field) = TypeSize /\ \A i \in 1 .. TypeSize : field[i] \in Byte
    BY <1>1, PartType, LenSize + 1 \in Nat \ {0}
  <2>2. ASSUME NEW pdu \in {field[i].pdu : i \in 1 .. TypeSize} \ {<<>>},
               field = SubSeq(Bytes(pdu), LenSize + 1, HeaderSize)
        PROVE  field[1].pdu.type \in AnyType
    <3>1. pdu \in Pdus
      BY <2>1 DEF Byte
    <3>2. field[1].pdu = pdu
      <4>1. \A i \in LenSize + 1 .. HeaderSize :
              Bytes(pdu)[i] \in Byte /\ Bytes(pdu)[i].pdu = pdu
        BY <1>1, <3>1, BytesType DEF Pdus
      <4>2. SubSeq(Bytes(pdu), LenSize + 1, HeaderSize)[1] = Bytes(pdu)[LenSize + 1]
        BY <1>1, <4>1, SubSeqProperties
      <4> QED  BY <1>1, <2>2, <4>1, <4>2
    <3> QED  BY <3>1, <3>2 DEF Pdus, AnyType
  <2> HIDE DEF field
  <2>3. TypeFields(b, AnyType)
          = IF \E pdu \in {field[i].pdu : i \in 1 .. TypeSize} \ {<<>>} :
                 field = SubSeq(Bytes(pdu), LenSize + 1, HeaderSize)
            THEN {field[1].pdu.type}
            ELSE AnyType
    <3>1. b.consumed + LenSize + 1 = LenSize + 1 /\ b.consumed + HeaderSize = HeaderSize
      BY <1>1
    <3> QED  BY <3>1 DEF TypeFields, field
  <2> QED  BY <2>2, <2>3
<1> QED  BY <1>2, <1>3

-----------------------------------------------------------------------------
\* Whoever is not in a body has swept what it consumed.
Swept ==
  \A e \in Sides : pc[e] \in {"add", "send", "recv"} => sb_recv[e].consumed = 0

PduInv == TypeOK /\ Swept /\ BodyInBounds

\* TypeOK, with the buffers gathered.
LEMMA TypeOKBuffers ==
  TypeOK <=> /\ pc \in [Sides -> {"add", "send", "recv", "body", "closed"}]
             /\ sb_send \in [Sides -> Buffers] /\ sb_recv \in [Sides -> Buffers]
             /\ \A e \in Sides : IsBuffer(sb_send[e]) /\ IsBuffer(sb_recv[e])
             /\ header \in [Sides -> [type : AnyType, length : 0 .. MaxLength] \cup {Unset}]
             /\ iResult \in [Sides -> BOOLEAN]
             /\ wire \in [Sides -> Seq(Byte)]
             /\ reset \in {"none", "closed", "broke"}
             /\ added \in [Sides -> Seq(Pdus)]
             /\ taken \in [Sides -> Nat]
BY DEF TypeOK, IsBuffer

\* A PDU that fits a buffer is one of Pdus.
LEMMA PduType ==
  ASSUME TypeOK, NEW e \in Sides, NEW type \in PduTypes, NEW b, IsBuffer(b),
         CanAddPdu(b, Pdu(e, type))
  PROVE  Pdu(e, type) \in Pdus
<1>1. PayloadLength[type] \in Nat /\ Len(added[e]) + 1 \in Nat
  BY PduSessionAssumption DEF TypeOK
<1>2. b.used + (HeaderSize + PayloadLength[type]) < SIZE
  BY DEF CanAddPdu, SizeCheck, Pdu
<1>3. PayloadLength[type] \in 0 .. MaxLength
  BY <1>1, <1>2, SocketBufferAssumption DEF IsBuffer, Buffers, HeaderSize
<1> QED  BY <1>1, <1>3 DEF Pdu, Pdus

LEMMA PduInit == Init => PduInv
<1> SUFFICES ASSUME Init PROVE PduInv
  OBVIOUS
<1>1. TypeOK
  <2>1. Unset \in [type : AnyType, length : 0 .. MaxLength] \cup {Unset}
    OBVIOUS
  <2>2. <<>> \in Seq(Byte) /\ <<>> \in Seq(Pdus) /\ 0 \in Nat
    OBVIOUS
  <2>3. New \in Buffers
    BY NewBuffer DEF IsBuffer
  <2> QED  BY <2>1, <2>2, <2>3, NewBuffer, TypeOKBuffers DEF Init
<1>2. Swept
  BY NewBuffer DEF Init, Swept
<1>3. BodyInBounds
  BY DEF Init, BodyInBounds
<1> QED  BY <1>1, <1>2, <1>3 DEF PduInv

LEMMA CloseInv ==
  ASSUME PduInv, NEW e \in Sides, Close(e)
  PROVE  PduInv'
BY DEF PduInv, TypeOK, Swept, BodyInBounds, Close, Goto, bufferVars, wireVars

\* A request is added to a buffer that has room for it.
LEMMA ClientAddInv ==
  ASSUME PduInv, ClientAdd
  PROVE  PduInv'
<1>1. CASE Close("client")
  BY <1>1, CloseInv DEF Sides
<1>2. CASE ~Close("client")
  <2> DEFINE b == RoundBuffer(sb_send["client"])
  <2>1. IsBuffer(b) /\ IsBuffer(RoundBuffer(sb_recv["client"]))
        /\ RoundBuffer(sb_recv["client"]).consumed = 0
    BY NewBuffer, TypeOKBuffers DEF RoundBuffer, PduInv, Swept, ClientAdd, Sides
  <2>2. /\ CanAddPdu(b, NextRequest)
        /\ sb_send' = [sb_send EXCEPT !["client"] = AddPdu(b, NextRequest)]
        /\ sb_recv' = [sb_recv EXCEPT !["client"] = RoundBuffer(sb_recv["client"])]
        /\ added' = [added EXCEPT !["client"] = Append(added["client"], NextRequest)]
        /\ Goto("client", "send")
        /\ UNCHANGED <<header, iResult, wire, reset, taken, handled>>
    BY <1>2 DEF ClientAdd, wireVars
  <2>3. NextRequest \in Pdus
    <3>1. \E type \in PduTypes : NextRequest = Pdu("client", type)
      BY DEF NextRequest, PduTypes
    <3> QED  BY <2>1, <2>2, <3>1, PduType DEF PduInv, Sides
  <2>4. IsBuffer(AddPdu(b, NextRequest))
    BY <2>1, <2>2, <2>3, AddPduBuffer
  <2> HIDE DEF b
  <2>5. TypeOK'
    <3>1. sb_send' \in [Sides -> Buffers] /\ sb_recv' \in [Sides -> Buffers]
      BY <2>1, <2>2, <2>4 DEF PduInv, TypeOK, IsBuffer
    <3>2. \A e \in Sides : sb_send'[e].consumed <= sb_send'[e].used
                          /\ sb_recv'[e].consumed <= sb_recv'[e].used
      BY <2>1, <2>2, <2>4 DEF PduInv, TypeOK, IsBuffer
    <3>3. added' \in [Sides -> Seq(Pdus)]
      <4>1. Append(added["client"], NextRequest) \in Seq(Pdus)
        BY <2>3 DEF PduInv, TypeOK, Sides
      <4> QED  BY <2>2, <4>1 DEF PduInv, TypeOK
    <3> QED  BY <2>2, <3>1, <3>2, <3>3 DEF PduInv, TypeOK, Goto
  <2>6. Swept' /\ BodyInBounds'
    BY <2>1, <2>2 DEF PduInv, TypeOK, Swept, BodyInBounds, Goto
  <2> QED  BY <2>5, <2>6 DEF PduInv
<1> QED  BY <1>1, <1>2

\* SEND_ALL consumes what was sent and sweeps at its end.
LEMMA SendInv ==
  ASSUME PduInv, NEW e \in Sides, Send(e)
  PROVE  PduInv'
<1>1. IsBuffer(sb_send[e])
  BY TypeOKBuffers DEF PduInv
<1>2. CASE SendFails(e)
  <2>1. IsBuffer(Sweep(sb_send[e]))
    BY <1>1, SweepBuffer
  <2> QED  BY <1>2, <2>1 DEF PduInv, TypeOK, IsBuffer, Swept, BodyInBounds,
                             Send, SendFails, Goto, wireVars
<1>3. ASSUME NEW n \in 1 .. GetRemainingSendSize(sb_send[e]), SendSome(e, n)
      PROVE  PduInv'
  <2> DEFINE b == Consume(sb_send[e], n)
  <2>1. n \in Nat
    BY <1>1 DEF GetRemainingSendSize, GetUsed, IsBuffer, Buffers
  <2>2. IsBuffer(b) /\ IsBuffer(Sweep(b))
    BY <1>1, <2>1, ConsumeBuffer, SweepBuffer
  <2>3. sb_send' \in {[sb_send EXCEPT ![e] = b], [sb_send EXCEPT ![e] = Sweep(b)]}
    BY <1>3 DEF SendSome
  <2>4. /\ pc' \in [Sides -> {"add", "send", "recv", "body", "closed"}]
        /\ pc'[e] \in {"add", "send", "recv", "closed"}
        /\ \A f \in Sides \ {e} : pc'[f] = pc[f] /\ header'[f] = header[f]
        /\ header' \in [Sides -> [type : AnyType, length : 0 .. MaxLength] \cup {Unset}]
    <3>1. pc \in [Sides -> {"add", "send", "recv", "body", "closed"}]
          /\ header \in [Sides -> [type : AnyType, length : 0 .. MaxLength] \cup {Unset}]
      BY DEF PduInv, TypeOK
    <3>2. CASE pc' = pc /\ header' = header
      BY <3>1, <3>2 DEF Send
    <3>3. CASE BeginRecv(e)
      <4>1. PICK p \in {"add", "recv", "closed"} :
              /\ pc' = [pc EXCEPT ![e] = p]
              /\ header' = [header EXCEPT ![e] = Unset]
        BY <3>3 DEF BeginRecv, Goto
      <4> QED  BY <3>1, <4>1
    <3> QED  BY <1>3, <3>2, <3>3 DEF SendSome
  <2>5. wire' \in [Sides -> Seq(Byte)] /\ reset' \in {"none", "closed", "broke"} /\ taken' = taken
    <3>1. FromStart(sb_send[e], n) \in Seq(Byte)
      BY <1>1, <2>1, PartType, SocketBufferAssumption DEF FromStart, IsBuffer, Buffers
    <3>2. wire[e] \o FromStart(sb_send[e], n) \in Seq(Byte)
      BY <3>1 DEF PduInv, TypeOK
    <3>3. /\ wire \in [Sides -> Seq(Byte)] /\ reset \in {"none", "closed", "broke"}
          /\ taken' = taken /\ reset' \in {"none", "closed"} \cup {reset}
          /\ wire' \in {wire, [wire EXCEPT ![e] = wire[e] \o FromStart(sb_send[e], n)]}
      BY <1>3 DEF PduInv, TypeOK, SendSome
    <3> QED  BY <3>2, <3>3
  <2>6. iResult' = [iResult EXCEPT ![e] = TRUE] /\ sb_recv' = sb_recv /\ added' = added
    BY <1>3 DEF SendSome, Send
  <2>7. pc[e] = "send"
    BY DEF Send
  <2> HIDE DEF b
  <2>8. TypeOK'
    <3>1. sb_send' \in [Sides -> Buffers]
          /\ \A f \in Sides : sb_send'[f].consumed <= sb_send'[f].used
      BY <2>2, <2>3 DEF PduInv, TypeOK, IsBuffer
    <3> QED  BY <2>4, <2>5, <2>6, <3>1 DEF PduInv, TypeOK
  <2>9. Swept' /\ BodyInBounds'
    BY <2>4, <2>6, <2>7 DEF PduInv, TypeOK, Swept, BodyInBounds
  <2> QED  BY <2>8, <2>9 DEF PduInv
<1> QED  BY <1>2, <1>3 DEF Send

\* recv returns no more than there is room for.
LEMMA PieceFits ==
  ASSUME PduInv, NEW e \in Sides, NEW n \in Piece(e)
  PROVE  /\ n \in Nat /\ n <= Len(wire[Peer(e)])
         /\ n <= GetRemainingRecvSize(sb_recv[e])
<1>1. IsBuffer(sb_recv[e]) /\ Peer(e) \in Sides /\ Len(wire[Peer(e)]) \in Nat
  BY TypeOKBuffers DEF PduInv, Peer, Sides
<1>2. GetRemainingRecvSize(sb_recv[e]) \in Nat
  BY <1>1, SocketBufferAssumption DEF GetRemainingRecvSize, GetUsed, IsBuffer, Buffers
<1> QED  BY <1>1, <1>2 DEF Piece

\* What recv returned is stored within the array, and GetPdu only announces a
\* payload that is there.
LEMMA RecvSomeInv ==
  ASSUME PduInv, NEW e \in Sides, Recv(e), NEW n \in Piece(e), RecvSome(e, n)
  PROVE  PduInv'
<1> DEFINE from == Peer(e)
           bytes == SubSeq(wire[from], 1, n)
           b == Receive(sb_recv[e], bytes)
<1>1. /\ IsBuffer(sb_recv[e]) /\ sb_recv[e].consumed = 0
      /\ from \in Sides /\ wire[from] \in Seq(Byte)
  BY TypeOKBuffers DEF PduInv, Swept, Recv, Peer, Sides
<1>2. n \in Nat /\ n <= Len(wire[from]) /\ n <= GetRemainingRecvSize(sb_recv[e])
  BY PieceFits
<1>3. bytes \in Seq(Byte) /\ Len(bytes) = n
  <2>1. \A i \in 1 .. n : wire[from][i] \in Byte
    BY <1>1, <1>2
  <2>2. bytes \in Seq(Byte) /\ Len(bytes) = IF 1 <= n THEN n - 1 + 1 ELSE 0
    BY <1>2, <2>1, SubSeqProperties
  <2> QED  BY <1>2, <2>2
<1>4. IsBuffer(b) /\ b.consumed = 0
  BY <1>1, <1>2, <1>3, ReceiveBuffer
<1>5. SubSeq(wire[from], n + 1, Len(wire[from])) \in Seq(Byte)
  <2>1. \A i \in n + 1 .. Len(wire[from]) : wire[from][i] \in Byte
    BY <1>1, <1>2
  <2> QED  BY <1>1, <1>2, <2>1, SubSeqProperties
<1>6. /\ wire' = [wire EXCEPT ![from] = SubSeq(wire[from], n + 1, Len(wire[from]))]
      /\ taken' = [taken EXCEPT ![from] = taken[from] + n]
      /\ iResult' = [iResult EXCEPT ![e] = TRUE]
      /\ UNCHANGED <<reset, sb_send, added>>
  BY DEF RecvSome, Recv
<1>7. wire' \in [Sides -> Seq(Byte)] /\ taken' \in [Sides -> Nat]
      /\ iResult' \in [Sides -> BOOLEAN]
  BY <1>1, <1>2, <1>5, <1>6 DEF PduInv, TypeOK
<1>8. pc[e] = "recv"
  BY DEF Recv
<1> HIDE DEF bytes, b
<1>9. ASSUME NEW length \in LengthFields(b), NEW type \in TypeFields(b, AnyType),
             header' = [header EXCEPT ![e] = [type |-> type, length |-> length]],
             HasPdu(b, length),
             sb_recv' = [sb_recv EXCEPT ![e] = SkipHeader(b)], Goto(e, "body")
      PROVE  PduInv'
  <2>1. length \in 0 .. MaxLength /\ length \in Nat /\ type \in AnyType
    BY <1>4, FieldsType, SocketBufferAssumption
  <2>2. IsBuffer(SkipHeader(b)) /\ GetUsed(SkipHeader(b)) >= length
    BY <1>4, <1>9, <2>1, SkipHeaderBuffer
  <2>3. TypeOK'
    BY <1>6, <1>7, <1>9, <2>1, <2>2 DEF PduInv, TypeOK, IsBuffer, Goto
  <2>4. Swept' /\ BodyInBounds'
    BY <1>6, <1>9, <2>2 DEF PduInv, TypeOK, Swept, BodyInBounds, Goto
  <2> QED  BY <2>3, <2>4 DEF PduInv
<1>10. ASSUME NEW length \in LengthFields(b), NEW type \in TypeFields(b, AnyType),
              header' = [header EXCEPT ![e] = [type |-> type, length |-> length]],
              sb_recv' = [sb_recv EXCEPT ![e] = b], pc' = pc
       PROVE  PduInv'
  <2>1. length \in 0 .. MaxLength /\ type \in AnyType
    BY <1>4, FieldsType
  <2>2. TypeOK'
    BY <1>4, <1>6, <1>7, <1>10, <2>1 DEF PduInv, TypeOK, IsBuffer
  <2>3. Swept' /\ BodyInBounds'
    BY <1>4, <1>6, <1>8, <1>10 DEF PduInv, TypeOK, Swept, BodyInBounds
  <2> QED  BY <2>2, <2>3 DEF PduInv
<1>11. CASE sb_recv' = [sb_recv EXCEPT ![e] = b] /\ pc' = pc /\ header' = header
  <2>1. TypeOK'
    BY <1>4, <1>6, <1>7, <1>11 DEF PduInv, TypeOK, IsBuffer
  <2>2. Swept' /\ BodyInBounds'
    BY <1>4, <1>6, <1>8, <1>11 DEF PduInv, TypeOK, Swept, BodyInBounds
  <2> QED  BY <2>1, <2>2 DEF PduInv
<1> QED  BY <1>9, <1>10, <1>11 DEF RecvSome, b, bytes

LEMMA RecvInv ==
  ASSUME PduInv, NEW e \in Sides, Recv(e)
  PROVE  PduInv'
<1>1. CASE RecvFails(e)
  BY <1>1 DEF PduInv, TypeOK, Swept, BodyInBounds, Recv, RecvFails, Goto, wireVars
<1> QED  BY <1>1, RecvSomeInv DEF Recv

\* After RECV_PDU_END nothing is consumed, whatever length the body was given.
LEMMA EndRecvSweeps ==
  ASSUME PduInv, NEW e \in Sides, NEW h \in HeaderValues(e), EndRecv(e, h)
  PROVE  /\ sb_recv' \in [Sides -> Buffers]
         /\ \A f \in Sides : IsBuffer(sb_recv'[f])
         /\ sb_recv'[e].consumed = 0
         /\ \A f \in Sides \ {e} : sb_recv'[f] = sb_recv[f]
<1>1. h.length \in Nat
  <2>1. CASE header[e] = Unset
    BY <2>1, SocketBufferAssumption DEF HeaderValues
  <2>2. CASE header[e] # Unset
    BY <2>2, SocketBufferAssumption DEF HeaderValues, PduInv, TypeOK
  <2> QED  BY <2>1, <2>2
<1>2. IsBuffer(sb_recv[e])
  BY TypeOKBuffers DEF PduInv
<1> DEFINE b == Sweep(Consume(sb_recv[e], h.length))
<1>3. IsBuffer(b) /\ b.consumed = 0
  BY <1>1, <1>2, ConsumeBuffer, SweepBuffer
<1> HIDE DEF b
<1>4. sb_recv' = [sb_recv EXCEPT ![e] = b]
  BY DEF EndRecv, b
<1> QED  BY <1>3, <1>4, TypeOKBuffers DEF PduInv, TypeOK, IsBuffer

LEMMA DriverBodyInv ==
  ASSUME PduInv, DriverBody
  PROVE  PduInv'
<1> PICK h \in HeaderValues("driver") :
      /\ EndRecv("driver", h)
      /\ \/ /\ Answers(h)
            /\ sb_send' = [sb_send EXCEPT !["driver"] =
                             AddPdu(sb_send["driver"], Pdu("driver", h.type))]
            /\ added' = [added EXCEPT !["driver"] =
                            Append(added["driver"], Pdu("driver", h.type))]
            /\ Goto("driver", "send")
         \/ Goto("driver", "closed") /\ UNCHANGED <<sb_send, added>>
  BY DEF DriverBody
<1>1. "driver" \in Sides /\ UNCHANGED <<header, iResult, wire, reset, taken>>
  BY DEF Sides, DriverBody, wireVars
<1>2. /\ sb_recv' \in [Sides -> Buffers]
      /\ \A f \in Sides : IsBuffer(sb_recv'[f])
      /\ sb_recv'["driver"].consumed = 0
      /\ \A f \in Sides \ {"driver"} : sb_recv'[f] = sb_recv[f]
  BY <1>1, EndRecvSweeps
<1>3. /\ sb_send' \in [Sides -> Buffers]
      /\ \A f \in Sides : IsBuffer(sb_send'[f])
      /\ added' \in [Sides -> Seq(Pdus)]
  <2>1. CASE UNCHANGED <<sb_send, added>>
    BY <2>1, TypeOKBuffers DEF PduInv
  <2>2. CASE /\ Answers(h)
             /\ sb_send' = [sb_send EXCEPT !["driver"] =
                              AddPdu(sb_send["driver"], Pdu("driver", h.type))]
             /\ added' = [added EXCEPT !["driver"] =
                             Append(added["driver"], Pdu("driver", h.type))]
    <3>1. Pdu("driver", h.type) \in Pdus
      BY <1>1, <2>2, PduType, TypeOKBuffers DEF PduInv, Answers
    <3>2. IsBuffer(AddPdu(sb_send["driver"], Pdu("driver", h.type)))
      BY <1>1, <2>2, <3>1, AddPduBuffer, TypeOKBuffers DEF PduInv, Answers
    <3>3. Append(added["driver"], Pdu("driver", h.type)) \in Seq(Pdus)
      BY <1>1, <3>1 DEF PduInv, TypeOK
    <3> QED  BY <2>2, <3>2, <3>3, TypeOKBuffers DEF PduInv, IsBuffer
  <2> QED  BY <2>1, <2>2
<1>4. /\ pc' \in [Sides -> {"add", "send", "recv", "body", "closed"}]
      /\ pc'["driver"] \in {"send", "closed"}
      /\ \A f \in Sides \ {"driver"} : pc'[f] = pc[f]
  BY DEF Goto, PduInv, TypeOK, Sides
<1>5. TypeOK'
  BY <1>1, <1>2, <1>3, <1>4 DEF PduInv, TypeOK, IsBuffer
<1>6. Swept' /\ BodyInBounds'
  BY <1>1, <1>2, <1>4 DEF PduInv, Swept, BodyInBounds
<1> QED  BY <1>5, <1>6 DEF PduInv

LEMMA ClientBodyInv ==
  ASSUME PduInv, ClientBody
  PROVE  PduInv'
<1>1. "client" \in Sides /\ UNCHANGED <<sb_send, header, iResult, wire, reset, taken, added>>
  BY DEF Sides, ClientBody, wireVars
<1>2. /\ sb_recv' \in [Sides -> Buffers]
      /\ \A f \in Sides : IsBuffer(sb_recv'[f])
      /\ sb_recv'["client"].consumed = 0
      /\ \A f \in Sides \ {"client"} : sb_recv'[f] = sb_recv[f]
  BY <1>1, EndRecvSweeps DEF ClientBody
<1>3. /\ pc' \in [Sides -> {"add", "send", "recv", "body", "closed"}]
      /\ pc'["client"] = "add"
      /\ \A f \in Sides \ {"client"} : pc'[f] = pc[f]
  BY DEF ClientBody, Goto, PduInv, TypeOK, Sides
<1>4. TypeOK'
  BY <1>1, <1>2, <1>3 DEF PduInv, TypeOK, IsBuffer
<1>5. Swept' /\ BodyInBounds'
  BY <1>1, <1>2, <1>3 DEF PduInv, Swept, BodyInBounds
<1> QED  BY <1>4, <1>5 DEF PduInv

-----------------------------------------------------------------------------
LEMMA NextPduInv == PduInv /\ [Next]_vars => PduInv'
<1> SUFFICES ASSUME PduInv, [Next]_vars PROVE PduInv'
  OBVIOUS
<1>1. CASE ClientNext
  BY <1>1, ClientAddInv, SendInv, RecvInv, ClientBodyInv DEF ClientNext, Sides
<1>2. CASE DriverNext
  BY <1>2, SendInv, RecvInv, DriverBodyInv DEF DriverNext, Sides
<1>3. CASE Break
  BY <1>3 DEF Break, PduInv, TypeOK, Swept, BodyInBounds, bufferVars
<1>4. CASE UNCHANGED vars
  BY <1>4 DEF vars, PduInv, TypeOK, Swept, BodyInBounds, bufferVars, wireVars
<1> QED  BY <1>1, <1>2, <1>3, <1>4 DEF Next

\* The buffers of a session keep consumed <= used <= SIZE, whatever the other
\* side sends and however the stream is cut (helper.hpp:66-147).
THEOREM SessionTypeCorrect == Spec => []TypeOK
<1>1. PduInv => TypeOK
  BY DEF PduInv
<1> QED  BY <1>1, PduInit, NextPduInv, PTL DEF Spec

\* After a recv that returned bytes a body is handed no more bytes than were
\* received, even when the header is not the header of a PDU (helper.hpp:112).
THEOREM BodiesInBounds == Spec => []BodyInBounds
<1>1. PduInv => BodyInBounds
  BY DEF PduInv
<1> QED  BY <1>1, PduInit, NextPduInv, PTL DEF Spec

\* recv is only called with nothing consumed, so it stores within the array and
\* GetPdu never refuses what it returned (helper.hpp:46-52, 95-96).
THEOREM RecvAlwaysFits == Spec => []RecvFits
<1>1. PduInv => RecvFits
  <2> SUFFICES ASSUME PduInv, NEW e \in Sides, pc[e] = "recv"
               PROVE  /\ sb_recv[e].consumed = 0
                      /\ CountsReceived(sb_recv[e], GetRemainingRecvSize(sb_recv[e]))
    BY DEF RecvFits
  <2>1. IsBuffer(sb_recv[e]) /\ sb_recv[e].consumed = 0
    BY TypeOKBuffers DEF PduInv, Swept
  <2> QED  BY <2>1, SocketBufferAssumption
           DEF CountsReceived, GetRemainingRecvSize, GetUsed, IsBuffer, Buffers
<1> QED  BY <1>1, PduInit, NextPduInv, PTL DEF Spec

-----------------------------------------------------------------------------
\* The bytes of a send buffer that wait to be sent.
Unsent(b) == SubSeq(b.buffer, b.consumed + 1, b.used)

LEMMA UnsentType ==
  ASSUME NEW b, IsBuffer(b)
  PROVE  /\ Unsent(b) \in Seq(Byte) /\ Len(Unsent(b)) = GetUsed(b) /\ GetUsed(b) \in Nat
         /\ \A i \in 1 .. GetUsed(b) : Unsent(b)[i] = b.buffer[b.consumed + i]
<1>1. /\ b.buffer \in [1 .. SIZE -> Byte] /\ b.consumed \in Nat /\ b.used \in Nat
      /\ b.used <= SIZE /\ b.consumed <= b.used
  BY SocketBufferAssumption DEF IsBuffer, Buffers
<1>2. /\ Unsent(b) \in Seq(Byte)
      /\ Len(Unsent(b)) = IF b.consumed + 1 <= b.used THEN b.used - (b.consumed + 1) + 1 ELSE 0
      /\ \A i \in 1 .. b.used - (b.consumed + 1) + 1 :
           Unsent(b)[i] = b.buffer[b.consumed + 1 + i - 1]
  <2> DEFINE buffer == b.buffer
             m == b.consumed + 1
             n == b.used
  <2>1. buffer \in [1 .. SIZE -> Byte] /\ m \in Nat \ {0} /\ n \in Nat /\ n <= SIZE
    BY <1>1
  <2> HIDE DEF buffer, m, n
  <2>2. /\ SubSeq(buffer, m, n) \in Seq(Byte)
        /\ Len(SubSeq(buffer, m, n)) = IF m <= n THEN n - m + 1 ELSE 0
        /\ \A i \in 1 .. n - m + 1 : SubSeq(buffer, m, n)[i] = buffer[m + i - 1]
    BY <2>1, PartType
  <2> QED BY <2>2 DEF Unsent, buffer, m, n
<1>3. /\ b.used - (b.consumed + 1) + 1 = GetUsed(b) /\ GetUsed(b) \in Nat
      /\ b.consumed + 1 <= b.used <=> GetUsed(b) # 0
  BY <1>1 DEF GetUsed
<1>4. \A i \in 1 .. GetUsed(b) : b.consumed + 1 + i - 1 = b.consumed + i
  BY <1>1, <1>3
<1> QED BY <1>2, <1>3, <1>4

LEMMA UnsentNothing ==
  ASSUME NEW b, IsBuffer(b), GetUsed(b) = 0
  PROVE  Unsent(b) = <<>>
  BY UnsentType, EmptySeq

\* The elements of what Store leaves.
LEMMA StoreAt ==
  ASSUME NEW buffer, NEW offset \in Nat, NEW bytes, NEW i \in 1 .. SIZE
  PROVE  Store(buffer, offset, bytes)[i] =
           IF i > offset /\ i <= offset + Len(bytes) THEN bytes[i - offset] ELSE buffer[i]
  BY DEF Store

\* Sweep keeps what waits.
LEMMA UnsentSweep ==
  ASSUME NEW b, IsBuffer(b)
  PROVE  Unsent(Sweep(b)) = Unsent(b)
<1>1. IsBuffer(Sweep(b)) /\ GetUsed(Sweep(b)) = GetUsed(b)
  BY SweepBuffer, UnsentType DEF GetUsed
<1>2. ASSUME NEW i \in 1 .. GetUsed(b) PROVE Unsent(Sweep(b))[i] = Unsent(b)[i]
  <2>1. i \in 1 .. SIZE /\ GetUsed(b) \in Nat /\ 0 + i = i
    BY SocketBufferAssumption DEF IsBuffer, Buffers, GetUsed
  <2>2. Unsent(Sweep(b))[i] = Sweep(b).buffer[0 + i]
    BY <1>1, SweepBuffer, UnsentType
  <2>3. Sweep(b).buffer = Store(b.buffer, 0, Unsent(b))
    BY DEF Sweep, Unsent
  <2>4. Store(b.buffer, 0, Unsent(b))[i] = Unsent(b)[i - 0]
    BY <2>1, StoreAt, UnsentType
  <2> QED BY <2>1, <2>2, <2>3, <2>4
<1> QED BY <1>1, <1>2, UnsentType, SeqEqual

\* What is sent is the front of what waits, and the rest still waits.
LEMMA UnsentConsume ==
  ASSUME NEW b, IsBuffer(b), NEW n \in 1 .. GetUsed(b)
  PROVE  /\ FromStart(b, n) = SubSeq(Unsent(b), 1, n)
         /\ Unsent(Consume(b, n)) = Rest(Unsent(b), n)
<1>1. /\ b.buffer \in [1 .. SIZE -> Byte] /\ b.consumed \in Nat /\ b.used \in Nat
      /\ b.used <= SIZE /\ b.consumed <= b.used /\ SIZE \in Nat
      /\ GetUsed(b) = b.used - b.consumed /\ n \in Nat /\ b.consumed + n <= b.used
  BY SocketBufferAssumption DEF IsBuffer, Buffers, GetUsed
<1>2. /\ SubSeq(Unsent(b), 1, n) \in Seq(Byte) /\ Len(SubSeq(Unsent(b), 1, n)) = n
      /\ \A i \in 1 .. n : SubSeq(Unsent(b), 1, n)[i] = b.buffer[b.consumed + i]
  <2>1. n \in 0 .. Len(Unsent(b))
    BY <1>1, UnsentType
  <2> QED BY <1>1, <2>1, UnsentType, FirstType
<1>3. /\ FromStart(b, n) \in Seq(Byte) /\ Len(FromStart(b, n)) = n
      /\ \A i \in 1 .. n : FromStart(b, n)[i] = b.buffer[b.consumed + i]
  <2>1. FromStart(b, n) = SubSeq(b.buffer, b.consumed + 1, b.consumed + n)
    <3>1. b.consumed + n <= SIZE
      BY <1>1
    <3> QED BY <3>1 DEF FromStart
  <2>2. /\ b.consumed + 1 \in Nat \ {0} /\ b.consumed + n \in Nat /\ b.consumed + n <= SIZE
        /\ b.consumed + 1 <= b.consumed + n /\ b.consumed + n - (b.consumed + 1) + 1 = n
    BY <1>1
  <2>3. \A i \in 1 .. n : b.consumed + 1 + i - 1 = b.consumed + i
    BY <1>1
  <2> DEFINE buffer == b.buffer
             m == b.consumed + 1
             k == b.consumed + n
  <2>4. m \in Nat \ {0} /\ k \in Nat /\ k <= SIZE /\ m <= k /\ k - m + 1 = n
    <3>1. b.consumed \in Nat /\ n \in Nat /\ 1 <= n /\ SIZE \in Nat /\ b.consumed + n <= SIZE
      BY <1>1
    <3> QED BY <3>1
  <2>5. buffer \in [1 .. SIZE -> Byte]
    BY <1>1
  <2> HIDE DEF buffer, m, k
  <2>6. /\ SubSeq(buffer, m, k) \in Seq(Byte)
        /\ Len(SubSeq(buffer, m, k)) = n
        /\ \A i \in 1 .. n : SubSeq(buffer, m, k)[i] = buffer[m + i - 1]
    BY <2>4, <2>5, PartType
  <2> QED BY <2>1, <2>3, <2>6 DEF buffer, m, k
<1>4. /\ IsBuffer(Consume(b, n)) /\ Consume(b, n).buffer = b.buffer
      /\ Consume(b, n).consumed = b.consumed + n /\ GetUsed(Consume(b, n)) = GetUsed(b) - n
  BY <1>1, ConsumeBuffer DEF Consume, IsBuffer, Buffers, GetUsed
<1>5. ASSUME NEW i \in 1 .. GetUsed(b) - n
      PROVE  Unsent(Consume(b, n))[i] = Rest(Unsent(b), n)[i]
  <2>1. Unsent(Consume(b, n))[i] = b.buffer[b.consumed + n + i]
    BY <1>4, UnsentType
  <2>2. Rest(Unsent(b), n)[i] = Unsent(b)[n + i]
    BY <1>1, UnsentType, RestType
  <2>3. Unsent(b)[n + i] = b.buffer[b.consumed + (n + i)]
    <3>1. n + i \in 1 .. GetUsed(b)
      BY <1>1
    <3> QED BY <3>1, UnsentType
  <2>4. b.consumed + (n + i) = b.consumed + n + i
    BY <1>1
  <2> QED BY <2>1, <2>2, <2>3, <2>4
<1>6. /\ Rest(Unsent(b), n) \in Seq(Byte) /\ Len(Rest(Unsent(b), n)) = GetUsed(b) - n
  BY <1>1, UnsentType, RestType
<1>7. /\ Unsent(Consume(b, n)) \in Seq(Byte) /\ Len(Unsent(Consume(b, n))) = GetUsed(b) - n
  BY <1>4, UnsentType
<1> QED BY <1>2, <1>3, <1>5, <1>6, <1>7, SeqEqual

\* What is added waits behind the rest.
LEMMA UnsentAdd ==
  ASSUME NEW b, IsBuffer(b), NEW pdu \in Pdus, CanAddPdu(b, pdu)
  PROVE  Unsent(AddPdu(b, pdu)) = Unsent(b) \o Bytes(pdu)
<1> DEFINE c == AddPdu(b, pdu)
           n == Len(Bytes(pdu))
<1>1. /\ b.consumed \in Nat /\ b.used \in Nat /\ b.consumed <= b.used /\ SIZE \in Nat
      /\ n = HeaderSize + pdu.length /\ n \in Nat /\ Bytes(pdu) \in Seq(Byte)
      /\ b.used + n < SIZE
  <2>1. b.used + (HeaderSize + pdu.length) < SIZE
    BY DEF CanAddPdu, SizeCheck
  <2>2. Len(Bytes(pdu)) \in Nat
    BY BytesType
  <2> QED BY <2>1, <2>2, BytesType, SocketBufferAssumption DEF IsBuffer, Buffers
<1>2. /\ IsBuffer(c) /\ c.consumed = b.consumed /\ c.used = b.used + n
      /\ c.buffer = Store(b.buffer, b.used, Bytes(pdu))
  <2>1. IsBuffer(c) /\ c.consumed = b.consumed
    BY AddPduBuffer
  <2> DEFINE stored == [b EXCEPT !.buffer = Store(b.buffer, b.used, Bytes(pdu))]
  <2>2. /\ stored.used = b.used /\ stored.buffer = Store(b.buffer, b.used, Bytes(pdu))
        /\ DOMAIN stored = {"buffer", "used", "consumed"}
    BY DEF IsBuffer, Buffers
  <2>3. c = [stored EXCEPT !.used = stored.used + HeaderSize + pdu.length]
    BY DEF AddPdu
  <2> HIDE DEF stored, c
  <2>4. c.used = stored.used + HeaderSize + pdu.length /\ c.buffer = stored.buffer
    BY <2>2, <2>3
  <2>5. b.used + HeaderSize + pdu.length = b.used + n
    BY <1>1, SocketBufferAssumption DEF HeaderSize, Pdus
  <2> QED BY <2>1, <2>2, <2>4, <2>5
<1> HIDE DEF c, n
<1>3. GetUsed(c) = GetUsed(b) + n /\ GetUsed(b) = b.used - b.consumed
  BY <1>1, <1>2 DEF GetUsed
<1>4. /\ Unsent(b) \o Bytes(pdu) \in Seq(Byte) /\ Len(Unsent(b) \o Bytes(pdu)) = GetUsed(b) + n
      /\ \A i \in 1 .. GetUsed(b) + n : (Unsent(b) \o Bytes(pdu))[i] =
           IF i <= GetUsed(b) THEN Unsent(b)[i] ELSE Bytes(pdu)[i - GetUsed(b)]
  <2> DEFINE u == Unsent(b)
             x == Bytes(pdu)
  <2>1. u \in Seq(Byte) /\ Len(u) = GetUsed(b) /\ x \in Seq(Byte) /\ Len(x) = n
    BY <1>1, UnsentType DEF n
  <2> HIDE DEF u, x
  <2>2. /\ u \o x \in Seq(Byte) /\ Len(u \o x) = Len(u) + Len(x)
        /\ \A i \in 1 .. Len(u) + Len(x) : (u \o x)[i] =
             IF i <= Len(u) THEN u[i] ELSE x[i - Len(u)]
    BY <2>1, ConcatProperties
  <2> QED BY <2>1, <2>2 DEF u, x
<1>7. \A j \in 1 .. SIZE : j <= b.used => c.buffer[j] = b.buffer[j]
  <2> TAKE j \in 1 .. SIZE
  <2> HAVE j <= b.used
  <2>1. ~ (j > b.used) /\ b.used \in Nat
    BY <1>1
  <2>2. Store(b.buffer, b.used, Bytes(pdu))[j] = b.buffer[j]
    BY <2>1, StoreAt
  <2> QED BY <1>2, <2>2
<1>8. \A m \in 1 .. n : c.buffer[b.used + m] = Bytes(pdu)[m]
  <2> TAKE m \in 1 .. n
  <2> DEFINE j == b.used + m
  <2>1. j \in 1 .. SIZE /\ j > b.used /\ j <= b.used + n /\ j - b.used = m /\ b.used \in Nat
    BY <1>1
  <2> HIDE DEF j
  <2>2. Store(b.buffer, b.used, Bytes(pdu))[j] = Bytes(pdu)[j - b.used]
    BY <2>1, StoreAt DEF n
  <2>3. c.buffer[j] = Bytes(pdu)[m]
    BY <1>2, <2>1, <2>2
  <2> QED BY <2>3 DEF j
<1>5. ASSUME NEW i \in 1 .. GetUsed(b) + n
      PROVE  Unsent(c)[i] = (Unsent(b) \o Bytes(pdu))[i]
  <2>0. i \in Nat /\ 1 <= i /\ i <= b.used - b.consumed + n
    BY <1>1, <1>3
  <2>2. Unsent(c)[i] = c.buffer[b.consumed + i]
    BY <1>2, <1>3, UnsentType
  <2>4. CASE i <= GetUsed(b)
    <3> DEFINE j == b.consumed + i
    <3>1. j \in 1 .. SIZE /\ j <= b.used /\ i \in 1 .. GetUsed(b)
      BY <1>1, <1>3, <2>0, <2>4
    <3> HIDE DEF j
    <3>2. Unsent(b)[i] = b.buffer[j]
      BY <3>1, UnsentType DEF j
    <3>3. c.buffer[j] = b.buffer[j]
      BY <1>7, <3>1
    <3>4. Unsent(c)[i] = c.buffer[j]
      BY <2>2 DEF j
    <3> QED BY <1>4, <2>4, <3>2, <3>3, <3>4
  <2>5. CASE i > GetUsed(b)
    <3> DEFINE m == i - GetUsed(b)
    <3>1. /\ m \in 1 .. n /\ b.consumed + i = b.used + m /\ ~ (i <= GetUsed(b))
      BY <1>1, <1>3, <2>0, <2>5
    <3>2. (Unsent(b) \o Bytes(pdu))[i] = Bytes(pdu)[m]
      BY <1>4, <3>1
    <3> HIDE DEF m
    <3>3. c.buffer[b.used + m] = Bytes(pdu)[m]
      BY <1>8, <3>1
    <3>4. c.buffer[b.consumed + i] = c.buffer[b.used + m]
      BY <3>1
    <3> QED BY <2>2, <3>2, <3>3, <3>4
  <2>6. i <= GetUsed(b) \/ i > GetUsed(b)
    BY <1>1, <1>3, <2>0
  <2> QED BY <2>4, <2>5, <2>6
<1>6. Unsent(c) \in Seq(Byte) /\ Len(Unsent(c)) = GetUsed(b) + n
  BY <1>2, <1>3, UnsentType
<1> QED BY <1>4, <1>5, <1>6, SeqEqual DEF c

-----------------------------------------------------------------------------
StreamOf(pdus) == FlattenSeq([i \in 1 .. Len(pdus) |-> Bytes(pdus[i])])

LEMMA StreamEmpty == StreamOf(<<>>) = <<>>
<1>1. [i \in 1 .. Len(<<>>) |-> Bytes(<<>>[i])] = <<>>
  OBVIOUS
<1> QED BY <1>1, FlattenEmpty DEF StreamOf

LEMMA StreamType ==
  ASSUME NEW pdus \in Seq(Pdus)
  PROVE  StreamOf(pdus) \in Seq(Byte)
<1>1. \A i \in 1 .. Len(pdus) : Bytes(pdus[i]) \in Seq(Byte)
  BY BytesType
<1>2. [i \in 1 .. Len(pdus) |-> Bytes(pdus[i])] \in Seq(Seq(Byte))
  BY <1>1
<1> QED BY <1>2, FlattenType DEF StreamOf

LEMMA StreamAppend ==
  ASSUME NEW pdus \in Seq(Pdus), NEW pdu \in Pdus
  PROVE  StreamOf(Append(pdus, pdu)) = StreamOf(pdus) \o Bytes(pdu)
<1> DEFINE s == [i \in 1 .. Len(pdus) |-> Bytes(pdus[i])]
           more == [i \in 1 .. Len(Append(pdus, pdu)) |-> Bytes(Append(pdus, pdu)[i])]
<1>1. \A i \in 1 .. Len(pdus) : Bytes(pdus[i]) \in Seq(Byte)
  BY BytesType
<1>2. s \in Seq(Seq(Byte)) /\ Len(s) = Len(pdus) /\ \A i \in 1 .. Len(pdus) : s[i] = Bytes(pdus[i])
  BY <1>1
<1>3. Bytes(pdu) \in Seq(Byte)
  BY BytesType
<1>4. more = Append(s, Bytes(pdu))
  <2>1. /\ Len(Append(pdus, pdu)) = Len(pdus) + 1 /\ Append(pdus, pdu)[Len(pdus) + 1] = pdu
        /\ \A i \in 1 .. Len(pdus) : Append(pdus, pdu)[i] = pdus[i]
    BY AppendProperties
  <2>2. /\ Len(Append(s, Bytes(pdu))) = Len(pdus) + 1
        /\ Append(s, Bytes(pdu))[Len(pdus) + 1] = Bytes(pdu)
        /\ \A i \in 1 .. Len(pdus) : Append(s, Bytes(pdu))[i] = s[i]
        /\ Append(s, Bytes(pdu)) \in Seq(Seq(Byte))
    <3> HIDE DEF s
    <3>1. /\ Append(s, Bytes(pdu)) \in Seq(Seq(Byte)) /\ Len(Append(s, Bytes(pdu))) = Len(s) + 1
          /\ \A i \in 1 .. Len(s) : Append(s, Bytes(pdu))[i] = s[i]
          /\ Append(s, Bytes(pdu))[Len(s) + 1] = Bytes(pdu)
      BY <1>2, <1>3, AppendProperties
    <3> QED BY <1>2, <3>1
  <2>3. /\ Len(more) = Len(pdus) + 1 /\ more[Len(pdus) + 1] = Bytes(pdu)
        /\ \A i \in 1 .. Len(pdus) : more[i] = Bytes(pdus[i])
    BY <2>1
  <2>4. more \in Seq(Seq(Byte))
    <3>1. \A i \in 1 .. Len(Append(pdus, pdu)) : Bytes(Append(pdus, pdu)[i]) \in Seq(Byte)
      BY <1>1, <1>3, <2>1
    <3> QED BY <2>1, <3>1
  <2> HIDE DEF s, more
  <2>5. \A i \in 1 .. Len(pdus) + 1 : more[i] = Append(s, Bytes(pdu))[i]
    BY <1>2, <2>2, <2>3
  <2>6. Len(more) = Len(Append(s, Bytes(pdu)))
    BY <2>2, <2>3
  <2>7. \A i \in 1 .. Len(more) : more[i] = Append(s, Bytes(pdu))[i]
    BY <2>3, <2>5
  <2> QED BY <2>2, <2>4, <2>6, <2>7, SeqEqual
<1> HIDE DEF s, more
<1>5. FlattenSeq(Append(s, Bytes(pdu))) = FlattenSeq(s) \o Bytes(pdu)
  BY <1>2, <1>3, FlattenAppend
<1> QED BY <1>4, <1>5 DEF StreamOf, s, more

-----------------------------------------------------------------------------
\* A side that is not sending has nothing left to send.
NothingWaits ==
  \A e \in Sides : pc[e] \in {"add", "recv", "body"} => GetUsed(sb_send[e]) = 0

\* What is on the wire and what waits follow what the other side has taken.
Flows(e) ==
  /\ taken[e] <= Len(StreamOf(added[e]))
  /\ wire[e] \o Unsent(sb_send[e]) = Rest(StreamOf(added[e]), taken[e])

StreamInv ==
  /\ PduInv
  /\ NothingWaits
  /\ reset = "none" => \A e \in Sides : pc[Peer(e)] # "closed" => Flows(e)

LEMMA InvIsStreamIntact == StreamInv => StreamIntact
  BY DEF StreamInv, Flows, StreamIntact, Stream, StreamOf, Rest, Unsent

LEMMA StreamInit == Init => StreamInv
<1> SUFFICES ASSUME Init PROVE StreamInv
  OBVIOUS
<1>1. NothingWaits
  BY NewBuffer DEF Init, NothingWaits, New, GetUsed
<1>2. ASSUME NEW e \in Sides PROVE Flows(e)
  <2>1. Unsent(New) = <<>>
    BY NewBuffer, UnsentNothing DEF New, GetUsed
  <2>2. <<>> \in Seq(Byte) /\ Len(<<>>) = 0
    OBVIOUS
  <2>3. Rest(<<>>, 0) = <<>>
    BY <2>2, SubSeqEmpty DEF Rest
  <2>4. <<>> \o <<>> = <<>>
    BY <2>2, ConcatEmptySeq
  <2> QED BY <2>1, <2>2, <2>3, <2>4, StreamEmpty DEF Init, Flows
<1> QED BY <1>1, <1>2, PduInit DEF StreamInv

\* A side that has closed stays so, and the connection does not come back.
LEMMA NoReturn ==
  ASSUME PduInv, Next
  PROVE  /\ \A e \in Sides : pc[e] = "closed" => pc'[e] = "closed"
         /\ reset # "none" => reset' # "none"
<1>1. pc \in [Sides -> {"add", "send", "recv", "body", "closed"}]
  BY DEF PduInv, TypeOK
<1>2. ASSUME NEW f \in Sides, pc[f] # "closed", NEW p, Goto(f, p)
      PROVE  \A e \in Sides : pc[e] = "closed" => pc'[e] = "closed"
  BY <1>1, <1>2 DEF Goto
<1>3. CASE Break
  BY <1>3 DEF Break
<1>4. CASE ClientAdd
  <2>1. pc["client"] # "closed" /\ (Goto("client", "send") \/ Goto("client", "closed"))
        /\ reset' = reset
    BY <1>4 DEF ClientAdd, Close, wireVars
  <2> QED BY <1>2, <2>1 DEF Sides
<1>5. ASSUME NEW f \in Sides, Send(f)
      PROVE  /\ \A e \in Sides : pc[e] = "closed" => pc'[e] = "closed"
             /\ reset # "none" => reset' # "none"
  <2>1. pc[f] # "closed" /\ (pc' = pc \/ \E p : Goto(f, p))
    BY <1>5 DEF Send, SendFails, SendSome, BeginRecv
  <2>2. reset # "none" => reset' # "none"
    BY <1>5 DEF Send, SendFails, SendSome, wireVars
  <2> QED BY <1>2, <2>1, <2>2
<1>6. ASSUME NEW f \in Sides, Recv(f)
      PROVE  /\ \A e \in Sides : pc[e] = "closed" => pc'[e] = "closed"
             /\ reset # "none" => reset' # "none"
  <2>1. pc[f] # "closed" /\ (pc' = pc \/ \E p : Goto(f, p))
    BY <1>6 DEF Recv, RecvFails, RecvSome
  <2>2. reset' = reset
    BY <1>6 DEF Recv, RecvFails, RecvSome, wireVars
  <2> QED BY <1>2, <2>1, <2>2
<1>7. CASE DriverBody
  <2>1. pc["driver"] # "closed" /\ (Goto("driver", "send") \/ Goto("driver", "closed"))
        /\ reset' = reset
    BY <1>7 DEF DriverBody, wireVars
  <2> QED BY <1>2, <2>1 DEF Sides
<1>8. CASE ClientBody
  <2>1. pc["client"] # "closed" /\ Goto("client", "add") /\ reset' = reset
    BY <1>8 DEF ClientBody, wireVars
  <2> QED BY <1>2, <2>1 DEF Sides
<1> QED BY <1>3, <1>4, <1>5, <1>6, <1>7, <1>8 DEF Next, ClientNext, DriverNext, Sides

\* A stream is not disturbed while its bytes, on the wire and waiting, stay.
LEMMA FlowsSame ==
  ASSUME NEW e \in Sides, Flows(e), wire'[e] = wire[e], taken'[e] = taken[e],
         added'[e] = added[e], Unsent(sb_send'[e]) = Unsent(sb_send[e])
  PROVE  Flows(e)'
<1>1. StreamOf(added'[e]) = StreamOf(added[e])
  OBVIOUS
<1>2. /\ taken'[e] <= Len(StreamOf(added'[e]))
      /\ wire'[e] \o Unsent(sb_send'[e]) = Rest(StreamOf(added'[e]), taken'[e])
  BY <1>1 DEF Flows
<1> QED BY <1>2 DEF Flows, StreamOf, Unsent

\* Bytes are added behind a buffer in which nothing waits.
LEMMA AddFlows ==
  ASSUME PduInv, NEW e \in Sides, NEW b, IsBuffer(b), GetUsed(b) = 0,
         NEW pdu \in Pdus, CanAddPdu(b, pdu),
         sb_send'[e] = AddPdu(b, pdu), added'[e] = Append(added[e], pdu),
         wire'[e] = wire[e], taken'[e] = taken[e],
         IsBuffer(sb_send[e]), GetUsed(sb_send[e]) = 0, Flows(e)
  PROVE  Flows(e)'
<1>1. /\ added[e] \in Seq(Pdus) /\ wire[e] \in Seq(Byte) /\ taken[e] \in Nat
      /\ StreamOf(added[e]) \in Seq(Byte) /\ Bytes(pdu) \in Seq(Byte)
      /\ Len(StreamOf(added[e])) \in Nat
  BY StreamType, BytesType DEF PduInv, TypeOK
<1>2. StreamOf(added[e])' = StreamOf(added[e]) \o Bytes(pdu)
  <2>1. StreamOf(added'[e]) = StreamOf(added[e]) \o Bytes(pdu)
    BY <1>1, StreamAppend
  <2> QED BY <2>1 DEF StreamOf
<1>3. wire[e] = Rest(StreamOf(added[e]), taken[e])
  BY <1>1, UnsentNothing, ConcatEmptySeq DEF Flows
<1>4. Unsent(AddPdu(b, pdu)) = Bytes(pdu)
  BY <1>1, UnsentNothing, UnsentAdd, ConcatEmptySeq
<1>5. Rest(StreamOf(added[e]) \o Bytes(pdu), taken[e]) = Rest(StreamOf(added[e]), taken[e]) \o Bytes(pdu)
  <2>1. taken[e] \in 0 .. Len(StreamOf(added[e]))
    BY <1>1 DEF Flows
  <2> QED BY <1>1, <2>1, RestOfConcat
<1>6. taken[e] <= Len(StreamOf(added[e]) \o Bytes(pdu))
  <2>1. Len(StreamOf(added[e]) \o Bytes(pdu)) = Len(StreamOf(added[e])) + Len(Bytes(pdu))
    BY <1>1, ConcatProperties
  <2>2. Len(Bytes(pdu)) \in Nat
    BY <1>1
  <2> QED BY <1>1, <2>1, <2>2 DEF Flows
<1> QED BY <1>2, <1>3, <1>4, <1>5, <1>6 DEF Flows, Unsent

LEMMA ClientAddStream ==
  ASSUME StreamInv, ClientAdd
  PROVE  /\ NothingWaits'
         /\ \A e \in Sides : Flows(e) => Flows(e)'
<1>1. CASE Close("client")
  <2>1. NothingWaits'
    BY <1>1 DEF StreamInv, PduInv, TypeOK, NothingWaits, Close, Goto, bufferVars
  <2>2. UNCHANGED <<sb_send, wire, taken, added>>
    BY <1>1 DEF Close, bufferVars, wireVars
  <2> QED BY <2>1, <2>2, FlowsSame
<1>2. CASE ~ Close("client")
  <2> DEFINE b == RoundBuffer(sb_send["client"])
  <2>1. /\ CanAddPdu(b, NextRequest) /\ pc["client"] = "add"
        /\ sb_send' = [sb_send EXCEPT !["client"] = AddPdu(b, NextRequest)]
        /\ added' = [added EXCEPT !["client"] = Append(added["client"], NextRequest)]
        /\ pc' = [pc EXCEPT !["client"] = "send"]
        /\ wire' = wire /\ taken' = taken
    BY <1>2 DEF ClientAdd, wireVars, Goto
  <2>2. IsBuffer(sb_send["client"]) /\ GetUsed(sb_send["client"]) = 0
    BY <2>1, TypeOKBuffers DEF StreamInv, PduInv, NothingWaits, Sides
  <2>3. IsBuffer(b) /\ GetUsed(b) = 0
    <3>1. GetUsed(New) = 0
      BY DEF New, GetUsed
    <3>2. b \in {New, sb_send["client"]}
      BY DEF RoundBuffer
    <3> HIDE DEF b
    <3> QED BY <2>2, <3>1, <3>2, NewBuffer
  <2>4. NextRequest \in Pdus
    <3>1. \E type \in PduTypes : NextRequest = Pdu("client", type)
      BY DEF NextRequest, PduTypes
    <3> QED  BY <2>1, <2>3, <3>1, PduType DEF StreamInv, PduInv, Sides
  <2> HIDE DEF b
  <2>5. /\ sb_send \in [Sides -> Buffers] /\ added \in [Sides -> Seq(Pdus)]
        /\ pc \in [Sides -> {"add", "send", "recv", "body", "closed"}]
    BY DEF StreamInv, PduInv, TypeOK
  <2>6. NothingWaits'
    BY <2>1, <2>5 DEF StreamInv, NothingWaits
  <2>7. ASSUME Flows("client") PROVE Flows("client")'
    <3>1. sb_send'["client"] = AddPdu(b, NextRequest)
          /\ added'["client"] = Append(added["client"], NextRequest)
      BY <2>1, <2>5 DEF Sides
    <3> QED BY <2>1, <2>2, <2>3, <2>4, <2>7, <3>1, AddFlows DEF StreamInv, Sides
  <2>8. ASSUME NEW e \in Sides, e # "client", Flows(e) PROVE Flows(e)'
    <3>1. sb_send'[e] = sb_send[e] /\ added'[e] = added[e]
      BY <2>1, <2>5, <2>8
    <3> QED BY <2>1, <2>8, <3>1, FlowsSame
  <2> QED BY <2>6, <2>7, <2>8
<1> QED BY <1>1, <1>2

LEMMA DriverBodyStream ==
  ASSUME StreamInv, DriverBody
  PROVE  /\ NothingWaits'
         /\ \A e \in Sides : Flows(e) => Flows(e)'
<1> DEFINE b == sb_send["driver"]
<1>1. IsBuffer(b) /\ GetUsed(b) = 0 /\ wire' = wire /\ taken' = taken
  BY TypeOKBuffers DEF StreamInv, PduInv, NothingWaits, DriverBody, Sides, wireVars
<1>2. /\ sb_send \in [Sides -> Buffers] /\ added \in [Sides -> Seq(Pdus)]
      /\ pc \in [Sides -> {"add", "send", "recv", "body", "closed"}]
  BY DEF StreamInv, PduInv, TypeOK
<1>3. ASSUME NEW type \in PduTypes, CanAddPdu(b, Pdu("driver", type)),
             sb_send' = [sb_send EXCEPT !["driver"] = AddPdu(b, Pdu("driver", type))],
             added' = [added EXCEPT !["driver"] = Append(added["driver"], Pdu("driver", type))],
             pc' = [pc EXCEPT !["driver"] = "send"]
      PROVE  /\ NothingWaits'
             /\ \A e \in Sides : Flows(e) => Flows(e)'
  <2>1. NothingWaits'
    BY <1>2, <1>3 DEF StreamInv, NothingWaits
  <2>2. ASSUME Flows("driver") PROVE Flows("driver")'
    <3>1. sb_send'["driver"] = AddPdu(b, Pdu("driver", type))
          /\ added'["driver"] = Append(added["driver"], Pdu("driver", type))
      BY <1>2, <1>3 DEF Sides
    <3>2. Pdu("driver", type) \in Pdus
      BY <1>1, <1>3, PduType DEF StreamInv, PduInv, Sides
    <3> QED BY <1>1, <1>3, <2>2, <3>1, <3>2, AddFlows DEF StreamInv, Sides
  <2>3. ASSUME NEW e \in Sides, e # "driver", Flows(e) PROVE Flows(e)'
    <3>1. sb_send'[e] = sb_send[e] /\ added'[e] = added[e]
      BY <1>2, <1>3, <2>3
    <3> QED BY <1>1, <2>3, <3>1, FlowsSame
  <2> QED BY <2>1, <2>2, <2>3
<1>4. CASE UNCHANGED <<sb_send, added>> /\ Goto("driver", "closed")
  <2>1. NothingWaits'
    BY <1>2, <1>4 DEF StreamInv, NothingWaits, Goto
  <2> QED BY <1>1, <1>4, <2>1, FlowsSame
<1>5. \/ UNCHANGED <<sb_send, added>> /\ Goto("driver", "closed")
      \/ \E type \in PduTypes :
           /\ CanAddPdu(b, Pdu("driver", type))
           /\ sb_send' = [sb_send EXCEPT !["driver"] = AddPdu(b, Pdu("driver", type))]
           /\ added' = [added EXCEPT !["driver"] = Append(added["driver"], Pdu("driver", type))]
           /\ pc' = [pc EXCEPT !["driver"] = "send"]
  BY DEF DriverBody, Answers, Goto
<1> QED BY <1>3, <1>4, <1>5

\* What a send takes moves from the buffer to the end of the wire.
LEMMA SendStream ==
  ASSUME StreamInv, NEW f \in Sides, Send(f)
  PROVE  /\ NothingWaits'
         /\ \A e \in Sides : Flows(e) /\ reset' = "none" /\ pc'[Peer(e)] # "closed" => Flows(e)'
<1>1. /\ sb_send \in [Sides -> Buffers] /\ wire \in [Sides -> Seq(Byte)]
      /\ pc \in [Sides -> {"add", "send", "recv", "body", "closed"}]
      /\ IsBuffer(sb_send[f]) /\ pc[f] = "send" /\ added' = added /\ taken' = taken
  BY TypeOKBuffers DEF StreamInv, PduInv, Send, SendFails, SendSome, wireVars
<1>2. CASE SendFails(f)
  <2>1. /\ sb_send' = [sb_send EXCEPT ![f] = Sweep(sb_send[f])] /\ wire' = wire
        /\ pc' = [pc EXCEPT ![f] = "closed"]
    BY <1>2 DEF SendFails, wireVars, Goto
  <2>2. NothingWaits'
    BY <1>1, <2>1 DEF StreamInv, NothingWaits
  <2>3. \A e \in Sides : Unsent(sb_send'[e]) = Unsent(sb_send[e])
    BY <1>1, <2>1, UnsentSweep
  <2> QED BY <1>1, <2>1, <2>2, <2>3, FlowsSame
<1>3. ASSUME NEW n \in 1 .. GetRemainingSendSize(sb_send[f]), SendSome(f, n)
      PROVE  /\ NothingWaits'
             /\ \A e \in Sides :
                  Flows(e) /\ reset' = "none" /\ pc'[Peer(e)] # "closed" => Flows(e)'
  <2> DEFINE a == sb_send[f]
             b == Consume(a, n)
             x == FromStart(a, n)
  <2>1. /\ n \in 1 .. GetUsed(a) /\ n \in Nat
    BY <1>1, <1>3, UnsentType DEF GetRemainingSendSize
  <2>2. /\ IsBuffer(b) /\ x = SubSeq(Unsent(a), 1, n) /\ Unsent(b) = Rest(Unsent(a), n)
    BY <1>1, <2>1, ConsumeBuffer, UnsentConsume
  <2>3. \/ b.used = b.consumed /\ sb_send' = [sb_send EXCEPT ![f] = Sweep(b)] /\ BeginRecv(f)
        \/ sb_send' = [sb_send EXCEPT ![f] = b] /\ pc' = pc
    BY <1>3 DEF SendSome
  <2>4. reset' = "none" => wire' = [wire EXCEPT ![f] = wire[f] \o x]
    BY <1>3 DEF SendSome
  <2> HIDE DEF b, x
  <2>5. NothingWaits'
    <3>1. CASE b.used = b.consumed /\ sb_send' = [sb_send EXCEPT ![f] = Sweep(b)] /\ BeginRecv(f)
      <4>1. sb_send'[f] = Sweep(b) /\ \A e \in Sides \ {f} : sb_send'[e] = sb_send[e]
        BY <1>1, <3>1
      <4>2. GetUsed(Sweep(b)) = 0
        BY <2>2, <3>1, SweepBuffer DEF GetUsed, IsBuffer, Buffers
      <4>3. \A e \in Sides \ {f} : pc'[e] = pc[e]
        BY <1>1, <3>1 DEF BeginRecv, Goto
      <4> QED BY <4>1, <4>2, <4>3 DEF StreamInv, NothingWaits
    <3>2. CASE sb_send' = [sb_send EXCEPT ![f] = b] /\ pc' = pc
      BY <1>1, <3>2 DEF StreamInv, NothingWaits
    <3> QED BY <2>3, <3>1, <3>2
  <2>6. ASSUME NEW e \in Sides, e # f, Flows(e), reset' = "none" PROVE Flows(e)'
    <3>1. sb_send'[e] = sb_send[e] /\ wire'[e] = wire[e]
      BY <1>1, <2>3, <2>4, <2>6
    <3> QED BY <1>1, <2>6, <3>1, FlowsSame
  <2>7. ASSUME Flows(f), reset' = "none" PROVE Flows(f)'
    <3>1. wire'[f] = wire[f] \o x
      BY <1>1, <2>4, <2>7
    <3>2. Unsent(sb_send'[f]) = Rest(Unsent(a), n)
      <4>1. sb_send'[f] \in {b, Sweep(b)}
        BY <1>1, <2>3
      <4> QED BY <2>2, <4>1, UnsentSweep
    <3>3. (wire[f] \o x) \o Rest(Unsent(a), n) = wire[f] \o Unsent(a)
      <4>1. Unsent(a) \in Seq(Byte) /\ n \in 0 .. Len(Unsent(a)) /\ wire[f] \in Seq(Byte)
        BY <1>1, <2>1, UnsentType
      <4> QED BY <2>2, <4>1, MoveFirst
    <3>4. wire[f] \o Unsent(a) = Rest(StreamOf(added[f]), taken[f])
          /\ taken[f] <= Len(StreamOf(added[f]))
      BY <2>7 DEF Flows
    <3>5. /\ taken'[f] <= Len(StreamOf(added'[f]))
          /\ wire'[f] \o Unsent(sb_send'[f]) = Rest(StreamOf(added'[f]), taken'[f])
      BY <1>1, <3>1, <3>2, <3>3, <3>4
    <3> QED BY <3>5 DEF Flows, StreamOf, Unsent
  <2> QED BY <2>5, <2>6, <2>7
<1> QED BY <1>2, <1>3 DEF Send

\* What recv returns leaves the front of the wire.
LEMMA RecvStream ==
  ASSUME StreamInv, NEW f \in Sides, Recv(f)
  PROVE  /\ NothingWaits'
         /\ \A e \in Sides : Flows(e) => Flows(e)'
<1>1. /\ pc \in [Sides -> {"add", "send", "recv", "body", "closed"}]
      /\ wire \in [Sides -> Seq(Byte)] /\ taken \in [Sides -> Nat]
      /\ pc[f] = "recv" /\ UNCHANGED <<sb_send, added>>
  BY DEF StreamInv, PduInv, TypeOK, Recv
<1>2. NothingWaits'
  <2>1. pc' = pc \/ Goto(f, "body")
    BY DEF Recv, RecvFails, RecvSome
  <2> QED BY <1>1, <2>1 DEF StreamInv, NothingWaits, Goto
<1>3. CASE RecvFails(f)
  <2>1. UNCHANGED <<wire, taken>>
    BY <1>3 DEF RecvFails, wireVars
  <2> QED BY <1>1, <1>2, <2>1, FlowsSame
<1>4. ASSUME NEW n \in Piece(f), RecvSome(f, n)
      PROVE  \A e \in Sides : Flows(e) => Flows(e)'
  <2> DEFINE from == Peer(f)
  <2>1. /\ from \in Sides
        /\ wire' = [wire EXCEPT ![from] = Rest(wire[from], n)]
        /\ taken' = [taken EXCEPT ![from] = taken[from] + n]
    BY <1>4 DEF RecvSome, Peer, Sides, Rest
  <2>2. n \in 0 .. Len(wire[from]) /\ n \in Nat
    BY <1>1, PieceFits DEF StreamInv
  <2> HIDE DEF from
  <2>3. ASSUME NEW e \in Sides, e # from, Flows(e) PROVE Flows(e)'
    <3>1. wire'[e] = wire[e] /\ taken'[e] = taken[e]
      BY <1>1, <2>1, <2>3
    <3> QED BY <1>1, <2>3, <3>1, FlowsSame
  <2>4. ASSUME Flows(from) PROVE Flows(from)'
    <3> DEFINE w == wire[from]
               u == Unsent(sb_send[from])
               s == StreamOf(added[from])
               t == taken[from]
    <3>1. w \in Seq(Byte) /\ u \in Seq(Byte) /\ s \in Seq(Byte) /\ t \in Nat /\ Len(s) \in Nat
      BY <1>1, <2>1, UnsentType, StreamType, TypeOKBuffers DEF StreamInv, PduInv, TypeOK
    <3>2. t <= Len(s) /\ w \o u = Rest(s, t)
      BY <2>4 DEF Flows
    <3>3. wire'[from] = Rest(w, n) /\ taken'[from] = t + n
      BY <1>1, <2>1
    <3>4. n \in 0 .. Len(w)
      BY <2>2
    <3> HIDE DEF w, u, s, t
    <3>5. Rest(w, n) \o u = Rest(w \o u, n)
      BY <3>1, <3>4, RestOfConcat
    <3>6. Len(w) + Len(u) = Len(s) - t
      <4>1. Len(w \o u) = Len(w) + Len(u)
        BY <3>1, ConcatProperties
      <4>2. t \in 0 .. Len(s)
        BY <3>1, <3>2
      <4>3. Len(Rest(s, t)) = Len(s) - t
        BY <3>1, <4>2, RestType
      <4> QED BY <3>2, <4>1, <4>3
    <3>7. t + n <= Len(s)
      <4>1. Len(w) \in Nat /\ Len(u) \in Nat
        BY <3>1
      <4> QED BY <2>2, <3>1, <3>4, <3>6, <4>1
    <3>8. Rest(Rest(s, t), n) = Rest(s, t + n)
      BY <2>2, <3>1, <3>7, RestOfRest
    <3>9. taken'[from] <= Len(s) /\ wire'[from] \o u = Rest(s, taken'[from])
      BY <3>2, <3>3, <3>5, <3>7, <3>8
    <3>10. /\ taken'[from] <= Len(StreamOf(added'[from]))
           /\ wire'[from] \o Unsent(sb_send'[from]) = Rest(StreamOf(added'[from]), taken'[from])
      BY <1>1, <3>9 DEF s, u
    <3> QED BY <3>10 DEF Flows, StreamOf, Unsent
  <2> QED BY <2>3, <2>4
<1> QED BY <1>2, <1>3, <1>4 DEF Recv

LEMMA NextStreamInv == StreamInv /\ [Next]_vars => StreamInv'
<1> SUFFICES ASSUME StreamInv, [Next]_vars PROVE StreamInv'
  OBVIOUS
<1>1. PduInv'
  BY NextPduInv DEF StreamInv
<1>2. CASE Next
  <2>1. /\ \A e \in Sides : pc[e] = "closed" => pc'[e] = "closed"
        /\ reset # "none" => reset' # "none"
    BY <1>2, NoReturn DEF StreamInv
  <2>2. /\ NothingWaits'
        /\ \A e \in Sides : Flows(e) /\ reset' = "none" /\ pc'[Peer(e)] # "closed" => Flows(e)'
    <3>1. CASE Break
      <4>1. UNCHANGED <<pc, sb_send, wire, taken, added>>
        BY <3>1 DEF Break, bufferVars
      <4>2. NothingWaits'
        BY <4>1 DEF StreamInv, NothingWaits
      <4> QED BY <4>1, <4>2, FlowsSame
    <3>2. CASE ClientBody
      <4>1. /\ UNCHANGED <<sb_send, wire, taken, added>> /\ pc["client"] = "body"
            /\ pc' = [pc EXCEPT !["client"] = "add"]
        BY <3>2 DEF ClientBody, wireVars, Goto
      <4>2. NothingWaits'
        BY <4>1 DEF StreamInv, PduInv, TypeOK, NothingWaits
      <4> QED BY <4>1, <4>2, FlowsSame
    <3> QED BY <1>2, <3>1, <3>2, ClientAddStream, DriverBodyStream, SendStream, RecvStream
            DEF Next, ClientNext, DriverNext, Sides
  <2>3. ASSUME reset' = "none", NEW e \in Sides, pc'[Peer(e)] # "closed" PROVE Flows(e)'
    <3>1. Peer(e) \in Sides
      BY DEF Peer, Sides
    <3>2. Flows(e)
      BY <2>1, <2>3, <3>1 DEF StreamInv
    <3> QED BY <2>2, <2>3, <3>2
  <2> QED BY <1>1, <2>2, <2>3 DEF StreamInv, Peer
<1>3. CASE UNCHANGED vars
  <2>1. UNCHANGED <<pc, sb_send, wire, taken, added, reset>>
    BY <1>3 DEF vars, bufferVars, wireVars
  <2>2. NothingWaits'
    BY <2>1 DEF StreamInv, NothingWaits
  <2>3. ASSUME reset' = "none", NEW e \in Sides, pc'[Peer(e)] # "closed" PROVE Flows(e)'
    <3>1. Flows(e)
      BY <2>1, <2>3 DEF StreamInv
    <3> QED BY <2>1, <3>1, FlowsSame
  <2> QED BY <1>1, <2>2, <2>3 DEF StreamInv, Peer
<1> QED BY <1>2, <1>3

\* Until the connection breaks, SEND_ALL puts every byte that AddPdu stored on
\* the wire once and in order, however little each send takes and in whatever
\* pieces the bytes are received, for any number of rounds (helper.hpp:17-34).
THEOREM StreamKept == Spec => []StreamIntact
<1>1. StreamInv => StreamIntact
  BY InvIsStreamIntact
<1> QED BY <1>1, StreamInit, NextStreamInv, PTL DEF Spec

-----------------------------------------------------------------------------
\* The stream of some PDUs begins with the bytes of the first.
LEMMA StreamCons ==
  ASSUME NEW pdus \in Seq(Pdus), Len(pdus) # 0
  PROVE  StreamOf(pdus) = Bytes(pdus[1]) \o StreamOf(Rest(pdus, 1))
<1> DEFINE Holds(s) == StreamOf(s) = Bytes(s[1]) \o StreamOf(Rest(s, 1))
           S == {n \in Nat : \A s \in Seq(Pdus) : Len(s) = n + 1 => Holds(s)}
<1>1. 0 \in S
  <2> SUFFICES ASSUME NEW s \in Seq(Pdus), Len(s) = 1 PROVE Holds(s)
    OBVIOUS
  <2>1. s[1] \in Pdus /\ <<>> \in Seq(Pdus) /\ s = Append(<<>>, s[1])
    <3>0. s[1] \in Pdus
      <4>1. 1 \in 1 .. Len(s)
        OBVIOUS
      <4> QED BY <4>1, ElementOfSeq
    <3>1. s[1] \in Pdus /\ <<>> \in Seq(Pdus) /\ Len(<<>>) = 0
      <4>1. <<>> \in Seq(Pdus)
        OBVIOUS
      <4>2. Len(<<>>) = 0
        OBVIOUS
      <4> QED BY <3>0, <4>1, <4>2, Zenon
    <3> DEFINE a == Append(<<>>, s[1])
    <3>2. a \in Seq(Pdus) /\ Len(a) = 1 /\ a[1] = s[1]
      BY <3>1, AppendAt
    <3> HIDE DEF a
    <3>3. s = a
      BY <3>2, SeqEqual
    <3> QED BY <3>1, <3>3 DEF a
  <2>2. StreamOf(s) = <<>> \o Bytes(s[1])
    BY <2>1, StreamAppend, StreamEmpty
  <2>3. Rest(s, 1) = <<>>
    <3>1. 1 \in 0 .. Len(s) /\ Len(s) - 1 = 0
      OBVIOUS
    <3>2. Rest(s, 1) \in Seq(Pdus) /\ Len(Rest(s, 1)) = 0
      BY <3>1, RestType
    <3> QED BY <3>2, EmptySeq
  <2>4. Bytes(s[1]) \in Seq(Byte)
    BY <2>1, BytesType
  <2>5. <<>> \o Bytes(s[1]) = Bytes(s[1]) /\ Bytes(s[1]) \o <<>> = Bytes(s[1])
    BY <2>4, ConcatEmptySeq
  <2> QED BY <2>2, <2>3, <2>5, StreamEmpty
<1>2. ASSUME NEW n \in Nat, n \in S PROVE n + 1 \in S
  <2> SUFFICES ASSUME NEW s \in Seq(Pdus), Len(s) = n + 1 + 1 PROVE Holds(s)
    OBVIOUS
  <2> DEFINE t == SubSeq(s, 1, n + 1)
             x == s[n + 1 + 1]
  <2>1. t \in Seq(Pdus) /\ Len(t) = n + 1 /\ \A i \in 1 .. n + 1 : t[i] = s[i]
    <3>1. n + 1 \in 0 .. Len(s)
      OBVIOUS
    <3> QED BY <3>1, FirstType
  <2>2. x \in Pdus
    OBVIOUS
  <2>3. s = Append(t, x)
    <3>1. /\ Append(t, x) \in Seq(Pdus) /\ Len(Append(t, x)) = Len(t) + 1
          /\ Append(t, x)[Len(t) + 1] = x
          /\ \A i \in 1 .. Len(t) : Append(t, x)[i] = t[i]
      BY <2>1, <2>2, AppendAt
    <3> DEFINE a == Append(t, x)
    <3>2. a \in Seq(Pdus) /\ Len(a) = n + 1 + 1 /\ a[n + 1 + 1] = s[n + 1 + 1]
          /\ \A i \in 1 .. n + 1 : a[i] = s[i]
      BY <2>1, <3>1
    <3> HIDE DEF t, x, a
    <3>3. \A i \in 1 .. Len(s) : s[i] = a[i]
      BY <3>2
    <3>4. s = a
      BY <3>2, <3>3, SeqEqual
    <3> QED BY <3>4 DEF a
  <2>4. Holds(t)
    BY <1>2, <2>1
  <2>5. t[1] = s[1] /\ 1 \in 0 .. Len(t)
    BY <2>1
  <2> HIDE DEF t, x
  <2>6. Rest(t, 1) \in Seq(Pdus) /\ t[1] \in Pdus
    <3>1. t[1] \in Pdus
      BY <2>1
    <3> QED BY <2>1, <2>5, <3>1, RestType
  <2>7. Rest(s, 1) = Append(Rest(t, 1), x)
    BY <2>1, <2>2, <2>3, <2>5, RestOfAppend
  <2> DEFINE p == Bytes(t[1])
             r == StreamOf(Rest(t, 1))
             q == Bytes(x)
  <2>8. p \in Seq(Byte) /\ r \in Seq(Byte) /\ q \in Seq(Byte)
    BY <2>2, <2>6, BytesType, StreamType
  <2>9. StreamOf(s) = StreamOf(t) \o q
    BY <2>1, <2>2, <2>3, StreamAppend
  <2>10. StreamOf(Rest(s, 1)) = r \o q
    BY <2>2, <2>6, <2>7, StreamAppend
  <2>11. StreamOf(t) = p \o r
    BY <2>4
  <2>12. Bytes(s[1]) = p
    BY <2>5
  <2> HIDE DEF p, r, q
  <2>13. Regroups(p, r, q)
    BY <2>8, Regroup
  <2> QED BY ONLY <2>9, <2>10, <2>11, <2>12, <2>13, Zenon DEF Regroups
<1> HIDE DEF S
<1>3. \A n \in Nat : n \in S
  BY <1>1, <1>2, NatSetInduction
<1> DEFINE n == Len(pdus) - 1
<1>4. n \in Nat /\ Len(pdus) = n + 1
  OBVIOUS
<1> HIDE DEF n
<1>5. Holds(pdus)
  BY <1>3, <1>4 DEF S
<1> QED BY <1>5

\* The first byte on the wire tells the PDU that comes first; once its bytes are
\* all there, they are the front of the wire.
Carries(w, u, r) == w \o u = StreamOf(r)

LEMMA FirstPdu ==
  ASSUME NEW w \in Seq(Byte), NEW u \in Seq(Byte), NEW r \in Seq(Pdus), Carries(w, u, r),
         w # <<>>, NEW n \in 1 .. Len(w), n = HeaderSize + w[1].pdu.length
  PROVE  /\ Len(r) # 0 /\ r[1] \in Pdus /\ w[1].pdu = r[1]
         /\ SubSeq(w, 1, n) = Bytes(r[1])
         /\ Carries(Rest(w, n), u, Rest(r, 1))
<1>1. Len(w) \in Nat /\ Len(w) # 0 /\ 1 \in 1 .. Len(w)
  BY EmptySeq
<1>2. /\ Len(w \o u) = Len(w) + Len(u) /\ w \o u \in Seq(Byte) /\ Len(u) \in Nat
      /\ \A i \in 1 .. Len(w) : (w \o u)[i] = w[i]
  BY ConcatAt
<1>3. Len(r) # 0
  <2>1. Len(StreamOf(r)) # 0
    <3>1. StreamOf(r) = w \o u
      BY Zenon DEF Carries
    <3>2. Len(w \o u) # 0
      BY <1>1, <1>2
    <3> QED BY <3>1, <3>2
  <2>2. Len(<<>>) = 0
    OBVIOUS
  <2>3. r # <<>>
    BY <2>1, <2>2, StreamEmpty
  <2> QED BY <2>3, EmptySeq
<1>4. r[1] \in Pdus
  BY <1>3
<1> DEFINE p == Bytes(r[1])
           t == StreamOf(Rest(r, 1))
           l == HeaderSize + r[1].length
<1>5. /\ p \in Seq(Byte) /\ Len(p) = l /\ l \in Nat /\ 1 <= l
      /\ \A i \in 1 .. l : p[i].pdu = r[1]
  <2>1. r[1].length \in Nat /\ HeaderSize \in Nat /\ 1 <= HeaderSize
    BY <1>4, SocketBufferAssumption DEF Pdus, HeaderSize
  <2> HIDE DEF p
  <2>2. /\ p \in Seq(Byte) /\ Len(p) = l /\ \A i \in 1 .. l : p[i].pdu = r[1]
    BY <1>4, BytesType DEF p
  <2> QED BY <2>1, <2>2
<1>6. Rest(r, 1) \in Seq(Pdus) /\ t \in Seq(Byte)
  <2>1. 1 \in 0 .. Len(r)
    BY <1>3
  <2> QED BY <2>1, RestType, StreamType
<1>7. w \o u = p \o t
  <2>1. StreamOf(r) = p \o t
    BY <1>3, StreamCons
  <2> QED BY <2>1, Zenon DEF Carries
<1> HIDE DEF p, t, l
<1>8. /\ p \o t \in Seq(Byte) /\ Len(p \o t) = Len(p) + Len(t) /\ Len(t) \in Nat
      /\ \A i \in 1 .. Len(p) : (p \o t)[i] = p[i]
  <2>1. p \in Seq(Byte) /\ t \in Seq(Byte)
    BY <1>5, <1>6
  <2>2. /\ p \o t \in Seq(Byte) /\ Len(p \o t) = Len(p) + Len(t)
        /\ \A i \in 1 .. Len(p) : (p \o t)[i] = p[i]
    BY ONLY <2>1, ConcatAt
  <2>3. Len(t) \in Nat
    BY ONLY <2>1
  <2> QED BY <2>2, <2>3
<1>9. \A i \in 1 .. Len(w) : w[i] = (p \o t)[i]
  BY <1>2, <1>7
<1>10. w[1].pdu = r[1]
  <2>1. 1 \in 1 .. l
    BY <1>5
  <2>2. w[1] = p[1]
    BY <1>1, <1>5, <1>8, <1>9, <2>1
  <2> QED BY <1>5, <2>1, <2>2
<1>11. n = l
  BY <1>10 DEF l
<1>12. SubSeq(w, 1, n) = p
  <2>1. n \in 0 .. Len(w)
    OBVIOUS
  <2>2. SubSeq(w, 1, n) \in Seq(Byte) /\ Len(SubSeq(w, 1, n)) = n
        /\ \A i \in 1 .. n : SubSeq(w, 1, n)[i] = w[i]
    BY <2>1, FirstType
  <2>3. \A i \in 1 .. n : i \in 1 .. Len(w) /\ i \in 1 .. Len(p)
    BY <1>1, <1>5, <1>11
  <2>4. \A i \in 1 .. n : SubSeq(w, 1, n)[i] = p[i]
    BY <1>8, <1>9, <2>2, <2>3
  <2> QED BY <1>5, <1>11, <2>2, <2>4, SeqEqual
<1>13. Rest(w, n) \o u = t
  <2>1. n \in 0 .. Len(w) /\ n \in 0 .. Len(p) /\ n = Len(p)
    BY <1>5, <1>11
  <2>2. Rest(w \o u, n) = Rest(w, n) \o u
    BY ONLY <2>1, RestOfConcat, w \in Seq(Byte), u \in Seq(Byte)
  <2>3. Rest(p \o t, n) = Rest(p, n) \o t
    BY ONLY <1>5, <1>6, <2>1, RestOfConcat
  <2>4. Rest(p, n) = <<>>
    <3>1. Len(p) - n = 0
      BY <1>5, <2>1
    <3>2. Rest(p, n) \in Seq(Byte) /\ Len(Rest(p, n)) = 0
      BY <1>5, <2>1, <3>1, RestType
    <3> QED BY <3>2, EmptySeq
  <2>5. <<>> \o t = t
    BY <1>6, ConcatEmptySeq
  <2> QED BY ONLY <1>7, <2>2, <2>3, <2>4, <2>5, Zenon
<1>14. Carries(Rest(w, n), u, Rest(r, 1))
  BY <1>13, Zenon DEF Carries, t
<1> QED BY <1>3, <1>4, <1>10, <1>12, <1>14 DEF p

\* A PDU received whole into an empty buffer is found there, and skipping its
\* header leaves its payload at GetStart().
LEMMA WholePdu ==
  ASSUME NEW a, IsBuffer(a), a.consumed = 0, a.used = 0,
         NEW p \in Pdus, HeaderSize + p.length <= SIZE,
         NEW b, b = Receive(a, Bytes(p))
  PROVE  /\ b.consumed = 0 /\ b.used = HeaderSize + p.length
         /\ LengthFields(b) = {p.length} /\ TypeFields(b, AnyType) = {p.type}
         /\ HasHeader(b) /\ HasPdu(b, p.length)
         /\ SkipHeader(b).consumed = HeaderSize
         /\ SkipHeader(b).used = HeaderSize + p.length
         /\ SkipHeader(b).buffer[1].at = 1
         /\ FromStart(SkipHeader(b), p.length)
              = SubSeq(Bytes(p), HeaderSize + 1, HeaderSize + p.length)
<1> DEFINE h == HeaderSize
           l == HeaderSize + p.length
           s == Bytes(p)
<1>1. /\ h \in Nat /\ l \in Nat /\ h <= l /\ l <= SIZE /\ SIZE \in Nat /\ p.length \in Nat
      /\ l = h + p.length /\ LenSize \in Nat /\ TypeSize \in Nat /\ h = LenSize + TypeSize
      /\ 1 <= LenSize /\ 1 <= TypeSize
  BY SocketBufferAssumption DEF HeaderSize, Pdus
<1>2. s \in Seq(Byte) /\ Len(s) = l /\ \A i \in 1 .. l : s[i].pdu = p
  BY BytesType
<1>0. s[1].at = 1
  <2>1. 1 \in 1 .. HeaderSize + p.length
    BY <1>1
  <2> QED BY <2>1 DEF Bytes
<1>3. b = [buffer |-> Store(a.buffer, 0, s), used |-> l, consumed |-> 0]
  <2>1. a = [buffer |-> a.buffer, used |-> 0, consumed |-> 0]
    BY DEF IsBuffer, Buffers
  <2>2. CountsReceived(a, Len(s))
    BY <1>1, <1>2 DEF CountsReceived
  <2> HIDE DEF s, l
  <2>3. Receive(a, s) = [buffer |-> Store(a.buffer, a.consumed, s), used |-> a.used + Len(s),
                         consumed |-> a.consumed]
    BY <2>1, <2>2 DEF Receive
  <2>4. a.used + Len(s) = l
    BY <1>1, <1>2
  <2> QED BY <2>3, <2>4 DEF s
<1> DEFINE x == Store(a.buffer, 0, s)
<1>4. x \in [1 .. SIZE -> Byte]
  BY <1>2, StoreType DEF IsBuffer, Buffers
<1> HIDE DEF s, l, h
<1>5. \A i \in 1 .. l : x[i] = s[i]
  <2>1. ASSUME NEW i \in 1 .. l PROVE x[i] = s[i]
    <3>1. i \in 1 .. SIZE /\ i > 0 /\ i <= 0 + Len(s) /\ i - 0 = i /\ 0 \in Nat
      BY <1>1, <1>2
    <3>2. x[i] = IF i > 0 /\ i <= 0 + Len(s) THEN s[i - 0] ELSE a.buffer[i]
      BY <3>1, StoreAt
    <3> QED BY <3>1, <3>2
  <2> QED BY <2>1
<1> HIDE DEF x
<1>6. ASSUME NEW m \in 1 .. l, NEW n \in 1 .. l, m <= n
      PROVE  /\ SubSeq(x, m, n) = SubSeq(s, m, n)
             /\ SubSeq(x, m, n) \in Seq(Byte) /\ Len(SubSeq(x, m, n)) = n - m + 1
             /\ \A i \in 1 .. n - m + 1 : SubSeq(x, m, n)[i] \in Byte /\ SubSeq(x, m, n)[i].pdu = p
  <2>1. /\ SubSeq(x, m, n) \in Seq(Byte) /\ Len(SubSeq(x, m, n)) = n - m + 1
        /\ \A i \in 1 .. n - m + 1 : SubSeq(x, m, n)[i] = x[m + i - 1]
    <3>1. m \in Nat \ {0} /\ n \in Nat /\ n <= SIZE
      BY <1>1
    <3> QED BY <1>4, <1>6, <3>1, PartType
  <2>2. /\ SubSeq(s, m, n) \in Seq(Byte) /\ Len(SubSeq(s, m, n)) = n - m + 1
        /\ \A i \in 1 .. n - m + 1 : SubSeq(s, m, n)[i] = s[m + i - 1]
    <3>1. \A i \in m .. n : s[i] \in Byte
      BY <1>1, <1>2
    <3> QED BY <1>1, <1>6, <3>1, SubSeqProperties
  <2>3. \A i \in 1 .. n - m + 1 : m + i - 1 \in 1 .. l
    BY <1>1
  <2>4. \A i \in 1 .. n - m + 1 : SubSeq(x, m, n)[i] = SubSeq(s, m, n)[i]
    BY <1>5, <2>1, <2>2, <2>3
  <2>5. SubSeq(x, m, n) = SubSeq(s, m, n)
    BY <2>1, <2>2, <2>4, SeqEqual
  <2>6. \A i \in 1 .. n - m + 1 : SubSeq(x, m, n)[i] \in Byte /\ SubSeq(x, m, n)[i].pdu = p
    BY <1>2, <1>5, <2>1, <2>3
  <2> QED BY <2>1, <2>5, <2>6
<1>7. p # <<>>
  <2>1. "no" \in DOMAIN p
    BY DEF Pdus
  <2>2. DOMAIN <<>> = {}
    OBVIOUS
  <2> QED BY <2>1, <2>2
<1>8. LengthFields(b) = {p.length}
  <2> DEFINE f == SubSeq(x, 1, LenSize)
  <2>1. /\ f = SubSeq(s, 1, LenSize) /\ \A i \in 1 .. LenSize : f[i].pdu = p
    <3>1. 1 \in 1 .. l /\ LenSize \in 1 .. l /\ LenSize - 1 + 1 = LenSize
      BY <1>1
    <3> QED BY <1>1, <1>6, <3>1
  <2>2. b.buffer = x /\ b.consumed + 1 = 1 /\ b.consumed + LenSize = LenSize
    BY <1>1, <1>3 DEF x
  <2>3. LengthFields(b) = IF \E pdu \in {f[i].pdu : i \in 1 .. LenSize} \ {<<>>} :
                               f = SubSeq(Bytes(pdu), 1, LenSize)
                          THEN {f[1].pdu.length}
                          ELSE 0 .. MaxLength
    BY <2>2 DEF LengthFields
  <2> HIDE DEF f
  <2>4. 1 \in 1 .. LenSize
    BY <1>1
  <2>5. p \in {f[i].pdu : i \in 1 .. LenSize} \ {<<>>}
    BY <1>7, <2>1, <2>4
  <2>6. f = SubSeq(Bytes(p), 1, LenSize)
    BY <2>1 DEF s
  <2> QED BY <2>1, <2>3, <2>4, <2>5, <2>6
<1>9. TypeFields(b, AnyType) = {p.type}
  <2> DEFINE f == SubSeq(x, LenSize + 1, HeaderSize)
  <2>1. /\ f = SubSeq(s, LenSize + 1, HeaderSize) /\ \A i \in 1 .. TypeSize : f[i].pdu = p
    <3>1. /\ LenSize + 1 \in 1 .. l /\ HeaderSize \in 1 .. l /\ LenSize + 1 <= HeaderSize
          /\ HeaderSize - (LenSize + 1) + 1 = TypeSize
      BY <1>1 DEF h
    <3> QED BY <1>6, <3>1
  <2>2. b.buffer = x /\ b.consumed + LenSize + 1 = LenSize + 1 /\ b.consumed + HeaderSize = HeaderSize
    BY <1>1, <1>3 DEF x, h
  <2>3. TypeFields(b, AnyType)
          = IF \E pdu \in {f[i].pdu : i \in 1 .. TypeSize} \ {<<>>} :
                 f = SubSeq(Bytes(pdu), LenSize + 1, HeaderSize)
            THEN {f[1].pdu.type}
            ELSE AnyType
    BY <2>2 DEF TypeFields
  <2> HIDE DEF f
  <2>4. 1 \in 1 .. TypeSize
    BY <1>1
  <2>5. p \in {f[i].pdu : i \in 1 .. TypeSize} \ {<<>>}
    BY <1>7, <2>1, <2>4
  <2>6. f = SubSeq(Bytes(p), LenSize + 1, HeaderSize)
    BY <2>1 DEF s
  <2> QED BY <2>1, <2>3, <2>4, <2>5, <2>6
<1>10. HasHeader(b) /\ HasPdu(b, p.length)
  BY <1>1, <1>3 DEF HasHeader, HasPdu, h
<1>11. SkipHeader(b) = [buffer |-> x, used |-> l, consumed |-> h]
  <2>1. b = [buffer |-> x, used |-> l, consumed |-> 0] /\ 0 + h = h
    BY <1>1, <1>3 DEF x
  <2> QED BY <2>1 DEF SkipHeader, h
<1>12. FromStart(SkipHeader(b), p.length) = SubSeq(s, h + 1, l)
  <2>1. FromStart(SkipHeader(b), p.length) = SubSeq(x, h + 1, l)
    <3>1. h + p.length <= SIZE /\ h + p.length = l
      BY <1>1
    <3> DEFINE k == SkipHeader(b)
    <3>2. k.buffer = x /\ k.consumed = h
      BY <1>11
    <3> HIDE DEF k
    <3>3. FromStart(k, p.length) = SubSeq(x, h + 1, l)
      BY <3>1, <3>2 DEF FromStart
    <3> QED BY <3>3 DEF k
  <2>2. CASE p.length # 0
    <3>1. h + 1 \in 1 .. l /\ l \in 1 .. l /\ h + 1 <= l
      BY <1>1, <2>2
    <3> QED BY <1>6, <2>1, <3>1
  <2>3. CASE p.length = 0
    <3>1. l < h + 1
      BY <1>1, <2>3
    <3>2. SubSeq(x, h + 1, l) = <<>> /\ SubSeq(s, h + 1, l) = <<>>
      BY <1>1, <3>1, SubSeqEmpty
    <3> QED BY <2>1, <3>2
  <2> QED BY <2>2, <2>3
<1>13. SkipHeader(b).buffer[1].at = 1
  <2>1. 1 \in 1 .. l
    BY <1>1
  <2> QED BY <1>0, <1>5, <1>11, <2>1
<1> QED BY <1>3, <1>8, <1>9, <1>10, <1>11, <1>12, <1>13 DEF l, h, s

-----------------------------------------------------------------------------
\* Where the bytes the other side has taken end: with the first k PDUs.
Cut(e, k) ==
  /\ k \in 0 .. Len(added[e])
  /\ Rest(StreamOf(added[e]), taken[e]) = StreamOf(Rest(added[e], k))

\* A side that has not received since it swept has an empty buffer.
Empty(e) ==
  pc[e] \in {"add", "send", "recv"} \/ (pc[e] = "body" /\ ~ iResult[e]) =>
    sb_recv[e].used = 0 /\ sb_recv[e].consumed = 0

\* A body holds the payload of a PDU, and its header was that PDU's.
HasGot(e, p) ==
  /\ header[e] = [type |-> p.type, length |-> p.length]
  /\ sb_recv[e].consumed = HeaderSize
  /\ sb_recv[e].used = HeaderSize + p.length
  /\ FromStart(sb_recv[e], p.length)
       = SubSeq(Bytes(p), HeaderSize + 1, HeaderSize + p.length)

BodyHas(e) ==
  pc[e] = "body" /\ iResult[e] =>
    \E i \in 1 .. Len(added[Peer(e)]) : HasGot(e, added[Peer(e)][i])

WholeInv ==
  /\ StreamInv
  /\ \A e \in Sides : Empty(e) /\ BodyHas(e)
  /\ reset = "none" => \A e \in Sides : pc[Peer(e)] # "closed" => \E k \in Nat : Cut(e, k)

LEMMA Peers ==
  ASSUME NEW e \in Sides
  PROVE  Peer(e) \in Sides /\ Peer(e) # e /\ Peer(Peer(e)) = e /\ Sides = {e, Peer(e)}
BY DEF Peer, Sides

LEMMA InvIsBody == WholeInv => BodyAfterRecvIsPdu
<1> SUFFICES ASSUME WholeInv, NEW e \in Sides, pc[e] = "body", iResult[e]
             PROVE  Handed(e, header[e]) # Junk
  BY DEF BodyAfterRecvIsPdu
<1>1. PICK i \in 1 .. Len(added[Peer(e)]) : HasGot(e, added[Peer(e)][i])
  BY DEF WholeInv, BodyHas
<1> DEFINE p == added[Peer(e)][i]
<1>2. \A j \in 1 .. Len(added[Peer(e)]) : added[Peer(e)][j] \in Pdus
  BY Peers DEF WholeInv, StreamInv, PduInv, TypeOK
<1>3. p \in HandedPdus(e, header[e])
  <2>1. p.type = header[e].type /\ p.length = header[e].length
    BY <1>1 DEF HasGot
  <2>2. FromStart(sb_recv[e], header[e].length)
          = SubSeq(Bytes(p), HeaderSize + 1, HeaderSize + p.length)
    BY <1>1 DEF HasGot
  <2>3. p \in {added[Peer(e)][j] : j \in 1 .. Len(added[Peer(e)])}
    OBVIOUS
  <2> HIDE DEF p
  <2> QED BY <2>1, <2>2, <2>3 DEF HandedPdus
<1>4. Handed(e, header[e]) \in HandedPdus(e, header[e])
  BY <1>3 DEF Handed
<1>5. \A pdu \in HandedPdus(e, header[e]) : pdu \in Pdus
  BY <1>2 DEF HandedPdus
<1>6. Junk \notin Pdus
  BY DEF Junk, Pdus, Sides
<1> QED BY <1>4, <1>5, <1>6

LEMMA CutSame ==
  ASSUME NEW e \in Sides, NEW k, Cut(e, k), added'[e] = added[e], taken'[e] = taken[e]
  PROVE  Cut(e, k)'
<1>1. /\ k \in 0 .. Len(added'[e])
      /\ Rest(StreamOf(added'[e]), taken'[e]) = StreamOf(Rest(added'[e], k))
  BY DEF Cut
<1> QED BY <1>1 DEF Cut, StreamOf, Rest

\* What is added comes behind the cut.
LEMMA CutAppend ==
  ASSUME PduInv, NEW e \in Sides, NEW k, Cut(e, k), Flows(e), NEW pdu \in Pdus,
         added'[e] = Append(added[e], pdu), taken'[e] = taken[e]
  PROVE  Cut(e, k)'
<1> DEFINE a == added[e]
           s == StreamOf(a)
           t == taken[e]
           x == Bytes(pdu)
<1>1. a \in Seq(Pdus) /\ s \in Seq(Byte) /\ x \in Seq(Byte) /\ t \in 0 .. Len(s) /\ k \in 0 .. Len(a)
  BY StreamType, BytesType DEF PduInv, TypeOK, Flows, Cut
<1>2. Rest(s, t) = StreamOf(Rest(a, k))
  BY DEF Cut
<1>3. StreamOf(Append(a, pdu)) = s \o x
  BY <1>1, StreamAppend
<1>4. Append(a, pdu) \in Seq(Pdus) /\ Len(Append(a, pdu)) = Len(a) + 1
  BY <1>1, AppendAt
<1> HIDE DEF a, s, t, x
<1>5. Rest(s \o x, t) = Rest(s, t) \o x
  BY ONLY <1>1, RestOfConcat
<1>6. Rest(Append(a, pdu), k) = Append(Rest(a, k), pdu)
  BY <1>1, RestOfAppend
<1>7. StreamOf(Append(Rest(a, k), pdu)) = StreamOf(Rest(a, k)) \o x
  <2>1. Rest(a, k) \in Seq(Pdus)
    BY <1>1, RestType
  <2> QED BY <2>1, StreamAppend DEF x
<1>8. Rest(StreamOf(Append(a, pdu)), t) = StreamOf(Rest(Append(a, pdu), k))
  BY ONLY <1>2, <1>3, <1>5, <1>6, <1>7, Zenon
<1>9. k \in 0 .. Len(Append(a, pdu))
  BY <1>1, <1>4
<1>10. /\ k \in 0 .. Len(added'[e])
       /\ Rest(StreamOf(added'[e]), taken'[e]) = StreamOf(Rest(added'[e], k))
  BY <1>8, <1>9, Zenon DEF a, t
<1> QED BY <1>10 DEF Cut, StreamOf, Rest

\* A recv that returns a whole PDU gets the one behind the cut.
LEMMA CutRecv ==
  ASSUME StreamInv, WholeDelivery, NEW e \in Sides, Recv(e), Empty(e),
         NEW n \in Piece(e), RecvSome(e, n), NEW k, Cut(Peer(e), k)
  PROVE  /\ k + 1 \in 1 .. Len(added[Peer(e)])
         /\ HasGot(e, added[Peer(e)][k + 1])'
         /\ Cut(Peer(e), k + 1)'
         /\ pc' = [pc EXCEPT ![e] = "body"] /\ iResult' = [iResult EXCEPT ![e] = TRUE]
         /\ \A f \in Sides \ {e} : sb_recv'[f] = sb_recv[f] /\ header'[f] = header[f]
         /\ sb_recv'[e].buffer[1].at = 1
<1> DEFINE from == Peer(e)
           w == wire[from]
           u == Unsent(sb_send[from])
           r == Rest(added[from], k)
           a == sb_recv[e]
           b == Receive(a, SubSeq(w, 1, n))
<1>1. /\ from \in Sides /\ w \in Seq(Byte) /\ added[from] \in Seq(Pdus) /\ u \in Seq(Byte)
      /\ IsBuffer(a) /\ a.consumed = 0 /\ a.used = 0
      /\ pc[e] = "recv" /\ reset = "none" /\ added' = added /\ sb_send' = sb_send
      /\ k \in 0 .. Len(added[from])
  BY TypeOKBuffers, UnsentType, Peers
  DEF StreamInv, PduInv, TypeOK, Empty, Recv, RecvSome, Cut
<1>2. /\ r \in Seq(Pdus) /\ Len(r) = Len(added[from]) - k
      /\ \A i \in 1 .. Len(added[from]) - k : r[i] = added[from][k + i]
  BY <1>1, RestType
<1>3. Flows(from)
  BY <1>1, Peers DEF StreamInv
<1>4. Carries(w, u, r)
  <2>1. w \o u = Rest(StreamOf(added[from]), taken[from])
    BY <1>3, Zenon DEF Flows
  <2>2. Rest(StreamOf(added[from]), taken[from]) = StreamOf(r)
    BY Zenon DEF Cut
  <2> QED BY ONLY <2>1, <2>2, Zenon DEF Carries
<1>5. n \in 1 .. Len(w) /\ n <= SIZE /\ w # <<>> /\ n = HeaderSize + w[1].pdu.length
  <2> DEFINE room == GetRemainingRecvSize(a)
  <2>1. room = SIZE /\ SIZE \in Nat /\ Len(w) \in Nat
    BY <1>1, SocketBufferAssumption DEF GetRemainingRecvSize, GetUsed
  <2>2. Piece(e) = IF w # <<>>
                   THEN {HeaderSize + w[1].pdu.length} \cap 1 .. Len(w) \cap 1 .. room
                   ELSE 1 .. IF Len(w) <= room THEN Len(w) ELSE room
    BY WholeDelivery DEF Piece
  <2> HIDE DEF room, w, from
  <2>3. w # <<>>
    <3>1. CASE w = <<>>
      <4>1. Len(w) = 0
        BY <3>1
      <4> QED BY <2>1, <2>2, <3>1, <4>1
    <3> QED BY <3>1
  <2> QED BY <2>1, <2>2, <2>3
<1> HIDE DEF from, w, u, r
<1>6. /\ Len(r) # 0 /\ r[1] \in Pdus /\ w[1].pdu = r[1] /\ SubSeq(w, 1, n) = Bytes(r[1])
      /\ Carries(Rest(w, n), u, Rest(r, 1))
  BY <1>1, <1>2, <1>4, <1>5, FirstPdu
<1> DEFINE p == r[1]
<1>7. k + 1 \in 1 .. Len(added[from]) /\ p = added[from][k + 1]
  <2>1. Len(r) \in Nat /\ Len(added[from]) \in Nat
    BY <1>1, <1>2
  <2>2. 1 \in 1 .. Len(added[from]) - k /\ k + 1 \in 1 .. Len(added[from])
    BY <1>1, <1>2, <1>6, <2>1
  <2> QED BY <1>2, <2>2
<1>8. b = Receive(a, Bytes(p)) /\ HeaderSize + p.length = n
  BY <1>5, <1>6
<1> HIDE DEF a, b, p
<1>9. /\ LengthFields(b) = {p.length} /\ TypeFields(b, AnyType) = {p.type}
      /\ HasHeader(b) /\ HasPdu(b, p.length)
      /\ SkipHeader(b).consumed = HeaderSize
      /\ SkipHeader(b).used = HeaderSize + p.length /\ SkipHeader(b).buffer[1].at = 1
      /\ FromStart(SkipHeader(b), p.length)
           = SubSeq(Bytes(p), HeaderSize + 1, HeaderSize + p.length)
  <2>1. IsBuffer(a) /\ a.consumed = 0 /\ a.used = 0 /\ p \in Pdus /\ HeaderSize + p.length <= SIZE
    BY <1>1, <1>5, <1>6, <1>8 DEF p
  <2> QED BY <1>8, <2>1, WholePdu
<1>10. CountsReceived(a, n)
  BY <1>1, <1>5, SocketBufferAssumption DEF CountsReceived
<1>11. /\ wire' = [wire EXCEPT ![from] = Rest(w, n)]
       /\ iResult' = [iResult EXCEPT ![e] = TRUE]
       /\ header' = [header EXCEPT ![e] = [type |-> p.type, length |-> p.length]]
       /\ sb_recv' = [sb_recv EXCEPT ![e] = SkipHeader(b)]
       /\ pc' = [pc EXCEPT ![e] = "body"]
  <2>1. /\ wire' = [wire EXCEPT ![from] = Rest(w, n)]
        /\ iResult' = [iResult EXCEPT ![e] = TRUE]
    BY DEF RecvSome, from, w, Rest
  <2>2. \E length \in LengthFields(b), type \in TypeFields(b, AnyType) :
           /\ header' = [header EXCEPT ![e] = [type |-> type, length |-> length]]
           /\ IF HasPdu(b, length)
              THEN /\ sb_recv' = [sb_recv EXCEPT ![e] = SkipHeader(b)]
                   /\ Goto(e, "body")
              ELSE /\ sb_recv' = [sb_recv EXCEPT ![e] = b]
                   /\ UNCHANGED pc
    BY <1>9, <1>10 DEF RecvSome, a, b, from, w
  <2> QED BY <1>9, <2>1, <2>2 DEF Goto
<1>12. HasGot(e, added[Peer(e)][k + 1])'
  <2>1. sb_recv'[e] = SkipHeader(b) /\ header'[e] = [type |-> p.type, length |-> p.length]
    BY <1>11 DEF StreamInv, PduInv, TypeOK
  <2>2. added'[Peer(e)][k + 1] = p
    BY <1>1, <1>7 DEF from
  <2> DEFINE q == added'[Peer(e)][k + 1]
  <2>3. /\ header'[e] = [type |-> q.type, length |-> q.length]
        /\ sb_recv'[e].consumed = HeaderSize
        /\ sb_recv'[e].used = HeaderSize + q.length
        /\ FromStart(sb_recv'[e], q.length)
             = SubSeq(Bytes(q), HeaderSize + 1, HeaderSize + q.length)
    <3> HIDE DEF q
    <3>1. q = p
      BY <2>2 DEF q
    <3> QED BY <1>9, <2>1, <3>1
  <2> QED BY <2>3 DEF HasGot, Peer
<1>13. Cut(from, k + 1)'
  <2>1. Flows(from)'
    <3>1. StreamInv'
      <4>1. Next
        BY DEF Next, ClientNext, DriverNext, Sides
      <4> QED BY <4>1, NextStreamInv
    <3>2. reset' = "none" /\ pc'[e] # "closed"
      BY <1>1, <1>11 DEF RecvSome, StreamInv, PduInv, TypeOK
    <3> QED BY <1>1, <3>1, <3>2, Peers DEF StreamInv, from
  <2>2. wire'[from] \o Unsent(sb_send'[from]) = Rest(StreamOf(added'[from]), taken'[from])
    BY <2>1 DEF Flows, StreamOf, Unsent, Rest
  <2>3. wire'[from] = Rest(w, n)
    BY <1>1, <1>11 DEF StreamInv, PduInv, TypeOK
  <2>4. Rest(w, n) \o u = StreamOf(Rest(r, 1))
    BY <1>6, Zenon DEF Carries
  <2>5. Rest(r, 1) = Rest(added[from], k + 1)
    <3>1. k \in Nat /\ 1 \in Nat /\ k + 1 <= Len(added[from])
      BY <1>1, <1>7
    <3> QED BY <1>1, <3>1, RestOfRest DEF r
  <2>6. Rest(StreamOf(added'[from]), taken'[from]) = StreamOf(Rest(added'[from], k + 1))
    <3>1. added'[from] = added[from] /\ Unsent(sb_send'[from]) = u
      BY <1>1, Zenon DEF u
    <3> QED BY ONLY <2>2, <2>3, <2>4, <2>5, <3>1, Zenon
  <2>7. k + 1 \in 0 .. Len(added'[from])
    BY <1>1, <1>7
  <2> QED BY <2>6, <2>7 DEF Cut, StreamOf, Rest
<1>14. \A f \in Sides \ {e} : sb_recv'[f] = sb_recv[f] /\ header'[f] = header[f]
  BY <1>11 DEF StreamInv, PduInv, TypeOK
<1>15. sb_recv'[e].buffer[1].at = 1
  BY <1>9, <1>11 DEF StreamInv, PduInv, TypeOK
<1> QED BY <1>7, <1>11, <1>12, <1>13, <1>14, <1>15 DEF from

\* RECV_PDU_END leaves an empty buffer, whether its body got a PDU or nothing.
LEMMA EndRecvEmpties ==
  ASSUME WholeInv, NEW e \in Sides, pc[e] = "body", NEW h \in HeaderValues(e), EndRecv(e, h)
  PROVE  /\ sb_recv'[e].used = 0 /\ sb_recv'[e].consumed = 0
         /\ sb_recv'[e].buffer = sb_recv[e].buffer
<1> DEFINE b == sb_recv[e]
           c == Consume(b, h.length)
<1>1. IsBuffer(b) /\ sb_recv \in [Sides -> Buffers]
      /\ header[e] \in [type : AnyType, length : 0 .. MaxLength] \cup {Unset}
  BY TypeOKBuffers DEF WholeInv, StreamInv, PduInv
<1>2. h.length \in Nat
  BY <1>1, SocketBufferAssumption DEF HeaderValues, Unset
<1>3. sb_recv'[e] = Sweep(c)
  BY <1>1 DEF EndRecv
<1>4. IsBuffer(c) /\ c.used - c.consumed = 0
  <2>1. CASE iResult[e]
    <3>1. PICK i \in 1 .. Len(added[Peer(e)]) : HasGot(e, added[Peer(e)][i])
      BY <2>1 DEF WholeInv, BodyHas
    <3> DEFINE p == added[Peer(e)][i]
    <3>2. p \in Pdus
      BY Peers DEF WholeInv, StreamInv, PduInv, TypeOK
    <3> HIDE DEF p
    <3>3. header[e].length = p.length /\ p.length \in 0 .. MaxLength
          /\ b.consumed = HeaderSize /\ b.used = HeaderSize + p.length
      BY <3>1, <3>2 DEF HasGot, p, Pdus
    <3>4. h = header[e]
      <4>1. header[e] # Unset
        BY <3>3, SocketBufferAssumption DEF Unset
      <4> QED BY <4>1 DEF HeaderValues
    <3>5. HeaderSize \in Nat /\ p.length \in Nat /\ ~ (h.length + b.consumed > b.used)
      BY <3>3, <3>4, SocketBufferAssumption DEF HeaderSize
    <3>6. c = [b EXCEPT !.consumed = @ + h.length]
      BY <3>5 DEF Consume
    <3>7. c.used = b.used /\ c.consumed = b.consumed + h.length
      BY <1>1, <3>6 DEF IsBuffer, Buffers
    <3>8. c.used - c.consumed = 0
      BY <3>3, <3>4, <3>5, <3>7
    <3> QED BY <1>1, <1>2, <3>8, ConsumeBuffer
  <2>2. CASE ~ iResult[e]
    <3>1. b.used = 0 /\ b.consumed = 0
      BY <2>2 DEF WholeInv, Empty
    <3>2. c.used = 0 /\ c.consumed = 0
      BY <1>1, <1>2, <3>1 DEF Consume, IsBuffer, Buffers
    <3> QED BY <1>1, <1>2, <3>2, ConsumeBuffer
  <2> QED BY <2>1, <2>2
<1> HIDE DEF b, c
<1>5. Sweep(c).used = 0 /\ Sweep(c).consumed = 0
  BY <1>4, SweepBuffer DEF GetUsed
<1>6. Sweep(c).buffer = c.buffer
  <2>1. SubSeq(c.buffer, c.consumed + 1, c.used) = <<>>
    BY <1>4, UnsentNothing DEF GetUsed, Unsent
  <2>2. Sweep(c).buffer = Store(c.buffer, 0, <<>>)
    BY <2>1 DEF Sweep
  <2>3. c.buffer \in [1 .. SIZE -> Byte] /\ Len(<<>>) = 0
    BY <1>4 DEF IsBuffer, Buffers
  <2>4. Store(c.buffer, 0, <<>>) = c.buffer
    BY <2>3, SocketBufferAssumption DEF Store
  <2> QED BY <2>2, <2>4
<1>7. c.buffer = b.buffer
  BY <1>1 DEF c, Consume, IsBuffer, Buffers
<1> QED BY <1>3, <1>5, <1>6, <1>7 DEF b

\* What a side is about to do with its buffer does not change when the other acts.
LEMMA WholeSame ==
  ASSUME PduInv, NEW e \in Sides, Empty(e), BodyHas(e),
         pc'[e] = pc[e], sb_recv'[e] = sb_recv[e], header'[e] = header[e], iResult'[e] = iResult[e],
         \/ added'[Peer(e)] = added[Peer(e)]
         \/ \E pdu \in Pdus : added'[Peer(e)] = Append(added[Peer(e)], pdu)
  PROVE  Empty(e)' /\ BodyHas(e)'
<1>1. Empty(e)'
  BY DEF Empty
<1>2. ASSUME pc'[e] = "body", iResult'[e]
      PROVE  \E i \in 1 .. Len(added'[Peer(e)]) :
               /\ header[e] = [type |-> added'[Peer(e)][i].type, length |-> added'[Peer(e)][i].length]
               /\ sb_recv[e].consumed = HeaderSize
               /\ sb_recv[e].used = HeaderSize + added'[Peer(e)][i].length
               /\ FromStart(sb_recv[e], added'[Peer(e)][i].length)
                    = SubSeq(Bytes(added'[Peer(e)][i]), HeaderSize + 1,
                             HeaderSize + added'[Peer(e)][i].length)
  <2>1. PICK i \in 1 .. Len(added[Peer(e)]) : HasGot(e, added[Peer(e)][i])
    BY <1>2 DEF BodyHas
  <2>2. i \in 1 .. Len(added'[Peer(e)]) /\ added'[Peer(e)][i] = added[Peer(e)][i]
    <3>1. added[Peer(e)] \in Seq(Pdus)
      BY Peers DEF PduInv, TypeOK
    <3>2. ASSUME NEW pdu \in Pdus, added'[Peer(e)] = Append(added[Peer(e)], pdu)
          PROVE  i \in 1 .. Len(added'[Peer(e)]) /\ added'[Peer(e)][i] = added[Peer(e)][i]
      <4> DEFINE s == added[Peer(e)]
      <4>1. s \in Seq(Pdus) /\ i \in 1 .. Len(s)
        BY <3>1
      <4> HIDE DEF s
      <4>2. Len(Append(s, pdu)) = Len(s) + 1 /\ Append(s, pdu)[i] = s[i]
        BY <4>1, AppendAt
      <4>3. i \in 1 .. Len(s) + 1
        BY <4>1
      <4> QED BY <3>2, <4>2, <4>3 DEF s
    <3> QED BY <3>2
  <2> QED BY <2>1, <2>2 DEF HasGot
<1>3. BodyHas(e)'
  <2>1. (pc'[e] = "body" /\ iResult'[e]) =>
          \E i \in 1 .. Len(added'[Peer(e)]) :
               /\ header'[e] = [type |-> added'[Peer(e)][i].type, length |-> added'[Peer(e)][i].length]
               /\ sb_recv'[e].consumed = HeaderSize
               /\ sb_recv'[e].used = HeaderSize + added'[Peer(e)][i].length
               /\ FromStart(sb_recv'[e], added'[Peer(e)][i].length)
                    = SubSeq(Bytes(added'[Peer(e)][i]), HeaderSize + 1,
                             HeaderSize + added'[Peer(e)][i].length)
    BY <1>2
  <2> QED BY <2>1 DEF BodyHas, HasGot, Peer
<1> QED BY <1>1, <1>3

LEMMA WholeEmpty ==
  ASSUME NEW e \in Sides, pc'[e] # "body" \/ ~ iResult'[e],
         (sb_recv'[e].used = 0 /\ sb_recv'[e].consumed = 0) \/ pc'[e] = "closed"
  PROVE  Empty(e)' /\ BodyHas(e)'
<1>1. Empty(e)'
  BY DEF Empty
<1>2. ~ (pc'[e] = "body" /\ iResult'[e])
  OBVIOUS
<1>3. BodyHas(e)'
  BY <1>2 DEF BodyHas
<1> QED BY <1>1, <1>3

\* Only the client's loop and the driver's body add a PDU, each its own.
LEMMA ClientAdds ==
  ASSUME StreamInv, ClientAdd
  PROVE  /\ added'["driver"] = added["driver"] /\ UNCHANGED <<iResult, header, wireVars, handled>>
         /\ \A f \in Sides \ {"client"} : pc'[f] = pc[f] /\ sb_recv'[f] = sb_recv[f]
         /\ \/ pc'["client"] = "closed" /\ added' = added /\ UNCHANGED bufferVars
            \/ /\ pc'["client"] = "send" /\ sb_recv'["client"] \in {New, sb_recv["client"]}
               /\ NextRequest \in Pdus /\ added' = [added EXCEPT !["client"] = Append(@, NextRequest)]
               /\ Len(added["client"]) < 2 * Rounds
               /\ CanAddPdu(RoundBuffer(sb_send["client"]), NextRequest)
               /\ sb_send'["driver"] = sb_send["driver"]
<1>1. CASE Close("client")
  BY <1>1 DEF Close, Goto, StreamInv, PduInv, TypeOK, Sides, bufferVars
<1>2. CASE ~ Close("client")
  <2> DEFINE b == RoundBuffer(sb_send["client"])
  <2>1. /\ CanAddPdu(b, NextRequest) /\ pc["client"] = "add" /\ Len(added["client"]) < 2 * Rounds
        /\ added' = [added EXCEPT !["client"] = Append(added["client"], NextRequest)]
        /\ sb_send' = [sb_send EXCEPT !["client"] = AddPdu(b, NextRequest)]
        /\ sb_recv' = [sb_recv EXCEPT !["client"] = RoundBuffer(sb_recv["client"])]
        /\ pc' = [pc EXCEPT !["client"] = "send"]
        /\ UNCHANGED <<iResult, header, wireVars, handled>>
    BY <1>2 DEF ClientAdd, Goto
  <2>2. IsBuffer(b)
    BY NewBuffer, TypeOKBuffers DEF RoundBuffer, StreamInv, PduInv, Sides
  <2>3. NextRequest \in Pdus
    <3>1. \E type \in PduTypes : NextRequest = Pdu("client", type)
      BY DEF NextRequest, PduTypes
    <3> QED  BY <2>1, <2>2, <3>1, PduType DEF StreamInv, PduInv, Sides
  <2>4. RoundBuffer(sb_recv["client"]) \in {New, sb_recv["client"]}
    BY DEF RoundBuffer
  <2> HIDE DEF b
  <2>5. /\ pc \in [Sides -> {"add", "send", "recv", "body", "closed"}]
        /\ sb_recv \in [Sides -> Buffers] /\ sb_send \in [Sides -> Buffers]
        /\ added \in [Sides -> Seq(Pdus)]
        /\ "client" \in Sides /\ "driver" \in Sides
    BY DEF StreamInv, PduInv, TypeOK, Sides
  <2> QED BY <2>1, <2>3, <2>4, <2>5 DEF b
<1> QED BY <1>1, <1>2

LEMMA DriverAdds ==
  ASSUME StreamInv, DriverBody
  PROVE  /\ added'["client"] = added["client"] /\ UNCHANGED <<iResult, header, wireVars>>
         /\ \A f \in Sides \ {"driver"} :
              pc'[f] = pc[f] /\ sb_recv'[f] = sb_recv[f] /\ sb_send'[f] = sb_send[f]
         /\ \E h \in HeaderValues("driver") :
              /\ Handle("driver", h) /\ EndRecv("driver", h)
              /\ \/ /\ pc'["driver"] = "closed" /\ added' = added /\ sb_send' = sb_send
                    /\ Answers(h) => Handed("driver", h) = Junk
                 \/ /\ pc'["driver"] = "send" /\ Answers(h) /\ Pdu("driver", h.type) \in Pdus
                    /\ added' = [added EXCEPT !["driver"] = Append(@, Pdu("driver", h.type))]
<1> PICK h \in HeaderValues("driver") :
      /\ Handle("driver", h) /\ EndRecv("driver", h)
      /\ \/ /\ Answers(h)
            /\ sb_send' = [sb_send EXCEPT !["driver"] =
                             AddPdu(sb_send["driver"], Pdu("driver", h.type))]
            /\ added' = [added EXCEPT !["driver"] =
                            Append(added["driver"], Pdu("driver", h.type))]
            /\ Goto("driver", "send")
         \/ /\ Answers(h) => Handed("driver", h) = Junk
            /\ Goto("driver", "closed") /\ UNCHANGED <<sb_send, added>>
  BY DEF DriverBody
<1>1. /\ pc \in [Sides -> {"add", "send", "recv", "body", "closed"}]
      /\ sb_recv \in [Sides -> Buffers] /\ sb_send \in [Sides -> Buffers]
      /\ added \in [Sides -> Seq(Pdus)] /\ IsBuffer(sb_send["driver"])
      /\ "client" \in Sides /\ "driver" \in Sides
  BY TypeOKBuffers DEF StreamInv, PduInv, Sides
<1>2. UNCHANGED <<iResult, header, wireVars>>
  BY DEF DriverBody
<1>3. sb_recv' = [sb_recv EXCEPT !["driver"] = Sweep(Consume(sb_recv["driver"], h.length))]
  BY DEF EndRecv
<1>4. Answers(h) => Pdu("driver", h.type) \in Pdus
  BY <1>1, PduType DEF Answers, StreamInv, PduInv
<1> QED BY <1>1, <1>2, <1>3, <1>4 DEF Goto

\* SEND_ALL goes on to RECV_PDU_BEGIN with an empty send buffer, since there is
\* room to receive; it fails only when the other side or the connection is gone.
LEMMA SendMoves ==
  ASSUME StreamInv, NEW e \in Sides, Send(e), Empty(e)
  PROVE  /\ UNCHANGED <<sb_recv, added, taken, handled>>
         /\ \A f \in Sides \ {e} : /\ pc'[f] = pc[f] /\ iResult'[f] = iResult[f]
                                   /\ header'[f] = header[f] /\ sb_send'[f] = sb_send[f]
         /\ pc[e] = "send" /\ pc'[e] \in {"send", "recv", "closed"}
         /\ pc'[e] = "closed" => reset # "none" \/ pc[Peer(e)] = "closed"
         /\ pc'[e] = "recv" => sb_send'[e].used = 0
         /\ reset' # reset => pc[Peer(e)] = "closed"
<1>1. /\ pc \in [Sides -> {"add", "send", "recv", "body", "closed"}]
      /\ sb_send \in [Sides -> Buffers] /\ iResult \in [Sides -> BOOLEAN]
      /\ header \in [Sides -> [type : AnyType, length : 0 .. MaxLength] \cup {Unset}]
      /\ pc[e] = "send" /\ UNCHANGED <<sb_recv, added, handled>> /\ IsBuffer(sb_send[e])
  BY TypeOKBuffers DEF StreamInv, PduInv, Send
<1>2. CASE SendFails(e)
  BY <1>1, <1>2 DEF SendFails, wireVars, Goto
<1>3. ASSUME NEW n \in 1 .. GetRemainingSendSize(sb_send[e]), SendSome(e, n)
      PROVE  /\ \A f \in Sides \ {e} : /\ pc'[f] = pc[f] /\ iResult'[f] = iResult[f]
                                       /\ header'[f] = header[f] /\ sb_send'[f] = sb_send[f]
             /\ pc'[e] \in {"send", "recv"} /\ taken' = taken
             /\ pc'[e] = "recv" => sb_send'[e].used = 0
             /\ reset' # reset => pc[Peer(e)] = "closed"
  <2> DEFINE b == Consume(sb_send[e], n)
  <2>1. n \in Nat /\ IsBuffer(b)
    <3>1. n \in Nat
      BY <1>1 DEF GetRemainingSendSize, GetUsed, IsBuffer, Buffers
    <3> QED BY <1>1, <3>1, ConsumeBuffer
  <2>2. /\ iResult' = [iResult EXCEPT ![e] = TRUE] /\ taken' = taken
        /\ reset' # reset => pc[Peer(e)] = "closed"
        /\ \/ /\ b.used = b.consumed /\ sb_send' = [sb_send EXCEPT ![e] = Sweep(b)]
              /\ BeginRecv(e)
           \/ /\ sb_send' = [sb_send EXCEPT ![e] = b] /\ pc' = pc /\ header' = header
    BY <1>3 DEF SendSome
  <2>3. GetRemainingRecvSize(sb_recv[e]) # 0
    BY <1>1, SocketBufferAssumption DEF Empty, GetRemainingRecvSize, GetUsed
  <2>4. BeginRecv(e) => /\ pc' = [pc EXCEPT ![e] = "recv"]
                        /\ header' = [header EXCEPT ![e] = Unset]
    BY <2>3 DEF BeginRecv, Goto
  <2> HIDE DEF b
  <2>5. b.used = b.consumed => Sweep(b).used = 0
    BY <2>1, SweepBuffer DEF GetUsed, IsBuffer, Buffers
  <2> QED BY <1>1, <2>2, <2>4, <2>5
<1> QED BY <1>1, <1>2, <1>3 DEF Send

\* The bytes behind the cut are touched by the receiver alone.
LEMMA CutKept ==
  ASSUME StreamInv, Next, NEW e \in Sides, NEW k, Cut(e, k), Flows(e), taken'[e] = taken[e],
         \A f \in Sides : Empty(f)
  PROVE  Cut(e, k)'
<1>1. CASE ClientAdd
  <2>1. \/ added'[e] = added[e]
        \/ NextRequest \in Pdus /\ added'[e] = Append(added[e], NextRequest)
    BY <1>1, ClientAdds DEF StreamInv, PduInv, TypeOK, Sides
  <2> QED BY <2>1, CutSame, CutAppend DEF StreamInv
<1>2. CASE DriverBody
  <2>1. \/ added'[e] = added[e]
        \/ \E type \in AnyType :
             Pdu("driver", type) \in Pdus /\ added'[e] = Append(added[e], Pdu("driver", type))
    <3>1. added \in [Sides -> Seq(Pdus)]
      BY DEF StreamInv, PduInv, TypeOK
    <3>2. PICK h \in HeaderValues("driver") :
            \/ added' = added
            \/ /\ Answers(h) /\ Pdu("driver", h.type) \in Pdus
               /\ added' = [added EXCEPT !["driver"] = Append(added["driver"], Pdu("driver", h.type))]
      BY <1>2, DriverAdds
    <3> QED BY <3>1, <3>2 DEF Answers, AnyType, Sides
  <2> QED BY <2>1, CutSame, CutAppend DEF StreamInv
<1>3. CASE Break \/ ClientBody \/ \E f \in Sides : Send(f) \/ Recv(f)
  <2>1. added' = added
    BY <1>3 DEF Break, ClientBody, Send, Recv
  <2> QED BY <2>1, CutSame
<1> QED BY <1>1, <1>2, <1>3 DEF Next, ClientNext, DriverNext, Sides

LEMMA RecvFailsMoves ==
  ASSUME StreamInv, NEW e \in Sides, Recv(e), RecvFails(e), Empty(e)
  PROVE  /\ UNCHANGED <<sb_recv, sb_send, header, wireVars, added, handled>>
         /\ pc' = [pc EXCEPT ![e] = "body"] /\ iResult' = [iResult EXCEPT ![e] = FALSE]
         /\ sb_recv[e].used = 0 /\ sb_recv[e].consumed = 0
         /\ reset # "none" \/ pc[Peer(e)] = "closed"
<1>1. pc[e] = "recv" /\ sb_recv[e].used = 0 /\ sb_recv[e].consumed = 0
  BY DEF Empty, Recv
<1>2. GetRemainingRecvSize(sb_recv[e]) # 0
  BY <1>1, SocketBufferAssumption DEF GetRemainingRecvSize, GetUsed
<1> QED BY <1>1, <1>2 DEF Recv, RecvFails, Goto

LEMMA WholeInit == Init => WholeInv
<1> SUFFICES ASSUME Init PROVE WholeInv
  OBVIOUS
<1>1. \A e \in Sides : Empty(e) /\ BodyHas(e)
  BY DEF Init, Empty, BodyHas, New
<1>2. ASSUME NEW e \in Sides PROVE Cut(e, 0)
  <2>1. /\ added[e] = <<>> /\ taken[e] = 0 /\ StreamOf(<<>>) = <<>>
    BY StreamEmpty DEF Init
  <2>2. Rest(<<>>, 0) = <<>> /\ 0 \in 0 .. Len(<<>>)
    <3>1. Len(<<>>) = 0
      OBVIOUS
    <3>2. SubSeq(<<>>, 1, 0) = <<>>
      BY SubSeqEmpty
    <3> QED BY <3>1, <3>2 DEF Rest
  <2> QED BY <2>1, <2>2 DEF Cut
<1> QED BY <1>1, <1>2, StreamInit DEF WholeInv

LEMMA NextWhole ==
  ASSUME WholeInv, WholeDelivery, Next
  PROVE  /\ \A e \in Sides : Empty(e)' /\ BodyHas(e)'
         /\ reset' = "none" =>
              \A e \in Sides : pc'[Peer(e)] # "closed" => \E k \in Nat : Cut(e, k)'
<1>1. /\ StreamInv /\ PduInv /\ \A e \in Sides : Empty(e) /\ BodyHas(e)
      /\ pc \in [Sides -> {"add", "send", "recv", "body", "closed"}]
      /\ added \in [Sides -> Seq(Pdus)] /\ iResult \in [Sides -> BOOLEAN]
      /\ taken \in [Sides -> Nat]
  BY DEF WholeInv, StreamInv, PduInv, TypeOK
<1>2. /\ \A e \in Sides : pc[e] = "closed" => pc'[e] = "closed"
      /\ reset # "none" => reset' # "none"
  BY <1>1, NoReturn
<1>3. ASSUME taken' = taken, reset' = "none", NEW e \in Sides, pc'[Peer(e)] # "closed"
      PROVE  \E k \in Nat : Cut(e, k)'
  <2>1. PICK k \in Nat : Cut(e, k)
    BY <1>2, <1>3, Peers DEF WholeInv
  <2>2. Flows(e)
    BY <1>1, <1>2, <1>3, Peers DEF StreamInv
  <2> QED BY <1>1, <1>3, <2>1, <2>2, CutKept
<1>4. CASE ClientAdd
  <2>1. /\ pc'["client"] \in {"send", "closed"}
        /\ pc'["client"] = "closed" \/ sb_recv'["client"] \in {New, sb_recv["client"]}
        /\ pc'["driver"] = pc["driver"] /\ sb_recv'["driver"] = sb_recv["driver"]
        /\ UNCHANGED <<iResult, header, wireVars>>
    BY <1>1, <1>4, ClientAdds DEF Sides
  <2>2. sb_recv["client"].used = 0 /\ sb_recv["client"].consumed = 0
    BY <1>1, <1>4 DEF ClientAdd, Empty, Sides
  <2>3. Empty("client")' /\ BodyHas("client")'
    BY <2>1, <2>2, WholeEmpty DEF New, Sides
  <2>4. \/ added'["client"] = added["client"]
        \/ \E pdu \in Pdus : added'["client"] = Append(added["client"], pdu)
    BY <1>1, <1>4, ClientAdds DEF Sides
  <2>5. Empty("driver")' /\ BodyHas("driver")'
    <3>1. Peer("driver") = "client" /\ "driver" \in Sides
      BY DEF Peer, Sides
    <3> QED BY <1>1, <2>1, <2>4, <3>1, WholeSame
  <2> QED BY <1>3, <2>1, <2>3, <2>5 DEF Sides, wireVars
<1>5. CASE DriverBody
  <2>1. PICK h \in HeaderValues("driver") :
          /\ EndRecv("driver", h) /\ pc'["driver"] \in {"closed", "send"}
          /\ \/ added' = added
             \/ /\ Pdu("driver", h.type) \in Pdus
                /\ added' = [added EXCEPT !["driver"] = Append(added["driver"], Pdu("driver", h.type))]
    BY <1>1, <1>5, DriverAdds
  <2>2. /\ pc'["client"] = pc["client"] /\ sb_recv'["client"] = sb_recv["client"]
        /\ UNCHANGED <<iResult, header, wireVars>>
    BY <1>1, <1>5, DriverAdds DEF Sides
  <2>3. sb_recv'["driver"].used = 0 /\ sb_recv'["driver"].consumed = 0
    BY <1>5, <2>1, EndRecvEmpties DEF DriverBody, Sides
  <2>4. Empty("driver")' /\ BodyHas("driver")'
    BY <2>1, <2>3, WholeEmpty DEF Sides
  <2>5. \/ added'["driver"] = added["driver"]
        \/ \E pdu \in Pdus : added'["driver"] = Append(added["driver"], pdu)
    BY <1>1, <2>1 DEF Sides
  <2>6. Empty("client")' /\ BodyHas("client")'
    <3>1. Peer("client") = "driver" /\ "client" \in Sides
      BY DEF Peer, Sides
    <3> QED BY <1>1, <2>2, <2>5, <3>1, WholeSame
  <2> QED BY <1>3, <2>2, <2>4, <2>6 DEF Sides, wireVars
<1>6. CASE ClientBody
  <2>1. PICK h \in HeaderValues("client") : EndRecv("client", h)
    BY <1>6 DEF ClientBody
  <2>2. /\ pc["client"] = "body" /\ pc' = [pc EXCEPT !["client"] = "add"]
        /\ UNCHANGED <<iResult, header, wireVars, added>>
    BY <1>6 DEF ClientBody, Goto
  <2>3. sb_recv'["client"].used = 0 /\ sb_recv'["client"].consumed = 0
    BY <2>1, <2>2, EndRecvEmpties DEF Sides
  <2>4. Empty("client")' /\ BodyHas("client")'
    <3>1. pc'["client"] = "add"
      BY <1>1, <2>2 DEF Sides
    <3> QED BY <2>3, <3>1, WholeEmpty DEF Sides
  <2>5. Empty("driver")' /\ BodyHas("driver")'
    <3>1. Peer("driver") = "client" /\ "driver" \in Sides
      BY DEF Peer, Sides
    <3>2. pc'["driver"] = pc["driver"]
      BY <1>1, <2>2 DEF Sides
    <3>3. sb_recv'["driver"] = sb_recv["driver"]
      BY <1>1, <2>1, EndRecvSweeps DEF Sides
    <3> QED BY <1>1, <2>2, <3>1, <3>2, <3>3, WholeSame
  <2> QED BY <1>3, <2>2, <2>4, <2>5 DEF Sides, wireVars
<1>7. CASE Break
  <2>1. UNCHANGED <<pc, sb_recv, header, iResult, added>> /\ reset' # "none"
    BY <1>7 DEF Break, bufferVars
  <2> QED BY <1>1, <2>1, Peers, WholeSame
<1>8. ASSUME NEW e \in Sides, Send(e)
      PROVE  /\ \A f \in Sides : Empty(f)' /\ BodyHas(f)'
             /\ taken' = taken
  <2>1. /\ UNCHANGED <<sb_recv, added, taken>>
        /\ \A f \in Sides \ {e} :
             pc'[f] = pc[f] /\ iResult'[f] = iResult[f] /\ header'[f] = header[f]
        /\ pc[e] = "send" /\ pc'[e] \in {"send", "recv", "closed"}
    BY <1>1, <1>8, SendMoves
  <2>2. Empty(e)' /\ BodyHas(e)'
    <3>1. sb_recv'[e].used = 0 /\ sb_recv'[e].consumed = 0 /\ pc'[e] # "body"
      BY <1>1, <2>1 DEF Empty
    <3> QED BY <3>1, WholeEmpty
  <2>3. ASSUME NEW f \in Sides \ {e} PROVE Empty(f)' /\ BodyHas(f)'
    BY <1>1, <2>1, Peers, WholeSame
  <2> QED BY <2>1, <2>2, <2>3
<1>9. ASSUME NEW e \in Sides, Recv(e)
      PROVE  /\ \A f \in Sides : Empty(f)' /\ BodyHas(f)'
             /\ reset' = "none" =>
                  \A f \in Sides : pc'[Peer(f)] # "closed" => \E k \in Nat : Cut(f, k)'
  <2>1. CASE RecvFails(e)
    <3>1. /\ UNCHANGED <<sb_recv, header, added, taken>>
          /\ pc' = [pc EXCEPT ![e] = "body"] /\ iResult' = [iResult EXCEPT ![e] = FALSE]
          /\ sb_recv[e].used = 0 /\ sb_recv[e].consumed = 0
      BY <1>1, <1>9, <2>1, RecvFailsMoves DEF wireVars
    <3>2. Empty(e)' /\ BodyHas(e)'
      <4>1. ~ iResult'[e]
        BY <1>1, <3>1
      <4> QED BY <3>1, <4>1, WholeEmpty
    <3>3. ASSUME NEW f \in Sides \ {e} PROVE Empty(f)' /\ BodyHas(f)'
      <4>1. pc'[f] = pc[f] /\ iResult'[f] = iResult[f]
        BY <1>1, <3>1
      <4> QED BY <1>1, <3>1, <4>1, Peers, WholeSame
    <3> QED BY <1>3, <3>1, <3>2, <3>3
  <2>2. ASSUME NEW n \in Piece(e), RecvSome(e, n)
        PROVE  /\ \A f \in Sides : Empty(f)' /\ BodyHas(f)'
               /\ reset' = "none" =>
                    \A f \in Sides : pc'[Peer(f)] # "closed" => \E k \in Nat : Cut(f, k)'
    <3> DEFINE from == Peer(e)
    <3>1. /\ pc[e] = "recv" /\ reset = "none" /\ added' = added
          /\ taken' = [taken EXCEPT ![from] = taken[from] + n]
      BY <1>9, <2>2 DEF Recv, RecvSome
    <3>2. PICK k \in Nat : Cut(from, k)
      BY <3>1, Peers DEF WholeInv
    <3>3. /\ k + 1 \in 1 .. Len(added[from]) /\ HasGot(e, added[from][k + 1])'
          /\ Cut(from, k + 1)'
          /\ pc' = [pc EXCEPT ![e] = "body"] /\ iResult' = [iResult EXCEPT ![e] = TRUE]
          /\ \A f \in Sides \ {e} : sb_recv'[f] = sb_recv[f] /\ header'[f] = header[f]
      BY <1>1, <1>9, <2>2, <3>2, CutRecv
    <3>4. Empty(e)' /\ BodyHas(e)'
      <4>1. pc'[e] = "body" /\ iResult'[e]
        BY <1>1, <3>3
      <4>2. Empty(e)'
        BY <4>1 DEF Empty
      <4>3. BodyHas(e)'
        BY <3>1, <3>3 DEF BodyHas
      <4> QED BY <4>2, <4>3
    <3>5. ASSUME NEW f \in Sides \ {e} PROVE Empty(f)' /\ BodyHas(f)'
      <4>1. pc'[f] = pc[f] /\ iResult'[f] = iResult[f]
        BY <1>1, <3>3
      <4> QED BY <1>1, <3>1, <3>3, <4>1, Peers, WholeSame
    <3>6. ASSUME reset' = "none", NEW f \in Sides, pc'[Peer(f)] # "closed"
          PROVE  \E j \in Nat : Cut(f, j)'
      <4>1. CASE f = from
        BY <3>3, <4>1, k + 1 \in Nat
      <4>2. CASE f # from
        <5>1. taken'[f] = taken[f]
          BY <1>1, <3>1, <4>2
        <5>2. pc[Peer(f)] # "closed"
          BY <1>2, <3>6, Peers
        <5>3. PICK j \in Nat : Cut(f, j)
          BY <3>1, <5>2 DEF WholeInv
        <5>4. Flows(f)
          BY <1>1, <3>1, <5>2 DEF StreamInv
        <5> QED BY <1>1, <5>1, <5>3, <5>4, CutKept
      <4> QED BY <4>1, <4>2
    <3> QED BY <3>4, <3>5, <3>6
  <2> QED BY <1>9, <2>1, <2>2 DEF Recv
<1> QED BY <1>3, <1>4, <1>5, <1>6, <1>7, <1>8, <1>9 DEF Next, ClientNext, DriverNext, Sides

LEMMA NextWholeInv == WholeDelivery /\ WholeInv /\ [Next]_vars => WholeInv'
<1> SUFFICES ASSUME WholeDelivery, WholeInv, [Next]_vars PROVE WholeInv'
  OBVIOUS
<1>1. StreamInv'
  BY NextStreamInv DEF WholeInv
<1>2. CASE Next
  <2>1. \A e \in Sides : (pc[Peer(e)])' = pc'[Peer(e)]
    BY DEF Peer
  <2> QED BY <1>1, <1>2, <2>1, NextWhole DEF WholeInv
<1>3. CASE UNCHANGED vars
  <2>1. UNCHANGED <<pc, sb_recv, header, iResult, added, taken, reset>>
    BY <1>3 DEF vars, bufferVars, wireVars
  <2>2. \A e \in Sides : Empty(e)' /\ BodyHas(e)'
    BY <2>1, Peers, WholeSame DEF WholeInv, StreamInv
  <2>3. ASSUME reset' = "none", NEW e \in Sides, pc'[Peer(e)] # "closed"
        PROVE  \E k \in Nat : Cut(e, k)'
    <3>1. PICK k \in Nat : Cut(e, k)
      BY <2>1, <2>3 DEF WholeInv
    <3>2. Cut(e, k)'
      BY <2>1, <3>1, CutSame
    <3> QED BY <3>2
  <2>4. \A e \in Sides : (pc[Peer(e)])' = pc'[Peer(e)]
    BY DEF Peer
  <2> QED BY <1>1, <2>2, <2>3, <2>4 DEF WholeInv
<1> QED BY <1>2, <1>3

\* When recv returns a whole PDU at a time, a body that runs after a recv that
\* returned bytes is handed the header and the payload of a PDU the other side
\* added, for any number of rounds and any sizes (helper.hpp:86-133).
THEOREM WholeBodies ==
  ASSUME WholeDelivery
  PROVE  Spec => []BodyAfterRecvIsPdu
<1>1. WholeInv => BodyAfterRecvIsPdu
  BY InvIsBody
<1>2. WholeInv /\ [Next]_vars => WholeInv'
  BY NextWholeInv
<1> QED BY <1>1, <1>2, WholeInit, PTL DEF Spec

-----------------------------------------------------------------------------
\* The types of one sequence of messages are the first types of another.
Follows(s, t) ==
  Len(s) <= Len(t) /\ \A i \in 1 .. Len(s) : s[i].type = t[i].type

LEMMA FollowsGrows ==
  ASSUME NEW s \in Seq(Pdus), NEW t \in Seq(Pdus), NEW x \in Pdus, Follows(s, t)
  PROVE  Follows(s, Append(t, x))
<1>1. Len(Append(t, x)) = Len(t) + 1 /\ \A i \in 1 .. Len(t) : Append(t, x)[i] = t[i]
  BY AppendAt
<1>2. Len(s) \in Nat /\ Len(t) \in Nat /\ Len(s) <= Len(t)
      /\ \A i \in 1 .. Len(s) : s[i].type = t[i].type
  BY DEF Follows
<1>3. \A i \in 1 .. Len(s) : i \in 1 .. Len(t)
  BY <1>2
<1>4. Len(s) <= Len(Append(t, x)) /\ \A i \in 1 .. Len(s) : s[i].type = Append(t, x)[i].type
  BY <1>1, <1>2, <1>3
<1> QED BY <1>4 DEF Follows

LEMMA FollowsAppend ==
  ASSUME NEW s \in Seq(Pdus), NEW t \in Seq(Pdus), NEW x \in Pdus, Follows(s, t),
         Len(s) + 1 <= Len(t), x.type = t[Len(s) + 1].type
  PROVE  Follows(Append(s, x), t)
<1>1. /\ Len(Append(s, x)) = Len(s) + 1 /\ \A i \in 1 .. Len(s) : Append(s, x)[i] = s[i]
      /\ Append(s, x)[Len(s) + 1] = x
  BY AppendAt
<1>2. Len(s) \in Nat /\ \A i \in 1 .. Len(s) : s[i].type = t[i].type
  BY DEF Follows
<1>3. ASSUME NEW i \in 1 .. Len(s) + 1 PROVE Append(s, x)[i].type = t[i].type
  <2>1. i = Len(s) + 1 \/ i \in 1 .. Len(s)
    BY <1>2
  <2> QED BY <1>1, <1>2, <2>1
<1>4. Len(Append(s, x)) <= Len(t) /\ \A i \in 1 .. Len(Append(s, x)) : Append(s, x)[i].type = t[i].type
  BY <1>1, <1>3
<1> QED BY <1>4 DEF Follows

\* What is appended to both.
LEMMA FollowsBoth ==
  ASSUME NEW s \in Seq(Pdus), NEW t \in Seq(Pdus), NEW x \in Pdus, NEW y \in Pdus,
         Follows(s, t), Len(s) = Len(t), x.type = y.type
  PROVE  Follows(Append(s, x), Append(t, y)) /\ Len(Append(s, x)) = Len(Append(t, y))
<1>1. Follows(s, Append(t, y))
  BY FollowsGrows
<1>2. /\ Append(t, y) \in Seq(Pdus) /\ Len(Append(t, y)) = Len(t) + 1
      /\ Append(t, y)[Len(t) + 1] = y /\ Len(Append(s, x)) = Len(s) + 1
  BY AppendAt
<1>3. Len(s) + 1 <= Len(Append(t, y)) /\ x.type = Append(t, y)[Len(s) + 1].type
  <2>1. Len(s) \in Nat
    OBVIOUS
  <2> QED BY <1>2, <2>1
<1>4. Follows(Append(s, x), Append(t, y))
  BY <1>1, <1>2, <1>3, FollowsAppend
<1> QED BY <1>2, <1>4

-----------------------------------------------------------------------------
\* The client's loop asks for messages of these types only.
Asked == {"PDU_SOMETHING_MORE", "PDU_EVEN_MORE"}

\* A PDU at a time, and no message that is asked for is empty: the stale front
\* of a buffer cannot pass for the payload of one.
Speaks == WholeDelivery /\ \A type \in Asked : PayloadLength[type] # 0

\* Every PDU has the length of its type; a request fits a send buffer.
Requested ==
  /\ \A e \in Sides : \A i \in 1 .. Len(added[e]) :
       added[e][i].length = PayloadLength[added[e][i].type]
  /\ \A i \in 1 .. Len(added["client"]) :
       /\ added["client"][i].type \in Asked
       /\ HeaderSize + added["client"][i].length < SIZE

\* What is served follows what is asked, what is shown what is served, and
\* while both sides listen every request that was served has its answer.
Answered ==
  /\ Follows(handled["driver"], added["client"])
  /\ Follows(handled["client"], handled["driver"])
  /\ reset = "none" /\ pc["client"] # "closed" =>
       /\ Follows(added["driver"], handled["driver"])
       /\ Len(added["driver"]) = Len(handled["driver"])

\* The client waits for the answer to the only request it has not shown.
Lockstep ==
  /\ pc["client"] \in {"send", "recv", "body"} => Len(added["client"]) # 0
  /\ reset = "none" /\ pc["client"] = "add" => Len(added["client"]) = Len(handled["client"])
  /\ reset = "none" /\ pc["client"] \in {"send", "recv"} =>
       Len(added["client"]) = Len(handled["client"]) + 1
  /\ pc["client"] = "body" /\ iResult["client"] =>
       Len(added["client"]) = Len(handled["client"]) + 1

\* The driver stays while the client does, and a body without a message runs
\* only when the other side or the connection is gone.
Stays ==
  /\ pc["driver"] = "closed" => reset # "none" \/ pc["client"] = "closed"
  /\ \A e \in Sides :
       pc[e] = "body" /\ ~ iResult[e] => reset # "none" \/ pc[Peer(e)] = "closed"

\* The driver's send buffer is empty when it makes an answer, and no buffer
\* begins like a payload.
Ready ==
  /\ pc["driver"] \in {"recv", "body"} => sb_send["driver"].used = 0
  /\ \A e \in Sides : sb_recv[e].buffer[1].at # HeaderSize + 1

\* How many PDUs of the other side a side has received.
Got(e) == Len(handled[e]) + IF pc[e] = "body" /\ iResult[e] THEN 1 ELSE 0

\* What a body holds is the next request, or the next answer.
Holds ==
  /\ pc["driver"] = "body" /\ iResult["driver"] =>
       /\ Len(handled["driver"]) + 1 <= Len(added["client"])
       /\ header["driver"].type = added["client"][Len(handled["driver"]) + 1].type
  /\ pc["client"] = "body" /\ iResult["client"] =>
       /\ Len(handled["client"]) + 1 <= Len(handled["driver"])
       /\ header["client"].type = handled["driver"][Len(handled["client"]) + 1].type

\* The bytes a side has taken are those of the PDUs it has received.
Reads(e) ==
  reset = "none" /\ pc[e] # "closed" => \A k \in Nat : k = Got(e) => Cut(Peer(e), k)

Talks ==
  /\ handled \in [Sides -> Seq(Pdus)]
  /\ Requested /\ Answered /\ Lockstep /\ Stays /\ Ready /\ Holds
  /\ \A e \in Sides : Reads(e)

TalkInv == WholeInv /\ Talks

\* A body that is handed a PDU is handed one of the other side, with its payload.
LEMMA HandedPdu ==
  ASSUME PduInv, NEW e \in Sides, NEW h, Handed(e, h) # Junk
  PROVE  /\ Handed(e, h) \in Pdus /\ Handed(e, h).type = h.type /\ Handed(e, h).length = h.length
         /\ \E i \in 1 .. Len(added[Peer(e)]) : Handed(e, h) = added[Peer(e)][i]
         /\ FromStart(sb_recv[e], h.length)
              = SubSeq(Bytes(Handed(e, h)), HeaderSize + 1, HeaderSize + h.length)
<1>1. HandedPdus(e, h) # {} /\ Handed(e, h) = CHOOSE pdu \in HandedPdus(e, h) : TRUE
  BY DEF Handed
<1>2. Handed(e, h) \in HandedPdus(e, h)
  BY <1>1
<1> DEFINE x == Handed(e, h)
<1> HIDE DEF x
<1>3. /\ x \in {added[Peer(e)][i] : i \in 1 .. Len(added[Peer(e)])}
      /\ x.type = h.type /\ x.length = h.length
      /\ FromStart(sb_recv[e], h.length) = SubSeq(Bytes(x), HeaderSize + 1, HeaderSize + x.length)
  BY <1>2 DEF HandedPdus, x
<1>4. \A i \in 1 .. Len(added[Peer(e)]) : added[Peer(e)][i] \in Pdus
  BY Peers DEF PduInv, TypeOK
<1>5. /\ x \in Pdus /\ x.type = h.type /\ x.length = h.length
      /\ \E i \in 1 .. Len(added[Peer(e)]) : x = added[Peer(e)][i]
  BY <1>3, <1>4
<1>6. FromStart(sb_recv[e], h.length) = SubSeq(Bytes(x), HeaderSize + 1, HeaderSize + h.length)
  BY <1>3
<1> QED BY <1>5, <1>6 DEF x

\* Nothing can be made of an empty buffer.
LEMMA EmptyIsJunk ==
  ASSUME TalkInv, Speaks, NEW e \in Sides, pc[e] = "body", ~ iResult[e], NEW h,
         h.type \in Unpacks(e)
  PROVE  Handed(e, h) = Junk
<1> SUFFICES ASSUME Handed(e, h) # Junk PROVE FALSE
  OBVIOUS
<1> DEFINE x == Handed(e, h)
           b == sb_recv[e]
           m == IF h.length <= SIZE THEN h.length ELSE SIZE
<1>1. /\ x \in Pdus /\ x.type = h.type /\ x.length = h.length
      /\ \E i \in 1 .. Len(added[Peer(e)]) : x = added[Peer(e)][i]
      /\ FromStart(b, h.length) = SubSeq(Bytes(x), HeaderSize + 1, HeaderSize + h.length)
  BY HandedPdu DEF TalkInv, Talks, WholeInv, StreamInv
<1>2. b.consumed = 0 /\ b.buffer[1].at # HeaderSize + 1 /\ b.buffer \in [1 .. SIZE -> Byte]
  BY TypeOKBuffers DEF TalkInv, Talks, WholeInv, StreamInv, PduInv, Empty, Ready, IsBuffer, Buffers
<1> HIDE DEF x, b
<1>3. x.type \in Asked
  <2>1. CASE e = "driver"
    BY <1>1, <2>1 DEF Peer, TalkInv, Talks, Requested
  <2>2. CASE e = "client"
    <3>1. Len(added["client"]) \in Nat
      BY DEF TalkInv, Talks, WholeInv, StreamInv, PduInv, TypeOK, Sides
    <3>2. Len(added["client"]) \in 1 .. Len(added["client"])
      BY <2>2, <3>1 DEF TalkInv, Talks, Lockstep
    <3>3. h.type = added["client"][Len(added["client"])].type
      BY <2>2 DEF Unpacks
    <3> QED BY <1>1, <3>2, <3>3 DEF TalkInv, Talks, Requested
  <2> QED BY <2>1, <2>2 DEF Sides
<1>4. x.length = PayloadLength[x.type]
  BY <1>1, Peers DEF TalkInv, Talks, Requested
<1>5. h.length \in Nat /\ 1 <= h.length /\ SIZE \in Nat /\ 1 <= SIZE /\ HeaderSize \in Nat
  <2>1. SIZE \in Nat /\ 1 <= SIZE /\ HeaderSize \in Nat
    BY ONLY SocketBufferAssumption DEF HeaderSize
  <2>2. x.length \in 0 .. MaxLength /\ MaxLength \in Nat
    BY ONLY <1>1, SocketBufferAssumption DEF Pdus
  <2>3. PayloadLength[x.type] # 0
    BY ONLY <1>3, Speaks DEF Speaks
  <2>4. x.length \in Nat /\ x.length # 0
    BY ONLY <1>4, <2>2, <2>3
  <2> QED BY ONLY <1>1, <2>1, <2>4
<1>6. m \in Nat /\ 1 <= m /\ m <= SIZE
  BY <1>5
<1>7. FromStart(b, h.length) = SubSeq(b.buffer, 1, m)
  <2>1. b.consumed + 1 = 1 /\ b.consumed + h.length = h.length
    BY <1>2, <1>5
  <2> QED BY <2>1 DEF FromStart
<1> HIDE DEF m
<1>8. SubSeq(b.buffer, 1, m)[1] = b.buffer[1]
  <2> DEFINE buffer == b.buffer
  <2>1. buffer \in [1 .. SIZE -> Byte] /\ 1 \in Nat \ {0}
    BY <1>2
  <2> HIDE DEF buffer
  <2>2. \A i \in 1 .. m - 1 + 1 : SubSeq(buffer, 1, m)[i] = buffer[1 + i - 1]
    BY <1>6, <2>1, PartType
  <2>3. 1 \in 1 .. m - 1 + 1 /\ 1 + 1 - 1 = 1
    BY <1>6
  <2>4. SubSeq(buffer, 1, m)[1] = buffer[1]
    <3>1. SubSeq(buffer, 1, m)[1] = buffer[1 + 1 - 1]
      BY ONLY <2>2, <2>3
    <3> QED BY <2>3, <3>1
  <2> QED BY <2>4 DEF buffer
<1>9. SubSeq(Bytes(x), HeaderSize + 1, HeaderSize + h.length)[1].at = HeaderSize + 1
  <2> DEFINE s == Bytes(x)
             l == HeaderSize + h.length
  <2>1. s \in Seq(Byte) /\ Len(s) = l /\ l \in Nat
    <3>1. x \in Pdus /\ x.length = h.length
      BY <1>1
    <3>2. s \in Seq(Byte) /\ Len(s) = HeaderSize + x.length
      BY ONLY <3>1, BytesType
    <3>3. l \in Nat
      BY <1>5
    <3> QED BY <3>1, <3>2, <3>3
  <2>2. HeaderSize + 1 \in 1 .. HeaderSize + x.length
    BY <1>1, <1>5
  <2>3. s[HeaderSize + 1].at = HeaderSize + 1
    BY <2>2 DEF Bytes
  <2> HIDE DEF s, l
  <2>4. \A i \in HeaderSize + 1 .. l : s[i] \in Byte
    BY <1>5, <2>1
  <2>5. SubSeq(s, HeaderSize + 1, l)[1] = s[HeaderSize + 1]
    <3>1. HeaderSize + 1 <= l /\ HeaderSize + 1 \in Nat
      BY <1>5 DEF l
    <3>2. \A i \in 1 .. l - (HeaderSize + 1) + 1 :
            SubSeq(s, HeaderSize + 1, l)[i] = s[HeaderSize + 1 + i - 1]
      BY <1>5, <2>1, <2>4, <3>1, SubSeqProperties
    <3>3. 1 \in 1 .. l - (HeaderSize + 1) + 1 /\ HeaderSize + 1 + 1 - 1 = HeaderSize + 1
      BY <1>5, <2>1, <3>1
    <3> QED BY <3>2, <3>3
  <2> QED BY <2>3, <2>5 DEF s, l
<1> QED BY <1>1, <1>2, <1>7, <1>8, <1>9

\* A body that got a PDU unpacks it, and no other body unpacks anything.
LEMMA BodyHandles ==
  ASSUME TalkInv, Speaks, NEW e \in Sides, pc[e] = "body",
         NEW h \in HeaderValues(e), Handle(e, h)
  PROVE  /\ \A f \in Sides \ {e} : handled'[f] = handled[f]
         /\ iResult[e] => /\ h = header[e] /\ h.type \in PduTypes
                          /\ Handed(e, h) # Junk /\ Handed(e, h) \in Pdus
                          /\ Handed(e, h).type = header[e].type
                          /\ handled'[e] = Append(handled[e], Handed(e, h))
         /\ ~ iResult[e] => handled' = handled
<1>1. handled' = [handled EXCEPT ![e] =
                    IF h.type \in Unpacks(e) /\ Handed(e, h) # Junk
                    THEN Append(handled[e], Handed(e, h)) ELSE handled[e]]
      /\ handled \in [Sides -> Seq(Pdus)]
  BY DEF Handle, TalkInv, Talks
<1>2. CASE ~ iResult[e]
  <2>1. ~ (h.type \in Unpacks(e) /\ Handed(e, h) # Junk)
    BY <1>2, EmptyIsJunk
  <2> QED BY <1>1, <1>2, <2>1
<1>3. CASE iResult[e]
  <2>1. PICK i \in 1 .. Len(added[Peer(e)]) : HasGot(e, added[Peer(e)][i])
    BY <1>3 DEF TalkInv, Talks, WholeInv, BodyHas
  <2>2. added[Peer(e)][i] \in Pdus
    BY Peers DEF TalkInv, Talks, WholeInv, StreamInv, PduInv, TypeOK
  <2>3. h = header[e] /\ h.type \in PduTypes
    <3>1. header[e].type = added[Peer(e)][i].type /\ header[e].length = added[Peer(e)][i].length
      BY <2>1 DEF HasGot
    <3>2. header[e].length \in 0 .. MaxLength /\ header[e].type \in PduTypes
      BY <2>2, <3>1 DEF Pdus
    <3>3. header[e] # Unset
      BY <3>2, SocketBufferAssumption DEF Unset
    <3> QED BY <3>2, <3>3 DEF HeaderValues
  <2>4. Handed(e, h) # Junk
    BY <1>3, <2>3, InvIsBody DEF TalkInv, Talks, BodyAfterRecvIsPdu
  <2>5. Handed(e, h) \in Pdus /\ Handed(e, h).type = h.type
    BY <2>4, HandedPdu DEF TalkInv, Talks, WholeInv, StreamInv
  <2>6. h.type \in Unpacks(e)
    <3>1. CASE e = "driver"
      BY <2>3, <3>1 DEF Unpacks
    <3>2. CASE e = "client"
      <4> DEFINE n == Len(handled["client"])
      <4>1. n \in Nat /\ n + 1 <= Len(handled["driver"]) /\ Len(added["client"]) = n + 1
            /\ header["client"].type = handled["driver"][n + 1].type
        BY <1>1, <1>3, <3>2 DEF TalkInv, Talks, Holds, Lockstep, Sides
      <4>2. handled["driver"][n + 1].type = added["client"][n + 1].type
        <5>1. n + 1 \in 1 .. Len(handled["driver"])
          <6>1. Len(handled["driver"]) \in Nat
            BY <1>1 DEF Sides
          <6> QED BY <4>1, <6>1
        <5> QED BY <5>1 DEF TalkInv, Talks, Answered, Follows
      <4> QED BY <2>3, <3>2, <4>1, <4>2 DEF Unpacks
    <3> QED BY <3>1, <3>2 DEF Sides
  <2> QED BY <1>1, <1>3, <2>3, <2>4, <2>5, <2>6
<1> QED BY <1>2, <1>3

LEMMA GotType ==
  ASSUME handled \in [Sides -> Seq(Pdus)], NEW e \in Sides
  PROVE  Got(e) \in Nat
<1>1. Len(handled[e]) \in Nat
  OBVIOUS
<1> QED BY <1>1 DEF Got

\* A reader that takes nothing finds the cut where it was.
LEMMA ReadsSame ==
  ASSUME TalkInv, Next, NEW e \in Sides, taken'[Peer(e)] = taken[Peer(e)], Got(e)' = Got(e)
  PROVE  Reads(e)'
<1> SUFFICES ASSUME reset' = "none", pc'[e] # "closed", NEW k \in Nat, k = Got(e)'
             PROVE  Cut(Peer(e), k)'
  BY DEF Reads, Peer
<1>1. reset = "none" /\ pc[e] # "closed"
  BY NoReturn DEF TalkInv, Talks, WholeInv, StreamInv
<1>2. Cut(Peer(e), k)
  BY <1>1 DEF TalkInv, Talks, Reads
<1>3. Flows(Peer(e))
  BY <1>1, Peers DEF TalkInv, Talks, WholeInv, StreamInv
<1>4. StreamInv /\ \A f \in Sides : Empty(f)
  BY DEF TalkInv, Talks, WholeInv
<1> QED BY <1>2, <1>3, <1>4, Peers, CutKept

LEMMA TalkInit == Init => TalkInv
<1> SUFFICES ASSUME Init PROVE TalkInv
  OBVIOUS
<1>0. /\ Len(<<>>) = 0 /\ <<>> \in Seq(Pdus)
      /\ "client" \in Sides /\ "driver" \in Sides
      /\ \A e \in Sides : added[e] = <<>> /\ handled[e] = <<>>
      /\ pc["client"] = "add" /\ pc["driver"] = "recv"
  <2>1. Len(<<>>) = 0
    OBVIOUS
  <2>2. <<>> \in Seq(Pdus)
    OBVIOUS
  <2> QED BY <2>1, <2>2 DEF Init, Sides
<1>1. handled \in [Sides -> Seq(Pdus)]
  BY <1>0 DEF Init
<1>2. Requested
  BY <1>0 DEF Requested
<1>3. Follows(<<>>, <<>>)
  BY <1>0 DEF Follows
<1>4. Answered
  BY <1>0, <1>3 DEF Answered
<1>5. Lockstep /\ Stays /\ Holds
  BY <1>0 DEF Init, Lockstep, Stays, Holds
<1>6. Ready
  <2>1. HeaderSize \in Nat /\ 1 \in 1 .. SIZE
    BY SocketBufferAssumption DEF HeaderSize
  <2>2. New.buffer[1].at # HeaderSize + 1 /\ New.used = 0
    BY <2>1 DEF New, NoByte
  <2> QED BY <1>0, <2>2 DEF Init, Ready
<1>7. ASSUME NEW e \in Sides, NEW k \in Nat, k = Got(e) PROVE Cut(Peer(e), k)
  <2>1. k = 0
    BY <1>0, <1>7 DEF Got, Init
  <2>2. /\ added[Peer(e)] = <<>> /\ taken[Peer(e)] = 0 /\ StreamOf(<<>>) = <<>>
    BY StreamEmpty, Peers DEF Init
  <2>3. Rest(<<>>, 0) = <<>> /\ 0 \in 0 .. Len(<<>>)
    <3>1. SubSeq(<<>>, 1, 0) = <<>>
      BY SubSeqEmpty
    <3> QED BY <1>0, <3>1 DEF Rest
  <2> QED BY <2>1, <2>2, <2>3 DEF Cut
<1>8. \A e \in Sides : Reads(e)
  BY <1>7 DEF Reads
<1> QED BY <1>1, <1>2, <1>4, <1>5, <1>6, <1>8, WholeInit DEF TalkInv, Talks

LEMMA TalkParts ==
  ASSUME TalkInv
  PROVE  /\ PduInv /\ StreamInv /\ \A e \in Sides : Empty(e) /\ BodyHas(e)
         /\ pc \in [Sides -> {"add", "send", "recv", "body", "closed"}]
         /\ iResult \in [Sides -> BOOLEAN] /\ added \in [Sides -> Seq(Pdus)]
         /\ sb_recv \in [Sides -> Buffers] /\ sb_send \in [Sides -> Buffers]
         /\ header \in [Sides -> [type : AnyType, length : 0 .. MaxLength] \cup {Unset}]
         /\ taken \in [Sides -> Nat]
         /\ handled \in [Sides -> Seq(Pdus)]
         /\ "client" \in Sides /\ "driver" \in Sides /\ Sides = {"client", "driver"}
         /\ Peer("client") = "driver" /\ Peer("driver") = "client"
         /\ \A e \in Sides : Len(added[e]) \in Nat /\ Len(handled[e]) \in Nat
BY DEF TalkInv, Talks, WholeInv, StreamInv, PduInv, TypeOK, Sides, Peer

\* What the client asks for fits a send buffer and is not empty.
LEMMA RequestFits ==
  ASSUME TalkInv, ClientAdd, NextRequest \in Pdus,
         CanAddPdu(RoundBuffer(sb_send["client"]), NextRequest)
  PROVE  /\ NextRequest.type \in Asked
         /\ NextRequest.length = PayloadLength[NextRequest.type]
         /\ HeaderSize + NextRequest.length < SIZE
<1>1. /\ NextRequest.type \in Asked
      /\ NextRequest.length = PayloadLength[NextRequest.type]
  BY DEF NextRequest, Pdu, Asked
<1> DEFINE b == RoundBuffer(sb_send["client"])
<1>2. IsBuffer(b)
  BY NewBuffer, TypeOKBuffers, TalkParts DEF RoundBuffer, PduInv
<1>3. b.used + (HeaderSize + NextRequest.length) < SIZE
  BY DEF CanAddPdu, SizeCheck
<1>4. b.used \in Nat /\ NextRequest.length \in Nat /\ HeaderSize \in Nat /\ SIZE \in Nat
  BY <1>2, SocketBufferAssumption DEF IsBuffer, Buffers, Pdus, HeaderSize
<1> HIDE DEF b
<1>5. HeaderSize + NextRequest.length < SIZE
  BY <1>3, <1>4
<1> QED BY <1>1, <1>5

\* The client asks once it has shown the answer to what it asked before.
LEMMA TalkClientAdd ==
  ASSUME TalkInv, Speaks, ClientAdd
  PROVE  Talks'
<1>1. /\ StreamInv /\ handled \in [Sides -> Seq(Pdus)] /\ added \in [Sides -> Seq(Pdus)]
      /\ "client" \in Sides /\ "driver" \in Sides /\ Sides = {"client", "driver"}
      /\ \A e \in Sides : Len(added[e]) \in Nat /\ Len(handled[e]) \in Nat
      /\ Requested /\ Answered /\ Lockstep /\ Stays /\ Ready /\ Holds
  BY TalkParts DEF TalkInv, Talks
<1>2. /\ UNCHANGED <<iResult, header, wire, reset, taken, handled>>
      /\ pc'["driver"] = pc["driver"] /\ sb_recv'["driver"] = sb_recv["driver"]
      /\ added'["driver"] = added["driver"]
      /\ sb_send'["driver"] = sb_send["driver"]
      /\ sb_recv'["client"] \in {New, sb_recv["client"]}
      /\ pc["client"] = "add" /\ pc'["client"] \in {"send", "closed"}
  BY <1>1, ClientAdds DEF wireVars, bufferVars, ClientAdd
<1>3. Ready'
  <2>1. New.buffer[1].at # HeaderSize + 1
    <3>1. HeaderSize \in Nat /\ 1 \in 1 .. SIZE
      BY SocketBufferAssumption DEF HeaderSize
    <3> QED BY <3>1 DEF New, NoByte
  <2> QED BY <1>1, <1>2, <2>1 DEF Ready
<1>4. Stays'
  BY <1>1, <1>2 DEF Stays, Peer
<1>5. \A e \in Sides : Reads(e)'
  <2>1. \A e \in Sides : Got(e)' = Got(e)
    BY <1>1, <1>2 DEF Got
  <2>2. Next
    BY DEF Next, ClientNext
  <2> QED BY <1>2, <2>1, <2>2, ReadsSame DEF Peer
<1>6. CASE pc'["client"] = "closed" /\ added' = added
  <2>1. Requested' /\ Answered' /\ Lockstep' /\ Holds'
    BY <1>1, <1>2, <1>6 DEF Requested, Answered, Lockstep, Holds, Follows
  <2> QED BY <1>1, <1>2, <1>3, <1>4, <1>5, <2>1 DEF Talks
<1>7. CASE /\ pc'["client"] = "send" /\ NextRequest \in Pdus
           /\ added' = [added EXCEPT !["client"] = Append(@, NextRequest)]
           /\ CanAddPdu(RoundBuffer(sb_send["client"]), NextRequest)
  <2> DEFINE s == added["client"]
             x == NextRequest
             a == Append(s, x)
             h == handled["driver"]
  <2>1. /\ x \in Pdus /\ x.type \in Asked /\ x.length = PayloadLength[x.type]
        /\ HeaderSize + x.length < SIZE
    BY <1>7, RequestFits
  <2>2. s \in Seq(Pdus) /\ Len(s) \in Nat /\ h \in Seq(Pdus)
    BY <1>1
  <2>3. added'["client"] = a
    BY <1>1, <1>7
  <2> HIDE DEF x, s, h
  <2>4. Len(a) = Len(s) + 1 /\ a[Len(s) + 1] = x /\ \A i \in 1 .. Len(s) : a[i] = s[i]
    BY <2>1, <2>2, AppendAt
  <2> HIDE DEF a
  <2>5. Requested'
    <3>1. ASSUME NEW i \in 1 .. Len(a)
          PROVE  /\ a[i].length = PayloadLength[a[i].type] /\ a[i].type \in Asked
                 /\ HeaderSize + a[i].length < SIZE
      <4>1. i = Len(s) + 1 \/ i \in 1 .. Len(s)
        BY <2>2, <2>4
      <4>2. ASSUME i \in 1 .. Len(s)
            PROVE  /\ s[i].length = PayloadLength[s[i].type] /\ s[i].type \in Asked
                   /\ HeaderSize + s[i].length < SIZE
        BY <1>1, <4>2 DEF Requested, s
      <4> QED BY <2>1, <2>4, <4>1, <4>2
    <3> QED BY <1>1, <1>2, <2>3, <3>1 DEF Requested
  <2>6. Answered'
    <3>1. Follows(h, s)
      BY <1>1 DEF Answered, h, s
    <3>2. Follows(h, a)
      BY <2>1, <2>2, <3>1, FollowsGrows DEF a
    <3>3. Follows(handled'["driver"], added'["client"])
      BY <1>2, <2>3, <3>2 DEF h
    <3>4. /\ Follows(handled'["client"], handled'["driver"])
          /\ reset' = "none" /\ pc'["client"] # "closed" =>
               /\ Follows(added'["driver"], handled'["driver"])
               /\ Len(added'["driver"]) = Len(handled'["driver"])
      BY <1>1, <1>2 DEF Answered
    <3> QED BY <3>3, <3>4 DEF Answered, Follows
  <2>7. Lockstep'
    BY <1>1, <1>2, <1>7, <2>2, <2>3, <2>4 DEF Lockstep, s
  <2>8. Holds'
    <3>1. ASSUME pc["driver"] = "body", iResult["driver"]
          PROVE  /\ Len(handled["driver"]) + 1 <= Len(a)
                 /\ header["driver"].type = a[Len(handled["driver"]) + 1].type
      <4>1. /\ Len(handled["driver"]) + 1 <= Len(s)
            /\ header["driver"].type = s[Len(handled["driver"]) + 1].type
        BY <1>1, <3>1 DEF Holds, s
      <4>2. Len(handled["driver"]) + 1 \in 1 .. Len(s)
        BY <1>1, <2>2, <4>1
      <4> QED BY <1>1, <2>2, <2>4, <4>1, <4>2
    <3> QED BY <1>2, <1>7, <2>3, <3>1 DEF Holds
  <2> QED BY <1>1, <1>2, <1>3, <1>4, <1>5, <2>5, <2>6, <2>7, <2>8 DEF Talks
<1> QED BY <1>6, <1>7, ClientAdds, <1>1

\* The client shows the answer it was handed.
LEMMA TalkClientBody ==
  ASSUME TalkInv, Speaks, ClientBody
  PROVE  Talks'
<1>1. /\ StreamInv /\ handled \in [Sides -> Seq(Pdus)] /\ added \in [Sides -> Seq(Pdus)]
      /\ "client" \in Sides /\ "driver" \in Sides /\ Sides = {"client", "driver"}
      /\ Peer("client") = "driver" /\ Peer("driver") = "client"
      /\ \A e \in Sides : Len(added[e]) \in Nat /\ Len(handled[e]) \in Nat
      /\ Requested /\ Answered /\ Lockstep /\ Stays /\ Ready /\ Holds
      /\ pc \in [Sides -> {"add", "send", "recv", "body", "closed"}]
      /\ iResult \in [Sides -> BOOLEAN]
  BY TalkParts DEF TalkInv, Talks
<1>2. /\ UNCHANGED <<iResult, header, sb_send, wire, reset, taken, added>>
      /\ pc["client"] = "body" /\ pc' = [pc EXCEPT !["client"] = "add"]
  BY DEF ClientBody, wireVars, Goto
<1>3. PICK h \in HeaderValues("client") : Handle("client", h) /\ EndRecv("client", h)
  BY DEF ClientBody
<1> DEFINE x == Handed("client", h)
           s == handled["client"]
           t == handled["driver"]
<1>4. /\ handled'["driver"] = t
      /\ iResult["client"] => x \in Pdus /\ x.type = header["client"].type /\ handled'["client"] = Append(s, x)
      /\ ~ iResult["client"] => handled' = handled
  BY <1>1, <1>2, <1>3, BodyHandles
<1>5. /\ sb_recv'["client"].buffer = sb_recv["client"].buffer /\ sb_recv'["driver"] = sb_recv["driver"]
  BY <1>1, <1>2, <1>3, EndRecvEmpties, EndRecvSweeps DEF TalkInv, WholeInv, StreamInv
<1> HIDE DEF x
<1>6. pc'["client"] = "add" /\ pc'["driver"] = pc["driver"]
  BY <1>1, <1>2
<1>7. Requested' /\ Stays' /\ Ready'
  BY <1>1, <1>2, <1>5, <1>6 DEF Requested, Stays, Ready, Peer
<1>8. \A e \in Sides : Got(e)' = Got(e)
  <2>1. Got("driver")' = Got("driver")
    BY <1>2, <1>4, <1>6 DEF Got
  <2>2. Got("client")' = Got("client")
    <3>1. CASE iResult["client"]
      <4>1. Len(Append(s, x)) = Len(s) + 1
        BY <1>1, <1>4, <3>1, AppendAt
      <4>2. Len(s) \in Nat
        BY <1>1
      <4>3. Got("client")' = Len(handled'["client"]) + 0
        BY <1>6 DEF Got
      <4>4. Got("client") = Len(s) + 1
        BY <1>2, <3>1 DEF Got
      <4>5. Len(handled'["client"]) = Len(s) + 1
        BY <1>4, <3>1, <4>1
      <4> QED BY ONLY <4>2, <4>3, <4>4, <4>5
    <3>2. CASE ~ iResult["client"]
      BY <1>2, <1>4, <1>6, <3>2 DEF Got
    <3> QED BY <3>1, <3>2
  <2> QED BY <1>1, <2>1, <2>2
<1>9. \A e \in Sides : Reads(e)'
  <2>1. Next
    BY DEF Next, ClientNext
  <2> QED BY <1>2, <1>8, <2>1, ReadsSame DEF Peer
<1>10. CASE iResult["client"]
  <2>1. Len(s) + 1 <= Len(t) /\ header["client"].type = t[Len(s) + 1].type
        /\ Len(added["client"]) = Len(s) + 1
    BY <1>1, <1>2, <1>10 DEF Holds, Lockstep
  <2>2. s \in Seq(Pdus) /\ t \in Seq(Pdus) /\ x \in Pdus /\ x.type = header["client"].type
        /\ handled'["client"] = Append(s, x) /\ Len(s) \in Nat
    BY <1>1, <1>4, <1>10
  <2>3. Follows(s, t)
    BY <1>1 DEF Answered
  <2>0. handled' \in [Sides -> Seq(Pdus)]
    <3>1. Append(s, x) \in Seq(Pdus)
      BY <2>2, AppendAt
    <3>2. handled' = [handled EXCEPT !["client"] = Append(s, x)]
      <4>1. handled' = [handled EXCEPT !["client"] = handled'["client"]]
        BY <1>1, <1>3 DEF Handle
      <4> QED BY <2>2, <4>1
    <3> QED BY <1>1, <3>1, <3>2
  <2> HIDE DEF s, t
  <2>4. Follows(Append(s, x), t) /\ Len(Append(s, x)) = Len(s) + 1
    BY <2>1, <2>2, <2>3, FollowsAppend, AppendAt
  <2>5. Answered'
    <3>1. Follows(handled'["client"], handled'["driver"])
      BY <1>4, <2>2, <2>4
    <3>2. /\ Follows(handled'["driver"], added'["client"])
          /\ reset' = "none" =>
               /\ Follows(added'["driver"], handled'["driver"])
               /\ Len(added'["driver"]) = Len(handled'["driver"])
      BY <1>1, <1>2, <1>4 DEF Answered, t
    <3> QED BY <3>1, <3>2 DEF Answered, Follows
  <2>6. Lockstep' /\ Holds'
    BY <1>1, <1>2, <1>4, <1>6, <2>1, <2>2, <2>4 DEF Lockstep, Holds, t
  <2> QED BY <1>1, <1>7, <1>9, <2>0, <2>5, <2>6 DEF Talks
<1>11. CASE ~ iResult["client"]
  <2>1. handled' = handled
    BY <1>4, <1>11
  <2>2. reset # "none"
    BY <1>1, <1>2, <1>11 DEF Stays
  <2>3. Answered' /\ Lockstep' /\ Holds'
    BY <1>1, <1>2, <1>6, <2>1, <2>2 DEF Answered, Lockstep, Holds, Follows
  <2> QED BY <1>1, <1>7, <1>9, <2>1, <2>3 DEF Talks
<1> QED BY <1>10, <1>11

\* An answer has the length of its type.
LEMMA AnswerRequested ==
  ASSUME TalkInv, NEW type \in PduTypes, Pdu("driver", type) \in Pdus,
         added' = [added EXCEPT !["driver"] = Append(@, Pdu("driver", type))]
  PROVE  Requested'
<1> DEFINE d == added["driver"]
           y == Pdu("driver", type)
           a == Append(d, y)
<1>1. /\ added \in [Sides -> Seq(Pdus)] /\ d \in Seq(Pdus) /\ Len(d) \in Nat /\ Requested
      /\ "client" \in Sides /\ "driver" \in Sides /\ Sides = {"client", "driver"}
  BY TalkParts DEF TalkInv, Talks
<1>2. y \in Pdus /\ y.length = PayloadLength[y.type]
  BY DEF Pdu
<1>3. added'["driver"] = a /\ added'["client"] = added["client"]
  BY <1>1
<1> HIDE DEF d, y
<1>4. Len(a) = Len(d) + 1 /\ a[Len(d) + 1] = y /\ \A i \in 1 .. Len(d) : a[i] = d[i]
  BY <1>1, <1>2, AppendAt
<1> HIDE DEF a
<1>5. ASSUME NEW i \in 1 .. Len(a) PROVE a[i].length = PayloadLength[a[i].type]
  <2>1. i = Len(d) + 1 \/ i \in 1 .. Len(d)
    BY <1>1, <1>4
  <2>2. ASSUME i \in 1 .. Len(d) PROVE d[i].length = PayloadLength[d[i].type]
    BY <1>1, <2>2 DEF Requested, d
  <2> QED BY <1>2, <1>4, <2>1, <2>2
<1> QED BY <1>1, <1>3, <1>5 DEF Requested

\* The driver can answer a request it got.
LEMMA DriverAnswers ==
  ASSUME TalkInv, pc["driver"] = "body", iResult["driver"]
  PROVE  Answers(header["driver"])
<1> DEFINE t == header["driver"].type
           n == Len(handled["driver"]) + 1
           p == added["client"][n]
<1>1. n \in 1 .. Len(added["client"]) /\ t = p.type
  <2>1. Len(handled["driver"]) \in Nat /\ n <= Len(added["client"]) /\ t = p.type
        /\ Len(added["client"]) \in Nat
    BY TalkParts DEF TalkInv, Talks, Holds
  <2> QED BY <2>1
<1> HIDE DEF n
<1>2. t \in PduTypes /\ p.length = PayloadLength[t] /\ HeaderSize + p.length < SIZE
  BY <1>1, TalkParts DEF TalkInv, Talks, Requested, Asked, PduTypes
<1>3. sb_send["driver"].used = 0
  BY DEF TalkInv, Talks, Ready
<1>4. Pdu("driver", t).length = PayloadLength[t]
  BY DEF Pdu
<1> HIDE DEF p, t
<1>5. 0 + (HeaderSize + PayloadLength[t]) < SIZE
  <2>1. PayloadLength[t] \in Nat /\ HeaderSize \in Nat
    BY <1>2, PduSessionAssumption, SocketBufferAssumption DEF HeaderSize
  <2> QED BY <1>2, <2>1
<1>6. CanAddPdu(sb_send["driver"], Pdu("driver", t))
  BY <1>3, <1>4, <1>5 DEF CanAddPdu, SizeCheck
<1> QED BY <1>2, <1>6 DEF Answers, t

LEMMA TalkDriverBody ==
  ASSUME TalkInv, Speaks, DriverBody
  PROVE  Talks'
<1>1. /\ StreamInv /\ handled \in [Sides -> Seq(Pdus)] /\ added \in [Sides -> Seq(Pdus)]
      /\ "client" \in Sides /\ "driver" \in Sides /\ Sides = {"client", "driver"}
      /\ Peer("client") = "driver" /\ Peer("driver") = "client"
      /\ \A e \in Sides : Len(added[e]) \in Nat /\ Len(handled[e]) \in Nat
      /\ Requested /\ Answered /\ Lockstep /\ Stays /\ Ready /\ Holds
      /\ iResult \in [Sides -> BOOLEAN]
  BY TalkParts DEF TalkInv, Talks
<1>2. /\ UNCHANGED <<iResult, header, wire, reset, taken>> /\ pc["driver"] = "body"
      /\ added'["client"] = added["client"] /\ pc'["client"] = pc["client"]
      /\ sb_recv'["client"] = sb_recv["client"]
  BY <1>1, DriverAdds DEF wireVars, DriverBody
<1>3. PICK h \in HeaderValues("driver") :
        /\ Handle("driver", h) /\ EndRecv("driver", h)
        /\ \/ /\ pc'["driver"] = "closed" /\ added' = added
              /\ Answers(h) => Handed("driver", h) = Junk
           \/ /\ pc'["driver"] = "send" /\ Answers(h) /\ Pdu("driver", h.type) \in Pdus
              /\ added' = [added EXCEPT !["driver"] = Append(@, Pdu("driver", h.type))]
  BY <1>1, DriverAdds
<1> DEFINE x == Handed("driver", h)
           t == handled["driver"]
           c == handled["client"]
           s == added["client"]
           d == added["driver"]
           y == Pdu("driver", h.type)
<1>4. /\ handled'["client"] = c
      /\ iResult["driver"] => /\ h = header["driver"] /\ h.type \in PduTypes
                              /\ x # Junk /\ x \in Pdus /\ x.type = header["driver"].type
                              /\ handled'["driver"] = Append(t, x)
      /\ ~ iResult["driver"] => handled' = handled
  BY <1>1, <1>2, <1>3, BodyHandles
<1>5. sb_recv'["driver"].buffer = sb_recv["driver"].buffer
  BY <1>1, <1>2, <1>3, EndRecvEmpties DEF TalkInv
<1> HIDE DEF x
<1>6. pc'["driver"] \in {"closed", "send"}
  BY <1>3
<1>7. Ready' /\ Lockstep'
  BY <1>1, <1>2, <1>4, <1>5, <1>6 DEF Ready, Lockstep
<1>8. \A e \in Sides : Got(e)' = Got(e)
  <2>1. Got("client")' = Got("client")
    BY <1>2, <1>4 DEF Got
  <2>2. Got("driver")' = Got("driver")
    <3>1. CASE iResult["driver"]
      <4>1. Len(Append(t, x)) = Len(t) + 1
        BY <1>1, <1>4, <3>1, AppendAt
      <4>2. Len(t) \in Nat
        BY <1>1
      <4>3. Got("driver")' = Len(handled'["driver"]) + 0
        BY <1>6 DEF Got
      <4>4. Got("driver") = Len(t) + 1
        BY <1>2, <3>1 DEF Got
      <4>5. Len(handled'["driver"]) = Len(t) + 1
        BY <1>4, <3>1, <4>1
      <4> QED BY ONLY <4>2, <4>3, <4>4, <4>5
    <3>2. CASE ~ iResult["driver"]
      BY <1>2, <1>4, <1>6, <3>2 DEF Got
    <3> QED BY <3>1, <3>2
  <2> QED BY <1>1, <2>1, <2>2
<1>9. \A e \in Sides : Reads(e)'
  <2>1. Next
    BY DEF Next, DriverNext
  <2> QED BY <1>2, <1>8, <2>1, ReadsSame DEF Peer
<1>10. Requested'
  <2>1. CASE added' = added
    BY <1>1, <2>1 DEF Requested
  <2>2. CASE /\ Answers(h) /\ Pdu("driver", h.type) \in Pdus
             /\ added' = [added EXCEPT !["driver"] = Append(@, Pdu("driver", h.type))]
    BY <2>2, AnswerRequested DEF Answers
  <2> QED BY <1>3, <2>1, <2>2
<1>11. CASE iResult["driver"]
  <2>1. /\ pc'["driver"] = "send" /\ y \in Pdus /\ added'["driver"] = Append(d, y)
    <3>1. Answers(h)
      BY <1>2, <1>4, <1>11, DriverAnswers
    <3> QED BY <1>1, <1>3, <1>4, <1>11, <3>1 DEF x
  <2>2. y.type = h.type
    BY DEF Pdu
  <2>3. /\ Len(t) + 1 <= Len(s) /\ x.type = s[Len(t) + 1].type /\ x.type = y.type
        /\ handled'["driver"] = Append(t, x) /\ x \in Pdus
        /\ s \in Seq(Pdus) /\ t \in Seq(Pdus) /\ c \in Seq(Pdus) /\ d \in Seq(Pdus)
        /\ Len(t) \in Nat /\ Len(c) \in Nat
    BY <1>1, <1>2, <1>4, <1>11, <2>2 DEF Holds
  <2>4. /\ Follows(t, s) /\ Follows(c, t)
        /\ reset = "none" /\ pc["client"] # "closed" => Follows(d, t) /\ Len(d) = Len(t)
    BY <1>1 DEF Answered
  <2>5. handled' \in [Sides -> Seq(Pdus)]
    <3>1. Append(t, x) \in Seq(Pdus)
      BY <2>3, AppendAt
    <3>2. handled' = [handled EXCEPT !["driver"] = Append(t, x)]
      <4>1. handled' = [handled EXCEPT !["driver"] = handled'["driver"]]
        BY <1>1, <1>3 DEF Handle
      <4> QED BY <2>3, <4>1
    <3> QED BY <1>1, <3>1, <3>2
  <2> DEFINE u == Append(t, x)
  <2>6. Follows(u, s) /\ Follows(c, u) /\ Len(u) = Len(t) + 1 /\ \A i \in 1 .. Len(t) : u[i] = t[i]
    <3> HIDE DEF s, t, c
    <3>1. Follows(u, s)
      BY <2>3, <2>4, FollowsAppend
    <3>2. Follows(c, u)
      BY <2>3, <2>4, FollowsGrows
    <3>3. Len(u) = Len(t) + 1 /\ \A i \in 1 .. Len(t) : u[i] = t[i]
      BY <2>3, AppendAt
    <3> QED BY <3>1, <3>2, <3>3
  <2>7. reset = "none" /\ pc["client"] # "closed" =>
          Follows(Append(d, y), u) /\ Len(Append(d, y)) = Len(u)
    <3> HIDE DEF d, t, y
    <3> QED BY <2>1, <2>3, <2>4, FollowsBoth
  <2>8. Answered'
    <3>1. /\ Follows(handled'["driver"], added'["client"])
          /\ Follows(handled'["client"], handled'["driver"])
          /\ reset' = "none" /\ pc'["client"] # "closed" =>
               /\ Follows(added'["driver"], handled'["driver"])
               /\ Len(added'["driver"]) = Len(handled'["driver"])
      <4> HIDE DEF d, t, y, s, c, u
      <4>1. handled'["driver"] = u /\ added'["client"] = s /\ handled'["client"] = c
            /\ added'["driver"] = Append(d, y)
        BY <1>2, <1>4, <2>1, <2>3 DEF u, s
      <4> QED BY <1>2, <2>6, <2>7, <4>1
    <3> QED BY <3>1 DEF Answered, Follows
  <2>9. Stays'
    BY <1>1, <1>2, <2>1 DEF Stays, Peer
  <2>10. Holds'
    <3>1. ASSUME pc["client"] = "body", iResult["client"]
          PROVE  Len(c) + 1 <= Len(u) /\ header["client"].type = u[Len(c) + 1].type
      <4>1. Len(c) + 1 <= Len(t) /\ header["client"].type = t[Len(c) + 1].type
        BY <1>1, <3>1 DEF Holds
      <4> HIDE DEF u, c, t
      <4>2. Len(c) + 1 \in 1 .. Len(t) /\ Len(c) + 1 <= Len(u)
        BY <2>3, <2>6, <4>1
      <4> QED BY <2>6, <4>1, <4>2
    <3>2. handled'["client"] = c /\ handled'["driver"] = u
      BY <1>4, <2>3
    <3> HIDE DEF u, c
    <3> QED BY <1>2, <2>1, <3>1, <3>2 DEF Holds
  <2> QED BY <1>7, <1>9, <1>10, <2>5, <2>8, <2>9, <2>10 DEF Talks
<1>12. CASE ~ iResult["driver"]
  <2>1. handled' = handled
    BY <1>4, <1>12
  <2>2. reset # "none" \/ pc["client"] = "closed"
    BY <1>1, <1>2, <1>12 DEF Stays
  <2>3. Stays'
    BY <1>1, <1>2, <1>6, <2>2 DEF Stays, Peer
  <2>4. Answered' /\ Holds'
    BY <1>1, <1>2, <1>6, <2>1, <2>2 DEF Answered, Holds, Follows
  <2> QED BY <1>1, <1>7, <1>9, <1>10, <2>1, <2>3, <2>4 DEF Talks
<1> QED BY <1>11, <1>12

LEMMA TalkSend ==
  ASSUME TalkInv, NEW e \in Sides, Send(e)
  PROVE  Talks'
<1>1. /\ StreamInv /\ PduInv /\ handled \in [Sides -> Seq(Pdus)] /\ Empty(e)
      /\ "client" \in Sides /\ "driver" \in Sides /\ Sides = {"client", "driver"}
      /\ Requested /\ Answered /\ Lockstep /\ Stays /\ Ready /\ Holds
  BY TalkParts DEF TalkInv, Talks
<1>2. Next
  BY DEF Next, ClientNext, DriverNext, Sides
<1>3. /\ UNCHANGED <<sb_recv, added, taken, handled>>
      /\ \A f \in Sides \ {e} : /\ pc'[f] = pc[f] /\ iResult'[f] = iResult[f]
                                /\ header'[f] = header[f] /\ sb_send'[f] = sb_send[f]
      /\ pc[e] = "send" /\ pc'[e] \in {"send", "recv", "closed"}
      /\ pc'[e] = "closed" => reset # "none" \/ pc[Peer(e)] = "closed"
      /\ pc'[e] = "recv" => sb_send'[e].used = 0
  BY <1>1, SendMoves
<1>4. /\ \A f \in Sides : pc[f] = "closed" => pc'[f] = "closed"
      /\ reset # "none" => reset' # "none"
  BY <1>1, <1>2, NoReturn
<1>5. \A f \in Sides : Got(f)' = Got(f)
  BY <1>3 DEF Got
<1>6. \A f \in Sides : Reads(f)'
  BY <1>2, <1>3, <1>5, ReadsSame
<1>7. Requested' /\ Answered' /\ Holds'
  BY <1>1, <1>3, <1>4 DEF Requested, Answered, Holds, Follows
<1>8. Lockstep' /\ Ready'
  BY <1>1, <1>3, <1>4 DEF Lockstep, Ready
<1>9. Stays'
  BY <1>1, <1>3, <1>4 DEF Stays, Peer
<1> QED BY <1>1, <1>3, <1>6, <1>7, <1>8, <1>9 DEF Talks

LEMMA TalkBreak ==
  ASSUME TalkInv, Break
  PROVE  Talks'
<1>1. /\ UNCHANGED <<pc, sb_send, sb_recv, header, iResult, taken, added, handled>>
      /\ reset' # "none"
  BY DEF Break, bufferVars
<1>2. Next
  BY DEF Next
<1>3. \A f \in Sides : Got(f)' = Got(f)
  BY <1>1 DEF Got
<1>4. \A f \in Sides : Reads(f)'
  BY <1>1, <1>2, <1>3, ReadsSame
<1> QED BY <1>1, <1>4 DEF TalkInv, Talks, Requested, Answered, Lockstep, Stays, Ready, Holds, Follows, Peer

\* A recv returns the next PDU, or finds that the other side is gone.
LEMMA TalkRecvFails ==
  ASSUME TalkInv, NEW e \in Sides, Recv(e), RecvFails(e)
  PROVE  Talks'
<1>1. /\ StreamInv /\ handled \in [Sides -> Seq(Pdus)] /\ Empty(e)
      /\ pc \in [Sides -> {"add", "send", "recv", "body", "closed"}]
      /\ iResult \in [Sides -> BOOLEAN]
      /\ "client" \in Sides /\ "driver" \in Sides /\ Sides = {"client", "driver"}
      /\ Requested /\ Answered /\ Lockstep /\ Stays /\ Ready /\ Holds
  BY TalkParts DEF TalkInv, Talks
<1>2. Next
  BY DEF Next, ClientNext, DriverNext, Sides
<1>3. /\ UNCHANGED <<sb_recv, sb_send, header, wire, reset, taken, added, handled>>
      /\ pc' = [pc EXCEPT ![e] = "body"] /\ iResult' = [iResult EXCEPT ![e] = FALSE]
      /\ reset # "none" \/ pc[Peer(e)] = "closed"
      /\ pc[e] = "recv"
  BY <1>1, RecvFailsMoves DEF wireVars, Recv
<1>4. /\ pc'[e] = "body" /\ ~ iResult'[e]
      /\ \A f \in Sides \ {e} : pc'[f] = pc[f] /\ iResult'[f] = iResult[f]
  BY <1>1, <1>3
<1>5. \A f \in Sides : Got(f)' = Got(f)
  BY <1>3, <1>4 DEF Got
<1>6. \A f \in Sides : Reads(f)'
  BY <1>2, <1>3, <1>5, ReadsSame
<1>7. Requested' /\ Answered' /\ Holds'
  BY <1>1, <1>3, <1>4 DEF Requested, Answered, Holds, Follows
<1>8. Lockstep' /\ Ready'
  BY <1>1, <1>3, <1>4 DEF Lockstep, Ready
<1>9. Stays'
  BY <1>1, <1>3, <1>4, Peers DEF Stays, Peer
<1> QED BY <1>1, <1>3, <1>6, <1>7, <1>8, <1>9 DEF Talks

LEMMA TalkRecvSome ==
  ASSUME TalkInv, Speaks, NEW e \in Sides, Recv(e), NEW n \in Piece(e), RecvSome(e, n)
  PROVE  Talks'
<1>1. /\ StreamInv /\ handled \in [Sides -> Seq(Pdus)] /\ Empty(e)
      /\ pc \in [Sides -> {"add", "send", "recv", "body", "closed"}]
      /\ iResult \in [Sides -> BOOLEAN] /\ taken \in [Sides -> Nat]
      /\ added \in [Sides -> Seq(Pdus)]
      /\ "client" \in Sides /\ "driver" \in Sides /\ Sides = {"client", "driver"}
      /\ Peer("client") = "driver" /\ Peer("driver") = "client"
      /\ \A f \in Sides : Len(added[f]) \in Nat /\ Len(handled[f]) \in Nat
      /\ Requested /\ Answered /\ Lockstep /\ Stays /\ Ready /\ Holds /\ Reads(e)
  BY TalkParts DEF TalkInv, Talks
<1>2. Next
  BY DEF Next, ClientNext, DriverNext, Sides
<1>3. /\ UNCHANGED <<sb_send, added, handled, reset>> /\ reset = "none" /\ pc[e] = "recv"
      /\ taken' = [taken EXCEPT ![Peer(e)] = taken[Peer(e)] + n]
  BY DEF Recv, RecvSome
<1>4. PICK k \in Nat : k = Len(handled[e])
  BY <1>1
<1>5. Got(e) = k
  BY <1>1, <1>3, <1>4 DEF Got
<1>6. Cut(Peer(e), k)
  BY <1>1, <1>3, <1>5 DEF Reads
<1>7. /\ k + 1 \in 1 .. Len(added[Peer(e)])
      /\ HasGot(e, added[Peer(e)][k + 1])'
      /\ Cut(Peer(e), k + 1)'
      /\ pc' = [pc EXCEPT ![e] = "body"] /\ iResult' = [iResult EXCEPT ![e] = TRUE]
      /\ \A f \in Sides \ {e} : sb_recv'[f] = sb_recv[f] /\ header'[f] = header[f]
      /\ sb_recv'[e].buffer[1].at = 1
  BY <1>1, <1>6, CutRecv DEF Speaks
<1>8. /\ pc'[e] = "body" /\ iResult'[e]
      /\ \A f \in Sides \ {e} : pc'[f] = pc[f] /\ iResult'[f] = iResult[f]
  BY <1>1, <1>7
<1>9. header'[e].type = added[Peer(e)][k + 1].type
  <2>1. header'[e].type = added'[Peer(e)][k + 1].type
    BY <1>7 DEF HasGot, Peer
  <2> QED BY <1>3, <2>1
<1>10. Got(e)' = k + 1 /\ \A f \in Sides \ {e} : Got(f)' = Got(f)
  BY <1>1, <1>3, <1>4, <1>8 DEF Got
<1>11. \A f \in Sides : Reads(f)'
  <2>1. Reads(e)'
    BY <1>7, <1>10 DEF Reads, Peer
  <2>2. ASSUME NEW f \in Sides \ {e} PROVE Reads(f)'
    <3>1. taken'[Peer(f)] = taken[Peer(f)]
      BY <1>1, <1>3, Peers
    <3> QED BY <1>2, <1>10, <3>1, ReadsSame
  <2> QED BY <2>1, <2>2
<1>12. Requested' /\ Answered'
  <2>1. pc["client"] # "closed" <=> pc'["client"] # "closed"
    BY <1>1, <1>3, <1>8
  <2>2. pc'["driver"] = "closed" => pc["driver"] = "closed"
    BY <1>1, <1>8
  <2>3. Requested'
    BY <1>1, <1>3, <2>1 DEF Requested, Follows
  <2>4. Answered'
    BY <1>1, <1>3, <2>1, <2>2 DEF Answered, Follows
  <2> QED BY <2>3, <2>4
<1>13. Ready' /\ Stays'
  <2>1. HeaderSize \in Nat /\ 1 # HeaderSize + 1
    BY SocketBufferAssumption DEF HeaderSize
  <2>2. Ready'
    BY <1>1, <1>3, <1>7, <1>8, <2>1 DEF Ready
  <2>3. Stays'
    BY <1>1, <1>3, <1>8 DEF Stays, Peer
  <2> QED BY <2>2, <2>3
<1>14. Lockstep'
  BY <1>1, <1>3, <1>8 DEF Lockstep
<1>15. Holds'
  <2>1. CASE e = "driver"
    <3>1. /\ Len(handled["driver"]) + 1 <= Len(added["client"])
          /\ header'["driver"].type = added["client"][Len(handled["driver"]) + 1].type
      BY <1>1, <1>4, <1>7, <1>9, <2>1
    <3>2. /\ pc'["client"] = pc["client"] /\ iResult'["client"] = iResult["client"]
          /\ header'["client"] = header["client"]
      BY <1>1, <1>7, <1>8, <2>1
    <3> QED BY <1>1, <1>3, <3>1, <3>2 DEF Holds
  <2>2. CASE e = "client"
    <3>1. /\ Follows(added["driver"], handled["driver"])
          /\ Len(added["driver"]) = Len(handled["driver"])
      BY <1>1, <1>3, <2>2 DEF Answered
    <3>2. k + 1 \in 1 .. Len(added["driver"]) /\ header'["client"].type = added["driver"][k + 1].type
      BY <1>1, <1>7, <1>9, <2>2
    <3>3. added["driver"][k + 1].type = handled["driver"][k + 1].type
      BY <3>1, <3>2 DEF Follows
    <3>4. /\ Len(handled["client"]) + 1 <= Len(handled["driver"])
          /\ header'["client"].type = handled["driver"][Len(handled["client"]) + 1].type
      BY <1>1, <1>4, <2>2, <3>1, <3>2, <3>3
    <3>5. /\ pc'["driver"] = pc["driver"] /\ iResult'["driver"] = iResult["driver"]
          /\ header'["driver"] = header["driver"]
      BY <1>1, <1>7, <1>8, <2>2
    <3> QED BY <1>1, <1>3, <3>4, <3>5 DEF Holds
  <2> QED BY <1>1, <2>1, <2>2
<1> QED BY <1>1, <1>3, <1>11, <1>12, <1>13, <1>14, <1>15 DEF Talks

LEMMA NextTalkInv == Speaks /\ TalkInv /\ [Next]_vars => TalkInv'
<1> SUFFICES ASSUME Speaks, TalkInv, [Next]_vars PROVE TalkInv'
  OBVIOUS
<1>1. WholeInv'
  BY NextWholeInv DEF TalkInv, Speaks
<1>2. CASE Next
  <2>1. \A e \in Sides : Recv(e) => Talks'
    BY TalkRecvFails, TalkRecvSome DEF Recv
  <2>2. Talks'
    BY <1>2, <2>1, TalkClientAdd, TalkClientBody, TalkDriverBody, TalkSend, TalkBreak
    DEF Next, ClientNext, DriverNext, Sides
  <2> QED BY <1>1, <2>2 DEF TalkInv
<1>3. CASE UNCHANGED vars
  <2>1. UNCHANGED <<pc, sb_send, sb_recv, header, iResult, wire, reset, added, taken, handled>>
    BY <1>3 DEF vars, bufferVars, wireVars
  <2>2. ASSUME NEW e \in Sides PROVE Reads(e)'
    <3>1. ASSUME reset' = "none", pc'[e] # "closed", NEW k \in Nat, k = Got(e)'
          PROVE  Cut(Peer(e), k)'
      <4>1. Got(e)' = Got(e)
        BY <2>1 DEF Got
      <4>2. Cut(Peer(e), k)
        BY <2>1, <3>1, <4>1 DEF TalkInv, Talks, Reads
      <4> QED BY <2>1, <4>2, Peers, CutSame
    <3> QED BY <3>1 DEF Reads, Peer
  <2>3. Talks'
    BY <2>1, <2>2 DEF TalkInv, Talks, Requested, Answered, Lockstep, Stays, Ready, Holds, Follows, Peer
  <2> QED BY <1>1, <2>3 DEF TalkInv
<1> QED BY <1>2, <1>3

-----------------------------------------------------------------------------
\* The types of what was asked, served and shown.
LEMMA TypesAppend ==
  ASSUME NEW s \in Seq(Pdus), NEW x \in Pdus
  PROVE  TypesOf(Append(s, x)) = Append(TypesOf(s), x.type)
<1> DEFINE a == Append(s, x)
           t == TypesOf(s)
           n == Len(s)
<1>1. a \in Seq(Pdus) /\ Len(a) = n + 1 /\ a[n + 1] = x /\ n \in Nat
      /\ \A i \in 1 .. n : a[i] = s[i]
  BY AppendAt
<1>2. t \in Seq(PduTypes) /\ Len(t) = n /\ \A i \in 1 .. n : t[i] = s[i].type
  <2>1. \A i \in 1 .. n : s[i] \in Pdus
    OBVIOUS
  <2>2. \A p \in Pdus : p.type \in PduTypes
    BY DEF Pdus
  <2>3. \A i \in 1 .. n : s[i].type \in PduTypes
    BY <2>1, <2>2
  <2> QED BY <2>3 DEF TypesOf
<1>3. x.type \in PduTypes
  BY DEF Pdus
<1> HIDE DEF a, t, n
<1>4. /\ TypesOf(a) \in Seq(PduTypes) /\ Len(TypesOf(a)) = n + 1
      /\ \A i \in 1 .. n + 1 : TypesOf(a)[i] = a[i].type
  <2>1. \A i \in 1 .. n + 1 : a[i] \in Pdus
    BY <1>1
  <2>2. \A i \in 1 .. n + 1 : a[i].type \in PduTypes
    BY <2>1 DEF Pdus
  <2> QED BY <1>1, <2>2 DEF TypesOf
<1>5. /\ Append(t, x.type) \in Seq(PduTypes) /\ Len(Append(t, x.type)) = n + 1
      /\ Append(t, x.type)[n + 1] = x.type /\ \A i \in 1 .. n : Append(t, x.type)[i] = t[i]
  BY <1>2, <1>3, AppendAt
<1>6. ASSUME NEW i \in 1 .. n + 1 PROVE TypesOf(a)[i] = Append(t, x.type)[i]
  <2>1. i = n + 1 \/ i \in 1 .. n
    BY <1>1
  <2> QED BY <1>1, <1>2, <1>4, <1>5, <2>1
<1>7. TypesOf(a) = Append(t, x.type)
  BY <1>4, <1>5, <1>6, SeqEqual
<1> QED BY <1>7 DEF a, t

LEMMA TypesLen ==
  ASSUME NEW s \in Seq(Pdus)
  PROVE  Len(TypesOf(s)) = Len(s) /\ \A i \in 1 .. Len(s) : TypesOf(s)[i] = s[i].type
BY DEF TypesOf

LEMMA TypesEqual ==
  ASSUME NEW s \in Seq(Pdus), NEW t \in Seq(Pdus), Follows(s, t), Len(s) = Len(t)
  PROVE  TypesOf(s) = TypesOf(t)
BY DEF TypesOf, Follows

LEMMA ConversationStarts == Init => Conversation!ConversationInit
<1>1. \A e \in Sides : TypesOf(<<>>) = <<>>
  BY DEF TypesOf
<1> QED BY <1>1 DEF Init, Conversation!ConversationInit, Sides

LEMMA ConversationGoes ==
  Speaks /\ TalkInv /\ [Next]_vars =>
    [Conversation!Ask \/ Conversation!Serve \/ Conversation!Show \/ Conversation!GoDown]_(Conversation!conversation)
<1> SUFFICES ASSUME Speaks, TalkInv, [Next]_vars
             PROVE  \/ Conversation!Ask \/ Conversation!Serve \/ Conversation!Show \/ Conversation!GoDown
                    \/ UNCHANGED Conversation!conversation
  OBVIOUS
<1>1. /\ StreamInv /\ PduInv /\ handled \in [Sides -> Seq(Pdus)] /\ added \in [Sides -> Seq(Pdus)]
      /\ "client" \in Sides /\ "driver" \in Sides /\ Sides = {"client", "driver"}
      /\ \A f \in Sides : Len(added[f]) \in Nat /\ Len(handled[f]) \in Nat
      /\ Answered /\ Lockstep /\ Holds /\ Requested
  BY TalkParts DEF TalkInv, Talks
<1> DEFINE s == added["client"]
           t == handled["driver"]
           c == handled["client"]
<1>2. ASSUME added' = added \/ added'["client"] = s, handled' = handled,
             reset # "none" => reset' # "none"
      PROVE  Conversation!GoDown \/ UNCHANGED Conversation!conversation
  <2>1. added'["client"] = s /\ handled'["driver"] = t /\ handled'["client"] = c
    BY <1>2
  <2>2. (reset = "none") = (reset' = "none") \/ (reset = "none" /\ reset' # "none")
    BY <1>2
  <2> QED BY <2>1, <2>2 DEF Conversation!GoDown, Conversation!conversation, TypesOf
<1>3. CASE ClientAdd
  <2>1. CASE added' = added
    BY <1>1, <1>2, <1>3, <2>1, ClientAdds DEF wireVars
  <2>2. CASE NextRequest \in Pdus /\ added' = [added EXCEPT !["client"] = Append(@, NextRequest)]
    <3>1. added'["client"] = Append(s, NextRequest) /\ s \in Seq(Pdus)
          /\ UNCHANGED <<reset, handled>> /\ pc["client"] = "add"
      BY <1>1, <1>3, <2>2, ClientAdds DEF wireVars, ClientAdd
    <3>2. TypesOf(added'["client"]) = Append(TypesOf(s), NextRequest.type)
          /\ NextRequest.type \in PduTypes
      BY <2>2, <3>1, TypesAppend DEF Pdus
    <3>3. reset = "none" => TypesOf(c) = TypesOf(s)
      <4>1. ASSUME reset = "none" PROVE TypesOf(c) = TypesOf(s)
        <5>1. Follows(c, t) /\ Follows(t, s) /\ Len(s) = Len(c)
          BY <1>1, <3>1, <4>1 DEF Answered, Lockstep
        <5>2. Len(c) \in Nat /\ Len(t) \in Nat /\ c \in Seq(Pdus) /\ t \in Seq(Pdus)
          BY <1>1
        <5>3. Len(t) = Len(c)
          BY <5>1, <5>2 DEF Follows
        <5>4. TypesOf(c) = TypesOf(t) /\ TypesOf(t) = TypesOf(s)
          BY <3>1, <5>1, <5>2, <5>3, TypesEqual
        <5> QED BY <5>4
      <4> QED BY <4>1
    <3>4. Conversation!Ask
      BY <3>1, <3>2, <3>3 DEF Conversation!Ask, TypesOf
    <3> QED BY <3>4
  <2> QED BY <1>1, <1>3, <2>1, <2>2, ClientAdds
<1>4. CASE ClientBody
  <2>1. PICK h \in HeaderValues("client") : Handle("client", h)
    BY <1>4 DEF ClientBody
  <2> DEFINE x == Handed("client", h)
  <2>2. /\ handled'["driver"] = t /\ added' = added /\ reset' = reset
        /\ iResult["client"] => x \in Pdus /\ x.type = header["client"].type /\ handled'["client"] = Append(c, x)
        /\ ~ iResult["client"] => handled' = handled
    BY <1>1, <1>4, <2>1, BodyHandles DEF ClientBody, wireVars
  <2> HIDE DEF x
  <2>3. CASE ~ iResult["client"]
    BY <1>2, <2>2, <2>3
  <2>4. CASE iResult["client"]
    <3>1. Len(c) + 1 <= Len(t) /\ header["client"].type = t[Len(c) + 1].type
          /\ c \in Seq(Pdus) /\ t \in Seq(Pdus) /\ Len(c) \in Nat /\ Len(t) \in Nat
      BY <1>1, <1>4, <2>4 DEF Holds, ClientBody
    <3>2. TypesOf(handled'["client"]) = Append(TypesOf(c), t[Len(c) + 1].type)
      <4>1. x \in Pdus /\ x.type = t[Len(c) + 1].type /\ handled'["client"] = Append(c, x)
        BY <2>2, <2>4, <3>1
      <4>2. TypesOf(Append(c, x)) = Append(TypesOf(c), x.type)
        BY ONLY <3>1, <4>1, TypesAppend
      <4> QED BY ONLY <4>1, <4>2
    <3>3. Len(TypesOf(c)) < Len(TypesOf(t)) /\ TypesOf(t)[Len(TypesOf(c)) + 1] = t[Len(c) + 1].type
      BY <3>1, TypesLen
    <3>4. Conversation!Show
      BY <2>2, <3>2, <3>3 DEF Conversation!Show, TypesOf
    <3> QED BY <3>4
  <2> QED BY <2>3, <2>4
<1>5. CASE DriverBody
  <2>1. PICK h \in HeaderValues("driver") : Handle("driver", h)
    BY <1>5 DEF DriverBody
  <2> DEFINE x == Handed("driver", h)
  <2>2. /\ handled'["client"] = c /\ added'["client"] = s /\ reset' = reset
        /\ iResult["driver"] => x \in Pdus /\ x.type = header["driver"].type /\ handled'["driver"] = Append(t, x)
        /\ ~ iResult["driver"] => handled' = handled
    BY <1>1, <1>5, <2>1, BodyHandles, DriverAdds DEF DriverBody, wireVars
  <2> HIDE DEF x
  <2>3. CASE ~ iResult["driver"]
    BY <1>2, <2>2, <2>3
  <2>4. CASE iResult["driver"]
    <3>1. Len(t) + 1 <= Len(s) /\ header["driver"].type = s[Len(t) + 1].type
          /\ s \in Seq(Pdus) /\ t \in Seq(Pdus) /\ Len(s) \in Nat /\ Len(t) \in Nat
      BY <1>1, <1>5, <2>4 DEF Holds, DriverBody
    <3>2. TypesOf(handled'["driver"]) = Append(TypesOf(t), s[Len(t) + 1].type)
      <4>1. x \in Pdus /\ x.type = s[Len(t) + 1].type /\ handled'["driver"] = Append(t, x)
        BY <2>2, <2>4, <3>1
      <4>2. TypesOf(Append(t, x)) = Append(TypesOf(t), x.type)
        BY ONLY <3>1, <4>1, TypesAppend
      <4> QED BY ONLY <4>1, <4>2
    <3>3. Len(TypesOf(t)) < Len(TypesOf(s)) /\ TypesOf(s)[Len(TypesOf(t)) + 1] = s[Len(t) + 1].type
      BY <3>1, TypesLen
    <3>4. Conversation!Serve
      BY <2>2, <3>2, <3>3 DEF Conversation!Serve, TypesOf
    <3> QED BY <3>4
  <2> QED BY <2>3, <2>4
<1>6. CASE Break \/ (\E e \in Sides : Send(e) \/ Recv(e)) \/ UNCHANGED vars
  <2>1. added' = added /\ handled' = handled
    BY <1>6 DEF Break, Send, Recv, vars
  <2>2. reset # "none" => reset' # "none"
    BY <1>1, <1>6, NoReturn DEF vars, wireVars
  <2> QED BY <1>2, <2>1, <2>2
<1> QED BY <1>3, <1>4, <1>5, <1>6 DEF Next, ClientNext, DriverNext, Sides

\* When recv returns a whole PDU at a time and no requested message is empty,
\* the session is a conversation, for any number of rounds and any sizes: one
\* request at a time, each served once and in order and answered with a message
\* of its type (examples/userspace_client_protobuf.cpp:43-131,
\* examples/driver-protobuf-c-tcp.cpp:60-139).
THEOREM SessionIsConversation ==
  ASSUME Speaks
  PROVE  Spec => ImplementsConversation
<1>1. TalkInv /\ [Next]_vars => TalkInv'
  BY NextTalkInv
<1>2. TalkInv /\ [Next]_vars =>
        [Conversation!Ask \/ Conversation!Serve \/ Conversation!Show \/ Conversation!GoDown]_(Conversation!conversation)
  BY ConversationGoes
<1> QED BY <1>1, <1>2, TalkInit, ConversationStarts, PTL
        DEF Spec, ImplementsConversation, Conversation!ConversationSpec
=============================================================================
