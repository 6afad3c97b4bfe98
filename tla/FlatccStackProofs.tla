------------------------- MODULE FlatccStackProofs -------------------------
(***************************************************************************)
(* Proofs about the stacks of flatcc's builder: what is open lies on them  *)
(* level above level, what lies above it is zero, and the fields of an     *)
(* open table stay where its entries say, in every state of FlatccSession, *)
(* whatever the document, the order in which its objects are built and the *)
(* first size of the stack of bytes.                                       *)
(***************************************************************************)
EXTENDS FlatccProofs

-----------------------------------------------------------------------------
(* The memory of the stack of bytes *)

LEMMA SizeValue ==
  /\ Size[0] = DsChunk
  /\ \A i \in Nat : Size[i] \in Nat /\ Size[i + 1] = 2 * Size[i]
<1> DEFINE step == [x \in Nat \X Nat |-> 2 * x[1]]
<1>1. DsChunk \in Nat
  BY StackAssumption
<1>2. step \in [Nat \X Nat -> Nat]
  OBVIOUS
<1>3. \A x, n \in Nat : step[<<x, n>>] = 2 * x
  OBVIOUS
<1> HIDE DEF step
<1>4. PICK f \in [Nat -> Nat] : f[0] = DsChunk /\ \A n \in Nat : f[n + 1] = step[<<f[n], n>>]
  <2>1. \E f \in [Nat -> Nat] : Recurs(f, DsChunk, step)
    BY <1>1, <1>2, Recursion
  <2> QED BY <2>1 DEF Recurs
<1>5. f = [n \in Nat |-> IF n = 0 THEN DsChunk ELSE 2 * f[n - 1]]
  <2>1. ASSUME NEW n \in Nat, n # 0 PROVE f[n] = 2 * f[n - 1]
    <3>1. PICK k \in Nat : k = n - 1 /\ k + 1 = n
      BY <2>1
    <3>2. f[k + 1] = 2 * f[k]
      BY <1>3, <1>4, <3>1
    <3> QED BY <3>1, <3>2
  <2> QED BY <1>4, <2>1
<1>6. Size = [n \in Nat |-> IF n = 0 THEN DsChunk ELSE 2 * Size[n - 1]]
  BY <1>5 DEF Size
<1>7. ASSUME NEW n \in Nat PROVE Size[n + 1] = 2 * Size[n]
  <2>1. n + 1 \in Nat /\ n + 1 # 0 /\ (n + 1) - 1 = n
    OBVIOUS
  <2>2. Size[n + 1] = 2 * Size[(n + 1) - 1]
    BY <1>6, <2>1
  <2> QED BY <2>1, <2>2
<1>8. Size[0] = DsChunk
  BY <1>6
<1> DEFINE S == {n \in Nat : Size[n] \in Nat}
<1>9. 0 \in S
  BY <1>1, <1>8
<1>10. ASSUME NEW n \in Nat, n \in S PROVE n + 1 \in S
  BY <1>7, <1>10
<1> HIDE DEF S
<1>11. Nat \subseteq S
  BY <1>9, <1>10, NatSetInduction
<1>12. \A n \in Nat : Size[n] \in Nat
  BY <1>11 DEF S
<1> QED BY <1>7, <1>8, <1>12

\* The doubled sizes reach any request.
LEMMA SizeGrows == \A i \in Nat : Size[i] >= i + 1
<1> DEFINE S == {n \in Nat : Size[n] >= n + 1}
<1>1. 0 \in S
  BY SizeValue, StackAssumption
<1>2. ASSUME NEW n \in Nat, n \in S PROVE n + 1 \in S
  BY <1>2, SizeValue
<1> HIDE DEF S
<1>3. Nat \subseteq S
  BY <1>1, <1>2, NatSetInduction
<1> QED BY <1>3 DEF S

\* The least of some numbers.
LEMMA LeastOf ==
  ASSUME NEW T, T \subseteq Nat, T # {}
  PROVE  \E x \in T : \A y \in T : x <= y
<1>1. PICK x \in T : \A y \in T : ~ (<<y, x>> \in Less)
  BY LessWF, WFMin
<1>2. \A y \in T : ~(y < x)
  BY <1>1 DEF Less
<1> QED BY <1>2

LEMMA DoubledSuffices ==
  ASSUME NEW request \in Nat
  PROVE  Doubled(request) \in Nat /\ Doubled(request) >= request
<1> DEFINE T == {i \in 0 .. request : Size[i] >= request}
<1>1. request \in T
  BY SizeGrows, SizeValue
<1>2. PICK m \in T : \A y \in T : m <= y
  <2> HIDE DEF T
  <2>1. T \subseteq Nat
    BY DEF T
  <2> QED BY <1>1, <2>1, LeastOf
<1>3. \A j \in 0 .. m - 1 : Size[j] < request
  <2> SUFFICES ASSUME NEW j \in 0 .. m - 1 PROVE Size[j] < request
    OBVIOUS
  <2>1. j \in 0 .. request /\ ~(m <= j) /\ j \in Nat
    OBVIOUS
  <2>2. Size[j] \in Nat
    BY <2>1, SizeValue
  <2> QED BY <1>2, <2>1, <2>2
<1>4. m \in 0 .. request /\ Size[m] >= request
  OBVIOUS
<1> HIDE DEF T
<1>5. \E i \in 0 .. request : /\ Size[i] >= request
                              /\ \A j \in 0 .. i - 1 : Size[j] < request
  BY <1>3, <1>4
<1>6. PICK c : c = CHOOSE i \in 0 .. request : /\ Size[i] >= request
                                     /\ \A j \in 0 .. i - 1 : Size[j] < request
  OBVIOUS
<1>7. c \in 0 .. request /\ Size[c] >= request
  BY <1>5, <1>6
<1>8. Doubled(request) = Size[c]
  BY <1>6 DEF Doubled
<1> QED BY <1>7, <1>8, SizeValue

\* The byte at i, where memory that is still to be allocated is zero.
Memory(mem, i) == IF i \in 1 .. Len(mem) THEN mem[i] ELSE 0

LEMMA InSeq ==
  ASSUME NEW s, IsSeq(s), NEW W, \A i \in 1 .. Len(s) : s[i] \in W
  PROVE  s \in Seq(W)
<1>1. PICK n \in Nat : n = Len(s)
  BY DEF IsSeq
<1>2. s = [i \in 1 .. n |-> s[i]]
  BY <1>1 DEF IsSeq
<1>3. \A i \in 1 .. n : s[i] \in W
  BY <1>1
<1>4. [i \in 1 .. n |-> s[i]] \in Seq(W)
  BY ONLY <1>3, n \in Nat
<1> QED BY ONLY <1>2, <1>4

LEMMA SeqIs ==
  ASSUME NEW W, NEW s \in Seq(W)
  PROVE  IsSeq(s)
  BY DEF IsSeq

LEMMA PadType ==
  ASSUME NEW n \in Int
  PROVE  /\ IsSeq(_pad(n)) /\ \A i \in DOMAIN _pad(n) : _pad(n)[i] = 0
         /\ DOMAIN _pad(n) = 1 .. n
         /\ n >= 0 => Len(_pad(n)) = n
         /\ n < 0 => Len(_pad(n)) = 0
<1>1. PICK p : p = _pad(n)
  OBVIOUS
<1>2. p = [i \in 1 .. n |-> 0]
  BY <1>1 DEF _pad
<1>3. CASE n >= 0
  <2>1. n \in Nat
    BY <1>3
  <2>2. Len(p) = n
    BY <1>2, <2>1
  <2>3. IsSeq(p)
    BY <1>2, <2>1, <2>2 DEF IsSeq
  <2> QED BY <1>1, <1>2, <1>3, <2>2, <2>3
<1>4. CASE n < 0
  <2>1. 1 .. n = {}
    BY <1>4
  <2>2. p = <<>>
    BY <1>2, <2>1
  <2>3. IsSeq(p) /\ Len(p) = 0
    BY <2>2 DEF IsSeq
  <2>4. \A i \in DOMAIN p : p[i] = 0
    BY <1>2
  <2>5. DOMAIN p = 1 .. n
    BY <1>2
  <2> QED BY <1>1, <1>4, <2>3, <2>4, <2>5
<1> QED BY <1>3, <1>4

LEMMA AllocKeepsMemory ==
  ASSUME NEW mem, IsSeq(mem), NEW request \in Nat,
         NEW new, new = default_alloc(mem, request)
  PROVE  /\ IsSeq(new) /\ Len(new) >= request /\ Len(new) >= Len(mem)
         /\ \A i \in Nat : Memory(new, i) = Memory(mem, i)
<1>1. PICK n \in Nat : n = Doubled(request) /\ n >= request
  BY DoubledSuffices
<1>2. PICK l \in Nat : l = Len(mem)
  BY DEF IsSeq
<1>3. PICK p : p = _pad(n - l)
  OBVIOUS
<1>4. new = IF request <= l /\ l \div 2 >= n THEN mem ELSE mem \o p
  BY <1>1, <1>2, <1>3 DEF default_alloc
<1>5. CASE request <= l /\ l \div 2 >= n
  BY <1>2, <1>4, <1>5
<1>6. CASE ~(request <= l /\ l \div 2 >= n)
  <2>1. n - l \in Int
    OBVIOUS
  <2>2. PICK k \in Nat : k = Len(p) /\ (n >= l => k = n - l)
    BY <1>3, <2>1, PadType
  <2>3. IsSeq(p) /\ \A i \in 1 .. k : p[i] = 0
    <3>1. IsSeq(p) /\ \A i \in DOMAIN p : p[i] = 0
      BY <1>3, <2>1, PadType
    <3>2. DOMAIN p = 1 .. k
      BY <2>2, <3>1 DEF IsSeq
    <3> QED BY <3>1, <3>2
  <2>4. PICK W : mem \in Seq(W) /\ p \in Seq(W)
    <3> DEFINE W == {mem[i] : i \in 1 .. l} \cup {0}
    <3>1. mem \in Seq(W)
      BY <1>2, InSeq
    <3>2. p \in Seq(W)
      BY <2>2, <2>3, InSeq
    <3> QED BY <3>1, <3>2
  <2>5. PICK c : c = mem \o p
    OBVIOUS
  <2>6. /\ c \in Seq(W) /\ Len(c) = l + k
        /\ \A i \in 1 .. l : c[i] = mem[i]
        /\ \A i \in 1 .. k : c[l + i] = p[i]
    BY <1>2, <2>2, <2>4, <2>5, ConcatAt
  <2>7. c = new
    BY <1>4, <1>6, <2>5
  <2>8. ASSUME NEW i \in Nat PROVE Memory(new, i) = Memory(mem, i)
    <3>1. CASE i \in 1 .. l
      BY <1>2, <2>6, <2>7, <3>1 DEF Memory
    <3>2. CASE i \in l + 1 .. l + k
      <4>1. PICK j \in 1 .. k : i = l + j
        <5>1. i - l \in 1 .. k /\ i = l + (i - l)
          BY <3>2
        <5> QED BY <5>1
      <4>2. c[i] = 0
        BY <2>3, <2>6, <4>1
      <4>3. i \in 1 .. Len(c) /\ i \notin 1 .. Len(mem)
        BY <1>2, <2>6, <3>2
      <4> QED BY <2>7, <4>2, <4>3 DEF Memory
    <3>3. CASE i \notin 1 .. l + k
      <4>1. i \notin 1 .. Len(new) /\ i \notin 1 .. Len(mem)
        BY <1>2, <2>6, <2>7, <3>3
      <4> QED BY <4>1 DEF Memory
    <3> QED BY <3>1, <3>2, <3>3
  <2>9. IsSeq(new)
    BY <2>6, <2>7, SeqIs
  <2>10. l + k >= request
    BY <1>1, <2>2
  <2> QED BY <1>2, <2>6, <2>7, <2>8, <2>9, <2>10
<1> QED BY <1>5, <1>6

-----------------------------------------------------------------------------
(* What an operation on the stack of bytes leaves as it is *)

Byte(C, i) == Memory(C.ds_mem, i)

\* The pointer to the current object and the room for it are up to date.
Aimed(C) ==
    /\ C.ds = C.ds_first /\ C.ds_first \in Nat /\ IsSeq(C.ds_mem)
    /\ C.ds_limit \in Int /\ C.ds_limit <= Len(C.ds_mem) - C.ds_first

SamePlaces(D, C) ==
    /\ Len(D.frame) = Len(C.frame)
    /\ \A l \in 1 .. Len(C.frame) : /\ D.frame[l].ds_first = C.frame[l].ds_first
                                    /\ D.frame[l].ds_offset = C.frame[l].ds_offset
SameContainers(D, C) == \A l \in 1 .. Len(C.frame) : D.frame[l].c = C.frame[l].c
SameEntries(D, C) == D.vs_mem = C.vs_mem /\ D.vs = C.vs /\ D.id_end = C.id_end

\* D is C with more memory, perhaps, for the same object.
Shaped(D, C) ==
    /\ SamePlaces(D, C) /\ SameContainers(D, C) /\ D.ds_first = C.ds_first
    /\ IsSeq(D.ds_mem) /\ Len(D.ds_mem) >= Len(C.ds_mem)
SameBytes(D, C) == \A i \in Nat : Byte(D, i) = Byte(C, i)

LEMMA ShapedTwice ==
  ASSUME NEW B0, NEW C, NEW D, IsSeq(B0.ds_mem), Shaped(C, B0), Shaped(D, C)
  PROVE  Shaped(D, B0)
<1>1. SamePlaces(D, B0) /\ SameContainers(D, B0)
  BY DEF Shaped, SamePlaces, SameContainers
<1>2. Len(D.ds_mem) \in Nat /\ Len(C.ds_mem) \in Nat /\ Len(B0.ds_mem) \in Nat
  BY DEF Shaped, IsSeq
<1> QED BY <1>1, <1>2 DEF Shaped

LEMMA ShapedSelf ==
  ASSUME NEW C, IsSeq(C.ds_mem)
  PROVE  Shaped(C, C)
<1>1. Len(C.ds_mem) \in Nat
  BY DEF IsSeq
<1> QED BY <1>1 DEF Shaped, SamePlaces, SameContainers

LEMMA RefreshShape ==
  ASSUME NEW C, NEW ks, Standing(C, ks), Len(ks) > 0, NEW limit \in Int,
         IsSeq(C.ds_mem), C.ds_first \in Nat, NEW D, D = refresh_ds(C, limit)
  PROVE  /\ Shaped(D, C) /\ SameBytes(D, C) /\ Aimed(D) /\ SameEntries(D, C)
         /\ D.ds_offset = C.ds_offset /\ D.ds_mem = C.ds_mem
<1>1. /\ IsBuilder(C) /\ IsFrames(C.frame, C.align, ks) /\ Len(ks) \in Nat
      /\ Len(C.frame) = Len(ks) /\ DOMAIN C = BuilderFields
  BY DEF Standing, IsFrames, IsBuilder
<1>2. PICK n \in 1 .. Len(ks) : n = Len(C.frame) /\ n = Len(ks)
  BY <1>1
<1>3. PICK fs, m : fs = C.frame /\ m = Len(C.ds_mem)
  OBVIOUS
<1>4. PICK g : g = [fs[n] EXCEPT !.type_limit = limit]
  OBVIOUS
<1>5. PICK gs : gs = [fs EXCEPT ![n] = g]
  OBVIOUS
<1>6. PICK x, y : x = C.ds_first /\ y = Lesser(m - x, limit)
  OBVIOUS
<1>7. D = [C EXCEPT !.ds = x, !.ds_limit = y, !.frame = gs]
  BY <1>2, <1>3, <1>4, <1>5, <1>6 DEF refresh_ds, level
<1>8. /\ D.ds = x /\ D.ds_limit = y /\ D.frame = gs /\ D.ds_mem = C.ds_mem
      /\ D.ds_first = x /\ D.ds_offset = C.ds_offset /\ D.vs_mem = C.vs_mem
      /\ D.vs = C.vs /\ D.id_end = C.id_end
  BY ONLY <1>1, <1>6, <1>7 DEF BuilderFields
<1>9. m \in Nat /\ x \in Nat
  BY <1>3, <1>6 DEF IsSeq
<1>10. y \in Int /\ y <= m - x
  BY ONLY <1>6, <1>9, limit \in Int DEF Lesser
<1>11. Aimed(D)
  BY <1>3, <1>8, <1>9, <1>10 DEF Aimed
<1>12. PICK S : fs \in Seq(S)
  BY <1>1, <1>3 DEF IsFrames
<1>13. IsFrame(fs[n], ks[n])
  BY <1>1, <1>2, <1>3 DEF IsFrames
<1>14. g.c = fs[n].c /\ g.ds_first = fs[n].ds_first /\ g.ds_offset = fs[n].ds_offset
  BY ONLY <1>4, <1>13 DEF IsFrame, FrameFields
<1>15. DOMAIN fs = 1 .. n
  <2>1. Len(fs) = n
    BY ONLY <1>2, <1>3
  <2> QED BY ONLY <1>12, <2>1
<1>16. \A l \in 1 .. n : gs[l] = IF l = n THEN g ELSE fs[l]
  BY ONLY <1>5, <1>15
<1>17. Len(gs) = n
  <2>1. DOMAIN gs = 1 .. n /\ n \in Nat /\ gs = [l \in 1 .. n |-> gs[l]]
    BY ONLY <1>2, <1>5, <1>15, <1>1
  <2> QED BY ONLY <2>1
<1>18. SamePlaces(D, C)
  BY ONLY <1>2, <1>3, <1>8, <1>14, <1>16, <1>17 DEF SamePlaces
<1>19. SameContainers(D, C)
  BY ONLY <1>2, <1>3, <1>8, <1>14, <1>16, <1>17 DEF SameContainers
<1>20. Shaped(D, C)
  BY <1>3, <1>6, <1>8, <1>9, <1>18, <1>19 DEF Shaped
<1>21. SameBytes(D, C)
  BY <1>8 DEF SameBytes, Byte
<1> QED BY <1>8, <1>11, <1>20, <1>21 DEF SameEntries

LEMMA ReserveShape ==
  ASSUME NEW C, NEW ks, Standing(C, ks), Len(ks) > 0, NEW need \in Nat, NEW limit \in Int,
         IsSeq(C.ds_mem), C.ds_first \in Nat, NEW D, D = reserve_ds(C, need, limit)
  PROVE  /\ Shaped(D, C) /\ SameBytes(D, C) /\ Aimed(D) /\ SameEntries(D, C)
         /\ D.ds_offset = C.ds_offset /\ Len(D.ds_mem) >= C.ds_first + need
<1>0. PICK request \in Nat : request = C.ds_first + need
  OBVIOUS
<1>1. PICK mem : mem = default_alloc(C.ds_mem, request) /\ request = C.ds_first + need
  BY <1>0
<1>2. PICK F : F = [C EXCEPT !.ds_mem = mem]
  OBVIOUS
<1>3. D = refresh_ds(F, limit)
  BY <1>1, <1>2 DEF reserve_ds
<1>4. DOMAIN C = BuilderFields
  BY DEF Standing, IsBuilder
<1>5. Standing(F, ks)
  BY <1>2, MoreMemory, KeptStanding DEF Standing
<1>6. /\ F.ds_mem = mem /\ F.ds_first = C.ds_first /\ F.ds_offset = C.ds_offset
      /\ F.frame = C.frame /\ F.vs_mem = C.vs_mem /\ F.vs = C.vs /\ F.id_end = C.id_end
  BY ONLY <1>2, <1>4 DEF BuilderFields
<1>7. /\ IsSeq(mem) /\ Len(mem) >= request /\ Len(mem) >= Len(C.ds_mem)
      /\ \A i \in Nat : Memory(mem, i) = Memory(C.ds_mem, i)
  BY <1>1, AllocKeepsMemory
<1>8. Shaped(F, C) /\ SameBytes(F, C) /\ SameEntries(F, C)
  BY ONLY <1>6, <1>7
     DEF Shaped, SamePlaces, SameContainers, SameBytes, Byte, SameEntries
<1>9. /\ Shaped(D, F) /\ SameBytes(D, F) /\ Aimed(D) /\ SameEntries(D, F)
      /\ D.ds_offset = F.ds_offset /\ D.ds_mem = F.ds_mem
  BY <1>3, <1>5, <1>6, <1>7, RefreshShape
<1>10. Shaped(D, C)
  BY <1>8, <1>9, ShapedTwice
<1>11. SameBytes(D, C) /\ SameEntries(D, C)
  BY <1>8, <1>9 DEF SameBytes, SameEntries
<1> QED BY <1>1, <1>6, <1>7, <1>9, <1>10, <1>11

\* D is C with this offset.
Moved(D, C, offset) ==
    /\ Shaped(D, C) /\ SameBytes(D, C) /\ SameEntries(D, C) /\ D.ds_offset = offset
    /\ D.ds_mem = C.ds_mem /\ D.ds_limit = C.ds_limit /\ D.ds = C.ds
    /\ DOMAIN D = BuilderFields

LEMMA OffsetShape ==
  ASSUME NEW C, DOMAIN C = BuilderFields, NEW offset, NEW D, D = [C EXCEPT !.ds_offset = offset],
         IsSeq(C.ds_mem)
  PROVE  Moved(D, C, offset)
<1>1. /\ D.ds_mem = C.ds_mem /\ D.ds_first = C.ds_first /\ D.ds_offset = offset
      /\ D.frame = C.frame /\ D.vs_mem = C.vs_mem /\ D.vs = C.vs /\ D.id_end = C.id_end
      /\ D.ds_limit = C.ds_limit /\ D.ds = C.ds /\ DOMAIN D = BuilderFields
  BY ONLY D = [C EXCEPT !.ds_offset = offset], DOMAIN C = BuilderFields DEF BuilderFields
<1>2. Len(C.ds_mem) \in Nat
  BY DEF IsSeq
<1> QED BY ONLY <1>1, <1>2, IsSeq(C.ds_mem)
       DEF Moved, Shaped, SamePlaces, SameContainers, SameBytes, Byte, SameEntries

LEMMA AimedKept ==
  ASSUME NEW C, NEW D, Aimed(C), D.ds = C.ds, D.ds_first = C.ds_first, D.ds_mem = C.ds_mem,
         D.ds_limit = C.ds_limit
  PROVE  Aimed(D)
  BY DEF Aimed

\* The bytes that are written, and those that are not.
Poked(D, C, at, data) ==
    /\ Shaped(D, C) /\ SameEntries(D, C) /\ D.ds_offset = C.ds_offset
    /\ D.ds = C.ds /\ D.ds_limit = C.ds_limit /\ Len(D.ds_mem) = Len(C.ds_mem)
    /\ D.frame = C.frame /\ DOMAIN D = BuilderFields
    /\ \A i \in Nat : i - (C.ds + at) \notin 1 .. Len(data) => Byte(D, i) = Byte(C, i)
    /\ \A i \in 1 .. Len(data) :
          C.ds + at + i \in 1 .. Len(C.ds_mem) => Byte(D, C.ds + at + i) = data[i]

LEMMA PokeShape ==
  ASSUME NEW C, DOMAIN C = BuilderFields, IsSeq(C.ds_mem), NEW at \in Int, NEW data, IsSeq(data),
         C.ds \in Int, NEW D, D = Poke(C, at, data)
  PROVE  Poked(D, C, at, data)
<1>1. PICK n \in Nat, k \in Nat, p \in Int : n = Len(C.ds_mem) /\ k = Len(data) /\ p = C.ds + at
  BY DEF IsSeq
<1>2. DOMAIN C.ds_mem = 1 .. n /\ DOMAIN data = 1 .. k
  BY <1>1 DEF IsSeq
<1>3. PICK old : old = C.ds_mem
  OBVIOUS
<1>4. PICK mem : mem = [i \in 1 .. n |-> IF i - p \in 1 .. k THEN data[i - p] ELSE old[i]]
  OBVIOUS
<1>5. D = [C EXCEPT !.ds_mem = mem]
  BY <1>1, <1>2, <1>3, <1>4 DEF Poke
<1>6. /\ D.ds_mem = mem /\ D.ds_first = C.ds_first /\ D.ds_offset = C.ds_offset
      /\ D.frame = C.frame /\ D.vs_mem = C.vs_mem /\ D.vs = C.vs /\ D.id_end = C.id_end
      /\ D.ds_limit = C.ds_limit /\ D.ds = C.ds /\ DOMAIN D = BuilderFields
  BY ONLY <1>5, DOMAIN C = BuilderFields DEF BuilderFields
<1>7. IsSeq(mem) /\ Len(mem) = n
  <2>1. Len(mem) = n
    BY ONLY <1>4, n \in Nat
  <2> QED BY ONLY <1>4, <2>1, n \in Nat DEF IsSeq
<1>8. Shaped(D, C) /\ SameEntries(D, C)
  BY ONLY <1>1, <1>6, <1>7 DEF Shaped, SamePlaces, SameContainers, SameEntries
<1>9. ASSUME NEW i \in Nat, i - p \notin 1 .. k PROVE Memory(mem, i) = Memory(old, i)
  <2>1. CASE i \in 1 .. n
    BY ONLY <1>1, <1>3, <1>4, <1>7, <1>9, <2>1 DEF Memory
  <2>2. CASE i \notin 1 .. n
    BY ONLY <1>1, <1>3, <1>7, <2>2 DEF Memory
  <2> QED BY <2>1, <2>2
<1>10. ASSUME NEW i \in 1 .. k, p + i \in 1 .. n PROVE Memory(mem, p + i) = data[i]
  <2>1. PICK j \in 1 .. n : j = p + i /\ j - p = i
    BY <1>10
  <2>2. mem[j] = data[i]
    BY ONLY <1>4, <2>1, i \in 1 .. k
  <2> QED BY ONLY <1>7, <2>1, <2>2 DEF Memory
<1> QED BY ONLY <1>1, <1>3, <1>6, <1>7, <1>8, <1>9, <1>10 DEF Byte, Poked

-----------------------------------------------------------------------------
(* Steps on the current object *)

\* The current object has its bytes, and above them memory is zero.
Tidy(C) ==
    /\ Aimed(C) /\ C.ds_offset \in Nat
    /\ C.ds_offset > 0 => C.ds_first + C.ds_offset <= Len(C.ds_mem)
    /\ \A i \in Nat : i > C.ds_first + C.ds_offset => Byte(C, i) = 0
SameBelow(D, C, low) == \A i \in Nat : i <= C.ds_first + low => Byte(D, i) = Byte(C, i)

LEMMA PushTidy ==
  ASSUME NEW C, NEW ks, Standing(C, ks), Len(ks) > 0, Tidy(C), NEW size \in Nat,
         NEW D, D = push_ds(C, size)
  PROVE  /\ Tidy(D) /\ Shaped(D, C) /\ SameBytes(D, C) /\ SameEntries(D, C)
         /\ D.ds_offset = C.ds_offset + size
<1>1. PICK offset \in Nat : offset = C.ds_offset + size
  BY DEF Tidy
<1>2. PICK F : F = [C EXCEPT !.ds_offset = offset]
  OBVIOUS
<1>3. D = IF offset >= C.ds_limit THEN reserve_ds(F, offset + 1, data_limit) ELSE F
  BY <1>1, <1>2 DEF push_ds
<1>4. DOMAIN C = BuilderFields /\ IsSeq(C.ds_mem) /\ C.ds_first \in Nat /\ Aimed(C)
      /\ C.ds_limit \in Int /\ C.ds_offset \in Nat
  BY DEF Standing, IsBuilder, Tidy, Aimed
<1>5. /\ Shaped(F, C) /\ SameBytes(F, C) /\ SameEntries(F, C) /\ F.ds_offset = offset
      /\ F.ds_mem = C.ds_mem /\ F.ds_limit = C.ds_limit /\ F.ds = C.ds
  <2>1. Moved(F, C, offset)
    BY <1>2, <1>4, OffsetShape
  <2> QED BY <2>1 DEF Moved
<1>6. Standing(F, ks)
  BY <1>1, <1>2, SetOffset DEF Stacked
<1>7. F.ds_first = C.ds_first
  BY <1>5 DEF Shaped
<1>8. CASE offset >= C.ds_limit
  <2>1. offset + 1 \in Nat /\ data_limit \in Int
    BY LimitTypes
  <2>2. D = reserve_ds(F, offset + 1, data_limit)
    BY <1>3, <1>8
  <2>3. /\ Shaped(D, F) /\ SameBytes(D, F) /\ Aimed(D) /\ SameEntries(D, F)
        /\ D.ds_offset = offset /\ Len(D.ds_mem) >= F.ds_first + (offset + 1)
    BY <1>4, <1>5, <1>6, <1>7, <2>1, <2>2, ReserveShape
  <2>4. Shaped(D, C) /\ SameBytes(D, C) /\ SameEntries(D, C)
    BY <1>4, <1>5, <2>3, ShapedTwice DEF SameBytes, SameEntries
  <2>5. Tidy(D)
    <3>1. /\ D.ds_first = C.ds_first /\ D.ds_offset = offset
          /\ \A i \in Nat : Byte(D, i) = Byte(C, i)
      BY <1>5, <2>3, <2>4 DEF Shaped, SameBytes
    <3>2. \A i \in Nat : i > C.ds_first + C.ds_offset => Byte(C, i) = 0
      BY DEF Tidy
    <3>3. PICK m \in Nat : m = Len(D.ds_mem)
      BY <2>3 DEF Shaped, IsSeq
    <3>4. m >= C.ds_first + (offset + 1)
      BY <1>7, <2>3, <3>3
    <3>5. C.ds_first + offset <= m
      BY ONLY <1>4, <3>3, <3>4, m \in Nat, offset \in Nat
    <3>6. \A i \in Nat : i > C.ds_first + offset => Byte(C, i) = 0
      BY ONLY <1>1, <1>4, <3>2, offset \in Nat, size \in Nat
    <3> QED BY ONLY <2>3, <3>1, <3>3, <3>5, <3>6, offset \in Nat DEF Tidy
  <2> QED BY <1>1, <2>3, <2>4, <2>5
<1>9. CASE ~(offset >= C.ds_limit)
  <2>1. D = F
    BY <1>3, <1>9
  <2>2. PICK m \in Nat : m = Len(C.ds_mem)
    BY <1>4 DEF IsSeq
  <2>3. C.ds_first + offset <= m
    BY <1>4, <1>9, <2>2 DEF Aimed
  <2>4. \A i \in Nat : i > C.ds_first + C.ds_offset => Byte(C, i) = 0
    BY DEF Tidy
  <2>5. \A i \in Nat : i > C.ds_first + offset => Byte(C, i) = 0
    BY ONLY <1>1, <1>4, <2>4, offset \in Nat, size \in Nat
  <2>6. Aimed(F)
    BY <1>4, <1>5, <1>7, AimedKept
  <2>7. \A i \in Nat : Byte(F, i) = Byte(C, i)
    BY <1>5 DEF SameBytes
  <2>8. Tidy(F)
    BY ONLY <1>5, <1>7, <2>2, <2>3, <2>5, <2>6, <2>7, offset \in Nat DEF Tidy
  <2> QED BY <1>1, <1>5, <2>1, <2>8
<1> QED BY <1>8, <1>9

\* Bytes written within the current object.
LEMMA PokeTidy ==
  ASSUME NEW C, DOMAIN C = BuilderFields, Tidy(C), NEW at \in Nat, NEW data, IsSeq(data),
         at + Len(data) <= C.ds_offset, NEW D, D = Poke(C, at, data)
  PROVE  /\ Tidy(D) /\ Shaped(D, C) /\ SameEntries(D, C) /\ D.ds_offset = C.ds_offset
         /\ SameBelow(D, C, at)
         /\ \A i \in 1 .. Len(data) : Byte(D, C.ds_first + at + i) = data[i]
<1>1. PICK first \in Nat, off \in Nat, k \in Nat, m \in Nat :
         first = C.ds_first /\ off = C.ds_offset /\ k = Len(data) /\ m = Len(C.ds_mem)
  BY DEF Tidy, Aimed, IsSeq
<1>2. /\ C.ds = first /\ IsSeq(C.ds_mem) /\ (off > 0 => first + off <= m) /\ at + k <= off
      /\ \A i \in Nat : i > first + off => Byte(C, i) = 0
  BY <1>1 DEF Tidy, Aimed
<1>3. C.ds \in Int /\ at \in Int
  BY <1>1, <1>2
<1>4. /\ Shaped(D, C) /\ SameEntries(D, C) /\ D.ds_offset = off
      /\ D.ds = first /\ D.ds_limit = C.ds_limit /\ Len(D.ds_mem) = m
      /\ \A i \in Nat : i - (first + at) \notin 1 .. k => Byte(D, i) = Byte(C, i)
      /\ \A i \in 1 .. k : first + at + i \in 1 .. m => Byte(D, first + at + i) = data[i]
  <2>1. Poked(D, C, at, data)
    BY <1>2, <1>3, PokeShape
  <2> QED BY ONLY <1>1, <1>2, <2>1 DEF Poked
<1>5. D.ds_first = first /\ IsSeq(D.ds_mem)
  BY <1>1, <1>4 DEF Shaped
<1>6. \A i \in Nat : i > first + off => Byte(D, i) = 0
  BY ONLY <1>2, <1>4, at \in Nat, first \in Nat, off \in Nat, k \in Nat
<1>7. \A i \in Nat : i <= first + at => Byte(D, i) = Byte(C, i)
  BY ONLY <1>4, at \in Nat, first \in Nat, k \in Nat
<1>8. \A i \in 1 .. k : first + at + i \in 1 .. m
  BY ONLY <1>2, at \in Nat, first \in Nat, off \in Nat, k \in Nat, m \in Nat
<1>9. C.ds_limit \in Int /\ C.ds_limit <= m - first
  BY <1>1 DEF Tidy, Aimed
<1>10. Aimed(D)
  BY ONLY <1>4, <1>5, <1>9, first \in Nat DEF Aimed
<1>11. Tidy(D)
  BY ONLY <1>2, <1>4, <1>5, <1>6, <1>10, off \in Nat DEF Tidy
<1>12. SameBelow(D, C, at)
  BY ONLY <1>1, <1>7 DEF SameBelow
<1> QED BY ONLY <1>1, <1>4, <1>8, <1>11, <1>12

LEMMA SameBytesBelow ==
  ASSUME NEW C, NEW D, SameBytes(D, C), NEW low
  PROVE  SameBelow(D, C, low)
  BY DEF SameBytes, SameBelow

LEMMA BelowTwice ==
  ASSUME NEW B0, NEW C, NEW D, NEW low, SameBelow(C, B0, low), SameBelow(D, C, low),
         C.ds_first = B0.ds_first
  PROVE  SameBelow(D, B0, low)
  BY DEF SameBelow

LEMMA BelowLess ==
  ASSUME NEW C, NEW D, NEW low \in Int, NEW high \in Int, low <= high, SameBelow(D, C, high),
         C.ds_first \in Nat
  PROVE  SameBelow(D, C, low)
  BY DEF SameBelow

LEMMA EntriesTwice ==
  ASSUME NEW B0, NEW C, NEW D, SameEntries(C, B0), SameEntries(D, C)
  PROVE  SameEntries(D, B0)
  BY DEF SameEntries

LEMMA PushCopyTidy ==
  ASSUME NEW C, NEW ks, Standing(C, ks), Len(ks) > 0, Tidy(C), NEW data, IsSeq(data),
         NEW D, D = push_ds_copy(C, data)
  PROVE  /\ Tidy(D) /\ Shaped(D, C) /\ SameEntries(D, C)
         /\ D.ds_offset = C.ds_offset + Len(data) /\ SameBelow(D, C, C.ds_offset)
<1>1. PICK k \in Nat, off \in Nat : k = Len(data) /\ off = C.ds_offset
  BY DEF IsSeq, Tidy
<1>2. PICK F : F = push_ds(C, k)
  OBVIOUS
<1>3. /\ Tidy(F) /\ Shaped(F, C) /\ SameBytes(F, C) /\ SameEntries(F, C)
      /\ F.ds_offset = off + k
  BY <1>1, <1>2, PushTidy
<1>4. Standing(F, ks)
  BY <1>1, <1>2, PushStands DEF Stacked
<1>5. DOMAIN F = BuilderFields
  BY <1>4 DEF Standing, IsBuilder
<1>6. D = Poke(F, off, data)
  BY <1>1, <1>2 DEF push_ds_copy
<1>7. off + Len(data) <= F.ds_offset
  BY <1>1, <1>3
<1>8. /\ Tidy(D) /\ Shaped(D, F) /\ SameEntries(D, F) /\ D.ds_offset = F.ds_offset
      /\ SameBelow(D, F, off)
  BY ONLY <1>1, <1>3, <1>5, <1>6, <1>7, IsSeq(data), PokeTidy
<1>9. F.ds_first = C.ds_first /\ IsSeq(C.ds_mem)
  BY <1>3 DEF Shaped, Tidy, Aimed
<1>10. SameBelow(D, C, off)
  BY <1>3, <1>8, <1>9, SameBytesBelow, BelowTwice
<1> QED BY <1>1, <1>3, <1>8, <1>9, <1>10, ShapedTwice, EntriesTwice

LEMMA UnpushTidy ==
  ASSUME NEW C, NEW ks, Standing(C, ks), Tidy(C), NEW size \in Nat, size <= C.ds_offset,
         NEW D, D = unpush_ds(C, size)
  PROVE  /\ Tidy(D) /\ Shaped(D, C) /\ SameEntries(D, C) /\ D.ds_offset = C.ds_offset - size
         /\ SameBelow(D, C, C.ds_offset - size)
<1>1. PICK off \in Nat, less \in Nat, first \in Nat, m \in Nat :
         /\ off = C.ds_offset /\ less + size = off /\ first = C.ds_first /\ m = Len(C.ds_mem)
  <2>1. C.ds_offset - size \in Nat /\ (C.ds_offset - size) + size = C.ds_offset
    BY DEF Tidy
  <2> QED BY <2>1 DEF Tidy, Aimed, IsSeq
<1>2. PICK F, p : F = [C EXCEPT !.ds_offset = less] /\ p = _pad(size)
  OBVIOUS
<1>3. D = Poke(F, less, p)
  BY ONLY <1>1, <1>2, D = unpush_ds(C, size), less = C.ds_offset - size DEF unpush_ds
<1>4. /\ DOMAIN C = BuilderFields /\ IsSeq(C.ds_mem) /\ Aimed(C) /\ C.ds = first
      /\ (off > 0 => first + off <= m) /\ C.ds_limit \in Int /\ C.ds_limit <= m - first
      /\ \A i \in Nat : i > first + off => Byte(C, i) = 0
  BY <1>1 DEF Standing, IsBuilder, Tidy, Aimed
<1>5. /\ Shaped(F, C) /\ SameBytes(F, C) /\ SameEntries(F, C) /\ F.ds_offset = less
      /\ F.ds_mem = C.ds_mem /\ F.ds_limit = C.ds_limit /\ F.ds = C.ds
      /\ DOMAIN F = BuilderFields
  <2>1. Moved(F, C, less)
    BY <1>2, <1>4, OffsetShape
  <2> QED BY <2>1 DEF Moved
<1>6. IsSeq(p) /\ Len(p) = size /\ \A i \in 1 .. size : p[i] = 0
  BY <1>2, PadType
<1>7. F.ds = first /\ IsSeq(F.ds_mem) /\ F.ds \in Int /\ less \in Int
  BY <1>4, <1>5
<1>8. /\ Shaped(D, F) /\ SameEntries(D, F) /\ D.ds_offset = less
      /\ D.ds = first /\ D.ds_limit = C.ds_limit /\ Len(D.ds_mem) = m
      /\ \A i \in Nat : i - (first + less) \notin 1 .. size => Byte(D, i) = Byte(F, i)
      /\ \A i \in 1 .. size : first + less + i \in 1 .. m => Byte(D, first + less + i) = p[i]
  <2>1. Poked(D, F, less, p)
    BY <1>3, <1>5, <1>6, <1>7, PokeShape
  <2> QED BY ONLY <1>1, <1>5, <1>6, <1>7, <2>1 DEF Poked
<1>9. /\ \A i \in Nat : i - (first + less) \notin 1 .. size => Byte(D, i) = Byte(C, i)
      /\ \A i \in 1 .. size : first + less + i \in 1 .. m => Byte(D, first + less + i) = 0
  BY ONLY <1>5, <1>6, <1>8 DEF SameBytes
<1>10. ASSUME NEW i \in Nat, i > first + less PROVE Byte(D, i) = 0
  <2>1. CASE i > first + off
    <3>1. i - (first + less) \notin 1 .. size
      BY ONLY <1>1, <2>1, less \in Nat, first \in Nat, off \in Nat, size \in Nat, i \in Nat
    <3> QED BY ONLY <1>4, <1>9, <2>1, <3>1, i \in Nat
  <2>2. CASE ~(i > first + off)
    <3>1. PICK j \in Nat : i = first + less + j
      <4>1. i - (first + less) \in Nat
        BY ONLY <1>10, less \in Nat, first \in Nat, i \in Nat
      <4> QED BY <4>1
    <3>3. j \in 1 .. size
      BY ONLY <1>1, <1>10, <2>2, <3>1, less \in Nat, first \in Nat, off \in Nat, size \in Nat,
              i \in Nat, j \in Nat
    <3>4. off > 0 => first + off <= m
      BY ONLY <1>4
    <3>5. off >= 1
      BY ONLY <1>1, <3>3, less \in Nat, off \in Nat, size \in Nat, j \in Nat
    <3>2. i \in 1 .. m
      BY ONLY <1>10, <2>2, <3>4, <3>5, less \in Nat, first \in Nat, off \in Nat, i \in Nat,
              m \in Nat
    <3> QED BY ONLY <1>9, <3>1, <3>2, <3>3
  <2> QED BY <2>1, <2>2
<1>11. D.ds_first = first /\ IsSeq(D.ds_mem)
  BY <1>1, <1>5, <1>8 DEF Shaped
<1>12. Aimed(D)
  BY ONLY <1>4, <1>8, <1>11, first \in Nat DEF Aimed
<1>13. less > 0 => first + less <= m
  BY ONLY <1>1, <1>4, less \in Nat, first \in Nat, off \in Nat, size \in Nat, m \in Nat
<1>14. Tidy(D)
  BY ONLY <1>8, <1>10, <1>11, <1>12, <1>13, less \in Nat DEF Tidy
<1>15. \A i \in Nat : i <= first + less => Byte(D, i) = Byte(C, i)
  BY ONLY <1>9, less \in Nat, first \in Nat, size \in Nat
<1>16. SameBelow(D, C, less)
  BY ONLY <1>1, <1>15 DEF SameBelow
<1>17. Shaped(D, C) /\ SameEntries(D, C)
  BY <1>4, <1>5, <1>8, ShapedTwice, EntriesTwice
<1> QED BY <1>1, <1>8, <1>14, <1>16, <1>17

\* D is C with more bytes of the current object.
Grown(D, C) ==
    /\ Tidy(D) /\ Shaped(D, C) /\ SameBelow(D, C, C.ds_offset)
    /\ D.ds_offset >= C.ds_offset

LEMMA GrownTwice ==
  ASSUME NEW B0, NEW C, NEW D, Tidy(B0), Grown(C, B0), Grown(D, C)
  PROVE  Grown(D, B0)
<1>1. /\ B0.ds_offset \in Nat /\ C.ds_offset \in Nat /\ D.ds_offset \in Nat
      /\ C.ds_offset >= B0.ds_offset /\ D.ds_offset >= C.ds_offset
      /\ IsSeq(B0.ds_mem) /\ C.ds_first \in Nat
  BY DEF Grown, Tidy, Aimed
<1>2. C.ds_first = B0.ds_first
  BY DEF Grown, Shaped
<1>3. D.ds_offset >= B0.ds_offset
  BY <1>1
<1>4. SameBelow(D, C, B0.ds_offset)
  BY <1>1, BelowLess DEF Grown
<1>5. SameBelow(D, B0, B0.ds_offset)
  BY <1>2, <1>4, BelowTwice DEF Grown
<1>6. Shaped(D, B0)
  BY <1>1, ShapedTwice DEF Grown
<1> QED BY <1>3, <1>5, <1>6 DEF Grown

LEMMA GrownSelf ==
  ASSUME NEW C, Tidy(C)
  PROVE  Grown(C, C)
<1>1. IsSeq(C.ds_mem) /\ C.ds_offset \in Nat
  BY DEF Tidy, Aimed
<1> QED BY <1>1, ShapedSelf DEF Grown, SameBelow

\* The vtable entries are where they belong, and those above are zero.
IsEntries(C) ==
    /\ C.vs_mem = [i \in 0 .. Fields |-> C.vs_mem[i]]
    /\ C.vs \in Nat /\ C.id_end \in Nat
    /\ \A i \in 0 .. Fields : i >= C.vs + C.id_end => C.vs_mem[i] = 0

\* D is C with another entry, and with some more of the current object.
NotedAt(D, C, id, entry) ==
    /\ D.vs_mem = [C.vs_mem EXCEPT ![C.vs + id] = entry]
    /\ D.vs = C.vs /\ D.id_end = Greater(C.id_end, id + 1)
Marked(D, C) ==
    /\ D.vs = C.vs /\ D.id_end >= C.id_end
    /\ \A i \in 0 .. Fields : i < C.vs => D.vs_mem[i] = C.vs_mem[i]

LEMMA NotedEntries ==
  ASSUME NEW C, NEW D, IsEntries(C), NEW id \in Nat, NEW entry, NotedAt(D, C, id, entry)
  PROVE  IsEntries(D) /\ Marked(D, C)
<1>a. PICK v \in Nat, e \in Nat : v = C.vs /\ e = C.id_end
  BY DEF IsEntries
<1>b. PICK h \in Nat : h = Greater(e, id + 1) /\ h >= e /\ h >= id + 1
  <2>1. id + 1 \in Nat
    OBVIOUS
  <2> QED BY <2>1, GreaterType
<1>c. PICK f, g : f = C.vs_mem /\ g = D.vs_mem
  OBVIOUS
<1>1. /\ f = C.vs_mem /\ g = D.vs_mem /\ v = C.vs /\ e = C.id_end /\ h = Greater(e, id + 1)
      /\ h >= e /\ h >= id + 1
  BY <1>a, <1>b, <1>c
<1>2. /\ f = [i \in 0 .. Fields |-> f[i]] /\ g = [f EXCEPT ![v + id] = entry]
      /\ D.vs = v /\ D.id_end = h
      /\ \A i \in 0 .. Fields : i >= v + e => f[i] = 0
  BY <1>1 DEF IsEntries, NotedAt
<1>3. Fields \in Nat
  BY StackAssumption
<1>4. /\ g = [i \in 0 .. Fields |-> g[i]]
      /\ \A i \in 0 .. Fields : i # v + id => g[i] = f[i]
  BY ONLY <1>2
<1>5. \A i \in 0 .. Fields : i >= v + h => g[i] = 0
  <2> SUFFICES ASSUME NEW i \in 0 .. Fields, i >= v + h PROVE g[i] = 0
    OBVIOUS
  <2>1. i \in Int /\ h >= e /\ h >= id + 1
    BY <1>1, <1>3
  <2>2. i # v + id /\ i >= v + e
    BY ONLY <2>1, i >= v + h, v \in Nat, e \in Nat, h \in Nat, id \in Nat
  <2> QED BY ONLY <1>2, <1>4, <2>2, i \in 0 .. Fields
<1>6. \A i \in 0 .. Fields : i < v => g[i] = f[i]
  BY ONLY <1>3, <1>4, v \in Nat, id \in Nat
<1> QED BY ONLY <1>1, <1>2, <1>4, <1>5, <1>6 DEF IsEntries, Marked

LEMMA MarkedTwice ==
  ASSUME NEW B0, NEW C, NEW D, Marked(C, B0), Marked(D, C), IsEntries(B0), IsEntries(C), IsEntries(D)
  PROVE  Marked(D, B0)
<1>1. D.id_end \in Nat /\ C.id_end \in Nat /\ B0.id_end \in Nat
  BY DEF IsEntries
<1> QED BY <1>1 DEF Marked

LEMMA SameEntriesKept ==
  ASSUME NEW C, NEW D, SameEntries(D, C), IsEntries(C)
  PROVE  IsEntries(D) /\ Marked(D, C)
  BY DEF SameEntries, IsEntries, Marked

LEMMA AlignupUp ==
  ASSUME NEW x \in Nat, NEW align \in Nat \ {0}
  PROVE  alignup(x, align) \in Nat /\ alignup(x, align) >= x
<1>1. PICK y \in Nat : y = x + align - 1
  OBVIOUS
<1>2. PICK q \in Nat, r \in Nat : y = q * align + r /\ r < align /\ q = y \div align
  OBVIOUS
<1>3. PICK p \in Nat : p = q * align
  OBVIOUS
<1>4. p >= x
  BY <1>1, <1>2, <1>3
<1>5. alignup(x, align) = p
  BY <1>1, <1>2, <1>3 DEF alignup
<1> QED BY <1>4, <1>5

\* The current object ends here; its bytes are as they were.
Raised(D, C, end) ==
    /\ D.ds_offset = end /\ D.ds_mem = C.ds_mem /\ D.ds = C.ds /\ D.ds_first = C.ds_first
    /\ D.ds_limit = C.ds_limit /\ D.frame = C.frame

LEMMA RaisedGrown ==
  ASSUME NEW C, NEW D, NEW end \in Nat, Tidy(C), Raised(D, C, end), end >= C.ds_offset,
         C.ds_first + end <= Len(C.ds_mem)
  PROVE  Grown(D, C)
<1>1. PICK first \in Nat, off \in Nat : first = C.ds_first /\ off = C.ds_offset
  BY DEF Tidy, Aimed
<1>2. \A i \in Nat : Byte(D, i) = Byte(C, i)
  BY DEF Raised, Byte
<1>3. \A i \in Nat : i > first + off => Byte(C, i) = 0
  BY <1>1 DEF Tidy
<1>4. \A i \in Nat : i > first + end => Byte(D, i) = 0
  BY ONLY <1>1, <1>2, <1>3, end >= C.ds_offset, first \in Nat, off \in Nat, end \in Nat
<1>5. Aimed(D)
  BY AimedKept DEF Raised, Tidy
<1>6. Tidy(D)
  BY ONLY <1>1, <1>4, <1>5, Raised(D, C, end), C.ds_first + end <= Len(C.ds_mem), end \in Nat
     DEF Tidy, Raised
<1>7. IsSeq(C.ds_mem) /\ Len(C.ds_mem) \in Nat
  BY DEF Tidy, Aimed, IsSeq
<1>8. Shaped(D, C)
  BY ONLY <1>7, Raised(D, C, end) DEF Raised, Shaped, SamePlaces, SameContainers
<1>9. SameBelow(D, C, C.ds_offset) /\ D.ds_offset >= C.ds_offset
  BY ONLY <1>2, Raised(D, C, end), end >= C.ds_offset DEF SameBelow, Raised
<1> QED BY <1>6, <1>8, <1>9 DEF Grown

\* More room for the object, if it needs it.
LEMMA RoomGrown ==
  ASSUME NEW C, NEW ks, Standing(C, ks), Len(ks) > 0, Tidy(C), NEW need \in Nat,
         NEW D, D = reserve_ds(C, need, table_limit)
  PROVE  /\ Grown(D, C) /\ SameEntries(D, C) /\ D.ds_offset = C.ds_offset
         /\ C.ds_first + need <= Len(D.ds_mem)
<1>1. PICK first \in Nat, off \in Nat, l \in Nat :
         first = C.ds_first /\ off = C.ds_offset /\ l = Len(C.ds_mem)
  BY DEF Tidy, Aimed, IsSeq
<1>2. IsSeq(C.ds_mem) /\ C.ds_first \in Nat /\ table_limit \in Int
  BY LimitTypes DEF Tidy, Aimed
<1>3. /\ Shaped(D, C) /\ SameBytes(D, C) /\ Aimed(D) /\ SameEntries(D, C)
      /\ D.ds_offset = C.ds_offset /\ Len(D.ds_mem) >= C.ds_first + need
  BY <1>2, ReserveShape
<1>4. PICK m \in Nat : m = Len(D.ds_mem)
  BY <1>3 DEF Aimed, IsSeq
<1>5. D.ds_first = first /\ m >= l /\ D.ds_offset = off
  BY <1>1, <1>3, <1>4 DEF Shaped
<1>6. /\ \A i \in Nat : i > first + off => Byte(C, i) = 0
      /\ off > 0 => first + off <= l
  BY <1>1 DEF Tidy
<1>7. \A i \in Nat : i > first + off => Byte(D, i) = 0
  BY <1>3, <1>6 DEF SameBytes
<1>8. off > 0 => first + off <= m
  BY ONLY <1>5, <1>6, first \in Nat, off \in Nat, m \in Nat, l \in Nat
<1>9. Tidy(D)
  BY ONLY <1>3, <1>4, <1>5, <1>7, <1>8, off \in Nat DEF Tidy
<1>10. first + need <= m
  BY ONLY <1>1, <1>3, <1>4, first \in Nat, need \in Nat, m \in Nat
<1> QED BY ONLY <1>1, <1>3, <1>4, <1>5, <1>9, <1>10, off \in Nat, SameBytesBelow DEF Grown

\* D is C with room for a field of this size at offset, and with its entry.
Pushed(D, C, offset, size, id) ==
    /\ Grown(D, C) /\ offset \in Nat /\ offset >= C.ds_offset
    /\ D.ds_offset = offset + size /\ DOMAIN D = BuilderFields
    /\ NotedAt(D, C, id, voffset(offset + field_size))

LEMMA RaisedPushed ==
  ASSUME NEW C, Tidy(C), NEW F, Grown(F, C), SameEntries(F, C), NEW offset \in Nat,
         NEW size \in Nat, offset >= C.ds_offset, F.ds_offset = C.ds_offset,
         F.ds_first + (offset + size) <= Len(F.ds_mem),
         NEW D, Raised(D, F, offset + size), DOMAIN D = BuilderFields, NEW id,
         NotedAt(D, F, id, voffset(offset + field_size))
  PROVE  Pushed(D, C, offset, size, id)
<1>1. PICK end \in Nat : end = offset + size
  OBVIOUS
<1>2. Tidy(F) /\ C.ds_offset \in Nat
  BY DEF Grown, Tidy
<1>3. end >= F.ds_offset
  BY <1>1, <1>2
<1>4. Grown(D, F)
  BY <1>1, <1>2, <1>3, RaisedGrown
<1>5. Grown(D, C)
  BY <1>4, GrownTwice
<1>6. NotedAt(D, C, id, voffset(offset + field_size))
  BY DEF NotedAt, SameEntries
<1> QED BY <1>5, <1>6 DEF Pushed, Raised

LEMMA PushFieldTidy ==
  ASSUME NEW C, NEW ks, Standing(C, ks), Len(ks) > 0, Tidy(C), NEW size \in Nat,
         NEW align \in Nat \ {0}, NEW id, NEW D, D = push_ds_field(C, size, align, id)
  PROVE  Pushed(D, C, alignup(C.ds_offset, align), size, id)
<1>1. PICK off \in Nat, first \in Nat : off = C.ds_offset /\ first = C.ds_first
  BY DEF Tidy, Aimed
<1>2. PICK offset \in Nat : offset = alignup(C.ds_offset, align) /\ offset >= C.ds_offset
  BY <1>1, AlignupUp
<1>3. PICK end \in Nat : end = offset + size
  OBVIOUS
<1>4. PICK need \in Nat : need = end + 1
  OBVIOUS
<1>5. PICK F : F = IF end >= C.ds_limit THEN reserve_ds(C, need, table_limit) ELSE C
  OBVIOUS
<1>6. /\ Grown(F, C) /\ SameEntries(F, C) /\ F.ds_offset = C.ds_offset
      /\ first + end <= Len(F.ds_mem) /\ F.ds_first = first
  <2>1. CASE end >= C.ds_limit
    <3>1. /\ Grown(F, C) /\ SameEntries(F, C) /\ F.ds_offset = C.ds_offset
          /\ C.ds_first + need <= Len(F.ds_mem)
      BY <1>5, <2>1, RoomGrown
    <3>2. PICK m \in Nat : m = Len(F.ds_mem)
      BY <3>1 DEF Grown, Tidy, Aimed, IsSeq
    <3>3. first + end <= m
      BY ONLY <1>1, <1>4, <3>1, <3>2, first \in Nat, end \in Nat, need \in Nat, m \in Nat
    <3> QED BY <1>1, <3>1, <3>2, <3>3 DEF Grown, Shaped
  <2>2. CASE ~(end >= C.ds_limit)
    <3>1. F = C
      BY <1>5, <2>2
    <3>2. PICK m \in Nat, limit \in Int : m = Len(C.ds_mem) /\ limit = C.ds_limit /\ limit <= m - first
      BY <1>1 DEF Tidy, Aimed, IsSeq
    <3>3. first + end <= m
      BY ONLY <2>2, <3>2, first \in Nat, end \in Nat, m \in Nat, limit \in Int
    <3> QED BY <1>1, <3>1, <3>2, <3>3, GrownSelf DEF SameEntries
  <2> QED BY <2>1, <2>2
<1>7. DOMAIN F = BuilderFields
  <2>1. Standing(reserve_ds(C, need, table_limit), ks)
    BY ReserveStands, LimitTypes DEF Stacked
  <2> QED BY <1>5, <2>1 DEF Standing, IsBuilder
<1>8. PICK G : G = [F EXCEPT !.ds_offset = end]
  OBVIOUS
<1>9. D = NoteField(G, id, offset)
  BY <1>2, <1>3, <1>4, <1>5, <1>8 DEF push_ds_field
<1>10. /\ DOMAIN G = BuilderFields /\ Raised(G, F, end)
       /\ G.vs_mem = F.vs_mem /\ G.vs = F.vs /\ G.id_end = F.id_end
  BY ONLY <1>7, <1>8 DEF BuilderFields, Raised
<1>11. PICK v, h : v = [G.vs_mem EXCEPT ![G.vs + id] = voffset(offset + field_size)]
                   /\ h = Greater(G.id_end, id + 1)
  OBVIOUS
<1>12. D = [G EXCEPT !.vs_mem = v, !.id_end = h]
  BY <1>9, <1>11 DEF NoteField
<1>13. /\ DOMAIN D = BuilderFields /\ Raised(D, G, G.ds_offset)
       /\ D.vs_mem = v /\ D.vs = G.vs /\ D.id_end = h
  BY ONLY <1>10, <1>12 DEF BuilderFields, Raised
<1>14. Raised(D, F, end)
  BY ONLY <1>10, <1>13 DEF Raised
<1>15. NotedAt(D, F, id, voffset(offset + field_size))
  BY ONLY <1>10, <1>11, <1>13 DEF NotedAt
<1>16. Pushed(D, C, offset, size, id)
  BY <1>2, <1>3, <1>6, <1>13, <1>14, <1>15, RaisedPushed
<1> QED BY <1>2, <1>16

LEMMA FieldSizeType == field_size \in Nat \ {0} /\ field_size = 4
  BY DEF field_size

LEMMA PushOffsetFieldTidy ==
  ASSUME NEW C, NEW ks, Standing(C, ks), Len(ks) > 0, Tidy(C), NEW id,
         NEW D, D = push_ds_offset_field(C, id)
  PROVE  Pushed(D, C, alignup(C.ds_offset, field_size), field_size, id)
<1>1. PICK off \in Nat, first \in Nat : off = C.ds_offset /\ first = C.ds_first
  BY DEF Tidy, Aimed
<1>2. PICK offset \in Nat : offset = alignup(C.ds_offset, field_size) /\ offset >= C.ds_offset
  BY <1>1, FieldSizeType, AlignupUp
<1>3. PICK end \in Nat : end = offset + field_size
  BY FieldSizeType
<1>5. PICK F : F = IF end > C.ds_limit THEN reserve_ds(C, end, table_limit) ELSE C
  OBVIOUS
<1>6. /\ Grown(F, C) /\ SameEntries(F, C) /\ F.ds_offset = C.ds_offset
      /\ first + end <= Len(F.ds_mem) /\ F.ds_first = first
  <2>1. CASE end > C.ds_limit
    <3>1. /\ Grown(F, C) /\ SameEntries(F, C) /\ F.ds_offset = C.ds_offset
          /\ C.ds_first + end <= Len(F.ds_mem)
      BY <1>5, <2>1, RoomGrown
    <3> QED BY <1>1, <3>1 DEF Grown, Shaped
  <2>2. CASE ~(end > C.ds_limit)
    <3>1. F = C
      BY <1>5, <2>2
    <3>2. PICK m \in Nat, limit \in Int : m = Len(C.ds_mem) /\ limit = C.ds_limit /\ limit <= m - first
      BY <1>1 DEF Tidy, Aimed, IsSeq
    <3>3. first + end <= m
      BY ONLY <2>2, <3>2, first \in Nat, end \in Nat, m \in Nat, limit \in Int
    <3> QED BY <1>1, <3>1, <3>2, <3>3, GrownSelf DEF SameEntries
  <2> QED BY <2>1, <2>2
<1>7. DOMAIN F = BuilderFields
  <2>1. Standing(reserve_ds(C, end, table_limit), ks)
    BY ReserveStands, LimitTypes DEF Stacked
  <2> QED BY <1>5, <2>1 DEF Standing, IsBuilder
<1>8. PICK G : G = NoteField(F, id, offset)
  OBVIOUS
<1>9. PICK v, h : v = [F.vs_mem EXCEPT ![F.vs + id] = voffset(offset + field_size)]
                   /\ h = Greater(F.id_end, id + 1)
  OBVIOUS
<1>10. G = [F EXCEPT !.vs_mem = v, !.id_end = h]
  BY <1>8, <1>9 DEF NoteField
<1>11. /\ DOMAIN G = BuilderFields /\ Raised(G, F, F.ds_offset)
       /\ G.vs_mem = v /\ G.vs = F.vs /\ G.id_end = h
  BY ONLY <1>7, <1>10 DEF BuilderFields, Raised
<1>12. PICK x, y : x = [G.pl_mem EXCEPT ![C.pl] = offset] /\ y = G.pl + 1
  OBVIOUS
<1>13. D = [G EXCEPT !.ds_offset = end, !.pl_mem = x, !.pl = y]
  BY <1>2, <1>3, <1>5, <1>8, <1>12 DEF push_ds_offset_field
<1>14. /\ DOMAIN D = BuilderFields /\ Raised(D, G, end)
       /\ D.vs_mem = G.vs_mem /\ D.vs = G.vs /\ D.id_end = G.id_end
  BY ONLY <1>11, <1>13 DEF BuilderFields, Raised
<1>15. Raised(D, F, end)
  BY ONLY <1>11, <1>14 DEF Raised
<1>16. NotedAt(D, F, id, voffset(offset + field_size))
  BY ONLY <1>9, <1>11, <1>14 DEF NotedAt
<1>17. Pushed(D, C, offset, field_size, id)
  BY <1>2, <1>3, <1>6, <1>14, <1>15, <1>16, FieldSizeType, RaisedPushed
<1> QED BY <1>2, <1>17

LEMMA SameObjectGrown ==
  ASSUME NEW C, NEW D, Tidy(C), Raised(D, C, C.ds_offset)
  PROVE  Grown(D, C)
<1>1. \A i \in Nat : Byte(D, i) = Byte(C, i)
  BY DEF Raised, Byte
<1>2. Aimed(D)
  BY AimedKept DEF Raised, Tidy
<1>3. Tidy(D)
  BY ONLY <1>1, <1>2, Raised(D, C, C.ds_offset), Tidy(C) DEF Tidy, Raised
<1>4. IsSeq(C.ds_mem) /\ Len(C.ds_mem) \in Nat /\ C.ds_offset \in Nat
  BY DEF Tidy, Aimed, IsSeq
<1>5. Shaped(D, C)
  BY ONLY <1>4, Raised(D, C, C.ds_offset) DEF Raised, Shaped, SamePlaces, SameContainers
<1>6. SameBelow(D, C, C.ds_offset) /\ D.ds_offset >= C.ds_offset
  BY ONLY <1>1, <1>4, Raised(D, C, C.ds_offset) DEF SameBelow, Raised
<1> QED BY <1>3, <1>5, <1>6 DEF Grown

\* D is C with a field that has this data at offset.
Written(D, C, offset, data, id) ==
    /\ Grown(D, C) /\ offset \in Nat /\ offset >= C.ds_offset
    /\ D.ds_offset = offset + Len(data)
    /\ NotedAt(D, C, id, voffset(offset + field_size))
    /\ \A i \in 1 .. Len(data) : Byte(D, C.ds_first + offset + i) = data[i]

LEMMA PushedWritten ==
  ASSUME NEW C, Tidy(C), NEW data, IsSeq(data), NEW offset, NEW id, NEW G,
         Pushed(G, C, offset, Len(data), id), NEW D, D = Poke(G, G.ds_offset - Len(data), data)
  PROVE  Written(D, C, offset, data, id)
<1>1. PICK k \in Nat, off \in Nat : k = Len(data) /\ off = C.ds_offset
  BY DEF IsSeq, Tidy
<1>2. /\ Tidy(G) /\ DOMAIN G = BuilderFields /\ offset \in Nat /\ G.ds_offset = offset + k
      /\ offset >= off /\ Grown(G, C) /\ NotedAt(G, C, id, voffset(offset + field_size))
      /\ G.ds_first = C.ds_first
  BY <1>1 DEF Pushed, Grown, Shaped
<1>3. D = Poke(G, offset, data)
  <2>1. G.ds_offset - Len(data) = offset
    BY ONLY <1>1, <1>2, k \in Nat
  <2> QED BY <2>1
<1>4. offset + Len(data) <= G.ds_offset /\ offset \in Nat
  BY ONLY <1>1, <1>2, k \in Nat
<1>5. /\ Tidy(D) /\ Shaped(D, G) /\ SameEntries(D, G) /\ D.ds_offset = G.ds_offset
      /\ SameBelow(D, G, offset)
      /\ \A i \in 1 .. Len(data) : Byte(D, G.ds_first + offset + i) = data[i]
  BY ONLY <1>2, <1>3, <1>4, IsSeq(data), PokeTidy
<1>6. C.ds_first \in Nat /\ off \in Int /\ offset \in Int /\ IsSeq(C.ds_mem)
  BY <1>2 DEF Tidy, Aimed
<1>7. SameBelow(D, G, off)
  BY <1>2, <1>5, <1>6, BelowLess
<1>8. SameBelow(D, C, off) /\ Shaped(D, C)
  BY <1>1, <1>2, <1>5, <1>6, <1>7, BelowTwice, ShapedTwice DEF Grown
<1>9. D.ds_offset >= off /\ D.ds_offset = offset + k
  BY ONLY <1>2, <1>5, off \in Nat, k \in Nat
<1>10. Grown(D, C)
  BY ONLY <1>1, <1>5, <1>8, <1>9 DEF Grown
<1>11. NotedAt(D, C, id, voffset(offset + field_size))
  BY ONLY <1>2, <1>5 DEF NotedAt, SameEntries
<1> QED BY ONLY <1>1, <1>2, <1>5, <1>9, <1>10, <1>11 DEF Written

\* D is what a call leaves that adds a field, or fails to.
Extended(D, C) == Grown(D, C) /\ IsEntries(D) /\ Marked(D, C)

LEMMA WrittenExtended ==
  ASSUME NEW C, NEW D, NEW offset, NEW data, NEW id \in Nat, Written(D, C, offset, data, id),
         IsEntries(C)
  PROVE  Extended(D, C)
  BY NotedEntries DEF Written, Extended

LEMMA ExtendedTwice ==
  ASSUME NEW B0, NEW C, NEW D, Tidy(B0), IsEntries(B0), Extended(C, B0), Extended(D, C)
  PROVE  Extended(D, B0)
  BY GrownTwice, MarkedTwice DEF Extended

LEMMA ExtendedSelf ==
  ASSUME NEW C, Tidy(C), IsEntries(C)
  PROVE  Extended(C, C)
<1>1. C.id_end \in Nat
  BY DEF IsEntries
<1> QED BY <1>1, GrownSelf DEF Extended, Marked

LEMMA AddCopyTidy ==
  ASSUME NEW C, NEW ks, Standing(C, ks), Len(ks) > 0, Tidy(C), NEW id, NEW data, IsSeq(data),
         NEW align \in Nat \ {0}, NEW r, r = table_add_copy(C, id, data, align)
  PROVE  /\ r.ref \in {0, 1}
         /\ r.ref = 0 => Grown(r.B, C) /\ SameEntries(r.B, C)
         /\ r.ref = 1 => /\ ~ IsSet(C, id)
                         /\ Written(r.B, C, alignup(C.ds_offset, align), data, id)
<1>1. PICK F : F = [C EXCEPT !.align = Greater(@, align)]
  OBVIOUS
<1>2. Standing(F, ks)
  BY <1>1, RaiseAlignStands DEF Filled
<1>3. PICK size \in Nat : size = Len(data)
  BY DEF IsSeq
<1>4. PICK G : G = push_ds_field(F, size, align, id)
  OBVIOUS
<1>5. DOMAIN C = BuilderFields
  BY DEF Standing, IsBuilder
<1>6. PICK a : a = Greater(C.align, align)
  OBVIOUS
<1>7. F = [C EXCEPT !.align = a]
  BY <1>1, <1>6
<1>8. /\ Raised(F, C, C.ds_offset) /\ F.vs_mem = C.vs_mem /\ F.vs = C.vs
      /\ F.id_end = C.id_end
  BY ONLY <1>5, <1>7 DEF BuilderFields, Raised
<1>9. Grown(F, C) /\ SameEntries(F, C)
  BY <1>8, SameObjectGrown DEF SameEntries
<1>10. Tidy(F) /\ F.ds_offset = C.ds_offset /\ F.ds_first = C.ds_first
  BY <1>8, <1>9 DEF Grown, Raised
<1>11. Pushed(G, F, alignup(C.ds_offset, align), size, id)
  <2>1. Pushed(G, F, alignup(F.ds_offset, align), size, id)
    BY <1>2, <1>4, <1>10, PushFieldTidy
  <2> QED BY <1>10, <2>1
<1>12. PICK H : H = Poke(G, G.ds_offset - Len(data), data)
  OBVIOUS
<1>13. Written(H, F, alignup(C.ds_offset, align), data, id)
  BY <1>3, <1>10, <1>11, <1>12, PushedWritten
<1>14. Written(H, C, alignup(C.ds_offset, align), data, id)
  <2>1. Grown(H, C)
    BY <1>9, <1>13, GrownTwice DEF Written
  <2> QED BY ONLY <1>8, <1>10, <1>13, <2>1 DEF Written, NotedAt
<1>15. r = IF IsSet(C, id) THEN Result(F, 0) ELSE Result(H, 1)
  BY <1>1, <1>3, <1>4, <1>12 DEF table_add_copy
<1> QED BY ONLY <1>9, <1>14, <1>15 DEF Result

LEMMA UoffsetSeq ==
  ASSUME NEW x
  PROVE  IsSeq(write_uoffset(x)) /\ Len(write_uoffset(x)) = field_size
<1>1. PICK w : w = write_uoffset(x)
  OBVIOUS
<1>2. PICK n \in Nat : n = field_size
  BY FieldSizeType
<1>3. PICK u : u = uoffset(x)
  OBVIOUS
<1>4. w = [i \in 1 .. n |-> (u \div Radix^(i - 1)) % Radix]
  BY <1>1, <1>2, <1>3 DEF write_uoffset, write
<1>5. Len(w) = n
  BY ONLY <1>4, n \in Nat
<1>6. IsSeq(w)
  BY ONLY <1>4, <1>5, n \in Nat DEF IsSeq
<1> QED BY <1>1, <1>2, <1>5, <1>6

LEMMA AddOffsetTidy ==
  ASSUME NEW C, NEW ks, Standing(C, ks), Len(ks) > 0, Tidy(C), NEW id, NEW ref,
         NEW r, r = table_add_offset(C, id, ref)
  PROVE  /\ r.ref \in {0, 1}
         /\ r.ref = 0 => r.B = C
         /\ r.ref = 1 => /\ ~ IsSet(C, id)
                         /\ Written(r.B, C, alignup(C.ds_offset, field_size),
                                    write_uoffset(ref), id)
<1>1. PICK G : G = push_ds_offset_field(C, id)
  OBVIOUS
<1>2. PICK data : data = write_uoffset(ref)
  OBVIOUS
<1>3. IsSeq(data) /\ Len(data) = field_size
  BY <1>2, UoffsetSeq
<1>4. Pushed(G, C, alignup(C.ds_offset, field_size), Len(data), id)
  BY <1>1, <1>3, PushOffsetFieldTidy
<1>5. PICK H : H = Poke(G, G.ds_offset - field_size, data)
  OBVIOUS
<1>6. Written(H, C, alignup(C.ds_offset, field_size), data, id)
  BY <1>3, <1>4, <1>5, PushedWritten
<1>7. r = IF IsSet(C, id) THEN Result(C, 0) ELSE Result(H, 1)
  BY <1>1, <1>2, <1>5 DEF table_add_offset
<1> QED BY ONLY <1>2, <1>6, <1>7 DEF Result

\* r adds one field and then another one to C, or fails.
Twice(r, C, data, id, data2, id2) ==
    \E D : /\ ~ IsSet(C, id) /\ \E offset : Written(D, C, offset, data, id)
           /\ ~ IsSet(D, id2) /\ \E offset : Written(r.B, D, offset, data2, id2)

LEMMA AddOffsetExtends ==
  ASSUME NEW C, NEW ks, Standing(C, ks), Len(ks) > 0, Tidy(C), IsEntries(C), NEW id \in Nat,
         NEW ref, NEW r, r = table_add_offset(C, id, ref)
  PROVE  Extended(r.B, C)
  BY AddOffsetTidy, WrittenExtended, ExtendedSelf

LEMMA AddCopyExtends ==
  ASSUME NEW C, NEW ks, Standing(C, ks), Len(ks) > 0, Tidy(C), IsEntries(C), NEW id \in Nat,
         NEW data, IsSeq(data), NEW align \in Nat \ {0},
         NEW r, r = table_add_copy(C, id, data, align)
  PROVE  Extended(r.B, C)
<1>1. /\ r.ref \in {0, 1}
      /\ r.ref = 0 => Grown(r.B, C) /\ SameEntries(r.B, C)
      /\ r.ref = 1 => Written(r.B, C, alignup(C.ds_offset, align), data, id)
  BY AddCopyTidy
<1>2. r.ref = 0 => Extended(r.B, C)
  BY <1>1, SameEntriesKept DEF Extended
<1>3. r.ref = 1 => Extended(r.B, C)
  BY <1>1, WrittenExtended
<1> QED BY <1>1, <1>2, <1>3

LEMMA AddUnionTidy ==
  ASSUME NEW C, NEW ks, Standing(C, ks), Len(ks) > 0, Tidy(C), IsEntries(C),
         NEW id \in Nat \ {0}, NEW type, NEW ref, NEW r, r = table_add_union(C, id, type, ref)
  PROVE  /\ Extended(r.B, C)
         /\ r.ref # 0 /\ ref # 0 => Twice(r, C, write_uoffset(ref), id, <<type>>, id - 1)
<1>1. PICK v : v = IF ref = 0 THEN Result(C, 1) ELSE table_add_offset(C, id, ref)
  OBVIOUS
<1>2. PICK before \in Nat : before = id - 1
  OBVIOUS
<1>3. PICK data : data = <<type>>
  OBVIOUS
<1>4. PICK t, D : t = table_add_copy(v.B, before, data, utype_size) /\ D = v.B
  OBVIOUS
<1>5. r = IF (type = 0 /\ ref # 0) \/ v.ref = 0 THEN Result(v.B, 0) ELSE t
  BY <1>1, <1>2, <1>3, <1>4 DEF table_add_union
<1>6. /\ Standing(D, ks) /\ Extended(D, C)
      /\ ref # 0 /\ v.ref # 0 => /\ ~ IsSet(C, id)
                                 /\ \E offset : Written(D, C, offset, write_uoffset(ref), id)
  <2>1. CASE ref = 0
    BY <1>1, <1>4, <2>1, ExtendedSelf DEF Result
  <2>2. CASE ref # 0
    <3>1. v = table_add_offset(C, id, ref)
      BY <1>1, <2>2
    <3>2. Standing(D, ks)
      BY <1>4, <3>1, AddOffsetStands DEF Filled
    <3>3. Extended(D, C)
      BY <1>4, <3>1, AddOffsetExtends
    <3> QED BY <1>4, <3>1, <3>2, <3>3, AddOffsetTidy
  <2> QED BY <2>1, <2>2
<1>7. utype_size \in Nat \ {0} /\ IsSeq(data)
  <2>1. Len(data) = 1 /\ data = [i \in 1 .. 1 |-> data[i]]
    BY ONLY <1>3
  <2> QED BY <2>1 DEF utype_size, IsSeq
<1>8. Tidy(D) /\ IsEntries(D)
  BY <1>6 DEF Extended, Grown
<1>9. Extended(t.B, D)
  BY <1>4, <1>6, <1>7, <1>8, AddCopyExtends
<1>10. t.ref # 0 => ~ IsSet(D, before) /\ \E offset : Written(t.B, D, offset, data, before)
  <2>1. t = table_add_copy(D, before, data, utype_size)
    BY <1>4
  <2>2. /\ t.ref \in {0, 1}
        /\ t.ref = 1 => /\ ~ IsSet(D, before)
                        /\ Written(t.B, D, alignup(D.ds_offset, utype_size), data, before)
    BY ONLY <1>6, <1>7, <1>8, <2>1, Len(ks) > 0, AddCopyTidy
  <2> QED BY <2>2
<1>11. Extended(r.B, C)
  BY <1>4, <1>5, <1>6, <1>9, ExtendedTwice DEF Result
<1>12. ASSUME r.ref # 0, ref # 0 PROVE Twice(r, C, write_uoffset(ref), id, data, before)
  <2>1. r = t /\ v.ref # 0
    BY <1>5, <1>12 DEF Result
  <2> QED BY <1>6, <1>10, <1>12, <2>1 DEF Twice
<1> QED BY <1>2, <1>3, <1>11, <1>12

LEMMA AddUnionVectorTidy ==
  ASSUME NEW C, NEW ks, Standing(C, ks), Len(ks) > 0, Tidy(C), IsEntries(C),
         NEW id \in Nat \ {0}, NEW type, NEW value,
         NEW r, r = table_add_union_vector(C, id, type, value)
  PROVE  /\ Extended(r.B, C)
         /\ r.ref # 0 /\ type # 0 =>
               Twice(r, C, write_uoffset(type), id - 1, write_uoffset(value), id)
<1>1. PICK before \in Nat : before = id - 1
  OBVIOUS
<1>2. PICK t, D : t = table_add_offset(C, before, type) /\ D = t.B
  OBVIOUS
<1>3. PICK w : w = table_add_offset(D, id, value)
  OBVIOUS
<1>4. r = IF type = 0 \/ value = 0 THEN Result(C, IF type = value THEN 1 ELSE 0)
          ELSE IF t.ref = 0 THEN t ELSE w
  BY <1>1, <1>2, <1>3 DEF table_add_union_vector
<1>5. /\ Standing(D, ks) /\ Extended(D, C)
      /\ t.ref # 0 => /\ ~ IsSet(C, before)
                      /\ \E offset : Written(D, C, offset, write_uoffset(type), before)
  <2>1. Standing(D, ks)
    BY <1>2, AddOffsetStands DEF Filled
  <2>2. Extended(D, C)
    BY <1>2, AddOffsetExtends
  <2> QED BY <1>2, <2>1, <2>2, AddOffsetTidy
<1>6. Tidy(D) /\ IsEntries(D)
  BY <1>5 DEF Extended, Grown
<1>7. Extended(w.B, D)
  BY <1>3, <1>5, <1>6, AddOffsetExtends
<1>8. w.ref # 0 => ~ IsSet(D, id) /\ \E offset : Written(w.B, D, offset, write_uoffset(value), id)
  BY <1>3, <1>5, <1>6, AddOffsetTidy
<1>9. Extended(r.B, C)
  BY <1>2, <1>4, <1>5, <1>7, ExtendedTwice, ExtendedSelf DEF Result
<1>10. ASSUME r.ref # 0, type # 0
       PROVE Twice(r, C, write_uoffset(type), before, write_uoffset(value), id)
  <2>1. r = w /\ t.ref # 0
    BY <1>4, <1>10 DEF Result
  <2> QED BY <1>5, <1>8, <1>10, <2>1 DEF Twice
<1> QED BY <1>1, <1>9, <1>10

-----------------------------------------------------------------------------
(* Elements of a vector *)

\* D is C with other elements of the current object, count of them, up to offset.
Stretched(D, C, count, offset) ==
    /\ Tidy(D) /\ SamePlaces(D, C) /\ D.ds_first = C.ds_first /\ SameEntries(D, C)
    /\ SameBelow(D, C, 0) /\ Len(D.ds_mem) >= Len(C.ds_mem)
    /\ \A l \in 1 .. Len(C.frame) - 1 : D.frame[l].c = C.frame[l].c
    /\ frame(D).c.elem_size = frame(C).c.elem_size /\ frame(D).c.count = count
    /\ D.ds_offset = offset

LEMMA StretchedTwice ==
  ASSUME NEW B0, NEW C, NEW D, NEW count, NEW offset, NEW count2, NEW offset2,
         Stretched(C, B0, count, offset), Stretched(D, C, count2, offset2), Tidy(B0)
  PROVE  Stretched(D, B0, count2, offset2)
<1>1. SamePlaces(D, B0)
  BY DEF Stretched, SamePlaces
<1>2. SameEntries(D, B0)
  BY DEF Stretched, SameEntries
<1>3. SameBelow(D, B0, 0)
  BY DEF Stretched, SameBelow
<1>4. Len(C.frame) = Len(B0.frame)
  BY DEF Stretched, SamePlaces
<1>5. \A l \in 1 .. Len(B0.frame) - 1 : D.frame[l].c = B0.frame[l].c
  BY <1>4 DEF Stretched
<1>6. Len(D.ds_mem) \in Nat /\ Len(C.ds_mem) \in Nat /\ Len(B0.ds_mem) \in Nat
  BY DEF Stretched, Tidy, Aimed, IsSeq
<1>7. Len(D.ds_mem) >= Len(B0.ds_mem)
  BY <1>6 DEF Stretched
<1> QED BY ONLY <1>1, <1>2, <1>3, <1>5, <1>7, Stretched(C, B0, count, offset),
                Stretched(D, C, count2, offset2) DEF Stretched

LEMMA CountAddStretched ==
  ASSUME NEW C, NEW ks, Standing(C, ks), Len(ks) > 0, ks[Len(ks)] \in Elements, Tidy(C),
         NEW count \in Int, NEW D, D = vector_count_add(C, count)
  PROVE  Stretched(D, C, frame(C).c.count + count, C.ds_offset)
<1>1. /\ IsBuilder(C) /\ IsFrames(C.frame, C.align, ks) /\ Len(ks) \in Nat
      /\ Len(C.frame) = Len(ks)
  BY DEF Standing, IsFrames
<1>2. PICK n \in 1 .. Len(ks) : n = Len(C.frame) /\ n = Len(ks)
  BY <1>1
<1>3. PICK fs : fs = C.frame
  OBVIOUS
<1>4. IsFrame(fs[n], ks[n]) /\ ks[n] \in Elements
  BY <1>1, <1>2, <1>3 DEF IsFrames
<1>5. PICK c : c = fs[n].c
  OBVIOUS
<1>6. DOMAIN c = {"elem_size", "count"} /\ c.elem_size \in Int /\ c.count \in Int
  BY <1>4, <1>5 DEF IsFrame, IsContainer
<1>7. PICK total \in Int : total = c.count + count
  BY <1>6
<1>8. PICK d : d = [c EXCEPT !.count = total]
  OBVIOUS
<1>9. d.elem_size = c.elem_size /\ d.count = total
  BY ONLY <1>6, <1>8
<1>10. PICK g : g = [fs[n] EXCEPT !.c = d]
  OBVIOUS
<1>11. g.c = d /\ g.ds_offset = fs[n].ds_offset /\ g.ds_first = fs[n].ds_first
  BY ONLY <1>4, <1>10 DEF IsFrame, FrameFields
<1>12. PICK gs : gs = [fs EXCEPT ![n] = g]
  OBVIOUS
<1>13. PICK S : fs \in Seq(S)
  BY <1>1, <1>3 DEF IsFrames
<1>14. DOMAIN fs = 1 .. n /\ n \in Nat
  <2>1. Len(fs) = n
    BY ONLY <1>2, <1>3
  <2> QED BY ONLY <1>13, <2>1
<1>15. \A l \in 1 .. n : gs[l] = IF l = n THEN g ELSE fs[l]
  BY ONLY <1>12, <1>14
<1>16. Len(gs) = n
  <2>1. gs = [l \in 1 .. n |-> gs[l]]
    BY ONLY <1>12, <1>14
  <2> QED BY ONLY <1>14, <2>1
<1>17. D = [C EXCEPT !.frame = gs]
  BY <1>2, <1>3, <1>5, <1>7, <1>8, <1>10, <1>12 DEF vector_count_add, level
<1>18. DOMAIN C = BuilderFields
  BY <1>1 DEF IsBuilder
<1>19. /\ D.frame = gs /\ D.ds_mem = C.ds_mem /\ D.ds = C.ds /\ D.ds_first = C.ds_first
       /\ D.ds_offset = C.ds_offset /\ D.ds_limit = C.ds_limit
       /\ D.vs_mem = C.vs_mem /\ D.vs = C.vs /\ D.id_end = C.id_end
  BY ONLY <1>17, <1>18 DEF BuilderFields
<1>20. Tidy(D)
  <2>1. Aimed(D)
    BY <1>19, AimedKept DEF Tidy
  <2>2. \A i \in Nat : Byte(D, i) = Byte(C, i)
    BY <1>19 DEF Byte
  <2> QED BY ONLY <1>19, <2>1, <2>2, Tidy(C) DEF Tidy
<1>21. SamePlaces(D, C)
  BY ONLY <1>2, <1>3, <1>11, <1>15, <1>16, <1>19 DEF SamePlaces
<1>22. SameEntries(D, C) /\ SameBelow(D, C, 0)
  BY ONLY <1>19 DEF SameEntries, SameBelow, Byte
<1>25. Len(D.ds_mem) >= Len(C.ds_mem)
  <2>1. Len(C.ds_mem) \in Nat
    BY DEF Tidy, Aimed, IsSeq
  <2> QED BY <1>19, <2>1
<1>23. \A l \in 1 .. Len(C.frame) - 1 : D.frame[l].c = C.frame[l].c
  BY ONLY <1>2, <1>3, <1>14, <1>15, <1>19
<1>24. frame(D).c = d /\ frame(C).c = c
  BY ONLY <1>2, <1>3, <1>5, <1>11, <1>14, <1>15, <1>16, <1>19 DEF frame, level
<1> QED BY ONLY <1>7, <1>9, <1>19, <1>20, <1>21, <1>22, <1>23, <1>24, <1>25 DEF Stretched

LEMMA ShapedStretched ==
  ASSUME NEW C, NEW ks, Standing(C, ks), Len(ks) > 0, Tidy(C), NEW D, Tidy(D), Shaped(D, C),
         SameEntries(D, C), NEW low \in Nat, SameBelow(D, C, low)
  PROVE  Stretched(D, C, frame(C).c.count, D.ds_offset)
<1>1. Len(C.frame) \in Nat /\ Len(C.frame) > 0 /\ Len(D.frame) = Len(C.frame)
  BY DEF Standing, IsFrames, Shaped, SamePlaces
<1>2. frame(D).c = frame(C).c
  BY <1>1 DEF frame, level, Shaped, SameContainers
<1>3. SameBelow(D, C, 0)
  BY BelowLess DEF Tidy, Aimed
<1> QED BY <1>1, <1>2, <1>3 DEF Stretched, Shaped, SameContainers

LEMMA AppendStretched ==
  ASSUME NEW C, NEW ks, Standing(C, ks), Len(ks) > 0, ks[Len(ks)] \in Elements, Tidy(C),
         NEW data, IsSeq(data), NEW count \in Int, NEW D, D = append_vector(C, data, count)
  PROVE  Stretched(D, C, frame(C).c.count + count, C.ds_offset + Len(data))
<1>1. PICK F : F = vector_count_add(C, count)
  OBVIOUS
<1>2. Standing(F, ks)
  BY <1>1, CountAddStands DEF Stacked
<1>3. PICK total : total = frame(C).c.count + count
  OBVIOUS
<1>4. Stretched(F, C, total, C.ds_offset)
  BY <1>1, <1>3, CountAddStretched
<1>5. Tidy(F) /\ F.ds_offset = C.ds_offset /\ frame(F).c.count = total /\ F.ds_offset \in Nat
  BY <1>4 DEF Stretched, Tidy
<1>6. D = push_ds_copy(F, data)
  BY <1>1 DEF append_vector
<1>7. /\ Tidy(D) /\ Shaped(D, F) /\ SameEntries(D, F)
      /\ D.ds_offset = F.ds_offset + Len(data) /\ SameBelow(D, F, F.ds_offset)
  BY <1>2, <1>5, <1>6, PushCopyTidy
<1>8. Stretched(D, F, total, D.ds_offset)
  BY <1>2, <1>5, <1>7, ShapedStretched
<1>9. Stretched(D, C, total, D.ds_offset)
  BY <1>4, <1>8, StretchedTwice
<1> QED BY ONLY <1>3, <1>5, <1>7, <1>9

LEMMA TruncateStretched ==
  ASSUME NEW C, NEW ks, Standing(C, ks), Len(ks) > 0, ks[Len(ks)] \in Elements, Tidy(C),
         NEW count \in Int, NEW size \in Nat, size = frame(C).c.elem_size * count,
         size <= C.ds_offset, NEW D, D = truncate_vector(C, count)
  PROVE  Stretched(D, C, frame(C).c.count - count, C.ds_offset - size)
<1>1. PICK less \in Int : less = -count
  OBVIOUS
<1>2. PICK F : F = vector_count_add(C, less)
  OBVIOUS
<1>3. Standing(F, ks)
  <2>1. Stacked(F, C, ks)
    BY ONLY <1>2, less \in Int, Standing(C, ks), Len(ks) > 0, ks[Len(ks)] \in Elements,
            CountAddStands
  <2> QED BY <2>1 DEF Stacked
<1>4. PICK total : total = frame(C).c.count + less
  OBVIOUS
<1>5. Stretched(F, C, total, C.ds_offset)
  <2>1. Stretched(F, C, frame(C).c.count + less, C.ds_offset)
    BY ONLY <1>2, less \in Int, Standing(C, ks), Len(ks) > 0, ks[Len(ks)] \in Elements, Tidy(C),
            CountAddStretched
  <2> QED BY <1>4, <2>1
<1>6. Tidy(F) /\ F.ds_offset = C.ds_offset /\ frame(F).c.count = total /\ F.ds_offset \in Nat
  BY <1>5 DEF Stretched, Tidy
<1>7. D = unpush_ds(F, size)
  BY ONLY <1>1, <1>2, D = truncate_vector(C, count), size = frame(C).c.elem_size * count
     DEF truncate_vector
<1>8. PICK left \in Nat : left = F.ds_offset - size
  BY ONLY <1>6, size \in Nat, size <= C.ds_offset
<1>9. /\ Tidy(D) /\ Shaped(D, F) /\ SameEntries(D, F)
      /\ D.ds_offset = left /\ SameBelow(D, F, left)
  <2>1. size <= F.ds_offset
    BY ONLY <1>6, size <= C.ds_offset
  <2> QED BY ONLY <1>3, <1>6, <1>7, <1>8, <2>1, size \in Nat, UnpushTidy
<1>10. Stretched(D, F, total, left)
  BY <1>3, <1>6, <1>9, ShapedStretched
<1>11. Stretched(D, C, total, left)
  BY <1>5, <1>10, StretchedTwice
<1>12. frame(C).c.count \in Int
  BY ElementsCount
<1>13. total = frame(C).c.count - count
  BY ONLY <1>1, <1>4, <1>12, count \in Int
<1> QED BY ONLY <1>6, <1>8, <1>11, <1>13

-----------------------------------------------------------------------------
(* The objects on the stack of bytes *)

\* The object of each level starts at F and has its bytes up to O behind it,
\* as the frame above it says; levels do not overlap, and what is between them
\* and above them is zero.
Laid(C, F, O) ==
    LET n == Len(C.frame)
    IN  /\ F \in [0 .. n -> Nat] /\ O \in [0 .. n -> Nat]
        /\ F[n] = C.ds_first /\ O[n] = C.ds_offset
        /\ \A l \in 1 .. n : C.frame[l].ds_first = F[l - 1] /\ C.frame[l].ds_offset = O[l - 1]
        /\ \A l, m \in 0 .. n : l < m => F[l] + O[l] <= F[m]
        /\ \A l \in 0 .. n : O[l] > 0 => F[l] + O[l] <= Len(C.ds_mem)
        /\ \A l \in 0 .. n - 1, i \in Nat : F[l] + O[l] < i /\ i <= F[l + 1] => Byte(C, i) = 0
        /\ \A i \in Nat : i > F[n] + O[n] => Byte(C, i) = 0
        /\ IsSeq(C.ds_mem)

LEMMA LaidTidy ==
  ASSUME NEW C, NEW F, NEW O, Laid(C, F, O), Aimed(C), Len(C.frame) \in Nat
  PROVE  Tidy(C)
<1>1. PICK n \in Nat : n = Len(C.frame)
  OBVIOUS
<1>2. n \in 0 .. n
  OBVIOUS
<1> QED BY <1>1, <1>2 DEF Laid, Tidy

\* Other bytes of the innermost object.
LEMMA LaidWithin ==
  ASSUME NEW C, NEW F, NEW O, Laid(C, F, O), Len(C.frame) \in Nat,
         NEW D, Tidy(D), SamePlaces(D, C), D.ds_first = C.ds_first, SameBelow(D, C, 0),
         Len(D.ds_mem) >= Len(C.ds_mem)
  PROVE  Laid(D, F, [O EXCEPT ![Len(C.frame)] = D.ds_offset])
<1>1. PICK n \in Nat : n = Len(C.frame)
  OBVIOUS
<1>2. PICK k \in Nat, m \in Nat, off \in Nat :
         k = Len(C.ds_mem) /\ m = Len(D.ds_mem) /\ off = D.ds_offset /\ m >= k
  BY DEF Laid, Tidy, Aimed, IsSeq
<1>3. PICK P : P = [O EXCEPT ![n] = off]
  OBVIOUS
<1>4. /\ F \in [0 .. n -> Nat] /\ O \in [0 .. n -> Nat] /\ F[n] = D.ds_first
      /\ \A l \in 1 .. n : D.frame[l].ds_first = F[l - 1] /\ D.frame[l].ds_offset = O[l - 1]
      /\ \A l, j \in 0 .. n : l < j => F[l] + O[l] <= F[j]
      /\ \A l \in 0 .. n : O[l] > 0 => F[l] + O[l] <= k
      /\ \A l \in 0 .. n - 1, i \in Nat : F[l] + O[l] < i /\ i <= F[l + 1] => Byte(C, i) = 0
      /\ Len(D.frame) = n
  BY <1>1, <1>2 DEF Laid, SamePlaces
<1>5. /\ P \in [0 .. n -> Nat] /\ P[n] = off
      /\ \A l \in 0 .. n : l # n => P[l] = O[l]
  BY ONLY <1>3, <1>4, n \in Nat, off \in Nat
<1>6. \A l \in 1 .. n : l - 1 \in 0 .. n /\ l - 1 # n
  BY ONLY n \in Nat
<1>7. \A l \in 1 .. n : D.frame[l].ds_first = F[l - 1] /\ D.frame[l].ds_offset = P[l - 1]
  BY ONLY <1>4, <1>5, <1>6
<1>8. \A l, j \in 0 .. n : l < j => F[l] + P[l] <= F[j]
  <2>1. \A l, j \in 0 .. n : l < j => l # n
    BY ONLY n \in Nat
  <2> QED BY ONLY <1>4, <1>5, <2>1
<1>9. \A l \in 0 .. n : P[l] > 0 => F[l] + P[l] <= m
  <2> SUFFICES ASSUME NEW l \in 0 .. n, P[l] > 0 PROVE F[l] + P[l] <= m
    OBVIOUS
  <2>1. CASE l = n
    BY <1>2, <1>4, <1>5, <2>1 DEF Tidy
  <2>2. CASE l # n
    BY ONLY <1>2, <1>4, <1>5, <2>2, P[l] > 0, l \in 0 .. n, k \in Nat, m \in Nat
  <2> QED BY <2>1, <2>2
<1>10. PICK first \in Nat : first = C.ds_first /\ first = F[n]
  BY <1>1 DEF Laid
<1>11. \A i \in Nat : i <= first => Byte(D, i) = Byte(C, i)
  BY <1>10 DEF SameBelow
<1>12. ASSUME NEW l \in 0 .. n - 1, NEW i \in Nat, F[l] + P[l] < i, i <= F[l + 1]
       PROVE  Byte(D, i) = 0
  <2>1. l \in 0 .. n /\ l # n /\ l + 1 \in 0 .. n
    BY ONLY n \in Nat, l \in 0 .. n - 1
  <2>2. P[l] = O[l] /\ F[l + 1] \in Nat
    BY ONLY <1>4, <1>5, <2>1
  <2>3. F[l + 1] <= first
    <3>1. CASE l + 1 = n
      BY <1>10, <3>1
    <3>2. CASE l + 1 # n
      <4>1. l + 1 < n /\ n \in 0 .. n
        BY ONLY <2>1, <3>2, n \in Nat
      <4>2. F[l + 1] + O[l + 1] <= F[n] /\ O[l + 1] \in Nat
        BY ONLY <1>4, <2>1, <4>1
      <4> QED BY <1>10, <2>2, <4>2
    <3> QED BY <3>1, <3>2
  <2>4. i <= first
    BY ONLY <1>12, <2>2, <2>3, i \in Nat, first \in Nat
  <2>5. Byte(C, i) = 0
    BY ONLY <1>4, <1>12, <2>2
  <2> QED BY ONLY <1>11, <2>4, <2>5, i \in Nat
<1>13. \A i \in Nat : i > F[n] + P[n] => Byte(D, i) = 0
  BY <1>2, <1>4, <1>5 DEF Tidy
<1>14. IsSeq(D.ds_mem)
  BY DEF Tidy, Aimed
<1>15. Laid(D, F, P)
  BY ONLY <1>2, <1>4, <1>5, <1>7, <1>8, <1>9, <1>12, <1>13, <1>14 DEF Laid
<1> QED BY ONLY <1>1, <1>2, <1>3, <1>15

LEMMA LaidKept ==
  ASSUME NEW C, NEW F, NEW O, Laid(C, F, O), NEW D, Shaped(D, C), SameBytes(D, C),
         D.ds_offset = C.ds_offset, Len(C.frame) \in Nat
  PROVE  Laid(D, F, O)
<1>1. PICK n \in Nat, k \in Nat, m \in Nat :
         n = Len(C.frame) /\ k = Len(C.ds_mem) /\ m = Len(D.ds_mem) /\ m >= k
  BY DEF Laid, Shaped, IsSeq
<1>2. /\ F \in [0 .. n -> Nat] /\ O \in [0 .. n -> Nat]
      /\ F[n] = C.ds_first /\ O[n] = C.ds_offset
      /\ \A l \in 1 .. n : C.frame[l].ds_first = F[l - 1] /\ C.frame[l].ds_offset = O[l - 1]
      /\ \A l, j \in 0 .. n : l < j => F[l] + O[l] <= F[j]
      /\ \A l \in 0 .. n : O[l] > 0 => F[l] + O[l] <= k
      /\ \A l \in 0 .. n - 1, i \in Nat : F[l] + O[l] < i /\ i <= F[l + 1] => Byte(C, i) = 0
      /\ \A i \in Nat : i > F[n] + O[n] => Byte(C, i) = 0
  BY <1>1 DEF Laid
<1>3. /\ D.ds_first = C.ds_first /\ IsSeq(D.ds_mem) /\ Len(D.frame) = n
      /\ \A l \in 1 .. n : /\ D.frame[l].ds_first = C.frame[l].ds_first
                          /\ D.frame[l].ds_offset = C.frame[l].ds_offset
      /\ \A i \in Nat : Byte(D, i) = Byte(C, i)
  BY <1>1 DEF Shaped, SamePlaces, SameBytes
<1>4. ASSUME NEW l \in 0 .. n, O[l] > 0 PROVE F[l] + O[l] <= m
  <2>1. F[l] \in Nat /\ O[l] \in Nat /\ F[l] + O[l] <= k /\ m >= k
    BY ONLY <1>1, <1>2, <1>4, l \in 0 .. n
  <2> QED BY ONLY <2>1, k \in Nat, m \in Nat
<1>5. \A l \in 0 .. n - 1, i \in Nat : F[l] + O[l] < i /\ i <= F[l + 1] => Byte(D, i) = 0
  BY ONLY <1>2, <1>3
<1>6. \A i \in Nat : i > F[n] + O[n] => Byte(D, i) = 0
  BY ONLY <1>2, <1>3
<1> QED BY ONLY <1>1, <1>2, <1>3, <1>4, <1>5, <1>6, D.ds_offset = C.ds_offset DEF Laid

\* D is C with one level more, for an object with this container.
Deeper(D, C, c) ==
    LET n == Len(C.frame)
    IN  /\ Len(D.frame) = n + 1
        /\ \A l \in 1 .. n : /\ D.frame[l].ds_first = C.frame[l].ds_first
                             /\ D.frame[l].ds_offset = C.frame[l].ds_offset
                             /\ D.frame[l].c = C.frame[l].c
        /\ D.frame[n + 1].ds_first = C.ds_first /\ D.frame[n + 1].ds_offset = C.ds_offset
        /\ D.frame[n + 1].c = c
        /\ D.ds_first \in Nat /\ D.ds_first >= C.ds_first + C.ds_offset /\ D.ds_offset = 0
        /\ \A i \in Nat : Byte(D, i) = Byte(C, i)
        /\ IsSeq(D.ds_mem) /\ Len(D.ds_mem) >= Len(C.ds_mem)

LEMMA DeeperShaped ==
  ASSUME NEW B0, NEW C, NEW D, NEW c, Deeper(C, B0, c), Shaped(D, C), SameBytes(D, C),
         D.ds_offset = C.ds_offset, Len(B0.frame) \in Nat, IsSeq(B0.ds_mem)
  PROVE  Deeper(D, B0, c)
<1>1. PICK n \in Nat, j \in Nat, k \in Nat, m \in Nat :
         /\ n = Len(B0.frame) /\ j = Len(B0.ds_mem) /\ k = Len(C.ds_mem) /\ m = Len(D.ds_mem)
         /\ m >= k /\ k >= j
  BY DEF Deeper, Shaped, IsSeq
<1>2. m >= j
  BY <1>1
<1>3. /\ D.ds_first = C.ds_first /\ IsSeq(D.ds_mem) /\ Len(D.frame) = Len(C.frame)
      /\ \A l \in 1 .. Len(C.frame) : /\ D.frame[l].ds_first = C.frame[l].ds_first
                                      /\ D.frame[l].ds_offset = C.frame[l].ds_offset
                                      /\ D.frame[l].c = C.frame[l].c
      /\ \A i \in Nat : Byte(D, i) = Byte(C, i)
  BY DEF Shaped, SamePlaces, SameContainers, SameBytes
<1>4. \A l \in 1 .. n : l \in 1 .. n + 1
  OBVIOUS
<1>5. n + 1 \in 1 .. n + 1
  OBVIOUS
<1>6. Len(C.frame) = n + 1
  BY <1>1 DEF Deeper
<1> QED BY ONLY <1>1, <1>2, <1>3, <1>4, <1>5, <1>6, Deeper(C, B0, c), D.ds_offset = C.ds_offset
        DEF Deeper

LEMMA EnterDeeper ==
  ASSUME NEW C, NEW ks, Standing(C, ks), C.ds_first \in Nat, C.ds_offset \in Nat,
         IsSeq(C.ds_mem), NEW align, NEW type, NEW c, NEW D, D = enter_frame(C, align, type, c)
  PROVE  Deeper(D, C, c) /\ SameEntries(D, C)
<1>1. DOMAIN C = BuilderFields /\ Len(C.frame) \in Nat /\ \E S : C.frame \in Seq(S)
  BY DEF Standing, IsBuilder, IsFrames
<1>2. PICK f : f = [type |-> type, align |-> C.align, ds_first |-> C.ds_first,
                    ds_offset |-> C.ds_offset, type_limit |-> data_limit, c |-> c]
  OBVIOUS
<1>3. f.ds_first = C.ds_first /\ f.ds_offset = C.ds_offset /\ f.c = c
  BY ONLY <1>2
<1>4. PICK y \in Nat : y = C.ds_first + C.ds_offset
  OBVIOUS
<1>5. PICK x \in Nat : x = alignup(y, 8) /\ x >= y
  BY AlignupUp
<1>6. PICK n, fs, gs : /\ n \in Nat /\ n = Len(C.frame)
                        /\ fs = C.frame /\ gs = Append(fs, f)
  BY <1>1
<1>7. D = [C EXCEPT !.frame = gs, !.align = align, !.ds_first = x, !.ds_offset = 0]
  BY <1>2, <1>4, <1>5, <1>6 DEF enter_frame
<1>8. /\ D.frame = gs /\ D.ds_first = x /\ D.ds_offset = 0 /\ D.ds_mem = C.ds_mem
      /\ D.vs_mem = C.vs_mem /\ D.vs = C.vs /\ D.id_end = C.id_end
  BY ONLY <1>1, <1>7 DEF BuilderFields
<1>9. PICK S : fs \in Seq(S) /\ f \in S
  <2>1. PICK T : fs \in Seq(T)
    BY <1>1, <1>6
  <2>2. PICK S : S = T \cup {f}
    OBVIOUS
  <2>3. fs \in Seq(S) /\ f \in S
    BY <2>1, <2>2
  <2> QED BY <2>3
<1>10. Len(gs) = n + 1 /\ gs[n + 1] = f /\ \A l \in 1 .. n : gs[l] = fs[l]
  BY <1>6, <1>9, AppendAt
<1>11. IsSeq(D.ds_mem) /\ Len(D.ds_mem) >= Len(C.ds_mem)
  <2>1. Len(C.ds_mem) \in Nat
    BY DEF IsSeq
  <2> QED BY <1>8, <2>1
<1>12. \A i \in Nat : Byte(D, i) = Byte(C, i)
  BY <1>8 DEF Byte
<1>13. Deeper(D, C, c)
  BY ONLY <1>3, <1>4, <1>5, <1>6, <1>8, <1>10, <1>11, <1>12 DEF Deeper
<1> QED BY <1>8, <1>13 DEF SameEntries

\* A level that is entered, above those that are laid already.
LEMMA LaidDeeper ==
  ASSUME NEW C, NEW F, NEW O, Laid(C, F, O), NEW D, NEW c, Deeper(D, C, c),
         NEW n \in Nat, n = Len(C.frame)
  PROVE  Laid(D, Longer(F, n + 1, D.ds_first), Longer(O, n + 1, 0))
<1>0. PICK x \in Nat : x = D.ds_first /\ x >= C.ds_first + C.ds_offset
  BY DEF Deeper
<1>1. PICK G, P : G = Longer(F, n + 1, D.ds_first) /\ P = Longer(O, n + 1, 0)
  OBVIOUS
<1>2. PICK k \in Nat, m \in Nat : k = Len(C.ds_mem) /\ m = Len(D.ds_mem) /\ m >= k
  BY DEF Laid, Deeper, IsSeq
<1>3. /\ F \in [0 .. n -> Nat] /\ O \in [0 .. n -> Nat]
      /\ F[n] = C.ds_first /\ O[n] = C.ds_offset
      /\ \A l \in 1 .. n : C.frame[l].ds_first = F[l - 1] /\ C.frame[l].ds_offset = O[l - 1]
      /\ \A l, j \in 0 .. n : l < j => F[l] + O[l] <= F[j]
      /\ \A l \in 0 .. n : O[l] > 0 => F[l] + O[l] <= k
      /\ \A l \in 0 .. n - 1, i \in Nat : F[l] + O[l] < i /\ i <= F[l + 1] => Byte(C, i) = 0
      /\ \A i \in Nat : i > F[n] + O[n] => Byte(C, i) = 0
  BY <1>2 DEF Laid
<1>4. /\ Len(D.frame) = n + 1
      /\ \A l \in 1 .. n : /\ D.frame[l].ds_first = C.frame[l].ds_first
                          /\ D.frame[l].ds_offset = C.frame[l].ds_offset
      /\ D.frame[n + 1].ds_first = C.ds_first /\ D.frame[n + 1].ds_offset = C.ds_offset
      /\ D.ds_offset = 0 /\ IsSeq(D.ds_mem)
      /\ \A i \in Nat : Byte(D, i) = Byte(C, i)
  BY DEF Deeper
<1>5. /\ G = [l \in 0 .. n + 1 |-> IF l = n + 1 THEN x ELSE F[l]]
      /\ P = [l \in 0 .. n + 1 |-> IF l = n + 1 THEN 0 ELSE O[l]]
  BY <1>0, <1>1 DEF Longer
<1>6. /\ G \in [0 .. n + 1 -> Nat] /\ P \in [0 .. n + 1 -> Nat]
      /\ G[n + 1] = x /\ P[n + 1] = 0
      /\ \A l \in 0 .. n : G[l] = F[l] /\ P[l] = O[l]
  BY ONLY <1>3, <1>5, n \in Nat, x \in Nat
<1>7. ASSUME NEW l \in 1 .. n + 1
      PROVE  D.frame[l].ds_first = G[l - 1] /\ D.frame[l].ds_offset = P[l - 1]
  <2>1. l - 1 \in 0 .. n
    OBVIOUS
  <2>2. CASE l = n + 1
    <3>1. l - 1 = n
      BY <2>2
    <3> QED BY ONLY <1>3, <1>4, <1>6, <2>1, <2>2, <3>1
  <2>3. CASE l # n + 1
    <3>1. l \in 1 .. n
      BY <2>3
    <3> QED BY ONLY <1>3, <1>4, <1>6, <2>1, <3>1
  <2> QED BY <2>2, <2>3
<1>8. F[n] + O[n] <= x
  BY ONLY <1>0, <1>3
<1>9. ASSUME NEW l \in 0 .. n + 1, NEW j \in 0 .. n + 1, l < j PROVE G[l] + P[l] <= G[j]
  <2>1. l \in 0 .. n
    BY <1>9
  <2>2. CASE j = n + 1
    <3>1. CASE l = n
      BY ONLY <1>6, <1>8, <2>1, <2>2, <3>1
    <3>2. CASE l # n
      <4>1. l < n /\ n \in 0 .. n
        BY <2>1, <3>2
      <4>2. F[l] + O[l] <= F[n] /\ F[n] \in Nat /\ O[n] \in Nat /\ F[l] \in Nat /\ O[l] \in Nat
        BY ONLY <1>3, <2>1, <4>1
      <4>3. F[l] + O[l] <= x
        BY ONLY <1>8, <4>2, x \in Nat
      <4> QED BY ONLY <1>6, <2>1, <2>2, <4>3
    <3> QED BY <3>1, <3>2
  <2>3. CASE j # n + 1
    <3>1. j \in 0 .. n
      BY <2>3
    <3> QED BY ONLY <1>3, <1>6, <1>9, <2>1, <3>1
  <2> QED BY <2>2, <2>3
<1>10. ASSUME NEW l \in 0 .. n + 1, P[l] > 0 PROVE G[l] + P[l] <= m
  <2>1. l \in 0 .. n
    BY ONLY <1>6, <1>10, n \in Nat, l \in 0 .. n + 1
  <2>2. F[l] + O[l] <= k /\ F[l] \in Nat /\ O[l] \in Nat
    BY ONLY <1>3, <1>6, <1>10, <2>1
  <2>3. F[l] + O[l] <= m
    BY ONLY <1>2, <2>2, k \in Nat, m \in Nat
  <2> QED BY ONLY <1>6, <2>1, <2>3
<1>11. ASSUME NEW l \in 0 .. (n + 1) - 1, NEW i \in Nat, G[l] + P[l] < i, i <= G[l + 1]
       PROVE  Byte(D, i) = 0
  <2>1. l \in 0 .. n
    OBVIOUS
  <2>2. CASE l = n
    BY ONLY <1>3, <1>4, <1>6, <1>11, <2>1, <2>2
  <2>3. CASE l # n
    <3>1. l \in 0 .. n - 1 /\ l + 1 \in 0 .. n
      BY <2>1, <2>3
    <3> QED BY ONLY <1>3, <1>4, <1>6, <1>11, <2>1, <3>1
  <2> QED BY <2>2, <2>3
<1>12. ASSUME NEW i \in Nat, i > G[n + 1] + P[n + 1] PROVE Byte(D, i) = 0
  <2>1. i > x
    BY ONLY <1>6, <1>12, x \in Nat
  <2>2. F[n] \in Nat /\ O[n] \in Nat
    BY ONLY <1>3, n \in Nat
  <2>3. i > F[n] + O[n]
    BY ONLY <1>8, <2>1, <2>2, x \in Nat, i \in Nat
  <2> QED BY ONLY <1>3, <1>4, <2>3
<1>13. G[n + 1] = D.ds_first /\ P[n + 1] = D.ds_offset
  BY <1>0, <1>1, <1>4, <1>6
<1>14. Laid(D, G, P)
  BY ONLY <1>2, <1>4, <1>6, <1>7, <1>9, <1>10, <1>11, <1>12, <1>13 DEF Laid
<1> QED BY <1>1, <1>14

\* P is C with the bytes of the current object set to zero.
Emptied(P, C) ==
    /\ DOMAIN P = BuilderFields /\ P.frame = C.frame /\ SameEntries(P, C)
    /\ IsSeq(P.ds_mem) /\ Len(P.ds_mem) = Len(C.ds_mem)
    /\ \A i \in Nat : i <= C.ds_first => Byte(P, i) = Byte(C, i)
    /\ \A i \in Nat : i > C.ds_first => Byte(P, i) = 0

LEMMA PadEmpties ==
  ASSUME NEW C, DOMAIN C = BuilderFields, IsSeq(C.ds_mem), C.ds_first \in Nat,
         C.ds_offset \in Nat, \A i \in Nat : i > C.ds_first + C.ds_offset => Byte(C, i) = 0,
         C.ds_offset > 0 => /\ C.ds = C.ds_first
                            /\ C.ds_first + C.ds_offset <= Len(C.ds_mem),
         NEW P, P = Poke(C, 0, _pad(C.ds_offset))
  PROVE  Emptied(P, C)
<1>1. PICK off \in Nat, first \in Nat, m \in Nat :
         off = C.ds_offset /\ first = C.ds_first /\ m = Len(C.ds_mem)
  BY DEF IsSeq
<1>2. PICK z : z = _pad(off)
  OBVIOUS
<1>3. IsSeq(z) /\ DOMAIN z = 1 .. off /\ Len(z) = off /\ \A i \in 1 .. off : z[i] = 0
  BY <1>2, PadType
<1>4. P = Poke(C, 0, z)
  BY <1>1, <1>2
<1>5. CASE off = 0
  <2>1. PICK old : old = C.ds_mem
    OBVIOUS
  <2>2. DOMAIN old = 1 .. m /\ old = [i \in 1 .. m |-> old[i]]
    BY <1>1, <2>1 DEF IsSeq
  <2>3. PICK mem : mem = [i \in DOMAIN old |-> IF i - (C.ds + 0) \in DOMAIN z
                                             THEN z[i - (C.ds + 0)] ELSE old[i]]
    OBVIOUS
  <2>4. DOMAIN z = {}
    BY <1>3, <1>5
  <2>5. mem = old
    BY ONLY <2>2, <2>3, <2>4
  <2>6. P = [C EXCEPT !.ds_mem = mem]
    BY <1>4, <2>1, <2>3 DEF Poke
  <2>7. /\ DOMAIN P = BuilderFields /\ P.frame = C.frame /\ P.ds_mem = mem
        /\ P.vs_mem = C.vs_mem /\ P.vs = C.vs /\ P.id_end = C.id_end
    BY ONLY <2>6, DOMAIN C = BuilderFields DEF BuilderFields
  <2>8. \A i \in Nat : Byte(P, i) = Byte(C, i)
    BY <2>1, <2>5, <2>7 DEF Byte
  <2>9. \A i \in Nat : i > first => Byte(P, i) = 0
    BY <1>1, <1>5, <2>8
  <2>10. P.ds_mem = C.ds_mem
    BY <2>1, <2>5, <2>7
  <2> QED BY <1>1, <2>7, <2>8, <2>9, <2>10 DEF Emptied, SameEntries
<1>6. CASE off > 0
  <2>1. C.ds = first /\ first + off <= m
    BY <1>1, <1>6
  <2>2. Poked(P, C, 0, z)
    BY <1>1, <1>3, <1>4, <2>1, PokeShape
  <2>3. /\ SameEntries(P, C) /\ Len(P.ds_mem) = m /\ P.frame = C.frame
        /\ DOMAIN P = BuilderFields /\ IsSeq(P.ds_mem)
        /\ \A i \in Nat : i - (first + 0) \notin 1 .. off => Byte(P, i) = Byte(C, i)
        /\ \A i \in 1 .. off : first + 0 + i \in 1 .. m => Byte(P, first + 0 + i) = z[i]
    BY <1>1, <1>3, <2>1, <2>2 DEF Poked, Shaped
  <2>4. ASSUME NEW i \in Nat, i <= first PROVE Byte(P, i) = Byte(C, i)
    <3>1. i - (first + 0) \notin 1 .. off
      BY ONLY <2>4, i \in Nat, first \in Nat, off \in Nat
    <3> QED BY ONLY <2>3, <3>1, i \in Nat
  <2>5. ASSUME NEW i \in Nat, i > first PROVE Byte(P, i) = 0
    <3>1. CASE i <= first + off
      <4>1. PICK j \in 1 .. off : j = i - first
        BY <2>5, <3>1
      <4>2. first + 0 + j = i /\ i \in 1 .. m
        BY ONLY <2>1, <2>5, <3>1, <4>1, i \in Nat, first \in Nat, off \in Nat, m \in Nat
      <4>3. Byte(P, i) = z[j]
        BY ONLY <2>3, <4>2, j \in 1 .. off
      <4> QED BY <1>3, <4>3
    <3>2. CASE i > first + off
      <4>1. i - (first + 0) \notin 1 .. off
        BY ONLY <3>2, i \in Nat, first \in Nat, off \in Nat
      <4>2. Byte(P, i) = Byte(C, i)
        BY ONLY <2>3, <4>1, i \in Nat
      <4>3. Byte(C, i) = 0
        BY <1>1, <3>2
      <4> QED BY <4>2, <4>3
    <3> QED BY <3>1, <3>2
  <2> QED BY ONLY <1>1, <2>3, <2>4, <2>5 DEF Emptied
<1> QED BY <1>5, <1>6

\* D is C without the innermost object.
Shallower(D, C) ==
    LET n == Len(C.frame)
    IN  /\ Len(D.frame) = n - 1
        /\ \A l \in 1 .. n - 1 : /\ D.frame[l].ds_first = C.frame[l].ds_first
                                 /\ D.frame[l].ds_offset = C.frame[l].ds_offset
                                 /\ D.frame[l].c = C.frame[l].c
        /\ D.ds_first = C.frame[n].ds_first /\ D.ds_offset = C.frame[n].ds_offset
        /\ \A i \in Nat : i <= C.ds_first => Byte(D, i) = Byte(C, i)
        /\ \A i \in Nat : i > C.ds_first => Byte(D, i) = 0
        /\ Len(D.ds_mem) = Len(C.ds_mem) /\ Aimed(D)

LEMMA ExitShallower ==
  ASSUME NEW C, NEW ks, Standing(C, ks), Len(ks) > 0,
         C.frame[Len(C.frame)].ds_first \in Nat,
         Emptied(Poke(C, 0, _pad(C.ds_offset)), C), NEW D, D = exit_frame(C)
  PROVE  Shallower(D, C) /\ SameEntries(D, C)
<1>1. /\ IsBuilder(C) /\ IsFrames(C.frame, C.align, ks) /\ Len(ks) \in Nat
      /\ Len(C.frame) = Len(ks) /\ C.align \in Nat
  BY DEF Standing, IsFrames, IsBuilder
<1>2. PICK n \in 1 .. Len(ks) : n = Len(C.frame) /\ n = Len(ks)
  BY <1>1
<1>3. PICK f : f = C.frame[n]
  OBVIOUS
<1>4. f.align \in Nat /\ f.ds_offset \in Int /\ f.type_limit \in Int /\ f.ds_first \in Nat
  BY <1>1, <1>2, <1>3 DEF IsFrames, IsFrame
<1>5. PICK P : P = Poke(C, 0, _pad(C.ds_offset))
  OBVIOUS
<1>6. Emptied(P, C) /\ Standing(P, ks) /\ IsBuilder(P)
  <2>1. Stacked(P, C, ks)
    BY <1>5, PokeStands
  <2>2. Standing(P, ks)
    BY ONLY <2>1 DEF Stacked
  <2>3. IsBuilder(P)
    BY ONLY <2>2 DEF Standing
  <2>4. Emptied(P, C)
    BY ONLY <1>5, Emptied(Poke(C, 0, _pad(C.ds_offset)), C)
  <2> QED BY ONLY <2>2, <2>3, <2>4
<1>7. PICK x \in Int, y \in Nat, limit \in Int : x = f.ds_offset /\ y = f.ds_first /\ limit = f.type_limit
  BY <1>4
<1>8. PICK Q : Q = [P EXCEPT !.ds_offset = x, !.ds_first = y]
  OBVIOUS
<1>9. DOMAIN P = BuilderFields /\ P.min_align \in Nat /\ P.id_end \in Int /\ x \in Int
  BY <1>4, <1>6, <1>7 DEF IsBuilder
<1>10. /\ Q.min_align = P.min_align /\ Q.ds_offset = x /\ Q.id_end = P.id_end
       /\ Q.ds_first = y /\ Q.ds_mem = P.ds_mem /\ Q.frame = P.frame
       /\ Q.vs_mem = P.vs_mem /\ Q.vs = P.vs
  BY ONLY <1>8, <1>9 DEF BuilderFields
<1>11. SameEssentials(Q, P)
  BY ONLY <1>8, <1>9 DEF BuilderFields, SameEssentials, Essential
<1>12. Standing(Q, ks)
  BY <1>6, <1>9, <1>10, <1>11, KeptByFields, KeptStanding
<1>13. PICK R : R = refresh_ds(Q, limit)
  OBVIOUS
<1>14. IsSeq(Q.ds_mem) /\ Q.ds_first \in Nat
  BY <1>6, <1>10 DEF Emptied
<1>15. /\ Shaped(R, Q) /\ Aimed(R) /\ SameEntries(R, Q)
       /\ R.ds_offset = Q.ds_offset /\ R.ds_mem = Q.ds_mem
  BY ONLY <1>12, <1>13, <1>14, limit \in Int, Len(ks) > 0, RefreshShape
<1>16. Standing(R, ks)
  <2>1. Stacked(R, Q, ks)
    BY ONLY <1>12, <1>13, limit \in Int, Len(ks) > 0, RefreshStands
  <2> QED BY <2>1 DEF Stacked
<1>17. PICK least \in Nat : least = Greater(R.min_align, C.align)
  BY <1>1, <1>16, GreaterType DEF Standing, IsBuilder
<1>18. PICK gs, a : gs = Front(R.frame) /\ a = f.align
  OBVIOUS
<1>19. D = [R EXCEPT !.min_align = least, !.align = a, !.frame = gs]
  <2>1. PICK M : M = [R EXCEPT !.min_align = least]
    OBVIOUS
  <2>2. M = set_min_align(R, C.align)
    BY <1>17, <2>1 DEF set_min_align
  <2>3. DOMAIN R = BuilderFields
    BY <1>16 DEF Standing, IsBuilder
  <2>4. M.frame = R.frame
    BY ONLY <2>1, <2>3 DEF BuilderFields
  <2>5. D = [M EXCEPT !.align = a, !.frame = Front(M.frame)]
    BY <1>2, <1>3, <1>5, <1>7, <1>8, <1>13, <1>18, <2>2 DEF exit_frame, frame, level
  <2>6. D = [M EXCEPT !.align = a, !.frame = gs]
    BY ONLY <1>18, <2>4, <2>5
  <2> QED BY ONLY <2>1, <2>3, <2>6 DEF BuilderFields
<1>20. /\ D.frame = gs /\ D.ds = R.ds /\ D.ds_first = R.ds_first /\ D.ds_offset = R.ds_offset
       /\ D.ds_limit = R.ds_limit /\ D.ds_mem = R.ds_mem
       /\ D.vs_mem = R.vs_mem /\ D.vs = R.vs /\ D.id_end = R.id_end
  <2>1. DOMAIN R = BuilderFields
    BY <1>16 DEF Standing, IsBuilder
  <2> QED BY ONLY <1>19, <2>1 DEF BuilderFields
<1>21. PICK k \in Nat : k + 1 = n
  <2>1. n - 1 \in Nat /\ (n - 1) + 1 = n
    OBVIOUS
  <2> QED BY <2>1
<1>22. Len(gs) = k /\ \A l \in 1 .. k : gs[l] = R.frame[l]
  <2>1. PICK S : R.frame \in Seq(S)
    BY <1>16 DEF Standing, IsFrames
  <2>2. Len(R.frame) = n
    BY <1>2, <1>16 DEF Standing, IsFrames
  <2>3. gs = SubSeq(R.frame, 1, k)
    BY <1>18, <1>21, <2>2 DEF Front
  <2>4. k \in 0 .. Len(R.frame)
    BY <1>21, <2>2
  <2> QED BY <2>1, <2>3, <2>4, FirstType
<1>23. \A l \in 1 .. k : /\ gs[l].ds_first = C.frame[l].ds_first
                         /\ gs[l].ds_offset = C.frame[l].ds_offset
                         /\ gs[l].c = C.frame[l].c
  <2>1. Q.frame = C.frame /\ Len(Q.frame) = n
    BY <1>2, <1>6, <1>10 DEF Emptied
  <2>2. \A l \in 1 .. k : l \in 1 .. n
    BY <1>21
  <2>3. SamePlaces(R, Q) /\ SameContainers(R, Q)
    BY <1>15 DEF Shaped
  <2> QED BY ONLY <1>22, <2>1, <2>2, <2>3 DEF SamePlaces, SameContainers
<1>24. /\ \A i \in Nat : i <= C.ds_first => Byte(D, i) = Byte(C, i)
       /\ \A i \in Nat : i > C.ds_first => Byte(D, i) = 0
       /\ Len(D.ds_mem) = Len(C.ds_mem)
  <2>1. D.ds_mem = P.ds_mem
    BY <1>10, <1>15, <1>20
  <2>2. \A i \in Nat : Byte(D, i) = Byte(P, i)
    BY <2>1 DEF Byte
  <2> QED BY <1>6, <2>1, <2>2 DEF Emptied
<1>25. Aimed(D)
  BY ONLY <1>15, <1>20, AimedKept
<1>26. D.ds_first = f.ds_first /\ D.ds_offset = f.ds_offset
  BY <1>7, <1>10, <1>15, <1>20 DEF Shaped
<1>27. n - 1 = k
  BY ONLY <1>21, k \in Nat
<1>28. Shallower(D, C)
  BY ONLY <1>2, <1>3, <1>20, <1>22, <1>23, <1>24, <1>25, <1>26, <1>27 DEF Shallower
<1>29. SameEntries(D, C)
  BY <1>6, <1>10, <1>15, <1>20 DEF Emptied, SameEntries
<1> QED BY <1>28, <1>29

\* The first levels of f.
First(f, n) == [l \in 0 .. n |-> f[l]]

LEMMA LaidShallower ==
  ASSUME NEW C, NEW F, NEW O, Laid(C, F, O), NEW D, Shallower(D, C), NEW n \in Nat,
         n + 1 = Len(C.frame)
  PROVE  Laid(D, First(F, n), First(O, n))
<1>1. PICK k \in Nat : k = Len(C.ds_mem) /\ k = Len(D.ds_mem)
  BY DEF Laid, Shallower, IsSeq
<1>2. PICK G, P : G = First(F, n) /\ P = First(O, n)
  OBVIOUS
<1>3. Len(C.frame) = n + 1 /\ (n + 1) - 1 = n
  OBVIOUS
<1>4. /\ F \in [0 .. n + 1 -> Nat] /\ O \in [0 .. n + 1 -> Nat]
      /\ F[n + 1] = C.ds_first /\ O[n + 1] = C.ds_offset
      /\ \A l \in 1 .. n + 1 : /\ C.frame[l].ds_first = F[l - 1]
                               /\ C.frame[l].ds_offset = O[l - 1]
      /\ \A l, j \in 0 .. n + 1 : l < j => F[l] + O[l] <= F[j]
      /\ \A l \in 0 .. n + 1 : O[l] > 0 => F[l] + O[l] <= k
      /\ \A l \in 0 .. n, i \in Nat : F[l] + O[l] < i /\ i <= F[l + 1] => Byte(C, i) = 0
  BY ONLY <1>1, <1>3, Laid(C, F, O) DEF Laid
<1>5. /\ Len(D.frame) = n
      /\ \A l \in 1 .. n : /\ D.frame[l].ds_first = C.frame[l].ds_first
                          /\ D.frame[l].ds_offset = C.frame[l].ds_offset
      /\ D.ds_first = C.frame[n + 1].ds_first /\ D.ds_offset = C.frame[n + 1].ds_offset
      /\ \A i \in Nat : i <= F[n + 1] => Byte(D, i) = Byte(C, i)
      /\ \A i \in Nat : i > F[n + 1] => Byte(D, i) = 0
      /\ IsSeq(D.ds_mem)
  BY ONLY <1>3, <1>4, Shallower(D, C) DEF Shallower, Aimed
<1>6. /\ G \in [0 .. n -> Nat] /\ P \in [0 .. n -> Nat]
      /\ \A l \in 0 .. n : G[l] = F[l] /\ P[l] = O[l] /\ l \in 0 .. n + 1
  BY ONLY <1>2, <1>4, n \in Nat DEF First
<1>7. n \in 0 .. n /\ n + 1 \in 1 .. n + 1
  OBVIOUS
<1>8. G[n] = D.ds_first /\ P[n] = D.ds_offset
  <2>1. C.frame[n + 1].ds_first = F[(n + 1) - 1] /\ C.frame[n + 1].ds_offset = O[(n + 1) - 1]
    BY ONLY <1>4, <1>7
  <2> QED BY ONLY <1>3, <1>5, <1>6, <1>7, <2>1
<1>9. \A l \in 1 .. n : D.frame[l].ds_first = G[l - 1] /\ D.frame[l].ds_offset = P[l - 1]
  <2>1. \A l \in 1 .. n : l - 1 \in 0 .. n /\ l \in 1 .. n + 1
    OBVIOUS
  <2> QED BY ONLY <1>4, <1>5, <1>6, <2>1
<1>10. \A l, j \in 0 .. n : l < j => G[l] + P[l] <= G[j]
  BY ONLY <1>4, <1>6
<1>11. \A l \in 0 .. n : P[l] > 0 => G[l] + P[l] <= k
  BY ONLY <1>4, <1>6
<1>12. PICK top1 \in Nat : top1 = F[n + 1]
  BY ONLY <1>4, n \in Nat
<1>13. ASSUME NEW l \in 0 .. n - 1, NEW i \in Nat, G[l] + P[l] < i, i <= G[l + 1]
       PROVE  Byte(D, i) = 0
  <2>1. l \in 0 .. n /\ l + 1 \in 0 .. n /\ l + 1 < n + 1 /\ l + 1 \in 0 .. n + 1
        /\ n + 1 \in 0 .. n + 1
    BY ONLY n \in Nat, l \in 0 .. n - 1
  <2>2. Byte(C, i) = 0
    BY ONLY <1>4, <1>6, <1>13, <2>1
  <2>3. F[l + 1] + O[l + 1] <= F[n + 1] /\ F[l + 1] \in Nat /\ O[l + 1] \in Nat
    BY ONLY <1>4, <2>1
  <2>4. i <= top1
    <3>1. i <= F[l + 1]
      BY ONLY <1>6, <1>13, <2>1
    <3> QED BY ONLY <1>12, <2>3, <3>1, i \in Nat, top1 \in Nat
  <2> QED BY ONLY <1>5, <1>12, <2>2, <2>4, i \in Nat
<1>14. ASSUME NEW i \in Nat, i > G[n] + P[n] PROVE Byte(D, i) = 0
  <2>1. CASE i <= top1
    <3>1. F[n] + O[n] < i
      BY ONLY <1>6, <1>7, <1>14
    <3>2. Byte(C, i) = 0
      BY ONLY <1>4, <1>7, <1>12, <2>1, <3>1, i \in Nat
    <3> QED BY ONLY <1>5, <1>12, <2>1, <3>2, i \in Nat
  <2>2. CASE i > top1
    BY ONLY <1>5, <1>12, <2>2, i \in Nat
  <2> QED BY ONLY <2>1, <2>2, i \in Nat, top1 \in Nat
<1> QED BY ONLY <1>1, <1>2, <1>5, <1>6, <1>8, <1>9, <1>10, <1>11, <1>13, <1>14 DEF Laid

\* Leaving a frame, from the bytes as they were laid out.
LEMMA ExitLaid ==
  ASSUME NEW C, NEW ks, Standing(C, ks), NEW n \in Nat, n + 1 = Len(C.frame),
         NEW F, NEW O, Laid(C, F, O), C.ds_offset > 0 => Aimed(C), NEW D, D = exit_frame(C)
  PROVE  /\ Laid(D, First(F, n), First(O, n)) /\ Aimed(D) /\ SameEntries(D, C)
         /\ Len(D.frame) = n /\ \A l \in 1 .. n : D.frame[l].c = C.frame[l].c
         /\ \A i \in Nat : i <= C.ds_first => Byte(D, i) = Byte(C, i)
<1>1. PICK P : P = Poke(C, 0, _pad(C.ds_offset))
  OBVIOUS
<1>2. DOMAIN C = BuilderFields /\ Len(ks) = n + 1
  BY DEF Standing, IsBuilder, IsFrames
<1>3. Len(C.frame) = n + 1 /\ (n + 1) - 1 = n /\ n + 1 \in 0 .. n + 1 /\ n + 1 \in 1 .. n + 1
      /\ n \in 0 .. n + 1
  OBVIOUS
<1>4. /\ IsSeq(C.ds_mem) /\ C.ds_first \in Nat /\ C.ds_offset \in Nat
      /\ \A i \in Nat : i > C.ds_first + C.ds_offset => Byte(C, i) = 0
      /\ C.ds_offset > 0 => C.ds_first + C.ds_offset <= Len(C.ds_mem)
      /\ C.frame[n + 1].ds_first \in Nat
  <2>1. /\ F \in [0 .. n + 1 -> Nat] /\ O \in [0 .. n + 1 -> Nat]
        /\ F[n + 1] = C.ds_first /\ O[n + 1] = C.ds_offset
        /\ C.frame[n + 1].ds_first = F[n]
        /\ O[n + 1] > 0 => F[n + 1] + O[n + 1] <= Len(C.ds_mem)
        /\ \A i \in Nat : i > F[n + 1] + O[n + 1] => Byte(C, i) = 0
        /\ IsSeq(C.ds_mem)
    BY ONLY <1>3, Laid(C, F, O) DEF Laid
  <2> QED BY ONLY <1>3, <2>1
<1>5. C.ds_offset > 0 => C.ds = C.ds_first /\ C.ds_first + C.ds_offset <= Len(C.ds_mem)
  BY <1>4 DEF Aimed
<1>6. Emptied(P, C)
  BY ONLY <1>1, <1>2, <1>4, <1>5, PadEmpties
<1>7. Len(ks) > 0
  BY <1>2
<1>8. C.frame[Len(C.frame)].ds_first \in Nat
  BY ONLY <1>3, <1>4
<1>9. Shallower(D, C) /\ SameEntries(D, C)
  BY ONLY <1>1, <1>6, <1>7, <1>8, Standing(C, ks), D = exit_frame(C), ExitShallower
<1>10. Laid(D, First(F, n), First(O, n))
  BY ONLY <1>9, Laid(C, F, O), n \in Nat, n + 1 = Len(C.frame), LaidShallower
<1> QED BY <1>3, <1>9, <1>10 DEF Shallower

-----------------------------------------------------------------------------
(* What emission leaves as it is *)

StackFields == {"ds_mem", "ds", "ds_first", "ds_offset", "ds_limit", "vs_mem", "vs", "id_end",
                "frame"}
Stay(D, C) == DOMAIN D = BuilderFields /\ \A x \in StackFields : D[x] = C[x]

LEMMA StayFields ==
  ASSUME NEW C, NEW D, Stay(D, C)
  PROVE  /\ D.ds_mem = C.ds_mem /\ D.ds = C.ds /\ D.ds_first = C.ds_first
         /\ D.ds_offset = C.ds_offset /\ D.ds_limit = C.ds_limit /\ D.frame = C.frame
         /\ D.vs_mem = C.vs_mem /\ D.vs = C.vs /\ D.id_end = C.id_end
         /\ DOMAIN D = BuilderFields
  BY DEF Stay, StackFields

LEMMA StayTwice ==
  ASSUME NEW B0, NEW C, NEW D, Stay(C, B0), Stay(D, C)
  PROVE  Stay(D, B0)
  BY DEF Stay

LEMMA StaySelf ==
  ASSUME NEW C, DOMAIN C = BuilderFields
  PROVE  Stay(C, C)
  BY DEF Stay

LEMMA MinAlignStays ==
  ASSUME NEW C, DOMAIN C = BuilderFields, NEW a
  PROVE  Stay(set_min_align(C, a), C)
<1>1. PICK D, m : m = Greater(C.min_align, a) /\ D = [C EXCEPT !.min_align = m]
  OBVIOUS
<1>2. Stay(D, C)
  BY ONLY <1>1, DOMAIN C = BuilderFields DEF BuilderFields, StackFields, Stay
<1>3. D = set_min_align(C, a)
  BY ONLY <1>1 DEF set_min_align
<1> QED BY ONLY <1>2, <1>3

LEMMA InFrontStays ==
  ASSUME NEW C, DOMAIN C = BuilderFields, NEW e, NEW data, NEW ref
  PROVE  Stay(InFront(C, e, data, ref).B, C)
<1>1. PICK E, s : E = e.E /\ s = [start |-> ref, bytes |-> data \o C.sent.bytes]
  OBVIOUS
<1>2. PICK D : D = [C EXCEPT !.E = E, !.emit_start = ref, !.sent = s]
  OBVIOUS
<1>3. PICK G : G = [C EXCEPT !.E = E]
  OBVIOUS
<1>4. Stay(D, C)
  BY ONLY <1>2, DOMAIN C = BuilderFields DEF BuilderFields, StackFields, Stay
<1>5. Stay(G, C)
  BY ONLY <1>3, DOMAIN C = BuilderFields DEF BuilderFields, StackFields, Stay
<1>6. InFront(C, e, data, ref) = IF e.ok THEN Result(D, ref) ELSE Result(G, 0)
  BY ONLY <1>1, <1>2, <1>3 DEF InFront
<1>7. Result(D, ref).B = D /\ Result(G, 0).B = G
  BY DEF Result
<1>8. InFront(C, e, data, ref).B = D \/ InFront(C, e, data, ref).B = G
  BY ONLY <1>6, <1>7
<1> QED BY ONLY <1>4, <1>5, <1>8

LEMMA BehindStays ==
  ASSUME NEW C, DOMAIN C = BuilderFields, NEW e, NEW data, NEW ref
  PROVE  Stay(Behind(C, e, data, ref).B, C)
<1>1. PICK E, end, s :
         /\ E = e.E /\ end = ref + Len(data)
         /\ s = [C.sent EXCEPT !.bytes = IF e.ok THEN @ \o data ELSE @]
  OBVIOUS
<1>2. PICK D : D = [C EXCEPT !.E = E, !.emit_end = end, !.sent = s]
  OBVIOUS
<1>3. Stay(D, C)
  BY ONLY <1>2, DOMAIN C = BuilderFields DEF BuilderFields, StackFields, Stay
<1>4. Behind(C, e, data, ref) = Result(D, IF e.ok THEN ref + 1 ELSE 0)
  <2>1. D = [C EXCEPT !.E = e.E, !.emit_end = ref + Len(data),
                      !.sent.bytes = IF e.ok THEN @ \o data ELSE @]
    BY ONLY <1>1, <1>2, DOMAIN C = BuilderFields DEF BuilderFields
  <2> QED BY ONLY <2>1 DEF Behind
<1> QED BY ONLY <1>3, <1>4 DEF Result

LEMMA EmitStays ==
  ASSUME NEW C, DOMAIN C = BuilderFields, NEW pieces
  PROVE  Stay(emit_front(C, pieces).B, C) /\ Stay(emit_back(C, pieces).B, C)
<1>1. PICK data, ref, e : /\ data = Gathered(pieces) /\ ref = C.emit_start - Len(data)
                          /\ e = flatcc_emitter(C.E, pieces, ref)
  OBVIOUS
<1>2. emit_front(C, pieces) = InFront(C, e, data, ref)
  BY <1>1 DEF emit_front
<1>3. PICK f : f = flatcc_emitter(C.E, pieces, C.emit_end)
  OBVIOUS
<1>4. emit_back(C, pieces) = Behind(C, f, data, C.emit_end)
  BY <1>1, <1>3 DEF emit_back
<1> QED BY <1>2, <1>4, InFrontStays, BehindStays

LEMMA RaisedEmitStays ==
  ASSUME NEW C, DOMAIN C = BuilderFields, NEW a, NEW pieces
  PROVE  Stay(emit_front(set_min_align(C, a), pieces).B, C)
<1>1. PICK D : D = set_min_align(C, a) /\ Stay(D, C)
  BY MinAlignStays
<1>2. Stay(emit_front(D, pieces).B, D)
  BY <1>1, EmitStays DEF Stay
<1> QED BY <1>1, <1>2, StayTwice

LEMMA CreateStays ==
  ASSUME NEW C, DOMAIN C = BuilderFields
  PROVE  /\ \A data, align : Stay(create_struct(C, data, align).B, C)
         /\ \A data, count, align : Stay(create_vector(C, data, count, align).B, C)
         /\ \A s : Stay(create_string(C, s).B, C)
         /\ \A rs : Stay(create_offset_vector_direct(C, rs).B, C)
         /\ \A data, align, offsets, vt : Stay(create_table(C, data, align, offsets, vt).B, C)
<1>1. ASSUME NEW data, NEW align PROVE Stay(create_struct(C, data, align).B, C)
  BY RaisedEmitStays DEF create_struct
<1>2. ASSUME NEW data, NEW count, NEW align
      PROVE  Stay(create_vector(C, data, count, align).B, C)
  BY RaisedEmitStays DEF create_vector
<1>3. ASSUME NEW s PROVE Stay(create_string(C, s).B, C)
  BY EmitStays DEF create_string
<1>4. ASSUME NEW rs PROVE Stay(create_offset_vector_direct(C, rs).B, C)
  BY RaisedEmitStays DEF create_offset_vector_direct
<1>5. ASSUME NEW data, NEW align, NEW offsets, NEW vt
      PROVE  Stay(create_table(C, data, align, offsets, vt).B, C)
  BY RaisedEmitStays DEF create_table
<1> QED BY <1>1, <1>2, <1>3, <1>4, <1>5

LEMMA VtableStays ==
  ASSUME NEW C, DOMAIN C = BuilderFields, NEW vt
  PROVE  Stay(create_vtable(C, vt).B, C)
<1>1. PICK data : data = Gathered([i \in DOMAIN vt |-> write_voffset(vt[i])])
  OBVIOUS
<1>2. PICK f, g : f = emit_front(C, <<data>>) /\ g = emit_back(C, <<data>>)
  OBVIOUS
<1>3. Stay(f.B, C) /\ Stay(g.B, C)
  BY <1>2, EmitStays
<1>4. create_vtable(C, vt) = IF is_top_buffer(C) /\ ~C.disable_vt_clustering THEN g
                             ELSE IF f.ref = 0 THEN f ELSE Result(f.B, f.ref + 1)
  BY <1>1, <1>2 DEF create_vtable
<1>5. Result(f.B, f.ref + 1).B = f.B
  BY DEF Result
<1> QED BY ONLY <1>3, <1>4, <1>5

LEMMA AllocStays ==
  ASSUME NEW C, DOMAIN C = BuilderFields
  PROVE  Stay(alloc_vd(C), C)
<1>1. PICK vd, room, chain :
         /\ vd = Append(C.vd, [nest_id |-> C.nest_id, vt_ref |-> 0, vb_start |-> 0])
         /\ room = (IF moved(C) THEN 2 * C.vd_room ELSE C.vd_room)
         /\ chain = <<Len(C.vd) + 1>> \o C.chain
  OBVIOUS
<1>2. PICK D : D = [C EXCEPT !.vd = vd, !.vd_room = room, !.chain = chain]
  OBVIOUS
<1>3. D = alloc_vd(C)
  BY ONLY <1>1, <1>2 DEF alloc_vd
<1>4. Stay(D, C)
  BY ONLY <1>2, DOMAIN C = BuilderFields DEF BuilderFields, StackFields, Stay
<1> QED BY ONLY <1>3, <1>4

LEMMA CacheStays ==
  ASSUME NEW C, DOMAIN C = BuilderFields, NEW vt
  PROVE  Stay(CacheEntries(C, vt), C)
<1>1. PICK none, vd, vb : /\ none = <<>> /\ vb = C.vb \o vt
                          /\ vd = [C.vd EXCEPT ![Len(C.vd)].vb_start = Len(C.vb)]
  OBVIOUS
<1>2. PICK D : D = [C EXCEPT !.chain = none, !.vd = none, !.vb = none]
  OBVIOUS
<1>3. PICK G : G = [C EXCEPT !.vd = vd, !.vb = vb]
  OBVIOUS
<1>4. Stay(D, C)
  BY ONLY <1>2, DOMAIN C = BuilderFields DEF BuilderFields, StackFields, Stay
<1>5. Stay(G, C)
  BY ONLY <1>3, DOMAIN C = BuilderFields DEF BuilderFields, StackFields, Stay
<1>6. CacheEntries(C, vt) = D \/ CacheEntries(C, vt) = G
  BY ONLY <1>1, <1>2, <1>3 DEF CacheEntries, flatcc_builder_flush_vtable_cache
<1> QED BY ONLY <1>4, <1>5, <1>6

LEMMA CachedStays ==
  ASSUME NEW C, NEW v, Stay(v.B, C), NEW vt, NEW starts
  PROVE  Stay(Cached(v, vt, starts).B, C)
<1>1. PICK G, n, ref, at : /\ G = v.B /\ n = Len(v.B.vd) /\ ref = v.ref
                           /\ at = starts[1]
  OBVIOUS
<1>2. DOMAIN G = BuilderFields
  BY <1>1 DEF Stay
<1>3. PICK vd : vd = [G.vd EXCEPT ![n].vt_ref = ref]
  OBVIOUS
<1>4. PICK D : D = [G EXCEPT !.vd = vd]
  OBVIOUS
<1>5. PICK w : w = [D.vd EXCEPT ![n].vb_start = at]
  OBVIOUS
<1>6. PICK F : F = [D EXCEPT !.vd = w]
  OBVIOUS
<1>7. Stay(D, G)
  BY ONLY <1>2, <1>4 DEF BuilderFields, StackFields, Stay
<1>8. DOMAIN D = BuilderFields
  BY <1>7 DEF Stay
<1>9. Stay(F, D)
  BY ONLY <1>6, <1>8 DEF BuilderFields, StackFields, Stay
<1>10. PICK K : K = CacheEntries(D, vt)
  OBVIOUS
<1>11. Stay(K, D)
  BY <1>8, <1>10, CacheStays
<1>12. Stay(K, C) /\ Stay(F, C)
  BY <1>1, <1>7, <1>9, <1>11, StayTwice
<1>13. Cached(v, vt, starts) = v \/ Cached(v, vt, starts) = Result(K, ref)
       \/ Cached(v, vt, starts) = Result(F, ref)
  BY ONLY <1>1, <1>3, <1>4, <1>5, <1>6, <1>10 DEF Cached
<1>14. Result(K, ref).B = K /\ Result(F, ref).B = F
  BY DEF Result
<1> QED BY ONLY <1>12, <1>13, <1>14, Stay(v.B, C)

LEMMA CachedVtableStays ==
  ASSUME NEW C, DOMAIN C = BuilderFields, NEW vt, NEW junk
  PROVE  Stay(create_cached_vtable(C, vt, junk).B, C)
<1>1. PICK A : A = alloc_vd(C)
  OBVIOUS
<1>2. Stay(A, C) /\ DOMAIN A = BuilderFields
  BY <1>1, AllocStays DEF Stay
<1>3. PICK v : v = create_vtable(A, vt)
  OBVIOUS
<1>4. Stay(v.B, C)
  BY <1>2, <1>3, VtableStays, StayTwice
<1>5. ASSUME NEW chain, NEW ref PROVE Stay(Result([C EXCEPT !.chain = chain], ref).B, C)
  <2>1. PICK D : D = [C EXCEPT !.chain = chain]
    OBVIOUS
  <2>2. Stay(D, C)
    BY ONLY <2>1, DOMAIN C = BuilderFields DEF BuilderFields, StackFields, Stay
  <2> QED BY ONLY <2>1, <2>2 DEF Result
<1>6. ASSUME NEW starts PROVE Stay(Cached(v, vt, starts).B, C)
  BY <1>4, CachedStays
<1> DEFINE known == SelectSeq(C.chain, LAMBDA i : Describes(C, C.vd[i], vt))
           here == SelectSeq(known, LAMBDA i : C.vd[i].nest_id = C.nest_id)
           starts == IF known = <<>> THEN <<>>
                     ELSE IF moved(C) THEN <<junk>>
                     ELSE <<C.vd[Last(known)].vb_start>>
           chain == <<here[1]>> \o SelectSeq(C.chain, LAMBDA i : i # here[1])
<1>7. create_cached_vtable(C, vt, junk)
        = IF here # <<>> THEN Result([C EXCEPT !.chain = chain], C.vd[here[1]].vt_ref)
          ELSE Cached(v, vt, starts)
  BY <1>1, <1>3, Zenon DEF create_cached_vtable
<1> HIDE DEF known, here, starts, chain
<1>8. CASE here # <<>>
  BY <1>5, <1>7, <1>8
<1>9. CASE here = <<>>
  BY <1>6, <1>7, <1>9
<1> QED BY <1>8, <1>9

LEMMA CreateBufferStays ==
  ASSUME NEW C, DOMAIN C = BuilderFields, NEW identifier, NEW block_align, NEW object_ref,
         NEW align, NEW is_nested, NEW with_size
  PROVE  Stay(create_buffer(C, identifier, block_align, object_ref, align, is_nested,
                            with_size).B, C)
<1>1. PICK block, most : /\ block = (IF block_align # 0 THEN block_align
                                     ELSE IF C.block_align # 0 THEN C.block_align ELSE 1)
                         /\ most = Greater(Greater(align, field_size), block)
  OBVIOUS
<1>2. PICK a : a = align_to_block(C, block, is_nested)
  OBVIOUS
<1>3. create_buffer(C, identifier, block_align, object_ref, align, is_nested, with_size)
        = WithHeader(a, identifier, object_ref, most, is_nested, with_size)
  BY <1>1, <1>2 DEF create_buffer
<1>4. Stay(a.B, C)
  <2>1. PICK pad : pad = back_pad(C, block)
    OBVIOUS
  <2>2. a = Result(C, 1) \/ a = emit_back(C, <<_pad(pad)>>)
    BY <1>2, <2>1 DEF align_to_block
  <2>3. Result(C, 1).B = C
    BY DEF Result
  <2> QED BY <2>2, <2>3, EmitStays, StaySelf
<1>5. PICK w : w = WithHeader(a, identifier, object_ref, most, is_nested, with_size)
  OBVIOUS
<1>6. w = a \/ \E iov : w = emit_front(set_min_align(a.B, most), iov)
  BY ONLY <1>5 DEF WithHeader
<1>7. CASE w = a
  BY <1>3, <1>4, <1>5, <1>7
<1>8. CASE \E iov : w = emit_front(set_min_align(a.B, most), iov)
  <2>1. PICK iov : w = emit_front(set_min_align(a.B, most), iov)
    BY <1>8
  <2>2. Stay(w.B, a.B)
    BY <1>4, <2>1, RaisedEmitStays DEF Stay
  <2> QED BY <1>3, <1>4, <1>5, <2>2, StayTwice
<1> QED BY <1>6, <1>7, <1>8

\* The entries of the table are zero again.
Wiped(D, C) ==
    /\ D.vs_mem = [i \in DOMAIN C.vs_mem |->
                      IF i \in C.vs - 2 .. C.vs + C.id_end - 1 THEN 0 ELSE C.vs_mem[i]]
    /\ D.ds_mem = C.ds_mem /\ D.ds = C.ds /\ D.ds_first = C.ds_first
    /\ D.ds_offset = C.ds_offset /\ D.ds_limit = C.ds_limit /\ D.frame = C.frame
    /\ DOMAIN D = BuilderFields

LEMMA EmitTableWipes ==
  ASSUME NEW C, DOMAIN C = BuilderFields, NEW c, NEW vt_ref
  PROVE  Wiped(EmitTable(C, c, vt_ref).B, C)
<1>1. PICK mem : mem = [i \in DOMAIN C.vs_mem |->
                          IF i \in C.vs - 2 .. C.vs + C.id_end - 1 THEN 0 ELSE C.vs_mem[i]]
  OBVIOUS
<1>2. PICK D : D = [C EXCEPT !.vs_mem = mem]
  OBVIOUS
<1>3. /\ D.vs_mem = mem /\ D.ds_mem = C.ds_mem /\ D.ds = C.ds /\ D.ds_first = C.ds_first
      /\ D.ds_offset = C.ds_offset /\ D.ds_limit = C.ds_limit /\ D.frame = C.frame
      /\ DOMAIN D = BuilderFields
  BY ONLY <1>2, DOMAIN C = BuilderFields DEF BuilderFields
<1>4. PICK data, offsets : /\ data = Peek(C, 0, C.ds_offset)
         /\ offsets = [i \in 1 .. C.pl - c.pl_end |-> C.pl_mem[c.pl_end + i - 1]]
  OBVIOUS
<1>5. PICK t : t = create_table(D, data, C.align, offsets, vt_ref)
  OBVIOUS
<1>6. t = EmitTable(C, c, vt_ref)
  BY <1>1, <1>2, <1>4, <1>5 DEF EmitTable
<1>7. Stay(t.B, D)
  BY <1>3, <1>5, CreateStays
<1> QED BY ONLY <1>1, <1>3, <1>6, <1>7, StayFields DEF Wiped

-----------------------------------------------------------------------------
(* The stacks of the builder *)

\* What fields of frame l hold of the object it is for.
KindAt(op, l) == Doc[op[l].o].kind
ElemSize(o) ==
    CASE Doc[o].kind = "vector" -> Len(Doc[o].elems[1])
      [] Doc[o].kind = "string" -> 1
      [] Doc[o].kind = "offsets" -> field_size
      [] Doc[o].kind = "unions" -> union_size

\* V and I are where the entries of each open table begin and how many it has;
\* other objects have those of the table around them.
IsChained(c, kind, v0, i0, v, i) ==
    IF kind = "table" THEN c.vs_end = v0 /\ c.id_end = i0 /\ v = v0 + i0 + 2
    ELSE v = v0 /\ i = i0
Chained(C, op, V, I) ==
    /\ V \in [0 .. Len(op) -> Nat] /\ I \in [0 .. Len(op) -> Nat]
    /\ \A l \in 1 .. Len(op) :
          IsChained(C.frame[l].c, KindAt(op, l), V[l - 1], I[l - 1], V[l], I[l])

\* A frame of elements knows their size, and counts them.
IsSized(c, o) ==
    Doc[o].kind \in Elements => c.count \in Nat /\ c.elem_size = ElemSize(o)
Sized(C, op) == \A l \in 1 .. Len(op) : IsSized(C.frame[l].c, op[l].o)

\* Buffers have no bytes on the stack.
Piled(C, op, F, O, V, I) ==
    /\ Laid(C, F, O) /\ Chained(C, op, V, I) /\ Sized(C, op)
    /\ Len(C.frame) = Len(op)
    /\ \A l \in 1 .. Len(op) : KindAt(op, l) = "buffer" => O[l] = 0
    /\ Len(op) > 0 /\ KindAt(op, Len(op)) # "buffer" => Aimed(C)
StacksAt(C, op, F, O, V, I) ==
    /\ Piled(C, op, F, O, V, I) /\ IsEntries(C)
    /\ V[Len(op)] = C.vs /\ I[Len(op)] = C.id_end

\* Whatever is open, or was when a call failed.
Loose(C) ==
    /\ C.ds_first \in Nat /\ IsSeq(C.ds_mem) /\ C.id_end \in Nat
    /\ C.vs_mem = [i \in 0 .. Fields |-> C.vs_mem[i]]

LEMMA StacksLoose ==
  ASSUME NEW C, NEW op, NEW F, NEW O, NEW V, NEW I, StacksAt(C, op, F, O, V, I),
         Len(op) \in Nat
  PROVE  Loose(C)
<1>1. PICK n \in Nat : n = Len(op) /\ n = Len(C.frame)
  BY DEF StacksAt, Piled
<1>2. F \in [0 .. n -> Nat] /\ F[n] = C.ds_first /\ IsSeq(C.ds_mem)
  BY <1>1 DEF StacksAt, Piled, Laid
<1>3. C.ds_first \in Nat
  BY ONLY <1>2, n \in Nat
<1> QED BY <1>2, <1>3 DEF StacksAt, IsEntries, Loose

LEMMA StayLoose ==
  ASSUME NEW C, NEW D, Stay(D, C), Loose(C)
  PROVE  Loose(D)
<1>1. D.ds_mem = C.ds_mem /\ D.ds_first = C.ds_first /\ D.vs_mem = C.vs_mem /\ D.id_end = C.id_end
  BY StayFields
<1> QED BY ONLY <1>1, Loose(C) DEF Loose

LEMMA StayLaid ==
  ASSUME NEW C, NEW D, Stay(D, C), NEW F, NEW O, Laid(C, F, O)
  PROVE  Laid(D, F, O)
<1>1. /\ D.ds_mem = C.ds_mem /\ D.ds_first = C.ds_first /\ D.ds_offset = C.ds_offset
      /\ D.frame = C.frame
  BY StayFields
<1>2. \A i : Byte(D, i) = Byte(C, i)
  BY <1>1 DEF Byte
<1> QED BY ONLY <1>1, <1>2, Laid(C, F, O) DEF Laid

\* Only the objects that are open matter, and not which of their parts are there.
LEMMA SameOpen ==
  ASSUME NEW C, NEW op, NEW F, NEW O, NEW V, NEW I, StacksAt(C, op, F, O, V, I),
         NEW op2, Len(op2) = Len(op), \A l \in 1 .. Len(op) : op2[l].o = op[l].o,
         Len(op) \in Nat
  PROVE  StacksAt(C, op2, F, O, V, I)
<1>1. PICK n \in Nat : n = Len(op) /\ n = Len(op2)
  OBVIOUS
<1>2. \A l \in 1 .. n : KindAt(op2, l) = KindAt(op, l)
  BY <1>1 DEF KindAt
<1>3. Chained(C, op2, V, I)
  BY ONLY <1>1, <1>2, StacksAt(C, op, F, O, V, I) DEF StacksAt, Piled, Chained
<1>4. Sized(C, op2)
  BY <1>1 DEF StacksAt, Piled, Sized
<1>5. n > 0 => KindAt(op2, n) = KindAt(op, n)
  BY ONLY <1>2, n \in Nat
<1> QED BY ONLY <1>1, <1>2, <1>3, <1>4, <1>5, StacksAt(C, op, F, O, V, I) DEF StacksAt, Piled

\* Other bytes, or entries, of the innermost object, which is not a buffer.
LEMMA StacksWithin ==
  ASSUME NEW C, NEW op, NEW F, NEW O, NEW V, NEW I, StacksAt(C, op, F, O, V, I),
         NEW n \in Nat \ {0}, n = Len(op), KindAt(op, n) # "buffer",
         NEW D, Tidy(D), SamePlaces(D, C), D.ds_first = C.ds_first, SameBelow(D, C, 0),
         Len(D.ds_mem) >= Len(C.ds_mem),
         \A l \in 1 .. n - 1 : D.frame[l].c = C.frame[l].c,
         IsSized(D.frame[n].c, op[n].o), IsEntries(D), D.vs = C.vs,
         KindAt(op, n) = "table" => D.frame[n].c = C.frame[n].c,
         KindAt(op, n) # "table" => D.id_end = C.id_end
  PROVE  StacksAt(D, op, F, [O EXCEPT ![n] = D.ds_offset], V, [I EXCEPT ![n] = D.id_end])
<1>1. PICK P, J : P = [O EXCEPT ![n] = D.ds_offset] /\ J = [I EXCEPT ![n] = D.id_end]
  OBVIOUS
<1>2. Laid(C, F, O) /\ Len(C.frame) = n
  BY DEF StacksAt, Piled
<1>3. Laid(D, F, P)
  BY <1>1, <1>2, LaidWithin
<1>4. Len(D.frame) = n
  BY <1>2 DEF SamePlaces
<1>5. PICK e \in Nat : e = D.id_end
  BY DEF IsEntries
<1>6. /\ V \in [0 .. n -> Nat] /\ I \in [0 .. n -> Nat] /\ V[n] = C.vs /\ I[n] = C.id_end
      /\ \A l \in 1 .. n :
            IsChained(C.frame[l].c, KindAt(op, l), V[l - 1], I[l - 1], V[l], I[l])
  BY DEF StacksAt, Piled, Chained
<1>7. J \in [0 .. n -> Nat] /\ J[n] = e /\ \A l \in 0 .. n : l # n => J[l] = I[l]
  BY ONLY <1>1, <1>5, <1>6, n \in Nat, e \in Nat
<1>8. ASSUME NEW l \in 1 .. n
      PROVE  IsChained(D.frame[l].c, KindAt(op, l), V[l - 1], J[l - 1], V[l], J[l])
  <2>1. l - 1 \in 0 .. n /\ l - 1 # n /\ l \in 0 .. n
    OBVIOUS
  <2>2. J[l - 1] = I[l - 1]
    BY ONLY <1>7, <2>1
  <2>3. CASE l # n
    <3>1. l \in 1 .. n - 1
      BY <2>3
    <3>2. D.frame[l].c = C.frame[l].c
      BY <3>1
    <3>3. J[l] = I[l]
      BY ONLY <1>7, <2>1, <2>3
    <3> QED BY ONLY <1>6, <2>2, <3>2, <3>3, l \in 1 .. n
  <2>4. CASE l = n /\ KindAt(op, n) = "table"
    <3>1. D.frame[n].c = C.frame[n].c
      BY <2>4
    <3> QED BY ONLY <1>6, <2>2, <2>4, <3>1, l \in 1 .. n DEF IsChained
  <2>5. CASE l = n /\ KindAt(op, n) # "table"
    <3>1. J[n] = I[n]
      BY <1>5, <1>6, <1>7, <2>5
    <3> QED BY ONLY <1>6, <2>2, <2>5, <3>1, l \in 1 .. n DEF IsChained
  <2> QED BY <2>3, <2>4, <2>5
<1>9. Chained(D, op, V, J)
  BY ONLY <1>6, <1>7, <1>8, n = Len(op) DEF Chained
<1>10. ASSUME NEW l \in 1 .. n PROVE IsSized(D.frame[l].c, op[l].o)
  <2>1. CASE l # n
    <3>1. l \in 1 .. n - 1
      BY <2>1
    <3>2. D.frame[l].c = C.frame[l].c
      BY <3>1
    <3>3. IsSized(C.frame[l].c, op[l].o)
      BY DEF StacksAt, Piled, Sized
    <3> QED BY ONLY <3>2, <3>3
  <2> QED BY <2>1
<1>11. ASSUME NEW l \in 1 .. n, KindAt(op, l) = "buffer" PROVE P[l] = 0
  <2>1. O[l] = 0 /\ l # n /\ l \in 0 .. n
    BY <1>11 DEF StacksAt, Piled
  <2>2. O \in [0 .. n -> Nat]
    BY <1>2 DEF Laid
  <2> QED BY ONLY <1>1, <2>1, <2>2
<1>12. Aimed(D)
  BY DEF Tidy
<1>13. Piled(D, op, F, P, V, J)
  BY ONLY <1>3, <1>4, <1>9, <1>10, <1>11, <1>12, n = Len(op) DEF Piled, Sized
<1>14. StacksAt(D, op, F, P, V, J)
  BY ONLY <1>5, <1>6, <1>7, <1>13, n = Len(op), IsEntries(D), D.vs = C.vs DEF StacksAt
<1> QED BY <1>1, <1>14

\* An object that was started.
LEMMA StacksOpened ==
  ASSUME NEW C, NEW op, NEW F, NEW O, NEW V, NEW I, StacksAt(C, op, F, O, V, I),
         NEW n \in Nat, n = Len(op), NEW o, NEW more, Len(more) = n + 1,
         more[n + 1].o = o, \A l \in 1 .. n : more[l].o = op[l].o,
         NEW D, NEW c, Deeper(D, C, c), IsSized(c, o), IsEntries(D),
         IsChained(c, Doc[o].kind, C.vs, C.id_end, D.vs, D.id_end),
         Doc[o].kind # "buffer" => Aimed(D)
  PROVE  \E F2, O2, V2, I2 :
            /\ StacksAt(D, more, F2, O2, V2, I2)
            /\ \A l \in 1 .. n : F2[l] = F[l] /\ O2[l] = O[l] /\ V2[l] = V[l] /\ I2[l] = I[l]
<1>1. PICK v \in Nat, i \in Nat : v = D.vs /\ i = D.id_end
  BY DEF IsEntries
<1>2. PICK G, P, W, J : /\ G = Longer(F, n + 1, D.ds_first) /\ P = Longer(O, n + 1, 0)
                        /\ W = Longer(V, n + 1, v) /\ J = Longer(I, n + 1, i)
  OBVIOUS
<1>3. Laid(C, F, O) /\ Len(C.frame) = n
  BY DEF StacksAt, Piled
<1>4. Laid(D, G, P)
  BY <1>2, <1>3, LaidDeeper
<1>5. /\ V \in [0 .. n -> Nat] /\ I \in [0 .. n -> Nat] /\ V[n] = C.vs /\ I[n] = C.id_end
      /\ \A l \in 1 .. n :
            IsChained(C.frame[l].c, KindAt(op, l), V[l - 1], I[l - 1], V[l], I[l])
      /\ \A l \in 1 .. n : IsSized(C.frame[l].c, op[l].o)
      /\ \A l \in 1 .. n : KindAt(op, l) = "buffer" => O[l] = 0
  BY DEF StacksAt, Piled, Chained, Sized
<1>6. /\ W = [l \in 0 .. n + 1 |-> IF l = n + 1 THEN v ELSE V[l]]
      /\ J = [l \in 0 .. n + 1 |-> IF l = n + 1 THEN i ELSE I[l]]
      /\ P = [l \in 0 .. n + 1 |-> IF l = n + 1 THEN 0 ELSE O[l]]
  BY <1>2 DEF Longer
<1>7. /\ W \in [0 .. n + 1 -> Nat] /\ J \in [0 .. n + 1 -> Nat]
      /\ W[n + 1] = v /\ J[n + 1] = i /\ P[n + 1] = 0
      /\ \A l \in 0 .. n : W[l] = V[l] /\ J[l] = I[l] /\ P[l] = O[l]
  BY ONLY <1>5, <1>6, n \in Nat, v \in Nat, i \in Nat
<1>8. /\ Len(D.frame) = n + 1 /\ D.frame[n + 1].c = c
      /\ \A l \in 1 .. n : D.frame[l].c = C.frame[l].c
  BY ONLY <1>3, Deeper(D, C, c) DEF Deeper
<1>9. KindAt(more, n + 1) = Doc[o].kind /\ \A l \in 1 .. n : KindAt(more, l) = KindAt(op, l)
  BY DEF KindAt
<1>10. ASSUME NEW l \in 1 .. n + 1
       PROVE  /\ IsChained(D.frame[l].c, KindAt(more, l), W[l - 1], J[l - 1], W[l], J[l])
              /\ IsSized(D.frame[l].c, more[l].o)
              /\ KindAt(more, l) = "buffer" => P[l] = 0
  <2>1. l - 1 \in 0 .. n
    OBVIOUS
  <2>2. CASE l = n + 1
    <3>1. l - 1 = n
      BY <2>2
    <3>2. W[n] = C.vs /\ J[n] = C.id_end
      BY ONLY <1>5, <1>7, <2>1, <3>1
    <3>3. IsChained(c, Doc[o].kind, W[n], J[n], W[n + 1], J[n + 1])
      BY ONLY <1>1, <1>7, <3>2, IsChained(c, Doc[o].kind, C.vs, C.id_end, D.vs, D.id_end)
    <3> QED BY ONLY <1>7, <1>8, <1>9, <2>2, <3>1, <3>3, IsSized(c, o), more[n + 1].o = o
  <2>3. CASE l # n + 1
    <3>1. l \in 1 .. n /\ l \in 0 .. n
      BY <2>3
    <3>2. more[l].o = op[l].o
      BY <3>1
    <3> QED BY ONLY <1>5, <1>7, <1>8, <1>9, <2>1, <3>1, <3>2
  <2> QED BY <2>2, <2>3
<1>11. Chained(D, more, W, J) /\ Sized(D, more)
  BY ONLY <1>7, <1>10, Len(more) = n + 1 DEF Chained, Sized
<1>12. Piled(D, more, G, P, W, J)
  BY ONLY <1>4, <1>8, <1>9, <1>10, <1>11, Len(more) = n + 1,
          Doc[o].kind # "buffer" => Aimed(D) DEF Piled
<1>13. StacksAt(D, more, G, P, W, J)
  BY ONLY <1>1, <1>7, <1>12, Len(more) = n + 1, IsEntries(D) DEF StacksAt
<1>14. ASSUME NEW l \in 1 .. n
       PROVE  G[l] = F[l] /\ P[l] = O[l] /\ W[l] = V[l] /\ J[l] = I[l]
  <2>1. l \in 0 .. n /\ l \in 0 .. n + 1 /\ l # n + 1
    OBVIOUS
  <2>2. G = [k \in 0 .. n + 1 |-> IF k = n + 1 THEN D.ds_first ELSE F[k]]
    BY ONLY <1>2 DEF Longer
  <2> QED BY ONLY <1>7, <2>1, <2>2
<1> QED BY ONLY <1>13, <1>14

\* An object that was emitted, and whose frame is left.
LEMMA StacksClosed ==
  ASSUME NEW C, NEW op, NEW F, NEW O, NEW V, NEW I, Piled(C, op, F, O, V, I),
         NEW n \in Nat, n + 1 = Len(op), NEW less, Len(less) = n,
         \A l \in 1 .. n : less[l].o = op[l].o,
         IsEntries(C), V[n] = C.vs, I[n] = C.id_end,
         NEW ks, Standing(C, ks), NEW D, D = exit_frame(C)
  PROVE  /\ StacksAt(D, less, First(F, n), First(O, n), First(V, n), First(I, n))
         /\ SameEntries(D, C) /\ \A i \in Nat : i <= C.ds_first => Byte(D, i) = Byte(C, i)
<1>1. PICK G, P, W, J : G = First(F, n) /\ P = First(O, n) /\ W = First(V, n) /\ J = First(I, n)
  OBVIOUS
<1>2. Len(op) = n + 1 /\ n + 1 \in 1 .. n + 1 /\ n + 1 > 0
  OBVIOUS
<1>3. /\ Laid(C, F, O) /\ Len(C.frame) = n + 1
      /\ KindAt(op, n + 1) = "buffer" => O[n + 1] = 0
      /\ KindAt(op, n + 1) # "buffer" => Aimed(C)
  BY ONLY <1>2, Piled(C, op, F, O, V, I) DEF Piled
<1>4. O[n + 1] = C.ds_offset
  BY <1>3 DEF Laid
<1>5. C.ds_offset > 0 => Aimed(C)
  BY <1>3, <1>4
<1>6. /\ Laid(D, G, P) /\ Aimed(D) /\ SameEntries(D, C)
      /\ Len(D.frame) = n /\ \A l \in 1 .. n : D.frame[l].c = C.frame[l].c
      /\ \A i \in Nat : i <= C.ds_first => Byte(D, i) = Byte(C, i)
  BY ONLY <1>1, <1>3, <1>5, ExitLaid, Standing(C, ks), n \in Nat, D = exit_frame(C)
<1>7. /\ V \in [0 .. n + 1 -> Nat] /\ I \in [0 .. n + 1 -> Nat]
      /\ \A l \in 1 .. n + 1 :
            IsChained(C.frame[l].c, KindAt(op, l), V[l - 1], I[l - 1], V[l], I[l])
      /\ \A l \in 1 .. n + 1 : IsSized(C.frame[l].c, op[l].o)
      /\ \A l \in 1 .. n + 1 : KindAt(op, l) = "buffer" => O[l] = 0
  BY ONLY <1>2, Piled(C, op, F, O, V, I) DEF Piled, Chained, Sized
<1>8. /\ W \in [0 .. n -> Nat] /\ J \in [0 .. n -> Nat]
      /\ \A l \in 0 .. n : W[l] = V[l] /\ J[l] = I[l] /\ P[l] = O[l]
  BY ONLY <1>1, <1>7, n \in Nat DEF First
<1>9. \A l \in 1 .. n : KindAt(less, l) = KindAt(op, l)
  BY DEF KindAt
<1>10. ASSUME NEW l \in 1 .. n
       PROVE  /\ IsChained(D.frame[l].c, KindAt(less, l), W[l - 1], J[l - 1], W[l], J[l])
              /\ IsSized(D.frame[l].c, less[l].o)
              /\ KindAt(less, l) = "buffer" => P[l] = 0
  <2>1. l - 1 \in 0 .. n /\ l \in 0 .. n /\ l \in 1 .. n + 1
    OBVIOUS
  <2>2. less[l].o = op[l].o
    OBVIOUS
  <2> QED BY ONLY <1>6, <1>7, <1>8, <1>9, <2>1, <2>2, l \in 1 .. n
<1>11. Piled(D, less, G, P, W, J)
  BY ONLY <1>6, <1>8, <1>10, Len(less) = n DEF Piled, Chained, Sized
<1>12. IsEntries(D)
  BY <1>6, SameEntriesKept
<1>13. W[n] = D.vs /\ J[n] = D.id_end
  <2>1. n \in 0 .. n
    OBVIOUS
  <2> QED BY ONLY <1>6, <1>8, <2>1, V[n] = C.vs, I[n] = C.id_end DEF SameEntries
<1>14. StacksAt(D, less, G, P, W, J)
  BY ONLY <1>11, <1>12, <1>13, Len(less) = n DEF StacksAt
<1> QED BY ONLY <1>1, <1>6, <1>14

-----------------------------------------------------------------------------
(* The fields of the open tables *)

\* A field k of a table lies where its vtable entry says, if the table is small
\* enough for the entry to say it: the bytes of the table are those from F0 up
\* to O0, its entries those from V0, I0 of them.
FieldAt(C, F0, O0, V0, I0, k) ==
    /\ k.id \in Nat /\ k.id < I0 /\ IsSeq(k.data)
    /\ \E off \in Nat :
          /\ off + Len(k.data) <= O0
          /\ off + field_size <= VOFFSET_MAX /\ V0 + k.id <= Fields
                => C.vs_mem[V0 + k.id] = off + field_size
          /\ \A j \in 1 .. Len(k.data) : Byte(C, F0 + off + j) = k.data[j]
\* The innermost object is a table with the field k.
Has(C, k) == FieldAt(C, C.ds_first, C.ds_offset, C.vs, C.id_end, k)

\* The fields that an open object is said to have are there.
LevelHeld(C, x, F0, O0, V0, I0) ==
    /\ Doc[x.o].kind # "table" => x.has = {}
    /\ \A k \in x.has : FieldAt(C, F0, O0, V0, I0, k)
Held(C, op, F, O, V, I) ==
    \A l \in 1 .. Len(op) : LevelHeld(C, op[l], F[l], O[l], V[l], I[l])

\* The bytes up to b and the entries below e are the same.
Agree(D, C, b, e) ==
    /\ \A i \in Nat : i <= b => Byte(D, i) = Byte(C, i)
    /\ \A i \in 0 .. Fields : i < e => D.vs_mem[i] = C.vs_mem[i]

LEMMA FieldStays ==
  ASSUME NEW C, NEW D, NEW F0 \in Nat, NEW O0 \in Nat, NEW V0 \in Nat, NEW I0 \in Nat, NEW k,
         FieldAt(C, F0, O0, V0, I0, k), Agree(D, C, F0 + O0, V0 + I0),
         NEW O1 \in Nat, O0 <= O1, NEW I1 \in Nat, I0 <= I1
  PROVE  FieldAt(D, F0, O1, V0, I1, k)
<1>1. PICK off \in Nat :
         /\ off + Len(k.data) <= O0
         /\ off + field_size <= VOFFSET_MAX /\ V0 + k.id <= Fields
               => C.vs_mem[V0 + k.id] = off + field_size
         /\ \A j \in 1 .. Len(k.data) : Byte(C, F0 + off + j) = k.data[j]
  BY DEF FieldAt
<1>2. PICK id \in Nat, m \in Nat : id = k.id /\ m = Len(k.data) /\ id < I0 /\ IsSeq(k.data)
  BY DEF FieldAt, IsSeq
<1>3. off + m <= O1 /\ id < I1
  BY ONLY <1>1, <1>2, off \in Nat, m \in Nat, id \in Nat, O0 \in Nat, O1 \in Nat, O0 <= O1,
          I0 \in Nat, I1 \in Nat, I0 <= I1
<1>4. V0 + id <= Fields => D.vs_mem[V0 + id] = C.vs_mem[V0 + id]
  <2>1. ASSUME V0 + id <= Fields PROVE V0 + id \in 0 .. Fields /\ V0 + id < V0 + I0
    BY <1>2, <2>1, StackAssumption
  <2> QED BY <2>1 DEF Agree
<1>5. ASSUME NEW j \in 1 .. m PROVE Byte(D, F0 + off + j) = k.data[j]
  <2>1. F0 + off + j \in Nat /\ F0 + off + j <= F0 + O0
    BY ONLY <1>1, <1>2, F0 \in Nat, off \in Nat, j \in 1 .. m, m \in Nat, O0 \in Nat
  <2>2. Byte(D, F0 + off + j) = Byte(C, F0 + off + j)
    BY <2>1 DEF Agree
  <2> QED BY <1>1, <1>2, <2>2
<1> QED BY ONLY <1>1, <1>2, <1>3, <1>4, <1>5, off \in Nat, id \in Nat DEF FieldAt

LEMMA LevelStays ==
  ASSUME NEW C, NEW D, NEW x, NEW F0 \in Nat, NEW O0 \in Nat, NEW V0 \in Nat, NEW I0 \in Nat,
         LevelHeld(C, x, F0, O0, V0, I0), Agree(D, C, F0 + O0, V0 + I0)
  PROVE  LevelHeld(D, x, F0, O0, V0, I0)
<1>1. ASSUME NEW k \in x.has PROVE FieldAt(D, F0, O0, V0, I0, k)
  <2>1. FieldAt(C, F0, O0, V0, I0, k)
    BY DEF LevelHeld
  <2> QED BY <2>1, FieldStays
<1> QED BY <1>1 DEF LevelHeld

LEMMA AgreeLess ==
  ASSUME NEW C, NEW D, NEW b \in Int, NEW e \in Int, Agree(D, C, b, e), NEW b0 \in Int, b0 <= b,
         NEW e0 \in Int, e0 <= e
  PROVE  Agree(D, C, b0, e0)
<1>1. \A i \in Nat : i <= b0 => i <= b
  BY ONLY b \in Int, b0 \in Int, b0 <= b
<1>2. \A i \in 0 .. Fields : i < e0 => i < e
  BY ONLY e \in Int, e0 \in Int, e0 <= e, StackAssumption DEF StackAssumption
<1> QED BY ONLY <1>1, <1>2, Agree(D, C, b, e) DEF Agree

LEMMA AgreeTwice ==
  ASSUME NEW B0, NEW C, NEW D, NEW b, NEW e, Agree(C, B0, b, e), Agree(D, C, b, e)
  PROVE  Agree(D, B0, b, e)
  BY DEF Agree

\* The bytes and the entries are the same.
LEMMA SameHeld ==
  ASSUME NEW C, NEW op, NEW F, NEW O, NEW V, NEW I, Held(C, op, F, O, V, I),
         NEW D, D.ds_mem = C.ds_mem, D.vs_mem = C.vs_mem
  PROVE  Held(D, op, F, O, V, I)
<1>1. \A i : Byte(D, i) = Byte(C, i)
  BY DEF Byte
<1>2. ASSUME NEW F0, NEW O0, NEW V0, NEW I0, NEW k, FieldAt(C, F0, O0, V0, I0, k)
      PROVE  FieldAt(D, F0, O0, V0, I0, k)
  BY ONLY <1>1, <1>2, D.vs_mem = C.vs_mem DEF FieldAt
<1> QED BY ONLY <1>2, Held(C, op, F, O, V, I) DEF Held, LevelHeld

\* The entries of an outer table end where those of an inner one begin, or before.
LEMMA ChainGrows ==
  ASSUME NEW C, NEW op, NEW V, NEW I, Chained(C, op, V, I), NEW n \in Nat, n = Len(op)
  PROVE  \A m \in 0 .. n : \A l \in 0 .. m : V[l] + I[l] <= V[m] + I[m]
<1> DEFINE S == {m \in Nat : m <= n => \A l \in 0 .. m : V[l] + I[l] <= V[m] + I[m]}
<1>1. V \in [0 .. n -> Nat] /\ I \in [0 .. n -> Nat]
  BY DEF Chained
<1>2. 0 \in S
  <2>1. \A l \in 0 .. 0 : l = 0
    OBVIOUS
  <2>2. V[0] + I[0] <= V[0] + I[0]
    BY <1>1
  <2> QED BY <2>1, <2>2
<1>3. ASSUME NEW m \in Nat, m \in S PROVE m + 1 \in S
  <2> SUFFICES ASSUME m + 1 <= n, NEW l \in 0 .. m + 1 PROVE V[l] + I[l] <= V[m + 1] + I[m + 1]
    OBVIOUS
  <2>1. m \in 0 .. n /\ m + 1 \in 1 .. n /\ m + 1 \in 0 .. n /\ (m + 1) - 1 = m /\ m <= n
    OBVIOUS
  <2>2. PICK v \in Nat, i \in Nat, w \in Nat, j \in Nat :
           v = V[m] /\ i = I[m] /\ w = V[m + 1] /\ j = I[m + 1]
    BY ONLY <1>1, <2>1
  <2>3. IsChained(C.frame[m + 1].c, KindAt(op, m + 1), v, i, w, j)
    BY ONLY <2>1, <2>2, n = Len(op), Chained(C, op, V, I) DEF Chained
  <2>4. v + i <= w + j
    BY ONLY <2>3, v \in Nat, i \in Nat, w \in Nat, j \in Nat DEF IsChained
  <2>5. CASE l = m + 1
    BY <2>2, <2>5
  <2>6. CASE l # m + 1
    <3>1. l \in 0 .. m /\ l \in 0 .. n
      BY <2>1, <2>6
    <3>2. V[l] + I[l] <= v + i
      BY <1>3, <2>1, <2>2, <3>1
    <3>3. V[l] \in Nat /\ I[l] \in Nat
      BY ONLY <1>1, <3>1
    <3> QED BY ONLY <2>2, <2>4, <3>2, <3>3, v \in Nat, i \in Nat, w \in Nat, j \in Nat
  <2> QED BY <2>5, <2>6
<1> HIDE DEF S
<1>4. Nat \subseteq S
  BY <1>2, <1>3, NatSetInduction
<1>5. ASSUME NEW m \in 0 .. n PROVE \A l \in 0 .. m : V[l] + I[l] <= V[m] + I[m]
  <2>1. m \in S /\ m <= n
    BY <1>4
  <2> QED BY <2>1 DEF S
<1> QED BY <1>5

\* The outer levels are as they were.
LEMMA HeldBelow ==
  ASSUME NEW C, NEW op, NEW F, NEW O, NEW V, NEW I, Piled(C, op, F, O, V, I),
         Held(C, op, F, O, V, I), NEW m \in Nat, m = Len(op),
         NEW n \in Nat, n <= m, NEW b \in Int, NEW e \in Int,
         \A l \in 1 .. n : F[l] + O[l] <= b, n > 0 => V[n] + I[n] <= e,
         NEW D, Agree(D, C, b, e)
  PROVE  \A l \in 1 .. n : LevelHeld(D, op[l], F[l], O[l], V[l], I[l])
<1> SUFFICES ASSUME NEW l \in 1 .. n PROVE LevelHeld(D, op[l], F[l], O[l], V[l], I[l])
  OBVIOUS
<1>1. l \in 1 .. m /\ l \in 0 .. m /\ l \in 0 .. n /\ n \in 0 .. m /\ n > 0
  OBVIOUS
<1>2. /\ F \in [0 .. m -> Nat] /\ O \in [0 .. m -> Nat]
      /\ V \in [0 .. m -> Nat] /\ I \in [0 .. m -> Nat] /\ Chained(C, op, V, I)
  BY DEF Piled, Laid, Chained
<1>3. PICK f \in Nat, o \in Nat, v \in Nat, i \in Nat :
         f = F[l] /\ o = O[l] /\ v = V[l] /\ i = I[l]
  BY ONLY <1>1, <1>2
<1>4. V[n] \in Nat /\ I[n] \in Nat
  BY ONLY <1>1, <1>2
<1>5. v + i <= V[n] + I[n]
  BY <1>1, <1>2, <1>3, ChainGrows
<1>6. v + i <= e
  BY ONLY <1>1, <1>4, <1>5, v \in Nat, i \in Nat, e \in Int, n > 0 => V[n] + I[n] <= e
<1>7. Agree(D, C, f + o, v + i)
  <2>1. f + o <= b
    BY <1>3
  <2> QED BY <1>6, <2>1, AgreeLess
<1>8. LevelHeld(C, op[l], f, o, v, i)
  BY <1>1, <1>3 DEF Held
<1>9. LevelHeld(D, op[l], f, o, v, i)
  BY <1>7, <1>8, LevelStays
<1> QED BY <1>3, <1>9

-----------------------------------------------------------------------------
(* The stacks of a session *)

\* op are the open objects with the fields they have.
StacksUp(C, op) ==
    \E F, O, V, I : StacksAt(C, op, F, O, V, I) /\ Held(C, op, F, O, V, I)

\* What starting an object needs of the stacks.
Based(C) ==
    /\ C.ds_first \in Nat /\ C.ds_offset \in Nat /\ IsSeq(C.ds_mem) /\ IsEntries(C)
    /\ Len(C.frame) \in Nat

\* D is C with the object o started, which has no bytes yet.
Opens(D, C, o) ==
    \E c : /\ Deeper(D, C, c) /\ IsSized(c, o) /\ IsEntries(D) /\ D.vs_mem = C.vs_mem
           /\ IsChained(c, Doc[o].kind, C.vs, C.id_end, D.vs, D.id_end)
           /\ Doc[o].kind # "buffer" => Aimed(D)

LEMMA StayDeeper ==
  ASSUME NEW B0, NEW C, NEW D, NEW c, Deeper(C, B0, c), Stay(D, C)
  PROVE  Deeper(D, B0, c)
<1>1. /\ D.ds_mem = C.ds_mem /\ D.ds_first = C.ds_first /\ D.ds_offset = C.ds_offset
      /\ D.frame = C.frame
  BY StayFields
<1>2. \A i : Byte(D, i) = Byte(C, i)
  BY <1>1 DEF Byte
<1> QED BY ONLY <1>1, <1>2, Deeper(C, B0, c) DEF Deeper

LEMMA StartBufferOpens ==
  ASSUME NEW C, NEW ks, Standing(C, ks), Based(C), NEW block_align \in Nat, NEW with_size,
         NEW o, Doc[o].kind = "buffer"
  PROVE  Opens(start_buffer(C, _pad(4), block_align, with_size), C, o)
<1>1. C.min_align \in Nat
  BY DEF Standing, IsBuilder
<1>2. PICK c : c = [block_align |-> C.block_align, with_size |-> C.with_size,
                    mark |-> C.buffer_mark, nest_id |-> C.nest_id,
                    identifier |-> C.identifier]
  OBVIOUS
<1>3. PICK F : F = enter_frame(C, C.min_align, "buffer", c)
  OBVIOUS
<1>4. Deeper(F, C, c) /\ SameEntries(F, C)
  BY <1>3, EnterDeeper DEF Based
<1>5. DOMAIN F = BuilderFields
  BY <1>3 DEF enter_frame, Standing, IsBuilder
<1>6. PICK u, v, w, p : u = C.emit_start /\ v = C.nest_count /\ w = F.nest_count + 1 /\ p = _pad(4)
  OBVIOUS
<1>7. PICK D : D = [F EXCEPT !.min_align = 1, !.block_align = block_align,
                       !.with_size = with_size, !.buffer_mark = u, !.nest_id = v,
                       !.nest_count = w, !.identifier = p]
  OBVIOUS
<1>8. D = start_buffer(C, _pad(4), block_align, with_size)
  BY <1>2, <1>3, <1>6, <1>7 DEF start_buffer
<1>9. Stay(D, F)
  BY ONLY <1>5, <1>7 DEF BuilderFields, StackFields, Stay
<1>10. Deeper(D, C, c)
  BY <1>4, <1>9, StayDeeper
<1>11. D.vs_mem = C.vs_mem /\ D.vs = C.vs /\ D.id_end = C.id_end
  BY <1>4, <1>9, StayFields DEF SameEntries
<1>12. IsEntries(D)
  BY <1>11 DEF Based, IsEntries
<1>13. IsSized(c, o)
  BY DEF IsSized, Elements
<1>14. IsChained(c, Doc[o].kind, C.vs, C.id_end, D.vs, D.id_end)
  BY <1>11 DEF IsChained
<1> QED BY <1>8, <1>10, <1>11, <1>12, <1>13, <1>14 DEF Opens

LEMMA StartTableOpens ==
  ASSUME NEW C, NEW ks, Standing(C, ks), Based(C), NEW o, Doc[o].kind = "table"
  PROVE  Opens(start_table(C), C, o)
<1>1. C.id_end \in Int /\ ks \in Seq(Kinds) /\ "table" \in Kinds
  BY KindsOfStanding DEF Standing, IsBuilder, Kinds
<1>2. PICK c : c = [vs_end |-> C.vs, pl_end |-> C.pl, id_end |-> C.id_end]
  OBVIOUS
<1>3. IsContainer(c, "table")
  <2>1. c.id_end \in Int
    BY <1>1, <1>2
  <2> QED BY <2>1 DEF IsContainer, Elements
<1>4. PICK F : F = enter_frame(C, field_size, "table", c)
  OBVIOUS
<1>5. PICK ls : ls = Append(ks, "table")
  OBVIOUS
<1>6. Standing(F, ls)
  <2>1. field_size \in Nat
    BY DEF field_size
  <2> QED BY <1>1, <1>3, <1>4, <1>5, <2>1, EnterFrameStands
<1>7. Deeper(F, C, c) /\ SameEntries(F, C)
  BY <1>4, EnterDeeper DEF Based
<1>8. frame(F).c = c
  BY <1>7 DEF Deeper, frame, level
<1>9. PICK v \in Nat, i \in Nat, u \in Nat : v = C.vs /\ i = C.id_end /\ u = v + i + 2
  BY DEF Based, IsEntries
<1>10. u = frame(F).c.vs_end + frame(F).c.id_end + 2
  BY <1>2, <1>8, <1>9
<1>11. PICK w : w = frame(F).c.pl_end
  OBVIOUS
<1>12. PICK G : G = [F EXCEPT !.vs = u, !.pl = w, !.id_end = 0]
  OBVIOUS
<1>13. start_table(C) = refresh_ds(G, table_limit)
  <2>1. PICK R : R = [F EXCEPT !.vs = u, !.pl = w]
    OBVIOUS
  <2>2. R = flatcc_builder_reserve_table(F)
    BY <1>10, <1>11, <2>1 DEF flatcc_builder_reserve_table
  <2>3. G = [R EXCEPT !.id_end = 0]
    BY <1>12, <2>1
  <2> QED BY <1>2, <1>4, <2>2, <2>3 DEF start_table
<1>14. DOMAIN F = BuilderFields /\ IsBuilder(F) /\ F.min_align \in Nat /\ F.ds_offset \in Int
  BY <1>6 DEF Standing, IsBuilder
<1>15. /\ G.min_align = F.min_align /\ G.ds_offset = F.ds_offset /\ G.id_end = 0
       /\ G.vs = u /\ G.vs_mem = F.vs_mem /\ G.frame = F.frame /\ G.ds_mem = F.ds_mem
       /\ G.ds_first = F.ds_first
  BY ONLY <1>12, <1>14 DEF BuilderFields
<1>16. SameEssentials(G, F)
  BY ONLY <1>12, <1>14 DEF BuilderFields, SameEssentials, Essential
<1>17. Standing(G, ls)
  BY <1>6, <1>14, <1>15, <1>16, KeptByFields, KeptStanding
<1>18. Len(ls) > 0
  BY <1>1, <1>5, LongerKinds
<1>19. G.ds_first \in Nat /\ IsSeq(G.ds_mem)
  BY <1>7, <1>15 DEF Deeper
<1>20. PICK D : D = refresh_ds(G, table_limit)
  OBVIOUS
<1>21. /\ Shaped(D, G) /\ SameBytes(D, G) /\ Aimed(D) /\ SameEntries(D, G)
       /\ D.ds_offset = G.ds_offset
  BY <1>17, <1>18, <1>19, <1>20, LimitTypes, RefreshShape
<1>22. Deeper(G, C, c)
  <2>1. \A j : Byte(G, j) = Byte(F, j)
    BY <1>15 DEF Byte
  <2> QED BY ONLY <1>7, <1>15, <2>1 DEF Deeper
<1>23. Deeper(D, C, c)
  BY <1>21, <1>22, DeeperShaped DEF Based
<1>24. D.vs = u /\ D.id_end = 0 /\ D.vs_mem = C.vs_mem
  BY <1>7, <1>15, <1>21 DEF SameEntries
<1>25. IsEntries(D)
  <2>1. /\ C.vs_mem = [j \in 0 .. Fields |-> C.vs_mem[j]]
        /\ \A j \in 0 .. Fields : j >= v + i => C.vs_mem[j] = 0
    BY <1>9 DEF Based, IsEntries
  <2>2. ASSUME NEW j \in 0 .. Fields, j >= u + 0 PROVE C.vs_mem[j] = 0
    <3>1. j \in Int
      BY StackAssumption
    <3>2. j >= v + i
      BY ONLY <1>9, <2>2, <3>1, u \in Nat, v \in Nat, i \in Nat
    <3> QED BY <2>1, <3>2
  <2>3. 0 \in Nat
    OBVIOUS
  <2> QED BY ONLY <1>24, <2>1, <2>2, <2>3, u \in Nat DEF IsEntries
<1>26. IsSized(c, o)
  BY DEF IsSized, Elements
<1>27. IsChained(c, Doc[o].kind, C.vs, C.id_end, D.vs, D.id_end)
  <2>1. c.vs_end = C.vs /\ c.id_end = C.id_end
    BY ONLY <1>2
  <2>2. D.vs = C.vs + C.id_end + 2
    BY ONLY <1>9, <1>24
  <2> QED BY ONLY <2>1, <2>2, Doc[o].kind = "table" DEF IsChained
<1> QED BY <1>13, <1>20, <1>21, <1>23, <1>24, <1>25, <1>26, <1>27 DEF Opens

LEMMA StartElementsOpens ==
  ASSUME NEW C, NEW ks, Standing(C, ks), Based(C), NEW type, NEW elem_size \in Int,
         NEW align \in Nat, NEW o, Doc[o].kind \in Elements, elem_size = ElemSize(o)
  PROVE  Opens(start_elements(C, type, elem_size, align), C, o)
<1>1. PICK k : k = Doc[o].kind
  OBVIOUS
<1>2. ks \in Seq(Kinds) /\ k \in Kinds /\ k \in Elements
  BY <1>1, KindsOfStanding DEF Elements, Kinds
<1>3. PICK c : c = [elem_size |-> elem_size, count |-> 0]
  OBVIOUS
<1>4. IsContainer(c, k)
  <2>1. DOMAIN c = {"elem_size", "count"} /\ c.elem_size \in Int /\ c.count \in Int
    BY <1>3
  <2>2. k # "buffer" /\ k # "table"
    BY <1>2 DEF Elements
  <2> QED BY <2>1, <2>2 DEF IsContainer
<1>5. PICK F : F = enter_frame(C, align, type, c)
  OBVIOUS
<1>6. PICK ls : ls = Append(ks, k)
  OBVIOUS
<1>7. Standing(F, ls)
  <2>1. k # "struct"
    BY <1>2 DEF Elements
  <2> QED BY <1>2, <1>4, <1>5, <1>6, <2>1, EnterFrameStands
<1>8. Len(ls) > 0
  BY <1>2, <1>6, LongerKinds
<1>9. Deeper(F, C, c) /\ SameEntries(F, C)
  BY <1>5, EnterDeeper DEF Based
<1>10. F.ds_first \in Nat /\ IsSeq(F.ds_mem)
  BY <1>9 DEF Deeper
<1>11. PICK D : D = refresh_ds(F, data_limit)
  OBVIOUS
<1>12. /\ Shaped(D, F) /\ SameBytes(D, F) /\ Aimed(D) /\ SameEntries(D, F)
       /\ D.ds_offset = F.ds_offset
  BY <1>7, <1>8, <1>10, <1>11, LimitTypes, RefreshShape
<1>13. Deeper(D, C, c)
  BY <1>9, <1>12, DeeperShaped DEF Based
<1>14. D.vs_mem = C.vs_mem /\ D.vs = C.vs /\ D.id_end = C.id_end
  BY <1>9, <1>12 DEF SameEntries
<1>15. IsEntries(D)
  BY <1>14 DEF Based, IsEntries
<1>16. IsSized(c, o)
  <2>1. c.elem_size = ElemSize(o) /\ c.count \in Nat
    BY <1>3
  <2> QED BY ONLY <2>1 DEF IsSized
<1>17. IsChained(c, Doc[o].kind, C.vs, C.id_end, D.vs, D.id_end)
  <2>1. Doc[o].kind # "table"
    BY <1>1, <1>2 DEF Elements
  <2> QED BY <1>14, <2>1 DEF IsChained
<1>18. start_elements(C, type, elem_size, align) = D
  BY <1>3, <1>5, <1>11 DEF start_elements
<1> QED BY <1>12, <1>13, <1>14, <1>15, <1>16, <1>17, <1>18 DEF Opens

LEMMA StacksBased ==
  ASSUME NEW C, NEW op, StacksUp(C, op), Len(op) \in Nat
  PROVE  Based(C)
<1>1. PICK F, O, V, I : StacksAt(C, op, F, O, V, I)
  BY DEF StacksUp
<1>2. PICK n \in Nat : n = Len(op) /\ n = Len(C.frame)
  BY <1>1 DEF StacksAt, Piled
<1>3. /\ F \in [0 .. n -> Nat] /\ O \in [0 .. n -> Nat] /\ F[n] = C.ds_first
      /\ O[n] = C.ds_offset /\ IsSeq(C.ds_mem)
  BY <1>1, <1>2 DEF StacksAt, Piled, Laid
<1>4. C.ds_first \in Nat /\ C.ds_offset \in Nat
  BY ONLY <1>3, n \in Nat
<1>5. IsEntries(C)
  BY <1>1 DEF StacksAt
<1> QED BY <1>2, <1>3, <1>4, <1>5 DEF Based

LEMMA OpensUp ==
  ASSUME NEW C, NEW op, StacksUp(C, op), NEW n \in Nat, n = Len(op), NEW o, NEW more,
         Len(more) = n + 1, more[n + 1] = [o |-> o, has |-> {}],
         \A l \in 1 .. n : more[l] = op[l],
         NEW D, Opens(D, C, o)
  PROVE  StacksUp(D, more)
<1>1. PICK F, O, V, I : StacksAt(C, op, F, O, V, I) /\ Held(C, op, F, O, V, I)
  BY DEF StacksUp
<1>2. PICK c : /\ Deeper(D, C, c) /\ IsSized(c, o) /\ IsEntries(D) /\ D.vs_mem = C.vs_mem
               /\ IsChained(c, Doc[o].kind, C.vs, C.id_end, D.vs, D.id_end)
               /\ Doc[o].kind # "buffer" => Aimed(D)
  BY DEF Opens
<1>3. more[n + 1].o = o /\ more[n + 1].has = {} /\ \A l \in 1 .. n : more[l].o = op[l].o
  OBVIOUS
<1>4. \E F2, O2, V2, I2 :
         /\ StacksAt(D, more, F2, O2, V2, I2)
         /\ \A l \in 1 .. n : F2[l] = F[l] /\ O2[l] = O[l] /\ V2[l] = V[l] /\ I2[l] = I[l]
  BY ONLY StacksOpened, <1>1, <1>2, <1>3, n \in Nat, n = Len(op), Len(more) = n + 1
<1>5. PICK F2, O2, V2, I2 :
         /\ StacksAt(D, more, F2, O2, V2, I2)
         /\ \A l \in 1 .. n : F2[l] = F[l] /\ O2[l] = O[l] /\ V2[l] = V[l] /\ I2[l] = I[l]
  BY <1>4
<1>6. ASSUME NEW l \in 1 .. n
      PROVE  LevelHeld(D, more[l], F2[l], O2[l], V2[l], I2[l])
  <2>1. \A i \in Nat : Byte(D, i) = Byte(C, i)
    BY <1>2 DEF Deeper
  <2>2. \A b, e : Agree(D, C, b, e)
    BY ONLY <1>2, <2>1 DEF Agree
  <2>3. /\ F \in [0 .. n -> Nat] /\ O \in [0 .. n -> Nat]
        /\ V \in [0 .. n -> Nat] /\ I \in [0 .. n -> Nat]
    BY <1>1 DEF StacksAt, Piled, Laid, Chained
  <2>4. PICK f \in Nat, x \in Nat, v \in Nat, i \in Nat :
           f = F[l] /\ x = O[l] /\ v = V[l] /\ i = I[l]
    <3>1. l \in 0 .. n
      OBVIOUS
    <3>2. F[l] \in Nat /\ O[l] \in Nat /\ V[l] \in Nat /\ I[l] \in Nat
      BY ONLY <2>3, <3>1
    <3> QED BY ONLY <3>2
  <2>5. LevelHeld(C, op[l], f, x, v, i)
    BY <1>1, <2>4 DEF Held
  <2>6. LevelHeld(D, op[l], f, x, v, i)
    BY <2>2, <2>5, LevelStays
  <2> QED BY <1>5, <2>4, <2>6
<1>7. LevelHeld(D, more[n + 1], F2[n + 1], O2[n + 1], V2[n + 1], I2[n + 1])
  BY ONLY <1>3 DEF LevelHeld
<1>8. Held(D, more, F2, O2, V2, I2)
  <2>1. \A l \in 1 .. n + 1 : l \in 1 .. n \/ l = n + 1
    OBVIOUS
  <2> QED BY ONLY <1>6, <1>7, <2>1, Len(more) = n + 1 DEF Held
<1> QED BY ONLY <1>5, <1>8 DEF StacksUp

\* The innermost object, which is not a buffer, with other bytes or entries and
\* with the fields that op2 says.
LEMMA LevelsWithin ==
  ASSUME NEW C, NEW op, StacksUp(C, op),
         NEW n \in Nat \ {0}, n = Len(op), KindAt(op, n) # "buffer",
         NEW D, Tidy(D), SamePlaces(D, C), D.ds_first = C.ds_first, SameBelow(D, C, 0),
         Len(D.ds_mem) >= Len(C.ds_mem),
         \A l \in 1 .. n - 1 : D.frame[l].c = C.frame[l].c,
         IsSized(D.frame[n].c, op[n].o), IsEntries(D), D.vs = C.vs,
         KindAt(op, n) = "table" => D.frame[n].c = C.frame[n].c,
         KindAt(op, n) # "table" => D.id_end = C.id_end /\ D.vs_mem = C.vs_mem,
         \A i \in 0 .. Fields : i < C.vs => D.vs_mem[i] = C.vs_mem[i],
         NEW op2, Len(op2) = n, op2[n].o = op[n].o, \A l \in 1 .. n - 1 : op2[l] = op[l],
         LevelHeld(D, op2[n], D.ds_first, D.ds_offset, D.vs, D.id_end)
  PROVE  StacksUp(D, op2)
<1>1. PICK F, O, V, I : StacksAt(C, op, F, O, V, I) /\ Held(C, op, F, O, V, I)
  BY DEF StacksUp
<1>2. PICK P, J : P = [O EXCEPT ![n] = D.ds_offset] /\ J = [I EXCEPT ![n] = D.id_end]
  OBVIOUS
<1>3. StacksAt(D, op, F, P, V, J)
  BY ONLY StacksWithin, <1>1, <1>2, n \in Nat \ {0}, n = Len(op), KindAt(op, n) # "buffer",
          Tidy(D), SamePlaces(D, C), D.ds_first = C.ds_first, SameBelow(D, C, 0),
          Len(D.ds_mem) >= Len(C.ds_mem), \A l \in 1 .. n - 1 : D.frame[l].c = C.frame[l].c,
          IsSized(D.frame[n].c, op[n].o), IsEntries(D), D.vs = C.vs,
          KindAt(op, n) = "table" => D.frame[n].c = C.frame[n].c,
          KindAt(op, n) # "table" => D.id_end = C.id_end /\ D.vs_mem = C.vs_mem
<1>4. \A l \in 1 .. n : op2[l].o = op[l].o
  <2>1. \A l \in 1 .. n : l \in 1 .. n - 1 \/ l = n
    OBVIOUS
  <2> QED BY <2>1
<1>5. StacksAt(D, op2, F, P, V, J)
  BY <1>3, <1>4, SameOpen
<1>6. /\ F \in [0 .. n -> Nat] /\ O \in [0 .. n -> Nat]
      /\ V \in [0 .. n -> Nat] /\ I \in [0 .. n -> Nat]
      /\ Piled(C, op, F, O, V, I) /\ F[n] = C.ds_first /\ V[n] = C.vs /\ I[n] = C.id_end
      /\ IsChained(C.frame[n].c, KindAt(op, n), V[n - 1], I[n - 1], V[n], I[n])
      /\ \A l \in 0 .. n : l < n => F[l] + O[l] <= F[n]
  BY <1>1 DEF StacksAt, Piled, Laid, Chained
<1>7. PICK k \in Nat : k = n - 1 /\ k + 1 = n /\ k \in 0 .. n /\ k <= n
  <2>1. n - 1 \in Nat /\ (n - 1) + 1 = n /\ n - 1 \in 0 .. n /\ n - 1 <= n
    OBVIOUS
  <2> QED BY <2>1
<1>8. PICK f \in Nat, v \in Nat, i \in Nat, v0 \in Nat, i0 \in Nat :
         f = F[n] /\ v = V[n] /\ i = I[n] /\ v0 = V[k] /\ i0 = I[k]
  <2>1. n \in 0 .. n
    OBVIOUS
  <2> QED BY ONLY <1>6, <1>7, <2>1
<1>9. Agree(D, C, f, v0 + i0)
  <2>1. \A j \in Nat : j <= f => Byte(D, j) = Byte(C, j)
    BY <1>6, <1>8 DEF SameBelow
  <2>2. CASE KindAt(op, n) = "table"
    <3>1. v = v0 + i0 + 2
      BY ONLY <1>6, <1>7, <1>8, <2>2 DEF IsChained
    <3>2. ASSUME NEW j \in 0 .. Fields, j < v0 + i0 PROVE j < v
      BY ONLY <3>1, <3>2, StackAssumption, v0 \in Nat, i0 \in Nat, v \in Nat DEF StackAssumption
    <3>3. \A j \in 0 .. Fields : j < v0 + i0 => D.vs_mem[j] = C.vs_mem[j]
      BY <1>6, <1>8, <3>2
    <3> QED BY ONLY <2>1, <3>3 DEF Agree
  <2>3. CASE KindAt(op, n) # "table"
    BY ONLY <2>1, <2>3, KindAt(op, n) # "table" => D.id_end = C.id_end /\ D.vs_mem = C.vs_mem
       DEF Agree
  <2> QED BY <2>2, <2>3
<1>10. \A l \in 1 .. k : F[l] + O[l] <= f
  <2>1. \A l \in 1 .. k : l \in 0 .. n /\ l < n
    BY <1>7
  <2> QED BY ONLY <1>6, <1>8, <2>1
<1>11. \A l \in 1 .. k : LevelHeld(D, op[l], F[l], O[l], V[l], I[l])
  <2>1. PICK e \in Int : e = v0 + i0 /\ Agree(D, C, f, e)
    BY <1>9
  <2>2. k > 0 => V[k] + I[k] <= e
    BY ONLY <1>8, <2>1, v0 \in Nat, i0 \in Nat
  <2>3. Piled(C, op, F, O, V, I) /\ Held(C, op, F, O, V, I) /\ k <= n /\ Agree(D, C, f, e)
    BY ONLY <1>1, <1>6, <1>7, <2>1
  <2>4. n \in Nat /\ f \in Int
    OBVIOUS
  <2> QED BY ONLY <1>10, <2>2, <2>3, <2>4, n = Len(op), k \in Nat, e \in Int, HeldBelow
<1>12. ASSUME NEW l \in 1 .. n PROVE LevelHeld(D, op2[l], F[l], P[l], V[l], J[l])
  <2>1. CASE l = n
    <3>1. n \in 0 .. n
      OBVIOUS
    <3>2. P[n] = D.ds_offset /\ J[n] = D.id_end
      BY ONLY <1>2, <1>6, <3>1
    <3>3. F[n] = D.ds_first /\ V[n] = D.vs
      BY ONLY <1>6, D.ds_first = C.ds_first, D.vs = C.vs
    <3> QED BY ONLY <2>1, <3>2, <3>3, LevelHeld(D, op2[n], D.ds_first, D.ds_offset, D.vs, D.id_end)
  <2>2. CASE l # n
    <3>1. l \in 1 .. k /\ l \in 1 .. n - 1 /\ l \in 0 .. n
      BY <1>7, <2>2
    <3>2. P[l] = O[l] /\ J[l] = I[l]
      BY ONLY <1>2, <1>6, <2>2, <3>1
    <3>3. op2[l] = op[l]
      BY <3>1
    <3> QED BY ONLY <1>11, <3>1, <3>2, <3>3
  <2> QED BY <2>1, <2>2
<1>13. Held(D, op2, F, P, V, J)
  BY ONLY <1>12, Len(op2) = n DEF Held
<1> QED BY ONLY <1>5, <1>13 DEF StacksUp

\* The innermost object is neither a buffer nor a table.
LEMMA WithinUp ==
  ASSUME NEW C, NEW op, StacksUp(C, op),
         NEW n \in Nat \ {0}, n = Len(op), KindAt(op, n) # "buffer", KindAt(op, n) # "table",
         NEW D, Tidy(D), SamePlaces(D, C), D.ds_first = C.ds_first, SameBelow(D, C, 0),
         Len(D.ds_mem) >= Len(C.ds_mem),
         \A l \in 1 .. n - 1 : D.frame[l].c = C.frame[l].c,
         IsSized(D.frame[n].c, op[n].o), SameEntries(D, C)
  PROVE  StacksUp(D, op)
<1>1. PICK F, O, V, I : StacksAt(C, op, F, O, V, I) /\ Held(C, op, F, O, V, I)
  BY DEF StacksUp
<1>2. D.vs_mem = C.vs_mem /\ D.vs = C.vs /\ D.id_end = C.id_end
  BY DEF SameEntries
<1>3. IsEntries(D)
  BY <1>1, SameEntriesKept DEF StacksAt
<1>4. op[n].has = {}
  <2>1. n \in 1 .. n
    OBVIOUS
  <2> QED BY ONLY <1>1, <2>1, n = Len(op), KindAt(op, n) # "table" DEF Held, LevelHeld, KindAt
<1>5. LevelHeld(D, op[n], D.ds_first, D.ds_offset, D.vs, D.id_end)
  BY ONLY <1>4 DEF LevelHeld
<1>6. \A i \in 0 .. Fields : i < C.vs => D.vs_mem[i] = C.vs_mem[i]
  BY ONLY <1>2
<1> QED BY ONLY LevelsWithin, <1>2, <1>3, <1>5, <1>6, StacksUp(C, op), n \in Nat \ {0},
        n = Len(op), KindAt(op, n) # "buffer", KindAt(op, n) # "table",
        Tidy(D), SamePlaces(D, C), D.ds_first = C.ds_first, SameBelow(D, C, 0),
        Len(D.ds_mem) >= Len(C.ds_mem), \A l \in 1 .. n - 1 : D.frame[l].c = C.frame[l].c,
        IsSized(D.frame[n].c, op[n].o)

\* The containers are the same.
LEMMA ShapedFrames ==
  ASSUME NEW C, NEW op, StacksUp(C, op), NEW n \in Nat \ {0}, n = Len(op), NEW D, Shaped(D, C)
  PROVE  /\ \A l \in 1 .. n - 1 : D.frame[l].c = C.frame[l].c
         /\ IsSized(D.frame[n].c, op[n].o) /\ D.frame[n].c = C.frame[n].c
         /\ SamePlaces(D, C) /\ D.ds_first = C.ds_first /\ Len(D.ds_mem) >= Len(C.ds_mem)
<1>1. PICK F, O, V, I : StacksAt(C, op, F, O, V, I)
  BY DEF StacksUp
<1>2. Len(C.frame) = n /\ \A l \in 1 .. n : IsSized(C.frame[l].c, op[l].o)
  BY <1>1 DEF StacksAt, Piled, Sized
<1>3. \A l \in 1 .. n : D.frame[l].c = C.frame[l].c
  BY <1>2 DEF Shaped, SameContainers
<1>4. \A l \in 1 .. n - 1 : D.frame[l].c = C.frame[l].c
  BY <1>3
<1>5. n \in 1 .. n
  OBVIOUS
<1>6. IsSized(D.frame[n].c, op[n].o) /\ D.frame[n].c = C.frame[n].c
  BY ONLY <1>2, <1>3, <1>5
<1>7. SamePlaces(D, C) /\ D.ds_first = C.ds_first /\ Len(D.ds_mem) >= Len(C.ds_mem)
  BY DEF Shaped
<1> QED BY ONLY <1>4, <1>6, <1>7

\* More bytes and the same containers.
LEMMA ShapedUp ==
  ASSUME NEW C, NEW op, StacksUp(C, op), NEW n \in Nat \ {0}, n = Len(op),
         KindAt(op, n) # "buffer", KindAt(op, n) # "table",
         NEW D, Tidy(D), Shaped(D, C), SameBelow(D, C, 0), SameEntries(D, C)
  PROVE  StacksUp(D, op)
<1>1. /\ \A l \in 1 .. n - 1 : D.frame[l].c = C.frame[l].c
      /\ IsSized(D.frame[n].c, op[n].o)
      /\ SamePlaces(D, C) /\ D.ds_first = C.ds_first /\ Len(D.ds_mem) >= Len(C.ds_mem)
  BY ShapedFrames
<1> QED BY ONLY WithinUp, <1>1, StacksUp(C, op), n \in Nat \ {0}, n = Len(op),
        KindAt(op, n) # "buffer", KindAt(op, n) # "table", Tidy(D), SameBelow(D, C, 0),
        SameEntries(D, C)

\* The innermost object of these stacks can be filled.
LEMMA StacksTidy ==
  ASSUME NEW C, NEW op, StacksUp(C, op), NEW n \in Nat \ {0}, n = Len(op),
         KindAt(op, n) # "buffer"
  PROVE  Tidy(C)
<1>1. PICK F, O, V, I : StacksAt(C, op, F, O, V, I)
  BY DEF StacksUp
<1>2. Laid(C, F, O) /\ Len(C.frame) = n /\ Aimed(C)
  BY <1>1 DEF StacksAt, Piled
<1> QED BY <1>2, LaidTidy

\* The same open objects with the same fields.
LEMMA SameUp ==
  ASSUME NEW C, NEW op, StacksUp(C, op), NEW n \in Nat, n = Len(op),
         NEW op2, Len(op2) = n, \A l \in 1 .. n : op2[l] = op[l]
  PROVE  StacksUp(C, op2)
<1>1. PICK F, O, V, I : StacksAt(C, op, F, O, V, I) /\ Held(C, op, F, O, V, I)
  BY DEF StacksUp
<1>2. \A l \in 1 .. n : op2[l].o = op[l].o
  OBVIOUS
<1>3. StacksAt(C, op2, F, O, V, I)
  BY <1>1, <1>2, SameOpen
<1>4. Held(C, op2, F, O, V, I)
  BY ONLY <1>1, n = Len(op), Len(op2) = n, \A l \in 1 .. n : op2[l] = op[l] DEF Held
<1> QED BY ONLY <1>3, <1>4 DEF StacksUp

LEMMA StartStructUp ==
  ASSUME NEW C, NEW ks, Standing(C, ks), NEW op, StacksUp(C, op), NEW n \in Nat, n = Len(op),
         NEW o, NEW more, Len(more) = n + 1, more[n + 1] = [o |-> o, has |-> {}],
         \A l \in 1 .. n : more[l] = op[l], Doc[o].kind = "struct",
         NEW data, IsSeq(data), NEW size, size = Len(data), NEW align \in Nat \ {0},
         NEW D, D = Poke(start_struct(C, size, align), 0, data)
  PROVE  StacksUp(D, more)
<1>1. ks \in Seq(Kinds) /\ "struct" \in Kinds /\ align > 0 /\ align \in Nat
  BY KindsOfStanding DEF Kinds
<1>2. IsContainer(<<>>, "struct")
  BY DEF IsContainer, Elements
<1>3. PICK F : F = enter_frame(C, align, "struct", <<>>)
  OBVIOUS
<1>4. PICK ls : ls = Append(ks, "struct")
  OBVIOUS
<1>5. Standing(F, ls) /\ Len(ls) > 0
  BY <1>1, <1>2, <1>3, <1>4, EnterFrameStands, LongerKinds
<1>6. Based(C)
  BY StacksBased
<1>7. Deeper(F, C, <<>>) /\ SameEntries(F, C)
  BY <1>3, <1>6, EnterDeeper DEF Based
<1>8. F.ds_first \in Nat /\ IsSeq(F.ds_mem)
  BY <1>7 DEF Deeper
<1>9. PICK G : G = refresh_ds(F, data_limit)
  OBVIOUS
<1>10. /\ Shaped(G, F) /\ SameBytes(G, F) /\ Aimed(G) /\ SameEntries(G, F)
       /\ G.ds_offset = F.ds_offset
  BY <1>5, <1>8, <1>9, LimitTypes, RefreshShape
<1>11. Standing(G, ls)
  BY <1>5, <1>9, LimitTypes, RefreshStands DEF Stacked
<1>12. Deeper(G, C, <<>>)
  BY <1>6, <1>7, <1>10, DeeperShaped DEF Based
<1>13. G.vs_mem = C.vs_mem /\ G.vs = C.vs /\ G.id_end = C.id_end
  BY <1>7, <1>10 DEF SameEntries
<1>14. IsEntries(G)
  BY <1>6, <1>13 DEF Based, IsEntries
<1>15. Opens(G, C, o)
  <2>1. IsSized(<<>>, o)
    BY DEF IsSized, Elements
  <2>2. IsChained(<<>>, Doc[o].kind, C.vs, C.id_end, G.vs, G.id_end)
    BY <1>13 DEF IsChained
  <2> QED BY <1>10, <1>12, <1>13, <1>14, <2>1, <2>2 DEF Opens
<1>16. StacksUp(G, more)
  BY <1>15, OpensUp
<1>17. KindAt(more, n + 1) = "struct" /\ n + 1 \in Nat \ {0}
  <2>1. more[n + 1].o = o
    OBVIOUS
  <2> QED BY <2>1 DEF KindAt
<1>18. Tidy(G)
  BY <1>16, <1>17, StacksTidy
<1>19. size \in Nat
  BY DEF IsSeq
<1>20. PICK H : H = push_ds(G, size)
  OBVIOUS
<1>21. /\ Tidy(H) /\ Shaped(H, G) /\ SameBytes(H, G) /\ SameEntries(H, G)
       /\ H.ds_offset = G.ds_offset + size
  BY <1>5, <1>11, <1>18, <1>19, <1>20, PushTidy
<1>22. H.ds_offset = size
  <2>1. G.ds_offset = 0
    BY <1>12 DEF Deeper
  <2> QED BY <1>19, <1>21, <2>1
<1>23. StacksUp(H, more)
  <2>1. SameBelow(H, G, 0)
    BY <1>21, SameBytesBelow
  <2> QED BY <1>16, <1>17, <1>21, <2>1, ShapedUp
<1>24. Standing(H, ls)
  BY <1>5, <1>11, <1>19, <1>20, PushStands DEF Stacked
<1>25. D = Poke(H, 0, data)
  BY <1>3, <1>9, <1>20 DEF start_struct
<1>26. DOMAIN H = BuilderFields
  BY <1>24 DEF Standing, IsBuilder
<1>27. /\ Tidy(D) /\ Shaped(D, H) /\ SameEntries(D, H) /\ SameBelow(D, H, 0)
  <2>1. 0 + Len(data) <= H.ds_offset
    BY <1>19, <1>22
  <2> QED BY <1>21, <1>25, <1>26, <2>1, PokeTidy
<1> QED BY <1>17, <1>23, <1>27, ShapedUp

LEMMA StartedStacks ==
  ASSUME NEW ks, Standing(B, ks), NEW op, StacksUp(B, op), NEW n \in Nat, n = Len(op),
         NEW o \in Objects, NEW more, Len(more) = n + 1, more[n + 1] = [o |-> o, has |-> {}],
         \A l \in 1 .. n : more[l] = op[l]
  PROVE  StacksUp(Started(o), more)
<1>1. PICK d : d = Doc[o]
  OBVIOUS
<1>2. IsObject(d) /\ d.kind \in Kinds
  BY <1>1, DocFacts
<1>3. field_size \in Nat /\ field_size \in Int /\ union_size \in Int /\ 1 \in Nat /\ 1 \in Int
  BY DEF field_size, union_size
<1>4. Started(o) = CASE d.kind = "buffer" -> start_buffer(B, _pad(4), d.block_align, FALSE)
          [] d.kind = "table" -> start_table(B)
          [] d.kind = "string" -> start_string(B)
          [] d.kind = "vector" -> start_vector(B, Len(d.elems[1]), d.align)
          [] d.kind = "offsets" -> start_offset_vector(B)
          [] d.kind = "unions" -> start_union_vector(B)
          [] d.kind = "struct" -> Poke(start_struct(B, Len(d.data), d.align), 0, d.data)
  BY ONLY <1>1 DEF Started
<1>5. Based(B)
  BY StacksBased
<1>6. ASSUME Opens(Started(o), B, o) PROVE StacksUp(Started(o), more)
  <2>1. PICK D : D = Started(o)
    OBVIOUS
  <2> QED BY <1>6, <2>1, OpensUp
<1>7. CASE d.kind = "buffer"
  <2>1. d.block_align \in Nat
    BY <1>2, <1>7 DEF IsObject
  <2>2. Started(o) = start_buffer(B, _pad(4), d.block_align, FALSE)
    BY ONLY <1>4, <1>7
  <2>3. PICK al \in Nat : al = d.block_align
    BY <2>1
  <2>4. Opens(start_buffer(B, _pad(4), al, FALSE), B, o)
    BY <1>1, <1>5, <1>7, StartBufferOpens
  <2> QED BY ONLY <1>6, <2>2, <2>3, <2>4
<1>8. CASE d.kind = "table"
  <2>1. Started(o) = start_table(B)
    BY ONLY <1>4, <1>8
  <2> QED BY <1>1, <1>5, <1>6, <1>8, <2>1, StartTableOpens
<1>9. CASE d.kind = "string"
  <2>1. Started(o) = start_elements(B, "string", 1, 1)
    BY ONLY <1>4, <1>9 DEF start_string
  <2>2. Doc[o].kind \in Elements /\ 1 = ElemSize(o)
    BY <1>1, <1>9 DEF Elements, ElemSize
  <2>3. Opens(start_elements(B, "string", 1, 1), B, o)
    BY <1>3, <1>5, <2>2, StartElementsOpens
  <2> QED BY ONLY <1>6, <2>1, <2>3
<1>10. CASE d.kind = "vector"
  <2>1. d.align \in Nat /\ IsSeq(d.elems) /\ d.elems # <<>> /\ \A i \in DOMAIN d.elems : IsSeq(d.elems[i])
    BY <1>2, <1>10 DEF IsObject
  <2>2. 1 \in DOMAIN d.elems
    <3>1. PICK m \in Nat : m = Len(d.elems) /\ d.elems = [i \in 1 .. m |-> d.elems[i]]
      BY <2>1 DEF IsSeq
    <3>2. m # 0
      BY <2>1, <3>1
    <3> QED BY <3>1, <3>2
  <2>3. PICK size \in Int : size = Len(d.elems[1])
    BY <2>1, <2>2, SeqPiece
  <2>4. PICK al \in Nat : al = Greater(d.align, field_size)
    BY <1>3, <2>1, GreaterType
  <2>5. Started(o) = start_elements(B, "vector", size, al)
    BY ONLY <1>4, <1>10, <2>3, <2>4 DEF start_vector
  <2>6. Doc[o].kind \in Elements
    BY <1>1, <1>10 DEF Elements
  <2>7. size = ElemSize(o)
    BY ONLY <1>1, <1>10, <2>3 DEF ElemSize
  <2>8. Opens(start_elements(B, "vector", size, al), B, o)
    BY <1>5, <2>6, <2>7, StartElementsOpens
  <2> QED BY ONLY <1>6, <2>5, <2>8
<1>11. CASE d.kind = "offsets"
  <2>1. Started(o) = start_elements(B, "offset_vector", field_size, field_size)
    BY ONLY <1>4, <1>11 DEF start_offset_vector
  <2>2. Doc[o].kind \in Elements /\ field_size = ElemSize(o)
    BY <1>1, <1>11 DEF Elements, ElemSize
  <2>3. Opens(start_elements(B, "offset_vector", field_size, field_size), B, o)
    BY <1>3, <1>5, <2>2, StartElementsOpens
  <2> QED BY ONLY <1>6, <2>1, <2>3
<1>12. CASE d.kind = "unions"
  <2>1. Started(o) = start_elements(B, "union_vector", union_size, field_size)
    BY ONLY <1>4, <1>12 DEF start_union_vector
  <2>2. Doc[o].kind \in Elements /\ union_size = ElemSize(o)
    BY <1>1, <1>12 DEF Elements, ElemSize
  <2>3. Opens(start_elements(B, "union_vector", union_size, field_size), B, o)
    BY <1>3, <1>5, <2>2, StartElementsOpens
  <2> QED BY ONLY <1>6, <2>1, <2>3
<1>13. CASE d.kind = "struct"
  <2>1. d.align \in Nat \ {0} /\ IsSeq(d.data)
    BY <1>2, <1>13 DEF IsObject
  <2>2. PICK al \in Nat \ {0} : al = d.align
    BY <2>1
  <2> DEFINE data == d.data
  <2>3. PICK D : D = Poke(start_struct(B, Len(data), al), 0, data)
    OBVIOUS
  <2>4. Started(o) = D
    BY ONLY <1>4, <1>13, <2>2, <2>3
  <2>5. StacksUp(D, more)
    BY <1>1, <1>13, <2>1, <2>2, <2>3, StartStructUp
  <2> QED BY <2>4, <2>5
<1> QED BY <1>2, <1>7, <1>8, <1>9, <1>10, <1>11, <1>12, <1>13 DEF Kinds

-----------------------------------------------------------------------------
(* The session keeps its stacks *)

\* The field that part p of the table o is on the stacks, with these refs, and
\* what an open object has of its fields.
FieldOf(o, p, rs) ==
    LET f == Doc[o].fields[p]
    IN  [id |-> f.id, data |-> IF f.kind = "inline" THEN f.data
                               ELSE write_uoffset(Last(rs[f.to]))]
Noted(x, rs) ==
    [o |-> x.o, has |-> IF Doc[x.o].kind = "table" THEN {FieldOf(x.o, p, rs) : p \in x.parts}
                        ELSE {}]
Notes(op, rs) == [l \in 1 .. Len(op) |-> Noted(op[l], rs)]

\* A builder C with these open objects in this phase.
StackState(C, op, ph) == Loose(C) /\ (ph = "building" => StacksUp(C, op))
StackInv == StackState(B, Notes(open, refs), phase)

LEMMA NotesAt ==
  ASSUME NEW op, Len(op) \in Nat, NEW rs
  PROVE  /\ Len(Notes(op, rs)) = Len(op)
         /\ \A l \in 1 .. Len(op) : Notes(op, rs)[l] = Noted(op[l], rs)
<1>1. PICK n \in Nat : n = Len(op)
  OBVIOUS
<1>2. PICK ns : ns = Notes(op, rs)
  OBVIOUS
<1>3. ns = [l \in 1 .. n |-> Noted(op[l], rs)]
  BY <1>1, <1>2 DEF Notes
<1>4. Len(ns) = n /\ \A l \in 1 .. n : ns[l] = Noted(op[l], rs)
  BY ONLY <1>3, n \in Nat
<1> QED BY <1>1, <1>2, <1>4

LEMMA NotesEmpty ==
  ASSUME NEW rs
  PROVE  Notes(<<>>, rs) = <<>>
<1>1. Len(<<>>) = 0 /\ 1 .. 0 = {}
  OBVIOUS
<1>2. PICK ns : ns = Notes(<<>>, rs)
  OBVIOUS
<1>3. ns = [l \in {} |-> Noted(<<>>[l], rs)]
  BY ONLY <1>1, <1>2 DEF Notes
<1>4. ns = <<>>
  BY ONLY <1>3
<1> QED BY <1>2, <1>4

LEMMA NotedFacts ==
  ASSUME NEW x, NEW rs
  PROVE  /\ Noted(x, rs).o = x.o
         /\ Doc[x.o].kind # "table" => Noted(x, rs) = [o |-> x.o, has |-> {}]
         /\ Doc[x.o].kind = "table" => Noted(x, rs).has = {FieldOf(x.o, p, rs) : p \in x.parts}
  BY DEF Noted

LEMMA UpLoose ==
  ASSUME NEW C, NEW op, StacksUp(C, op), Len(op) \in Nat
  PROVE  Loose(C)
  BY StacksLoose DEF StacksUp

LEMMA UpState ==
  ASSUME NEW C, NEW op, StacksUp(C, op), Len(op) \in Nat, NEW ph
  PROVE  StackState(C, op, ph)
<1>1. PICK F, O, V, I : StacksAt(C, op, F, O, V, I)
  BY DEF StacksUp
<1> QED BY <1>1, StacksLoose DEF StackState

\* Emission in between leaves the stacks as they are.
LEMMA StayUp ==
  ASSUME NEW C, NEW op, StacksUp(C, op), NEW D, Stay(D, C)
  PROVE  StacksUp(D, op)
<1>1. PICK F, O, V, I : StacksAt(C, op, F, O, V, I) /\ Held(C, op, F, O, V, I)
  BY DEF StacksUp
<1>2. /\ D.ds_mem = C.ds_mem /\ D.ds = C.ds /\ D.ds_first = C.ds_first
      /\ D.ds_limit = C.ds_limit /\ D.frame = C.frame
      /\ D.vs_mem = C.vs_mem /\ D.vs = C.vs /\ D.id_end = C.id_end
  BY StayFields
<1>3. Laid(D, F, O)
  BY <1>1, StayLaid DEF StacksAt, Piled
<1>4. IsEntries(D)
  BY ONLY <1>1, <1>2 DEF StacksAt, IsEntries
<1>5. Chained(D, op, V, I) /\ Sized(D, op)
  BY ONLY <1>1, <1>2 DEF StacksAt, Piled, Chained, Sized
<1>6. Aimed(C) => Aimed(D)
  BY ONLY <1>2 DEF Aimed
<1>7. StacksAt(D, op, F, O, V, I)
  BY ONLY <1>1, <1>2, <1>3, <1>4, <1>5, <1>6 DEF StacksAt, Piled
<1>8. Held(D, op, F, O, V, I)
  BY <1>1, <1>2, SameHeld
<1> QED BY <1>7, <1>8 DEF StacksUp

\* The open objects without the last one, or with one more.
LEMMA NotesMore ==
  ASSUME NEW op, IsOpen(op), NEW rs, NEW o \in Objects
  PROVE  LET n == Len(op)
             more == Notes(Append(op, [o |-> o, parts |-> {}]), rs)
         IN  /\ Len(more) = n + 1 /\ more[n + 1] = [o |-> o, has |-> {}]
             /\ \A l \in 1 .. n : more[l] = Notes(op, rs)[l]
<1>1. PICK n \in Nat : n = Len(op)
  BY DEF IsOpen
<1>2. PICK f, longer : f = [o |-> o, parts |-> {}] /\ longer = Append(op, f)
  OBVIOUS
<1>3. Len(longer) = n + 1 /\ longer[n + 1] = f /\ \A l \in 1 .. n : longer[l] = op[l]
  <2>1. PICK S : op \in Seq(S)
    BY DEF IsOpen
  <2>2. op \in Seq(S \cup {f})
    BY <2>1
  <2> QED BY <1>1, <1>2, <2>2, AppendAt
<1>4. Noted(f, rs) = [o |-> o, has |-> {}]
  <2>1. f.o = o /\ f.parts = {}
    BY <1>2
  <2>2. {FieldOf(o, p, rs) : p \in {}} = {}
    OBVIOUS
  <2> QED BY ONLY <2>1, <2>2 DEF Noted
<1>5. PICK more, ns : more = Notes(longer, rs) /\ ns = Notes(op, rs)
  OBVIOUS
<1>6. Len(more) = n + 1 /\ \A l \in 1 .. n + 1 : more[l] = Noted(longer[l], rs)
  <2>1. n + 1 \in Nat
    OBVIOUS
  <2> QED BY <1>3, <1>5, <2>1, NotesAt
<1>7. \A l \in 1 .. n : ns[l] = Noted(op[l], rs)
  BY <1>1, <1>5, NotesAt
<1>8. more[n + 1] = [o |-> o, has |-> {}]
  <2>1. n + 1 \in 1 .. n + 1
    OBVIOUS
  <2> QED BY <1>3, <1>4, <1>6, <2>1
<1>9. ASSUME NEW l \in 1 .. n PROVE more[l] = ns[l]
  <2>1. l \in 1 .. n + 1
    OBVIOUS
  <2> QED BY <1>3, <1>6, <1>7, <2>1
<1> QED BY <1>1, <1>2, <1>5, <1>6, <1>8, <1>9

LEMMA StartStack ==
  ASSUME SessionInv, StackInv, NEW o \in Buildable, Start(o)
  PROVE  StackInv'
<1>1. o \in Objects /\ Standing(B, KindsOf(open)) /\ IsOpen(open) /\ phase = "building"
  BY BuildableObjects, BuildingState
<1>2. PICK C, longer : /\ C = Started(o)
                       /\ longer = Append(open, [o |-> o, parts |-> {}])
  OBVIOUS
<1>3. B' = C /\ open' = longer /\ refs' = refs
  BY <1>2 DEF Start
<1>4. PICK n \in Nat : n = Len(open)
  BY <1>1 DEF IsOpen
<1>5. PICK op, more : op = Notes(open, refs) /\ more = Notes(longer, refs)
  OBVIOUS
<1>6. /\ Len(more) = n + 1 /\ more[n + 1] = [o |-> o, has |-> {}]
      /\ \A l \in 1 .. n : more[l] = op[l]
  BY <1>1, <1>2, <1>4, <1>5, NotesMore
<1>7. n = Len(op)
  BY <1>4, <1>5, NotesAt
<1>8. StacksUp(B, op)
  BY <1>1, <1>5 DEF StackInv, StackState
<1>9. StacksUp(C, more)
  <2>1. StacksUp(Started(o), more)
    BY ONLY <1>1, <1>6, <1>7, <1>8, n \in Nat, StartedStacks
  <2> QED BY ONLY <1>2, <2>1
<1>10. StackState(C, more, phase')
  BY <1>6, <1>9, UpState
<1> QED BY ONLY <1>3, <1>5, <1>10 DEF StackInv

\* The open objects, part p added to the innermost one.
With(op, p) == [op EXCEPT ![Len(op)].parts = @ \cup {p}]

LEMMA NotesWith ==
  ASSUME NEW op, IsOpen(op), NEW n \in Nat \ {0}, n = Len(op), NEW p, NEW rs,
         NEW ns, ns = Notes(op, rs), NEW ms, ms = Notes(With(op, p), rs)
  PROVE  /\ Len(ns) = n /\ Len(ms) = n /\ ns[n].o = op[n].o /\ ms[n].o = op[n].o
         /\ \A l \in 1 .. n - 1 : ms[l] = ns[l]
         /\ Doc[op[n].o].kind # "table" => ms[n] = ns[n]
         /\ Doc[op[n].o].kind = "table" => ms[n].has = ns[n].has \cup {FieldOf(op[n].o, p, rs)}
<1>1. PICK ps, f, longer : /\ ps = op[n].parts \cup {p} /\ f = [op[n] EXCEPT !.parts = ps]
                           /\ longer = [op EXCEPT ![n] = f]
  OBVIOUS
<1>2. longer = With(op, p)
  BY <1>1 DEF With
<1>3. DOMAIN op[n] = {"o", "parts"}
  BY DEF IsOpen
<1>4. f.o = op[n].o /\ f.parts = ps
  BY ONLY <1>1, <1>3
<1>5. PICK S : op \in Seq(S)
  BY DEF IsOpen
<1>6. Len(longer) = n /\ \A l \in 1 .. n : longer[l] = IF l = n THEN f ELSE op[l]
  BY ONLY <1>1, <1>5, n = Len(op), n \in Nat \ {0}
<1>7. Len(ns) = n /\ \A l \in 1 .. n : ns[l] = Noted(op[l], rs)
  BY NotesAt
<1>8. Len(ms) = n /\ \A l \in 1 .. n : ms[l] = Noted(longer[l], rs)
  BY <1>2, <1>6, NotesAt
<1>9. n \in 1 .. n
  OBVIOUS
<1>10. ns[n] = Noted(op[n], rs) /\ ms[n] = Noted(f, rs)
  BY ONLY <1>6, <1>7, <1>8, <1>9
<1>11. ASSUME NEW l \in 1 .. n - 1 PROVE ms[l] = ns[l]
  <2>1. l \in 1 .. n /\ l # n
    OBVIOUS
  <2> QED BY ONLY <1>6, <1>7, <1>8, <2>1
<1>12. ns[n].o = op[n].o /\ ms[n].o = op[n].o
  BY <1>4, <1>10, NotedFacts
<1>13. Doc[op[n].o].kind # "table" => ms[n] = ns[n]
  BY ONLY <1>4, <1>10 DEF Noted
<1>14. ASSUME Doc[op[n].o].kind = "table"
       PROVE  ms[n].has = ns[n].has \cup {FieldOf(op[n].o, p, rs)}
  <2>1. ns[n].has = {FieldOf(op[n].o, q, rs) : q \in op[n].parts}
    BY <1>10, <1>14, NotedFacts
  <2>2. ms[n].has = {FieldOf(op[n].o, q, rs) : q \in ps}
    BY <1>4, <1>10, <1>14, NotedFacts
  <2> QED BY ONLY <1>1, <2>1, <2>2
<1> QED BY ONLY <1>7, <1>8, <1>11, <1>12, <1>13, <1>14

\* A call that adds a part, successful or not.
LEMMA AddedStack ==
  ASSUME NEW r, NEW p, SessionInv, open # <<>>, Loose(r.B),
         r.ref # 0 => StacksUp(r.B, Notes(With(open, p), refs)), Added(r, p)
  PROVE  StackInv'
<1>1. PICK C, longer : C = r.B /\ longer = With(open, p)
  OBVIOUS
<1>2. B' = C /\ open' = longer /\ refs' = refs /\ (phase' = "failed" \/ r.ref # 0)
  BY <1>1 DEF Added, With
<1>3. StackState(C, Notes(longer, refs), phase')
  BY <1>1, <1>2 DEF StackState
<1> QED BY ONLY <1>2, <1>3 DEF StackInv

-----------------------------------------------------------------------------
(* Fields that are added to the innermost table *)

LEMMA VoffsetFits ==
  ASSUME NEW x \in Nat, x <= VOFFSET_MAX
  PROVE  voffset(x) = x
<1>1. PICK m \in Int : m = VOFFSET_MAX
  BY RadixAssumption DEF VOFFSET_MAX
<1>2. m + 1 \in Int /\ x < m + 1 /\ 0 <= x
  BY <1>1
<1>3. x % (m + 1) = x
  BY ONLY <1>2, x \in Nat, m \in Int
<1> QED BY <1>1, <1>3 DEF voffset

\* A field that was written is there, and so are those before it.
LEMMA WrittenHas ==
  ASSUME NEW C, NEW D, Tidy(C), IsEntries(C), NEW data, IsSeq(data), NEW id \in Nat, NEW offset,
         Written(D, C, offset, data, id), ~ IsSet(C, id)
  PROVE  /\ \A k : Has(C, k) => Has(D, k)
         /\ Has(D, [id |-> id, data |-> data])
<1>1. PICK x \in Nat, y \in Nat, v \in Nat, e \in Nat :
         x = C.ds_first /\ y = C.ds_offset /\ v = C.vs /\ e = C.id_end
  BY DEF Tidy, Aimed, IsEntries
<1>2. PICK m \in Nat : m = Len(data)
  BY DEF IsSeq
<1>3. /\ offset \in Nat /\ offset >= y /\ D.ds_offset = offset + m /\ D.ds_first = x
      /\ \A i \in Nat : i <= x + y => Byte(D, i) = Byte(C, i)
      /\ \A i \in 1 .. m : Byte(D, x + offset + i) = data[i]
  BY <1>1, <1>2 DEF Written, Grown, Shaped, SameBelow
<1>4. PICK w : w = voffset(offset + field_size)
  OBVIOUS
<1>5. PICK mem : mem = C.vs_mem /\ mem = [i \in 0 .. Fields |-> mem[i]]
  BY DEF IsEntries
<1>6. D.vs = v /\ D.id_end = Greater(e, id + 1) /\ D.vs_mem = [mem EXCEPT ![v + id] = w]
  BY <1>1, <1>4, <1>5 DEF Written, NotedAt
<1>7. PICK e2 \in Nat : e2 = D.id_end /\ e2 >= e /\ e2 >= id + 1
  BY <1>6 DEF Greater
<1>8. PICK y2 \in Nat : y2 = D.ds_offset /\ y2 = offset + m /\ y2 >= y
  BY <1>3
<1>9. mem[v + id] = 0
  BY <1>1, <1>5 DEF IsSet
<1>10. ASSUME NEW k, Has(C, k) PROVE Has(D, k)
  <2>1. FieldAt(C, x, y, v, e, k)
    BY <1>1, <1>10 DEF Has
  <2>2. PICK off \in Nat :
           /\ off + Len(k.data) <= y
           /\ off + field_size <= VOFFSET_MAX /\ v + k.id <= Fields
                 => mem[v + k.id] = off + field_size
           /\ \A j \in 1 .. Len(k.data) : Byte(C, x + off + j) = k.data[j]
    BY <1>5, <2>1 DEF FieldAt
  <2>3. PICK kid \in Nat, n \in Nat : kid = k.id /\ n = Len(k.data) /\ kid < e /\ IsSeq(k.data)
    BY <2>1 DEF FieldAt, IsSeq
  <2>4. kid < e2 /\ off + n <= y2 /\ off + n <= y
    BY ONLY <1>7, <1>8, <2>2, <2>3, kid \in Nat, e \in Nat, e2 \in Nat, off \in Nat, n \in Nat,
            y \in Nat, y2 \in Nat
  <2>5. ASSUME off + field_size <= VOFFSET_MAX, v + kid <= Fields
        PROVE  D.vs_mem[v + kid] = off + field_size
    <3>1. mem[v + kid] = off + field_size
      BY <2>2, <2>3, <2>5
    <3>2. off + field_size # 0
      BY FieldSizeType
    <3>3. v + kid # v + id
      BY ONLY <1>9, <3>1, <3>2
    <3>4. v + kid \in 0 .. Fields
      BY <2>5, StackAssumption
    <3> QED BY ONLY <1>5, <1>6, <3>1, <3>3, <3>4
  <2>6. ASSUME NEW j \in 1 .. n PROVE Byte(D, x + off + j) = k.data[j]
    <3>1. x + off + j \in Nat /\ x + off + j <= x + y
      BY ONLY <2>4, x \in Nat, off \in Nat, j \in 1 .. n, n \in Nat, y \in Nat
    <3>2. Byte(D, x + off + j) = Byte(C, x + off + j)
      BY ONLY <1>3, <3>1
    <3> QED BY ONLY <2>2, <2>3, <3>2, j \in 1 .. n
  <2>7. FieldAt(D, x, y2, v, e2, k)
    BY ONLY <2>3, <2>4, <2>5, <2>6, off \in Nat, kid \in Nat DEF FieldAt
  <2> QED BY ONLY <1>3, <1>6, <1>7, <1>8, <2>7 DEF Has
<1>11. Has(D, [id |-> id, data |-> data])
  <2>1. PICK k : k = [id |-> id, data |-> data]
    OBVIOUS
  <2>2. k.id = id /\ k.data = data
    BY <2>1
  <2>3. id < e2 /\ offset + m <= y2
    BY ONLY <1>7, <1>8, id \in Nat, e2 \in Nat, y2 \in Nat
  <2>4. ASSUME offset + field_size <= VOFFSET_MAX, v + id <= Fields
        PROVE  D.vs_mem[v + id] = offset + field_size
    <3>1. w = offset + field_size
      BY <1>3, <1>4, <2>4, FieldSizeType, VoffsetFits
    <3>2. v + id \in 0 .. Fields
      BY <2>4, StackAssumption
    <3> QED BY ONLY <1>5, <1>6, <3>1, <3>2
  <2>5. FieldAt(D, x, y2, v, e2, k)
    BY ONLY <1>2, <1>3, <2>2, <2>3, <2>4, id \in Nat, IsSeq(data) DEF FieldAt
  <2> QED BY ONLY <1>3, <1>6, <1>7, <1>8, <2>1, <2>5 DEF Has
<1> QED BY ONLY <1>10, <1>11

LEMMA TwiceHas ==
  ASSUME NEW C, NEW r, Tidy(C), IsEntries(C), NEW data, IsSeq(data), NEW id \in Nat,
         NEW data2, IsSeq(data2), NEW id2 \in Nat, Twice(r, C, data, id, data2, id2)
  PROVE  /\ \A k : Has(C, k) => Has(r.B, k)
         /\ Has(r.B, [id |-> id, data |-> data]) /\ Has(r.B, [id |-> id2, data |-> data2])
<1>1. PICK D : /\ ~ IsSet(C, id) /\ \E offset : Written(D, C, offset, data, id)
               /\ ~ IsSet(D, id2) /\ \E offset : Written(r.B, D, offset, data2, id2)
  BY DEF Twice
<1>2. PICK offset1 : Written(D, C, offset1, data, id)
  BY <1>1
<1>3. PICK offset2 : Written(r.B, D, offset2, data2, id2)
  BY <1>1
<1>4. Tidy(D) /\ IsEntries(D)
  BY <1>2, NotedEntries DEF Written, Grown
<1>5. (\A k : Has(C, k) => Has(D, k)) /\ Has(D, [id |-> id, data |-> data])
  BY <1>1, <1>2, WrittenHas
<1>6. (\A k : Has(D, k) => Has(r.B, k)) /\ Has(r.B, [id |-> id2, data |-> data2])
  BY <1>1, <1>3, <1>4, WrittenHas
<1> QED BY ONLY <1>5, <1>6

\* A table with a field more.
LEMMA TableUp ==
  ASSUME NEW C, NEW op, StacksUp(C, op), NEW n \in Nat \ {0}, n = Len(op),
         KindAt(op, n) = "table", NEW D, Extended(D, C),
         NEW op2, Len(op2) = n, op2[n].o = op[n].o, \A l \in 1 .. n - 1 : op2[l] = op[l],
         NEW k0, op2[n].has = op[n].has \cup {k0}, Has(D, k0), \A k : Has(C, k) => Has(D, k)
  PROVE  StacksUp(D, op2)
<1>1. /\ Tidy(D) /\ Shaped(D, C) /\ SameBelow(D, C, C.ds_offset) /\ IsEntries(D) /\ D.vs = C.vs
      /\ \A i \in 0 .. Fields : i < C.vs => D.vs_mem[i] = C.vs_mem[i]
  BY DEF Extended, Grown, Marked
<1>2. Based(C)
  BY StacksBased
<1>3. SameBelow(D, C, 0)
  BY <1>1, <1>2, BelowLess DEF Based
<1>4. /\ \A l \in 1 .. n - 1 : D.frame[l].c = C.frame[l].c
      /\ IsSized(D.frame[n].c, op[n].o) /\ D.frame[n].c = C.frame[n].c
      /\ SamePlaces(D, C) /\ D.ds_first = C.ds_first /\ Len(D.ds_mem) >= Len(C.ds_mem)
  BY <1>1, ShapedFrames
<1>5. PICK F, O, V, I : StacksAt(C, op, F, O, V, I) /\ Held(C, op, F, O, V, I)
  BY DEF StacksUp
<1>6. F[n] = C.ds_first /\ O[n] = C.ds_offset /\ V[n] = C.vs /\ I[n] = C.id_end
  BY <1>5 DEF StacksAt, Piled, Laid
<1>7. \A k \in op[n].has : Has(C, k)
  <2>1. n \in 1 .. n
    OBVIOUS
  <2> QED BY ONLY <1>5, <1>6, <2>1, n = Len(op) DEF Held, LevelHeld, Has
<1>8. \A k \in op2[n].has : Has(D, k)
  BY <1>7
<1>9. Doc[op2[n].o].kind = "table"
  BY DEF KindAt
<1>10. LevelHeld(D, op2[n], D.ds_first, D.ds_offset, D.vs, D.id_end)
  BY ONLY <1>8, <1>9 DEF LevelHeld, Has
<1>11. /\ KindAt(op, n) # "buffer"
       /\ KindAt(op, n) = "table" => D.frame[n].c = C.frame[n].c
       /\ KindAt(op, n) # "table" => D.id_end = C.id_end /\ D.vs_mem = C.vs_mem
  BY <1>4
<1>12. /\ Tidy(D) /\ IsEntries(D) /\ D.vs = C.vs
       /\ \A i \in 0 .. Fields : i < C.vs => D.vs_mem[i] = C.vs_mem[i]
  BY ONLY <1>1
<1> QED BY ONLY LevelsWithin, <1>3, <1>4, <1>10, <1>11, <1>12, StacksUp(C, op),
        n \in Nat \ {0}, n = Len(op), Len(op2) = n,
        op2[n].o = op[n].o, \A l \in 1 .. n - 1 : op2[l] = op[l]

\* The refs of an object that is finished, or both of a vector of unions.
AreRefs(s, o) ==
    IF Doc[o].kind = "unions" THEN \E a, b : s = <<a, b>> /\ a # 0
    ELSE \E a : s = <<a>> /\ a # 0

\* What a table refers to is finished.
Refers(x, rs) ==
    Doc[x.o].kind = "table" =>
       \A p \in x.parts : LET f == Doc[x.o].fields[p]
                          IN  f.kind # "inline" => f.to \in Objects /\ rs[f.to] # <<>>

\* What is open is open once and has no refs yet.
RefsHold(op, rs) ==
    /\ rs = [o \in Objects |-> rs[o]]
    /\ \A o \in Objects : rs[o] # <<>> => AreRefs(rs[o], o)
    /\ \A l \in 1 .. Len(op) : /\ rs[op[l].o] = <<>> /\ Refers(op[l], rs)
                               /\ \A m \in 1 .. Len(op) : m # l => op[m].o # op[l].o
RefsInv == RefsHold(open, refs)

LEMMA LastRef == \A a, b : Last(<<a>>) = a /\ Last(<<a, b>>) = b
  BY DEF Last

LEMMA AddFieldStack ==
  ASSUME SessionInv, StackInv, RefsInv, NEW p \in NextParts, AddField(p)
  PROVE  StackInv'
<1>1. PICK ks : ks = KindsOf(open)
  OBVIOUS
<1>2. /\ phase = "building" /\ open # <<>> /\ p \in Parts(Innermost.o)
      /\ Standing(B, ks) /\ Innermost.o \in Objects /\ Len(ks) > 0
  BY <1>1, NextPartsFacts
<1>3. PICK o, d : o = Innermost.o /\ d = Doc[o] /\ IsObject(d)
  BY <1>2, DocFacts
<1>4. d.kind = "table"
  BY <1>3 DEF AddField
<1>5. p \in DOMAIN d.fields
  BY <1>2, <1>3, <1>4 DEF Parts
<1>6. PICK f : f = d.fields[p]
  OBVIOUS
<1>7. /\ f.id \in Nat
      /\ f.kind = "inline" => f.align \in Nat \ {0} /\ IsSeq(f.data)
      /\ f.kind \in {"union", "union_vector"} => f.id # 0
  BY <1>3, <1>4, <1>5, <1>6 DEF IsObject
<1>8. PICK n \in Nat \ {0} : n = Len(open)
  BY <1>1, <1>2, BuildingState
<1>9. PICK op, more : op = Notes(open, refs) /\ more = Notes(With(open, p), refs)
  OBVIOUS
<1>10. /\ Len(op) = n /\ Len(more) = n /\ op[n].o = o /\ more[n].o = op[n].o
       /\ \A l \in 1 .. n - 1 : more[l] = op[l]
       /\ more[n].has = op[n].has \cup {FieldOf(o, p, refs)}
  <2>1. IsOpen(open)
    BY <1>2, BuildingState
  <2>2. open[n].o = o /\ Doc[open[n].o].kind = "table"
    BY <1>3, <1>4, <1>8 DEF Innermost
  <2>3. /\ Len(op) = n /\ Len(more) = n /\ op[n].o = open[n].o /\ more[n].o = open[n].o
        /\ \A l \in 1 .. n - 1 : more[l] = op[l]
        /\ Doc[open[n].o].kind = "table" => more[n].has = op[n].has \cup {FieldOf(open[n].o, p, refs)}
    BY ONLY <1>8, <1>9, <2>1, n \in Nat \ {0}, NotesWith
  <2> QED BY ONLY <2>2, <2>3
<1>11. StacksUp(B, op) /\ KindAt(op, n) = "table"
  BY <1>2, <1>3, <1>4, <1>9, <1>10 DEF StackInv, StackState, KindAt
<1>12. Tidy(B) /\ IsEntries(B)
  <2>1. KindAt(op, n) # "buffer"
    BY <1>11
  <2> QED BY <1>10, <1>11, <2>1, StacksTidy, StacksBased DEF Based
<1>13. PICK k0 : k0 = FieldOf(o, p, refs)
  OBVIOUS
<1>14. k0 = [id |-> f.id, data |-> IF f.kind = "inline" THEN f.data
                                   ELSE write_uoffset(Last(refs[f.to]))]
  BY ONLY <1>3, <1>6, <1>13 DEF FieldOf
<1>15. ASSUME NEW r, Extended(r.B, B), Added(r, p),
              r.ref # 0 => Has(r.B, k0) /\ \A k : Has(B, k) => Has(r.B, k)
       PROVE  StackInv'
  <2>1. PICK D : D = r.B
    OBVIOUS
  <2>2. Loose(D)
    <3>1. Tidy(D) /\ IsEntries(D)
      BY <1>15, <2>1 DEF Extended, Grown
    <3> QED BY <3>1 DEF Tidy, Aimed, IsEntries, Loose
  <2>3. ASSUME r.ref # 0 PROVE StacksUp(D, more)
    <3>1. Has(D, k0) /\ \A k : Has(B, k) => Has(D, k)
      BY ONLY <1>15, <2>1, <2>3
    <3>2. Extended(D, B)
      BY <1>15, <2>1
    <3> QED BY ONLY <1>10, <1>11, <1>13, <3>1, <3>2, n \in Nat \ {0}, TableUp
  <2> QED BY <1>2, <1>9, <1>15, <2>1, <2>2, <2>3, AddedStack
<1>16. ASSUME f.kind # "inline", IsReady(f.to)
       PROVE  /\ refs[f.to][1] # 0
              /\ Last(refs[f.to]) = IF f.kind = "union_vector" THEN refs[f.to][2]
                                    ELSE refs[f.to][1]
  <2>1. f.to \in Objects /\ (f.kind = "union_vector" <=> Doc[f.to].kind = "unions")
    <3>1. o \in DOMAIN Doc /\ Doc[o].kind = "table" /\ p \in DOMAIN Doc[o].fields /\ f = Doc[o].fields[p]
      BY <1>2, <1>3, <1>4, <1>5, <1>6 DEF Objects
    <3> QED BY ONLY <1>16, <3>1, ReferenceAssumption DEF ReferenceAssumption, Objects
  <2>2. AreRefs(refs[f.to], f.to)
    BY <1>16, <2>1 DEF IsReady, RefsInv, RefsHold
  <2>3. PICK s : s = refs[f.to]
    OBVIOUS
  <2>4. CASE f.kind = "union_vector"
    <3>1. PICK a, b : s = <<a, b>> /\ a # 0
      BY ONLY <2>1, <2>2, <2>3, <2>4 DEF AreRefs
    <3>2. s[1] # 0 /\ Last(s) = s[2]
      BY <3>1, LastRef
    <3> QED BY ONLY <2>3, <2>4, <3>2
  <2>5. CASE f.kind # "union_vector"
    <3>1. PICK a : s = <<a>> /\ a # 0
      BY ONLY <2>1, <2>2, <2>3, <2>5 DEF AreRefs
    <3>2. s[1] # 0 /\ Last(s) = s[1]
      BY <3>1, LastRef
    <3> QED BY ONLY <2>3, <2>5, <3>2
  <2> QED BY <2>4, <2>5
<1>17. \/ f.kind = "inline" /\ Added(table_add_copy(B, f.id, f.data, f.align), p)
       \/ f.kind = "offset" /\ IsReady(f.to) /\ Added(table_add_offset(B, f.id, Ref(f.to)), p)
       \/ /\ f.kind = "union" /\ IsReady(f.to)
          /\ Added(table_add_union(B, f.id, f.type, Ref(f.to)), p)
       \/ /\ f.kind = "union_vector" /\ IsReady(f.to)
          /\ Added(table_add_union_vector(B, f.id, refs[f.to][1], refs[f.to][2]), p)
  BY <1>3, <1>6 DEF AddField
<1>18. CASE f.kind = "inline" /\ Added(table_add_copy(B, f.id, f.data, f.align), p)
  <2>1. IsSeq(f.data) /\ f.align \in Nat \ {0}
    BY <1>7, <1>18
  <2>2. PICK data, align, id, r : /\ data = f.data /\ align = f.align /\ id = f.id
                                  /\ r = table_add_copy(B, id, data, align)
    OBVIOUS
  <2>3. Extended(r.B, B)
    BY <1>2, <1>7, <1>12, <2>1, <2>2, AddCopyExtends
  <2>4. k0 = [id |-> id, data |-> data]
    BY ONLY <1>14, <1>18, <2>2
  <2>5. ASSUME r.ref # 0 PROVE Has(r.B, k0) /\ \A k : Has(B, k) => Has(r.B, k)
    <3>1. IsSeq(data) /\ align \in Nat \ {0} /\ id \in Nat
      BY <1>7, <2>1, <2>2
    <3>2. ~ IsSet(B, id) /\ Written(r.B, B, alignup(B.ds_offset, align), data, id)
      <4>1. /\ r.ref \in {0, 1}
            /\ r.ref = 1 => /\ ~ IsSet(B, id)
                            /\ Written(r.B, B, alignup(B.ds_offset, align), data, id)
        <5>1. r = table_add_copy(B, id, data, align)
          BY ONLY <2>2
        <5>2. Standing(B, ks) /\ Len(ks) > 0 /\ Tidy(B)
          BY ONLY <1>2, <1>12
        <5> QED BY ONLY <3>1, <5>1, <5>2, AddCopyTidy
      <4> QED BY ONLY <2>5, <4>1
    <3> QED BY <1>12, <2>4, <3>1, <3>2, WrittenHas
  <2> QED BY <1>15, <1>18, <2>2, <2>3, <2>5
<1>19. CASE f.kind = "offset" /\ IsReady(f.to) /\ Added(table_add_offset(B, f.id, Ref(f.to)), p)
  <2>1. PICK id, ref, r : id = f.id /\ ref = Ref(f.to) /\ r = table_add_offset(B, id, ref)
    OBVIOUS
  <2>2. Extended(r.B, B)
    BY <1>2, <1>7, <1>12, <2>1, AddOffsetExtends
  <2>3. k0 = [id |-> id, data |-> write_uoffset(ref)]
    BY ONLY <1>14, <1>16, <1>19, <2>1 DEF Ref
  <2>4. ASSUME r.ref # 0 PROVE Has(r.B, k0) /\ \A k : Has(B, k) => Has(r.B, k)
    <3>1. IsSeq(write_uoffset(ref)) /\ id \in Nat
      BY <1>7, <2>1, UoffsetSeq
    <3>2. /\ ~ IsSet(B, id)
          /\ Written(r.B, B, alignup(B.ds_offset, field_size), write_uoffset(ref), id)
      BY <1>2, <1>12, <2>1, <2>4, AddOffsetTidy
    <3> QED BY <1>12, <2>3, <3>1, <3>2, WrittenHas
  <2> QED BY <1>15, <1>19, <2>1, <2>2, <2>4
<1>20. CASE /\ f.kind = "union" /\ IsReady(f.to)
            /\ Added(table_add_union(B, f.id, f.type, Ref(f.to)), p)
  <2>1. PICK id, type, ref, r : /\ id = f.id /\ type = f.type /\ ref = Ref(f.to)
                                /\ r = table_add_union(B, id, type, ref)
    OBVIOUS
  <2>2. id \in Nat \ {0} /\ id - 1 \in Nat
    BY <1>7, <1>20, <2>1
  <2>3. Extended(r.B, B) /\ (r.ref # 0 /\ ref # 0
           => Twice(r, B, write_uoffset(ref), id, <<type>>, id - 1))
    BY <1>2, <1>12, <2>1, <2>2, AddUnionTidy
  <2>4. k0 = [id |-> id, data |-> write_uoffset(ref)] /\ ref # 0
    BY ONLY <1>14, <1>16, <1>20, <2>1 DEF Ref
  <2>5. ASSUME r.ref # 0 PROVE Has(r.B, k0) /\ \A k : Has(B, k) => Has(r.B, k)
    <3>1. IsSeq(write_uoffset(ref)) /\ IsSeq(<<type>>)
      <4>1. <<type>> = [i \in 1 .. 1 |-> <<type>>[i]] /\ Len(<<type>>) = 1
        OBVIOUS
      <4> QED BY <4>1, UoffsetSeq DEF IsSeq
    <3>2. PICK data, data2 : data = write_uoffset(ref) /\ data2 = <<type>>
      OBVIOUS
    <3>3. Twice(r, B, data, id, data2, id - 1)
      BY ONLY <2>3, <2>4, <2>5, <3>2
    <3>4. Has(r.B, [id |-> id, data |-> data]) /\ \A k : Has(B, k) => Has(r.B, k)
      BY ONLY <1>12, <2>2, <3>1, <3>2, <3>3, TwiceHas
    <3> QED BY ONLY <2>4, <3>2, <3>4
  <2> QED BY <1>15, <1>20, <2>1, <2>3, <2>5
<1>21. CASE /\ f.kind = "union_vector" /\ IsReady(f.to)
            /\ Added(table_add_union_vector(B, f.id, refs[f.to][1], refs[f.to][2]), p)
  <2>1. PICK id, type, value, r :
           /\ id = f.id /\ type = refs[f.to][1] /\ value = refs[f.to][2]
           /\ r = table_add_union_vector(B, id, type, value)
    OBVIOUS
  <2>2. id \in Nat \ {0} /\ id - 1 \in Nat
    BY <1>7, <1>21, <2>1
  <2>3. Extended(r.B, B) /\ (r.ref # 0 /\ type # 0
           => Twice(r, B, write_uoffset(type), id - 1, write_uoffset(value), id))
    BY <1>2, <1>12, <2>1, <2>2, AddUnionVectorTidy
  <2>4. k0 = [id |-> id, data |-> write_uoffset(value)] /\ type # 0
    BY ONLY <1>14, <1>16, <1>21, <2>1
  <2>5. ASSUME r.ref # 0 PROVE Has(r.B, k0) /\ \A k : Has(B, k) => Has(r.B, k)
    <3>1. IsSeq(write_uoffset(type)) /\ IsSeq(write_uoffset(value))
      BY UoffsetSeq
    <3>2. PICK data, data2 : data = write_uoffset(type) /\ data2 = write_uoffset(value)
      OBVIOUS
    <3>3. Twice(r, B, data, id - 1, data2, id)
      BY ONLY <2>3, <2>4, <2>5, <3>2
    <3>4. Has(r.B, [id |-> id, data |-> data2]) /\ \A k : Has(B, k) => Has(r.B, k)
      BY ONLY <1>12, <2>2, <3>1, <3>2, <3>3, TwiceHas
    <3> QED BY ONLY <2>4, <3>2, <3>4
  <2> QED BY <1>15, <1>21, <2>1, <2>3, <2>5
<1> QED BY <1>17, <1>18, <1>19, <1>20, <1>21

\* The bytes of an element are as many as its vector says.
LEMMA UnionRefSize ==
  ASSUME NEW type, NEW ref
  PROVE  IsSeq(union_ref(type, ref)) /\ Len(union_ref(type, ref)) = union_size
<1>1. PICK x : x = write_uoffset(ref) /\ IsSeq(x) /\ Len(x) = 4
  BY UoffsetSeq, FieldSizeType
<1>2. PICK y : y = _pad(3) /\ IsSeq(y) /\ Len(y) = 3
  BY PadType
<1>3. union_ref(type, ref) = <<type>> \o y \o x
  <2>1. field_size - utype_size = 3
    BY DEF field_size, utype_size
  <2> QED BY ONLY <1>1, <1>2, <2>1 DEF union_ref
<1>4. PICK W : W = {type} \cup {x[i] : i \in 1 .. 4} \cup {y[i] : i \in 1 .. 3}
  OBVIOUS
<1>5. x \in Seq(W) /\ y \in Seq(W) /\ <<type>> \in Seq(W) /\ Len(<<type>>) = 1
  <2>1. \A i \in 1 .. Len(x) : x[i] \in W
    BY <1>1, <1>4
  <2>2. \A i \in 1 .. Len(y) : y[i] \in W
    BY <1>2, <1>4
  <2>3. type \in W
    BY <1>4
  <2> QED BY <1>1, <1>2, <2>1, <2>2, <2>3, InSeq
<1>6. PICK t, u, z : t = <<type>> /\ u = t \o y /\ z = u \o x
  OBVIOUS
<1>7. u \in Seq(W) /\ Len(u) = 4
  <2>1. u \in Seq(W) /\ Len(u) = Len(t) + Len(y)
    BY ONLY <1>5, <1>6, ConcatAt
  <2>2. Len(t) = 1
    BY ONLY <1>5, <1>6
  <2>3. Len(y) = 3
    BY ONLY <1>2
  <2> QED BY ONLY <2>1, <2>2, <2>3
<1>8. z \in Seq(W) /\ Len(z) = 8
  <2>1. z \in Seq(W) /\ Len(z) = Len(u) + Len(x)
    BY ONLY <1>5, <1>6, <1>7, ConcatAt
  <2>2. Len(x) = 4
    BY ONLY <1>1
  <2>3. Len(u) = 4
    BY ONLY <1>7
  <2> QED BY ONLY <2>1, <2>2, <2>3
<1>9. IsSeq(z)
  BY ONLY <1>8, SeqIs
<1> QED BY ONLY <1>3, <1>6, <1>8, <1>9 DEF union_size

LEMMA ElementSize ==
  ASSUME NEW o \in Objects, Doc[o].kind \in Elements, NEW p \in Parts(o)
  PROVE  /\ IsSeq(Element(o, p))
         /\ Len(Element(o, p)) =
               IF Doc[o].kind = "string" THEN Len(Doc[o].data) ELSE ElemSize(o)
<1>1. PICK d : d = Doc[o] /\ IsObject(d)
  BY DocFacts
<1>2. Element(o, p) =
          CASE d.kind = "string" -> d.data
            [] d.kind = "vector" -> d.elems[p]
            [] d.kind = "offsets" -> write_uoffset(Ref(d.to[p]))
            [] d.kind = "unions" ->
                  union_ref(d.elems[p].type,
                            IF d.elems[p].type = 0 THEN 0 ELSE Ref(d.elems[p].to))
  BY ONLY <1>1 DEF Element
<1>3. CASE d.kind = "string"
  <2>1. Element(o, p) = d.data
    BY ONLY <1>2, <1>3
  <2> QED BY <1>1, <1>3, <2>1 DEF IsObject
<1>4. CASE d.kind = "vector"
  <2>1. Element(o, p) = d.elems[p]
    BY ONLY <1>2, <1>4
  <2>2. p \in DOMAIN d.elems
    BY <1>1, <1>4 DEF Parts
  <2>3. IsSeq(d.elems[p]) /\ Len(d.elems[p]) = Len(d.elems[1])
    BY <1>1, <1>4, <2>2 DEF IsObject
  <2>4. ElemSize(o) = Len(d.elems[1])
    BY <1>1, <1>4 DEF ElemSize
  <2> QED BY <1>1, <1>4, <2>1, <2>3, <2>4
<1>5. CASE d.kind = "offsets"
  <2>1. Element(o, p) = write_uoffset(Ref(d.to[p]))
    BY ONLY <1>2, <1>5
  <2>2. ElemSize(o) = field_size
    BY <1>1, <1>5 DEF ElemSize
  <2> QED BY <1>1, <1>5, <2>1, <2>2, UoffsetSeq
<1>6. CASE d.kind = "unions"
  <2>1. PICK x, y : x = d.elems[p].type /\ y = IF d.elems[p].type = 0 THEN 0 ELSE Ref(d.elems[p].to)
    OBVIOUS
  <2>2. Element(o, p) = union_ref(x, y)
    BY ONLY <1>2, <1>6, <2>1
  <2>3. ElemSize(o) = union_size
    BY <1>1, <1>6 DEF ElemSize
  <2> QED BY <1>1, <1>6, <2>2, <2>3, UnionRefSize
<1> QED BY <1>1, <1>3, <1>4, <1>5, <1>6 DEF Elements

\* Elements more, or fewer.
LEMMA StretchedUp ==
  ASSUME NEW C, NEW op, StacksUp(C, op), NEW n \in Nat \ {0}, n = Len(op),
         KindAt(op, n) \in Elements, NEW count \in Nat, NEW offset, NEW D,
         Stretched(D, C, count, offset)
  PROVE  StacksUp(D, op)
<1>1. PICK F, O, V, I : StacksAt(C, op, F, O, V, I)
  BY DEF StacksUp
<1>2. Len(C.frame) = n /\ \A l \in 1 .. n : IsSized(C.frame[l].c, op[l].o)
  BY <1>1 DEF StacksAt, Piled, Sized
<1>3. Len(D.frame) = n
  BY <1>2 DEF Stretched, SamePlaces
<1>4. D.frame[n].c.count = count /\ D.frame[n].c.elem_size = C.frame[n].c.elem_size
  BY <1>2, <1>3 DEF Stretched, frame, level
<1>5. n \in 1 .. n /\ KindAt(op, n) # "buffer" /\ KindAt(op, n) # "table"
  BY DEF Elements
<1>6. IsSized(C.frame[n].c, op[n].o) /\ Doc[op[n].o].kind \in Elements
  BY <1>2, <1>5 DEF KindAt
<1>7. IsSized(D.frame[n].c, op[n].o)
  BY ONLY <1>4, <1>6, count \in Nat DEF IsSized
<1>8. /\ Tidy(D) /\ SamePlaces(D, C) /\ D.ds_first = C.ds_first /\ SameBelow(D, C, 0)
      /\ SameEntries(D, C) /\ Len(D.ds_mem) >= Len(C.ds_mem)
      /\ \A l \in 1 .. n - 1 : D.frame[l].c = C.frame[l].c
  BY <1>2 DEF Stretched
<1> QED BY ONLY WithinUp, <1>5, <1>7, <1>8, StacksUp(C, op), n \in Nat \ {0}, n = Len(op)

LEMMA PushStack ==
  ASSUME SessionInv, StackInv, NEW p \in NextParts, Push(p)
  PROVE  StackInv'
<1>1. PICK ks, o : ks = KindsOf(open) /\ o = Innermost.o
  OBVIOUS
<1>2. /\ phase = "building" /\ open # <<>> /\ p \in Parts(o)
      /\ Standing(B, ks) /\ o \in Objects /\ Len(ks) > 0 /\ ks[Len(ks)] = Doc[o].kind
  BY <1>1, NextPartsFacts
<1>3. Doc[o].kind \in Elements
  BY <1>1 DEF Push, Elements
<1>4. PICK n \in Nat : n = IF Doc[o].kind = "string" THEN Len(Doc[o].data) ELSE 1
  <2>1. Doc[o].kind = "string" => Len(Doc[o].data) \in Nat
    BY <1>2, DocFacts, SeqPiece DEF IsObject
  <2> QED BY <2>1
<1>5. PICK data : data = Element(o, p)
  OBVIOUS
<1>6. PICK m \in Nat : m = Len(data)
  BY <1>2, <1>3, <1>5, ElementLength
<1>7. IsSeq(data) /\ m = ElemSize(o) * n
  <2>1. IsSeq(data) /\ m = IF Doc[o].kind = "string" THEN Len(Doc[o].data) ELSE ElemSize(o)
    BY <1>2, <1>3, <1>5, <1>6, ElementSize
  <2>2. Doc[o].kind = "string" => ElemSize(o) = 1
    BY DEF ElemSize
  <2>3. CASE Doc[o].kind = "string"
    BY <1>4, <2>1, <2>2, <2>3
  <2>4. CASE Doc[o].kind # "string"
    <3>1. m = ElemSize(o) /\ n = 1
      BY <1>4, <2>1, <2>4
    <3> QED BY ONLY <2>1, <3>1, m \in Nat
  <2> QED BY <2>3, <2>4
<1>8. ks[Len(ks)] \in Elements
  BY <1>2, <1>3
<1>9. PICK k \in Nat \ {0} : k = Len(open)
  BY <1>1, <1>2, BuildingState
<1>10. PICK op, more : op = Notes(open, refs) /\ more = Notes(With(open, p), refs)
  OBVIOUS
<1>11. /\ Len(op) = k /\ Len(more) = k /\ op[k].o = o /\ \A l \in 1 .. k : more[l] = op[l]
  <2>1. IsOpen(open)
    BY <1>2, BuildingState
  <2>2. open[k].o = o /\ Doc[open[k].o].kind # "table"
    BY <1>1, <1>3, <1>9 DEF Innermost, Elements
  <2>3. /\ Len(op) = k /\ Len(more) = k /\ op[k].o = open[k].o
        /\ \A l \in 1 .. k - 1 : more[l] = op[l]
        /\ Doc[open[k].o].kind # "table" => more[k] = op[k]
    BY ONLY <1>9, <1>10, <2>1, k \in Nat \ {0}, NotesWith
  <2>4. \A l \in 1 .. k : l \in 1 .. k - 1 \/ l = k
    OBVIOUS
  <2> QED BY ONLY <2>2, <2>3, <2>4
<1>12. StacksUp(B, op) /\ KindAt(op, k) = Doc[o].kind
  BY <1>2, <1>10, <1>11 DEF StackInv, StackState, KindAt
<1>13. KindAt(op, k) \in Elements /\ KindAt(op, k) # "buffer"
  BY <1>3, <1>12 DEF Elements
<1>14. Tidy(B) /\ Based(B)
  BY <1>11, <1>12, <1>13, StacksTidy, StacksBased
<1>15. PICK count \in Nat, offset \in Nat :
          /\ count = frame(B).c.count /\ offset = B.ds_offset
          /\ frame(B).c.elem_size = ElemSize(o)
  <2>1. PICK F, O, V, I : StacksAt(B, op, F, O, V, I)
    BY <1>12 DEF StacksUp
  <2>2. Len(B.frame) = k /\ IsSized(B.frame[k].c, op[k].o)
    BY <1>11, <2>1 DEF StacksAt, Piled, Sized
  <2>3. frame(B).c.count \in Nat /\ frame(B).c.elem_size = ElemSize(o)
    BY <1>3, <1>11, <2>2 DEF IsSized, frame, level
  <2> QED BY <1>14, <2>3 DEF Based
<1>16. PICK C : C = append_vector(B, data, n)
  OBVIOUS
<1>17. Stretched(C, B, count + n, offset + m)
  <2>1. Stretched(C, B, frame(B).c.count + n, B.ds_offset + Len(data))
    BY <1>2, <1>7, <1>8, <1>14, <1>16, AppendStretched
  <2> QED BY ONLY <1>6, <1>15, <2>1
<1>18. Tidy(C) /\ frame(C).c.count = count + n /\ C.ds_offset = offset + m
       /\ frame(C).c.elem_size = ElemSize(o)
  BY <1>15, <1>17 DEF Stretched
<1>19. Standing(C, ks)
  BY <1>2, <1>6, <1>8, <1>16, AppendVectorStands DEF Stacked
<1>20. PICK D : D = append_vector(C, data, n)
  OBVIOUS
<1>21. Stretched(D, C, (count + n) + n, (offset + m) + m)
  <2>1. Stretched(D, C, frame(C).c.count + n, C.ds_offset + Len(data))
    BY <1>2, <1>7, <1>8, <1>18, <1>19, <1>20, AppendStretched
  <2> QED BY ONLY <1>6, <1>18, <2>1
<1>22. Tidy(D) /\ frame(D).c.count = (count + n) + n /\ D.ds_offset = (offset + m) + m
       /\ frame(D).c.elem_size = ElemSize(o)
  BY <1>18, <1>21 DEF Stretched
<1>23. Standing(D, ks)
  BY <1>2, <1>6, <1>8, <1>19, <1>20, AppendVectorStands DEF Stacked
<1>24. PICK G : G = truncate_vector(D, n)
  OBVIOUS
<1>25. Stretched(G, D, count + n, offset + m)
  <2>1. m = frame(D).c.elem_size * n
    BY ONLY <1>7, <1>22
  <2>2. m <= D.ds_offset
    BY ONLY <1>22, m \in Nat, offset \in Nat
  <2>3. Stretched(G, D, frame(D).c.count - n, D.ds_offset - m)
    BY <1>2, <1>8, <1>22, <1>23, <1>24, <2>1, <2>2, TruncateStretched
  <2>4. frame(D).c.count - n = count + n /\ D.ds_offset - m = offset + m
    BY ONLY <1>22, count \in Nat, offset \in Nat, m \in Nat, n \in Nat
  <2> QED BY ONLY <2>3, <2>4
<1>26. Stretched(G, B, count + n, offset + m)
  <2>1. Stretched(D, B, (count + n) + n, (offset + m) + m)
    BY <1>14, <1>17, <1>21, StretchedTwice
  <2> QED BY <1>14, <1>25, <2>1, StretchedTwice
<1>27. StacksUp(C, more) /\ StacksUp(G, more)
  <2>1. StacksUp(C, op) /\ StacksUp(G, op)
    BY <1>11, <1>12, <1>13, <1>17, <1>26, StretchedUp
  <2> QED BY <1>11, <2>1, SameUp
<1>28. Added(Result(G, 1), p) \/ Added(Result(C, 1), p)
  BY <1>1, <1>4, <1>5, <1>16, <1>20, <1>24 DEF Push
<1>29. /\ StacksUp(Result(G, 1).B, more) /\ Loose(Result(G, 1).B)
       /\ StacksUp(Result(C, 1).B, more) /\ Loose(Result(C, 1).B)
  <2>1. Loose(C) /\ Loose(G)
    BY <1>11, <1>27, UpLoose
  <2> QED BY <1>27, <2>1 DEF Result
<1> QED BY <1>2, <1>10, <1>28, <1>29, AddedStack

-----------------------------------------------------------------------------
(* Objects that are ended, and the stacks *)

\* What a call leaves that ends an object: these are the open ones then.
Leaves(r, less) == Loose(r.B) /\ (r.ref # 0 => StacksUp(r.B, less))
Fewer(less, op, n) == Len(less) = n /\ \A l \in 1 .. n : less[l] = op[l]

\* The fields of the outer objects are as they were.
LEMMA HeldClosed ==
  ASSUME NEW C, NEW op, NEW F, NEW O, NEW V, NEW I, Piled(C, op, F, O, V, I),
         Held(C, op, F, O, V, I), NEW n \in Nat, n + 1 = Len(op), NEW less, Fewer(less, op, n),
         NEW b \in Int, b = F[n + 1], NEW e \in Int, e = V[n] + I[n], NEW D, Agree(D, C, b, e)
  PROVE  Held(D, less, First(F, n), First(O, n), First(V, n), First(I, n))
<1>1. PICK m \in Nat : m = n + 1
  OBVIOUS
<1>2. m = Len(op) /\ n <= m /\ m \in 0 .. m /\ \A l \in 1 .. n : l \in 0 .. m /\ l < m
  BY <1>1
<1>3. Len(C.frame) = m
  BY <1>2 DEF Piled
<1>4. \A l \in 1 .. n : F[l] + O[l] <= b
  <2>1. \A l, k \in 0 .. m : l < k => F[l] + O[l] <= F[k]
    BY ONLY <1>3, Piled(C, op, F, O, V, I) DEF Piled, Laid
  <2> QED BY ONLY <1>1, <1>2, <2>1, b = F[n + 1]
<1>5. n > 0 => V[n] + I[n] <= e
  OBVIOUS
<1>6. \A l \in 1 .. n : LevelHeld(D, op[l], F[l], O[l], V[l], I[l])
  BY ONLY HeldBelow, <1>2, <1>4, <1>5, Piled(C, op, F, O, V, I), Held(C, op, F, O, V, I),
          n \in Nat, m \in Nat, b \in Int, e \in Int, Agree(D, C, b, e)
<1>7. PICK G, P, W, J : G = First(F, n) /\ P = First(O, n) /\ W = First(V, n) /\ J = First(I, n)
  OBVIOUS
<1>8. ASSUME NEW l \in 1 .. n PROVE LevelHeld(D, less[l], G[l], P[l], W[l], J[l])
  <2>1. l \in 0 .. n
    OBVIOUS
  <2>2. G[l] = F[l] /\ P[l] = O[l] /\ W[l] = V[l] /\ J[l] = I[l]
    BY ONLY <1>7, <2>1 DEF First
  <2>3. less[l] = op[l]
    BY DEF Fewer
  <2> QED BY ONLY <1>6, <2>2, <2>3, l \in 1 .. n
<1>9. Held(D, less, G, P, W, J)
  BY ONLY <1>8, Fewer(less, op, n) DEF Held, Fewer
<1> QED BY ONLY <1>7, <1>9

LEMMA ExitUp ==
  ASSUME NEW C, NEW ks, Standing(C, ks), NEW op, StacksUp(C, op), NEW n \in Nat,
         n + 1 = Len(op), KindAt(op, n + 1) # "table", NEW less, Fewer(less, op, n),
         NEW D, D = exit_frame(C)
  PROVE  StacksUp(D, less)
<1>1. PICK F, O, V, I : StacksAt(C, op, F, O, V, I) /\ Held(C, op, F, O, V, I)
  BY DEF StacksUp
<1>2. PICK m \in Nat : m = n + 1
  OBVIOUS
<1>3. m = Len(op) /\ m \in 1 .. m /\ m - 1 = n
  BY <1>2
<1>4. /\ Piled(C, op, F, O, V, I) /\ IsEntries(C) /\ V[m] = C.vs /\ I[m] = C.id_end
      /\ IsChained(C.frame[m].c, KindAt(op, m), V[m - 1], I[m - 1], V[m], I[m])
  BY ONLY <1>1, <1>3 DEF StacksAt, Piled, Chained
<1>5. V[n] = C.vs /\ I[n] = C.id_end
  BY ONLY <1>2, <1>3, <1>4, KindAt(op, n + 1) # "table" DEF IsChained
<1>6. Len(less) = n /\ \A l \in 1 .. n : less[l].o = op[l].o
  BY DEF Fewer
<1>7. /\ StacksAt(D, less, First(F, n), First(O, n), First(V, n), First(I, n))
      /\ SameEntries(D, C) /\ \A i \in Nat : i <= C.ds_first => Byte(D, i) = Byte(C, i)
  BY <1>4, <1>5, <1>6, StacksClosed
<1>8. PICK b \in Int, e \in Int : b = F[n + 1] /\ b = C.ds_first /\ e = V[n] + I[n]
  <2>1. /\ F \in [0 .. m -> Nat] /\ F[m] = C.ds_first
        /\ V \in [0 .. m -> Nat] /\ I \in [0 .. m -> Nat]
    BY ONLY <1>3, <1>4 DEF Piled, Laid, Chained
  <2>2. m \in 0 .. m /\ n \in 0 .. m
    BY <1>2
  <2>3. F[m] \in Int /\ V[n] \in Nat /\ I[n] \in Nat
    BY ONLY <2>1, <2>2
  <2>4. V[n] + I[n] \in Int
    BY ONLY <2>3
  <2> QED BY ONLY <1>2, <2>1, <2>3, <2>4
<1>9. Agree(D, C, b, e)
  BY ONLY <1>7, <1>8 DEF SameEntries, Agree
<1>10. Held(D, less, First(F, n), First(O, n), First(V, n), First(I, n))
  BY ONLY HeldClosed, <1>1, <1>4, <1>8, <1>9, n \in Nat, n + 1 = Len(op), Fewer(less, op, n),
          b \in Int, e \in Int
<1> QED BY ONLY <1>7, <1>10 DEF StacksUp

LEMMA EndedLeaves ==
  ASSUME NEW C, NEW ks, Standing(C, ks), NEW op, StacksUp(C, op), NEW n \in Nat,
         n + 1 = Len(op), KindAt(op, n + 1) # "table", NEW less, Fewer(less, op, n),
         NEW r, Good(r, C), Stay(r.B, C)
  PROVE  Leaves(Ended(r), less)
<1>1. PICK D, G : D = r.B /\ G = exit_frame(D)
  OBVIOUS
<1>2. StacksUp(D, op)
  BY <1>1, StayUp
<1>3. Standing(D, ks)
  BY <1>1, GoodStands
<1>4. CASE r.ref = 0
  <2>1. Loose(D)
    BY <1>2, UpLoose
  <2> QED BY <1>1, <1>4, <2>1 DEF Leaves, Ended
<1>5. CASE r.ref # 0
  <2>1. StacksUp(G, less)
    BY <1>1, <1>2, <1>3, ExitUp
  <2>2. Loose(G)
    BY <2>1, UpLoose DEF Fewer
  <2>3. Ended(r) = Result(G, r.ref)
    BY <1>1, <1>5 DEF Ended
  <2> QED BY <2>1, <2>2, <2>3 DEF Leaves, Result
<1> QED BY <1>4, <1>5

\* A builder with open objects of these kinds and the stacks for them, and what
\* is open without the innermost one.
Ending(C, ks, op, n, less) ==
    /\ Standing(C, ks) /\ Len(ks) > 0 /\ ks[Len(ks)] = KindAt(op, n + 1)
    /\ IsHolding(C) /\ StacksUp(C, op)
    /\ n \in Nat /\ n + 1 = Len(op) /\ Fewer(less, op, n)

LEMMA EndingFields ==
  ASSUME NEW C, NEW ks, NEW op, NEW n, NEW less, Ending(C, ks, op, n, less)
  PROVE  /\ Standing(C, ks) /\ Len(ks) > 0 /\ ks[Len(ks)] = KindAt(op, n + 1)
         /\ IsHolding(C) /\ StacksUp(C, op) /\ n \in Nat /\ n + 1 = Len(op)
         /\ Fewer(less, op, n) /\ Ready(C) /\ DOMAIN C = BuilderFields
  BY DEF Ending, Ready, Standing, IsBuilder

LEMMA EndingLeaves ==
  ASSUME NEW C, NEW ks, NEW op, NEW n, NEW less, Ending(C, ks, op, n, less),
         KindAt(op, n + 1) # "table", NEW r, Good(r, C), Stay(r.B, C)
  PROVE  Leaves(Ended(r), less)
  BY EndingFields, EndedLeaves

LEMMA EndStructLeaves ==
  ASSUME NEW C, NEW ks, NEW op, NEW n, NEW less, Ending(C, ks, op, n, less),
         KindAt(op, n + 1) = "struct"
  PROVE  Leaves(end_struct(C), less)
<1>0. Standing(C, ks) /\ Len(ks) > 0 /\ ks[Len(ks)] = "struct" /\ Ready(C) /\ DOMAIN C = BuilderFields
  BY EndingFields
<1>1. PICK al \in Nat \ {0} : al = C.align
  BY <1>0, InnermostFrame, StandingFields
<1>2. PICK data : data = Peek(C, 0, C.ds_offset) /\ IsPiece(data)
  BY <1>0, PeekPiece, StandingFields
<1>3. PICK r : r = create_struct(C, data, al)
  OBVIOUS
<1>4. Good(r, C) /\ Stay(r.B, C)
  BY <1>0, <1>2, <1>3, CreateStructGood, CreateStays
<1>5. end_struct(C) = Ended(r)
  BY <1>1, <1>2, <1>3 DEF end_struct
<1> QED BY <1>4, <1>5, EndingLeaves

LEMMA EndVectorLeaves ==
  ASSUME NEW C, NEW ks, NEW op, NEW n, NEW less, Ending(C, ks, op, n, less),
         KindAt(op, n + 1) = "vector"
  PROVE  Leaves(end_vector(C), less)
<1>0. Standing(C, ks) /\ Len(ks) > 0 /\ ks[Len(ks)] \in Elements /\ Ready(C) /\ DOMAIN C = BuilderFields
  BY EndingFields DEF Elements
<1>1. PICK count, elem_size \in Int : count = frame(C).c.count /\ elem_size = frame(C).c.elem_size
  BY <1>0, ElementsCount
<1>2. PICK k \in Int : k = count * elem_size
  BY <1>0, <1>1, ElementsCount
<1>3. PICK data : data = Peek(C, 0, k) /\ IsPiece(data)
  BY PeekPiece
<1>4. PICK r : r = create_vector(C, data, count, C.align)
  OBVIOUS
<1>5. Good(r, C)
  BY <1>0, <1>3, <1>4, StandingFields, CreateVectorGood
<1>6. Stay(r.B, C)
  BY <1>0, <1>4, CreateStays
<1>7. end_vector(C) = Ended(r)
  BY <1>1, <1>2, <1>3, <1>4 DEF end_vector
<1> QED BY <1>5, <1>6, <1>7, EndingLeaves

LEMMA EndStringLeaves ==
  ASSUME NEW C, NEW ks, NEW op, NEW n, NEW less, Ending(C, ks, op, n, less),
         KindAt(op, n + 1) = "string"
  PROVE  Leaves(end_string(C), less)
<1>0. Standing(C, ks) /\ Ready(C) /\ DOMAIN C = BuilderFields
  BY EndingFields
<1>1. PICK data : data = Peek(C, 0, C.ds_offset) /\ IsPiece(data)
  BY <1>0, PeekPiece, StandingFields
<1>2. PICK r : r = create_string(C, data)
  OBVIOUS
<1>3. Good(r, C) /\ Stay(r.B, C)
  BY <1>0, <1>1, <1>2, CreateStringGood, CreateStays
<1>4. end_string(C) = Ended(r)
  BY <1>1, <1>2 DEF end_string
<1> QED BY <1>3, <1>4, EndingLeaves

LEMMA EndOffsetsLeaves ==
  ASSUME NEW C, NEW ks, NEW op, NEW n, NEW less, Ending(C, ks, op, n, less),
         KindAt(op, n + 1) = "offsets"
  PROVE  Leaves(end_offset_vector(C), less)
<1>0. Standing(C, ks) /\ Len(ks) > 0 /\ ks[Len(ks)] \in Elements /\ Ready(C) /\ DOMAIN C = BuilderFields
  BY EndingFields DEF Elements
<1>1. PICK rs : rs = RefsAt(C, 0, field_size, frame(C).c.count) /\ IsPiece(rs)
  BY <1>0, RefsPiece, ElementsCount
<1>2. PICK r : r = create_offset_vector_direct(C, rs)
  OBVIOUS
<1>3. Good(r, C) /\ Stay(r.B, C)
  BY <1>0, <1>1, <1>2, CreateOffsetsGood, CreateStays
<1>4. end_offset_vector(C) = Ended(r)
  BY <1>1, <1>2 DEF end_offset_vector
<1> QED BY <1>3, <1>4, EndingLeaves

LEMMA EndUnionsLeaves ==
  ASSUME NEW C, NEW ks, NEW op, NEW n, NEW less, Ending(C, ks, op, n, less),
         KindAt(op, n + 1) = "unions", NEW u, u = end_union_vector(C)
  PROVE  StacksUp(u.B, less)
<1>0. /\ Standing(C, ks) /\ Len(ks) > 0 /\ ks[Len(ks)] \in Elements /\ StacksUp(C, op)
      /\ n \in Nat /\ Fewer(less, op, n) /\ IsHolding(C)
  BY EndingFields DEF Elements
<1>1. PICK k \in Nat \ {0} : k = Len(op) /\ k = n + 1 /\ KindAt(op, k) = "unions"
  BY EndingFields
<1>2. PICK count \in Nat : count = frame(C).c.count
  <2>1. PICK F, O, V, I : StacksAt(C, op, F, O, V, I)
    BY <1>0 DEF StacksUp
  <2>2. Len(C.frame) = k /\ IsSized(C.frame[k].c, op[k].o)
    <3>1. k = Len(op) /\ k \in 1 .. k
      BY <1>1
    <3> QED BY ONLY <2>1, <3>1 DEF StacksAt, Piled, Sized
  <2>3. C.frame[k].c.count \in Nat
    BY <1>1, <2>2 DEF IsSized, KindAt, Elements
  <2> QED BY <2>2, <2>3 DEF frame, level
<1>3. PICK size \in Nat : size = count * (utype_size + field_size)
  BY DEF utype_size, field_size
<1>4. PICK G : G = push_ds(C, size)
  OBVIOUS
<1>5. Standing(G, ks) /\ SameOut(G, C)
  BY <1>0, <1>3, <1>4, PushStands DEF Stacked
<1>6. KindAt(op, k) # "buffer" /\ KindAt(op, k) # "table"
  BY <1>1
<1>7. StacksUp(G, op)
  <2>1. Tidy(C) /\ IsEntries(C)
    BY <1>0, <1>1, <1>6, StacksTidy, StacksBased DEF Based
  <2>2. Tidy(G) /\ Shaped(G, C) /\ SameBytes(G, C) /\ SameEntries(G, C)
    BY <1>0, <1>4, <2>1, PushTidy
  <2>3. SameBelow(G, C, 0)
    BY <2>2, SameBytesBelow
  <2> QED BY <1>0, <1>1, <1>6, <2>2, <2>3, ShapedUp
<1>8. Ready(G) /\ DOMAIN G = BuilderFields
  BY <1>0, <1>5, SameOutHolding DEF Ready, Standing, IsBuilder
<1>9. PICK rs : rs = RefsAt(G, field_size, union_size, count) /\ IsPiece(rs)
  BY RefsPiece
<1>10. PICK types : types = [i \in 1 .. count |-> Peek(G, (i - 1) * union_size, utype_size)[1]]
  OBVIOUS
<1>11. IsPiece(types)
  <2>1. types = [i \in 1 .. count |-> types[i]]
    BY ONLY <1>10
  <2> QED BY <2>1, CountedPiece
<1>12. PICK v : v = create_offset_vector_direct(G, rs)
  OBVIOUS
<1>13. Good(v, G) /\ Stay(v.B, G)
  BY <1>8, <1>9, <1>12, CreateOffsetsGood, CreateStays
<1>14. PICK t : t = IF v.ref = 0 THEN v
                    ELSE create_vector(v.B, types, Len(types), utype_size)
  OBVIOUS
<1>15. Good(t, G) /\ Stay(t.B, G)
  <2>1. CASE v.ref = 0
    BY <1>13, <1>14, <2>1
  <2>2. CASE v.ref # 0
    <3>1. Ready(v.B)
      BY <1>13, <2>2, GoodReady
    <3>2. utype_size \in Nat
      BY DEF utype_size
    <3>3. PICK m, H : m = Len(types) /\ H = v.B
      OBVIOUS
    <3>4. Good(create_vector(H, types, m, utype_size), H)
      BY <1>11, <3>1, <3>2, <3>3, CreateVectorGood
    <3>5. Stay(create_vector(H, types, m, utype_size).B, H)
      BY <3>1, <3>3, CreateStays DEF Ready, IsBuilder
    <3>6. Good(t, v.B) /\ Stay(t.B, v.B)
      BY <1>14, <2>2, <3>3, <3>4, <3>5
    <3> QED BY <1>13, <3>6, GoodTwice, StayTwice
  <2> QED BY <2>1, <2>2
<1>16. PICK H, L : H = t.B /\ L = exit_frame(H)
  OBVIOUS
<1>17. Standing(H, ks) /\ StacksUp(H, op)
  BY <1>5, <1>7, <1>15, <1>16, GoodStands, StayUp
<1>18. StacksUp(L, less)
  BY <1>0, <1>1, <1>6, <1>16, <1>17, ExitUp
<1>19. u = UnionsEnded(v, t)
  <2>1. u = EmitUnions(G, count)
    BY <1>2, <1>3, <1>4 DEF end_union_vector
  <2>2. u = EmitTypes(v, types)
    BY <1>9, <1>10, <1>12, <2>1 DEF EmitUnions
  <2> QED BY <1>14, <2>2 DEF EmitTypes
<1>20. u.B = L
  BY <1>16, <1>19 DEF UnionsEnded
<1> QED BY <1>18, <1>20

\* The fields of a buffer that is ended are not of the stacks.
LEMMA OutsideLeaves ==
  ASSUME NEW C, NEW ks, NEW op, NEW n, NEW less, Ending(C, ks, op, n, less),
         KindAt(op, n + 1) = "buffer", NEW r, Good(r, C), Stay(r.B, C),
         NEW c, c.identifier = _pad(4)
  PROVE  Leaves(Outside(r, c), less)
<1>1. PICK F, u, v, w, p : /\ F = r.B /\ u = c.mark /\ v = c.nest_id /\ w = c.with_size
                           /\ p = c.identifier
  OBVIOUS
<1>2. PICK D : D = [F EXCEPT !.buffer_mark = u, !.nest_id = v, !.identifier = p,
                             !.with_size = w]
  OBVIOUS
<1>3. /\ DOMAIN F = BuilderFields /\ F.min_align \in Nat /\ F.ds_offset \in Int
      /\ F.id_end \in Int /\ IsBuilder(F) /\ F.identifier = p
  BY <1>1 DEF Good, IsBuilder
<1>4. D.min_align = F.min_align /\ D.ds_offset = F.ds_offset /\ D.id_end = F.id_end
  BY ONLY <1>2, <1>3 DEF BuilderFields
<1>5. SameEssentials(D, F)
  BY ONLY <1>2, <1>3 DEF BuilderFields, SameEssentials, Essential
<1>6. Kept(D, F)
  BY <1>3, <1>4, <1>5, KeptByFields
<1>7. Stay(D, F)
  BY ONLY <1>2, <1>3 DEF BuilderFields, StackFields, Stay
<1>8. Good(Result(D, r.ref), C)
  BY <1>1, <1>6, GoodKept
<1>9. Stay(Result(D, r.ref).B, C)
  <2>1. Stay(D, C)
    BY <1>1, <1>7, StayTwice
  <2> QED BY <2>1 DEF Result
<1>10. Outside(r, c) = Ended(Result(D, r.ref))
  BY <1>1, <1>2 DEF Outside
<1>11. Leaves(Ended(Result(D, r.ref)), less)
  BY <1>8, <1>9, EndingLeaves
<1> QED BY <1>10, <1>11

LEMMA EndBufferLeaves ==
  ASSUME NEW C, NEW ks, NEW op, NEW n, NEW less, Ending(C, ks, op, n, less),
         KindAt(op, n + 1) = "buffer", NEW root
  PROVE  Leaves(end_buffer(C, root), less)
<1>0. Standing(C, ks) /\ Len(ks) > 0 /\ ks[Len(ks)] = "buffer" /\ Ready(C)
  BY EndingFields
<1>1. /\ IsBuilder(C) /\ DOMAIN C = BuilderFields /\ C.min_align \in Nat /\ C.block_align \in Nat
      /\ C.ds_offset \in Int /\ C.id_end \in Int /\ C.identifier = _pad(4)
  BY <1>0 DEF Standing, IsBuilder
<1>2. PICK al \in Nat : al = Greater(C.min_align, C.block_align)
  BY <1>1, GreaterType
<1>3. PICK D : D = [C EXCEPT !.min_align = al]
  OBVIOUS
<1>4. D.min_align = al /\ D.ds_offset = C.ds_offset /\ D.id_end = C.id_end
  BY ONLY <1>1, <1>3 DEF BuilderFields
<1>5. SameEssentials(D, C)
  BY ONLY <1>1, <1>3 DEF BuilderFields, SameEssentials, Essential
<1>6. Kept(D, C) /\ Ready(D)
  BY <1>0, <1>1, <1>4, <1>5, KeptByFields, KeptReady
<1>7. Stay(D, C)
  BY ONLY <1>1, <1>3 DEF BuilderFields, StackFields, Stay
<1>8. PICK block \in Nat : block = C.block_align
  BY <1>1
<1>9. PICK nested, sized : nested = ~is_top_buffer(C) /\ sized = C.with_size
  OBVIOUS
<1>10. PICK r : r = create_buffer(D, _pad(4), block, root, al, nested, sized)
  OBVIOUS
<1>11. Good(r, C)
  BY <1>6, <1>10, CreateBufferGood, GoodAfterKept
<1>12. Stay(r.B, C)
  BY <1>7, <1>10, CreateBufferStays, StayTwice DEF Stay
<1>13. PICK c : c = frame(C).c /\ c.identifier = _pad(4)
  BY <1>0, InnermostFrame DEF IsContainer
<1>14. end_buffer(C, root) = Outside(r, c)
  BY <1>1, <1>2, <1>3, <1>8, <1>9, <1>10, <1>13 DEF end_buffer
<1> QED BY <1>11, <1>12, <1>13, <1>14, OutsideLeaves

\* The part of vs that belonged to the table is zero, and that of the table
\* around it is as it was.
LEMMA WipedEntries ==
  ASSUME NEW C, IsEntries(C), NEW v0 \in Nat, NEW i0 \in Nat, C.vs = v0 + i0 + 2,
         NEW T, Wiped(T, C), NEW D, D.vs_mem = T.vs_mem, D.vs = v0, D.id_end = i0
  PROVE  IsEntries(D)
<1>1. PICK v \in Nat, i \in Nat : v = C.vs /\ i = C.id_end /\ v = v0 + i0 + 2
  BY DEF IsEntries
<1>2. PICK mem : mem = C.vs_mem /\ mem = [j \in 0 .. Fields |-> mem[j]]
                 /\ \A j \in 0 .. Fields : j >= v + i => mem[j] = 0
  BY <1>1 DEF IsEntries
<1>3. DOMAIN mem = 0 .. Fields
  BY ONLY <1>2
<1>4. PICK new : new = [j \in 0 .. Fields |-> IF j \in v - 2 .. v + i - 1 THEN 0 ELSE mem[j]]
  OBVIOUS
<1>5. D.vs_mem = new
  BY <1>1, <1>2, <1>3, <1>4 DEF Wiped
<1>6. new = [j \in 0 .. Fields |-> new[j]]
  BY ONLY <1>4
<1>7. ASSUME NEW j \in 0 .. Fields, j >= v0 + i0 PROVE new[j] = 0
  <2>1. j \in Nat
    BY StackAssumption
  <2>2. j \in v - 2 .. v + i - 1 \/ j >= v + i
    BY ONLY <1>1, <1>7, <2>1, v \in Nat, i \in Nat, v0 \in Nat, i0 \in Nat
  <2> QED BY ONLY <1>2, <1>4, <2>2, j \in 0 .. Fields
<1> QED BY ONLY <1>5, <1>6, <1>7, D.vs = v0, D.id_end = i0, v0 \in Nat, i0 \in Nat DEF IsEntries

\* The table was emitted: the entries of the one around it are the current ones.
LEMMA TableEndedLeaves ==
  ASSUME NEW C, NEW ks, NEW op, NEW n, NEW less, Ending(C, ks, op, n, less),
         KindAt(op, n + 1) = "table", NEW c, c = frame(C).c,
         NEW r, Good(r, C), NEW X, Stay(X, C), Wiped(r.B, X)
  PROVE  Leaves(TableEnded(r, c), less)
<1>1. /\ Standing(C, ks) /\ Len(ks) > 0 /\ ks[Len(ks)] = "table" /\ StacksUp(C, op)
      /\ n \in Nat /\ n + 1 = Len(op) /\ Fewer(less, op, n) /\ DOMAIN C = BuilderFields
  BY EndingFields
<1>2. PICK F, O, V, I : StacksAt(C, op, F, O, V, I) /\ Held(C, op, F, O, V, I)
  BY <1>1 DEF StacksUp
<1>3. PICK m \in Nat : m = n + 1 /\ m = Len(op) /\ m \in 1 .. m /\ m - 1 = n /\ m \in 0 .. m
  BY <1>1
<1>4. n \in 0 .. m
  BY <1>1, <1>3
<1>5. /\ Piled(C, op, F, O, V, I) /\ IsEntries(C) /\ V[m] = C.vs /\ I[m] = C.id_end
      /\ IsChained(C.frame[m].c, KindAt(op, m), V[m - 1], I[m - 1], V[m], I[m])
      /\ V \in [0 .. m -> Nat] /\ I \in [0 .. m -> Nat] /\ Len(C.frame) = m
  BY ONLY <1>2, <1>3 DEF StacksAt, Piled, Chained
<1>6. PICK v0 \in Nat, i0 \in Nat : v0 = V[n] /\ i0 = I[n]
  BY ONLY <1>4, <1>5
<1>7. c = C.frame[m].c
  BY <1>5 DEF frame, level
<1>8. c.vs_end = v0 /\ c.id_end = i0 /\ C.vs = v0 + i0 + 2
  <2>1. IsChained(c, "table", v0, i0, C.vs, C.id_end)
    BY ONLY <1>3, <1>5, <1>6, <1>7, KindAt(op, n + 1) = "table"
  <2> QED BY ONLY <2>1 DEF IsChained
<1>9. PICK G, w : G = r.B /\ w = c.pl_end
  OBVIOUS
<1>10. PICK D : D = [G EXCEPT !.id_end = i0, !.vs = v0, !.pl = w]
  OBVIOUS
<1>11. DOMAIN G = BuilderFields /\ G.min_align \in Nat /\ G.ds_offset \in Int /\ IsBuilder(G)
  BY <1>9 DEF Good, IsBuilder
<1>12. /\ D.min_align = G.min_align /\ D.ds_offset = G.ds_offset /\ D.id_end = i0 /\ D.vs = v0
       /\ D.vs_mem = G.vs_mem /\ D.ds_mem = G.ds_mem /\ D.ds = G.ds /\ D.ds_first = G.ds_first
       /\ D.ds_limit = G.ds_limit /\ D.frame = G.frame
  BY ONLY <1>10, <1>11 DEF BuilderFields
<1>13. SameEssentials(D, G)
  BY ONLY <1>10, <1>11 DEF BuilderFields, SameEssentials, Essential
<1>14. i0 \in Int
  OBVIOUS
<1>15. Kept(D, G)
  BY <1>11, <1>12, <1>13, <1>14, KeptByFields
<1>16. Good(Result(D, r.ref), C)
  BY <1>9, <1>15, GoodKept
<1>17. Standing(D, ks)
  <2>1. Standing(Result(D, r.ref).B, ks)
    BY <1>1, <1>16, GoodStands
  <2> QED BY <2>1 DEF Result
<1>18. TableEnded(r, c) = Ended(Result(D, r.ref))
  BY <1>8, <1>9, <1>10 DEF TableEnded
<1>19. /\ D.ds_mem = C.ds_mem /\ D.ds = C.ds /\ D.ds_first = C.ds_first
       /\ D.ds_offset = C.ds_offset /\ D.ds_limit = C.ds_limit /\ D.frame = C.frame
  BY <1>9, <1>12, StayFields DEF Wiped
<1>20. Wiped(G, C)
  <2>1. Wiped(G, X)
    BY <1>9
  <2> QED BY <2>1, StayFields DEF Wiped
<1>21. IsEntries(D)
  BY <1>5, <1>8, <1>12, <1>20, WipedEntries
<1>22. Piled(D, op, F, O, V, I)
  <2>1. \A j : Byte(D, j) = Byte(C, j)
    BY <1>19 DEF Byte
  <2>2. Laid(D, F, O)
    BY ONLY <1>5, <1>19, <2>1 DEF Piled, Laid
  <2>3. Chained(D, op, V, I) /\ Sized(D, op)
    BY ONLY <1>5, <1>19 DEF Piled, Chained, Sized
  <2>4. Aimed(C) => Aimed(D)
    BY ONLY <1>19 DEF Aimed
  <2> QED BY ONLY <1>5, <1>19, <2>2, <2>3, <2>4 DEF Piled
<1>23. Loose(D)
  <2>1. Loose(C)
    BY <1>1, <1>3, UpLoose
  <2>2. D.ds_first \in Nat /\ IsSeq(D.ds_mem)
    BY ONLY <1>19, <2>1 DEF Loose
  <2> QED BY ONLY <1>21, <2>2 DEF IsEntries, Loose
<1>24. CASE r.ref = 0
  BY <1>18, <1>23, <1>24 DEF Ended, Result, Leaves
<1>25. CASE r.ref # 0
  <2>1. PICK H : H = exit_frame(D)
    OBVIOUS
  <2>2. V[n] = D.vs /\ I[n] = D.id_end
    BY ONLY <1>6, <1>12
  <2>3. Len(less) = n /\ \A l \in 1 .. n : less[l].o = op[l].o
    BY <1>1 DEF Fewer
  <2>4. /\ StacksAt(H, less, First(F, n), First(O, n), First(V, n), First(I, n))
        /\ SameEntries(H, D) /\ \A i \in Nat : i <= D.ds_first => Byte(H, i) = Byte(D, i)
    BY <1>1, <1>17, <1>21, <1>22, <2>1, <2>2, <2>3, StacksClosed
  <2>5. StacksUp(H, less)
    <3>1. PICK b \in Int, e \in Int : b = F[n + 1] /\ b = C.ds_first /\ e = v0 + i0
      <4>1. F \in [0 .. m -> Nat] /\ F[m] = C.ds_first
        BY ONLY <1>3, <1>5 DEF Piled, Laid
      <4>2. F[m] \in Int
        BY ONLY <1>3, <4>1
      <4>3. v0 + i0 \in Int
        OBVIOUS
      <4> QED BY ONLY <1>3, <4>1, <4>2, <4>3
    <3>2. \A i \in Nat : i <= b => Byte(H, i) = Byte(C, i)
      BY ONLY <1>19, <2>4, <3>1 DEF Byte
    <3>3. ASSUME NEW i \in 0 .. Fields, i < e PROVE H.vs_mem[i] = C.vs_mem[i]
      <4>1. H.vs_mem = G.vs_mem
        BY <1>12, <2>4 DEF SameEntries
      <4>2. i \in DOMAIN C.vs_mem
        <5>1. PICK mem : mem = C.vs_mem /\ mem = [j \in 0 .. Fields |-> mem[j]]
          BY <1>5 DEF IsEntries
        <5>2. DOMAIN mem = 0 .. Fields
          BY ONLY <5>1
        <5> QED BY ONLY <5>1, <5>2, i \in 0 .. Fields
      <4>3. PICK v \in Nat, z \in Nat : v = C.vs /\ z = C.id_end
        BY <1>5 DEF IsEntries
      <4>4. i \notin v - 2 .. v + z - 1
        <5>1. i \in Int
          BY StackAssumption
        <5>2. v = e + 2
          BY ONLY <1>8, <3>1, <4>3
        <5> QED BY ONLY <3>3, <5>1, <5>2, e \in Int, v \in Nat, z \in Nat
      <4>5. G.vs_mem[i] = C.vs_mem[i]
        BY ONLY <1>20, <4>2, <4>3, <4>4 DEF Wiped
      <4> QED BY ONLY <4>1, <4>5
    <3>4. Agree(H, C, b, e)
      BY ONLY <3>2, <3>3 DEF Agree
    <3>5. e = V[n] + I[n]
      BY ONLY <1>6, <3>1
    <3>6. Held(H, less, First(F, n), First(O, n), First(V, n), First(I, n))
      BY ONLY HeldClosed, <1>1, <1>2, <1>5, <3>1, <3>4, <3>5, b \in Int, e \in Int
    <3> QED BY ONLY <2>4, <3>6 DEF StacksUp
  <2>6. Loose(H)
    BY <1>1, <2>3, <2>5, UpLoose
  <2>7. TableEnded(r, c) = Result(H, r.ref)
    BY <1>18, <1>25, <2>1 DEF Ended, Result
  <2> QED BY <2>5, <2>6, <2>7 DEF Leaves, Result
<1> QED BY <1>24, <1>25

LEMMA EndTableLeaves ==
  ASSUME NEW C, NEW ks, NEW op, NEW n, NEW less, Ending(C, ks, op, n, less),
         KindAt(op, n + 1) = "table", NEW junk
  PROVE  Leaves(end_table(C, junk), less)
<1>0. /\ Standing(C, ks) /\ Len(ks) > 0 /\ Ready(C) /\ DOMAIN C = BuilderFields
      /\ StacksUp(C, op) /\ n \in Nat /\ n + 1 = Len(op)
  BY EndingFields
<1>1. C.id_end \in Int
  BY <1>0, StandingFields
<1>2. PICK x, y, e : /\ x = voffset_size * (C.id_end + 2)
                     /\ y = voffset(C.ds_offset + field_size)
                     /\ e = [i \in 1 .. C.id_end |-> C.vs_mem[C.vs + i - 1]]
  OBVIOUS
<1>3. IsPiece(<<x, y>>)
  <2>1. <<x, y>> \in Seq({x, y})
    OBVIOUS
  <2> QED BY <2>1 DEF IsPiece
<1>4. IsPiece(e)
  <2>1. PICK k \in Int : k = C.id_end
    BY <1>1
  <2>2. e = [i \in 1 .. k |-> e[i]]
    BY ONLY <1>2, <2>1
  <2> QED BY <2>2, CountedPiece
<1>5. PICK vt : vt = <<x, y>> \o e /\ IsPiece(vt)
  BY <1>3, <1>4, ConcatPiece
<1>6. PICK v : v = create_cached_vtable(C, vt, junk)
  OBVIOUS
<1>7. Good(v, C) /\ Stay(v.B, C)
  BY <1>0, <1>5, <1>6, CachedVtableGood, CachedVtableStays
<1>8. PICK c : c = frame(C).c
  OBVIOUS
<1>9. PICK F, t : F = v.B /\ t = EmitTable(F, c, v.ref)
  OBVIOUS
<1>10. end_table(C, junk) = IF v.ref = 0 THEN v ELSE TableEnded(t, c)
  BY <1>2, <1>5, <1>6, <1>8, <1>9 DEF end_table
<1>11. CASE v.ref = 0
  <2>1. Loose(C)
    BY <1>0, UpLoose
  <2>2. Loose(v.B)
    BY <1>7, <2>1, StayLoose
  <2> QED BY <1>10, <1>11, <2>2 DEF Leaves
<1>12. CASE v.ref # 0
  <2>1. Ready(F) /\ DOMAIN F = BuilderFields
    BY <1>7, <1>9, <1>12, GoodReady DEF Stay
  <2>2. Good(t, F) /\ Wiped(t.B, F)
    BY <1>9, <2>1, EmitTableGood, EmitTableWipes
  <2>3. Good(t, C)
    BY <1>7, <1>9, <2>2, GoodTwice
  <2>4. Leaves(TableEnded(t, c), less)
    BY <1>7, <1>8, <1>9, <2>2, <2>3, TableEndedLeaves
  <2> QED BY <1>10, <1>12, <2>4
<1> QED BY <1>11, <1>12

\* Another object is finished: what the open tables refer to was before.
LEMMA RefsMore ==
  ASSUME NEW op, NEW rs, RefsHold(op, rs), NEW o \in Objects, rs[o] = <<>>, NEW refs2,
         refs2 = rs \/ \E s : refs2 = [rs EXCEPT ![o] = s]
  PROVE  \A a \in Objects : rs[a] # <<>> => refs2[a] = rs[a]
<1> SUFFICES ASSUME NEW a \in Objects, rs[a] # <<>> PROVE refs2[a] = rs[a]
  OBVIOUS
<1>1. a # o /\ rs = [b \in Objects |-> rs[b]]
  BY DEF RefsHold
<1>2. CASE \E s : refs2 = [rs EXCEPT ![o] = s]
  <2>1. PICK s : refs2 = [rs EXCEPT ![o] = s]
    BY <1>2
  <2> QED BY ONLY <1>1, <2>1, a \in Objects
<1> QED BY <1>2

LEMMA RefsState ==
  ASSUME NEW C, NEW op, NEW n \in Nat, n = Len(op), NEW rs, NEW refs2,
         \A l \in 1 .. n : Refers(op[l], rs),
         \A a \in Objects : rs[a] # <<>> => refs2[a] = rs[a],
         NEW ph, StackState(C, Notes(op, rs), ph)
  PROVE  StackState(C, Notes(op, refs2), ph)
<1>1. ASSUME NEW l \in 1 .. n PROVE Noted(op[l], refs2) = Noted(op[l], rs)
  <2>1. PICK x : x = op[l] /\ Refers(x, rs)
    OBVIOUS
  <2>2. CASE Doc[x.o].kind = "table"
    <3>1. ASSUME NEW p \in x.parts PROVE FieldOf(x.o, p, refs2) = FieldOf(x.o, p, rs)
      <4>1. PICK f : f = Doc[x.o].fields[p]
        OBVIOUS
      <4>2. f.kind # "inline" => f.to \in Objects /\ rs[f.to] # <<>>
        BY <2>1, <2>2, <4>1 DEF Refers
      <4>3. f.kind # "inline" => refs2[f.to] = rs[f.to]
        BY <4>2
      <4> QED BY ONLY <4>1, <4>3 DEF FieldOf
    <3>2. {FieldOf(x.o, p, refs2) : p \in x.parts} = {FieldOf(x.o, p, rs) : p \in x.parts}
      BY ONLY <3>1
    <3> QED BY ONLY <2>1, <3>2 DEF Noted
  <2>3. CASE Doc[x.o].kind # "table"
    BY ONLY <2>1, <2>3 DEF Noted
  <2> QED BY <2>2, <2>3
<1>2. PICK ns, ms : ns = Notes(op, rs) /\ ms = Notes(op, refs2)
  OBVIOUS
<1>3. Len(ns) = n /\ Len(ms) = n /\ \A l \in 1 .. n : ms[l] = ns[l]
  BY <1>1, <1>2, NotesAt
<1>4. StackState(C, ns, ph)
  BY <1>2
<1>5. StacksUp(C, ns) => StacksUp(C, ms)
  BY <1>3, SameUp
<1> QED BY ONLY <1>2, <1>4, <1>5 DEF StackState

\* A call that emits an object, successful or not.
LEMMA FinishedStack ==
  ASSUME RefsInv, NEW r, NEW o \in Objects, refs[o] = <<>>, NEW op, NEW n \in Nat, n = Len(op),
         \A l \in 1 .. n : Refers(op[l], refs), Leaves(r, Notes(op, refs)), Finished(r, o),
         open' = op
  PROVE  StackInv'
<1>1. B' = r.B /\ (phase' = "failed" \/ r.ref # 0)
  BY DEF Finished
<1>2. StackState(r.B, Notes(op, refs), phase')
  BY ONLY <1>1, Leaves(r, Notes(op, refs)) DEF StackState, Leaves
<1>3. refs' = refs \/ \E s : refs' = [refs EXCEPT ![o] = s]
  BY DEF Finished
<1>4. \A a \in Objects : refs[a] # <<>> => refs'[a] = refs[a]
  BY <1>3, RefsMore DEF RefsInv
<1>5. StackState(r.B, Notes(op, refs'), phase')
  BY <1>2, <1>4, RefsState
<1> QED BY ONLY <1>1, <1>5, open' = op DEF StackInv

LEMMA CreateStack ==
  ASSUME SessionInv, StackInv, RefsInv, NEW o \in Buildable, Create(o)
  PROVE  StackInv'
<1>1. /\ phase = "building" /\ open' = open /\ DOMAIN B = BuilderFields /\ o \in Objects
      /\ IsOpen(open)
  BY BuildableObjects, BuildingState DEF Create, Ready, IsBuilder
<1>2. PICK op : op = Notes(open, refs) /\ Loose(B) /\ StacksUp(B, op)
  BY <1>1 DEF StackInv, StackState
<1>3. refs[o] = <<>>
  BY DEF Buildable, MayBuild, IsReady
<1>4. PICK k \in Nat : k = Len(open)
  BY <1>1 DEF IsOpen
<1>5. \A l \in 1 .. k : Refers(open[l], refs)
  BY <1>4 DEF RefsInv, RefsHold
<1>6. ASSUME NEW r, Stay(r.B, B), Finished(r, o) PROVE StackInv'
  <2>1. Leaves(r, op)
    BY <1>2, <1>6, StayLoose, StayUp DEF Leaves
  <2> QED BY <1>1, <1>2, <1>3, <1>4, <1>5, <1>6, <2>1, FinishedStack
<1>7. PICK data, all, n, al : /\ data = Doc[o].data /\ all = FlattenSeq(Doc[o].elems)
                              /\ n = Len(Doc[o].elems) /\ al = Doc[o].align
  OBVIOUS
<1>8. \/ Finished(create_string(B, data), o)
      \/ Finished(create_struct(B, data, al), o)
      \/ Finished(create_vector(B, all, n, al), o)
  BY <1>7 DEF Create
<1>9. CASE Finished(create_string(B, data), o)
  <2>1. PICK r : r = create_string(B, data)
    OBVIOUS
  <2>2. Stay(r.B, B)
    BY <1>1, <2>1, CreateStays
  <2> QED BY <1>6, <1>9, <2>1, <2>2
<1>10. CASE Finished(create_struct(B, data, al), o)
  <2>1. PICK r : r = create_struct(B, data, al)
    OBVIOUS
  <2>2. Stay(r.B, B)
    BY <1>1, <2>1, CreateStays
  <2> QED BY <1>6, <1>10, <2>1, <2>2
<1>11. CASE Finished(create_vector(B, all, n, al), o)
  <2>1. PICK r : r = create_vector(B, all, n, al)
    OBVIOUS
  <2>2. Stay(r.B, B)
    BY <1>1, <2>1, CreateStays
  <2> QED BY <1>6, <1>11, <2>1, <2>2
<1> QED BY <1>8, <1>9, <1>10, <1>11

LEMMA FrontAt ==
  ASSUME NEW op, IsOpen(op), op # <<>>
  PROVE  \E n \in Nat : /\ n + 1 = Len(op) /\ Len(Front(op)) = n
                        /\ \A l \in 1 .. n : Front(op)[l] = op[l]
<1>1. PICK S : op \in Seq(S)
  BY DEF IsOpen
<1>2. PICK m \in Nat : m = Len(op) /\ m # 0
  BY <1>1, EmptySeq
<1>3. PICK n \in Nat : n + 1 = m /\ n = m - 1
  <2>1. m - 1 \in Nat /\ (m - 1) + 1 = m
    BY <1>2
  <2> QED BY <2>1
<1>4. PICK front : front = Front(op)
  OBVIOUS
<1>5. front = SubSeq(op, 1, n)
  BY <1>2, <1>3, <1>4 DEF Front
<1>6. n \in 0 .. Len(op)
  BY <1>2, <1>3
<1>7. Len(front) = n /\ \A l \in 1 .. n : front[l] = op[l]
  BY <1>1, <1>5, <1>6, FirstType
<1> QED BY <1>2, <1>3, <1>4, <1>7

LEMMA EndStack ==
  ASSUME SessionInv, StackInv, RefsInv, End
  PROVE  StackInv'
<1>1. PICK ks, o, front : ks = KindsOf(open) /\ o = Innermost.o /\ front = Front(open)
  OBVIOUS
<1>2. open # <<>> /\ phase = "building" /\ open' = front
  BY <1>1 DEF End
<1>3. PICK op, less : op = Notes(open, refs) /\ less = Notes(front, refs)
  OBVIOUS
<1>4. /\ Standing(B, ks) /\ IsHolding(B) /\ o \in Objects /\ Len(ks) > 0
      /\ ks[Len(ks)] = Doc[o].kind /\ IsOpen(open) /\ StacksUp(B, op)
  BY <1>1, <1>2, <1>3, BuildingState, InnermostKind DEF StackInv, StackState
<1>5. PICK n \in Nat : n + 1 = Len(open) /\ Len(front) = n /\ \A l \in 1 .. n : front[l] = open[l]
  BY <1>1, <1>2, <1>4, FrontAt
<1>6. refs[o] = <<>> /\ \A l \in 1 .. n : Refers(front[l], refs)
  <2>1. n + 1 \in 1 .. n + 1 /\ \A l \in 1 .. n : l \in 1 .. n + 1
    OBVIOUS
  <2>2. \A l \in 1 .. n + 1 : refs[open[l].o] = <<>> /\ Refers(open[l], refs)
    BY ONLY <1>5, RefsInv DEF RefsInv, RefsHold
  <2>3. o = open[n + 1].o
    BY ONLY <1>1, <1>5 DEF Innermost
  <2> QED BY ONLY <1>5, <2>1, <2>2, <2>3
<1>7. n + 1 = Len(op) /\ KindAt(op, n + 1) = Doc[o].kind /\ Fewer(less, op, n)
  <2>1. Len(op) = n + 1 /\ \A l \in 1 .. n + 1 : op[l] = Noted(open[l], refs)
    <3>1. n + 1 \in Nat
      OBVIOUS
    <3> QED BY <1>3, <1>5, <3>1, NotesAt
  <2>2. Len(less) = n /\ \A l \in 1 .. n : less[l] = Noted(front[l], refs)
    BY <1>3, <1>5, NotesAt
  <2>3. n + 1 \in 1 .. n + 1 /\ \A l \in 1 .. n : l \in 1 .. n + 1
    OBVIOUS
  <2>4. op[n + 1].o = o
    BY <1>1, <1>5, <2>1, <2>3, NotedFacts DEF Innermost
  <2>5. Fewer(less, op, n)
    BY ONLY <1>5, <2>1, <2>2, <2>3 DEF Fewer
  <2> QED BY ONLY <2>1, <2>4, <2>5 DEF KindAt
<1>8. KindAt(op, n + 1) = Doc[o].kind
  BY <1>7
<1>9. Ending(B, ks, op, n, less)
  BY <1>4, <1>7 DEF Ending
<1>10. ASSUME NEW r, Leaves(r, less), Finished(r, o) PROVE StackInv'
  BY <1>2, <1>3, <1>4, <1>5, <1>6, <1>10, FinishedStack
<1>11. \/ Doc[o].kind = "buffer" /\ Finished(end_buffer(B, Ref(Doc[o].root)), o)
       \/ Doc[o].kind = "table" /\ \E junk \in Junk(B) : Finished(end_table(B, junk), o)
       \/ Doc[o].kind = "string" /\ Finished(end_string(B), o)
       \/ Doc[o].kind = "vector" /\ Finished(end_vector(B), o)
       \/ Doc[o].kind = "offsets" /\ Finished(end_offset_vector(B), o)
       \/ Doc[o].kind = "struct" /\ Finished(end_struct(B), o)
       \/ Doc[o].kind = "unions" /\ UnionsFinished(end_union_vector(B), o)
  BY <1>1 DEF End
<1>12. CASE Doc[o].kind = "buffer" /\ Finished(end_buffer(B, Ref(Doc[o].root)), o)
  <2>1. PICK root : root = Ref(Doc[o].root)
    OBVIOUS
  <2>2. Leaves(end_buffer(B, root), less)
    BY <1>8, <1>9, <1>12, EndBufferLeaves
  <2> QED BY <1>10, <1>12, <2>1, <2>2
<1>13. CASE Doc[o].kind = "table" /\ \E junk \in Junk(B) : Finished(end_table(B, junk), o)
  <2>1. PICK junk \in Junk(B) : Finished(end_table(B, junk), o)
    BY <1>13
  <2>2. Leaves(end_table(B, junk), less)
    BY <1>8, <1>9, <1>13, EndTableLeaves
  <2> QED BY <1>10, <2>1, <2>2
<1>14. CASE Doc[o].kind = "string" /\ Finished(end_string(B), o)
  <2>1. Leaves(end_string(B), less)
    BY <1>8, <1>9, <1>14, EndStringLeaves
  <2> QED BY <1>10, <1>14, <2>1
<1>15. CASE Doc[o].kind = "vector" /\ Finished(end_vector(B), o)
  <2>1. Leaves(end_vector(B), less)
    BY <1>8, <1>9, <1>15, EndVectorLeaves
  <2> QED BY <1>10, <1>15, <2>1
<1>16. CASE Doc[o].kind = "offsets" /\ Finished(end_offset_vector(B), o)
  <2>1. Leaves(end_offset_vector(B), less)
    BY <1>8, <1>9, <1>16, EndOffsetsLeaves
  <2> QED BY <1>10, <1>16, <2>1
<1>17. CASE Doc[o].kind = "struct" /\ Finished(end_struct(B), o)
  <2>1. Leaves(end_struct(B), less)
    BY <1>8, <1>9, <1>17, EndStructLeaves
  <2> QED BY <1>10, <1>17, <2>1
<1>18. CASE Doc[o].kind = "unions" /\ UnionsFinished(end_union_vector(B), o)
  <2>1. PICK u : u = end_union_vector(B)
    OBVIOUS
  <2>2. StacksUp(u.B, less)
    BY <1>8, <1>9, <1>18, <2>1, EndUnionsLeaves
  <2>3. StackState(u.B, less, phase')
    BY <1>7, <2>2, UpState DEF Fewer
  <2>4. B' = u.B /\ (refs' = refs \/ \E s : refs' = [refs EXCEPT ![o] = s])
    BY <1>18, <2>1 DEF UnionsFinished
  <2>5. \A a \in Objects : refs[a] # <<>> => refs'[a] = refs[a]
    BY <1>4, <1>6, <2>4, RefsMore DEF RefsInv
  <2>6. StackState(u.B, Notes(front, refs'), phase')
    BY <1>3, <1>5, <1>6, <2>3, <2>5, RefsState
  <2> QED BY ONLY <1>2, <2>4, <2>6 DEF StackInv
<1> QED BY <1>11, <1>12, <1>13, <1>14, <1>15, <1>16, <1>17, <1>18

LEMMA FinalizeStack ==
  ASSUME StackInv, Finalize
  PROVE  StackInv'
<1>1. B' = B /\ phase' = "done"
  BY DEF Finalize
<1>2. Loose(B)
  BY DEF StackInv, StackState
<1>3. StackState(B, Notes(open', refs'), phase')
  BY <1>1, <1>2 DEF StackState
<1> QED BY ONLY <1>1, <1>3 DEF StackInv

-----------------------------------------------------------------------------
(* Stacks with nothing open *)

\* Both stacks are empty and zero.
Bare(C) ==
    /\ C.frame = <<>> /\ C.ds_first \in Nat /\ C.ds_offset = 0 /\ IsSeq(C.ds_mem)
    /\ \A i \in Nat : Byte(C, i) = 0
    /\ C.vs_mem = [i \in 0 .. Fields |-> 0] /\ C.vs = 0 /\ C.id_end \in Nat

LEMMA BareUp ==
  ASSUME NEW C, Bare(C)
  PROVE  StacksUp(C, <<>>)
<1>1. PICK x \in Nat, e \in Nat : x = C.ds_first /\ e = C.id_end
  BY DEF Bare
<1>2. PICK F, O, V, I : /\ F = [l \in 0 .. 0 |-> x] /\ O = [l \in 0 .. 0 |-> 0]
                        /\ V = [l \in 0 .. 0 |-> 0] /\ I = [l \in 0 .. 0 |-> e]
  OBVIOUS
<1>3. /\ F \in [0 .. 0 -> Nat] /\ O \in [0 .. 0 -> Nat] /\ V \in [0 .. 0 -> Nat]
      /\ I \in [0 .. 0 -> Nat] /\ F[0] = x /\ O[0] = 0 /\ V[0] = 0 /\ I[0] = e
  BY ONLY <1>2, x \in Nat, e \in Nat
<1>4. Len(<<>>) = 0 /\ 1 .. 0 = {} /\ 0 .. 0 - 1 = {} /\ \A l \in 0 .. 0 : l = 0
  OBVIOUS
<1>5. C.frame = <<>> /\ C.ds_offset = 0 /\ IsSeq(C.ds_mem) /\ \A i \in Nat : Byte(C, i) = 0
  BY DEF Bare
<1>6. Laid(C, F, O)
  <2>1. \A l, m \in 0 .. 0 : ~ (l < m)
    BY <1>4
  <2>2. \A l \in 0 .. 0 : ~ (O[l] > 0)
    BY <1>3, <1>4
  <2> QED BY ONLY <1>1, <1>3, <1>4, <1>5, <2>1, <2>2 DEF Laid
<1>7. Chained(C, <<>>, V, I) /\ Sized(C, <<>>)
  BY ONLY <1>3, <1>4 DEF Chained, Sized
<1>8. Piled(C, <<>>, F, O, V, I)
  <2>1. ~ (0 > 0)
    OBVIOUS
  <2> QED BY ONLY <1>4, <1>5, <1>6, <1>7, <2>1 DEF Piled
<1>9. IsEntries(C)
  <2>1. PICK mem : mem = C.vs_mem /\ mem = [i \in 0 .. Fields |-> 0]
    BY DEF Bare
  <2>2. mem = [i \in 0 .. Fields |-> mem[i]] /\ \A i \in 0 .. Fields : mem[i] = 0
    BY ONLY <2>1
  <2>3. C.vs \in Nat /\ C.id_end \in Nat
    BY DEF Bare
  <2> QED BY ONLY <2>1, <2>2, <2>3 DEF IsEntries
<1>10. V[Len(<<>>)] = C.vs /\ I[Len(<<>>)] = C.id_end
  BY <1>1, <1>3, <1>4 DEF Bare
<1>11. StacksAt(C, <<>>, F, O, V, I)
  BY ONLY <1>8, <1>9, <1>10 DEF StacksAt
<1>12. Held(C, <<>>, F, O, V, I)
  BY ONLY <1>4 DEF Held
<1> QED BY <1>11, <1>12 DEF StacksUp

LEMMA PadBytes ==
  ASSUME NEW n \in Nat, NEW C, C.ds_mem = _pad(n)
  PROVE  IsSeq(C.ds_mem) /\ \A i \in Nat : Byte(C, i) = 0
<1>1. PICK p : p = _pad(n)
  OBVIOUS
<1>2. IsSeq(p) /\ (\A i \in DOMAIN p : p[i] = 0) /\ DOMAIN p = 1 .. n /\ Len(p) = n
  BY <1>1, PadType
<1>3. \A i \in Nat : Memory(p, i) = 0
  BY <1>2 DEF Memory
<1> QED BY ONLY <1>1, <1>2, <1>3, C.ds_mem = _pad(n) DEF Byte

LEMMA ResetBare ==
  ASSUME NEW C, DOMAIN C = BuilderFields, Loose(C), NEW set_defaults
  PROVE  Bare(flatcc_builder_custom_reset(C, set_defaults))
<1>1. PICK n \in Nat : n = Len(C.ds_mem)
  BY DEF Loose, IsSeq
<1>2. PICK F : F = flatcc_emitter_reset(C.E)
  OBVIOUS
<1>3. PICK none, zero, mem, vs, pl, limit, dis, s :
        /\ none = <<>> /\ zero = 0
        /\ mem = _pad(n) /\ vs = [i \in DOMAIN C.vs_mem |-> 0]
        /\ pl = [i \in DOMAIN C.pl_mem |-> 0]
        /\ limit = (IF set_defaults THEN 0 ELSE C.vb_flush_limit)
        /\ dis = (IF set_defaults THEN FALSE ELSE C.disable_vt_clustering)
        /\ s = [start |-> 0, bytes |-> <<>>]
  OBVIOUS
<1>4. PICK D : D = [C EXCEPT !.ds_mem = mem, !.vs_mem = vs, !.pl_mem = pl,
                       !.vb = none, !.vd = none, !.chain = none,
                       !.min_align = zero, !.emit_start = zero, !.emit_end = zero,
                       !.frame = none, !.ds_offset = zero, !.ds_limit = zero,
                       !.nest_count = zero, !.nest_id = zero,
                       !.ds = zero, !.pl = zero, !.vs = zero,
                       !.vb_flush_limit = limit, !.disable_vt_clustering = dis,
                       !.E = F, !.sent = s]
  OBVIOUS
<1>5. D = flatcc_builder_custom_reset(C, set_defaults)
  BY <1>1, <1>2, <1>3, <1>4 DEF flatcc_builder_custom_reset
<1>6. /\ D.ds_mem = mem /\ D.vs_mem = vs /\ D.frame = none /\ D.ds_offset = zero
      /\ D.vs = zero /\ D.ds_first = C.ds_first /\ D.id_end = C.id_end
  BY ONLY <1>4, DOMAIN C = BuilderFields DEF BuilderFields
<1>7. IsSeq(D.ds_mem) /\ \A i \in Nat : Byte(D, i) = 0
  BY <1>3, <1>6, PadBytes
<1>8. D.vs_mem = [i \in 0 .. Fields |-> 0]
  <2>1. PICK m : m = C.vs_mem /\ m = [i \in 0 .. Fields |-> m[i]]
    BY DEF Loose
  <2>2. DOMAIN m = 0 .. Fields
    BY ONLY <2>1
  <2> QED BY <1>3, <1>6, <2>1, <2>2
<1>9. C.ds_first \in Nat /\ C.id_end \in Nat
  BY DEF Loose
<1>10. Bare(D)
  BY ONLY <1>3, <1>6, <1>7, <1>8, <1>9 DEF Bare
<1> QED BY <1>5, <1>10

LEMMA InitStackFields ==
  ASSUME NEW memory
  PROVE  LET D == flatcc_builder_init(memory)
         IN  /\ DOMAIN D = BuilderFields /\ D.frame = <<>> /\ D.ds_first = 0 /\ D.ds_offset = 0
             /\ D.ds_mem = <<>> /\ D.vs_mem = [i \in 0 .. Fields |-> 0] /\ D.vs = 0
             /\ D.id_end = 0
  BY DEF flatcc_builder_init, BuilderFields

\* The fields of a builder that was just initialized, some others excepted.
LEMMA InitBare ==
  ASSUME NEW memory, NEW D, D.frame = <<>>,
         LET G == flatcc_builder_init(memory)
         IN  /\ D.ds_first = G.ds_first /\ D.ds_offset = G.ds_offset /\ D.ds_mem = G.ds_mem
             /\ D.vs_mem = G.vs_mem /\ D.vs = G.vs /\ D.id_end = G.id_end
  PROVE  Bare(D)
<1>1. /\ D.ds_first = 0 /\ D.ds_offset = 0 /\ D.ds_mem = <<>> /\ D.vs = 0 /\ D.id_end = 0
      /\ D.vs_mem = [i \in 0 .. Fields |-> 0]
  BY InitStackFields
<1>2. IsSeq(D.ds_mem) /\ \A i \in Nat : Byte(D, i) = 0
  <2>1. Len(<<>>) = 0 /\ <<>> = [i \in 1 .. 0 |-> <<>>[i]] /\ \A i : i \notin 1 .. 0
    OBVIOUS
  <2>2. IsSeq(<<>>)
    BY ONLY <2>1, 0 \in Nat DEF IsSeq
  <2>3. \A i : Memory(<<>>, i) = 0
    BY ONLY <2>1 DEF Memory
  <2> QED BY ONLY <1>1, <2>2, <2>3 DEF Byte
<1>3. 0 \in Nat
  OBVIOUS
<1> QED BY ONLY <1>1, <1>2, <1>3, D.frame = <<>> DEF Bare

LEMMA AgainStack ==
  ASSUME NEW C, Bare(C), Again(C)
  PROVE  StackInv'
<1>1. B' = C /\ open' = <<>>
  BY DEF Again
<1>2. StacksUp(C, <<>>) /\ Len(<<>>) \in Nat
  BY BareUp
<1>3. StackState(C, <<>>, phase')
  BY <1>2, UpState
<1>4. Notes(<<>>, refs') = <<>>
  BY NotesEmpty
<1> QED BY ONLY <1>1, <1>3, <1>4 DEF StackInv

LEMMA ClearBare ==
  ASSUME NEW C
  PROVE  Bare(flatcc_builder_clear(C))
<1>1. PICK F, G, m : F = flatcc_emitter_clear(C.E) /\ m = C.E.memory /\ G = flatcc_builder_init(m)
  OBVIOUS
<1>2. DOMAIN G = BuilderFields /\ G.frame = <<>>
  BY <1>1, InitStackFields
<1>3. PICK D : D = [G EXCEPT !.E = F]
  OBVIOUS
<1>4. /\ D.frame = G.frame /\ D.ds_first = G.ds_first /\ D.ds_offset = G.ds_offset
      /\ D.ds_mem = G.ds_mem /\ D.vs_mem = G.vs_mem /\ D.vs = G.vs /\ D.id_end = G.id_end
  BY ONLY <1>2, <1>3 DEF BuilderFields
<1>5. D = flatcc_builder_clear(C)
  BY <1>1, <1>3 DEF flatcc_builder_clear
<1>6. Bare(D)
  BY <1>1, <1>2, <1>4, InitBare
<1> QED BY <1>5, <1>6

LEMMA InitStack ==
  ASSUME Init
  PROVE  StackInv
<1>1. PICK m \in PageLimits, f \in FlushLimits, d \in BOOLEAN :
         B = [flatcc_builder_init(m) EXCEPT !.vb_flush_limit = f, !.disable_vt_clustering = d]
  BY DEF Init
<1>2. PICK G, D : /\ G = flatcc_builder_init(m)
                  /\ D = [G EXCEPT !.vb_flush_limit = f, !.disable_vt_clustering = d]
  OBVIOUS
<1>3. DOMAIN G = BuilderFields /\ G.frame = <<>>
  BY <1>2, InitStackFields
<1>4. /\ D.frame = G.frame /\ D.ds_first = G.ds_first /\ D.ds_offset = G.ds_offset
      /\ D.ds_mem = G.ds_mem /\ D.vs_mem = G.vs_mem /\ D.vs = G.vs /\ D.id_end = G.id_end
  BY ONLY <1>2, <1>3 DEF BuilderFields
<1>5. Bare(D)
  BY <1>2, <1>3, <1>4, InitBare
<1>6. B = D /\ open = <<>>
  BY <1>1, <1>2 DEF Init
<1>7. StacksUp(D, <<>>) /\ Len(<<>>) \in Nat
  BY <1>5, BareUp
<1>8. StackState(D, <<>>, phase)
  BY <1>7, UpState
<1>9. Notes(<<>>, refs) = <<>>
  BY NotesEmpty
<1> QED BY ONLY <1>6, <1>8, <1>9 DEF StackInv

-----------------------------------------------------------------------------
(* What is finished, and what is open *)

\* Some of the innermost objects are open no more, one of which, or one that was
\* not open, is finished.
LEMMA RefsFewer ==
  ASSUME NEW op, NEW rs, RefsHold(op, rs), NEW n \in Nat, n = Len(op),
         \A l \in 1 .. n : op[l].o \in Objects, NEW o \in Objects, rs[o] = <<>>,
         NEW s, AreRefs(s, o), NEW refs2, refs2 = rs \/ refs2 = [rs EXCEPT ![o] = s],
         NEW less, NEW m \in Nat, m <= n, m = Len(less),
         \A l \in 1 .. m : less[l] = op[l] /\ op[l].o # o
  PROVE  RefsHold(less, refs2)
<1>1. /\ rs = [a \in Objects |-> rs[a]]
      /\ \A a \in Objects : rs[a] # <<>> => AreRefs(rs[a], a)
      /\ \A l \in 1 .. n : /\ rs[op[l].o] = <<>> /\ Refers(op[l], rs)
                           /\ \A k \in 1 .. n : k # l => op[k].o # op[l].o
  BY DEF RefsHold
<1>2. refs2 = [a \in Objects |-> refs2[a]]
  BY ONLY <1>1, refs2 = rs \/ refs2 = [rs EXCEPT ![o] = s]
<1>3. /\ \A a \in Objects : a # o => refs2[a] = rs[a]
      /\ refs2[o] = rs[o] \/ refs2[o] = s
  BY ONLY <1>1, refs2 = rs \/ refs2 = [rs EXCEPT ![o] = s], o \in Objects
<1>4. ASSUME NEW a \in Objects, refs2[a] # <<>> PROVE AreRefs(refs2[a], a)
  <2>1. CASE a = o
    BY ONLY <1>3, <1>4, <2>1, rs[o] = <<>>, AreRefs(s, o)
  <2>2. CASE a # o
    BY ONLY <1>1, <1>3, <1>4, <2>2, a \in Objects
  <2> QED BY <2>1, <2>2
<1>5. ASSUME NEW l \in 1 .. m
      PROVE  /\ refs2[less[l].o] = <<>> /\ Refers(less[l], refs2)
             /\ \A k \in 1 .. m : k # l => less[k].o # less[l].o
  <2>1. l \in 1 .. n /\ \A k \in 1 .. m : k \in 1 .. n
    OBVIOUS
  <2>2. PICK x : x = op[l] /\ x = less[l] /\ x.o # o /\ x.o \in Objects
    BY <2>1
  <2>3. refs2[x.o] = <<>>
    BY ONLY <1>1, <1>3, <2>1, <2>2
  <2>4. Refers(x, rs)
    BY ONLY <1>1, <2>1, <2>2
  <2>5. \A a \in Objects : rs[a] # <<>> => refs2[a] = rs[a]
    BY ONLY <1>3, rs[o] = <<>>
  <2>6. Refers(x, refs2)
    BY ONLY <2>4, <2>5 DEF Refers
  <2>7. \A k \in 1 .. m : k # l => less[k].o # less[l].o
    BY <1>1, <2>1
  <2> QED BY ONLY <2>2, <2>3, <2>6, <2>7
<1> QED BY ONLY <1>2, <1>4, <1>5, m = Len(less) DEF RefsHold

LEMMA FinishedRefs ==
  ASSUME NEW r, NEW o, Finished(r, o), Doc[o].kind # "unions"
  PROVE  \E s : AreRefs(s, o) /\ (refs' = refs \/ refs' = [refs EXCEPT ![o] = s])
<1>1. AreRefs(<<1>>, o)
  BY DEF AreRefs
<1>2. CASE r.ref = 0
  BY <1>1, <1>2 DEF Finished
<1>3. CASE r.ref # 0
  <2>1. AreRefs(<<r.ref>>, o)
    BY <1>3 DEF AreRefs
  <2> QED BY <1>3, <2>1 DEF Finished
<1> QED BY <1>2, <1>3

LEMMA CreateRefs ==
  ASSUME SessionInv, RefsInv, NEW o \in Buildable, Create(o)
  PROVE  RefsInv'
<1>1. o \in Objects /\ phase = "building" /\ IsOpen(open) /\ open' = open
  BY BuildableObjects, BuildingState DEF Create
<1>2. PICK n \in Nat : n = Len(open) /\ DOMAIN open = 1 .. n
  BY <1>1 DEF IsOpen
<1>3. refs[o] = <<>> /\ \A l \in 1 .. n : open[l].o # o
  BY <1>2 DEF Buildable, MayBuild, IsReady
<1>4. \A l \in 1 .. n : open[l].o \in Objects
  BY <1>1, <1>2 DEF IsOpen
<1>5. Doc[o].kind # "unions" /\ \E r : Finished(r, o)
  BY DEF Create
<1>6. PICK s : AreRefs(s, o) /\ (refs' = refs \/ refs' = [refs EXCEPT ![o] = s])
  BY <1>5, FinishedRefs
<1>7. n <= n
  OBVIOUS
<1>8. RefsHold(open, refs')
  BY <1>1, <1>2, <1>3, <1>4, <1>6, <1>7, RefsFewer DEF RefsInv
<1> QED BY ONLY <1>1, <1>8 DEF RefsInv

LEMMA StartRefs ==
  ASSUME SessionInv, RefsInv, NEW o \in Buildable, Start(o)
  PROVE  RefsInv'
<1>1. o \in Objects /\ phase = "building" /\ IsOpen(open)
  BY BuildableObjects, BuildingState
<1>2. PICK n \in Nat : n = Len(open) /\ DOMAIN open = 1 .. n
  BY <1>1 DEF IsOpen
<1>3. refs[o] = <<>> /\ \A l \in 1 .. n : open[l].o # o
  BY <1>2 DEF Buildable, MayBuild, IsReady
<1>4. PICK f, longer : f = [o |-> o, parts |-> {}] /\ longer = Append(open, f)
  OBVIOUS
<1>5. open' = longer /\ refs' = refs
  BY <1>4 DEF Start
<1>6. Len(longer) = n + 1 /\ longer[n + 1] = f /\ \A l \in 1 .. n : longer[l] = open[l]
  <2>1. PICK S : open \in Seq(S)
    BY <1>1 DEF IsOpen
  <2>2. open \in Seq(S \cup {f})
    BY <2>1
  <2> QED BY <1>2, <1>4, <2>2, AppendAt
<1>7. /\ refs = [a \in Objects |-> refs[a]]
      /\ \A a \in Objects : refs[a] # <<>> => AreRefs(refs[a], a)
      /\ \A l \in 1 .. n : /\ refs[open[l].o] = <<>> /\ Refers(open[l], refs)
                           /\ \A k \in 1 .. n : k # l => open[k].o # open[l].o
  BY <1>2 DEF RefsInv, RefsHold
<1>8. f.o = o /\ Refers(f, refs)
  BY <1>4 DEF Refers
<1>9. ASSUME NEW l \in 1 .. n + 1
      PROVE  /\ refs[longer[l].o] = <<>> /\ Refers(longer[l], refs)
             /\ \A k \in 1 .. n + 1 : k # l => longer[k].o # longer[l].o
  <2>1. \A k \in 1 .. n + 1 : k \in 1 .. n \/ k = n + 1
    OBVIOUS
  <2> QED BY ONLY <1>3, <1>6, <1>7, <1>8, <2>1, l \in 1 .. n + 1
<1>10. RefsHold(longer, refs)
  BY ONLY <1>6, <1>7, <1>9 DEF RefsHold
<1> QED BY ONLY <1>5, <1>10 DEF RefsInv

\* A part is added to the innermost object, whose parts are finished.
LEMMA WithRefs ==
  ASSUME SessionInv, RefsInv, open # <<>>, NEW p,
         Doc[Innermost.o].kind = "table" =>
            LET f == Doc[Innermost.o].fields[p]
            IN  f.kind # "inline" => f.to \in Objects /\ refs[f.to] # <<>>,
         open' = With(open, p), refs' = refs
  PROVE  RefsInv'
<1>1. IsOpen(open)
  BY DEF SessionInv, State
<1>2. PICK S : open \in Seq(S)
  BY <1>1 DEF IsOpen
<1>3. PICK n \in Nat \ {0} : n = Len(open)
  BY <1>2, EmptySeq
<1>4. PICK ps, f, longer : /\ ps = open[n].parts \cup {p} /\ f = [open[n] EXCEPT !.parts = ps]
                           /\ longer = [open EXCEPT ![n] = f]
  OBVIOUS
<1>5. longer = With(open, p)
  BY <1>3, <1>4 DEF With
<1>6. DOMAIN open[n] = {"o", "parts"} /\ n \in 1 .. n
  BY <1>1, <1>3 DEF IsOpen
<1>7. f.o = open[n].o /\ f.parts = ps
  BY ONLY <1>4, <1>6
<1>8. Len(longer) = n /\ \A l \in 1 .. n : longer[l] = IF l = n THEN f ELSE open[l]
  BY ONLY <1>2, <1>3, <1>4, n \in Nat \ {0}
<1>9. /\ refs = [a \in Objects |-> refs[a]]
      /\ \A a \in Objects : refs[a] # <<>> => AreRefs(refs[a], a)
      /\ \A l \in 1 .. n : /\ refs[open[l].o] = <<>> /\ Refers(open[l], refs)
                           /\ \A k \in 1 .. n : k # l => open[k].o # open[l].o
  BY <1>3 DEF RefsInv, RefsHold
<1>10. Refers(f, refs)
  <2>1. Innermost.o = f.o
    BY <1>3, <1>7 DEF Innermost
  <2>2. ASSUME Doc[f.o].kind = "table", NEW q \in ps, NEW g, g = Doc[f.o].fields[q],
               g.kind # "inline"
        PROVE  g.to \in Objects /\ refs[g.to] # <<>>
    <3>1. CASE q = p
      BY <2>1, <2>2, <3>1
    <3>2. CASE q # p
      <4>1. Refers(open[n], refs) /\ q \in open[n].parts
        BY ONLY <1>4, <1>6, <1>9, <2>2, <3>2
      <4> QED BY ONLY <1>7, <2>2, <4>1 DEF Refers
    <3> QED BY <3>1, <3>2
  <2> QED BY ONLY <1>7, <2>2 DEF Refers
<1>11. ASSUME NEW l \in 1 .. n
       PROVE  /\ refs[longer[l].o] = <<>> /\ Refers(longer[l], refs)
              /\ \A k \in 1 .. n : k # l => longer[k].o # longer[l].o
  <2>1. \A k \in 1 .. n : longer[k].o = open[k].o
    BY ONLY <1>7, <1>8
  <2>2. Refers(longer[l], refs)
    BY ONLY <1>8, <1>9, <1>10, l \in 1 .. n
  <2> QED BY ONLY <1>9, <2>1, <2>2, l \in 1 .. n
<1>12. RefsHold(longer, refs)
  BY ONLY <1>8, <1>9, <1>11 DEF RefsHold
<1> QED BY ONLY <1>5, <1>12, open' = With(open, p), refs' = refs DEF RefsInv

LEMMA AddFieldRefs ==
  ASSUME SessionInv, RefsInv, NEW p \in NextParts, AddField(p)
  PROVE  RefsInv'
<1>1. open # <<>> /\ p \in Parts(Innermost.o) /\ Innermost.o \in Objects
  BY NextPartsFacts
<1>2. PICK o, f : o = Innermost.o /\ f = Doc[o].fields[p]
  OBVIOUS
<1>3. Doc[o].kind = "table" /\ p \in DOMAIN Doc[o].fields /\ o \in DOMAIN Doc
  BY <1>1, <1>2 DEF AddField, Parts, Objects
<1>4. f.kind # "inline" => IsReady(f.to)
  BY <1>2 DEF AddField
<1>5. f.kind # "inline" => f.to \in Objects
  BY ONLY <1>2, <1>3, ReferenceAssumption DEF ReferenceAssumption, Objects
<1>6. \E r : Added(r, p)
  BY DEF AddField
<1>7. open' = With(open, p) /\ refs' = refs
  BY <1>6 DEF Added, With
<1>8. LET g == Doc[Innermost.o].fields[p]
      IN  g.kind # "inline" => g.to \in Objects /\ refs[g.to] # <<>>
  BY <1>2, <1>4, <1>5 DEF IsReady
<1> QED BY ONLY <1>1, <1>7, <1>8, SessionInv, RefsInv, WithRefs

LEMMA PushRefs ==
  ASSUME SessionInv, RefsInv, NEW p \in NextParts, Push(p)
  PROVE  RefsInv'
<1>1. open # <<>>
  BY NextPartsFacts
<1>2. Doc[Innermost.o].kind # "table" /\ \E r : Added(r, p)
  BY DEF Push
<1>3. open' = With(open, p) /\ refs' = refs
  BY <1>2 DEF Added, With
<1> QED BY ONLY <1>1, <1>2, <1>3, SessionInv, RefsInv, WithRefs

LEMMA EndRefs ==
  ASSUME SessionInv, RefsInv, End
  PROVE  RefsInv'
<1>1. PICK o, front : o = Innermost.o /\ front = Front(open)
  OBVIOUS
<1>2. open # <<>> /\ open' = front /\ IsOpen(open) /\ o \in Objects
  BY <1>1, InnermostKind DEF End, SessionInv, State
<1>3. PICK n \in Nat : n + 1 = Len(open) /\ Len(front) = n /\ \A l \in 1 .. n : front[l] = open[l]
  BY <1>1, <1>2, FrontAt
<1>4. PICK m \in Nat : m = n + 1 /\ m = Len(open) /\ n <= m /\ m \in 1 .. m
                      /\ \A l \in 1 .. n : l \in 1 .. m /\ l # m
  <2>1. n + 1 \in Nat /\ n <= n + 1 /\ n + 1 \in 1 .. n + 1
        /\ \A l \in 1 .. n : l \in 1 .. n + 1 /\ l # n + 1
    OBVIOUS
  <2> QED BY ONLY <1>3, <2>1
<1>5. \A l \in 1 .. m : open[l].o \in Objects
  BY <1>2, <1>4 DEF IsOpen
<1>6. /\ o = open[m].o
      /\ \A l \in 1 .. m : refs[open[l].o] = <<>> /\ \A k \in 1 .. m : k # l => open[k].o # open[l].o
  BY <1>1, <1>4 DEF Innermost, RefsInv, RefsHold
<1>7. refs[o] = <<>> /\ \A l \in 1 .. n : front[l] = open[l] /\ open[l].o # o
  BY ONLY <1>3, <1>4, <1>6
<1>8. PICK s : AreRefs(s, o) /\ (refs' = refs \/ refs' = [refs EXCEPT ![o] = s])
  <2>1. CASE Doc[o].kind # "unions"
    <3>1. \E r : Finished(r, o)
      BY <1>1, <2>1 DEF End
    <3> QED BY <2>1, <3>1, FinishedRefs
  <2>2. CASE Doc[o].kind = "unions"
    <3>1. PICK u : UnionsFinished(u, o)
      BY <1>1, <2>2 DEF End
    <3>2. CASE u.type = 0
      <4>1. AreRefs(<<1, 1>>, o)
        BY <2>2 DEF AreRefs
      <4> QED BY <3>1, <3>2, <4>1 DEF UnionsFinished
    <3>3. CASE u.type # 0
      <4>1. AreRefs(<<u.type, u.value>>, o)
        BY <2>2, <3>3 DEF AreRefs
      <4> QED BY <3>1, <3>3, <4>1 DEF UnionsFinished
    <3> QED BY <3>2, <3>3
  <2> QED BY <2>1, <2>2
<1>9. RefsHold(open, refs)
  BY DEF RefsInv
<1>10. RefsHold(front, refs')
  BY ONLY <1>2, <1>3, <1>4, <1>5, <1>7, <1>8, <1>9, n \in Nat, m \in Nat, RefsFewer
<1> QED BY ONLY <1>2, <1>10 DEF RefsInv

LEMMA NoRefs == RefsHold(<<>>, Unfinished)
<1>1. Len(<<>>) = 0 /\ 1 .. 0 = {}
  OBVIOUS
<1>2. Unfinished = [o \in Objects |-> Unfinished[o]] /\ \A o \in Objects : Unfinished[o] = <<>>
  BY DEF Unfinished
<1> QED BY ONLY <1>1, <1>2 DEF RefsHold

\* What is finished is referred to by the refs it has then, what is open has
\* none and is open once, and the fields of an open table refer to what is
\* finished (flatcc_builder.h:1365-1376).
THEOREM SessionKeepsRefs == Spec => []RefsInv
<1>1. Init => RefsInv
  BY NoRefs DEF Init, RefsInv
<1>2. SessionInv /\ RefsInv /\ [Next]_vars => RefsInv'
  <2> SUFFICES ASSUME SessionInv, RefsInv, [Next]_vars PROVE RefsInv'
    OBVIOUS
  <2>1. ASSUME NEW o \in Buildable, Create(o) PROVE RefsInv'
    BY <2>1, CreateRefs
  <2>2. ASSUME NEW o \in Buildable, Start(o) PROVE RefsInv'
    BY <2>2, StartRefs
  <2>3. ASSUME NEW p \in NextParts, AddField(p) PROVE RefsInv'
    BY <2>3, AddFieldRefs
  <2>4. ASSUME NEW p \in NextParts, Push(p) PROVE RefsInv'
    BY <2>4, PushRefs
  <2>5. CASE End
    BY <2>5, EndRefs
  <2>6. CASE Finalize
    BY ONLY <2>6, RefsInv DEF Finalize, RefsInv
  <2>7. CASE Reset
    BY NoRefs, <2>7 DEF Reset, Again, RefsInv
  <2>8. CASE Clear
    BY NoRefs, <2>8 DEF Clear, Again, RefsInv
  <2>9. CASE UNCHANGED vars
    BY ONLY <2>9, RefsInv DEF vars, RefsInv
  <2> QED BY <2>1, <2>2, <2>3, <2>4, <2>5, <2>6, <2>7, <2>8, <2>9 DEF Next
<1> QED BY <1>1, <1>2, SessionKeepsState, PTL DEF Spec

\* The objects that are being built have their bytes and their vtable entries
\* on the stacks, level above level, as the frames say (builder.c:204-306,
\* 581-628, 810-1845).
THEOREM SessionKeepsStacks == Spec => []StackInv
<1>1. Init => StackInv
  BY InitStack
<1>2. SessionInv /\ RefsInv /\ StackInv /\ [Next]_vars => StackInv'
  <2> SUFFICES ASSUME SessionInv, RefsInv, StackInv, [Next]_vars PROVE StackInv'
    OBVIOUS
  <2>1. ASSUME NEW o \in Buildable, Create(o) PROVE StackInv'
    BY <2>1, CreateStack
  <2>2. ASSUME NEW o \in Buildable, Start(o) PROVE StackInv'
    BY <2>2, StartStack
  <2>3. ASSUME NEW p \in NextParts, AddField(p) PROVE StackInv'
    BY <2>3, AddFieldStack
  <2>4. ASSUME NEW p \in NextParts, Push(p) PROVE StackInv'
    BY <2>4, PushStack
  <2>5. CASE End
    BY <2>5, EndStack
  <2>6. CASE Finalize
    BY <2>6, FinalizeStack
  <2>7. CASE Reset
    <3>1. PICK sd \in BOOLEAN : Again(flatcc_builder_custom_reset(B, sd))
      BY <2>7 DEF Reset
    <3>2. Bare(flatcc_builder_custom_reset(B, sd))
      BY ResetBare DEF SessionInv, State, IsBuilder, StackInv, StackState
    <3> QED BY <3>1, <3>2, AgainStack
  <2>8. CASE Clear
    <3>1. Bare(flatcc_builder_clear(B))
      BY ClearBare
    <3> QED BY <2>8, <3>1, AgainStack DEF Clear
  <2>9. CASE UNCHANGED vars
    BY ONLY <2>9, StackInv DEF vars, StackInv
  <2> QED BY <2>1, <2>2, <2>3, <2>4, <2>5, <2>6, <2>7, <2>8, <2>9 DEF Next
<1> QED BY <1>1, <1>2, SessionKeepsState, SessionKeepsRefs, PTL DEF Spec

LEMMA StacksZeroAbove ==
  ASSUME SessionInv, StackInv
  PROVE  ZeroAbove
<1> SUFFICES ASSUME phase = "building" PROVE
       /\ \A i \in B.ds_first + B.ds_offset + 1 .. Len(B.ds_mem) : B.ds_mem[i] = 0
       /\ \A i \in DOMAIN B.vs_mem : i >= B.vs + B.id_end => B.vs_mem[i] = 0
  BY DEF ZeroAbove
<1>1. PICK op : op = Notes(open, refs) /\ StacksUp(B, op) /\ Len(op) \in Nat
  BY BuildingState, NotesAt DEF StackInv, StackState
<1>2. PICK F, O, V, I : StacksAt(B, op, F, O, V, I)
  BY <1>1 DEF StacksUp
<1>3. Based(B)
  BY <1>1, StacksBased
<1>4. PICK x \in Nat, y \in Nat, m \in Nat : x = B.ds_first /\ y = B.ds_offset /\ m = Len(B.ds_mem)
  BY <1>3 DEF Based, IsSeq
<1>5. \A i \in Nat : i > x + y => Byte(B, i) = 0
  BY <1>2, <1>4 DEF StacksAt, Piled, Laid
<1>6. ASSUME NEW i \in x + y + 1 .. m PROVE B.ds_mem[i] = 0
  <2>1. i \in Nat /\ i > x + y /\ i \in 1 .. m
    OBVIOUS
  <2>2. Byte(B, i) = 0
    BY <1>5, <2>1
  <2> QED BY <1>4, <2>1, <2>2 DEF Byte, Memory
<1>7. PICK mem : /\ mem = B.vs_mem /\ mem = [i \in 0 .. Fields |-> mem[i]]
                 /\ \A i \in 0 .. Fields : i >= B.vs + B.id_end => mem[i] = 0
  BY <1>3 DEF Based, IsEntries
<1>8. DOMAIN mem = 0 .. Fields
  BY ONLY <1>7
<1> QED BY ONLY <1>4, <1>6, <1>7, <1>8

\* What lies above the open objects on the stacks is zero in every state of a
\* session: the padding between fields and the entries of absent fields are
\* never left over from an object that was ended, taken back or given up
\* (builder.c:123-178, 250-254, 427-499, 609-616, 1350-1351).
THEOREM StacksStayZero == Spec => []ZeroAbove
<1>1. SessionInv /\ StackInv => ZeroAbove
  BY StacksZeroAbove
<1> QED BY <1>1, SessionKeepsState, SessionKeepsStacks, PTL

-----------------------------------------------------------------------------
(* The fields of the open tables are kept *)

\* How many bytes the object of frame l has.
ExtentOf(l) == IF l = Len(open) THEN B.ds_offset ELSE B.frame[l + 1].ds_offset

\* The open tables are no longer than what an entry of a vtable can say, and the
\* entries of their fields are on the stack.
TablesFit ==
    \A l \in DOMAIN open :
       Doc[open[l].o].kind = "table" =>
          /\ ExtentOf(l) + field_size <= VOFFSET_MAX
          /\ \A p \in open[l].parts : EntriesOf(l) + Doc[open[l].o].fields[p].id <= Fields

LEMMA PieceOf ==
  ASSUME NEW s, IsSeq(s), NEW a \in Nat, NEW data, IsSeq(data), a + Len(data) <= Len(s),
         \A j \in 1 .. Len(data) : s[a + j] = data[j]
  PROVE  SubSeq(s, a + 1, a + Len(data)) = data
<1>1. PICK k \in Nat, n \in Nat : k = Len(data) /\ n = Len(s) /\ a + k <= n
  BY DEF IsSeq
<1>2. PICK W : W = {s[i] : i \in 1 .. n}
  OBVIOUS
<1>3. s \in Seq(W)
  BY <1>1, <1>2, InSeq
<1>4. PICK m \in Nat, e \in Nat : m = a + 1 /\ e = a + k
  OBVIOUS
<1>5. m \in 1 .. n + 1 /\ e \in m - 1 .. n /\ e - m + 1 = k /\ (m <= e => e - m + 1 = k)
      /\ (~ (m <= e) => k = 0) /\ \A j \in 1 .. k : m + j - 1 = a + j
  BY ONLY <1>1, <1>4, a \in Nat, k \in Nat, n \in Nat
<1>6. PICK t : t = SubSeq(s, m, e)
  OBVIOUS
<1>7. /\ t \in Seq(W) /\ Len(t) = IF m <= e THEN e - m + 1 ELSE 0
      /\ \A i \in 1 .. e - m + 1 : t[i] = s[m + i - 1]
  BY ONLY <1>1, <1>3, <1>5, <1>6, SubSeqProperties
<1>8. Len(t) = k
  BY ONLY <1>5, <1>7
<1>9. \A j \in 1 .. k : t[j] = data[j]
  BY <1>1, <1>5, <1>7
<1>10. t = [j \in 1 .. k |-> t[j]]
  BY ONLY <1>7, <1>8, SeqIs DEF IsSeq
<1>11. data = [j \in 1 .. k |-> data[j]]
  BY <1>1 DEF IsSeq
<1>12. t = data
  BY ONLY <1>9, <1>10, <1>11
<1> QED BY ONLY <1>1, <1>4, <1>6, <1>12

\* Only tables move the stack of entries.
LEMMA ChainSteady ==
  ASSUME NEW C, NEW op, NEW V, NEW I, Chained(C, op, V, I), NEW n \in Nat, n = Len(op),
         NEW l \in 0 .. n, NEW m \in l .. n, \A k \in l + 1 .. m : KindAt(op, k) # "table"
  PROVE  V[m] = V[l]
<1> DEFINE S == {k \in Nat : l <= k /\ k <= m => V[k] = V[l]}
<1>1. 0 \in S
  <2>1. l <= 0 => l = 0
    OBVIOUS
  <2> QED BY <2>1
<1>2. ASSUME NEW k \in Nat, k \in S PROVE k + 1 \in S
  <2> SUFFICES ASSUME l <= k + 1, k + 1 <= m PROVE V[k + 1] = V[l]
    OBVIOUS
  <2>1. CASE l = k + 1
    BY <2>1
  <2>2. CASE l # k + 1
    <3>1. l <= k /\ k <= m /\ k + 1 \in l + 1 .. m /\ k + 1 \in 1 .. n /\ (k + 1) - 1 = k
      BY <2>2
    <3>2. V[k] = V[l]
      BY <1>2, <3>1
    <3>3. KindAt(op, k + 1) # "table"
      BY <3>1
    <3>4. IsChained(C.frame[k + 1].c, KindAt(op, k + 1), V[k], I[k], V[k + 1], I[k + 1])
      BY ONLY <3>1, n = Len(op), Chained(C, op, V, I) DEF Chained
    <3> QED BY ONLY <3>2, <3>3, <3>4 DEF IsChained
  <2> QED BY <2>1, <2>2
<1> HIDE DEF S
<1>3. Nat \subseteq S
  BY <1>1, <1>2, NatSetInduction
<1>4. m \in S /\ l <= m /\ m <= m
  BY <1>3
<1> QED BY <1>4 DEF S

\* Where the objects of a session are on the stacks.
LEMMA WhereOpen ==
  ASSUME NEW n \in Nat, n = Len(open), NEW op, Len(op) = n, \A l \in 1 .. n : op[l].o = open[l].o,
         NEW F, NEW O, NEW V, NEW I, StacksAt(B, op, F, O, V, I), NEW l \in 1 .. n
  PROVE  BytesOf(l) = F[l] /\ ExtentOf(l) = O[l] /\ EntriesOf(l) = V[l]
<1>1. /\ Piled(B, op, F, O, V, I) /\ Len(B.frame) = n /\ V[n] = B.vs
      /\ F[n] = B.ds_first /\ O[n] = B.ds_offset
      /\ \A k \in 1 .. n : B.frame[k].ds_first = F[k - 1] /\ B.frame[k].ds_offset = O[k - 1]
  BY DEF StacksAt, Piled, Laid
<1>2. l # n => l + 1 \in 1 .. n /\ (l + 1) - 1 = l
  OBVIOUS
<1>3. BytesOf(l) = F[l] /\ ExtentOf(l) = O[l]
  BY ONLY <1>1, <1>2, n = Len(open) DEF BytesOf, ExtentOf
<1>4. Chained(B, op, V, I)
  BY <1>1 DEF Piled
<1>5. PICK inner : inner = {k \in l + 1 .. n : KindAt(op, k) = "table"}
  OBVIOUS
<1>6. inner = {k \in l + 1 .. Len(open) : Doc[open[k].o].kind = "table"}
  <2>1. \A k \in l + 1 .. n : k \in 1 .. n
    OBVIOUS
  <2>2. \A k \in l + 1 .. n : op[k].o = open[k].o
    BY <2>1
  <2> QED BY ONLY <1>5, <2>2, n = Len(open) DEF KindAt
<1>7. EntriesOf(l) = V[l]
  <2>1. CASE inner = {}
    <3>1. \A k \in l + 1 .. n : KindAt(op, k) # "table"
      BY ONLY <1>5, <2>1
    <3>2. l \in 0 .. n /\ n \in l .. n
      OBVIOUS
    <3>3. V[n] = V[l]
      BY <1>4, <3>1, <3>2, ChainSteady
    <3> QED BY ONLY <1>1, <1>6, <2>1, <3>3 DEF EntriesOf
  <2>2. CASE inner # {}
    <3>1. inner \subseteq Nat
      BY <1>5
    <3>2. PICK k : k = CHOOSE x \in inner : \A y \in inner : x <= y
      OBVIOUS
    <3>3. k \in inner /\ \A y \in inner : k <= y
      <4>1. \E x \in inner : \A y \in inner : x <= y
        BY <2>2, <3>1, LeastOf
      <4> QED BY <3>2, <4>1
    <3>4. k \in l + 1 .. n /\ KindAt(op, k) = "table"
      BY <1>5, <3>3
    <3>5. PICK j \in Nat : j = k - 1 /\ j \in l .. n /\ k \in 1 .. n /\ l \in 0 .. n
                         /\ \A y \in l + 1 .. j : y \in l + 1 .. n /\ ~ (k <= y)
      <4>1. k - 1 \in Nat /\ k - 1 \in l .. n /\ k \in 1 .. n /\ l \in 0 .. n
            /\ \A y \in l + 1 .. k - 1 : y \in l + 1 .. n /\ ~ (k <= y)
        BY <3>4
      <4> QED BY <4>1
    <3>6. \A y \in l + 1 .. j : KindAt(op, y) # "table"
      BY ONLY <1>5, <3>3, <3>5
    <3>7. V[j] = V[l]
      BY <1>4, <3>5, <3>6, ChainSteady
    <3>8. IsChained(B.frame[k].c, KindAt(op, k), V[j], I[j], V[k], I[k])
      BY ONLY <1>4, <3>5, Len(op) = n DEF Chained
    <3>9. B.frame[k].c.vs_end = V[l]
      BY ONLY <3>4, <3>7, <3>8 DEF IsChained
    <3>10. EntriesOf(l) = B.frame[CHOOSE x \in inner : \A y \in inner : x <= y].c.vs_end
      BY ONLY <1>6, <2>2 DEF EntriesOf
    <3> QED BY ONLY <3>2, <3>9, <3>10
  <2> QED BY <2>1, <2>2
<1> QED BY <1>3, <1>7

LEMMA FittingKept ==
  ASSUME SessionInv, StackInv, TablesFit
  PROVE  OpenFieldsKept
<1> SUFFICES ASSUME phase = "building", NEW l \in DOMAIN open, Doc[open[l].o].kind = "table",
                    NEW p \in open[l].parts
             PROVE  LET f == Doc[open[l].o].fields[p]
                        vte == B.vs_mem[EntriesOf(l) + f.id]
                        at == BytesOf(l) + vte - field_size
                        data == IF f.kind = "inline" THEN f.data
                                ELSE write_uoffset(Last(refs[f.to]))
                    IN  vte # 0 /\ SubSeq(B.ds_mem, at + 1, at + Len(data)) = data
  BY DEF OpenFieldsKept
<1>1. IsOpen(open)
  BY BuildingState
<1>2. PICK n \in Nat : n = Len(open) /\ l \in 1 .. n /\ l \in 0 .. n
  BY <1>1 DEF IsOpen
<1>3. PICK op : op = Notes(open, refs) /\ StacksUp(B, op)
  BY DEF StackInv, StackState
<1>4. Len(op) = n /\ \A k \in 1 .. n : op[k] = Noted(open[k], refs)
  BY <1>2, <1>3, NotesAt
<1>5. \A k \in 1 .. n : op[k].o = open[k].o
  BY <1>4, NotedFacts
<1>6. PICK F, O, V, I : StacksAt(B, op, F, O, V, I) /\ Held(B, op, F, O, V, I)
  BY <1>3 DEF StacksUp
<1>7. BytesOf(l) = F[l] /\ ExtentOf(l) = O[l] /\ EntriesOf(l) = V[l]
  BY <1>2, <1>4, <1>5, <1>6, WhereOpen
<1>8. F \in [0 .. n -> Nat] /\ O \in [0 .. n -> Nat] /\ V \in [0 .. n -> Nat]
  BY <1>2, <1>4, <1>6 DEF StacksAt, Piled, Laid, Chained
<1>9. IsSeq(B.ds_mem) /\ (O[l] > 0 => F[l] + O[l] <= Len(B.ds_mem))
  BY <1>2, <1>4, <1>6 DEF StacksAt, Piled, Laid
<1>10. PICK x \in Nat, y \in Nat, v \in Nat : x = F[l] /\ y = O[l] /\ v = V[l]
  BY ONLY <1>2, <1>8
<1>11. PICK k : k = FieldOf(open[l].o, p, refs)
  OBVIOUS
<1>12. FieldAt(B, x, y, v, I[l], k)
  <2>1. op[l] = Noted(open[l], refs)
    BY <1>2, <1>4
  <2>2. k \in op[l].has
    BY <1>11, <2>1, NotedFacts
  <2>3. LevelHeld(B, op[l], F[l], O[l], V[l], I[l])
    BY <1>2, <1>4, <1>6 DEF Held
  <2> QED BY ONLY <1>10, <2>2, <2>3 DEF LevelHeld
<1>13. PICK f, data : /\ f = Doc[open[l].o].fields[p]
                      /\ data = IF f.kind = "inline" THEN f.data
                                ELSE write_uoffset(Last(refs[f.to]))
  OBVIOUS
<1>14. k.id = f.id /\ k.data = data
  BY ONLY <1>11, <1>13 DEF FieldOf
<1>15. PICK off \in Nat :
          /\ off + Len(data) <= y
          /\ off + field_size <= VOFFSET_MAX /\ v + f.id <= Fields
                => B.vs_mem[v + f.id] = off + field_size
          /\ \A j \in 1 .. Len(data) : Byte(B, x + off + j) = data[j]
  BY ONLY <1>12, <1>14 DEF FieldAt
<1>16. IsSeq(data) /\ f.id \in Nat
  BY ONLY <1>12, <1>14 DEF FieldAt
<1>17. PICK m \in Nat : m = Len(data)
  BY <1>16 DEF IsSeq
<1>18. y + field_size <= VOFFSET_MAX /\ v + f.id <= Fields
  BY <1>7, <1>10, <1>13 DEF TablesFit
<1>19. off + field_size <= VOFFSET_MAX
  <2>1. PICK max \in Int : max = VOFFSET_MAX
    BY RadixAssumption DEF VOFFSET_MAX
  <2> QED BY ONLY <1>15, <1>17, <1>18, <2>1, FieldSizeType, off \in Nat, m \in Nat, y \in Nat,
                  max \in Int
<1>20. PICK vte : vte = B.vs_mem[EntriesOf(l) + f.id]
  OBVIOUS
<1>21. vte = off + field_size
  BY ONLY <1>7, <1>10, <1>15, <1>18, <1>19, <1>20
<1>22. vte # 0 /\ BytesOf(l) + vte - field_size = x + off
  BY ONLY <1>7, <1>10, <1>21, FieldSizeType, x \in Nat, off \in Nat
<1>23. SubSeq(B.ds_mem, (x + off) + 1, (x + off) + Len(data)) = data
  <2>1. CASE m = 0
    <3>1. data = <<>>
      BY <1>16, <1>17, <2>1 DEF IsSeq
    <3>2. PICK a \in Nat : a = x + off
      OBVIOUS
    <3>3. SubSeq(B.ds_mem, a + 1, a + 0) = <<>>
      <4>1. a + 1 \in Int /\ a + 0 \in Int /\ a + 0 < a + 1
        OBVIOUS
      <4> QED BY ONLY <4>1
    <3> QED BY ONLY <1>17, <2>1, <3>1, <3>2, <3>3
  <2>2. CASE m # 0
    <3>1. PICK z \in Nat : z = Len(B.ds_mem)
      BY <1>9 DEF IsSeq
    <3>2. x + y <= z
      <4>1. y > 0
        BY ONLY <1>15, <1>17, <2>2, off \in Nat, m \in Nat, y \in Nat
      <4> QED BY ONLY <1>9, <1>10, <3>1, <4>1
    <3>3. PICK a \in Nat : a = x + off
      OBVIOUS
    <3>4. a + m <= z
      BY ONLY <1>15, <1>17, <3>2, <3>3, x \in Nat, y \in Nat, off \in Nat, m \in Nat, z \in Nat
    <3>5. ASSUME NEW j \in 1 .. m PROVE B.ds_mem[a + j] = data[j]
      <4>1. Byte(B, a + j) = data[j]
        BY ONLY <1>15, <1>17, <3>3, <3>5
      <4>2. a + j \in 1 .. z
        BY ONLY <3>4, a \in Nat, m \in Nat, z \in Nat, j \in 1 .. m
      <4>3. DOMAIN B.ds_mem = 1 .. z
        BY <1>9, <3>1 DEF IsSeq
      <4> QED BY ONLY <4>1, <4>2, <4>3 DEF Byte, Memory
    <3>6. SubSeq(B.ds_mem, a + 1, a + Len(data)) = data
      <4>1. PICK mem : mem = B.ds_mem /\ IsSeq(mem)
        BY ONLY <1>9
      <4>2. a + Len(data) <= Len(mem) /\ \A j \in 1 .. Len(data) : mem[a + j] = data[j]
        BY ONLY <1>17, <3>1, <3>4, <3>5, <4>1
      <4>3. SubSeq(mem, a + 1, a + Len(data)) = data
        BY ONLY <1>16, <4>1, <4>2, a \in Nat, PieceOf
      <4> QED BY ONLY <4>1, <4>3
    <3> QED BY ONLY <3>3, <3>6
  <2> QED BY <2>1, <2>2
<1> QED BY ONLY <1>13, <1>20, <1>22, <1>23

\* Whatever is started, ended, taken back or given up inside an open table, the
\* fields that were added to it stay where its entries say, byte for byte, until
\* it is ended, as long as the table fits in what an entry can say, which the
\* builder does not check (builder.c:204-306, 581-628, 1083-1101, 1324-1356,
\* 1774-1845).
THEOREM OpenTablesKeepFields == Spec => [](TablesFit => OpenFieldsKept)
<1>1. SessionInv /\ StackInv => (TablesFit => OpenFieldsKept)
  BY FittingKept
<1> QED BY <1>1, SessionKeepsState, SessionKeepsStacks, PTL
=============================================================================
