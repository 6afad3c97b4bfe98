------------------------- MODULE KSocketClassProofs -------------------------
(***************************************************************************)
(* Proofs about KSocketClass, for any number of objects and descriptors:   *)
(* no descriptor is used by two objects or after its close, none is left   *)
(* open without an object that will close it, and the buffers keep their   *)
(* bytes in order, integers most significant byte first.                   *)
(***************************************************************************)
EXTENDS KSocketClass, SequenceTheorems, WellFoundedInduction, TLAPS

-----------------------------------------------------------------------------
(* Sequences: what is left of a stream when a part of it has gone, and     *)
(* functions that are defined by recursion.                                *)

\* What follows the first n elements.
Rest(s, n) == SubSeq(s, n + 1, Len(s))

LEMMA RestType ==
  ASSUME NEW B, NEW s \in Seq(B), NEW n \in 0 .. Len(s)
  PROVE  /\ Rest(s, n) \in Seq(B)
         /\ Len(Rest(s, n)) = Len(s) - n
         /\ \A i \in 1 .. Len(s) - n : Rest(s, n)[i] = s[n + i]
<1>1. \A i \in n + 1 .. Len(s) : s[i] \in B
  OBVIOUS
<1> QED BY <1>1, SubSeqProperties DEF Rest

LEMMA FirstType ==
  ASSUME NEW B, NEW s \in Seq(B), NEW n \in 0 .. Len(s)
  PROVE  /\ SubSeq(s, 1, n) \in Seq(B)
         /\ Len(SubSeq(s, 1, n)) = n
         /\ \A i \in 1 .. n : SubSeq(s, 1, n)[i] = s[i]
<1>1. \A i \in 1 .. n : s[i] \in B
  OBVIOUS
<1> QED BY <1>1, SubSeqProperties

LEMMA FirstAndRest ==
  ASSUME NEW B, NEW s \in Seq(B), NEW n \in 0 .. Len(s)
  PROVE  SubSeq(s, 1, n) \o Rest(s, n) = s
<1>1. 1 \in 1 .. Len(s) + 1 /\ n \in 1 - 1 .. Len(s) /\ Len(s) \in n .. Len(s)
  OBVIOUS
<1>2. SubSeq(s, 1, n) \o SubSeq(s, n + 1, Len(s)) = SubSeq(s, 1, Len(s))
  BY <1>1, ConcatAdjacentSubSeq
<1> QED BY <1>2, SubSeqFull DEF Rest

\* Concatenation is associative.
Regroups(s, x, y) == (s \o x) \o y = s \o (x \o y)

LEMMA Regroup ==
  ASSUME NEW B, NEW s \in Seq(B), NEW x \in Seq(B), NEW y \in Seq(B)
  PROVE  Regroups(s, x, y)
<1>1. (s \o x) \o y = s \o (x \o y)
  BY ConcatAssociative
<1> QED BY <1>1 DEF Regroups

\* A part moves from the front of one sequence to the end of another.
LEMMA MoveFirst ==
  ASSUME NEW B, NEW s \in Seq(B), NEW t \in Seq(B), NEW n \in 0 .. Len(t)
  PROVE  (s \o SubSeq(t, 1, n)) \o Rest(t, n) = s \o t
<1>1. SubSeq(t, 1, n) \in Seq(B) /\ Rest(t, n) \in Seq(B)
  BY FirstType, RestType
<1>2. SubSeq(t, 1, n) \o Rest(t, n) = t
  BY FirstAndRest
<1>3. Regroups(s, SubSeq(t, 1, n), Rest(t, n))
  BY <1>1, Regroup
<1> QED BY <1>2, <1>3, Zenon DEF Regroups

LEMMA RestOfConcat ==
  ASSUME NEW B, NEW s \in Seq(B), NEW t \in Seq(B), NEW n \in 0 .. Len(s)
  PROVE  Rest(s \o t, n) = Rest(s, n) \o t
<1>1. /\ s \o t \in Seq(B) /\ Len(s \o t) = Len(s) + Len(t)
      /\ \A i \in 1 .. Len(s) + Len(t) :
           (s \o t)[i] = IF i <= Len(s) THEN s[i] ELSE t[i - Len(s)]
  BY ConcatProperties
<1>2. /\ Rest(s \o t, n) \in Seq(B) /\ Len(Rest(s \o t, n)) = Len(s) + Len(t) - n
      /\ \A i \in 1 .. Len(s) + Len(t) - n : Rest(s \o t, n)[i] = (s \o t)[n + i]
  <2> DEFINE st == s \o t
  <2>1. st \in Seq(B) /\ Len(st) = Len(s) + Len(t) /\ n \in 0 .. Len(st)
    BY <1>1
  <2> HIDE DEF st
  <2>2. /\ Rest(st, n) \in Seq(B) /\ Len(Rest(st, n)) = Len(st) - n
        /\ \A i \in 1 .. Len(st) - n : Rest(st, n)[i] = st[n + i]
    BY <2>1, RestType
  <2>3. Len(st) - n = Len(s) + Len(t) - n
    BY <2>1
  <2> QED BY <2>2, <2>3 DEF st
<1>3. /\ Rest(s, n) \in Seq(B) /\ Len(Rest(s, n)) = Len(s) - n
      /\ \A i \in 1 .. Len(s) - n : Rest(s, n)[i] = s[n + i]
  BY RestType
<1>4. /\ Rest(s, n) \o t \in Seq(B) /\ Len(Rest(s, n) \o t) = Len(s) - n + Len(t)
      /\ \A i \in 1 .. Len(s) - n + Len(t) : (Rest(s, n) \o t)[i] =
           IF i <= Len(s) - n THEN Rest(s, n)[i] ELSE t[i - (Len(s) - n)]
  <2> DEFINE r == Rest(s, n)
  <2>1. /\ r \o t \in Seq(B) /\ Len(r \o t) = Len(r) + Len(t)
        /\ \A i \in 1 .. Len(r) + Len(t) :
             (r \o t)[i] = IF i <= Len(r) THEN r[i] ELSE t[i - Len(r)]
    BY <1>3, ConcatProperties
  <2> QED BY <1>3, <2>1
<1>5. ASSUME NEW i \in 1 .. Len(s) + Len(t) - n
      PROVE  Rest(s \o t, n)[i] = (Rest(s, n) \o t)[i]
  <2>1. Rest(s \o t, n)[i] = IF n + i <= Len(s) THEN s[n + i] ELSE t[n + i - Len(s)]
    BY <1>1, <1>2
  <2>2. (Rest(s, n) \o t)[i] = IF i <= Len(s) - n THEN s[n + i] ELSE t[i - (Len(s) - n)]
    BY <1>3, <1>4
  <2>3. n + i - Len(s) = i - (Len(s) - n) /\ (n + i <= Len(s) <=> i <= Len(s) - n)
    OBVIOUS
  <2> QED BY <2>1, <2>2, <2>3
<1> HIDE DEF Rest
<1>6. Len(Rest(s \o t, n)) = Len(Rest(s, n) \o t)
  BY <1>2, <1>4
<1>7. \A i \in 1 .. Len(Rest(s \o t, n)) : Rest(s \o t, n)[i] = (Rest(s, n) \o t)[i]
  BY <1>2, <1>5
<1> QED BY <1>2, <1>4, <1>6, <1>7, SeqEqual

-----------------------------------------------------------------------------
\* Induction over the natural numbers, for a set of them.
Less == {p \in Nat \X Nat : p[1] < p[2]}

LEMMA LessWF == IsWellFoundedOn(Less, Nat)
<1>1. OpToRel(<, Nat) = Less
  BY DEF OpToRel, Less
<1>2. IsWellFoundedOn(OpToRel(<, Nat), Nat)
  BY NatLessThanWellFounded
<1> QED BY <1>1, <1>2

LEMMA NatSetInduction ==
  ASSUME NEW S, 0 \in S, \A n \in Nat : n \in S => n + 1 \in S
  PROVE Nat \subseteq S
<1> DEFINE T == Nat \ S
<1> SUFFICES ASSUME T # {} PROVE FALSE
  OBVIOUS
<1>0. T \subseteq Nat
  OBVIOUS
<1> HIDE DEF T
<1>1. PICK x \in T : \A y \in T : ~ (<<y, x>> \in Less)
  BY <1>0, LessWF, WFMin
<1>2. x \in Nat /\ x \notin S /\ x # 0
  BY DEF T
<1>3. x - 1 \in Nat /\ x - 1 < x /\ (x - 1) + 1 = x
  BY <1>2
<1>4. x - 1 \in S
  <2> SUFFICES ASSUME x - 1 \in T PROVE FALSE
    BY <1>3 DEF T
  <2>1. <<x - 1, x>> \in Less
    BY <1>2, <1>3 DEF Less
  <2> QED BY <1>1, <2>1
<1> QED BY <1>2, <1>3, <1>4

\* A function over 0 .. n that starts at c and goes on as step says.
Steps(g, c, step, n) == g[0] = c /\ \A i \in 0 .. n - 1 : g[i + 1] = step[<<g[i], i>>]

LEMMA StepsUnique ==
  ASSUME NEW c, NEW step, NEW m \in Nat, NEW n \in Nat, m <= n,
         NEW g, NEW h, Steps(g, c, step, m), Steps(h, c, step, n)
  PROVE  g[m] = h[m]
<1> DEFINE S == {i \in Nat : i <= m => g[i] = h[i]}
<1>1. 0 \in S
  BY DEF Steps
<1>2. ASSUME NEW i \in Nat, i \in S PROVE i + 1 \in S
  <2> SUFFICES ASSUME i + 1 <= m PROVE g[i + 1] = h[i + 1]
    OBVIOUS
  <2>1. i \in 0 .. m - 1 /\ i \in 0 .. n - 1 /\ i <= m
    OBVIOUS
  <2>2. g[i] = h[i]
    BY <1>2, <2>1
  <2>3. g[i + 1] = step[<<g[i], i>>] /\ h[i + 1] = step[<<h[i], i>>]
    BY <2>1 DEF Steps
  <2> QED BY <2>2, <2>3
<1> HIDE DEF S
<1>3. m \in S
  BY <1>1, <1>2, NatSetInduction
<1> QED BY <1>3 DEF S

\* Primitive recursion defines a function.
Recurs(f, c, step) == f[0] = c /\ \A n \in Nat : f[n + 1] = step[<<f[n], n>>]

LEMMA Recursion ==
  ASSUME NEW A, NEW c \in A, NEW step \in [A \X Nat -> A]
  PROVE  \E f \in [Nat -> A] : Recurs(f, c, step)
<1> DEFINE S == {n \in Nat : \E g \in [0 .. n -> A] : Steps(g, c, step, n)}
<1>1. 0 \in S
  <2>1. [i \in 0 .. 0 |-> c] \in [0 .. 0 -> A] /\ Steps([i \in 0 .. 0 |-> c], c, step, 0)
    BY DEF Steps
  <2> QED BY <2>1
<1>2. ASSUME NEW n \in Nat, n \in S PROVE n + 1 \in S
  <2>1. PICK g \in [0 .. n -> A] : Steps(g, c, step, n)
    BY <1>2
  <2> DEFINE x == step[<<g[n], n>>]
             h == [i \in 0 .. n + 1 |-> IF i <= n THEN g[i] ELSE x]
  <2>2. x \in A
    OBVIOUS
  <2>3. h \in [0 .. n + 1 -> A]
    BY <2>2
  <2>4. (\A i \in 0 .. n : h[i] = g[i]) /\ h[n + 1] = x
    OBVIOUS
  <2> HIDE DEF h
  <2>5. ASSUME NEW i \in 0 .. n PROVE h[i + 1] = step[<<h[i], i>>]
    <3>1. CASE i = n
      BY <2>4, <3>1
    <3>2. CASE i # n
      <4>1. i \in 0 .. n - 1 /\ i + 1 \in 0 .. n
        BY <3>2
      <4> QED BY <2>1, <2>4, <4>1 DEF Steps
    <3> QED BY <3>1, <3>2
  <2>6. Steps(h, c, step, n + 1)
    <3>1. h[0] = c
      BY <2>1, <2>4 DEF Steps
    <3>2. 0 .. (n + 1) - 1 = 0 .. n
      OBVIOUS
    <3> QED BY <2>5, <3>1, <3>2 DEF Steps
  <2> QED BY <2>3, <2>6
<1> HIDE DEF S
<1>3. \A n \in Nat : n \in S
  BY <1>1, <1>2, NatSetInduction
<1> DEFINE F(n) == CHOOSE g \in [0 .. n -> A] : Steps(g, c, step, n)
           f == [n \in Nat |-> F(n)[n]]
<1>4. ASSUME NEW n \in Nat PROVE F(n) \in [0 .. n -> A] /\ Steps(F(n), c, step, n)
  <2>1. \E g \in [0 .. n -> A] : Steps(g, c, step, n)
    BY <1>3 DEF S
  <2> QED BY <2>1
<1>5. \A n \in Nat : f[n] = F(n)[n]
  OBVIOUS
<1> HIDE DEF F
<1>6. f \in [Nat -> A]
  BY <1>4
<1> HIDE DEF f
<1>7. f[0] = c
  BY <1>4, <1>5 DEF Steps
<1>8. ASSUME NEW n \in Nat PROVE f[n + 1] = step[<<f[n], n>>]
  <2>1. n + 1 \in Nat /\ n <= n + 1 /\ n \in 0 .. (n + 1) - 1
    OBVIOUS
  <2>2. Steps(F(n), c, step, n) /\ Steps(F(n + 1), c, step, n + 1)
    BY <1>4, <2>1
  <2>3. F(n)[n] = F(n + 1)[n]
    BY <2>1, <2>2, StepsUnique
  <2>4. F(n + 1)[n + 1] = step[<<F(n + 1)[n], n>>]
    BY <2>1, <2>2 DEF Steps
  <2> QED BY <1>5, <2>1, <2>3, <2>4
<1> QED BY <1>6, <1>7, <1>8 DEF Recurs

-----------------------------------------------------------------------------
\* The KAcceptedSocket lives as long as the callback, so that the next accept
\* overwrites nothing.
AcceptedInCallback == accepting # None <=> Accepted \in alive

Inv == TypeOK /\ AcceptedInCallback /\ NoLeakedDescriptor /\ OwnsWhatItUses

-----------------------------------------------------------------------------
\* At first nothing exists.
LEMMA InitInv == Init => Inv
<1> SUFFICES ASSUME Init PROVE Inv
  OBVIOUS
<1>1. TypeOK
  BY DEF Init, TypeOK, Phases
<1>2. AcceptedInCallback /\ NoLeakedDescriptor /\ OwnsWhatItUses
  BY DEF Init, AcceptedInCallback, NoLeakedDescriptor, OwnsWhatItUses
<1> QED BY <1>1, <1>2 DEF Inv

\* The methods on the buffers leave the sockets alone.
LEMMA SocketsUntouched == Inv /\ UNCHANGED sockets => Inv'
  BY DEF Inv, TypeOK, AcceptedInCallback, NoLeakedDescriptor, OwnsWhatItUses, sockets, sanityCheck

LEMMA BuffersOnly ==
  ASSUME Inv, NEW o \in Objects, InsertInteger(o) \/ ConsumeReceived(o) \/ send(o) \/ recv(o)
  PROVE  Inv'
<1>1. UNCHANGED sockets
  BY DEF InsertInteger, ConsumeReceived, send, recv, Refused, vars
<1> QED BY <1>1, SocketsUntouched

\* connect, bind and listen move a socket that stays open.
LEMMA PhaseOnly ==
  ASSUME Inv, NEW o \in Objects, connect(o) \/ bind(o) \/ listen(o)
  PROVE  Inv'
<1>1. CASE UNCHANGED sockets BY <1>1, SocketsUntouched
<1>2. CASE /\ UNCHANGED <<alive, m_socket, owner, accepting, failedClose>>
           /\ \E p, q \in Phases \ {"closed"} : InPhase(o, p) /\ Move(o, q)
  BY <1>2 DEF Inv, TypeOK, AcceptedInCallback, NoLeakedDescriptor, OwnsWhatItUses, sanityCheck,
              InPhase, Move
<1> QED
  <2>1. CASE connect(o)
    BY <2>1, <1>1, <1>2 DEF connect, Refused, vars, sockets, Phases
  <2>2. CASE bind(o)
    BY <2>2, <1>1, <1>2 DEF bind, Refused, vars, sockets, Phases
  <2>3. CASE listen(o)
    BY <2>3, <1>1, <1>2 DEF listen, Refused, vars, sockets, Phases
  <2> QED BY <2>1, <2>2, <2>3

LEMMA ConstructInv ==
  ASSUME Inv, NEW o \in Objects, Construct(o)
  PROVE  Inv'
  BY KSocketClassAssumption
  DEF Construct, Inv, TypeOK, AcceptedInCallback, NoLeakedDescriptor, OwnsWhatItUses, Objects,
      sanityCheck

\* A descriptor that two living objects held would have two owners.
LEMMA CloseInv ==
  ASSUME Inv, NEW o \in Objects, close(o)
  PROVE  Inv'
<1>1. CASE UNCHANGED vars
  BY <1>1, SocketsUntouched DEF vars, sockets
<1>2. CASE ~UNCHANGED vars
  <2> USE <1>2 DEF close, Refused, closesocket
  <2>1. TypeOK' /\ AcceptedInCallback'
    BY DEF Inv, TypeOK, AcceptedInCallback, Phases, sanityCheck
  <2>2. NoLeakedDescriptor'
    BY KSocketClassAssumption DEF Inv, TypeOK, NoLeakedDescriptor, sanityCheck
  <2>3. OwnsWhatItUses'
    BY KSocketClassAssumption DEF Inv, TypeOK, OwnsWhatItUses, sanityCheck
  <2> QED BY <2>1, <2>2, <2>3 DEF Inv
<1> QED BY <1>1, <1>2

\* An object that goes takes its descriptor with it.
LEMMA GoneInv ==
  ASSUME Inv, NEW o \in alive, DeleteImpl(o), alive' = alive \ {o},
         m_socket' = [m_socket EXCEPT ![o] = Null],
         UNCHANGED failedClose, accepting' \in {accepting, None},
         accepting' # None <=> Accepted \in alive \ {o}
  PROVE  Inv'
<1> USE DEF DeleteImpl, closesocket, sanityCheck
<1>1. TypeOK' /\ AcceptedInCallback'
  BY DEF Inv, TypeOK, AcceptedInCallback, Phases
<1>2. NoLeakedDescriptor'
  BY DEF Inv, TypeOK, NoLeakedDescriptor
<1>3. OwnsWhatItUses'
  BY DEF Inv, TypeOK, OwnsWhatItUses
<1> QED BY <1>1, <1>2, <1>3 DEF Inv

LEMMA DestroyInv ==
  ASSUME Inv, NEW o \in Objects, Destroy(o)
  PROVE  Inv'
  BY GoneInv DEF Destroy, Inv, AcceptedInCallback

LEMMA EndAcceptInv ==
  ASSUME Inv, EndAccept
  PROVE  Inv'
<1>1. Accepted \in alive BY DEF EndAccept, Inv, AcceptedInCallback
<1> QED BY <1>1, GoneInv DEF EndAccept

\* setup takes a descriptor that names nothing once the old one is closed.
LEMMA SetupInv ==
  ASSUME Inv, NEW o \in Objects, setup(o)
  PROVE  Inv'
<1> DEFINE old   == IF sanityCheck(o) THEN {m_socket[o]} ELSE {}
           freed == [fd \in Descriptors |-> IF fd \in old THEN None ELSE owner[fd]]
           reset == [fd \in Descriptors |-> IF fd \in old THEN "closed" ELSE phase[fd]]
<1>0. o \in alive /\ o # Accepted /\ UNCHANGED <<alive, accepting, failedClose>>
  BY DEF setup
<1>1. \A fd \in Descriptors : freed[fd] = None <=> reset[fd] = "closed"
  BY DEF Inv, TypeOK
<1>2. CASE /\ owner' = freed /\ phase' = reset
           /\ m_socket' = [m_socket EXCEPT ![o] = Invalid]
  <2>1. TypeOK' /\ AcceptedInCallback'
    BY <1>0, <1>1, <1>2 DEF Inv, TypeOK, AcceptedInCallback, Phases
  <2>2. NoLeakedDescriptor'
    BY <1>0, <1>2 DEF Inv, TypeOK, NoLeakedDescriptor, sanityCheck
  <2>3. OwnsWhatItUses'
    BY <1>0, <1>2, KSocketClassAssumption DEF Inv, TypeOK, OwnsWhatItUses, sanityCheck
  <2> QED BY <2>1, <2>2, <2>3 DEF Inv
<1>3. ASSUME NEW fd \in Descriptors, freed[fd] = None,
             owner' = [freed EXCEPT ![fd] = o], phase' = [reset EXCEPT ![fd] = "open"],
             m_socket' = [m_socket EXCEPT ![o] = fd]
      PROVE  Inv'
  <2>1. TypeOK' /\ AcceptedInCallback'
    BY <1>0, <1>1, <1>3, KSocketClassAssumption DEF Inv, TypeOK, AcceptedInCallback, Phases
  <2>2. NoLeakedDescriptor'
    BY <1>0, <1>3 DEF Inv, TypeOK, NoLeakedDescriptor, sanityCheck
  <2>3. OwnsWhatItUses'
    BY <1>0, <1>3, KSocketClassAssumption DEF Inv, TypeOK, OwnsWhatItUses, sanityCheck
  <2> QED BY <2>1, <2>2, <2>3 DEF Inv
<1> QED BY <1>2, <1>3 DEF setup

\* accept takes a descriptor that names nothing, for an object that is not there.
LEMMA AcceptInv ==
  ASSUME Inv, NEW o \in Objects, accept(o)
  PROVE  Inv'
<1>1. CASE UNCHANGED vars
  BY <1>1, SocketsUntouched DEF vars, sockets
<1>2. ASSUME NEW fd \in Descriptors, owner[fd] = None,
             owner' = [owner EXCEPT ![fd] = Accepted],
             phase' = [phase EXCEPT ![fd] = "connected"],
             m_socket' = [m_socket EXCEPT ![Accepted] = fd],
             accepting = None, accepting' = o, o \in Servers,
             alive' = alive \cup {Accepted}, UNCHANGED failedClose
      PROVE  Inv'
  <2>0. Accepted \in Objects /\ Accepted # None
    BY KSocketClassAssumption DEF Objects
  <2>1. TypeOK'
    BY <1>2, <2>0 DEF Inv, TypeOK, Phases
  <2>2. AcceptedInCallback'
    BY <1>2, KSocketClassAssumption DEF AcceptedInCallback, Objects
  <2>3. NoLeakedDescriptor'
    BY <1>2, <2>0 DEF Inv, TypeOK, AcceptedInCallback, NoLeakedDescriptor
  <2>4. OwnsWhatItUses'
    BY <1>2, <2>0, KSocketClassAssumption
    DEF Inv, TypeOK, AcceptedInCallback, OwnsWhatItUses, sanityCheck
  <2> QED BY <2>1, <2>2, <2>3, <2>4 DEF Inv
<1> QED BY <1>1, <1>2 DEF accept, Refused

-----------------------------------------------------------------------------
LEMMA NextInv == Inv /\ [Next]_vars => Inv'
<1> SUFFICES ASSUME Inv, [Next]_vars PROVE Inv'
  OBVIOUS
<1>1. CASE UNCHANGED vars BY <1>1, SocketsUntouched DEF vars, sockets
<1>2. CASE EndAccept BY <1>2, EndAcceptInv
<1>3. ASSUME NEW o \in Objects,
             \/ Construct(o) \/ Destroy(o) \/ setup(o) \/ connect(o) \/ bind(o) \/ listen(o)
             \/ accept(o) \/ close(o)
             \/ InsertInteger(o) \/ ConsumeReceived(o) \/ send(o) \/ recv(o)
      PROVE  Inv'
  BY <1>3, ConstructInv, DestroyInv, SetupInv, PhaseOnly, AcceptInv, CloseInv, BuffersOnly
<1> QED BY <1>1, <1>2, <1>3 DEF Next

LEMMA InvHolds == Spec => []Inv
  BY InitInv, NextInv, PTL DEF Spec

\* The sockets of the objects are what their types say, and a descriptor has a
\* socket of WSK exactly while it names one, for any objects and descriptors.
THEOREM KSocketClassTypeCorrect == Spec => []TypeOK
<1>1. Inv => TypeOK BY DEF Inv
<1> QED BY <1>1, InvHolds, PTL

\* Unless a close has failed, no object uses a descriptor that is another's or
\* closed (ksocket.cpp:138-312).
THEOREM OwnershipKept == Spec => []OwnsWhatItUses
<1>1. Inv => OwnsWhatItUses BY DEF Inv
<1> QED BY <1>1, InvHolds, PTL

\* Every open descriptor belongs to a living object that holds it, close having
\* failed or not (ksocket.cpp:39-44, 133-136).
THEOREM NothingLeaked == Spec => []NoLeakedDescriptor
<1>1. Inv => NoLeakedDescriptor BY DEF Inv
<1> QED BY <1>1, InvHolds, PTL
-----------------------------------------------------------------------------
\* Division by a number greater than the remainder.
LEMMA Division ==
  ASSUME NEW x \in Nat, NEW m \in Nat \ {0}
  PROVE  x \div m \in Nat /\ x % m \in 0 .. m - 1 /\ x = (x \div m) * m + (x % m)
  OBVIOUS

LEMMA Quotient ==
  ASSUME NEW q \in Nat, NEW m \in Nat \ {0}, NEW r \in 0 .. m - 1
  PROVE  (q * m + r) \div m = q /\ (q * m + r) % m = r
  OBVIOUS

\* The digit behind the last one is that of the number without its last digit.
LEMMA Shift ==
  ASSUME NEW a \in Nat, NEW R \in Nat \ {0}, NEW d \in 0 .. R - 1, NEW p \in Nat \ {0}
  PROVE  (a * R + d) \div (R * p) = a \div p
<1> DEFINE q == a \div p
           r == a % p
           m == R * p
<1>1. q \in Nat /\ r \in 0 .. p - 1 /\ a = q * p + r
  BY Division
<1> HIDE DEF q, r
<1>2. m \in Nat \ {0}
  OBVIOUS
<1>3. a * R + d = q * m + (r * R + d)
  <2>1. a * R = (q * p) * R + r * R
    BY <1>1
  <2>2. (q * p) * R = q * m
    BY <1>1
  <2> QED BY <1>1, <2>1, <2>2
<1>4. r * R + d \in 0 .. m - 1
  <2>1. r * R + d \in Nat
    BY <1>1
  <2>2. p = r + 1 + (p - r - 1) /\ p - r - 1 \in Nat
    BY <1>1
  <2> DEFINE k == p - r - 1
  <2>3. m = r * R + R + k * R
    BY <1>1, <2>2
  <2>4. k * R \in Nat
    BY <2>2
  <2> HIDE DEF m, k
  <2>5. r * R \in Nat
    BY <1>1
  <2> DEFINE x == r * R
             y == k * R
  <2>6. x \in Nat /\ y \in Nat /\ m = x + R + y
    BY <2>3, <2>4, <2>5
  <2> HIDE DEF x, y
  <2>7. x + d \in 0 .. m - 1
    BY <2>6
  <2> QED BY <2>7 DEF x
<1> DEFINE s == r * R + d
<1>5. s \in 0 .. m - 1 /\ a * R + d = q * m + s
  BY <1>3, <1>4
<1> HIDE DEF m, s
<1>6. (q * m + s) \div m = q
  BY <1>1, <1>2, <1>5, Quotient
<1>7. (a * R + d) \div m = a \div p
  BY <1>5, <1>6 DEF q
<1> QED BY <1>7 DEF m

LEMMA PowerValue ==
  /\ Power[0] = 1
  /\ \A n \in Nat : Power[n] \in Nat \ {0} /\ Power[n + 1] = Radix * Power[n]
<1> DEFINE step == [x \in Nat \X Nat |-> Radix * x[1]]
<1>1. Radix \in Nat \ {0}
  BY KSocketClassAssumption
<1>2. step \in [Nat \X Nat -> Nat] /\ 1 \in Nat
  BY <1>1
<1>3. \A x, n \in Nat : step[<<x, n>>] = Radix * x
  OBVIOUS
<1> HIDE DEF step
<1>4. PICK f \in [Nat -> Nat] : f[0] = 1 /\ \A n \in Nat : f[n + 1] = step[<<f[n], n>>]
  <2>1. \E f \in [Nat -> Nat] : Recurs(f, 1, step)
    BY <1>2, Recursion
  <2> QED BY <2>1 DEF Recurs
<1>5. f = [n \in Nat |-> IF n = 0 THEN 1 ELSE Radix * f[n - 1]]
  <2>1. ASSUME NEW n \in Nat, n # 0 PROVE f[n] = Radix * f[n - 1]
    <3> DEFINE k == n - 1
    <3>1. k \in Nat /\ k + 1 = n
      BY <2>1
    <3> HIDE DEF k
    <3>2. f[k + 1] = Radix * f[k]
      BY <1>3, <1>4, <3>1
    <3> QED BY <3>1, <3>2 DEF k
  <2> QED BY <1>4, <2>1
<1>6. Power = [n \in Nat |-> IF n = 0 THEN 1 ELSE Radix * Power[n - 1]]
  BY <1>5 DEF Power
<1>7. /\ Power[0] = 1
      /\ \A n \in Nat : Power[n + 1] = Radix * Power[n]
  <2>1. Power[0] = 1
    BY <1>6
  <2>2. ASSUME NEW n \in Nat PROVE Power[n + 1] = Radix * Power[n]
    <3>1. n + 1 \in Nat /\ n + 1 # 0 /\ (n + 1) - 1 = n
      OBVIOUS
    <3>2. Power[n + 1] = Radix * Power[(n + 1) - 1]
      BY <1>6, <3>1
    <3> QED BY <3>1, <3>2
  <2> QED BY <2>1, <2>2
<1> DEFINE S == {n \in Nat : Power[n] \in Nat \ {0}}
<1>8. 0 \in S
  BY <1>7
<1>9. ASSUME NEW n \in Nat, n \in S PROVE n + 1 \in S
  <2>1. Power[n + 1] = Radix * Power[n] /\ Power[n] \in Nat \ {0}
    BY <1>7, <1>9
  <2>2. \A a, b \in Nat \ {0} : a * b \in Nat \ {0}
    OBVIOUS
  <2> QED BY <1>1, <2>1, <2>2
<1> HIDE DEF S
<1>10. Nat \subseteq S
  BY <1>8, <1>9, NatSetInduction
<1> QED BY <1>7, <1>10 DEF S

\* A byte of a number.
LEMMA ByteType ==
  ASSUME NEW v \in Nat, NEW i \in Nat
  PROVE  ByteAt(v, i) \in 0 .. Radix - 1 /\ ByteAt(v, i) \in Nat
<1>1. Power[i] \in Nat \ {0} /\ Radix \in Nat \ {0}
  BY PowerValue, KSocketClassAssumption
<1>2. v \div Power[i] \in Nat
  BY <1>1, Division
<1>3. (v \div Power[i]) % Radix \in 0 .. Radix - 1
  BY <1>1, <1>2, Division
<1> QED BY <1>1, <1>3 DEF ByteAt

\* A byte appended at the low end moves the others up.
LEMMA ByteShift ==
  ASSUME NEW a \in Nat, NEW d \in 0 .. Radix - 1, NEW i \in Nat
  PROVE  /\ ByteAt(a * Radix + d, 0) = d
         /\ ByteAt(a * Radix + d, i + 1) = ByteAt(a, i)
<1>1. Radix \in Nat \ {0} /\ Power[i] \in Nat \ {0} /\ Power[0] = 1
      /\ Power[i + 1] = Radix * Power[i]
  BY PowerValue, KSocketClassAssumption
<1> DEFINE x == a * Radix + d
<1>2. x \in Nat /\ x % Radix = d
  <2>1. a * Radix \in Nat /\ d \in Nat
    BY <1>1
  <2>2. (a * Radix + d) % Radix = d
    BY <1>1, Quotient
  <2> QED BY <2>1, <2>2
<1>3. x \div Power[i + 1] = a \div Power[i]
  BY <1>1, Shift
<1> HIDE DEF x
<1>4. x \div 1 = x
  BY <1>2
<1>5. ByteAt(x, 0) = d /\ ByteAt(x, i + 1) = ByteAt(a, i)
  BY <1>1, <1>2, <1>3, <1>4 DEF ByteAt
<1> QED BY <1>5 DEF x

\* What bswap computes: after n of its steps the byte i of the result is the byte
\* n - 1 - i of the value.
LEMMA SwapSteps ==
  ASSUME NEW v \in Nat
  PROVE  \E f \in [Nat -> Nat] :
           /\ f[0] = 0
           /\ \A n \in Nat : f[n + 1] = f[n] * Radix + ByteAt(v, n)
           /\ \A n \in Nat : \A i \in 0 .. n - 1 : ByteAt(f[n], i) = ByteAt(v, n - 1 - i)
<1> DEFINE step == [x \in Nat \X Nat |-> x[1] * Radix + ByteAt(v, x[2])]
<1>0. Radix \in Nat \ {0}
  BY KSocketClassAssumption
<1>1. ASSUME NEW x \in Nat, NEW n \in Nat PROVE x * Radix + ByteAt(v, n) \in Nat
  <2>1. x * Radix \in Nat /\ ByteAt(v, n) \in Nat
    BY <1>0, ByteType
  <2> QED BY <2>1
<1>2. step \in [Nat \X Nat -> Nat] /\ 0 \in Nat
  BY <1>1
<1>3. \A x, n \in Nat : step[<<x, n>>] = x * Radix + ByteAt(v, n)
  OBVIOUS
<1> HIDE DEF step
<1>4. PICK f \in [Nat -> Nat] : f[0] = 0 /\ \A n \in Nat : f[n + 1] = step[<<f[n], n>>]
  <2>1. \E f \in [Nat -> Nat] : Recurs(f, 0, step)
    BY <1>2, Recursion
  <2> QED BY <2>1 DEF Recurs
<1>5. \A n \in Nat : f[n + 1] = f[n] * Radix + ByteAt(v, n)
  BY <1>3, <1>4
<1> DEFINE Good(n) == \A i \in 0 .. n - 1 : ByteAt(f[n], i) = ByteAt(v, n - 1 - i)
           S == {n \in Nat : Good(n)}
<1>6. 0 \in S
  OBVIOUS
<1>7. ASSUME NEW n \in Nat, n \in S PROVE n + 1 \in S
  <2> SUFFICES ASSUME NEW i \in 0 .. n
               PROVE  ByteAt(f[n + 1], i) = ByteAt(v, n - i)
    <3>1. (n + 1) - 1 = n
      OBVIOUS
    <3> QED BY <3>1
  <2>1. f[n + 1] = f[n] * Radix + ByteAt(v, n) /\ f[n] \in Nat /\ ByteAt(v, n) \in 0 .. Radix - 1
    BY <1>4, <1>5, ByteType
  <2>2. CASE i = 0
    <3>1. ByteAt(f[n + 1], 0) = ByteAt(v, n) /\ n - 0 = n
      BY <2>1, ByteShift
    <3> QED BY <2>2, <3>1
  <2>3. CASE i # 0
    <3> DEFINE k == i - 1
    <3>1. k \in Nat /\ k + 1 = i /\ k \in 0 .. n - 1 /\ n - 1 - k = n - i
      BY <2>3
    <3> HIDE DEF k
    <3>2. ByteAt(f[n + 1], k + 1) = ByteAt(f[n], k)
      BY <2>1, <3>1, ByteShift
    <3>3. ByteAt(f[n], k) = ByteAt(v, n - 1 - k)
      BY <1>7, <3>1
    <3> QED BY <3>1, <3>2, <3>3
  <2> QED BY <2>2, <2>3
<1> HIDE DEF S
<1>8. \A n \in Nat : n \in S
  BY <1>6, <1>7, NatSetInduction
<1>9. \A n \in Nat : Good(n)
  BY <1>8 DEF S
<1> QED BY <1>4, <1>5, <1>9

LEMMA SwapValue ==
  ASSUME NEW v \in Nat, NEW width \in Nat
  PROVE  \A i \in 0 .. width - 1 : ByteAt(bswap(v, width), i) = ByteAt(v, width - 1 - i)
<1>1. PICK f \in [Nat -> Nat] :
        /\ f[0] = 0
        /\ \A n \in Nat : f[n + 1] = f[n] * Radix + ByteAt(v, n)
        /\ \A n \in Nat : \A i \in 0 .. n - 1 : ByteAt(f[n], i) = ByteAt(v, n - 1 - i)
  BY SwapSteps
<1> DEFINE Net(g) == g = [i \in 0 .. width |->
                            IF i = 0 THEN 0 ELSE g[i - 1] * Radix + ByteAt(v, i - 1)]
           h == [i \in 0 .. width |-> f[i]]
           net == CHOOSE g : Net(g)
<1>2. \A n \in Nat : n # 0 => f[n] = f[n - 1] * Radix + ByteAt(v, n - 1)
  <2> TAKE n \in Nat
  <2> HAVE n # 0
  <2> DEFINE k == n - 1
  <2>1. k \in Nat /\ k + 1 = n
    OBVIOUS
  <2> HIDE DEF k
  <2>2. f[k + 1] = f[k] * Radix + ByteAt(v, k)
    BY <1>1, <2>1
  <2> QED BY <2>1, <2>2 DEF k
<1>3. Net(h)
  <2>1. h = [i \in 0 .. width |-> IF i = 0 THEN 0 ELSE f[i - 1] * Radix + ByteAt(v, i - 1)]
    BY <1>1, <1>2
  <2>2. \A i \in 0 .. width : i # 0 => i - 1 \in 0 .. width
    OBVIOUS
  <2>3. \A i \in 0 .. width : h[i] = f[i]
    OBVIOUS
  <2>4. \A i \in 0 .. width : i # 0 => h[i - 1] = f[i - 1]
    BY <2>2, <2>3
  <2> DEFINE H == h
  <2>5. H = [i \in 0 .. width |-> IF i = 0 THEN 0 ELSE f[i - 1] * Radix + ByteAt(v, i - 1)]
    BY <2>1
  <2>6. \A i \in 0 .. width : i # 0 => H[i - 1] = f[i - 1]
    BY <2>4
  <2> HIDE DEF H
  <2>7. H = [i \in 0 .. width |-> IF i = 0 THEN 0 ELSE H[i - 1] * Radix + ByteAt(v, i - 1)]
    BY <2>5, <2>6
  <2> QED BY <2>7 DEF H
<1>4. Net(net)
  BY <1>3
<1>5. bswap(v, width) = net[width]
  BY DEF bswap
<1> DEFINE S == {i \in Nat : i <= width => net[i] = f[i]}
<1> HIDE DEF net
<1>6. 0 \in S
  BY <1>1, <1>4
<1>7. ASSUME NEW n \in Nat, n \in S PROVE n + 1 \in S
  <2> SUFFICES ASSUME n + 1 <= width PROVE net[n + 1] = f[n + 1]
    OBVIOUS
  <2>1. n + 1 \in 0 .. width /\ n + 1 # 0 /\ (n + 1) - 1 = n /\ n <= width
    OBVIOUS
  <2>2. net[n + 1] = net[(n + 1) - 1] * Radix + ByteAt(v, (n + 1) - 1)
    BY <1>4, <2>1
  <2>3. net[n] = f[n]
    BY <1>7, <2>1
  <2> QED BY <1>1, <2>1, <2>2, <2>3
<1> HIDE DEF S
<1>8. width \in S
  BY <1>6, <1>7, NatSetInduction
<1>9. net[width] = f[width]
  BY <1>8 DEF S
<1> QED BY <1>1, <1>5, <1>9

\* What insert_u16, insert_u32 and insert_u64 append to the buffer, the bytes of
\* the reversed value from the low end on, is the value in network order
\* (ksocket.cpp:65-101, utils.c:3-17).
THEOREM InsertedInNetworkOrder ==
  ASSUME NEW v \in Nat, NEW width \in Nat
  PROVE  /\ InsertedBytes(v, width) = BigEndian(v, width)
         /\ BigEndian(v, width) \in Seq(Nat)
<1>1. ASSUME NEW i \in 1 .. width
      PROVE  ByteAt(bswap(v, width), i - 1) = ByteAt(v, width - i)
  <2>1. i - 1 \in 0 .. width - 1 /\ width - 1 - (i - 1) = width - i
    OBVIOUS
  <2> QED BY <2>1, SwapValue
<1>2. ASSUME NEW i \in 1 .. width PROVE ByteAt(v, width - i) \in Nat
  <2>1. width - i \in Nat
    OBVIOUS
  <2> QED BY <2>1, ByteType
<1>3. InsertedBytes(v, width) = BigEndian(v, width)
  BY <1>1 DEF InsertedBytes, BigEndian
<1> QED BY <1>2, <1>3 DEF BigEndian

-----------------------------------------------------------------------------
StreamTypes ==
  /\ sendBuffer \in [Objects -> Seq(Nat)] /\ inserted \in [Objects -> Seq(Nat)]
  /\ wire \in [Objects -> Seq(Nat)] /\ recvBuffer \in [Objects -> Seq(Nat)]
  /\ delivered \in [Objects -> Nat]

\* ReceivedInOrder of a buffer, of how many bytes were delivered, and of whether
\* every recv returned some.
Data(buffer) == {i \in DOMAIN buffer : buffer[i] # 0}

Ordered(buffer, count) ==
  \A i \in Data(buffer) :
    \/ buffer[i] = count /\ \A j \in Data(buffer) : j <= i
    \/ \E j \in Data(buffer) : /\ j > i /\ buffer[j] = buffer[i] + 1
                               /\ \A k \in Data(buffer) : k <= i \/ k >= j

StreamInv == StreamTypes /\ StreamsIntact

LEMMA ReceivedIsOrdered ==
  ASSUME NEW o
  PROVE  ReceivedInOrder(o) <=> /\ Ordered(recvBuffer[o], delivered[o])
                                /\ o \notin dry => Data(recvBuffer[o]) = DOMAIN recvBuffer[o]
  BY DEF ReceivedInOrder, Ordered, Data

LEMMA OrderedEmpty == Data(<<>>) = DOMAIN <<>> /\ \A count : Ordered(<<>>, count)
  BY DEF Ordered, Data

\* The elements of a concatenation.
LEMMA Concat ==
  ASSUME NEW s \in Seq(Nat), NEW t \in Seq(Nat)
  PROVE  /\ s \o t \in Seq(Nat) /\ Len(s \o t) = Len(s) + Len(t)
         /\ \A i \in 1 .. Len(s) : (s \o t)[i] = s[i]
         /\ \A i \in 1 .. Len(t) : (s \o t)[Len(s) + i] = t[i]
<1>1. /\ s \o t \in Seq(Nat) /\ Len(s \o t) = Len(s) + Len(t)
      /\ \A i \in 1 .. Len(s) + Len(t) :
           (s \o t)[i] = IF i <= Len(s) THEN s[i] ELSE t[i - Len(s)]
  BY ConcatProperties
<1>2. Len(s) \in Nat /\ Len(t) \in Nat
  OBVIOUS
<1>3. ASSUME NEW i \in 1 .. Len(s) PROVE (s \o t)[i] = s[i]
  BY <1>1, <1>2
<1>4. ASSUME NEW i \in 1 .. Len(t) PROVE (s \o t)[Len(s) + i] = t[i]
  <2> DEFINE j == Len(s) + i
  <2>1. j \in 1 .. Len(s) + Len(t) /\ ~ (j <= Len(s)) /\ j - Len(s) = i
    BY <1>2
  <2> HIDE DEF j
  <2>2. (s \o t)[j] = t[i]
    BY <1>1, <2>1
  <2> QED BY <2>2 DEF j
<1> QED BY <1>1, <1>3, <1>4

\* The bytes that arrive continue those that are there.
LEMMA OrderedArriving ==
  ASSUME NEW buffer \in Seq(Nat), NEW count \in Nat, Ordered(buffer, count),
         NEW n \in Nat \ {0}, NEW more, more = [i \in 1 .. n |-> count + i]
  PROVE  /\ Ordered(buffer \o more, count + n)
         /\ Data(buffer) = DOMAIN buffer => Data(buffer \o more) = DOMAIN (buffer \o more)
<1> DEFINE b == buffer \o more
           l == Len(buffer)
<1>1. more \in Seq(Nat) /\ Len(more) = n /\ \A i \in 1 .. n : more[i] = count + i
  OBVIOUS
<1>2. /\ b \in Seq(Nat) /\ Len(b) = l + n /\ l \in Nat
      /\ \A i \in 1 .. l : b[i] = buffer[i]
      /\ \A i \in 1 .. n : b[l + i] = count + i
  BY <1>1, Concat
<1> HIDE DEF b, l
<1>3. DOMAIN b = 1 .. l + n /\ DOMAIN buffer = 1 .. l
  BY <1>2 DEF l
<1>4. ASSUME NEW i \in 1 .. l + n
      PROVE  i \in 1 .. l \/ \E m \in 1 .. n : i = l + m
  <2>1. CASE i <= l
    BY <1>2, <2>1
  <2>2. CASE ~ (i <= l)
    <3>1. i - l \in 1 .. n /\ i = l + (i - l)
      BY <1>2, <2>2
    <3> QED BY <3>1
  <2> QED BY <2>1, <2>2
<1>5. /\ \A i \in 1 .. l : i \in 1 .. l + n /\ (i \in Data(b) <=> i \in Data(buffer))
      /\ \A m \in 1 .. n : l + m \in Data(b)
      /\ Data(b) \subseteq 1 .. l + n
  <2>1. ASSUME NEW m \in 1 .. n PROVE l + m \in 1 .. l + n /\ b[l + m] # 0
    <3>1. l + m \in 1 .. l + n /\ count + m # 0
      BY <1>2
    <3>2. b[l + m] = count + m
      BY <1>2
    <3> QED BY <3>1, <3>2
  <2>2. \A i \in 1 .. l : i \in 1 .. l + n
    BY <1>2
  <2> QED BY <1>2, <1>3, <2>1, <2>2 DEF Data
<1>6. ASSUME NEW m \in 1 .. n
      PROVE  \/ b[l + m] = count + n /\ \A j \in Data(b) : j <= l + m
             \/ \E j \in Data(b) : /\ j > l + m /\ b[j] = b[l + m] + 1
                                   /\ \A k \in Data(b) : k <= l + m \/ k >= j
  <2>1. CASE m = n
    <3>1. \A j \in 1 .. l + n : j <= l + m
      BY <2>1
    <3> QED BY <1>2, <1>5, <2>1, <3>1
  <2>2. CASE m # n
    <3> DEFINE q == m + 1
               j == l + q
    <3>1. q \in 1 .. n /\ j > l + m /\ \A k \in 1 .. l + n : k <= l + m \/ k >= j
      BY <1>2, <2>2
    <3>2. b[l + m] = count + m
      BY <1>2
    <3>3. count + q = count + m + 1
      OBVIOUS
    <3> HIDE DEF q
    <3>4. b[j] = count + q /\ j \in Data(b)
      BY <1>2, <1>5, <3>1
    <3> HIDE DEF j
    <3> QED BY <1>5, <3>1, <3>2, <3>3, <3>4
  <2> QED BY <2>1, <2>2
<1>7. ASSUME NEW i \in 1 .. l, i \in Data(b)
      PROVE  \E j \in Data(b) : /\ j > i /\ b[j] = b[i] + 1
                                /\ \A k \in Data(b) : k <= i \/ k >= j
  <2>1. i \in Data(buffer) /\ b[i] = buffer[i]
    BY <1>2, <1>5, <1>7
  <2>2. CASE buffer[i] = count /\ \A j \in Data(buffer) : j <= i
    <3> DEFINE j == l + 1
    <3>1. 1 \in 1 .. n /\ j > i
      BY <1>2
    <3>2. b[l + 1] = count + 1 /\ l + 1 \in Data(b)
      BY <1>2, <1>5, <3>1
    <3>3. ASSUME NEW k \in Data(b) PROVE k <= i \/ k >= j
      <4>1. CASE k \in 1 .. l
        BY <1>5, <2>2, <4>1
      <4>2. CASE k \notin 1 .. l
        <5>1. PICK m \in 1 .. n : k = l + m
          BY <1>4, <1>5, <4>2
        <5> QED BY <1>2, <5>1
      <4> QED BY <4>1, <4>2
    <3>4. b[j] = b[i] + 1 /\ j \in Data(b)
      BY <2>1, <2>2, <3>2
    <3> HIDE DEF j
    <3> QED BY <3>1, <3>3, <3>4
  <2>3. CASE \E j \in Data(buffer) : /\ j > i /\ buffer[j] = buffer[i] + 1
                                     /\ \A k \in Data(buffer) : k <= i \/ k >= j
    <3>1. PICK j \in Data(buffer) : /\ j > i /\ buffer[j] = buffer[i] + 1
                                    /\ \A k \in Data(buffer) : k <= i \/ k >= j
      BY <2>3
    <3>2. j \in 1 .. l /\ j \in Data(b) /\ b[j] = b[i] + 1
      <4>1. j \in 1 .. l
        BY <1>3 DEF Data
      <4> QED BY <1>2, <1>5, <2>1, <3>1, <4>1
    <3>3. ASSUME NEW k \in Data(b) PROVE k <= i \/ k >= j
      <4>1. CASE k \in 1 .. l
        BY <1>5, <3>1, <4>1
      <4>2. CASE k \notin 1 .. l
        <5>1. PICK m \in 1 .. n : k = l + m
          BY <1>4, <1>5, <4>2
        <5> QED BY <1>2, <3>2, <5>1
      <4> QED BY <4>1, <4>2
    <3> QED BY <3>1, <3>2, <3>3
  <2> QED BY <2>1, <2>2, <2>3 DEF Ordered
<1>8. Ordered(b, count + n)
  <2> SUFFICES ASSUME NEW i \in Data(b)
               PROVE  \/ b[i] = count + n /\ \A j \in Data(b) : j <= i
                      \/ \E j \in Data(b) : /\ j > i /\ b[j] = b[i] + 1
                                            /\ \A k \in Data(b) : k <= i \/ k >= j
    BY DEF Ordered
  <2>1. i \in 1 .. l \/ \E m \in 1 .. n : i = l + m
    BY <1>4, <1>5
  <2>2. CASE i \in 1 .. l
    BY <1>7, <2>2
  <2>3. ASSUME NEW m \in 1 .. n, i = l + m
        PROVE  \/ b[i] = count + n /\ \A j \in Data(b) : j <= i
               \/ \E j \in Data(b) : /\ j > i /\ b[j] = b[i] + 1
                                     /\ \A k \in Data(b) : k <= i \/ k >= j
    BY ONLY <1>6, <2>3, Zenon
  <2> QED BY <2>1, <2>2, <2>3
<1>9. Data(buffer) = DOMAIN buffer => Data(b) = DOMAIN b
  <2> HAVE Data(buffer) = DOMAIN buffer
  <2>1. ASSUME NEW i \in 1 .. l + n PROVE i \in Data(b)
    <3>1. CASE i \in 1 .. l
      BY <1>3, <1>5, <3>1
    <3>2. CASE \E m \in 1 .. n : i = l + m
      BY <1>5, <3>2
    <3> QED BY <1>4, <3>1, <3>2
  <2> QED BY <1>3, <1>5, <2>1
<1> QED BY <1>8, <1>9 DEF b

\* The zeros that a recv without bytes leaves are not among the data.
LEMMA OrderedZeros ==
  ASSUME NEW buffer \in Seq(Nat), NEW count, Ordered(buffer, count),
         NEW n \in Nat, NEW zeros, zeros = [i \in 1 .. n |-> 0]
  PROVE  buffer \o zeros \in Seq(Nat) /\ Ordered(buffer \o zeros, count)
<1> DEFINE b == buffer \o zeros
           l == Len(buffer)
<1>1. zeros \in Seq(Nat) /\ Len(zeros) = n /\ \A i \in 1 .. n : zeros[i] = 0
  OBVIOUS
<1>2. /\ b \in Seq(Nat) /\ Len(b) = l + n /\ l \in Nat
      /\ \A i \in 1 .. l : b[i] = buffer[i]
      /\ \A i \in 1 .. n : b[l + i] = 0
  BY <1>1, Concat
<1>3. DOMAIN buffer = 1 .. l
  OBVIOUS
<1> HIDE DEF b, l
<1>4. DOMAIN b = 1 .. l + n
  BY <1>2
<1>5. ASSUME NEW i \in 1 .. l + n, b[i] # 0 PROVE i \in 1 .. l
  <2> SUFFICES ASSUME ~ (i <= l) PROVE FALSE
    BY <1>2
  <2> DEFINE m == i - l
  <2>1. m \in 1 .. n /\ l + m = i
    BY <1>2
  <2> HIDE DEF m
  <2>2. b[l + m] = 0
    BY <1>2, <2>1
  <2> QED BY <1>5, <2>1, <2>2
<1>6. \A i \in 1 .. l : i \in 1 .. l + n
  BY <1>2
<1>7. Data(b) = Data(buffer) /\ \A i \in Data(buffer) : b[i] = buffer[i]
  BY <1>2, <1>3, <1>4, <1>5, <1>6 DEF Data
<1>8. Ordered(b, count)
  BY <1>7 DEF Ordered
<1> QED BY <1>2, <1>8 DEF b

\* Consuming from the front leaves the end as it is.
LEMMA OrderedRest ==
  ASSUME NEW buffer \in Seq(Nat), NEW count, Ordered(buffer, count), NEW n \in 0 .. Len(buffer)
  PROVE  /\ Rest(buffer, n) \in Seq(Nat) /\ Ordered(Rest(buffer, n), count)
         /\ Data(buffer) = DOMAIN buffer => Data(Rest(buffer, n)) = DOMAIN Rest(buffer, n)
<1> DEFINE c == Rest(buffer, n)
           l == Len(buffer)
<1>1. /\ c \in Seq(Nat) /\ Len(c) = l - n /\ l \in Nat /\ n \in Nat /\ n <= l
      /\ \A i \in 1 .. l - n : c[i] = buffer[n + i]
  BY RestType
<1>2. DOMAIN buffer = 1 .. l
  OBVIOUS
<1> HIDE DEF c, l
<1>3. DOMAIN c = 1 .. l - n
  BY <1>1
<1>4. ASSUME NEW i \in 1 .. l - n
      PROVE  n + i \in 1 .. l /\ c[i] = buffer[n + i] /\ (i \in Data(c) <=> n + i \in Data(buffer))
  <2>1. n + i \in 1 .. l /\ c[i] = buffer[n + i]
    BY <1>1
  <2> QED BY <1>2, <1>3, <2>1 DEF Data
<1>5. ASSUME NEW i \in Data(c)
      PROVE  \/ c[i] = count /\ \A j \in Data(c) : j <= i
             \/ \E j \in Data(c) : /\ j > i /\ c[j] = c[i] + 1
                                   /\ \A k \in Data(c) : k <= i \/ k >= j
  <2>1. \A k \in Data(c) : k \in 1 .. l - n /\ n + k \in Data(buffer)
    BY <1>3, <1>4 DEF Data
  <2>2. i \in 1 .. l - n /\ n + i \in Data(buffer) /\ c[i] = buffer[n + i]
    BY <1>4, <2>1
  <2> DEFINE p == n + i
  <2>3. p \in Data(buffer) /\ c[i] = buffer[p]
    BY <2>2
  <2>4. CASE buffer[p] = count /\ \A j \in Data(buffer) : j <= p
    <3>1. ASSUME NEW j \in Data(c) PROVE j <= i
      <4>1. n + j <= n + i /\ j \in Nat
        BY <2>1, <2>4
      <4> QED BY <1>1, <2>2, <4>1
    <3> QED BY <2>3, <2>4, <3>1
  <2>5. ASSUME NEW q \in Data(buffer), q > p, buffer[q] = buffer[p] + 1,
               \A k \in Data(buffer) : k <= p \/ k >= q
        PROVE  \E j \in Data(c) : /\ j > i /\ c[j] = c[i] + 1
                                  /\ \A k \in Data(c) : k <= i \/ k >= j
    <3> DEFINE j == q - n
    <3>1. q \in 1 .. l
      BY <1>2 DEF Data
    <3>2. j \in 1 .. l - n /\ n + j = q /\ j > i
      BY <1>1, <2>2, <2>5, <3>1
    <3> HIDE DEF j
    <3>3. j \in Data(c) /\ c[j] = buffer[q]
      BY <1>4, <3>2
    <3>4. ASSUME NEW k \in Data(c) PROVE k <= i \/ k >= j
      <4>1. k \in 1 .. l - n /\ (n + k <= n + i \/ n + k >= q)
        BY <2>1, <2>5
      <4> QED BY <1>1, <2>2, <3>2, <4>1
    <3> QED BY <2>3, <2>5, <3>2, <3>3, <3>4
  <2> HIDE DEF p
  <2> QED BY <2>3, <2>4, <2>5 DEF Ordered
<1>6. Ordered(c, count)
  BY <1>5 DEF Ordered
<1>7. Data(buffer) = DOMAIN buffer => Data(c) = DOMAIN c
  <2> HAVE Data(buffer) = DOMAIN buffer
  <2>1. \A i \in 1 .. l - n : i \in Data(c)
    BY <1>2, <1>4
  <2> QED BY <1>3, <2>1 DEF Data
<1> QED BY <1>1, <1>6, <1>7 DEF c

-----------------------------------------------------------------------------
LEMMA StreamInit == Init => StreamInv
<1> SUFFICES ASSUME Init PROVE StreamInv
  OBVIOUS
<1>1. <<>> \in Seq(Nat) /\ <<>> \o <<>> = <<>>
  BY ConcatEmptySeq
<1>2. StreamTypes
  BY <1>1 DEF Init, StreamTypes
<1>3. ASSUME NEW o \in Objects PROVE SentInOrder(o) /\ ReceivedInOrder(o)
  BY <1>1, OrderedEmpty, ReceivedIsOrdered DEF Init, SentInOrder
<1> QED BY <1>2, <1>3 DEF StreamInv, StreamsIntact

\* A method on the send buffer of one object, given that what it leaves is in order.
LEMMA SendSide ==
  ASSUME StreamInv, NEW o \in Objects, NEW s \in Seq(Nat), NEW i \in Seq(Nat), NEW w \in Seq(Nat),
         sendBuffer' = [sendBuffer EXCEPT ![o] = s], inserted' = [inserted EXCEPT ![o] = i],
         wire' = [wire EXCEPT ![o] = w], UNCHANGED receiving, w \o s = i
  PROVE  StreamInv'
<1> USE DEF StreamInv, StreamTypes, receiving
<1>1. StreamTypes'
  OBVIOUS
<1>2. ASSUME NEW p \in Objects PROVE SentInOrder(p)' /\ ReceivedInOrder(p)'
  <2>1. ReceivedInOrder(p)'
    BY DEF StreamsIntact, ReceivedInOrder
  <2>2. wire'[p] \o sendBuffer'[p] = inserted'[p]
    <3>1. CASE p = o
      BY <3>1
    <3>2. CASE p # o
      <4>1. wire'[p] = wire[p] /\ sendBuffer'[p] = sendBuffer[p] /\ inserted'[p] = inserted[p]
        BY <3>2
      <4> QED BY <4>1 DEF StreamsIntact, SentInOrder
    <3> QED BY <3>1, <3>2
  <2> QED BY <2>1, <2>2 DEF SentInOrder
<1> QED BY <1>1, <1>2 DEF StreamsIntact

\* The same for the receive buffer.
LEMMA ReceiveSide ==
  ASSUME StreamInv, NEW o \in Objects, NEW b \in Seq(Nat), NEW n \in Nat,
         recvBuffer' = [recvBuffer EXCEPT ![o] = b], delivered' = [delivered EXCEPT ![o] = n],
         dry' = dry \/ dry' = dry \cup {o}, UNCHANGED sending,
         Ordered(b, n), o \notin dry' => Data(b) = DOMAIN b
  PROVE  StreamInv'
<1> USE DEF StreamInv, StreamTypes, sending
<1>1. StreamTypes'
  OBVIOUS
<1>2. ASSUME NEW p \in Objects PROVE SentInOrder(p)' /\ ReceivedInOrder(p)'
  <2>1. SentInOrder(p)'
    BY DEF StreamsIntact, SentInOrder
  <2>2. /\ Ordered(recvBuffer'[p], delivered'[p])
        /\ p \notin dry' => Data(recvBuffer'[p]) = DOMAIN recvBuffer'[p]
    <3>1. CASE p = o
      <4>1. recvBuffer'[p] = b /\ delivered'[p] = n
        BY <3>1
      <4> QED BY <3>1, <4>1
    <3>2. CASE p # o
      <4>1. recvBuffer'[p] = recvBuffer[p] /\ delivered'[p] = delivered[p]
            /\ (p \in dry' <=> p \in dry)
        BY <3>2
      <4> QED BY <4>1, ReceivedIsOrdered DEF StreamsIntact
    <3> QED BY <3>1, <3>2
  <2>3. ReceivedInOrder(p)'
    BY <2>2 DEF ReceivedInOrder, Ordered, Data
  <2> QED BY <2>1, <2>3
<1> QED BY <1>1, <1>2 DEF StreamsIntact

LEMMA InsertStream ==
  ASSUME StreamInv, NEW o \in Objects, InsertInteger(o)
  PROVE  StreamInv'
<1> DEFINE s == sendBuffer[o]
           i == inserted[o]
           w == wire[o]
<1>1. s \in Seq(Nat) /\ i \in Seq(Nat) /\ w \in Seq(Nat) /\ w \o s = i
  BY DEF StreamInv, StreamTypes, StreamsIntact, SentInOrder
<1>2. PICK width \in Widths, v \in Values :
        \/ /\ sendBuffer' = [sendBuffer EXCEPT ![o] = s \o InsertedBytes(v, width)]
           /\ inserted' = [inserted EXCEPT ![o] = i \o BigEndian(v, width)]
        \/ /\ sendBuffer' = [sendBuffer EXCEPT ![o] = InsertedBytes(v, width) \o s]
           /\ inserted' = [inserted EXCEPT
                ![o] = w \o BigEndian(v, width) \o SubSeq(i, Len(w) + 1, Len(i))]
  BY DEF InsertInteger
<1> DEFINE x == BigEndian(v, width)
<1>3. v \in Nat /\ width \in Nat
  BY KSocketClassAssumption
<1>4. InsertedBytes(v, width) = x /\ x \in Seq(Nat)
  BY <1>3, InsertedInNetworkOrder
<1>5. wire' = [wire EXCEPT ![o] = w] /\ UNCHANGED receiving
  BY DEF InsertInteger, StreamInv, StreamTypes
<1> HIDE DEF s, i, w, x
<1>6. SubSeq(i, Len(w) + 1, Len(i)) = s
  <2>1. Len(w) \in 0 .. Len(w) /\ Len(w) \in Nat /\ Len(s) \in Nat
    BY <1>1
  <2>2. Rest(w \o s, Len(w)) = Rest(w, Len(w)) \o s
    BY <1>1, <2>1, RestOfConcat
  <2>3. Rest(w, Len(w)) = <<>>
    <3>1. Rest(w, Len(w)) \in Seq(Nat) /\ Len(Rest(w, Len(w))) = 0
      <4>1. Len(w) - Len(w) = 0
        BY <2>1
      <4> QED BY <1>1, <2>1, <4>1, RestType
    <3> QED BY <3>1, EmptySeq
  <2>4. <<>> \o s = s
    BY <1>1, ConcatEmptySeq
  <2>5. Rest(w \o s, Len(w)) = s
    BY ONLY <2>2, <2>3, <2>4, Zenon
  <2> QED BY <1>1, <2>5 DEF Rest
<1>7. CASE /\ sendBuffer' = [sendBuffer EXCEPT ![o] = s \o x]
           /\ inserted' = [inserted EXCEPT ![o] = i \o x]
  <2>1. s \o x \in Seq(Nat) /\ i \o x \in Seq(Nat)
    BY <1>1, <1>4
  <2>2. Regroups(w, s, x)
    BY <1>1, <1>4, Regroup
  <2>3. w \o (s \o x) = i \o x
    BY ONLY <1>1, <2>2, Zenon DEF Regroups
  <2> QED BY <1>1, <1>5, <1>7, <2>1, <2>3, SendSide
<1>8. CASE /\ sendBuffer' = [sendBuffer EXCEPT ![o] = x \o s]
           /\ inserted' = [inserted EXCEPT ![o] = (w \o x) \o s]
  <2>1. x \o s \in Seq(Nat) /\ (w \o x) \o s \in Seq(Nat)
    BY <1>1, <1>4
  <2>2. Regroups(w, x, s)
    BY <1>1, <1>4, Regroup
  <2>3. w \o (x \o s) = (w \o x) \o s
    BY ONLY <2>2, Zenon DEF Regroups
  <2> QED BY <1>1, <1>5, <1>8, <2>1, <2>3, SendSide
<1> QED BY <1>2, <1>4, <1>6, <1>7, <1>8 DEF x

LEMMA SendStream ==
  ASSUME StreamInv, NEW o \in Objects, send(o), ~ UNCHANGED vars
  PROVE  StreamInv'
<1> DEFINE s == sendBuffer[o]
           i == inserted[o]
           w == wire[o]
<1>1. s \in Seq(Nat) /\ i \in Seq(Nat) /\ w \in Seq(Nat) /\ w \o s = i
  BY DEF StreamInv, StreamTypes, StreamsIntact, SentInOrder
<1>2. PICK n \in 1 .. Len(s) :
        /\ wire' = [wire EXCEPT ![o] = w \o SubSeq(s, 1, n)]
        /\ sendBuffer' = [sendBuffer EXCEPT ![o] = Rest(s, n)]
  BY DEF send, Refused, Rest
<1>3. inserted' = [inserted EXCEPT ![o] = i] /\ UNCHANGED receiving
  BY DEF send, Refused, StreamInv, StreamTypes
<1> HIDE DEF s, i, w
<1>4. n \in 0 .. Len(s)
  OBVIOUS
<1>5. SubSeq(s, 1, n) \in Seq(Nat) /\ Rest(s, n) \in Seq(Nat)
  BY <1>1, <1>4, FirstType, RestType
<1>6. w \o SubSeq(s, 1, n) \in Seq(Nat)
  BY <1>1, <1>5
<1>7. (w \o SubSeq(s, 1, n)) \o Rest(s, n) = w \o s
  BY <1>1, <1>4, MoveFirst
<1>8. (w \o SubSeq(s, 1, n)) \o Rest(s, n) = i
  BY ONLY <1>1, <1>7, Zenon
<1> QED BY <1>1, <1>2, <1>3, <1>5, <1>6, <1>8, SendSide

LEMMA RecvStream ==
  ASSUME StreamInv, NEW o \in Objects, recv(o), ~ UNCHANGED vars
  PROVE  StreamInv'
<1> DEFINE b == recvBuffer[o]
           d == delivered[o]
<1>1. b \in Seq(Nat) /\ d \in Nat /\ UNCHANGED sending
  BY DEF StreamInv, StreamTypes, recv, Refused
<1>2. Ordered(b, d) /\ (o \notin dry => Data(b) = DOMAIN b)
  BY ReceivedIsOrdered DEF StreamInv, StreamsIntact
<1>3. CASE \E max \in RecvSizes : \E n \in 1 .. max :
             /\ recvBuffer' = [recvBuffer EXCEPT ![o] = b \o Arriving(o, n)]
             /\ delivered' = [delivered EXCEPT ![o] = d + n]
             /\ UNCHANGED dry
  <2>0. PICK max \in RecvSizes : \E n \in 1 .. max :
             /\ recvBuffer' = [recvBuffer EXCEPT ![o] = b \o Arriving(o, n)]
             /\ delivered' = [delivered EXCEPT ![o] = d + n]
             /\ UNCHANGED dry
    BY <1>3
  <2>1. PICK n \in 1 .. max :
             /\ recvBuffer' = [recvBuffer EXCEPT ![o] = b \o Arriving(o, n)]
             /\ delivered' = [delivered EXCEPT ![o] = d + n]
             /\ UNCHANGED dry
    BY <2>0
  <2>2. n \in Nat \ {0}
    BY KSocketClassAssumption
  <2>3. Arriving(o, n) = [i \in 1 .. n |-> d + i]
    BY DEF Arriving
  <2> DEFINE x == Arriving(o, n)
  <2>4. x \in Seq(Nat)
    BY <1>1, <2>2, <2>3
  <2> HIDE DEF b, d, x
  <2>5. b \o x \in Seq(Nat) /\ d + n \in Nat
    BY <1>1, <2>2, <2>4
  <2>6. /\ Ordered(b \o x, d + n)
        /\ Data(b) = DOMAIN b => Data(b \o x) = DOMAIN (b \o x)
    BY <1>1, <1>2, <2>2, <2>3, OrderedArriving DEF x
  <2> QED BY <1>1, <1>2, <2>1, <2>5, <2>6, ReceiveSide DEF x
<1>4. CASE /\ \E max \in RecvSizes : recvBuffer' = [recvBuffer EXCEPT ![o] = b \o Zeros(max)]
           /\ dry' = dry \cup {o} /\ UNCHANGED delivered
  <2>1. PICK max \in RecvSizes : recvBuffer' = [recvBuffer EXCEPT ![o] = b \o Zeros(max)]
    BY <1>4
  <2>2. max \in Nat /\ Zeros(max) = [i \in 1 .. max |-> 0]
    BY KSocketClassAssumption DEF Zeros
  <2>3. delivered' = [delivered EXCEPT ![o] = d]
    BY <1>4 DEF StreamInv, StreamTypes
  <2> HIDE DEF b, d
  <2>4. b \o Zeros(max) \in Seq(Nat) /\ Ordered(b \o Zeros(max), d)
    BY <1>1, <1>2, <2>2, OrderedZeros
  <2> QED BY <1>1, <1>4, <2>1, <2>3, <2>4, ReceiveSide
<1> QED BY <1>3, <1>4 DEF recv, Refused

LEMMA ConsumeStream ==
  ASSUME StreamInv, NEW o \in Objects, ConsumeReceived(o)
  PROVE  StreamInv'
<1> DEFINE b == recvBuffer[o]
           d == delivered[o]
<1>1. b \in Seq(Nat) /\ d \in Nat /\ UNCHANGED <<sending, dry>>
      /\ delivered' = [delivered EXCEPT ![o] = d]
  BY DEF StreamInv, StreamTypes, ConsumeReceived
<1>2. Ordered(b, d) /\ (o \notin dry => Data(b) = DOMAIN b)
  BY ReceivedIsOrdered DEF StreamInv, StreamsIntact
<1>3. PICK amount \in 0 .. Len(b) : recvBuffer' = [recvBuffer EXCEPT ![o] = consume(b, amount)]
  BY DEF ConsumeReceived
<1> HIDE DEF b, d
<1>4. /\ consume(b, amount) \in Seq(Nat) /\ Ordered(consume(b, amount), d)
      /\ Data(b) = DOMAIN b => Data(consume(b, amount)) = DOMAIN consume(b, amount)
  <2>1. CASE consume(b, amount) = <<>>
    <3>1. <<>> \in Seq(Nat)
      OBVIOUS
    <3> QED BY <2>1, <3>1, OrderedEmpty
  <2>2. CASE consume(b, amount) = Rest(b, amount)
    BY <1>1, <1>2, <2>2, OrderedRest
  <2> QED BY <2>1, <2>2 DEF consume, Rest
<1> QED BY <1>1, <1>2, <1>3, <1>4, ReceiveSide

LEMMA DropStream ==
  ASSUME StreamInv, NEW o \in Objects, DropBuffers(o)
  PROVE  StreamInv'
<1> USE DEF StreamInv, StreamTypes, DropBuffers
<1>1. <<>> \in Seq(Nat) /\ <<>> \o <<>> = <<>>
  BY ConcatEmptySeq
<1>2. StreamTypes'
  BY <1>1
<1>3. ASSUME NEW p \in Objects PROVE SentInOrder(p)' /\ ReceivedInOrder(p)'
  <2>1. CASE p = o
    <3>1. /\ wire'[p] = <<>> /\ sendBuffer'[p] = <<>> /\ inserted'[p] = <<>>
          /\ recvBuffer'[p] = <<>>
      BY <2>1
    <3>2. SentInOrder(p)'
      BY <1>1, <3>1 DEF SentInOrder
    <3>3. ReceivedInOrder(p)'
      BY <3>1 DEF ReceivedInOrder
    <3> QED BY <3>2, <3>3
  <2>2. CASE p # o
    <3>1. /\ wire'[p] = wire[p] /\ sendBuffer'[p] = sendBuffer[p] /\ inserted'[p] = inserted[p]
          /\ recvBuffer'[p] = recvBuffer[p] /\ delivered'[p] = delivered[p]
          /\ (p \in dry' <=> p \in dry)
      BY <2>2
    <3>2. SentInOrder(p)'
      BY <3>1 DEF SentInOrder, StreamsIntact
    <3>3. /\ Ordered(recvBuffer'[p], delivered'[p])
          /\ p \notin dry' => Data(recvBuffer'[p]) = DOMAIN recvBuffer'[p]
      BY <3>1, ReceivedIsOrdered DEF StreamsIntact
    <3>4. ReceivedInOrder(p)'
      BY <3>3 DEF ReceivedInOrder, Ordered, Data
    <3> QED BY <3>2, <3>4
  <2> QED BY <2>1, <2>2
<1> QED BY <1>2, <1>3 DEF StreamsIntact

LEMMA StreamsSame == StreamInv /\ UNCHANGED <<sending, receiving>> => StreamInv'
  BY DEF StreamInv, StreamTypes, StreamsIntact, SentInOrder, ReceivedInOrder, sending, receiving

LEMMA NextStreamInv == StreamInv /\ [Next]_vars => StreamInv'
<1> SUFFICES ASSUME StreamInv, [Next]_vars PROVE StreamInv'
  OBVIOUS
<1>1. CASE UNCHANGED vars
  BY <1>1, StreamsSame DEF vars
<1>2. CASE EndAccept
  BY <1>2, DropStream DEF EndAccept, Objects
<1>3. ASSUME NEW o \in Objects,
             \/ Construct(o) \/ setup(o) \/ connect(o) \/ bind(o) \/ listen(o)
             \/ accept(o) \/ close(o)
      PROVE  StreamInv'
  <2>1. UNCHANGED <<sending, receiving>>
    BY <1>3 DEF Construct, setup, connect, bind, listen, accept, close, Refused, vars
  <2> QED BY <2>1, StreamsSame
<1>4. ASSUME NEW o \in Objects, Destroy(o) PROVE StreamInv'
  BY <1>4, DropStream DEF Destroy
<1> QED BY <1>1, <1>2, <1>3, <1>4, InsertStream, ConsumeStream, SendStream, RecvStream DEF Next

\* What an application inserted is what was sent and what still waits, in network
\* order; what was received has no gap and no repetition: for any integers and
\* widths, any traffic, however little a send takes or a recv returns and
\* whatever is consumed in between (ksocket.cpp:61-113, 314-350).
THEOREM StreamsKept == Spec => []StreamsIntact
<1>1. StreamInv => StreamsIntact
  BY DEF StreamInv
<1> QED BY <1>1, StreamInit, NextStreamInv, PTL DEF Spec
=============================================================================
