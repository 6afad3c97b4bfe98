---------------------------- MODULE FlatccEmitter ----------------------------
(***************************************************************************)
(* The default emitter of flatcc (flatcc/src/runtime/emitter.c): a buffer  *)
(* that grows at both ends, kept in pages of one size.  The pages form one *)
(* ring; those from front to back hold the buffer, the others wait for     *)
(* reuse.                                                                  *)
(*                                                                         *)
(* struct flatcc_emitter is a record E, and every C function an operator   *)
(* that returns the record it leaves.  front_cursor is always front_left   *)
(* bytes into the front page and back_cursor back_left bytes before the    *)
(* end of the back page, so the cursors are not kept.  E.heap is the set   *)
(* of pages obtained from malloc and not freed, E.memory how many pages    *)
(* malloc can give before it returns NULL.                                 *)
(***************************************************************************)
EXTENDS Integers, Sequences, FiniteSets, SequencesExt

CONSTANTS FLATCC_EMITTER_PAGE_SIZE,   \* bytes of a page
          Pages,                      \* addresses of pages
          NULL

\* The first page is cut into two halves, and neither may be empty.
PageAssumption ==
    /\ FLATCC_EMITTER_PAGE_SIZE \in Nat \ {0, 1}
    /\ IsFiniteSet(Pages) /\ NULL \notin Pages
ASSUME PageAssumption

SIZE == FLATCC_EMITTER_PAGE_SIZE

\* A byte read outside the pages, or before anything was written to it.
Garbage == "garbage"
Blank == [i \in 1 .. SIZE |-> Garbage]

\* flatcc_emitter_init: all zero.
flatcc_emitter_init(memory) ==
    [front |-> NULL, back |-> NULL,
     next |-> [p \in Pages |-> NULL], prev |-> [p \in Pages |-> NULL],
     page |-> [p \in Pages |-> Blank], page_offset |-> [p \in Pages |-> 0],
     front_left |-> 0, back_left |-> 0,
     used |-> 0, capacity |-> 0, used_average |-> 0,
     heap |-> {}, memory |-> memory]

\* What a call returns: the record, and whether it succeeded.
Done(E) == [ok |-> TRUE, E |-> E]
Fails(E) == [ok |-> FALSE, E |-> E]

-----------------------------------------------------------------------------
(* Pages *)

OutOfMemory(E) == Cardinality(E.heap) >= E.memory
NewPage(E) == CHOOSE p \in Pages : p \notin E.heap

\* malloc returns page p.
Allocated(E, p) ==
    [E EXCEPT !.heap = E.heap \cup {p}, !.capacity = E.capacity + SIZE,
              !.page = [E.page EXCEPT ![p] = Blank]]

\* The new page p linked between back and front.
LinkPage(E, p) ==
    [E EXCEPT !.prev = [E.prev EXCEPT ![p] = E.back, ![E.front] = p],
              !.next = [E.next EXCEPT ![p] = E.front, ![E.back] = p]]

\* The first page p is shared: front and back get half of it each.
FirstPage(E, p) ==
    [E EXCEPT !.front = p, !.back = p,
              !.next = [E.next EXCEPT ![p] = p], !.prev = [E.prev EXCEPT ![p] = p],
              !.front_left = SIZE \div 2, !.back_left = SIZE - SIZE \div 2,
              !.page_offset = [E.page_offset EXCEPT ![p] = -(SIZE \div 2)]]

\* The label done of advance_front and of advance_back.
OpenFront(E) ==
    [E EXCEPT !.front_left = SIZE,
              !.page_offset[E.front] = E.page_offset[E.next[E.front]] - SIZE]
OpenBack(E) ==
    [E EXCEPT !.back_left = SIZE,
              !.page_offset[E.back] = E.page_offset[E.prev[E.back]] + SIZE]

advance_front(E) ==
    IF E.front # NULL /\ E.prev[E.front] # E.back
    THEN Done(OpenFront([E EXCEPT !.front = E.prev[E.front]]))
    ELSE IF OutOfMemory(E) THEN Fails(E)
    ELSE LET p == NewPage(E)
             F == Allocated(E, p)
         IN  Done(IF E.front = NULL THEN FirstPage(F, p)
                  ELSE OpenFront([LinkPage(F, p) EXCEPT !.front = p]))

advance_back(E) ==
    IF E.back # NULL /\ E.next[E.back] # E.front
    THEN Done(OpenBack([E EXCEPT !.back = E.next[E.back]]))
    ELSE IF OutOfMemory(E) THEN Fails(E)
    ELSE LET p == NewPage(E)
             F == Allocated(E, p)
         IN  Done(IF E.back = NULL THEN FirstPage(F, p)
                  ELSE OpenBack([LinkPage(F, p) EXCEPT !.back = p]))

-----------------------------------------------------------------------------
(* Writing *)

\* memcpy of data into page p, behind the first at bytes.
Write(E, p, at, data) ==
    [E.page EXCEPT ![p] = [i \in 1 .. SIZE |->
        IF i - at \in 1 .. Len(data) THEN data[i - at] ELSE E.page[p][i]]]

\* The next bytes of room at the front, and at the back, take data.
TakeFront(E, data) ==
    LET left == E.front_left - Len(data)
    IN  [E EXCEPT !.page = Write(E, E.front, left, data), !.front_left = left]
TakeBack(E, data) ==
    [E EXCEPT !.page = Write(E, E.back, SIZE - E.back_left, data),
              !.back_left = E.back_left - Len(data)]

Fitting(data, room) == IF Len(data) > room THEN room ELSE Len(data)

\* A turn of the loops of copy_front and copy_back: a page when there is no
\* room, then as much of what is left of data as fits.
FrontTurn(c) ==
    LET a == IF c.E.front_left = 0 THEN advance_front(c.E) ELSE Done(c.E)
        n == Len(c.data) - Fitting(c.data, a.E.front_left)
    IN  IF ~c.ok \/ c.data = <<>> THEN c
        ELSE IF ~a.ok THEN [c EXCEPT !.ok = FALSE]
        ELSE [ok |-> TRUE, E |-> TakeFront(a.E, SubSeq(c.data, n + 1, Len(c.data))),
              data |-> SubSeq(c.data, 1, n)]
BackTurn(c) ==
    LET a == IF c.E.back_left = 0 THEN advance_back(c.E) ELSE Done(c.E)
        n == Fitting(c.data, a.E.back_left)
    IN  IF ~c.ok \/ c.data = <<>> THEN c
        ELSE IF ~a.ok THEN [c EXCEPT !.ok = FALSE]
        ELSE [ok |-> TRUE, E |-> TakeBack(a.E, SubSeq(c.data, 1, n)),
              data |-> SubSeq(c.data, n + 1, Len(c.data))]

\* Every turn copies a byte or fails, so Len(data) turns are enough.
Copying(E, data) == [ok |-> TRUE, E |-> E, data |-> data]
copy_front(E, data) ==
    LET turn[i \in Nat] == IF i = 0 THEN Copying(E, data) ELSE FrontTurn(turn[i - 1])
    IN  [ok |-> turn[Len(data)].ok, E |-> turn[Len(data)].E]
copy_back(E, data) ==
    LET turn[i \in Nat] == IF i = 0 THEN Copying(E, data) ELSE BackTurn(turn[i - 1])
    IN  [ok |-> turn[Len(data)].ok, E |-> turn[Len(data)].E]

\* The entries of iov one by one: the last first at the front, the first
\* first at the back, until one fails.
FrontPiece(c, piece) == IF c.ok THEN copy_front(c.E, piece) ELSE c
BackPiece(c, piece) == IF c.ok THEN copy_back(c.E, piece) ELSE c
EachFront(E, iov) ==
    LET put[i \in 0 .. Len(iov)] ==
            IF i = 0 THEN Done(E)
            ELSE FrontPiece(put[i - 1], iov[Len(iov) - i + 1])
    IN  put[Len(iov)]
EachBack(E, iov) ==
    LET put[i \in 0 .. Len(iov)] ==
            IF i = 0 THEN Done(E) ELSE BackPiece(put[i - 1], iov[i])
    IN  put[Len(iov)]

Gathered(iov) == FlattenSeq(iov)

\* The emit function: iov goes in front of the buffer when offset is
\* negative and behind it otherwise, in one piece when the page has room.
flatcc_emitter(E0, iov, offset) ==
    LET data == Gathered(iov)
        E == [E0 EXCEPT !.used = @ + Len(data)]
    IN  IF offset < 0
        THEN IF Len(data) <= E.front_left THEN Done(TakeFront(E, data))
             ELSE EachFront(E, iov)
        ELSE IF Len(data) <= E.back_left THEN Done(TakeBack(E, data))
             ELSE EachBack(E, iov)

-----------------------------------------------------------------------------
(* Between two buffers *)

\* The page behind the back page is freed while the pool is more than twice
\* the average use.
FreeBehind(E) ==
    LET p == E.next[E.back]
    IN  IF E.used_average * 2 < E.capacity /\ p # E.front
        THEN [E EXCEPT !.next = [E.next EXCEPT ![E.back] = E.next[p], ![p] = NULL],
                       !.prev = [E.prev EXCEPT ![E.next[p]] = E.back, ![p] = NULL],
                       !.page = [E.page EXCEPT ![p] = Blank],
                       !.page_offset = [E.page_offset EXCEPT ![p] = 0],
                       !.heap = E.heap \ {p}, !.capacity = E.capacity - SIZE]
        ELSE E
ShrinkPool(E) ==
    LET pool[i \in Nat] == IF i = 0 THEN E ELSE FreeBehind(pool[i - 1])
    IN  pool[Cardinality(E.heap)]

\* Seeded variant: the back stays where it is.
ResetKeepsBack(E) ==
    LET average == IF E.used_average = 0 THEN E.used ELSE E.used_average
    IN  IF E.front = NULL THEN E
        ELSE ShrinkPool([E EXCEPT
                !.front_left = SIZE \div 2, !.back_left = SIZE - SIZE \div 2,
                !.page_offset = [E.page_offset EXCEPT ![E.front] = -(SIZE \div 2)],
                !.used_average = (average * 3) \div 4 + E.used \div 4,
                !.used = 0])

flatcc_emitter_reset(E) ==
    LET average == IF E.used_average = 0 THEN E.used ELSE E.used_average
    IN  IF E.front = NULL THEN E
        ELSE ShrinkPool([E EXCEPT
                !.back = E.front,
                !.front_left = SIZE \div 2, !.back_left = SIZE - SIZE \div 2,
                !.page_offset = [E.page_offset EXCEPT ![E.front] = -(SIZE \div 2)],
                !.used_average = (average * 3) \div 4 + E.used \div 4,
                !.used = 0])

\* Every page is freed and E zeroed; nothing is done without a page.
flatcc_emitter_clear(E) ==
    IF E.front = NULL THEN E ELSE flatcc_emitter_init(E.memory)

-----------------------------------------------------------------------------
(* Reading *)

\* n bytes of page p behind the first at bytes.
Bytes(E, p, at, n) ==
    [i \in 1 .. n |-> IF at + i <= SIZE THEN E.page[p][at + i] ELSE Garbage]

\* The page i links behind the front page, and where that is the back page.
Nth(E) == LET nth[i \in Nat] == IF i = 0 THEN E.front ELSE E.next[nth[i - 1]]
          IN  nth
BackAt(E) == CHOOSE k \in 0 .. Cardinality(E.heap) - 1 : Nth(E)[k] = E.back

\* flatcc_emitter_copy_buffer into a buffer of size bytes; the pages between
\* the front and the back page are full.
flatcc_emitter_copy_buffer(E, size) ==
    IF size < E.used \/ E.front = NULL THEN NULL
    ELSE IF E.front = E.back THEN Bytes(E, E.front, E.front_left, E.used)
    ELSE Bytes(E, E.front, E.front_left, SIZE - E.front_left)
            \o FlattenSeq([i \in 1 .. BackAt(E) - 1 |-> Bytes(E, Nth(E)[i], 0, SIZE)])
            \o Bytes(E, E.back, 0, SIZE - E.back_left)

-----------------------------------------------------------------------------
(* What the rings and counters of E promise *)

\* Every page obtained is on the one ring, linked both ways and counted.
RingIsWhole(E) ==
    IF E.front = NULL THEN E.heap = {} /\ E.back = NULL /\ E.capacity = 0
    ELSE /\ {Nth(E)[i] : i \in 0 .. Cardinality(E.heap) - 1} = E.heap
         /\ E.back \in E.heap
         /\ \A p \in E.heap : E.next[E.prev[p]] = p /\ E.prev[E.next[p]] = p
         /\ E.capacity = SIZE * Cardinality(E.heap)

\* The pages from front to back hold consecutive stretches of the buffer.
StretchesMeet(E) ==
    \A i \in 1 .. BackAt(E) :
        E.page_offset[Nth(E)[i]] = E.page_offset[Nth(E)[i - 1]] + SIZE

\* The address of the first byte of the buffer.
FirstAddress(E) ==
    IF E.front = NULL THEN 0 ELSE E.page_offset[E.front] + E.front_left
=============================================================================
