---------------------------- MODULE SocketBuffer ----------------------------
(***************************************************************************)
(* The SocketBuffer class of ksocket/helper.hpp: a fixed array of SIZE     *)
(* bytes, of which the first `used` hold data and the first `consumed` of  *)
(* those have been sent or read.  A PDU is a header (length, type) and a   *)
(* payload.                                                                *)
(*                                                                         *)
(* A byte is known by the PDU it belongs to and its position there, or is  *)
(* NoByte where nothing was stored; a header can be read only where the    *)
(* header of one PDU lies whole.                                           *)
(***************************************************************************)
EXTENDS Naturals, Sequences

CONSTANTS
  SIZE,
  LenSize, TypeSize,  \* sizeof(pdu_len), sizeof(pdu_type): 4 and 2
  MaxLength           \* bound: what an unreadable length field may hold

ASSUME SocketBufferAssumption ==
  /\ SIZE \in Nat \ {0}
  /\ LenSize \in Nat \ {0} /\ TypeSize \in Nat \ {0}
  /\ MaxLength \in Nat /\ SIZE <= MaxLength

HeaderSize == LenSize + TypeSize

NoByte == [pdu |-> <<>>, at |-> 0]

\* The bytes of a PDU, which is any record with a length and a type.
Bytes(pdu) == [i \in 1 .. HeaderSize + pdu.length |-> [pdu |-> pdu, at |-> i]]

\* A buffer whose fields are declared but whose array is not initialised.
New == [buffer |-> [i \in 1 .. SIZE |-> NoByte], used |-> 0, consumed |-> 0]

GetUsed(b) == b.used - b.consumed
GetRemainingSendSize(b) == GetUsed(b)
GetRemainingRecvSize(b) == SIZE - GetUsed(b)

\* Seeded variant of FromStart: a GetStart that ignores `consumed`.
FromFront(b, n) == SubSeq(b.buffer, 1, IF n <= SIZE THEN n ELSE SIZE)

\* The n bytes at GetStart(), as far as the array goes.
FromStart(b, n) ==
  SubSeq(b.buffer, b.consumed + 1,
         IF b.consumed + n <= SIZE THEN b.consumed + n ELSE SIZE)

Store(buffer, offset, bytes) ==
  [i \in 1 .. SIZE |->
     IF i > offset /\ i <= offset + Len(bytes) THEN bytes[i - offset] ELSE buffer[i]]

SizeCheck(b, n) == b.used + n < SIZE

AddPdu(b, pdu) ==
  LET stored == [b EXCEPT !.buffer = Store(@, b.used, Bytes(pdu))]
  IN  [stored EXCEPT !.used = @ + HeaderSize + pdu.length]

CanAddPdu(b, pdu) == SizeCheck(b, HeaderSize + pdu.length)

Consume(b, n) ==
  IF n + b.consumed > b.used THEN b ELSE [b EXCEPT !.consumed = @ + n]

\* memmove of the unconsumed bytes to the front of the array.
Sweep(b) ==
  [buffer   |-> Store(b.buffer, 0, SubSeq(b.buffer, b.consumed + 1, b.used)),
   used     |-> b.used - b.consumed,
   consumed |-> 0]

\* recv stores at GetStart(); GetPdu counts what was received behind `used`,
\* unless that is more than fits.
CountsReceived(b, n) == n <= SIZE - b.used

Receive(b, bytes) ==
  LET stored == [b EXCEPT !.buffer = Store(@, b.consumed, bytes)]
  IN  IF CountsReceived(b, Len(bytes))
      THEN [stored EXCEPT !.used = @ + Len(bytes)]
      ELSE stored

\* The lengths and types GetPrimitve may read from the front of the buffer.
LengthFields(b) ==
  LET field == SubSeq(b.buffer, b.consumed + 1, b.consumed + LenSize)
  IN  IF \E pdu \in {field[i].pdu : i \in 1 .. LenSize} \ {<<>>} :
           field = SubSeq(Bytes(pdu), 1, LenSize)
      THEN {field[1].pdu.length}
      ELSE 0 .. MaxLength

TypeFields(b, AnyType) ==
  LET field == SubSeq(b.buffer, b.consumed + LenSize + 1, b.consumed + HeaderSize)
  IN  IF \E pdu \in {field[i].pdu : i \in 1 .. TypeSize} \ {<<>>} :
           field = SubSeq(Bytes(pdu), LenSize + 1, HeaderSize)
      THEN {field[1].pdu.type}
      ELSE AnyType

HasHeader(b) == b.used >= HeaderSize

\* Seeded variant of HasPdu: the payload's length without the header's.
HasPayload(b, length) == b.used >= length

HasPdu(b, length) == b.used >= HeaderSize + length

\* Seeded variant of SkipHeader: the header is left to the body.
LeaveHeader(b) == b

SkipHeader(b) == [b EXCEPT !.consumed = @ + HeaderSize]
=============================================================================
