----------------------------- MODULE PduSession -----------------------------
(***************************************************************************)
(* A session of examples/userspace_client_protobuf.cpp with                *)
(* examples/driver-protobuf-c-tcp.cpp: both sides frame their messages     *)
(* with SocketBuffer and the macros SEND_ALL and RECV_PDU_BEGIN/END.       *)
(*                                                                         *)
(*   client: "add" -> "send" -> "recv" -> "body" -> "add" ... -> "closed"  *)
(*   driver: "recv" -> "body" -> "send" -> "recv" ... -> "closed"          *)
(*                                                                         *)
(* A step is a call of send or recv, or what is computed between two such  *)
(* calls.  The connection is the environment: it takes any part of what is *)
(* sent, delivers it in any pieces (or, with WholeDelivery, a PDU at a     *)
(* time), and may break.                                                   *)
(***************************************************************************)
EXTENDS SocketBuffer, SequencesExt

CONSTANTS
  Rounds,         \* bound: rounds of the client's loop (256 in the code)
  MaxHandled,     \* bound: messages a side unpacks
  PayloadLength,  \* length of the serialised message of each type
  OtherType,      \* a pdu_type that is none of PduTypes
  WholeDelivery,  \* TRUE: recv returns one whole PDU
  MayBreak        \* TRUE: the connection may be reset

PduTypes == {"PDU_SOMETHING_WITH_UINTS", "PDU_SOMETHING_MORE", "PDU_EVEN_MORE"}

ASSUME PduSessionAssumption ==
  /\ Rounds \in Nat /\ MaxHandled \in Nat
  /\ PayloadLength \in [PduTypes -> Nat]
  /\ OtherType \notin PduTypes
  /\ WholeDelivery \in BOOLEAN /\ MayBreak \in BOOLEAN
  /\ HeaderSize < SIZE

Sides == {"client", "driver"}
Peer(e) == IF e = "client" THEN "driver" ELSE "client"

AnyType == PduTypes \cup {OtherType}
\* The locals pdu_type and pdu_len before GetPdu has stored to them.
Unset == [type |-> OtherType, length |-> MaxLength + 1]

\* What a body was handed that is not a PDU the other side sent.
Junk == [from |-> "nobody", no |-> 0, type |-> OtherType, length |-> 0]

VARIABLES
  pc,       \* position of each side
  sb_send, sb_recv,
  header,   \* pdu_type and pdu_len of each side
  iResult,  \* whether the last send or recv of each side moved any bytes
  wire,     \* bytes each side has sent and the other has not received
  reset,    \* "none", or the connection is gone: its peer "closed", or it "broke"
  added,    \* ghost: the PDUs each side has added to its send buffer
  taken,    \* ghost: how many bytes of each side have left its wire
  handled   \* ghost: the PDUs of the other side that each side has unpacked

bufferVars == <<sb_send, sb_recv>>
wireVars == <<wire, reset, taken>>
vars == <<pc, bufferVars, header, iResult, wireVars, added, handled>>

Init ==
  /\ pc = [e \in Sides |-> IF e = "client" THEN "add" ELSE "recv"]
  /\ sb_send = [e \in Sides |-> New]
  /\ sb_recv = [e \in Sides |-> New]
  /\ header = [e \in Sides |-> Unset]
  /\ iResult = [e \in Sides |-> TRUE]
  /\ wire = [e \in Sides |-> <<>>]
  /\ reset = "none"
  /\ added = [e \in Sides |-> <<>>]
  /\ taken = [e \in Sides |-> 0]
  /\ handled = [e \in Sides |-> <<>>]

Goto(e, p) == pc' = [pc EXCEPT ![e] = p]

Pdu(e, type) ==
  [from |-> e, no |-> Len(added[e]) + 1, type |-> type, length |-> PayloadLength[type]]

-----------------------------------------------------------------------------
\* The client's loop: SOMETHING_MORE, then EVEN_MORE, with fresh buffers for
\* each round.
NextRequest ==
  Pdu("client", IF Len(added["client"]) % 2 = 0 THEN "PDU_SOMETHING_MORE"
                                                 ELSE "PDU_EVEN_MORE")

RoundBuffer(b) == IF Len(added["client"]) % 2 = 0 THEN New ELSE b

Close(e) ==
  /\ Goto(e, "closed")
  /\ UNCHANGED <<bufferVars, header, iResult, wireVars, added, handled>>

ClientAdd ==
  /\ pc["client"] = "add"
  /\ IF Len(added["client"]) < 2 * Rounds
        /\ CanAddPdu(RoundBuffer(sb_send["client"]), NextRequest)
     THEN /\ sb_send' = [sb_send EXCEPT !["client"] = AddPdu(RoundBuffer(@), NextRequest)]
          /\ sb_recv' = [sb_recv EXCEPT !["client"] = RoundBuffer(@)]
          /\ added' = [added EXCEPT !["client"] = Append(@, NextRequest)]
          /\ Goto("client", "send")
          /\ UNCHANGED <<header, iResult, wireVars, handled>>
     ELSE Close("client")

\* Seeded variant of BeginRecv: the client asks again without waiting.
BeginNext(e) ==
  /\ Goto(e, IF e = "client" THEN "add" ELSE "recv")
  /\ header' = [header EXCEPT ![e] = Unset]

\* RECV_PDU_BEGIN follows SEND_ALL; it does nothing when its buffer is full.
BeginRecv(e) ==
  /\ Goto(e, IF GetRemainingRecvSize(sb_recv[e]) = 0
             THEN IF e = "client" THEN "add" ELSE "closed"
             ELSE "recv")
  /\ header' = [header EXCEPT ![e] = Unset]

\* SEND_ALL and the test of its result, which ends the loop of either side.
SendFails(e) ==
  /\ reset # "none" \/ pc[Peer(e)] = "closed"
  /\ sb_send' = [sb_send EXCEPT ![e] = Sweep(@)]
  /\ iResult' = [iResult EXCEPT ![e] = FALSE]
  /\ Goto(e, "closed")
  /\ UNCHANGED <<header, wireVars>>

\* Bytes sent to a side that has closed are lost and break the connection.
SendSome(e, n) ==
  LET b == Consume(sb_send[e], n)
  IN  /\ reset = "none"
      /\ IF pc[Peer(e)] = "closed"
         THEN reset' = "closed" /\ UNCHANGED <<wire, taken>>
         ELSE /\ wire' = [wire EXCEPT ![e] = @ \o FromStart(sb_send[e], n)]
              /\ UNCHANGED <<reset, taken>>
      /\ iResult' = [iResult EXCEPT ![e] = TRUE]
      /\ IF b.used = b.consumed
         THEN sb_send' = [sb_send EXCEPT ![e] = Sweep(b)] /\ BeginRecv(e)
         ELSE sb_send' = [sb_send EXCEPT ![e] = b] /\ UNCHANGED <<pc, header>>

Send(e) ==
  /\ pc[e] = "send"
  /\ \/ SendFails(e)
     \/ \E n \in 1 .. GetRemainingSendSize(sb_send[e]) : SendSome(e, n)
  /\ UNCHANGED <<sb_recv, added, handled>>

-----------------------------------------------------------------------------
\* How many bytes recv may return.
Piece(e) ==
  LET from == Peer(e)
      room == GetRemainingRecvSize(sb_recv[e])
  IN  IF WholeDelivery /\ wire[from] # <<>>
      THEN {HeaderSize + wire[from][1].pdu.length} \cap 1 .. Len(wire[from]) \cap 1 .. room
      ELSE 1 .. IF Len(wire[from]) <= room THEN Len(wire[from]) ELSE room

\* recv returns bytes and GetPdu looks whether they complete a PDU.
RecvSome(e, n) ==
  LET from == Peer(e)
      b == Receive(sb_recv[e], SubSeq(wire[from], 1, n))
  IN  /\ reset = "none"
      /\ wire' = [wire EXCEPT ![from] = SubSeq(@, n + 1, Len(@))]
      /\ taken' = [taken EXCEPT ![from] = @ + n]
      /\ iResult' = [iResult EXCEPT ![e] = TRUE]
      /\ UNCHANGED reset
      /\ IF HasHeader(b) /\ CountsReceived(sb_recv[e], n)
         THEN \E length \in LengthFields(b), type \in TypeFields(b, AnyType) :
                /\ header' = [header EXCEPT ![e] = [type |-> type, length |-> length]]
                /\ IF HasPdu(b, length)
                   THEN /\ sb_recv' = [sb_recv EXCEPT ![e] = SkipHeader(b)]
                        /\ Goto(e, "body")
                   ELSE /\ sb_recv' = [sb_recv EXCEPT ![e] = b]
                        /\ UNCHANGED pc
         ELSE /\ sb_recv' = [sb_recv EXCEPT ![e] = b]
              /\ UNCHANGED <<pc, header>>

\* Seeded variant of RecvFails: a recv that returned 0 is called again.
RecvAgain(e) ==
  /\ \/ reset # "none"
     \/ wire[Peer(e)] = <<>> /\ pc[Peer(e)] = "closed"
  /\ iResult' = [iResult EXCEPT ![e] = FALSE]
  /\ UNCHANGED <<pc, sb_recv, header, wireVars>>

\* recv returns 0 at the end of the stream, or for an empty rest of the
\* buffer, and an error on a broken connection.  The body runs all the same.
RecvFails(e) ==
  /\ \/ reset # "none"
     \/ wire[Peer(e)] = <<>> /\ pc[Peer(e)] = "closed"
     \/ GetRemainingRecvSize(sb_recv[e]) = 0
  /\ iResult' = [iResult EXCEPT ![e] = FALSE]
  /\ Goto(e, "body")
  /\ UNCHANGED <<sb_recv, header, wireVars>>

Recv(e) ==
  /\ pc[e] = "recv"
  /\ \/ RecvFails(e)
     \/ \E n \in Piece(e) : RecvSome(e, n)
  /\ UNCHANGED <<sb_send, added, handled>>

-----------------------------------------------------------------------------
\* Locals that were never stored to hold anything.
HeaderValues(e) ==
  IF header[e] = Unset THEN [type : AnyType, length : 0 .. MaxLength] ELSE {header[e]}

\* The PDU the body is handed: one of the other side, type and payload, or junk.
HandedPdus(e, h) ==
  {pdu \in {added[Peer(e)][i] : i \in 1 .. Len(added[Peer(e)])} :
     /\ pdu.type = h.type /\ pdu.length = h.length
     /\ FromStart(sb_recv[e], h.length)
          = SubSeq(Bytes(pdu), HeaderSize + 1, HeaderSize + pdu.length)}

Handed(e, h) ==
  IF HandedPdus(e, h) = {} THEN Junk ELSE CHOOSE pdu \in HandedPdus(e, h) : TRUE

\* Seeded variants of EndRecv: without Sweep, and without Consume.
EndWithoutSweep(e, h) == sb_recv' = [sb_recv EXCEPT ![e] = Consume(@, h.length)]
EndWithoutConsume(e, h) == sb_recv' = [sb_recv EXCEPT ![e] = Sweep(@)]

\* RECV_PDU_END.
EndRecv(e, h) == sb_recv' = [sb_recv EXCEPT ![e] = Sweep(Consume(@, h.length))]

\* The types a body unpacks: the client expects an answer like its request.
Unpacks(e) ==
  IF e = "driver" THEN PduTypes ELSE {added["client"][Len(added["client"])].type}

Handle(e, h) ==
  /\ Len(handled[e]) < MaxHandled
  /\ handled' = [handled EXCEPT ![e] =
       IF h.type \in Unpacks(e) /\ Handed(e, h) # Junk THEN Append(@, Handed(e, h)) ELSE @]

\* The driver answers a message it can unpack with one of the same type, and
\* leaves its loop at one it cannot unpack or whose answer does not fit.
\* Unpacking may succeed on junk.
Answers(h) ==
  /\ h.type \in PduTypes
  /\ CanAddPdu(sb_send["driver"], Pdu("driver", h.type))

DriverBody ==
  /\ pc["driver"] = "body"
  /\ \E h \in HeaderValues("driver") :
       /\ Handle("driver", h)
       /\ EndRecv("driver", h)
       /\ \/ /\ Answers(h)
             /\ LET pdu == Pdu("driver", h.type)
                IN  /\ sb_send' = [sb_send EXCEPT !["driver"] = AddPdu(@, pdu)]
                    /\ added' = [added EXCEPT !["driver"] = Append(@, pdu)]
             /\ Goto("driver", "send")
          \/ /\ Answers(h) => Handed("driver", h) = Junk
             /\ Goto("driver", "closed")
             /\ UNCHANGED <<sb_send, added>>
  /\ UNCHANGED <<header, iResult, wireVars>>

\* The client displays what it can unpack and goes on in any case.
ClientBody ==
  /\ pc["client"] = "body"
  /\ \E h \in HeaderValues("client") :
       /\ Handle("client", h)
       /\ EndRecv("client", h)
  /\ Goto("client", "add")
  /\ UNCHANGED <<sb_send, header, iResult, wireVars, added>>

Break ==
  /\ MayBreak /\ reset = "none"
  /\ \E e \in Sides : pc[e] # "closed"
  /\ reset' = "broke"
  /\ UNCHANGED <<pc, bufferVars, header, iResult, wire, taken, added, handled>>

ClientNext == ClientAdd \/ Send("client") \/ Recv("client") \/ ClientBody
DriverNext == Send("driver") \/ Recv("driver") \/ DriverBody

Next == ClientNext \/ DriverNext \/ Break

Spec == Init /\ [][Next]_vars

\* Each side is a running thread; the transport delivers what was sent.
FairSpec == Spec /\ WF_vars(ClientNext) /\ WF_vars(DriverNext)

-----------------------------------------------------------------------------
Pdus == [from : Sides, no : Nat, type : PduTypes, length : 0 .. MaxLength]
Byte == [pdu : Pdus \cup {<<>>}, at : Nat]
Buffers == [buffer : [1 .. SIZE -> Byte], used : 0 .. SIZE, consumed : 0 .. SIZE]

\* The variables have their types; in every buffer consumed <= used <= SIZE.
TypeOK ==
  /\ pc \in [Sides -> {"add", "send", "recv", "body", "closed"}]
  /\ sb_send \in [Sides -> Buffers] /\ sb_recv \in [Sides -> Buffers]
  /\ \A e \in Sides : /\ sb_send[e].consumed <= sb_send[e].used
                      /\ sb_recv[e].consumed <= sb_recv[e].used
  /\ header \in [Sides -> [type : AnyType, length : 0 .. MaxLength] \cup {Unset}]
  /\ iResult \in [Sides -> BOOLEAN]
  /\ wire \in [Sides -> Seq(Byte)]
  /\ reset \in {"none", "closed", "broke"}
  /\ added \in [Sides -> Seq(Pdus)]
  /\ taken \in [Sides -> Nat]

\* What a body is handed after a recv that returned bytes lies within the
\* bytes received so far (GetPdu checks used before it moves consumed).
BodyInBounds ==
  \A e \in Sides :
    pc[e] = "body" /\ iResult[e] => GetUsed(sb_recv[e]) >= header[e].length

\* recv stores within the array: what is consumed was swept before it is
\* called, so that GetPdu's refusal "You did something wrong!" is never taken.
RecvFits ==
  \A e \in Sides :
    pc[e] = "recv" =>
      /\ sb_recv[e].consumed = 0
      /\ CountsReceived(sb_recv[e], GetRemainingRecvSize(sb_recv[e]))

Stream(e) == FlattenSeq([i \in 1 .. Len(added[e]) |-> Bytes(added[e][i])])

\* Until the connection breaks, SEND_ALL puts every byte of every PDU on the
\* wire once and in order, however little each send takes.
StreamIntact ==
  reset = "none" =>
    \A e \in Sides :
      pc[Peer(e)] # "closed" =>
        wire[e] \o SubSeq(sb_send[e].buffer, sb_send[e].consumed + 1, sb_send[e].used)
          = SubSeq(Stream(e), taken[e] + 1, Len(Stream(e)))

\* A body that runs after a recv that returned bytes is handed the next PDU of
\* the other side (GetPdu returned true for it).
BodyAfterRecvIsPdu ==
  \A e \in Sides :
    pc[e] = "body" /\ iResult[e] => Handed(e, header[e]) # Junk

\* The text of every answer is displayed by the client, unless the connection
\* breaks.
AllAnswersShown ==
  <>(reset = "broke" \/ Len(handled["client"]) = 2 * Rounds)

\* Both sides leave their loops and close their sockets.
SessionEnds == <>(\A e \in Sides : pc[e] = "closed")

\* The session is a conversation: one request at a time, served once, in
\* order, and answered with a message of its type.
TypesOf(pdus) == [i \in 1 .. Len(pdus) |-> pdus[i].type]

Conversation ==
  INSTANCE RequestReply WITH
    Types <- PduTypes,
    asked <- TypesOf(added["client"]),
    served <- TypesOf(handled["driver"]),
    shown <- TypesOf(handled["client"]),
    up <- reset = "none"

ImplementsConversation == Conversation!ConversationSpec
=============================================================================
