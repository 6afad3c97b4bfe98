---------------------------- MODULE KSocketClass ----------------------------
(***************************************************************************)
(* The classes of ksocket.hpp and ksocket.cpp: KStreamClientIp4,           *)
(* KStreamServerIp4 and the KAcceptedSocket that accept hands to its       *)
(* callback, used by an application that calls their methods in any order. *)
(* A method is one action, but for accept, whose callback is the           *)
(* application's own code.  Below are the descriptors of berkeley.c, taken *)
(* by what DescriptorTable promises of them.                               *)
(***************************************************************************)
EXTENDS Integers, FiniteSets, SequencesExt

CONSTANTS
  Clients, Servers,   \* objects of the two classes that an application makes
  Accepted,           \* the KAcceptedSocket of an accept
  Descriptors,        \* descriptors of berkeley.c
  None,               \* no object
  Radix,              \* values of a byte
  Values, Widths,     \* integers that are inserted, and their widths in bytes
  RecvSizes,          \* values of max_recv_size
  MaxTraffic,         \* bounds, over all the objects: bytes inserted and received,
  MaxBuffered         \* bytes in the buffers when a recv without any adds to them

Objects == Clients \cup Servers \cup {Accepted}

\* What m_socket->s holds without a descriptor, and m_socket being nullptr.
Invalid == "INVALID_SOCKET"
Null    == "nullptr"

ASSUME KSocketClassAssumption ==
  /\ Clients \cap Servers = {} /\ Accepted \notin Clients \cup Servers
  /\ None \notin Objects
  /\ Invalid \notin Descriptors /\ Null \notin Descriptors
  /\ Radix \in Nat \ {0, 1} /\ Values \subseteq Nat /\ Widths \subseteq Nat \ {0}
  /\ RecvSizes \subseteq Nat \ {0}

VARIABLES
  alive,      \* objects that are constructed and not yet destroyed
  m_socket,   \* of each object: Null, Invalid, or a descriptor
  sendBuffer, recvBuffer,
  owner,      \* whose socket a descriptor names, or None
  phase,      \* how far that socket has come
  accepting,  \* the server whose callback is running, or None
  failedClose,\* a close() has failed
  inserted,   \* ghost: what the application meant to send, in order
  wire,       \* ghost: what was sent
  delivered,  \* ghost: how many bytes recv has delivered
  dry         \* ghost: objects that a recv left without any

sockets == <<alive, m_socket, owner, phase, accepting, failedClose>>
sending == <<sendBuffer, inserted, wire>>
receiving == <<recvBuffer, delivered, dry>>
vars == <<sockets, sending, receiving>>

Init ==
  /\ alive = {}
  /\ m_socket = [o \in Objects |-> Null]
  /\ sendBuffer = [o \in Objects |-> <<>>] /\ recvBuffer = [o \in Objects |-> <<>>]
  /\ owner = [fd \in Descriptors |-> None]
  /\ phase = [fd \in Descriptors |-> "closed"]
  /\ accepting = None
  /\ failedClose = FALSE
  /\ inserted = [o \in Objects |-> <<>>] /\ wire = [o \in Objects |-> <<>>]
  /\ delivered = [o \in Objects |-> 0] /\ dry = {}

-----------------------------------------------------------------------------
\* The bounds.
Traffic  == FoldFunction(LAMBDA bytes, n : n + Len(bytes), 0, inserted)
              + FoldFunction(+, 0, delivered)
Buffered == FoldFunction(LAMBDA bytes, n : n + Len(bytes), 0, recvBuffer)

\* Integers.  utils.c reverses the bytes of a value, and insert_u* takes the
\* result apart from its least significant byte on.
Power[n \in Nat] == IF n = 0 THEN 1 ELSE Radix * Power[n - 1]
ByteAt(v, i)     == (v \div Power[i]) % Radix

bswap(v, width) ==
  LET net[i \in 0 .. width] == IF i = 0 THEN 0 ELSE net[i - 1] * Radix + ByteAt(v, i - 1)
  IN  net[width]

\* Seeded variant: the bytes of the value itself, in the order of the host.
InsertedHostOrder(v, width) == [i \in 1 .. width |-> ByteAt(v, i - 1)]

InsertedBytes(v, width) == [i \in 1 .. width |-> ByteAt(bswap(v, width), i - 1)]

\* Network order: the most significant byte first.
BigEndian(v, width) == [i \in 1 .. width |-> ByteAt(v, width - i)]

-----------------------------------------------------------------------------
sanityCheck(o) == m_socket[o] \in Descriptors

\* A method that fails, for want of a socket or in the call it makes, and one
\* that has nothing to do.  m_lastError, which no method reads, is left out.
Refused == UNCHANGED vars

InPhase(o, p) == sanityCheck(o) /\ phase[m_socket[o]] = p
Move(o, p)    == phase' = [phase EXCEPT ![m_socket[o]] = p]

\* closesocket: whether WSK could close the socket or not, the descriptor
\* names nothing afterwards.
closesocket(fd) ==
  /\ owner' = [owner EXCEPT ![fd] = None]
  /\ phase' = [phase EXCEPT ![fd] = "closed"]

\* The destructor of KSocketImpl.
DeleteImpl(o) ==
  IF sanityCheck(o) THEN closesocket(m_socket[o]) ELSE UNCHANGED <<owner, phase>>

\* The buffers go with their object.
DropBuffers(o) ==
  /\ sendBuffer' = [sendBuffer EXCEPT ![o] = <<>>]
  /\ recvBuffer' = [recvBuffer EXCEPT ![o] = <<>>]
  /\ inserted' = [inserted EXCEPT ![o] = <<>>]
  /\ wire' = [wire EXCEPT ![o] = <<>>]
  /\ delivered' = [delivered EXCEPT ![o] = 0]
  /\ dry' = dry \ {o}

\* The objects of an application; the one that accepts outlives its callback.
Construct(o) ==
  /\ o \in (Clients \cup Servers) \ alive
  /\ alive' = alive \cup {o}
  /\ m_socket' = [m_socket EXCEPT ![o] = Null]
  /\ UNCHANGED <<owner, phase, accepting, failedClose, sending, receiving>>

\* Seeded variant: the destructor forgets the socket.
DestroyForgets(o) ==
  /\ o \in alive \ {Accepted, accepting}
  /\ alive' = alive \ {o}
  /\ m_socket' = [m_socket EXCEPT ![o] = Null]
  /\ DropBuffers(o)
  /\ UNCHANGED <<owner, phase, accepting, failedClose>>

Destroy(o) ==
  /\ o \in alive \ {Accepted, accepting}
  /\ DeleteImpl(o)
  /\ alive' = alive \ {o}
  /\ m_socket' = [m_socket EXCEPT ![o] = Null]
  /\ DropBuffers(o)
  /\ UNCHANGED <<accepting, failedClose>>

\* setup closes the socket of an earlier setup and opens a new one.  The
\* buffers stay.
setup(o) ==
  /\ o \in alive \ {Accepted}
  /\ LET old   == IF sanityCheck(o) THEN {m_socket[o]} ELSE {}
         freed == [fd \in Descriptors |-> IF fd \in old THEN None ELSE owner[fd]]
         reset == [fd \in Descriptors |-> IF fd \in old THEN "closed" ELSE phase[fd]]
     IN  \/ \E fd \in Descriptors :
              /\ freed[fd] = None
              /\ owner' = [freed EXCEPT ![fd] = o]
              /\ phase' = [reset EXCEPT ![fd] = "open"]
              /\ m_socket' = [m_socket EXCEPT ![o] = fd]
         \/ /\ owner' = freed /\ phase' = reset
            /\ m_socket' = [m_socket EXCEPT ![o] = Invalid]
  /\ UNCHANGED <<alive, accepting, failedClose, sending, receiving>>

\* connect frees the list of getaddrinfo whether WSK connects or not.
connect(o) ==
  /\ o \in alive \cap Clients
  /\ \/ Refused
     \/ /\ InPhase(o, "open")
        /\ Move(o, "connected")
        /\ UNCHANGED <<alive, m_socket, owner, accepting, failedClose, sending, receiving>>

bind(o) ==
  /\ o \in alive \cap Servers
  /\ \/ Refused
     \/ /\ InPhase(o, "open")
        /\ Move(o, "bound")
        /\ UNCHANGED <<alive, m_socket, owner, accepting, failedClose, sending, receiving>>

listen(o) ==
  /\ o \in alive \cap Servers
  /\ \/ Refused
     \/ /\ InPhase(o, "bound")
        /\ Move(o, "listening")
        /\ UNCHANGED <<alive, m_socket, owner, accepting, failedClose, sending, receiving>>

-----------------------------------------------------------------------------
\* accept up to its callback.  An accept within a callback is left out.
accept(o) ==
  /\ o \in alive \cap Servers
  /\ accepting = None
  /\ \/ Refused
     \/ /\ InPhase(o, "listening")
        /\ \E fd \in Descriptors :
             /\ owner[fd] = None
             /\ owner' = [owner EXCEPT ![fd] = Accepted]
             /\ phase' = [phase EXCEPT ![fd] = "connected"]
             /\ m_socket' = [m_socket EXCEPT ![Accepted] = fd]
        /\ accepting' = o
        /\ alive' = alive \cup {Accepted}
        /\ UNCHANGED <<failedClose, sending, receiving>>

\* The callback returns, and the KAcceptedSocket is destroyed with its frame.
EndAccept ==
  /\ accepting # None
  /\ accepting' = None
  /\ DeleteImpl(Accepted)
  /\ alive' = alive \ {Accepted}
  /\ m_socket' = [m_socket EXCEPT ![Accepted] = Null]
  /\ DropBuffers(Accepted)
  /\ UNCHANGED failedClose

\* Seeded variant: the descriptor is kept after a close that succeeded.
CloseKeeps(o) ==
  /\ o \in alive \ {Accepted}
  /\ sanityCheck(o)
  /\ closesocket(m_socket[o])
  /\ UNCHANGED <<alive, m_socket, accepting, failedClose, sending, receiving>>

\* close is protected: it is for the classes an application derives.
close(o) ==
  /\ o \in alive \ {Accepted}
  /\ \/ Refused
     \/ /\ sanityCheck(o)
        /\ closesocket(m_socket[o])
        /\ \/ /\ m_socket' = [m_socket EXCEPT ![o] = Invalid]
              /\ UNCHANGED failedClose
           \/ failedClose' = TRUE /\ UNCHANGED m_socket
        /\ UNCHANGED <<alive, accepting, sending, receiving>>

-----------------------------------------------------------------------------
\* KSocketBuffer: the application inserts at the end, or before what is
\* there, and consumes from the front.  A server never sends.
InsertInteger(o) ==
  /\ o \in alive \ Servers
  /\ \E width \in Widths : \E v \in Values :
       /\ v < Power[width]
       /\ Traffic + width <= MaxTraffic
       /\ \/ /\ sendBuffer' = [sendBuffer EXCEPT ![o] = @ \o InsertedBytes(v, width)]
             /\ inserted' = [inserted EXCEPT ![o] = @ \o BigEndian(v, width)]
          \/ /\ sendBuffer' = [sendBuffer EXCEPT ![o] = InsertedBytes(v, width) \o @]
             /\ inserted' = [inserted EXCEPT
                  ![o] = wire[o] \o BigEndian(v, width)
                           \o SubSeq(@, Len(wire[o]) + 1, Len(@))]
  /\ UNCHANGED <<sockets, wire, receiving>>

\* What consume takes off a buffer: everything for 0, or for too much.
consume(buffer, amount) ==
  IF amount = 0 \/ amount > Len(buffer) THEN <<>>
  ELSE SubSeq(buffer, amount + 1, Len(buffer))

ConsumeReceived(o) ==
  /\ o \in alive
  /\ recvBuffer[o] # <<>>
  /\ \E amount \in 0 .. Len(recvBuffer[o]) :
       recvBuffer' = [recvBuffer EXCEPT ![o] = consume(@, amount)]
  /\ UNCHANGED <<sockets, sending, delivered, dry>>

\* Seeded variant: all of the buffer is erased, whatever was taken of it.
SendErasesAll(o) ==
  /\ o \in alive
  /\ InPhase(o, "connected") /\ sendBuffer[o] # <<>>
  /\ \E n \in 1 .. Len(sendBuffer[o]) :
       /\ wire' = [wire EXCEPT ![o] = @ \o SubSeq(sendBuffer[o], 1, n)]
       /\ sendBuffer' = [sendBuffer EXCEPT ![o] = <<>>]
  /\ UNCHANGED <<sockets, inserted, receiving>>

send(o) ==
  /\ o \in alive
  /\ \/ Refused
     \/ /\ InPhase(o, "connected") /\ sendBuffer[o] # <<>>
        /\ \E n \in 1 .. Len(sendBuffer[o]) :
             /\ wire' = [wire EXCEPT ![o] = @ \o SubSeq(sendBuffer[o], 1, n)]
             /\ sendBuffer' = [sendBuffer EXCEPT ![o] = SubSeq(@, n + 1, Len(@))]
        /\ UNCHANGED <<sockets, inserted, receiving>>

Zeros(n) == [i \in 1 .. n |-> 0]
Arriving(o, n) == [i \in 1 .. n |-> delivered[o] + i]

\* Seeded variant: the bytes received overwrite the buffer from its start.
RecvFromStart(o) ==
  /\ o \in alive
  /\ InPhase(o, "connected")
  /\ \E max \in RecvSizes : \E n \in 1 .. max :
       /\ Traffic + n <= MaxTraffic
       /\ recvBuffer' = [recvBuffer EXCEPT
            ![o] = SubSeq(Arriving(o, n) \o SubSeq(@, n + 1, Len(@)) \o Zeros(n),
                          1, Len(@) + n)]
       /\ delivered' = [delivered EXCEPT ![o] = @ + n]
  /\ UNCHANGED <<sockets, sending, dry>>

\* The bytes of a connection are numbered from 1 on; 0 is what resize adds.  A
\* recv that fails, or meets the end of the stream, leaves the buffer resized.
recv(o) ==
  /\ o \in alive
  /\ \/ Refused
     \/ /\ InPhase(o, "connected")
        /\ \E max \in RecvSizes : \E n \in 1 .. max :
             /\ Traffic + n <= MaxTraffic
             /\ recvBuffer' = [recvBuffer EXCEPT ![o] = @ \o Arriving(o, n)]
             /\ delivered' = [delivered EXCEPT ![o] = @ + n]
        /\ UNCHANGED <<sockets, sending, dry>>
     \/ /\ sanityCheck(o)
        /\ \E max \in RecvSizes :
             /\ Buffered + max <= MaxBuffered
             /\ recvBuffer' = [recvBuffer EXCEPT ![o] = @ \o Zeros(max)]
        /\ dry' = dry \cup {o}
        /\ UNCHANGED <<sockets, sending, delivered>>

Next ==
  \/ \E o \in Objects :
       \/ Construct(o) \/ Destroy(o) \/ setup(o) \/ connect(o) \/ bind(o) \/ listen(o)
       \/ accept(o) \/ close(o)
       \/ InsertInteger(o) \/ ConsumeReceived(o) \/ send(o) \/ recv(o)
  \/ EndAccept

Spec == Init /\ [][Next]_vars

-----------------------------------------------------------------------------
Phases == {"closed", "open", "bound", "listening", "connected"}

\* What the variables of the sockets hold; a descriptor has a socket of WSK
\* exactly while it names one (closesocket, ksocket.cpp:41, 304).
TypeOK ==
  /\ alive \subseteq Objects
  /\ m_socket \in [Objects -> Descriptors \cup {Invalid, Null}]
  /\ owner \in [Descriptors -> Objects \cup {None}]
  /\ phase \in [Descriptors -> Phases]
  /\ \A fd \in Descriptors : owner[fd] = None <=> phase[fd] = "closed"
  /\ accepting \in Servers \cup {None}
  /\ failedClose \in BOOLEAN

\* A descriptor that an object uses is its own: two objects never share one,
\* nor does an object use one that has been closed (KSocket::setup, accept and
\* close, ksocket.cpp:138-312).  A close that fails is the exception: it keeps
\* a descriptor that closesocket has already given back (306).
OwnsWhatItUses ==
  ~failedClose =>
    \A o \in alive : sanityCheck(o) => owner[m_socket[o]] = o

\* Every descriptor that is open belongs to an object that still holds it, so
\* that its destructor closes it, whatever failed on the way: a second setup, a
\* callback that returns, a close that fails (ksocket.cpp:39-44, 133-136).
NoLeakedDescriptor ==
  \A fd \in Descriptors :
    owner[fd] # None => owner[fd] \in alive /\ m_socket[owner[fd]] = fd

\* What was sent, followed by what waits to be sent, is what the application
\* inserted, most significant bytes first.  The receive buffer ends with the last
\* byte received and has no gap; bytes that nobody sent are in it only when a recv
\* returned without any.  So a partial send, a short recv and a consume in between
\* neither lose nor repeat a byte (ksocket.cpp:61-113, 314-350).
SentInOrder(o) == wire[o] \o sendBuffer[o] = inserted[o]

ReceivedInOrder(o) ==
  LET buffer == recvBuffer[o]
      Data   == {i \in DOMAIN buffer : buffer[i] # 0}
  IN  /\ \A i \in Data :
           \/ buffer[i] = delivered[o] /\ \A j \in Data : j <= i
           \/ \E j \in Data : /\ j > i /\ buffer[j] = buffer[i] + 1
                              /\ \A k \in Data : k <= i \/ k >= j
      /\ o \notin dry => Data = DOMAIN buffer

StreamsIntact == \A o \in Objects : SentInOrder(o) /\ ReceivedInOrder(o)
=============================================================================
