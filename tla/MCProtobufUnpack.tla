------------------------- MODULE MCProtobufUnpack -------------------------
(* One message type with a field of each label and kind, an embedded one    *)
(* that can come in pieces, and data of up to four members; eight are too    *)
(* many for the slabs.                                                     *)
EXTENDS ProtobufUnpack

F(id, label, kind, sub, oneof) ==
  [id |-> id, label |-> label, kind |-> kind, sub |-> sub, oneof |-> oneof]

MCDescriptor == [
  Leaf  |-> << F(1, "optional", "scalar", Absent, Absent) >>,
  Inner |-> << F(1, "optional", "string", Absent, Absent),
               F(2, "optional", "scalar", Absent, "c"),
               F(3, "optional", "string", Absent, "c"),
               F(4, "repeated", "string", Absent, Absent),
               F(5, "optional", "message", "Leaf", Absent) >>,
  Top   |-> << F(1, "required", "scalar", Absent, Absent),
               F(2, "optional", "message", "Inner", Absent),
               F(3, "packed", "scalar", Absent, Absent),
               F(4, "repeated", "message", "Leaf", Absent),
               F(15, "optional", "bytes", Absent, "c"),
               F(16, "optional", "message", "Leaf", "c") >>]

Varint(tag, v)    == [tag |-> tag, wire |-> "varint", data |-> <<v>>, sub |-> <<>>]
Length(tag, data) == [tag |-> tag, wire |-> "len", data |-> data, sub |-> <<>>]
Embed(tag, sub)   == [tag |-> tag, wire |-> "len", data |-> <<>>, sub |-> sub]
Bad               == [tag |-> 1, wire |-> "bad", data |-> <<>>, sub |-> <<>>]

\* Members of Leaf, Inner and Top.
Leaves == {<<>>, <<Varint(1, 7)>>, <<Varint(1, 7), Varint(1, 8)>>, <<Length(1, <<7>>)>>}
Inners == {<<>>, <<Varint(2, 1)>>, <<Length(1, <<1>>), Varint(2, 3)>>, <<Length(3, <<2>>)>>,
           <<Varint(2, 1), Length(4, <<1>>)>>, <<Length(3, <<2>>), Length(4, <<2>>), Length(4, <<>>)>>,
           <<Varint(2, 2), Embed(5, <<Varint(1, 7)>>)>>,
           <<Length(3, <<1>>), Embed(5, <<>>), Varint(9, 1)>>}
Pieces == {Embed(2, m) : m \in Inners}
Plain  == {Varint(1, 127), Varint(1, -2), Varint(9, 1), Length(2048, <<2, 0, 255>>), Bad, Length(1, <<1>>)}
Lists  == {Varint(3, 0), Length(3, <<>>), Length(3, <<2, 3>>), Length(3, <<2, Cut>>)}
Oneofs == {Length(15, <<>>), Length(15, <<1>>), Varint(15, 1)} \cup {Embed(16, m) : m \in Leaves}
Tops   == Plain \cup Lists \cup Oneofs \cup Pieces \cup {Embed(4, m) : m \in Leaves}

One == Varint(1, 128)

\* Members whose length takes two bytes.
Long == {Length(3, [i \in 1 .. 13 |-> -i]), Embed(2, <<Length(1, [i \in 1 .. 126 |-> 9])>>),
         Length(15, [i \in 1 .. 127 |-> 9]), Length(15, [i \in 1 .. 128 |-> 9])}

MCInputs ==
  {<<>>} \cup {<<a>> : a \in Tops} \cup {<<a, b>> : a, b \in Tops}
    \cup {<<One, a, Varint(1, 16384)>> : a \in Long}
    \cup {<<One, a, b, c>> : a, b, c \in Tops}
    \cup {<<One, One, One, One, One, One, One, a>> : a \in Tops}
=============================================================================
