-------------------------- MODULE ProtobufMeaning --------------------------
(***************************************************************************)
(* What serialised data means, by the rules of the format and without any  *)
(* of the machinery of unpack: the last value of a field counts, embedded  *)
(* messages given several times are one message made of all their members, *)
(* and repeated fields are strung together.                                *)
(***************************************************************************)
EXTENDS ProtobufMessage

Of(f, members) == SelectSeq(members, LAMBDA s : s.tag = f.id)
Data(f, members)     == [i \in DOMAIN Of(f, members) |-> Of(f, members)[i].data]
Embedded(f, members) == [i \in DOMAIN Of(f, members) |-> Of(f, members)[i].sub]

\* The members that go to the place of field f.
Rivals(type, f, members) ==
  SelectSeq(members, LAMBDA s : HasField(type, s.tag) /\ Slot(FieldOf(type, s.tag)) = Slot(f))

\* A wire type that the field's kind allows, and a packed field that is whole.
Matches(f, s) ==
  IF Packable(f)
  THEN \/ s.wire = "varint"
       \/ s.wire = "len" /\ Repeated(f) /\ Cut \notin ToSet(s.data)
  ELSE s.wire = "len"

RECURSIVE WellFormed(_, _)
WellFormed(type, members) ==
  /\ Len(members) <= SlabCapacity
  /\ \A s \in ToSet(members) :
       /\ s.wire # "bad"
       /\ HasField(type, s.tag) =>
            LET f == FieldOf(type, s.tag)
            IN  Matches(f, s) /\ (f.kind = "message" => WellFormed(f.sub, s.sub))
  /\ \A f \in Fields(type) : f.label = "required" => Of(f, members) # <<>>

RECURSIVE Meaning(_, _)
Meaning(type, members) ==
  LET IsSet(f) ==
        /\ Of(f, members) # <<>>
        /\ Last(Rivals(type, f, members)).tag = f.id
        /\ Repeated(f) /\ Packable(f) => Flatten(Data(f, members)) # <<>>
      Value(f) ==
        CASE f.kind = "message" /\ Repeated(f) ->
               [i \in DOMAIN Of(f, members) |-> Meaning(f.sub, Of(f, members)[i].sub)]
          [] f.kind = "message" /\ ~Repeated(f) /\ IsOneof(f) ->
               Meaning(f.sub, Last(Embedded(f, members)))
          [] f.kind = "message" /\ ~Repeated(f) /\ ~IsOneof(f) ->
               Meaning(f.sub, Flatten(Embedded(f, members)))
          [] Packable(f) /\ Repeated(f)  -> Flatten(Data(f, members))
          [] Packable(f) /\ ~Repeated(f) -> Last(Data(f, members))[1]
          [] f.kind \in {"string", "bytes"} ->
               IF Repeated(f) THEN Data(f, members) ELSE Last(Data(f, members))
  IN  [id \in {f.id : f \in {g \in Fields(type) : IsSet(g)}} |-> Value(FieldOf(type, id))]

\* Data that the format allows and merge_messages does not: an embedded message
\* given twice that leaves a oneof unset both times.
RECURSIVE UnsetTwice(_, _)
UnsetTwice(type, members) ==
  \E f \in Fields(type) :
    /\ f.kind = "message"
    /\ LET each == Embedded(f, members)
           both == each[1] \o each[2]
       IN  \/ \E m \in ToSet(each) : UnsetTwice(f.sub, m)
           \/ /\ ~Repeated(f) /\ ~IsOneof(f) /\ Len(each) > 1
              /\ \/ UnsetTwice(f.sub, both)
                 \/ \E g \in Fields(f.sub) : IsOneof(g) /\ Rivals(f.sub, g, both) = <<>>
=============================================================================
