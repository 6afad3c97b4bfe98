--------------------------- MODULE MCFlatccSession ---------------------------
(* Small documents for FlatccSession: strings, structs and unions (a), a     *)
(* nested buffer whose table shares a vtable with its parent's (b), vectors  *)
(* of strings and unions (c), of eight and of two byte elements (e), of      *)
(* tables with one vtable (g), and what is built after any of them (f).      *)
EXTENDS FlatccReadback

Table(in, fields) == [kind |-> "table", in |-> in, by |-> "start", fields |-> fields]
Buffer(in, root, block) == [kind |-> "buffer", in |-> in, root |-> root, block_align |-> block, by |-> "start"]
String(in, by, data) == [kind |-> "string", in |-> in, by |-> by, data |-> data]
Struct(in, by, data, align) == [by |-> by, kind |-> "struct", in |-> in, data |-> data, align |-> align]
Vector(in, by, elems, align) == [by |-> by, kind |-> "vector", in |-> in, elems |-> elems, align |-> align]
Offsets(in, to) == [kind |-> "offsets", in |-> in, by |-> "start", to |-> to]
Unions(in, elems) == [kind |-> "unions", in |-> in, elems |-> elems, by |-> "start"]
Inline(id, data, align) == [kind |-> "inline", id |-> id, data |-> data, align |-> align]
Offset(id, to) == [kind |-> "offset", id |-> id, to |-> to]
Union(id, type, to) == [kind |-> "union", id |-> id, type |-> type, to |-> to]
UnionVector(id, to) == [kind |-> "union_vector", id |-> id, to |-> to]

MCDoc ==
    [a  |-> Buffer(None, "ta", 8),
     ta |-> Table("a", <<Inline(0, <<1, 2>>, 2), Offset(1, "sa"), Union(3, 1, "xa")>>),
     sa |-> String("a", "start", <<3, 4, 5>>),
     xa |-> Struct("a", "create", <<4, 5>>, 2),
     b  |-> Buffer(None, "tb", 0),
     tb |-> Table("b", <<Offset(0, "n"), Offset(2, "tc")>>),
     tc |-> Table("b", <<Inline(1, <<3>>, 1)>>),
     n  |-> Buffer("b", "tn", 0),
     tn |-> Table("n", <<Inline(1, <<5>>, 1)>>),
     c  |-> Buffer(None, "td", 0),
     td |-> Table("c", <<Offset(0, "vs"), UnionVector(2, "vu")>>),
     vs |-> Offsets("c", <<"sd", "sd">>),
     vu |-> Unions("c", <<[type |-> 2, to |-> "sd"], [type |-> 0, to |-> "sd"]>>),
     sd |-> String("c", "create", <<2>>),
     e  |-> Buffer(None, "te", 0),
     te |-> Table("e", <<Offset(0, "vw"), Offset(3, "ve")>>),
     vw |-> Vector("e", "start", <<<<1, 2, 3, 4, 5, 0, 1, 2>>>>, 8),
     ve |-> Vector("e", "create", <<<<1, 2>>, <<3, 4>>, <<5, 1>>>>, 2),
     g  |-> Buffer(None, "tg", 0),
     tg |-> Table("g", <<Offset(1, "vt")>>),
     vt |-> Offsets("g", <<"th", "ti">>),
     th |-> Table("g", <<Inline(0, <<2>>, 1)>>),
     ti |-> Table("g", <<Inline(0, <<4>>, 1)>>),
     f  |-> Buffer(None, "tf", 0),
     tf |-> Table("f", <<Inline(1, <<3>>, 1), Union(3, 2, "xf")>>),
     xf |-> Struct("f", "start", <<5, 0, 4, 0>>, 4)]
MCPages == 1 .. 6
=============================================================================
