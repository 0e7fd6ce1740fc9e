----------------------------- MODULE NomReader ------------------------------
(***************************************************************************)
(* tezos/encoding/src/nom.rs and encoding-derive/src/nom.rs: the readers   *)
(* derived for a type, on nom's combinators (external: nom 6.1.2).         *)
(*                                                                         *)
(* A parser answers "ok" with data and the rest of the input, "error" (an  *)
(* alternative or the end of a list may recover from it), "incomplete"     *)
(* (more input could help) or "failure" (final).  The kind of the topmost  *)
(* error is kept: `bounded' and the unknown tag look at it.                *)
(***************************************************************************)
EXTENDS BinaryWriter

Done(v, rest) == [r |-> "ok", v |-> v, rest |-> rest]
Error(kind) == [r |-> "error", kind |-> kind]
Failure(kind) == [r |-> "failure", kind |-> kind]
Incomplete == [r |-> "incomplete"]

Drop(i, n) == SubSeq(i, n + 1, Len(i))

take(i, n) == IF Len(i) < n THEN Error("Eof") ELSE Done(SubSeq(i, 1, n), Drop(i, n))

MapOk(p, v) == IF p.r = "ok" THEN Done(v, p.rest) ELSE p

complete(p) == IF p = Incomplete THEN Error("Complete") ELSE p

all_consuming(p) == IF p.r = "ok" /\ p.rest # <<>> THEN Error("Eof") ELSE p

(* branch::alt on its last alternative.                                    *)
alt(p) == IF p.r = "error" THEN Error("Alt") ELSE p

AddContext(p, kind) == IF p.r \in {"error", "failure"} THEN [p EXCEPT !.kind = kind]
                       ELSE p

-----------------------------------------------------------------------------
(* Sizes are four bytes; what exceeds every input is HugeSize.             *)

HugeSize == 2 ^ 30

size(i) ==
    LET p == take(i, 4)
        n == IF p.v[1] >= 64 THEN HugeSize
             ELSE p.v[1] * 2 ^ 24 + p.v[2] * 65536 + p.v[3] * 256 + p.v[4]
    IN IF p.r = "ok" THEN Done(n, p.rest) ELSE p

(* Mutant: a size at the limit is refused.                                 *)
bounded_size_strict(i, max) ==
    LET p == size(i)
    IN IF p.r = "ok" /\ max # NoMax /\ p.v >= max THEN Error("Boundary") ELSE p

bounded_size(i, max) ==
    LET p == size(i)
    IN IF p.r = "ok" /\ max # NoMax /\ p.v > max THEN Error("Boundary") ELSE p

boolean(i) ==
    CASE i = <<>> -> alt(Error("Tag"))
      [] i # <<>> /\ Head(i) \in {0, 255} ->
           Done(BoolData(Head(i) = 255), Tail(i))
      [] OTHER -> alt(Error("Tag"))

IsUtf8(s) == \A i \in DOMAIN s : s[i] < 128        \* single-byte characters

(* string and bounded_string: complete(length_data(size)), then from_utf8. *)
string(i, max) ==
    LET n == bounded_size(i, max)
        text == SubSeq(n.rest, 1, n.v)
    IN CASE n.r # "ok" -> n
         [] n.r = "ok" /\ Len(n.rest) < n.v -> complete(Incomplete)
         [] OTHER -> IF IsUtf8(text) THEN Done(StringData(text), Drop(n.rest, n.v))
                     ELSE Error("Utf8")

-----------------------------------------------------------------------------
(* zarith and mutez                                                        *)

RECURSIVE SevenBits(_)
SevenBits(i) ==
    IF i = <<>> THEN Error("Eof")
    ELSE LET bits == SubSeq(BitsOf(<<Head(i)>>), 1, 7)
             others == SevenBits(Tail(i))
         IN CASE Head(i) < 128 -> Done(bits, Tail(i))
              [] Head(i) >= 128 /\ others.r = "ok" ->
                   Done(bits \o others.v, others.rest)
              [] OTHER -> others

(* BigInt::from_bytes_be of the padded bits: no leading zero bytes.        *)
FromBits(neg, bits) ==
    LET mag == trim_left(bits)
        n == (Len(mag) + 7) \div 8
        byte(j) == BitsValue(SubSeq(mag, 8 * j + 1, Min({8 * j + 8, Len(mag)})))
    IN IF mag = <<>> THEN BigIntData(FALSE, <<0>>)
       ELSE BigIntData(neg, [k \in 1 .. n |-> byte(n - k)] \o <<>>)

zarith(i) ==
    LET bits == BitsOf(<<Head(i)>>)
        others == SevenBits(Tail(i))
        neg == bits[7] = 1
    IN CASE i = <<>> -> Error("Eof")
         [] i # <<>> /\ Head(i) < 128 ->
              Done(FromBits(neg, SubSeq(bits, 1, 6)), Tail(i))
         [] i # <<>> /\ Head(i) >= 128 /\ others.r = "ok" ->
              Done(FromBits(neg, SubSeq(bits, 1, 6) \o others.v), others.rest)
         [] OTHER -> others

mutez(i) ==
    LET p == SevenBits(i)
    IN IF p.r = "ok" THEN Done(FromBits(FALSE, p.v), p.rest) ELSE p

-----------------------------------------------------------------------------
(* operations_for_blocks.rs: the sides down to the zero byte, then the     *)
(* hashes of the left turns, the deepest first.                            *)

PathHashSize == HashTypeSize["OperationListListHash"]

RECURSIVE PathNodes(_)          \* many_till(alt((path_left, path_right)), path_op)
PathNodes(i) ==
    LET right == take(Tail(i), PathHashSize)
        others == PathNodes(IF Head(i) = 240 THEN Tail(i) ELSE right.rest)
        node == IF Head(i) = 240 THEN [side |-> "Left", hash |-> <<>>]
                ELSE [side |-> "Right", hash |-> right.v]
    IN CASE i = <<>> -> Error("ManyTill")
         [] i # <<>> /\ Head(i) = 0 -> Done(<<>>, Tail(i))
         [] i # <<>> /\ (Head(i) = 240 \/ (Head(i) = 15 /\ right.r = "ok")) ->
              IF others.r = "ok" THEN Done(<<node>> \o others.v, others.rest)
              ELSE others
         [] OTHER -> Error("ManyTill")

RECURSIVE path_complete(_, _)
path_complete(nodes, i) ==
    LET h == take(i, PathHashSize)
        left == Last(nodes).side = "Left"
        others == path_complete(Front(nodes), IF left THEN h.rest ELSE i)
        item == IF left THEN [side |-> "Left", hash |-> h.v] ELSE Last(nodes)
    IN CASE nodes = <<>> -> Done(<<>>, i)
         [] nodes # <<>> /\ left /\ h.r # "ok" -> h
         [] OTHER -> IF others.r = "ok" THEN Done(Append(others.v, item), others.rest)
                     ELSE others

PathRead(i) ==
    LET nodes == PathNodes(i)
        path == path_complete(nodes.v, nodes.rest)
    IN CASE nodes.r # "ok" -> nodes
         [] nodes.r = "ok" /\ Len(nodes.v) > MAX_PASS_MERKLE_DEPTH -> Error("Verify")
         [] OTHER -> MapOk(path, PathData(path.v))

-----------------------------------------------------------------------------
(* encoding-derive/src/nom.rs                                              *)

PrimitiveReads ==
    [Int8 |-> "i8", Uint8 |-> "u8", Int16 |-> "i16", Uint16 |-> "u16",
     Int31 |-> "i32", Int32 |-> "i32", Uint32 |-> "u32", Int64 |-> "i64",
     Timestamp |-> "i64"]

Width == [i8 |-> 1, u8 |-> 1, i16 |-> 2, u16 |-> 2, i32 |-> 4, u32 |-> 4, i64 |-> 8]

primitive(kind, i) ==
    IF kind = "Bool" THEN boolean(i)
    ELSE LET p == take(i, Width[PrimitiveReads[kind]])
         IN MapOk(p, IntData(PrimitiveReads[kind], p.v))

RECURSIVE nom_read(_, _)

(* fold_many0 and fold_many_m_n: an error ends the list before the failed  *)
(* element, an element that consumes nothing is an error.                  *)
RECURSIVE fold_many(_, _, _, _)
fold_many(e, max, items, i) ==
    LET p == nom_read(e, i)
    IN CASE Len(items) = max -> Done(items, i)
         [] Len(items) # max /\ p.r = "error" -> Done(items, i)
         [] Len(items) # max /\ p.r = "ok" ->
              IF Len(p.rest) = Len(i) THEN Error("Many")
              ELSE fold_many(e, max, Append(items, p.v), p.rest)
         [] OTHER -> p

list(e, max, i) ==
    LET p == fold_many(e, max, <<>>, i)
    IN IF p.r = "ok" /\ max # NoMax /\ p.rest # <<>> THEN Error("Boundary")
       ELSE MapOk(p, VecData(p.v))

(* sized: what the inner parser leaves of its slice is dropped.            *)
sized(e, n, i) ==
    LET slice == take(i, n)
        p == nom_read(e, slice.v)
    IN IF slice.r # "ok" THEN slice
       ELSE IF p.r = "ok" THEN Done(p.v, slice.rest) ELSE p

optional_field(e, i) ==
    LET p == nom_read(e, Tail(i))
    IN CASE i # <<>> /\ Head(i) = 0 -> Done(NoneData, Tail(i))
         [] i # <<>> /\ Head(i) = 255 -> alt(MapOk(p, SomeData(p.v)))
         [] OTHER -> alt(Error("Tag"))

(* Mutant: what the inner parser leaves is dropped.                        *)
dynamic_lax(e, max, i) ==
    LET n == bounded_size(i, max)
        p == complete(nom_read(e, SubSeq(n.rest, 1, n.v)))
    IN CASE n.r # "ok" -> n
         [] n.r = "ok" /\ Len(n.rest) < n.v -> Incomplete
         [] OTHER -> IF p.r = "ok" THEN Done(p.v, Drop(n.rest, n.v)) ELSE p

(* dynamic and bounded_dynamic: length_value(size, all_consuming(f)).      *)
dynamic(e, max, i) ==
    LET n == bounded_size(i, max)
        p == complete(all_consuming(nom_read(e, SubSeq(n.rest, 1, n.v))))
    IN CASE n.r # "ok" -> n
         [] n.r = "ok" /\ Len(n.rest) < n.v -> Incomplete
         [] OTHER -> IF p.r = "ok" THEN Done(p.v, Drop(n.rest, n.v)) ELSE p

bounded(e, max, i) ==
    LET m == Min({max, Len(i)})
        p == nom_read(e, SubSeq(i, 1, m))
    IN CASE p.r = "ok" -> Done(p.v, Drop(i, m - Len(p.rest)))
         [] p.r = "error" /\ p.kind = "Eof" -> Error("Boundary")
         [] OTHER -> p

RECURSIVE struct_fields(_, _, _)
struct_fields(fields, vals, i) ==
    IF fields = <<>> THEN Done(StructData(vals), i)
    ELSE LET p == AddContext(nom_read(Head(fields).enc, i), "Field")
         IN IF p.r # "ok" THEN p
            ELSE struct_fields(Tail(fields),
                               Append(vals, [name |-> Head(fields).name,
                                             val |-> p.v]), p.rest)

enum(e, i) ==
    LET t == take(i, e.tagSize)
        id == IF e.tagSize = 1 THEN t.v[1] ELSE t.v[1] * 256 + t.v[2]
        known == {k \in DOMAIN e.tags : e.tags[k].id = id}
        tag == e.tags[Min(known)]
        p == AddContext(nom_read(tag.enc, t.rest), "Variant")
    IN CASE t.r # "ok" -> t
         [] t.r = "ok" /\ known = {} ->
              Failure(IF e.ignore THEN "UnknownTag" ELSE "InvalidTag")
         [] OTHER ->
              IF tag.enc.k = "Unit" THEN Done(UnitVariant(tag.name), t.rest)
              ELSE MapOk(p, NewtypeVariant(tag.name, p.v))

(* `<Path as NomReader>::nom_read' of a named type.                        *)
read_type(ty, i) ==
    CASE ty.rust \in {"struct", "enum"} -> nom_read(make_encoding(ty), i)
      [] ty.rust = "hash" -> LET p == take(i, HashTypeSize[ty.hash])
                             IN MapOk(p, HashData(p.v))
      [] ty.rust = "Path" -> PathRead(i)
      [] ty.rust = "Zarith" -> zarith(i)
      [] ty.rust = "Mutez" -> mutez(i)

nom_read(e, i) ==
    CASE e.k = "Primitive" -> primitive(e.kind, i)
      [] e.k = "Bytes" -> Done(BytesData(i), <<>>)
      [] e.k = "Path" -> read_type(e.of, i)
      [] e.k = "Zarith" -> zarith(i)
      [] e.k = "MuTez" -> mutez(i)
      [] e.k = "String" -> string(i, e.max)
      [] e.k = "OptionField" -> optional_field(e.of, i)
      [] e.k = "List" -> list(e.of, e.max, i)
      [] e.k = "Sized" -> sized(e.of, e.size, i)
      [] e.k = "Bounded" -> bounded(e.of, e.max, i)
      [] e.k = "Dynamic" -> dynamic(e.of, e.max, i)
      [] e.k = "Struct" -> struct_fields(e.fields, <<>>, i)
      [] e.k = "Enum" -> enum(e, i)

-----------------------------------------------------------------------------
(* messages/src/p2p/binary_message.rs                                      *)

as_bytes(ty, d) == write(d, HasEncoding(ty))

from_bytes(ty, bytes) == all_consuming(complete(read_type(ty, bytes)))

(* map_nom_error: only the topmost kind is looked at.                      *)
get_unknown_tag(p) == p.r # "ok" /\ p.kind = "UnknownTag"

=============================================================================
