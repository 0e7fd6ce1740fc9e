---------------------------- MODULE BinaryWriter ----------------------------
(***************************************************************************)
(* tezos/encoding/src/{ser,binary_writer,types,bit_utils}.rs: Rust data    *)
(* becomes a Value, and a Value is written with a schema.                  *)
(*                                                                         *)
(* Data carries its Rust type in the field t, as serde's derives do:       *)
(* integers their big-endian bytes, so that widths and signs are exact.    *)
(* The source appends to one buffer and returns how many bytes it added;   *)
(* here a call returns the bytes themselves, and their number is that      *)
(* size.  A failed call fails the whole message.                           *)
(***************************************************************************)
EXTENDS Encoding

IntData(t, be) == [t |-> t, be |-> be]
U8(n) == IntData("u8", <<n>>)
BoolData(b) == [t |-> "bool", b |-> b]
StringData(s) == [t |-> "String", s |-> s]
HashData(bytes) == [t |-> "hash", bytes |-> bytes]
VecData(items) == [t |-> "Vec", items |-> items]
BytesData(bytes) == VecData([i \in DOMAIN bytes |-> U8(bytes[i])])
NoneData == [t |-> "Option", some |-> <<>>]
SomeData(d) == [t |-> "Option", some |-> <<d>>]
StructData(fields) == [t |-> "struct", fields |-> fields]
UnitVariant(name) == [t |-> "unit_variant", name |-> name]
NewtypeVariant(name, d) == [t |-> "newtype_variant", name |-> name, inner |-> d]
PathData(items) == [t |-> "Path", items |-> items]
BigIntData(neg, be) == [t |-> "BigInt", neg |-> neg, be |-> be]

IsError(v) == v.v = "Error"
SerError == [v |-> "Error"]

SerInt ==
    [i8 |-> "Int8", u8 |-> "Uint8", i16 |-> "Int16", u16 |-> "Uint16",
     i32 |-> "Int32", i64 |-> "Int64"]

-----------------------------------------------------------------------------
(* ser.rs.  One failing element fails the sequence, the struct, the value. *)

Collect(vs, v) == IF \E i \in DOMAIN vs : IsError(vs[i]) THEN SerError ELSE v

ByteValues(bytes) ==
    [v |-> "List",
     items |-> [i \in DOMAIN bytes |-> [v |-> "Uint8", be |-> <<bytes[i]>>]]]

(* serialize_u32: above i32::MAX the value becomes an Int64.               *)
serialize_u32(be) ==
    IF be[1] < 128 THEN [v |-> "Int32", be |-> be]
    ELSE [v |-> "Int64", be |-> <<0, 0, 0, 0>> \o be]

RECURSIVE serialize(_)
serialize(d) ==
    CASE d.t \in DOMAIN SerInt -> [v |-> SerInt[d.t], be |-> d.be]
      [] d.t = "u32" -> serialize_u32(d.be)
      [] d.t = "bool" -> [v |-> "Bool", b |-> d.b]
      [] d.t = "String" -> [v |-> "String", s |-> d.s]
      [] d.t = "hash" -> ByteValues(d.bytes)
      [] d.t = "Vec" ->
           LET vs == [i \in DOMAIN d.items |-> serialize(d.items[i])] \o <<>>
           IN Collect(vs, [v |-> "List", items |-> vs])
      [] d.t = "Option" ->
           LET vs == [i \in DOMAIN d.some |-> serialize(d.some[i])] \o <<>>
           IN Collect(vs, [v |-> "Option", some |-> vs])
      [] d.t = "struct" ->
           LET vs == [i \in DOMAIN d.fields |-> serialize(d.fields[i].val)]
                         \o <<>>
           IN Collect(vs,
                  [v |-> "Record",
                   fields |-> [i \in DOMAIN vs |->
                                  [name |-> d.fields[i].name, val |-> vs[i]]]])
      [] d.t = "unit_variant" -> [v |-> "Enum", name |-> d.name]
      [] d.t = "newtype_variant" ->
           LET inner == serialize(d.inner)
           IN Collect(<<inner>>,
                      [v |-> "Tag", name |-> d.name, inner |-> inner])
      [] d.t = "Path" ->           \* `impl Serialize for Path'
           IF Len(d.items) > MAX_PASS_MERKLE_DEPTH THEN SerError
           ELSE [v |-> "List",
                 items |-> [i \in DOMAIN d.items |->
                               [v |-> "Tag", name |-> d.items[i].side,
                                inner |-> ByteValues(d.items[i].hash)]]]
      [] d.t = "BigInt" ->         \* the digits of to_str_radix(16)
           [v |-> "HexString", neg |-> d.neg, be |-> d.be]

-----------------------------------------------------------------------------
(* Results of the writer.                                                  *)

Ok(data) == [ok |-> TRUE, data |-> data]
Err == [ok |-> FALSE, data |-> <<>>]
OkIf(cond, data) == IF cond THEN Ok(data) ELSE Err

Size32(n) == <<0, (n \div 65536) % 256, (n \div 256) % 256, n % 256>>

write_tag_id(tagSize, id) ==
    CASE tagSize = 1 -> Ok(<<id % 256>>)
      [] tagSize = 2 -> Ok(<<id \div 256, id % 256>>)
      [] OTHER -> Err

(* Bits, least significant first; the source pops them off a BitVec.       *)
BitsOf(be) == [i \in 1 .. 8 * Len(be) |->
                  (be[Len(be) - ((i - 1) \div 8)] \div 2 ^ ((i - 1) % 8)) % 2]

trim_left(bits) ==
    LET ones == {i \in DOMAIN bits : bits[i] = 1}
    IN SubSeq(bits, 1, IF ones = {} THEN 0 ELSE Max(ones))

RECURSIVE BitsValue(_)
BitsValue(bits) == IF bits = <<>> THEN 0 ELSE Head(bits) + 2 * BitsValue(Tail(bits))

RECURSIVE Chunks7(_)
Chunks7(bits) ==
    IF Len(bits) <= 7 THEN <<BitsValue(bits)>>
    ELSE <<128 + BitsValue(SubSeq(bits, 1, 7))>>
             \o Chunks7(SubSeq(bits, 8, Len(bits)))

(* The first byte holds six bits, a sign and a continuation bit, the next  *)
(* ones seven bits and a continuation bit.                                 *)
encode_z(neg, be) ==
    LET sign == IF neg THEN 64 ELSE 0
        bits == trim_left(BitsOf(be))
    IN IF Len(be) = 1 /\ be[1] <= 63 THEN <<be[1] + sign>>
       ELSE <<128 + sign + BitsValue(SubSeq(bits, 1, 6))>>
                \o Chunks7(SubSeq(bits, 7, Len(bits)))

-----------------------------------------------------------------------------
(* operations_for_blocks.rs, PathCodec: sides and the hashes of right      *)
(* turns downwards, a zero byte, then the hashes of left turns upwards.    *)

ItemBytes(item) == [i \in DOMAIN item.inner.items |-> item.inner.items[i].be[1]]

(* Mutant: the hashes of the left turns in the order of the turns.         *)
PathCodecEncodeDown(v) ==
    LET head(item) == IF item.name = "Left" THEN <<240>>
                      ELSE <<15>> \o ItemBytes(item)
        tail(item) == IF item.name = "Left" THEN ItemBytes(item) ELSE <<>>
    IN IF v.v # "List" THEN Err
       ELSE Ok(FlattenSeq([i \in DOMAIN v.items |-> head(v.items[i])])
                   \o <<0>> \o FlattenSeq([i \in DOMAIN v.items |-> tail(v.items[i])]))

PathCodecEncode(v) ==
    LET head(item) == IF item.name = "Left" THEN <<240>>
                      ELSE <<15>> \o ItemBytes(item)
        tail(item) == IF item.name = "Left" THEN ItemBytes(item) ELSE <<>>
        up == Reverse(v.items)
    IN IF v.v # "List" THEN Err
       ELSE Ok(FlattenSeq([i \in DOMAIN v.items |-> head(v.items[i])])
                   \o <<0>> \o FlattenSeq([i \in DOMAIN up |-> tail(up[i])]))

-----------------------------------------------------------------------------
(* binary_writer.rs, encode_value by the kind of the encoding.             *)

encode_number(v, e) ==
    CASE e.k \in {"Int8", "Uint8", "Int16", "Uint16", "Int32"} ->
           IF v.v = e.k THEN Ok(v.be) ELSE Err
      [] e.k \in {"Int64", "Timestamp"} -> IF v.v = "Int64" THEN Ok(v.be) ELSE Err
      [] e.k \in {"Int31", "Uint32"} ->
           IF v.v = "Int32" /\ v.be[1] < 128 THEN Ok(v.be) ELSE Err
      [] e.k = "Bool" ->
           IF v.v = "Bool" THEN Ok(IF v.b THEN <<255>> ELSE <<0>>) ELSE Err
      [] e.k \in {"Z", "Mutez"} ->
           IF v.v = "HexString" THEN Ok(encode_z(v.neg, v.be)) ELSE Err

encode_string(v, e) ==
    IF v.v # "String" \/ (e.k = "BoundedString" /\ Len(v.s) > e.max) THEN Err
    ELSE Ok(Size32(Len(v.s)) \o v.s)

encode_bytes(v, e) ==
    IF v.v # "List" \/ \E i \in DOMAIN v.items : v.items[i].v # "Uint8" THEN Err
    ELSE OkIf(e.k = "Hash" => Len(v.items) = HashTypeSize[e.hash],
              [i \in DOMAIN v.items |-> v.items[i].be[1]] \o <<>>)

find_value_in_record_values(name, fields) ==
    LET found == {i \in DOMAIN fields : fields[i].name = name}
    IN IF found = {} THEN SerError ELSE fields[Min(found)].val

find_by_variant(tags, name) == {i \in DOMAIN tags : tags[i].variant = name}

RECURSIVE encode_value(_, _)

(* The elements of a list, or the fields of a record, one after another.   *)
RECURSIVE encode_each(_, _)
encode_each(vs, es) ==
    IF es = <<>> THEN Ok(<<>>)
    ELSE LET first == IF IsError(Head(vs)) THEN Err
                      ELSE encode_value(Head(vs), Head(es))
             others == encode_each(Tail(vs), Tail(es))
         IN IF first.ok /\ others.ok THEN Ok(first.data \o others.data) ELSE Err

encode_record(v, e) ==
    IF v.v # "Record" THEN Err
    ELSE encode_each([i \in DOMAIN e.fields |->
                         find_value_in_record_values(e.fields[i].name, v.fields)],
                     [i \in DOMAIN e.fields |-> e.fields[i].enc])

encode_list(v, e) ==
    IF v.v # "List" \/ (e.k = "BoundedList" /\ Len(v.items) > e.max) THEN Err
    ELSE encode_each(v.items, [i \in DOMAIN v.items |-> e.of])

encode_optional_field(v, e) ==
    CASE v.v # "Option" -> Err
      [] v.v = "Option" /\ v.some = <<>> -> Ok(<<0>>)
      [] OTHER -> LET r == encode_value(v.some[1], e.of)
                  IN OkIf(r.ok, <<255>> \o r.data)

(* The size is a placeholder until the inner value is written.             *)
encode_dynamic(v, e) ==
    LET r == encode_value(v, e.of)
    IN OkIf(r.ok /\ (e.k = "BoundedDynamic" => Len(r.data) <= e.max),
            Size32(Len(r.data)) \o r.data)

encode_limited(v, e) ==
    LET r == encode_value(v, e.of)
    IN OkIf(r.ok /\ IF e.k = "Sized" THEN Len(r.data) = e.size
                    ELSE Len(r.data) <= e.max, r.data)

encode_tags(v, e) ==
    LET tag == e.tags[Min(find_by_variant(e.tags, v.name))]
        id == write_tag_id(e.tagSize, tag.id)
        inner == IF v.v = "Enum" THEN Ok(<<>>) ELSE encode_value(v.inner, tag.enc)
    IN IF v.v \notin {"Tag", "Enum"} \/ find_by_variant(e.tags, v.name) = {}
       THEN Err
       ELSE OkIf(id.ok /\ inner.ok, id.data \o inner.data)

encode_value(v, e) ==
    CASE e.k = "Unit" -> Ok(<<>>)
      [] e.k \in {"String", "BoundedString"} -> encode_string(v, e)
      [] e.k \in {"List", "BoundedList"} -> encode_list(v, e)
      [] e.k \in {"Bytes", "Hash"} -> encode_bytes(v, e)
      [] e.k = "OptionalField" -> encode_optional_field(v, e)
      [] e.k \in {"Dynamic", "BoundedDynamic"} -> encode_dynamic(v, e)
      [] e.k \in {"Sized", "Bounded"} -> encode_limited(v, e)
      [] e.k = "Tags" -> encode_tags(v, e)
      [] e.k = "PathCodec" -> PathCodecEncode(v)
      [] e.k = "Obj" -> encode_record(v, e)
      [] OTHER -> encode_number(v, e)

write(d, e) ==
    LET v == serialize(d) IN IF IsError(v) THEN Err ELSE encode_value(v, e)

=============================================================================
