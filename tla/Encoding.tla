------------------------------ MODULE Encoding ------------------------------
(***************************************************************************)
(* tezos_encoding and encoding-derive: how a Rust type becomes bytes and   *)
(* bytes become the type again.                                            *)
(*                                                                         *)
(*   declaration --make_encoding--> derived encoding                       *)
(*   derived encoding --generate_encoding--> schema of the binary writer   *)
(*   data --Serialize--> Value --encode_value with the schema--> bytes     *)
(*   bytes --nom_read of the derived encoding--> data                      *)
(*                                                                         *)
(* Writer and reader share only the derived encoding; the writer works on  *)
(* untyped Values with a schema, the reader on nom's combinators.  Fixed   *)
(* width integers are their big-endian bytes, so that all widths and signs *)
(* are exact.  Data is self-describing, as it is to serde.                 *)
(***************************************************************************)
EXTENDS Limits, Sequences, SequencesExt

NoMax == -1                  \* an attribute without a parameter

Byte == 0 .. 255

-----------------------------------------------------------------------------
(* Declarations: Rust types and the #[encoding(...)] attributes.           *)

Rust(name) == [rust |-> name]
VecOf(ty) == [rust |-> "Vec", of |-> ty]
OptionOf(ty) == [rust |-> "Option", of |-> ty]
HashTy(name) == [rust |-> "hash", hash |-> name]

Attr(a) == [a |-> a, p |-> NoMax]
AttrMax(a, max) == [a |-> a, p |-> max]
Builtin(kind) == [a |-> "builtin", kind |-> kind]
Composite(list) == [a |-> "composite", list |-> list]

FieldDecl(name, ty, attrs) == [name |-> name, ty |-> ty, attrs |-> attrs]

StructDecl(attrs, fields) ==
    [rust |-> "struct", attrs |-> attrs, fields |-> fields]

VariantDecl(name, tag, ty) == [name |-> name, tag |-> tag, ty |-> ty]

EnumDecl(tagSize, ignoreUnknown, variants) ==
    [rust |-> "enum", tagSize |-> tagSize, ignore |-> ignoreUnknown,
     variants |-> variants]

-----------------------------------------------------------------------------
(* encoding-derive/src/make.rs: the attributes of a field are a stack, the *)
(* innermost encoding last; every function pops what it recognises.        *)

CompileError == [k |-> "CompileError"]

Prim(kind) == [k |-> "Primitive", kind |-> kind]

RUST_TO_PRIMITIVE_MAPPING ==
    [i8 |-> "Int8", u8 |-> "Uint8", i16 |-> "Int16", u16 |-> "Uint16",
     i32 |-> "Int32", u32 |-> "Uint32", i64 |-> "Int64", bool |-> "Bool"]

has_attribute(meta, name) == meta # <<>> /\ Last(meta).a = name

RECURSIVE make_bounded_encoding(_, _)
make_bounded_encoding(e, meta) ==
    CASE has_attribute(meta, "sized") ->
           make_bounded_encoding(
               [k |-> "Sized", size |-> Last(meta).p, of |-> e], Front(meta))
      [] has_attribute(meta, "bounded") ->
           make_bounded_encoding(
               [k |-> "Bounded", max |-> Last(meta).p, of |-> e], Front(meta))
      [] has_attribute(meta, "dynamic") ->
           make_bounded_encoding(
               [k |-> "Dynamic", max |-> Last(meta).p, of |-> e], Front(meta))
      [] OTHER -> <<e, meta>>

make_list_encoding_from_type(e, meta) ==
    CASE has_attribute(meta, "bytes") ->
           <<IF e = Prim("Uint8") THEN [k |-> "Bytes"] ELSE CompileError,
             Front(meta)>>
      [] has_attribute(meta, "list") ->
           <<[k |-> "List", max |-> Last(meta).p, of |-> e], Front(meta)>>
      [] OTHER -> <<[k |-> "List", max |-> NoMax, of |-> e], meta>>

make_list_encoding_from_meta(e, meta) ==
    IF has_attribute(meta, "list")
    THEN <<[k |-> "List", max |-> Last(meta).p, of |-> e], Front(meta)>>
    ELSE <<e, meta>>

make_optional_field_encoding_from_type(e, meta) ==
    <<[k |-> "OptionField", of |-> e],
      IF has_attribute(meta, "option") THEN Front(meta) ELSE meta>>

make_optional_field_encoding_from_meta(e, meta) ==
    IF has_attribute(meta, "option")
    THEN <<[k |-> "OptionField", of |-> e], Front(meta)>>
    ELSE <<e, meta>>

(* The `bytes' of a composite is looked up under the name of `string'.     *)
get_basic_encoding_from_meta(meta) ==
    CASE has_attribute(meta, "string") ->
           <<IF Last(meta).p = NoMax THEN [k |-> "Bytes"] ELSE CompileError,
             Front(meta)>>
      [] has_attribute(meta, "zarith") -> <<[k |-> "Zarith"], Front(meta)>>
      [] has_attribute(meta, "mutez") -> <<[k |-> "MuTez"], Front(meta)>>
      [] has_attribute(meta, "builtin") -> <<Prim(Last(meta).kind), Front(meta)>>
      [] OTHER -> <<CompileError, meta>>

RECURSIVE CompositeLoop(_, _)
CompositeLoop(e, meta) ==
    LET b == make_bounded_encoding(e, meta)
        l == make_list_encoding_from_meta(b[1], b[2])
        o == make_optional_field_encoding_from_meta(l[1], l[2])
    IN CASE Len(o[2]) < Len(meta) -> CompositeLoop(o[1], o[2])
         [] meta = <<>> -> o[1]
         [] OTHER -> CompileError

make_composite_encoding(meta) ==
    LET basic == get_basic_encoding_from_meta(meta)
    IN CompositeLoop(basic[1], basic[2])

make_basic_encoding_from_type(ty, meta) ==
    CASE ty.rust = "String" ->
           IF has_attribute(meta, "string")
           THEN make_bounded_encoding([k |-> "String", max |-> Last(meta).p],
                                      Front(meta))
           ELSE make_bounded_encoding([k |-> "String", max |-> NoMax], meta)
      [] ty.rust = "i64" /\ has_attribute(meta, "timestamp") ->
           make_bounded_encoding(Prim("Timestamp"), Front(meta))
      [] ty.rust \in DOMAIN RUST_TO_PRIMITIVE_MAPPING ->
           LET prim == RUST_TO_PRIMITIVE_MAPPING[ty.rust]
           IN CASE has_attribute(meta, "builtin") ->
                     make_bounded_encoding(
                         IF Last(meta).kind = prim THEN Prim(prim)
                         ELSE CompileError, Front(meta))
                [] has_attribute(meta, "string") -> <<CompileError, meta>>
                [] OTHER -> make_bounded_encoding(Prim(prim), meta)
      [] has_attribute(meta, "builtin") ->
           make_bounded_encoding(Prim(Last(meta).kind), Front(meta))
      [] has_attribute(meta, "composite") ->
           <<make_composite_encoding(Last(meta).list), Front(meta)>>
      [] OTHER -> make_bounded_encoding([k |-> "Path", of |-> ty], meta)

RECURSIVE make_type_encoding(_, _)
make_type_encoding(ty, meta) ==
    IF ty.rust \in {"Vec", "Option"}
    THEN LET inner == make_type_encoding(ty.of, meta)
             outer == IF ty.rust = "Vec"
                      THEN make_list_encoding_from_type(inner[1], inner[2])
                      ELSE make_optional_field_encoding_from_type(inner[1],
                                                                  inner[2])
         IN make_bounded_encoding(outer[1], outer[2])
    ELSE make_basic_encoding_from_type(ty, meta)

make_field(f) ==
    LET e == make_type_encoding(f.ty, f.attrs)
        b == make_bounded_encoding(e[1], e[2])
    IN [name |-> f.name, enc |-> IF b[2] = <<>> THEN b[1] ELSE CompileError]

make_tag(v) ==
    [name |-> v.name, id |-> v.tag,
     enc |-> IF v.ty.rust = "()" THEN [k |-> "Unit"]
             ELSE [k |-> "Path", of |-> v.ty]]

make_encoding(decl) ==
    IF decl.rust = "struct"
    THEN LET e == [k |-> "Struct",
                   fields |-> [i \in DOMAIN decl.fields |->
                                  make_field(decl.fields[i])]]
             b == make_bounded_encoding(e, decl.attrs)
         IN IF b[2] = <<>> THEN b[1] ELSE CompileError
    ELSE [k |-> "Enum", tagSize |-> decl.tagSize, ignore |-> decl.ignore,
          tags |-> [i \in DOMAIN decl.variants |-> make_tag(decl.variants[i])]]

-----------------------------------------------------------------------------
(* encoding-derive/src/enc.rs: the schema of the binary writer.            *)

RECURSIVE generate_encoding(_)

HasEncoding(ty) ==
    CASE ty.rust \in {"struct", "enum"} -> generate_encoding(make_encoding(ty))
      [] ty.rust = "hash" -> [k |-> "Hash", hash |-> ty.hash]
      [] ty.rust = "Path" -> [k |-> "PathCodec"]
      [] ty.rust = "Zarith" -> [k |-> "Z"]
      [] ty.rust = "Mutez" -> [k |-> "Mutez"]

generate_encoding(e) ==
    CASE e.k = "Unit" -> [k |-> "Unit"]
      [] e.k = "Primitive" -> [k |-> e.kind]
      [] e.k = "Bytes" -> [k |-> "Bytes"]
      [] e.k = "Path" -> HasEncoding(e.of)
      [] e.k = "Zarith" -> [k |-> "Z"]
      [] e.k = "MuTez" -> [k |-> "Mutez"]
      [] e.k = "String" /\ e.max = NoMax -> [k |-> "String"]
      [] e.k = "String" -> [k |-> "BoundedString", max |-> e.max]
      [] e.k = "OptionField" ->
           [k |-> "OptionalField", of |-> generate_encoding(e.of)]
      [] e.k = "List" /\ e.max = NoMax ->
           [k |-> "List", of |-> generate_encoding(e.of)]
      [] e.k = "List" ->
           [k |-> "BoundedList", max |-> e.max, of |-> generate_encoding(e.of)]
      [] e.k = "Sized" ->
           [k |-> "Sized", size |-> e.size, of |-> generate_encoding(e.of)]
      [] e.k = "Bounded" ->
           [k |-> "Bounded", max |-> e.max, of |-> generate_encoding(e.of)]
      [] e.k = "Dynamic" /\ e.max = NoMax ->
           [k |-> "Dynamic", of |-> generate_encoding(e.of)]
      [] e.k = "Dynamic" ->
           [k |-> "BoundedDynamic", max |-> e.max,
            of |-> generate_encoding(e.of)]
      [] e.k = "Struct" ->
           [k |-> "Obj",
            fields |-> [i \in DOMAIN e.fields |->
                           [name |-> e.fields[i].name,
                            enc |-> generate_encoding(e.fields[i].enc)]]]
      [] e.k = "Enum" ->
           [k |-> "Tags", tagSize |-> e.tagSize,
            tags |-> [i \in DOMAIN e.tags |->
                         [variant |-> e.tags[i].name, id |-> e.tags[i].id,
                          enc |-> generate_encoding(e.tags[i].enc)]]]
=============================================================================
