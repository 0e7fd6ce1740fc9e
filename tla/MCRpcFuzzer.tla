---------------------------- MODULE MCRpcFuzzer ----------------------------
(* Schemas with and without declared placeholders, queries and bodies, and *)
(* replies that name what is learned at several depths, or wrongly.        *)
EXTENDS RpcFuzzer

P(where, n) == [in |-> where, name |-> n]
Method(m, ps, b) == [method |-> m, parameters |-> ps, body |-> b]
Bool == [type |-> "boolean"]
Text == [type |-> "string"]
Array(p) == [type |-> "array", items |-> p]
Object(ps) == [type |-> "object", properties |-> ps]

MCShellSchemas ==
    {[name |-> <<Lit("chains"), Param("chain_id"), Lit("mempool"), Param("id")>>,
      methods |-> {Method("GET", <<P("path", "chain_id"), P("query", "force"), P("path", "id")>>, NoSchema)}],
     [name |-> <<Lit("injection")>>,
      methods |-> {Method("POST", << >>, Array(Object(<<Text>>))),
                   Method("POST", << >>, NoSchema),
                   Method("PATCH", << >>, Object(<<[type |-> "ref"]>>)),
                   Method("PATCH", << >>, Object(<<Bool, Array(NoSchema), [type |-> "ref"]>>)),
                   Method("DELETE", <<P("query", "q"), P("query", "r")>>, NoSchema)}]}

MCProtocolSchemas ==
    {[name |-> <<Lit("helpers")>>, methods |-> {Method("GET", << >>, NoSchema)}]}

Str(x) == [type |-> "string", of |-> x]
Number == [type |-> "number"]
Obj(f) == [type |-> "object", of |-> f]
Arr(s) == [type |-> "array", of |-> s]

MCReplies ==
    {Obj([chain_id |-> Str("c1"), hash |-> Str("h0")]),
     Arr(<<Obj([contents |-> Obj([branch |-> Str("h1"), level |-> Number])]), Number>>),
     Obj([header |-> Arr(<<Obj([predecessor |-> Str("h2"), block |-> Str("a b")])>>)]),
     Obj([header |-> Obj([block |-> Number, predecessor |-> Str("h3")])])}
=============================================================================
