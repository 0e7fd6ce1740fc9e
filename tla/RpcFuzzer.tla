----------------------------- MODULE RpcFuzzer -----------------------------
(***************************************************************************)
(* rpc_fuzzer/src/bin/rpc_fuzzer.rs: a worker sends random requests to a   *)
(* node, made from the paths of OpenAPI schemas, and learns chains,        *)
(* branches and blocks from the replies.  The workers of a process share   *)
(* nothing that changes, so the module has one.  The node is external.     *)
(*                                                                         *)
(* Texts are abstracted to what the draws put together: a path is a        *)
(* sequence of literals and placeholders, an argument is a learned string  *)
(* or the kind of a made-up one, a body is a sequence of JSON tokens.      *)
(***************************************************************************)
EXTENDS Integers, Sequences, FiniteSets, SequencesExt

CONSTANTS
    ShellSchemas, ProtocolSchemas,  \* sets of [name, methods], as read
    Replies,                        \* JSON values of the node's answers
    UriSafe,                        \* learned strings that may stand in a URI
    Sizes, MaxDepth, MaxEmpty,      \* bounds: body sizes, nesting, empty draws
    Rounds                          \* gen_range(1..5) of the query loop

VARIABLES
    phase, method, name, params, query, rounds, body,
    known,      \* chains, branches, blocks
    said        \* the replies that were received whole and in time

request == <<method, name, params, query, rounds, body>>
vars == <<phase, request, known, said>>

NoMethod == [method |-> "none"]
NoSchema == [type |-> "none"]

-----------------------------------------------------------------------------
(* Schemas.                                                                *)

Lit(x) == [of |-> x, param |-> FALSE]
Param(x) == [of |-> x, param |-> TRUE]

Prefix == <<Lit("chains"), Param("chain_id"), Lit("blocks"), Param("block_id")>>

(* A parameter is [in, name]; the schema of a body that cannot be parsed   *)
(* is none.                                                                *)
parse_method(m) ==
    [method |-> m.method,
     path_params |-> SelectSeq(m.parameters, LAMBDA p : p.in = "path"),
     query_params |-> SelectSeq(m.parameters, LAMBDA p : p.in = "query"),
     body |-> m.body]

parse_path(prefix, path) ==
    [name |-> prefix \o path.name, methods |-> {parse_method(m) : m \in path.methods}]

Paths == {parse_path(<< >>, p) : p \in ShellSchemas}
             \cup {parse_path(Prefix, p) : p \in ProtocolSchemas}

-----------------------------------------------------------------------------
(* Random data: the sets of what may be drawn.                             *)

(* Digits, perhaps after a minus sign, or that sign alone.                 *)
random_number == {"number"}

(* Half of the strings are letters and digits, the others any characters.  *)
random_string == {"alphanumeric", "other", "control"}

(* One of the learned strings, or a word, perhaps with a distance.         *)
random_arg(learned) == learned \cup {"constant", "relative"} \cup random_number

(* Tokens of a JSON text: v for a scalar, k for the key of an object, bare *)
(* for the rest of a name after its opening quote was left out, and raw    *)
(* for a key or a string with a quote, a backslash or a control character, *)
(* which the source does not escape.                                       *)
Scalar == <<"v">>

(* A random string between quotes.  Its last character is cut off, so one  *)
(* of a single character is empty.                                         *)
Quoted(plain, size) == {plain} \cup (IF size >= 2 THEN {"raw"} ELSE {})

RECURSIVE random_json(_, _, _), ListElements(_, _, _, _), DictElements(_, _, _)

Comma(remaining) == IF remaining # 0 THEN <<",">> ELSE << >>

(* The loop of random_json_list: draws of nothing are bounded by empty.    *)
ListElements(prop, remaining, depth, empty) ==
    IF remaining = 0 THEN {<< >>}
    ELSE UNION {{j \o Comma(remaining - n) \o rest :
                    j \in random_json(prop, n, depth - 1),
                    rest \in ListElements(prop, remaining - n, depth,
                                          IF n = 0 THEN empty - 1 ELSE empty)} :
                n \in {x \in 0 .. remaining : x > 0 \/ empty > 0}}

(* The loop of random_json_dict.                                           *)
DictElements(remaining, depth, empty) ==
    IF remaining = 0 THEN {<< >>}
    ELSE {<<key, ":">> \o Scalar : key \in Quoted("k", remaining)}
         \cup UNION {{<<key, ":">> \o j \o Comma(remaining - d[1] - d[2]) \o rest :
                         key \in Quoted("k", d[1]),
                         j \in random_json(NoSchema, d[2], depth - 1),
                         rest \in DictElements(remaining - d[1] - d[2], depth,
                                               IF d[1] + d[2] = 0 THEN empty - 1 ELSE empty)} :
                     d \in {x \in (0 .. remaining - 1) \X (0 .. remaining) :
                               /\ x[1] + x[2] <= remaining
                               /\ x[1] + x[2] > 0 \/ empty > 0}}


random_json_list(prop, size, depth) ==
    {<<"[">> \o e \o <<"]">> : e \in ListElements(prop, size, depth, MaxEmpty)}

random_json_dict(size, depth) ==
    {<<"{">> \o e \o <<"}">> : e \in DictElements(size, depth, MaxEmpty)}

(* The first name of an object is quoted, the others lack the opening      *)
(* quote; a reference is written in the place of the closing quote.        *)
RECURSIVE ObjectElements(_, _, _)
ObjectElements(properties, size, depth) ==
    IF properties = << >> THEN {<< >>}
    ELSE LET last == properties[Len(properties)]
             key == IF Len(properties) = 1 THEN "k" ELSE "bare"
         IN {front \o (IF Len(properties) = 1 THEN << >> ELSE <<",">>) \o element :
                front \in ObjectElements(SubSeq(properties, 1, Len(properties) - 1), size, depth),
                element \in IF last.type = "ref" THEN {<<"bare">>}
                            ELSE {<<key, ":">> \o j : j \in random_json(last, size, depth - 1)}}

(* At depth 0 nothing is nested (a bound; the source has none).            *)
random_json(prop, size, depth) ==
    IF prop = NoSchema
    THEN {<<v>> : v \in Quoted("v", size)}
             \cup (IF depth <= 0 THEN {}
                   ELSE random_json_list(NoSchema, size, depth) \cup random_json_dict(size, depth))
    ELSE CASE prop.type = "array" ->
                  random_json_list(prop.items, IF depth <= 0 THEN 0 ELSE size, depth)
           [] prop.type = "object" ->
                  {<<"{">> \o e \o <<"}">> : e \in ObjectElements(prop.properties, size, depth)}
           [] prop.type = "string" -> {<<v>> : v \in Quoted("v", size)}
           [] OTHER -> {Scalar}

-----------------------------------------------------------------------------
(* collect_reply_data: what a JSON value says of chains, branches and      *)
(* blocks, or a panic where such a key has no string.                      *)

Field == [branch |-> "branches", chain_id |-> "chains", block |-> "blocks",
          block_hash |-> "blocks", predecessor |-> "blocks"]

(* Mutant: the elements of an array are not looked at.                     *)
collect_reply_data_flat(value) ==
    IF value.type # "object" THEN {}
    ELSE {<<Field[k], value.of[k].of>> :
             k \in {x \in DOMAIN value.of \cap DOMAIN Field : value.of[x].type = "string"}}

RECURSIVE collect_reply_data(_)
collect_reply_data(value) ==
    CASE value.type = "array" ->
             UNION {collect_reply_data(value.of[i]) : i \in DOMAIN value.of}
      [] value.type = "object" ->
             UNION {IF k \notin DOMAIN Field THEN collect_reply_data(value.of[k])
                    ELSE IF value.of[k].type = "string" THEN {<<Field[k], value.of[k].of>>}
                    ELSE {<<"panic", k>>} : k \in DOMAIN value.of}
      [] OTHER -> {}

-----------------------------------------------------------------------------
Init ==
    /\ phase = "choose"
    /\ method = NoMethod /\ name = << >> /\ params = << >> /\ query = << >>
    /\ rounds = 0 /\ body = << >>
    /\ known = [f \in {"chains", "branches", "blocks"} |-> {}]
    /\ said = {}

ChooseMethod ==
    /\ phase = "choose" /\ phase' = "path"
    /\ \E path \in Paths : \E m \in path.methods :
          method' = m /\ name' = path.name /\ params' = m.path_params
    /\ UNCHANGED <<query, rounds, body, known, said>>

replace(text, p, arg) ==
    [i \in DOMAIN text |-> IF text[i] = Param(p) THEN Lit(arg) ELSE text[i]] \o << >>

AllKnown == known.chains \cup known.branches \cup known.blocks

PathParam ==
    /\ phase = "path" /\ params # << >>
    /\ \E arg \in random_arg(AllKnown) : name' = replace(name, Head(params).name, arg)
    /\ params' = Tail(params)
    /\ UNCHANGED <<phase, method, query, rounds, body, known, said>>

(* The placeholders that the schemas do not declare.                       *)
MissingParams ==
    /\ phase = "path" /\ params = << >> /\ phase' = "query"
    /\ \E chain \in random_arg(known.chains), block \in random_arg(known.blocks) :
          name' = replace(replace(name, "chain_id", chain), "block_id", block)
    /\ rounds' \in Rounds /\ params' = method.query_params
    /\ UNCHANGED <<method, query, body, known, said>>

(* Each parameter is skipped, named, or given an argument; and so on for   *)
(* each round.                                                             *)
QueryParam ==
    /\ phase = "query" /\ params # << >>
    /\ \/ UNCHANGED query
       \/ \E arg \in {"no argument"} \cup random_arg(AllKnown) :
             query' = Append(query, [prefix |-> IF query = << >> THEN "?" ELSE "&",
                                     name |-> Head(params).name, arg |-> arg])
    /\ params' = Tail(params)
    /\ UNCHANGED <<phase, method, name, rounds, body, known, said>>

QueryRound ==
    /\ phase = "query" /\ params = << >>
    /\ rounds' = rounds - 1
    /\ phase' = IF rounds' = 0 THEN "make" ELSE "query"
    /\ params' = IF rounds' = 0 THEN << >> ELSE method.query_params
    /\ UNCHANGED <<method, name, query, body, known, said>>

Args == {name[i].of : i \in {j \in DOMAIN name : ~name[j].param}} \cup {q.arg : q \in ToSet(query)}

(* The body, the headers and the request, whose unwrap panics on a URI or  *)
(* a header with characters that may not be there.                         *)
Send ==
    /\ phase = "make"
    /\ \E size \in Sizes :
          body' \in IF method.method \in {"PATCH", "POST"}
                    THEN random_json(method.body, size, MaxDepth) ELSE {<< >>}
    /\ \E header \in {"none"} \cup random_string :
          phase' = IF header # "control" /\ AllKnown \cap Args \subseteq UriSafe THEN "request"
                   ELSE "panicked"
    /\ UNCHANGED <<method, name, params, query, rounds, known, said>>

Forget == method' = NoMethod /\ name' = << >> /\ params' = << >> /\ query' = << >> /\ rounds' = 0
              /\ body' = << >>

(* with_timeout(5, client.request)                                         *)
RequestTimeout ==
    /\ phase = "request" /\ phase' = "choose"
    /\ Forget /\ UNCHANGED <<known, said>>

RequestError ==
    /\ phase = "request" /\ phase' = "sleep"
    /\ Forget /\ UNCHANGED <<known, said>>

Wake == phase = "sleep" /\ phase' = "choose" /\ UNCHANGED <<request, known, said>>

Response ==
    /\ phase = "request" /\ phase' = "body"
    /\ Forget /\ UNCHANGED <<known, said>>

(* Mutant: the body is waited for.                                         *)
BodyTimeout_never == FALSE /\ UNCHANGED vars

(* with_timeout(1, to_bytes): a stream has no end.                         *)
BodyTimeout == phase = "body" /\ phase' = "choose" /\ UNCHANGED <<request, known, said>>

(* An error while reading, a body over 0x1000 bytes, none, not JSON, null. *)
BodyUseless == phase = "body" /\ phase' = "choose" /\ UNCHANGED <<request, known, said>>

ReceiveBody ==
    /\ phase = "body"
    /\ \E reply \in Replies :
          LET data == collect_reply_data(reply)
              panics == \E d \in data : d[1] = "panic"
          IN /\ phase' = IF panics THEN "panicked" ELSE "choose"
             /\ known' = IF panics THEN known
                         ELSE [f \in DOMAIN known |-> known[f] \cup {d[2] : d \in {e \in data : e[1] = f}}]
             /\ said' = IF panics THEN said ELSE said \cup {reply}
    /\ UNCHANGED request

(* A panic ends the task; main waits for the other ones.                   *)
Panicked == phase = "panicked" /\ UNCHANGED vars

Node == Response \/ RequestError \/ ReceiveBody \/ BodyUseless

Worker ==
    \/ ChooseMethod \/ PathParam \/ MissingParams \/ QueryParam \/ QueryRound \/ Send
    \/ RequestTimeout \/ Wake \/ BodyTimeout

Next == Worker \/ Node \/ Panicked

(* The draws and timers of the worker: the node may never answer.          *)
Spec == Init /\ [][Next]_vars /\ WF_vars(Worker)

-----------------------------------------------------------------------------
Phases == {"choose", "path", "query", "make", "request", "sleep", "body", "panicked"}

(* The worker holds a request from its first draw to its answer, and has   *)
(* gone through all rounds and parameters when it is sent.                 *)
TypeOK ==
    /\ phase \in Phases
    /\ phase \in {"choose", "sleep", "body"} => body = << >> /\ name = << >> /\ query = << >>
    /\ phase \in {"path", "query", "make", "request"} =>
          method \in UNION {p.methods : p \in Paths}
    /\ rounds \in 0 .. 4
    /\ phase = "request" => rounds = 0 /\ params = << >>
    /\ said \subseteq Replies

(* The URI of a request has all its placeholders filled in, those that the *)
(* schemas do not declare too, and one query, which begins with its first  *)
(* parameter however many rounds and skipped ones came before.             *)
UriComplete ==
    phase = "request" =>
        /\ \A i \in DOMAIN name : ~name[i].param
        /\ \A i \in DOMAIN query : query[i].prefix = "?" <=> i = 1

(* Recognizer of JSON texts, from the grammar.                             *)
RECURSIVE IsValue(_), IsElements(_), IsMembers(_)
Inner(s) == SubSeq(s, 2, Len(s) - 1)
IsMember(s) == Len(s) >= 3 /\ s[1] = "k" /\ s[2] = ":" /\ IsValue(SubSeq(s, 3, Len(s)))
IsElements(s) ==
    \/ IsValue(s)
    \/ \E i \in DOMAIN s : s[i] = "," /\ IsValue(SubSeq(s, 1, i - 1))
                                      /\ IsElements(SubSeq(s, i + 1, Len(s)))
IsMembers(s) ==
    \/ IsMember(s)
    \/ \E i \in DOMAIN s : s[i] = "," /\ IsMember(SubSeq(s, 1, i - 1))
                                      /\ IsMembers(SubSeq(s, i + 1, Len(s)))
IsValue(s) ==
    \/ s = Scalar
    \/ /\ Len(s) >= 2 /\ s[1] = "[" /\ s[Len(s)] = "]"
       /\ Inner(s) = << >> \/ IsElements(Inner(s))
    \/ /\ Len(s) >= 2 /\ s[1] = "{" /\ s[Len(s)] = "}"
       /\ Inner(s) = << >> \/ IsMembers(Inner(s))

(* Schemas whose objects have at most one property, and no references.     *)
RECURSIVE Plain(_)
Plain(prop) ==
    \/ prop.type \notin {"array", "object"}
    \/ prop.type = "array" /\ Plain(prop.items)
    \/ /\ prop.type = "object" /\ Len(prop.properties) <= 1
       /\ \A i \in DOMAIN prop.properties :
             prop.properties[i].type # "ref" /\ Plain(prop.properties[i])

(* An object that is never JSON: its first property is a reference, or it  *)
(* has a second one, whose name has no opening quote.                      *)
Malformed(prop) ==
    /\ prop.type = "object" /\ prop.properties # << >>
    /\ Len(prop.properties) > 1 \/ prop.properties[1].type = "ref"

(* The body of a PATCH or POST is a JSON value for every way to cut its    *)
(* size into elements, with three exceptions: a schema with an object of   *)
(* more than one property, a schema with a reference, and a random string  *)
(* or key with a character that JSON wants escaped.  A body that is itself *)
(* such an object, as those of the injection endpoints are, is never JSON, *)
(* whatever is drawn.  Other methods have no body.                         *)
BodyWellFormed ==
    phase = "request" =>
        IF method.method \notin {"PATCH", "POST"} THEN body = << >>
        ELSE /\ Plain(method.body) /\ "raw" \notin ToSet(body) => IsValue(body)
             /\ Malformed(method.body) => ~ IsValue(body)


(* What a JSON value says at each of its places, by paths: a string whose  *)
(* last key is a known one, with no known key above it.                    *)
RECURSIVE Places(_)
Places(v) ==
    {<< << >>, v>>}
        \cup (IF v.type \notin {"array", "object"} THEN {}
              ELSE UNION {{<< <<IF v.type = "array" THEN "item" ELSE k>> \o p[1], p[2] >> :
                              p \in Places(v.of[k])} : k \in DOMAIN v.of})

Says(v, f) ==
    {p[2].of : p \in {q \in Places(v) :
        /\ q[2].type = "string" /\ q[1] # << >>
        /\ q[1][Len(q[1])] \in DOMAIN Field /\ Field[q[1][Len(q[1])]] = f
        /\ \A i \in 1 .. Len(q[1]) - 1 : q[1][i] \notin DOMAIN Field}}

(* The worker knows what all the replies said that it received whole and   *)
(* in time, wherever in them, nothing else, and forgets nothing.           *)
KnowsWhatWasSaid == \A f \in DOMAIN known : known[f] = UNION {Says(v, f) : v \in said}

(* With a node that never answers, answers late or streams without end,    *)
(* the worker makes request after request, until a panic ends it.          *)
KeepsAsking == []<>(phase = "choose") \/ <>[](phase = "panicked")
=============================================================================
