----------------------------- MODULE WorkingTree -----------------------------
(***************************************************************************)
(* The TezEdge context (tezos/new_context): working trees over a store of   *)
(* hashed entries, for the process that writes it and for one that reads    *)
(* it over IPC.                                                             *)
(*                                                                          *)
(* A tree maps names to nodes.  A node is shared by all the trees that were *)
(* made from the one it first was in, and it changes under them: its entry  *)
(* is loaded when it is first needed, its hash is kept when it is first     *)
(* computed, and it is marked when it is commited.                          *)
(***************************************************************************)
EXTENDS Naturals, FiniteSets, SequencesExt

CONSTANTS
    None, Dir, Lost,     \* nothing; a directory; what cannot be loaded
    Values, Keys, Names, \* contents of files, paths, and names in their order
    Contexts, Trees,     \* the contexts and the trees each process holds
    MaxCalls, MaxDepth   \* bounds: calls of OCaml, and the length of paths

VARIABLES
    heap,    \* Rc<Node>: the nodes that are alive
    slot,    \* the contexts and trees that OCaml holds
    hashes,  \* the store of the writer: the hash of each id
    values,  \* the store of the writer: the entries that are written
    local,   \* the hashes of the reader (ReadonlyIpcBackend::hashes)
    commits, \* the ids of the commits that can be checked out
    calls,   \* how many calls OCaml has made
    view     \* not in the code: what ContextMap says of slots and commits

vars == <<heap, slot, hashes, values, local, commits, calls, view>>

Processes == {"writer", "reader"}
SlotsOf == [p \in Processes |-> Contexts[p] \cup Trees[p]]
Slots == SlotsOf["writer"] \cup SlotsOf["reader"]

\* HashId: the top bit marks the ids of the reader.
READONLY == 1000
IsReadonly(id) == id > READONLY

-----------------------------------------------------------------------------
(* What trees contain: the view of the abstract specification. *)

Map == INSTANCE ContextMap WITH contents <- slot, commits <- commits

RECURSIVE StoredContents(_)
StoredContents(id) ==
    IF id \notin DOMAIN values THEN Map!File(Lost)
    ELSE LET e == values[id] IN
         CASE e.kind = "blob" -> Map!File(e.of)
           [] e.kind = "tree" -> Map!Tree([x \in DOMAIN e.of |-> StoredContents(e.of[x].hash)])
           [] e.kind = "commit" -> StoredContents(e.of)

RECURSIVE Contents(_, _)
Contents(h, e) ==
    IF e.kind = "blob" THEN Map!File(e.of)
    ELSE Map!Tree([x \in DOMAIN e.of |->
            LET node == h[e.of[x]]
            IN  IF node.entry = None THEN StoredContents(node.hash) ELSE Contents(h, node.entry)])

View ==
    [contents |-> [c \in Slots |-> IF slot[c] = None THEN None ELSE Contents(heap, slot[c])],
     commits |-> {StoredContents(id) : id \in commits}]

-----------------------------------------------------------------------------
(* Nodes and entries. *)

EmptyTree == <<>>
TreeEntry(t) == [kind |-> "tree", of |-> t]
Blob(v) == [kind |-> "blob", of |-> v]

\* A node that nobody has hashed or written yet.
NewNode(e) == [kind |-> e.kind, hash |-> None, entry |-> e, commited |-> FALSE, stale |-> FALSE]

\* A node as it is read back from the store.
StoredNode(ref) == [kind |-> ref.kind, hash |-> ref.hash, entry |-> None, commited |-> TRUE, stale |-> FALSE]

Ordered(t) == SelectSeq(Names, LAMBDA x : x \in DOMAIN t)

\* h with nodes added for the names of f, and the tree of them.
Allocated(h, f) ==
    LET first == Max(DOMAIN h \cup {0})
        at == [x \in DOMAIN f |-> first + Cardinality({y \in DOMAIN f : y <= x})]
    IN  [heap |-> h @@ [i \in {at[x] : x \in DOMAIN f} |-> f[CHOOSE x \in DOMAIN f : at[x] = i]],
         tree |-> at]

\* find_entry: what bincode reads back of an entry.
Deserialized(h, e) ==
    IF e.kind = "blob" THEN [heap |-> h, entry |-> e]
    ELSE LET a == Allocated(h, [x \in DOMAIN e.of |-> StoredNode(e.of[x])])
         IN  [heap |-> a.heap, entry |-> TreeEntry(a.tree)]

\* node_entry: a node gets its entry from the store when it is first needed.
NodeEntry(h, n) ==
    IF h[n].entry # None \/ h[n].hash \notin DOMAIN values THEN h
    ELSE LET d == Deserialized(h, values[h[n].hash]) IN [d.heap EXCEPT ![n].entry = d.entry]

\* find_raw_tree, first what it loads on its way...
RECURSIVE LoadPath(_, _, _)
LoadPath(h, t, key) ==
    IF key = <<>> \/ Head(key) \notin DOMAIN t THEN h
    ELSE LET n == t[Head(key)]
             g == NodeEntry(h, n)
         IN  IF g[n].kind = "tree" /\ g[n].entry # None THEN LoadPath(g, g[n].entry.of, Tail(key)) ELSE g

\* Mutant: a path that leads through a value, or nowhere, ends where it leads.
RECURSIVE FindRawTreeNearest(_, _, _)
FindRawTreeNearest(h, t, key) ==
    IF key = <<>> \/ Head(key) \notin DOMAIN t THEN t
    ELSE IF h[t[Head(key)]].kind = "blob" THEN t
    ELSE FindRawTreeNearest(h, h[t[Head(key)]].entry.of, Tail(key))

\* ... then the tree it finds: empty when there is none, or a value on the way.
RECURSIVE FindRawTree(_, _, _)
FindRawTree(h, t, key) ==
    IF key = <<>> THEN t
    ELSE IF Head(key) \notin DOMAIN t THEN EmptyTree
    ELSE LET node == h[t[Head(key)]]
         IN  IF node.kind = "blob" THEN EmptyTree ELSE FindRawTree(h, node.entry.of, Tail(key))

\* The tree found is made anew with the entry e under name, or without it.
Changed(h, found, name, e) ==
    LET rest == Restrict(found, DOMAIN found \ {name}) IN
    IF e = None THEN [heap |-> h, tree |-> rest]
    ELSE LET a == Allocated(h, name :> NewNode(e)) IN [heap |-> a.heap, tree |-> a.tree @@ rest]
ChangedAt(h, root, path, name, e) == Changed(h, FindRawTree(h, root, path), name, e)

\* Mutant: a directory that becomes empty stays.
RECURSIVE NewRootKeepsEmpty(_, _, _, _)
NewRootKeepsEmpty(h, root, key, e) ==
    IF key = <<>> THEN [heap |-> h, entry |-> IF e = None THEN TreeEntry(EmptyTree) ELSE e]
    ELSE LET new == ChangedAt(LoadPath(h, root, Front(key)), root, Front(key), Last(key), e)
         IN  NewRootKeepsEmpty(new.heap, root, Front(key), TreeEntry(new.tree))

\* compute_new_root_with_change: e in the place of key, None to delete; every
\* directory on the way is made anew, and an empty one is deleted.
RECURSIVE NewRoot(_, _, _, _)
NewRoot(h, root, key, e) ==
    IF key = <<>> THEN [heap |-> h, entry |-> IF e = None THEN TreeEntry(EmptyTree) ELSE e]
    ELSE LET new == ChangedAt(LoadPath(h, root, Front(key)), root, Front(key), Last(key), e)
         IN  NewRoot(new.heap, root, Front(key),
                     IF new.tree = EmptyTree THEN None ELSE TreeEntry(new.tree))

\* get_working_tree_root_ref: a value is taken for an empty tree.
RootOf(e) == IF e.kind = "tree" THEN e.of ELSE EmptyTree

-----------------------------------------------------------------------------
(* Hashing.  s is the state a hash is computed in: the heap, the two stores,
   and the id of the last hash, None once one of them has failed.           *)

Hashing == [heap |-> heap, hashes |-> hashes, local |-> local, id |-> 0]

GetHash(s, id) ==
    CASE id = None -> None
      [] IsReadonly(id) -> IF id - READONLY \in DOMAIN s.local THEN s.local[id - READONLY] ELSE None
      [] OTHER -> IF id \in DOMAIN s.hashes THEN s.hashes[id] ELSE None

\* get_vacant_entry_hash, and the hash d written in it.
Vacant(s, p, d) ==
    IF p = "writer" THEN [s EXCEPT !.hashes = Append(@, d), !.id = Len(s.hashes) + 1]
    ELSE [s EXCEPT !.local = Append(@, d), !.id = READONLY + Len(s.local) + 1]

RECURSIVE HashEntry(_, _, _)
KeepHash(s, n) == [s EXCEPT !.heap[n].hash = s.id]
ReadHash(s) == IF GetHash(s, s.id) = None THEN [s EXCEPT !.id = None] ELSE s

\* Node::entry_hash: the id is computed once, then the hash of the id read.
EntryHash(s, p, n) ==
    ReadHash(IF s.heap[n].hash # None THEN [s EXCEPT !.id = s.heap[n].hash]
             ELSE KeepHash(HashEntry(s, p, s.heap[n].entry), n))

\* The hashes of the nodes in the order of their names...
HashNodes(s, p, t) ==
    FoldLeft(LAMBDA w, x : IF w.id = None THEN w ELSE EntryHash(w, p, t[x]), s, Ordered(t))

\* ... and the hash of those with the names.
HashNames(s, p, t, names) ==
    IF s.id = None THEN s
    ELSE Vacant(s, p, [kind |-> "entry", of |-> Map!Tree(
             [x \in names |-> GetHash(s, s.heap[t[x]].hash).of])])

\* Mutant: the last entry of a directory is not hashed.
HashTreeFront(s, p, t) ==
    HashNames(HashNodes(s, p, t), p, t, {y \in DOMAIN t : \E z \in DOMAIN t : y < z})

\* hash_tree.
HashTree(s, p, t) == HashNames(HashNodes(s, p, t), p, t, DOMAIN t)

HashBlob(s, p, v) == Vacant(s, p, [kind |-> "entry", of |-> Map!File(v)])

HashEntry(s, p, e) == IF e.kind = "blob" THEN HashBlob(s, p, e.of) ELSE HashTree(s, p, e.of)

\* hash_commit of the tree hashed last.
HashCommit(s, p) == Vacant(s, p, [kind |-> "commit", of |-> GetHash(s, s.id).of])

-----------------------------------------------------------------------------
(* Commits. *)

\* Mutant: only the nodes of the root.
UnmarkedTop(h, t) == {n \in Range(t) : ~h[n].commited}

\* get_entries_recursively: the nodes below t that are not marked, and are now.
RECURSIVE Unmarked(_, _)
Unmarked(h, t) ==
    LET new == {n \in Range(t) : ~h[n].commited}
    IN  new \cup UNION {Unmarked(h, h[n].entry.of) : n \in {m \in new : h[m].kind = "tree"}}

\* add_serialized_entry: what bincode writes of an entry.
Serialized(h, e) ==
    IF e.kind = "blob" THEN e
    ELSE [kind |-> "tree",
          of |-> [x \in DOMAIN e.of |-> [kind |-> h[e.of[x]].kind, hash |-> h[e.of[x]].hash]]]

\* The nodes are marked, and the batch is what a commit then writes: the
\* commit, its root and the new nodes.
Prepared(s, t, root, new) ==
    [state |-> [s EXCEPT !.heap = [n \in DOMAIN s.heap |->
                   [s.heap[n] EXCEPT !.commited = @ \/ n \in new]]],
     batch |-> (s.id :> [kind |-> "commit", of |-> root])
               @@ (root :> Serialized(s.heap, TreeEntry(t)))
               @@ [id \in {s.heap[n].hash : n \in new} |->
                     LET n == CHOOSE m \in new : s.heap[m].hash = id
                     IN  Serialized(s.heap, s.heap[n].entry)]]

\* prepare_commit, once the root t is hashed.
PrepareCommit(s, p, t) ==
    IF s.id = None THEN [state |-> s, batch |-> <<>>]
    ELSE Prepared(HashCommit(s, p), t, s.id, Unmarked(heap, t))

-----------------------------------------------------------------------------
(* What OCaml calls.  Each call leaves a heap h and the slots t, and what no
   slot reaches any more is freed.                                          *)

RECURSIVE Reached(_, _)
Reached(h, e) ==
    IF e = None \/ e.kind = "blob" THEN {}
    ELSE Range(e.of) \cup UNION {Reached(h, h[n].entry) : n \in Range(e.of)}

\* The nodes, and the ids, that are in use are named by their rank.
Rank(used) == [n \in used |-> Cardinality({m \in used : m <= n})]
Ranked(rank, f) == [i \in 1..Cardinality(DOMAIN rank) |-> f[CHOOSE n \in DOMAIN rank : rank[n] = i]]

NewId(hash, id) == IF id \in DOMAIN hash THEN hash[id] ELSE id
NewEntry(node, e) ==
    IF e = None \/ e.kind = "blob" THEN e ELSE TreeEntry([x \in DOMAIN e.of |-> node[e.of[x]]])
NewValue(hash, e) ==
    CASE e.kind = "blob" -> e
      [] e.kind = "commit" -> [e EXCEPT !.of = NewId(hash, @)]
      [] e.kind = "tree" -> TreeEntry([x \in DOMAIN e.of |-> [e.of[x] EXCEPT !.hash = NewId(hash, @)]])

LeaveRanked(s, t, written, known, node, hash) ==
    /\ heap' = Ranked(node, [n \in DOMAIN node |->
                  [s.heap[n] EXCEPT !.entry = NewEntry(node, @), !.hash = NewId(hash, @)]])
    /\ slot' = [c \in Slots |-> NewEntry(node, t[c])]
    /\ hashes' = Ranked(hash, s.hashes) /\ local' = s.local
    /\ values' = [i \in {hash[id] : id \in DOMAIN written} |->
                    NewValue(hash, written[CHOOSE id \in DOMAIN written : hash[id] = i])]
    /\ commits' = {hash[id] : id \in known}

Leave(s, t, written, known) ==
    LET nodes == UNION {Reached(s.heap, t[c]) : c \in Slots}
        ids == DOMAIN written \cup {i \in {s.heap[n].hash : n \in nodes} : i # None /\ ~IsReadonly(i)}
    IN  LeaveRanked(s, t, written, known, Rank(nodes), Rank(ids))

Holds(c) == slot[c] # None
Makes(h, d, e, t) ==
    /\ Leave([Hashing EXCEPT !.heap = h], [slot EXCEPT ![d] = e], values, commits)
    /\ view' = [view EXCEPT !.contents[d] = t]
Keeps(s) == Leave(s, slot, values, commits) /\ view' = view
Reads(h) == h # heap /\ Keeps([Hashing EXCEPT !.heap = h])

ViewRoot(c) == IF view.contents[c][<<>>] = Dir THEN view.contents[c] ELSE Map!EmptyTree

Add(c, d, key, v) ==
    LET r == NewRoot(heap, RootOf(slot[c]), key, Blob(v))
    IN  key # <<>> /\ Makes(r.heap, d, r.entry, Map!Put(ViewRoot(c), key, Map!File(v)))

Delete(c, d, key) ==
    LET r == NewRoot(heap, RootOf(slot[c]), key, None)
    IN  IF key = <<>> THEN Makes(heap, d, TreeEntry(RootOf(slot[c])), ViewRoot(c))
        ELSE Makes(r.heap, d, r.entry, Map!Without(ViewRoot(c), key))

AddTree(c, d, key, e) ==
    LET r == NewRoot(heap, RootOf(slot[c]), key, slot[e])
    IN  r.entry.kind = "tree" /\ Makes(r.heap, d, r.entry, Map!Put(ViewRoot(c), key, view.contents[e]))

FindTree(c, d, key) ==
    LET h == LoadPath(heap, RootOf(slot[c]), key)
        t == FindRawTree(h, RootOf(slot[c]), key)
    IN  IF t = EmptyTree THEN Reads(h) ELSE Makes(h, d, TreeEntry(t), Map!Subtree(ViewRoot(c), key))

\* The names that list returns.
Listed(t, offset, length) ==
    LET n == Cardinality(DOMAIN t)
        from == IF offset = None THEN 0 ELSE offset
        count == IF length = None \/ length > n THEN n ELSE length
    IN  SubSeq(Ordered(t), from + 1, Min({from + count, n}))

\* list: the nodes it returns are loaded; one of them is kept.
List(c, d, key, offset, length) ==
    LET h == LoadPath(heap, RootOf(slot[c]), key)
        t == FindRawTree(h, RootOf(slot[c]), key)
        names == Listed(t, offset, length)
        g == FoldLeft(LAMBDA w, x : NodeEntry(w, t[x]), h, names)
    IN  IF names = <<>> THEN Reads(h) ELSE \E x \in Range(names) :
            Makes(g, d, g[t[x]].entry, Map!Below(ViewRoot(c), Append(key, x)))

\* find: the value, None, or "error" for an empty key and for a directory.
LoadFile(h, root, key) ==
    LET g == LoadPath(h, root, Front(key))
        t == FindRawTree(g, root, Front(key))
    IN  IF Last(key) \in DOMAIN t THEN NodeEntry(g, t[Last(key)]) ELSE g
Find(h, root, key) ==
    IF key = <<>> THEN "error"
    ELSE LET t == FindRawTree(h, root, Front(key)) IN
         IF Last(key) \notin DOMAIN t THEN None
         ELSE IF h[t[Last(key)]].entry.kind = "blob" THEN h[t[Last(key)]].entry.of ELSE "error"

\* mem is true of a directory, too; mem_tree is not true of an empty one.
Mem(h, root, key) == Last(key) \in DOMAIN FindRawTree(h, root, Front(key))
MemTree(h, root, key) == FindRawTree(h, root, key) # EmptyTree

-----------------------------------------------------------------------------
(* Folds: a walk over a tree, down to or from a depth. *)

ShouldApply(limit, depth) ==
    CASE limit = None -> TRUE
      [] limit.op = "Eq" -> depth = limit.n
      [] limit.op = "Lt" -> depth < limit.n
      [] limit.op = "Le" -> depth <= limit.n
      [] limit.op = "Gt" -> depth > limit.n
      [] limit.op = "Ge" -> depth >= limit.n

\* Mutant: the walk stops one level early.
ShouldContinueLess(limit, depth) ==
    CASE limit = None -> TRUE
      [] limit.op \in {"Eq", "Lt", "Le"} -> depth + 1 < limit.n
      [] limit.op \in {"Gt", "Ge"} -> TRUE

ShouldContinue(limit, depth) ==
    CASE limit = None -> TRUE
      [] limit.op = "Lt" -> depth + 1 < limit.n
      [] limit.op \in {"Eq", "Le"} -> depth < limit.n
      [] limit.op \in {"Gt", "Ge"} -> TRUE

TreeWalkerLevel(key, e, limit) ==
    [key |-> key, root |-> e, yield |-> ShouldApply(limit, Len(key)),
     children |-> IF ShouldContinue(limit, Len(key)) /\ e.kind = "tree" THEN Ordered(e.of) ELSE <<>>]

\* TreeWalker::next, until there is nothing left.
RECURSIVE Walk(_, _, _, _)
Walk(h, limit, stack, out) ==
    IF stack = <<>> THEN [heap |-> h, out |-> out]
    ELSE LET top == Last(stack) IN
         IF top.yield
         THEN Walk(h, limit, Append(Front(stack), [top EXCEPT !.yield = FALSE]),
                   Append(out, [key |-> top.key, entry |-> top.root]))
         ELSE IF top.children = <<>> THEN Walk(h, limit, Front(stack), out)
         ELSE LET x == Head(top.children)
                  n == top.root.of[x]
                  g == NodeEntry(h, n)
                  rest == Append(Front(stack), [top EXCEPT !.children = Tail(@)])
              IN  Walk(g, limit,
                       IF g[n].entry = None THEN rest
                       ELSE Append(rest, TreeWalkerLevel(Append(top.key, x), g[n].entry, limit)),
                       out)

\* fold_iter: the walk starts at the tree of key, if find_tree finds one.
FoldIter(h, root, limit, key) ==
    LET g == LoadPath(h, root, key)
        t == FindRawTree(g, root, key)
    IN  Walk(g, limit, IF t = EmptyTree THEN <<>> ELSE <<TreeWalkerLevel(<<>>, TreeEntry(t), limit)>>, <<>>)

-----------------------------------------------------------------------------
(* Reads of a commit, in the store. *)

\* find_raw_tree over a tree that was just read from the store.
RECURSIVE StoredTree(_, _)
StoredTree(id, key) ==
    LET e == values[id] IN
    IF e.kind = "blob" THEN EmptyTree
    ELSE IF key = <<>> THEN e.of
    ELSE IF Head(key) \in DOMAIN e.of THEN StoredTree(e.of[Head(key)].hash, Tail(key)) ELSE EmptyTree

get_commit(id) == values[id].of

get_history(id, key) ==
    IF key = <<>> THEN "error"
    ELSE LET t == StoredTree(get_commit(id), Front(key)) IN
         IF Last(key) \notin DOMAIN t THEN None
         ELSE LET e == values[t[Last(key)].hash] IN IF e.kind = "blob" THEN e.of ELSE "error"

RECURSIVE get_key_values_from_tree_recursively(_, _)
get_key_values_from_tree_recursively(path, id) ==
    LET e == values[id] IN
    IF e.kind = "blob" THEN {<<path, e.of>>}
    ELSE UNION {get_key_values_from_tree_recursively(Append(path, x), e.of[x].hash) : x \in DOMAIN e.of}

get_key_values_by_prefix(id, prefix) ==
    LET t == StoredTree(get_commit(id), prefix)
    IN  UNION {get_key_values_from_tree_recursively(Append(prefix, x), t[x].hash) : x \in DOMAIN t}

\* Mutant: the depth is not counted down.
RECURSIVE get_context_recursive_full(_, _)
get_context_recursive_full(id, depth) ==
    LET e == values[id] IN
    IF depth = 0 THEN Map!File("null")
    ELSE IF e.kind = "blob" THEN Map!File(e.of)
    ELSE Map!Tree([x \in DOMAIN e.of |-> get_context_recursive_full(e.of[x].hash, depth)])

RECURSIVE get_context_recursive(_, _)
get_context_recursive(id, depth) ==
    LET e == values[id]
        rdepth == IF depth = None THEN None ELSE depth - 1
    IN  IF depth = 0 THEN Map!File("null")
        ELSE IF e.kind = "blob" THEN Map!File(e.of)
        ELSE Map!Tree([x \in DOMAIN e.of |-> get_context_recursive(e.of[x].hash, rdepth)])

get_context_tree_by_prefix(id, prefix, depth) ==
    LET t == StoredTree(get_commit(id), prefix)
        rdepth == IF depth = None THEN None ELSE depth - 1
    IN  IF depth = 0 THEN Map!File("null")
        ELSE Map!Tree([x \in DOMAIN t |-> get_context_recursive(t[x].hash, rdepth)])

-----------------------------------------------------------------------------
(* The functions that OCaml calls on contexts. *)

\* The writer starts with an empty context (initialize_tezedge_context).
Init ==
    /\ heap = <<>>
    /\ slot = [c \in Slots |-> IF c \in Contexts["writer"] THEN TreeEntry(EmptyTree) ELSE None]
    /\ hashes = <<>> /\ values = <<>> /\ local = <<>> /\ commits = {}
    /\ calls = 0 /\ view = View

tezedge_context_empty(c) == Makes(heap, c, TreeEntry(EmptyTree), Map!EmptyTree)
tezedge_context_add(c, d, key, v) == Holds(c) /\ Add(c, d, key, v)
tezedge_context_add_tree(c, d, key, e) == Holds(c) /\ Holds(e) /\ AddTree(c, d, key, e)
tezedge_context_remove(c, d, key) == Holds(c) /\ Delete(c, d, key)
tezedge_context_find_tree(c, t, key) == Holds(c) /\ FindTree(c, t, key)
tezedge_context_list(c, t, key, offset, length) == Holds(c) /\ List(c, t, key, offset, length)
tezedge_context_get_tree(c, t) == Holds(c) /\ Makes(heap, t, slot[c], view.contents[c])
tezedge_context_set_tree(c, d, t) == Holds(c) /\ Holds(t) /\ Makes(heap, d, slot[t], view.contents[t])
tezedge_context_find(c, key) == Holds(c) /\ key # <<>> /\ Reads(LoadFile(heap, RootOf(slot[c]), key))
tezedge_context_mem(c, key) == Holds(c) /\ key # <<>> /\ Reads(LoadPath(heap, RootOf(slot[c]), Front(key)))
tezedge_context_mem_tree(c, key) == Holds(c) /\ Reads(LoadPath(heap, RootOf(slot[c]), key))

\* TezedgeContext::copy.  None is for a source that find_raw_tree does not find:
\* what is missing it takes for an empty directory, and a value, too.
CopySource(h, root, from) == FindRawTree(h, root, from)
Copy(c, d, from, to) ==
    LET h == LoadPath(heap, RootOf(slot[c]), from)
        source == CopySource(h, RootOf(slot[c]), from)
        r == NewRoot(h, RootOf(slot[c]), to, TreeEntry(source))
    IN  Holds(c) /\ source # None
            /\ Makes(r.heap, d, r.entry, Map!Put(ViewRoot(c), to, Map!Subtree(ViewRoot(c), from)))

\* ReadonlyIpcBackend::clear_entries; the store of the writer keeps its own.
ClearEntries(p, s) ==
    IF p = "writer" THEN s
    ELSE [s EXCEPT !.local = <<>>, !.heap = [n \in DOMAIN @ |->
             [@[n] EXCEPT !.stale = @ \/ (s.heap[n].hash # None /\ IsReadonly(s.heap[n].hash))]]]

\* TezedgeContext::hash and ::commit up to clear_entries, of what was prepared.
\* The reader's write_batch and put_context_hash do nothing.
Finish(p, c, writes, r) ==
    IF r.state.id = None THEN Keeps(r.state)
    ELSE IF writes /\ p = "writer"
    THEN /\ Leave(ClearEntries(p, r.state), slot, r.batch @@ values, commits \cup {r.state.id})
         /\ view' = [view EXCEPT !.commits = @ \cup {ViewRoot(c)}]
    ELSE Keeps(ClearEntries(p, r.state))

Hashes(p, c, writes) ==
    /\ Holds(c)
    /\ LET root == RootOf(slot[c])
       IN  Finish(p, c, writes, PrepareCommit(HashTree(Hashing, p, root), p, root))

tezedge_context_hash(p, c) == Hashes(p, c, FALSE)
tezedge_context_commit(p, c) == Hashes(p, c, TRUE)

\* TezedgeIndex::checkout: a new tree each time.
tezedge_index_checkout(c) ==
    \E id \in commits :
        LET d == Deserialized(heap, values[get_commit(id)]) IN Makes(d.heap, c, d.entry, hashes[id].of)

\* A context is dropped.
Drop(c) == Holds(c) /\ Makes(heap, c, None, None)

-----------------------------------------------------------------------------
(* The functions that OCaml calls on trees. *)

tezedge_tree_empty(c, t) == Holds(c) /\ Makes(heap, t, TreeEntry(EmptyTree), Map!EmptyTree)
tezedge_tree_of_value(c, t, v) == Holds(c) /\ Makes(heap, t, Blob(v), Map!File(v))
tezedge_tree_add(t, d, key, v) == Holds(t) /\ Add(t, d, key, v)
tezedge_tree_add_tree(t, d, key, e) == Holds(t) /\ Holds(e) /\ AddTree(t, d, key, e)
tezedge_tree_remove(t, d, key) == Holds(t) /\ Delete(t, d, key)
tezedge_tree_find_tree(t, d, key) == Holds(t) /\ FindTree(t, d, key)
tezedge_tree_list(t, d, key, offset, length) == Holds(t) /\ List(t, d, key, offset, length)
tezedge_tree_find(t, key) == Holds(t) /\ key # <<>> /\ Reads(LoadFile(heap, RootOf(slot[t]), key))
tezedge_tree_mem(t, key) == Holds(t) /\ key # <<>> /\ Reads(LoadPath(heap, RootOf(slot[t]), Front(key)))
tezedge_tree_mem_tree(t, key) == Holds(t) /\ Reads(LoadPath(heap, RootOf(slot[t]), key))

\* WorkingTree::hash: nothing is marked, and nothing cleared.
TreeHashed(s, p, c) == HashTree(s, p, RootOf(slot[c]))
tezedge_tree_hash(p, t) == Holds(t) /\ Keeps(TreeHashed(Hashing, p, t))

\* equal hashes the one, then the other.
TreeHashedNext(s, p, c) == IF s.id = None THEN s ELSE TreeHashed(s, p, c)
tezedge_tree_equal(p, t, u) ==
    /\ Holds(t) /\ Holds(u)
    /\ Keeps(TreeHashedNext(TreeHashed(Hashing, p, t), p, u))

\* A fold keeps one of the trees its walker passes.
tezedge_tree_walker_next(t, d, limit, key) ==
    LET w == FoldIter(heap, RootOf(slot[t]), limit, key)
    IN  /\ Holds(t)
        /\ IF w.out = <<>> THEN Reads(w.heap) ELSE \E i \in DOMAIN w.out :
               Makes(w.heap, d, w.out[i].entry, Map!Below(ViewRoot(t), key \o w.out[i].key))

-----------------------------------------------------------------------------
Ranges == {<<None, None>>, <<1, 1>>}
Depths == {None} \cup [op : {"Eq", "Lt", "Le", "Gt", "Ge"}, n : 1..2]

\* What the properties need of the callers, and the code does not see to.  A
\* context, or tree, is hashed or commited only while the commited nodes of it are
\* written, by the writer, and while the reader has not forgotten their hashes:
\* the last call that hashed it was a commit, or was of the tree alone.
Fresh(p, c) ==
    \A n \in Reached(heap, slot[c]) :
        /\ p = "reader" => ~heap[n].stale
        /\ p = "writer" /\ heap[n].commited => heap[n].hash \in DOMAIN values

\* What is copied is a directory, and nothing is deleted below a value.
IsDirectory(c, key) == Holds(c) => key \in DOMAIN ViewRoot(c) /\ ViewRoot(c)[key] = Dir
BelowNoValue(c, key) ==
    Holds(c) => \A q \in Map!StrictPrefixes(key) \cap DOMAIN ViewRoot(c) : ViewRoot(c)[q] = Dir

\* The calls of OCaml: any, or those of a careful caller.
OnContexts(p, careful) ==
    \E c, d \in Contexts[p] :
        \/ tezedge_context_empty(c) \/ tezedge_index_checkout(c) \/ Drop(c)
        \/ /\ careful => Fresh(p, c)
           /\ tezedge_context_hash(p, c) \/ tezedge_context_commit(p, c)
        \/ \E key \in Keys :
            \/ \E v \in Values : tezedge_context_add(c, d, key, v)
            \/ \E to \in Keys : (careful => IsDirectory(c, key)) /\ Copy(c, d, key, to)
            \/ (careful => BelowNoValue(c, key)) /\ tezedge_context_remove(c, d, key)
            \/ tezedge_context_find(c, key) \/ tezedge_context_mem(c, key) \/ tezedge_context_mem_tree(c, key)

Between(p) ==
    \E c, d \in Contexts[p], t \in Trees[p] :
        \/ tezedge_context_get_tree(c, t) \/ tezedge_context_set_tree(c, d, t)
        \/ tezedge_tree_empty(c, t)
        \/ \E v \in Values : tezedge_tree_of_value(c, t, v)
        \/ \E key \in Keys :
            \/ tezedge_context_add_tree(c, d, key, t) \/ tezedge_context_find_tree(c, t, key)
            \/ \E r \in Ranges : tezedge_context_list(c, t, key, r[1], r[2])

OnTrees(p, careful) ==
    \E t, d \in Trees[p] :
        \/ (careful => Fresh(p, t)) /\ tezedge_tree_hash(p, t)
        \/ (careful => Fresh(p, t) /\ Fresh(p, d)) /\ tezedge_tree_equal(p, t, d)
        \/ Drop(t)
        \/ \E key \in Keys :
            \/ \E v \in Values : tezedge_tree_add(t, d, key, v)
            \/ \E e \in Trees[p] : tezedge_tree_add_tree(t, d, key, e)
            \/ (careful => BelowNoValue(t, key)) /\ tezedge_tree_remove(t, d, key)
            \/ tezedge_tree_find_tree(t, d, key)
            \/ tezedge_tree_find(t, key) \/ tezedge_tree_mem(t, key) \/ tezedge_tree_mem_tree(t, key)
            \/ \E r \in Ranges : tezedge_tree_list(t, d, key, r[1], r[2])
            \/ tezedge_tree_walker_next(t, d, None, key)

Shallow == \A c \in Slots : slot[c] # None => \A q \in DOMAIN view.contents[c] : Len(q) <= MaxDepth

Calls(careful) ==
    /\ calls < MaxCalls /\ calls' = calls + 1
    /\ \E p \in Processes : OnContexts(p, careful) \/ Between(p) \/ OnTrees(p, careful)
    /\ Shallow'

Next == Calls(FALSE)
Spec == Init /\ [][Next]_vars

CarefulSpec == Init /\ [][Calls(TRUE)]_vars

-----------------------------------------------------------------------------
(* Properties. *)

Kinds == {"tree", "blob"}

\* Types of the state: the nodes below the slots are alive, and every name is
\* bound to a node of the heap.
TypeOK ==
    /\ DOMAIN heap = 1..Cardinality(DOMAIN heap)
    /\ \A n \in DOMAIN heap :
          /\ heap[n].kind \in Kinds /\ (heap[n].hash # None => heap[n].hash \in DOMAIN hashes \/ IsReadonly(heap[n].hash))
          /\ heap[n].commited \in BOOLEAN /\ heap[n].stale \in BOOLEAN
          /\ heap[n].entry = None => heap[n].hash # None
    /\ \A c \in Slots : slot[c] # None => Reached(heap, slot[c]) \subseteq DOMAIN heap
    /\ DOMAIN values \subseteq DOMAIN hashes /\ commits \subseteq DOMAIN values
    /\ calls \in 0..MaxCalls

\* The hash that a node keeps is the hash of what the node contains, whichever
\* tree it was computed for, and the kind of a node is that of its entry
\* (Node::entry_hash_id, set_entry).  Not so for a node that was in a tree of the
\* reader when it was hashed or commited there: the hash of its id is forgotten
\* then (clear_entries), and HashRepeats says what comes of that.
HashCacheSound ==
    \A n \in DOMAIN heap :
        LET node == heap[n] IN
        /\ node.entry # None => node.entry.kind = node.kind
        /\ (node.hash # None /\ ~node.stale) =>
              GetHash(Hashing, node.hash) = [kind |-> "entry", of |->
                  IF node.entry = None THEN StoredContents(node.hash) ELSE Contents(heap, node.entry)]

\* A commit writes all that the tree refers to and that is not yet written, unless
\* the tree has nodes that hash() has marked and nobody has written: those it
\* leaves out, and the commit cannot be read back (get_entries_recursively).
CommitComplete ==
    \A c \in Contexts["writer"] : slot[c] # None =>
        LET root == RootOf(slot[c])
            r == PrepareCommit(HashTree(Hashing, "writer", root), "writer", root)
        IN  {r.state.heap[n].hash : n \in Reached(heap, slot[c])} \subseteq DOMAIN (r.batch @@ values)
              <=> Fresh("writer", c)

\* A commit can be read back, all of it, and is what its hash says
\* (ShellContextApi::commit, "commit current context diff to storage").  That
\* holds of the commits of careful callers; CommitComplete says of any context
\* what a commit of it would leave out, if it was hashed before.
CommitsReadable ==
    /\ \A id \in commits :
          /\ Lost \notin Range(StoredContents(id))
          /\ StoredContents(id) = hashes[id].of
    /\ CommitComplete

\* A fold visits each path of a tree whose depth the limit admits, once, and in
\* the lexical order of the keys (TreeWalker, FoldDepth).
PathBefore(q, r) ==
    \/ IsStrictPrefix(q, r)
    \/ \E i \in DOMAIN q \cap DOMAIN r : SubSeq(q, 1, i - 1) = SubSeq(r, 1, i - 1) /\ q[i] < r[i]
WalkerMatches ==
    \A c \in Slots : slot[c] # None => \A limit \in Depths, key \in Keys :
        LET out == FoldIter(heap, RootOf(slot[c]), limit, key).out
            t == Map!Subtree(view.contents[c], key)
        IN  /\ {out[i].key : i \in DOMAIN out}
                 = IF t = Map!EmptyTree THEN {} ELSE {q \in DOMAIN t : ShouldApply(limit, Len(q))}
            /\ \A i, j \in DOMAIN out : i < j => PathBefore(out[i].key, out[j].key)

\* Reads of a context agree with its contents, loaded or not, whatever was read,
\* hashed or commited before (WorkingTree): find gives the value, or says that it
\* is a directory.  mem ("check if value exists") is true of a value and of a
\* directory, too; mem_tree ("check if directory exists") is true of a directory
\* unless it is empty.  So each departs from its comment in one case, and in no
\* other.
ReadsAgree ==
    \A c \in Slots : slot[c] # None => \A key \in Keys :
        LET root == RootOf(slot[c])
            t == IF slot[c].kind = "tree" THEN view.contents[c] ELSE Map!EmptyTree
            isDirectory == key \in DOMAIN t /\ t[key] = Dir
            isValue == key \in DOMAIN t /\ t[key] # Dir
        IN  /\ key # <<>> =>
                  LET h == LoadFile(heap, root, key) IN
                  /\ Mem(h, root, key) <=> isValue \/ isDirectory
                  /\ Find(h, root, key) = CASE isValue -> t[key] [] isDirectory -> "error" [] OTHER -> None
            /\ MemTree(LoadPath(heap, root, key), root, key)
                  <=> isDirectory /\ Map!Below(t, key) # Map!EmptyTree

\* What a call would leave in a slot that it makes of c.
Deleted(c, key) ==
    LET r == NewRoot(heap, RootOf(slot[c]), key, None) IN Contents(r.heap, r.entry)
Copied(c, from, to) ==
    LET h == LoadPath(heap, RootOf(slot[c]), from)
        source == CopySource(h, RootOf(slot[c]), from)
        r == NewRoot(h, RootOf(slot[c]), to, TreeEntry(source))
    IN  IF source = None THEN None ELSE Contents(r.heap, r.entry)

\* What copy and delete do, and where it is not what their comments say.  A copy
\* of a directory is a copy; of a source that does not exist the comment says
\* "returns None if from_key doesn't exist", and the code copies an empty
\* directory.  delete ("delete key-value") removes what is at the key, and
\* leaves every value that is not at the key or below it, unless the key goes on
\* below a value: then it is that value that the code deletes.
ChangesAgree ==
    \A c \in Slots : slot[c] # None => \A key \in Keys :
        LET t == ViewRoot(c) IN
        /\ \A to \in Keys :
              Copied(c, key, to) = IF IsDirectory(c, key) THEN Map!Put(t, to, Map!Below(t, key))
                                   ELSE Map!Put(t, to, Map!EmptyTree)
        /\ key # <<>> =>
              /\ key \notin DOMAIN Deleted(c, key)
              /\ BelowNoValue(c, key) <=>
                    \A q \in DOMAIN t : t[q] # Dir /\ ~IsPrefix(key, q) =>
                        q \in DOMAIN Deleted(c, key) /\ Deleted(c, key)[q] = t[q]

\* hash : tree -> Context_hash.t, a function of the tree: it gives the hash of what
\* the tree contains.  Not so in the reader, once clear_entries has forgotten a
\* hash that a node of the tree keeps the id of (ReadonlyIpcBackend): the hash of
\* a tree that was hashed as a context before, and has no new node, is an error.
\* (With a new node it may be right by chance, or the hash of another tree.)
HashRepeats ==
    \A p \in Processes : \A c \in SlotsOf[p] : slot[c] # None =>
        LET root == RootOf(slot[c])
            s == TreeHashed(Hashing, p, c)
        IN  IF p = "writer" \/ Fresh(p, c)
            THEN GetHash(s, s.id) = [kind |-> "entry", of |-> Contents(heap, TreeEntry(root))]
            ELSE local = <<>> /\ (\A n \in Range(root) : heap[n].hash # None) => s.id = None

\* Reads of history (get_key_from_history, get_key_values_by_prefix,
\* get_context_tree_by_prefix) agree with what was commited.
HistoryAgrees ==
    \A id \in commits, key \in Keys :
        LET t == hashes[id].of
            s == Map!Subtree(t, key)
        IN  /\ get_history(id, key) = IF key = <<>> THEN "error" ELSE IF key \notin DOMAIN t THEN None
                                      ELSE IF t[key] = Dir THEN "error" ELSE t[key]
            /\ get_key_values_by_prefix(id, key) = {<<key \o q, s[q]>> : q \in {r \in DOMAIN s : s[r] # Dir}}
            /\ \A depth \in {None, 0, 1, 2} :
                  get_context_tree_by_prefix(id, key, depth) =
                     IF depth = None THEN s
                     ELSE [q \in {r \in DOMAIN s : Len(r) <= depth} |->
                             IF Len(q) = depth THEN "null" ELSE s[q]]

Abstract == INSTANCE ContextMap WITH contents <- view.contents, commits <- view.commits

\* The context is a map: each operation makes the context that ContextMap says,
\* and changes no other, however nodes are shared, loaded, hashed or marked;
\* and a commit contains what was commited.  Of careful callers: see Fresh,
\* IsDirectory and BelowNoValue; CommitComplete, HashRepeats and ChangesAgree say
\* what is the matter with other calls.
ImplementsContextMap == [](view = View) /\ Abstract!Spec
=============================================================================
