----------------------------- MODULE ContextGC -----------------------------
(***************************************************************************)
(* The in-memory context repository (new_context/src/kv_store/in_memory.rs) *)
(* and its garbage collector (new_context/src/gc/worker.rs).                *)
(*                                                                          *)
(* The main thread turns a working tree into hashes and stored entries, one *)
(* hash id at a time, and tells the collector with a command what a commit  *)
(* refers to and when a cycle starts.  The collector keeps the entries of   *)
(* the last PRESERVE_CYCLE_COUNT cycles and gives the ids of older ones     *)
(* back through a bounded queue (the FIFO that SpscQueue implements).       *)
(*                                                                          *)
(* A tree is seen along one path: the commit, its root, and the nodes below *)
(* the root.  The collector treats every id alike, and what keeps an entry  *)
(* alive is the path that leads to it.  The stored bytes of an entry are    *)
(* abstracted to the set of ids it refers to.                               *)
(***************************************************************************)
EXTENDS Naturals, SequencesExt, FiniteSetsExt, Functions

CONSTANTS
    None,                   \* Option::None, and no context
    PRESERVE_CYCLE_COUNT,   \* cycles kept by the collector; 7 in the code
    Levels,                 \* length of the longest path below the root
    QueueSize,              \* room for free ids; 2 000 000 in the code
    MaxId, MaxHashed, MaxCommands, MaxCycles    \* bounds of the model

ASSUME SizesAssumption ==
    /\ PRESERVE_CYCLE_COUNT \in Nat \ {0} /\ QueueSize \in Nat \ {0} /\ Levels \in Nat
    /\ MaxId \in Nat /\ MaxHashed \in Nat /\ MaxCommands \in Nat /\ MaxCycles \in Nat

Ids == 1..MaxId

\* What is stored at an id is None or the set of the ids it refers to.
ASSUME NoneAssumption == \A ids \in SUBSET Ids : ids # None

VARIABLES
    ctx,            \* the context in use: the nodes of its path, or None
    pc,             \* what the main thread is doing
    prepared,       \* ids given to the root and to the commit so far
    hashes,         \* length of HashValueStore::hashes
    values,         \* HashValueStore::values
    new_ids,        \* ids handed out in this cycle
    current_cycle,  \* entries written in this cycle
    context_hashes, \* per cycle, the commits that can be checked out
    channel,        \* commands on their way to the collector
    free_ids,       \* the queue of free ids
    cycles,         \* Cycles::list
    pending,        \* free ids that found no room in the queue
    sending,        \* empty, or what is about to be pushed and what stays pending
    started         \* cycles started so far

main == <<ctx, pc, prepared, hashes, values, new_ids, current_cycle, context_hashes, started>>
gc == <<cycles, pending, sending>>
vars == <<main, channel, free_ids, gc>>

NoCycle == [id \in {} |-> None]

Node(id, commited) == [id |-> id, commited |-> commited]
Fresh == Node(0, FALSE)

Init ==
    /\ ctx = None /\ pc = "idle" /\ prepared = <<>>
    /\ hashes = 0 /\ values = <<>> /\ new_ids = {} /\ current_cycle = NoCycle
    /\ context_hashes = [i \in 1..PRESERVE_CYCLE_COUNT |-> {}]
    /\ channel = <<>> /\ free_ids = <<>>
    /\ cycles = [i \in 1..PRESERVE_CYCLE_COUNT |-> NoCycle]
    /\ pending = <<>> /\ sending = <<>> /\ started = 0

(***************************************************************************)
(* The main thread: contexts.                                               *)
(***************************************************************************)
Known == UNION Range(context_hashes)

\* TezedgeContext::new: only to start from scratch.
NewContext ==
    /\ pc = "idle" /\ ctx = None /\ Known = {}
    /\ ctx' = <<>>
    /\ UNCHANGED <<pc, prepared, hashes, values, new_ids, current_cycle, context_hashes, started,
                   channel, free_ids, gc>>

\* The entry stored at an id; None past the end of the vector.
ValueAt(id) == IF id \in DOMAIN values THEN values[id] ELSE None

\* The ids from an entry down, as far as entries are found.
PathFrom(id) ==
    LET path[n \in 0..Levels] ==
            IF n = 0 THEN <<id>>
            ELSE LET last == ValueAt(Last(path[n - 1]))
                 IN  IF last \in {None, {}} THEN path[n - 1]
                     ELSE Append(path[n - 1], CHOOSE child \in last : TRUE)
    IN  path[Levels]

\* TezedgeIndex::checkout: the nodes of a stored tree are committed ones.
Checkout(commit) ==
    /\ pc = "idle" /\ ctx = None
    /\ ValueAt(commit.id) # None
    /\ \E root \in ValueAt(commit.id) :
          /\ ValueAt(root) # None
          /\ ctx' = LET path == PathFrom(root)
                    IN  [l \in 1..(Len(path) - 1) |-> Node(path[l + 1], TRUE)]
    /\ UNCHANGED <<pc, prepared, hashes, values, new_ids, current_cycle, context_hashes, started,
                   channel, free_ids, gc>>

\* add, delete, add_tree: new nodes down to level n, and below them what was
\* there before or, after a deletion, nothing.
Change ==
    /\ pc = "idle" /\ ctx # None
    /\ \E n \in 0..Levels : \E below \in {<<>>, SubSeq(ctx, n + 1, Len(ctx))} :
          ctx' = [l \in 1..n |-> Fresh] \o below
    /\ ctx' # ctx
    /\ UNCHANGED <<pc, prepared, hashes, values, new_ids, current_cycle, context_hashes, started,
                   channel, free_ids, gc>>

DropContext ==
    /\ pc = "idle" /\ ctx # None
    /\ ctx' = None
    /\ UNCHANGED <<pc, prepared, hashes, values, new_ids, current_cycle, context_hashes, started,
                   channel, free_ids, gc>>

(***************************************************************************)
(* The main thread: get_merkle_root, hash and commit.  The nodes that have  *)
(* no id yet are hashed, the deepest first, then the root and, for hash and *)
(* commit, the commit.                                                      *)
(***************************************************************************)
Operations == {"root", "hash", "commit"}

PrepareCommit(op) ==
    /\ pc = "idle" /\ ctx # None
    /\ op # "commit" => hashes < MaxHashed
    /\ pc' = op
    /\ UNCHANGED <<ctx, prepared, hashes, values, new_ids, current_cycle, context_hashes, started,
                   channel, free_ids, gc>>

VacantId == IF free_ids # <<>> THEN Head(free_ids) ELSE hashes + 1

GetVacantEntryHash(id) ==
    /\ \/ /\ free_ids # <<>> /\ id <= Len(values)
          /\ free_ids' = Tail(free_ids)
          /\ values' = [values EXCEPT ![id] = None]
          /\ hashes' = hashes
       \/ /\ free_ids = <<>> /\ id <= MaxId
          /\ hashes' = id
          /\ UNCHANGED <<free_ids, values>>
    /\ new_ids' = new_ids \cup {id}

Unhashed == {l \in DOMAIN ctx : ctx[l].id = 0}
Unprepared == Len(prepared) < IF pc = "root" THEN 1 ELSE 2

HashEntry ==
    /\ pc \in Operations /\ Unprepared
    /\ GetVacantEntryHash(VacantId)
    /\ IF Unhashed # {}
       THEN ctx' = [ctx EXCEPT ![Max(Unhashed)].id = VacantId] /\ prepared' = prepared
       ELSE ctx' = ctx /\ prepared' = Append(prepared, VacantId)
    /\ UNCHANGED <<pc, current_cycle, context_hashes, started, channel, gc>>

\* values[id] is assigned without a look at the length of the vector: an id
\* that was handed out and never written may lie past its end.
HashPanics ==
    /\ pc \in Operations /\ Unprepared
    /\ free_ids # <<>> /\ Head(free_ids) > Len(values)
    /\ free_ids' = Tail(free_ids)
    /\ pc' = "poisoned"
    /\ UNCHANGED <<ctx, prepared, hashes, values, new_ids, current_cycle, context_hashes, started,
                   channel, gc>>

\* WorkingTree::hash leaves the ids in the nodes, and marks none of them.
RootDone ==
    /\ pc = "root" /\ Len(prepared) = 1
    /\ pc' = "idle" /\ prepared' = <<>>
    /\ UNCHANGED <<ctx, hashes, values, new_ids, current_cycle, context_hashes, started,
                   channel, free_ids, gc>>

\* TezedgeContext::hash marks the nodes, and throws their entries away.
HashDone ==
    /\ pc = "hash" /\ Len(prepared) = 2
    /\ pc' = "idle" /\ prepared' = <<>>
    /\ ctx' = [l \in DOMAIN ctx |-> Node(ctx[l].id, TRUE)]
    /\ UNCHANGED <<hashes, values, new_ids, current_cycle, context_hashes, started,
                   channel, free_ids, gc>>

\* The committed nodes end what get_entries_recursively visits.
Uncommited == {l \in DOMAIN ctx : \A k \in 1..l : ~ctx[k].commited}
Below(l) == IF l < Len(ctx) THEN {ctx[l + 1].id} ELSE {}

\* The entries of the commit, of its root and of the nodes it adds.
Batch ==
    [id \in Range(prepared) \cup {ctx[l].id : l \in Uncommited} |->
        CASE id = prepared[2] -> {prepared[1]}
          [] id = prepared[1] -> Below(0)
          [] OTHER -> Below(CHOOSE l \in Uncommited : ctx[l].id = id)]

ReferencedOlderEntries == Below(Cardinality(Uncommited))

WriteBatch(batch) ==
    [id \in 1..Max({Len(values)} \cup DOMAIN batch) |->
        IF id \in DOMAIN batch THEN batch[id] ELSE ValueAt(id)]

InsertAll(cycle, batch) ==
    [id \in DOMAIN cycle \cup DOMAIN batch |-> IF id \in DOMAIN batch THEN batch[id] ELSE cycle[id]]

Commit ==
    /\ pc = "commit" /\ Len(prepared) = 2 /\ Len(channel) < MaxCommands
    /\ values' = WriteBatch(Batch)
    /\ current_cycle' = InsertAll(current_cycle, Batch)
    /\ context_hashes' = [context_hashes EXCEPT ![PRESERVE_CYCLE_COUNT] = @ \cup
           {[id |-> prepared[2], path |-> <<prepared[1]>> \o [l \in DOMAIN ctx |-> ctx[l].id]]}]
    /\ channel' = Append(channel, [reused |-> ReferencedOlderEntries])
    /\ ctx' = [l \in DOMAIN ctx |-> Node(ctx[l].id, TRUE)]
    /\ pc' = "idle" /\ prepared' = <<>>
    /\ UNCHANGED <<hashes, new_ids, started, free_ids, gc>>

CycleStarted ==
    /\ pc = "idle"
    /\ started < MaxCycles /\ Len(channel) < MaxCommands
    /\ started' = started + 1
    /\ channel' = Append(channel, [values_in_cycle |-> current_cycle, new_ids |-> new_ids])
    /\ current_cycle' = NoCycle /\ new_ids' = {}
    /\ context_hashes' = Append(Tail(context_hashes), {})
    /\ UNCHANGED <<ctx, pc, prepared, hashes, values, free_ids, gc>>

(***************************************************************************)
(* The collector.                                                           *)
(***************************************************************************)
Available == QueueSize - Len(free_ids)

\* What is pushed into the queue, and what is then pending.
Send(ids, rest) == sending' = <<ids, rest>>

\* Mutant: what was pushed stays pending too.
SendUnusedTwice(unused) ==
    Send(SubSeq(unused, 1, Min({Available, Len(unused)})), pending \o unused)

SendUnused(unused) ==
    LET n == Min({Available, Len(unused)})
    IN  Send(SubSeq(unused, 1, n), pending \o SubSeq(unused, n + 1, Len(unused)))

SendPending ==
    LET start == Len(pending) - Min({Available, Len(pending)})
    IN  IF pending = <<>> \/ Available = 0 THEN sending' = sending
        ELSE Send(SubSeq(pending, start + 1, Len(pending)), SubSeq(pending, 1, start))

\* The ids of a BTreeMap, in ascending order.
Keys(cycle) ==
    [k \in 1..Cardinality(DOMAIN cycle) |->
        CHOOSE id \in DOMAIN cycle : Cardinality({x \in DOMAIN cycle : x <= id}) = k]

Roll(new_cycle) == Append(Tail(cycles), new_cycle)

StartNewCycle ==
    /\ sending = <<>> /\ channel # <<>> /\ "new_ids" \in DOMAIN Head(channel)
    /\ channel' = Tail(channel)
    /\ cycles' = Roll(InsertAll([id \in Head(channel).new_ids |-> None], Head(channel).values_in_cycle))
    /\ SendUnused(Keys(Head(cycles)))
    /\ UNCHANGED <<main, free_ids, pending>>

\* The cycles before the last in which an id has a value.
Earlier(list, id) ==
    {i \in 1..(PRESERVE_CYCLE_COUNT - 1) : id \in DOMAIN list[i] /\ list[i][id] # None}
Item(list, id) == list[Max(Earlier(list, id))][id]

\* Mutant: the entries below a reused one are left where they are.
VisitedAlone(list, reused) == reused

\* Every id mark_reused comes across: it goes on below the ids it moves.
Visited(list, reused) ==
    LET visited[n \in 0..MaxId] ==
            IF n = 0 THEN reused
            ELSE LET ids == visited[n - 1]
                 IN  ids \cup UNION {Item(list, id) : id \in {i \in ids : Earlier(list, i) # {}}}
    IN  visited[MaxId]

MoveToLastCycle(list, ids) ==
    LET moved == {id \in ids : Earlier(list, id) # {}}
    IN  [i \in DOMAIN list |->
            IF i < PRESERVE_CYCLE_COUNT THEN Restrict(list[i], DOMAIN list[i] \ ids)
            ELSE InsertAll(list[i], [id \in moved |-> Item(list, id)])]

MarkReused ==
    /\ sending = <<>> /\ channel # <<>> /\ "reused" \in DOMAIN Head(channel)
    /\ channel' = Tail(channel)
    /\ cycles' = MoveToLastCycle(cycles, Visited(cycles, Head(channel).reused))
    /\ SendPending
    /\ UNCHANGED <<main, free_ids, pending>>

PushSlice ==
    /\ sending # <<>>
    /\ free_ids' = free_ids \o sending[1]
    /\ pending' = sending[2]
    /\ sending' = <<>>
    /\ UNCHANGED <<main, channel, cycles>>

(***************************************************************************)
(* What the properties need of the shell, and the code does not see to:     *)
(*  - leaves: no context is used on after a cycle start;                    *)
(*  - near: a commit is checked out only while its path is no longer than   *)
(*    the cycle starts that it has left;                                    *)
(*  - writes: no context is committed after its hash (get_merkle_root, which *)
(*    marks nothing, may come before).                                      *)
(* Spec is the code with any shell, LeavingSpec with a shell that keeps to  *)
(* the first, CarefulSpec with one that keeps to all three.  Without the    *)
(* first, an id that get_merkle_root took before the start and commit       *)
(* writes after it is in two cycles; without the second, a commit can be    *)
(* made above an entry that has been given back.                            *)
(***************************************************************************)
LeftOver == ctx # None

Near(i, commit) == Len(commit.path) - 1 <= i
Written == ctx # None => \A l \in DOMAIN ctx : ctx[l].commited => ValueAt(ctx[l].id) # None

Steps(leaves, near, writes) ==
    \/ NewContext \/ Change \/ DropContext
    \/ \E i \in DOMAIN context_hashes : \E commit \in context_hashes[i] :
          (near => Near(i, commit)) /\ Checkout(commit)
    \/ PrepareCommit("root") \/ PrepareCommit("hash")
    \/ (writes => Written) /\ PrepareCommit("commit")
    \/ HashEntry \/ HashPanics \/ RootDone \/ HashDone \/ Commit
    \/ (leaves => ~LeftOver) /\ CycleStarted
    \/ StartNewCycle \/ MarkReused \/ PushSlice

Next == Steps(FALSE, FALSE, FALSE)
Spec == Init /\ [][Next]_vars

LeavingSpec == Init /\ [][Steps(TRUE, FALSE, FALSE)]_vars

CarefulNext == Steps(TRUE, TRUE, TRUE)
CarefulSpec == Init /\ [][CarefulNext]_vars

(***************************************************************************)
(* Properties.                                                              *)
(***************************************************************************)
Released == free_ids \o (IF sending = <<>> THEN pending ELSE sending[1] \o sending[2])

\* The state has its types, and no more ids are free than the queue has room for.
TypeOK ==
    /\ ctx = None \/ (Len(ctx) <= Levels /\ \A l \in DOMAIN ctx :
                         ctx[l].id \in 0..MaxId /\ ctx[l].commited \in BOOLEAN)
    /\ pc \in {"idle", "poisoned"} \cup Operations
    /\ Len(prepared) <= 2 /\ Range(prepared) \subseteq Ids
    /\ hashes \in 0..MaxId /\ Len(values) <= hashes
    /\ \A id \in DOMAIN values : values[id] = None \/ values[id] \subseteq Ids
    /\ new_ids \subseteq Ids /\ DOMAIN current_cycle \subseteq new_ids
    /\ Len(context_hashes) = PRESERVE_CYCLE_COUNT /\ Len(cycles) = PRESERVE_CYCLE_COUNT
    /\ Len(channel) <= MaxCommands /\ started \in 0..MaxCycles
    /\ Range(Released) \subseteq Ids /\ Len(free_ids) <= QueueSize

\* Every id ever handed out is in exactly one place: in the running cycle, in
\* a command, in one of the cycles of the collector, or released once.  An id
\* in no place is lost, one in two places will be handed out while in use.
\* Of Spec it fails: a context that is hashed, kept over a cycle start and then
\* committed has its ids in two cycles.  It needs leaves and writes.
EveryIdOwnedOnce == LET released == Released IN
    pc = "poisoned" \/ \A id \in 1..hashes :
        1 = (IF id \in new_ids THEN 1 ELSE 0)
            + Cardinality({j \in DOMAIN channel : "new_ids" \in DOMAIN channel[j]
                              /\ id \in channel[j].new_ids \cup DOMAIN channel[j].values_in_cycle})
            + Cardinality({i \in DOMAIN cycles : id \in DOMAIN cycles[i]})
            + Cardinality({k \in DOMAIN released : released[k] = id})

\* path[1] is the root; an entry is intact while its id is not given away and
\* it is stored as it was written.
Intact(released, path, l) ==
    /\ path[l] \notin released
    /\ ValueAt(path[l]) = IF l < Len(path) THEN {path[l + 1]} ELSE {}

\* What a commit refers to l levels below its root is kept for
\* PRESERVE_CYCLE_COUNT - l cycle starts after it: mark_reused does not go
\* below an entry of the last cycle, so an entry may be a cycle older than
\* the one that refers to it, level by level.
\* It needs all three conditions of CarefulSpec; Spec has none of them.
Retained == LET released == Range(Released) IN
    \A i \in DOMAIN context_hashes : \A commit \in context_hashes[i] :
        /\ commit.id \notin released /\ ValueAt(commit.id) = {commit.path[1]}
        /\ \A l \in DOMAIN commit.path : l - 1 <= i => Intact(released, commit.path, l)

\* What is given back to be used again belongs to no commit that can still be
\* checked out.
KnownCommitsIntact ==
    \A commit \in Known : \A l \in DOMAIN commit.path :
        Intact(Range(Released), commit.path, l)
=============================================================================
