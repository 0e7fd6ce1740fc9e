------------------------------- MODULE Timing -------------------------------
(***************************************************************************)
(* tezos/timing/src/lib.rs and the hooks of new_context/src/timings.rs:    *)
(* the context's thread sends what it does over a bounded channel to a     *)
(* thread that keeps statistics and writes them to SQLite.  Other          *)
(* processes read the database: they see what was committed.               *)
(*                                                                         *)
(* The SQLite connection is external.  Statements run in the open          *)
(* transaction if there is one and are committed one by one otherwise; a   *)
(* statement, a COMMIT or a BEGIN may fail.  A commit that fails is rolled *)
(* back when the Transaction is dropped.  The foreign keys of              *)
(* block_action_stats are deferred to the COMMIT.                          *)
(*                                                                         *)
(* Times are numbers of ten microseconds, less than zero for none.  What   *)
(* may not be there is a set with at most one element.                     *)
(***************************************************************************)
EXTENDS Integers, Sequences, FiniteSets, Functions

CONSTANTS
    Blocks, Operations, Contexts,
    Actions,            \* [kind, root, tezedge, irmin]; a root of "" is no key
    Commits,            \* [tezedge, irmin], the times of commits and checkouts
    ChannelBound,       \* sync_channel(10_000)
    MaxMessages,        \* bound on the messages of each kind
    MaxSent, MaxErrors  \* bounds on all messages and on failures

VARIABLES
    channel, thread, sent,
    current_block, current_operation, current_context, block_started_at,
    nactions, checkout_time, block_stats, global_stats,
    transaction, db, committed, errors,
    ideal,              \* what the messages said, block by block
    clean, spoilt       \* no failure since a SetBlock(None); blocks with failures

current == <<current_block, current_operation, current_context>>
stats == <<nactions, checkout_time, block_stats, global_stats>>
ghost == <<ideal, clean, spoilt>>
vars == <<channel, thread, sent, current, block_started_at, stats, transaction,
          db, committed, errors, ghost>>

Null == 0 - 1

ASSUME TimesAssumption ==
    \A x \in Actions \cup Commits : x.tezedge \in Int /\ x.irmin \in Int

-----------------------------------------------------------------------------
(* Statistics.                                                             *)

(* Upper bounds of the ranges, from 10 us to 100 s; the last has none.     *)
Bounds == <<1, 10, 100, 1000, 10000, 100000, 1000000, 10000000>>

RangeLow(r) == IF r = 1 THEN 0 ELSE Bounds[r - 1]

(* Mutant: a time at the bound of a range belongs to the range below.      *)
RangeOf_at(t) == 1 + Cardinality({i \in DOMAIN Bounds : t > Bounds[i]})

RangeOf(t) == 1 + Cardinality({i \in DOMAIN Bounds : t >= Bounds[i]})

NoRange == [count |-> 0, total |-> 0, max |-> 0, mean |-> 0]
NoStats == [count |-> 0, total |-> 0, ranges |-> << >>]

(* Ranges without a time are left out.                                     *)
add_time(s, t) ==
    LET r == RangeOf(t)
        old == IF r \in DOMAIN s.ranges THEN s.ranges[r] ELSE NoRange
        new == [old EXCEPT !.count = @ + 1, !.total = @ + t,
                           !.max = IF @ >= t THEN @ ELSE t]
    IN IF t < 0 THEN s
       ELSE [count |-> s.count + 1, total |-> s.total + t,
             ranges |-> [q \in DOMAIN s.ranges \cup {r} |->
                            IF q = r THEN new ELSE s.ranges[q]]]

compute_mean(s) ==
    [s EXCEPT !.ranges = [r \in DOMAIN @ |-> [@[r] EXCEPT !.mean = s.ranges[r].total
                                                            \div s.ranges[r].count]]]

At(f, k, default) == IF k \in DOMAIN f THEN f[k] ELSE default
Put(f, k, v) == [x \in DOMAIN f \cup {k} |-> IF x = k THEN v ELSE f[x]]

(* A global entry is <<side, root, kind>>.  An entry for a root holds all  *)
(* its kinds; kinds without a time are left out.                           *)
add_global_time(g, side, root, kind, t) ==
    IF t < 0 THEN g
    ELSE Put(g, <<side, root, kind>>,
             add_time(At(g, <<side, root, kind>>, NoStats), t))

add_global_stats(g, a) ==
    add_global_time(add_global_time(g, "tezedge", a.root, a.kind, a.tezedge),
                    "irmin", a.root, a.kind, a.irmin)

One(t) == IF t < 0 THEN 0 ELSE 1

add_block_stats(s, a) ==
    LET old == At(s, a.root, [tezedge |-> 0, irmin |-> 0])
    IN Put(s, a.root, [tezedge |-> old.tezedge + One(a.tezedge),
                       irmin |-> old.irmin + One(a.irmin)])

-----------------------------------------------------------------------------
(* SQLite.  Rows are never deleted: the id of a block is its index.        *)

EmptyDb == [blocks |-> << >>, operations |-> {}, contexts |-> {}, keys |-> {},
            rows |-> {}, global |-> << >>]

Write(d) == db' = d /\ committed' = IF transaction THEN committed ELSE d

(* Rows whose block is not there, as PRAGMA foreign_keys finds them.       *)
Dangling(d) == \E row \in d.rows : row.block \notin DOMAIN d.blocks

Fails(fail) ==
    \/ fail = "no" /\ errors' = errors
    \/ fail # "no" /\ errors < MaxErrors /\ errors' = errors + 1

-----------------------------------------------------------------------------
Kinds == {"InitTiming", "SetBlock", "SetOperation", "Checkout", "Commit", "Action"}

Init ==
    /\ channel = << >> /\ thread = "waiting" /\ sent = [k \in Kinds |-> 0]
    /\ current_block = {} /\ current_operation = {} /\ current_context = {}
    /\ block_started_at = FALSE
    /\ nactions = 0 /\ checkout_time = {} /\ block_stats = << >> /\ global_stats = << >>
    /\ transaction = FALSE /\ db = EmptyDb /\ committed = EmptyDb /\ errors = 0
    /\ ideal = [block |-> {}, n |-> 0, checkout |-> {}, stats |-> << >>,
                pending |-> << >>, published |-> [b \in Blocks |-> << >>]]
    /\ clean = TRUE /\ spoilt = {}

Messages ==
    [t : {"InitTiming"}]
        \cup [t : {"SetBlock"}, block : {{}} \cup {{b} : b \in Blocks}]
        \cup [t : {"SetOperation"}, operation : {{}} \cup {{o} : o \in Operations}]
        \cup [t : {"Checkout"}, context : Contexts, time : Commits]
        \cup [t : {"Commit"}, time : Commits]
        \cup [t : {"Action"}, action : Actions]

(* The hooks: a send waits while the channel is full, and fails once the   *)
(* thread has ended.                                                       *)
Hook(m) ==
    /\ sent[m.t] < MaxMessages[m.t] /\ FoldFunction(+, 0, sent) < MaxSent
    /\ sent' = [sent EXCEPT ![m.t] = @ + 1]
    /\ \/ /\ thread # "ended" /\ Len(channel) < ChannelBound
          /\ channel' = Append(channel, m)
       \/ thread = "ended" /\ UNCHANGED channel
    /\ UNCHANGED <<thread, current, block_started_at, stats, transaction, db, committed,
                   errors, ghost>>

(* start_timing: messages before InitTiming are dropped; a database that   *)
(* cannot be opened ends the thread, and with it the channel.              *)
start_timing ==
    /\ thread = "waiting" /\ channel # << >>
    /\ IF Head(channel).t # "InitTiming"
       THEN channel' = Tail(channel) /\ UNCHANGED <<thread, errors>>
       ELSE \E fail \in {"no", "open"} :
               /\ Fails(fail)
               /\ thread' = IF fail = "no" THEN "running" ELSE "ended"
               /\ channel' = IF fail = "no" THEN Tail(channel) ELSE << >>
    /\ UNCHANGED <<sent, current, block_started_at, stats, transaction, db, committed, ghost>>

Receive(type) ==
    /\ thread = "running" /\ channel # << >> /\ Head(channel).t = type
    /\ channel' = Tail(channel)
    /\ UNCHANGED <<thread, sent>>

(* A failure spoils the block that the messages are about, and all blocks  *)
(* up to the next SetBlock(None) that succeeds.                            *)
Spoil(fail) ==
    /\ clean' = (clean /\ fail = "no")
    /\ spoilt' = IF clean' THEN spoilt ELSE spoilt \cup ideal.block

-----------------------------------------------------------------------------
(* set_current finds the row of a hash that is not the current one, or     *)
(* inserts it and finds it.  "insert" fails before the row is there,       *)
(* "find" after.                                                           *)

Looks(hash, now) == hash # {} /\ hash # now

set_current_in(table, hash, now, fail) ==
    IF Looks(hash, now) /\ fail # "insert" THEN table \cup hash ELSE table

current_hash == {c.hash : c \in current_block}

get_id_on_table(d, h) == {i \in DOMAIN d.blocks : d.blocks[i].hash = h}

InsertBlockRow(d, block, fail) ==
    IF fail = "insert" \/ ~Looks(block, current_hash)
           \/ \E h \in block : get_id_on_table(d, h) # {}
    THEN d
    ELSE [d EXCEPT !.blocks = Append(@,
             [hash |-> CHOOSE h \in block : TRUE, actions_count |-> Null,
              checkout |-> {}, commit |-> {}, timed |-> FALSE])]

set_current_block_to(d, block) ==
    IF block # {} /\ block = current_hash THEN current_block
    ELSE UNION {[id : get_id_on_table(d, h), hash : {h}] : h \in block}

UpdateRow(d, f(_)) ==
    [d EXCEPT !.blocks = [i \in DOMAIN @ |->
        IF \E c \in current_block : c.id = i THEN f(@[i]) ELSE @[i]] \o << >>]

EndBlock(d) == LET timed(row) == [row EXCEPT !.timed = TRUE] IN UpdateRow(d, timed)

NextBlock(block) ==
    [ideal EXCEPT !.block = block, !.n = 0, !.checkout = {}, !.stats = << >>,
        !.pending = << >>,
        !.published = [b \in Blocks |-> IF b \in ideal.block THEN @[b] \o ideal.pending
                                        ELSE @[b]]]

(* Mutant: the counts of the block go on in the next one.                  *)
set_current_block_goes_on ==
    LET block == Head(channel).block
        inserted == InsertBlockRow(db, block, "no")
    IN /\ Receive("SetBlock")
       /\ block_started_at' = (block # {})
       /\ current_block' = set_current_block_to(inserted, block)
       /\ transaction' = TRUE /\ db' = inserted /\ committed' = inserted
       /\ current_operation' = {} /\ current_context' = {}
       /\ UNCHANGED <<stats, errors, clean, spoilt>>
       /\ ideal' = NextBlock(block)

(* A failure leaves what comes after it undone: the current block, the     *)
(* transaction, the reset of the block's statistics.                       *)
set_current_block ==
    \E fail \in {"no", "update", "insert", "find", "commit", "begin"} :
        LET block == Head(channel).block
            ends == block = {} /\ block_started_at
            updated == IF ends /\ fail # "update" THEN EndBlock(db) ELSE db
            inserted == InsertBlockRow(updated, block, fail)
            moved == fail \in {"no", "commit", "begin"}
            refused == transaction /\ (fail = "commit" \/ Dangling(inserted))
            done == fail = "no" /\ ~refused
        IN /\ Receive("SetBlock")
           /\ fail = "update" => ends
           /\ fail \in {"insert", "find"} => Looks(block, current_hash)
           /\ fail = "commit" => transaction
           /\ fail = "begin" => ~refused
           /\ Fails(fail)
           /\ block_started_at' = (block # {})
           /\ current_block' = IF moved THEN set_current_block_to(inserted, block)
                               ELSE current_block
           /\ transaction' = IF moved THEN done ELSE transaction
           /\ IF ~moved THEN Write(IF fail = "update" THEN db ELSE inserted)
              ELSE IF refused THEN db' = committed /\ UNCHANGED committed
              ELSE db' = inserted /\ committed' = inserted
           /\ IF done
              THEN /\ current_operation' = {} /\ current_context' = {}
                   /\ nactions' = 0 /\ checkout_time' = {} /\ block_stats' = << >>
              ELSE UNCHANGED <<current_operation, current_context, nactions, checkout_time,
                               block_stats>>
           /\ UNCHANGED global_stats
           /\ ideal' = NextBlock(block)
           /\ clean' = (done /\ (clean \/ block = {}))
           /\ spoilt' = IF clean /\ done THEN spoilt ELSE spoilt \cup block \cup ideal.block

set_current_operation ==
    \E fail \in {"no", "insert", "find"} :
        LET operation == Head(channel).operation
        IN /\ Receive("SetOperation")
           /\ fail # "no" => Looks(operation, current_operation)
           /\ Fails(fail)
           /\ current_operation' = IF fail = "no" THEN operation ELSE current_operation
           /\ Write([db EXCEPT !.operations =
                        set_current_in(@, operation, current_operation, fail)])
           /\ UNCHANGED <<current_block, current_context, block_started_at, stats,
                          transaction, ideal>>
           /\ Spoil(fail)

insert_checkout ==
    \E fail \in {"no", "insert", "find"} :
        LET m == Head(channel)
            ignored == current_block = {}
        IN /\ Receive("Checkout")
           /\ fail # "no" => ~ignored /\ Looks({m.context}, current_context)
           /\ Fails(fail)
           /\ global_stats' =
                IF ignored THEN global_stats
                ELSE add_global_stats(global_stats,
                        [root |-> "checkout", kind |-> "checkout",
                         tezedge |-> m.time.tezedge, irmin |-> m.time.irmin])
           /\ Write(IF ignored THEN db
                    ELSE [db EXCEPT !.contexts =
                             set_current_in(@, {m.context}, current_context, fail)])
           /\ IF ~ignored /\ fail = "no"
              THEN current_context' = {m.context} /\ checkout_time' = {m.time}
              ELSE UNCHANGED <<current_context, checkout_time>>
           /\ UNCHANGED <<current_block, current_operation, block_started_at, nactions,
                          block_stats, transaction>>
           /\ ideal' = IF ideal.block = {} THEN ideal
                       ELSE [ideal EXCEPT !.checkout = {m.time}]
           /\ Spoil(fail)

-----------------------------------------------------------------------------
(* insert_commit                                                           *)

UpdateBlock(d, time) ==
    LET updated(row) == [row EXCEPT !.actions_count = nactions, !.checkout = checkout_time,
                                    !.commit = {time}]
    IN UpdateRow(d, updated)

(* Mutant: the entries of commits start anew with each block.              *)
insert_action_stats_anew(d, g, entries) ==
    [d EXCEPT !.global = [k \in DOMAIN @ \cup entries |->
        IF k \in entries /\ k[2] = "commit" /\ nactions > 0 THEN NoStats
        ELSE IF k \in entries THEN compute_mean(g[k]) ELSE @[k]]]

(* INSERT OR IGNORE and UPDATE of the entries.                             *)
insert_action_stats(d, g, entries) ==
    [d EXCEPT !.global = [k \in DOMAIN @ \cup entries |->
        IF k \in entries THEN compute_mean(g[k]) ELSE @[k]]]

(* What is written when a statement fails: of the entries all those of     *)
(* tezedge come before those of irmin, else the order is free.             *)
Written(g, fail) ==
    IF fail # "global" THEN {DOMAIN g}
    ELSE {e \in SUBSET DOMAIN g :
             (\E k \in e : k[1] = "irmin") => \A k \in DOMAIN g : k[1] = "tezedge" => k \in e}

(* Rows are never updated: each commit of a block inserts its own.         *)
BlockRow(d, root) ==
    LET id == (CHOOSE c \in current_block : TRUE).id
    IN [root |-> root, block |-> id,
        nth |-> 1 + Cardinality({row \in d.rows : row.root = root /\ row.block = id}),
        stats |-> block_stats[root]]

sync_block_stats(d, roots) == [d EXCEPT !.rows = @ \cup {BlockRow(d, r) : r \in roots}]

insert_commit ==
    \E fail \in {"no", "update", "global", "rows"} :
        LET m == Head(channel)
            ignored == current_block = {}
            roots == DOMAIN block_stats
            g == add_global_stats(global_stats,
                    [root |-> "commit", kind |-> "commit",
                     tezedge |-> m.time.tezedge, irmin |-> m.time.irmin])
            refused == ~transaction /\ ~ignored /\ Dangling(sync_block_stats(db, roots))
        IN /\ Receive("Commit")
           /\ fail # "no" => ~ignored
           /\ fail = "rows" => roots # {}
           /\ Fails(fail)
           /\ global_stats' = IF ignored THEN global_stats ELSE g
           /\ IF ignored \/ fail = "update" THEN UNCHANGED <<db, committed>>
              ELSE \E e \in Written(g, fail) :
                   \E r \in IF refused \/ fail = "global" THEN {{}}
                            ELSE IF fail = "rows" THEN SUBSET roots \ {roots} ELSE {roots} :
                      Write(sync_block_stats(
                                insert_action_stats(UpdateBlock(db, m.time), g, e), r))
           /\ UNCHANGED <<current, block_started_at, nactions, checkout_time, block_stats,
                          transaction>>
           /\ ideal' = IF ideal.block = {} THEN ideal
                       ELSE [ideal EXCEPT !.pending = Append(@,
                                [n |-> ideal.n, checkout |-> ideal.checkout, time |-> m.time,
                                 stats |-> ideal.stats])]
           /\ Spoil(fail)

(* An action outside of a block is not counted, one without a key only as  *)
(* an action of its block.                                                 *)
insert_action ==
    \E fail \in {"no", "insert", "find"} :
        LET a == Head(channel).action
            ignored == current_block = {}
            keyed == ~ignored /\ a.root # ""
        IN /\ Receive("Action")
           /\ fail # "no" => keyed
           /\ Fails(fail)
           /\ nactions' = IF ~ignored /\ fail = "no" THEN nactions + 1 ELSE nactions
           /\ IF keyed /\ fail = "no"
              THEN /\ block_stats' = add_block_stats(block_stats, a)
                   /\ global_stats' = add_global_stats(global_stats, a)
              ELSE UNCHANGED <<block_stats, global_stats>>
           /\ Write(IF keyed /\ fail # "insert" THEN [db EXCEPT !.keys = @ \cup {a.root}]
                    ELSE db)
           /\ UNCHANGED <<current, block_started_at, checkout_time, transaction>>
           /\ ideal' = IF ideal.block = {} THEN ideal
                       ELSE [ideal EXCEPT !.n = @ + 1,
                                !.stats = IF a.root = "" THEN @ ELSE add_block_stats(@, a)]
           /\ Spoil(fail)

(* process_msg: InitTiming does nothing the second time.                   *)
InitAgain ==
    /\ Receive("InitTiming")
    /\ UNCHANGED <<current, block_started_at, stats, transaction, db, committed, errors, ghost>>

Next ==
    \/ \E m \in Messages : Hook(m)
    \/ start_timing
    \/ set_current_block \/ set_current_operation \/ insert_checkout
    \/ insert_commit \/ insert_action \/ InitAgain

Spec == Init /\ [][Next]_vars

-----------------------------------------------------------------------------
(* The channel of the hooks keeps to its bound, current_block names a row  *)
(* by id and hash, and the database's blocks have distinct hashes (UNIQUE).*)
TypeOK ==
    /\ Len(channel) <= ChannelBound /\ thread \in {"waiting", "running", "ended"}
    /\ \A k \in Kinds : sent[k] \in 0 .. MaxMessages[k]
    /\ errors \in 0 .. MaxErrors
    /\ Cardinality(current_block) <= 1 /\ current_hash \subseteq Blocks
    /\ Cardinality(current_operation) <= 1 /\ current_operation \subseteq Operations
    /\ Cardinality(current_context) <= 1 /\ current_context \subseteq Contexts
    /\ nactions \in Nat /\ checkout_time \subseteq Commits
    /\ block_started_at \in BOOLEAN /\ transaction \in BOOLEAN
    /\ \A i, j \in DOMAIN db.blocks : db.blocks[i].hash = db.blocks[j].hash => i = j

(* The rows of the commits of a block, each root's in their order.         *)
RowsOf(commits) ==
    UNION {{[root |-> r, nth |-> Cardinality({j \in 1 .. i : r \in DOMAIN commits[j].stats}),
             stats |-> commits[i].stats[r]] : r \in DOMAIN commits[i].stats} :
           i \in DOMAIN commits}

(* Of a block during which no statement failed, other processes see, from  *)
(* the next SetBlock on and not before, the rows of each of its commits    *)
(* with the actions since the block was set, and on the block's own row    *)
(* what the last commit said.  A failure spoils no block after the next    *)
(* SetBlock(None) that succeeds.                                           *)
WholeBlocks ==
    \A b \in Blocks \ spoilt :
        LET seen == ideal.published[b]
            ids == {i \in DOMAIN committed.blocks : committed.blocks[i].hash = b}
            last == seen[Len(seen)]
        IN /\ {[root |-> row.root, nth |-> row.nth, stats |-> row.stats] :
                  row \in {x \in committed.rows : x.block \in ids}} = RowsOf(seen)
           /\ seen # << >> =>
                 \E i \in ids : /\ committed.blocks[i].actions_count = last.n
                                /\ committed.blocks[i].checkout = last.checkout
                                /\ committed.blocks[i].commit = {last.time}

(* The ranges of a global entry that other processes see add up to it, and *)
(* the mean and the largest time of a range are times of that range.       *)
GlobalStatsAddUp ==
    \A k \in DOMAIN committed.global :
        LET s == committed.global[k]
            sum[r \in 0 .. Len(Bounds) + 1] ==
                IF r = 0 THEN 0
                ELSE sum[r - 1] + (IF r \in DOMAIN s.ranges THEN s.ranges[r].count ELSE 0)
        IN /\ s.count = sum[Len(Bounds) + 1]
           /\ \A r \in DOMAIN s.ranges :
                 /\ RangeLow(r) <= s.ranges[r].mean /\ s.ranges[r].mean <= s.ranges[r].max
                 /\ r <= Len(Bounds) => s.ranges[r].max < Bounds[r]

(* A reader never sees the global statistics go back, whatever is rolled   *)
(* back: they are kept in memory and written whole with each commit.       *)
GlobalStatsGrow ==
    [][\A k \in DOMAIN committed.global :
          /\ k \in DOMAIN committed'.global
          /\ committed.global[k].count <= committed'.global[k].count
          /\ committed.global[k].total <= committed'.global[k].total]_vars

-----------------------------------------------------------------------------
(* The inductive invariant behind GlobalStatsGrow and GlobalStatsAddUp.    *)

RangeCount(ranges, r) == IF r \in DOMAIN ranges THEN ranges[r].count ELSE 0

RangeSum(ranges) ==
    RangeCount(ranges, 1) + RangeCount(ranges, 2) + RangeCount(ranges, 3)
        + RangeCount(ranges, 4) + RangeCount(ranges, 5) + RangeCount(ranges, 6)
        + RangeCount(ranges, 7) + RangeCount(ranges, 8) + RangeCount(ranges, 9)

(* The times of a range lie in it: their sum does, taken count times.      *)
RangeOK(r, x) ==
    /\ x \in [count : Nat \ {0}, total : Nat, max : Nat, mean : Nat]
    /\ RangeLow(r) * x.count <= x.total /\ x.total <= x.max * x.count
    /\ r <= Len(Bounds) => x.max < Bounds[r]

StatsOK(s) ==
    /\ DOMAIN s = {"count", "total", "ranges"}
    /\ s.count \in Nat /\ s.total \in Nat
    /\ DOMAIN s.ranges \subseteq 1 .. 9 /\ \A r \in DOMAIN s.ranges : RangeOK(r, s.ranges[r])
    /\ s.count = RangeSum(s.ranges)

MeansOK(s) ==
    \A r \in DOMAIN s.ranges : s.ranges[r].mean = s.ranges[r].total \div s.ranges[r].count

InMemory(g) == \A k \in DOMAIN g : StatsOK(g[k])
OnDisk(g) == \A k \in DOMAIN g : StatsOK(g[k]) /\ MeansOK(g[k])

(* Every entry of g is in h, with no less.                                 *)
Within(g, h) ==
    \A k \in DOMAIN g : /\ k \in DOMAIN h
                        /\ g[k].count <= h[k].count /\ g[k].total <= h[k].total

GlobalInv ==
    /\ channel \in Seq(Messages)
    /\ "global" \in DOMAIN db /\ "global" \in DOMAIN committed
    /\ InMemory(global_stats) /\ OnDisk(db.global) /\ OnDisk(committed.global)
    /\ Within(committed.global, db.global) /\ Within(db.global, global_stats)

-----------------------------------------------------------------------------
(* The inductive invariant behind WholeBlocks.                             *)

Roots == {a.root : a \in Actions}
BlockStats == UNION {[D -> [tezedge : Nat, irmin : Nat]] : D \in SUBSET Roots}
BlockSets == {{}} \cup {{b} : b \in Blocks}
BlockRows == [hash : Blocks, actions_count : Int, checkout : SUBSET Commits,
              commit : SUBSET Commits, timed : BOOLEAN]
Reports == [n : Nat, checkout : SUBSET Commits, time : Commits, stats : BlockStats]
Ideals == [block : BlockSets, n : Nat, checkout : SUBSET Commits, stats : BlockStats,
           pending : Seq(Reports), published : [Blocks -> Seq(Reports)]]

BlocksOK(d) ==
    /\ DOMAIN d = DOMAIN EmptyDb /\ d.blocks \in Seq(BlockRows)
    /\ \A i, j \in DOMAIN d.blocks : d.blocks[i].hash = d.blocks[j].hash => i = j

StatesOK ==
    /\ ideal \in Ideals /\ BlocksOK(db) /\ BlocksOK(committed)
    /\ nactions \in Nat /\ checkout_time \in SUBSET Commits /\ block_stats \in BlockStats
    /\ clean \in BOOLEAN /\ transaction \in BOOLEAN

(* The rows of d for block b are those of the commits s, and as many.      *)
RowsIn(d, b) ==
    {[root |-> row.root, nth |-> row.nth, stats |-> row.stats] :
        row \in {x \in d.rows : x.block \in get_id_on_table(d, b)}}

LastIs(d, b, report) ==
    \E i \in get_id_on_table(d, b) : /\ d.blocks[i].actions_count = report.n
                                     /\ d.blocks[i].checkout = report.checkout
                                     /\ d.blocks[i].commit = {report.time}

RowsFor(d, i, r) == {row \in d.rows : row.root = r /\ row.block = i}
Naming(s, r) == {j \in DOMAIN s : r \in DOMAIN s[j].stats}

Shown(d, b, s) ==
    /\ RowsIn(d, b) = RowsOf(s)
    /\ s # << >> => LastIs(d, b, s[Len(s)])
    /\ \A i \in get_id_on_table(d, b), r \in Roots :
          /\ IsFiniteSet(RowsFor(d, i, r))
          /\ Cardinality(RowsFor(d, i, r)) = Cardinality(Naming(s, r))

(* What the connection sees of b, and others from the next SetBlock on.    *)
Awaited(said, b) == said.published[b] \o (IF b \in said.block THEN said.pending ELSE << >>)

(* Rows of blocks are appended, or taken away again when the transaction   *)
(* is rolled back.                                                         *)
Grown(d, c) ==
    /\ Len(c.blocks) <= Len(d.blocks)
    /\ \A i \in DOMAIN c.blocks : d.blocks[i].hash = c.blocks[i].hash

(* current_block may name a row that was rolled back, or one that another  *)
(* block was given since: then a failure has spoilt both.                  *)
CurrentOK ==
    IF clean
    THEN /\ current_hash = ideal.block
         /\ \A c \in current_block : c.id \in DOMAIN db.blocks /\ db.blocks[c.id].hash = c.hash
         /\ nactions = ideal.n /\ checkout_time = ideal.checkout /\ block_stats = ideal.stats
         /\ ideal.block # {} => transaction
         /\ ~Dangling(db)
    ELSE /\ ideal.block \cup current_hash \subseteq spoilt
         /\ \A c \in current_block : c.id \in DOMAIN db.blocks => db.blocks[c.id].hash \in spoilt

WholeInv ==
    /\ StatesOK /\ CurrentOK
    /\ ~Dangling(committed) /\ Grown(db, committed) /\ (~transaction => db = committed)
    /\ \A b \in Blocks \ spoilt : /\ Shown(db, b, Awaited(ideal, b))
                                  /\ Shown(committed, b, ideal.published[b])
=============================================================================
