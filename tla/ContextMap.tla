----------------------------- MODULE ContextMap -----------------------------
(***************************************************************************)
(* What the TezEdge context promises (tezos/new_context).                   *)
(*                                                                          *)
(* A context is a value: a map from paths to values and directories, closed *)
(* under prefixes.  An operation makes a new one of old ones, and changes   *)
(* no other.  A commit can be checked out again, as it was, by everybody.   *)
(***************************************************************************)
EXTENDS Naturals, SequencesExt

CONSTANTS
    None, Dir,          \* no context; a directory
    Values, Keys,       \* contents of files; the paths users name
    Processes, SlotsOf  \* each process, and its places for contexts

VARIABLES contents, commits

vars == <<contents, commits>>

Slots == UNION {SlotsOf[p] : p \in Processes}

\* Tree(f): the directory with the entries of f, a function from names.
Tree(f) ==
    [path \in {<<>>} \cup UNION {{<<n>> \o q : q \in DOMAIN f[n]} : n \in DOMAIN f} |->
        IF path = <<>> THEN Dir ELSE f[Head(path)][Tail(path)]]

File(v) == [path \in {<<>>} |-> v]
EmptyTree == File(Dir)

StrictPrefixes(path) == Prefixes(path) \ {path}
At(t, path) == {q \in DOMAIN t : IsPrefix(path, q)}

Below(t, path) == [q \in {SubSeq(r, Len(path) + 1, Len(r)) : r \in At(t, path)} |-> t[path \o q]]

\* What is at a path, as a directory: an empty one for a file, or for nothing.
Subtree(t, path) == IF path \in DOMAIN t /\ t[path] = Dir THEN Below(t, path) ELSE EmptyTree

\* t with s at a path, whatever was there or on the way.
Put(t, path, s) ==
    [q \in (DOMAIN t \ At(t, path)) \cup StrictPrefixes(path) \cup {path \o r : r \in DOMAIN s} |->
        IF q \in StrictPrefixes(path) THEN Dir
        ELSE IF IsPrefix(path, q) THEN s[SubSeq(q, Len(path) + 1, Len(q))] ELSE t[q]]

\* t without what is at a path, and without the directories on the way that
\* are empty then.
Without(t, path) ==
    LET others == {q \in DOMAIN t \ At(t, path) : q \in Prefixes(path) => t[q] # Dir}
        kept == {q \in DOMAIN t \ others : q = <<>> \/ \E r \in others : IsPrefix(q, r)}
    IN  [q \in others \cup kept |-> t[q]]

Init == contents \in [Slots -> {None, EmptyTree}] /\ commits = {}

Held == {c \in Slots : contents[c] # None}

\* A new context t made of c takes a place of c's process.
Becomes(c, t) ==
    /\ \E p \in Processes : c \in SlotsOf[p] /\ \E d \in SlotsOf[p] : contents' = [contents EXCEPT ![d] = t]
    /\ commits' = commits

Make(t) == \E d \in Slots : contents' = [contents EXCEPT ![d] = t] /\ commits' = commits

\* The root of a file is taken for an empty directory.
Root(c) == IF contents[c][<<>>] = Dir THEN contents[c] ELSE EmptyTree

Add(c, key, v) == key # <<>> /\ Becomes(c, Put(Root(c), key, File(v)))
Delete(c, key) == Becomes(c, IF key = <<>> THEN Root(c) ELSE Without(Root(c), key))
\* A source that is no directory has no copy.
Copy(c, from, to) ==
    /\ from \in DOMAIN Root(c) /\ Root(c)[from] = Dir
    /\ Becomes(c, Put(Root(c), to, Below(Root(c), from)))
FindTree(c, key) == Subtree(Root(c), key) # EmptyTree /\ Becomes(c, Subtree(Root(c), key))
AddTree(c, key, e) ==
    /\ key # <<>> \/ contents[e][<<>>] = Dir
    /\ Becomes(c, Put(Root(c), key, contents[e]))
\* The entries of a directory, and what a walk meets, are contexts too.
Pick(c) == \E path \in DOMAIN Root(c) : Becomes(c, Below(Root(c), path))
Take(c) == Becomes(c, contents[c])
Commit(c) == commits' = commits \cup {Root(c)} /\ contents' = contents
Checkout == \E t \in commits : Make(t)
Drop(c) == contents' = [contents EXCEPT ![c] = None] /\ commits' = commits

Next ==
    \/ \E c \in Held :
        \/ \E key \in Keys :
              \/ Delete(c, key) \/ FindTree(c, key)
              \/ \E v \in Values : Add(c, key, v)
              \/ \E e \in Held : AddTree(c, key, e)
              \/ \E to \in Keys : Copy(c, key, to)
        \/ Commit(c) \/ Drop(c) \/ Pick(c) \/ Take(c)
    \/ Make(EmptyTree) \/ (\E v \in Values : Make(File(v))) \/ Checkout

Spec == Init /\ [][Next]_vars
=============================================================================
