----------------------------- MODULE Documents -----------------------------
(***************************************************************************)
(* The nested JSON documents of state.py: a World's state, the values a    *)
(* tool returns, and the difference of two snapshots.  A document maps     *)
(* every path in it, a sequence of keys with <<>> the root, to a scalar or *)
(* to Dict.  Scalars are their JSON text, which is what same() compares.   *)
(* No key contains the dot that separates the keys of a written path.      *)
(***************************************************************************)
EXTENDS Naturals, Sequences, FiniteSets, SequencesExt

Dict == "{}"
NoDocument == <<>>
Scalar(text) == [p \in {<<>>} |-> text]
Null == Scalar("null")

Ancestors(p) == {SubSeq(p, 1, n) : n \in 0 .. Len(p) - 1}

IsDocument(d) ==
    /\ <<>> \in DOMAIN d
    /\ \A p \in DOMAIN d : \A q \in Ancestors(p) : q \in DOMAIN d /\ d[q] = Dict

\* The document with these scalars at these paths, in a dict.
Nested(scalars) ==
    [p \in {<<>>} \cup DOMAIN scalars \cup UNION {Ancestors(q) : q \in DOMAIN scalars} |->
        IF p \in DOMAIN scalars THEN scalars[p] ELSE Dict]

Below(d, p) == {q \in DOMAIN d : IsPrefix(p, q)}

\* select(state, path), for a path of d.
Select(d, p) ==
    [q \in {SubSeq(r, Len(p) + 1, Len(r)) : r \in Below(d, p)} |-> d[p \o q]]

\* What World.set(path, value) leaves: whatever was at the path is replaced.
Set(d, p, v) ==
    [q \in (DOMAIN d \ Below(d, p)) \cup {p \o r : r \in DOMAIN v} |->
        IF IsPrefix(p, q) THEN v[SubSeq(q, Len(p) + 1, Len(q))] ELSE d[q]]

\* The paths the recursion of changes() comes to: below dicts of both.
Compared(b, a) ==
    {p \in DOMAIN b \cup DOMAIN a :
        \A q \in Ancestors(p) : /\ q \in DOMAIN b /\ b[q] = Dict
                               /\ q \in DOMAIN a /\ a[q] = Dict}

BothDicts(b, a, p) ==
    p \in DOMAIN b /\ p \in DOMAIN a /\ b[p] = Dict /\ a[p] = Dict

Value(d, p) == IF p \in DOMAIN d THEN Select(d, p) ELSE Null

Difference(b, a, p) ==
    [before_exists |-> p \in DOMAIN b, after_exists |-> p \in DOMAIN a,
     before |-> Value(b, p), after |-> Value(a, p)]

\* Mutant: a key that is missing afterwards is overlooked.
Changes_KeysAfterOnly(b, a) ==
    [p \in {q \in Compared(b, a) : q \in DOMAIN a /\ ~BothDicts(b, a, q)
                                     /\ Value(b, q) # Value(a, q)} |->
        Difference(b, a, p)]

\* changes(before, after).
Changes(b, a) ==
    [p \in {q \in Compared(b, a) :
              /\ ~BothDicts(b, a, q)
              /\ q \in DOMAIN b /\ q \in DOMAIN a => Select(b, q) # Select(a, q)} |->
        Difference(b, a, p)]
=============================================================================
