----------------------------- MODULE MCTrxTree -----------------------------
(***************************************************************************)
(* Instances of TrxTree for TLC.                                           *)
(***************************************************************************)
EXTENDS TrxTree

Shared == \E u, v \in Users : u # v /\ NoPos \notin {pos[u], pos[v]}

\* Between calls the numbers of the nodes, what free nodes hold and _trx_p_NewLeaf
\* do not matter, and never which user is which (there are at most two).  How
\* many nodes are free or prewritten is only told apart for a single user.  The
\* caller's own position is not read while the call runs.
StateView ==
    LET leaves == Leaves
        Leaf(n) == SelectInSeq(leaves, LAMBDA m : m = n)
        Shape[n \in Nodes \cup {Null}, l \in 0..MaxNodes] ==
            IF n = Null \/ l = 0 THEN <<>>
            ELSE IF node[n].level <= 0 THEN <<Leaf(n)>>
            ELSE <<node[n].level, node[n].keys,
                   [i \in DOMAIN node[n].links |-> Shape[node[n].links[i], l - 1]],
                   Shape[node[n].rlink, l - 1]>>
        At(u) == <<IF pos[u].p = 0 THEN 0 ELSE Leaf(pos[u].n), pos[u].p, pos[u].gap>>
        Count(q) == Cardinality({u \in Users : At(u) = q})
    IN  IF errno THEN <<"failed">>
        ELSE IF op # Idle
        THEN <<node, tree, file, pNewLeaf, [op EXCEPT !.u = Null],
               {pos[u] : u \in Users \ {op.u}}>>
        ELSE <<[i \in DOMAIN leaves |-> <<node[leaves[i]].keys, node[leaves[i]].flags>>],
               Shape[tree.root, MaxNodes], {<<At(u), Count(At(u))>> : u \in Users},
               IF Shared THEN <<>> ELSE <<file.preWrite, file.numFree>>, tree.numKeys>>
=============================================================================
