------------------------------ MODULE KeyList ------------------------------
(***************************************************************************)
(* What a tree of a TRX index file promises its users: the keys in order,  *)
(* a new duplicate before its equals, and a position per user that stays   *)
(* with its key whatever the others insert and delete.  The position of a  *)
(* deleted key becomes a gap: the next key, or the end, holds its place.   *)
(***************************************************************************)
EXTENDS Integers, Sequences, FiniteSets, SequencesExt

CONSTANTS
    Users,
    Keys

VARIABLES
    list,       \* the keys in order
    cursor,     \* cursor[u]: rank, and whether it is at a key, at a gap, or unset
    broken      \* a call failed half-way: nothing more is promised

vars == <<list, cursor, broken>>

At(r) == [rank |-> r, is |-> "at"]
Gap(r) == [rank |-> r, is |-> "gap"]
Unset == [rank |-> 0, is |-> "unset"]

Init ==
    /\ list = <<>>
    /\ cursor = [u \in Users |-> Unset]
    /\ broken = FALSE

\* The rank of the first key not less than k, or one past the last.
Place(k) == 1 + Cardinality({i \in DOMAIN list : list[i] < k})

Insert(u, k) ==
    LET r == Place(k) IN
    /\ list' = InsertAt(list, r, k)
    /\ cursor' = [v \in Users |->
            IF v = u THEN At(r)
            ELSE IF cursor[v].is # "unset" /\ cursor[v].rank >= r
            THEN [cursor[v] EXCEPT !.rank = @ + 1] ELSE cursor[v]]

Delete(u) ==
    LET r == cursor[u].rank IN
    /\ cursor[u].is = "at"
    /\ list' = RemoveAt(list, r)
    /\ cursor' = [v \in Users |->
            IF cursor[v].is = "unset" \/ cursor[v].rank < r THEN cursor[v]
            ELSE IF cursor[v].rank = r THEN Gap(r)
            ELSE [cursor[v] EXCEPT !.rank = @ - 1]]

\* The user goes to a key.
Move(u) ==
    /\ cursor'[u] \in {At(r) : r \in DOMAIN list}
    /\ \A v \in Users \ {u} : cursor'[v] = cursor[v]

Next ==
    /\ ~broken
    /\ \/ /\ list' # list
          /\ \E u \in Users : Delete(u) \/ \E k \in Keys : Insert(u, k)
          /\ UNCHANGED broken
       \/ /\ UNCHANGED list
          /\ cursor' # cursor
          /\ \E u \in Users : Move(u)
          /\ UNCHANGED broken
       \/ broken' = TRUE

Spec == Init /\ [][Next]_vars
=============================================================================
