---------------------------- MODULE MCMemoEdit ----------------------------
(* MemoEdit for TLC.  The blocks that are in no memo are left out of the   *)
(* state: nothing but a memo's own blocks and the list at the end is read. *)
EXTENDS MemoEdit

Live == UNION {MemoBlocks(r) : r \in 1..NumRecs} \cup
        {b \in {dbt.hdr - 1} : b > 0 /\ IsList(dbt.file[b])}

StateView ==
    <<[dbt EXCEPT !.file = [b \in DOMAIN dbt.file |-> IF b \in Live THEN dbt.file[b] ELSE Unwritten]],
      field, editable, sel, buf, pend, dlg, text, lost>>
=============================================================================
