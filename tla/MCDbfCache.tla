---------------------------- MODULE MCDbfCache ----------------------------
(***************************************************************************)
(* Instances of DbfCache for TLC.                                          *)
(***************************************************************************)
EXTENDS DbfCache, TLC

\* Contents are interchangeable.
ValSymmetry == Permutations(Vals)

\* Which transfers fail in the runs, by flush mode.
FailsReported ==
  [m \in Modes |-> IF m = "auto" THEN {"read", "header", "space"} ELSE {"read", "header"}]
FailsNoMode == [m \in Modes |-> IF m = "none" THEN {"space", "block"} ELSE {}]
FailsUser == [m \in Modes |-> IF m = "user" THEN {"space"} ELSE {}]
=============================================================================
