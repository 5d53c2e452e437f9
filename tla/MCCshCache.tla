----------------------------- MODULE MCCshCache -----------------------------
(***************************************************************************)
(* Instances of CshCache for TLC.                                          *)
(***************************************************************************)
EXTENDS CshCache

\* The view drops what the code can no longer read: the links, the record
\* number and the contents of a buffer no file owns (but for a neighbour that
\* was purged while the search still holds it), the HashIndex of a buffer that
\* is not the first of its chain, the HashBase of a file that is not attached
\* and has no buffer, and the caller's handles while a call runs that takes
\* them away (a GetRecord: the older one).
Dead(b) == file[b] = NoFile /\ ~(call.pc = "link" /\ call.hp = b)
Live(g, none) == [c \in Bufs |-> IF Dead(c) THEN none ELSE g[c]]
Bases == [f \in Files |->
  IF IsAttached(f) \/ \E b \in Bufs : file[b] = f THEN hashBase[f] ELSE 0]
Purging == call.pc \in {"purge", "drop"} \/ (call.pc = "flush" /\ call.op \in {"detach", "attach"})
StateView ==
  <<ring, Live(prevHash, Nil), Live(nextHash, Nil), hashTable,
    [b \in Bufs |-> IF Dead(b) \/ prevHash[b] # Nil THEN 0 ELSE hashIndex[b]],
    file, Live(recno, 0), status, Live(data, Absent), locks,
    attached, Bases, storage, call,
    IF Purging THEN NoHandle ELSE last,
    IF Purging \/ call.op = "get" THEN NoHandle ELSE prior, span>>
=============================================================================
