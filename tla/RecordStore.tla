---------------------------- MODULE RecordStore ----------------------------
(***************************************************************************)
(* What the buffer cache of trx_csh promises the DBF, TRX and NTI          *)
(* libraries: a store of numbered records per file in which a record reads *)
(* as it was last written, whatever the cache has evicted meanwhile.  A    *)
(* record becomes durable at any later time.  Nothing but the caller's own *)
(* request changes what a record reads as, with one exception: when the    *)
(* error condition of the file (CSH_FILE.Errno) is set, so that the caller *)
(* can find out.                                                           *)
(***************************************************************************)
CONSTANTS
  Files,    \* the files
  Recs,     \* record numbers
  Content   \* what a record may hold, "past the end of file" included

VARIABLES
  store,    \* store[f][r]: what a caller reading record r of f gets
  durable,  \* durable[f][r]: what the file on disk holds
  err,      \* err[f]: the error condition of f is set
  request   \* what the caller has asked for and not yet got an answer to

vars == <<store, durable, err, request>>

Contents == [Files -> [Recs -> Content]]

NoRequest == [put |-> {}, discard |-> {}]
\* To write v into record r of f.
PutRequest(f, r, v) == [put |-> {<<f, r, v>>}, discard |-> {}]
\* To throw away what is not yet durable of the files F.
DiscardRequest(F) == [put |-> {}, discard |-> F]

Init ==
  /\ durable \in Contents
  /\ store = durable
  /\ err = [f \in Files |-> FALSE]
  /\ request = NoRequest

Ask(q) ==
  /\ request = NoRequest
  /\ request' = q
  /\ UNCHANGED <<store, durable, err>>

\* A request may also be refused: it ends without effect.
Answer ==
  /\ request' = NoRequest
  /\ UNCHANGED <<store, durable, err>>

Put(f, r, v) ==
  /\ <<f, r, v>> \in request.put
  /\ store' = [store EXCEPT ![f][r] = v]
  /\ request' = NoRequest
  /\ UNCHANGED <<durable, err>>

\* One record of a file being discarded falls back to what the disk holds.
Discard(f, r) ==
  /\ f \in request.discard
  /\ store' = [store EXCEPT ![f][r] = durable[f][r]]
  /\ request' \in {request, NoRequest}
  /\ UNCHANGED <<durable, err>>

\* The cache may write a record back whenever it likes.
Persist(f, r) ==
  /\ durable' = [durable EXCEPT ![f][r] = store[f][r]]
  /\ UNCHANGED <<store, err, request>>

\* An I/O error sets the error condition; unwritten records may be lost with
\* it, then or later, for as long as the condition is set.
Fail(f) ==
  /\ err' = [err EXCEPT ![f] = TRUE]
  /\ \E lost \in SUBSET Recs :
        store' = [store EXCEPT ![f] =
                    [r \in Recs |-> IF r \in lost THEN durable[f][r] ELSE store[f][r]]]
  /\ request' \in {request, NoRequest}
  /\ UNCHANGED durable

Next ==
  \/ Answer
  \/ \E f \in Files :
       \/ Fail(f)
       \/ \E r \in Recs :
            \/ Persist(f, r)
            \/ Discard(f, r)
            \/ \E v \in Content : Put(f, r, v) \/ Ask(PutRequest(f, r, v))
  \/ \E F \in SUBSET Files : Ask(DiscardRequest(F))

Spec == Init /\ [][Next]_vars
=============================================================================
