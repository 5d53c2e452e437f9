------------------------ MODULE CshRefinementProofs ------------------------
(***************************************************************************)
(* Proof that the buffer cache implements RecordStore: every step of every *)
(* call is a step of the store of records its callers rely on, or none.    *)
(* As in CshStoreProofs: without locks, and for files without an XfrFcn.   *)
(***************************************************************************)
EXTENDS CshStoreProofs

-----------------------------------------------------------------------------
(* What a record reads as.                                                 *)

ViewFacts ==
  \A f \in Files, r \in Recs :
    /\ \A b \in Bufs : Holds(b, f, r) => StoreView[f][r] = data[b]
    /\ ~Buffered(f, r) => StoreView[f][r] = disk[f][r]

\* The record reads as the one buffer that holds it, else as the disk.
LEMMA ViewAt == OneBuffer => ViewFacts
<1> SUFFICES ASSUME OneBuffer, NEW f \in Files, NEW r \in Recs
             PROVE  /\ \A b \in Bufs : Holds(b, f, r) => StoreView[f][r] = data[b]
                    /\ ~Buffered(f, r) => StoreView[f][r] = disk[f][r]
  BY DEF ViewFacts
<1>1. StoreView[f][r] = IF Buffered(f, r) THEN data[CHOOSE b \in Bufs : Holds(b, f, r)]
                        ELSE disk[f][r]
  BY DEF StoreView
<1>2. ASSUME NEW b \in Bufs, Holds(b, f, r)
      PROVE  b = CHOOSE c \in Bufs : Holds(c, f, r)
  <2>1. \A c \in Bufs : Holds(c, f, r) => c = b
    BY <1>2, FilesAssumption DEF Holds, OneBuffer, NoFile
  <2> QED BY <1>2, <2>1
<1>3. ASSUME NEW b \in Bufs, Holds(b, f, r) PROVE Buffered(f, r)
  BY <1>3 DEF Buffered
<1> QED BY <1>1, <1>2, <1>3

\* The same of the next state.
LEMMA ViewAtNext == OneBuffer' => ViewFacts'
<1>1. (OneBuffer => ViewFacts)'
  BY ViewAt, PTL
<1> QED BY <1>1

\* A step leaves a record as it is, on disk and in its buffer.
Kept(f, r) ==
  /\ disk'[f][r] = disk[f][r]
  /\ \A b \in Bufs : Holds(b, f, r)' <=> Holds(b, f, r)
  /\ \A b \in Bufs : Holds(b, f, r) => data'[b] = data[b]

\* A record that is left as it is reads as before.
LEMMA ViewKept ==
  ASSUME OneBuffer, OneBuffer', NEW f \in Files, NEW r \in Recs, Kept(f, r)
  PROVE  StoreView'[f][r] = StoreView[f][r]
<1>1. ViewFacts /\ ViewFacts'
  BY ViewAt, ViewAtNext
<1>2. CASE \E b \in Bufs : Holds(b, f, r)
  BY <1>1, <1>2 DEF ViewFacts, Kept
<1>3. CASE ~ \E b \in Bufs : Holds(b, f, r)
  <2>1. ~Buffered(f, r) /\ ~Buffered(f, r)'
    BY <1>3 DEF Buffered, Kept
  <2> QED BY <1>1, <2>1 DEF ViewFacts, Kept
<1> QED BY <1>2, <1>3

\* Two stores that read the same are the same.
LEMMA ViewSame ==
  ASSUME \A f \in Files, r \in Recs : StoreView'[f][r] = StoreView[f][r]
  PROVE  StoreView' = StoreView
<1>1. /\ StoreView = [f \in Files |-> [r \in Recs |-> StoreView[f][r]]]
      /\ StoreView' = [f \in Files |-> [r \in Recs |-> StoreView'[f][r]]]
  BY DEF StoreView
<1> QED BY <1>1

\* A step changes what one record reads as.
LEMMA ViewChanged ==
  ASSUME NEW g \in Files, NEW s \in Recs,
         \A f \in Files, r \in Recs : ~(f = g /\ r = s) => StoreView'[f][r] = StoreView[f][r]
  PROVE  StoreView' = [StoreView EXCEPT ![g][s] = StoreView'[g][s]]
<1>1. /\ StoreView = [f \in Files |-> [r \in Recs |-> StoreView[f][r]]]
      /\ StoreView' = [f \in Files |-> [r \in Recs |-> StoreView'[f][r]]]
  BY DEF StoreView
<1> QED BY <1>1
-----------------------------------------------------------------------------
(* The steps of the store.                                                 *)

StoreStep == [Store!Next]_(Store!vars)

\* A step that shows nothing to the caller, or ends its request.
LEMMA StoreAnswer ==
  ASSUME UNCHANGED storage, StoreView' = StoreView, Request' \in {Request, Store!NoRequest}
  PROVE  StoreStep
BY DEF StoreStep, Store!vars, Store!Next, Store!Answer, storage

\* A step that writes a record.
LEMMA StorePersist ==
  ASSUME NEW g \in Files, NEW s \in Recs, disk' = [disk EXCEPT ![g][s] = StoreView[g][s]],
         UNCHANGED errno, StoreView' = StoreView, Request' = Request
  PROVE  StoreStep
<1>1. Store!Persist(g, s)
  BY DEF Store!Persist
<1>2. \E f \in Files : \E r \in Recs : Store!Persist(f, r)
  BY <1>1
<1>3. Store!Next
  BY <1>2 DEF Store!Next
<1> QED BY <1>3 DEF StoreStep

\* A step with an error, which may lose one record.
LEMMA StoreFail ==
  ASSUME NEW g \in Files, NEW s \in Recs, errno' = [errno EXCEPT ![g] = TRUE], UNCHANGED disk,
         \A f \in Files, r \in Recs : ~(f = g /\ r = s) => StoreView'[f][r] = StoreView[f][r],
         StoreView'[g][s] \in {StoreView[g][s], disk[g][s]},
         Request' \in {Request, Store!NoRequest}
  PROVE  StoreStep
<1> DEFINE Lost(L) == [StoreView EXCEPT ![g] =
                         [r \in Recs |-> IF r \in L THEN disk[g][r] ELSE StoreView[g][r]]]
<1>0. /\ StoreView = [f \in Files |-> [r \in Recs |-> StoreView[f][r]]]
      /\ StoreView' = [f \in Files |-> [r \in Recs |-> StoreView'[f][r]]]
  BY DEF StoreView
<1>1. \E lost \in SUBSET Recs : StoreView' = Lost(lost)
  <2>1. CASE StoreView'[g][s] = StoreView[g][s]
    <3>1. {} \in SUBSET Recs /\ StoreView' = Lost({})
      BY <1>0, <2>1
    <3> HIDE DEF Lost
    <3> QED BY <3>1
  <2>2. CASE StoreView'[g][s] = disk[g][s]
    <3>1. {s} \in SUBSET Recs /\ StoreView' = Lost({s})
      BY <1>0, <2>2
    <3> HIDE DEF Lost
    <3> QED BY <3>1
  <2> QED BY <2>1, <2>2
<1>2. Store!Fail(g)
  BY <1>1 DEF Store!Fail
<1> QED BY <1>2 DEF StoreStep, Store!Next

\* A step that stores what was asked for.
LEMMA StorePut ==
  ASSUME NEW g \in Files, NEW s \in Recs, NEW v \in Data \cup {Absent},
         <<g, s, v>> \in Request.put, UNCHANGED storage,
         \A f \in Files, r \in Recs : ~(f = g /\ r = s) => StoreView'[f][r] = StoreView[f][r],
         StoreView'[g][s] = v, Request' = Store!NoRequest
  PROVE  StoreStep
<1>1. StoreView' = [StoreView EXCEPT ![g][s] = v]
  BY ViewChanged
<1>2. Store!Put(g, s, v)
  BY <1>1 DEF Store!Put, storage
<1> QED BY <1>2 DEF StoreStep, Store!Next

\* A step that throws away what a buffer held.
LEMMA StoreDiscard ==
  ASSUME NEW g \in Files, NEW s \in Recs, g \in Request.discard, UNCHANGED storage,
         \A f \in Files, r \in Recs : ~(f = g /\ r = s) => StoreView'[f][r] = StoreView[f][r],
         StoreView'[g][s] = disk[g][s], Request' \in {Request, Store!NoRequest}
  PROVE  StoreStep
<1>1. StoreView' = [StoreView EXCEPT ![g][s] = disk[g][s]]
  BY ViewChanged
<1>2. Store!Discard(g, s)
  BY <1>1 DEF Store!Discard, storage
<1> QED BY <1>2 DEF StoreStep, Store!Next
-----------------------------------------------------------------------------
(* What a step of the cache does to a record.                              *)

\* What the lemmas below assume of a step.
StoreInv == CustomXfr = {} /\ SInv /\ OneBuffer'

\* The parts of SInv they use.
LEMMA StoreInvFacts ==
  ASSUME SInv
  PROVE  /\ TypeOK /\ CallInv /\ call \in CallType /\ OwnerType /\ ContentType /\ RingType
         /\ StorageType /\ OneBuffer /\ FreeInv /\ SearchInv /\ OpInv /\ FillInv /\ FlushInv
         /\ CleanOnDisk
         /\ \A b \in Bufs : file[b] # NoFile =>
              file[b] \in Files /\ recno[b] \in Recs
         /\ \A b \in Bufs : file[b] # NoFile /\ call.pc # "fill" =>
              status[b] \in {"InUse", "Updated"}
BY DEF SInv, IInv, TypeInv, TypeOK, OwnerType, ContentType, RecInv, FreeInv

\* A buffer that is not written back, one that is, and one that cannot be.
LEMMA WriteCases ==
  ASSUME CustomXfr = {}, TypeOK, NEW b \in Bufs, file[b] \in Files, WriteIfUpdated(b)
  PROVE  \/ status[b] # "Updated" /\ UNCHANGED storage
         \/ /\ status[b] = "Updated" /\ UNCHANGED errno
            /\ disk' = [disk EXCEPT ![file[b]][recno[b]] = data[b]]
         \/ /\ status[b] = "Updated" /\ UNCHANGED disk
            /\ errno' = [errno EXCEPT ![file[b]] = TRUE]
<1>0. errno \in [Files -> BOOLEAN]
  BY DEF TypeOK, StorageType
<1>1. CASE status[b] = "Updated"
  <2>1. PICK ok \in BOOLEAN :
          /\ disk' = (IF ok THEN [disk EXCEPT ![file[b]][recno[b]] = data[b]] ELSE disk)
          /\ errno' = [errno EXCEPT ![file[b]] = @ \/ ~ok]
    BY <1>1 DEF WriteIfUpdated, WriteRecord
  <2>2. CASE ok
    BY <1>0, <1>1, <2>1, <2>2
  <2>3. CASE ~ok
    BY <1>0, <1>1, <2>1, <2>3
  <2> QED BY <2>2, <2>3
<1>2. CASE status[b] # "Updated"
  BY <1>2 DEF WriteIfUpdated
<1> QED BY <1>1, <1>2

\* A step that moves and fills no buffer and writes nothing.
LEMMA QuietView ==
  ASSUME OneBuffer, OneBuffer', UNCHANGED <<owner, data, disk>>,
         call.pc # "fill", call'.pc # "fill"
  PROVE  StoreView' = StoreView
<1>1. ASSUME NEW f \in Files, NEW r \in Recs PROVE Kept(f, r)
  BY DEF Kept, Holds, owner
<1> QED BY <1>1, ViewKept, ViewSame

\* A buffer is written back where it stands.
LEMMA FlushStores ==
  ASSUME StoreInv, NEW b \in Bufs, file[b] # NoFile, FlushHdr(b), UNCHANGED <<owner, data>>,
         call.pc # "fill", call'.pc # "fill", Request' = Request
  PROVE  StoreStep
<1>g. PICK g \in Files, s \in Recs : g = file[b] /\ s = recno[b]
  BY StoreInvFacts DEF StoreInv
<1>0. /\ TypeOK /\ StorageType /\ OneBuffer /\ OneBuffer' /\ CustomXfr = {}
      /\ WriteIfUpdated(b)
  BY StoreInvFacts DEF StoreInv, FlushHdr
<1>1. Holds(b, g, s) /\ Holds(b, g, s)'
  BY <1>g DEF Holds, owner
<1>2. ViewFacts /\ ViewFacts'
  BY <1>0, ViewAt, ViewAtNext
<1>3. StoreView[g][s] = data[b] /\ StoreView'[g][s] = data[b]
  BY <1>0, <1>1, <1>2 DEF ViewFacts
<1>4. ASSUME NEW f \in Files, NEW r \in Recs, ~(f = g /\ r = s)
      PROVE  StoreView'[f][r] = StoreView[f][r]
  <2>1. disk'[f][r] = disk[f][r]
    BY <1>0, <1>4, <1>g, WriteEffect
  <2>2. Kept(f, r)
    BY <2>1 DEF Kept, Holds, owner
  <2> QED BY <1>0, <2>2, ViewKept
<1>5. StoreView' = StoreView
  BY <1>3, <1>4, ViewSame
<1>6. CASE UNCHANGED storage
  BY <1>5, <1>6, StoreAnswer
<1>7. CASE UNCHANGED errno /\ disk' = [disk EXCEPT ![g][s] = data[b]]
  BY <1>0, <1>3, <1>5, <1>7, StorePersist
<1>8. CASE UNCHANGED disk /\ errno' = [errno EXCEPT ![g] = TRUE]
  BY <1>0, <1>5, <1>8, StoreFail
<1> QED BY <1>0, <1>6, <1>7, <1>8, <1>g, WriteCases

\* A buffer is written back, if need be, and no longer holds its record.
LEMMA EvictStores ==
  ASSUME StoreInv, NEW b \in Bufs, WriteIfUpdated(b), UNCHANGED data,
         \A c \in Bufs : c # b => file'[c] = file[c] /\ recno'[c] = recno[c],
         \A f \in Files, r \in Recs : ~Holds(b, f, r)',
         call.pc # "fill", call'.pc = "fill" => call'.hp = b, Request' = Request
  PROVE  StoreStep
<1>0. /\ TypeOK /\ StorageType /\ OneBuffer /\ OneBuffer' /\ CustomXfr = {}
      /\ ViewFacts /\ ViewFacts'
  BY StoreInvFacts, ViewAt, ViewAtNext DEF StoreInv
<1>a. \A c \in Bufs : c # b =>
        \A f \in Files, r \in Recs : Holds(c, f, r)' <=> Holds(c, f, r)
  BY DEF Holds
<1>1. CASE file[b] = NoFile
  <2>1. UNCHANGED storage
    <3>1. NoFile \notin Files /\ CustomXfr = {}
      BY <1>0, FilesAssumption DEF NoFile
    <3>2. CASE status[b] # "Updated"
      BY <3>2 DEF WriteIfUpdated
    <3>3. CASE status[b] = "Updated"
      <4>1. PICK ok \in BOOLEAN :
              /\ disk' = (IF ok THEN [disk EXCEPT ![NoFile][recno[b]] = data[b]] ELSE disk)
              /\ errno' = [errno EXCEPT ![NoFile] = @ \/ ~ok]
        BY <1>1, <3>1, <3>3 DEF WriteIfUpdated, WriteRecord
      <4> QED BY <1>0, <3>1, <4>1 DEF StorageType, storage
    <3> QED BY <3>2, <3>3
  <2>2. ASSUME NEW f \in Files, NEW r \in Recs PROVE Kept(f, r)
    <3>1. ~Holds(b, f, r)
      BY <1>1, FilesAssumption DEF Holds, NoFile
    <3> QED BY <1>a, <2>1, <3>1 DEF Kept, storage
  <2>3. StoreView' = StoreView
    BY <1>0, <2>2, ViewKept, ViewSame
  <2> QED BY <2>1, <2>3, StoreAnswer
<1>2. CASE file[b] # NoFile
  <2>g. PICK g \in Files, s \in Recs : g = file[b] /\ s = recno[b]
    BY <1>2, StoreInvFacts DEF StoreInv
  <2>0. status[b] \in {"InUse", "Updated"} /\ Clean(b)
    BY <1>2, StoreInvFacts DEF StoreInv, CleanOnDisk, Clean
  <2>1. Holds(b, g, s) /\ ~Buffered(g, s)'
    <3>1. Holds(b, g, s)
      BY <2>g DEF Holds
    <3>2. ASSUME NEW c \in Bufs, c # b PROVE ~Holds(c, g, s)
      BY <1>0, <1>2, <3>1, <3>2 DEF Holds, OneBuffer
    <3> QED BY <1>a, <2>0, <3>1, <3>2 DEF Buffered
  <2>2. StoreView[g][s] = data[b] /\ StoreView'[g][s] = disk'[g][s]
    BY <1>0, <2>0, <2>1 DEF ViewFacts
  <2>3. ASSUME NEW f \in Files, NEW r \in Recs, ~(f = g /\ r = s)
        PROVE  StoreView'[f][r] = StoreView[f][r]
    <3>1. disk'[f][r] = disk[f][r]
      BY <1>0, <2>3, <2>g, WriteEffect
    <3>2. ~Holds(b, f, r)
      BY <2>3, <2>g DEF Holds
    <3>3. Kept(f, r)
      BY <1>a, <3>1, <3>2 DEF Kept
    <3> QED BY <1>0, <3>3, ViewKept
  <2>4. StoreView'[g][s] = StoreView[g][s] => StoreView' = StoreView
    BY <2>3, ViewSame
  <2>5. CASE UNCHANGED storage /\ status[b] # "Updated"
    <3>1. CASE errno[g]
      <4>1. errno' = [errno EXCEPT ![g] = TRUE] /\ UNCHANGED disk
        BY <1>0, <2>0, <2>5, <3>1 DEF StorageType, storage
      <4> QED BY <2>0, <2>2, <2>3, <4>1, StoreFail
    <3>2. CASE ~errno[g]
      <4>1. StoreView'[g][s] = StoreView[g][s]
        BY <1>2, <2>0, <2>2, <2>5, <2>g, <3>2 DEF Clean, storage
      <4> QED BY <2>4, <2>5, <4>1, StoreAnswer
    <3> QED BY <3>1, <3>2
  <2>6. CASE UNCHANGED errno /\ disk' = [disk EXCEPT ![g][s] = data[b]]
    <3>1. disk'[g][s] = data[b]
      BY <1>0, <2>0, <2>6 DEF StorageType
    <3> QED BY <2>0, <2>2, <2>4, <2>6, <3>1, StorePersist
  <2>7. CASE UNCHANGED disk /\ errno' = [errno EXCEPT ![g] = TRUE]
    BY <2>0, <2>2, <2>3, <2>7, StoreFail
  <2> QED BY <1>0, <2>0, <2>5, <2>6, <2>7, <2>g, WriteCases
<1> QED BY <1>1, <1>2

\* A buffer is thrown away, as the caller asked or because it is not Updated.
LEMMA PurgeStores ==
  ASSUME StoreInv, NEW b \in Bufs, file[b] # NoFile, Unlink(b), UNCHANGED storage,
         call.pc # "fill", call'.pc # "fill", Request' \in {Request, Store!NoRequest},
         file[b] \in Request.discard \/ status[b] # "Updated"
  PROVE  StoreStep
<1>g. PICK g \in Files, s \in Recs : g = file[b] /\ s = recno[b]
  BY StoreInvFacts DEF StoreInv
<1>0. /\ TypeOK /\ OwnerType /\ StorageType /\ OneBuffer /\ OneBuffer'
      /\ ViewFacts /\ ViewFacts'
      /\ status[b] \in {"InUse", "Updated"} /\ Clean(b)
  BY StoreInvFacts, ViewAt, ViewAtNext DEF StoreInv, CleanOnDisk, Clean
<1>a. /\ file'[b] = NoFile /\ UNCHANGED data /\ NoFile \notin Files
      /\ \A c \in Bufs : c # b => file'[c] = file[c] /\ recno'[c] = recno[c]
  BY <1>0, FilesAssumption DEF Unlink, OwnerType, NoFile
<1>b. \A c \in Bufs : c # b =>
        \A f \in Files, r \in Recs : Holds(c, f, r)' <=> Holds(c, f, r)
  BY <1>a DEF Holds
<1>1. Holds(b, g, s) /\ ~Buffered(g, s)'
  <2>1. Holds(b, g, s) /\ ~Holds(b, g, s)'
    BY <1>0, <1>a, <1>g DEF Holds
  <2>2. ASSUME NEW c \in Bufs, c # b PROVE ~Holds(c, g, s)
    BY <1>0, <2>1, <2>2 DEF Holds, OneBuffer
  <2> QED BY <1>0, <1>b, <2>1, <2>2 DEF Buffered
<1>2. StoreView[g][s] = data[b] /\ StoreView'[g][s] = disk[g][s]
  BY <1>0, <1>1 DEF ViewFacts, storage
<1>3. ASSUME NEW f \in Files, NEW r \in Recs, ~(f = g /\ r = s)
      PROVE  StoreView'[f][r] = StoreView[f][r]
  <2>1. ~Holds(b, f, r) /\ ~Holds(b, f, r)'
    BY <1>3, <1>a, <1>g DEF Holds
  <2>2. Kept(f, r)
    BY <1>a, <1>b, <2>1 DEF Kept, storage
  <2> QED BY <1>0, <2>2, ViewKept
<1>4. CASE g \in Request.discard
  BY <1>0, <1>2, <1>3, <1>4, StoreDiscard
<1>5. CASE status[b] # "Updated" /\ errno[g]
  <2>1. errno' = [errno EXCEPT ![g] = TRUE] /\ UNCHANGED disk
    BY <1>0, <1>5 DEF StorageType, storage
  <2> QED BY <1>0, <1>2, <1>3, <2>1, StoreFail
<1>6. CASE status[b] # "Updated" /\ ~errno[g]
  <2>1. StoreView'[g][s] = StoreView[g][s]
    BY <1>0, <1>2, <1>6, <1>g DEF Clean
  <2>2. StoreView' = StoreView
    BY <1>3, <2>1, ViewSame
  <2> QED BY <2>2, StoreAnswer
<1> QED BY <1>4, <1>5, <1>6, <1>g
\* What the caller asked for is stored in the buffer of its record.
LEMMA PutStores ==
  ASSUME StoreInv, NEW b \in Bufs, call.f \in Files, call.r \in Recs,
         file[b] = call.f, recno[b] = call.r, call.fill \in Data \cup {Absent},
         UNCHANGED <<owner, storage>>, data' = [data EXCEPT ![b] = call.fill],
         call.pc = "fill" => call.hp = b, call' = Idle,
         call.op = "mark" \/ (call.op = "get" /\ call.fill # Absent)
  PROVE  StoreStep
<1>0. /\ ContentType /\ OneBuffer /\ OneBuffer' /\ ViewFacts /\ ViewFacts' /\ call'.pc = "idle"
  BY StoreInvFacts, ViewAt, ViewAtNext DEF StoreInv, Idle
<1>g. PICK g \in Files, s \in Recs : g = call.f /\ s = call.r
  OBVIOUS
<1>1. <<g, s, call.fill>> \in Request.put /\ Request' = Store!NoRequest
  BY <1>g DEF Request, Store!NoRequest, Idle
<1>2. StoreView'[g][s] = call.fill
  <2>1. Holds(b, g, s)'
    BY <1>0, <1>g DEF Holds, owner
  <2>2. data'[b] = call.fill
    BY <1>0 DEF ContentType
  <2> QED BY <1>0, <2>1, <2>2 DEF ViewFacts
<1>3. ASSUME NEW f \in Files, NEW r \in Recs, ~(f = g /\ r = s)
      PROVE  StoreView'[f][r] = StoreView[f][r]
  <2>1. ~Holds(b, f, r) /\ ~Holds(b, f, r)'
    BY <1>3, <1>g DEF Holds, owner
  <2>2. ASSUME NEW c \in Bufs, c # b PROVE Holds(c, f, r)' <=> Holds(c, f, r)
    BY <1>0, <2>2 DEF Holds, owner
  <2>3. ASSUME NEW c \in Bufs, c # b PROVE data'[c] = data[c]
    BY <1>0, <2>3 DEF ContentType
  <2>4. Kept(f, r)
    BY <2>1, <2>2, <2>3 DEF Kept, storage
  <2> QED BY <1>0, <2>4, ViewKept
<1> QED BY <1>1, <1>2, <1>3, StorePut

\* The caller's request is made known.
LEMMA StoreAsk ==
  ASSUME UNCHANGED storage, StoreView' = StoreView, Request = Store!NoRequest,
         \/ \E g \in Files, s \in Recs, v \in Data \cup {Absent} :
              Request' = Store!PutRequest(g, s, v)
         \/ \E F \in SUBSET Files : Request' = Store!DiscardRequest(F)
  PROVE  StoreStep
<1>1. CASE \E g \in Files, s \in Recs, v \in Data \cup {Absent} :
             Request' = Store!PutRequest(g, s, v)
  <2>1. PICK g \in Files, s \in Recs, v \in Data \cup {Absent} :
          Store!Ask(Store!PutRequest(g, s, v))
    BY <1>1 DEF Store!Ask, storage
  <2> QED BY <2>1 DEF StoreStep, Store!Next
<1>2. CASE \E F \in SUBSET Files : Request' = Store!DiscardRequest(F)
  <2>1. PICK F \in SUBSET Files : Store!Ask(Store!DiscardRequest(F))
    BY <1>2 DEF Store!Ask, storage
  <2> QED BY <2>1 DEF StoreStep, Store!Next
<1> QED BY <1>1, <1>2

\* The call goes on for the same record.
SameRequest ==
  call'.op = call.op /\ call'.f = call.f /\ call'.r = call.r /\ call'.fill = call.fill

\* What the caller has asked for, by the call in progress.
LEMMA RequestFacts ==
  /\ call' = Idle => Request' = Store!NoRequest
  /\ call = Idle => Request = Store!NoRequest
  /\ SameRequest => Request' = Request
  /\ call.op \notin {"mark", "get", "csf_Purge", "drop", "csh_Purge"} => Request = Store!NoRequest
  /\ call'.op \notin {"mark", "get", "csf_Purge", "drop", "csh_Purge"} =>
       Request' = Store!NoRequest
<1>1. Idle.op = "none"
  BY DEF Idle
<1>2. call.op \notin {"mark", "get", "csf_Purge", "drop", "csh_Purge"} =>
        Request = Store!NoRequest
  BY DEF Request, Store!NoRequest
<1>3. call'.op \notin {"mark", "get", "csf_Purge", "drop", "csh_Purge"} =>
        Request' = Store!NoRequest
  BY DEF Request, Store!NoRequest
<1>4. SameRequest => Request' = Request
  BY DEF SameRequest, Request
<1> QED BY <1>1, <1>2, <1>3, <1>4

\* Steps that are no concern of the caller.
LEMMA QuietStores ==
  ASSUME StoreInv, UNCHANGED <<owner, data, storage>>, call.pc # "fill", call'.pc # "fill",
         Request' \in {Request, Store!NoRequest}
  PROVE  StoreStep
<1>1. StoreView' = StoreView
  BY QuietView, StoreInvFacts DEF StoreInv, storage
<1> QED BY <1>1, StoreAnswer
-----------------------------------------------------------------------------
(* Every step of the cache.                                                *)

\* Every step of a running call is a step of the store, or none.
LEMMA RunStores ==
  ASSUME StoreInv, TypeInv', Step
  PROVE  StoreStep
<1>0. /\ TypeOK /\ CallInv /\ call \in CallType /\ OwnerType /\ ContentType /\ RingType
      /\ StorageType /\ OneBuffer /\ OneBuffer' /\ FreeInv /\ SearchInv /\ OpInv /\ FillInv
      /\ FlushInv /\ CustomXfr = {} /\ ViewFacts /\ ViewFacts'
  BY StoreInvFacts, ViewAt, ViewAtNext DEF StoreInv
<1>1. CASE FindNext \/ FindMiss \/ TakeLru \/ NextMruFree
  <2>1. /\ UNCHANGED <<owner, data, storage>> /\ call.pc # "fill" /\ call'.pc # "fill"
        /\ SameRequest
    BY <1>0, <1>1 DEF FindNext, FindMiss, TakeLru, NextMruFree, content, CallType, SameRequest
  <2> QED BY <2>1, RequestFacts, QuietStores
<1>2. CASE FlushEnd \/ PurgeEnd \/ Reattach \/ InsertFile
  <2>1. UNCHANGED <<owner, data, storage>> /\ call.pc # "fill"
    BY <1>2 DEF FlushEnd, PurgeEnd, Reattach, InsertFile, content
  <2>2. \/ call' = Idle
        \/ /\ call'.pc # "fill" /\ SameRequest
    BY <1>0, <1>2 DEF FlushEnd, PurgeEnd, Reattach, InsertFile, ReturnNull, Return, CallType,
       SameRequest
  <2>3. call' = Idle => call'.pc # "fill"
    BY DEF Idle
  <2> QED BY <2>1, <2>2, <2>3, RequestFacts, QuietStores
<1>3. CASE NextMruSkip
  <2>1. CASE nextMru[call.i] = mru
    <3>1. /\ UNCHANGED <<owner, data, disk>> /\ call.pc = "lru" /\ call' = Idle
          /\ errno' = [errno EXCEPT ![call.f] = TRUE]
      BY <1>3, <2>1 DEF NextMruSkip, ReturnNull, Return, content
    <3>2. call.f \in Files /\ call.r \in Recs /\ call'.pc = "idle"
      BY <1>0, <3>1 DEF CallInv, GetPcs, Idle
    <3>3. StoreView' = StoreView
      BY <1>0, <3>1, <3>2, QuietView
    <3> QED BY <3>1, <3>2, <3>3, RequestFacts, StoreFail
  <2>2. CASE nextMru[call.i] # mru
    <3>1. /\ UNCHANGED <<owner, data, storage>> /\ call.pc # "fill" /\ call'.pc # "fill"
          /\ SameRequest
      BY <1>0, <1>3, <2>2 DEF NextMruSkip, content, storage, CallType, SameRequest
    <3> QED BY <3>1, RequestFacts, QuietStores
  <2> QED BY <2>1, <2>2
<1>4. CASE NextMruEvict
  <2>1. PICK b \in Bufs : b = nextMru[call.i]
    BY <1>0, <1>4 DEF NextMruEvict, CallInv, RingType
  <2>2. /\ WriteIfUpdated(b) /\ Unlink(b) /\ call.pc = "lru" /\ call'.pc = "link"
        /\ SameRequest
    BY <1>0, <1>4, <2>1 DEF NextMruEvict, CallType, SameRequest
  <2>3. /\ UNCHANGED data /\ file'[b] = NoFile
        /\ \A c \in Bufs : c # b => file'[c] = file[c] /\ recno'[c] = recno[c]
    BY <1>0, <2>2 DEF Unlink, OwnerType
  <2>4. \A f \in Files, r \in Recs : ~Holds(b, f, r)'
    BY <2>3, FilesAssumption DEF Holds, NoFile
  <2> QED BY <2>2, <2>3, <2>4, RequestFacts, EvictStores
<1>5. CASE ReuseNeighbour
  <2>1. PICK b \in Bufs : b = call.hp
    BY <1>0, <1>5 DEF ReuseNeighbour, CallInv
  <2>2. /\ WriteIfUpdated(b) /\ call.pc = "collide" /\ call'.pc = "fill" /\ call'.hp = b
        /\ SameRequest
        /\ UNCHANGED data
    BY <1>0, <1>5, <2>1 DEF ReuseNeighbour, FlushHdr, CallType, SameRequest
  <2>3. \A c \in Bufs : c # b => file'[c] = file[c] /\ recno'[c] = recno[c]
    BY <1>0, <1>5, <2>1 DEF ReuseNeighbour, OwnerType
  <2>4. \A f \in Files, r \in Recs : ~Holds(b, f, r)'
    BY <2>2 DEF Holds
  <2> QED BY <2>2, <2>3, <2>4, RequestFacts, EvictStores
\* The buffer that is linked, filled or given up held no record before.
<1>6. ASSUME NEW m \in Bufs, UNCHANGED <<data, disk>>,
             \A c \in Bufs : c # m => file'[c] = file[c] /\ recno'[c] = recno[c],
             \A f \in Files, r \in Recs : ~Holds(m, f, r) /\ ~Holds(m, f, r)',
             call.pc = "fill" => call.hp = m, call'.pc = "fill" => call'.hp = m
      PROVE  StoreView' = StoreView
  <2>1. ASSUME NEW f \in Files, NEW r \in Recs PROVE Kept(f, r)
    BY <1>6 DEF Kept, Holds
  <2> QED BY <1>0, <2>1, ViewKept, ViewSame
<1>7. CASE Link
  <2>1. PICK m \in Bufs : m = call.i
    BY <1>0, <1>7 DEF Link, CallInv
  <2>2. /\ UNCHANGED <<data, storage>> /\ call.pc = "link" /\ file[m] = NoFile
        /\ call'.pc = "fill" /\ call'.hp = m
        /\ SameRequest
    BY <1>0, <1>7, <2>1 DEF Link, content, SearchInv, CallType, SameRequest
  <2>3. \A c \in Bufs : c # m => file'[c] = file[c] /\ recno'[c] = recno[c]
    BY <1>0, <1>7, <2>1 DEF Link, OwnerType
  <2>4. \A f \in Files, r \in Recs : ~Holds(m, f, r) /\ ~Holds(m, f, r)'
    BY <2>2, FilesAssumption DEF Holds, NoFile
  <2>5. StoreView' = StoreView
    BY <1>6, <2>2, <2>3, <2>4 DEF storage
  <2> QED BY <2>2, <2>5, RequestFacts, StoreAnswer
<1>8. CASE FillFail
  <2>1. PICK m \in Bufs : m = call.hp
    BY <1>0, <1>8 DEF FillFail, CallInv
  <2>2. /\ UNCHANGED disk /\ call.pc = "fill" /\ Unlink(m) /\ call' = Idle
        /\ errno' = [errno EXCEPT ![call.f] = TRUE]
        /\ call.f \in Files /\ call.r \in Recs /\ call'.pc = "idle"
    BY <1>0, <1>8, <2>1 DEF FillFail, ReturnNull, Return, CallInv, GetPcs, Idle
  <2>3. /\ UNCHANGED data /\ file'[m] = NoFile
        /\ \A c \in Bufs : c # m => file'[c] = file[c] /\ recno'[c] = recno[c]
    BY <1>0, <2>2 DEF Unlink, OwnerType
  <2>4. \A f \in Files, r \in Recs : ~Holds(m, f, r) /\ ~Holds(m, f, r)'
    BY <2>1, <2>2, <2>3, FilesAssumption DEF Holds, NoFile
  <2>5. StoreView' = StoreView
    BY <1>6, <2>1, <2>2, <2>3, <2>4
  <2> QED BY <2>2, <2>5, RequestFacts, StoreFail
<1>9. CASE FillRead
  <2>1. /\ call.pc = "fill" /\ call.hp \in Bufs /\ call.f \in Files /\ call.r \in Recs
        /\ file[call.hp] = call.f /\ recno[call.hp] = call.r /\ call' = Idle
        /\ UNCHANGED <<owner, storage>> /\ call'.pc = "idle"
        /\ data' = [data EXCEPT ![call.hp] = disk[call.f][call.r]]
    BY <1>0, <1>9 DEF FillRead, FillInv, CallInv, GetPcs, ReturnHandle, Return, Idle
  <2>2. PICK m \in Bufs, g \in Files, s \in Recs : m = call.hp /\ g = call.f /\ s = call.r
    BY <2>1
  <2>3. Holds(m, g, s)' /\ data'[m] = disk[g][s]
    BY <1>0, <2>1, <2>2 DEF Holds, owner, ContentType
  <2>4. ~Buffered(g, s)
    <3>1. ASSUME NEW c \in Bufs, Holds(c, g, s) PROVE FALSE
      <4>1. c = m
        BY <1>0, <2>1, <2>2, <3>1, FilesAssumption DEF Holds, OneBuffer, NoFile
      <4> QED BY <2>1, <2>2, <3>1, <4>1 DEF Holds
    <3> QED BY <3>1 DEF Buffered
  <2>5. StoreView'[g][s] = StoreView[g][s]
    BY <1>0, <2>3, <2>4 DEF ViewFacts
  <2>6. ASSUME NEW f \in Files, NEW r \in Recs, ~(f = g /\ r = s)
        PROVE  StoreView'[f][r] = StoreView[f][r]
    <3>1. ~Holds(m, f, r) /\ ~Holds(m, f, r)'
      BY <2>1, <2>2, <2>6 DEF Holds, owner
    <3>2. ASSUME NEW c \in Bufs, c # m
          PROVE  (Holds(c, f, r)' <=> Holds(c, f, r)) /\ data'[c] = data[c]
      BY <1>0, <2>1, <2>2, <3>2 DEF Holds, owner, ContentType
    <3>3. Kept(f, r)
      BY <2>1, <3>1, <3>2 DEF Kept, storage
    <3> QED BY <1>0, <3>3, ViewKept
  <2>7. StoreView' = StoreView
    BY <2>5, <2>6, ViewSame
  <2> QED BY <2>1, <2>7, RequestFacts, StoreAnswer
<1>10. CASE FindHit
  <2>1. /\ call.pc = "find" /\ call.hp \in Bufs /\ call.f \in Files /\ call.r \in Recs
        /\ call.op = "get" /\ call' = Idle /\ call'.pc = "idle"
        /\ file[call.hp] = call.f /\ recno[call.hp] = call.r /\ UNCHANGED <<owner, storage>>
        /\ call.fill \in Data \cup {Absent}
    BY <1>0, <1>10 DEF FindHit, CallInv, GetPcs, ReturnHandle, Return, Idle, CallType
  <2>2. CASE call.fill = Absent
    <3>1. UNCHANGED data
      BY <1>10, <2>2 DEF FindHit, content
    <3> QED BY <2>1, <3>1, RequestFacts, QuietStores
  <2>3. CASE call.fill # Absent
    <3>1. data' = [data EXCEPT ![call.hp] = call.fill]
      BY <1>10, <2>3 DEF FindHit
    <3> QED BY <2>1, <2>3, <3>1, PutStores
  <2> QED BY <2>2, <2>3
<1>11. CASE FillNew \/ MarkHdr
  <2>1. /\ call.hp \in Bufs /\ call.f \in Files /\ call' = Idle
        /\ file[call.hp] = call.f /\ recno[call.hp] = call.r /\ UNCHANGED <<owner, storage>>
        /\ call.fill \in Data \cup {Absent} /\ data' = [data EXCEPT ![call.hp] = call.fill]
        /\ call.op = "mark" \/ (call.op = "get" /\ call.fill # Absent)
    BY <1>0, <1>11 DEF FillNew, MarkHdr, FillInv, CallInv, OpInv, GetPcs, ReturnHandle, Return,
       CallType
  <2>2. call.r \in Recs
    <3>1. file[call.hp] # NoFile
      BY <2>1, FilesAssumption DEF NoFile
    <3> QED BY <2>1, <3>1, StoreInvFacts DEF StoreInv
  <2> QED BY <2>1, <2>2, PutStores
<1>12. CASE PurgeHdr
  <2>1. /\ call.pc = "drop" /\ call.op = "drop" /\ call.hp \in Bufs /\ call.f \in Files
        /\ file[call.hp] = call.f /\ Unlink(call.hp) /\ call' = Idle /\ call'.pc = "idle"
        /\ UNCHANGED storage
    BY <1>0, <1>12 DEF PurgeHdr, OpInv, FillInv, CallInv, ReturnNull, Return, Idle
  <2>2. file[call.hp] # NoFile /\ call.f \in Request.discard
    BY <2>1, FilesAssumption DEF NoFile, Request
  <2> QED BY <2>1, <2>2, RequestFacts, PurgeStores
<1>13. CASE FlushStep
  <2>1. PICK b \in Bufs : NextConcerned(b) /\ FlushHdr(b) /\ call' = [call EXCEPT !.i = b + 1]
    BY <1>13 DEF FlushStep
  <2>2. /\ file[b] # NoFile /\ UNCHANGED <<owner, data>> /\ call.pc = "flush"
        /\ call'.pc = "flush" /\ SameRequest
    BY <1>0, <1>13, <2>1 DEF FlushStep, NextConcerned, Concerns, CallType, SameRequest
  <2> QED BY <2>1, <2>2, RequestFacts, FlushStores
<1>14. CASE PurgeStep
  <2>1. PICK b \in Bufs : NextConcerned(b) /\ Unlink(b) /\ call' = [call EXCEPT !.i = b + 1]
    BY <1>14 DEF PurgeStep
  <2>2. /\ file[b] # NoFile /\ Concerns(b) /\ UNCHANGED storage /\ call.pc = "purge"
        /\ call'.pc = "purge" /\ SameRequest
    BY <1>0, <1>14, <2>1 DEF PurgeStep, NextConcerned, Concerns, CallType, SameRequest
  <2>3. file[b] \in Request.discard \/ status[b] # "Updated"
    <3>1. call.op \in {"csf_Purge", "csh_Purge", "detach", "attach"}
      BY <1>0, <2>2 DEF OpInv
    <3>2. CASE call.op = "csf_Purge"
      <4>1. file[b] = call.f
        BY <1>0, <2>2, <3>2, FilesAssumption DEF OpInv, Concerns, NoFile
      <4> QED BY <3>2, <4>1 DEF Request
    <3>3. CASE call.op = "csh_Purge"
      <4>1. file[b] \in Files
        BY <2>2, StoreInvFacts DEF StoreInv
      <4> QED BY <3>3, <4>1 DEF Request
    <3>4. CASE call.op \in {"detach", "attach"}
      BY <1>0, <2>2, <3>4 DEF FlushInv
    <3> QED BY <3>1, <3>2, <3>3, <3>4
  <2> QED BY <2>1, <2>2, <2>3, RequestFacts, PurgeStores
<1> QED BY <1>1, <1>2, <1>3, <1>4, <1>5, <1>7, <1>8, <1>9, <1>10, <1>11, <1>12, <1>13, <1>14
    DEF Step
\* So is everything a caller may ask for.
LEMMA CallerStores ==
  ASSUME StoreInv, CallerStep
  PROVE  StoreStep
<1>0. /\ TypeOK /\ CallInv /\ OwnerType /\ StorageType /\ OneBuffer /\ OneBuffer' /\ OpInv
  BY StoreInvFacts DEF StoreInv
<1>a. call.pc = "idle"
  BY DEF CallerStep, GetRecord, Flush, Purge, DetachCache, AttachCache, Start, Modify,
     FlushRecord, UnLockHdr, LockHdr, Drop, FlushAll, PurgeAll
<1>b. Request = Store!NoRequest
  BY <1>0, <1>a, RequestFacts DEF OpInv
\* A request changes nothing yet.
<1>1. ASSUME UNCHANGED <<owner, content, storage>>, call'.pc # "fill",
             \/ Request' = Store!NoRequest
             \/ \E g \in Files, s \in Recs, v \in Data \cup {Absent} :
                  Request' = Store!PutRequest(g, s, v)
             \/ \E F \in SUBSET Files : Request' = Store!DiscardRequest(F)
      PROVE  StoreStep
  <2>1. StoreView' = StoreView
    BY <1>0, <1>1, <1>a, QuietView DEF content, storage
  <2> QED BY <1>1, <1>b, <2>1, StoreAnswer, StoreAsk
<1>2. ASSUME NEW f \in Files, NEW r \in Recs, NEW fill \in Data \cup {Absent},
             GetRecord(f, r, fill)
      PROVE  StoreStep
  <2>1. CASE errno[f] \/ ~IsAttached(f)
    <3>1. /\ UNCHANGED <<owner, data, disk>> /\ call' = Idle /\ call'.pc = "idle"
          /\ errno' = [errno EXCEPT ![f] = TRUE]
      BY <1>2, <2>1 DEF GetRecord, ReturnNull, Return, content, Idle
    <3>2. StoreView' = StoreView
      BY <1>0, <1>a, <3>1, QuietView
    <3> QED BY <3>1, <3>2, RequestFacts, StoreFail
  <2>2. CASE ~(errno[f] \/ ~IsAttached(f))
    <3>1. /\ UNCHANGED <<owner, content, storage>> /\ call'.pc # "fill"
          /\ call'.op = "get" /\ call'.f = f /\ call'.r = r /\ call'.fill = fill
      BY <1>2, <2>2 DEF GetRecord, storage, Idle
    <3>2. CASE fill = Absent
      <4>1. Request' = Store!NoRequest
        BY <3>1, <3>2 DEF Request, Store!NoRequest
      <4> QED BY <1>1, <3>1, <4>1
    <3>3. CASE fill # Absent
      <4>1. Request' = Store!PutRequest(f, r, fill)
        BY <3>1, <3>3 DEF Request, Store!PutRequest
      <4> QED BY <1>1, <3>1, <4>1
    <3> QED BY <3>2, <3>3
  <2> QED BY <2>1, <2>2
<1>3. ASSUME NEW op, NEW pc \in {"flush", "purge", "insert"}, NEW f, Start(op, pc, f),
             \/ op \in {"csf_Flush", "csh_Flush", "detach", "attach"}
             \/ op = "csf_Purge" /\ f \in Files
             \/ op = "csh_Purge"
      PROVE  StoreStep
  <2>1. /\ UNCHANGED <<owner, content, storage>> /\ call'.pc # "fill"
        /\ call'.op = op /\ call'.f = f
    BY <1>3 DEF Start, Idle
  <2>2. CASE op \in {"csf_Flush", "csh_Flush", "detach", "attach"}
    BY <1>1, <2>1, <2>2, RequestFacts
  <2>3. CASE op = "csf_Purge" /\ f \in Files
    <3>1. Request' = Store!DiscardRequest({f}) /\ {f} \in SUBSET Files
      BY <2>1, <2>3 DEF Request, Store!DiscardRequest
    <3> QED BY <1>1, <2>1, <3>1
  <2>4. CASE op = "csh_Purge"
    <3>1. Request' = Store!DiscardRequest(Files) /\ Files \in SUBSET Files
      BY <2>1, <2>4 DEF Request, Store!DiscardRequest
    <3> QED BY <1>1, <2>1, <3>1
  <2> QED BY <1>3, <2>2, <2>3, <2>4
<1>4. ASSUME NEW f \in Files, Flush(f) \/ Purge(f) \/ DetachCache(f) \/ AttachCache(f)
      PROVE  StoreStep
  BY <1>3, <1>4 DEF Flush, Purge, DetachCache, AttachCache
<1>5. CASE FlushAll \/ PurgeAll
  BY <1>3, <1>5 DEF FlushAll, PurgeAll
<1>6. ASSUME NEW b \in Bufs, NEW v \in Data, Modify(b, v) PROVE StoreStep
  <2>1. /\ UNCHANGED <<owner, content, storage>> /\ call'.pc # "fill"
        /\ call'.op = "mark" /\ call'.f = file[b] /\ call'.r = recno[b] /\ call'.fill = v
    BY <1>6 DEF Modify, Idle
  <2>2. file[b] \in Files /\ recno[b] \in Recs
    BY <1>6, StoreInvFacts DEF StoreInv, Modify, Usable
  <2>3. PICK g \in Files, s \in Recs : g = file[b] /\ s = recno[b]
    BY <2>2
  <2>4. Request' = Store!PutRequest(g, s, v)
    BY <2>1, <2>3 DEF Request, Store!PutRequest
  <2> QED BY <1>1, <2>1, <2>4
<1>7. CASE Drop
  <2>1. PICK b \in Bufs : b = last.b /\ file[b] # NoFile
    BY <1>7 DEF Drop, Usable
  <2>2. /\ UNCHANGED <<owner, content, storage>> /\ call'.pc # "fill"
        /\ call'.op = "drop" /\ call'.f = file[b]
    BY <1>7, <2>1 DEF Drop, Idle
  <2>3. PICK g \in Files : g = file[b]
    BY <2>1, StoreInvFacts DEF StoreInv
  <2>4. Request' = Store!DiscardRequest({g}) /\ {g} \in SUBSET Files
    BY <2>2, <2>3 DEF Request, Store!DiscardRequest
  <2> QED BY <1>1, <2>2, <2>4
<1>8. ASSUME NEW b \in Bufs, FlushRecord(b) PROVE StoreStep
  <2>1. /\ file[b] # NoFile /\ FlushHdr(b) /\ UNCHANGED <<owner, data, call>>
    BY <1>8 DEF FlushRecord, Usable
  <2>2. Request' = Request
    BY <2>1 DEF Request
  <2> QED BY <1>a, <2>1, <2>2, FlushStores
<1>9. CASE LockHdr \/ \E b \in Bufs : UnLockHdr(b)
  <2>1. UNCHANGED <<owner, content, storage, call>>
    BY <1>9 DEF LockHdr, UnLockHdr
  <2>2. Request' = Request
    BY <2>1 DEF Request
  <2> QED BY <1>1, <1>a, <1>b, <2>1, <2>2
<1> QED BY <1>2, <1>4, <1>5, <1>6, <1>7, <1>8, <1>9 DEF CallerStep

\* Every step of the cache is a step of the store, or none.
LEMMA NextStores ==
  ASSUME UsesLocks = FALSE, CustomXfr = {}, SInv, [Next]_vars
  PROVE  StoreStep
<1>1. SInv' /\ StoreInv /\ TypeInv'
  BY NextStore DEF StoreInv, SInv, IInv
<1>2. CASE UNCHANGED vars
  <2>1. UNCHANGED <<owner, data, disk, storage, call>>
    BY <1>2 DEF vars, content, storage
  <2>2. Request' = Request /\ StoreView' = StoreView
    BY <2>1 DEF Request, StoreView, Buffered, Holds, owner
  <2> QED BY <2>1, <2>2, StoreAnswer
<1> QED BY <1>1, <1>2, RunStores, CallerStores DEF Next

\* Initially every record reads as the disk.
LEMMA InitStores == Init => Store!Init
<1> SUFFICES ASSUME Init PROVE Store!Init
  OBVIOUS
<1>1. disk \in [Files -> [Recs -> Data \cup {Absent}]] /\ call = Idle
      /\ errno = [f \in Files |-> FALSE]
  BY DEF Init
<1>2. \A f \in Files, r \in Recs : ~Buffered(f, r)
  BY FilesAssumption DEF Init, Buffered, Holds, NoFile
<1>3. StoreView = disk
  <2>1. StoreView = [f \in Files |-> [r \in Recs |-> disk[f][r]]]
    BY <1>2 DEF StoreView
  <2> QED BY <1>1, <2>1
<1>4. Request = Store!NoRequest
  BY <1>1, RequestFacts
<1> QED BY <1>1, <1>3, <1>4 DEF Store!Init, Store!Contents

\* The cache implements the store of records its callers rely on: whatever is
\* evicted, reused, flushed, purged or detached meanwhile, a record reads as it
\* was last written, unless the caller asked to discard it or the error
\* condition of its file is set.
THEOREM CacheIsAStore == UsesLocks = FALSE /\ CustomXfr = {} /\ Spec => StoreSpec
<1> SUFFICES ASSUME UsesLocks = FALSE, CustomXfr = {} PROVE Spec => StoreSpec
  OBVIOUS
<1>1. SInv /\ [Next]_vars => SInv'
  BY NextStore
<1>2. SInv /\ [Next]_vars => [Store!Next]_(Store!vars)
  BY NextStores DEF StoreStep
<1> QED BY <1>1, <1>2, InitStore, InitStores, PTL DEF Spec, StoreSpec, Store!Spec
-----------------------------------------------------------------------------
(* What _csf_Flush promises.                                               *)

\* When _csf_Flush returns 0, every record of the file reads as the disk.
LEMMA FlushReturns ==
  ASSUME SInv, OneBuffer', Next, call.op = "csf_Flush", call' = Idle, ~errno'[call.f]
  PROVE  disk'[call.f] = StoreView'[call.f]
<1>0. /\ TypeOK /\ call \in CallType /\ StorageType /\ OneBuffer' /\ ViewFacts'
      /\ call.pc = "flush" /\ call.f \in Files /\ call'.pc = "idle"
  BY StoreInvFacts, OpPlace, ViewAtNext DEF SInv, IInv, Idle
<1>1. FlushEnd
  <2>1. ~FlushStep
    <3>1. SUFFICES ASSUME FlushStep PROVE FALSE
      OBVIOUS
    <3>2. PICK b \in Bufs : call' = [call EXCEPT !.i = b + 1]
      BY <3>1 DEF FlushStep
    <3> QED BY <1>0, <3>2 DEF CallType
  <2> QED BY <1>0, <2>1 DEF Next, Step, CallerStep, FindNext, FindHit, FindMiss, ReuseNeighbour,
      TakeLru, NextMruSkip, NextMruFree, NextMruEvict, Link, FillFail, FillRead, FillNew,
      MarkHdr, PurgeHdr, PurgeStep, PurgeEnd, Reattach, InsertFile, GetRecord, Flush, Purge,
      DetachCache, AttachCache, Start, Modify, FlushRecord, UnLockHdr, LockHdr, Drop, FlushAll,
      PurgeAll
<1>2. UNCHANGED <<owner, content, storage>> /\ LoopEnds
  BY <1>1 DEF FlushEnd
<1>g. PICK g \in Files : g = call.f
  BY <1>0
\* The loop has come past every buffer of the file.
<1>3. ASSUME NEW b \in Bufs, file[b] = g PROVE status[b] = "InUse" /\ file[b] # NoFile
  <2>1. Concerns(b)
    BY <1>3, <1>g, FilesAssumption DEF Concerns, NoFile
  <2>2. b \in Int /\ call.i \in Int
    BY <1>0, BufsFacts DEF CallType
  <2>3. b < call.i
    BY <1>2, <2>1, <2>2 DEF LoopEnds
  <2>4. status[b] # "Updated"
    BY <1>0, <2>1, <2>3 DEF SInv, FlushInv
  <2> QED BY <1>0, <2>1, <2>4, StoreInvFacts DEF Concerns
<1>4. ASSUME NEW r \in Recs PROVE StoreView'[g][r] = disk'[g][r]
  <2>1. CASE Buffered(g, r)'
    <3>1. PICK b \in Bufs : Holds(b, g, r)'
      BY <2>1 DEF Buffered
    <3>2. file[b] = g /\ recno[b] = r /\ status[b] = "InUse" /\ file[b] # NoFile
      BY <1>2, <1>3, <3>1 DEF Holds, owner
    <3>3. data[b] = disk[g][r]
      BY <1>0, <1>2, <1>g, <3>2 DEF SInv, CleanOnDisk, storage
    <3> QED BY <1>0, <1>2, <3>1, <3>3 DEF ViewFacts, content, storage
  <2>2. CASE ~Buffered(g, r)'
    BY <1>0, <2>2 DEF ViewFacts
  <2> QED BY <2>1, <2>2
<1>5. disk'[g] = [r \in Recs |-> disk'[g][r]]
  <2>1. disk[g] = [r \in Recs |-> disk[g][r]]
    BY <1>0 DEF StorageType
  <2> QED BY <1>2, <2>1 DEF storage
<1>6. StoreView'[g] = [r \in Recs |-> StoreView'[g][r]]
  BY DEF StoreView
<1> QED BY <1>4, <1>5, <1>6, <1>g

\* If _csf_Flush returns 0, what callers read of the file is what is on disk:
\* its loop skips no buffer, whatever the cache holds, and a failed write is
\* not forgotten before it returns.
THEOREM FlushesDurable == UsesLocks = FALSE /\ CustomXfr = {} /\ Spec => FlushDurable
<1> SUFFICES ASSUME UsesLocks = FALSE, CustomXfr = {} PROVE Spec => FlushDurable
  OBVIOUS
<1>1. SInv /\ [Next]_vars => SInv'
  BY NextStore
<1>2. SInv /\ [Next]_vars =>
        [call.op = "csf_Flush" /\ call.pc # "idle" /\ call' = Idle /\ ~errno'[call.f]
         => disk'[call.f] = StoreView'[call.f]]_vars
  <2>1. SInv' => OneBuffer'
    BY DEF SInv, IInv
  <2> QED BY <1>1, <2>1, FlushReturns
<1> QED BY <1>1, <1>2, InitStore, PTL DEF Spec, FlushDurable
=============================================================================
