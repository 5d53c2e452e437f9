--------------------------- MODULE CshStoreProofs ---------------------------
(***************************************************************************)
(* Proofs about what the buffers hold: a locked buffer is not taken away   *)
(* from its record (with locks, for any number of buffers), and what is    *)
(* not marked Updated is on disk (without locks, which OneBuffer needs,    *)
(* and for files without an XfrFcn, whose Errno is not reset).             *)
(***************************************************************************)
EXTENDS CshCacheProofs

\* Which call can be at which place of the code.
OpInv ==
  /\ call.pc = "idle" => call.op = "none"
  /\ call.pc = "mark" => call.op = "mark" /\ call.fill \in Data
  /\ call.pc = "drop" => call.op = "drop"
  /\ call.pc = "flush" => /\ call.op \in {"csf_Flush", "csh_Flush", "detach", "attach"}
                          /\ call.op = "csf_Flush" => call.f \in Files
  /\ call.pc = "purge" => /\ call.op \in {"csf_Purge", "csh_Purge", "detach", "attach"}
                          /\ call.op = "csf_Purge" => call.f \in Files
  /\ call.pc = "insert" => call.op = "attach"

\* A free buffer is not locked, nor is the one a GetRecord has settled on.
LockInv ==
  /\ \A b \in Bufs : status[b] = "Free" => locks[b] = 0
  /\ call.pc = "link" => locks[call.i] = 0
  /\ call.pc = "fill" => locks[call.hp] = 0

-----------------------------------------------------------------------------
(* Locks.                                                                  *)

\* What follows from it about a call of a given kind.
LEMMA OpPlace ==
  ASSUME OpInv, TypeInv
  PROVE  /\ call.op = "get" => call.pc \in GetPcs
         /\ call.op = "csf_Flush" => call.pc = "flush" /\ call.f \in Files
BY DEF OpInv, TypeInv, TypeOK, CallType, CallInv, GetPcs

\* A step keeps OpInv.
LEMMA OpNext ==
  ASSUME OpInv, TypeInv, [Next]_vars
  PROVE  OpInv'
<1>0. OpInv /\ CallInv /\ call \in CallType
  BY DEF TypeInv, TypeOK
<1>1. CASE UNCHANGED call
  BY <1>0, <1>1 DEF OpInv
<1>2. CASE call' = Idle
  BY <1>2 DEF OpInv, Idle
<1>3. ASSUME NEW op, NEW pc, NEW f, Start(op, pc, f),
             \/ pc = "flush" /\ op \in {"csf_Flush", "detach", "attach"} /\ f \in Files
             \/ pc = "flush" /\ op = "csh_Flush"
             \/ pc = "purge" /\ op = "csf_Purge" /\ f \in Files
             \/ pc = "purge" /\ op = "csh_Purge"
             \/ pc = "insert" /\ op = "attach"
      PROVE  OpInv'
  BY <1>3 DEF OpInv, Start, Idle
<1>4. CASE call'.pc \in GetPcs
  BY <1>4 DEF OpInv, GetPcs
<1>5. CASE Step
  <2>1. CASE FindNext \/ FindMiss \/ ReuseNeighbour \/ TakeLru
    BY <1>0, <1>4, <2>1 DEF FindNext, FindMiss, ReuseNeighbour, TakeLru, CallType, GetPcs
  <2>2. CASE NextMruSkip \/ NextMruFree \/ NextMruEvict \/ Link
    BY <1>0, <1>2, <1>4, <2>2 DEF NextMruSkip, NextMruFree, NextMruEvict, Link, ReturnNull,
       Return, CallType, GetPcs
  <2>3. CASE FlushStep \/ PurgeStep
    <3>1. PICK b \in Bufs : call' = [call EXCEPT !.i = b + 1]
      BY <2>3 DEF FlushStep, PurgeStep
    <3> QED BY <1>0, <3>1 DEF OpInv, CallType
  <2>4. CASE Reattach
    <3>1. call'.pc = "insert" /\ call'.op = "attach"
      BY <1>0, <2>4 DEF Reattach, CallType
    <3> QED BY <3>1 DEF OpInv
  <2>5. CASE FlushEnd
    <3>1. CASE call.op \in {"detach", "attach"}
      <4>1. call'.pc = "purge" /\ call'.op = call.op
        BY <1>0, <2>5, <3>1 DEF FlushEnd, CallType
      <4> QED BY <3>1, <4>1 DEF OpInv
    <3> QED BY <1>2, <2>5, <3>1 DEF FlushEnd, Return
  <2> QED BY <1>2, <1>5, <2>1, <2>2, <2>3, <2>4, <2>5 DEF Step, FindHit, FillFail, FillRead,
      FillNew, MarkHdr, PurgeHdr, PurgeEnd, InsertFile, ReturnHandle, ReturnNull, Return
<1>6. CASE CallerStep
  <2>1. ASSUME NEW f \in Files, NEW r \in Recs, NEW fill \in Data \cup {Absent},
               GetRecord(f, r, fill)
        PROVE  OpInv'
    BY <1>2, <2>1 DEF GetRecord, ReturnNull, Return, OpInv, Idle
  <2>2. ASSUME NEW f \in Files, Flush(f) \/ Purge(f) \/ DetachCache(f) \/ AttachCache(f)
        PROVE  OpInv'
    BY <1>3, <2>2 DEF Flush, Purge, DetachCache, AttachCache
  <2>3. CASE FlushAll \/ PurgeAll
    BY <1>3, <2>3 DEF FlushAll, PurgeAll
  <2>4. ASSUME NEW b \in Bufs, NEW v \in Data, Modify(b, v) PROVE OpInv'
    BY <2>4 DEF Modify, OpInv, Idle
  <2>5. CASE Drop
    BY <2>5 DEF Drop, OpInv, Idle
  <2> QED BY <1>1, <1>6, <2>1, <2>2, <2>3, <2>4, <2>5 DEF CallerStep, FlushRecord, UnLockHdr,
      LockHdr
<1> QED BY <1>1, <1>5, <1>6 DEF Next, vars

\* A step keeps LockInv.
LEMMA LockNext ==
  ASSUME LockInv, FreeInv, TypeInv, [Next]_vars
  PROVE  LockInv'
<1>0. /\ LockInv /\ FreeInv /\ TypeOK /\ CallInv /\ call \in CallType /\ RingType
      /\ OwnerType /\ ContentType /\ locks \in [Bufs -> Nat]
  BY DEF TypeInv, TypeOK
\* No buffer becomes free, and no search settles on one.
<1>1. CASE /\ \A b \in Bufs : status'[b] = "Free" => status[b] = "Free"
           /\ UNCHANGED locks /\ call'.pc \notin {"link", "fill"}
  BY <1>0, <1>1 DEF LockInv
<1>2. ASSUME NEW b \in Bufs, Unlink(b),
             call'.pc \notin {"link", "fill"} \/ (call'.pc = "link" /\ call'.i = b)
      PROVE  LockInv'
  BY <1>0, <1>2 DEF LockInv, Unlink, ContentType
<1>3. CASE Step
  <2>1. CASE NextMruEvict
    <3>1. nextMru[call.i] \in Bufs
      BY <1>0, <2>1 DEF NextMruEvict, CallInv, RingType
    <3>2. call'.pc = "link" /\ call'.i = nextMru[call.i]
      BY <1>0, <2>1 DEF NextMruEvict, CallType
    <3> QED BY <1>2, <2>1, <3>1, <3>2 DEF NextMruEvict
  <2>2. CASE FillFail \/ PurgeHdr
    BY <1>0, <1>2, <2>2 DEF FillFail, PurgeHdr, ReturnNull, Return, Idle, CallInv
  <2>3. CASE PurgeStep
    <3>1. call'.pc = "purge"
      BY <1>0, <2>3 DEF PurgeStep, CallType
    <3> QED BY <1>2, <2>3, <3>1 DEF PurgeStep
  <2>4. CASE NextMruFree
    <3> DEFINE b == nextMru[call.i]
    <3>1. /\ b \in Bufs /\ status[b] = "Free" /\ UNCHANGED <<status, locks>>
          /\ call'.pc = "link" /\ call'.i = b
      BY <1>0, <2>4 DEF NextMruFree, CallInv, RingType, content, CallType
    <3> QED BY <1>0, <3>1 DEF LockInv
  <2>5. CASE Link
    <3>1. /\ call.pc = "link" /\ UNCHANGED <<status, locks>>
          /\ call'.pc = "fill" /\ call'.hp = call.i
      BY <1>0, <2>5 DEF Link, content, CallType
    <3> QED BY <1>0, <3>1 DEF LockInv
  <2>6. CASE ReuseNeighbour
    <3>1. /\ locks[call.hp] = 0 /\ UNCHANGED locks /\ call.hp \in Bufs
          /\ status' = [status EXCEPT ![call.hp] = IF @ = "Updated" THEN "InUse" ELSE @]
          /\ call'.pc = "fill" /\ call'.hp = call.hp
      BY <1>0, <2>6 DEF ReuseNeighbour, FlushHdr, CallInv, CallType
    <3> QED BY <1>0, <3>1 DEF LockInv, ContentType
  <2>7. CASE FlushStep
    <3>1. /\ \A b \in Bufs : status'[b] = "Free" => status[b] = "Free"
          /\ UNCHANGED locks /\ call'.pc = "flush"
      BY <1>0, <2>7 DEF FlushStep, FlushHdr, ContentType, CallType
    <3> QED BY <1>1, <3>1
  <2>8. CASE FindNext \/ FindMiss \/ TakeLru \/ NextMruSkip
    <3>1. UNCHANGED <<status, locks>>
      BY <2>8 DEF FindNext, FindMiss, TakeLru, NextMruSkip, content
    <3>2. CASE FindNext \/ NextMruSkip
      <4>1. call'.pc \in {"find", "lru", "idle"}
        BY <1>0, <3>2 DEF FindNext, NextMruSkip, ReturnNull, Return, Idle, CallType
      <4> QED BY <1>1, <3>1, <4>1
    <3>3. CASE FindMiss \/ TakeLru
      <4>1. call'.pc \in {"collide", "lru"}
        BY <1>0, <3>3 DEF FindMiss, TakeLru, CallType
      <4> QED BY <1>1, <3>1, <4>1
    <3> QED BY <2>8, <3>2, <3>3
  <2>9. CASE FindHit \/ FillRead \/ FillNew \/ MarkHdr
    <3>1. UNCHANGED locks /\ call'.pc = "idle"
      BY <2>9 DEF FindHit, FillRead, FillNew, MarkHdr, ReturnHandle, Return, Idle
    <3>2. \/ UNCHANGED status
          \/ \E v \in {"InUse", "Updated"} : status' = [status EXCEPT ![call.hp] = v]
      BY <2>9 DEF FindHit, FillRead, FillNew, MarkHdr, content
    <3>3. \A b \in Bufs : status'[b] = "Free" => status[b] = "Free"
      BY <1>0, <3>2 DEF ContentType
    <3> QED BY <1>1, <3>1, <3>3
  <2>10. CASE FlushEnd \/ PurgeEnd \/ Reattach \/ InsertFile
    <3>1. UNCHANGED <<status, locks>>
      BY <2>10 DEF FlushEnd, PurgeEnd, Reattach, InsertFile, content
    <3>2. call' = Idle \/ call' = [call EXCEPT !.pc = "purge", !.i = 0]
                      \/ call' = [call EXCEPT !.pc = "insert", !.i = 0]
      BY <2>10 DEF FlushEnd, PurgeEnd, Reattach, InsertFile, ReturnNull, Return
    <3>3. CASE call' = Idle
      <4>1. call'.pc = "idle"
        BY <3>3 DEF Idle
      <4> QED BY <1>1, <3>1, <4>1
    <3>4. CASE call' # Idle
      <4>1. call'.pc \in {"purge", "insert"}
        BY <1>0, <3>2, <3>4 DEF CallType
      <4> QED BY <1>1, <3>1, <4>1
    <3> QED BY <3>3, <3>4
  <2> QED BY <1>3, <2>1, <2>2, <2>3, <2>4, <2>5, <2>6, <2>7, <2>8, <2>9, <2>10 DEF Step
<1>4. CASE CallerStep
  <2>1. ASSUME NEW b \in Bufs, FlushRecord(b) PROVE LockInv'
    <3>1. /\ call.pc = "idle" /\ UNCHANGED call
          /\ \A c \in Bufs : status'[c] = "Free" => status[c] = "Free"
          /\ \A c \in Bufs : locks[c] = 0 => locks'[c] = 0
      BY <1>0, <2>1 DEF FlushRecord, FlushHdr, ContentType
    <3> QED BY <1>0, <3>1 DEF LockInv
  <2>2. CASE LockHdr
    <3>1. /\ call.pc = "idle" /\ UNCHANGED <<call, status>> /\ last.b \in Bufs
          /\ file[last.b] # NoFile /\ locks' = [locks EXCEPT ![last.b] = @ + 1]
      BY <2>2 DEF LockHdr, Usable, content
    <3>2. status[last.b] # "Free"
      BY <1>0, <3>1 DEF FreeInv
    <3> QED BY <1>0, <3>1, <3>2 DEF LockInv
  <2>3. ASSUME NEW b \in Bufs, UnLockHdr(b) PROVE LockInv'
    <3>1. /\ call.pc = "idle" /\ UNCHANGED <<call, status>> /\ locks[b] > 0
          /\ locks' = [locks EXCEPT ![b] = @ - 1]
      BY <2>3 DEF UnLockHdr, content
    <3> QED BY <1>0, <3>1 DEF LockInv
  <2>4. ASSUME NEW op, NEW pc \in {"flush", "purge", "insert"}, NEW f, Start(op, pc, f)
        PROVE  LockInv'
    BY <1>1, <2>4 DEF Start, Idle, content
  <2>5. ASSUME NEW f \in Files, Flush(f) \/ Purge(f) \/ DetachCache(f) \/ AttachCache(f)
        PROVE  LockInv'
    BY <2>4, <2>5 DEF Flush, Purge, DetachCache, AttachCache
  <2>6. CASE FlushAll \/ PurgeAll
    BY <2>4, <2>6 DEF FlushAll, PurgeAll
  <2>7. ASSUME NEW f \in Files, NEW r \in Recs, NEW fill \in Data \cup {Absent},
               GetRecord(f, r, fill)
        PROVE  LockInv'
    <3>1. UNCHANGED <<status, locks>>
      BY <2>7 DEF GetRecord, content
    <3>2. CASE errno[f] \/ ~IsAttached(f)
      <4>1. call'.pc = "idle"
        BY <2>7, <3>2 DEF GetRecord, ReturnNull, Return, Idle
      <4> QED BY <1>1, <3>1, <4>1
    <3>3. CASE ~(errno[f] \/ ~IsAttached(f))
      <4>1. call'.pc \in {"find", "lru"}
        BY <2>7, <3>3 DEF GetRecord, Idle
      <4> QED BY <1>1, <3>1, <4>1
    <3> QED BY <3>2, <3>3
  <2>8. CASE Drop \/ \E b \in Bufs : \E v \in Data : Modify(b, v)
    BY <1>1, <2>8 DEF Drop, Modify, Idle, content
  <2> QED BY <1>4, <2>1, <2>2, <2>3, <2>5, <2>6, <2>7, <2>8 DEF CallerStep
<1>5. CASE UNCHANGED vars
  BY <1>0, <1>5 DEF LockInv, vars, content
<1> QED BY <1>3, <1>4, <1>5 DEF Next

\* A step of a GetRecord leaves every locked buffer with its record.
LEMMA LockedKept ==
  ASSUME OpInv, LockInv, TypeInv, Next, call.op = "get", NEW b \in Bufs, locks[b] > 0
  PROVE  file'[b] = file[b] /\ recno'[b] = recno[b]
<1>0. /\ TypeOK /\ CallInv /\ OwnerType /\ RingType /\ call.pc \in GetPcs
  BY OpPlace DEF TypeInv, TypeOK
<1>1. CASE UNCHANGED owner
  BY <1>1 DEF owner
<1>2. CASE NextMruEvict
  <2>1. nextMru[call.i] \in Bufs /\ b # nextMru[call.i]
    BY <1>0, <1>2 DEF NextMruEvict, CallInv, RingType
  <2> QED BY <1>0, <1>2, <2>1 DEF NextMruEvict, Unlink, OwnerType
<1>3. CASE ReuseNeighbour
  BY <1>0, <1>3 DEF ReuseNeighbour, OwnerType
<1>4. CASE Link
  <2>1. b # call.i
    BY <1>4 DEF Link, LockInv
  <2> QED BY <1>0, <1>4, <2>1 DEF Link, OwnerType
<1>5. CASE FillFail
  <2>1. b # call.hp
    BY <1>5 DEF FillFail, LockInv
  <2> QED BY <1>0, <1>5, <2>1 DEF FillFail, Unlink, OwnerType
<1>6. CASE Step
  BY <1>0, <1>1, <1>2, <1>3, <1>4, <1>5, <1>6 DEF Step, FindNext, FindHit, FindMiss, TakeLru,
     NextMruSkip, NextMruFree, FillRead, FillNew, MarkHdr, PurgeHdr, FlushStep, FlushEnd,
     PurgeStep, PurgeEnd, Reattach, InsertFile, GetPcs
<1>7. CASE CallerStep
  BY <1>1, <1>7 DEF CallerStep, GetRecord, Flush, Purge, DetachCache, AttachCache, Start,
     Modify, FlushRecord, UnLockHdr, LockHdr, Drop, FlushAll, PurgeAll
<1> QED BY <1>6, <1>7 DEF Next

\* No GetRecord takes a locked buffer away from its record, whatever the number
\* of buffers, of locks and of GetRecords made meanwhile: _csh_GetNextMru and
\* the reuse of a neighbour both respect a lock at every step of the call.
THEOREM LocksRespected == Spec => LockedStays
<1> DEFINE Inv == OpInv /\ LockInv /\ FreeInv /\ TypeInv
<1>1. Init => Inv
  BY InitType DEF Init, Idle, OpInv, LockInv, FreeInv
<1>2. Inv /\ [Next]_vars => Inv'
  BY OpNext, LockNext, FreeNext, NextType
<1>3. Inv /\ [Next]_vars =>
        [\A b \in Bufs : locks[b] > 0 /\ call.op = "get"
                         => file'[b] = file[b] /\ recno'[b] = recno[b]]_vars
  BY LockedKept
<1> QED BY <1>1, <1>2, <1>3, PTL DEF Spec, LockedStays

-----------------------------------------------------------------------------
(* What is not marked Updated is on disk.                                  *)

\* A buffer that is owned holds a record that exists.
RecInv == \A b \in Bufs : file[b] # NoFile => recno[b] \in Recs

\* CleanOnDisk for one buffer.
Clean(b) ==
  /\ status[b] = "InUse" /\ file[b] # NoFile
  /\ ~errno[file[b]] /\ ~(call.pc = "fill" /\ call.hp = b)
  => data[b] = disk[file[b]][recno[b]]

\* A loop that flushes has left no buffer it is about Updated, nor has the one
\* that is about to purge for _csf_DetachCache.
FlushInv ==
  /\ call.pc = "flush" => \A b \in Bufs : b < call.i /\ Concerns(b) => status[b] # "Updated"
  /\ call.pc = "purge" /\ call.op \in {"detach", "attach"} =>
       \A b \in Bufs : Concerns(b) => status[b] # "Updated"

\* What a call is about to change is the buffer of the record it was asked for.
FillInv ==
  call.pc \in {"fill", "mark", "drop"} =>
    /\ call.f \in Files /\ file[call.hp] = call.f
    /\ call.pc # "drop" => recno[call.hp] = call.r

SInv == IInv /\ OpInv /\ RecInv /\ FillInv /\ CleanOnDisk /\ FlushInv

\* Nothing but a record that is written changes on disk, and only without
\* an error does it get there; an error condition is not reset.
LEMMA WriteEffect ==
  ASSUME CustomXfr = {}, TypeOK, NEW b \in Bufs, WriteIfUpdated(b)
  PROVE  /\ \A f \in Files : errno[f] => errno'[f]
         /\ \A f \in Files, r \in Recs : ~(f = file[b] /\ r = recno[b]) =>
              disk'[f][r] = disk[f][r]
         /\ file[b] \in Files /\ recno[b] \in Recs /\ status[b] = "Updated"
            /\ ~errno'[file[b]] => disk'[file[b]][recno[b]] = data[b]
<1>0. errno \in [Files -> BOOLEAN] /\ disk \in [Files -> [Recs -> Data \cup {Absent}]]
  BY DEF TypeOK, StorageType
<1>1. CASE UNCHANGED storage /\ status[b] # "Updated"
  BY <1>1 DEF storage
<1>2. CASE WriteRecord(b)
  <2>1. PICK ok \in BOOLEAN :
          /\ disk' = (IF ok THEN [disk EXCEPT ![file[b]][recno[b]] = data[b]] ELSE disk)
          /\ errno' = [errno EXCEPT ![file[b]] = @ \/ ~ok]
    BY <1>2 DEF WriteRecord
  <2>2. \A f \in Files : errno[f] => errno'[f]
    BY <1>0, <2>1
  <2>3. \A f \in Files, r \in Recs : ~(f = file[b] /\ r = recno[b]) =>
          disk'[f][r] = disk[f][r]
    BY <1>0, <2>1
  <2>4. ASSUME file[b] \in Files, recno[b] \in Recs, ~errno'[file[b]]
        PROVE  disk'[file[b]][recno[b]] = data[b]
    <3>1. ok
      BY <1>0, <2>1, <2>4
    <3> QED BY <1>0, <2>1, <2>4, <3>1
  <2> QED BY <2>2, <2>3, <2>4
<1> QED BY <1>1, <1>2 DEF WriteIfUpdated

\* A buffer a step leaves alone stays clean, if its record on disk does and
\* no error is forgotten.
LEMMA CleanKept ==
  ASSUME NEW c \in Bufs, Clean(c), file'[c] = file[c], recno'[c] = recno[c],
         status'[c] = "InUse" => status[c] = "InUse" /\ data'[c] = data[c],
         file[c] # NoFile /\ ~errno'[file[c]] =>
           ~errno[file[c]] /\ disk'[file[c]][recno[c]] = disk[file[c]][recno[c]],
         call.pc = "fill" /\ call.hp = c => call'.pc = "fill" /\ call'.hp = c
  PROVE  Clean(c)'
BY DEF Clean

\* A step keeps RecInv.
LEMMA RecNext ==
  ASSUME TypeInv, RecInv, [Next]_vars
  PROVE  RecInv'
<1>0. TypeOK /\ CallInv /\ OwnerType
  BY DEF TypeInv, TypeOK
<1>1. CASE UNCHANGED owner
  BY <1>1 DEF RecInv, owner
<1>2. ASSUME NEW b \in Bufs, Unlink(b) PROVE RecInv'
  BY <1>0, <1>2 DEF RecInv, Unlink, OwnerType
<1>3. ASSUME NEW b \in Bufs, file' = [file EXCEPT ![b] = call.f],
             recno' = [recno EXCEPT ![b] = call.r], call.r \in Recs
      PROVE  RecInv'
  BY <1>0, <1>3 DEF RecInv, OwnerType
<1>4. CASE Step
  <2>1. CASE NextMruEvict
    <3>1. nextMru[call.i] \in Bufs
      BY <1>0, <2>1 DEF NextMruEvict, CallInv, TypeOK, RingType
    <3> QED BY <1>2, <2>1, <3>1 DEF NextMruEvict
  <2>2. CASE FillFail \/ PurgeHdr \/ PurgeStep
    BY <1>0, <1>2, <2>2 DEF FillFail, PurgeHdr, PurgeStep, CallInv
  <2>3. CASE ReuseNeighbour \/ Link
    BY <1>0, <1>3, <2>3 DEF ReuseNeighbour, Link, CallInv, GetPcs
  <2> QED BY <1>1, <1>4, <2>1, <2>2, <2>3 DEF Step, FindNext, FindHit, FindMiss, TakeLru,
      NextMruSkip, NextMruFree, FillRead, FillNew, MarkHdr, FlushStep, FlushEnd, PurgeEnd,
      Reattach, InsertFile
<1>5. CASE CallerStep
  BY <1>1, <1>5 DEF CallerStep, GetRecord, Flush, Purge, DetachCache, AttachCache, Start,
     Modify, FlushRecord, UnLockHdr, LockHdr, Drop, FlushAll, PurgeAll
<1> QED BY <1>1, <1>4, <1>5 DEF Next, vars

\* A step keeps CleanOnDisk.
LEMMA CleanNext ==
  ASSUME CustomXfr = {}, SInv, TypeInv', [Next]_vars
  PROVE  CleanOnDisk'
<1>0. /\ TypeInv /\ TypeOK /\ CallInv /\ call \in CallType /\ OwnerType /\ ContentType
      /\ RingType /\ StorageType /\ OneBuffer /\ RecInv /\ FreeInv /\ SearchInv /\ NoLocks
      /\ \A b \in Bufs : Clean(b)
  BY DEF SInv, IInv, TypeInv, TypeOK, CleanOnDisk, Clean
<1>a. \A b \in Bufs : file[b] # NoFile => file[b] \in Files /\ recno[b] \in Recs
  BY <1>0 DEF OwnerType, RecInv
<1>q. SUFFICES ASSUME NEW c \in Bufs PROVE Clean(c)'
  BY DEF CleanOnDisk, Clean
\* No I/O but for a record that is read, and no buffer becomes clean.
<1>1. ASSUME UNCHANGED <<owner, disk>>, call.pc # "fill",
             \A f \in Files : errno[f] => errno'[f],
             \A b \in Bufs : status'[b] = "InUse" => status[b] = "InUse" /\ data'[b] = data[b]
      PROVE  Clean(c)'
  BY <1>0, <1>1, <1>a, CleanKept DEF owner
\* A buffer is written back, if need be, and given up or taken for another record.
<1>2. ASSUME NEW b \in Bufs, WriteIfUpdated(b), b # c,
             file'[c] = file[c], recno'[c] = recno[c], status'[c] = status[c],
             data'[c] = data[c], call.pc # "fill"
      PROVE  Clean(c)'
  <2>1. file[c] # NoFile => ~(file[c] = file[b] /\ recno[c] = recno[b])
    BY <1>0, <1>2 DEF OneBuffer
  <2>2. file[c] # NoFile /\ ~errno'[file[c]] =>
          ~errno[file[c]] /\ disk'[file[c]][recno[c]] = disk[file[c]][recno[c]]
    BY <1>0, <1>2, <1>a, <2>1, WriteEffect
  <2> QED BY <1>0, <1>2, <2>2, CleanKept
<1>3. ASSUME NEW b \in Bufs, FlushHdr(b), UNCHANGED <<owner, data>>, file[b] # NoFile,
             call.pc # "fill"
      PROVE  Clean(c)'
  <2>1. CASE c # b
    <3>1. status'[c] = status[c]
      BY <1>0, <1>3, <2>1 DEF FlushHdr, ContentType
    <3> QED BY <1>2, <1>3, <2>1, <3>1 DEF FlushHdr, owner
  <2>2. CASE c = b /\ status[b] = "Updated"
    BY <1>0, <1>3, <1>a, <2>2, WriteEffect DEF FlushHdr, owner, Clean
  <2>3. CASE c = b /\ status[b] # "Updated"
    <3>1. UNCHANGED <<errno, disk>> /\ status'[c] = status[c]
      BY <1>0, <1>3, <2>3 DEF FlushHdr, WriteIfUpdated, storage, ContentType
    <3> QED BY <1>0, <1>3, <3>1, CleanKept DEF owner
  <2> QED BY <2>1, <2>2, <2>3
\* A buffer is given up.
<1>4. ASSUME NEW b \in Bufs, Unlink(b), UNCHANGED disk,
             \A f \in Files : errno[f] => errno'[f],
             call.pc = "fill" => call.hp = b
      PROVE  Clean(c)'
  <2>1. CASE c = b
    <3>1. file'[c] = NoFile
      BY <1>0, <1>4, <2>1 DEF Unlink, OwnerType
    <3> QED BY <3>1 DEF Clean
  <2>2. CASE c # b
    <3>1. file'[c] = file[c] /\ recno'[c] = recno[c] /\ status'[c] = status[c]
          /\ data'[c] = data[c]
      BY <1>0, <1>4, <2>2 DEF Unlink, OwnerType, ContentType
    <3> QED BY <1>0, <1>4, <1>a, <2>2, <3>1, CleanKept
  <2> QED BY <2>1, <2>2
<1>5. CASE Step
  <2>1. CASE ReuseNeighbour
    <3>1. /\ call.hp \in Bufs /\ call'.pc = "fill" /\ call'.hp = call.hp
          /\ call.pc = "collide"
      BY <1>0, <2>1 DEF ReuseNeighbour, CallInv, CallType
    <3>2. CASE c = call.hp
      BY <3>1, <3>2 DEF Clean
    <3>3. CASE c # call.hp
      <4>1. /\ file'[c] = file[c] /\ recno'[c] = recno[c] /\ status'[c] = status[c]
            /\ data'[c] = data[c] /\ WriteIfUpdated(call.hp)
        BY <1>0, <2>1, <3>1, <3>3 DEF ReuseNeighbour, FlushHdr, OwnerType, ContentType
      <4> QED BY <1>2, <3>1, <3>3, <4>1
    <3> QED BY <3>2, <3>3
  <2>2. CASE NextMruEvict
    <3> DEFINE b == nextMru[call.i]
    <3>1. b \in Bufs /\ Unlink(b) /\ WriteIfUpdated(b) /\ call.pc = "lru"
      BY <1>0, <2>2 DEF NextMruEvict, CallInv, RingType
    <3> HIDE DEF b
    <3>2. CASE c = b
      <4>1. file'[c] = NoFile
        BY <1>0, <3>1, <3>2 DEF Unlink, OwnerType
      <4> QED BY <4>1 DEF Clean
    <3>3. CASE c # b
      <4>1. /\ file'[c] = file[c] /\ recno'[c] = recno[c] /\ status'[c] = status[c]
            /\ data'[c] = data[c]
        BY <1>0, <3>1, <3>3 DEF Unlink, OwnerType, ContentType
      <4> QED BY <1>2, <3>1, <3>3, <4>1
    <3> QED BY <3>2, <3>3
  <2>3. CASE FlushStep
    <3>1. PICK b \in Bufs : NextConcerned(b) /\ FlushHdr(b)
      BY <2>3 DEF FlushStep
    <3> QED BY <1>3, <2>3, <3>1 DEF FlushStep, NextConcerned, Concerns
  <2>4. CASE FillFail
    BY <1>0, <1>4, <2>4 DEF FillFail, CallInv, StorageType
  <2>5. CASE PurgeHdr \/ PurgeStep
    BY <1>0, <1>4, <2>5 DEF PurgeHdr, PurgeStep, CallInv, storage
  <2>6. CASE Link
    <3> DEFINE m == call.i
    <3>1. /\ call.pc = "link" /\ m \in Bufs /\ call'.pc = "fill" /\ call'.hp = m
          /\ UNCHANGED <<status, data, errno, disk>>
          /\ file' = [file EXCEPT ![m] = call.f] /\ recno' = [recno EXCEPT ![m] = call.r]
      BY <1>0, <2>6 DEF Link, CallInv, CallType, content, storage
    <3> HIDE DEF m
    <3>2. CASE c = m
      BY <3>1, <3>2 DEF Clean
    <3>3. CASE c # m
      <4>1. file'[c] = file[c] /\ recno'[c] = recno[c]
        BY <1>0, <3>1, <3>3 DEF OwnerType
      <4> QED BY <1>0, <3>1, <4>1, CleanKept
    <3> QED BY <3>2, <3>3
  <2>7. CASE FillRead \/ FillNew
    <3>1. /\ call.pc = "fill" /\ UNCHANGED <<owner, errno, disk>> /\ call.hp \in Bufs
          /\ call'.pc = "idle"
      BY <1>0, <2>7 DEF FillRead, FillNew, storage, CallInv, ReturnHandle, Return, Idle
    <3>2. CASE c = call.hp /\ FillRead
      <4>1. /\ data'[c] = disk[call.f][call.r] /\ file[c] = call.f /\ recno[c] = call.r
        BY <1>0, <2>7, <3>2 DEF FillRead, ContentType, SInv, FillInv
      <4> QED BY <3>1, <4>1 DEF Clean, owner
    <3>3. CASE c = call.hp /\ FillNew
      <4>1. status'[c] = "Updated"
        BY <1>0, <3>1, <3>3 DEF FillNew, ContentType
      <4> QED BY <4>1 DEF Clean
    <3>4. CASE c # call.hp
      <4>1. status'[c] = status[c] /\ data'[c] = data[c]
        BY <1>0, <2>7, <3>1, <3>4 DEF FillRead, FillNew, ContentType
      <4> QED BY <1>0, <3>1, <3>4, <4>1, CleanKept DEF owner
    <3> QED BY <2>7, <3>2, <3>3, <3>4
  <2>8. CASE FindHit \/ MarkHdr
    <3>1. /\ UNCHANGED <<owner, disk, errno>> /\ call.pc # "fill"
          /\ call.hp \in Bufs
      BY <1>0, <2>8 DEF FindHit, MarkHdr, storage, CallInv
    <3>2. \/ UNCHANGED <<status, data>>
          \/ /\ status' = [status EXCEPT ![call.hp] = "Updated"]
             /\ data' = [data EXCEPT ![call.hp] = call.fill]
      BY <2>8 DEF FindHit, MarkHdr, content
    <3>3. \A b \in Bufs : status'[b] = "InUse" => status[b] = "InUse" /\ data'[b] = data[b]
      BY <1>0, <3>1, <3>2 DEF ContentType
    <3> QED BY <1>1, <3>1, <3>3
  <2>9. CASE \/ FindNext \/ FindMiss \/ TakeLru \/ NextMruSkip \/ NextMruFree
             \/ FlushEnd \/ PurgeEnd \/ Reattach \/ InsertFile
    <3>1. UNCHANGED <<owner, disk, status, data>> /\ call.pc # "fill"
      BY <2>9 DEF FindNext, FindMiss, TakeLru, NextMruSkip, NextMruFree, FlushEnd, PurgeEnd,
         Reattach, InsertFile, storage, content
    <3>2. \A f \in Files : errno[f] => errno'[f]
      BY <1>0, <2>9 DEF FindNext, FindMiss, TakeLru, NextMruSkip, NextMruFree, FlushEnd,
         PurgeEnd, Reattach, InsertFile, storage, StorageType
    <3> QED BY <1>1, <3>1, <3>2
  <2> QED BY <1>5, <2>1, <2>2, <2>3, <2>4, <2>5, <2>6, <2>7, <2>8, <2>9 DEF Step
<1>6. CASE CallerStep
  <2>1. ASSUME NEW b \in Bufs, FlushRecord(b) PROVE Clean(c)'
    BY <1>3, <2>1 DEF FlushRecord, Usable
  <2>2. ASSUME NEW f \in Files, NEW r \in Recs, NEW fill \in Data \cup {Absent},
               GetRecord(f, r, fill)
        PROVE  Clean(c)'
    BY <1>0, <1>1, <2>2 DEF GetRecord, content, StorageType
  <2>3. CASE /\ UNCHANGED <<owner, disk, errno, status, data>> /\ call.pc # "fill"
    BY <1>1, <2>3
  <2> QED BY <1>6, <2>1, <2>2, <2>3 DEF CallerStep, Flush, Purge, DetachCache, AttachCache,
      Start, Modify, UnLockHdr, LockHdr, Drop, FlushAll, PurgeAll, content, storage
<1>7. CASE UNCHANGED vars
  <2>1. UNCHANGED <<file, recno, status, data, errno, disk, call>>
    BY <1>7 DEF vars, owner, content, storage
  <2> QED BY <1>0, <2>1, CleanKept
<1> QED BY <1>5, <1>6, <1>7 DEF Next

\* A step keeps FillInv.
LEMMA FillNext ==
  ASSUME TypeInv, FillInv, [Next]_vars
  PROVE  FillInv'
<1>0. TypeOK /\ CallInv /\ call \in CallType /\ OwnerType
  BY DEF TypeInv, TypeOK
<1>1. CASE call'.pc \notin {"fill", "mark", "drop"}
  BY <1>1 DEF FillInv
<1>2. CASE UNCHANGED <<owner, call>>
  BY <1>2 DEF FillInv, owner
<1>3. CASE Step
  <2>1. CASE ReuseNeighbour
    <3>1. /\ call.hp \in Bufs /\ call.f \in Files
          /\ call'.hp = call.hp /\ call'.f = call.f /\ call'.r = call.r /\ call'.pc = "fill"
      BY <1>0, <2>1 DEF ReuseNeighbour, CallInv, GetPcs, CallType
    <3>2. file'[call.hp] = call.f /\ recno'[call.hp] = call.r
      BY <1>0, <2>1, <3>1 DEF ReuseNeighbour, OwnerType
    <3> QED BY <3>1, <3>2 DEF FillInv
  <2>2. CASE Link
    <3>1. /\ call.i \in Bufs /\ call.f \in Files
          /\ call'.hp = call.i /\ call'.f = call.f /\ call'.r = call.r /\ call'.pc = "fill"
      BY <1>0, <2>2 DEF Link, CallInv, GetPcs, CallType
    <3>2. file'[call.i] = call.f /\ recno'[call.i] = call.r
      BY <1>0, <2>2, <3>1 DEF Link, OwnerType
    <3> QED BY <3>1, <3>2 DEF FillInv
  <2>3. CASE FindNext \/ FindMiss \/ TakeLru
    <3>1. call'.pc \in {"find", "collide", "lru"}
      BY <1>0, <2>3 DEF FindNext, FindMiss, TakeLru, CallType
    <3> QED BY <1>1, <3>1
  <2>4. CASE NextMruSkip \/ NextMruFree \/ NextMruEvict
    <3>1. CASE call' = Idle
      BY <1>1, <3>1 DEF Idle
    <3>2. CASE call' # Idle
      <4>1. call'.pc \in {"lru", "link"}
        BY <1>0, <2>4, <3>2 DEF NextMruSkip, NextMruFree, NextMruEvict, ReturnNull, Return,
           CallType
      <4> QED BY <1>1, <4>1
    <3> QED BY <3>1, <3>2
  <2>5. CASE FlushStep \/ PurgeStep
    <3>1. PICK b \in Bufs : call' = [call EXCEPT !.i = b + 1]
      BY <2>5 DEF FlushStep, PurgeStep
    <3>2. call'.pc \in {"flush", "purge"}
      BY <1>0, <2>5, <3>1 DEF FlushStep, PurgeStep, CallType
    <3> QED BY <1>1, <3>2
  <2>6. CASE Reattach \/ (FlushEnd /\ call' # Idle)
    <3>1. call'.pc \in {"insert", "purge"}
      BY <1>0, <2>6 DEF Reattach, FlushEnd, Return, CallType
    <3> QED BY <1>1, <3>1
  <2>7. CASE call' = Idle
    BY <1>1, <2>7 DEF Idle
  <2> QED BY <1>3, <2>1, <2>2, <2>3, <2>4, <2>5, <2>6, <2>7 DEF Step, FindHit, FillFail,
      FillRead, FillNew, MarkHdr, PurgeHdr, PurgeEnd, InsertFile, ReturnHandle, ReturnNull, Return
<1>4. CASE CallerStep
  <2>1. ASSUME NEW b \in Bufs, NEW v \in Data, Modify(b, v) PROVE FillInv'
    BY <1>0, <2>1 DEF Modify, Usable, Idle, FillInv, OwnerType, owner
  <2>2. CASE Drop
    BY <1>0, <2>2 DEF Drop, Usable, Idle, FillInv, OwnerType, owner
  <2>3. ASSUME NEW op, NEW pc \in {"flush", "purge", "insert"}, NEW f, Start(op, pc, f)
        PROVE  FillInv'
    BY <1>1, <2>3 DEF Start, Idle
  <2>4. ASSUME NEW f \in Files, Flush(f) \/ Purge(f) \/ DetachCache(f) \/ AttachCache(f)
        PROVE  FillInv'
    BY <2>3, <2>4 DEF Flush, Purge, DetachCache, AttachCache
  <2>5. CASE FlushAll \/ PurgeAll
    BY <2>3, <2>5 DEF FlushAll, PurgeAll
  <2>6. ASSUME NEW f \in Files, NEW r \in Recs, NEW fill \in Data \cup {Absent},
               GetRecord(f, r, fill)
        PROVE  FillInv'
    <3>1. CASE call' = Idle
      BY <1>1, <3>1 DEF Idle
    <3>2. CASE call' # Idle
      <4>1. call'.pc \in {"lru", "find"}
        BY <2>6, <3>2 DEF GetRecord, ReturnNull, Return, Idle
      <4> QED BY <1>1, <4>1
    <3> QED BY <3>1, <3>2
  <2> QED BY <1>2, <1>4, <2>1, <2>2, <2>4, <2>5, <2>6 DEF CallerStep, FlushRecord, UnLockHdr,
      LockHdr
<1> QED BY <1>2, <1>3, <1>4 DEF Next, vars

\* A step keeps FlushInv.
LEMMA FlushNext ==
  ASSUME SInv, [Next]_vars
  PROVE  FlushInv'
<1>0. /\ TypeOK /\ CallInv /\ call \in CallType /\ OwnerType /\ ContentType /\ FlushInv
      /\ OpInv
  BY DEF SInv, IInv, TypeInv, TypeOK
<1>1. CASE call'.pc \notin {"flush", "purge"}
  BY <1>1 DEF FlushInv
<1>2. CASE UNCHANGED <<call, owner, status>>
  BY <1>0, <1>2 DEF FlushInv, Concerns, owner
<1>3. CASE Step
  <2>1. CASE FlushStep
    <3>1. PICK b \in Bufs : /\ NextConcerned(b) /\ FlushHdr(b)
                            /\ call' = [call EXCEPT !.i = b + 1]
      BY <2>1 DEF FlushStep
    <3>2. /\ call.pc = "flush" /\ call'.pc = "flush" /\ call'.i = b + 1 /\ call'.f = call.f
          /\ UNCHANGED file
      BY <1>0, <2>1, <3>1 DEF FlushStep, owner, CallType
    <3>3. ASSUME NEW c \in Bufs, c < b + 1, Concerns(c)
          PROVE  status'[c] # "Updated"
      <4>1. CASE c = b
        BY <1>0, <3>1, <4>1 DEF FlushHdr, ContentType
      <4>2. CASE c # b
        <5>1. c < b /\ call.i \in Int
          BY <1>0, <3>3, <4>2, BufsFacts DEF CallType
        <5>2. c < call.i
          BY <3>1, <3>3, <5>1, BufsFacts DEF NextConcerned
        <5> QED BY <1>0, <3>1, <3>2, <3>3, <4>2, <5>2 DEF FlushInv, FlushHdr, ContentType
      <4> QED BY <4>1, <4>2
    <3>4. \A c \in Bufs : Concerns(c)' <=> Concerns(c)
      BY <3>2 DEF Concerns
    <3> QED BY <3>2, <3>3, <3>4 DEF FlushInv
  <2>2. CASE FlushEnd
    <3>1. CASE call.op \in {"detach", "attach"}
      <4>1. /\ call.pc = "flush" /\ LoopEnds /\ call'.pc = "purge" /\ call'.f = call.f
            /\ UNCHANGED <<file, status>>
        BY <1>0, <2>2, <3>1 DEF FlushEnd, owner, content, CallType
      <4>2. ASSUME NEW b \in Bufs, Concerns(b) PROVE status[b] # "Updated"
        <5>1. call.i \in Int /\ b \in Int
          BY <1>0, BufsFacts DEF CallType
        <5>2. b < call.i
          BY <4>1, <4>2, <5>1 DEF LoopEnds
        <5> QED BY <1>0, <4>1, <4>2, <5>2 DEF FlushInv
      <4>3. \A c \in Bufs : Concerns(c)' <=> Concerns(c)
        BY <4>1 DEF Concerns
      <4> QED BY <4>1, <4>2, <4>3 DEF FlushInv
    <3>2. CASE call' = Idle
      BY <1>1, <3>2 DEF Idle
    <3> QED BY <2>2, <3>1, <3>2 DEF FlushEnd, Return
  <2>3. CASE PurgeStep
    <3>1. PICK b \in Bufs : /\ Unlink(b) /\ call' = [call EXCEPT !.i = b + 1]
      BY <2>3 DEF PurgeStep
    <3>2. /\ call.pc = "purge" /\ call'.pc = "purge" /\ call'.op = call.op /\ call'.f = call.f
      BY <1>0, <2>3, <3>1 DEF PurgeStep, CallType
    <3>3. ASSUME NEW c \in Bufs, Concerns(c)'
          PROVE  Concerns(c) /\ (status'[c] = "Updated" => status[c] = "Updated")
      BY <1>0, <3>1, <3>2, <3>3 DEF Unlink, OwnerType, ContentType, Concerns
    <3> QED BY <1>0, <3>2, <3>3 DEF FlushInv
  <2>4. CASE ReuseNeighbour \/ Link
    <3>1. call'.pc = "fill"
      BY <1>0, <2>4 DEF ReuseNeighbour, Link, CallType
    <3> QED BY <1>1, <3>1
  <2>5. CASE FindNext \/ FindMiss \/ TakeLru
    <3>1. call'.pc \in {"find", "collide", "lru"}
      BY <1>0, <2>5 DEF FindNext, FindMiss, TakeLru, CallType
    <3> QED BY <1>1, <3>1
  <2>6. CASE NextMruSkip \/ NextMruFree \/ NextMruEvict
    <3>1. CASE call' = Idle
      BY <1>1, <3>1 DEF Idle
    <3>2. CASE call' # Idle
      <4>1. call'.pc \in {"lru", "link"}
        BY <1>0, <2>6, <3>2 DEF NextMruSkip, NextMruFree, NextMruEvict, ReturnNull, Return,
           CallType
      <4> QED BY <1>1, <4>1
    <3> QED BY <3>1, <3>2
  <2>7. CASE Reattach
    <3>1. call'.pc = "insert"
      BY <1>0, <2>7 DEF Reattach, CallType
    <3> QED BY <1>1, <3>1
  <2>8. CASE call' = Idle
    BY <1>1, <2>8 DEF Idle
  <2> QED BY <1>3, <2>1, <2>2, <2>3, <2>4, <2>5, <2>6, <2>7, <2>8 DEF Step, FindHit, FillFail,
      FillRead, FillNew, MarkHdr, PurgeHdr, PurgeEnd, InsertFile, ReturnHandle, ReturnNull, Return
<1>4. CASE CallerStep
  <2>1. ASSUME NEW b \in Bufs, FlushRecord(b) PROVE FlushInv'
    BY <1>0, <1>1, <2>1 DEF FlushRecord
  <2>2. ASSUME NEW op, NEW pc \in {"flush", "purge", "insert"}, NEW f, Start(op, pc, f),
               pc = "purge" => op \notin {"detach", "attach"}
        PROVE  FlushInv'
    <3>1. call'.pc = pc /\ call'.op = op /\ call'.i = 0
      BY <2>2 DEF Start, Idle
    <3>2. \A b \in Bufs : ~(b < 0)
      BY BufcntAssumption DEF Bufs
    <3> QED BY <2>2, <3>1, <3>2 DEF FlushInv
  <2>3. ASSUME NEW f \in Files, Flush(f) \/ Purge(f) \/ DetachCache(f) \/ AttachCache(f)
        PROVE  FlushInv'
    BY <2>2, <2>3 DEF Flush, Purge, DetachCache, AttachCache
  <2>4. CASE FlushAll \/ PurgeAll
    BY <2>2, <2>4 DEF FlushAll, PurgeAll
  <2>5. ASSUME NEW f \in Files, NEW r \in Recs, NEW fill \in Data \cup {Absent},
               GetRecord(f, r, fill)
        PROVE  FlushInv'
    <3>1. CASE call' = Idle
      BY <1>1, <3>1 DEF Idle
    <3>2. CASE call' # Idle
      <4>1. call'.pc \in {"lru", "find"}
        BY <2>5, <3>2 DEF GetRecord, ReturnNull, Return, Idle
      <4> QED BY <1>1, <4>1
    <3> QED BY <3>1, <3>2
  <2>6. CASE Drop \/ \E b \in Bufs : \E v \in Data : Modify(b, v)
    BY <1>1, <2>6 DEF Drop, Modify, Idle
  <2> QED BY <1>2, <1>4, <2>1, <2>3, <2>4, <2>5, <2>6 DEF CallerStep, UnLockHdr, LockHdr, content
<1>5. CASE UNCHANGED vars
  BY <1>2, <1>5 DEF vars, content
<1> QED BY <1>3, <1>4, <1>5 DEF Next

\* SInv holds initially.
LEMMA InitStore == Init => SInv
<1> SUFFICES ASSUME Init PROVE SInv
  OBVIOUS
<1>1. OpInv /\ FillInv /\ FlushInv
  BY DEF Init, Idle, OpInv, FillInv, FlushInv
<1>2. RecInv /\ CleanOnDisk
  BY DEF Init, RecInv, CleanOnDisk
<1> QED BY <1>1, <1>2, InitInv DEF SInv

\* A step keeps SInv, without locks and without an XfrFcn.
LEMMA NextStore ==
  ASSUME UsesLocks = FALSE, CustomXfr = {}, SInv, [Next]_vars
  PROVE  SInv'
<1>1. IInv'
  BY NextInv DEF SInv
<1>2. TypeInv' /\ TypeInv
  BY <1>1 DEF IInv, SInv
<1> QED BY <1>1, <1>2, OpNext, RecNext, FillNext, CleanNext, FlushNext DEF SInv

\* As long as no buffer is locked, and no file has an XfrFcn: a buffer that is
\* not marked Updated agrees with the disk while the file's error condition is
\* clear, at every step of every call; discarding it loses nothing.
THEOREM CleanBuffersOnDisk ==
  UsesLocks = FALSE /\ CustomXfr = {} /\ Spec => []CleanOnDisk
<1> SUFFICES ASSUME UsesLocks = FALSE, CustomXfr = {} PROVE Spec => []CleanOnDisk
  OBVIOUS
<1>1. SInv /\ [Next]_vars => SInv'
  BY NextStore
<1>2. SInv => CleanOnDisk
  BY DEF SInv
<1> QED BY <1>1, <1>2, InitStore, PTL DEF Spec
=============================================================================
