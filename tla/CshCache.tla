------------------------------ MODULE CshCache ------------------------------
(***************************************************************************)
(* The write-back buffer cache shared by the DBF, TRX and NTI file         *)
(* libraries (src/trx_csh/cshalloc.c).                                     *)
(*                                                                         *)
(* Bufcnt buffer headers are linked in one ring in order of use (PrevMru,  *)
(* NextMru; Mru->NextMru is the least recently used) and, when they own a  *)
(* record, in the doubly linked chain of a hash table entry, sorted by     *)
(* file and record number.  A call of the library runs to completion       *)
(* before the caller goes on; each iteration of its loops is a step here,  *)
(* and call.pc is the place in the code the running call has reached.      *)
(***************************************************************************)
EXTENDS Integers, Sequences

CONSTANTS
  Bufcnt,     \* number of buffers, and of hash table entries
  Files,      \* the CSH_FILEs, as numbers: the code orders them by address
  Recs,       \* record numbers
  Data,       \* contents of a record
  Absent,     \* what the disk holds past the end of the file
  CustomXfr,  \* the files whose I/O goes through an XfrFcn (the NTI files)
  KeepTwo,    \* callers go on using a handle over one further GetRecord
  UsesLocks,  \* callers lock a buffer while they fill it (the NTI library)
  LockSpan    \* how many GetRecords are made while a buffer is locked

Bufs == 0..(Bufcnt - 1)
Nil == -1

ASSUME BufcntAssumption == Bufcnt \in Nat /\ Bufcnt >= 2  \* CSH_MIN_BUFCNT
ASSUME FilesAssumption == Files \subseteq Nat \ {0}
ASSUME RecsAssumption == Recs \subseteq Nat
ASSUME DataAssumption == Absent \notin Data
ASSUME CustomAssumption == CustomXfr \subseteq Files
ASSUME CallerAssumption == KeepTwo \in BOOLEAN /\ UsesLocks \in BOOLEAN /\ LockSpan \in Nat

NoFile == 0

VARIABLES
  mru, prevMru, nextMru,                        \* the ring of use
  prevHash, nextHash, hashIndex, hashTable,     \* the hash chains
  file, recno, status, locks, data,             \* what each buffer holds
  attached,   \* CSH_CACHE.FstFile and its NextFile links, as a sequence
  hashBase,   \* CSH_FILE.HashBase
  errno,      \* CSH_FILE.Errno is nonzero
  disk,       \* the files' records on disk
  call,       \* the library call being executed
  last, prior,   \* the handles the caller may still use
  span           \* GetRecords made while a buffer has been locked

ring == <<mru, prevMru, nextMru>>
hash == <<prevHash, nextHash, hashIndex, hashTable>>
owner == <<file, recno>>
content == <<status, data>>
files == <<attached, hashBase>>
storage == <<errno, disk>>
caller == <<last, prior, span>>
vars == <<ring, hash, owner, content, locks, files, storage, call, caller>>

\* f, r: the record asked for; fill: the contents the caller stores in a
\* buffer it asks for with CSH_New, or writes through a handle; hp, nexthp:
\* the variables of those names; i: the index of the loops over all headers.
Idle == [pc |-> "idle", op |-> "none", f |-> NoFile, r |-> 0, fill |-> Absent,
         hp |-> Nil, nexthp |-> Nil, i |-> 0]
NoHandle == [b |-> Nil, f |-> NoFile, r |-> 0]

Slot(f, r) == (hashBase[f] + r) % Bufcnt
Less(f, r, g, s) == f < g \/ (f = g /\ r < s)
IsAttached(f) == \E i \in DOMAIN attached : attached[i] = f

-----------------------------------------------------------------------------
(* csh_Alloc: all buffers free, the last header is the Mru.                *)

Init ==
  /\ mru = Bufcnt - 1
  /\ prevMru = [b \in Bufs |-> IF b = 0 THEN Bufcnt - 1 ELSE b - 1]
  /\ nextMru = [b \in Bufs |-> IF b = Bufcnt - 1 THEN 0 ELSE b + 1]
  /\ prevHash = [b \in Bufs |-> Nil]
  /\ nextHash = [b \in Bufs |-> Nil]
  /\ hashIndex = [b \in Bufs |-> 0]
  /\ hashTable = [b \in Bufs |-> Nil]
  /\ file = [b \in Bufs |-> NoFile]
  /\ recno = [b \in Bufs |-> 0]
  /\ status = [b \in Bufs |-> "Free"]
  /\ locks = [b \in Bufs |-> 0]
  /\ data = [b \in Bufs |-> Absent]
  /\ attached = <<>>
  /\ hashBase = [f \in Files |-> 0]
  /\ errno = [f \in Files |-> FALSE]
  \* Each file holds some records, the first ones.
  /\ disk \in [Files -> [Recs -> Data \cup {Absent}]]
  /\ \A f \in Files, r \in Recs : disk[f][r] # Absent =>
        \A s \in Recs : s < r => disk[f][s] # Absent
  /\ call = Idle
  /\ last = NoHandle /\ prior = NoHandle /\ span = 0

-----------------------------------------------------------------------------
(* Helpers of the library.                                                 *)

\* Mutant of WriteRecord: a failed write sets no error condition.
WriteRecord_NoErrno(b) ==
  \E ok \in BOOLEAN :
    /\ disk' = IF ok THEN [disk EXCEPT ![file[b]][recno[b]] = data[b]] ELSE disk
    /\ UNCHANGED errno

\* _csh_XfrRecord(hp, 1).  An XfrFcn's result replaces Errno; the standard
\* transfer only ever sets it.
WriteRecord(b) ==
  \E ok \in BOOLEAN :
    /\ disk' = IF ok THEN [disk EXCEPT ![file[b]][recno[b]] = data[b]] ELSE disk
    /\ errno' = [errno EXCEPT ![file[b]] = IF file[b] \in CustomXfr THEN ~ok ELSE @ \/ ~ok]

WriteIfUpdated(b) ==
  IF status[b] = "Updated" THEN WriteRecord(b) ELSE UNCHANGED storage

\* _csh_FlushHdr: the status is cleaned before the write is tried.
FlushHdr(b) ==
  /\ WriteIfUpdated(b)
  /\ status' = [status EXCEPT ![b] = IF @ = "Updated" THEN "InUse" ELSE @]

\* Mutant of Unlink: the new head of the chain does not learn its table entry.
Unlink_NoIndex(b) ==
  /\ IF file[b] = NoFile THEN UNCHANGED hash
     ELSE LET n == nextHash[b]  p == prevHash[b] IN
       /\ prevHash' = IF n = Nil THEN prevHash ELSE [prevHash EXCEPT ![n] = p]
       /\ nextHash' = IF p = Nil THEN nextHash ELSE [nextHash EXCEPT ![p] = n]
       /\ hashTable' = IF p = Nil THEN [hashTable EXCEPT ![hashIndex[b]] = n] ELSE hashTable
       /\ UNCHANGED hashIndex
  /\ file' = [file EXCEPT ![b] = NoFile]
  /\ status' = [status EXCEPT ![b] = "Free"]
  /\ locks' = [locks EXCEPT ![b] = 0]
  /\ UNCHANGED <<recno, data>>

\* _csh_PurgeHdr, but for csh->Mru: the links of b itself are left as they are.
Unlink(b) ==
  /\ IF file[b] = NoFile THEN UNCHANGED hash
     ELSE LET n == nextHash[b]  p == prevHash[b] IN
       /\ prevHash' = IF n = Nil THEN prevHash ELSE [prevHash EXCEPT ![n] = p]
       /\ hashIndex' = IF n = Nil THEN hashIndex ELSE [hashIndex EXCEPT ![n] = hashIndex[b]]
       /\ nextHash' = IF p = Nil THEN nextHash ELSE [nextHash EXCEPT ![p] = n]
       /\ hashTable' = IF p = Nil THEN [hashTable EXCEPT ![hashIndex[b]] = n] ELSE hashTable
  /\ file' = [file EXCEPT ![b] = NoFile]
  /\ status' = [status EXCEPT ![b] = "Free"]
  /\ locks' = [locks EXCEPT ![b] = 0]
  /\ UNCHANGED <<recno, data>>

\* Mutant of StepBackMru: the wrong pair of links is followed.
StepBackMru_Hash(b) == mru' = IF mru = b THEN prevHash[b] ELSE mru

\* A purged buffer becomes the LRU only if it was the MRU.
StepBackMru(b) == mru' = IF mru = b THEN prevMru[b] ELSE mru

\* Mutants of MakeMru: a hit does not count as a use; the Mru is relinked like
\* any other buffer.
MakeMru_NoUse(b) == UNCHANGED ring
MakeMru_Relink(b) ==
  /\ mru' = b
  /\ IF nextMru[mru] = b THEN UNCHANGED <<prevMru, nextMru>>
     ELSE LET p == prevMru[b]  n == nextMru[b]
              next == [nextMru EXCEPT ![p] = n]
              prev == [prevMru EXCEPT ![n] = p]
              lru == next[mru]
          IN /\ nextMru' = [next EXCEPT ![b] = lru, ![mru] = b]
             /\ prevMru' = [prev EXCEPT ![b] = mru, ![lru] = b]

\* _csh_MakeLru(hp) and csh->Mru=hp.
MakeMru(b) ==
  /\ mru' = b
  /\ IF b = mru \/ nextMru[mru] = b THEN UNCHANGED <<prevMru, nextMru>>
     ELSE LET p == prevMru[b]  n == nextMru[b]
              next == [nextMru EXCEPT ![p] = n]
              prev == [prevMru EXCEPT ![n] = p]
              lru == next[mru]
          IN /\ nextMru' = [next EXCEPT ![b] = lru, ![mru] = b]
             /\ prevMru' = [prev EXCEPT ![b] = mru, ![lru] = b]

\* The call returns; h is the handle it returns, if any.  A caller that gets
\* no handle gives up its operation, and the handles it held for it.
Return == call' = Idle
ReturnHandle(b) ==
  /\ Return
  /\ last' = [b |-> b, f |-> call.f, r |-> call.r]
  /\ prior' = IF KeepTwo THEN last ELSE NoHandle
  /\ UNCHANGED span
ReturnNull ==
  /\ Return
  /\ last' = NoHandle /\ prior' = NoHandle
  /\ UNCHANGED span

-----------------------------------------------------------------------------
(* What a caller reads: the buffered contents of a record, else the disk's.*)
(* A buffer that is being filled does not hold its record yet.             *)

Holds(b, f, r) ==
  file[b] = f /\ recno[b] = r /\ ~(call.pc = "fill" /\ call.hp = b)
Buffered(f, r) == \E b \in Bufs : Holds(b, f, r)
StoreView ==
  [f \in Files |-> [r \in Recs |->
     IF Buffered(f, r) THEN data[CHOOSE b \in Bufs : Holds(b, f, r)] ELSE disk[f][r]]]

\* New records are appended one after the other.  CSH_New is also used on a
\* record that exists: a prewritten node of a TRX file.
NextNew(f, r) == \A s \in Recs : s < r => StoreView[f][s] # Absent

LockedBufs == {b \in Bufs : locks[b] > 0}
\* The buffers whose contents the caller may use: by handle, or locked.
Usable == {b \in Bufs : file[b] # NoFile /\ (b \in {last.b, prior.b} \/ locks[b] > 0)}

-----------------------------------------------------------------------------
(* _csf_GetRecord(f, r, fill = Absent ? 0 : CSH_New|CSH_Updated)           *)

GetRecord(f, r, fill) ==
  /\ call.pc = "idle"
  /\ fill # Absent => NextNew(f, r)
  /\ LockedBufs # {} => span < LockSpan
  /\ IF errno[f] \/ ~IsAttached(f)
     THEN /\ errno' = [errno EXCEPT ![f] = TRUE]
          /\ ReturnNull
     ELSE /\ LET head == hashTable[Slot(f, r)] IN
             call' = [Idle EXCEPT !.pc = IF head = Nil THEN "lru" ELSE "find",
                                  !.op = "get", !.f = f, !.r = r, !.fill = fill,
                                  !.hp = head, !.i = mru]
          /\ span' = IF LockedBufs = {} THEN 0 ELSE span + 1
          /\ UNCHANGED <<errno, last, prior>>
  /\ UNCHANGED <<ring, hash, owner, content, locks, files, disk>>

\* Mutant of FindNext: the loop's continue skips the advance.
FindNext_NoAdvance ==
  /\ call.pc = "find"
  /\ Less(file[call.hp], recno[call.hp], call.f, call.r)
  /\ nextHash[call.hp] # Nil
  /\ UNCHANGED vars

\* One iteration of the search of the hash chain.
FindNext ==
  /\ call.pc = "find"
  /\ Less(file[call.hp], recno[call.hp], call.f, call.r)
  /\ nextHash[call.hp] # Nil
  /\ call' = [call EXCEPT !.hp = nextHash[call.hp]]
  /\ UNCHANGED <<ring, hash, owner, content, locks, files, storage, caller>>

FindHit ==
  /\ call.pc = "find"
  /\ file[call.hp] = call.f /\ recno[call.hp] = call.r
  /\ MakeMru(call.hp)
  /\ IF call.fill = Absent THEN UNCHANGED content
     ELSE /\ data' = [data EXCEPT ![call.hp] = call.fill]
          /\ status' = [status EXCEPT ![call.hp] = "Updated"]
  /\ ReturnHandle(call.hp)
  /\ UNCHANGED <<hash, owner, locks, files, storage>>

\* The record is not cached: hp is the header to insert before (nexthp), or
\* the last of the chain.
FindMiss ==
  /\ call.pc = "find"
  /\ \/ /\ Less(file[call.hp], recno[call.hp], call.f, call.r)
        /\ nextHash[call.hp] = Nil
        /\ call' = [call EXCEPT !.pc = "collide"]
     \/ /\ Less(call.f, call.r, file[call.hp], recno[call.hp])
        /\ call' = [call EXCEPT !.pc = "collide", !.nexthp = call.hp]
  /\ UNCHANGED <<ring, hash, owner, content, locks, files, storage, caller>>

\* If the neighbour is the LRU buffer it is reused where it stands.
ReuseNeighbour ==
  /\ call.pc = "collide"
  /\ call.hp = nextMru[mru] /\ locks[call.hp] = 0
  /\ FlushHdr(call.hp)
  /\ mru' = call.hp
  /\ file' = [file EXCEPT ![call.hp] = call.f]
  /\ recno' = [recno EXCEPT ![call.hp] = call.r]
  /\ call' = [call EXCEPT !.pc = "fill"]
  /\ UNCHANGED <<prevMru, nextMru, hash, data, locks, files, caller>>

TakeLru ==
  /\ call.pc = "collide"
  /\ ~(call.hp = nextMru[mru] /\ locks[call.hp] = 0)
  /\ call' = [call EXCEPT !.pc = "lru", !.i = mru]
  /\ UNCHANGED <<ring, hash, owner, content, locks, files, storage, caller>>

\* _csh_GetNextMru, one iteration; call.i is its hp.
NextMruSkip ==
  LET b == nextMru[call.i] IN
  /\ call.pc = "lru"
  /\ status[b] # "Free" /\ locks[b] > 0
  /\ IF b = mru
     THEN /\ errno' = [errno EXCEPT ![call.f] = TRUE]
          /\ ReturnNull
     ELSE /\ call' = [call EXCEPT !.i = b]
          /\ UNCHANGED <<errno, caller>>
  /\ UNCHANGED <<ring, hash, owner, content, locks, files, disk>>

NextMruFree ==
  LET b == nextMru[call.i] IN
  /\ call.pc = "lru"
  /\ status[b] = "Free"
  /\ mru' = b
  /\ call' = [call EXCEPT !.pc = "link", !.i = b]
  /\ UNCHANGED <<prevMru, nextMru, hash, owner, content, locks, files, storage, caller>>

\* Mutants of NextMruEvict: locks are not looked at; a buffer is taken without
\* writing it back.
NextMruEvict_Locked ==
  LET b == nextMru[call.i] IN
  /\ call.pc = "lru"
  /\ status[b] # "Free"
  /\ WriteIfUpdated(b)
  /\ Unlink(b)
  /\ mru' = b
  /\ call' = [call EXCEPT !.pc = "link", !.i = b]
  /\ UNCHANGED <<prevMru, nextMru, files, caller>>
NextMruEvict_NoWrite ==
  LET b == nextMru[call.i] IN
  /\ call.pc = "lru"
  /\ status[b] # "Free" /\ locks[b] = 0
  /\ Unlink(b)
  /\ mru' = b
  /\ call' = [call EXCEPT !.pc = "link", !.i = b]
  /\ UNCHANGED <<prevMru, nextMru, storage, files, caller>>

NextMruEvict ==
  LET b == nextMru[call.i] IN
  /\ call.pc = "lru"
  /\ status[b] # "Free" /\ locks[b] = 0
  /\ WriteIfUpdated(b)
  /\ Unlink(b)
  /\ mru' = b
  /\ call' = [call EXCEPT !.pc = "link", !.i = b]
  /\ UNCHANGED <<prevMru, nextMru, files, caller>>

\* The new Mru is linked into the chain, next to the place the search found.
LinkEmpty(m, slot) ==
  /\ call.hp = Nil
  /\ hashTable' = [hashTable EXCEPT ![slot] = m]
  /\ hashIndex' = [hashIndex EXCEPT ![m] = slot]
  /\ nextHash' = [nextHash EXCEPT ![m] = Nil]
  /\ prevHash' = [prevHash EXCEPT ![m] = Nil]

\* Mutant of LinkBefore: the rest of the chain is cut off.
LinkBefore_Cut(m, slot) ==
  LET hp == call.hp  p == prevHash[hp] IN
  /\ hp # Nil /\ call.nexthp # Nil
  /\ prevHash' = [prevHash EXCEPT ![m] = p, ![hp] = m]
  /\ IF p # Nil
     THEN /\ nextHash' = [nextHash EXCEPT ![p] = m, ![m] = Nil]
          /\ UNCHANGED <<hashTable, hashIndex>>
     ELSE /\ nextHash' = [nextHash EXCEPT ![m] = Nil]
          /\ hashTable' = [hashTable EXCEPT ![slot] = m]
          /\ hashIndex' = [hashIndex EXCEPT ![m] = slot]

LinkBefore(m, slot) ==
  LET hp == call.hp  p == prevHash[hp] IN
  /\ hp # Nil /\ call.nexthp # Nil
  /\ prevHash' = [prevHash EXCEPT ![m] = p, ![hp] = m]
  /\ IF p # Nil
     THEN /\ nextHash' = [nextHash EXCEPT ![p] = m, ![m] = hp]
          /\ UNCHANGED <<hashTable, hashIndex>>
     ELSE /\ nextHash' = [nextHash EXCEPT ![m] = hp]
          /\ hashTable' = [hashTable EXCEPT ![slot] = m]
          /\ hashIndex' = [hashIndex EXCEPT ![m] = slot]

LinkLast(m) ==
  LET hp == call.hp IN
  /\ hp # Nil /\ call.nexthp = Nil
  /\ nextHash' = [nextHash EXCEPT ![m] = Nil, ![hp] = m]
  /\ prevHash' = [prevHash EXCEPT ![m] = hp]
  /\ UNCHANGED <<hashTable, hashIndex>>

Link ==
  LET m == call.i  slot == Slot(call.f, call.r) IN
  /\ call.pc = "link"
  /\ LinkEmpty(m, slot) \/ LinkBefore(m, slot) \/ LinkLast(m)
  /\ file' = [file EXCEPT ![m] = call.f]
  /\ recno' = [recno EXCEPT ![m] = call.r]
  /\ call' = [call EXCEPT !.pc = "fill", !.hp = m]
  /\ UNCHANGED <<ring, content, locks, files, storage, caller>>

\* A failed read purges the buffer, and so does a failed write of this file's
\* own data in the steps above; no read is attempted then.
FillFail ==
  /\ call.pc = "fill"
  /\ errno[call.f] \/ call.fill = Absent
  /\ errno' = [errno EXCEPT ![call.f] = TRUE]
  /\ Unlink(call.hp)
  /\ StepBackMru(call.hp)
  /\ ReturnNull
  /\ UNCHANGED <<prevMru, nextMru, files, disk>>

FillRead ==
  /\ call.pc = "fill"
  /\ ~errno[call.f] /\ call.fill = Absent
  /\ disk[call.f][call.r] # Absent
  /\ data' = [data EXCEPT ![call.hp] = disk[call.f][call.r]]
  /\ status' = [status EXCEPT ![call.hp] = "InUse"]
  /\ ReturnHandle(call.hp)
  /\ UNCHANGED <<ring, hash, owner, locks, files, storage>>

\* The caller stores the new record's contents before anything else happens.
FillNew ==
  /\ call.pc = "fill"
  /\ ~errno[call.f] /\ call.fill # Absent
  /\ data' = [data EXCEPT ![call.hp] = call.fill]
  /\ status' = [status EXCEPT ![call.hp] = "Updated"]
  /\ ReturnHandle(call.hp)
  /\ UNCHANGED <<ring, hash, owner, locks, files, storage>>

-----------------------------------------------------------------------------
(* Operations on one buffer.                                               *)

\* The caller changes the contents of a buffer, then calls _csh_MarkHdr.
Modify(b, v) ==
  /\ call.pc = "idle"
  /\ b \in Usable
  /\ call' = [Idle EXCEPT !.pc = "mark", !.op = "mark", !.f = file[b], !.r = recno[b],
                          !.fill = v, !.hp = b]
  /\ UNCHANGED <<ring, hash, owner, content, locks, files, storage, caller>>

\* Mutant of MarkHdr: the buffer's contents change, its status does not.
MarkHdr_Unmarked ==
  /\ call.pc = "mark"
  /\ data' = [data EXCEPT ![call.hp] = call.fill]
  /\ Return
  /\ UNCHANGED <<ring, hash, owner, status, locks, files, storage, caller>>

MarkHdr ==
  /\ call.pc = "mark"
  /\ data' = [data EXCEPT ![call.hp] = call.fill]
  /\ status' = [status EXCEPT ![call.hp] = "Updated"]
  /\ Return
  /\ UNCHANGED <<ring, hash, owner, locks, files, storage, caller>>

\* _csh_FlushHdr after DBF_AutoFlush updates; nti_FlushRecord, which first
\* removes the lock nti_AppendRecord placed.
FlushRecord(b) ==
  /\ call.pc = "idle"
  /\ b \in Usable
  /\ FlushHdr(b)
  /\ locks' = [locks EXCEPT ![b] = IF @ > 0 THEN @ - 1 ELSE 0]
  /\ UNCHANGED <<ring, hash, owner, data, files, call, caller>>

\* The NTI library locks one buffer at a time.
LockHdr ==
  /\ call.pc = "idle"
  /\ UsesLocks /\ LockedBufs = {}
  /\ last.b \in Usable
  /\ locks' = [locks EXCEPT ![last.b] = @ + 1]
  /\ span' = 0
  /\ UNCHANGED <<ring, hash, owner, content, files, storage, call, last, prior>>

UnLockHdr(b) ==
  /\ call.pc = "idle"
  /\ locks[b] > 0
  /\ locks' = [locks EXCEPT ![b] = @ - 1]
  /\ UNCHANGED <<ring, hash, owner, content, files, storage, call, caller>>

\* _csh_PurgeHdr by a caller that throws the buffer's contents away.
Drop ==
  /\ call.pc = "idle"
  /\ last.b \in Usable
  /\ call' = [Idle EXCEPT !.pc = "drop", !.op = "drop", !.f = file[last.b], !.hp = last.b]
  /\ UNCHANGED <<ring, hash, owner, content, locks, files, storage, caller>>

PurgeHdr ==
  /\ call.pc = "drop"
  /\ Unlink(call.hp)
  /\ StepBackMru(call.hp)
  /\ ReturnNull
  /\ UNCHANGED <<prevMru, nextMru, files, storage>>

-----------------------------------------------------------------------------
(* Loops over all headers: _csf_Flush, csh_Flush, _csf_Purge, csh_Purge,   *)
(* and _csf_DetachCache, which runs the first and the third of them.       *)

Start(op, pc, f) ==
  /\ call.pc = "idle"
  /\ call' = [Idle EXCEPT !.pc = pc, !.op = op, !.f = f, !.i = 0]
  /\ UNCHANGED <<ring, hash, owner, content, locks, files, storage, caller>>

Flush(f) == IsAttached(f) /\ Start("csf_Flush", "flush", f)
FlushAll == Start("csh_Flush", "flush", NoFile)
Purge(f) == IsAttached(f) /\ Start("csf_Purge", "purge", f)
PurgeAll == Start("csh_Purge", "purge", NoFile)
DetachCache(f) == IsAttached(f) /\ Start("detach", "flush", f)
\* A file that has a cache already is detached first.
AttachCache(f) ==
  \/ IsAttached(f) /\ Start("attach", "flush", f)
  \/ ~IsAttached(f) /\ Start("attach", "insert", f)

\* The loop is about every owned buffer, or about those of one file; the
\* iterations that find no such buffer are not steps of their own.
Concerns(b) == file[b] # NoFile /\ (call.f = NoFile \/ file[b] = call.f)
NextConcerned(b) ==
  b >= call.i /\ Concerns(b) /\ \A c \in Bufs : c >= call.i /\ c < b => ~Concerns(c)
\* Mutant of LoopEnds: the loop stops after the first buffer it finds.
LoopEnds_First == call.i > 0 \/ \A b \in Bufs : ~Concerns(b)

LoopEnds == \A b \in Bufs : b >= call.i => ~Concerns(b)

FlushStep ==
  /\ call.pc = "flush"
  /\ \E b \in Bufs :
       /\ NextConcerned(b)
       /\ FlushHdr(b)
       /\ call' = [call EXCEPT !.i = b + 1]
  /\ UNCHANGED <<ring, hash, owner, data, locks, files, caller>>

FlushEnd ==
  /\ call.pc = "flush" /\ LoopEnds
  /\ IF call.op \in {"detach", "attach"}
     THEN call' = [call EXCEPT !.pc = "purge", !.i = 0]
     ELSE Return
  /\ UNCHANGED <<ring, hash, owner, content, locks, files, storage, caller>>

PurgeStep ==
  /\ call.pc = "purge"
  /\ \E b \in Bufs :
       /\ NextConcerned(b)
       /\ Unlink(b)
       /\ StepBackMru(b)
       /\ call' = [call EXCEPT !.i = b + 1]
  /\ UNCHANGED <<prevMru, nextMru, files, storage, caller>>

\* The file leaves the list of the cache's clients.
LeaveCache(f) ==
  \E i \in DOMAIN attached :
    /\ attached[i] = f
    /\ attached' = SubSeq(attached, 1, i - 1) \o SubSeq(attached, i + 1, Len(attached))

\* The caller drops the handles whose buffers are gone.
PurgeEnd ==
  /\ call.pc = "purge" /\ LoopEnds
  /\ ~(call.op = "attach" /\ ~errno[call.f])
  /\ ReturnNull
  /\ IF call.op \in {"detach", "attach"} THEN LeaveCache(call.f) ELSE UNCHANGED attached
  /\ UNCHANGED <<ring, hash, owner, content, locks, hashBase, storage>>

\* _csf_AttachCache goes on only if detaching left no error.
Reattach ==
  /\ call.pc = "purge" /\ LoopEnds
  /\ call.op = "attach" /\ ~errno[call.f]
  /\ LeaveCache(call.f)
  /\ call' = [call EXCEPT !.pc = "insert", !.i = 0]
  /\ last' = NoHandle /\ prior' = NoHandle
  /\ UNCHANGED <<ring, hash, owner, content, locks, hashBase, storage, span>>

\* The distance from the HashBase of the i-th file to that of the next one.
Width(i) ==
  (IF i < Len(attached) THEN hashBase[attached[i + 1]]
   ELSE hashBase[attached[1]] + Bufcnt) - hashBase[attached[i]]

\* _csf_InsertFile: after the last file followed by a widest interval, at
\* half the width the loop has computed last.
InsertFile ==
  /\ call.pc = "insert"
  /\ \/ /\ attached = <<>>
        /\ attached' = <<call.f>>
        /\ hashBase' = [hashBase EXCEPT ![call.f] = 0]
     \/ \E m \in DOMAIN attached :
        LET base == hashBase[attached[m]] + Width(Len(attached)) \div 2 IN
        /\ \A i \in DOMAIN attached :
              /\ Width(i) <= Width(m)
              /\ i > m => Width(i) < Width(m)
        /\ IF base >= Bufcnt
           THEN /\ attached' = <<call.f>> \o attached
                /\ hashBase' = [hashBase EXCEPT ![call.f] = base - Bufcnt]
           ELSE /\ attached' = SubSeq(attached, 1, m) \o <<call.f>>
                                 \o SubSeq(attached, m + 1, Len(attached))
                /\ hashBase' = [hashBase EXCEPT ![call.f] = base]
  /\ Return
  /\ UNCHANGED <<ring, hash, owner, content, locks, storage, caller>>

-----------------------------------------------------------------------------
\* The steps of a running call.
Step ==
  \/ FindNext \/ FindHit \/ FindMiss
  \/ ReuseNeighbour \/ TakeLru
  \/ NextMruSkip \/ NextMruFree \/ NextMruEvict
  \/ Link
  \/ FillFail \/ FillRead \/ FillNew
  \/ MarkHdr \/ PurgeHdr
  \/ FlushStep \/ FlushEnd
  \/ PurgeStep \/ PurgeEnd \/ Reattach
  \/ InsertFile

\* What a caller may ask of the idle library.
CallerStep ==
  \/ \E f \in Files :
       \/ \E r \in Recs, fill \in Data \cup {Absent} : GetRecord(f, r, fill)
       \/ Flush(f) \/ Purge(f) \/ DetachCache(f) \/ AttachCache(f)
  \/ \E b \in Bufs :
       \/ \E v \in Data : Modify(b, v)
       \/ FlushRecord(b) \/ UnLockHdr(b)
  \/ LockHdr \/ Drop \/ FlushAll \/ PurgeAll

Next == Step \/ CallerStep

Spec == Init /\ [][Next]_vars

\* One thread runs the library and nothing preempts it for ever.
FairSpec == Spec /\ WF_vars(Step)

(***************************************************************************)
(* Properties.                                                             *)
(***************************************************************************)

CallType ==
  [pc : {"idle", "find", "collide", "lru", "link", "fill", "mark", "drop",
         "flush", "purge", "insert"},
   op : {"none", "get", "mark", "drop", "csf_Flush", "csh_Flush", "csf_Purge",
         "csh_Purge", "detach", "attach"},
   f : Files \cup {NoFile}, r : Recs \cup {0}, fill : Data \cup {Absent},
   hp : Bufs \cup {Nil}, nexthp : Bufs \cup {Nil}, i : 0..Bufcnt]
HandleType == [b : Bufs \cup {Nil}, f : Files \cup {NoFile}, r : Recs \cup {0}]

\* The parts of TypeOK.
RingType == mru \in Bufs /\ prevMru \in [Bufs -> Bufs] /\ nextMru \in [Bufs -> Bufs]
HashType ==
  /\ prevHash \in [Bufs -> Bufs \cup {Nil}] /\ nextHash \in [Bufs -> Bufs \cup {Nil}]
  /\ hashIndex \in [Bufs -> Bufs] /\ hashTable \in [Bufs -> Bufs \cup {Nil}]
OwnerType == file \in [Bufs -> Files \cup {NoFile}] /\ recno \in [Bufs -> Recs \cup {0}]
ContentType ==
  /\ status \in [Bufs -> {"Free", "InUse", "Updated"}]
  /\ data \in [Bufs -> Data \cup {Absent}]
FilesType == attached \in Seq(Files) /\ hashBase \in [Files -> Int]
StorageType ==
  /\ errno \in [Files -> BOOLEAN]
  /\ disk \in [Files -> [Recs -> Data \cup {Absent}]]
CallerType == last \in HandleType /\ prior \in HandleType /\ span \in 0..LockSpan

\* The variables have their types: every link of the ring and of the chains
\* is a header of this cache (or null).
TypeOK ==
  /\ RingType /\ HashType /\ OwnerType /\ ContentType /\ FilesType /\ StorageType
  /\ locks \in [Bufs -> Nat] /\ call \in CallType /\ CallerType

KeyLess(b, c) == Less(file[b], recno[b], file[c], recno[c])
SlotOf(b) == Slot(file[b], recno[b])
SameSlot(b, c) == file[b] # NoFile /\ file[c] # NoFile /\ SlotOf(b) = SlotOf(c)

\* No record has two buffers: a second one would make a caller read, or write
\* back, an old version of it (the search of _csf_GetRecord must find every
\* buffered record).
OneBuffer ==
  \A b, c \in Bufs :
    file[b] # NoFile /\ file[b] = file[c] /\ recno[b] = recno[c] => b = c

\* The parts of ChainInv.  NextHash leads to the next larger record of the
\* slot, if there is one.
NextIsRight(b) ==
  IF nextHash[b] = Nil
  THEN \A c \in Bufs : SameSlot(b, c) => ~KeyLess(b, c)
  ELSE /\ SameSlot(b, nextHash[b]) /\ KeyLess(b, nextHash[b])
       /\ prevHash[nextHash[b]] = b
       /\ \A c \in Bufs : SameSlot(b, c) => ~(KeyLess(b, c) /\ KeyLess(c, nextHash[b]))

\* PrevHash leads back; the smallest record of a slot is its table entry.
PrevIsRight(b) ==
  IF prevHash[b] = Nil
  THEN /\ hashTable[SlotOf(b)] = b /\ hashIndex[b] = SlotOf(b)
       /\ \A c \in Bufs : SameSlot(b, c) => ~KeyLess(c, b)
  ELSE SameSlot(b, prevHash[b]) /\ nextHash[prevHash[b]] = b

HeadIsRight(s) ==
  IF hashTable[s] = Nil
  THEN \A b \in Bufs : file[b] # NoFile => SlotOf(b) # s
  ELSE /\ file[hashTable[s]] # NoFile
       /\ SlotOf(hashTable[s]) = s
       /\ prevHash[hashTable[s]] = Nil

\* The hash chains are exactly the records buffered in each slot, in order of
\* file and record number, and the table entry is the smallest one: the search
\* of _csf_GetRecord stops at the first larger record it meets.
ChainInv ==
  /\ \A b \in Bufs : file[b] # NoFile => NextIsRight(b) /\ PrevIsRight(b)
  /\ \A s \in Bufs : HeadIsRight(s)

\* The use ring stays one cycle through all buffers, the same both ways.
RingReach[n \in 0..Bufcnt] ==
  IF n = 0 THEN mru ELSE nextMru[RingReach[n - 1]]
RingInv ==
  /\ \A b \in Bufs : prevMru[nextMru[b]] = b /\ nextMru[prevMru[b]] = b
  /\ \A b \in Bufs : \E n \in 0..Bufcnt - 1 : RingReach[n] = b

\* While a file's error condition is clear, a buffer not marked Updated
\* agrees with the disk, so discarding it loses nothing.
CleanOnDisk ==
  \A b \in Bufs :
    /\ status[b] = "InUse" /\ file[b] # NoFile
    /\ ~errno[file[b]] /\ ~(call.pc = "fill" /\ call.hp = b)
    => data[b] = disk[file[b]][recno[b]]

\* The handle a GetRecord returned still denotes its record after the next
\* GetRecord: the B-tree library changes both (a node and the one it is split
\* into) after fetching them one after the other, with as few as two buffers.
HandlesValid ==
  call.pc = "idle" =>
    \A h \in {last, prior} : h.b # Nil => file[h.b] = h.f /\ recno[h.b] = h.r

\* No GetRecord takes a locked buffer away from its record, however many of
\* them are made meanwhile.
LockedStays ==
  [][\A b \in Bufs :
       locks[b] > 0 /\ call.op = "get"
       => file'[b] = file[b] /\ recno'[b] = recno[b]]_vars

\* If _csf_Flush returns 0, what callers read of the file is what is on disk.
FlushDurable ==
  [][call.op = "csf_Flush" /\ call.pc # "idle" /\ call' = Idle /\ ~errno'[call.f]
     => disk'[call.f] = StoreView'[call.f]]_vars

\* Every call returns: no chain or ring search goes round for ever, unless a
\* locked LRU buffer has broken a chain before (cshalloc.c:417; never without
\* locks, see ChainsCorrect), after which a search may find no end.
CallsReturn == []<>(call.pc = "idle" \/ ~ChainInv)

\* The cache implements the store of records.
Request ==
  [put |-> IF call.op = "mark" \/ (call.op = "get" /\ call.fill # Absent)
           THEN {<<call.f, call.r, call.fill>>} ELSE {},
   discard |-> IF call.op \in {"csf_Purge", "drop"} THEN {call.f}
               ELSE IF call.op = "csh_Purge" THEN Files ELSE {}]
Store ==
  INSTANCE RecordStore WITH
    Content <- Data \cup {Absent}, store <- StoreView, durable <- disk,
    err <- errno, request <- Request
StoreSpec == Store!Spec

=============================================================================
