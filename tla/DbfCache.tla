------------------------------ MODULE DbfCache ------------------------------
(***************************************************************************)
(* A DBF file opened for writing by one user of one process, with its      *)
(* records in blocks of the buffer cache (src/dbf_file).  The user edits a *)
(* copy of one record at a time; committing it changes the cached block;   *)
(* blocks and the file header reach the disk later, in an order that       *)
(* depends on the flush mode, and the process may crash between any two    *)
(* disk writes.  Lengths and offsets are counted in records: block b holds *)
(* the records b * PerBlk + 1 .. (b + 1) * PerBlk.                         *)
(*                                                                         *)
(* The cache is what CshCache promises, seen by one file: a block is       *)
(* cached or not, dirty or not, and may be evicted whenever a buffer is    *)
(* wanted for this or another file.                                        *)
(***************************************************************************)
EXTENDS Integers, Sequences

CONSTANTS
  PerBlk,     \* Cf.Recsiz / H.SizRec: records per block
  NumBlks,    \* bound on the file's size, in blocks
  MaxRecs,    \* bound on its records: no more are appended
  Vals,       \* contents of a record
  None,       \* past the end of the file
  Junk,       \* bytes that are no record: EOF marks, holes, unused buffers
  Fails       \* Fails[m]: the transfers that may fail in flush mode m

Modes == {"none", "user", "auto"}   \* no flush mode, DBF_UserFlush, DBF_AutoFlush
Blks == 0..(NumBlks - 1)
Recs == 1..(NumBlks * PerBlk)
BlockOf(r) == (r - 1) \div PerBlk
RecsOf(b) == {r \in Recs : BlockOf(r) = b}

ASSUME SizeAssumption == PerBlk \in Nat \ {0} /\ NumBlks \in Nat \ {0}
ASSUME BoundAssumption == MaxRecs \in 1..(NumBlks * PerBlk)
ASSUME ValuesAssumption == None \notin Vals /\ Junk \notin Vals /\ None # Junk
ASSUME FailsAssumption == Fails \in [Modes -> SUBSET {"read", "block", "space", "header"}]

VARIABLES
  disk,       \* the records in the file
  diskHdr,    \* the header in the file: NumRecs and Incomplete
  open, mode, \* DBF_FILE and DBF_FILEUSR exist; U_Mode
  H,          \* the header in memory
  flags,      \* HdrChg, FileChg, FileSizChg, BufWritten
  lastBlk, lastLen,      \* Cf.LastRecno and Cf.LastDataLen
  errno,      \* Cf.Errno is nonzero
  cached, dirty, buf,    \* the blocks in the cache
  rec, recno, recChg,    \* U_Rec, U_Recno and U_RecChg
  call,       \* the library call being executed
  table       \* what the user has stored: the records as last committed

header == <<diskHdr, H, flags>>
cache == <<cached, dirty, buf, lastBlk, lastLen>>
user == <<rec, recno, recChg>>
vars == <<disk, header, open, mode, cache, errno, user, call, table>>

Idle == [op |-> "none", pc |-> "idle", pos |-> 0, val |-> Junk, e |-> FALSE]
NoFlags == [HdrChg |-> FALSE, FileChg |-> FALSE, FileSizChg |-> FALSE, BufWritten |-> FALSE]

MayFail(kind) == kind \in Fails[mode]
Goto(pc) == call' = [call EXCEPT !.pc = pc]
\* The call returns; the error code it returns is nonzero iff e.
Return(e) == call' = [Idle EXCEPT !.e = e]

-----------------------------------------------------------------------------
(* A file that was closed normally.                                        *)

Init ==
  /\ \E n \in 0..MaxRecs :
       /\ disk \in [Recs -> Vals \cup {None}]
       /\ \A r \in Recs : disk[r] = None <=> r > n
       /\ diskHdr = [NumRecs |-> n, Incomplete |-> FALSE]
       /\ table = SubSeq(disk, 1, n)
  /\ open = FALSE /\ mode = "none"
  /\ H = diskHdr /\ flags = NoFlags
  /\ lastBlk = -1 /\ lastLen = PerBlk /\ errno = FALSE
  /\ cached = {} /\ dirty = {} /\ buf = [r \in Recs |-> Junk]
  /\ rec = Junk /\ recno = 0 /\ recChg = FALSE
  /\ call = Idle

-----------------------------------------------------------------------------
(* Transfers.                                                              *)

\* How many of its records the cache reads and writes with block b.
DataLen(b, blk, len) == IF b = blk THEN len ELSE PerBlk
Written(b, len) == {r \in RecsOf(b) : r <= b * PerBlk + len}

\* dos_Transfer of the first len records of block b, whose contents are c; it
\* needs disk space if the file does not reach so far.
PutBlock(b, len, c, ok) ==
  /\ ok \/ MayFail("block")
        \/ (MayFail("space") /\ \E r \in Written(b, len) : disk[r] = None)
  /\ disk' = IF ~ok THEN disk
             ELSE [r \in Recs |-> IF r \in Written(b, len) THEN c[r]
                                  ELSE IF r <= b * PerBlk /\ disk[r] = None THEN Junk
                                  ELSE disk[r]]

\* _dbf_WriteHdr: the outcome of the header's transfer becomes the file's
\* error condition, whatever that was before.
WriteHdr(h, fl, ok) ==
  /\ ok \/ MayFail("header")
  /\ H' = h
  /\ diskHdr' = IF ok THEN h ELSE diskHdr
  /\ flags' = [fl EXCEPT !.HdrChg = FALSE, !.FileChg = TRUE]
  /\ errno' = ~ok

\* _csf_GetRecord for a block of this file: the buffers after it.
DataRecs(b) == Written(b, DataLen(b, lastBlk, lastLen))
Readable(b) == \A r \in DataRecs(b) : disk[r] # None
GetOk(b) == ~errno /\ (b \in cached \/ Readable(b))
GetFails(b) == errno \/ (b \notin cached /\ (~Readable(b) \/ MayFail("read")))
Fetched(b) ==
  IF b \in cached THEN buf
  ELSE [r \in Recs |-> IF r \in DataRecs(b) THEN disk[r] ELSE buf[r]]

\* A buffer is needed: for this file's next block, or for another file while
\* this one is not being used.
Evict ==
  /\ open
  /\ call.pc \in {"idle", "commit", "load", "add"}
  /\ \E b \in cached, ok \in BOOLEAN :
       /\ IF b \in dirty
          THEN /\ PutBlock(b, DataLen(b, lastBlk, lastLen), buf, ok)
               /\ errno' = (errno \/ ~ok)
          ELSE /\ ok
               /\ UNCHANGED <<disk, errno>>
       /\ cached' = cached \ {b} /\ dirty' = dirty \ {b}
       /\ buf' = [r \in Recs |-> IF r \in RecsOf(b) THEN Junk ELSE buf[r]]
  /\ UNCHANGED <<header, open, mode, lastBlk, lastLen, user, call, table>>
-----------------------------------------------------------------------------
(* dbf_Open and dbf_AttachCache.                                           *)

Open(m, force) ==
  /\ ~open
  /\ diskHdr.Incomplete => force
  /\ open' = TRUE /\ mode' = m
  /\ H' = diskHdr /\ flags' = NoFlags /\ errno' = FALSE
  /\ IF diskHdr.NumRecs = 0
     THEN lastBlk' = -1 /\ lastLen' = PerBlk
     ELSE /\ lastBlk' = BlockOf(diskHdr.NumRecs)
          /\ lastLen' = diskHdr.NumRecs - lastBlk' * PerBlk
  \* After a crash or an error, what the file holds is what there is.
  /\ table' = SubSeq(disk, 1, diskHdr.NumRecs)
  /\ UNCHANGED <<disk, diskHdr, cached, dirty, buf, user, call>>

-----------------------------------------------------------------------------
(* The calls.                                                              *)

Start(op, pc, pos, val) ==
  /\ open /\ call.pc = "idle"
  /\ call' = [op |-> op, pc |-> pc, pos |-> pos, val |-> val, e |-> FALSE]
  /\ UNCHANGED <<disk, header, open, mode, cache, errno, user, table>>

\* dbf_Go.  A position past the last record is refused at once.
Go(pos) == pos \in 1..H.NumRecs /\ Start("go", "commit", pos, Junk)
PutRec(v) == Start("put", "flag", 0, v)
AppendRec(v) == H.NumRecs < MaxRecs /\ Start("append", "flag", 0, v)
Flush == Start("flush", "commit", 0, Junk)
Close == Start("close", "commit", 0, Junk)

\* _dbf_ErrReadOnly, then dbf_Mark and the change to the record; or on to
\* committing the current record, to append another one.
MarkRec ==
  IF recno = 0 THEN Return(TRUE) /\ UNCHANGED user
  ELSE /\ rec' = call.val /\ recChg' = TRUE
       /\ Return(FALSE)
       /\ UNCHANGED recno
Proceed == IF call.op = "put" THEN MarkRec ELSE Goto("commit") /\ UNCHANGED user

\* Mutant of MustFlag: a file that is only appended to is not flagged.
MustFlag_PutOnly == call.op = "put" /\ mode = "none" /\ ~H.Incomplete

MustFlag == mode = "none" /\ ~H.Incomplete
Flag ==
  /\ call.pc = "flag"
  /\ IF MustFlag
     THEN \E ok \in BOOLEAN :
            /\ WriteHdr([H EXCEPT !.Incomplete = TRUE], flags, ok)
            /\ IF ok THEN Proceed ELSE Return(TRUE) /\ UNCHANGED user
     ELSE Proceed /\ UNCHANGED <<header, errno>>
  /\ UNCHANGED <<disk, open, mode, cache, table>>

\* Where a call goes on after committing the current record.
Committed(e) ==
  CASE call.op = "flush" -> call' = [call EXCEPT !.pc = "csf", !.e = e]
    [] call.op = "close" -> call' = [call EXCEPT !.pc = "unflag", !.e = e]
    [] call.op = "append" -> IF e THEN Return(e) ELSE Goto("add")
    [] call.op = "go" -> IF e \/ (recChg /\ call.pos = recno) THEN Return(e) ELSE Goto("load")

\* _csh_FlushHdr(hp) in auto-flush mode, after block b has become c.
KeepBlock(b, len, c, ok) ==
  /\ buf' = c /\ cached' = cached \cup {b}
  /\ IF mode = "auto"
     THEN /\ PutBlock(b, len, c, ok)
          /\ dirty' = dirty \ {b} /\ errno' = ~ok
     ELSE /\ ok
          /\ dirty' = dirty \cup {b}
          /\ UNCHANGED <<disk, errno>>

\* Mutant of CommitOk: the change stays in the cache in every mode.
CommitOk_NoFlush(ok) ==
  /\ ok /\ recChg /\ GetOk(BlockOf(recno))
  /\ buf' = [Fetched(BlockOf(recno)) EXCEPT ![recno] = rec]
  /\ cached' = cached \cup {BlockOf(recno)}
  /\ dirty' = dirty \cup {BlockOf(recno)}
  /\ table' = [table EXCEPT ![recno] = rec]
  /\ UNCHANGED <<disk, errno, lastBlk, lastLen>>

\* _dbf_PutCshRec.
CommitOk(ok) ==
  LET b == BlockOf(recno) IN
  /\ recChg /\ GetOk(b)
  /\ KeepBlock(b, DataLen(b, lastBlk, lastLen), [Fetched(b) EXCEPT ![recno] = rec], ok)
  /\ table' = IF ok THEN [table EXCEPT ![recno] = rec] ELSE table
  /\ UNCHANGED <<lastBlk, lastLen>>
CommitFails ==
  /\ recChg /\ GetFails(BlockOf(recno))
  /\ errno' = TRUE
  /\ UNCHANGED <<disk, cache, table>>

\* _dbf_CommitUsrRec.
Commit ==
  /\ call.pc = "commit"
  /\ \/ /\ ~recChg
        /\ Committed(FALSE)
        /\ UNCHANGED <<disk, cache, errno, user, flags, table>>
     \/ \E ok \in BOOLEAN :
        /\ CommitOk(ok) \/ (~ok /\ CommitFails)
        /\ Committed(~ok)
        /\ recno' = IF ok THEN recno ELSE 0
        /\ recChg' = FALSE
        /\ flags' = [flags EXCEPT !.FileChg = @ \/ ~errno]
        /\ UNCHANGED rec
  /\ UNCHANGED <<diskHdr, H, open, mode>>

\* _dbf_LoadUsrRec.
Load ==
  LET b == BlockOf(call.pos) IN
  /\ call.pc = "load"
  /\ \/ /\ GetOk(b)
        /\ buf' = Fetched(b) /\ cached' = cached \cup {b}
        /\ rec' = buf'[call.pos] /\ recno' = call.pos
        /\ Return(FALSE)
        /\ UNCHANGED errno
     \/ /\ GetFails(b)
        /\ recno' = 0 /\ errno' = TRUE
        /\ Return(TRUE)
        /\ UNCHANGED <<buf, cached, rec>>
  /\ UNCHANGED <<disk, header, open, mode, dirty, lastBlk, lastLen, recChg, table>>

-----------------------------------------------------------------------------
(* _dbf_AppendUsrRec, from the point where the new record is in U_Rec.     *)

\* The place of the next record, after the LastDataLen of the last block.
NextOff == IF lastLen = PerBlk THEN 0 ELSE lastLen
NextBlk == IF lastLen = PerBlk THEN lastBlk + 1 ELSE lastBlk
NextRec == NextBlk * PerBlk + NextOff + 1
NewBufs(tail) ==
  LET c == IF NextOff = 0 THEN buf ELSE Fetched(NextBlk) IN
  [r \in Recs |-> IF r = NextRec THEN call.val
                  ELSE IF r \in RecsOf(NextBlk) /\ r > NextRec THEN tail ELSE c[r]]
CanAdd == IF NextOff = 0 THEN ~errno ELSE GetOk(NextBlk)

\* In a flush mode the file is extended by the whole block, once.
MustExtend == (NextOff = 0 \/ ~flags.BufWritten) /\ mode # "none"

\* Mutant of Extend: the length is not put back if the file cannot grow.
Extend_NoUndo(ok) ==
  /\ CanAdd /\ MustExtend
  /\ buf' = NewBufs(Junk) /\ cached' = cached \cup {NextBlk}
  /\ dirty' = dirty \ {NextBlk}
  /\ PutBlock(NextBlk, PerBlk, buf', ok)
  /\ lastBlk' = NextBlk /\ lastLen' = NextOff + 1
  /\ errno' = FALSE
  /\ flags' = [flags EXCEPT !.FileSizChg = TRUE, !.BufWritten = @ \/ ok, !.HdrChg = @ \/ ok]

Extend(ok) ==
  /\ CanAdd /\ MustExtend
  /\ buf' = NewBufs(Junk) /\ cached' = cached \cup {NextBlk}
  /\ dirty' = dirty \ {NextBlk}
  /\ PutBlock(NextBlk, PerBlk, buf', ok)
  /\ IF ok THEN lastBlk' = NextBlk /\ lastLen' = NextOff + 1
     ELSE UNCHANGED <<lastBlk, lastLen>>
  /\ errno' = FALSE
  /\ flags' = [flags EXCEPT !.FileSizChg = TRUE, !.BufWritten = @ \/ ok, !.HdrChg = @ \/ ok]

\* Mutant of AddRec: a full block is not recognised as such.
AddRec_NoNewBlock(ok) ==
  /\ CanAdd /\ ~MustExtend
  /\ KeepBlock(NextBlk, NextOff + 1, NewBufs(buf[NextRec]), ok)
  /\ lastBlk' = lastBlk /\ lastLen' = lastLen + 1
  /\ flags' = [flags EXCEPT !.FileSizChg = TRUE, !.HdrChg = @ \/ ok]

AddRec(ok) ==
  /\ CanAdd /\ ~MustExtend
  /\ KeepBlock(NextBlk, NextOff + 1, NewBufs(Junk), ok)
  /\ lastBlk' = NextBlk
  /\ lastLen' = IF ok THEN NextOff + 1 ELSE NextOff
  /\ flags' = [flags EXCEPT !.FileSizChg = TRUE, !.HdrChg = @ \/ ok]

AddFails ==
  /\ errno \/ (NextOff # 0 /\ GetFails(NextBlk))
  /\ errno' = TRUE
  /\ flags' = [flags EXCEPT !.FileSizChg = TRUE]
  /\ UNCHANGED <<disk, cache>>

\* Mutant of Position: the user keeps the old position if the record could
\* not be added.
Position_Kept(ok) == recno' = IF ok THEN H.NumRecs + 1 ELSE recno

Position(ok) == recno' = IF ok THEN H.NumRecs + 1 ELSE 0

Add ==
  /\ call.pc = "add"
  /\ \E ok \in BOOLEAN :
       /\ Extend(ok) \/ AddRec(ok) \/ (~ok /\ AddFails)
       /\ Position(ok)
       /\ rec' = call.val
       /\ H' = IF ok THEN [H EXCEPT !.NumRecs = @ + 1] ELSE H
       /\ table' = IF ok THEN Append(table, call.val) ELSE table
       /\ IF ok /\ mode = "auto" THEN Goto("hdr") ELSE Return(~ok)
  /\ UNCHANGED <<diskHdr, open, mode, recChg>>

\* In auto-flush mode the header follows.
AppendHdr ==
  /\ call.pc = "hdr"
  /\ \E ok \in BOOLEAN : WriteHdr(H, flags, ok) /\ Return(~ok)
  /\ UNCHANGED <<disk, open, mode, cache, user, table>>

-----------------------------------------------------------------------------
(* dbf_Flush and dbf_Close.                                                *)

\* dbf_Close takes the flag back, and sets the date (not with DBF_NoCloseDate).
Unflag ==
  LET clear == ~call.e /\ H.Incomplete
      chg == flags.FileChg \/ clear
  IN
  /\ call.pc = "unflag"
  /\ H' = IF clear THEN [H EXCEPT !.Incomplete = FALSE] ELSE H
  /\ \E date \in BOOLEAN :
       flags' = [flags EXCEPT !.FileChg = chg,
                              !.HdrChg = @ \/ clear \/ (~call.e /\ chg /\ date)]
  /\ Goto("csf")
  /\ UNCHANGED <<disk, diskHdr, open, mode, cache, errno, user, table>>

\* _csf_Flush writes the updated blocks in the order of their buffers.
FlushBlock ==
  /\ call.pc = "csf"
  /\ \E b \in dirty, ok \in BOOLEAN :
       /\ PutBlock(b, DataLen(b, lastBlk, lastLen), buf, ok)
       /\ dirty' = dirty \ {b}
       /\ errno' = (errno \/ ~ok)
  /\ UNCHANGED <<header, open, mode, cached, buf, lastBlk, lastLen, user, call, table>>

\* Mutants of BlocksDone: the header does not wait for the blocks.
BlocksDone_Early == TRUE

BlocksDone == dirty = {}

\* Mutant of FlushAnswer: the result of writing the header is not looked at.
FlushAnswer_Ignored(e) == call.e

FlushAnswer(e) == call.e \/ e

\* _dbf_Flush after _csf_Flush: an error flags the file, if it is not flagged,
\* and the header is written if it has changed.
FlushHdr ==
  LET flagNow == errno /\ ~H.Incomplete
      h == IF flagNow THEN [H EXCEPT !.Incomplete = TRUE] ELSE H
      Answer(e) == IF call.op = "flush" THEN Return(FlushAnswer(e))
                   ELSE call' = [call EXCEPT !.pc = "eof", !.e = FlushAnswer(e)]
  IN
  /\ call.pc = "csf" /\ BlocksDone
  /\ IF flags.HdrChg \/ flagNow
     THEN \E ok \in BOOLEAN : WriteHdr(h, flags, ok) /\ Answer(~ok)
     ELSE Answer(errno) /\ UNCHANGED <<header, errno>>
  /\ UNCHANGED <<disk, open, mode, cache, user, table>>

Forget ==
  /\ open' = FALSE
  /\ cached' = {} /\ dirty' = {} /\ buf' = [r \in Recs |-> Junk]
  /\ lastBlk' = -1 /\ lastLen' = PerBlk
  /\ rec' = Junk /\ recno' = 0 /\ recChg' = FALSE
  /\ flags' = NoFlags /\ errno' = FALSE
  /\ UNCHANGED <<diskHdr, mode>>

\* _dbf_AppendEOF, then the cache and the file are given up.  The mark is one
\* byte after the last record; the transfer of no bytes that follows it does
\* not shorten the file.
Release ==
  LET marked == [r \in Recs |-> IF \/ r <= H.NumRecs /\ disk[r] = None
                                   \/ r = H.NumRecs + 1 /\ disk[r] # None
                                THEN Junk ELSE disk[r]]
      e == call.e \/ errno
  IN
  /\ call.pc = "eof"
  /\ IF flags.FileSizChg
     THEN \/ disk' = marked /\ Return(e)
          \/ MayFail("space") /\ Return(TRUE) /\ UNCHANGED disk
     ELSE Return(e) /\ UNCHANGED disk
  /\ Forget
  /\ H' = diskHdr
  /\ UNCHANGED table

\* The process ends; no call returns.
Crash ==
  /\ open
  /\ Forget
  /\ H' = diskHdr
  /\ Return(TRUE)
  /\ UNCHANGED <<disk, table>>

-----------------------------------------------------------------------------
Next ==
  \/ \E m \in Modes, force \in BOOLEAN : Open(m, force)
  \/ \E pos \in Recs : Go(pos)
  \/ \E v \in Vals : PutRec(v) \/ AppendRec(v)
  \/ Flush \/ Close
  \/ Flag \/ Commit \/ Load \/ Add \/ AppendHdr
  \/ Unflag \/ FlushBlock \/ FlushHdr \/ Release
  \/ Evict \/ Crash

Spec == Init /\ [][Next]_vars

(***************************************************************************)
(* Properties.                                                             *)
(***************************************************************************)

HdrType == [NumRecs : 0..MaxRecs, Incomplete : BOOLEAN]
Contents == Vals \cup {None, Junk}

\* The variables have their types: no length or block number leaves the file's
\* bounds, and no more than one block is partly filled.
TypeOK ==
  /\ disk \in [Recs -> Contents] /\ buf \in [Recs -> Contents \ {None}]
  /\ diskHdr \in HdrType /\ H \in HdrType
  /\ flags \in [DOMAIN NoFlags -> BOOLEAN]
  /\ open \in BOOLEAN /\ mode \in Modes /\ errno \in BOOLEAN
  /\ lastBlk \in -1..(NumBlks - 1) /\ lastLen \in 1..PerBlk
  /\ cached \subseteq Blks /\ dirty \subseteq cached
  /\ rec \in Contents /\ recno \in 0..MaxRecs /\ recChg \in BOOLEAN
  /\ call \in [op : {"none", "go", "put", "append", "flush", "close"},
               pc : {"idle", "flag", "commit", "load", "add", "hdr", "unflag", "csf", "eof"},
               pos : 0..MaxRecs, val : Contents, e : BOOLEAN]
  /\ table \in Seq(Contents)

Current(r) == IF BlockOf(r) \in cached THEN buf[r] ELSE disk[r]
OnDisk ==
  /\ diskHdr.NumRecs = Len(table)
  /\ \A r \in 1..Len(table) : disk[r] = table[r]

\* While the file's error condition is clear, its records are those the user
\* has committed and appended, in the cache or on disk, whatever was evicted.
TableKept ==
  open /\ ~errno =>
    H.NumRecs = Len(table) /\ \A r \in 1..Len(table) : Current(r) = table[r]

\* The user's copy of an unchanged current record is that record, also after
\* a call that failed.
ReadsCurrent ==
  open /\ call.pc = "idle" /\ recno # 0 /\ ~recChg => rec = table[recno]

\* The header on disk never counts a record that is not in the file, so a
\* crash between two writes leaves no record of junk.
HeaderCovered == \A r \in 1..diskHdr.NumRecs : disk[r] \in Vals

\* Without a flush mode, a file whose flag on disk says it is complete is
\* complete: if the process crashes now, the next user can find out whether
\* anything is missing (_dbf_ErrReadOnly, dbf_Close).
CrashSafe == mode = "none" /\ ~diskHdr.Incomplete => OnDisk

\* When dbf_Flush or dbf_Close returns 0, all records are on disk.
FlushTruthful ==
  [][call.op \in {"flush", "close"} /\ call.pc # "idle"
       /\ call'.pc = "idle" /\ ~call'.e => OnDisk']_vars

\* In auto-flush mode, what a call has changed is on disk when it returns.
AutoDurable == open /\ mode = "auto" /\ call.pc = "idle" /\ ~errno => OnDisk

\* An append that fails, leaving the file's error condition clear, takes
\* nothing away: a record committed earlier is on disk or will be written.
FailedAppendKeeps ==
  [][call.pc = "add" /\ call'.e /\ ~errno' /\ open' =>
       \A r \in 1..Len(table) : disk'[r] = table[r] \/ BlockOf(r) \in dirty']_vars

=============================================================================
