--------------------------- MODULE DbfCacheProofs ---------------------------
(***************************************************************************)
(* Proofs about DbfCache, for every number and size of blocks and all      *)
(* contents: the types, for any transfers that fail; and what the user and *)
(* the next user can rely on, as long as no block write fails but for want *)
(* of space in auto-flush mode (Reported).                                 *)
(***************************************************************************)
EXTENDS DbfCache, TLAPS, SequenceTheorems

-----------------------------------------------------------------------------
(* The invariants.                                                         *)

\* Where each call can be, and what it knows there.
CallInv ==
  /\ call.pc # "idle" => open
  /\ call.pc = "idle" => call.op = "none"
  /\ call.pc = "flag" => call.op \in {"put", "append"}
  /\ call.pc = "commit" => call.op \in {"go", "append", "flush", "close"}
  /\ call.pc = "load" => call.op = "go"
  /\ call.pc \in {"add", "hdr"} => call.op = "append"
  /\ call.pc = "csf" => call.op \in {"flush", "close"}
  /\ call.pc \in {"unflag", "eof"} => call.op = "close"
  /\ call.op = "go" => call.pos \in 1..H.NumRecs
  /\ call.op \in {"put", "append"} => call.val \in Vals
  /\ call.op = "append" /\ call.pc # "hdr" => H.NumRecs < MaxRecs
  /\ call.pc \notin {"idle", "flag", "commit"} => ~recChg

\* The user's record and the last block agree with the header in memory, and a
\* closed file has neither records nor blocks in memory.
LenInv ==
  /\ recno <= H.NumRecs
  /\ recChg => recno # 0
  /\ recChg => rec \in Vals
  /\ rec # None
  /\ open => H.NumRecs = lastBlk * PerBlk + lastLen
  /\ ~open => cached = {} /\ recno = 0 /\ H = diskHdr

TypeInv == TypeOK /\ CallInv /\ LenInv

\* What the user has stored is in the buffers, and on disk in the blocks that
\* are not dirty.
TableInv ==
  open =>
    /\ table \in Seq(Vals) /\ Len(table) = H.NumRecs
    /\ \A r \in 1..H.NumRecs :
         /\ BlockOf(r) \in cached => buf[r] = table[r]
         /\ BlockOf(r) \notin dirty => disk[r] = table[r]

\* A block that is dirty has records, and none is in auto-flush mode; once the
\* last block has been extended, it is in the file to its end.
BlockInv ==
  /\ \A b \in dirty : b <= lastBlk
  /\ open /\ mode = "auto" => dirty = {}
  /\ open /\ flags.BufWritten =>
       mode # "none" /\ \A r \in Recs : BlockOf(r) = lastBlk => disk[r] # None

\* The header on disk lags behind only while HdrChg or the error condition
\* says so; in auto-flush mode HdrChg lasts no longer than a call.
HdrInv ==
  /\ diskHdr.NumRecs <= H.NumRecs
  /\ open => flags.HdrChg \/ errno \/ diskHdr.NumRecs = H.NumRecs
  /\ open /\ mode = "auto" /\ flags.HdrChg => call.pc \in {"hdr", "csf"}
  /\ call.pc = "hdr" => mode = "auto"
  /\ call.pc = "eof" => dirty = {}
  /\ call.pc = "eof" /\ ~call.e /\ ~errno => diskHdr.NumRecs = H.NumRecs

\* Without a flush mode: nothing is changed before the flag is set, and if it
\* could not be set on disk, the error condition keeps anything from changing;
\* only closing the file takes the flag back.
FlagInv ==
  mode = "none" =>
    /\ recChg => H.Incomplete
    /\ call.op = "append" /\ call.pc \in {"commit", "add"} => H.Incomplete
    /\ open /\ ~diskHdr.Incomplete =>
         /\ dirty = {} /\ H.NumRecs = diskHdr.NumRecs
         /\ H.Incomplete => errno
    /\ open /\ diskHdr.Incomplete /\ ~H.Incomplete => call.op = "close" /\ call.pc \in {"csf", "eof"}
    /\ ~open /\ ~diskHdr.Incomplete => OnDisk

\* The user's copy of an unchanged record, at every step of a call.
CopyInv == open /\ recno # 0 /\ ~recChg => rec = table[recno]

DInv ==
  /\ TypeInv /\ TableInv /\ BlockInv /\ HdrInv /\ FlagInv /\ CopyInv
  /\ HeaderCovered

\* The failures that the library reports: no write into space the file has
\* already, and none for want of space but in auto-flush mode.
Reported ==
  \A m \in Modes : "block" \notin Fails[m] /\ ("space" \in Fails[m] => m = "auto")

-----------------------------------------------------------------------------
(* Blocks and records.                                                     *)

\* The bound on the records lies within the bound on the file.
LEMMA Bounds == MaxRecs \in Nat \ {0} /\ 1..MaxRecs \subseteq Recs
<1>1. NumBlks * PerBlk \in Nat
  BY SizeAssumption
<1> QED
  BY <1>1, BoundAssumption DEF Recs

\* The flags form a record of four Booleans.
LEMMA FlagsType ==
  [DOMAIN NoFlags -> BOOLEAN]
    = [HdrChg : BOOLEAN, FileChg : BOOLEAN, FileSizChg : BOOLEAN, BufWritten : BOOLEAN]
<1>1. DOMAIN NoFlags = {"HdrChg", "FileChg", "FileSizChg", "BufWritten"}
  BY DEF NoFlags
<1> QED
  BY <1>1

\* A block of a larger number starts behind the end of a smaller one.
LEMMA ProductLess ==
  ASSUME NEW p \in Nat \ {0}, NEW a \in Int, NEW b \in Int, a < b
  PROVE  a * p \in Int /\ b * p \in Int /\ a * p + p <= b * p
<1>1. PICK d \in Nat : b = a + 1 + d
  BY b - a - 1 \in Nat
<1>2. b * p = a * p + p + d * p
  BY <1>1
<1>3. d * p \in Nat
  OBVIOUS
<1> QED
  BY <1>2, <1>3

\* A quotient by the records of a block, and what it leaves.
LEMMA Quotient ==
  ASSUME NEW p \in Nat \ {0}, NEW r \in Nat
  PROVE  (r \div p) \in Nat /\ (r \div p) * p <= r /\ r < (r \div p) * p + p
  OBVIOUS

\* Each record lies in a block of the file.
LEMMA BlockFacts ==
  ASSUME NEW r \in Recs
  PROVE  /\ r \in Nat \ {0} /\ BlockOf(r) \in Blks /\ BlockOf(r) * PerBlk \in Int
         /\ BlockOf(r) * PerBlk < r /\ r <= BlockOf(r) * PerBlk + PerBlk
<1> DEFINE b == BlockOf(r)
<1>1. r \in Nat \ {0} /\ r - 1 \in Nat /\ r <= NumBlks * PerBlk
  BY SizeAssumption DEF Recs
<1>2. b \in Nat /\ b * PerBlk <= r - 1 /\ r - 1 < b * PerBlk + PerBlk
  BY <1>1, SizeAssumption, Quotient DEF BlockOf
<1>3. b < NumBlks
  <2> SUFFICES ASSUME NumBlks <= b PROVE FALSE
    BY <1>2, SizeAssumption
  <2>1. NumBlks * PerBlk <= b * PerBlk
    BY <1>2, SizeAssumption, ProductLess
  <2> QED
    BY <1>1, <1>2, <2>1, SizeAssumption
<1> HIDE DEF b
<1>4. b * PerBlk \in Int
  BY <1>2, SizeAssumption
<1>5. b \in Blks /\ b * PerBlk < r /\ r <= b * PerBlk + PerBlk
  BY <1>1, <1>2, <1>3, <1>4, SizeAssumption DEF Blks
<1> QED
  BY <1>1, <1>4, <1>5 DEF b

\* ... and in no other.
LEMMA BlockIs ==
  ASSUME NEW r \in Recs, NEW b \in Int, b * PerBlk < r, r <= b * PerBlk + PerBlk
  PROVE  BlockOf(r) = b
<1> DEFINE a == BlockOf(r)
<1>1. /\ r \in Nat /\ a \in Int /\ a * PerBlk \in Int /\ b * PerBlk \in Int /\ PerBlk \in Nat \ {0}
      /\ a * PerBlk < r /\ r <= a * PerBlk + PerBlk
  BY BlockFacts, SizeAssumption DEF Blks
<1> HIDE DEF a
<1>2. ~(a < b)
  BY <1>1, ProductLess
<1>3. ~(b < a)
  BY <1>1, ProductLess
<1> QED
  BY <1>1, <1>2, <1>3 DEF a

\* In an open file, the last block ends with the last record.
LEMMA LastFacts ==
  ASSUME TypeInv, open
  PROVE  /\ PerBlk \in Nat \ {0} /\ lastBlk \in Int /\ lastLen \in 1..PerBlk
         /\ lastBlk * PerBlk \in Int /\ H.NumRecs = lastBlk * PerBlk + lastLen
         /\ H.NumRecs \in 0..MaxRecs /\ MaxRecs \in Nat /\ 1..H.NumRecs \subseteq Recs
         /\ \A r \in Recs : r <= H.NumRecs => BlockOf(r) <= lastBlk
         /\ \A r \in Recs : BlockOf(r) < lastBlk => r <= H.NumRecs
<1>1. /\ PerBlk \in Nat \ {0} /\ lastBlk \in Int /\ lastLen \in 1..PerBlk
      /\ H.NumRecs = lastBlk * PerBlk + lastLen
      /\ H.NumRecs \in 0..MaxRecs /\ MaxRecs \in 1..(NumBlks * PerBlk) /\ NumBlks * PerBlk \in Nat
  BY SizeAssumption, BoundAssumption DEF TypeInv, TypeOK, LenInv, HdrType
<1>2. 1..H.NumRecs \subseteq Recs /\ MaxRecs \in Nat
  BY <1>1 DEF Recs
<1>3. lastBlk * PerBlk \in Int
  BY <1>1
<1>4. ASSUME NEW r \in Recs, r <= H.NumRecs PROVE BlockOf(r) <= lastBlk
  <2> DEFINE a == BlockOf(r)
  <2>1. r \in Nat /\ a \in Int /\ a * PerBlk \in Int /\ a * PerBlk < r
    BY BlockFacts DEF Blks
  <2> HIDE DEF a
  <2>2. ~(lastBlk < a)
    BY <1>1, <1>3, <1>4, <2>1, ProductLess
  <2> QED
    BY <1>1, <2>1, <2>2 DEF a
<1>5. ASSUME NEW r \in Recs, BlockOf(r) < lastBlk PROVE r <= H.NumRecs
  <2> DEFINE a == BlockOf(r)
  <2>1. /\ r \in Nat /\ a \in Int /\ a * PerBlk \in Int /\ r <= a * PerBlk + PerBlk
        /\ a < lastBlk
    BY <1>5, BlockFacts DEF Blks
  <2> HIDE DEF a
  <2> QED
    BY <1>1, <1>3, <2>1, ProductLess
<1> QED
  BY <1>1, <1>2, <1>3, <1>4, <1>5

\* The place of the next record, while the file has room for one.
LEMMA NextFacts ==
  ASSUME TypeInv, open, H.NumRecs < MaxRecs
  PROVE  /\ NextRec = H.NumRecs + 1 /\ NextRec \in Recs
         /\ NextBlk \in Blks /\ BlockOf(NextRec) = NextBlk
         /\ NextOff \in 0..(PerBlk - 1) /\ NextBlk * PerBlk \in Int
         /\ NextRec = NextBlk * PerBlk + NextOff + 1
         /\ NextOff = 0 => NextBlk = lastBlk + 1 /\ NextBlk * PerBlk = H.NumRecs
         /\ NextOff # 0 => NextBlk = lastBlk /\ NextOff = lastLen
<1>1. /\ PerBlk \in Nat \ {0} /\ lastBlk \in Int /\ lastLen \in 1..PerBlk
      /\ lastBlk * PerBlk \in Int /\ H.NumRecs = lastBlk * PerBlk + lastLen
      /\ H.NumRecs \in 0..MaxRecs /\ MaxRecs \in Nat
  BY LastFacts
<1>2. /\ NextOff \in 0..(PerBlk - 1) /\ NextBlk \in Int /\ NextBlk * PerBlk \in Int
      /\ NextRec = NextBlk * PerBlk + NextOff + 1 /\ NextRec = H.NumRecs + 1
      /\ NextOff = 0 => NextBlk = lastBlk + 1 /\ NextBlk * PerBlk = H.NumRecs
      /\ NextOff # 0 => NextBlk = lastBlk /\ NextOff = lastLen
  <2>1. CASE lastLen = PerBlk
    <3>1. (lastBlk + 1) * PerBlk = lastBlk * PerBlk + PerBlk
      BY <1>1
    <3> QED
      BY <1>1, <2>1, <3>1 DEF NextOff, NextBlk, NextRec
  <2>2. CASE lastLen # PerBlk
    BY <1>1, <2>2 DEF NextOff, NextBlk, NextRec
  <2> QED
    BY <2>1, <2>2
<1>3. NextRec \in Recs
  BY <1>1, <1>2, BoundAssumption, SizeAssumption DEF Recs
<1>4. NextBlk * PerBlk < NextRec /\ NextRec <= NextBlk * PerBlk + PerBlk
  BY <1>1, <1>2
<1>5. BlockOf(NextRec) = NextBlk
  BY <1>2, <1>3, <1>4, BlockIs
<1> QED
  BY <1>2, <1>3, <1>5, BlockFacts

\* The records that the cache reads and writes with a block of an open file:
\* those the file has, or the whole block behind the last one.
LEMMA DataFacts ==
  ASSUME TypeInv, open, NEW b \in Int, NEW r \in Recs
  PROVE  /\ r \in DataRecs(b) => BlockOf(r) = b
         /\ BlockOf(r) = b /\ r <= H.NumRecs => r \in DataRecs(b)
         /\ r \in DataRecs(b) /\ b <= lastBlk => r <= H.NumRecs
<1>1. /\ PerBlk \in Nat \ {0} /\ lastBlk \in Int /\ lastLen \in 1..PerBlk
      /\ lastBlk * PerBlk \in Int /\ H.NumRecs = lastBlk * PerBlk + lastLen
      /\ BlockOf(r) < lastBlk => r <= H.NumRecs
      /\ r <= H.NumRecs => BlockOf(r) <= lastBlk
  BY LastFacts
<1>2. r \in Nat /\ BlockOf(r) \in Int /\ r <= BlockOf(r) * PerBlk + PerBlk
  BY BlockFacts DEF Blks
<1>3. r \in DataRecs(b) <=> BlockOf(r) = b /\ r <= b * PerBlk + DataLen(b, lastBlk, lastLen)
  BY DEF DataRecs, Written, RecsOf
<1> QED
  BY <1>1, <1>2, <1>3 DEF DataLen

-----------------------------------------------------------------------------
(* The types, whatever transfers fail.                                     *)

LEMMA InitTyped == Init => TypeInv
<1> SUFFICES ASSUME Init PROVE TypeInv
  OBVIOUS
<1>1. PICK n \in 0..MaxRecs :
        /\ disk \in [Recs -> Vals \cup {None}]
        /\ diskHdr = [NumRecs |-> n, Incomplete |-> FALSE]
        /\ table = SubSeq(disk, 1, n)
  BY DEF Init
<1>2. n \in Nat /\ 1..n \subseteq Recs
  BY BoundAssumption, SizeAssumption DEF Recs
<1>3. table \in Seq(Contents)
  <2>1. disk \in Seq(Contents) /\ Len(disk) = NumBlks * PerBlk
    BY <1>1, SizeAssumption DEF Recs, Contents
  <2> QED
    BY <1>1, <1>2, <2>1, BoundAssumption, SizeAssumption, SubSeqProperties
<1>4. TypeOK
  <2>1. /\ disk \in [Recs -> Contents] /\ buf \in [Recs -> Contents \ {None}]
        /\ diskHdr \in HdrType /\ H \in HdrType
    BY <1>1, ValuesAssumption DEF Init, HdrType, Contents
  <2>2. /\ lastBlk \in -1..(NumBlks - 1) /\ lastLen \in 1..PerBlk
        /\ cached \subseteq Blks /\ dirty \subseteq cached
    BY SizeAssumption DEF Init
  <2>3. flags \in [DOMAIN NoFlags -> BOOLEAN]
    BY FlagsType DEF Init, NoFlags
  <2>4. open \in BOOLEAN /\ errno \in BOOLEAN /\ recChg \in BOOLEAN
    BY DEF Init
  <2>5. mode \in Modes /\ rec \in Contents /\ recno \in 0..MaxRecs
    BY Bounds DEF Init, Modes, Contents
  <2>6. call \in [op : {"none", "go", "put", "append", "flush", "close"},
               pc : {"idle", "flag", "commit", "load", "add", "hdr", "unflag", "csf", "eof"},
               pos : 0..MaxRecs, val : Contents, e : BOOLEAN]
    BY Bounds DEF Init, Contents, Idle
  <2> QED
    BY <1>3, <2>1, <2>2, <2>3, <2>4, <2>5, <2>6 DEF TypeOK
<1>5. CallInv /\ LenInv
  BY <1>1, <1>2, ValuesAssumption DEF Init, CallInv, LenInv, Idle
<1> QED
  BY <1>4, <1>5 DEF TypeInv

LEMMA PutBlockTyped ==
  ASSUME disk \in [Recs -> Contents], NEW b, NEW len, NEW c \in [Recs -> Contents],
         NEW ok, PutBlock(b, len, c, ok)
  PROVE  disk' \in [Recs -> Contents]
BY DEF PutBlock, Contents

LEMMA ReplacedTyped ==
  ASSUME NEW s \in Seq(Contents), NEW i, NEW c \in Contents
  PROVE  [s EXCEPT ![i] = c] \in Seq(Contents)
<1>1. s \in [1..Len(s) -> Contents] /\ Len(s) \in Nat
  OBVIOUS
<1>2. [s EXCEPT ![i] = c] \in [1..Len(s) -> Contents]
  BY <1>1
<1> QED
  BY <1>1, <1>2

LEMMA FetchedTyped ==
  ASSUME TypeOK, NEW b, GetOk(b)
  PROVE  Fetched(b) \in [Recs -> Contents \ {None}]
BY ValuesAssumption DEF TypeOK, GetOk, Readable, Fetched, Contents

CallType ==
  [op : {"none", "go", "put", "append", "flush", "close"},
   pc : {"idle", "flag", "commit", "load", "add", "hdr", "unflag", "csf", "eof"},
   pos : 0..MaxRecs, val : Contents, e : BOOLEAN]

\* A call that returns, and one that goes on.
LEMMA ReturnTyped ==
  ASSUME NEW e \in BOOLEAN, Return(e)
  PROVE  /\ call' \in CallType
         /\ call'.pc = "idle" /\ call'.op = "none" /\ call'.e = e
BY Bounds DEF Return, Idle, CallType, Contents

LEMMA GotoTyped ==
  ASSUME call \in CallType, NEW pc, Goto(pc),
         pc \in {"commit", "load", "add", "hdr", "unflag", "csf", "eof"}
  PROVE  /\ call' \in CallType /\ call'.pc = pc
         /\ call'.op = call.op /\ call'.pos = call.pos /\ call'.val = call.val /\ call'.e = call.e
BY DEF Goto, CallType

\* The header after a WriteHdr.
LEMMA WriteHdrTyped ==
  ASSUME TypeOK, NEW h \in HdrType, NEW ok \in BOOLEAN, WriteHdr(h, flags, ok)
  PROVE  /\ H' = h /\ H' \in HdrType /\ diskHdr' \in HdrType /\ errno' \in BOOLEAN
         /\ flags' \in [DOMAIN NoFlags -> BOOLEAN]
<1>1. flags' \in [DOMAIN NoFlags -> BOOLEAN]
  BY FlagsType DEF TypeOK, WriteHdr
<1> QED
  BY <1>1 DEF TypeOK, WriteHdr

LEMMA OpenTyped ==
  ASSUME TypeInv, NEW m \in Modes, NEW force \in BOOLEAN, Open(m, force)
  PROVE  TypeInv'
<1>1. diskHdr.NumRecs \in 0..MaxRecs /\ PerBlk \in Nat \ {0}
  BY SizeAssumption DEF TypeInv, TypeOK, HdrType
<1>2. table' \in Seq(Contents)
  <2>1. disk \in Seq(Contents) /\ Len(disk) = NumBlks * PerBlk
    BY SizeAssumption DEF Recs, TypeInv, TypeOK
  <2> QED
    BY <1>1, <2>1, BoundAssumption, SizeAssumption, SubSeqProperties DEF Open
<1>3. /\ lastBlk' \in -1..(NumBlks - 1) /\ lastLen' \in 1..PerBlk
      /\ diskHdr.NumRecs = lastBlk' * PerBlk + lastLen'
  <2>1. CASE diskHdr.NumRecs = 0
    BY <1>1, <2>1, SizeAssumption DEF Open
  <2>2. CASE diskHdr.NumRecs # 0
    <3>1. diskHdr.NumRecs \in Recs
      BY <1>1, <2>2, Bounds
    <3>2. lastBlk' = BlockOf(diskHdr.NumRecs) /\ lastLen' = diskHdr.NumRecs - lastBlk' * PerBlk
      BY <2>2 DEF Open
    <3>3. lastBlk' \in Blks /\ lastBlk' * PerBlk \in Int
          /\ lastBlk' * PerBlk < diskHdr.NumRecs /\ diskHdr.NumRecs <= lastBlk' * PerBlk + PerBlk
      BY <3>1, <3>2, BlockFacts
    <3> QED
      BY <1>1, <3>2, <3>3, SizeAssumption DEF Blks
  <2> QED
    BY <2>1, <2>2
<1>4. flags' \in [DOMAIN NoFlags -> BOOLEAN]
  BY FlagsType DEF Open, NoFlags
<1>5. TypeOK'
  <2>1. open' \in BOOLEAN /\ errno' \in BOOLEAN /\ recChg' \in BOOLEAN
    BY DEF Open, TypeInv, TypeOK, user
  <2> QED
    BY <1>2, <1>3, <1>4, <2>1 DEF Open, user, TypeInv, TypeOK
<1>6. CallInv' /\ LenInv'
  <2>1. ~open /\ open' /\ H' = H /\ H.NumRecs = diskHdr.NumRecs /\ UNCHANGED <<recno, rec, recChg, call>>
    BY DEF Open, user, TypeInv, LenInv
  <2>2. CallInv'
    BY <2>1 DEF TypeInv, CallInv
  <2> QED
    BY <1>3, <2>1, <2>2 DEF TypeInv, LenInv
<1> QED
  BY <1>5, <1>6 DEF TypeInv

\* A call starts.
LEMMA StartTyped ==
  ASSUME TypeInv,
         \/ \E pos \in Recs : Go(pos)
         \/ \E v \in Vals : PutRec(v) \/ AppendRec(v)
         \/ Flush \/ Close
  PROVE  TypeInv'
<1>1. PICK op \in {"go", "put", "append", "flush", "close"},
           pc \in {"flag", "commit"}, pos \in 0..MaxRecs, v \in Vals \cup {Junk} :
        /\ Start(op, pc, pos, v)
        /\ op = "go" => pos \in 1..H.NumRecs
        /\ pc = "flag" <=> op \in {"put", "append"}
        /\ op \in {"put", "append"} => v \in Vals
        /\ op = "append" => H.NumRecs < MaxRecs
  <2>1. ASSUME NEW pos \in Recs, Go(pos) PROVE pos \in 0..MaxRecs
    BY <2>1, Bounds DEF Go, TypeInv, TypeOK, HdrType
  <2> QED
    BY <2>1, Bounds DEF Go, PutRec, AppendRec, Flush, Close
<1>2. call' \in [op : {"none", "go", "put", "append", "flush", "close"},
               pc : {"idle", "flag", "commit", "load", "add", "hdr", "unflag", "csf", "eof"},
               pos : 0..MaxRecs, val : Contents, e : BOOLEAN]
  BY <1>1 DEF Start, Contents
<1>3. TypeOK'
  BY <1>1, <1>2 DEF Start, header, cache, user, TypeInv, TypeOK
<1>4. CallInv' /\ LenInv'
  BY <1>1 DEF Start, header, cache, user, TypeInv, CallInv, LenInv
<1> QED
  BY <1>3, <1>4 DEF TypeInv

LEMMA FlagTyped ==
  ASSUME TypeInv, Flag
  PROVE  TypeInv'
<1>1. /\ call \in CallType /\ call.pc = "flag" /\ call.op \in {"put", "append"} /\ open
      /\ call.val \in Vals /\ H \in HdrType /\ H.NumRecs <= MaxRecs
      /\ call.op = "append" => H.NumRecs < MaxRecs
  BY Bounds DEF Flag, TypeInv, TypeOK, CallInv, CallType, HdrType
<1>2. /\ H' \in HdrType /\ diskHdr' \in HdrType /\ errno' \in BOOLEAN
      /\ flags' \in [DOMAIN NoFlags -> BOOLEAN]
      /\ H'.NumRecs = H.NumRecs
  <2>1. CASE MustFlag
    <3>1. PICK ok \in BOOLEAN : WriteHdr([H EXCEPT !.Incomplete = TRUE], flags, ok)
      BY <2>1 DEF Flag
    <3>2. /\ [H EXCEPT !.Incomplete = TRUE] \in HdrType
          /\ [H EXCEPT !.Incomplete = TRUE].NumRecs = H.NumRecs
      BY <1>1 DEF HdrType
    <3> HIDE DEF HdrType
    <3> QED
      BY <3>1, <3>2, WriteHdrTyped DEF TypeInv
  <2>2. CASE ~MustFlag
    BY <2>2 DEF Flag, header, TypeInv, TypeOK
  <2> QED
    BY <2>1, <2>2
<1>3. /\ call' \in CallType /\ rec' \in Contents /\ rec' # None /\ recno' = recno /\ recChg' \in BOOLEAN
      /\ \/ call'.pc = "idle" /\ call'.op = "none"
         \/ call'.pc = "commit" /\ call.op = "append" /\ call'.op = "append" /\ call'.val = call.val
      /\ recChg' => recno # 0 /\ rec' \in Vals
  <2>1. CASE Proceed
    <3>1. CASE call.op = "put" /\ recno = 0
      BY <2>1, <3>1, ReturnTyped DEF Proceed, MarkRec, user, TypeInv, TypeOK, LenInv
    <3>2. CASE call.op = "put" /\ recno # 0
      BY <1>1, <2>1, <3>2, ReturnTyped, ValuesAssumption DEF Proceed, MarkRec, Contents
    <3>3. CASE call.op = "append"
      BY <1>1, <2>1, <3>3, GotoTyped DEF Proceed, user, TypeInv, TypeOK, LenInv
    <3> QED
      BY <1>1, <3>1, <3>2, <3>3
  <2>2. CASE Return(TRUE) /\ UNCHANGED user
    BY <2>2, ReturnTyped DEF user, TypeInv, TypeOK, LenInv
  <2> QED
    BY <2>1, <2>2 DEF Flag
<1>4. UNCHANGED <<disk, open, mode, cached, dirty, buf, lastBlk, lastLen, table>>
  BY DEF Flag, cache
<1>5. TypeOK'
  BY <1>2, <1>3, <1>4 DEF CallType, TypeInv, TypeOK
<1>6. CallInv'
  <2>1. open'
    BY <1>1, <1>4
  <2>2. CASE call'.pc = "idle" /\ call'.op = "none"
    BY <2>1, <2>2 DEF CallInv
  <2>3. CASE call'.pc = "commit" /\ call.op = "append" /\ call'.op = "append" /\ call'.val = call.val
    <3>1. H'.NumRecs < MaxRecs /\ call'.val \in Vals
      BY <1>1, <1>2, <1>3, <2>3
    <3> QED
      BY <2>1, <2>3, <3>1 DEF CallInv
  <2> QED
    BY <1>3, <2>2, <2>3
<1>7. LenInv'
  BY <1>1, <1>2, <1>3, <1>4 DEF TypeInv, LenInv
<1> QED
  BY <1>5, <1>6, <1>7 DEF TypeInv

LEMMA KeepBlockTyped ==
  ASSUME TypeOK, NEW b \in Blks, NEW len, NEW c \in [Recs -> Contents \ {None}],
         NEW ok \in BOOLEAN, KeepBlock(b, len, c, ok)
  PROVE  /\ disk' \in [Recs -> Contents] /\ buf' \in [Recs -> Contents \ {None}]
         /\ cached' \subseteq Blks /\ dirty' \subseteq cached' /\ errno' \in BOOLEAN
<1>1. buf' = c /\ cached' = cached \cup {b}
  BY DEF KeepBlock
<1>2. CASE mode = "auto"
  <2>1. PutBlock(b, len, c, ok) /\ dirty' = dirty \ {b} /\ errno' = ~ok
    BY <1>2 DEF KeepBlock
  <2>2. c \in [Recs -> Contents]
    OBVIOUS
  <2> QED
    BY <1>1, <2>1, <2>2, PutBlockTyped DEF TypeOK
<1>3. CASE mode # "auto"
  BY <1>1, <1>3 DEF KeepBlock, TypeOK
<1> QED
  BY <1>2, <1>3

\* Where a call is after committing the current record.
LEMMA CommittedCall ==
  ASSUME TypeInv, call.pc = "commit", NEW e \in BOOLEAN, Committed(e)
  PROVE  /\ call' \in CallType
         /\ call'.pc = "idle" => call'.op = "none" /\ call'.e = e
         /\ call'.pc # "idle" => /\ call'.op = call.op /\ call'.pos = call.pos
                                 /\ call'.val = call.val
         /\ call.op = "flush" => call'.pc = "csf" /\ call'.e = e
         /\ call.op = "close" => call'.pc = "unflag" /\ call'.e = e
         /\ call.op = "append" => call'.pc = IF e THEN "idle" ELSE "add"
         /\ call.op = "go" => call'.pc = "idle" \/ (call'.pc = "load" /\ ~e)
         /\ call.op \in {"go", "append", "flush", "close"}
<1>1. call \in CallType /\ call.op \in {"go", "append", "flush", "close"}
  BY DEF TypeInv, TypeOK, CallInv, CallType
<1>2. CASE call.op \in {"flush", "close"}
  BY <1>1, <1>2 DEF Committed, CallType
<1>3. CASE call.op = "append"
  BY <1>1, <1>3, ReturnTyped, GotoTyped DEF Committed
<1>4. CASE call.op = "go"
  BY <1>1, <1>4, ReturnTyped, GotoTyped DEF Committed
<1> QED
  BY <1>1, <1>2, <1>3, <1>4

LEMMA CommitTyped ==
  ASSUME TypeInv, Commit
  PROVE  TypeInv'
<1>1. PICK ok \in BOOLEAN :
        /\ \/ /\ ok /\ ~recChg
              /\ UNCHANGED <<disk, cache, errno, user, flags, table>>
           \/ /\ recChg /\ (CommitOk(ok) \/ (~ok /\ CommitFails))
              /\ recno' = (IF ok THEN recno ELSE 0) /\ recChg' = FALSE /\ rec' = rec
              /\ flags' = [flags EXCEPT !.FileChg = @ \/ ~errno]
        /\ Committed(~ok)
  <2>1. CASE ~recChg /\ Committed(FALSE) /\ UNCHANGED <<disk, cache, errno, user, flags, table>>
    BY <2>1
  <2>2. ASSUME NEW ok \in BOOLEAN, CommitOk(ok) \/ (~ok /\ CommitFails), Committed(~ok),
               recno' = (IF ok THEN recno ELSE 0), recChg' = FALSE, rec' = rec,
               flags' = [flags EXCEPT !.FileChg = @ \/ ~errno]
        PROVE  recChg
    BY <2>2 DEF CommitOk, CommitFails
  <2> QED
    BY <2>1, <2>2 DEF Commit
<1>2. /\ open /\ H' = H /\ diskHdr' = diskHdr /\ open' = open /\ mode' = mode /\ call.pc = "commit"
      /\ H.NumRecs \in 0..MaxRecs
  BY DEF Commit, TypeInv, TypeOK, CallInv, HdrType
<1>3. /\ disk' \in [Recs -> Contents] /\ buf' \in [Recs -> Contents \ {None}]
      /\ cached' \subseteq Blks /\ dirty' \subseteq cached' /\ errno' \in BOOLEAN
      /\ table' \in Seq(Contents) /\ lastBlk' = lastBlk /\ lastLen' = lastLen
  <2>1. CASE UNCHANGED <<disk, cache, errno, user, flags, table>>
    BY <2>1 DEF cache, TypeInv, TypeOK
  <2>2. CASE recChg /\ CommitOk(ok)
    <3> DEFINE b == BlockOf(recno)  c == [Fetched(b) EXCEPT ![recno] = rec]
    <3>1. b \in Blks
      BY <1>2, <2>2, Bounds, BlockFacts DEF TypeInv, TypeOK, LenInv
    <3>2. c \in [Recs -> Contents \ {None}]
      BY <2>2, FetchedTyped DEF CommitOk, TypeInv, TypeOK, LenInv
    <3>3. KeepBlock(b, DataLen(b, lastBlk, lastLen), c, ok)
      BY <2>2 DEF CommitOk
    <3>4. table' \in Seq(Contents)
      <4>1. CASE ok
        <5>1. table \in Seq(Contents) /\ rec \in Contents /\ table' = [table EXCEPT ![recno] = rec]
          BY <2>2, <4>1 DEF CommitOk, TypeInv, TypeOK
        <5> QED
          BY <5>1, ReplacedTyped
      <4> QED
        BY <2>2, <4>1 DEF CommitOk, TypeInv, TypeOK
    <3> HIDE DEF b, c
    <3>5. TypeOK
      BY DEF TypeInv
    <3>6. lastBlk' = lastBlk /\ lastLen' = lastLen
      BY <2>2 DEF CommitOk
    <3> QED
      BY <3>1, <3>2, <3>3, <3>4, <3>5, <3>6, KeepBlockTyped
  <2>3. CASE CommitFails
    BY <2>3 DEF CommitFails, cache, TypeInv, TypeOK
  <2> QED
    BY <1>1, <2>1, <2>2, <2>3
<1>4. /\ rec' = rec /\ recno' \in {0, recno} /\ recChg' = FALSE
      /\ flags' \in [DOMAIN NoFlags -> BOOLEAN]
  <2>1. CASE ~recChg /\ UNCHANGED <<disk, cache, errno, user, flags, table>>
    <3>1. recChg \in BOOLEAN
      BY DEF TypeInv, TypeOK
    <3> QED
      BY <2>1, <3>1 DEF user, TypeInv, TypeOK
  <2>2. CASE recno' = (IF ok THEN recno ELSE 0) /\ recChg' = FALSE /\ rec' = rec
             /\ flags' = [flags EXCEPT !.FileChg = @ \/ ~errno]
    BY <2>2, FlagsType DEF TypeInv, TypeOK
  <2> QED
    BY <1>1, <2>1, <2>2
<1>5. TypeOK'
  <2>1. call' \in CallType
    BY <1>1, <1>2, CommittedCall
  <2>2. recno' \in 0..MaxRecs /\ rec' \in Contents /\ recChg' \in BOOLEAN
    <3>1. recChg' \in BOOLEAN
      BY <1>4
    <3> QED
      BY <1>4, <3>1, Bounds DEF TypeInv, TypeOK
  <2> QED
    BY <1>2, <1>3, <1>4, <2>1, <2>2 DEF CallType, TypeInv, TypeOK
<1>6. CallInv'
  <2>1. open'
    BY <1>2
  <2>2. /\ call.op = "go" => call.pos \in 1..H.NumRecs
        /\ call.op = "append" => call.val \in Vals /\ H.NumRecs < MaxRecs
    BY <1>2 DEF TypeInv, CallInv
  <2>3. /\ call'.pc = "idle" => call'.op = "none"
        /\ call'.pc # "idle" => /\ call'.op = call.op /\ call'.pos = call.pos
                                 /\ call'.val = call.val
        /\ call.op = "flush" => call'.pc = "csf"
        /\ call.op = "close" => call'.pc = "unflag"
        /\ call.op = "append" => call'.pc \in {"idle", "add"}
        /\ call.op = "go" => call'.pc \in {"idle", "load"}
        /\ call.op \in {"go", "append", "flush", "close"}
    BY <1>1, <1>2, CommittedCall
  <2> QED
    BY <1>2, <1>4, <2>1, <2>2, <2>3 DEF CallInv
<1>7. LenInv'
  <2>1. recno' <= H'.NumRecs /\ ~recChg' /\ rec' # None
    BY <1>2, <1>4 DEF TypeInv, LenInv
  <2>2. open' /\ H'.NumRecs = lastBlk' * PerBlk + lastLen'
    BY <1>2, <1>3 DEF TypeInv, LenInv
  <2> QED
    BY <2>1, <2>2 DEF LenInv
<1> QED
  BY <1>5, <1>6, <1>7 DEF TypeInv

LEMMA LoadTyped ==
  ASSUME TypeInv, Load
  PROVE  TypeInv'
<1> DEFINE b == BlockOf(call.pos)
<1>1. /\ open /\ call.op = "go" /\ call.pos \in 1..H.NumRecs /\ H.NumRecs \in 0..MaxRecs /\ ~recChg
      /\ call.pos \in 0..MaxRecs
  BY DEF Load, TypeInv, TypeOK, CallInv, HdrType
<1>2. call.pos \in Recs /\ b \in Blks
  BY <1>1, Bounds, BlockFacts
<1>3. UNCHANGED <<disk, header, open, mode, dirty, lastBlk, lastLen, recChg, table>>
  BY DEF Load
<1>4. /\ cached' \subseteq Blks /\ cached \subseteq cached'
      /\ buf' \in [Recs -> Contents \ {None}]
      /\ rec' \in Contents \ {None} /\ recno' \in {0, call.pos} /\ errno' \in BOOLEAN
      /\ call' \in CallType /\ call'.pc = "idle" /\ call'.op = "none"
  <2>1. CASE /\ GetOk(b)
             /\ buf' = Fetched(b) /\ cached' = cached \cup {b}
             /\ rec' = buf'[call.pos] /\ recno' = call.pos
             /\ Return(FALSE)
             /\ UNCHANGED errno
    <3>1. buf' \in [Recs -> Contents \ {None}]
      BY <2>1, FetchedTyped DEF TypeInv
    <3>2. rec' \in Contents \ {None}
      BY <1>2, <2>1, <3>1
    <3>3. cached' \subseteq Blks /\ cached \subseteq cached' /\ errno' \in BOOLEAN
      BY <1>2, <2>1 DEF TypeInv, TypeOK
    <3> QED
      BY <2>1, <3>1, <3>2, <3>3, ReturnTyped
  <2>2. CASE recno' = 0 /\ errno' = TRUE /\ Return(TRUE) /\ UNCHANGED <<buf, cached, rec>>
    BY <2>2, ReturnTyped DEF TypeInv, TypeOK, LenInv
  <2> QED
    BY <2>1, <2>2 DEF Load
<1>5. TypeOK'
  BY <1>1, <1>3, <1>4, Bounds DEF header, CallType, TypeInv, TypeOK
<1>6. open' /\ ~recChg'
  BY <1>1, <1>3
<1>7. CallInv'
  BY <1>4, <1>6 DEF CallInv
<1>8. LenInv'
  <2>1. recno' <= H'.NumRecs
    BY <1>1, <1>3, <1>4 DEF header
  <2> QED
    BY <1>1, <1>3, <1>4, <1>6, <2>1 DEF header, TypeInv, LenInv
<1> QED
  BY <1>5, <1>7, <1>8 DEF TypeInv

\* The buffers with a new record in the block it goes to.
LEMMA NewBufsTyped ==
  ASSUME TypeInv, CanAdd, call.val \in Vals, NEW tail \in Contents \ {None}
  PROVE  NewBufs(tail) \in [Recs -> Contents \ {None}]
<1> DEFINE c == IF NextOff = 0 THEN buf ELSE Fetched(NextBlk)
<1>1. c \in [Recs -> Contents \ {None}]
  BY FetchedTyped DEF CanAdd, TypeInv, TypeOK
<1>2. call.val \in Contents \ {None}
  BY ValuesAssumption DEF Contents
<1> HIDE DEF c
<1>3. [r \in Recs |-> IF r = NextRec THEN call.val
                  ELSE IF r \in RecsOf(NextBlk) /\ r > NextRec THEN tail ELSE c[r]]
        \in [Recs -> Contents \ {None}]
  BY <1>1, <1>2
<1> QED
  BY <1>3 DEF NewBufs, c

\* What adding a record does to the file and the cache: the last block's
\* length counts the record if it could be added, and else stays what it was.
LEMMA AddedTyped ==
  ASSUME TypeInv, call.pc = "add", NEW ok \in BOOLEAN,
         Extend(ok) \/ AddRec(ok) \/ (~ok /\ AddFails)
  PROVE  /\ disk' \in [Recs -> Contents] /\ buf' \in [Recs -> Contents \ {None}]
         /\ cached' \subseteq Blks /\ dirty' \subseteq cached' /\ errno' \in BOOLEAN
         /\ flags' \in [DOMAIN NoFlags -> BOOLEAN]
         /\ ok => lastBlk' = NextBlk /\ lastLen' = NextOff + 1
         /\ ~ok => lastBlk' = lastBlk /\ lastLen' = lastLen
<1>1. /\ open /\ call.val \in Vals /\ H.NumRecs < MaxRecs
  BY DEF TypeInv, CallInv
<1>2. NextBlk \in Blks /\ NextOff \in 0..(PerBlk - 1)
      /\ (NextOff # 0 => NextBlk = lastBlk /\ NextOff = lastLen)
  BY <1>1, NextFacts
<1>3. Junk \in Contents \ {None} /\ TypeOK
  BY ValuesAssumption DEF Contents, TypeInv
<1>4. CASE Extend(ok)
  <2>1. NewBufs(Junk) \in [Recs -> Contents \ {None}]
    BY <1>1, <1>3, <1>4, NewBufsTyped DEF Extend
  <2>2. buf' \in [Recs -> Contents \ {None}] /\ buf' \in [Recs -> Contents]
    BY <1>4, <2>1 DEF Extend
  <2>3. disk' \in [Recs -> Contents]
    BY <1>3, <1>4, <2>2, PutBlockTyped DEF Extend, TypeOK
  <2>4. flags' \in [DOMAIN NoFlags -> BOOLEAN]
    BY <1>3, <1>4, FlagsType DEF Extend, TypeOK
  <2>5. cached' \subseteq Blks /\ dirty' \subseteq cached' /\ errno' \in BOOLEAN
    BY <1>2, <1>3, <1>4 DEF Extend, TypeOK
  <2> QED
    BY <1>4, <2>2, <2>3, <2>4, <2>5 DEF Extend
<1>5. CASE AddRec(ok)
  <2>1. NewBufs(Junk) \in [Recs -> Contents \ {None}]
    BY <1>1, <1>3, <1>5, NewBufsTyped DEF AddRec
  <2>2. KeepBlock(NextBlk, NextOff + 1, NewBufs(Junk), ok)
    BY <1>5 DEF AddRec
  <2>3. flags' \in [DOMAIN NoFlags -> BOOLEAN]
    BY <1>3, <1>5, FlagsType DEF AddRec, TypeOK
  <2>4. ~ok => NextOff # 0
    BY <1>5 DEF AddRec, KeepBlock, MustExtend
  <2>5. /\ ok => lastBlk' = NextBlk /\ lastLen' = NextOff + 1
        /\ ~ok => lastBlk' = lastBlk /\ lastLen' = lastLen
    BY <1>2, <1>5, <2>4 DEF AddRec
  <2> QED
    BY <1>2, <1>3, <2>1, <2>2, <2>3, <2>5, KeepBlockTyped
<1>6. CASE ~ok /\ AddFails
  BY <1>6, FlagsType DEF AddFails, cache, TypeInv, TypeOK
<1> QED
  BY <1>4, <1>5, <1>6

LEMMA AddTyped ==
  ASSUME TypeInv, Add
  PROVE  TypeInv'
<1>1. PICK ok \in BOOLEAN :
        /\ Extend(ok) \/ AddRec(ok) \/ (~ok /\ AddFails)
        /\ recno' = (IF ok THEN H.NumRecs + 1 ELSE 0)
        /\ rec' = call.val
        /\ H' = (IF ok THEN [H EXCEPT !.NumRecs = @ + 1] ELSE H)
        /\ table' = (IF ok THEN Append(table, call.val) ELSE table)
        /\ IF ok /\ mode = "auto" THEN Goto("hdr") ELSE Return(~ok)
  BY DEF Add, Position
<1>2. /\ call.pc = "add" /\ open /\ open' = open /\ mode' = mode /\ diskHdr' = diskHdr
      /\ recChg' = recChg /\ ~recChg
      /\ call.val \in Vals /\ call.op = "append" /\ H.NumRecs < MaxRecs /\ H.NumRecs \in 0..MaxRecs
      /\ H \in HdrType /\ PerBlk \in Nat \ {0}
  BY SizeAssumption DEF Add, TypeInv, TypeOK, CallInv, HdrType
<1>3. /\ disk' \in [Recs -> Contents] /\ buf' \in [Recs -> Contents \ {None}]
      /\ cached' \subseteq Blks /\ dirty' \subseteq cached' /\ errno' \in BOOLEAN
      /\ flags' \in [DOMAIN NoFlags -> BOOLEAN]
      /\ ok => lastBlk' = NextBlk /\ lastLen' = NextOff + 1
      /\ ~ok => lastBlk' = lastBlk /\ lastLen' = lastLen
  BY <1>1, <1>2, AddedTyped
<1>4. /\ H' \in HdrType /\ H'.NumRecs = (IF ok THEN H.NumRecs + 1 ELSE H.NumRecs)
  <2>1. H.NumRecs + 1 \in 0..MaxRecs
    BY <1>2, Bounds
  <2> QED
    BY <1>1, <1>2, <2>1 DEF HdrType
<1>5. /\ call' \in CallType
      /\ \/ call'.pc = "idle" /\ call'.op = "none"
         \/ ok /\ call'.pc = "hdr" /\ call'.op = "append" /\ call'.val = call.val
  <2>1. CASE ok /\ mode = "auto"
    <3>1. Goto("hdr") /\ call \in CallType
      BY <1>1, <2>1 DEF TypeInv, TypeOK, CallType
    <3> QED
      BY <1>2, <2>1, <3>1, GotoTyped
  <2>2. CASE ~(ok /\ mode = "auto")
    BY <1>1, <2>2, ReturnTyped
  <2> QED
    BY <2>1, <2>2
<1>6. /\ rec' \in Contents /\ rec' # None /\ recno' <= H'.NumRecs /\ recno' \in 0..MaxRecs
      /\ table' \in Seq(Contents)
  <2>1. call.val \in Contents /\ call.val # None
    BY <1>2, ValuesAssumption DEF Contents
  <2>2. table' \in Seq(Contents)
    BY <1>1, <2>1 DEF TypeInv, TypeOK
  <2>3. recno' <= H'.NumRecs /\ recno' \in 0..MaxRecs
    BY <1>1, <1>2, <1>4, Bounds
  <2> QED
    BY <1>1, <2>1, <2>2, <2>3
<1>7. /\ lastBlk' \in -1..(NumBlks - 1) /\ lastLen' \in 1..PerBlk
      /\ H'.NumRecs = lastBlk' * PerBlk + lastLen'
  <2>1. /\ NextRec = H.NumRecs + 1 /\ NextBlk \in Blks
        /\ NextOff \in 0..(PerBlk - 1) /\ NextBlk * PerBlk \in Int
        /\ NextRec = NextBlk * PerBlk + NextOff + 1
    BY <1>2, NextFacts
  <2>2. CASE ok
    BY <1>2, <1>3, <1>4, <2>1, <2>2, SizeAssumption DEF Blks
  <2>3. CASE ~ok
    BY <1>2, <1>3, <1>4, <2>3 DEF TypeInv, TypeOK, LenInv
  <2> QED
    BY <2>2, <2>3
<1>8. open' /\ ~recChg'
  BY <1>2
<1>9. TypeOK'
  <2>1. diskHdr' \in HdrType /\ mode' \in Modes
    BY <1>2 DEF TypeInv, TypeOK
  <2>2. open' \in BOOLEAN /\ recChg' \in BOOLEAN
    BY <1>2 DEF TypeInv, TypeOK
  <2> QED
    BY <1>3, <1>4, <1>5, <1>6, <1>7, <2>1, <2>2 DEF CallType, TypeOK
<1>10. CallInv' /\ LenInv'
  <2>1. CallInv'
    BY <1>2, <1>4, <1>5, <1>8 DEF CallInv
  <2> QED
    BY <1>6, <1>7, <1>8, <2>1 DEF LenInv
<1> QED
  BY <1>9, <1>10 DEF TypeInv

LEMMA AppendHdrTyped ==
  ASSUME TypeInv, AppendHdr
  PROVE  TypeInv'
<1>1. PICK ok \in BOOLEAN : WriteHdr(H, flags, ok) /\ Return(~ok)
  BY DEF AppendHdr
<1>2. /\ open /\ UNCHANGED <<disk, open, mode, cache, user, table>> /\ H \in HdrType
      /\ ~recChg
  BY DEF AppendHdr, TypeInv, TypeOK, CallInv
<1>3. /\ H' = H /\ H' \in HdrType /\ diskHdr' \in HdrType /\ errno' \in BOOLEAN
      /\ flags' \in [DOMAIN NoFlags -> BOOLEAN]
  BY <1>1, <1>2, WriteHdrTyped DEF TypeInv
<1>4. call' \in CallType /\ call'.pc = "idle" /\ call'.op = "none"
  BY <1>1, ReturnTyped
<1>5. open' /\ ~recChg'
  BY <1>2 DEF user
<1>6. TypeOK'
  BY <1>2, <1>3, <1>4 DEF cache, user, CallType, TypeInv, TypeOK
<1>7. CallInv' /\ LenInv'
  BY <1>2, <1>3, <1>4, <1>5 DEF cache, user, TypeInv, CallInv, LenInv
<1> QED
  BY <1>6, <1>7 DEF TypeInv

LEMMA UnflagTyped ==
  ASSUME TypeInv, Unflag
  PROVE  TypeInv'
<1>1. /\ open /\ call \in CallType /\ call.op = "close" /\ ~recChg
      /\ UNCHANGED <<disk, diskHdr, open, mode, cache, errno, user, table>>
      /\ H \in HdrType
  BY DEF Unflag, TypeInv, TypeOK, CallInv, CallType
<1>2. H' \in HdrType /\ H'.NumRecs = H.NumRecs
  BY <1>1 DEF Unflag, HdrType
<1>3. flags' \in [DOMAIN NoFlags -> BOOLEAN]
  BY FlagsType DEF Unflag, TypeInv, TypeOK
<1>4. call' \in CallType /\ call'.pc = "csf" /\ call'.op = "close"
  BY <1>1, GotoTyped DEF Unflag
<1>5. open' /\ ~recChg'
  BY <1>1 DEF user
<1>6. TypeOK'
  BY <1>1, <1>2, <1>3, <1>4 DEF cache, user, CallType, TypeInv, TypeOK
<1>7. CallInv' /\ LenInv'
  BY <1>1, <1>2, <1>4, <1>5 DEF cache, user, TypeInv, CallInv, LenInv
<1> QED
  BY <1>6, <1>7 DEF TypeInv

\* A block is written, by a flush or as its buffer is taken.
LEMMA WroteTyped ==
  ASSUME TypeInv, UNCHANGED <<header, open, mode, lastBlk, lastLen, user, call, table>>,
         disk' \in [Recs -> Contents], buf' \in [Recs -> Contents \ {None}],
         cached' \subseteq cached, dirty' \subseteq cached', errno' \in BOOLEAN,
         open
  PROVE  TypeInv'
<1>1. open'
  OBVIOUS
<1>2. TypeOK'
  BY DEF header, user, TypeInv, TypeOK
<1>3. CallInv'
  BY <1>1 DEF header, user, TypeInv, CallInv
<1>4. LenInv'
  BY <1>1 DEF header, user, TypeInv, LenInv
<1> QED
  BY <1>2, <1>3, <1>4 DEF TypeInv

LEMMA FlushBlockTyped ==
  ASSUME TypeInv, FlushBlock
  PROVE  TypeInv'
<1>1. PICK b \in dirty, ok \in BOOLEAN :
        /\ PutBlock(b, DataLen(b, lastBlk, lastLen), buf, ok)
        /\ dirty' = dirty \ {b} /\ errno' = (errno \/ ~ok)
  BY DEF FlushBlock
<1>2. disk' \in [Recs -> Contents]
  BY <1>1, PutBlockTyped DEF TypeInv, TypeOK
<1>3. open /\ errno' \in BOOLEAN /\ UNCHANGED <<header, open, mode, cached, buf, lastBlk, lastLen, user, call, table>>
  BY <1>1 DEF FlushBlock, TypeInv, CallInv
<1> QED
  BY <1>1, <1>2, <1>3, WroteTyped DEF TypeInv, TypeOK

LEMMA EvictTyped ==
  ASSUME TypeInv, Evict
  PROVE  TypeInv'
<1>1. PICK b \in cached, ok \in BOOLEAN :
        /\ IF b \in dirty
           THEN /\ PutBlock(b, DataLen(b, lastBlk, lastLen), buf, ok)
                /\ errno' = (errno \/ ~ok)
           ELSE ok /\ UNCHANGED <<disk, errno>>
        /\ cached' = cached \ {b} /\ dirty' = dirty \ {b}
        /\ buf' = [r \in Recs |-> IF r \in RecsOf(b) THEN Junk ELSE buf[r]]
  BY DEF Evict
<1>2. disk' \in [Recs -> Contents] /\ errno' \in BOOLEAN
  BY <1>1, PutBlockTyped DEF TypeInv, TypeOK
<1>3. buf' \in [Recs -> Contents \ {None}]
  BY <1>1, ValuesAssumption DEF TypeInv, TypeOK, Contents
<1>4. open /\ UNCHANGED <<header, open, mode, lastBlk, lastLen, user, call, table>>
  BY DEF Evict
<1> QED
  BY <1>1, <1>2, <1>3, <1>4, WroteTyped DEF TypeInv, TypeOK

LEMMA FlushHdrTyped ==
  ASSUME TypeInv, FlushHdr
  PROVE  TypeInv'
<1> DEFINE flagNow == errno /\ ~H.Incomplete
           h == IF flagNow THEN [H EXCEPT !.Incomplete = TRUE] ELSE H
<1>1. /\ open /\ call \in CallType /\ call.op \in {"flush", "close"} /\ ~recChg
      /\ UNCHANGED <<disk, open, mode, cache, user, table>>
      /\ H \in HdrType /\ call.e \in BOOLEAN
  BY DEF FlushHdr, TypeInv, TypeOK, CallInv, CallType
<1>2. PICK e \in BOOLEAN :
        /\ \/ WriteHdr(h, flags, ~e)
           \/ e = errno /\ UNCHANGED <<header, errno>>
        /\ IF call.op = "flush" THEN Return(FlushAnswer(e))
           ELSE call' = [call EXCEPT !.pc = "eof", !.e = FlushAnswer(e)]
  <2>1. CASE flags.HdrChg \/ flagNow
    BY <2>1 DEF FlushHdr
  <2>2. CASE ~(flags.HdrChg \/ flagNow)
    BY <2>2 DEF FlushHdr, TypeInv, TypeOK
  <2> QED
    BY <2>1, <2>2
<1>3. h \in HdrType /\ h.NumRecs = H.NumRecs
  BY <1>1 DEF HdrType
<1>4. /\ H' \in HdrType /\ diskHdr' \in HdrType /\ errno' \in BOOLEAN
      /\ flags' \in [DOMAIN NoFlags -> BOOLEAN] /\ H'.NumRecs = H.NumRecs
  <2> HIDE DEF h
  <2>1. CASE WriteHdr(h, flags, ~e)
    BY <1>3, <2>1, WriteHdrTyped DEF TypeInv
  <2>2. CASE UNCHANGED <<header, errno>>
    BY <2>2 DEF header, TypeInv, TypeOK
  <2> QED
    BY <1>2, <2>1, <2>2
<1>5. /\ call' \in CallType
      /\ \/ call'.pc = "idle" /\ call'.op = "none"
         \/ call'.pc = "eof" /\ call'.op = "close"
  <2>1. FlushAnswer(e) \in BOOLEAN
    BY <1>1, <1>2 DEF FlushAnswer
  <2>2. CASE call.op = "flush"
    BY <1>2, <2>1, <2>2, ReturnTyped
  <2>3. CASE call.op = "close"
    BY <1>1, <1>2, <2>1, <2>3 DEF CallType
  <2> QED
    BY <1>1, <2>2, <2>3
<1>6. open' /\ ~recChg'
  BY <1>1 DEF user
<1>7. TypeOK'
  BY <1>1, <1>4, <1>5 DEF cache, user, CallType, TypeInv, TypeOK
<1>8. CallInv' /\ LenInv'
  BY <1>1, <1>4, <1>5, <1>6 DEF cache, user, TypeInv, CallInv, LenInv
<1> QED
  BY <1>7, <1>8 DEF TypeInv

\* The file is given up, by closing it or as the process ends.
LEMMA ForgetTyped ==
  ASSUME TypeInv, Forget, H' = diskHdr, table' = table, disk' \in [Recs -> Contents],
         NEW e \in BOOLEAN, Return(e)
  PROVE  TypeInv'
<1>1. call' \in CallType /\ call'.pc = "idle" /\ call'.op = "none"
  BY ReturnTyped
<1>2. flags' \in [DOMAIN NoFlags -> BOOLEAN]
  BY FlagsType DEF Forget, NoFlags
<1>3. open' = FALSE /\ errno' = FALSE /\ recChg' = FALSE
  BY DEF Forget
<1>4. /\ buf' \in [Recs -> Contents \ {None}] /\ rec' \in Contents \ {None} /\ recno' = 0
      /\ recno' \in 0..MaxRecs /\ cached' = {} /\ dirty' = {}
      /\ lastBlk' \in -1..(NumBlks - 1) /\ lastLen' \in 1..PerBlk
      /\ diskHdr' = diskHdr /\ H' = diskHdr /\ diskHdr \in HdrType /\ mode' \in Modes
  BY Bounds, SizeAssumption, ValuesAssumption DEF Forget, Contents, TypeInv, TypeOK
<1>5. TypeOK'
  <2>1. open' \in BOOLEAN /\ errno' \in BOOLEAN /\ recChg' \in BOOLEAN
    BY <1>3
  <2> QED
    BY <1>1, <1>2, <1>4, <2>1 DEF CallType, TypeInv, TypeOK
<1>6. CallInv' /\ LenInv'
  BY <1>1, <1>3, <1>4 DEF CallInv, LenInv, HdrType
<1> QED
  BY <1>5, <1>6 DEF TypeInv

LEMMA ReleaseTyped ==
  ASSUME TypeInv, Release
  PROVE  TypeInv'
<1>1. Forget /\ H' = diskHdr /\ table' = table
  BY DEF Release
<1>2. disk' \in [Recs -> Contents]
  BY DEF Release, Contents, TypeInv, TypeOK
<1>3. \E e \in BOOLEAN : Return(e)
  <2>1. (call.e \/ errno) \in BOOLEAN
    OBVIOUS
  <2> QED
    BY <2>1 DEF Release
<1> QED
  BY <1>1, <1>2, <1>3, ForgetTyped

LEMMA CrashTyped ==
  ASSUME TypeInv, Crash
  PROVE  TypeInv'
BY ForgetTyped DEF Crash, TypeInv, TypeOK

LEMMA TypeStep ==
  ASSUME TypeInv, [Next]_vars
  PROVE  TypeInv'
<1>1. CASE Next
  BY <1>1, OpenTyped, StartTyped, FlagTyped, CommitTyped, LoadTyped, AddTyped, AppendHdrTyped,
     UnflagTyped, FlushBlockTyped, FlushHdrTyped, ReleaseTyped, EvictTyped, CrashTyped
     DEF Next
<1>2. CASE UNCHANGED vars
  <2>1. TypeOK'
    BY <1>2 DEF vars, header, cache, user, TypeInv, TypeOK
  <2>2. CallInv' /\ LenInv'
    BY <1>2 DEF vars, header, cache, user, TypeInv, CallInv, LenInv
  <2> QED
    BY <2>1, <2>2 DEF TypeInv
<1> QED
  BY <1>1, <1>2

\* Types: no length or block number ever leaves the file's bounds, and at most
\* the last block is partly filled, whatever transfers fail, at whatever step
\* the process ends, and with any number of blocks of any size.
THEOREM FileTyped == Spec => []TypeOK
<1>1. Spec => []TypeInv
  BY InitTyped, TypeStep, PTL DEF Spec
<1>2. TypeInv => TypeOK
  BY DEF TypeInv
<1> QED
  BY <1>1, <1>2, PTL

-----------------------------------------------------------------------------
(* What the user stored, in the buffers and on disk, as long as failures are *)
(* those that are reported.                                                *)

\* A transfer of records that are in the file does not fail, and without
\* auto-flush mode none does.
LEMMA TransferOk ==
  ASSUME DInv, Reported, NEW b, NEW len, NEW c, NEW ok \in BOOLEAN, PutBlock(b, len, c, ok),
         mode = "auto" => \A r \in Written(b, len) : disk[r] # None
  PROVE  ok
<1>1. mode \in Modes
  BY DEF DInv, TypeInv, TypeOK
<1> QED
  BY <1>1 DEF Reported, PutBlock, MayFail

\* What the records the table holds are worth.
LEMMA TableFacts ==
  ASSUME DInv, open
  PROVE  /\ Len(table) = H.NumRecs /\ table \in Seq(Vals) /\ H.NumRecs \in Nat
         /\ 1..H.NumRecs \subseteq Recs /\ 1..diskHdr.NumRecs \subseteq 1..H.NumRecs
         /\ \A r \in 1..H.NumRecs :
              /\ table[r] \in Vals /\ table[r] # None
              /\ BlockOf(r) \in Blks /\ BlockOf(r) <= lastBlk
              /\ BlockOf(r) \in cached => buf[r] = table[r]
              /\ BlockOf(r) \notin dirty => disk[r] = table[r]
<1>1. /\ Len(table) = H.NumRecs /\ table \in Seq(Vals)
      /\ \A r \in 1..H.NumRecs :
              /\ BlockOf(r) \in cached => buf[r] = table[r]
              /\ BlockOf(r) \notin dirty => disk[r] = table[r]
  BY DEF DInv, TableInv
<1>2. H.NumRecs \in Nat /\ 1..H.NumRecs \subseteq Recs
      /\ (\A r \in Recs : r <= H.NumRecs => BlockOf(r) <= lastBlk)
  BY LastFacts DEF DInv
<1>3. 1..diskHdr.NumRecs \subseteq 1..H.NumRecs
  BY <1>2, Bounds DEF DInv, HdrInv, TypeInv, TypeOK, HdrType
<1>4. ASSUME NEW r \in 1..H.NumRecs
      PROVE  table[r] \in Vals /\ table[r] # None /\ BlockOf(r) \in Blks /\ BlockOf(r) <= lastBlk
  BY <1>1, <1>2, <1>4, ElementOfSeq, BlockFacts, ValuesAssumption
<1> QED
  BY <1>1, <1>2, <1>3, <1>4

\* A block as it is read into its buffer holds what the user has stored.
LEMMA FetchedCurrent ==
  ASSUME DInv, open, NEW b \in Blks, NEW r \in 1..H.NumRecs,
         BlockOf(r) = b \/ BlockOf(r) \in cached
  PROVE  Fetched(b)[r] = table[r]
<1>1. r \in Recs /\ (BlockOf(r) \in cached => buf[r] = table[r])
      /\ (BlockOf(r) \notin dirty => disk[r] = table[r])
  BY TableFacts
<1>2. CASE b \in cached
  BY <1>1, <1>2 DEF Fetched
<1>3. CASE b \notin cached
  <2>1. dirty \subseteq cached
    BY DEF DInv, TypeInv, TypeOK
  <2>2. CASE BlockOf(r) = b
    <3>1. r \in DataRecs(b)
      BY <1>1, <2>2, DataFacts DEF DInv, Blks
    <3> QED
      BY <1>1, <1>3, <2>1, <2>2, <3>1 DEF Fetched
  <2>3. CASE BlockOf(r) # b
    <3>1. r \notin DataRecs(b)
      BY <1>1, <2>3, DataFacts DEF DInv, Blks
    <3> QED
      BY <1>1, <1>3, <2>3, <3>1 DEF Fetched
  <2> QED
    BY <2>2, <2>3
<1> QED
  BY <1>2, <1>3

\* A block reaches the disk: its records are there, the others stay, and the
\* header on disk still covers none of junk.
LEMMA BlockWritten ==
  ASSUME DInv, open, NEW b \in Blks, NEW len, NEW c \in [Recs -> Contents \ {None}],
         PutBlock(b, len, c, TRUE),
         \A r \in 1..H.NumRecs : BlockOf(r) = b => r \in Written(b, len) /\ c[r] \in Vals
  PROVE  /\ \A r \in Written(b, len) : disk'[r] = c[r]
         /\ \A r \in Recs : disk[r] # None => disk'[r] # None
         /\ \A r \in Recs : BlockOf(r) # b /\ disk[r] # None => disk'[r] = disk[r]
         /\ \A r \in 1..diskHdr.NumRecs : disk'[r] \in Vals
<1>1. disk' = [r \in Recs |-> IF r \in Written(b, len) THEN c[r]
                              ELSE IF r <= b * PerBlk /\ disk[r] = None THEN Junk
                              ELSE disk[r]]
  BY DEF PutBlock
<1>2. \A r \in Written(b, len) : r \in Recs /\ BlockOf(r) = b
  BY DEF Written, RecsOf
<1>3. ASSUME NEW r \in 1..diskHdr.NumRecs PROVE disk'[r] \in Vals
  <2>1. r \in Recs /\ r \in 1..H.NumRecs /\ disk[r] \in Vals /\ disk[r] # None
    BY <1>3, TableFacts, ValuesAssumption DEF DInv, HeaderCovered
  <2> QED
    BY <1>1, <1>2, <2>1
<1> QED
  BY <1>1, <1>2, <1>3

\* A changed block stays in the cache, dirty or, in auto-flush mode, written.
LEMMA BlockKept ==
  ASSUME DInv, Reported, open, ~errno, NEW b \in Blks, NEW len,
         NEW c \in [Recs -> Contents \ {None}], NEW ok \in BOOLEAN, KeepBlock(b, len, c, ok),
         \A r \in 1..H.NumRecs : BlockOf(r) = b => r \in Written(b, len) /\ c[r] \in Vals,
         mode = "auto" => \A r \in Written(b, len) : disk[r] # None
  PROVE  /\ ok /\ ~errno' /\ buf' = c /\ cached' = cached \cup {b}
         /\ mode = "auto" => dirty' = {} /\ \A r \in Written(b, len) : disk'[r] = c[r]
         /\ mode # "auto" => dirty' = dirty \cup {b}
         /\ \A r \in Recs : disk[r] # None => disk'[r] # None
         /\ \A r \in Recs : BlockOf(r) # b /\ disk[r] # None => disk'[r] = disk[r]
         /\ \A r \in 1..diskHdr.NumRecs : disk'[r] \in Vals
<1>1. buf' = c /\ cached' = cached \cup {b}
  BY DEF KeepBlock
<1>2. CASE mode = "auto"
  <2>1. PutBlock(b, len, c, ok) /\ dirty' = dirty \ {b} /\ errno' = ~ok
    BY <1>2 DEF KeepBlock
  <2>2. ok
    BY <1>2, <2>1, TransferOk
  <2>3. PutBlock(b, len, c, TRUE)
    BY <2>1, <2>2
  <2>4. dirty' = {} /\ ~errno'
    BY <1>2, <2>1, <2>2 DEF DInv, BlockInv
  <2> QED
    BY <1>1, <1>2, <2>2, <2>3, <2>4, BlockWritten
<1>3. CASE mode # "auto"
  <2>1. ok /\ dirty' = dirty \cup {b} /\ disk' = disk /\ ~errno'
    BY <1>3 DEF KeepBlock
  <2> QED
    BY <1>1, <1>3, <2>1 DEF DInv, HeaderCovered
<1> QED
  BY <1>2, <1>3

\* The buffers hold the records and the new one.
LEMMA NewBufsCurrent ==
  ASSUME DInv, call.pc = "add"
  PROVE  /\ NewBufs(Junk)[NextRec] = call.val
         /\ \A r \in 1..H.NumRecs :
              BlockOf(r) \in cached \cup {NextBlk} => NewBufs(Junk)[r] = table[r]
<1>1. open /\ H.NumRecs < MaxRecs
  BY DEF DInv, TypeInv, CallInv
<1>2. /\ NextRec = H.NumRecs + 1 /\ NextRec \in Recs /\ NextBlk \in Blks
      /\ NextOff = 0 => NextBlk = lastBlk + 1
  BY <1>1, NextFacts DEF DInv
<1>3. ASSUME NEW r \in 1..H.NumRecs, BlockOf(r) \in cached \cup {NextBlk}
      PROVE  NewBufs(Junk)[r] = table[r]
  <2>1. /\ r \in Recs /\ r < NextRec /\ BlockOf(r) \in Int /\ BlockOf(r) <= lastBlk /\ lastBlk \in Int
        /\ BlockOf(r) \in cached => buf[r] = table[r]
    <3>1. /\ H.NumRecs \in Nat /\ r \in Recs /\ BlockOf(r) \in Blks /\ BlockOf(r) <= lastBlk
          /\ BlockOf(r) \in cached => buf[r] = table[r]
      BY <1>1, TableFacts
    <3>2. lastBlk \in Int
      BY <1>1, LastFacts DEF DInv
    <3> QED
      BY <1>2, <3>1, <3>2 DEF Blks
  <2>2. NewBufs(Junk)[r] = (IF NextOff = 0 THEN buf ELSE Fetched(NextBlk))[r]
    BY <1>2, <2>1 DEF NewBufs
  <2>3. CASE NextOff = 0
    BY <1>2, <1>3, <2>1, <2>2, <2>3
  <2>4. CASE NextOff # 0
    BY <1>1, <1>2, <1>3, <2>2, <2>4, FetchedCurrent
  <2> QED
    BY <2>3, <2>4
<1> QED
  BY <1>2, <1>3 DEF NewBufs

\* The records after an attempt to add one: those stored before, and the new
\* one if it could be added.
LEMMA AddedKept ==
  ASSUME DInv, Reported, call.pc = "add", NEW ok \in BOOLEAN,
         Extend(ok) \/ AddRec(ok) \/ (~ok /\ AddFails)
  PROVE  /\ ok => ~errno /\ ~errno' /\ flags'.HdrChg
                  /\ (BlockOf(NextRec) \in cached' => buf'[NextRec] = call.val)
                  /\ (BlockOf(NextRec) \notin dirty' => disk'[NextRec] = call.val)
         /\ ~ok => flags'.HdrChg = flags.HdrChg /\ (errno' \/ ~errno)
         /\ \A r \in 1..H.NumRecs : /\ BlockOf(r) \in cached' => buf'[r] = table[r]
                                    /\ BlockOf(r) \notin dirty' => disk'[r] = table[r]
         /\ \A r \in 1..diskHdr.NumRecs : disk'[r] \in Vals
         /\ \A b \in dirty' : b \in dirty \/ (b = NextBlk /\ ok)
         /\ mode = "auto" => dirty' = {}
         /\ flags'.BufWritten =>
              mode # "none" /\ \A r \in Recs : BlockOf(r) = lastBlk' => disk'[r] # None
         /\ ~ok /\ mode = "none" => errno'
<1>1. /\ open /\ H.NumRecs < MaxRecs /\ call.val \in Vals /\ TypeInv
  BY DEF DInv, TypeInv, CallInv
<1>2. /\ NextRec = H.NumRecs + 1 /\ NextRec \in Recs /\ NextBlk \in Blks
      /\ BlockOf(NextRec) = NextBlk /\ NextBlk * PerBlk \in Int
      /\ NextOff \in 0..(PerBlk - 1) /\ NextRec = NextBlk * PerBlk + NextOff + 1
      /\ NextOff # 0 => NextBlk = lastBlk
      /\ PerBlk \in Nat \ {0}
  BY <1>1, NextFacts, SizeAssumption
<1>3. flags \in [HdrChg : BOOLEAN, FileChg : BOOLEAN, FileSizChg : BOOLEAN, BufWritten : BOOLEAN]
  BY <1>1, FlagsType DEF TypeInv, TypeOK
<1> DEFINE c == NewBufs(Junk)
<1>4. /\ c[NextRec] = call.val
      /\ \A r \in 1..H.NumRecs : BlockOf(r) \in cached \cup {NextBlk} => c[r] = table[r]
  BY NewBufsCurrent
<1>5. CanAdd => c \in [Recs -> Contents \ {None}] /\ ~errno
  <2>1. Junk \in Contents \ {None}
    BY ValuesAssumption DEF Contents
  <2> QED
    BY <1>1, <2>1, NewBufsTyped DEF CanAdd, GetOk
<1> HIDE DEF c
<1>6. /\ dirty \subseteq cached
      /\ mode = "auto" => dirty = {}
      /\ flags.BufWritten =>
           mode # "none" /\ \A r \in Recs : BlockOf(r) = lastBlk => disk[r] # None
      /\ \A r \in 1..H.NumRecs : /\ r \in Recs /\ table[r] \in Vals /\ table[r] # None
                                 /\ BlockOf(r) \in cached => buf[r] = table[r]
                                 /\ BlockOf(r) \notin dirty => disk[r] = table[r]
  BY <1>1, TableFacts DEF DInv, BlockInv, TypeInv, TypeOK
<1>7. CASE Extend(ok)
  <2>1. /\ CanAdd /\ MustExtend
        /\ buf' = c /\ cached' = cached \cup {NextBlk} /\ dirty' = dirty \ {NextBlk}
        /\ PutBlock(NextBlk, PerBlk, c, ok) /\ ~errno'
        /\ flags'.HdrChg = (flags.HdrChg \/ ok) /\ flags'.BufWritten = (flags.BufWritten \/ ok)
        /\ lastBlk' = IF ok THEN NextBlk ELSE lastBlk
    BY <1>3, <1>7 DEF Extend, c
  <2>2. ~errno /\ mode # "none"
    BY <1>5, <2>1 DEF MustExtend
  <2>3. CASE ok
    <3>1. \A r \in Recs : BlockOf(r) = NextBlk => r \in Written(NextBlk, PerBlk)
      BY BlockFacts DEF Written, RecsOf
    <3>2. PutBlock(NextBlk, PerBlk, c, TRUE)
      BY <2>1, <2>3
    <3>3. \A r \in 1..H.NumRecs :
            BlockOf(r) = NextBlk => r \in Written(NextBlk, PerBlk) /\ c[r] \in Vals
      BY <1>4, <1>6, <3>1
    <3>4. /\ \A r \in Written(NextBlk, PerBlk) : disk'[r] = c[r]
          /\ \A r \in Recs : BlockOf(r) # NextBlk /\ disk[r] # None => disk'[r] = disk[r]
          /\ \A r \in 1..diskHdr.NumRecs : disk'[r] \in Vals
      <4>1. open /\ NextBlk \in Blks
        BY <1>1, <1>2
      <4>2. c \in [Recs -> Contents \ {None}]
        BY <1>5, <2>1
      <4> QED
        BY <3>2, <3>3, <4>1, <4>2, BlockWritten
    <3>5. \A r \in 1..H.NumRecs : BlockOf(r) \notin dirty' => disk'[r] = table[r]
      BY <1>4, <1>6, <2>1, <3>1, <3>4
    <3>6. \A r \in Recs : BlockOf(r) = lastBlk' => disk'[r] # None
      BY <1>5, <2>1, <2>3, <3>1, <3>4
    <3> QED
      BY <1>2, <1>4, <1>6, <2>1, <2>2, <2>3, <3>1, <3>4, <3>5, <3>6
  <2>4. CASE ~ok
    <3>1. disk' = disk
      BY <2>1, <2>4 DEF PutBlock
    <3>2. mode = "auto"
      <4>1. mode # "auto" => ok
        BY <2>1, TransferOk
      <4> QED
        BY <2>4, <4>1
    <3>3. \A r \in 1..diskHdr.NumRecs : disk'[r] \in Vals
      BY <3>1 DEF DInv, HeaderCovered
    <3>4. flags'.HdrChg = flags.HdrChg /\ flags'.BufWritten = flags.BufWritten
      BY <1>3, <2>1, <2>4
    <3>5. lastBlk' = lastBlk /\ dirty' = {}
      BY <1>6, <2>1, <2>4, <3>2
    <3> QED
      BY <1>4, <1>6, <2>1, <2>2, <2>4, <3>1, <3>2, <3>3, <3>4, <3>5
  <2> QED
    BY <2>3, <2>4
<1>8. CASE AddRec(ok)
  <2>1. /\ CanAdd /\ ~MustExtend /\ KeepBlock(NextBlk, NextOff + 1, c, ok)
        /\ flags'.HdrChg = (flags.HdrChg \/ ok) /\ flags'.BufWritten = flags.BufWritten
        /\ lastBlk' = NextBlk
    BY <1>3, <1>8 DEF AddRec, c
  <2>2. \A r \in Written(NextBlk, NextOff + 1) : r \in Recs /\ BlockOf(r) = NextBlk
    BY DEF Written, RecsOf
  <2>3. NextRec \in Written(NextBlk, NextOff + 1)
    BY <1>2 DEF Written, RecsOf
  <2>4. mode # "none" => NextBlk = lastBlk /\ flags.BufWritten
    BY <1>2, <2>1 DEF MustExtend
  <2>5. mode = "auto" => \A r \in Written(NextBlk, NextOff + 1) : disk[r] # None
    BY <1>6, <2>2, <2>4
  <2>6. \A r \in 1..H.NumRecs : BlockOf(r) = NextBlk =>
          r \in Written(NextBlk, NextOff + 1) /\ c[r] \in Vals
    <3>1. ASSUME NEW r \in 1..H.NumRecs, BlockOf(r) = NextBlk
          PROVE  r \in Recs /\ r <= NextBlk * PerBlk + (NextOff + 1) /\ c[r] \in Vals
      <4>1. H.NumRecs \in Nat
        BY <1>1, LastFacts
      <4> QED
        BY <1>2, <1>4, <1>6, <3>1, <4>1
    <3> QED
      BY <3>1 DEF Written, RecsOf
  <2>7. /\ ok /\ ~errno' /\ buf' = c /\ cached' = cached \cup {NextBlk}
        /\ mode = "auto" => dirty' = {} /\ \A r \in Written(NextBlk, NextOff + 1) : disk'[r] = c[r]
        /\ mode # "auto" => dirty' = dirty \cup {NextBlk}
        /\ \A r \in Recs : disk[r] # None => disk'[r] # None
        /\ \A r \in Recs : BlockOf(r) # NextBlk /\ disk[r] # None => disk'[r] = disk[r]
        /\ \A r \in 1..diskHdr.NumRecs : disk'[r] \in Vals
    <3>1. open /\ ~errno /\ NextBlk \in Blks
      BY <1>1, <1>2, <1>5, <2>1
    <3>2. c \in [Recs -> Contents \ {None}] /\ KeepBlock(NextBlk, NextOff + 1, c, ok)
      BY <1>5, <2>1
    <3> QED
      BY <2>5, <2>6, <3>1, <3>2, BlockKept
  <2>8. \A r \in 1..H.NumRecs : BlockOf(r) \notin dirty' => disk'[r] = table[r]
    BY <1>4, <1>6, <2>6, <2>7
  <2>9. flags'.BufWritten =>
          mode # "none" /\ \A r \in Recs : BlockOf(r) = lastBlk' => disk'[r] # None
    BY <1>6, <2>1, <2>4, <2>7
  <2> QED
    BY <1>2, <1>4, <1>5, <1>6, <2>1, <2>3, <2>7, <2>8, <2>9
<1>9. CASE ~ok /\ AddFails
  <2>1. /\ ~ok /\ errno' /\ UNCHANGED <<disk, cached, dirty, buf, lastBlk>>
        /\ flags'.HdrChg = flags.HdrChg /\ flags'.BufWritten = flags.BufWritten
    BY <1>3, <1>9 DEF AddFails, cache
  <2> QED
    BY <1>6, <2>1 DEF DInv, HeaderCovered
<1> QED
  BY <1>7, <1>8, <1>9

\* What the user stored does not change unless records or blocks do.
LEMMA TableFrame ==
  ASSUME DInv, UNCHANGED <<disk, open, mode, cached, dirty, buf, lastBlk, table>>,
         H'.NumRecs = H.NumRecs, flags'.BufWritten = flags.BufWritten
  PROVE  TableInv' /\ BlockInv'
<1>1. TableInv'
  BY DEF DInv, TableInv
<1>2. BlockInv'
  BY DEF DInv, BlockInv
<1> QED
  BY <1>1, <1>2

LEMMA OpenKept ==
  ASSUME DInv, NEW m \in Modes, NEW force \in BOOLEAN, Open(m, force)
  PROVE  DInv'
<1>1. /\ ~open /\ open' = TRUE /\ mode' = m /\ H' = diskHdr /\ errno' = FALSE
      /\ UNCHANGED <<disk, diskHdr, cached, dirty, buf, rec, recno, recChg, call>>
      /\ table' = SubSeq(disk, 1, diskHdr.NumRecs)
      /\ cached = {} /\ dirty = {} /\ recno = 0 /\ recChg = FALSE
      /\ call.pc = "idle" /\ call.op = "none"
      /\ ~flags'.BufWritten /\ ~flags'.HdrChg
  BY DEF Open, user, NoFlags, DInv, TypeInv, TypeOK, CallInv, LenInv
<1>2. diskHdr.NumRecs \in Nat /\ \A r \in 1..diskHdr.NumRecs : disk[r] \in Vals
  BY Bounds DEF DInv, HeaderCovered, TypeInv, TypeOK, HdrType
<1>3. /\ table' \in Seq(Vals) /\ Len(table') = diskHdr.NumRecs
      /\ \A r \in 1..diskHdr.NumRecs : table'[r] = disk[r]
  BY <1>1, <1>2, SubSeqProperties
<1>4. TypeInv'
  BY OpenTyped DEF DInv
<1>5. TableInv' /\ HeaderCovered'
  BY <1>1, <1>2, <1>3 DEF TableInv, HeaderCovered
<1>6. BlockInv' /\ CopyInv'
  BY <1>1 DEF BlockInv, CopyInv
<1>7. HdrInv'
  BY <1>1, <1>2 DEF HdrInv
<1>8. FlagInv'
  BY <1>1 DEF FlagInv
<1> QED
  BY <1>4, <1>5, <1>6, <1>7, <1>8 DEF DInv

LEMMA StartKept ==
  ASSUME DInv,
         \/ \E pos \in Recs : Go(pos)
         \/ \E v \in Vals : PutRec(v) \/ AppendRec(v)
         \/ Flush \/ Close
  PROVE  DInv'
<1>1. PICK op, pc, pos, v :
        /\ Start(op, pc, pos, v)
        /\ pc = "flag" <=> op \in {"put", "append"}
        /\ pc \in {"flag", "commit"}
  BY DEF Go, PutRec, AppendRec, Flush, Close
<1>2. /\ UNCHANGED <<disk, diskHdr, H, flags, open, mode, cached, dirty, buf, lastBlk, errno,
                     rec, recno, recChg, table>>
      /\ open /\ call.pc = "idle" /\ call'.pc = pc /\ call'.op = op
  BY <1>1 DEF Start, header, cache, user
<1>3. TypeInv'
  BY StartTyped DEF DInv
<1>4. TableInv' /\ BlockInv'
  BY <1>2, TableFrame
<1>5. CopyInv' /\ HeaderCovered'
  BY <1>2 DEF DInv, CopyInv, HeaderCovered
<1>6. HdrInv'
  BY <1>1, <1>2 DEF DInv, HdrInv
<1>7. FlagInv'
  BY <1>1, <1>2 DEF DInv, FlagInv
<1> QED
  BY <1>3, <1>4, <1>5, <1>6, <1>7 DEF DInv

LEMMA FlagKept ==
  ASSUME DInv, Flag
  PROVE  DInv'
<1>1. /\ UNCHANGED <<disk, open, mode, cached, dirty, buf, lastBlk, table>>
      /\ call.pc = "flag" /\ call.op \in {"put", "append"} /\ open
      /\ flags \in [HdrChg : BOOLEAN, FileChg : BOOLEAN, FileSizChg : BOOLEAN, BufWritten : BOOLEAN]
      /\ H \in HdrType /\ diskHdr \in HdrType /\ recChg \in BOOLEAN /\ errno \in BOOLEAN
  BY FlagsType DEF Flag, cache, DInv, TypeInv, TypeOK, CallInv
<1>2. /\ ~MustFlag => UNCHANGED <<diskHdr, H, flags, errno>> /\ Proceed
      /\ MustFlag => \E ok \in BOOLEAN :
           /\ H' = [H EXCEPT !.Incomplete = TRUE]
           /\ diskHdr' = (IF ok THEN H' ELSE diskHdr)
           /\ flags' = [flags EXCEPT !.HdrChg = FALSE, !.FileChg = TRUE]
           /\ errno' = ~ok
           /\ IF ok THEN Proceed ELSE Return(TRUE) /\ UNCHANGED user
  BY DEF Flag, WriteHdr, header
<1>3. /\ recno' = recno /\ rec' \in {rec, call.val}
      /\ \/ call'.pc = "idle" /\ call'.op = "none" /\ (recChg' => recChg \/ Proceed)
         \/ call'.pc = "commit" /\ call'.op = "append" /\ recChg' = recChg /\ Proceed
      /\ ~recChg' => ~recChg /\ rec' = rec
  <2>1. CASE Return(TRUE) /\ UNCHANGED user
    BY <2>1, ReturnTyped DEF user
  <2>2. CASE Proceed /\ call.op = "put"
    BY <2>2, ReturnTyped DEF Proceed, MarkRec, user
  <2>3. CASE Proceed /\ call.op = "append"
    BY <2>3, GotoTyped DEF Proceed, user, CallType, DInv, TypeInv, TypeOK
  <2> QED
    BY <1>1, <1>2, <2>1, <2>2, <2>3
<1>4. TypeInv'
  BY FlagTyped DEF DInv
<1>5. H'.NumRecs = H.NumRecs /\ flags'.BufWritten = flags.BufWritten
  BY <1>1, <1>2 DEF HdrType
<1>6. TableInv' /\ BlockInv'
  BY <1>1, <1>5, TableFrame
<1>7. CopyInv'
  BY <1>1, <1>3 DEF DInv, CopyInv
<1>8. HeaderCovered' /\ HdrInv' /\ FlagInv'
  <2>1. CASE ~MustFlag
    <3>1. UNCHANGED <<diskHdr, H, flags, errno>> /\ Proceed
      BY <1>2, <2>1
    <3>2. HeaderCovered' /\ HdrInv'
      BY <1>1, <1>3, <3>1 DEF DInv, HeaderCovered, HdrInv
    <3>3. mode = "none" => H.Incomplete
      BY <2>1 DEF MustFlag
    <3>4. FlagInv'
      BY <1>1, <1>3, <3>1, <3>3 DEF DInv, FlagInv
    <3> QED
      BY <3>2, <3>4
  <2>2. CASE MustFlag
    <3>1. PICK ok \in BOOLEAN :
           /\ H' = [H EXCEPT !.Incomplete = TRUE]
           /\ diskHdr' = (IF ok THEN H' ELSE diskHdr)
           /\ flags' = [flags EXCEPT !.HdrChg = FALSE, !.FileChg = TRUE]
           /\ errno' = ~ok
           /\ IF ok THEN Proceed ELSE Return(TRUE) /\ UNCHANGED user
      BY <1>2, <2>2
    \* The header was neither flagged in memory nor on disk, so that nothing
    \* was changed and nothing is missing.
    <3>2. /\ mode = "none" /\ ~H.Incomplete /\ ~diskHdr.Incomplete
          /\ dirty = {} /\ H.NumRecs = diskHdr.NumRecs /\ ~recChg
      BY <1>1, <2>2 DEF MustFlag, DInv, FlagInv
    <3>3. /\ H'.NumRecs = H.NumRecs /\ H'.Incomplete /\ diskHdr'.NumRecs = diskHdr.NumRecs
          /\ diskHdr'.Incomplete = ok
      BY <1>1, <3>1, <3>2 DEF HdrType
    <3>4. HeaderCovered'
      BY <1>1, <3>3 DEF DInv, HeaderCovered
    <3>5. HdrInv'
      BY <1>1, <1>3, <3>2, <3>3 DEF DInv, HdrInv
    <3>6. ~ok => errno' /\ call'.pc = "idle"
      BY <3>1, ReturnTyped
    <3>7. FlagInv'
      BY <1>1, <3>2, <3>3, <3>6 DEF FlagInv
    <3> QED
      BY <3>4, <3>5, <3>7
  <2> QED
    BY <2>1, <2>2
<1> QED
  BY <1>4, <1>6, <1>7, <1>8 DEF DInv

\* The current record is committed: the buffer, the disk and what the user has
\* stored change together.
LEMMA CommitOkKept ==
  ASSUME DInv, Reported, call.pc = "commit", NEW ok \in BOOLEAN, CommitOk(ok)
  PROVE  /\ ok /\ ~errno /\ ~errno' /\ recno \in 1..H.NumRecs
         /\ table' \in Seq(Vals) /\ Len(table') = Len(table) /\ table'[recno] = rec
         /\ \A r \in 1..H.NumRecs : /\ BlockOf(r) \in cached' => buf'[r] = table'[r]
                                    /\ BlockOf(r) \notin dirty' => disk'[r] = table'[r]
         /\ \A r \in 1..diskHdr.NumRecs : disk'[r] \in Vals
         /\ \A b \in dirty' : b \in dirty \/ b <= lastBlk
         /\ mode = "auto" => dirty' = {}
         /\ \A r \in Recs : disk[r] # None => disk'[r] # None
         /\ lastBlk' = lastBlk
<1> DEFINE b == BlockOf(recno)  c == [Fetched(b) EXCEPT ![recno] = rec]
           len == DataLen(b, lastBlk, lastLen)
<1>1. /\ open /\ recChg /\ ~errno /\ recno \in 1..H.NumRecs /\ rec \in Vals /\ recno \in Recs
      /\ KeepBlock(b, len, c, ok) /\ GetOk(b) /\ lastBlk' = lastBlk
      /\ table' = IF ok THEN [table EXCEPT ![recno] = rec] ELSE table
  <2>1. /\ recChg /\ GetOk(b) /\ KeepBlock(b, len, c, ok) /\ lastBlk' = lastBlk
        /\ table' = IF ok THEN [table EXCEPT ![recno] = rec] ELSE table
    BY DEF CommitOk
  <2>2. open /\ recno \in 1..H.NumRecs /\ rec \in Vals
    BY <2>1, Bounds DEF DInv, TypeInv, TypeOK, CallInv, LenInv, HdrType
  <2> QED
    BY <2>1, <2>2, TableFacts DEF GetOk
<1>2. b \in Blks /\ b \in Int /\ b <= lastBlk /\ dirty \subseteq cached /\ lastBlk \in Int
  BY <1>1, TableFacts DEF Blks, DInv, TypeInv, TypeOK
<1>3. Fetched(b) \in [Recs -> Contents \ {None}]
  BY <1>1, FetchedTyped DEF DInv, TypeInv
<1>4. c \in [Recs -> Contents \ {None}] /\ c[recno] = rec
      /\ \A r \in Recs : r # recno => c[r] = Fetched(b)[r]
  <2>1. rec \in Contents \ {None}
    BY <1>1, ValuesAssumption DEF Contents
  <2> QED
    BY <1>1, <1>3, <2>1
<1>5. /\ \A r \in 1..H.NumRecs :
           /\ BlockOf(r) \notin dirty => disk[r] = table[r]
           /\ BlockOf(r) = b \/ BlockOf(r) \in cached => c[r] = IF r = recno THEN rec ELSE table[r]
      /\ \A r \in 1..H.NumRecs : r \in Recs /\ table[r] \in Vals /\ table[r] # None
      /\ Len(table) = H.NumRecs /\ table \in Seq(Vals)
  BY <1>1, <1>2, <1>4, TableFacts, FetchedCurrent
<1>6. \A r \in Recs : /\ r \in Written(b, len) => BlockOf(r) = b /\ r <= H.NumRecs
                      /\ BlockOf(r) = b /\ r <= H.NumRecs => r \in Written(b, len)
  BY <1>1, <1>2, DataFacts DEF DataRecs, DInv
<1>7. mode = "auto" => \A r \in Written(b, len) : disk[r] # None
  <2>1. ASSUME mode = "auto", NEW r \in Written(b, len) PROVE disk[r] # None
    <3>1. dirty = {}
      BY <1>1, <2>1 DEF DInv, BlockInv
    <3>2. r \in Recs /\ r <= H.NumRecs /\ r \in 1..H.NumRecs
      BY <1>1, <1>6, LastFacts, BlockFacts DEF Written, RecsOf, DInv
    <3> QED
      BY <1>5, <3>1, <3>2
  <2> QED
    BY <2>1
<1>8. \A r \in 1..H.NumRecs : BlockOf(r) = b => r \in Written(b, len) /\ c[r] \in Vals
  BY <1>1, <1>5, <1>6
<1> HIDE DEF c, len
<1>9. /\ ok /\ ~errno' /\ buf' = c /\ cached' = cached \cup {b}
      /\ mode = "auto" => dirty' = {} /\ \A r \in Written(b, len) : disk'[r] = c[r]
      /\ mode # "auto" => dirty' = dirty \cup {b}
      /\ \A r \in Recs : disk[r] # None => disk'[r] # None
      /\ \A r \in Recs : BlockOf(r) # b /\ disk[r] # None => disk'[r] = disk[r]
      /\ \A r \in 1..diskHdr.NumRecs : disk'[r] \in Vals
  <2> HIDE DEF b
  <2> QED
    BY <1>1, <1>2, <1>4, <1>7, <1>8, BlockKept
<1>10. /\ table' \in Seq(Vals) /\ Len(table') = Len(table)
       /\ \A r \in 1..H.NumRecs : table'[r] = IF r = recno THEN rec ELSE table[r]
  BY <1>1, <1>5, <1>9, ExceptSeq
<1>11. \A r \in 1..H.NumRecs : /\ BlockOf(r) \in cached' => buf'[r] = table'[r]
                               /\ BlockOf(r) \notin dirty' => disk'[r] = table'[r]
  <2>1. ASSUME NEW r \in 1..H.NumRecs, BlockOf(r) \in cached' PROVE buf'[r] = table'[r]
    BY <1>5, <1>9, <1>10, <2>1
  <2>2. ASSUME NEW r \in 1..H.NumRecs, BlockOf(r) \notin dirty' PROVE disk'[r] = table'[r]
    <3>1. CASE BlockOf(r) = b
      BY <1>5, <1>8, <1>9, <1>10, <2>2, <3>1
    <3>2. CASE BlockOf(r) # b
      <4>1. BlockOf(r) \notin dirty
        BY <1>1, <1>9, <2>2, <3>2 DEF DInv, BlockInv
      <4>2. r # recno
        BY <3>2
      <4> QED
        BY <1>5, <1>9, <1>10, <2>2, <3>2, <4>1, <4>2
    <3> QED
      BY <3>1, <3>2
  <2> QED
    BY <2>1, <2>2
<1> QED
  BY <1>1, <1>2, <1>9, <1>10, <1>11

LEMMA CommitKept ==
  ASSUME DInv, Reported, Commit
  PROVE  DInv'
<1>1. /\ call.pc = "commit" /\ open /\ H' = H /\ diskHdr' = diskHdr
      /\ UNCHANGED <<open, mode>>
      /\ flags \in [HdrChg : BOOLEAN, FileChg : BOOLEAN, FileSizChg : BOOLEAN, BufWritten : BOOLEAN]
      /\ recChg \in BOOLEAN /\ errno \in BOOLEAN
  BY FlagsType DEF Commit, DInv, TypeInv, TypeOK, CallInv
<1>2. TypeInv'
  BY CommitTyped DEF DInv
<1>3. TypeInv
  BY DEF DInv
<1>4. CASE /\ ~recChg
           /\ Committed(FALSE)
           /\ UNCHANGED <<disk, cache, errno, user, flags, table>>
  <2>1. /\ UNCHANGED <<disk, cached, dirty, buf, lastBlk, errno, rec, recno, recChg, flags, table>>
        /\ ~recChg
    BY <1>4 DEF cache, user
  <2>2. /\ call'.pc # "idle" => call'.op = call.op
        /\ call'.pc = "idle" => call'.op = "none"
        /\ call'.pc \in {"idle", "csf", "unflag", "add", "load"}
    BY <1>1, <1>3, <1>4, CommittedCall
  <2>3. TableInv' /\ BlockInv'
    BY <1>1, <2>1, TableFrame
  <2>4. CopyInv' /\ HeaderCovered'
    BY <1>1, <2>1 DEF DInv, CopyInv, HeaderCovered
  <2>5. HdrInv'
    BY <1>1, <2>1, <2>2 DEF DInv, HdrInv
  <2>6. FlagInv'
    BY <1>1, <2>1, <2>2 DEF DInv, FlagInv
  <2> QED
    BY <1>2, <2>3, <2>4, <2>5, <2>6 DEF DInv
<1>5. ASSUME NEW ok \in BOOLEAN, CommitOk(ok) \/ (~ok /\ CommitFails), Committed(~ok),
             recno' = (IF ok THEN recno ELSE 0), recChg' = FALSE, rec' = rec,
             flags' = [flags EXCEPT !.FileChg = @ \/ ~errno]
      PROVE  DInv'
  <2>1. /\ call'.pc # "idle" => call'.op = call.op
        /\ call'.pc = "idle" => call'.op = "none"
        /\ call'.pc \in {"idle", "csf", "unflag", "add", "load"}
    BY <1>1, <1>3, <1>5, CommittedCall
  <2>2. recChg /\ flags'.HdrChg = flags.HdrChg /\ flags'.BufWritten = flags.BufWritten
    BY <1>1, <1>5 DEF CommitOk, CommitFails
  <2>3. CASE CommitOk(ok)
    <3>1. /\ ok /\ ~errno /\ ~errno' /\ recno \in 1..H.NumRecs
          /\ table' \in Seq(Vals) /\ Len(table') = Len(table) /\ table'[recno] = rec
          /\ \A r \in 1..H.NumRecs : /\ BlockOf(r) \in cached' => buf'[r] = table'[r]
                                     /\ BlockOf(r) \notin dirty' => disk'[r] = table'[r]
          /\ \A r \in 1..diskHdr.NumRecs : disk'[r] \in Vals
          /\ \A b \in dirty' : b \in dirty \/ b <= lastBlk
          /\ mode = "auto" => dirty' = {}
          /\ \A r \in Recs : disk[r] # None => disk'[r] # None
          /\ lastBlk' = lastBlk
      BY <1>1, <2>3, CommitOkKept
    <3>2. Len(table) = H.NumRecs
      BY <1>1, TableFacts
    <3>3. TableInv' /\ HeaderCovered'
      BY <1>1, <3>1, <3>2 DEF TableInv, HeaderCovered
    <3>4. BlockInv'
      BY <1>1, <2>2, <3>1 DEF DInv, BlockInv
    <3>5. CopyInv'
      BY <1>1, <1>5, <3>1 DEF CopyInv
    <3>6. HdrInv'
      BY <1>1, <2>1, <2>2, <3>1 DEF DInv, HdrInv
    \* Without a flush mode, the flag is on disk.
    <3>7. mode = "none" => H.Incomplete /\ diskHdr.Incomplete
      BY <1>1, <2>2, <3>1 DEF DInv, FlagInv
    <3>8. FlagInv'
      BY <1>1, <1>5, <2>1, <3>7 DEF FlagInv
    <3> QED
      BY <1>2, <3>3, <3>4, <3>5, <3>6, <3>8 DEF DInv
  <2>4. CASE ~ok /\ CommitFails
    <3>1. /\ errno' /\ UNCHANGED <<disk, cached, dirty, buf, lastBlk, table>> /\ recno' = 0
      BY <1>5, <2>4 DEF CommitFails, cache
    <3>2. TableInv' /\ BlockInv'
      BY <1>1, <2>2, <3>1, TableFrame
    <3>3. CopyInv' /\ HeaderCovered'
      BY <1>1, <3>1 DEF DInv, CopyInv, HeaderCovered
    <3>4. HdrInv'
      BY <1>1, <2>1, <2>2, <3>1 DEF DInv, HdrInv
    <3>5. FlagInv'
      BY <1>1, <1>5, <2>1, <2>2, <3>1 DEF DInv, FlagInv
    <3> QED
      BY <1>2, <3>2, <3>3, <3>4, <3>5 DEF DInv
  <2> QED
    BY <1>5, <2>3, <2>4
<1> QED
  BY <1>4, <1>5 DEF Commit

LEMMA LoadKept ==
  ASSUME DInv, Load
  PROVE  DInv'
<1> DEFINE b == BlockOf(call.pos)
<1>1. /\ UNCHANGED <<disk, diskHdr, H, flags, open, mode, dirty, lastBlk, recChg, table>>
      /\ open /\ call.pc = "load" /\ call.pos \in 1..H.NumRecs /\ ~recChg
  BY DEF Load, header, DInv, TypeInv, CallInv
<1>2. TypeInv'
  BY LoadTyped DEF DInv
<1>3. /\ b \in Blks /\ Len(table) = H.NumRecs /\ table \in Seq(Vals)
      /\ \A r \in 1..H.NumRecs : /\ BlockOf(r) \in cached => buf[r] = table[r]
                                 /\ BlockOf(r) \notin dirty => disk[r] = table[r]
  BY <1>1, TableFacts
<1>4. /\ \A r \in 1..H.NumRecs : BlockOf(r) \in cached' => buf'[r] = table[r]
      /\ recno' # 0 => rec' = table[recno']
      /\ errno' \/ (~errno /\ ~errno')
      /\ call'.pc = "idle" /\ call'.op = "none"
  <2>1. CASE /\ GetOk(b)
             /\ buf' = Fetched(b) /\ cached' = cached \cup {b}
             /\ rec' = buf'[call.pos] /\ recno' = call.pos
             /\ Return(FALSE)
             /\ UNCHANGED errno
    <3>1. \A r \in 1..H.NumRecs : BlockOf(r) \in cached' => buf'[r] = table[r]
      BY <1>1, <1>3, <2>1, FetchedCurrent
    <3>2. rec' = table[recno']
      BY <1>1, <2>1, <3>1
    <3>3. ~errno /\ ~errno'
      BY <2>1 DEF GetOk
    <3> QED
      BY <2>1, <3>1, <3>2, <3>3, ReturnTyped
  <2>2. CASE recno' = 0 /\ errno' = TRUE /\ Return(TRUE) /\ UNCHANGED <<buf, cached, rec>>
    BY <1>3, <2>2, ReturnTyped
  <2> QED
    BY <2>1, <2>2 DEF Load
<1>5. TableInv' /\ CopyInv' /\ HeaderCovered'
  <2>1. TableInv'
    BY <1>1, <1>3, <1>4 DEF TableInv
  <2> QED
    BY <1>1, <1>4, <2>1 DEF DInv, CopyInv, HeaderCovered
<1>6. BlockInv'
  BY <1>1 DEF DInv, BlockInv
<1>7. HdrInv'
  BY <1>1, <1>4 DEF DInv, HdrInv
<1>8. FlagInv'
  BY <1>1, <1>4 DEF DInv, FlagInv
<1> QED
  BY <1>2, <1>5, <1>6, <1>7, <1>8 DEF DInv

LEMMA AddKept ==
  ASSUME DInv, Reported, Add
  PROVE  DInv'
<1>1. PICK ok \in BOOLEAN :
        /\ Extend(ok) \/ AddRec(ok) \/ (~ok /\ AddFails)
        /\ recno' = (IF ok THEN H.NumRecs + 1 ELSE 0)
        /\ rec' = call.val
        /\ H' = (IF ok THEN [H EXCEPT !.NumRecs = @ + 1] ELSE H)
        /\ table' = (IF ok THEN Append(table, call.val) ELSE table)
        /\ IF ok /\ mode = "auto" THEN Goto("hdr") ELSE Return(~ok)
  BY DEF Add, Position
<1>2. /\ call.pc = "add" /\ call.op = "append" /\ open /\ open' /\ open' = open
      /\ mode' = mode /\ diskHdr' = diskHdr
      /\ recChg' = recChg /\ ~recChg /\ call.val \in Vals /\ H \in HdrType
      /\ H.NumRecs < MaxRecs /\ call \in CallType /\ lastBlk \in Int /\ dirty \subseteq Blks
  BY DEF Add, DInv, TypeInv, TypeOK, CallInv, CallType
<1>3. TypeInv'
  BY AddTyped DEF DInv
<1>4. /\ ok => ~errno /\ ~errno' /\ flags'.HdrChg
                  /\ (BlockOf(NextRec) \in cached' => buf'[NextRec] = call.val)
                  /\ (BlockOf(NextRec) \notin dirty' => disk'[NextRec] = call.val)
      /\ ~ok => flags'.HdrChg = flags.HdrChg /\ (errno' \/ ~errno)
      /\ \A r \in 1..H.NumRecs : /\ BlockOf(r) \in cached' => buf'[r] = table[r]
                                 /\ BlockOf(r) \notin dirty' => disk'[r] = table[r]
      /\ \A r \in 1..diskHdr.NumRecs : disk'[r] \in Vals
      /\ \A b \in dirty' : b \in dirty \/ (b = NextBlk /\ ok)
      /\ mode = "auto" => dirty' = {}
      /\ flags'.BufWritten =>
           mode # "none" /\ \A r \in Recs : BlockOf(r) = lastBlk' => disk'[r] # None
      /\ ~ok /\ mode = "none" => errno'
  BY <1>1, <1>2, AddedKept
<1>5. /\ ok => lastBlk' = NextBlk
      /\ ~ok => lastBlk' = lastBlk
  BY <1>1, <1>2, AddedTyped DEF DInv
<1>6. /\ NextRec = H.NumRecs + 1 /\ NextBlk \in Int /\ lastBlk <= NextBlk
      /\ H.NumRecs \in Nat
  <2>1. TypeInv
    BY DEF DInv
  <2>2. /\ NextRec = H.NumRecs + 1 /\ NextBlk \in Blks
        /\ (NextOff = 0 => NextBlk = lastBlk + 1) /\ (NextOff # 0 => NextBlk = lastBlk)
    BY <1>2, <2>1, NextFacts
  <2>3. H.NumRecs \in Nat
    BY <1>2, Bounds DEF HdrType
  <2> QED
    BY <1>2, <2>2, <2>3 DEF Blks
<1>7. /\ H'.NumRecs = (IF ok THEN H.NumRecs + 1 ELSE H.NumRecs)
      /\ H'.Incomplete = H.Incomplete
  BY <1>1, <1>2 DEF HdrType
<1>8. /\ table' \in Seq(Vals) /\ Len(table') = H'.NumRecs
      /\ \A r \in 1..H.NumRecs : table'[r] = table[r]
      /\ ok => table'[H.NumRecs + 1] = call.val
  <2>1. table \in Seq(Vals) /\ Len(table) = H.NumRecs
    BY <1>2, TableFacts
  <2> QED
    BY <1>1, <1>2, <1>7, <2>1
<1>9. /\ call'.pc = (IF ok /\ mode = "auto" THEN "hdr" ELSE "idle")
      /\ call'.pc = "idle" => call'.op = "none"
  <2>1. CASE ok /\ mode = "auto"
    BY <1>1, <1>2, <2>1, GotoTyped
  <2>2. CASE ~(ok /\ mode = "auto")
    BY <1>1, <2>2, ReturnTyped
  <2> QED
    BY <2>1, <2>2
<1>10. TableInv'
  <2>1. \A r \in 1..H'.NumRecs : /\ BlockOf(r) \in cached' => buf'[r] = table'[r]
                                 /\ BlockOf(r) \notin dirty' => disk'[r] = table'[r]
    <3>1. ASSUME NEW r \in 1..H'.NumRecs
          PROVE  r \in 1..H.NumRecs \/ (ok /\ r = NextRec)
      BY <1>6, <1>7, <3>1
    <3> QED
      BY <1>4, <1>6, <1>8, <3>1
  <2> QED
    BY <1>8, <2>1 DEF TableInv
<1>11. BlockInv'
  <2>1. \A b \in dirty' : b <= lastBlk'
    <3>1. ASSUME NEW b \in dirty PROVE b \in Int /\ b <= lastBlk
      BY <1>2 DEF DInv, BlockInv, Blks
    <3>2. lastBlk <= lastBlk' /\ lastBlk' \in Int
      BY <1>2, <1>5, <1>6
    <3>3. ASSUME NEW b \in dirty' PROVE b <= lastBlk'
      <4>1. CASE b \in dirty
        BY <1>2, <3>1, <3>2, <4>1
      <4>2. CASE b = NextBlk /\ ok
        BY <1>5, <1>6, <4>2
      <4> QED
        BY <1>4, <4>1, <4>2
    <3> QED
      BY <3>3
  <2> QED
    BY <1>2, <1>4, <2>1 DEF BlockInv
<1>12. CopyInv' /\ HeaderCovered'
  <2>1. HeaderCovered'
    BY <1>2, <1>4 DEF HeaderCovered
  <2>2. CopyInv'
    BY <1>1, <1>8 DEF CopyInv
  <2> QED
    BY <2>1, <2>2
<1>13. HdrInv'
  <2>1. diskHdr.NumRecs <= H.NumRecs /\ diskHdr.NumRecs \in Nat
    BY Bounds DEF DInv, HdrInv, TypeInv, TypeOK, HdrType
  <2>2. diskHdr'.NumRecs <= H'.NumRecs
    BY <1>2, <1>6, <1>7, <2>1
  <2>3. flags.HdrChg \/ errno \/ diskHdr.NumRecs = H.NumRecs
    BY <1>2 DEF DInv, HdrInv
  <2>4. mode = "auto" => ~flags.HdrChg
    BY <1>2 DEF DInv, HdrInv
  <2>5. CASE ok
    BY <1>2, <1>4, <1>9, <2>2, <2>5 DEF HdrInv
  <2>6. CASE ~ok
    BY <1>2, <1>4, <1>7, <1>9, <2>2, <2>3, <2>4, <2>6 DEF HdrInv
  <2> QED
    BY <2>5, <2>6
<1>14. FlagInv'
  <2>1. SUFFICES ASSUME mode = "none" PROVE FlagInv'
    BY <1>2 DEF FlagInv
  <2>2. call'.pc = "idle" /\ call'.op = "none"
    BY <1>9, <2>1
  <2>3. /\ H.Incomplete
        /\ ~diskHdr.Incomplete => errno /\ dirty = {} /\ H.NumRecs = diskHdr.NumRecs
    BY <1>2, <2>1 DEF DInv, FlagInv
  <2>4. CASE ok
    <3>1. diskHdr.Incomplete
      BY <1>4, <2>3, <2>4
    <3> QED
      BY <1>2, <1>7, <2>2, <2>3, <3>1 DEF FlagInv
  <2>5. CASE ~ok
    <3>1. errno' /\ H'.NumRecs = H.NumRecs /\ \A b \in dirty' : b \in dirty
      BY <1>4, <1>7, <2>1, <2>5
    <3> QED
      BY <1>2, <1>7, <2>2, <2>3, <3>1 DEF FlagInv
  <2> QED
    BY <2>4, <2>5
<1> QED
  BY <1>3, <1>10, <1>11, <1>12, <1>13, <1>14 DEF DInv

\* Where no block is dirty, the header may be written: it covers what is there.
LEMMA HeaderWritten ==
  ASSUME DInv, open, dirty = {}, NEW h, h.NumRecs = H.NumRecs, NEW ok \in BOOLEAN,
         disk' = disk, diskHdr' = IF ok THEN h ELSE diskHdr
  PROVE  HeaderCovered'
<1>1. \A r \in 1..H.NumRecs : disk[r] \in Vals
  BY TableFacts
<1> QED
  BY <1>1 DEF DInv, HeaderCovered

LEMMA AppendHdrKept ==
  ASSUME DInv, AppendHdr
  PROVE  DInv'
<1>1. PICK ok \in BOOLEAN : WriteHdr(H, flags, ok) /\ Return(~ok)
  BY DEF AppendHdr
<1>2. /\ UNCHANGED <<disk, open, mode, cached, dirty, buf, lastBlk, rec, recno, recChg, table>>
      /\ call.pc = "hdr" /\ call.op = "append" /\ open
      /\ flags \in [HdrChg : BOOLEAN, FileChg : BOOLEAN, FileSizChg : BOOLEAN, BufWritten : BOOLEAN]
  BY FlagsType DEF AppendHdr, cache, user, DInv, TypeInv, TypeOK, CallInv
<1>3. /\ H' = H /\ diskHdr' = (IF ok THEN H ELSE diskHdr) /\ errno' = ~ok
      /\ ~flags'.HdrChg /\ flags'.BufWritten = flags.BufWritten
  BY <1>1, <1>2 DEF WriteHdr
<1>4. call'.pc = "idle" /\ call'.op = "none"
  BY <1>1, ReturnTyped
<1>5. TypeInv'
  BY AppendHdrTyped DEF DInv
<1>6. TableInv' /\ BlockInv'
  BY <1>2, <1>3, TableFrame
<1>7. CopyInv'
  BY <1>2 DEF DInv, CopyInv
\* Only in auto-flush mode does a call come here; no block is dirty then.
<1>8. HeaderCovered'
  <2>1. dirty = {}
    BY <1>2 DEF DInv, HdrInv, BlockInv
  <2> QED
    BY <1>2, <1>3, <2>1, HeaderWritten
<1>9. HdrInv'
  <2>1. H.NumRecs \in Nat
    BY <1>2, TableFacts
  <2>2. diskHdr'.NumRecs <= H'.NumRecs /\ (errno' \/ diskHdr'.NumRecs = H'.NumRecs)
    <3>1. CASE ok
      BY <1>3, <2>1, <3>1
    <3>2. CASE ~ok
      BY <1>3, <3>2 DEF DInv, HdrInv
    <3> QED
      BY <3>1, <3>2
  <2> QED
    BY <1>2, <1>3, <1>4, <2>2 DEF HdrInv
<1>10. FlagInv'
  BY <1>2, <1>3, <1>4 DEF DInv, FlagInv, HdrInv
<1> QED
  BY <1>5, <1>6, <1>7, <1>8, <1>9, <1>10 DEF DInv

LEMMA UnflagKept ==
  ASSUME DInv, Unflag
  PROVE  DInv'
<1> DEFINE clear == ~call.e /\ H.Incomplete
<1>1. /\ UNCHANGED <<disk, diskHdr, open, mode, cached, dirty, buf, lastBlk, errno,
                     rec, recno, recChg, table>>
      /\ open /\ call \in CallType /\ call.op = "close" /\ call.pc = "unflag"
      /\ flags \in [HdrChg : BOOLEAN, FileChg : BOOLEAN, FileSizChg : BOOLEAN, BufWritten : BOOLEAN]
      /\ H \in HdrType /\ ~recChg
  BY FlagsType DEF Unflag, cache, user, DInv, TypeInv, TypeOK, CallInv, CallType
<1>2. call'.pc = "csf" /\ call'.op = "close"
  BY <1>1, GotoTyped DEF Unflag
<1>3. H'.NumRecs = H.NumRecs /\ (H'.Incomplete => H.Incomplete)
  BY <1>1 DEF Unflag, HdrType
<1>4. (flags.HdrChg => flags'.HdrChg) /\ flags'.BufWritten = flags.BufWritten
  BY <1>1 DEF Unflag
<1>5. TypeInv'
  BY UnflagTyped DEF DInv
<1>6. TableInv' /\ BlockInv'
  BY <1>1, <1>3, <1>4, TableFrame
<1>7. CopyInv' /\ HeaderCovered'
  BY <1>1 DEF DInv, CopyInv, HeaderCovered
<1>8. HdrInv'
  BY <1>1, <1>2, <1>3, <1>4 DEF DInv, HdrInv
<1>9. FlagInv'
  BY <1>1, <1>2, <1>3 DEF DInv, FlagInv
<1> QED
  BY <1>5, <1>6, <1>7, <1>8, <1>9 DEF DInv

\* A dirty block is written, by a flush or as its buffer is taken: it does not
\* fail, and what the user stored is where it was or on disk.
LEMMA DirtyWritten ==
  ASSUME DInv, Reported, open, NEW b \in dirty, NEW ok \in BOOLEAN,
         PutBlock(b, DataLen(b, lastBlk, lastLen), buf, ok)
  PROVE  /\ ok
         /\ mode # "auto"
         /\ \A r \in 1..H.NumRecs : BlockOf(r) \notin dirty \ {b} => disk'[r] = table[r]
         /\ \A r \in 1..diskHdr.NumRecs : disk'[r] \in Vals
         /\ \A r \in Recs : disk[r] # None => disk'[r] # None
<1> DEFINE len == DataLen(b, lastBlk, lastLen)
<1>1. b \in Blks /\ b \in cached /\ b \in Int /\ buf \in [Recs -> Contents \ {None}]
  BY DEF DInv, TypeInv, TypeOK, Blks
<1>2. mode # "auto"
  BY DEF DInv, BlockInv
<1>3. ok /\ PutBlock(b, len, buf, TRUE)
  <2>1. ok
    BY <1>2, TransferOk
  <2> QED
    BY <2>1
<1>4. \A r \in 1..H.NumRecs :
        /\ r \in Recs /\ table[r] \in Vals /\ table[r] # None
        /\ BlockOf(r) \in cached => buf[r] = table[r]
        /\ BlockOf(r) \notin dirty => disk[r] = table[r]
  BY TableFacts
<1>5. \A r \in 1..H.NumRecs : BlockOf(r) = b => r \in Written(b, len) /\ buf[r] \in Vals
  BY <1>1, <1>4, DataFacts DEF DataRecs, DInv
<1> HIDE DEF len
<1>6. /\ \A r \in Written(b, len) : disk'[r] = buf[r]
      /\ \A r \in Recs : disk[r] # None => disk'[r] # None
      /\ \A r \in Recs : BlockOf(r) # b /\ disk[r] # None => disk'[r] = disk[r]
      /\ \A r \in 1..diskHdr.NumRecs : disk'[r] \in Vals
  BY <1>1, <1>3, <1>5, BlockWritten
<1>7. ASSUME NEW r \in 1..H.NumRecs, BlockOf(r) \notin dirty \ {b} PROVE disk'[r] = table[r]
  BY <1>1, <1>4, <1>5, <1>6, <1>7
<1> QED
  BY <1>2, <1>3, <1>6, <1>7

LEMMA FlushBlockKept ==
  ASSUME DInv, Reported, FlushBlock
  PROVE  DInv'
<1>1. PICK b \in dirty, ok \in BOOLEAN :
        /\ PutBlock(b, DataLen(b, lastBlk, lastLen), buf, ok)
        /\ dirty' = dirty \ {b} /\ errno' = (errno \/ ~ok)
  BY DEF FlushBlock
<1>2. /\ open /\ call.pc = "csf"
      /\ UNCHANGED <<diskHdr, H, flags, open, mode, cached, buf, lastBlk, rec, recno, recChg,
                     call, table>>
  BY DEF FlushBlock, header, user, DInv, TypeInv, CallInv
<1>3. /\ ok /\ mode # "auto"
      /\ \A r \in 1..H.NumRecs : BlockOf(r) \notin dirty' => disk'[r] = table[r]
      /\ \A r \in 1..diskHdr.NumRecs : disk'[r] \in Vals
      /\ \A r \in Recs : disk[r] # None => disk'[r] # None
  BY <1>1, <1>2, DirtyWritten
<1>4. (errno' <=> errno) /\ dirty' \subseteq dirty
  BY <1>1, <1>3
<1>5. TypeInv'
  BY FlushBlockTyped DEF DInv
<1>6. TableInv' /\ HeaderCovered'
  BY <1>2, <1>3 DEF DInv, TableInv, HeaderCovered
<1>7. BlockInv'
  BY <1>2, <1>3, <1>4 DEF DInv, BlockInv
<1>8. CopyInv' /\ HdrInv'
  BY <1>2, <1>4 DEF DInv, CopyInv, HdrInv
<1>9. FlagInv'
  BY <1>2, <1>4 DEF DInv, FlagInv
<1> QED
  BY <1>5, <1>6, <1>7, <1>8, <1>9 DEF DInv

LEMMA EvictKept ==
  ASSUME DInv, Reported, Evict
  PROVE  DInv'
<1>1. PICK b \in cached, ok \in BOOLEAN :
        /\ IF b \in dirty
           THEN /\ PutBlock(b, DataLen(b, lastBlk, lastLen), buf, ok)
                /\ errno' = (errno \/ ~ok)
           ELSE ok /\ UNCHANGED <<disk, errno>>
        /\ cached' = cached \ {b} /\ dirty' = dirty \ {b}
        /\ buf' = [r \in Recs |-> IF r \in RecsOf(b) THEN Junk ELSE buf[r]]
  BY DEF Evict
<1>2. /\ open /\ call.pc \in {"idle", "commit", "load", "add"}
      /\ UNCHANGED <<diskHdr, H, flags, open, mode, lastBlk, rec, recno, recChg, call, table>>
  BY DEF Evict, header, user
<1>3. /\ (errno' <=> errno) /\ dirty' \subseteq dirty
      /\ \A r \in 1..H.NumRecs : BlockOf(r) \notin dirty' => disk'[r] = table[r]
      /\ \A r \in 1..diskHdr.NumRecs : disk'[r] \in Vals
      /\ \A r \in Recs : disk[r] # None => disk'[r] # None
  <2>1. CASE b \in dirty
    <3>1. /\ ok
          /\ \A r \in 1..H.NumRecs : BlockOf(r) \notin dirty' => disk'[r] = table[r]
          /\ \A r \in 1..diskHdr.NumRecs : disk'[r] \in Vals
          /\ \A r \in Recs : disk[r] # None => disk'[r] # None
      BY <1>1, <1>2, <2>1, DirtyWritten
    <3>2. errno' <=> errno
      BY <1>1, <2>1, <3>1
    <3> QED
      BY <1>1, <3>1, <3>2
  <2>2. CASE b \notin dirty
    <3>1. disk' = disk /\ (errno' <=> errno) /\ dirty' = dirty
      BY <1>1, <2>2
    <3> QED
      BY <1>2, <3>1, TableFacts DEF DInv, HeaderCovered
  <2> QED
    BY <2>1, <2>2
<1>4. \A r \in 1..H.NumRecs : BlockOf(r) \in cached' => buf'[r] = table[r]
  <2>1. \A r \in 1..H.NumRecs : r \in Recs /\ (BlockOf(r) \in cached => buf[r] = table[r])
    BY <1>2, TableFacts
  <2> QED
    BY <1>1, <2>1 DEF RecsOf
<1>5. TypeInv'
  BY EvictTyped DEF DInv
<1>6. TableInv' /\ HeaderCovered'
  BY <1>2, <1>3, <1>4 DEF DInv, TableInv, HeaderCovered
<1>7. BlockInv'
  BY <1>2, <1>3 DEF DInv, BlockInv
<1>8. CopyInv' /\ HdrInv'
  BY <1>2, <1>3 DEF DInv, CopyInv, HdrInv
<1>9. FlagInv'
  BY <1>2, <1>3 DEF DInv, FlagInv
<1> QED
  BY <1>5, <1>6, <1>7, <1>8, <1>9 DEF DInv

\* The header follows the blocks, and the call returns or goes on to the mark
\* behind the last record.
LEMMA FlushHdrFacts ==
  ASSUME DInv, FlushHdr
  PROVE  /\ UNCHANGED <<disk, open, mode, cached, dirty, buf, lastBlk, rec, recno, recChg, table>>
         /\ open /\ call.pc = "csf" /\ dirty = {} /\ ~recChg
         /\ H'.NumRecs = H.NumRecs
         /\ flags'.BufWritten = flags.BufWritten /\ ~flags'.HdrChg
         /\ errno' \/ diskHdr'.NumRecs = H.NumRecs
         /\ diskHdr'.NumRecs \in {diskHdr.NumRecs, H.NumRecs}
         /\ \/ diskHdr' = diskHdr /\ (H' = H \/ (H'.Incomplete /\ errno')) /\ (errno => errno')
            \/ diskHdr' = H'
         /\ \/ call.op = "flush" /\ call'.pc = "idle" /\ call'.op = "none"
            \/ call.op = "close" /\ call'.pc = "eof" /\ call'.op = "close"
         /\ ~call'.e => ~errno'
<1> DEFINE flagNow == errno /\ ~H.Incomplete
           h == IF flagNow THEN [H EXCEPT !.Incomplete = TRUE] ELSE H
<1>1. /\ open /\ call \in CallType /\ call.op \in {"flush", "close"} /\ ~recChg /\ call.pc = "csf"
      /\ UNCHANGED <<disk, open, mode, cached, dirty, buf, lastBlk, rec, recno, recChg, table>>
      /\ H \in HdrType /\ dirty = {} /\ errno \in BOOLEAN /\ call.e \in BOOLEAN
      /\ flags \in [HdrChg : BOOLEAN, FileChg : BOOLEAN, FileSizChg : BOOLEAN, BufWritten : BOOLEAN]
  BY FlagsType DEF FlushHdr, BlocksDone, cache, user, DInv, TypeInv, TypeOK, CallInv, CallType
<1>2. PICK e \in BOOLEAN :
        /\ \/ WriteHdr(h, flags, ~e)
           \/ ~flags.HdrChg /\ (e <=> errno) /\ UNCHANGED <<header, errno>>
        /\ IF call.op = "flush" THEN Return(FlushAnswer(e))
           ELSE call' = [call EXCEPT !.pc = "eof", !.e = FlushAnswer(e)]
  <2>1. CASE flags.HdrChg \/ flagNow
    BY <2>1 DEF FlushHdr
  <2>2. CASE ~(flags.HdrChg \/ flagNow)
    BY <1>1, <2>2 DEF FlushHdr
  <2> QED
    BY <2>1, <2>2
<1>3. h.NumRecs = H.NumRecs /\ (h.Incomplete \/ h = H)
  BY <1>1 DEF HdrType
<1>4. /\ \/ call.op = "flush" /\ call'.pc = "idle" /\ call'.op = "none"
         \/ call.op = "close" /\ call'.pc = "eof" /\ call'.op = "close"
      /\ ~call'.e => ~e
  <2>1. PICK a \in BOOLEAN :
          /\ ~a => ~e
          /\ IF call.op = "flush" THEN Return(a) ELSE call' = [call EXCEPT !.pc = "eof", !.e = a]
    <3>1. FlushAnswer(e) \in BOOLEAN /\ (~FlushAnswer(e) => ~e)
      BY <1>1, <1>2 DEF FlushAnswer
    <3> QED
      BY <1>2, <3>1
  <2>2. CASE call.op = "flush"
    BY <2>1, <2>2, ReturnTyped
  <2>3. CASE call.op = "close"
    BY <1>1, <2>1, <2>3 DEF CallType
  <2> QED
    BY <1>1, <2>2, <2>3
<1>5. CASE WriteHdr(h, flags, ~e)
  <2>1. /\ H' = h /\ diskHdr' = (IF ~e THEN h ELSE diskHdr) /\ (errno' <=> e)
        /\ ~flags'.HdrChg /\ flags'.BufWritten = flags.BufWritten
    <3> HIDE DEF h
    <3> QED
      BY <1>1, <1>5 DEF WriteHdr
  <2>2. H' = H \/ (H'.Incomplete)
    BY <1>3, <2>1
  <2> HIDE DEF h
  <2>3. CASE e
    BY <1>1, <1>3, <1>4, <2>1, <2>2, <2>3
  <2>4. CASE ~e
    BY <1>1, <1>3, <1>4, <2>1, <2>4
  <2> QED
    BY <2>3, <2>4
<1>6. CASE ~flags.HdrChg /\ (e <=> errno) /\ UNCHANGED <<header, errno>>
  <2>1. UNCHANGED <<H, diskHdr, flags, errno>> /\ ~flags.HdrChg /\ (e <=> errno)
    BY <1>6 DEF header
  <2>2. errno \/ diskHdr.NumRecs = H.NumRecs
    BY <1>1, <2>1 DEF DInv, HdrInv
  <2> HIDE DEF h
  <2> QED
    BY <1>1, <1>4, <2>1, <2>2
<1> QED
  BY <1>2, <1>5, <1>6

LEMMA FlushHdrKept ==
  ASSUME DInv, FlushHdr
  PROVE  DInv'
<1>1. /\ UNCHANGED <<disk, open, mode, cached, dirty, buf, lastBlk, rec, recno, recChg, table>>
      /\ open /\ call.pc = "csf" /\ dirty = {} /\ ~recChg
      /\ H'.NumRecs = H.NumRecs
      /\ flags'.BufWritten = flags.BufWritten /\ ~flags'.HdrChg
      /\ errno' \/ diskHdr'.NumRecs = H.NumRecs
      /\ diskHdr'.NumRecs \in {diskHdr.NumRecs, H.NumRecs}
      /\ \/ diskHdr' = diskHdr /\ (H' = H \/ (H'.Incomplete /\ errno')) /\ (errno => errno')
         \/ diskHdr' = H'
      /\ \/ call.op = "flush" /\ call'.pc = "idle" /\ call'.op = "none"
         \/ call.op = "close" /\ call'.pc = "eof" /\ call'.op = "close"
  BY FlushHdrFacts
<1>2. TypeInv'
  BY FlushHdrTyped DEF DInv
<1>3. TableInv' /\ BlockInv'
  BY <1>1, TableFrame
<1>4. CopyInv' /\ HeaderCovered'
  <2>1. \A r \in 1..H.NumRecs : disk[r] \in Vals
    BY <1>1, TableFacts
  <2> QED
    BY <1>1, <2>1 DEF DInv, CopyInv, HeaderCovered
<1>5. HdrInv'
  <2>1. diskHdr.NumRecs <= H.NumRecs /\ H.NumRecs <= H.NumRecs
    BY <1>1, TableFacts DEF DInv, HdrInv
  <2> QED
    BY <1>1, <2>1 DEF HdrInv
<1>6. FlagInv'
  <2>1. CASE diskHdr' = H'
    BY <1>1, <2>1 DEF DInv, FlagInv
  <2>2. CASE diskHdr' = diskHdr /\ (H' = H \/ (H'.Incomplete /\ errno')) /\ (errno => errno')
    BY <1>1, <2>2 DEF DInv, FlagInv
  <2> QED
    BY <1>1, <2>1, <2>2
<1> QED
  BY <1>2, <1>3, <1>4, <1>5, <1>6 DEF DInv

\* The file is given up; what was stored is on disk or flagged.
LEMMA ForgetKept ==
  ASSUME DInv, Forget, H' = diskHdr, table' = table,
         \A r \in 1..diskHdr.NumRecs : disk'[r] \in Vals,
         mode = "none" /\ ~diskHdr.Incomplete => OnDisk',
         NEW e \in BOOLEAN, Return(e), TypeInv'
  PROVE  DInv'
<1>1. /\ ~open' /\ dirty' = {} /\ diskHdr' = diskHdr /\ mode' = mode /\ ~recChg'
      /\ call'.pc = "idle" /\ call'.op = "none"
  BY ReturnTyped DEF Forget
<1>2. TableInv' /\ CopyInv' /\ HeaderCovered'
  BY <1>1 DEF TableInv, CopyInv, HeaderCovered
<1>3. BlockInv'
  BY <1>1 DEF BlockInv
<1>4. HdrInv'
  <2>1. diskHdr.NumRecs \in Nat
    BY Bounds DEF DInv, TypeInv, TypeOK, HdrType
  <2> QED
    BY <1>1, <2>1 DEF HdrInv
<1>5. FlagInv'
  BY <1>1 DEF FlagInv
<1> QED
  BY <1>2, <1>3, <1>4, <1>5 DEF DInv

LEMMA CrashKept ==
  ASSUME DInv, Crash
  PROVE  DInv'
<1>1. Forget /\ H' = diskHdr /\ table' = table /\ disk' = disk /\ open /\ Return(TRUE)
      /\ diskHdr' = diskHdr
  BY DEF Crash, Forget
<1>2. \A r \in 1..diskHdr.NumRecs : disk'[r] \in Vals
  BY <1>1 DEF DInv, HeaderCovered
<1>3. mode = "none" /\ ~diskHdr.Incomplete => OnDisk'
  <2>1. SUFFICES ASSUME mode = "none", ~diskHdr.Incomplete PROVE OnDisk'
    OBVIOUS
  <2>2. dirty = {} /\ H.NumRecs = diskHdr.NumRecs
    BY <1>1, <2>1 DEF DInv, FlagInv
  <2> QED
    BY <1>1, <2>2, TableFacts DEF OnDisk
<1>4. TypeInv'
  BY CrashTyped DEF DInv
<1> QED
  BY <1>1, <1>2, <1>3, <1>4, ForgetKept

\* The mark behind the last record does not touch the records.
LEMMA ReleaseFacts ==
  ASSUME DInv, Release
  PROVE  /\ Forget /\ H' = diskHdr /\ table' = table /\ diskHdr' = diskHdr /\ open
         /\ \A r \in 1..H.NumRecs : disk'[r] = table[r]
         /\ \E e \in BOOLEAN : Return(e) /\ (~e => diskHdr.NumRecs = H.NumRecs)
<1>1. /\ Forget /\ H' = diskHdr /\ table' = table /\ diskHdr' = diskHdr /\ open
      /\ call.pc = "eof" /\ dirty = {}
  BY DEF Release, Forget, DInv, HdrInv, TypeInv, CallInv
<1>2. /\ H.NumRecs \in Nat
      /\ \A r \in 1..H.NumRecs : r \in Recs /\ table[r] # None /\ disk[r] = table[r]
  BY <1>1, TableFacts
<1>3. \A r \in 1..H.NumRecs : disk'[r] = table[r]
  <2>1. \/ disk' = disk
        \/ disk' = [r \in Recs |->
                      IF (r <= H.NumRecs /\ disk[r] = None) \/ (r = H.NumRecs + 1 /\ disk[r] # None)
                      THEN Junk ELSE disk[r]]
    BY DEF Release
  <2>2. ASSUME NEW r \in 1..H.NumRecs
        PROVE  r \in Recs /\ r # H.NumRecs + 1 /\ disk[r] # None /\ disk[r] = table[r]
    BY <1>2
  <2> QED
    BY <2>1, <2>2
<1>4. \E e \in BOOLEAN : Return(e) /\ (~e => ~call.e /\ ~errno)
  <2>1. CASE Return(TRUE)
    BY <2>1
  <2>2. CASE Return(call.e \/ errno)
    <3>1. (call.e \/ errno) \in BOOLEAN
      OBVIOUS
    <3>2. PICK e \in BOOLEAN : e = (call.e \/ errno)
      BY <3>1
    <3>3. Return(e) /\ (~e => ~call.e /\ ~errno)
      BY <2>2, <3>2
    <3> QED
      BY <3>3
  <2> QED
    BY <2>1, <2>2 DEF Release
<1>5. ~call.e /\ ~errno => diskHdr.NumRecs = H.NumRecs
  BY <1>1 DEF DInv, HdrInv
<1> QED
  BY <1>1, <1>3, <1>4, <1>5

LEMMA ReleaseKept ==
  ASSUME DInv, Release
  PROVE  DInv'
<1>1. /\ Forget /\ H' = diskHdr /\ table' = table /\ diskHdr' = diskHdr /\ open
      /\ \A r \in 1..H.NumRecs : disk'[r] = table[r]
      /\ \E e \in BOOLEAN : Return(e)
  BY ReleaseFacts
<1>2. /\ 1..diskHdr.NumRecs \subseteq 1..H.NumRecs /\ Len(table) = H.NumRecs
      /\ \A r \in 1..H.NumRecs : table[r] \in Vals
  BY <1>1, TableFacts
<1>3. \A r \in 1..diskHdr.NumRecs : disk'[r] \in Vals
  BY <1>1, <1>2
<1>4. mode = "none" /\ ~diskHdr.Incomplete => OnDisk'
  <2>1. SUFFICES ASSUME mode = "none", ~diskHdr.Incomplete PROVE OnDisk'
    OBVIOUS
  <2>2. H.NumRecs = diskHdr.NumRecs
    BY <1>1, <2>1 DEF DInv, FlagInv
  <2> QED
    BY <1>1, <1>2, <2>2 DEF OnDisk
<1>5. TypeInv'
  BY ReleaseTyped DEF DInv
<1> QED
  BY <1>1, <1>3, <1>4, <1>5, ForgetKept

-----------------------------------------------------------------------------
(* The theorems.                                                           *)

LEMMA InitKept == Init => DInv
<1> SUFFICES ASSUME Init PROVE DInv
  OBVIOUS
<1>1. PICK n \in 0..MaxRecs :
        /\ disk \in [Recs -> Vals \cup {None}]
        /\ \A r \in Recs : disk[r] = None <=> r > n
        /\ diskHdr = [NumRecs |-> n, Incomplete |-> FALSE]
        /\ table = SubSeq(disk, 1, n)
  BY DEF Init
<1>2. n \in Nat /\ 1..n \subseteq Recs /\ \A r \in 1..n : r \in Nat /\ r <= n
  BY Bounds
<1>3. diskHdr.NumRecs = n /\ \A r \in 1..n : disk[r] \in Vals
  BY <1>1, <1>2
<1>4. /\ ~open /\ mode = "none" /\ dirty = {} /\ H = diskHdr /\ call.pc = "idle" /\ call.op = "none"
      /\ ~recChg
  BY DEF Init, Idle
<1>5. OnDisk
  BY <1>1, <1>2, <1>3, SubSeqProperties DEF OnDisk
<1>6. TableInv /\ CopyInv /\ HeaderCovered
  BY <1>3, <1>4 DEF TableInv, CopyInv, HeaderCovered
<1>7. BlockInv
  BY <1>4 DEF BlockInv
<1>8. HdrInv
  BY <1>2, <1>3, <1>4 DEF HdrInv
<1>9. FlagInv
  BY <1>4, <1>5 DEF FlagInv
<1> QED
  BY <1>6, <1>7, <1>8, <1>9, InitTyped DEF DInv

LEMMA DStep ==
  ASSUME DInv, Reported, [Next]_vars
  PROVE  DInv'
<1>1. CASE Next
  BY <1>1, OpenKept, StartKept, FlagKept, CommitKept, LoadKept, AddKept, AppendHdrKept,
     UnflagKept, FlushBlockKept, FlushHdrKept, ReleaseKept, EvictKept, CrashKept
     DEF Next
<1>2. CASE UNCHANGED vars
  <2>1. UNCHANGED <<disk, diskHdr, H, flags, open, mode, cached, dirty, buf, lastBlk, errno,
                    rec, recno, recChg, call, table>>
    BY <1>2 DEF vars, header, cache, user
  <2>2. TypeInv'
    BY <1>2, TypeStep DEF DInv
  <2>3. TableInv' /\ BlockInv'
    BY <2>1, TableFrame
  <2>4. CopyInv' /\ HeaderCovered' /\ HdrInv'
    BY <2>1 DEF DInv, CopyInv, HeaderCovered, HdrInv
  <2>5. FlagInv'
    BY <2>1 DEF DInv, FlagInv, OnDisk
  <2> QED
    BY <2>2, <2>3, <2>4, <2>5 DEF DInv
<1> QED
  BY <1>1, <1>2

LEMMA FileInv == ASSUME Reported PROVE Spec => []DInv
<1>1. Init => DInv
  BY InitKept
<1>2. DInv /\ [Next]_vars => DInv'
  BY DStep
<1> QED
  BY <1>1, <1>2, PTL DEF Spec

\* What the user stored is never lost while the file's error condition is
\* clear: it is in the cache or on disk, whatever was evicted and flushed.
THEOREM RecordsKept == ASSUME Reported PROVE Spec => []TableKept
<1>1. DInv => TableKept
  BY TableFacts DEF TableKept, Current, DInv, TypeInv, TypeOK
<1> QED
  BY <1>1, FileInv, PTL

\* The user's copy of an unchanged record is the record, also after a call
\* that failed.
THEOREM CopyCurrent == ASSUME Reported PROVE Spec => []ReadsCurrent
<1>1. DInv => ReadsCurrent
  BY DEF ReadsCurrent, DInv, CopyInv
<1> QED
  BY <1>1, FileInv, PTL

\* At whatever step the process ends, the header in the file counts only
\* records that are there.
THEOREM NoJunkCounted == ASSUME Reported PROVE Spec => []HeaderCovered
<1>1. DInv => HeaderCovered
  BY DEF DInv
<1> QED
  BY <1>1, FileInv, PTL

\* Without a flush mode, a file whose flag on disk says that it is complete
\* is, at whatever step the process ends.
THEOREM CrashDetected == ASSUME Reported PROVE Spec => []CrashSafe
<1>1. DInv => CrashSafe
  <2> SUFFICES ASSUME DInv, mode = "none", ~diskHdr.Incomplete PROVE OnDisk
    BY DEF CrashSafe
  <2>1. CASE open
    <3>1. dirty = {} /\ H.NumRecs = diskHdr.NumRecs
      BY <2>1 DEF DInv, FlagInv
    <3> QED
      BY <2>1, <3>1, TableFacts DEF OnDisk
  <2>2. CASE ~open
    BY <2>2 DEF DInv, FlagInv
  <2> QED
    BY <2>1, <2>2
<1> QED
  BY <1>1, FileInv, PTL

\* In auto-flush mode, what a call has changed is on disk when it returns.
THEOREM AutoFlushed == ASSUME Reported PROVE Spec => []AutoDurable
<1>1. DInv => AutoDurable
  <2> SUFFICES ASSUME DInv, open, mode = "auto", call.pc = "idle", ~errno PROVE OnDisk
    BY DEF AutoDurable
  <2>1. dirty = {} /\ diskHdr.NumRecs = H.NumRecs
    BY DEF DInv, BlockInv, HdrInv
  <2> QED
    BY <2>1, TableFacts DEF OnDisk
<1> QED
  BY <1>1, FileInv, PTL

\* When dbf_Flush or dbf_Close returns 0, all records are on disk and the
\* header counts them.
THEOREM FlushTrue == ASSUME Reported PROVE Spec => FlushTruthful
<1> DEFINE Answered == call.op \in {"flush", "close"} /\ call.pc # "idle"
                         /\ call'.pc = "idle" /\ ~call'.e
<1>1. ASSUME DInv, Next, Answered PROVE OnDisk'
  <2>1. CASE FlushHdr
    <3>1. /\ disk' = disk /\ table' = table /\ open /\ dirty = {} /\ ~errno'
          /\ errno' \/ diskHdr'.NumRecs = H.NumRecs
      BY <1>1, <2>1, FlushHdrFacts
    <3> QED
      BY <1>1, <3>1, TableFacts DEF OnDisk
  <2>2. CASE Release
    <3>1. PICK e \in BOOLEAN : Return(e) /\ (~e => diskHdr.NumRecs = H.NumRecs)
      BY <1>1, <2>2, ReleaseFacts
    <3>2. call'.e = e
      BY <3>1, ReturnTyped
    <3>3. diskHdr' = diskHdr /\ table' = table /\ diskHdr.NumRecs = H.NumRecs /\ open
          /\ \A r \in 1..H.NumRecs : disk'[r] = table[r]
      BY <1>1, <2>2, <3>1, <3>2, ReleaseFacts
    <3> QED
      BY <1>1, <3>3, TableFacts DEF OnDisk
  <2>3. CASE Crash
    <3>1. call'.e = TRUE
      BY <2>3, ReturnTyped DEF Crash
    <3> QED
      BY <1>1, <3>1
  <2>4. CASE Commit
    <3>1. PICK e \in BOOLEAN : Committed(e)
      BY <2>4 DEF Commit
    <3>2. call'.pc \in {"csf", "unflag"}
      BY <1>1, <2>4, <3>1, CommittedCall DEF Commit, DInv
    <3> QED
      BY <1>1, <3>2
  <2>5. CASE Unflag
    <3>1. call \in CallType
      BY <1>1 DEF DInv, TypeInv, TypeOK, CallType
    <3>2. call'.pc = "csf"
      BY <2>5, <3>1, GotoTyped DEF Unflag
    <3> QED
      BY <1>1, <3>2
  <2>6. CASE FlushBlock \/ Evict \/ \E m \in Modes, force \in BOOLEAN : Open(m, force)
    <3>1. call' = call
      BY <2>6 DEF FlushBlock, Evict, Open
    <3> QED
      BY <1>1, <3>1
  <2>7. CASE Flag \/ Load \/ Add \/ AppendHdr
    <3>1. call.op \notin {"flush", "close"}
      BY <1>1, <2>7 DEF Flag, Load, Add, AppendHdr, DInv, TypeInv, CallInv
    <3> QED
      BY <1>1, <3>1
  <2>8. CASE \/ \E pos \in Recs : Go(pos)
             \/ \E v \in Vals : PutRec(v) \/ AppendRec(v)
             \/ Flush \/ Close
    <3>1. call.pc = "idle"
      BY <2>8 DEF Go, PutRec, AppendRec, Flush, Close, Start
    <3> QED
      BY <1>1, <3>1
  <2> QED
    BY <1>1, <2>1, <2>2, <2>3, <2>4, <2>5, <2>6, <2>7, <2>8 DEF Next
<1>2. ASSUME DInv, UNCHANGED vars, Answered PROVE OnDisk'
  BY <1>2 DEF vars
<1>3. DInv /\ [Next]_vars => [Answered => OnDisk']_vars
  BY <1>1, <1>2
<1> QED
  BY <1>3, FileInv, PTL DEF FlushTruthful, Spec
=============================================================================
