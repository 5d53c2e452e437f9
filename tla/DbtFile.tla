------------------------------ MODULE DbtFile ------------------------------
(***************************************************************************)
(* CDBTFile (src/WallsMap/dbtfile.cpp): the file of 512-byte blocks that   *)
(* holds the memo fields of a shapefile, and its list of free blocks.      *)
(*                                                                         *)
(* The file is a record d of                                               *)
(*   hdr    the header's count of blocks, the header included              *)
(*   file   the blocks after the header: block b is file[b]                *)
(*   next   m_uNextRec, 0 while it is not known                            *)
(*   free   m_vFree, as a set: it is kept sorted by recNo, without repeats *)
(*   flags  m_uFlags                                                       *)
(* A text is the sequence of blocks it fills.  The last one holds the      *)
(* terminator 0x1A, and no block of the text before it does.               *)
(***************************************************************************)
EXTENDS Integers, Sequences, FiniteSets

Extent(f) == f.recNo .. (f.recNo + f.recCnt - 1)
End(f) == f.recNo + f.recCnt

\* The blocks of a text: part k of the n blocks that belong to owner.
TextBlocks(owner, n) == [k \in 1..n |-> [owner |-> owner, part |-> k, of |-> n]]
IsText(b) == "part" \in DOMAIN b
IsList(b) == "list" \in DOMAIN b
\* A block no one has written (SetLength and Seek past the end leave them).
Unwritten == [list |-> {}]

Put(file, at, blocks) ==
    [b \in 1 .. (IF at + Len(blocks) - 1 > Len(file)
                 THEN at + Len(blocks) - 1 ELSE Len(file)) |->
        IF b \in at .. (at + Len(blocks) - 1) THEN blocks[b - at + 1]
        ELSE IF b <= Len(file) THEN file[b]
        ELSE Unwritten]

SetLength(file, n) ==
    [b \in 1..n |-> IF b <= Len(file) THEN file[b] ELSE Unwritten]

\* GetText: the blocks from recNo through the first one that ends a text.
GetText(d, recNo) ==
    LET Ends == {b \in recNo .. Len(d.file) :
                    IsText(d.file[b]) /\ d.file[b].part = d.file[b].of}
    IN  IF recNo = 0 \/ Ends = {} THEN << >>
        ELSE SubSeq(d.file, recNo, CHOOSE b \in Ends : \A c \in Ends : b <= c)

-----------------------------------------------------------------------------
(* The free list.                                                          *)

Lowest(F) == CHOOSE f \in F : \A g \in F : f.recNo <= g.recNo
Highest(F) == CHOOSE f \in F : \A g \in F : f.recNo >= g.recNo
Smallest(F) == {f \in F : \A g \in F : f.recCnt <= g.recCnt}

CheckFree(F, next) ==
    /\ \A f \in F : f.recNo > 0 /\ f.recCnt > 0 /\ End(f) < next
    /\ \A f, g \in F : f.recNo < g.recNo => End(f) < g.recNo

\* The free blocks that end where f starts, or start where f ends.
Neighbours(F, f) ==
    LET Before == {g \in F : g.recNo < f.recNo}
        After == F \ Before
    IN  {g \in Before : g = Highest(Before) /\ End(g) = f.recNo} \cup
        {g \in After : g = Lowest(After) /\ g.recNo = End(f)}

Joined(f, N) ==
    LET L == Lowest(N \cup {f})
        H == Highest(N \cup {f})
    IN  [recNo |-> L.recNo, recCnt |-> End(H) - L.recNo]

\* Mutant of AddToFree: the following free block is not joined.
AddToFree_NoRight(d, f) ==
    LET N == {g \in Neighbours(d.free, f) : g.recNo < f.recNo}
        block == Joined(f, N)
    IN  IF \E g \in d.free : g.recNo = f.recNo
        THEN [d EXCEPT !.free =
                 {IF g.recNo = f.recNo /\ g.recCnt > f.recCnt THEN f ELSE g : g \in @}]
        ELSE IF End(block) = d.next
        THEN [d EXCEPT !.free = @ \ N, !.next = block.recNo, !.flags = @ \cup {"TRUNCATED"}]
        ELSE [d EXCEPT !.free = (@ \ N) \cup {block}]

AddToFree(d, f) ==
    LET N == Neighbours(d.free, f)
        block == Joined(f, N)
    IN  IF \E g \in d.free : g.recNo = f.recNo
        THEN [d EXCEPT !.free =
                 {IF g.recNo = f.recNo /\ g.recCnt > f.recCnt THEN f ELSE g : g \in @}]
        ELSE IF End(block) = d.next
        THEN [d EXCEPT !.free = @ \ N, !.next = block.recNo, !.flags = @ \cup {"TRUNCATED"}]
        ELSE [d EXCEPT !.free = (@ \ N) \cup {block}]

\* The free blocks PutText would use for n blocks: one of that size, else the
\* smallest larger one, but none if the first of the list is too small.
Candidates(F, n) ==
    LET Exact == {f \in F : f.recCnt = n}
    IN  IF Exact # {} THEN Exact
        ELSE IF F # {} /\ Lowest(F).recCnt > n
        THEN Smallest({f \in F : f.recCnt > n})
        ELSE {}

\* Mutants of Remainder: a block used up stays in the list, with no blocks
\* left; and the list keeps the part that was used.
Remainder_Kept(f, n) == {[recNo |-> f.recNo + n, recCnt |-> f.recCnt - n]}
Remainder_Front(f, n) ==
    IF f.recCnt = n THEN {} ELSE {[recNo |-> f.recNo, recCnt |-> f.recCnt - n]}

Remainder(f, n) ==
    IF f.recCnt = n THEN {}
    ELSE {[recNo |-> f.recNo + n, recCnt |-> f.recCnt - n]}

-----------------------------------------------------------------------------
(* The operations.                                                         *)

\* The file as created (Create), and as reopened (Open).
Created == [hdr |-> 1, file |-> << >>, next |-> 1, free |-> {}, flags |-> {"INITFREE"}]
Reopened(d) == [d EXCEPT !.flags = {}]

\* What InitFree reads: the end of the data and the free list stored there.
Loaded(d) ==
    LET list == IF d.hdr > 1 /\ IsList(d.file[d.hdr - 1])
                THEN d.file[d.hdr - 1].list ELSE {}
    IN  IF d.hdr = 0 \/ d.hdr > Len(d.file) + 1 \/ ~CheckFree(list, d.hdr)
        THEN [next |-> 0, free |-> {}]
        ELSE [next |-> IF list = {} THEN d.hdr ELSE d.hdr - 1, free |-> list]

\* Mutant of InitFree: the blocks of the stored list are not given back.
InitFree_Keeps(d) ==
    LET l == Loaded(d)
    IN  IF "INITFREE" \in d.flags THEN d
        ELSE IF l.next = 0 THEN [d EXCEPT !.next = 0, !.free = {}]
        ELSE [d EXCEPT !.next = d.hdr, !.free = l.free, !.flags = @ \cup {"INITFREE"}]

InitFree(d) ==
    LET l == Loaded(d)
    IN  IF "INITFREE" \in d.flags THEN d
        ELSE IF l.next = 0 THEN [d EXCEPT !.next = 0, !.free = {}]
        ELSE [d EXCEPT !.next = l.next, !.free = l.free,
                       !.flags = @ \cup {"INITFREE"},
                       !.hdr = l.next,
                       !.file = IF l.next < d.hdr THEN SetLength(@, l.next - 1) ELSE @]

Usable(d) == d.next > 0

\* Give back what n blocks of new text will not need of the old blocks memo.
Released(d, memo, n) ==
    IF memo.recNo = 0 THEN d
    ELSE IF n < memo.recCnt
    THEN AddToFree(d, [recNo |-> memo.recNo + n, recCnt |-> memo.recCnt - n])
    ELSE AddToFree(d, [recNo |-> memo.recNo, recCnt |-> memo.recCnt])

\* PutText's choice of a place, and its effect on the free list.
Placed(d, memo, n) ==
    LET C == Candidates(d.free, n)
    IN  IF memo.recNo # 0 /\ n < memo.recCnt
        THEN [at |-> memo.recNo, free |-> d.free]
        ELSE IF C = {} THEN [at |-> d.next, free |-> d.free]
        ELSE [at |-> Lowest(C).recNo,
              free |-> (d.free \ {Lowest(C)}) \cup Remainder(Lowest(C), n)]

Written(d, at, text) ==
    [d EXCEPT !.file = Put(@, at, text), !.flags = @ \cup {"WRITTEN"}]

\* Write text in place of memo, its old block and count: d is the file after,
\* rec the block number for the record's field, 0 if there is no text.
PutText(d0, memo, text) ==
    LET n == Len(text)
        d == InitFree(d0)
        r == Released(d, memo, n)
        p == Placed(r, memo, n)
        w == Written([r EXCEPT !.free = p.free], p.at, text)
    IN  IF n = 0
        THEN [d |-> IF memo.recNo = 0 THEN d0
                    ELSE IF Usable(d) THEN AddToFree(d, memo) ELSE d,
              rec |-> 0]
        ELSE IF memo.recNo # 0 /\ n = memo.recCnt
        THEN [d |-> Written(d0, memo.recNo, text), rec |-> memo.recNo]
        ELSE IF ~Usable(d) THEN [d |-> d, rec |-> 0]
        ELSE IF p.at = r.next
        THEN [d |-> [w EXCEPT !.next = @ + n, !.flags = @ \cup {"EXTENDED"}],
              rec |-> p.at]
        ELSE [d |-> w, rec |-> p.at]

\* AppendCopy, and PutTextField for a text of one block: no free block is used.
AppendCopy(d0, text) ==
    LET d == InitFree(d0)
    IN  IF ~Usable(d) THEN [d |-> d, rec |-> 0]
        ELSE [d |-> [d EXCEPT !.file = Put(@, d.next, text),
                              !.next = @ + Len(text),
                              !.flags = @ \cup {"EXTENDED"}],
              rec |-> d.next]

\* Mutant of FlushHdr: the file is not truncated.
FlushHdr_KeepsLength(d) ==
    [d EXCEPT !.hdr = IF d.flags \cap {"EXTENDED", "TRUNCATED"} # {} THEN d.next ELSE @,
              !.flags = @ \cap {"INITFREE"}]

FlushHdr(d) ==
    [d EXCEPT !.hdr = IF d.flags \cap {"EXTENDED", "TRUNCATED"} # {} THEN d.next ELSE @,
              !.file = IF "TRUNCATED" \in d.flags THEN SetLength(@, d.next - 1) ELSE @,
              !.flags = @ \cap {"INITFREE"}]

\* Store the free list behind the data: one block holds 63 entries.
AppendFree(d) ==
    IF "INITFREE" \notin d.flags THEN d
    ELSE IF d.next = 0 \/ d.free = {} THEN [d EXCEPT !.flags = {}]
    ELSE [d EXCEPT !.flags = {}, !.free = {}, !.next = @ + 1, !.hdr = d.next + 1,
                   !.file = Put(@, d.next, <<[list |-> d.free]>>)]
=============================================================================
