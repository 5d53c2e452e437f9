--------------------------- MODULE MemoEditProofs ---------------------------
(***************************************************************************)
(* Proofs about MemoEdit and DbtFile, for every number of records, blocks  *)
(* and windows and every size of text: no memo is lost, no block has two   *)
(* owners and none is forgotten, as long as no block number is used after  *)
(* the memo has moved (Allow = {}).                                        *)
(***************************************************************************)
EXTENDS MemoEdit, TLAPS, FiniteSetTheorems, SequenceTheorems, WellFoundedInduction

-----------------------------------------------------------------------------
(* The invariant.                                                          *)

FreeBlock == [recNo : Nat \ {0}, recCnt : Nat \ {0}]
Block == [owner : Nat, part : Nat, of : Nat] \cup [list : SUBSET FreeBlock]
NoList(b) == IsList(b) => b.list = {}

\* A list of free blocks, all in front of block next.
FreeList(F, next) ==
  /\ F \subseteq FreeBlock /\ next \in Nat \ {0} /\ CheckFree(F, next)
  /\ \A f, g \in F : f.recNo = g.recNo => f = g

\* Block b is in the list, or among the n blocks from p on.
InList(F, b) == \E f \in F : f.recNo <= b /\ b < End(f)
InMemo(p, n, b) == p <= b /\ b < p + n

\* The list in use, or the one that InitFree will find.
List(d) == IF "INITFREE" \in d.flags THEN [next |-> d.next, free |-> d.free] ELSE Loaded(d)

Flags == {"INITFREE", "EXTENDED", "TRUNCATED", "WRITTEN"}
Dbt == [hdr : Nat, file : Seq(Block), next : Nat, free : SUBSET FreeBlock, flags : SUBSET Flags]

\* A file between operations.  Only its last block may hold a list, and only
\* as long as it was not read.
FileInv(d) ==
  /\ d \in Dbt /\ d.hdr = Len(d.file) + 1
  /\ d.flags \subseteq {"INITFREE"}
  /\ \A b \in 1..Len(d.file) : NoList(d.file[b]) \/ ("INITFREE" \notin d.flags /\ b = Len(d.file))
  /\ "INITFREE" \in d.flags => FreeList(d.free, d.next) /\ d.next = d.hdr
  /\ "INITFREE" \notin d.flags => d.free = {}
  /\ \A b \in 1..Len(d.file) : ~NoList(d.file[b]) => FreeList(d.file[b].list, b)

\* The memo of record r, of n blocks from block p on.
MemoAt(d, r, p, n) ==
  /\ p = 0 <=> n = 0
  /\ p + n <= List(d).next
  /\ \A k \in 1..n : d.file[p + k - 1] = [owner |-> r, part |-> k, of |-> n]
  /\ \A b \in Nat : InMemo(p, n, b) => ~InList(List(d).free, b)

MemosIn(d, fld, txt) ==
  /\ fld \in Seq(Nat) /\ txt \in Seq(Sizes) /\ Len(txt) = Len(fld)
  /\ \A r \in 1..Len(fld) : MemoAt(d, r, fld[r], txt[r])

\* Each block is in the list or in a memo.
Covered(d, fld, txt) ==
  \A b \in 1..(List(d).next - 1) :
     InList(List(d).free, b) \/ \E r \in 1..Len(fld) : InMemo(fld[r], txt[r], b)

\* The file d with the records' fields fld and texts txt; l: a list was lost.
DataIn(d, fld, txt, l) ==
  /\ FileInv(d) /\ MemosIn(d, fld, txt) /\ (l \/ Covered(d, fld, txt))
  /\ List(d).next <= MaxBlocks + 1 /\ d.next <= MaxBlocks + 2
DataInv == DataIn(dbt, field, text, lost)

\* Entry r of the fields or texts, which a record being added has not got yet,
\* and the entries with v as entry r.
Entry(f, r) == IF r = Len(f) + 1 THEN 0 ELSE f[r]
With(f, r, v) == IF r = Len(f) + 1 THEN Append(f, v) ELSE [f EXCEPT ![r] = v]

\* What the memo of record r is known as outside the file.
Known(r, m) == m.recNo = Entry(field, r) /\ m.recCnt = Entry(text, r)

MemoWin == [rec : Nat \ {0}, recNo : Nat, recCnt : Nat, empty : BOOLEAN]
Waiting == [recNo : Nat, recCnt : Nat, cnt : Sizes]

\* The edit buffer and the waiting edit know where the selected memo is.
SelInv ==
  /\ sel \in 0..(NumRecs + 1) /\ editable \in BOOLEAN /\ lost \in BOOLEAN
  /\ ~editable => dbt.flags = {}
  /\ IsAddingRec => buf # None
BufInv ==
  /\ buf # None => editable /\ sel # 0 /\ buf = Entry(field, sel)
  /\ pend # None => buf # None /\ pend \in Waiting /\ Known(sel, pend)

\* So does each window, and a memo is open in one window only.
WinInv ==
  /\ dlg \in [Dialogs -> {None} \cup MemoWin]
  /\ \A w \in Dialogs : dlg[w] # None =>
        /\ dlg[w].rec \in 1..NumRecs \/ (dlg[w].rec = sel /\ IsAddingRec)
        /\ Known(dlg[w].rec, dlg[w])
  /\ \A v, w \in Dialogs : dlg[v] # None /\ dlg[w] # None /\ dlg[v].rec = dlg[w].rec => v = w

MInv == DataInv /\ SelInv /\ BufInv /\ WinInv

-----------------------------------------------------------------------------
(* Numbers and blocks.                                                     *)

\* A set of numbers that is not empty has a least one.
LEMMA LeastNumber ==
  ASSUME NEW T, T \subseteq Nat, T # {}
  PROVE  \E x \in T : \A y \in T : ~(y < x)
<1> DEFINE R == OpToRel(<, Nat)
<1>1. R = {ss \in Nat \X Nat : ss[1] < ss[2]}
  BY Zenon DEF OpToRel
<1>2. IsWellFoundedOn(R, Nat)
  BY NatLessThanWellFounded, Zenon
<1> HIDE DEF R
<1>3. \E x \in T : \A y \in T : ~(<<y, x>> \in R)
  BY <1>2, WFMin
<1>4. \A x, y \in T : y < x => <<y, x>> \in R
  BY <1>1
<1> QED BY <1>3, <1>4

\* A block of a text is no list, and a list knows free blocks.
LEMMA BlockKinds ==
  /\ \A r, k, n : LET b == [owner |-> r, part |-> k, of |-> n]
                  IN  IsText(b) /\ ~IsList(b)
  /\ \A b \in Block : IsList(b) => ~IsText(b) /\ b.list \in SUBSET FreeBlock
  /\ Unwritten \in Block /\ NoList(Unwritten)
<1>1. \A r, k, n : DOMAIN [owner |-> r, part |-> k, of |-> n] = {"owner", "part", "of"}
  OBVIOUS
<1>2. \A l : DOMAIN [list |-> l] = {"list"} /\ [list |-> l].list = l
  OBVIOUS
<1>3. "part" # "list" /\ "owner" # "list" /\ "of" # "list"
  OBVIOUS
<1>4. ASSUME NEW b \in Block, IsList(b) PROVE ~IsText(b) /\ b.list \in SUBSET FreeBlock
  <2>1. CASE b \in [owner : Nat, part : Nat, of : Nat]
    <3>1. b = [owner |-> b.owner, part |-> b.part, of |-> b.of]
      BY <2>1
    <3> QED BY <3>1, <1>1, <1>3, <1>4 DEF IsList
  <2>2. CASE b \in [list : SUBSET FreeBlock]
    <3>1. b = [list |-> b.list] /\ b.list \in SUBSET FreeBlock
      BY <2>2
    <3> QED BY <3>1, <1>2, <1>3 DEF IsText
  <2> QED BY <2>1, <2>2 DEF Block
<1>5. Unwritten \in Block /\ NoList(Unwritten)
  BY <1>2 DEF Unwritten, Block, NoList
<1> QED BY <1>1, <1>3, <1>4, <1>5 DEF IsText, IsList

\* The blocks of a text.
LEMMA TextFacts ==
  ASSUME NEW r \in Nat, NEW n \in Nat
  PROVE  /\ TextBlocks(r, n) \in Seq(Block) /\ Len(TextBlocks(r, n)) = n
         /\ \A k \in 1..n : TextBlocks(r, n)[k] = [owner |-> r, part |-> k, of |-> n]
<1>1. \A k \in 1..n : [owner |-> r, part |-> k, of |-> n] \in Block
  BY DEF Block
<1> QED BY <1>1 DEF TextBlocks

LEMMA SetLengthFacts ==
  ASSUME NEW file \in Seq(Block), NEW n \in Nat, n <= Len(file)
  PROVE  /\ SetLength(file, n) \in Seq(Block) /\ Len(SetLength(file, n)) = n
         /\ \A b \in 1..n : SetLength(file, n)[b] = file[b]
<1>1. \A b \in 1..n : file[b] \in Block
  OBVIOUS
<1> QED BY <1>1 DEF SetLength

\* Writing blocks within a file or at its end.
LEMMA PutFacts ==
  ASSUME NEW file \in Seq(Block), NEW t \in Seq(Block), NEW at \in Nat \ {0}, at <= Len(file) + 1
  PROVE  /\ Put(file, at, t) \in Seq(Block)
         /\ Len(Put(file, at, t)) =
              IF at + Len(t) - 1 > Len(file) THEN at + Len(t) - 1 ELSE Len(file)
         /\ \A k \in 1..Len(t) : Put(file, at, t)[at + k - 1] = t[k]
         /\ \A b \in 1..Len(file) : ~InMemo(at, Len(t), b) => Put(file, at, t)[b] = file[b]
<1> DEFINE m == IF at + Len(t) - 1 > Len(file) THEN at + Len(t) - 1 ELSE Len(file)
           val(b) == IF b \in at .. (at + Len(t) - 1) THEN t[b - at + 1]
                     ELSE IF b <= Len(file) THEN file[b] ELSE Unwritten
<1>1. m \in Nat /\ Len(t) \in Nat /\ Len(file) \in Nat
  OBVIOUS
<1>2. Put(file, at, t) = [b \in 1..m |-> val(b)]
  BY DEF Put
<1>3. \A b \in 1..m : val(b) \in Block
  BY <1>1, BlockKinds
<1>4. Put(file, at, t) \in Seq(Block) /\ Len(Put(file, at, t)) = m
  BY <1>1, <1>2, <1>3
<1>5. \A k \in 1..Len(t) : at + k - 1 \in 1..m /\ val(at + k - 1) = t[k]
  BY SMTT(40), <1>1
<1>6. \A b \in 1..Len(file) : b \in 1..m /\ (~InMemo(at, Len(t), b) => val(b) = file[b])
  BY <1>1 DEF InMemo
<1> QED BY <1>2, <1>4, <1>5, <1>6

-----------------------------------------------------------------------------
(* The free list.                                                          *)

LEMMA LowestIs ==
  ASSUME NEW S, NEW x \in S, x.recNo \in Int,
         \A g \in S : g # x => g.recNo \in Int /\ x.recNo < g.recNo
  PROVE  Lowest(S) = x
<1>1. \A g \in S : x.recNo <= g.recNo
  OBVIOUS
<1>2. \A y \in S : (\A g \in S : y.recNo <= g.recNo) => y = x
  OBVIOUS
<1> QED BY <1>1, <1>2 DEF Lowest

LEMMA HighestIs ==
  ASSUME NEW S, NEW x \in S, x.recNo \in Int,
         \A g \in S : g # x => g.recNo \in Int /\ g.recNo < x.recNo
  PROVE  Highest(S) = x
<1>1. \A g \in S : x.recNo >= g.recNo
  OBVIOUS
<1>2. \A y \in S : (\A g \in S : y.recNo >= g.recNo) => y = x
  OBVIOUS
<1> QED BY <1>1, <1>2 DEF Highest

\* A set of free blocks has a first and a smallest one.
LEMMA LowestExists ==
  ASSUME NEW S, S \subseteq FreeBlock, S # {}
  PROVE  Lowest(S) \in S /\ \A g \in S : Lowest(S).recNo <= g.recNo
<1> DEFINE T == {g.recNo : g \in S}
<1>1. T \subseteq Nat /\ T # {}
  BY DEF FreeBlock
<1>2. PICK n \in T : \A m \in T : ~(m < n)
  BY <1>1, LeastNumber
<1>3. PICK f \in S : f.recNo = n
  BY <1>2
<1>4. \A g \in S : f.recNo <= g.recNo
  BY <1>2, <1>3 DEF FreeBlock
<1> QED BY <1>3, <1>4 DEF Lowest

LEMMA SmallestExists ==
  ASSUME NEW S, S \subseteq FreeBlock, S # {}
  PROVE  Smallest(S) # {}
<1> DEFINE T == {g.recCnt : g \in S}
<1>1. T \subseteq Nat /\ T # {}
  BY DEF FreeBlock
<1>2. PICK n \in T : \A m \in T : ~(m < n)
  BY <1>1, LeastNumber
<1>3. PICK f \in S : f.recCnt = n
  BY <1>2
<1>4. \A g \in S : f.recCnt <= g.recCnt
  BY <1>2, <1>3 DEF FreeBlock
<1> QED BY <1>3, <1>4 DEF Smallest

\* The blocks of f are in no block of the list.
Apart(F, f) == \A g \in F : End(g) <= f.recNo \/ End(f) <= g.recNo

\* Neighbours are what touches f.
LEMMA NeighbourFacts ==
  ASSUME NEW F, NEW next, FreeList(F, next), NEW f \in FreeBlock, Apart(F, f)
  PROVE  Neighbours(F, f) = {g \in F : End(g) = f.recNo \/ g.recNo = End(f)}
<1> DEFINE Before == {g \in F : g.recNo < f.recNo}
           After == F \ Before
<1>1. /\ \A g \in F : g.recNo \in Nat /\ g.recCnt \in Nat \ {0} /\ End(g) = g.recNo + g.recCnt
      /\ f.recNo \in Nat /\ f.recCnt \in Nat \ {0} /\ End(f) = f.recNo + f.recCnt
  BY DEF FreeList, FreeBlock, End
<1>2. \A g, h \in F : g.recNo < h.recNo => End(g) < h.recNo
  BY DEF FreeList, CheckFree
<1>3. \A g, h \in F : g.recNo = h.recNo => g = h
  BY DEF FreeList
<1>4. ASSUME NEW g \in F, End(g) = f.recNo PROVE g \in Before /\ g = Highest(Before)
  <2>1. g \in Before
    BY <1>1, <1>4
  <2>2. \A h \in Before : h # g => h.recNo \in Int /\ h.recNo < g.recNo
    BY <1>1, <1>2, <1>3, <1>4
  <2>3. g.recNo \in Int
    BY <1>1
  <2> HIDE DEF Before, After
  <2> QED BY <2>1, <2>2, <2>3, HighestIs
<1>5. ASSUME NEW g \in F, g.recNo = End(f) PROVE g \in After /\ g = Lowest(After)
  <2>1. g \in After
    BY <1>1, <1>5
  <2>2. \A h \in After : h # g => h.recNo \in Int /\ g.recNo < h.recNo
    BY <1>1, <1>3, <1>5 DEF Apart
  <2>3. g.recNo \in Int
    BY <1>1
  <2> HIDE DEF Before, After
  <2> QED BY <2>1, <2>2, <2>3, LowestIs
<1> QED BY <1>1, <1>4, <1>5 DEF Neighbours

\* f and its neighbours become one block, which touches no other.
LEMMA JoinedFacts ==
  ASSUME NEW F, NEW next, FreeList(F, next), NEW f \in FreeBlock, Apart(F, f), End(f) <= next,
         NEW N, N = Neighbours(F, f), NEW j, j = Joined(f, N)
  PROVE  /\ j \in FreeBlock /\ End(j) <= next
         /\ \A b \in Nat : (j.recNo <= b /\ b < End(j)) <=> (InList(N, b) \/ InMemo(f.recNo, f.recCnt, b))
         /\ \A g \in F \ N : End(g) < j.recNo \/ End(j) < g.recNo
         /\ N \subseteq F
<1> DEFINE A == N \cup {f}
<1>1. /\ \A g \in A \cup F : g.recNo \in Nat \ {0} /\ g.recCnt \in Nat \ {0} /\ End(g) = g.recNo + g.recCnt
      /\ f.recNo \in Nat /\ f.recCnt \in Nat \ {0} /\ End(f) = f.recNo + f.recCnt
      /\ N \subseteq F
      /\ \A g \in F : g \in N <=> End(g) = f.recNo \/ g.recNo = End(f)
  BY NeighbourFacts DEF FreeList, FreeBlock, End
<1>2. \A g, h \in F : (g.recNo < h.recNo => End(g) < h.recNo) /\ (g.recNo = h.recNo => g = h)
  BY DEF FreeList, CheckFree
<1>0. next \in Nat /\ \A g \in F : End(g) < next
  BY DEF FreeList, CheckFree
<1>3. PICK L \in A : /\ Lowest(A) = L /\ \A g \in N : End(g) = f.recNo => g = L
                     /\ L = f \/ End(L) = f.recNo
  <2>1. CASE \E g \in N : End(g) = f.recNo
    <3>1. PICK g \in N : End(g) = f.recNo
      BY <2>1
    <3>2. \A h \in A : h # g => h.recNo \in Int /\ g.recNo < h.recNo
      BY <1>1, <1>2, <3>1
    <3>3. \A h \in N : End(h) = f.recNo => h = g
      BY <1>1, <1>2, <3>1
    <3>4. g \in A /\ g.recNo \in Int
      BY <1>1, <3>1
    <3>5. Lowest(A) = g
      BY <3>2, <3>4, LowestIs
    <3> QED BY <3>1, <3>3, <3>5
  <2>2. CASE ~\E g \in N : End(g) = f.recNo
    <3>1. \A h \in A : h # f => h.recNo \in Int /\ f.recNo < h.recNo
      BY <1>1, <2>2
    <3>2. f \in A /\ f.recNo \in Int
      BY <1>1
    <3>3. Lowest(A) = f
      BY <3>1, <3>2, LowestIs
    <3> QED BY <2>2, <3>2, <3>3
  <2> QED BY <2>1, <2>2
<1>4. PICK H \in A : /\ Highest(A) = H /\ \A g \in N : g.recNo = End(f) => g = H
                     /\ H = f \/ H.recNo = End(f)
  <2>1. CASE \E g \in N : g.recNo = End(f)
    <3>1. PICK g \in N : g.recNo = End(f)
      BY <2>1
    <3>2. \A h \in A : h # g => h.recNo \in Int /\ h.recNo < g.recNo
      BY <1>1, <1>2, <3>1
    <3>3. \A h \in N : h.recNo = End(f) => h = g
      BY <1>1, <1>2, <3>1
    <3>4. g \in A /\ g.recNo \in Int
      BY <1>1, <3>1
    <3>5. Highest(A) = g
      BY <3>2, <3>4, HighestIs
    <3> QED BY <3>1, <3>3, <3>5
  <2>2. CASE ~\E g \in N : g.recNo = End(f)
    <3>1. \A h \in A : h # f => h.recNo \in Int /\ h.recNo < f.recNo
      BY <1>1, <2>2
    <3>2. f \in A /\ f.recNo \in Int
      BY <1>1
    <3>3. Highest(A) = f
      BY <3>1, <3>2, HighestIs
    <3> QED BY <2>2, <3>2, <3>3
  <2> QED BY <2>1, <2>2
<1>5. /\ j = [recNo |-> L.recNo, recCnt |-> End(H) - L.recNo]
      /\ L.recNo <= f.recNo /\ End(f) <= End(H)
      /\ j.recNo = L.recNo /\ j.recCnt = End(H) - L.recNo /\ End(j) = End(H)
  BY <1>1, <1>3, <1>4 DEF Joined, End
<1>6. j \in FreeBlock /\ End(j) <= next
  BY <1>0, <1>1, <1>3, <1>4, <1>5 DEF FreeBlock
<1>7. ASSUME NEW b \in Nat
      PROVE  (j.recNo <= b /\ b < End(j)) <=> (InList(N, b) \/ InMemo(f.recNo, f.recCnt, b))
  <2>1. ASSUME j.recNo <= b, b < End(j) PROVE InList(N, b) \/ InMemo(f.recNo, f.recCnt, b)
    BY <1>1, <1>3, <1>4, <1>5, <2>1 DEF InList, InMemo
  <2>2. ASSUME NEW g \in N, g.recNo <= b, b < End(g) PROVE j.recNo <= b /\ b < End(j)
    BY <1>1, <1>3, <1>4, <1>5, <2>2
  <2>3. ASSUME InMemo(f.recNo, f.recCnt, b) PROVE j.recNo <= b /\ b < End(j)
    BY <1>1, <1>3, <1>4, <1>5, <2>3 DEF InMemo
  <2> QED BY <2>1, <2>2, <2>3 DEF InList
<1>8. ASSUME NEW g \in F \ N PROVE End(g) < j.recNo \/ End(j) < g.recNo
  BY <1>1, <1>2, <1>3, <1>4, <1>5, <1>8 DEF Apart
<1> QED BY <1>1, <1>6, <1>7, <1>8

\* AddToFree adds the blocks of f to those that are in the list or behind the
\* data, and changes nothing else.
AddEffect(d, f, e) ==
  /\ e \in Dbt /\ e.hdr = d.hdr /\ e.file = d.file
  /\ FreeList(e.free, e.next) /\ e.next <= d.next
  /\ e.flags = d.flags \cup (IF e.next < d.next THEN {"TRUNCATED"} ELSE {})
  /\ \A b \in Nat : b < d.next =>
        ((b >= e.next \/ InList(e.free, b)) <=> (InList(d.free, b) \/ InMemo(f.recNo, f.recCnt, b)))

LEMMA AddFacts ==
  ASSUME NEW d \in Dbt, FreeList(d.free, d.next),
         NEW f \in FreeBlock, Apart(d.free, f), End(f) <= d.next
  PROVE  AddEffect(d, f, AddToFree(d, f))
<1> DEFINE N == Neighbours(d.free, f)
           j == Joined(f, N)
           e == AddToFree(d, f)
<1>1. /\ j \in FreeBlock /\ End(j) <= d.next
      /\ \A b \in Nat : (j.recNo <= b /\ b < End(j)) <=> (InList(N, b) \/ InMemo(f.recNo, f.recCnt, b))
      /\ \A g \in d.free \ N : End(g) < j.recNo \/ End(j) < g.recNo
      /\ N \subseteq d.free
  BY JoinedFacts
<1>2. /\ \A g \in d.free : g \in FreeBlock /\ g.recNo \in Nat \ {0} /\ g.recCnt \in Nat \ {0}
                             /\ End(g) = g.recNo + g.recCnt /\ End(g) < d.next
      /\ \A g, h \in d.free : g.recNo < h.recNo => End(g) < h.recNo
      /\ \A g, h \in d.free : g.recNo = h.recNo => g = h
      /\ j.recNo \in Nat \ {0} /\ j.recCnt \in Nat \ {0} /\ End(j) = j.recNo + j.recCnt
      /\ f.recNo \in Nat \ {0} /\ f.recCnt \in Nat \ {0} /\ End(f) = f.recNo + f.recCnt
      /\ d.next \in Nat \ {0}
  BY <1>1 DEF FreeList, FreeBlock, End, CheckFree
<1>3. ~\E g \in d.free : g.recNo = f.recNo
  BY <1>2 DEF Apart
<1>4. \A b \in Nat : InList(d.free, b) <=> InList(N, b) \/ InList(d.free \ N, b)
  BY <1>1 DEF InList
<1> HIDE DEF j, N
<1>5. CASE End(j) = d.next
  <2> DEFINE F == d.free \ N
  <2>1. e = [d EXCEPT !.free = F, !.next = j.recNo, !.flags = @ \cup {"TRUNCATED"}]
    BY <1>3, <1>5 DEF AddToFree, N, j
  <2>2. e \in Dbt /\ e.hdr = d.hdr /\ e.file = d.file /\ e.free = F /\ e.next = j.recNo
        /\ e.flags = d.flags \cup {"TRUNCATED"}
    BY <1>2, <2>1 DEF Dbt, Flags
  <2>3. \A g \in F : End(g) < j.recNo
    BY <1>1, <1>2, <1>5
  <2>4. FreeList(F, j.recNo)
    <3>1. F \subseteq FreeBlock
      BY <1>2
    <3>2. CheckFree(F, j.recNo)
      BY <1>2, <2>3 DEF CheckFree
    <3> QED BY <1>2, <3>1, <3>2 DEF FreeList
  <2>5. ASSUME NEW b \in Nat, b < d.next
        PROVE  b >= j.recNo \/ InList(F, b) <=> InList(d.free, b) \/ InMemo(f.recNo, f.recCnt, b)
    <3>1. (j.recNo <= b /\ b < End(j)) <=> b >= j.recNo
      BY <1>2, <1>5, <2>5
    <3> QED BY <1>1, <1>4, <3>1
  <2>6. j.recNo < d.next
    BY <1>2, <1>5
  <2>7. /\ e.next <= d.next
        /\ e.flags = d.flags \cup (IF e.next < d.next THEN {"TRUNCATED"} ELSE {})
    BY <1>2, <2>2, <2>6
  <2> HIDE DEF e, F
  <2>8. AddEffect(d, f, e)
    BY <2>2, <2>4, <2>5, <2>7 DEF AddEffect
  <2> QED BY <2>8 DEF e
<1>6. CASE End(j) # d.next
  <2> DEFINE F == (d.free \ N) \cup {j}
  <2>1. e = [d EXCEPT !.free = F]
    BY <1>3, <1>6 DEF AddToFree, N, j
  <2>2. e \in Dbt /\ e.hdr = d.hdr /\ e.file = d.file /\ e.free = F /\ e.next = d.next
        /\ e.flags = d.flags
    BY <1>1, <1>2, <2>1 DEF Dbt
  <2>3. End(j) < d.next
    BY <1>1, <1>2, <1>6
  <2>4. FreeList(F, d.next)
    <3>1. F \subseteq FreeBlock
      BY <1>1, <1>2
    <3>2. CheckFree(F, d.next)
      BY <1>1, <1>2, <2>3 DEF CheckFree
    <3>3. \A g, h \in F : g.recNo = h.recNo => g = h
      BY <1>1, <1>2
    <3> QED BY <1>2, <3>1, <3>2, <3>3 DEF FreeList
  <2>5. ASSUME NEW b \in Nat, b < d.next
        PROVE  b >= d.next \/ InList(F, b) <=> InList(d.free, b) \/ InMemo(f.recNo, f.recCnt, b)
    <3>1. InList(F, b) <=> InList(d.free \ N, b) \/ (j.recNo <= b /\ b < End(j))
      BY DEF InList
    <3>2. ~(b >= d.next)
      BY <1>2, <2>5
    <3> QED BY <1>1, <1>4, <3>1, <3>2
  <2>6. /\ e.next <= d.next
        /\ e.flags = d.flags \cup (IF e.next < d.next THEN {"TRUNCATED"} ELSE {})
    BY <1>2, <2>2
  <2> HIDE DEF e, F
  <2>7. AddEffect(d, f, e)
    BY <2>2, <2>4, <2>5, <2>6 DEF AddEffect
  <2> QED BY <2>7 DEF e
<1> QED BY <1>5, <1>6

-----------------------------------------------------------------------------
(* Reading and writing the header and the stored list.                     *)

\* What a file's list, in memory or stored, says of its blocks.
LEMMA ListFacts ==
  ASSUME NEW d, FileInv(d)
  PROVE  /\ FreeList(List(d).free, List(d).next)
         /\ List(d).next \in Nat \ {0} /\ List(d).next <= Len(d.file) + 1
         /\ Len(d.file) \in Nat /\ d.file \in Seq(Block)
         /\ \A b \in 1..(List(d).next - 1) : NoList(d.file[b])
         /\ "INITFREE" \notin d.flags => List(d) = Loaded(d) /\ List(d).next \in {d.hdr, d.hdr - 1}
         /\ "INITFREE" \in d.flags => List(d).free = d.free /\ List(d).next = d.next
         /\ "INITFREE" \notin d.flags =>
              /\ (\A b \in 1..Len(d.file) : NoList(d.file[b])) => List(d) = [next |-> d.hdr, free |-> {}]
              /\ \A b \in 1..Len(d.file) : ~NoList(d.file[b]) =>
                    b = Len(d.file) /\ List(d) = [next |-> b, free |-> d.file[b].list]
<1>1. /\ d \in Dbt /\ d.hdr = Len(d.file) + 1 /\ d.file \in Seq(Block) /\ Len(d.file) \in Nat
      /\ d.flags \subseteq {"INITFREE"}
  BY DEF FileInv, Dbt
<1>2. CASE "INITFREE" \in d.flags
  <2>1. List(d).free = d.free /\ List(d).next = d.next
    BY <1>2 DEF List
  <2>2. FreeList(d.free, d.next) /\ d.next = d.hdr /\ d.next \in Nat \ {0}
    BY <1>2 DEF FileInv, FreeList
  <2>3. \A b \in 1..Len(d.file) : NoList(d.file[b])
    BY <1>2 DEF FileInv
  <2> QED BY <1>1, <1>2, <2>1, <2>2, <2>3
<1>3. CASE "INITFREE" \notin d.flags
  <2> DEFINE list == IF d.hdr > 1 /\ IsList(d.file[d.hdr - 1]) THEN d.file[d.hdr - 1].list ELSE {}
  <2>1. List(d) = Loaded(d)
    BY <1>3 DEF List
  <2>2. /\ \A b \in 1..Len(d.file) : NoList(d.file[b]) \/ b = Len(d.file)
        /\ \A b \in 1..Len(d.file) : ~NoList(d.file[b]) => FreeList(d.file[b].list, b)
    BY <1>3 DEF FileInv
  <2>3. Loaded(d) = IF d.hdr = 0 \/ d.hdr > Len(d.file) + 1 \/ ~CheckFree(list, d.hdr)
                    THEN [next |-> 0, free |-> {}]
                    ELSE [next |-> IF list = {} THEN d.hdr ELSE d.hdr - 1, free |-> list]
    BY DEF Loaded
  <2>4. CASE list = {}
    <3>1. CheckFree(list, d.hdr) /\ FreeList({}, d.hdr)
      BY <1>1, <2>4 DEF CheckFree, FreeList
    <3> HIDE DEF list
    <3>2. Loaded(d) = [next |-> d.hdr, free |-> {}]
      BY <1>1, <2>4, <2>3, <3>1
    <3> USE DEF list
    <3>3. \A b \in 1..Len(d.file) : NoList(d.file[b])
      BY <1>1, <2>2, <2>4 DEF NoList
    <3> QED BY <1>1, <1>3, <2>1, <3>1, <3>2, <3>3
  <2>5. CASE list # {}
    <3>1. d.hdr > 1 /\ list = d.file[d.hdr - 1].list /\ Len(d.file) \in 1..Len(d.file)
          /\ ~NoList(d.file[Len(d.file)]) /\ d.hdr - 1 = Len(d.file)
      BY <1>1, <2>5 DEF NoList
    <3>2. FreeList(list, d.hdr - 1)
      BY <2>2, <3>1
    <3> HIDE DEF list
    <3>3. CheckFree(list, d.hdr)
      BY <1>1, <3>2 DEF FreeList, CheckFree, FreeBlock, End
    <3>4. Loaded(d) = [next |-> d.hdr - 1, free |-> list]
      BY <1>1, <2>5, <2>3, <3>3
    <3>5. \A b \in 1..(d.hdr - 2) : NoList(d.file[b])
      BY <1>1, <2>2
    <3>6. \A b \in 1..Len(d.file) : ~NoList(d.file[b]) =>
             b = Len(d.file) /\ List(d) = [next |-> b, free |-> d.file[b].list]
      BY <2>1, <2>2, <3>1, <3>4
    <3> QED BY <1>1, <1>3, <2>1, <3>1, <3>2, <3>4, <3>5, <3>6
  <2> QED BY <2>4, <2>5
<1> QED BY <1>2, <1>3

\* InitFree puts the stored list into memory and cuts it off the file.
LEMMA InitFreeFacts ==
  ASSUME NEW d, FileInv(d), NEW e, e = InitFree(d)
  PROVE  /\ FileInv(e) /\ e.flags = {"INITFREE"} /\ Usable(e)
         /\ e.next = List(d).next /\ e.free = List(d).free
         /\ \A b \in 1..(e.next - 1) : e.file[b] = d.file[b]
<1>1. /\ d \in Dbt /\ d.hdr = Len(d.file) + 1 /\ d.file \in Seq(Block) /\ Len(d.file) \in Nat
      /\ d.flags \subseteq {"INITFREE"} /\ d.next \in Nat
  BY DEF FileInv, Dbt
<1>2. /\ FreeList(List(d).free, List(d).next)
      /\ List(d).next \in Nat \ {0} /\ List(d).next <= Len(d.file) + 1
      /\ \A b \in 1..(List(d).next - 1) : NoList(d.file[b])
  BY ListFacts
<1>3. CASE "INITFREE" \in d.flags
  <2>1. e = d
    BY <1>3 DEF InitFree
  <2>2. d.next > 0 /\ List(d).free = d.free /\ List(d).next = d.next
    BY <1>2, <1>3, ListFacts
  <2>3. d.flags = {"INITFREE"}
    BY <1>1, <1>3
  <2> QED BY <2>1, <2>2, <2>3 DEF Usable
<1>4. CASE "INITFREE" \notin d.flags
  <2> DEFINE l == Loaded(d)
             file == IF l.next < d.hdr THEN SetLength(d.file, l.next - 1) ELSE d.file
  <2>1. l = List(d) /\ l.next \in {d.hdr, d.hdr - 1}
    BY <1>4, ListFacts
  <2>2. l.next # 0
    BY <1>2, <2>1
  <2>3. e = [d EXCEPT !.next = l.next, !.free = l.free, !.flags = @ \cup {"INITFREE"},
                      !.hdr = l.next, !.file = file]
    BY <1>4, <2>2 DEF InitFree
  <2> HIDE DEF l
  <2>4. file \in Seq(Block) /\ Len(file) = l.next - 1 /\ \A b \in 1..(l.next - 1) : file[b] = d.file[b]
    <3>1. CASE l.next < d.hdr
      <4>1. l.next - 1 \in Nat /\ l.next - 1 <= Len(d.file)
        BY <1>1, <1>2, <2>1
      <4> QED BY <1>1, <3>1, <4>1, SetLengthFacts
    <3>2. CASE ~(l.next < d.hdr)
      <4>1. l.next = d.hdr /\ file = d.file
        BY <1>1, <2>1, <3>2
      <4> QED BY <1>1, <4>1
    <3> QED BY <3>1, <3>2
  <2> HIDE DEF file
  <2>5. l.free \in SUBSET FreeBlock /\ l.next \in Nat \ {0}
    BY <1>2, <2>1 DEF FreeList
  <2>6. /\ e \in Dbt /\ e.next = l.next /\ e.free = l.free /\ e.flags = {"INITFREE"}
        /\ e.hdr = l.next /\ e.file = file
    BY <1>1, <1>4, <2>3, <2>4, <2>5 DEF Dbt, Flags
  <2>7. \A b \in 1..Len(e.file) : NoList(e.file[b])
    BY <1>2, <2>1, <2>4, <2>6
  <2>8. FileInv(e)
    BY <1>2, <2>1, <2>4, <2>5, <2>6, <2>7 DEF FileInv
  <2> QED BY <2>1, <2>4, <2>5, <2>6, <2>8 DEF Usable
<1> QED BY <1>3, <1>4

\* FlushHdr brings header and length to where the data end.
LEMMA FlushHdrFacts ==
  ASSUME NEW e \in Dbt, "INITFREE" \in e.flags, FreeList(e.free, e.next),
         \A b \in 1..(e.next - 1) : NoList(e.file[b]), e.next - 1 <= Len(e.file),
         "TRUNCATED" \notin e.flags =>
            Len(e.file) = e.next - 1 /\ ("EXTENDED" \in e.flags \/ e.hdr = e.next),
         NEW g, g = FlushHdr(e)
  PROVE  /\ FileInv(g) /\ g.flags = {"INITFREE"} /\ g.free = e.free /\ g.next = e.next
         /\ \A b \in 1..(e.next - 1) : g.file[b] = e.file[b]
<1> DEFINE hdr == IF e.flags \cap {"EXTENDED", "TRUNCATED"} # {} THEN e.next ELSE e.hdr
           file == IF "TRUNCATED" \in e.flags THEN SetLength(e.file, e.next - 1) ELSE e.file
<1>1. /\ e.next \in Nat \ {0} /\ e.file \in Seq(Block) /\ Len(e.file) \in Nat
      /\ e.free \in SUBSET FreeBlock
  BY DEF FreeList, Dbt
<1>2. hdr = e.next
  BY <1>1
<1>3. file \in Seq(Block) /\ Len(file) = e.next - 1 /\ \A b \in 1..(e.next - 1) : file[b] = e.file[b]
  <2>1. CASE "TRUNCATED" \in e.flags
    <3>1. e.next - 1 \in Nat
      BY <1>1
    <3> QED BY <1>1, <2>1, <3>1, SetLengthFacts
  <2>2. CASE "TRUNCATED" \notin e.flags
    BY <1>1, <2>2
  <2> QED BY <2>1, <2>2
<1>4. g = [e EXCEPT !.hdr = hdr, !.file = file, !.flags = @ \cap {"INITFREE"}]
  BY DEF FlushHdr
<1> HIDE DEF hdr, file
<1>5. /\ g \in Dbt /\ g.hdr = e.next /\ g.file = file /\ g.flags = {"INITFREE"}
      /\ g.free = e.free /\ g.next = e.next
  <2> DEFINE fl == e.flags \cap {"INITFREE"}
  <2>1. fl = {"INITFREE"} /\ fl \in SUBSET Flags
    BY <1>1 DEF Flags
  <2>2. g = [e EXCEPT !.hdr = hdr, !.file = file, !.flags = fl]
    BY <1>4
  <2>3. e \in Dbt /\ hdr = e.next /\ e.next \in Nat /\ file \in Seq(Block)
    BY <1>1, <1>2, <1>3 DEF Dbt
  <2> HIDE DEF fl
  <2> QED BY ONLY <2>1, <2>2, <2>3 DEF Dbt
<1>6. \A b \in 1..Len(g.file) : NoList(g.file[b])
  BY <1>3, <1>5
<1> QED BY <1>1, <1>3, <1>5, <1>6 DEF FileInv

LEMMA FlushHdrIs ==
  ASSUME NEW e \in Dbt
  PROVE  FlushHdr(e) =
           [hdr |-> IF e.flags \cap {"EXTENDED", "TRUNCATED"} # {} THEN e.next ELSE e.hdr,
            file |-> IF "TRUNCATED" \in e.flags THEN SetLength(e.file, e.next - 1) ELSE e.file,
            next |-> e.next, free |-> e.free, flags |-> e.flags \cap {"INITFREE"}]
<1> DEFINE hdr == IF e.flags \cap {"EXTENDED", "TRUNCATED"} # {} THEN e.next ELSE e.hdr
           file == IF "TRUNCATED" \in e.flags THEN SetLength(e.file, e.next - 1) ELSE e.file
           flags == e.flags \cap {"INITFREE"}
<1>1. FlushHdr(e) = [e EXCEPT !.hdr = hdr, !.file = file, !.flags = flags]
  BY DEF FlushHdr
<1> HIDE DEF hdr, file, flags
<1>2. FlushHdr(e) = [hdr |-> hdr, file |-> file, next |-> e.next, free |-> e.free, flags |-> flags]
  BY <1>1 DEF Dbt
<1> QED BY <1>2 DEF hdr, file, flags

\* A file that nothing was written to stays as it is.
LEMMA FlushNothing ==
  ASSUME NEW d \in Dbt, d.flags \subseteq {"INITFREE"}
  PROVE  FlushHdr(d) = d
<1>1. d.flags \cap {"EXTENDED", "TRUNCATED"} = {} /\ "TRUNCATED" \notin d.flags
      /\ d.flags \cap {"INITFREE"} = d.flags
  OBVIOUS
<1> QED BY <1>1 DEF FlushHdr, Dbt

-----------------------------------------------------------------------------
(* A place for a text.                                                     *)

\* Blocks of which none is in the list.
LEMMA ApartFacts ==
  ASSUME NEW F, F \subseteq FreeBlock, NEW f \in FreeBlock,
         \A b \in Nat : InMemo(f.recNo, f.recCnt, b) => ~InList(F, b)
  PROVE  Apart(F, f)
<1> SUFFICES ASSUME NEW g \in F, ~(End(g) <= f.recNo), ~(End(f) <= g.recNo) PROVE FALSE
  BY DEF Apart
<1>1. /\ g.recNo \in Nat \ {0} /\ g.recCnt \in Nat \ {0} /\ End(g) = g.recNo + g.recCnt
      /\ f.recNo \in Nat \ {0} /\ f.recCnt \in Nat \ {0} /\ End(f) = f.recNo + f.recCnt
  BY DEF FreeBlock, End
<1> DEFINE b == IF f.recNo < g.recNo THEN g.recNo ELSE f.recNo
<1>2. b \in Nat /\ f.recNo <= b /\ b < f.recNo + f.recCnt /\ g.recNo <= b /\ b < End(g)
  BY <1>1
<1> HIDE DEF b
<1> QED BY <1>2 DEF InMemo, InList

\* The memo m lies in front of the data's end, and none of its blocks is free.
MemoIn(d, m) ==
  /\ m.recNo \in Nat /\ m.recCnt \in Nat /\ (m.recNo = 0 <=> m.recCnt = 0)
  /\ m.recNo + m.recCnt <= d.next
  /\ \A b \in Nat : InMemo(m.recNo, m.recCnt, b) => ~InList(d.free, b)

\* The blocks of m that n blocks of new text do not need.
Surplus(m, n) == IF n < m.recCnt THEN [recNo |-> m.recNo + n, recCnt |-> m.recCnt - n]
                 ELSE [recNo |-> m.recNo, recCnt |-> m.recCnt]

\* Released gives the surplus back.
LEMMA ReleasedFacts ==
  ASSUME NEW d \in Dbt, FreeList(d.free, d.next), NEW m, MemoIn(d, m), NEW n \in Nat
  PROVE  /\ m.recNo # 0 => AddEffect(d, Surplus(m, n), Released(d, m, n))
         /\ m.recNo = 0 => Released(d, m, n) = d
<1> SUFFICES ASSUME m.recNo # 0 PROVE AddEffect(d, Surplus(m, n), Released(d, m, n))
  BY DEF Released
<1> DEFINE f == Surplus(m, n)
<1>1. /\ m.recNo \in Nat \ {0} /\ m.recCnt \in Nat \ {0} /\ d.next \in Nat
      /\ m.recNo + m.recCnt <= d.next
  BY DEF MemoIn, FreeList
<1>2. f \in FreeBlock /\ End(f) <= d.next
  BY <1>1 DEF Surplus, FreeBlock, End
<1>3. \A b \in Nat : InMemo(f.recNo, f.recCnt, b) => InMemo(m.recNo, m.recCnt, b)
  BY <1>1 DEF Surplus, InMemo
<1>4. Released(d, m, n) = AddToFree(d, f)
  BY DEF Released, Surplus
<1> HIDE DEF f
<1>5. Apart(d.free, f)
  <2>1. \A b \in Nat : InMemo(f.recNo, f.recCnt, b) => ~InList(d.free, b)
    BY <1>3 DEF MemoIn
  <2> QED BY <1>2, <2>1, ApartFacts DEF FreeList
<1>6. AddEffect(d, f, AddToFree(d, f))
  BY <1>2, <1>5, AddFacts
<1> QED BY <1>4, <1>6 DEF f

\* The free block that is chosen is large enough.
LEMMA CandidateFacts ==
  ASSUME NEW F, F \subseteq FreeBlock, NEW n \in Nat, Candidates(F, n) # {},
         NEW f, f = Lowest(Candidates(F, n))
  PROVE  f \in F /\ n <= f.recCnt
<1>1. /\ Candidates(F, n) \subseteq F
      /\ \A g \in Candidates(F, n) : n <= g.recCnt
  BY DEF Candidates, Smallest, FreeBlock
<1>2. Candidates(F, n) \subseteq FreeBlock
  BY <1>1
<1>3. f \in Candidates(F, n)
  BY <1>2, LowestExists
<1> QED BY <1>1, <1>3

\* Taking n blocks from the front of a free block.
LEMMA TakeFacts ==
  ASSUME NEW F, NEW next, FreeList(F, next), NEW f \in F, NEW n \in Nat \ {0}, n <= f.recCnt,
         NEW G, G = (F \ {f}) \cup Remainder(f, n)
  PROVE  /\ FreeList(G, next) /\ f.recNo \in Nat \ {0} /\ f.recNo + n < next
         /\ \A b \in Nat : InList(G, b) <=> (InList(F, b) /\ ~InMemo(f.recNo, n, b))
         /\ \A b \in Nat : InMemo(f.recNo, n, b) => InList(F, b)
<1>1. /\ \A g \in F : g \in FreeBlock /\ g.recNo \in Nat \ {0} /\ g.recCnt \in Nat \ {0}
                        /\ End(g) = g.recNo + g.recCnt /\ End(g) < next
      /\ \A g, h \in F : (g.recNo < h.recNo => End(g) < h.recNo) /\ (g.recNo = h.recNo => g = h)
      /\ next \in Nat \ {0} /\ F \subseteq FreeBlock
  BY DEF FreeList, FreeBlock, End, CheckFree
<1>2. \A b \in Nat : InMemo(f.recNo, n, b) => InList(F, b)
  BY <1>1 DEF InMemo, InList
<1>3. \A g \in F \ {f} : End(g) < f.recNo \/ End(f) < g.recNo
  BY <1>1
<1>4. f.recNo \in Nat \ {0} /\ f.recNo + n < next
  BY <1>1
<1>5. CASE f.recCnt = n
  <2>1. G = F \ {f}
    BY <1>5 DEF Remainder
  <2>2. FreeList(G, next)
    BY <1>1, <2>1 DEF FreeList, CheckFree
  <2>3. ASSUME NEW b \in Nat PROVE InList(G, b) <=> (InList(F, b) /\ ~InMemo(f.recNo, n, b))
    BY <1>1, <1>3, <1>5, <2>1 DEF InMemo, InList
  <2> QED BY <1>2, <1>4, <2>2, <2>3
<1>6. CASE f.recCnt # n
  <2> DEFINE h == [recNo |-> f.recNo + n, recCnt |-> f.recCnt - n]
  <2>1. /\ G = (F \ {f}) \cup {h} /\ h \in FreeBlock
        /\ h.recNo = f.recNo + n /\ End(h) = End(f) /\ h.recNo \in Nat
    BY <1>1, <1>6 DEF Remainder, FreeBlock, End
  <2> HIDE DEF h
  <2>2. CheckFree(G, next)
    BY <1>1, <1>3, <2>1 DEF CheckFree, FreeBlock
  <2>3. \A g, k \in G : g.recNo = k.recNo => g = k
    BY <1>1, <1>3, <2>1
  <2>4. FreeList(G, next)
    BY <1>1, <2>1, <2>2, <2>3 DEF FreeList
  <2>5. ASSUME NEW b \in Nat PROVE InList(G, b) <=> (InList(F, b) /\ ~InMemo(f.recNo, n, b))
    BY <1>1, <1>3, <1>6, <2>1 DEF InMemo, InList
  <2> QED BY <1>2, <1>4, <2>4, <2>5
<1> QED BY <1>5, <1>6

\* Placed chooses n blocks that nothing else is in: behind the data, free, or
\* the old ones.
LEMMA PlacedFacts ==
  ASSUME NEW d, FreeList(d.free, d.next), NEW m, m.recNo \in Nat, m.recCnt \in Nat, NEW n \in Nat \ {0},
         m.recNo # 0 /\ n < m.recCnt =>
            m.recNo + n <= d.next /\ \A b \in Nat : InMemo(m.recNo, n, b) => ~InList(d.free, b),
         NEW p, p = Placed(d, m, n)
  PROVE  /\ FreeList(p.free, d.next) /\ p.at \in Nat \ {0} /\ p.at <= d.next
         /\ p.at # d.next => p.at + n <= d.next
         /\ m.recNo # 0 /\ n < m.recCnt => p.at = m.recNo
         /\ \A b \in Nat : InList(p.free, b) <=> (InList(d.free, b) /\ ~InMemo(p.at, n, b))
         /\ \A b \in Nat : InMemo(p.at, n, b) =>
              b >= d.next \/ InList(d.free, b) \/ (n < m.recCnt /\ InMemo(m.recNo, n, b))
<1> DEFINE C == Candidates(d.free, n)
<1>1. /\ d.next \in Nat \ {0} /\ d.free \subseteq FreeBlock
      /\ \A b \in Nat : InList(d.free, b) => b < d.next
  BY DEF FreeList, CheckFree, InList, FreeBlock, End
<1>2. CASE m.recNo # 0 /\ n < m.recCnt
  <2>1. p.at = m.recNo /\ p.free = d.free
    BY <1>2 DEF Placed
  <2>2. p.at \in Nat \ {0} /\ p.at + n <= d.next /\ p.at <= d.next
    BY <1>1, <1>2, <2>1
  <2>3. /\ \A b \in Nat : InMemo(p.at, n, b) => ~InList(d.free, b)
        /\ \A b \in Nat : InMemo(p.at, n, b) => n < m.recCnt /\ InMemo(m.recNo, n, b)
    BY <1>2, <2>1
  <2>4. FreeList(p.free, d.next) /\ \A b \in Nat : InList(p.free, b) <=> InList(d.free, b)
    BY <2>1
  <2>5. \A b \in Nat : InList(p.free, b) <=> (InList(d.free, b) /\ ~InMemo(p.at, n, b))
    BY ONLY <2>3, <2>4
  <2>6. \A b \in Nat : InMemo(p.at, n, b) =>
           b >= d.next \/ InList(d.free, b) \/ (n < m.recCnt /\ InMemo(m.recNo, n, b))
    BY ONLY <2>3
  <2>7. p.at # d.next => p.at + n <= d.next
    BY ONLY <2>2
  <2> QED BY ONLY <2>1, <2>2, <2>4, <2>5, <2>6, <2>7
<1>3. CASE ~(m.recNo # 0 /\ n < m.recCnt) /\ C = {}
  <2>1. p.at = d.next /\ p.free = d.free
    BY <1>3 DEF Placed
  <2>2. \A b \in Nat : InMemo(p.at, n, b) => b >= d.next /\ ~(b < d.next)
    BY <1>1, <2>1 DEF InMemo
  <2>3. FreeList(p.free, d.next) /\ \A b \in Nat : InList(p.free, b) <=> InList(d.free, b)
    BY <2>1
  <2>4. \A b \in Nat : InList(p.free, b) <=> (InList(d.free, b) /\ ~InMemo(p.at, n, b))
    BY ONLY <1>1, <2>2, <2>3
  <2>5. p.at \in Nat \ {0} /\ p.at <= d.next
    BY <1>1, <2>1
  <2> HIDE DEF C
  <2> QED BY ONLY <1>3, <2>1, <2>2, <2>3, <2>4, <2>5
<1>4. CASE ~(m.recNo # 0 /\ n < m.recCnt) /\ C # {}
  <2> DEFINE f == Lowest(C)
  <2>1. p.at = f.recNo /\ p.free = (d.free \ {f}) \cup Remainder(f, n)
    BY <1>4 DEF Placed
  <2>2. f \in d.free /\ n <= f.recCnt
    BY <1>1, <1>4, CandidateFacts
  <2> HIDE DEF f
  <2>3. /\ FreeList(p.free, d.next) /\ f.recNo \in Nat \ {0} /\ f.recNo + n < d.next
        /\ \A b \in Nat : InList(p.free, b) <=> (InList(d.free, b) /\ ~InMemo(f.recNo, n, b))
        /\ \A b \in Nat : InMemo(f.recNo, n, b) => InList(d.free, b)
    BY <2>1, <2>2, TakeFacts
  <2>4. p.at \in Nat \ {0} /\ p.at <= d.next /\ p.at + n <= d.next
    BY <1>1, <2>1, <2>3
  <2>5. p.at = f.recNo
    BY <2>1
  <2> HIDE DEF C
  <2> QED BY <1>4, <2>3, <2>4, <2>5
<1> QED BY <1>2, <1>3, <1>4

\* The file with text t of n blocks written at at, G being left of the list.
WrittenAt(r, G, at, t, n) ==
  LET w == Written([r EXCEPT !.free = G], at, t)
  IN  IF at = r.next THEN [w EXCEPT !.next = @ + n, !.flags = @ \cup {"EXTENDED"}] ELSE w

\* In r, blocks of the file d may have been given back, in memory only.
GivenBack(d, r) ==
  /\ r \in Dbt /\ r.next \in Nat \ {0} /\ r.next <= d.next /\ r.hdr = d.hdr /\ r.file = d.file
  /\ r.flags = d.flags \cup (IF r.next < d.next THEN {"TRUNCATED"} ELSE {})

\* What writing text t and then the header does.
WriteEffect(d, r, n, t, G, at, g) ==
  /\ FileInv(g) /\ g.flags = {"INITFREE"} /\ g.free = G
  /\ g.next = IF at = r.next THEN r.next + n ELSE r.next
  /\ \A k \in 1..n : g.file[at + k - 1] = t[k]
  /\ \A b \in 1..(r.next - 1) : ~InMemo(at, n, b) => g.file[b] = d.file[b]

\* A text written there, and then the header.
LEMMA WriteFacts ==
  ASSUME NEW d, FileInv(d), d.flags = {"INITFREE"}, NEW r, GivenBack(d, r),
         NEW n \in Nat \ {0}, NEW t \in Seq(Block), Len(t) = n, \A k \in 1..n : NoList(t[k]),
         NEW G, FreeList(G, r.next), NEW at \in Nat \ {0}, at <= r.next,
         at # r.next => at + n <= r.next,
         NEW g, g = FlushHdr(WrittenAt(r, G, at, t, n))
  PROVE  WriteEffect(d, r, n, t, G, at, g)
<1> DEFINE file == Put(d.file, at, t)
           next == IF at = r.next THEN r.next + n ELSE r.next
           flags == (d.flags \cup (IF r.next < d.next THEN {"TRUNCATED"} ELSE {}) \cup {"WRITTEN"})
                      \cup (IF at = r.next THEN {"EXTENDED"} ELSE {})
           w == Written([r EXCEPT !.free = G], at, t)
           e == WrittenAt(r, G, at, t, n)
<1>0. /\ r \in Dbt /\ r.next \in Nat \ {0} /\ r.next <= d.next /\ r.hdr = d.hdr /\ r.file = d.file
      /\ r.flags = d.flags \cup (IF r.next < d.next THEN {"TRUNCATED"} ELSE {})
  BY DEF GivenBack
<1>1. /\ d \in Dbt /\ d.next = Len(d.file) + 1 /\ d.hdr = d.next /\ d.file \in Seq(Block)
      /\ Len(d.file) \in Nat /\ \A b \in 1..Len(d.file) : NoList(d.file[b])
  BY DEF FileInv, Dbt
<1>2. /\ file \in Seq(Block)
      /\ Len(file) = IF at + n - 1 > Len(d.file) THEN at + n - 1 ELSE Len(d.file)
      /\ \A k \in 1..n : file[at + k - 1] = t[k]
      /\ \A b \in 1..Len(d.file) : ~InMemo(at, n, b) => file[b] = d.file[b]
  <2>1. at <= Len(d.file) + 1
    BY <1>0, <1>1
  <2>2. /\ file \in Seq(Block)
        /\ Len(file) = IF at + Len(t) - 1 > Len(d.file) THEN at + Len(t) - 1 ELSE Len(d.file)
        /\ \A k \in 1..Len(t) : file[at + k - 1] = t[k]
        /\ \A b \in 1..Len(d.file) : ~InMemo(at, Len(t), b) => file[b] = d.file[b]
    BY ONLY <1>1, <2>1, PutFacts, t \in Seq(Block), at \in Nat \ {0}
  <2> HIDE DEF file
  <2> QED BY <2>2
<1> HIDE DEF file
<1>3. G \in SUBSET FreeBlock /\ next \in Nat \ {0} /\ r.next <= next
  BY DEF FreeList
<1>4. /\ w \in Dbt /\ w.hdr = d.next /\ w.file = file /\ w.free = G /\ w.next = r.next
      /\ w.flags = d.flags \cup (IF r.next < d.next THEN {"TRUNCATED"} ELSE {}) \cup {"WRITTEN"}
  BY <1>0, <1>1, <1>2, <1>3 DEF Written, Dbt, Flags, file
<1> HIDE DEF w
<1>5. /\ e \in Dbt /\ e.hdr = d.next /\ e.file = file /\ e.free = G /\ e.next = next
      /\ e.flags = flags
  <2>1. e = IF at = r.next THEN [w EXCEPT !.next = @ + n, !.flags = @ \cup {"EXTENDED"}] ELSE w
    BY DEF WrittenAt, w
  <2> HIDE DEF e
  <2> QED BY <1>0, <1>3, <1>4, <2>1 DEF Dbt, Flags
<1> HIDE DEF e
<1>6. FreeList(G, next)
  BY <1>3 DEF FreeList, CheckFree, FreeBlock, End
<1>7. \A b \in 1..(next - 1) : InMemo(at, n, b) \/ b \in 1..(r.next - 1)
  BY <1>0, <1>3 DEF InMemo
<1>8. \A b \in Nat : InMemo(at, n, b) => b - at + 1 \in 1..n /\ at + (b - at + 1) - 1 = b
  BY DEF InMemo
<1>9. \A b \in 1..(next - 1) : NoList(file[b])
  <2> SUFFICES ASSUME NEW b \in 1..(next - 1) PROVE NoList(file[b])
    OBVIOUS
  <2>1. CASE InMemo(at, n, b)
    <3>1. b \in Nat
      BY <1>3
    <3>2. file[b] = t[b - at + 1] /\ b - at + 1 \in 1..n
      BY <1>2, <1>8, <2>1, <3>1
    <3> QED BY <3>2
  <2>2. CASE ~InMemo(at, n, b)
    <3>1. b \in 1..Len(d.file)
      BY <1>0, <1>1, <1>7, <2>2
    <3> QED BY <1>0, <1>1, <1>2, <2>2, <3>1
  <2> QED BY <2>1, <2>2
<1>10. next - 1 <= Len(file)
  BY <1>0, <1>1, <1>2, <1>3
<1>11. "TRUNCATED" \notin e.flags =>
          Len(e.file) = e.next - 1 /\ ("EXTENDED" \in e.flags \/ e.hdr = e.next)
  <2> SUFFICES ASSUME "TRUNCATED" \notin e.flags
               PROVE  Len(e.file) = e.next - 1 /\ ("EXTENDED" \in e.flags \/ e.hdr = e.next)
    OBVIOUS
  <2>1. ~(r.next < d.next)
    BY <1>0, <1>5
  <2>2. r.next = d.next
    BY <1>0, <1>1, <2>1
  <2>3. Len(file) = next - 1
    <3>1. CASE at = r.next
      <4>1. next = d.next + n /\ at = d.next
        BY <2>2, <3>1
      <4> HIDE DEF next
      <4> QED BY ONLY <1>1, <1>2, <4>1, n \in Nat \ {0}
    <3>2. CASE at # r.next
      <4>1. next = d.next /\ at + n <= d.next
        BY <2>2, <3>2
      <4> HIDE DEF next
      <4> QED BY ONLY <1>1, <1>2, <4>1, n \in Nat \ {0}, at \in Nat \ {0}
    <3> QED BY <3>1, <3>2
  <2>4. at = r.next => "EXTENDED" \in flags
    OBVIOUS
  <2>5. at # r.next => next = d.next
    BY <2>2
  <2> HIDE DEF next, flags
  <2> QED BY ONLY <1>5, <2>3, <2>4, <2>5
<1>12. "INITFREE" \in e.flags
  BY <1>0, <1>5
<1> HIDE DEF next, flags
<1>13. /\ FileInv(g) /\ g.flags = {"INITFREE"} /\ g.free = G /\ g.next = next
       /\ \A b \in 1..(next - 1) : g.file[b] = file[b]
  <2>0. g = FlushHdr(e)
    BY DEF e
  <2>1. /\ FreeList(e.free, e.next) /\ e.next - 1 <= Len(e.file)
        /\ \A b \in 1..(e.next - 1) : NoList(e.file[b])
    BY <1>5, <1>6, <1>9, <1>10
  <2>2. /\ FileInv(g) /\ g.flags = {"INITFREE"} /\ g.free = e.free /\ g.next = e.next
        /\ \A b \in 1..(e.next - 1) : g.file[b] = e.file[b]
    BY ONLY <1>5, <1>11, <1>12, <2>1, FlushHdrFacts, <2>0
  <2> QED BY <1>5, <2>2
<1>14. \A k \in 1..n : at + k - 1 \in 1..(next - 1)
  BY <1>0 DEF next
<1>15. \A b \in 1..(r.next - 1) : b \in 1..(next - 1) /\ b \in 1..Len(d.file)
  BY <1>0, <1>1 DEF next
<1>16. \A k \in 1..n : g.file[at + k - 1] = t[k]
  BY ONLY <1>2, <1>13, <1>14
<1>17. \A b \in 1..(r.next - 1) : ~InMemo(at, n, b) => g.file[b] = d.file[b]
  BY <1>2, <1>13, <1>15
<1> QED BY <1>13, <1>16, <1>17 DEF next, WriteEffect

-----------------------------------------------------------------------------
(* The operations of the memo file, as the layer uses them: each is followed *)
(* by FlushHdr.                                                              *)

\* What saving a text of n blocks for r in place of the memo m does to a file:
\* the text is at block at, all other blocks keep what they have, and blocks
\* that were used and are not any more are in the list or behind the data.
SaveEffect(d, m, r, n, e, at) ==
  /\ FileInv(e) /\ at \in Nat /\ (at = 0 <=> n = 0) /\ at + n <= List(e).next
  /\ \A k \in 1..n : e.file[at + k - 1] = [owner |-> r, part |-> k, of |-> n]
  /\ \A b \in Nat : InMemo(at, n, b) => ~InList(List(e).free, b)
  /\ \A b \in 1..(List(d).next - 1) :
        ~InList(List(d).free, b) /\ ~InMemo(m.recNo, m.recCnt, b) =>
          /\ b < List(e).next /\ ~InList(List(e).free, b)
          /\ ~InMemo(at, n, b) /\ e.file[b] = d.file[b]
  /\ \A b \in 1..(List(e).next - 1) :
        \/ InList(List(e).free, b) \/ InMemo(at, n, b)
        \/ b < List(d).next /\ ~InList(List(d).free, b) /\ ~InMemo(m.recNo, m.recCnt, b)
  /\ List(e).next <= List(d).next + n
  /\ e.next = d.next \/ e.next = List(e).next

\* Writing into blocks in front of the list leaves the list alone.
LEMMA SameList ==
  ASSUME NEW d, FileInv(d), NEW e \in Dbt, e.hdr = d.hdr, Len(e.file) = Len(d.file),
         e.flags = d.flags, e.free = d.free, e.next = d.next,
         \A b \in 1..Len(d.file) :
            e.file[b] = d.file[b] \/ (b < List(d).next /\ NoList(e.file[b]))
  PROVE  FileInv(e) /\ List(e).next = List(d).next /\ List(e).free = List(d).free
<1>1. /\ d \in Dbt /\ d.hdr = Len(d.file) + 1 /\ Len(d.file) \in Nat /\ List(d).next \in Nat
      /\ \A b \in 1..(List(d).next - 1) : NoList(d.file[b])
  BY ListFacts DEF FileInv
<1>2. \A b \in 1..Len(d.file) : e.file[b] = d.file[b] \/ (NoList(d.file[b]) /\ NoList(e.file[b]))
  <2>1. \A b \in 1..Len(d.file) : b < List(d).next => b \in 1..(List(d).next - 1)
    BY <1>1
  <2> QED BY <1>1, <2>1
<1>3. FileInv(e)
  <2>1. \A b \in 1..Len(e.file) : ~NoList(e.file[b]) => FreeList(e.file[b].list, b)
    BY <1>2 DEF FileInv
  <2>2. \A b \in 1..Len(e.file) : NoList(e.file[b]) \/ ("INITFREE" \notin e.flags /\ b = Len(e.file))
    BY <1>2 DEF FileInv
  <2> QED BY <1>1, <2>1, <2>2 DEF FileInv
<1>4. CASE "INITFREE" \in d.flags
  BY <1>3, <1>4, ListFacts
<1>5. CASE "INITFREE" \notin d.flags
  <2>1. CASE \A b \in 1..Len(d.file) : NoList(d.file[b])
    <3>1. \A b \in 1..Len(e.file) : NoList(e.file[b])
      BY <1>2, <2>1
    <3>2. List(d) = [next |-> d.hdr, free |-> {}]
      BY <1>5, <2>1, ListFacts
    <3>3. List(e) = [next |-> e.hdr, free |-> {}]
      BY <1>3, <1>5, <3>1, ListFacts
    <3> QED BY <1>3, <3>2, <3>3
  <2>2. CASE \E b \in 1..Len(d.file) : ~NoList(d.file[b])
    <3>1. PICK b \in 1..Len(d.file) : ~NoList(d.file[b])
      BY <2>2
    <3>2. List(d) = [next |-> b, free |-> d.file[b].list]
      BY <1>5, <3>1, ListFacts
    <3>3. e.file[b] = d.file[b]
      BY <1>2, <3>1
    <3>4. List(e) = [next |-> b, free |-> e.file[b].list]
      BY <1>3, <1>5, <3>1, <3>3, ListFacts
    <3> QED BY <1>3, <3>2, <3>3, <3>4
  <2> QED BY <2>1, <2>2
<1> QED BY <1>3, <1>4, <1>5

\* Nothing to write, and nothing to give back.
LEMMA SaveNothing ==
  ASSUME NEW d, FileInv(d), NEW m, m.recNo = 0, m.recCnt = 0, NEW r
  PROVE  SaveEffect(d, m, r, 0, FlushHdr(d), 0)
<1>1. FlushHdr(d) = d
  BY FlushNothing DEF FileInv
<1>2. List(d).next \in Nat \ {0} /\ FreeList(List(d).free, List(d).next)
  BY ListFacts
<1>3. \A b \in Nat : ~InMemo(0, 0, b)
  BY DEF InMemo
<1>4. \A b \in 1..(List(d).next - 1) : b \in Nat /\ b < List(d).next
  BY <1>2
<1> QED BY <1>1, <1>2, <1>3, <1>4 DEF SaveEffect

\* The text is deleted: its blocks are given back.
LEMMA SaveEmpty ==
  ASSUME NEW d, FileInv(d), NEW m \in FreeBlock, MemoIn(List(d), m), NEW r,
         NEW e, e = FlushHdr(AddToFree(InitFree(d), m))
  PROVE  SaveEffect(d, m, r, 0, e, 0)
<1> DEFINE c == InitFree(d)
           a == AddToFree(c, m)
<1>1. /\ FileInv(c) /\ c.flags = {"INITFREE"} /\ c.next = List(d).next /\ c.free = List(d).free
      /\ \A b \in 1..(c.next - 1) : c.file[b] = d.file[b]
  BY InitFreeFacts
<1> HIDE DEF c
<1>2. /\ c \in Dbt /\ c.hdr = Len(c.file) + 1 /\ c.next = c.hdr /\ Len(c.file) \in Nat
      /\ FreeList(c.free, c.next) /\ \A b \in 1..(c.next - 1) : NoList(c.file[b])
  BY <1>1 DEF FileInv, Dbt
<1>3. Apart(c.free, m) /\ End(m) <= c.next
  <2>1. \A b \in Nat : InMemo(m.recNo, m.recCnt, b) => ~InList(c.free, b)
    BY <1>1 DEF MemoIn
  <2>2. End(m) <= c.next
    BY <1>1 DEF MemoIn, End
  <2> QED BY <1>2, <2>1, <2>2, ApartFacts DEF FreeList
<1>4. AddEffect(c, m, a)
  BY <1>2, <1>3, AddFacts
<1> HIDE DEF a
<1>5. /\ a \in Dbt /\ a.hdr = c.hdr /\ a.file = c.file /\ FreeList(a.free, a.next) /\ a.next <= c.next
      /\ a.flags = c.flags \cup (IF a.next < c.next THEN {"TRUNCATED"} ELSE {})
      /\ \A b \in Nat : b < c.next =>
            ((b >= a.next \/ InList(a.free, b)) <=> (InList(c.free, b) \/ InMemo(m.recNo, m.recCnt, b)))
      /\ a.next \in Nat \ {0} /\ c.next \in Nat
  BY <1>2, <1>4 DEF AddEffect, FreeList
<1>6. "TRUNCATED" \notin a.flags =>
         Len(a.file) = a.next - 1 /\ ("EXTENDED" \in a.flags \/ a.hdr = a.next)
  <2> SUFFICES ASSUME "TRUNCATED" \notin a.flags PROVE Len(a.file) = a.next - 1 /\ a.hdr = a.next
    OBVIOUS
  <2>1. ~(a.next < c.next)
    BY <1>5
  <2> QED BY ONLY <1>2, <1>5, <2>1
<1>7. /\ "INITFREE" \in a.flags /\ a.next - 1 <= Len(a.file)
      /\ \A b \in 1..(a.next - 1) : NoList(a.file[b])
  BY <1>1, <1>2, <1>5
<1>8. e = FlushHdr(a)
  BY DEF a, c
<1>9. /\ FileInv(e) /\ e.flags = {"INITFREE"} /\ e.free = a.free /\ e.next = a.next
      /\ \A b \in 1..(a.next - 1) : e.file[b] = a.file[b]
  BY ONLY <1>5, <1>6, <1>7, <1>8, FlushHdrFacts
<1>10. List(e).free = a.free /\ List(e).next = a.next
  BY <1>9, ListFacts
<1>11. \A b \in Nat : ~InMemo(0, 0, b)
  BY DEF InMemo
<1>12. ASSUME NEW b \in 1..(c.next - 1), ~InList(c.free, b), ~InMemo(m.recNo, m.recCnt, b)
       PROVE  b < a.next /\ ~InList(a.free, b) /\ e.file[b] = d.file[b]
  <2>1. b \in Nat /\ b < c.next /\ 1 <= b
    BY <1>5
  <2>2. ~(b >= a.next) /\ ~InList(a.free, b)
    BY ONLY <1>5, <1>12, <2>1
  <2>3. b \in 1..(a.next - 1) /\ b < a.next
    BY <1>5, <2>1, <2>2
  <2> QED BY <1>1, <1>5, <1>9, <2>2, <2>3
<1>13. ASSUME NEW b \in 1..(a.next - 1), ~InList(a.free, b)
       PROVE  b < c.next /\ ~InList(c.free, b) /\ ~InMemo(m.recNo, m.recCnt, b)
  <2>1. b \in Nat /\ b < c.next /\ ~(b >= a.next)
    BY <1>5
  <2> QED BY ONLY <1>5, <1>13, <2>1
<1>14. 0 + 0 <= a.next /\ a.next <= c.next + 0
  BY <1>5
<1> QED BY ONLY <1>1, <1>9, <1>10, <1>11, <1>12, <1>13, <1>14 DEF SaveEffect

\* A text of as many blocks as the old one is written in its place.
LEMMA SaveInPlace ==
  ASSUME NEW d, FileInv(d), NEW m, MemoIn(List(d), m), NEW r \in Nat,
         NEW n \in Nat \ {0}, n = m.recCnt, NEW e, e = FlushHdr(Written(d, m.recNo, TextBlocks(r, n)))
  PROVE  SaveEffect(d, m, r, n, e, m.recNo)
<1> DEFINE t == TextBlocks(r, n)
           file == Put(d.file, m.recNo, t)
<1>1. /\ d \in Dbt /\ d.file \in Seq(Block) /\ Len(d.file) \in Nat /\ d.flags \subseteq {"INITFREE"}
      /\ List(d).next \in Nat \ {0} /\ List(d).next <= Len(d.file) + 1
  BY ListFacts DEF FileInv
<1>2. /\ m.recNo \in Nat \ {0} /\ m.recNo + n <= List(d).next
      /\ \A b \in Nat : InMemo(m.recNo, n, b) => ~InList(List(d).free, b)
  BY DEF MemoIn
<1>3. t \in Seq(Block) /\ Len(t) = n /\ \A k \in 1..n : t[k] = [owner |-> r, part |-> k, of |-> n]
  BY TextFacts
<1> HIDE DEF t
<1>4. /\ file \in Seq(Block)
      /\ Len(file) = Len(d.file)
      /\ \A k \in 1..n : file[m.recNo + k - 1] = t[k]
      /\ \A b \in 1..Len(d.file) : ~InMemo(m.recNo, n, b) => file[b] = d.file[b]
  <2>1. m.recNo <= Len(d.file) + 1 /\ ~(m.recNo + n - 1 > Len(d.file))
    BY <1>1, <1>2
  <2>2. /\ file \in Seq(Block)
        /\ Len(file) = IF m.recNo + Len(t) - 1 > Len(d.file) THEN m.recNo + Len(t) - 1 ELSE Len(d.file)
        /\ \A k \in 1..Len(t) : file[m.recNo + k - 1] = t[k]
        /\ \A b \in 1..Len(d.file) : ~InMemo(m.recNo, Len(t), b) => file[b] = d.file[b]
    <3>1. d.file \in Seq(Block) /\ t \in Seq(Block) /\ m.recNo \in Nat \ {0} /\ m.recNo <= Len(d.file) + 1
      BY <1>1, <1>2, <1>3, <2>1
    <3> QED BY ONLY <3>1, PutFacts
  <2> HIDE DEF file
  <2> QED BY <1>3, <2>1, <2>2
<1> HIDE DEF file
<1>5. /\ e \in Dbt /\ e.hdr = d.hdr /\ e.file = file /\ e.flags = d.flags
      /\ e.free = d.free /\ e.next = d.next
  <2> DEFINE w == Written(d, m.recNo, t)
  <2>1. w = [d EXCEPT !.file = file, !.flags = @ \cup {"WRITTEN"}]
    BY DEF Written, file
  <2>2. /\ w \in Dbt /\ w.hdr = d.hdr /\ w.file = file /\ w.free = d.free /\ w.next = d.next
        /\ w.flags = d.flags \cup {"WRITTEN"}
    BY <1>1, <1>4, <2>1 DEF Dbt, Flags
  <2> HIDE DEF w
  <2>3. /\ w.flags \cap {"EXTENDED", "TRUNCATED"} = {} /\ "TRUNCATED" \notin w.flags
        /\ w.flags \cap {"INITFREE"} = d.flags
    BY <1>1, <2>2
  <2>4. e = [w EXCEPT !.hdr = w.hdr, !.file = w.file, !.flags = d.flags]
    BY <2>3 DEF FlushHdr, w, t
  <2> QED BY <1>1, <2>2, <2>4 DEF Dbt
<1>6. \A b \in Nat : InMemo(m.recNo, n, b) =>
         b < List(d).next /\ b - m.recNo + 1 \in 1..n /\ m.recNo + (b - m.recNo + 1) - 1 = b
  BY SMTT(40), <1>1, <1>2 DEF InMemo
<1>7. \A k \in 1..n : NoList(t[k])
  BY <1>3, BlockKinds DEF NoList
<1>8. \A b \in 1..Len(d.file) :
         e.file[b] = d.file[b] \/ (b < List(d).next /\ NoList(e.file[b]))
  <2> SUFFICES ASSUME NEW b \in 1..Len(d.file), InMemo(m.recNo, n, b)
               PROVE  b < List(d).next /\ NoList(e.file[b])
    BY <1>4, <1>5
  <2>1. b \in Nat
    BY <1>1
  <2>2. b - m.recNo + 1 \in 1..n /\ file[b] = t[b - m.recNo + 1]
    BY <1>4, <1>6, <2>1
  <2> QED BY <1>5, <1>6, <1>7, <2>1, <2>2
<1>9. FileInv(e) /\ List(e).next = List(d).next /\ List(e).free = List(d).free
  BY <1>4, <1>5, <1>8, SameList
<1>10. \A k \in 1..n : e.file[m.recNo + k - 1] = [owner |-> r, part |-> k, of |-> n]
  BY <1>3, <1>4, <1>5
<1>11. \A b \in 1..(List(d).next - 1) : /\ b \in 1..Len(d.file) /\ b \in Nat /\ b < List(d).next
                                        /\ ~InMemo(m.recNo, n, b) => e.file[b] = d.file[b]
  BY <1>1, <1>4, <1>5
<1>12. List(d).next <= List(d).next + n
  BY <1>1
<1> QED BY <1>2, <1>5, <1>9, <1>10, <1>11, <1>12 DEF SaveEffect

\* A text that is placed anew: r is the file in memory after what the new text
\* does not need was given back.
LEMMA SavePlaced ==
  ASSUME NEW d, FileInv(d), NEW m, MemoIn(List(d), m), NEW o \in Nat,
         NEW n \in Nat \ {0}, NEW c, c = InitFree(d),
         NEW r, r = Released(c, m, n), NEW p, p = Placed(r, m, n),
         NEW e, e = FlushHdr(WrittenAt(r, p.free, p.at, TextBlocks(o, n), n))
  PROVE  SaveEffect(d, m, o, n, e, p.at)
<1>1. /\ FileInv(c) /\ c.flags = {"INITFREE"} /\ c.next = List(d).next /\ c.free = List(d).free
      /\ \A b \in 1..(c.next - 1) : c.file[b] = d.file[b]
  BY InitFreeFacts
<1>2. c \in Dbt /\ FreeList(c.free, c.next) /\ c.next \in Nat \ {0}
  BY <1>1 DEF FileInv, FreeList
<1>3. MemoIn(c, m)
  BY <1>1 DEF MemoIn
<1>4. m.recNo \in Nat /\ m.recCnt \in Nat /\ (m.recNo = 0 <=> m.recCnt = 0)
      /\ \A b \in Nat : InMemo(m.recNo, m.recCnt, b) => ~InList(c.free, b)
  BY <1>3 DEF MemoIn
\* Given back are blocks of m, but for the n that stay its own.
<1>5. /\ r \in Dbt /\ r.hdr = c.hdr /\ r.file = c.file /\ FreeList(r.free, r.next)
      /\ r.next \in Nat \ {0} /\ r.next <= c.next
      /\ r.flags = c.flags \cup (IF r.next < c.next THEN {"TRUNCATED"} ELSE {})
      /\ \A b \in Nat : b < c.next =>
            ((b >= r.next \/ InList(r.free, b)) <=>
               (InList(c.free, b) \/ (InMemo(m.recNo, m.recCnt, b) /\ ~(n < m.recCnt /\ InMemo(m.recNo, n, b)))))
  <2>1. CASE m.recNo = 0
    <3>1. r = c
      BY <1>2, <1>3, <2>1, ReleasedFacts
    <3>2. \A b \in Nat : ~InMemo(m.recNo, m.recCnt, b) /\ (b < c.next => ~(b >= c.next))
      BY <1>2, <1>4, <2>1 DEF InMemo
    <3>3. r.flags = c.flags \cup (IF r.next < c.next THEN {"TRUNCATED"} ELSE {}) /\ r.next <= c.next
      BY <1>2, <3>1
    <3> QED BY ONLY <1>2, <3>1, <3>2, <3>3
  <2>2. CASE m.recNo # 0
    <3>1. AddEffect(c, Surplus(m, n), r)
      BY <1>2, <1>3, <2>2, ReleasedFacts
    <3>2. \A b \in Nat : InMemo(Surplus(m, n).recNo, Surplus(m, n).recCnt, b) <=>
             (InMemo(m.recNo, m.recCnt, b) /\ ~(n < m.recCnt /\ InMemo(m.recNo, n, b)))
      <4>1. CASE n < m.recCnt
        BY <1>4, <2>2, <4>1 DEF InMemo, Surplus
      <4>2. CASE ~(n < m.recCnt)
        BY <1>4, <4>2 DEF Surplus
      <4> QED BY <4>1, <4>2
    <3>3. r.next \in Nat \ {0}
      BY <3>1 DEF AddEffect, FreeList
    <3> QED BY ONLY <3>1, <3>2, <3>3 DEF AddEffect
  <2> QED BY <2>1, <2>2
<1>6. m.recNo # 0 /\ n < m.recCnt =>
         m.recNo + n <= r.next /\ \A b \in Nat : InMemo(m.recNo, n, b) => ~InList(r.free, b)
  <2> SUFFICES ASSUME m.recNo # 0, n < m.recCnt
               PROVE  m.recNo + n <= r.next /\ \A b \in Nat : InMemo(m.recNo, n, b) => ~InList(r.free, b)
    OBVIOUS
  <2>1. m.recNo + m.recCnt <= c.next
    BY <1>3 DEF MemoIn
  <2>2. \A b \in Nat : InMemo(m.recNo, n, b) => InMemo(m.recNo, m.recCnt, b) /\ b < c.next
    BY <1>2, <1>4, <2>1 DEF InMemo
  <2>3. \A b \in Nat : InMemo(m.recNo, n, b) => ~(b >= r.next) /\ ~InList(r.free, b)
    BY ONLY <1>4, <1>5, <2>2, n < m.recCnt
  <2>4. m.recNo + n - 1 \in Nat /\ InMemo(m.recNo, n, m.recNo + n - 1)
    BY <1>4 DEF InMemo
  <2>5. ~(m.recNo + n - 1 >= r.next)
    BY <2>3, <2>4
  <2>6. m.recNo + n <= r.next
    BY <1>4, <1>5, <2>5
  <2> QED BY <2>3, <2>6
<1>7. /\ FreeList(p.free, r.next) /\ p.at \in Nat \ {0} /\ p.at <= r.next
      /\ p.at # r.next => p.at + n <= r.next
      /\ m.recNo # 0 /\ n < m.recCnt => p.at = m.recNo
      /\ \A b \in Nat : InList(p.free, b) <=> (InList(r.free, b) /\ ~InMemo(p.at, n, b))
      /\ \A b \in Nat : InMemo(p.at, n, b) =>
           b >= r.next \/ InList(r.free, b) \/ (n < m.recCnt /\ InMemo(m.recNo, n, b))
  BY <1>4, <1>5, <1>6, PlacedFacts
<1> DEFINE t == TextBlocks(o, n)
           next == IF p.at = r.next THEN r.next + n ELSE r.next
<1>8. t \in Seq(Block) /\ Len(t) = n /\ \A k \in 1..n : t[k] = [owner |-> o, part |-> k, of |-> n]
  BY TextFacts
<1>9. \A k \in 1..n : NoList(t[k])
  BY <1>8, BlockKinds DEF NoList
<1>10. /\ FileInv(e) /\ e.flags = {"INITFREE"} /\ e.free = p.free /\ e.next = next
       /\ \A k \in 1..n : e.file[p.at + k - 1] = t[k]
       /\ \A b \in 1..(r.next - 1) : ~InMemo(p.at, n, b) => e.file[b] = c.file[b]
  <2>1. e = FlushHdr(WrittenAt(r, p.free, p.at, t, n))
    OBVIOUS
  <2> HIDE DEF t
  <2>3. GivenBack(c, r)
    BY <1>5 DEF GivenBack
  <2>4. /\ FileInv(c) /\ c.flags = {"INITFREE"} /\ FreeList(p.free, r.next) /\ p.at \in Nat \ {0}
        /\ p.at <= r.next /\ (p.at # r.next => p.at + n <= r.next)
        /\ t \in Seq(Block) /\ Len(t) = n
    BY ONLY <1>1, <1>7, <1>8
  <2>2. WriteEffect(c, r, n, t, p.free, p.at, e)
    BY ONLY <1>9, <2>1, <2>3, <2>4, n \in Nat \ {0}, WriteFacts
  <2> QED BY <2>2 DEF WriteEffect
<1> HIDE DEF t
<1>11. List(e).free = p.free /\ List(e).next = next
  <2>1. List(e).free = e.free /\ List(e).next = e.next
    BY ONLY <1>10, ListFacts
  <2> QED BY <1>10, <2>1
<1>12. /\ next \in Nat /\ r.next <= next /\ p.at + n <= next /\ next <= c.next + n
  BY <1>2, <1>5, <1>7
<1>13. \A b \in Nat : b < next => b < r.next \/ InMemo(p.at, n, b)
  BY <1>5, <1>7 DEF InMemo
<1>14. \A k \in 1..n : e.file[p.at + k - 1] = [owner |-> o, part |-> k, of |-> n]
  BY ONLY <1>8, <1>10
<1> HIDE DEF next
<1>15. \A b \in Nat : InMemo(p.at, n, b) => ~InList(p.free, b)
  BY <1>7
<1>16. ASSUME NEW b \in 1..(c.next - 1), ~InList(c.free, b), ~InMemo(m.recNo, m.recCnt, b)
       PROVE  b < next /\ ~InList(p.free, b) /\ ~InMemo(p.at, n, b) /\ e.file[b] = d.file[b]
  <2>1. b \in Nat /\ b < c.next /\ 1 <= b
    BY <1>2
  <2>2. ~(b >= r.next) /\ ~InList(r.free, b)
    BY ONLY <1>5, <1>16, <2>1
  <2>3. b \in 1..(r.next - 1) /\ b < next
    BY <1>5, <1>12, <2>1, <2>2
  <2>4. ~(n < m.recCnt /\ InMemo(m.recNo, n, b))
    BY <1>4, <1>16, <2>1 DEF InMemo
  <2>5. ~InMemo(p.at, n, b) /\ ~InList(p.free, b)
    BY ONLY <1>7, <2>1, <2>2, <2>4
  <2> QED BY <1>1, <1>5, <1>10, <2>3, <2>5
<1>17. ASSUME NEW b \in 1..(next - 1), ~InList(p.free, b), ~InMemo(p.at, n, b)
       PROVE  b < c.next /\ ~InList(c.free, b) /\ ~InMemo(m.recNo, m.recCnt, b)
  <2>1. b \in Nat /\ b < next
    BY <1>12
  <2>2. b < r.next
    BY <1>13, <1>17, <2>1
  <2>3. b < c.next /\ ~(b >= r.next)
    BY <1>2, <1>5, <2>1, <2>2
  <2>4. ~InList(r.free, b)
    BY <1>7, <1>17, <2>1
  <2>5. n < m.recCnt /\ InMemo(m.recNo, n, b) => InMemo(p.at, n, b)
    BY <1>4, <1>7
  <2> QED BY ONLY <1>5, <1>17, <2>1, <2>3, <2>4, <2>5
<1> QED BY ONLY <1>1, <1>7, <1>10, <1>11, <1>12, <1>14, <1>15, <1>16, <1>17, n \in Nat \ {0} DEF SaveEffect

\* PutText and FlushHdr, for any text in place of any memo.
LEMMA SaveFacts ==
  ASSUME NEW d, FileInv(d), NEW m \in [recNo : Nat, recCnt : Nat], MemoIn(List(d), m),
         NEW o \in Nat, NEW n \in Nat, NEW p, p = PutText(d, m, TextBlocks(o, n))
  PROVE  SaveEffect(d, m, o, n, FlushHdr(p.d), p.rec)
<1> DEFINE t == TextBlocks(o, n)
           c == InitFree(d)
           r == Released(c, m, n)
           q == Placed(r, m, n)
           w == Written([r EXCEPT !.free = q.free], q.at, t)
<1>1. /\ m.recNo \in Nat /\ m.recCnt \in Nat /\ (m.recNo = 0 <=> m.recCnt = 0)
      /\ m = [recNo |-> m.recNo, recCnt |-> m.recCnt]
  BY DEF MemoIn
<1>2. Len(t) = n
  BY TextFacts
<1>3. Usable(c)
  BY InitFreeFacts
<1>4. p = IF n = 0
          THEN [d |-> IF m.recNo = 0 THEN d
                      ELSE IF Usable(c) THEN AddToFree(c, m) ELSE c,
                rec |-> 0]
          ELSE IF m.recNo # 0 /\ n = m.recCnt
          THEN [d |-> Written(d, m.recNo, t), rec |-> m.recNo]
          ELSE IF ~Usable(c) THEN [d |-> c, rec |-> 0]
          ELSE IF q.at = r.next
          THEN [d |-> [w EXCEPT !.next = @ + n, !.flags = @ \cup {"EXTENDED"}], rec |-> q.at]
          ELSE [d |-> w, rec |-> q.at]
  BY <1>2 DEF PutText
<1> HIDE DEF t, c, r, q, w
<1>5. CASE n = 0 /\ m.recNo = 0
  <2>1. p.d = d /\ p.rec = 0
    BY <1>4, <1>5
  <2> QED BY <1>1, <1>5, <2>1, SaveNothing
<1>6. CASE n = 0 /\ m.recNo # 0
  <2>1. p.d = AddToFree(c, m) /\ p.rec = 0
    BY <1>3, <1>4, <1>6
  <2>2. m \in FreeBlock
    BY <1>1, <1>6 DEF FreeBlock
  <2>3. SaveEffect(d, m, o, 0, FlushHdr(p.d), 0)
    BY <2>1, <2>2, SaveEmpty DEF c
  <2> QED BY <1>6, <2>1, <2>3
<1>7. CASE n # 0 /\ m.recNo # 0 /\ n = m.recCnt
  <2>1. p.d = Written(d, m.recNo, t) /\ p.rec = m.recNo
    BY <1>4, <1>7
  <2> QED BY <1>7, <2>1, SaveInPlace DEF t
<1>8. CASE n # 0 /\ ~(m.recNo # 0 /\ n = m.recCnt)
  <2>1. p.d = WrittenAt(r, q.free, q.at, t, n) /\ p.rec = q.at
    <3>1. CASE q.at = r.next
      BY <1>3, <1>4, <1>8, <3>1 DEF WrittenAt, w
    <3>2. CASE q.at # r.next
      BY <1>3, <1>4, <1>8, <3>2 DEF WrittenAt, w
    <3> QED BY <3>1, <3>2
  <2>2. n \in Nat \ {0}
    BY <1>8
  <2>3. SaveEffect(d, m, o, n, FlushHdr(p.d), q.at)
    BY <2>1, <2>2, SavePlaced DEF c, r, q, t
  <2> QED BY <2>1, <2>3
<1> QED BY <1>5, <1>6, <1>7, <1>8

\* AppendCopy and FlushHdr: the text is placed behind the data.
LEMMA AppendFacts ==
  ASSUME NEW d, FileInv(d), NEW o \in Nat, NEW n \in Nat \ {0},
         NEW p, p = AppendCopy(d, TextBlocks(o, n)), NEW m, m = [recNo |-> 0, recCnt |-> 0]
  PROVE  SaveEffect(d, m, o, n, FlushHdr(p.d), p.rec)
<1> DEFINE t == TextBlocks(o, n)
           c == InitFree(d)
           w == [c EXCEPT !.file = Put(@, c.next, t), !.next = @ + n, !.flags = @ \cup {"EXTENDED"}]
           v == WrittenAt(c, c.free, c.next, t, n)
           e == FlushHdr(v)
<1>1. /\ FileInv(c) /\ c.flags = {"INITFREE"} /\ Usable(c)
      /\ c.next = List(d).next /\ c.free = List(d).free
      /\ \A b \in 1..(c.next - 1) : c.file[b] = d.file[b]
  BY InitFreeFacts
<1>2. /\ t \in Seq(Block) /\ Len(t) = n
      /\ \A k \in 1..n : t[k] = [owner |-> o, part |-> k, of |-> n]
  BY TextFacts
<1>3. p.d = w /\ p.rec = c.next
  BY <1>1, <1>2 DEF AppendCopy
<1> HIDE DEF t, c
<1>4. c \in Dbt /\ FreeList(c.free, c.next) /\ c.next \in Nat \ {0} /\ c.hdr = c.next
  BY <1>1 DEF FileInv, FreeList
<1>5. \A k \in 1..n : NoList(t[k])
  BY <1>2, BlockKinds DEF NoList
<1>6. WriteEffect(c, c, n, t, c.free, c.next, e)
  <2>1. GivenBack(c, c)
    BY <1>1, <1>4 DEF GivenBack
  <2>2. c.next <= c.next /\ (c.next # c.next => c.next + n <= c.next)
    BY <1>4
  <2>3. e = FlushHdr(WrittenAt(c, c.free, c.next, t, n))
    OBVIOUS
  <2> HIDE DEF e
  <2> QED BY <1>1, <1>2, <1>4, <1>5, <2>1, <2>2, <2>3, WriteFacts
\* The flag WRITTEN, which PutText sets too, is forgotten.
<1>7. FlushHdr(p.d) = e
  <2> DEFINE f == Put(c.file, c.next, t)
  <2>1. f \in Seq(Block)
    <3>1. c.file \in Seq(Block) /\ c.next <= Len(c.file) + 1
      BY <1>1, <1>4 DEF FileInv, Dbt
    <3> QED BY <1>2, <1>4, <3>1, PutFacts
  <2> DEFINE nx == c.next + n
             fw == c.flags \cup {"EXTENDED"}
             fv == c.flags \cup {"WRITTEN"} \cup {"EXTENDED"}
             fx == c.flags \cup {"WRITTEN"}
  <2>6. nx \in Nat
    BY <1>4
  <2>7. fw \in SUBSET Flags /\ fx \in SUBSET Flags /\ fv \in SUBSET Flags
    BY <1>1 DEF Flags
  <2>8. w = [c EXCEPT !.file = f, !.next = nx, !.flags = fw]
    OBVIOUS
  <2>9. v = [Written([c EXCEPT !.free = c.free], c.next, t) EXCEPT !.next = @ + n, !.flags = @ \cup {"EXTENDED"}]
    BY DEF WrittenAt
  <2>10. [c EXCEPT !.free = c.free] = c
    BY <1>4 DEF Dbt
  <2>11. v = [Written(c, c.next, t) EXCEPT !.next = @ + n, !.flags = @ \cup {"EXTENDED"}]
    BY <2>9, <2>10
  <2>12. Written(c, c.next, t) = [c EXCEPT !.file = f, !.flags = fx]
    BY DEF Written
  <2> HIDE DEF f, fw, fx, fv, nx, v, w
  <2>13. LET x == [c EXCEPT !.file = f, !.flags = fx]
         IN  x \in Dbt /\ x.next = c.next /\ x.flags = fx /\ x.hdr = c.hdr /\ x.file = f /\ x.free = c.free
    BY <1>4, <2>1, <2>7 DEF Dbt
  <2>14. v = [[c EXCEPT !.file = f, !.flags = fx] EXCEPT !.next = nx, !.flags = fv]
    BY <2>11, <2>12, <2>13 DEF nx, fv, fx
  <2>2. /\ w \in Dbt /\ w.hdr = c.hdr /\ w.file = f /\ w.next = nx
        /\ w.free = c.free /\ w.flags = fw
    BY ONLY <1>4, <2>1, <2>6, <2>7, <2>8 DEF Dbt
  <2>3. /\ v \in Dbt /\ v.hdr = c.hdr /\ v.file = f /\ v.next = nx
        /\ v.free = c.free /\ v.flags = fv
    BY ONLY <1>4, <2>1, <2>6, <2>7, <2>14 DEF Dbt
  <2>4. /\ v.flags \cap {"EXTENDED", "TRUNCATED"} = w.flags \cap {"EXTENDED", "TRUNCATED"}
        /\ "TRUNCATED" \in v.flags <=> "TRUNCATED" \in w.flags
        /\ v.flags \cap {"INITFREE"} = w.flags \cap {"INITFREE"}
    BY <2>2, <2>3 DEF fv, fw
  <2>5. FlushHdr(v) = FlushHdr(w)
    <3>1. v.hdr = w.hdr /\ v.next = w.next /\ v.free = w.free /\ v.file = w.file
      BY <2>2, <2>3
    <3> QED BY <2>2, <2>3, <2>4, <3>1, FlushHdrIs
  <2> QED BY <1>3, <2>5
<1> HIDE DEF e, v, w
<1>8. /\ FileInv(e) /\ e.flags = {"INITFREE"} /\ e.free = c.free /\ e.next = c.next + n
      /\ \A k \in 1..n : e.file[c.next + k - 1] = t[k]
      /\ \A b \in 1..(c.next - 1) : ~InMemo(c.next, n, b) => e.file[b] = c.file[b]
  BY ONLY <1>6 DEF WriteEffect
<1>9. List(e).free = c.free /\ List(e).next = c.next + n
  <2>1. List(e).free = e.free /\ List(e).next = e.next
    BY ONLY <1>8, ListFacts
  <2> QED BY <1>8, <2>1
<1>10. \A b \in Nat : InList(c.free, b) => b < c.next
  BY <1>4 DEF FreeList, CheckFree, InList, FreeBlock, End
<1>11. \A b \in Nat : (InMemo(c.next, n, b) => ~(b < c.next)) /\ ~InMemo(0, 0, b)
  BY <1>4 DEF InMemo
<1>12. \A b \in 1..(c.next + n - 1) : b \in Nat /\ (b < c.next \/ InMemo(c.next, n, b))
  BY <1>4 DEF InMemo
<1>13. \A b \in 1..(c.next - 1) : b \in Nat /\ b < c.next /\ b < c.next + n
  BY <1>4
<1>14. \A k \in 1..n : e.file[c.next + k - 1] = [owner |-> o, part |-> k, of |-> n]
  BY ONLY <1>2, <1>8
<1>15. SaveEffect(d, m, o, n, e, c.next)
  <2>1. m.recNo = 0 /\ m.recCnt = 0
    OBVIOUS
  <2>2. \A b \in Nat : InMemo(c.next, n, b) => ~InList(c.free, b)
    BY <1>10, <1>11
  <2>3. \A b \in 1..(c.next - 1) : ~InMemo(c.next, n, b) /\ e.file[b] = d.file[b]
    BY <1>1, <1>8, <1>11, <1>13
  <2>4. (c.next = 0 <=> n = 0) /\ c.next \in Nat
    BY <1>4
  <2>5. c.next + n <= c.next + n
    BY <1>4
  <2> QED BY ONLY <1>1, <1>8, <1>9, <1>11, <1>12, <1>13, <1>14, <2>1, <2>2, <2>3, <2>4, <2>5 DEF SaveEffect
<1> QED BY <1>3, <1>7, <1>15

-----------------------------------------------------------------------------
(* Texts are read as they were written.                                    *)

LEMMA GetTextFacts ==
  ASSUME NEW d, FileInv(d), NEW r \in Nat, NEW p \in Nat, NEW n \in Nat, MemoAt(d, r, p, n)
  PROVE  GetText(d, p) = TextBlocks(r, n) /\ Len(GetText(d, p)) = n
<1>1. Len(TextBlocks(r, n)) = n
  BY TextFacts
<1>2. CASE n = 0
  <2>1. p = 0
    BY <1>2 DEF MemoAt
  <2>2. GetText(d, p) = << >>
    BY <2>1 DEF GetText
  <2>3. TextBlocks(r, n) = << >>
    BY <1>1, <1>2, TextFacts, EmptySeq
  <2> QED BY <1>1, <2>2, <2>3
<1>3. CASE n # 0
  <2> DEFINE Ends == {b \in p .. Len(d.file) : IsText(d.file[b]) /\ d.file[b].part = d.file[b].of}
             last == CHOOSE b \in Ends : \A c \in Ends : b <= c
  <2>1. /\ p \in Nat \ {0} /\ p + n <= Len(d.file) + 1 /\ Len(d.file) \in Nat /\ d.file \in Seq(Block)
        /\ \A k \in 1..n : d.file[p + k - 1] = [owner |-> r, part |-> k, of |-> n]
    BY <1>3, ListFacts DEF MemoAt
  <2>2. p + n - 1 \in Ends
    <3>1. d.file[p + n - 1] = [owner |-> r, part |-> n, of |-> n]
      BY <1>3, <2>1
    <3>2. IsText(d.file[p + n - 1]) /\ d.file[p + n - 1].part = d.file[p + n - 1].of
      BY <3>1, BlockKinds
    <3>3. p + n - 1 \in p .. Len(d.file)
      BY <1>3, <2>1
    <3> QED BY <3>2, <3>3
  <2>3. ASSUME NEW c \in Ends PROVE p + n - 1 <= c
    <3> SUFFICES ASSUME c < p + n - 1 PROVE FALSE
      BY <2>1
    <3>1. c - p + 1 \in 1..n /\ c - p + 1 # n /\ p + (c - p + 1) - 1 = c
      BY <2>1
    <3>2. d.file[c] = [owner |-> r, part |-> c - p + 1, of |-> n]
      BY <2>1, <3>1
    <3> QED BY <3>1, <3>2
  <2>4. \A c \in Ends : c \in Int
    BY <2>1
  <2> HIDE DEF Ends
  <2>5. last = p + n - 1
    BY <2>1, <2>2, <2>3, <2>4
  <2>6. GetText(d, p) = SubSeq(d.file, p, last)
    BY <2>1, <2>2 DEF GetText, Ends
  <2> HIDE DEF last
  <2>7. /\ SubSeq(d.file, p, p + n - 1) = [i \in 1..((p + n - 1) - p + 1) |-> d.file[i + p - 1]]
        /\ (p + n - 1) - p + 1 = n
    BY <2>1
  <2>8. SubSeq(d.file, p, p + n - 1) = [i \in 1..n |-> d.file[i + p - 1]]
    BY <2>7
  <2>9. \A i \in 1..n : d.file[i + p - 1] = [owner |-> r, part |-> i, of |-> n]
    <3>1. \A i \in 1..n : i + p - 1 = p + i - 1
      BY <2>1
    <3> QED BY <2>1, <3>1
  <2>10. GetText(d, p) = TextBlocks(r, n)
    BY <2>5, <2>6, <2>8, <2>9 DEF TextBlocks
  <2> QED BY <1>1, <2>10
<1> QED BY <1>2, <1>3

\* A block belongs to one record.
LEMMA OtherMemo ==
  ASSUME NEW d, NEW r, NEW s, r # s, NEW p \in Nat, NEW n \in Nat, NEW q \in Nat, NEW k \in Nat,
         MemoAt(d, r, p, n), MemoAt(d, s, q, k), NEW b \in Nat, InMemo(p, n, b)
  PROVE  ~InMemo(q, k, b)
<1> SUFFICES ASSUME InMemo(q, k, b) PROVE FALSE
  OBVIOUS
<1>1. b - p + 1 \in 1..n /\ p + (b - p + 1) - 1 = b /\ b - q + 1 \in 1..k /\ q + (b - q + 1) - 1 = b
  BY DEF InMemo
<1>2. \A i \in 1..n : d.file[p + i - 1] = [owner |-> r, part |-> i, of |-> n]
  BY DEF MemoAt
<1>3. \A i \in 1..k : d.file[q + i - 1] = [owner |-> s, part |-> i, of |-> k]
  BY DEF MemoAt
<1>4. d.file[b] = [owner |-> r, part |-> b - p + 1, of |-> n]
  BY ONLY <1>1, <1>2
<1>5. d.file[b] = [owner |-> s, part |-> b - q + 1, of |-> k]
  BY ONLY <1>1, <1>3
<1> QED BY <1>4, <1>5

\* In fld2 and txt2 the record r has its text, of n blocks, at block at.
Replaced(fld, txt, r, at, n, fld2, txt2) ==
  /\ fld2 \in Seq(Nat) /\ txt2 \in Seq(Sizes) /\ Len(fld2) = Len(txt2)
  /\ 1..Len(fld2) = (1..Len(fld)) \cup {r} /\ fld2[r] = at /\ txt2[r] = n
  /\ \A s \in 1..Len(fld) : s # r => fld2[s] = fld[s] /\ txt2[s] = txt[s]

\* Saving the text of one record keeps the memos of the others.
LEMMA SaveKeeps ==
  ASSUME NEW d, FileInv(d), NEW fld, NEW txt, MemosIn(d, fld, txt),
         NEW r \in 1..(Len(fld) + 1), NEW m, NEW n \in Sizes, NEW e, NEW at,
         m.recNo = Entry(fld, r), m.recCnt = Entry(txt, r),
         SaveEffect(d, m, r, n, e, at),
         NEW fld2, NEW txt2, Replaced(fld, txt, r, at, n, fld2, txt2)
  PROVE  MemosIn(e, fld2, txt2) /\ (Covered(d, fld, txt) => Covered(e, fld2, txt2))
<1>9. /\ fld2 \in Seq(Nat) /\ txt2 \in Seq(Sizes) /\ Len(fld2) = Len(txt2)
      /\ 1..Len(fld2) = (1..Len(fld)) \cup {r} /\ fld2[r] = at /\ txt2[r] = n
      /\ \A s \in 1..Len(fld) : s # r => fld2[s] = fld[s] /\ txt2[s] = txt[s]
  BY DEF Replaced
<1>0. fld \in Seq(Nat) /\ txt \in Seq(Nat) /\ Len(txt) = Len(fld)
  <2>1. Sizes \subseteq Nat
    BY MemoAssumption DEF Sizes
  <2>2. txt \in Seq(Sizes)
    BY DEF MemosIn
  <2>3. txt \in Seq(Nat)
    BY ONLY <2>1, <2>2, SeqMonotonic
  <2> QED BY <2>3 DEF MemosIn
<1>1. /\ Len(fld) \in Nat
      /\ \A s \in 1..Len(fld) : fld[s] \in Nat /\ txt[s] \in Nat /\ MemoAt(d, s, fld[s], txt[s])
  <2>1. Len(fld) \in Nat /\ \A s \in 1..Len(fld) : fld[s] \in Nat /\ txt[s] \in Nat
    BY ONLY <1>0
  <2> QED BY <2>1 DEF MemosIn
<1>2. /\ at \in Nat /\ n \in Nat /\ FileInv(e) /\ List(e).next \in Nat \ {0} /\ List(d).next \in Nat \ {0}
  BY MemoAssumption, ListFacts DEF SaveEffect, Sizes
<1>3. MemoAt(e, r, at, n)
  BY DEF SaveEffect, MemoAt
<1>4. \A b \in 1..(List(d).next - 1) :
        ~InList(List(d).free, b) /\ ~InMemo(m.recNo, m.recCnt, b) =>
          /\ b < List(e).next /\ ~InList(List(e).free, b)
          /\ ~InMemo(at, n, b) /\ e.file[b] = d.file[b]
  BY DEF SaveEffect
<1>5. \A b \in 1..(List(e).next - 1) :
        \/ InList(List(e).free, b) \/ InMemo(at, n, b)
        \/ b < List(d).next /\ ~InList(List(d).free, b) /\ ~InMemo(m.recNo, m.recCnt, b)
  BY DEF SaveEffect
<1>6. ASSUME NEW s \in 1..Len(fld), s # r PROVE MemoAt(e, s, fld[s], txt[s])
  <2> DEFINE p == fld[s]
             k == txt[s]
  <2>1. /\ p \in Nat /\ k \in Nat /\ p + k <= List(d).next /\ (p = 0 <=> k = 0)
        /\ \A i \in 1..k : d.file[p + i - 1] = [owner |-> s, part |-> i, of |-> k]
        /\ \A b \in Nat : InMemo(p, k, b) => ~InList(List(d).free, b)
    BY <1>1 DEF MemoAt
  <2>2. \A b \in Nat : InMemo(p, k, b) => ~InMemo(m.recNo, m.recCnt, b)
    <3>1. CASE r = Len(fld) + 1
      <4>1. m.recNo = 0 /\ m.recCnt = 0
        BY <1>0, <3>1 DEF Entry
      <4> QED BY <4>1 DEF InMemo
    <3>2. CASE r # Len(fld) + 1
      <4>1. r \in 1..Len(fld) /\ m.recNo = fld[r] /\ m.recCnt = txt[r]
        <5>1. r \in 1..Len(fld)
          <6>1. \A l \in Nat : \A x \in 1..(l + 1) : x # l + 1 => x \in 1..l
            OBVIOUS
          <6>2. Len(fld) \in Nat
            BY <1>1
          <6> QED BY <3>2, <6>1, <6>2
        <5> QED BY <1>0, <3>2, <5>1 DEF Entry
      <4> QED BY <1>1, <1>6, <4>1, OtherMemo
    <3> QED BY <3>1, <3>2
  <2> HIDE DEF p, k
  <2>3. \A b \in Nat : InMemo(p, k, b) =>
           b < List(e).next /\ ~InList(List(e).free, b) /\ e.file[b] = d.file[b]
    <3>1. \A b \in Nat : InMemo(p, k, b) => b \in 1..(List(d).next - 1)
      <4>1. \A b \in Nat : InMemo(p, k, b) => p # 0 /\ p <= b /\ b < p + k
        BY <2>1 DEF InMemo
      <4> QED BY ONLY <1>2, <2>1, <4>1
    <3> QED BY <1>4, <2>1, <2>2, <3>1
  <2>4. p + k <= List(e).next
    <3>1. CASE k = 0
      BY <1>2, <2>1, <3>1
    <3>2. CASE k # 0
      <4>1. p + k - 1 \in Nat /\ InMemo(p, k, p + k - 1)
        BY <2>1, <3>2 DEF InMemo
      <4> QED BY <1>2, <2>1, <2>3, <4>1
    <3> QED BY <3>1, <3>2
  <2>5. \A i \in 1..k : p + i - 1 \in Nat /\ InMemo(p, k, p + i - 1)
    BY <2>1 DEF InMemo
  <2>6. \A i \in 1..k : e.file[p + i - 1] = [owner |-> s, part |-> i, of |-> k]
    BY <2>1, <2>3, <2>5
  <2>7. MemoAt(e, s, p, k)
    BY <2>1, <2>3, <2>4, <2>6 DEF MemoAt
  <2> QED BY <2>7 DEF p, k
<1>7. MemosIn(e, fld2, txt2)
  <2>1. ASSUME NEW s \in 1..Len(fld2) PROVE MemoAt(e, s, fld2[s], txt2[s])
    <3>1. CASE s = r
      BY <1>3, <1>9, <3>1
    <3>2. CASE s # r
      <4>1. s \in 1..Len(fld) /\ fld2[s] = fld[s] /\ txt2[s] = txt[s]
        BY <1>9, <3>2
      <4>2. MemoAt(e, s, fld[s], txt[s])
        BY <1>6, <3>2, <4>1
      <4> QED BY <4>1, <4>2
    <3> QED BY <3>1, <3>2
  <2> QED BY <1>9, <2>1 DEF MemosIn
<1>8. ASSUME Covered(d, fld, txt) PROVE Covered(e, fld2, txt2)
  <2> SUFFICES ASSUME NEW b \in 1..(List(e).next - 1), ~InList(List(e).free, b)
               PROVE  \E s \in 1..Len(fld2) : InMemo(fld2[s], txt2[s], b)
    BY DEF Covered
  <2>1. CASE InMemo(at, n, b)
    BY <1>9, <2>1
  <2>2. CASE ~InMemo(at, n, b)
    <3>1. b < List(d).next /\ ~InList(List(d).free, b) /\ ~InMemo(m.recNo, m.recCnt, b)
      BY <1>5, <2>2
    <3>2. b \in 1..(List(d).next - 1)
      BY <1>2, <3>1
    <3>3. PICK s \in 1..Len(fld) : InMemo(fld[s], txt[s], b)
      BY <1>8, <3>1, <3>2 DEF Covered
    <3>4. s # r
      <4>1. s # Len(fld) + 1
        BY <1>1
      <4> QED BY <1>0, <3>1, <3>3, <4>1 DEF Entry
    <3> QED BY <1>9, <3>3, <3>4
  <2> QED BY <2>1, <2>2
<1> QED BY <1>7, <1>8

\* The list is stored behind the data, and the file reopened.
LEMMA AppendFreeFacts ==
  ASSUME NEW d, FileInv(d), NEW e, e = Reopened(AppendFree(d))
  PROVE  /\ FileInv(e) /\ e.flags = {} /\ List(e).next = List(d).next /\ List(e).free = List(d).free
         /\ \A b \in 1..(List(d).next - 1) : e.file[b] = d.file[b]
         /\ e.next = d.next \/ e.next = List(d).next + 1
<1>1. /\ d \in Dbt /\ d.hdr = Len(d.file) + 1 /\ Len(d.file) \in Nat /\ d.file \in Seq(Block)
      /\ d.flags \subseteq {"INITFREE"} /\ d.free \in SUBSET FreeBlock /\ d.next \in Nat
  BY DEF FileInv, Dbt
<1>2. {} \in SUBSET Flags
  OBVIOUS
<1>3. CASE "INITFREE" \notin d.flags
  <2>1. d.flags = {}
    BY <1>1, <1>3
  <2>2. e = d
    BY <1>1, <2>1, <1>3 DEF AppendFree, Reopened, Dbt
  <2> QED BY <2>1, <2>2
<1>4. CASE "INITFREE" \in d.flags /\ d.free = {}
  <2>1. e = [d EXCEPT !.flags = {}]
    <3>1. AppendFree(d) = [d EXCEPT !.flags = {}]
      BY <1>4 DEF AppendFree
    <3> QED BY <1>1, <3>1 DEF Reopened, Dbt
  <2>2. /\ e \in Dbt /\ e.hdr = d.hdr /\ e.file = d.file /\ e.next = d.next /\ e.free = {} /\ e.flags = {}
    BY <1>1, <1>2, <1>4, <2>1 DEF Dbt
  <2>3. \A b \in 1..Len(d.file) : NoList(d.file[b])
    BY <1>4 DEF FileInv
  <2>4. FileInv(e)
    BY <1>1, <2>2, <2>3 DEF FileInv
  <2>5. List(e) = [next |-> e.hdr, free |-> {}]
    BY <2>2, <2>3, <2>4, ListFacts
  <2>6. d.next = d.hdr /\ List(d).next = d.next /\ List(d).free = d.free
    BY <1>4, ListFacts DEF FileInv
  <2> QED BY <1>4, <2>2, <2>4, <2>5, <2>6
<1>5. CASE "INITFREE" \in d.flags /\ d.free # {}
  <2> DEFINE t == << [list |-> d.free] >>
             f == Put(d.file, d.next, t)
             nx == d.next + 1
  <2>1. /\ FreeList(d.free, d.next) /\ d.next = d.hdr /\ d.next \in Nat \ {0}
        /\ List(d).next = d.next /\ List(d).free = d.free
        /\ \A b \in 1..Len(d.file) : NoList(d.file[b])
    BY <1>5, ListFacts DEF FileInv
  <2>2. t \in Seq(Block) /\ Len(t) = 1 /\ t[1] = [list |-> d.free]
    BY <1>1 DEF Block
  <2> HIDE DEF t
  <2>3. /\ f \in Seq(Block) /\ Len(f) = d.next /\ f[d.next] = [list |-> d.free]
        /\ \A b \in 1..Len(d.file) : f[b] = d.file[b]
    <3>1. /\ f \in Seq(Block)
          /\ Len(f) = IF d.next + Len(t) - 1 > Len(d.file) THEN d.next + Len(t) - 1 ELSE Len(d.file)
          /\ \A k \in 1..Len(t) : f[d.next + k - 1] = t[k]
          /\ \A b \in 1..Len(d.file) : ~InMemo(d.next, Len(t), b) => f[b] = d.file[b]
      <4>1. d.next <= Len(d.file) + 1
        BY <1>1, <2>1
      <4> QED BY ONLY <1>1, <2>1, <2>2, <4>1, PutFacts
    <3> HIDE DEF f
    <3>2. d.next + 1 - 1 = d.next /\ \A b \in 1..Len(d.file) : ~InMemo(d.next, 1, b)
      BY <1>1, <2>1 DEF InMemo
    <3> QED BY <1>1, <2>1, <2>2, <3>1, <3>2
  <2>4. AppendFree(d) = [d EXCEPT !.flags = {}, !.free = {}, !.next = nx, !.hdr = nx, !.file = f]
    BY <1>5, <2>1 DEF AppendFree, t
  <2>5. nx \in Nat /\ nx = Len(f) + 1
    BY <2>1, <2>3
  <2> HIDE DEF f, nx
  <2>6. LET x == [d EXCEPT !.flags = {}, !.free = {}, !.next = nx, !.hdr = nx, !.file = f]
        IN  /\ x \in Dbt /\ x.hdr = nx /\ x.file = f /\ x.next = nx /\ x.free = {} /\ x.flags = {}
            /\ [x EXCEPT !.flags = {}] = x
    BY <1>1, <1>2, <2>3, <2>5 DEF Dbt
  <2>7. /\ e \in Dbt /\ e.hdr = nx /\ e.file = f /\ e.next = nx /\ e.free = {} /\ e.flags = {}
    BY <2>4, <2>6 DEF Reopened
  <2>8. IsList(f[d.next]) /\ f[d.next].list = d.free /\ ~NoList(f[d.next])
    <3>1. DOMAIN [list |-> d.free] = {"list"} /\ [list |-> d.free].list = d.free
      OBVIOUS
    <3> QED BY <1>5, <2>3, <3>1 DEF IsList, NoList
  <2>9. \A b \in 1..Len(f) : b = d.next \/ (b \in 1..Len(d.file) /\ NoList(f[b]))
    BY <1>1, <2>1, <2>3
  <2>10. FileInv(e)
    <3>1. \A b \in 1..Len(e.file) : NoList(e.file[b]) \/ ("INITFREE" \notin e.flags /\ b = Len(e.file))
      BY <2>3, <2>7, <2>9
    <3>2. \A b \in 1..Len(e.file) : ~NoList(e.file[b]) => FreeList(e.file[b].list, b)
      BY <2>1, <2>7, <2>8, <2>9
    <3> QED BY <2>5, <2>7, <3>1, <3>2 DEF FileInv
  <2>11. List(e) = [next |-> d.next, free |-> d.free]
    <3>1. d.next \in 1..Len(e.file) /\ ~NoList(e.file[d.next]) /\ "INITFREE" \notin e.flags
      BY <2>1, <2>3, <2>7, <2>8
    <3>2. List(e) = [next |-> d.next, free |-> e.file[d.next].list]
      BY <2>10, <3>1, ListFacts
    <3> QED BY <2>7, <2>8, <3>2
  <2>12. \A b \in 1..(d.next - 1) : e.file[b] = d.file[b]
    BY <1>1, <2>1, <2>3, <2>7
  <2> QED BY <2>1, <2>7, <2>10, <2>11, <2>12 DEF nx
<1> QED BY <1>3, <1>4, <1>5

\* In a crash the list in memory is lost, and nothing else.
Crashed(d, e) ==
  /\ FileInv(e) /\ e.flags = {} /\ e.next = 0 /\ e.file = d.file /\ List(e).next = List(d).next
  /\ List(e).free \subseteq List(d).free /\ (d.free = {} => List(e).free = List(d).free)

LEMMA CrashFacts ==
  ASSUME NEW d, FileInv(d), NEW e, e = [Reopened(d) EXCEPT !.next = 0, !.free = {}]
  PROVE  Crashed(d, e)
<1>1. /\ d \in Dbt /\ d.hdr = Len(d.file) + 1 /\ Len(d.file) \in Nat /\ d.file \in Seq(Block)
      /\ d.flags \subseteq {"INITFREE"}
  BY DEF FileInv, Dbt
<1>2. {} \in SUBSET Flags /\ {} \in SUBSET FreeBlock
  OBVIOUS
<1>3. e = [d EXCEPT !.flags = {}, !.next = 0, !.free = {}]
  BY <1>1 DEF Reopened, Dbt
<1>4. e \in Dbt /\ e.hdr = d.hdr /\ e.file = d.file /\ e.next = 0 /\ e.free = {} /\ e.flags = {}
  <2>1. 0 \in Nat
    OBVIOUS
  <2> QED BY ONLY <1>1, <1>2, <1>3, <2>1 DEF Dbt
<1>5. FileInv(e)
  <2>1. \A b \in 1..Len(e.file) : NoList(e.file[b]) \/ ("INITFREE" \notin e.flags /\ b = Len(e.file))
    BY <1>4 DEF FileInv
  <2>2. \A b \in 1..Len(e.file) : ~NoList(e.file[b]) => FreeList(e.file[b].list, b)
    BY <1>4 DEF FileInv
  <2> QED BY <1>1, <1>4, <2>1, <2>2 DEF FileInv
<1>6. CASE "INITFREE" \in d.flags
  <2>1. d.next = d.hdr /\ List(d).next = d.next /\ List(d).free = d.free
        /\ \A b \in 1..Len(d.file) : NoList(d.file[b])
    BY <1>6, ListFacts DEF FileInv
  <2>2. List(e) = [next |-> e.hdr, free |-> {}]
    BY <1>4, <1>5, <2>1, ListFacts
  <2>3. List(e).next = e.hdr /\ List(e).free = {}
    BY <2>2
  <2> QED BY <1>4, <1>5, <2>1, <2>3 DEF Crashed
<1>7. CASE "INITFREE" \notin d.flags
  <2>1. Loaded(e) = Loaded(d)
    BY <1>4 DEF Loaded
  <2>2. List(e) = List(d)
    BY <1>4, <1>7, <2>1 DEF List
  <2> QED BY <1>4, <1>5, <2>2 DEF Crashed
<1> QED BY <1>6, <1>7

-----------------------------------------------------------------------------
(* The data.                                                               *)

\* The number of entries and the entries of a sequence that got a new one, or
\* of which one was changed.
WithEffect(S, f, r, v, g) ==
  /\ g \in Seq(S) /\ Len(g) = (IF r = Len(f) + 1 THEN Len(f) + 1 ELSE Len(f))
  /\ g[r] = v /\ \A s \in 1..Len(f) : s # r => g[s] = f[s]
  /\ 1..Len(g) = (1..Len(f)) \cup {r}

LEMMA EntryFacts ==
  ASSUME NEW S, NEW f \in Seq(S), NEW r \in 1..(Len(f) + 1), NEW v \in S,
         NEW g, g = With(f, r, v)
  PROVE  WithEffect(S, f, r, v, g)
<1>1. Len(f) \in Nat
  OBVIOUS
<1>2. CASE r = Len(f) + 1
  <2>1. g = Append(f, v)
    BY <1>2 DEF With
  <2> QED BY <1>1, <1>2, <2>1 DEF WithEffect
<1>3. CASE r # Len(f) + 1
  <2>1. \A l \in Nat : \A x \in 1..(l + 1) : x # l + 1 => x \in 1..l
    OBVIOUS
  <2>2. r \in 1..Len(f)
    BY <1>1, <1>3, <2>1
  <2>3. g = [f EXCEPT ![r] = v]
    BY <1>3 DEF With
  <2>4. g \in Seq(S) /\ Len(g) = Len(f) /\ \A j \in 1..Len(f) : g[j] = IF j = r THEN v ELSE f[j]
    BY ONLY <2>2, <2>3, ExceptSeq, f \in Seq(S), v \in S
  <2> QED BY <1>3, <2>2, <2>4 DEF WithEffect
<1> QED BY <1>2, <1>3

\* An entry that was not changed, or not to another value.
LEMMA EntryKept ==
  ASSUME NEW S, NEW f \in Seq(S), NEW r \in 1..(Len(f) + 1), NEW v \in S, NEW g, g = With(f, r, v),
         NEW q \in 1..(Len(f) + 1), q # r \/ v = Entry(f, r)
  PROVE  Entry(g, q) = Entry(f, q)
<1>1. Len(f) \in Nat
  OBVIOUS
<1>2. /\ Len(g) = (IF r = Len(f) + 1 THEN Len(f) + 1 ELSE Len(f))
      /\ g[r] = v /\ \A s \in 1..Len(f) : s # r => g[s] = f[s]
  <2>1. WithEffect(S, f, r, v, g)
    BY EntryFacts
  <2> QED BY <2>1 DEF WithEffect
<1>3. CASE q = r
  BY <1>1, <1>2, <1>3 DEF Entry
<1>4. CASE q # r
  BY <1>1, <1>2, <1>4 DEF Entry
<1> QED BY <1>3, <1>4

\* The memo of a record lies as the lemmas about the file want it.
LEMMA OldMemo ==
  ASSUME NEW d, NEW fld, NEW txt, FileInv(d), MemosIn(d, fld, txt), NEW r \in 1..(Len(fld) + 1),
         NEW m, m = [recNo |-> Entry(fld, r), recCnt |-> Entry(txt, r)]
  PROVE  m \in [recNo : Nat, recCnt : Nat] /\ MemoIn(List(d), m)
<1>1. List(d).next \in Nat /\ fld \in Seq(Nat) /\ Len(fld) \in Nat /\ Len(txt) = Len(fld)
  BY ListFacts DEF MemosIn
<1>2. CASE r = Len(fld) + 1
  <2>1. m = [recNo |-> 0, recCnt |-> 0]
    BY <1>1, <1>2 DEF Entry
  <2>2. m.recNo = 0 /\ m.recCnt = 0 /\ \A b \in Nat : ~InMemo(0, 0, b)
    BY <2>1 DEF InMemo
  <2> QED BY <1>1, <2>1, <2>2 DEF MemoIn
<1>3. CASE r # Len(fld) + 1
  <2>1. \A l \in Nat : \A x \in 1..(l + 1) : x # l + 1 => x \in 1..l
    OBVIOUS
  <2>2. r \in 1..Len(fld)
    BY <1>1, <1>3, <2>1
  <2>3. Sizes \subseteq Nat
    BY MemoAssumption DEF Sizes
  <2>4. fld[r] \in Nat /\ txt[r] \in Nat /\ MemoAt(d, r, fld[r], txt[r])
    <3>1. txt \in Seq(Nat)
      BY <2>3, SeqMonotonic DEF MemosIn
    <3>2. fld[r] \in Nat /\ txt[r] \in Nat
      BY ONLY <1>1, <2>2, <3>1
    <3> QED BY <2>2, <3>2 DEF MemosIn
  <2>5. m = [recNo |-> fld[r], recCnt |-> txt[r]]
    BY <1>1, <1>3 DEF Entry
  <2> HIDE DEF Entry
  <2> QED BY <2>4, <2>5 DEF MemoAt, MemoIn
<1> QED BY <1>2, <1>3

\* What saving a text for record r does to the data.
LEMMA SaveData ==
  ASSUME NEW d, NEW fld, NEW txt, NEW l, DataIn(d, fld, txt, l), NEW r \in 1..(Len(fld) + 1),
         NEW m, m = [recNo |-> Entry(fld, r), recCnt |-> Entry(txt, r)],
         NEW n \in Sizes, n = 0 \/ Len(d.file) + n <= MaxBlocks, NEW e, NEW at, SaveEffect(d, m, r, n, e, at)
  PROVE  DataIn(e, With(fld, r, at), With(txt, r, n), l)
<1>1. /\ FileInv(d) /\ MemosIn(d, fld, txt) /\ fld \in Seq(Nat) /\ txt \in Seq(Sizes)
      /\ Len(txt) = Len(fld) /\ Len(fld) \in Nat
  BY DEF DataIn, MemosIn
<1>2. at \in Nat /\ FileInv(e) /\ List(e).next <= List(d).next + n
      /\ (e.next = d.next \/ e.next = List(e).next)
  BY DEF SaveEffect
<1>3. m.recNo = Entry(fld, r) /\ m.recCnt = Entry(txt, r)
  OBVIOUS
<1> DEFINE f == With(fld, r, at)
           t == With(txt, r, n)
<1>4. /\ f \in Seq(Nat) /\ f[r] = at /\ \A s \in 1..Len(fld) : s # r => f[s] = fld[s]
      /\ 1..Len(f) = (1..Len(fld)) \cup {r} /\ Len(f) = (IF r = Len(fld) + 1 THEN Len(fld) + 1 ELSE Len(fld))
  <2>1. WithEffect(Nat, fld, r, at, f)
    BY <1>1, <1>2, EntryFacts
  <2> QED BY <2>1 DEF WithEffect
<1>5. /\ t \in Seq(Sizes) /\ t[r] = n /\ \A s \in 1..Len(fld) : s # r => t[s] = txt[s]
      /\ Len(t) = (IF r = Len(fld) + 1 THEN Len(fld) + 1 ELSE Len(fld))
  <2>1. r \in 1..(Len(txt) + 1)
    BY <1>1
  <2>2. WithEffect(Sizes, txt, r, n, t)
    BY <1>1, <2>1, EntryFacts
  <2> QED BY <1>1, <2>2 DEF WithEffect
<1> HIDE DEF f, t
<1>6. MemosIn(e, f, t) /\ (Covered(d, fld, txt) => Covered(e, f, t))
  <2>1. Len(f) = Len(t) /\ \A s \in 1..Len(fld) : s # r => f[s] = fld[s] /\ t[s] = txt[s]
    BY <1>1, <1>4, <1>5
  <2>2. Replaced(fld, txt, r, at, n, f, t)
    BY <1>4, <1>5, <2>1 DEF Replaced
  <2>3. SaveEffect(d, m, r, n, e, at) /\ n \in Sizes /\ r \in 1..(Len(fld) + 1)
    OBVIOUS
  <2> QED BY ONLY <1>1, <1>3, <2>1, <2>2, <2>3, SaveKeeps
<1>7. List(e).next <= MaxBlocks + 1 /\ e.next <= MaxBlocks + 2
  <2>1. List(d).next <= Len(d.file) + 1 /\ d.next <= MaxBlocks + 2 /\ List(d).next \in Nat /\ Len(d.file) \in Nat
    BY <1>1, ListFacts DEF DataIn
  <2>2. List(e).next \in Nat /\ n \in Nat /\ MaxBlocks \in Nat
    BY <1>2, ListFacts, MemoAssumption DEF Sizes
  <2>3. (n = 0 \/ Len(d.file) + n <= MaxBlocks) /\ List(d).next <= MaxBlocks + 1
    BY DEF DataIn
  <2>4. List(e).next <= MaxBlocks + 1
    BY ONLY SMTT(40), <1>2, <2>1, <2>2, <2>3
  <2>5. CASE e.next = d.next
    BY <2>1, <2>4, <2>5
  <2>6. CASE e.next = List(e).next
    BY <2>2, <2>4, <2>6
  <2> QED BY <1>2, <2>4, <2>5, <2>6
<1>8. DataIn(e, f, t, l)
  BY <1>2, <1>6, <1>7 DEF DataIn
<1> QED BY <1>8 DEF f, t

-----------------------------------------------------------------------------
(* The actions.                                                            *)

\* Save writes the text of record r in place of a memo that lies where the
\* record has it.
LEMMA SaveStep ==
  ASSUME DataInv, NEW r \in 1..(NumRecs + 1), NEW m, Known(r, m),
         NEW n \in Sizes, Room(n), NEW s, s = Save(r, m, n)
  PROVE  DataIn(s.d, With(field, r, s.rec), With(text, r, n), lost) /\ s.rec \in Nat
<1> DEFINE k == [recNo |-> m.recNo, recCnt |-> m.recCnt]
           p == PutText(dbt, k, TextBlocks(r, n))
<1>1. k = [recNo |-> Entry(field, r), recCnt |-> Entry(text, r)]
  BY DEF Known
<1> HIDE DEF k
<1>2. FileInv(dbt) /\ MemosIn(dbt, field, text) /\ DataIn(dbt, field, text, lost)
  BY DEF DataInv, DataIn
<1>3. k \in [recNo : Nat, recCnt : Nat] /\ MemoIn(List(dbt), k)
  BY <1>1, <1>2, OldMemo DEF NumRecs
<1>4. r \in Nat /\ n \in Nat
  <2>1. field \in Seq(Nat)
    BY <1>2 DEF MemosIn
  <2>2. NumRecs \in Nat
    BY <2>1 DEF NumRecs
  <2> QED BY <2>2, MemoAssumption DEF Sizes
<1>5. s.d = FlushHdr(p.d) /\ s.rec = p.rec
  BY DEF Save, k
<1> HIDE DEF p
<1>6. SaveEffect(dbt, k, r, n, s.d, s.rec)
  BY <1>2, <1>3, <1>4, <1>5, SaveFacts DEF p
<1>7. n = 0 \/ Len(dbt.file) + n <= MaxBlocks
  BY DEF Room
<1>8. DataIn(s.d, With(field, r, s.rec), With(text, r, n), lost)
  BY <1>1, <1>2, <1>6, <1>7, SaveData DEF NumRecs
<1>9. s.rec \in Nat
  BY <1>6 DEF SaveEffect
<1> QED BY <1>8, <1>9

\* A record without a text is added.
LEMMA AddEmpty ==
  ASSUME DataInv
  PROVE  DataIn(dbt, Append(field, 0), Append(text, 0), lost)
<1> DEFINE r == Len(field) + 1
           m == [recNo |-> 0, recCnt |-> 0]
<1>1. FileInv(dbt) /\ DataIn(dbt, field, text, lost) /\ Len(text) = Len(field) /\ Len(field) \in Nat
  BY DEF DataInv, DataIn, MemosIn
<1>2. FlushHdr(dbt) = dbt
  BY <1>1, FlushNothing DEF FileInv
<1>3. m.recNo = 0 /\ m.recCnt = 0 /\ m = [recNo |-> Entry(field, r), recCnt |-> Entry(text, r)]
  BY <1>1 DEF Entry
<1>4. With(field, r, 0) = Append(field, 0) /\ With(text, r, 0) = Append(text, 0)
  BY <1>1 DEF With
<1>5. r \in 1..(Len(field) + 1) /\ 0 \in Sizes
  BY <1>1, MemoAssumption DEF Sizes
<1> HIDE DEF r, m
<1>6. SaveEffect(dbt, m, r, 0, dbt, 0)
  BY <1>1, <1>2, <1>3, SaveNothing
<1>7. DataIn(dbt, With(field, r, 0), With(text, r, 0), lost)
  BY ONLY <1>1, <1>3, <1>5, <1>6, SaveData
<1> QED BY <1>4, <1>7

LEMMA Lengths ==
  ASSUME DataInv
  PROVE  /\ NumRecs \in Nat /\ Len(text) = NumRecs /\ field \in Seq(Nat) /\ text \in Seq(Sizes)
         /\ Sizes \subseteq Nat /\ 0 \in Sizes
         /\ \A r \in 1..NumRecs : field[r] \in Nat /\ text[r] \in Sizes
         /\ \A r \in 1..(NumRecs + 1) : Entry(field, r) \in Nat /\ Entry(text, r) \in Sizes
<1>1. field \in Seq(Nat) /\ text \in Seq(Sizes) /\ Len(text) = NumRecs
  BY DEF DataInv, DataIn, MemosIn, NumRecs
<1>2. NumRecs \in Nat /\ \A r \in 1..NumRecs : field[r] \in Nat /\ text[r] \in Sizes
  BY <1>1 DEF NumRecs
<1>3. Sizes \subseteq Nat /\ 0 \in Sizes
  BY MemoAssumption DEF Sizes
<1>4. \A r \in 1..(NumRecs + 1) : Entry(field, r) \in Nat /\ Entry(text, r) \in Sizes
  <2>1. \A r \in 1..(NumRecs + 1) : r # NumRecs + 1 => r \in 1..NumRecs
    BY <1>2
  <2> QED BY <1>1, <1>2, <1>3, <2>1 DEF Entry, NumRecs
<1> QED BY <1>1, <1>2, <1>3, <1>4

\* FlushEdits saves the text of the selected record, whose memo is in no window
\* if the text is a new one.
Flushed(no, n) ==
  /\ no \in Nat /\ n \in Sizes
  /\ field' = With(field, sel, no) /\ text' = With(text, sel, n)
  /\ DataIn(dbt', field', text', lost)
  /\ IsMemoOpen(sel) => no = Entry(field, sel) /\ n = Entry(text, sel)

LEMMA FlushFacts ==
  ASSUME MInv, Allow = {}, FlushEdits, buf # None
  PROVE  sel \in 1..(NumRecs + 1) /\ \E no, n : Flushed(no, n)
<1>1. DataInv /\ SelInv /\ BufInv
  BY DEF MInv
<1>2. sel \in 1..(NumRecs + 1) /\ buf = Entry(field, sel) /\ buf \in Nat /\ Entry(text, sel) \in Sizes
  <2>1. sel \in 0..(NumRecs + 1) /\ sel # 0 /\ buf = Entry(field, sel)
    BY <1>1 DEF SelInv, BufInv
  <2>2. NumRecs \in Nat
    BY <1>1, Lengths
  <2>3. sel \in 1..(NumRecs + 1)
    BY <2>1, <2>2
  <2> QED BY <1>1, <2>1, <2>3, Lengths
<1>3. IsAddingRec <=> sel = Len(field) + 1
  BY DEF IsAddingRec, NumRecs
<1>4. Len(text) = Len(field)
  BY <1>1, Lengths DEF NumRecs
<1>5. CASE pend = None
  <2> DEFINE n == Entry(text, sel)
  <2>1. dbt' = dbt /\ field' = With(field, sel, buf) /\ text' = With(text, sel, n)
    <3>1. CASE IsAddingRec
      BY <1>3, <1>4, <1>5, <3>1 DEF FlushEdits, With, Entry
    <3>2. CASE ~IsAddingRec
      BY <1>3, <1>4, <1>5, <3>2 DEF FlushEdits, With, Entry
    <3> QED BY <3>1, <3>2
  <2>2. DataIn(dbt, With(field, sel, buf), With(text, sel, n), lost)
    <3>1. CASE IsAddingRec
      <4>1. buf = 0 /\ n = 0
        BY <1>2, <1>3, <1>4, <3>1 DEF Entry
      <4>2. With(field, sel, buf) = Append(field, 0) /\ With(text, sel, n) = Append(text, 0)
        BY <1>3, <1>4, <3>1, <4>1 DEF With
      <4> QED BY <1>1, <4>2, AddEmpty
    <3>2. CASE ~IsAddingRec
      <4>1. With(field, sel, buf) = [field EXCEPT ![sel] = field[sel]]
        BY <1>2, <1>3, <3>2 DEF With, Entry
      <4>2. With(text, sel, n) = [text EXCEPT ![sel] = text[sel]]
        BY <1>3, <1>4, <3>2 DEF With, Entry
      <4>3. field \in Seq(Nat) /\ text \in Seq(Sizes)
        BY <1>1, Lengths
      <4>4. [field EXCEPT ![sel] = field[sel]] = field /\ [text EXCEPT ![sel] = text[sel]] = text
        BY <4>3
      <4> QED BY <1>1, <4>1, <4>2, <4>4 DEF DataInv
    <3> QED BY <3>1, <3>2
  <2> HIDE DEF n
  <2>3. Flushed(buf, n)
    BY <1>2, <2>1, <2>2 DEF Flushed, n
  <2> QED BY <1>2, <2>3
<1>6. CASE pend # None
  <2> DEFINE s == Save(sel, pend, pend.cnt)
             n == pend.cnt
  <2>1. n \in Sizes /\ Known(sel, pend) /\ Room(n) /\ ~IsMemoOpen(sel)
    BY <1>1, <1>6 DEF BufInv, Waiting, FlushEdits
  <2>2. DataIn(s.d, With(field, sel, s.rec), With(text, sel, n), lost) /\ s.rec \in Nat
    BY <1>1, <1>2, <2>1, SaveStep
  <2>3. dbt' = s.d /\ field' = With(field, sel, s.rec) /\ text' = With(text, sel, n)
    <3> HIDE DEF Save
    <3>1. CASE IsAddingRec
      BY <1>3, <1>4, <1>6, <3>1 DEF FlushEdits, With
    <3>2. CASE ~IsAddingRec
      BY <1>3, <1>4, <1>6, <3>2 DEF FlushEdits, With
    <3> QED BY <3>1, <3>2
  <2> HIDE DEF n, s
  <2>4. Flushed(s.rec, n)
    BY <2>1, <2>2, <2>3 DEF Flushed
  <2> QED BY <1>2, <2>4
<1> QED BY <1>5, <1>6

\* Windows that stay open know their memos, when one record gets a text and
\* when none does.
LEMMA WinKept ==
  ASSUME DataInv, WinInv, NEW r \in 1..(NumRecs + 1), NEW no \in Nat, NEW n \in Sizes,
         field' = With(field, r, no), text' = With(text, r, n),
         dlg' \in [Dialogs -> {None} \cup MemoWin],
         \A w \in Dialogs : dlg'[w] # None => dlg'[w] = dlg[w],
         (\E w \in Dialogs : dlg'[w] # None /\ dlg'[w].rec = r)
            => no = Entry(field, r) /\ n = Entry(text, r),
         sel' = sel \/ ~IsAddingRec \/ r = NumRecs + 1
  PROVE  WinInv' /\ NumRecs' = (IF r = NumRecs + 1 THEN NumRecs + 1 ELSE NumRecs)
<1>1. /\ NumRecs \in Nat /\ Len(text) = Len(field) /\ field \in Seq(Nat) /\ text \in Seq(Sizes)
      /\ NumRecs = Len(field)
  BY Lengths DEF NumRecs
<1>2. NumRecs' = (IF r = NumRecs + 1 THEN NumRecs + 1 ELSE NumRecs)
  <2>1. WithEffect(Nat, field, r, no, field')
    BY <1>1, EntryFacts
  <2> QED BY <1>1, <2>1 DEF WithEffect, NumRecs
<1>3. ASSUME NEW w \in Dialogs, dlg'[w] # None
      PROVE  /\ dlg'[w].rec \in 1..NumRecs' \/ (dlg'[w].rec = sel' /\ IsAddingRec')
             /\ Known(dlg[w].rec, dlg[w])'
  <2> DEFINE q == dlg'[w].rec
             m == dlg'[w]
  <2>1. m = dlg[w] /\ dlg[w] # None
    BY <1>3
  <2>2. (q \in 1..NumRecs \/ (q = sel /\ IsAddingRec)) /\ Known(q, m)
    BY <2>1 DEF WinInv
  <2>3. q \in 1..(NumRecs + 1)
    BY <1>1, <2>2 DEF IsAddingRec
  <2>4. q \in 1..NumRecs' \/ (q = sel' /\ IsAddingRec')
    <3>1. CASE r = NumRecs + 1
      BY <1>1, <1>2, <2>3, <3>1
    <3>2. CASE r # NumRecs + 1
      BY <1>1, <1>2, <2>2, <3>2 DEF IsAddingRec
    <3> QED BY <3>1, <3>2
  <2>5. q # r \/ (no = Entry(field, r) /\ n = Entry(text, r))
    BY <1>3
  <2> HIDE DEF q, m
  <2>6. Entry(field', q) = Entry(field, q)
    BY SMTT(40), <1>1, <2>3, <2>5, EntryKept
  <2>7. Entry(text', q) = Entry(text, q)
    BY SMTT(40), <1>1, <2>3, <2>5, EntryKept
  <2>8. m.recNo = Entry(field', q) /\ m.recCnt = Entry(text', q)
    BY <2>2, <2>6, <2>7 DEF Known
  <2> QED BY <2>4, <2>8 DEF Known, q, m
<1>4. \A v, w \in Dialogs : dlg'[v] # None /\ dlg'[w] # None /\ dlg'[v].rec = dlg'[w].rec => v = w
  BY DEF WinInv
<1> QED BY <1>2, <1>3, <1>4 DEF WinInv

LEMMA WinSame ==
  ASSUME WinInv, UNCHANGED <<field, text>>, dlg' \in [Dialogs -> {None} \cup MemoWin],
         \A w \in Dialogs : dlg'[w] # None => dlg'[w] = dlg[w],
         sel' = sel \/ \A w \in Dialogs : dlg'[w] # None => dlg'[w].rec \in 1..NumRecs
  PROVE  WinInv'
<1>1. NumRecs' = NumRecs
  BY DEF NumRecs
<1>2. ASSUME NEW w \in Dialogs, dlg'[w] # None
      PROVE  /\ dlg'[w].rec \in 1..NumRecs' \/ (dlg'[w].rec = sel' /\ IsAddingRec')
             /\ Known(dlg[w].rec, dlg[w])'
  <2>1. dlg'[w] = dlg[w] /\ dlg[w] # None
    BY <1>2
  <2>3. Known(dlg[w].rec, dlg[w])'
    BY <2>1 DEF WinInv, Known, Entry
  <2>4. dlg'[w].rec \in 1..NumRecs' \/ (dlg'[w].rec = sel' /\ IsAddingRec')
    BY <1>1, <1>2, <2>1 DEF WinInv, IsAddingRec
  <2> QED BY <2>3, <2>4
<1>3. \A v, w \in Dialogs : dlg'[v] # None /\ dlg'[w] # None /\ dlg'[v].rec = dlg'[w].rec => v = w
  BY DEF WinInv
<1> QED BY <1>2, <1>3 DEF WinInv

LEMMA SelectStep ==
  ASSUME MInv, Allow = {}, NEW r, Select(r)
  PROVE  MInv'
<1>1. DataInv /\ SelInv /\ BufInv /\ WinInv /\ NumRecs \in Nat
  BY Lengths DEF MInv
<1>2. /\ r \in 0..NumRecs /\ sel' = r /\ buf' = None /\ pend' = None
      /\ editable' = editable /\ dlg' = dlg /\ lost' = lost
  BY DEF Select
<1>3. BufInv'
  BY <1>2 DEF BufInv
<1>4. CASE buf = None
  <2>1. UNCHANGED <<dbt, field, text>> /\ NumRecs' = NumRecs
    BY <1>4 DEF Select, NumRecs
  <2>2. ~IsAddingRec
    BY <1>1, <1>4 DEF SelInv
  <2>3. DataInv'
    BY <1>1, <1>2, <2>1 DEF DataInv
  <2>4. SelInv'
    <3>1. sel' \in 0..(NumRecs' + 1) /\ ~IsAddingRec'
      BY <1>1, <1>2, <2>1 DEF IsAddingRec
    <3> QED BY <1>1, <1>2, <2>1, <3>1 DEF SelInv
  <2>5. WinInv'
    BY <1>1, <1>2, <2>1, <2>2, WinSame DEF WinInv
  <2> QED BY <1>3, <2>3, <2>4, <2>5 DEF MInv
<1>5. CASE buf # None
  <2>1. sel \in 1..(NumRecs + 1) /\ \E no, n : Flushed(no, n)
    BY <1>5, FlushFacts DEF Select
  <2>2. PICK no, n : Flushed(no, n)
    BY <2>1
  <2>3. PICK q \in 1..(NumRecs + 1) : q = sel
    BY <2>1
  <2>4. DataInv'
    BY <1>2, <2>2 DEF DataInv, Flushed
  <2>5. WinInv' /\ NumRecs' = (IF q = NumRecs + 1 THEN NumRecs + 1 ELSE NumRecs)
    <3>1. /\ no \in Nat /\ n \in Sizes /\ field' = With(field, q, no) /\ text' = With(text, q, n)
          /\ IsMemoOpen(q) => no = Entry(field, q) /\ n = Entry(text, q)
      BY <2>2, <2>3 DEF Flushed
    <3>2. ~IsAddingRec \/ q = NumRecs + 1
      BY <2>3 DEF IsAddingRec
    <3>3. dlg' \in [Dialogs -> {None} \cup MemoWin]
      BY <1>1, <1>2 DEF WinInv
    <3>4. (\E w \in Dialogs : dlg'[w] # None /\ dlg'[w].rec = q) => no = Entry(field, q) /\ n = Entry(text, q)
      BY <1>2, <3>1 DEF IsMemoOpen
    <3> QED BY <1>1, <1>2, <3>1, <3>2, <3>3, <3>4, WinKept
  <2>6. SelInv'
    <3>1. editable' = TRUE
      BY <1>1, <1>2, <1>5 DEF BufInv, SelInv
    <3>2. NumRecs' \in Nat /\ sel' \in 0..NumRecs' /\ sel' # NumRecs' + 1
      BY <1>1, <1>2, <2>5
    <3>3. sel' \in 0..(NumRecs' + 1) /\ ~IsAddingRec'
      <4>1. \A l \in Nat : \A x \in 0..l : x \in 0..(l + 1) /\ x # l + 1
        OBVIOUS
      <4>2. sel' \in 0..(NumRecs' + 1)
        BY ONLY <3>2, <4>1
      <4>3. ~IsAddingRec'
        BY ONLY <3>2 DEF IsAddingRec
      <4> QED BY <4>2, <4>3
    <3>4. lost' \in BOOLEAN
      BY <1>1, <1>2 DEF SelInv
    <3> QED BY <3>1, <3>3, <3>4 DEF SelInv
  <2> QED BY <1>3, <2>4, <2>5, <2>6 DEF MInv
<1> QED BY <1>4, <1>5

LEMMA ClearEditedStep ==
  ASSUME MInv, Allow = {}, ClearEdited
  PROVE  MInv'
<1>1. DataInv /\ SelInv /\ BufInv /\ WinInv /\ NumRecs \in Nat
  BY Lengths DEF MInv
<1>2. /\ buf # None /\ ~IsAddingRec /\ FlushEdits /\ buf' = None /\ pend' = None
      /\ editable' = editable /\ sel' = sel /\ dlg' = dlg /\ lost' = lost
  BY DEF ClearEdited
<1>3. BufInv'
  BY <1>2 DEF BufInv
<1>4. sel \in 1..(NumRecs + 1) /\ \E no, n : Flushed(no, n)
  BY <1>2, FlushFacts
<1>5. PICK no, n : Flushed(no, n)
  BY <1>4
<1>6. PICK q \in 1..(NumRecs + 1) : q = sel
  BY <1>4
<1>7. DataInv'
  BY <1>2, <1>5 DEF DataInv, Flushed
<1>8. WinInv' /\ NumRecs' = (IF q = NumRecs + 1 THEN NumRecs + 1 ELSE NumRecs)
  <2>1. /\ no \in Nat /\ n \in Sizes /\ field' = With(field, q, no) /\ text' = With(text, q, n)
        /\ IsMemoOpen(q) => no = Entry(field, q) /\ n = Entry(text, q)
    BY <1>5, <1>6 DEF Flushed
  <2>2. dlg' \in [Dialogs -> {None} \cup MemoWin]
    BY <1>1, <1>2 DEF WinInv
  <2>3. (\E w \in Dialogs : dlg'[w] # None /\ dlg'[w].rec = q) => no = Entry(field, q) /\ n = Entry(text, q)
    BY <1>2, <2>1 DEF IsMemoOpen
  <2> QED BY <1>1, <1>2, <2>1, <2>2, <2>3, WinKept
<1>9. SelInv'
  <2>1. editable' = TRUE
    BY <1>1, <1>2 DEF BufInv, SelInv
  <2>2. NumRecs' = NumRecs
    BY <1>2, <1>6, <1>8 DEF IsAddingRec
  <2> QED BY <1>1, <1>2, <2>1, <2>2 DEF SelInv, IsAddingRec
<1> QED BY <1>3, <1>7, <1>8, <1>9 DEF MInv

\* Another field is edited, and a record is added: the buffer holds the
\* record's field.
LEMMA EditFieldStep ==
  ASSUME MInv, EditField
  PROVE  MInv'
<1>1. DataInv /\ SelInv /\ BufInv /\ WinInv /\ NumRecs \in Nat
  BY Lengths DEF MInv
<1>2. /\ editable /\ sel # 0 /\ buf = None /\ buf' = field[sel]
      /\ UNCHANGED <<dbt, field, editable, sel, pend, dlg, text, lost>> /\ NumRecs' = NumRecs
  BY DEF EditField, NumRecs
<1>3. ~IsAddingRec /\ pend = None
  BY <1>1, <1>2 DEF SelInv, BufInv
<1>4. buf' = Entry(field, sel)
  BY <1>2, <1>3 DEF Entry, IsAddingRec, NumRecs
<1>5. DataInv'
  BY <1>1, <1>2 DEF DataInv
<1>6. SelInv'
  BY <1>1, <1>2, <1>3 DEF SelInv, IsAddingRec
<1>7. BufInv'
  BY <1>2, <1>3, <1>4 DEF BufInv
<1>8. WinInv'
  <2>1. dlg' \in [Dialogs -> {None} \cup MemoWin] /\ \A w \in Dialogs : dlg'[w] # None => dlg'[w] = dlg[w]
    BY <1>1, <1>2 DEF WinInv
  <2> QED BY <1>1, <1>2, <2>1, WinSame
<1> QED BY <1>5, <1>6, <1>7, <1>8 DEF MInv

LEMMA AddPointStep ==
  ASSUME MInv, AddPoint
  PROVE  MInv'
<1>1. DataInv /\ SelInv /\ BufInv /\ WinInv /\ NumRecs \in Nat
  BY Lengths DEF MInv
<1>2. /\ editable /\ ~IsAddingRec /\ buf = None /\ sel' = NumRecs + 1 /\ buf' = 0
      /\ UNCHANGED <<dbt, field, editable, pend, dlg, text, lost>> /\ NumRecs' = NumRecs
  BY DEF AddPoint, NumRecs
<1>3. pend = None /\ 0 # None
  BY <1>1, <1>2, MemoAssumption DEF BufInv
<1>4. buf' = Entry(field, sel')
  BY <1>2 DEF Entry, NumRecs
<1>5. DataInv'
  BY <1>1, <1>2 DEF DataInv
<1>6. SelInv'
  BY <1>1, <1>2, <1>3 DEF SelInv, IsAddingRec
<1>7. BufInv'
  <2>1. sel' # 0
    BY <1>1, <1>2
  <2> QED BY <1>2, <1>3, <1>4, <2>1 DEF BufInv
<1>8. WinInv'
  <2>1. dlg' \in [Dialogs -> {None} \cup MemoWin] /\ \A w \in Dialogs : dlg'[w] # None => dlg'[w] = dlg[w]
    BY <1>1, <1>2 DEF WinInv
  <2>2. \A w \in Dialogs : dlg'[w] # None => dlg'[w].rec \in 1..NumRecs
    BY <1>1, <1>2 DEF WinInv
  <2> QED BY <1>1, <1>2, <2>1, <2>2, WinSame
<1> QED BY <1>5, <1>6, <1>7, <1>8 DEF MInv

LEMMA ResetAttrStep ==
  ASSUME MInv, ResetAttr
  PROVE  MInv'
<1>1. DataInv /\ SelInv /\ BufInv /\ WinInv /\ NumRecs \in Nat
  BY Lengths DEF MInv
<1>2. /\ buf' = None /\ pend' = None
      /\ UNCHANGED <<dbt, field, editable, text, lost>> /\ NumRecs' = NumRecs
  BY DEF ResetAttr, NumRecs
<1>3. /\ IsAddingRec => /\ sel' = 0
                        /\ dlg' = [w \in Dialogs |->
                             IF dlg[w] # None /\ dlg[w].rec = sel THEN None ELSE dlg[w]]
      /\ ~IsAddingRec => sel' = sel /\ dlg' = dlg
  BY DEF ResetAttr
<1>4. DataInv'
  BY <1>1, <1>2 DEF DataInv
<1>5. SelInv'
  BY <1>1, <1>2, <1>3 DEF SelInv, IsAddingRec
<1>6. BufInv'
  BY <1>2 DEF BufInv
<1>7. WinInv'
  <2>1. dlg' \in [Dialogs -> {None} \cup MemoWin] /\ \A w \in Dialogs : dlg'[w] # None => dlg'[w] = dlg[w]
    BY <1>1, <1>3 DEF WinInv
  <2>2. sel' = sel \/ \A w \in Dialogs : dlg'[w] # None => dlg'[w].rec \in 1..NumRecs
    BY <1>1, <1>3 DEF WinInv
  <2> QED BY <1>1, <1>2, <2>1, <2>2, WinSame
<1> QED BY <1>4, <1>5, <1>6, <1>7 DEF MInv

\* A window that opens is given the memo's block and count, or those that wait
\* with an edit of the selected record.
LEMMA OpenMemoStep ==
  ASSUME MInv, NEW w \in Dialogs, NEW r \in Nat \ {0}, OpenMemo(w, r)
  PROVE  MInv'
<1>1. DataInv /\ SelInv /\ BufInv /\ WinInv /\ NumRecs \in Nat
  BY Lengths DEF MInv
<1> DEFINE m == IF r = sel /\ pend # None THEN pend
                ELSE MemoOf(IF r = sel /\ buf # None THEN buf ELSE field[r])
           v == [rec |-> r, recNo |-> m.recNo, recCnt |-> m.recCnt,
                 empty |-> IF r = sel /\ pend # None THEN pend.cnt = 0 ELSE m.recCnt = 0]
<1>2. /\ r \in 1..NumRecs \/ (r = sel /\ IsAddingRec)
      /\ ~IsMemoOpen(r) /\ dlg' = [dlg EXCEPT ![w] = v]
      /\ UNCHANGED <<dbt, field, editable, sel, buf, pend, text, lost>> /\ NumRecs' = NumRecs
  BY DEF OpenMemo, NumRecs
<1>3. /\ r \in 1..(NumRecs + 1) /\ Entry(field, r) \in Nat /\ Entry(text, r) \in Nat
  <2>1. r \in 1..(NumRecs + 1)
    BY <1>1, <1>2 DEF IsAddingRec
  <2> QED BY <1>1, <2>1, Lengths
<1>4. m.recNo = Entry(field, r) /\ m.recCnt = Entry(text, r)
  <2>1. CASE r = sel /\ pend # None
    BY <1>1, <2>1 DEF BufInv, Known
  <2>2. CASE ~(r = sel /\ pend # None)
    <3> DEFINE no == IF r = sel /\ buf # None THEN buf ELSE field[r]
    <3>1. no = Entry(field, r)
      <4>1. CASE r = sel /\ buf # None
        BY <1>1, <4>1 DEF BufInv
      <4>2. CASE ~(r = sel /\ buf # None)
        <5>1. r \in 1..NumRecs
          BY <1>1, <1>2, <4>2 DEF SelInv
        <5>2. r # Len(field) + 1
          BY <1>1, <5>1 DEF NumRecs
        <5> QED BY <4>2, <5>2 DEF Entry
      <4> QED BY <4>1, <4>2
    <3> HIDE DEF no
    <3>2. MemoAt(dbt, r, Entry(field, r), Entry(text, r)) /\ FileInv(dbt)
      <4>0. /\ FileInv(dbt) /\ Len(text) = Len(field) /\ NumRecs = Len(field)
            /\ \A q \in 1..Len(field) : MemoAt(dbt, q, field[q], text[q])
        BY <1>1 DEF DataInv, DataIn, MemosIn, NumRecs
      <4>1. CASE r = NumRecs + 1
        <5>1. Entry(field, r) = 0 /\ Entry(text, r) = 0
          BY <4>0, <4>1 DEF Entry
        <5>2. List(dbt).next \in Nat
          BY <4>0, ListFacts
        <5> QED BY <4>0, <5>1, <5>2 DEF MemoAt, InMemo
      <4>2. CASE r # NumRecs + 1
        <5>1. r \in 1..Len(field)
          BY <1>1, <1>3, <4>0, <4>2
        <5> QED BY <4>0, <4>2, <5>1 DEF Entry
      <4> QED BY <4>1, <4>2
    <3>3. Len(GetText(dbt, no)) = Entry(text, r)
      BY <1>3, <3>1, <3>2, GetTextFacts
    <3>4. m = [recNo |-> no, recCnt |-> Entry(text, r)]
      BY <2>2, <3>3 DEF MemoOf, no
    <3> QED BY <3>1, <3>4
  <2> QED BY <2>1, <2>2
<1>5. v \in MemoWin /\ v.rec = r /\ Known(r, v)
  <2> DEFINE em == IF r = sel /\ pend # None THEN pend.cnt = 0 ELSE m.recCnt = 0
  <2>1. em \in BOOLEAN
    OBVIOUS
  <2>2. v = [rec |-> r, recNo |-> Entry(field, r), recCnt |-> Entry(text, r), empty |-> em]
    BY <1>4
  <2> HIDE DEF em, v, m
  <2> QED BY <1>3, <2>1, <2>2 DEF MemoWin, Known
<1> HIDE DEF v, m
<1>6. DataInv'
  BY <1>1, <1>2 DEF DataInv
<1>7. SelInv'
  BY <1>1, <1>2 DEF SelInv, IsAddingRec
<1>8. BufInv'
  BY <1>1, <1>2 DEF BufInv, Known, Entry
<1>9. WinInv'
  <2>1. dlg' \in [Dialogs -> {None} \cup MemoWin]
    BY <1>1, <1>2, <1>5 DEF WinInv
  <2>2. \A u \in Dialogs : dlg'[u] = IF u = w THEN v ELSE dlg[u]
    BY <1>1, <1>2 DEF WinInv
  <2>3. ASSUME NEW u \in Dialogs, dlg'[u] # None
        PROVE  /\ dlg'[u].rec \in 1..NumRecs' \/ (dlg'[u].rec = sel' /\ IsAddingRec')
               /\ dlg'[u].recNo = Entry(field, dlg'[u].rec) /\ dlg'[u].recCnt = Entry(text, dlg'[u].rec)
    <3>1. CASE u = w
      BY <1>2, <1>5, <2>2, <3>1 DEF Known, IsAddingRec
    <3>2. CASE u # w
      BY <1>1, <1>2, <2>2, <2>3, <3>2 DEF WinInv, Known, IsAddingRec
    <3> QED BY <3>1, <3>2
  <2>4. \A u \in Dialogs : dlg'[u] # None =>
          /\ dlg'[u].rec \in 1..NumRecs' \/ (dlg'[u].rec = sel' /\ IsAddingRec')
          /\ Known(dlg[u].rec, dlg[u])'
    BY <1>2, <2>3 DEF Known
  <2>5. ASSUME NEW a \in Dialogs, NEW b \in Dialogs, dlg'[a] # None, dlg'[b] # None,
               dlg'[a].rec = dlg'[b].rec
        PROVE  a = b
    <3>1. \A u \in Dialogs : u # w /\ dlg[u] # None => dlg[u].rec # r
      BY <1>2 DEF IsMemoOpen
    <3> QED BY <1>1, <1>5, <2>2, <2>5, <3>1 DEF WinInv
  <2> QED BY <2>1, <2>4, <2>5 DEF WinInv
<1> QED BY <1>6, <1>7, <1>8, <1>9 DEF MInv

LEMMA CloseMemoStep ==
  ASSUME MInv, NEW w \in Dialogs, CloseMemo(w)
  PROVE  MInv'
<1>1. DataInv /\ SelInv /\ BufInv /\ WinInv /\ NumRecs \in Nat
  BY Lengths DEF MInv
<1>2. /\ dlg' = [dlg EXCEPT ![w] = None]
      /\ UNCHANGED <<dbt, field, editable, sel, buf, pend, text, lost>> /\ NumRecs' = NumRecs
  BY DEF CloseMemo, NumRecs
<1>3. DataInv'
  BY <1>1, <1>2 DEF DataInv
<1>4. SelInv'
  BY <1>1, <1>2 DEF SelInv, IsAddingRec
<1>5. BufInv'
  BY <1>1, <1>2 DEF BufInv, Known, Entry
<1>6. WinInv'
  <2>1. dlg' \in [Dialogs -> {None} \cup MemoWin] /\ \A u \in Dialogs : dlg'[u] # None => dlg'[u] = dlg[u]
    BY <1>1, <1>2 DEF WinInv
  <2> QED BY <1>1, <1>2, <2>1, WinSame
<1> QED BY <1>3, <1>4, <1>5, <1>6 DEF MInv

\* A text is saved for a record that has no edit waiting and no window open.
LEMMA SaveOther ==
  ASSUME MInv, editable, UNCHANGED <<editable, sel, buf, pend, lost>>,
         NEW r \in 1..(NumRecs + 1), r = NumRecs + 1 => ~IsAddingRec, r = sel => buf = None,
         NEW no \in Nat, NEW n \in Sizes, field' = With(field, r, no), text' = With(text, r, n),
         DataIn(dbt', field', text', lost),
         dlg' \in [Dialogs -> {None} \cup MemoWin],
         \A w \in Dialogs : dlg'[w] # None => dlg'[w] = dlg[w] /\ dlg'[w].rec # r
  PROVE  MInv'
<1>1. DataInv /\ SelInv /\ BufInv /\ WinInv /\ NumRecs \in Nat
  BY Lengths DEF MInv
<1>2. DataInv'
  BY DEF DataInv
<1>3. WinInv' /\ NumRecs' = (IF r = NumRecs + 1 THEN NumRecs + 1 ELSE NumRecs)
  <2>1. \A w \in Dialogs : dlg'[w] # None => dlg'[w] = dlg[w]
    OBVIOUS
  <2>2. (\E w \in Dialogs : dlg'[w] # None /\ dlg'[w].rec = r)
            => no = Entry(field, r) /\ n = Entry(text, r)
    OBVIOUS
  <2>3. sel' = sel
    OBVIOUS
  <2> QED BY <1>1, <2>1, <2>2, <2>3, WinKept
<1>4. SelInv'
  <2>1. sel \in 0..(NumRecs + 1)
    BY <1>1 DEF SelInv
  <2>2. sel' = sel /\ editable' = TRUE /\ lost' = lost /\ buf' = buf
    BY <1>1 DEF SelInv
  <2>3. sel' \in 0..(NumRecs' + 1) /\ (IsAddingRec' => IsAddingRec)
    <3>1. CASE r = NumRecs + 1
      BY <1>1, <1>3, <2>1, <2>2, <3>1 DEF IsAddingRec
    <3>2. CASE r # NumRecs + 1
      BY <1>1, <1>3, <2>1, <2>2, <3>2 DEF IsAddingRec
    <3> QED BY <3>1, <3>2
  <2> QED BY <1>1, <2>2, <2>3 DEF SelInv
<1>5. BufInv'
  <2>1. CASE buf = None
    BY <1>1, <2>1 DEF BufInv
  <2>2. CASE buf # None
    <3>1. sel \in 1..(NumRecs + 1) /\ sel # r /\ buf = Entry(field, sel)
      BY <1>1, <2>2 DEF SelInv, BufInv
    <3>2. field \in Seq(Nat) /\ text \in Seq(Sizes) /\ NumRecs = Len(field) /\ Len(text) = Len(field)
      BY <1>1, Lengths DEF NumRecs
    <3>3. Entry(field', sel) = Entry(field, sel)
      BY SMTT(40), <3>1, <3>2, EntryKept
    <3>4. Entry(text', sel) = Entry(text, sel)
      BY <3>1, <3>2, EntryKept
    <3>5. /\ editable' /\ sel' # 0 /\ buf' = Entry(field', sel')
          /\ pend' # None => buf' # None /\ pend' \in Waiting
                /\ pend'.recNo = Entry(field', sel') /\ pend'.recCnt = Entry(text', sel')
      BY <1>1, <2>2, <3>1, <3>3, <3>4 DEF BufInv, Known
    <3> QED BY <3>5 DEF BufInv, Known
  <2> QED BY <2>1, <2>2
<1> QED BY <1>2, <1>3, <1>4, <1>5 DEF MInv

\* The text of a window: it waits, or is saved at once.
LEMMA SaveEditedMemoStep ==
  ASSUME MInv, NEW w \in Dialogs, NEW n \in Sizes, SaveEditedMemo(w, n)
  PROVE  MInv'
<1>1. DataInv /\ SelInv /\ BufInv /\ WinInv /\ NumRecs \in Nat
  BY Lengths DEF MInv
<1>2. editable /\ dlg[w] # None /\ dlg' = [dlg EXCEPT ![w] = None] /\ UNCHANGED <<editable, sel, lost>>
  BY DEF SaveEditedMemo
<1>3. /\ dlg' \in [Dialogs -> {None} \cup MemoWin]
      /\ \A u \in Dialogs : dlg'[u] # None => dlg'[u] = dlg[u] /\ dlg[u].rec # dlg[w].rec
  BY <1>1, <1>2 DEF WinInv
<1>4. /\ dlg[w].rec \in 1..NumRecs \/ (dlg[w].rec = sel /\ IsAddingRec)
      /\ Known(dlg[w].rec, dlg[w]) /\ dlg[w] \in MemoWin
  BY <1>1, <1>2 DEF WinInv
<1>5. CASE UpdateMemo(w, n)
  <2>1. /\ dlg[w].rec = sel /\ UNCHANGED <<dbt, field, text>> /\ NumRecs' = NumRecs
        /\ buf' = IF buf = None THEN field[sel] ELSE buf
        /\ pend' = IF pend # None THEN [pend EXCEPT !.cnt = n]
                   ELSE [recNo |-> dlg[w].recNo, recCnt |-> dlg[w].recCnt, cnt |-> n]
    BY <1>5 DEF UpdateMemo, NumRecs
  <2>2. sel \in 1..(NumRecs + 1)
    BY <1>1, <1>4, <2>1 DEF IsAddingRec
  <2>3. buf' = Entry(field, sel)
    <3>1. CASE buf = None
      <4>1. sel # NumRecs + 1
        BY <1>1, <3>1 DEF SelInv, IsAddingRec
      <4> QED BY <2>1, <3>1, <4>1 DEF Entry, NumRecs
    <3>2. CASE buf # None
      BY <1>1, <2>1, <3>2 DEF BufInv
    <3> QED BY <3>1, <3>2
  <2>4. buf' # None
    BY <1>1, <2>2, <2>3, Lengths, MemoAssumption
  <2>5. pend' \in Waiting /\ Known(sel, pend')
    <3>1. CASE pend # None
      <4>1. pend \in Waiting /\ Known(sel, pend)
        BY <1>1, <3>1 DEF BufInv
      <4>2. pend' = [pend EXCEPT !.cnt = n]
        BY <2>1, <3>1
      <4> QED BY <4>1, <4>2 DEF Waiting, Known
    <3>2. CASE pend = None
      <4>1. pend' = [recNo |-> dlg[w].recNo, recCnt |-> dlg[w].recCnt, cnt |-> n]
        BY <2>1, <3>2
      <4>2. dlg[w].recNo \in Nat /\ dlg[w].recCnt \in Nat /\ Known(sel, dlg[w])
        BY <1>4, <2>1 DEF MemoWin
      <4> QED BY <4>1, <4>2 DEF Waiting, Known
    <3> QED BY <3>1, <3>2
  <2>6. DataInv'
    BY <1>1, <1>2, <2>1 DEF DataInv
  <2>7. SelInv'
    BY <1>1, <1>2, <2>1, <2>4 DEF SelInv, IsAddingRec
  <2>8. BufInv'
    <3>1. sel' # 0
      BY <1>1, <1>2, <2>2
    <3>2. pend'.recNo = Entry(field', sel') /\ pend'.recCnt = Entry(text', sel')
      BY <1>2, <2>1, <2>5 DEF Known
    <3> QED BY <1>2, <2>1, <2>3, <2>4, <2>5, <3>1, <3>2 DEF BufInv, Known
  <2>9. WinInv'
    BY <1>1, <1>2, <1>3, <2>1, WinSame
  <2> QED BY <2>6, <2>7, <2>8, <2>9 DEF MInv
<1>6. CASE ~UpdateMemo(w, n)
  <2>1. PICK r \in 1..NumRecs : r = dlg[w].rec
    BY <1>4, <1>6 DEF SaveEditedMemo
  <2> DEFINE s == Save(r, dlg[w], n)
  <2>2. /\ r # sel /\ Room(n) /\ dbt' = s.d /\ field' = [field EXCEPT ![r] = s.rec]
        /\ text' = [text EXCEPT ![r] = n] /\ UNCHANGED <<buf, pend>>
    BY <1>6, <2>1 DEF SaveEditedMemo
  <2>3. Known(r, dlg[w]) /\ r \in 1..(NumRecs + 1) /\ r # NumRecs + 1
    BY <1>1, <1>4, <2>1
  <2>4. DataIn(s.d, With(field, r, s.rec), With(text, r, n), lost) /\ s.rec \in Nat
    BY <1>1, <2>2, <2>3, SaveStep
  <2>5. field' = With(field, r, s.rec) /\ text' = With(text, r, n)
    <3>1. Len(text) = NumRecs /\ Len(field) = NumRecs
      BY <1>1, Lengths DEF NumRecs
    <3> HIDE DEF s
    <3> QED BY <2>2, <2>3, <3>1 DEF With
  <2> HIDE DEF s
  <2>6. \A u \in Dialogs : dlg'[u] # None => dlg'[u] = dlg[u] /\ dlg'[u].rec # r
    BY <1>3, <2>1
  <2>7. DataIn(dbt', field', text', lost)
    BY <2>2, <2>4, <2>5
  <2> QED BY <1>2, <1>3, <2>2, <2>3, <2>4, <2>5, <2>6, <2>7, SaveOther
<1> QED BY <1>5, <1>6

\* The table window writes records that are in no window.
LEMMA RewriteStep ==
  ASSUME MInv, NEW r \in 1..NumRecs, NEW n \in Sizes, ~IsMemoOpen(r), ~(r = sel /\ buf # None), Rewrite(r, n)
  PROVE  MInv'
<1>1. DataInv /\ SelInv /\ BufInv /\ WinInv /\ NumRecs \in Nat
  BY Lengths DEF MInv
<1> DEFINE m == MemoOf(field[r])
           s == Save(r, m, n)
<1>2. /\ editable /\ Room(n) /\ dbt' = s.d /\ field' = [field EXCEPT ![r] = s.rec]
      /\ text' = [text EXCEPT ![r] = n] /\ UNCHANGED <<editable, sel, buf, pend, dlg, lost>>
  BY DEF Rewrite
<1>3. /\ r \in 1..(NumRecs + 1) /\ r # NumRecs + 1 /\ Len(text) = NumRecs /\ Len(field) = NumRecs
      /\ field[r] \in Nat /\ text[r] \in Nat /\ r \in Nat
  BY <1>1, Lengths DEF NumRecs
<1>4. FileInv(dbt) /\ MemoAt(dbt, r, field[r], text[r])
  BY <1>1, <1>3 DEF DataInv, DataIn, MemosIn
<1>5. Known(r, m)
  <2>1. Len(GetText(dbt, field[r])) = text[r]
    BY <1>3, <1>4, GetTextFacts
  <2> QED BY <1>3, <2>1 DEF MemoOf, Known, Entry
<1> HIDE DEF m
<1>6. DataIn(s.d, With(field, r, s.rec), With(text, r, n), lost) /\ s.rec \in Nat
  BY <1>1, <1>2, <1>3, <1>5, SaveStep
<1> HIDE DEF s
<1>7. field' = With(field, r, s.rec) /\ text' = With(text, r, n)
  BY <1>2, <1>3 DEF With
<1>8. /\ dlg' \in [Dialogs -> {None} \cup MemoWin]
      /\ \A u \in Dialogs : dlg'[u] # None => dlg'[u] = dlg[u] /\ dlg'[u].rec # r
  BY <1>1, <1>2 DEF WinInv, IsMemoOpen
<1>9. DataIn(dbt', field', text', lost)
  BY <1>2, <1>6, <1>7
<1> QED BY <1>2, <1>3, <1>6, <1>7, <1>8, <1>9, SaveOther

\* A record is copied from another layer.
LEMMA CopyShpRecStep ==
  ASSUME MInv, NEW n \in Sizes, CopyShpRec(n)
  PROVE  MInv'
<1>1. DataInv /\ SelInv /\ BufInv /\ WinInv /\ NumRecs \in Nat
  BY Lengths DEF MInv
<1> DEFINE r == NumRecs + 1
           m == [recNo |-> 0, recCnt |-> 0]
           c == IF n = 0 THEN [d |-> dbt, rec |-> 0] ELSE AppendCopy(dbt, TextBlocks(r, n))
           e == FlushHdr(c.d)
<1>2. /\ editable /\ ~IsAddingRec /\ Room(n) /\ dbt' = e /\ field' = Append(field, c.rec)
      /\ text' = Append(text, n) /\ UNCHANGED <<editable, sel, buf, pend, dlg, lost>>
  BY DEF CopyShpRec
<1>3. /\ FileInv(dbt) /\ DataIn(dbt, field, text, lost) /\ Len(text) = Len(field) /\ Len(field) = NumRecs
      /\ n \in Nat
  BY <1>1, Lengths, MemoAssumption DEF DataInv, DataIn, NumRecs, Sizes
<1>4. m = [recNo |-> Entry(field, r), recCnt |-> Entry(text, r)] /\ m.recNo = 0 /\ m.recCnt = 0
  BY <1>3 DEF Entry
<1>5. r \in 1..(Len(field) + 1) /\ r \in Nat
  BY <1>1, <1>3
<1>6. SaveEffect(dbt, m, r, n, e, c.rec)
  <2>1. CASE n = 0
    <3>1. c.d = dbt /\ c.rec = 0
      BY <2>1
    <3> HIDE DEF m, r
    <3>2. SaveEffect(dbt, m, r, 0, FlushHdr(dbt), 0)
      BY <1>3, <1>4, SaveNothing
    <3> QED BY <2>1, <3>1, <3>2
  <2>2. CASE n # 0
    <3>1. c = AppendCopy(dbt, TextBlocks(r, n)) /\ n \in Nat \ {0}
      BY <1>3, <2>2
    <3> HIDE DEF r, c
    <3> QED BY <1>3, <1>5, <3>1, AppendFacts
  <2> QED BY <2>1, <2>2
<1> HIDE DEF e, c, m
<1>7. field' = With(field, r, c.rec) /\ text' = With(text, r, n) /\ c.rec \in Nat
  BY <1>2, <1>3, <1>6 DEF With, SaveEffect
<1>8. DataIn(e, With(field, r, c.rec), With(text, r, n), lost)
  <2> HIDE DEF r
  <2>1. n = 0 \/ Len(dbt.file) + n <= MaxBlocks
    BY <1>2 DEF Room
  <2> QED BY <1>3, <1>4, <1>5, <1>6, <2>1, SaveData
<1>9. /\ dlg' \in [Dialogs -> {None} \cup MemoWin]
      /\ \A u \in Dialogs : dlg'[u] # None => dlg'[u] = dlg[u] /\ dlg'[u].rec # r
  BY <1>1, <1>2 DEF WinInv
<1>10. DataIn(dbt', field', text', lost)
  BY <1>2, <1>7, <1>8
<1>11. r \in 1..(NumRecs + 1) /\ r # sel
  BY <1>1, <1>2 DEF IsAddingRec
<1> QED BY <1>2, <1>7, <1>9, <1>10, <1>11, SaveOther

\* The data of a file that is closed or lost its list.
LEMMA DataKept ==
  ASSUME NEW d, NEW fld, NEW txt, NEW l, DataIn(d, fld, txt, l), NEW e, FileInv(e),
         List(e).next = List(d).next, List(e).free \subseteq List(d).free,
         \A b \in 1..(List(d).next - 1) : e.file[b] = d.file[b],
         e.next = d.next \/ e.next = 0 \/ e.next = List(d).next + 1,
         NEW k, ~k => ~l /\ List(e).free = List(d).free
  PROVE  DataIn(e, fld, txt, k)
<1>1. /\ FileInv(d) /\ MemosIn(d, fld, txt) /\ (l \/ Covered(d, fld, txt))
      /\ List(d).next <= MaxBlocks + 1 /\ d.next <= MaxBlocks + 2
      /\ List(d).next \in Nat /\ MaxBlocks \in Nat
  BY ListFacts, MemoAssumption DEF DataIn
<1>2. ASSUME NEW r \in 1..Len(fld) PROVE MemoAt(e, r, fld[r], txt[r])
  <2> DEFINE p == fld[r]
             n == txt[r]
  <2>1. p \in Nat /\ n \in Nat
    <3>1. Sizes \subseteq Nat
      BY MemoAssumption DEF Sizes
    <3>2. fld \in Seq(Nat) /\ txt \in Seq(Nat) /\ Len(txt) = Len(fld)
      BY <1>1, <3>1, SeqMonotonic DEF MemosIn
    <3> QED BY ONLY <3>2, r \in 1..Len(fld)
  <2>2. /\ p + n <= List(d).next /\ (p = 0 <=> n = 0)
        /\ \A i \in 1..n : d.file[p + i - 1] = [owner |-> r, part |-> i, of |-> n]
        /\ \A b \in Nat : InMemo(p, n, b) => ~InList(List(d).free, b)
    BY <1>1 DEF MemosIn, MemoAt
  <2> HIDE DEF p, n
  <2>3. \A i \in 1..n : p + i - 1 \in 1..(List(d).next - 1)
    BY <1>1, <2>1, <2>2
  <2>4. \A b \in Nat : InList(List(e).free, b) => InList(List(d).free, b)
    BY DEF InList
  <2>5. MemoAt(e, r, p, n)
    BY <2>2, <2>3, <2>4 DEF MemoAt
  <2> QED BY <2>5 DEF p, n
<1>3. MemosIn(e, fld, txt)
  BY <1>1, <1>2 DEF MemosIn
<1>4. k \/ Covered(e, fld, txt)
  BY <1>1 DEF Covered
<1>5. List(e).next <= MaxBlocks + 1 /\ e.next <= MaxBlocks + 2
  BY <1>1
<1> QED BY <1>3, <1>4, <1>5 DEF DataIn

LEMMA SetReadOnlyStep ==
  ASSUME MInv, SetReadOnly
  PROVE  MInv'
<1>1. DataInv /\ SelInv /\ BufInv /\ WinInv /\ NumRecs \in Nat
  BY Lengths DEF MInv
<1>2. /\ editable /\ sel = 0 /\ editable' = FALSE /\ dbt' = Reopened(AppendFree(dbt))
      /\ UNCHANGED <<field, sel, buf, pend, dlg, text, lost>> /\ NumRecs' = NumRecs
  BY DEF SetReadOnly, NumRecs
<1>3. buf = None /\ pend = None
  BY <1>1, <1>2 DEF BufInv
<1>4. /\ FileInv(dbt') /\ dbt'.flags = {} /\ List(dbt').next = List(dbt).next
      /\ List(dbt').free = List(dbt).free
      /\ \A b \in 1..(List(dbt).next - 1) : dbt'.file[b] = dbt.file[b]
      /\ dbt'.next = dbt.next \/ dbt'.next = List(dbt).next + 1
  BY <1>1, <1>2, AppendFreeFacts DEF DataInv, DataIn
<1>5. DataIn(dbt', field, text, lost)
  BY <1>1, <1>4, DataKept DEF DataInv
<1>6. DataInv'
  BY <1>2, <1>5 DEF DataInv
<1>7. SelInv'
  <2>1. ~IsAddingRec'
    BY <1>1, <1>2 DEF IsAddingRec
  <2> QED BY <1>1, <1>2, <1>4, <2>1 DEF SelInv
<1>8. BufInv'
  BY <1>2, <1>3 DEF BufInv
<1>9. WinInv'
  <2>1. dlg' \in [Dialogs -> {None} \cup MemoWin] /\ \A u \in Dialogs : dlg'[u] # None => dlg'[u] = dlg[u]
    BY <1>1, <1>2 DEF WinInv
  <2> QED BY <1>1, <1>2, <2>1, WinSame
<1> QED BY <1>6, <1>7, <1>8, <1>9 DEF MInv

LEMMA SetEditableStep ==
  ASSUME MInv, SetEditable
  PROVE  MInv'
<1>1. DataInv /\ SelInv /\ BufInv /\ WinInv /\ NumRecs \in Nat
  BY Lengths DEF MInv
<1>2. /\ ~editable /\ editable' = TRUE /\ dbt' = Reopened(dbt)
      /\ UNCHANGED <<field, sel, buf, pend, dlg, text, lost>> /\ NumRecs' = NumRecs
  BY DEF SetEditable, NumRecs
<1>3. dbt.flags = {} /\ dbt \in Dbt
  BY <1>1, <1>2 DEF SelInv, DataInv, DataIn, FileInv
<1>4. dbt' = dbt
  BY <1>2, <1>3 DEF Reopened, Dbt
<1>5. buf = None /\ pend = None
  BY <1>1, <1>2 DEF BufInv
<1>6. DataInv'
  BY <1>1, <1>2, <1>4 DEF DataInv
<1>7. SelInv'
  BY <1>1, <1>2, <1>4 DEF SelInv, IsAddingRec
<1>8. BufInv'
  BY <1>2, <1>5 DEF BufInv
<1>9. WinInv'
  <2>1. dlg' \in [Dialogs -> {None} \cup MemoWin] /\ \A u \in Dialogs : dlg'[u] # None => dlg'[u] = dlg[u]
    BY <1>1, <1>2 DEF WinInv
  <2> QED BY <1>1, <1>2, <2>1, WinSame
<1> QED BY <1>6, <1>7, <1>8, <1>9 DEF MInv

LEMMA CrashStep ==
  ASSUME MInv, Crash
  PROVE  MInv'
<1>1. DataInv /\ SelInv /\ BufInv /\ WinInv /\ NumRecs \in Nat
  BY Lengths DEF MInv
<1>2. /\ editable' = FALSE /\ sel' = 0 /\ buf' = None /\ pend' = None
      /\ dlg' = [w \in Dialogs |-> None] /\ dbt' = [Reopened(dbt) EXCEPT !.next = 0, !.free = {}]
      /\ lost' = (lost \/ dbt.free # {}) /\ UNCHANGED <<field, text>> /\ NumRecs' = NumRecs
  BY DEF Crash, NumRecs
<1>3. FileInv(dbt)
  BY <1>1 DEF DataInv, DataIn
<1>4. /\ FileInv(dbt') /\ dbt'.flags = {} /\ dbt'.next = 0 /\ dbt'.file = dbt.file
      /\ List(dbt').next = List(dbt).next /\ List(dbt').free \subseteq List(dbt).free
      /\ (dbt.free = {} => List(dbt').free = List(dbt).free)
  <2>1. dbt' = [Reopened(dbt) EXCEPT !.next = 0, !.free = {}]
    BY <1>2
  <2>2. Crashed(dbt, dbt')
    BY ONLY <1>3, <2>1, CrashFacts
  <2> QED BY <2>2 DEF Crashed
<1>5. DataIn(dbt', field, text, lost')
  <2>1. ~lost' => ~lost /\ List(dbt').free = List(dbt).free
    BY <1>2, <1>4
  <2>2. DataIn(dbt, field, text, lost) /\ \A b \in 1..(List(dbt).next - 1) : dbt'.file[b] = dbt.file[b]
    BY <1>1, <1>4 DEF DataInv
  <2> QED BY ONLY <1>4, <2>1, <2>2, DataKept
<1>6. DataInv'
  BY <1>2, <1>5 DEF DataInv
<1>7. SelInv'
  <2>1. ~IsAddingRec' /\ sel' \in 0..(NumRecs' + 1)
    BY <1>1, <1>2 DEF IsAddingRec
  <2> QED BY <1>1, <1>2, <1>4, <2>1 DEF SelInv
<1>8. BufInv'
  BY <1>2 DEF BufInv
<1>9. WinInv'
  BY <1>2 DEF WinInv
<1> QED BY <1>6, <1>7, <1>8, <1>9 DEF MInv

LEMMA InitStep ==
  ASSUME Init
  PROVE  MInv
<1>1. /\ dbt = [Created EXCEPT !.flags = {}] /\ field = << >> /\ text = << >>
      /\ editable = TRUE /\ sel = 0 /\ buf = None /\ pend = None
      /\ dlg = [w \in Dialogs |-> None] /\ lost = FALSE
  BY DEF Init
<1>2. NumRecs = 0 /\ Len(field) = 0 /\ Len(text) = 0
  BY <1>1 DEF NumRecs
<1>3. dbt = [hdr |-> 1, file |-> << >>, next |-> 1, free |-> {}, flags |-> {}]
  BY <1>1 DEF Created
<1>4. /\ dbt.hdr = 1 /\ dbt.file = << >> /\ dbt.next = 1 /\ dbt.free = {} /\ dbt.flags = {}
      /\ << >> \in Seq(Block) /\ << >> \in Seq(Nat) /\ << >> \in Seq(Sizes) /\ Len(<< >>) = 0
  BY <1>3, EmptySeq
<1>5. dbt \in Dbt
  <2>1. {} \in SUBSET Flags /\ {} \in SUBSET FreeBlock /\ 1 \in Nat
    OBVIOUS
  <2> QED BY <1>3, <1>4, <2>1 DEF Dbt
<1>6. FileInv(dbt)
  BY <1>4, <1>5 DEF FileInv
<1>7. List(dbt) = [next |-> 1, free |-> {}]
  <2>1. \A b \in 1..Len(dbt.file) : NoList(dbt.file[b])
    BY <1>4
  <2>2. List(dbt) = [next |-> dbt.hdr, free |-> {}]
    BY <1>4, <1>6, <2>1, ListFacts
  <2> QED BY <1>4, <2>2
<1>8. DataInv
  <2>1. MemosIn(dbt, field, text)
    BY <1>1, <1>2, <1>4 DEF MemosIn
  <2>2. Covered(dbt, field, text)
    BY <1>7 DEF Covered
  <2>3. List(dbt).next <= MaxBlocks + 1 /\ dbt.next <= MaxBlocks + 2
    BY <1>4, <1>7, MemoAssumption
  <2> QED BY <1>6, <2>1, <2>2, <2>3 DEF DataInv, DataIn
<1>9. SelInv
  <2>1. ~IsAddingRec /\ sel \in 0..(NumRecs + 1)
    BY <1>1, <1>2 DEF IsAddingRec
  <2> QED BY <1>1, <2>1 DEF SelInv
<1>11. BufInv
  BY <1>1 DEF BufInv
<1>10. WinInv
  BY <1>1 DEF WinInv
<1> QED BY <1>8, <1>9, <1>10, <1>11 DEF MInv

-----------------------------------------------------------------------------
(* Recovering the blocks that nothing refers to.                           *)

\* A function on the subsets of S that adds a set of blocks one by one.
AddFrom(d, g, s) ==
  IF s = {} THEN d ELSE AddToFree(g[s \ {CHOOSE x \in s : TRUE}], CHOOSE x \in s : TRUE)

LEMMA AddsExist ==
  ASSUME NEW S, IsFiniteSet(S), NEW d
  PROVE  \E g : g = [s \in SUBSET S |-> AddFrom(d, g, s)]
<1> DEFINE D(k) == {s \in SUBSET S : Cardinality(s) <= k}
           Good(k) == \E g : g = [s \in D(k) |-> AddFrom(d, g, s)]
           Bad == {k \in Nat : ~Good(k)}
<1>1. \A s \in SUBSET S : IsFiniteSet(s) /\ Cardinality(s) \in Nat /\ Cardinality(s) <= Cardinality(S)
  BY FS_Subset, FS_CardinalityType
<1>2. Good(0)
  <2>1. \A s \in D(0) : s = {}
    BY <1>1, FS_EmptySet
  <2> DEFINE g == [s \in D(0) |-> d]
  <2>2. g = [s \in D(0) |-> AddFrom(d, g, s)]
    BY <2>1 DEF AddFrom
  <2> HIDE DEF g
  <2> QED BY <2>2
<1>3. ASSUME NEW k \in Nat, Good(k) PROVE Good(k + 1)
  <2>1. PICK g : g = [s \in D(k) |-> AddFrom(d, g, s)]
    BY <1>3
  <2> DEFINE h == [s \in D(k + 1) |-> AddFrom(d, g, s)]
  <2>2. \A s \in D(k) : s \in D(k + 1) /\ h[s] = g[s]
    <3>1. \A s \in D(k) : s \in D(k + 1)
      BY <1>1
    <3>2. \A s \in D(k) : g[s] = AddFrom(d, g, s)
      BY <2>1
    <3> HIDE DEF D
    <3> QED BY <3>1, <3>2
  <2>3. ASSUME NEW s \in D(k + 1) PROVE AddFrom(d, h, s) = AddFrom(d, g, s)
    <3> DEFINE x == CHOOSE x \in s : TRUE
    <3>1. CASE s = {}
      BY <3>1 DEF AddFrom
    <3>2. CASE s # {}
      <4>1. x \in s
        BY <3>2
      <4>2. s \ {x} \in D(k)
        <5>1. Cardinality(s \ {x}) = Cardinality(s) - 1 /\ s \ {x} \in SUBSET S
          BY <1>1, <4>1, FS_RemoveElement
        <5> QED BY <1>1, <5>1
      <4>3. h[s \ {x}] = g[s \ {x}]
        BY <2>2, <4>2
      <4> HIDE DEF h
      <4> QED BY <4>3 DEF AddFrom
    <3> QED BY <3>1, <3>2
  <2>4. h = [s \in D(k + 1) |-> AddFrom(d, h, s)]
    <3> DEFINE j == [s \in D(k + 1) |-> AddFrom(d, h, s)]
    <3>1. \A s \in D(k + 1) : j[s] = h[s]
      <4> HIDE DEF D
      <4> QED BY <2>3
    <3> HIDE DEF D
    <3> QED BY <3>1
  <2> HIDE DEF h
  <2> QED BY <2>4
<1>4. Bad = {}
  <2> HIDE DEF Good
  <2> SUFFICES ASSUME Bad # {} PROVE FALSE
    OBVIOUS
  <2>1. PICK k \in Bad : \A j \in Bad : ~(j < k)
    BY LeastNumber
  <2>2. k # 0
    BY <1>2
  <2>3. k - 1 \in Nat /\ k - 1 \notin Bad /\ (k - 1) + 1 = k
    BY <2>1, <2>2
  <2>4. Good((k - 1) + 1)
    BY <1>3, <2>3
  <2> QED BY <2>3, <2>4
<1>5. Cardinality(S) \in Nat /\ D(Cardinality(S)) = SUBSET S
  BY <1>1, FS_CardinalityType
<1>6. Good(Cardinality(S))
  BY <1>4, <1>5
<1> HIDE DEF D
<1> QED BY <1>5, <1>6

LEMMA FoldIs ==
  ASSUME NEW S, IsFiniteSet(S), NEW d
  PROVE  \E g : /\ g = [s \in SUBSET S |-> AddFrom(d, g, s)]
                /\ FoldSet(LAMBDA f, x : AddToFree(x, f), d, S) = g[S]
<1> DEFINE g == CHOOSE g : g = [s \in SUBSET S |-> AddFrom(d, g, s)]
<1>1. g = [s \in SUBSET S |-> AddFrom(d, g, s)]
  BY AddsExist
<1>2. FoldSet(LAMBDA f, x : AddToFree(x, f), d, S) = g[S]
  BY DEF FoldSet, MapThenFoldSet, AddFrom
<1> QED BY <1>1, <1>2

\* The blocks of a set of blocks.
InBlocks(s, b) == \E f \in s : InMemo(f.recNo, f.recCnt, b)

\* In e, the blocks of s have been added to the list of d.
Added(d, s, e) ==
  /\ e \in Dbt /\ e.hdr = d.hdr /\ e.file = d.file
  /\ FreeList(e.free, e.next) /\ e.next <= d.next
  /\ \A b \in Nat : b < d.next =>
        ((b >= e.next \/ InList(e.free, b)) <=> (InList(d.free, b) \/ InBlocks(s, b)))

\* Blocks that can be added: none of them free, and no two of them the same.
Addable(d, S) ==
  /\ S \subseteq FreeBlock /\ IsFiniteSet(S)
  /\ \A f \in S : End(f) <= d.next /\ \A b \in Nat : InMemo(f.recNo, f.recCnt, b) => ~InList(d.free, b)
  /\ \A f, h \in S : \A b \in Nat : InMemo(f.recNo, f.recCnt, b) /\ InMemo(h.recNo, h.recCnt, b) => f = h

\* One more.
LEMMA AddOne ==
  ASSUME NEW d \in Dbt, FreeList(d.free, d.next), NEW S, Addable(d, S), NEW s \in SUBSET S,
         NEW f \in S, f \notin s, NEW e, Added(d, s, e)
  PROVE  Added(d, s \cup {f}, AddToFree(e, f))
<1>1. /\ f \in FreeBlock /\ End(f) <= d.next /\ End(f) = f.recNo + f.recCnt
      /\ f.recNo \in Nat \ {0} /\ f.recCnt \in Nat \ {0}
      /\ \A b \in Nat : InMemo(f.recNo, f.recCnt, b) => ~InList(d.free, b) /\ ~InBlocks(s, b)
  BY DEF Addable, FreeBlock, End, InBlocks
<1>2. d.next \in Nat \ {0} /\ e.next \in Nat \ {0} /\ e \in Dbt /\ FreeList(e.free, e.next) /\ e.next <= d.next
  BY DEF Added, FreeList
<1>3. \A b \in Nat : InMemo(f.recNo, f.recCnt, b) => b < d.next
  BY <1>1, <1>2 DEF InMemo
<1>4. \A b \in Nat : InMemo(f.recNo, f.recCnt, b) => ~(b >= e.next) /\ ~InList(e.free, b)
  BY <1>1, <1>3 DEF Added
<1>5. End(f) <= e.next
  <2>1. f.recNo + f.recCnt - 1 \in Nat /\ InMemo(f.recNo, f.recCnt, f.recNo + f.recCnt - 1)
    BY <1>1 DEF InMemo
  <2>2. ~(f.recNo + f.recCnt - 1 >= e.next)
    BY <1>4, <2>1
  <2> QED BY <1>1, <1>2, <2>2
<1>6. Apart(e.free, f)
  BY <1>1, <1>2, <1>4, ApartFacts DEF FreeList
<1> DEFINE x == AddToFree(e, f)
<1>7. AddEffect(e, f, x)
  BY <1>1, <1>2, <1>5, <1>6, AddFacts
<1> HIDE DEF x
<1>8. /\ x \in Dbt /\ x.hdr = e.hdr /\ x.file = e.file /\ FreeList(x.free, x.next) /\ x.next <= e.next
      /\ x.next \in Nat \ {0}
  BY <1>7 DEF AddEffect, FreeList
<1>9. ASSUME NEW b \in Nat, b < d.next
      PROVE  (b >= x.next \/ InList(x.free, b)) <=> (InList(d.free, b) \/ InBlocks(s \cup {f}, b))
  <2>1. InBlocks(s \cup {f}, b) <=> InBlocks(s, b) \/ InMemo(f.recNo, f.recCnt, b)
    BY DEF InBlocks
  <2>2. (b >= e.next \/ InList(e.free, b)) <=> (InList(d.free, b) \/ InBlocks(s, b))
    BY <1>9 DEF Added
  <2>3. CASE b < e.next
    <3>1. (b >= x.next \/ InList(x.free, b)) <=> (InList(e.free, b) \/ InMemo(f.recNo, f.recCnt, b))
      BY <1>7, <2>3 DEF AddEffect
    <3>2. ~(b >= e.next)
      BY <1>2, <2>3
    <3> QED BY <2>1, <2>2, <3>1, <3>2
  <2>4. CASE ~(b < e.next)
    <3>1. b >= e.next /\ b >= x.next
      BY <1>2, <1>8, <2>4
    <3> QED BY <2>1, <2>2, <3>1
  <2> QED BY <2>3, <2>4
<1>10. x.next <= d.next
  BY <1>2, <1>8
<1>11. Added(d, s \cup {f}, x)
  <2>1. x.hdr = d.hdr /\ x.file = d.file
    BY <1>8 DEF Added
  <2> QED BY <1>8, <1>9, <1>10, <2>1 DEF Added
<1> QED BY <1>11 DEF x

\* All of them.
LEMMA AddAll ==
  ASSUME NEW d \in Dbt, FreeList(d.free, d.next), NEW S, Addable(d, S),
         NEW g, g = [s \in SUBSET S |-> AddFrom(d, g, s)]
  PROVE  Added(d, S, g[S])
<1> DEFINE Bad == {k \in Nat : \E s \in SUBSET S : Cardinality(s) = k /\ ~Added(d, s, g[s])}
<1>1. IsFiniteSet(S)
  BY DEF Addable
<1>2. \A s \in SUBSET S : IsFiniteSet(s) /\ Cardinality(s) \in Nat
  BY <1>1, FS_Subset, FS_CardinalityType
<1>3. \A s \in SUBSET S : g[s] = AddFrom(d, g, s)
  OBVIOUS
<1>4. Added(d, {}, g[{}])
  <2>1. g[{}] = d
    <3>1. g[{}] = AddFrom(d, g, {})
      BY <1>3
    <3> QED BY <3>1 DEF AddFrom
  <2>2. \A b \in Nat : ~InBlocks({}, b)
    BY DEF InBlocks
  <2>3. d.next \in Nat
    BY DEF FreeList
  <2>4. \A b \in Nat : b < d.next => ~(b >= d.next)
    BY <2>3
  <2>5. d.next <= d.next
    BY <2>3
  <2> QED BY <2>1, <2>2, <2>4, <2>5 DEF Added
<1>5. ASSUME Bad # {} PROVE FALSE
  <2>1. PICK k \in Bad : \A j \in Bad : ~(j < k)
    BY <1>5, LeastNumber
  <2>2. PICK s \in SUBSET S : Cardinality(s) = k /\ ~Added(d, s, g[s])
    BY <2>1
  <2> DEFINE x == CHOOSE y \in s : TRUE
             t == s \ {x}
  <2>3. s # {}
    BY <1>4, <2>2
  <2>4. x \in s /\ t \in SUBSET S /\ x \notin t /\ t \cup {x} = s
    BY <2>3
  <2>5. Cardinality(t) = k - 1 /\ Cardinality(t) \in Nat /\ k \in Nat
    BY <1>2, <2>2, <2>4, FS_RemoveElement
  <2>6. Added(d, t, g[t])
    <3>1. k - 1 \in Nat /\ k - 1 < k
      BY <2>5
    <3>2. k - 1 \notin Bad
      BY <2>1, <3>1
    <3> HIDE DEF t
    <3> QED BY <2>4, <2>5, <3>1, <3>2
  <2>7. g[s] = AddToFree(g[t], x)
    <3>1. g[s] = AddFrom(d, g, s)
      BY <1>3
    <3> QED BY <2>3, <3>1 DEF AddFrom
  <2> HIDE DEF x, t
  <2>8. Added(d, t \cup {x}, AddToFree(g[t], x))
    <3>1. x \in S
      BY <2>4
    <3> QED BY <2>4, <2>6, <3>1, AddOne
  <2> QED BY <2>2, <2>4, <2>7, <2>8
<1>6. Added(d, S, g[S])
  <2>1. Cardinality(S) \in Nat /\ S \in SUBSET S /\ Cardinality(S) \notin Bad
    BY <1>2, <1>5
  <2> QED BY <2>1
<1> QED BY <1>6

\* The runs of a set of numbers are its longest intervals.
LEMMA RunsFacts ==
  ASSUME NEW n \in Nat, NEW B \in SUBSET (1..n)
  PROVE  /\ Runs(B) \subseteq FreeBlock /\ IsFiniteSet(Runs(B))
         /\ \A f \in Runs(B) : \A b \in Nat : InMemo(f.recNo, f.recCnt, b) => b \in B
         /\ \A b \in B : InBlocks(Runs(B), b)
         /\ \A f, h \in Runs(B) : \A b \in Nat :
               InMemo(f.recNo, f.recCnt, b) /\ InMemo(h.recNo, h.recCnt, b) => f = h
<1> DEFINE c == Cardinality(B)
<1>1. IsFiniteSet(B) /\ c \in Nat /\ B \subseteq Nat \ {0}
  <2>1. IsFiniteSet(1..n)
    BY FS_Interval
  <2>2. IsFiniteSet(B)
    BY <2>1, FS_Subset
  <2> QED BY <2>2, FS_CardinalityType
<1>2. ASSUME NEW f \in Runs(B)
      PROVE  /\ f \in FreeBlock /\ f = [recNo |-> f.recNo, recCnt |-> f.recCnt]
             /\ f.recNo \in B /\ f.recCnt \in 1..c /\ f.recNo \in Nat \ {0} /\ f.recCnt \in Nat \ {0}
             /\ \A b \in Nat : InMemo(f.recNo, f.recCnt, b) => b \in B
             /\ f.recNo - 1 \notin B /\ f.recNo + f.recCnt \notin B
  <2>1. /\ f \in [recNo : B, recCnt : 1..c] /\ Extent(f) \subseteq B
        /\ f.recNo - 1 \notin B /\ f.recNo + f.recCnt \notin B
    BY DEF Runs, End
  <2>2. f = [recNo |-> f.recNo, recCnt |-> f.recCnt] /\ f.recNo \in B /\ f.recCnt \in 1..c
    BY <2>1
  <2>3. f.recNo \in Nat \ {0} /\ f.recCnt \in Nat \ {0}
    BY <1>1, <2>2
  <2>4. f \in FreeBlock
    BY <2>2, <2>3 DEF FreeBlock
  <2>5. \A b \in Nat : InMemo(f.recNo, f.recCnt, b) => b \in Extent(f)
    BY <2>3 DEF InMemo, Extent
  <2> QED BY <2>1, <2>2, <2>3, <2>4, <2>5
<1> HIDE DEF c
<1>3. ASSUME NEW f \in Runs(B), NEW h \in Runs(B), NEW b \in Nat,
             InMemo(f.recNo, f.recCnt, b), InMemo(h.recNo, h.recCnt, b)
      PROVE  f = h
  <2>1. ~(f.recNo < h.recNo)
    <3> SUFFICES ASSUME f.recNo < h.recNo PROVE FALSE
      OBVIOUS
    <3>1. h.recNo - 1 \in Nat /\ InMemo(f.recNo, f.recCnt, h.recNo - 1)
      BY <1>2, <1>3 DEF InMemo
    <3> QED BY <1>2, <3>1
  <2>2. ~(h.recNo < f.recNo)
    <3> SUFFICES ASSUME h.recNo < f.recNo PROVE FALSE
      OBVIOUS
    <3>1. f.recNo - 1 \in Nat /\ InMemo(h.recNo, h.recCnt, f.recNo - 1)
      BY <1>2, <1>3 DEF InMemo
    <3> QED BY <1>2, <3>1
  <2>3. f.recNo = h.recNo
    BY <1>2, <2>1, <2>2
  <2>4. ~(f.recCnt < h.recCnt)
    <3> SUFFICES ASSUME f.recCnt < h.recCnt PROVE FALSE
      OBVIOUS
    <3>1. f.recNo + f.recCnt \in Nat /\ InMemo(h.recNo, h.recCnt, f.recNo + f.recCnt)
      BY <1>2, <2>3 DEF InMemo
    <3> QED BY <1>2, <3>1
  <2>5. ~(h.recCnt < f.recCnt)
    <3> SUFFICES ASSUME h.recCnt < f.recCnt PROVE FALSE
      OBVIOUS
    <3>1. h.recNo + h.recCnt \in Nat /\ InMemo(f.recNo, f.recCnt, h.recNo + h.recCnt)
      BY <1>2, <2>3 DEF InMemo
    <3> QED BY <1>2, <3>1
  <2>6. f.recCnt = h.recCnt
    BY <1>2, <2>4, <2>5
  <2> QED BY <1>2, <2>3, <2>6
<1>4. IsFiniteSet(Runs(B))
  <2> DEFINE F == [f \in Runs(B) |-> f.recNo]
  <2>1. ASSUME NEW f \in Runs(B), NEW h \in Runs(B), f.recNo = h.recNo PROVE f = h
    <3>1. f.recNo \in Nat /\ InMemo(f.recNo, f.recCnt, f.recNo) /\ InMemo(h.recNo, h.recCnt, f.recNo)
      BY <1>2, <2>1 DEF InMemo
    <3> QED BY <1>3, <3>1
  <2>2. F \in Injection(Runs(B), B)
    BY <1>2, <2>1 DEF Injection, IsInjective
  <2> QED BY <1>1, <2>2, FS_Injection
<1>5. ASSUME NEW b \in B PROVE InBlocks(Runs(B), b)
  <2> DEFINE L == {x \in Nat : x <= b /\ x..b \subseteq B}
             H == {y \in Nat : b < y /\ y \notin B}
  <2>1. b \in Nat \ {0} /\ b <= n
    BY <1>1
  <2>2. b \in L
    BY <2>1
  <2>3. n + 1 \in H
    BY <2>1
  <2>4. PICK x \in L : \A y \in L : ~(y < x)
    BY <2>2, LeastNumber
  <2>5. PICK z \in H : \A y \in H : ~(y < z)
    BY <2>3, LeastNumber
  <2>6. x \in Nat /\ x <= b /\ x..b \subseteq B /\ z \in Nat /\ b < z /\ z \notin B
    OBVIOUS
  <2>7. x \in B /\ x \in Nat \ {0}
    BY <1>1, <2>1, <2>6
  <2>8. x - 1 \notin B
    <3> SUFFICES ASSUME x - 1 \in B PROVE FALSE
      OBVIOUS
    <3>1. x - 1 \in Nat /\ x - 1 <= b /\ (x - 1)..b = (x..b) \cup {x - 1}
      BY <2>1, <2>7, <2>6
    <3>2. x - 1 \in L
      BY <2>6, <3>1
    <3> QED BY <2>4, <2>7, <3>2
  <2>9. ASSUME NEW y \in x..(z - 1) PROVE y \in B
    <3>1. CASE y <= b
      BY <2>1, <2>6, <3>1
    <3>2. CASE ~(y <= b)
      <4>1. y \in Nat /\ b < y /\ y < z
        BY <2>1, <2>6, <3>2
      <4>2. y \notin H
        BY <2>5, <4>1
      <4> QED BY <4>1, <4>2
    <3> QED BY <3>1, <3>2
  <2> HIDE DEF L, H
  <2>10. z - x \in 1..c
    <3>1. Cardinality(x..(z - 1)) = z - x
      <4>1. Cardinality(x..(z - 1)) = IF x > z - 1 THEN 0 ELSE (z - 1) - x + 1
        BY <2>6, FS_Interval
      <4> QED BY <2>1, <2>6, <4>1
    <3>2. Cardinality(x..(z - 1)) <= c
      BY <1>1, <2>9, FS_Subset DEF c
    <3> QED BY <1>1, <2>1, <2>6, <3>1, <3>2
  <2> DEFINE f == [recNo |-> x, recCnt |-> z - x]
  <2>11. f.recNo = x /\ f.recCnt = z - x /\ x + (z - x) = z /\ x + (z - x) - 1 = z - 1
    BY <2>6
  <2>12. Extent(f) \subseteq B /\ f.recNo - 1 \notin B /\ End(f) \notin B
    <3>1. Extent(f) = x..(z - 1) /\ End(f) = z
      BY <2>11 DEF Extent, End
    <3> QED BY <2>6, <2>8, <2>9, <2>11, <3>1
  <2>13. f \in Runs(B)
    <3>1. f \in {[recNo |-> p, recCnt |-> q] : p \in B, q \in 1..c}
      BY <2>7, <2>10
    <3>2. f \in [recNo : B, recCnt : 1..c]
      BY <2>7, <2>10
    <3> HIDE DEF f
    <3> QED BY <2>12, <3>1, <3>2 DEF Runs, c
  <2>14. InMemo(f.recNo, f.recCnt, b)
    BY <2>1, <2>6, <2>11 DEF InMemo
  <2> HIDE DEF f
  <2> QED BY <2>13, <2>14 DEF InBlocks
<1> QED BY <1>2, <1>3, <1>4, <1>5

\* A block is in a memo if it lies where the record has one.
LEMMA MemoBlocksFacts ==
  ASSUME DataInv, NEW r \in 1..NumRecs, NEW b \in Nat
  PROVE  b \in MemoBlocks(r) <=> InMemo(field[r], text[r], b)
<1>1. field[r] \in Nat /\ text[r] \in Nat /\ r \in Nat /\ r \in 1..Len(field)
  BY Lengths DEF NumRecs
<1>2. FileInv(dbt) /\ MemoAt(dbt, r, field[r], text[r])
  BY <1>1 DEF DataInv, DataIn, MemosIn
<1>3. Len(Stored(r)) = text[r]
  BY <1>1, <1>2, GetTextFacts DEF Stored
<1>4. MemoBlocks(r) = {field[r] + k - 1 : k \in 1..text[r]}
  BY <1>3 DEF MemoBlocks
<1> DEFINE p == field[r]
           n == text[r]
<1>5. p \in Nat /\ n \in Nat /\ MemoBlocks(r) = {p + k - 1 : k \in 1..n}
  BY <1>1, <1>4
<1> HIDE DEF p, n
<1>6. ASSUME InMemo(p, n, b) PROVE b \in MemoBlocks(r)
  <2>1. b - p + 1 \in 1..n /\ p + (b - p + 1) - 1 = b
    BY <1>5, <1>6 DEF InMemo
  <2> QED BY <1>5, <2>1
<1>7. ASSUME b \in MemoBlocks(r) PROVE InMemo(p, n, b)
  BY <1>5, <1>7 DEF InMemo
<1> QED BY <1>6, <1>7 DEF p, n

\* The blocks of a list.
LEMMA ExtentFacts ==
  ASSUME NEW F, F \subseteq FreeBlock, NEW b \in Nat
  PROVE  b \in UNION {Extent(f) : f \in F} <=> InList(F, b)
<1>1. \A f \in F : b \in Extent(f) <=> f.recNo <= b /\ b < End(f)
  BY DEF Extent, End, FreeBlock
<1> QED BY <1>1 DEF InList

\* Wasted are the blocks in front of the data's end that are in no memo and
\* not in the list.
LEMMA WastedFacts ==
  ASSUME DataInv, NEW d, d.next \in Nat \ {0}, d.free \subseteq FreeBlock
  PROVE  /\ Wasted(d) \in SUBSET (1 .. d.next - 1)
         /\ \A b \in 1 .. d.next - 1 :
               b \in Wasted(d) <=>
                 ~InList(d.free, b) /\ ~\E r \in 1..NumRecs : InMemo(field[r], text[r], b)
<1>1. ASSUME NEW b \in 1 .. d.next - 1
      PROVE  b \in Wasted(d) <=>
                 ~InList(d.free, b) /\ ~\E r \in 1..NumRecs : InMemo(field[r], text[r], b)
  <2> DEFINE X == UNION {Extent(f) : f \in d.free}
             Y == UNION {MemoBlocks(r) : r \in 1..NumRecs}
  <2>1. b \in Nat
    OBVIOUS
  <2>2. (b \in X) <=> InList(d.free, b)
    BY <2>1, ExtentFacts
  <2>3. (b \in Y) <=> \E r \in 1..NumRecs : b \in MemoBlocks(r)
    OBVIOUS
  <2>4. \A r \in 1..NumRecs : b \in MemoBlocks(r) <=> InMemo(field[r], text[r], b)
    BY <2>1, MemoBlocksFacts
  <2>5. Wasted(d) = ((1 .. d.next - 1) \ (X \cup Y))
    BY DEF Wasted
  <2> HIDE DEF X, Y
  <2>6. (b \in Wasted(d)) <=> (b \notin X /\ b \notin Y)
    BY <2>5
  <2> QED BY <2>2, <2>3, <2>4, <2>6
<1>2. Wasted(d) \in SUBSET (1 .. d.next - 1)
  BY DEF Wasted
<1> QED BY <1>1, <1>2

\* The file with the list that TestMemos works on.
LEMMA RecoverFacts ==
  ASSUME DataInv, NEW d, d \in Dbt, d.file = dbt.file, d.next = List(dbt).next, d.free = List(dbt).free
  PROVE  DataIn(Recover(d), field, text, FALSE) /\ Recover(d).flags = {"INITFREE"}
<1>1. /\ FileInv(dbt) /\ DataIn(dbt, field, text, lost)
      /\ FreeList(d.free, d.next) /\ d.next \in Nat \ {0} /\ d.next <= Len(d.file) + 1
      /\ Len(d.file) \in Nat /\ d.file \in Seq(Block) /\ d.free \subseteq FreeBlock
      /\ \A b \in 1..(d.next - 1) : NoList(d.file[b])
  BY ListFacts DEF DataInv, DataIn, FreeList
<1> DEFINE B == Wasted(d)
           S == Runs(B)
<1>2. /\ B \in SUBSET (1 .. d.next - 1)
      /\ \A b \in 1 .. d.next - 1 :
            b \in B <=> ~InList(d.free, b) /\ ~\E r \in 1..NumRecs : InMemo(field[r], text[r], b)
  BY <1>1, WastedFacts
<1> HIDE DEF B
<1>3. /\ S \subseteq FreeBlock /\ IsFiniteSet(S)
      /\ \A f \in S : \A b \in Nat : InMemo(f.recNo, f.recCnt, b) => b \in B
      /\ \A b \in B : InBlocks(S, b)
      /\ \A f, h \in S : \A b \in Nat :
            InMemo(f.recNo, f.recCnt, b) /\ InMemo(h.recNo, h.recCnt, b) => f = h
  <2>1. d.next - 1 \in Nat
    BY <1>1
  <2> QED BY <1>2, <2>1, RunsFacts
<1> HIDE DEF S
<1>4. Addable(d, S)
  <2>1. ASSUME NEW f \in S PROVE End(f) <= d.next
    <3>1. f.recNo \in Nat \ {0} /\ f.recCnt \in Nat \ {0} /\ End(f) = f.recNo + f.recCnt
      BY <1>3 DEF FreeBlock, End
    <3>2. f.recNo + f.recCnt - 1 \in Nat /\ InMemo(f.recNo, f.recCnt, f.recNo + f.recCnt - 1)
      BY <3>1 DEF InMemo
    <3>3. f.recNo + f.recCnt - 1 \in 1 .. d.next - 1
      BY <1>2, <1>3, <3>2
    <3> QED BY <1>1, <3>1, <3>3
  <2>2. \A f \in S : \A b \in Nat : InMemo(f.recNo, f.recCnt, b) => ~InList(d.free, b)
    BY <1>2, <1>3
  <2> QED BY <1>3, <2>1, <2>2 DEF Addable
<1>5. PICK g : /\ g = [s \in SUBSET S |-> AddFrom(d, g, s)]
               /\ FoldSet(LAMBDA f, x : AddToFree(x, f), d, S) = g[S]
  BY <1>3, FoldIs
<1> DEFINE x == g[S]
           e == Recover(d)
<1>6. Added(d, S, x)
  BY <1>1, <1>4, <1>5, AddAll
<1>7. e = [x EXCEPT !.hdr = x.next, !.file = SetLength(x.file, x.next - 1), !.flags = {"INITFREE"}]
  BY <1>5 DEF Recover, S, B
<1> HIDE DEF x, e
<1>8. /\ x \in Dbt /\ x.file = d.file /\ FreeList(x.free, x.next) /\ x.next <= d.next
      /\ x.next \in Nat \ {0} /\ x.free \subseteq FreeBlock
      /\ \A b \in Nat : b < d.next =>
            ((b >= x.next \/ InList(x.free, b)) <=> (InList(d.free, b) \/ InBlocks(S, b)))
  BY <1>6 DEF Added, FreeList
<1> DEFINE file == SetLength(x.file, x.next - 1)
<1>9. file \in Seq(Block) /\ Len(file) = x.next - 1 /\ \A b \in 1..(x.next - 1) : file[b] = d.file[b]
  <2>1. x.next - 1 \in Nat /\ x.next - 1 <= Len(x.file) /\ x.file \in Seq(Block)
    BY <1>1, <1>8
  <2> QED BY SMTT(40), <1>8, <2>1, SetLengthFacts
<1>10. e = [x EXCEPT !.hdr = x.next, !.file = file, !.flags = {"INITFREE"}]
  BY <1>7
<1> HIDE DEF file
<1>11. {"INITFREE"} \in SUBSET Flags
  BY DEF Flags
<1>12. /\ e \in Dbt /\ e.hdr = x.next /\ e.file = file /\ e.next = x.next /\ e.free = x.free
       /\ e.flags = {"INITFREE"}
  BY <1>8, <1>9, <1>10, <1>11 DEF Dbt
<1>13. FileInv(e)
  <2>1. \A b \in 1..Len(e.file) : NoList(e.file[b])
    BY <1>1, <1>8, <1>9, <1>12
  <2>2. e.hdr = Len(e.file) + 1
    BY <1>8, <1>9, <1>12
  <2> QED BY <1>8, <1>12, <2>1, <2>2 DEF FileInv
<1>14. List(e).next = x.next /\ List(e).free = x.free
  BY <1>12, <1>13, ListFacts
<1>15. /\ field \in Seq(Nat) /\ text \in Seq(Sizes) /\ Len(text) = Len(field) /\ NumRecs = Len(field)
       /\ \A r \in 1..NumRecs : /\ field[r] \in Nat /\ text[r] \in Nat
                                /\ MemoAt(dbt, r, field[r], text[r])
  BY <1>1, Lengths DEF DataIn, MemosIn, NumRecs
<1>16. ASSUME NEW r \in 1..NumRecs PROVE MemoAt(e, r, field[r], text[r])
  <2> DEFINE p == field[r]
             n == text[r]
  <2>1. /\ p \in Nat /\ n \in Nat /\ p + n <= d.next /\ (p = 0 <=> n = 0)
        /\ \A i \in 1..n : d.file[p + i - 1] = [owner |-> r, part |-> i, of |-> n]
        /\ \A b \in Nat : InMemo(p, n, b) => ~InList(d.free, b)
    BY <1>15 DEF MemoAt
  <2>2. \A b \in Nat : InMemo(p, n, b) => b \in 1 .. d.next - 1
    BY <1>1, <2>1 DEF InMemo
  <2>3. \A b \in Nat : InMemo(p, n, b) => b \notin B
    BY <1>2, <2>2
  <2> HIDE DEF p, n
  <2>4. \A b \in Nat : InMemo(p, n, b) => ~InBlocks(S, b)
    BY <1>3, <2>3 DEF InBlocks
  <2>5. \A b \in Nat : InMemo(p, n, b) => ~(b >= x.next) /\ ~InList(x.free, b)
    <3>1. \A b \in Nat : InMemo(p, n, b) => b < d.next
      BY <1>1, <2>2
    <3> QED BY ONLY <1>8, <2>1, <2>4, <3>1
  <2>6. \A i \in 1..n : p + i - 1 \in Nat /\ InMemo(p, n, p + i - 1)
    BY <2>1 DEF InMemo
  <2>7. \A i \in 1..n : p + i - 1 \in 1..(x.next - 1)
    <3>1. p # 0 \/ n = 0
      BY <2>1
    <3> QED BY <1>8, <2>1, <2>5, <2>6, <3>1
  <2>8. p + n <= x.next
    <3>1. CASE n = 0
      BY <1>8, <2>1, <3>1
    <3>2. CASE n # 0
      BY SMTT(40), <1>8, <2>1, <2>7, <3>2
    <3> QED BY <3>1, <3>2
  <2>9. \A i \in 1..n : e.file[p + i - 1] = [owner |-> r, part |-> i, of |-> n]
    BY <1>9, <1>12, <2>1, <2>7
  <2>10. MemoAt(e, r, p, n)
    BY <1>14, <2>1, <2>5, <2>8, <2>9 DEF MemoAt
  <2> QED BY <2>10 DEF p, n
<1>17. MemosIn(e, field, text)
  BY <1>15, <1>16 DEF MemosIn
<1>18. Covered(e, field, text)
  <2> SUFFICES ASSUME NEW b \in 1..(x.next - 1), ~InList(x.free, b),
                      ~\E r \in 1..NumRecs : InMemo(field[r], text[r], b)
               PROVE  FALSE
    BY <1>14, <1>15 DEF Covered
  <2>1. b \in Nat /\ b < d.next /\ ~(b >= x.next) /\ b \in 1 .. d.next - 1
    BY <1>1, <1>8
  <2>2. ~InList(d.free, b) /\ ~InBlocks(S, b)
    BY <1>8, <2>1
  <2>3. b \in B
    BY <1>2, <2>1, <2>2
  <2> QED BY <1>3, <2>2, <2>3
<1>19. List(e).next <= MaxBlocks + 1 /\ e.next <= MaxBlocks + 2
  <2>1. d.next <= MaxBlocks + 1 /\ MaxBlocks \in Nat
    BY <1>1, MemoAssumption DEF DataIn
  <2> QED BY <1>1, <1>8, <1>12, <1>14, <2>1
<1>20. DataIn(e, field, text, FALSE)
  BY <1>13, <1>17, <1>18, <1>19 DEF DataIn
<1> QED BY <1>12, <1>20 DEF e

LEMMA TestMemosStep ==
  ASSUME MInv, TestMemos
  PROVE  MInv'
<1>1. DataInv /\ SelInv /\ BufInv /\ WinInv /\ NumRecs \in Nat
  BY Lengths DEF MInv
<1> DEFINE d == IF "INITFREE" \in dbt.flags THEN dbt
                ELSE [dbt EXCEPT !.next = Loaded(dbt).next, !.free = Loaded(dbt).free]
<1>2. /\ editable /\ dbt' = Recover(d) /\ lost' = FALSE
      /\ UNCHANGED <<field, editable, sel, buf, pend, dlg, text>> /\ NumRecs' = NumRecs
  BY DEF TestMemos, NumRecs
<1>3. FileInv(dbt) /\ dbt \in Dbt
  BY <1>1 DEF DataInv, DataIn, FileInv
<1>4. d \in Dbt /\ d.file = dbt.file /\ d.next = List(dbt).next /\ d.free = List(dbt).free
  <2>1. CASE "INITFREE" \in dbt.flags
    BY <1>3, <2>1, ListFacts
  <2>2. CASE "INITFREE" \notin dbt.flags
    <3> DEFINE nx == Loaded(dbt).next
               fr == Loaded(dbt).free
    <3>1. nx \in Nat /\ fr \in SUBSET FreeBlock /\ nx = List(dbt).next /\ fr = List(dbt).free
      BY <1>3, <2>2, ListFacts DEF FreeList
    <3>2. d = [dbt EXCEPT !.next = nx, !.free = fr]
      BY <2>2
    <3> HIDE DEF nx, fr, d
    <3> QED BY <1>3, <3>1, <3>2 DEF Dbt
  <2> QED BY <2>1, <2>2
<1> HIDE DEF d
<1>5. DataIn(dbt', field, text, FALSE) /\ dbt'.flags = {"INITFREE"}
  BY <1>1, <1>2, <1>4, RecoverFacts
<1>6. DataInv'
  BY <1>2, <1>5 DEF DataInv
<1>7. SelInv'
  BY <1>1, <1>2 DEF SelInv, IsAddingRec
<1>8. BufInv'
  BY <1>1, <1>2 DEF BufInv, Known, Entry
<1>9. WinInv'
  <2>1. dlg' \in [Dialogs -> {None} \cup MemoWin] /\ \A u \in Dialogs : dlg'[u] # None => dlg'[u] = dlg[u]
    BY <1>1, <1>2 DEF WinInv
  <2> QED BY <1>1, <1>2, <2>1, WinSame
<1> QED BY <1>6, <1>7, <1>8, <1>9 DEF MInv

-----------------------------------------------------------------------------
(* The invariant holds.                                                    *)

LEMMA NothingStep ==
  ASSUME MInv, UNCHANGED vars
  PROVE  MInv'
<1>1. DataInv'
  <2>1. dbt' = dbt /\ field' = field /\ text' = text /\ lost' = lost
    BY DEF vars
  <2> QED BY ONLY <2>1, DataInv DEF DataInv, MInv
<1>2. SelInv'
  BY DEF vars, MInv, SelInv, IsAddingRec, NumRecs
<1>3. BufInv'
  BY DEF vars, MInv, BufInv, Known, Entry
<1>4. WinInv'
  BY DEF vars, MInv, WinInv, Known, Entry, IsAddingRec, NumRecs
<1> QED BY <1>1, <1>2, <1>3, <1>4 DEF MInv

\* Every step keeps the invariant, as long as no edits are saved and no links
\* repaired under an open memo.
LEMMA NextStep ==
  ASSUME MInv, Allow = {}, [Next]_vars
  PROVE  MInv'
<1>1. ASSUME NEW r \in 0..MaxRecs, Select(r) PROVE MInv'
  BY <1>1, SelectStep
<1>2. ASSUME ClearEdited PROVE MInv'
  BY <1>2, ClearEditedStep
<1>3. ASSUME EditField PROVE MInv'
  BY <1>3, EditFieldStep
<1>4. ASSUME AddPoint PROVE MInv'
  BY <1>4, AddPointStep
<1>5. ASSUME ResetAttr PROVE MInv'
  BY <1>5, ResetAttrStep
<1>6. ASSUME NEW w \in Dialogs, NEW r \in 1..MaxRecs, OpenMemo(w, r) PROVE MInv'
  <2>1. r \in Nat \ {0}
    BY MemoAssumption
  <2> QED BY <1>6, <2>1, OpenMemoStep
<1>7. ASSUME NEW w \in Dialogs, CloseMemo(w) PROVE MInv'
  BY <1>7, CloseMemoStep
<1>8. ASSUME NEW w \in Dialogs, NEW n \in Sizes, SaveEditedMemo(w, n) PROVE MInv'
  BY <1>8, SaveEditedMemoStep
<1>9. ASSUME NEW r \in 1..MaxRecs, NEW n \in Sizes, FillOrReplace(r, n) PROVE MInv'
  BY <1>9, RewriteStep DEF FillOrReplace
<1>10. ASSUME NEW r \in 1..MaxRecs, NEW n \in Sizes, RepairLinks(r, n) PROVE MInv'
  BY <1>10, RewriteStep DEF RepairLinks
<1>11. ASSUME NEW n \in Sizes, CopyShpRec(n) PROVE MInv'
  BY <1>11, CopyShpRecStep
<1>12. ASSUME SetReadOnly PROVE MInv'
  BY <1>12, SetReadOnlyStep
<1>13. ASSUME SetEditable PROVE MInv'
  BY <1>13, SetEditableStep
<1>14. ASSUME TestMemos PROVE MInv'
  BY <1>14, TestMemosStep
<1>15. ASSUME Crash PROVE MInv'
  BY <1>15, CrashStep
<1>16. CASE UNCHANGED vars
  BY <1>16, NothingStep
<1> QED
  BY <1>1, <1>2, <1>3, <1>4, <1>5, <1>6, <1>7, <1>8, <1>9, <1>10, <1>11, <1>12, <1>13,
     <1>14, <1>15, <1>16 DEF Next

\* The invariant is inductive.
LEMMA Inductive == Allow = {} /\ Spec => []MInv
<1> SUFFICES ASSUME Allow = {} PROVE Spec => []MInv
  OBVIOUS
<1>1. Init => MInv
  BY InitStep
<1>2. MInv /\ [Next]_vars => MInv'
  BY NextStep
<1> QED BY <1>1, <1>2, PTL DEF Spec

-----------------------------------------------------------------------------
(* What the invariant says of the memos and the file.                      *)

\* Each memo is where its record says.
LEMMA EachMemo ==
  ASSUME DataInv, NEW r \in 1..NumRecs
  PROVE  /\ field[r] \in Nat /\ text[r] \in Nat /\ text[r] \in Sizes /\ r \in Nat
         /\ MemoAt(dbt, r, field[r], text[r]) /\ FileInv(dbt)
<1>1. /\ field[r] \in Nat /\ text[r] \in Sizes /\ Sizes \subseteq Nat
  BY Lengths
<1>2. FileInv(dbt) /\ MemosIn(dbt, field, text)
  BY DEF DataInv, DataIn
<1>3. MemoAt(dbt, r, field[r], text[r])
  BY <1>2 DEF MemosIn, NumRecs
<1>4. r \in Nat
  BY Lengths
<1> QED BY <1>1, <1>2, <1>3, <1>4

LEMMA IntactFact == DataInv => MemosIntact
<1> SUFFICES ASSUME DataInv, NEW r \in 1..NumRecs
             PROVE  Stored(r) = TextBlocks(r, text[r])
  BY DEF MemosIntact
<1>1. /\ field[r] \in Nat /\ text[r] \in Nat /\ r \in Nat
      /\ MemoAt(dbt, r, field[r], text[r]) /\ FileInv(dbt)
  BY EachMemo
<1> QED BY <1>1, GetTextFacts DEF Stored

\* Memos have no block in common, with each other or with the list.
LEMMA ConflictFact == DataInv => NoConflict
<1> SUFFICES ASSUME DataInv PROVE NoConflict
  OBVIOUS
<1>1. ASSUME NEW r \in 1..NumRecs, NEW b \in MemoBlocks(r)
      PROVE  b \in Nat /\ InMemo(field[r], text[r], b)
  <2>1. /\ field[r] \in Nat /\ text[r] \in Nat /\ r \in Nat
        /\ MemoAt(dbt, r, field[r], text[r]) /\ FileInv(dbt)
    BY EachMemo
  <2>2. Len(Stored(r)) = text[r]
    BY <2>1, GetTextFacts DEF Stored
  <2>3. PICK k \in 1..text[r] : b = field[r] + k - 1
    BY <1>1, <2>2 DEF MemoBlocks
  <2> QED BY <2>1, <2>3 DEF InMemo
<1>2. ASSUME NEW r \in 1..NumRecs, NEW s \in 1..NumRecs, r # s, NEW b \in MemoBlocks(r)
      PROVE  b \notin MemoBlocks(s)
  <2>1. b \in Nat /\ InMemo(field[r], text[r], b)
    BY <1>1
  <2>2. /\ field[r] \in Nat /\ text[r] \in Nat /\ MemoAt(dbt, r, field[r], text[r])
        /\ field[s] \in Nat /\ text[s] \in Nat /\ MemoAt(dbt, s, field[s], text[s])
    BY EachMemo
  <2>3. ~InMemo(field[s], text[s], b)
    BY <1>2, <2>1, <2>2, OtherMemo
  <2> QED BY <1>1, <2>3
<1>3. FileInv(dbt)
  BY DEF DataInv, DataIn
<1>4. Loaded(dbt).free \subseteq List(dbt).free /\ Loaded(dbt).free \subseteq FreeBlock
  <2>1. CASE "INITFREE" \notin dbt.flags
    BY <1>3, <2>1, ListFacts DEF FreeList
  <2>2. CASE "INITFREE" \in dbt.flags
    <3>1. dbt.hdr = Len(dbt.file) + 1 /\ Len(dbt.file) \in Nat
      BY <1>3, ListFacts DEF FileInv
    <3>2. \A b \in 1..Len(dbt.file) : IsList(dbt.file[b]) => dbt.file[b].list = {}
      BY <1>3, <2>2 DEF FileInv, NoList
    <3> DEFINE list == IF dbt.hdr > 1 /\ IsList(dbt.file[dbt.hdr - 1])
                       THEN dbt.file[dbt.hdr - 1].list ELSE {}
    <3>3. list = {}
      BY <3>1, <3>2
    <3>4. Loaded(dbt).free \in {{}, list}
      BY DEF Loaded
    <3> QED BY <3>3, <3>4
  <2> QED BY <2>1, <2>2
<1>5. ASSUME NEW r \in 1..NumRecs, NEW b \in MemoBlocks(r)
      PROVE  b \notin FreeBlocks
  <2>1. b \in Nat /\ InMemo(field[r], text[r], b)
    BY <1>1
  <2>2. MemoAt(dbt, r, field[r], text[r])
    BY EachMemo
  <2>3. ~InList(List(dbt).free, b)
    BY <2>1, <2>2 DEF MemoAt
  <2>4. ~InList(Loaded(dbt).free, b)
    BY <1>4, <2>3 DEF InList
  <2>5. (b \in UNION {Extent(f) : f \in Loaded(dbt).free}) <=> InList(Loaded(dbt).free, b)
    BY <1>4, <2>1, ExtentFacts
  <2> QED BY <2>4, <2>5 DEF FreeBlocks
<1> QED BY <1>2, <1>5 DEF NoConflict

LEMMA OrderedFact == DataInv => FreeListOrdered
<1> SUFFICES ASSUME DataInv PROVE FreeListOrdered
  OBVIOUS
<1>1. FileInv(dbt)
  BY DEF DataInv, DataIn
<1>2. FreeList(List(dbt).free, List(dbt).next)
  BY <1>1, ListFacts
<1>3. List(dbt).next > 0 /\ CheckFree(List(dbt).free, List(dbt).next)
  BY <1>2 DEF FreeList
<1>4. CASE "INITFREE" \in dbt.flags
  BY <1>1, <1>3, <1>4, ListFacts DEF FreeListOrdered
<1>5. CASE "INITFREE" \notin dbt.flags
  BY <1>1, <1>3, <1>5, ListFacts DEF FreeListOrdered
<1> QED BY <1>4, <1>5

LEMMA WastedFact == DataInv => NothingWasted
<1> SUFFICES ASSUME DataInv, ~lost PROVE NothingWasted
  BY DEF NothingWasted
<1> DEFINE d == IF "INITFREE" \in dbt.flags THEN dbt ELSE Loaded(dbt)
<1>1. FileInv(dbt) /\ Covered(dbt, field, text)
  BY DEF DataInv, DataIn
<1>2. d.next = List(dbt).next /\ d.free = List(dbt).free
  BY <1>1, ListFacts
<1>3. d.next \in Nat \ {0} /\ d.free \subseteq FreeBlock
  BY <1>1, <1>2, ListFacts DEF FreeList
<1> HIDE DEF d
<1>4. /\ Wasted(d) \in SUBSET (1 .. d.next - 1)
      /\ \A b \in 1 .. d.next - 1 :
            b \in Wasted(d) <=>
              ~InList(d.free, b) /\ ~\E r \in 1..NumRecs : InMemo(field[r], text[r], b)
  BY <1>3, WastedFacts
<1>5. \A b \in 1 .. d.next - 1 :
         InList(d.free, b) \/ \E r \in 1..NumRecs : InMemo(field[r], text[r], b)
  BY <1>1, <1>2 DEF Covered, NumRecs
<1>6. Wasted(d) = {}
  BY <1>4, <1>5
<1> QED BY <1>6 DEF NothingWasted, d

LEMMA HeaderFact == DataInv => HeaderMatchesLength
BY DEF DataInv, DataIn, FileInv, HeaderMatchesLength

LEMMA TypeFact == MInv => TypeOK
<1> SUFFICES ASSUME MInv PROVE TypeOK
  OBVIOUS
<1>1. /\ DataInv /\ FileInv(dbt) /\ dbt \in Dbt /\ MaxBlocks \in Nat
      /\ List(dbt).next <= MaxBlocks + 1 /\ dbt.next <= MaxBlocks + 2
  BY MemoAssumption DEF MInv, DataInv, DataIn, FileInv
<1>2. dbt.next \in 0 .. MaxBlocks + 2 /\ dbt.flags \subseteq {"INITFREE"}
  BY <1>1 DEF Dbt, FileInv
<1>3. dbt.hdr \in 1 .. MaxBlocks + 2
  <2>1. dbt.hdr = Len(dbt.file) + 1 /\ Len(dbt.file) \in Nat
    BY <1>1, ListFacts DEF FileInv
  <2>2. CASE "INITFREE" \in dbt.flags
    BY <1>1, <2>1, <2>2 DEF FileInv
  <2>3. CASE "INITFREE" \notin dbt.flags
    BY SMTT(40), <1>1, <2>1, <2>3, ListFacts
  <2> QED BY <2>2, <2>3
<1>4. dbt.free \subseteq FreeRec
  <2>1. CASE "INITFREE" \in dbt.flags
    <3>1. FreeList(dbt.free, dbt.next) /\ dbt.next <= MaxBlocks + 1
      BY <1>1, <2>1, ListFacts DEF FileInv
    <3>2. ASSUME NEW f \in dbt.free PROVE f \in FreeRec
      <4>1. f \in FreeBlock /\ f.recNo \in Nat /\ f.recCnt \in Nat /\ f.recNo > 0 /\ f.recCnt > 0
        BY <3>1 DEF FreeList, FreeBlock
      <4>2. f.recNo + f.recCnt < dbt.next /\ dbt.next \in Nat
        BY <3>1 DEF FreeList, CheckFree, End
      <4>3. f.recNo \in 1..MaxBlocks /\ f.recCnt \in 1..MaxBlocks
        BY <1>1, <3>1, <4>1, <4>2
      <4> QED BY <4>1, <4>3 DEF FreeBlock, FreeRec
    <3> QED BY <3>2
  <2>2. CASE "INITFREE" \notin dbt.flags
    BY <1>1, <2>2 DEF FileInv
  <2> QED BY <2>1, <2>2
<1>5. \A r \in 1..NumRecs : field[r] \in 0..MaxBlocks
  <2>1. ASSUME NEW r \in 1..NumRecs PROVE field[r] \in 0..MaxBlocks
    <3>1. /\ field[r] \in Nat /\ text[r] \in Nat /\ MemoAt(dbt, r, field[r], text[r])
          /\ List(dbt).next \in Nat
      BY <1>1, EachMemo, ListFacts
    <3>2. (field[r] = 0 <=> text[r] = 0) /\ field[r] + text[r] <= List(dbt).next
      BY <3>1 DEF MemoAt
    <3> QED BY <1>1, <3>1, <3>2
  <2> QED BY <2>1
<1>6. /\ NumRecs \in Nat /\ Len(text) = NumRecs /\ field \in Seq(Nat) /\ text \in Seq(Sizes)
      /\ \A r \in 1..(NumRecs + 1) : Entry(text, r) \in Sizes
  BY <1>1, Lengths
<1>7. field \in Seq(0..MaxBlocks)
  <2> DEFINE M == 0..MaxBlocks
  <2>1. Len(field) \in Nat /\ field \in [1..Len(field) -> Nat] /\ \A r \in 1..Len(field) : field[r] \in M
    BY <1>5, <1>6, LenProperties DEF NumRecs
  <2> HIDE DEF M
  <2>2. field \in [1..Len(field) -> M]
    BY <2>1
  <2>3. field \in UNION {[1..n -> M] : n \in Nat}
    BY <2>1, <2>2
  <2>4. field \in Seq(M)
    BY <2>1, <2>2, <2>3, SeqDef
  <2> QED BY <2>4 DEF M
<1>8. \A r \in 1..(NumRecs + 1) : Entry(field, r) \in 0..MaxBlocks
  <2>1. ASSUME NEW r \in 1..(NumRecs + 1) PROVE Entry(field, r) \in 0..MaxBlocks
    <3>1. CASE r = NumRecs + 1
      BY <1>1, <3>1 DEF Entry, NumRecs
    <3>2. CASE r # NumRecs + 1
      <4>1. r \in 1..NumRecs
        BY <1>6, <3>2
      <4> QED BY <1>5, <3>2, <4>1 DEF Entry, NumRecs
    <3> QED BY <3>1, <3>2
  <2> QED BY <2>1
<1>9. sel \in 0 .. NumRecs + 1
  BY DEF MInv, SelInv
<1>10. buf # None => editable /\ sel # 0 /\ buf \in 0..MaxBlocks
  BY <1>6, <1>8, <1>9 DEF MInv, BufInv
<1>11. pend # None => buf # None /\ pend \in Memo
  <2> SUFFICES ASSUME pend # None PROVE buf # None /\ pend \in Memo
    OBVIOUS
  <2>1. buf # None /\ pend \in Waiting /\ Known(sel, pend)
    BY DEF MInv, BufInv
  <2>2. sel \in 1..(NumRecs + 1)
    BY <1>6, <1>9, <1>10, <2>1
  <2>3. pend.recNo \in 0..MaxBlocks /\ pend.recCnt \in Sizes
    BY <1>6, <1>8, <2>1, <2>2 DEF Known
  <2> QED BY <2>1, <2>3 DEF Waiting, Memo
<1>12. IsAddingRec => buf # None
  BY DEF MInv, SelInv
<1> QED
  BY <1>2, <1>3, <1>4, <1>6, <1>7, <1>9, <1>10, <1>11, <1>12 DEF TypeOK

-----------------------------------------------------------------------------
(* The theorems.  In MCMemoStale Allow is not empty, and MemosIntact fails.  *)

\* The memo of every record reads back as it was saved, whatever PutText,
\* AppendCopy, AddToFree and AppendFree did for the other records, whatever
\* windows and edit buffers were open, and after a crash.
THEOREM MemosKept == Allow = {} /\ Spec => []MemosIntact
<1>1. MInv => MemosIntact
  BY IntactFact DEF MInv
<1> QED BY <1>1, Inductive, PTL

\* No block is in two memos, or in a memo and on the free list: TestMemos
\* never reports a conflict.
THEOREM BlocksOwnedOnce == Allow = {} /\ Spec => []NoConflict
<1>1. MInv => NoConflict
  BY ConflictFact DEF MInv
<1> QED BY <1>1, Inductive, PTL

\* The free list, in use or stored behind the data, passes CheckFree: AddToFree
\* keeps it sorted and joined, PutText when it takes a part of a free block.
THEOREM ListOrdered == Allow = {} /\ Spec => []FreeListOrdered
<1>1. MInv => FreeListOrdered
  BY OrderedFact DEF MInv
<1> QED BY <1>1, Inductive, PTL

\* No operation forgets a block, which would be neither in a memo nor on the
\* free list, unless a crash lost the list; TestMemos finds all those blocks.
THEOREM NoBlockForgotten == Allow = {} /\ Spec => []NothingWasted
<1>1. MInv => NothingWasted
  BY WastedFact DEF MInv
<1> QED BY <1>1, Inductive, PTL

\* The assertion of AppendFree: between operations the header counts the
\* blocks of the file, and m_uNextRec is that count.
THEOREM HeaderTrue == Allow = {} /\ Spec => []HeaderMatchesLength
<1>1. MInv => HeaderMatchesLength
  BY HeaderFact DEF MInv
<1> QED BY <1>1, Inductive, PTL

\* The file, the windows and the buffers keep their types and their bounds.
THEOREM TypeCorrect == Allow = {} /\ Spec => []TypeOK
<1>1. MInv => TypeOK
  BY TypeFact
<1> QED BY <1>1, Inductive, PTL
=============================================================================
