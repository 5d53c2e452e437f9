----------------------------- MODULE MemoEdit -----------------------------
(***************************************************************************)
(* Editing the memo field of a shapefile's records (src/WallsMap): the     *)
(* Selected Points window, whose edits of a record wait in a buffer until  *)
(* another record is selected (ShowShapeDlg.cpp), the memo editor and the  *)
(* image viewer, which stay open beside it (DbtEditDlg.cpp,                *)
(* ImageViewDlg.cpp), the table window, which writes records at once       *)
(* (DBGridDlg.cpp), and the layer (ShpLayer.cpp).  The memos themselves    *)
(* are kept by DbtFile.                                                    *)
(*                                                                         *)
(* A record has one memo field.  The text that the user gives a record is  *)
(* known by the record and by the number of blocks it fills, 0 for none.   *)
(* The record file is a mapped view, so a crash of the program loses       *)
(* nothing that was written to either file.                                *)
(***************************************************************************)
EXTENDS DbtFile, FiniteSetsExt

CONSTANTS
    MaxRecs,    \* bound: records of the shapefile
    MaxCnt,     \* bound: blocks of a text
    MaxBlocks,  \* bound: blocks of the memo file
    Dialogs,    \* the windows a memo can be open in
    None,       \* no memo, no edit buffer
    Allow       \* the situations of Situations that may arise

\* Situations in which a memo window or an edit buffer outlives the block
\* number it was given: the edits of a record are saved, or its links are
\* repaired, while the window or the buffer still holds the old one.
Situations == {"SaveUnderOpenMemo", "RepairUnderOpenMemo"}

ASSUME MemoAssumption ==
    /\ MaxRecs \in Nat /\ MaxCnt \in Nat /\ MaxBlocks \in Nat
    /\ Allow \subseteq Situations
    /\ None \notin Nat

VARIABLES
    dbt,        \* m_pdbfile->dbt, and the file
    field,      \* the memo field of each record in the DBF
    editable,   \* IsEditable()
    sel,        \* m_uSelRec: the record in the Selected Points window, or 0
    buf,        \* the memo field in m_pEditBuf, if that buffer is in use
    pend,       \* m_vMemo: the edited memo that waits with the buffer
    dlg,        \* m_memo of each open memo window
    text,       \* the blocks of the text last saved for each record
    lost        \* a list of free blocks was lost in a crash

vars == <<dbt, field, editable, sel, buf, pend, dlg, text, lost>>

Sizes == 0..MaxCnt
NumRecs == Len(field)
IsAddingRec == sel = NumRecs + 1

IsMemoOpen(r) == \E w \in Dialogs : dlg[w] # None /\ dlg[w].rec = r

\* The memo of record r as the program finds it in the file.
Stored(r) == GetText(dbt, field[r])
MemoOf(no) == [recNo |-> no, recCnt |-> Len(GetText(dbt, no))]

\* Write a text of n blocks in place of memo, then the header (FlushHdr).
Save(r, memo, n) ==
    LET p == PutText(dbt, [recNo |-> memo.recNo, recCnt |-> memo.recCnt], TextBlocks(r, n))
    IN  [d |-> FlushHdr(p.d), rec |-> p.rec]

Room(n) == Len(dbt.file) + n <= MaxBlocks

-----------------------------------------------------------------------------
(* The Selected Points window.                                             *)

\* FlushEdits: the edited memo first, then the record, new or changed.
FlushEdits ==
    LET s == IF pend = None THEN [d |-> dbt, rec |-> buf] ELSE Save(sel, pend, pend.cnt)
        n == IF pend = None THEN (IF IsAddingRec THEN 0 ELSE text[sel]) ELSE pend.cnt
    IN  /\ pend # None => Room(pend.cnt)
        /\ "SaveUnderOpenMemo" \in Allow \/ pend = None \/ ~IsMemoOpen(sel)
        /\ dbt' = s.d
        /\ field' = IF IsAddingRec THEN Append(field, s.rec) ELSE [field EXCEPT ![sel] = s.rec]
        /\ text' = IF IsAddingRec THEN Append(text, n) ELSE [text EXCEPT ![sel] = n]

\* Another record is selected, or none: the edits of the last one are saved.
Select(r) ==
    /\ r \in 0..NumRecs /\ r # sel
    /\ IF buf = None THEN UNCHANGED <<dbt, field, text>> ELSE FlushEdits
    /\ sel' = r /\ buf' = None /\ pend' = None
    /\ UNCHANGED <<editable, dlg, lost>>

\* OnClearEdited: the edits are saved, and the record stays selected.
ClearEdited ==
    /\ buf # None /\ ~IsAddingRec
    /\ FlushEdits
    /\ buf' = None /\ pend' = None
    /\ UNCHANGED <<editable, sel, dlg, lost>>

\* Another field of the selected record is edited: LoadEditBuf.
EditField ==
    /\ editable /\ sel # 0 /\ buf = None
    /\ buf' = field[sel]
    /\ UNCHANGED <<dbt, field, editable, sel, pend, dlg, text, lost>>

AddPoint ==
    /\ editable /\ ~IsAddingRec /\ NumRecs < MaxRecs /\ buf = None
    /\ sel' = NumRecs + 1 /\ buf' = 0
    /\ UNCHANGED <<dbt, field, editable, pend, dlg, text, lost>>

\* OnBnClickedResetattr; for a new record CancelAddition, with its memo window.
ResetAttr ==
    /\ buf # None
    /\ buf' = None /\ pend' = None
    /\ IF IsAddingRec
       THEN /\ sel' = 0
            /\ dlg' = [w \in Dialogs |->
                          IF dlg[w] # None /\ dlg[w].rec = sel THEN None ELSE dlg[w]]
       ELSE UNCHANGED <<sel, dlg>>
    /\ UNCHANGED <<dbt, field, editable, text, lost>>

-----------------------------------------------------------------------------
(* The memo windows.                                                       *)

\* OpenMemo, in place of a memo the window may already show.  A memo of the
\* selected record comes with the block number of its pending edit.
OpenMemo(w, r) ==
    /\ r \in 1..NumRecs \/ (r = sel /\ IsAddingRec)
    /\ ~IsMemoOpen(r)
    /\ LET m == IF r = sel /\ pend # None THEN pend
                ELSE MemoOf(IF r = sel /\ buf # None THEN buf ELSE field[r])
       IN  dlg' = [dlg EXCEPT ![w] =
                      [rec |-> r, recNo |-> m.recNo, recCnt |-> m.recCnt,
                       empty |-> IF r = sel /\ pend # None THEN pend.cnt = 0
                                 ELSE m.recCnt = 0]]
    /\ UNCHANGED <<dbt, field, editable, sel, buf, pend, text, lost>>

CloseMemo(w) ==
    /\ dlg[w] # None
    /\ dlg' = [dlg EXCEPT ![w] = None]
    /\ UNCHANGED <<dbt, field, editable, sel, buf, pend, text, lost>>

\* Mutant of UpdateMemo: an edit that was waiting is replaced by the window's.
UpdateMemo_Replaces(w, n) ==
    /\ dlg[w].rec = sel
    /\ buf' = IF buf = None THEN field[sel] ELSE buf
    /\ pend' = [recNo |-> dlg[w].recNo, recCnt |-> n, cnt |-> n]
    /\ UNCHANGED <<dbt, field, text>>

\* UpdateMemo: the edit of a selected record waits in m_vMemo.
UpdateMemo(w, n) ==
    /\ dlg[w].rec = sel
    /\ buf' = IF buf = None THEN field[sel] ELSE buf
    /\ pend' = IF pend # None THEN [pend EXCEPT !.cnt = n]
               ELSE [recNo |-> dlg[w].recNo, recCnt |-> dlg[w].recCnt, cnt |-> n]
    /\ UNCHANGED <<dbt, field, text>>

\* The text is saved and the window closed: SaveEditedMemo, then Destroy.
SaveEditedMemo(w, n) ==
    /\ editable /\ dlg[w] # None
    /\ n > 0 \/ ~dlg[w].empty
    /\ \/ UpdateMemo(w, n)
       \/ /\ dlg[w].rec # sel /\ Room(n)
          /\ LET s == Save(dlg[w].rec, dlg[w], n)
             IN  /\ dbt' = s.d
                 /\ field' = [field EXCEPT ![dlg[w].rec] = s.rec]
          /\ text' = [text EXCEPT ![dlg[w].rec] = n]
          /\ UNCHANGED <<buf, pend>>
    /\ dlg' = [dlg EXCEPT ![w] = None]
    /\ UNCHANGED <<editable, sel, lost>>

-----------------------------------------------------------------------------
(* The table window.                                                       *)

Rewrite(r, n) ==
    /\ editable /\ Room(n)
    /\ n > 0 \/ field[r] # 0
    /\ LET s == Save(r, MemoOf(field[r]), n)
       IN  dbt' = s.d /\ field' = [field EXCEPT ![r] = s.rec]
    /\ text' = [text EXCEPT ![r] = n]
    /\ UNCHANGED <<editable, sel, buf, pend, dlg, lost>>

\* OnTableFill and OnTableRepl skip a record that is open elsewhere.
FillOrReplace(r, n) ==
    /\ r \in 1..NumRecs /\ r # sel /\ ~IsMemoOpen(r)
    /\ Rewrite(r, n)

\* BadLinkSearch does not.
RepairLinks(r, n) ==
    /\ r \in 1..NumRecs
    /\ \/ "RepairUnderOpenMemo" \in Allow
       \/ ~IsMemoOpen(r) /\ ~(r = sel /\ buf # None)
    /\ n > 0 /\ field[r] # 0
    /\ Rewrite(r, n)

\* CopyShpRec: a record with a text of n blocks comes from another layer.
CopyShpRec(n) ==
    /\ editable /\ ~IsAddingRec /\ NumRecs < MaxRecs /\ Room(n)
    /\ LET c == IF n = 0 THEN [d |-> dbt, rec |-> 0]
                ELSE AppendCopy(dbt, TextBlocks(NumRecs + 1, n))
       IN  dbt' = FlushHdr(c.d) /\ field' = Append(field, c.rec)
    /\ text' = Append(text, n)
    /\ UNCHANGED <<editable, sel, buf, pend, dlg, lost>>

-----------------------------------------------------------------------------
(* The layer.                                                              *)

\* SetEditable: the file is reopened for reading only, its free list stored,
\* or for writing.
SetReadOnly ==
    /\ editable /\ sel = 0
    /\ editable' = FALSE
    /\ dbt' = Reopened(AppendFree(dbt))
    /\ UNCHANGED <<field, sel, buf, pend, dlg, text, lost>>

SetEditable ==
    /\ ~editable
    /\ editable' = TRUE
    /\ dbt' = Reopened(dbt)
    /\ UNCHANGED <<field, sel, buf, pend, dlg, text, lost>>

\* The blocks TestMemos flags: those of the memos it finds in the file, and
\* the runs of blocks that are in no memo and not free.
MemoBlocks(r) == {field[r] + k - 1 : k \in 1..Len(Stored(r))}
FreeBlocks == UNION {Extent(f) : f \in Loaded(dbt).free}
Wasted(d) ==
    (1 .. d.next - 1) \
        ((UNION {Extent(f) : f \in d.free}) \cup (UNION {MemoBlocks(r) : r \in 1..NumRecs}))
Runs(B) ==
    {[recNo |-> b, recCnt |-> c] : b \in B, c \in 1..Cardinality(B)} \cap
    {f \in [recNo : B, recCnt : 1..Cardinality(B)] :
        /\ Extent(f) \subseteq B
        /\ f.recNo - 1 \notin B /\ End(f) \notin B}

Recover(d) ==
    LET e == FoldSet(LAMBDA f, x : AddToFree(x, f), d, Runs(Wasted(d)))
    IN  [e EXCEPT !.hdr = e.next, !.file = SetLength(@, e.next - 1), !.flags = {"INITFREE"}]

\* TestMemos, and the user has the wasted space recovered.
TestMemos ==
    LET d == IF "INITFREE" \in dbt.flags THEN dbt
             ELSE [dbt EXCEPT !.next = Loaded(dbt).next, !.free = Loaded(dbt).free]
    IN  /\ editable /\ Usable(d) /\ Wasted(d) # {}
        /\ dbt' = Recover(d)
        /\ lost' = FALSE
        /\ UNCHANGED <<field, editable, sel, buf, pend, dlg, text>>

\* The program ends without closing the layer, and is started again.
Crash ==
    /\ editable
    /\ editable' = FALSE /\ sel' = 0 /\ buf' = None /\ pend' = None
    /\ dlg' = [w \in Dialogs |-> None]
    /\ dbt' = [Reopened(dbt) EXCEPT !.next = 0, !.free = {}]
    /\ lost' = (lost \/ dbt.free # {})
    /\ UNCHANGED <<field, text>>

Init ==
    /\ dbt = [Created EXCEPT !.flags = {}]
    /\ field = << >> /\ text = << >>
    /\ editable = TRUE /\ sel = 0 /\ buf = None /\ pend = None
    /\ dlg = [w \in Dialogs |-> None]
    /\ lost = FALSE

Next ==
    \/ \E r \in 0..MaxRecs : Select(r)
    \/ ClearEdited \/ EditField \/ AddPoint \/ ResetAttr
    \/ \E w \in Dialogs :
          \/ \E r \in 1..MaxRecs : OpenMemo(w, r)
          \/ CloseMemo(w)
          \/ \E n \in Sizes : SaveEditedMemo(w, n)
    \/ \E r \in 1..MaxRecs, n \in Sizes : FillOrReplace(r, n) \/ RepairLinks(r, n)
    \/ \E n \in Sizes : CopyShpRec(n)
    \/ SetReadOnly \/ SetEditable \/ TestMemos \/ Crash

Spec == Init /\ [][Next]_vars

-----------------------------------------------------------------------------
(* Properties.                                                             *)

Memo == [recNo : 0..MaxBlocks, recCnt : Sizes, cnt : Sizes]
FreeRec == [recNo : 1..MaxBlocks, recCnt : 1..MaxBlocks]

\* The file, the windows and the buffers hold what their types allow: no free
\* block is empty, and an edited memo waits only beside an edit buffer.
TypeOK ==
    /\ dbt.next \in 0 .. MaxBlocks + 2 /\ dbt.hdr \in 1 .. MaxBlocks + 2
    /\ dbt.free \subseteq FreeRec /\ dbt.flags \subseteq {"INITFREE"}
    /\ field \in Seq(0..MaxBlocks) /\ text \in Seq(Sizes) /\ Len(text) = NumRecs
    /\ sel \in 0 .. NumRecs + 1
    /\ buf \in {None} \cup 0..MaxBlocks
    /\ pend \in {None} \cup Memo /\ (pend # None => buf # None)
    /\ buf # None \/ IsAddingRec => editable /\ sel # 0

\* The memo of every record reads back as it was last saved, whatever was
\* saved, moved or freed for the other records, and after a crash.
MemosIntact ==
    \A r \in 1..NumRecs : Stored(r) = TextBlocks(r, text[r])

\* TestMemos finds no conflict: no block belongs to two memos, or to a memo
\* and the free list ("You shouldn't be seeing this", ShpLayer.cpp:4423).
NoConflict ==
    /\ \A r, s \in 1..NumRecs : r # s => MemoBlocks(r) \cap MemoBlocks(s) = {}
    /\ \A r \in 1..NumRecs : MemoBlocks(r) \cap FreeBlocks = {}

\* CheckFree holds after every operation, for the list in use or the stored
\* one: it is sorted, neighbours are merged, and the last free block is not at
\* the end of the data, where the file should have been truncated instead.
FreeListOrdered ==
    LET l == IF "INITFREE" \in dbt.flags THEN dbt ELSE Loaded(dbt)
    IN  l.next > 0 /\ CheckFree(l.free, l.next)

\* Every block of the data is in a memo or on the free list, unless a list was
\* lost in a crash: no operation forgets a block.
NothingWasted ==
    lost \/ Wasted(IF "INITFREE" \in dbt.flags THEN dbt ELSE Loaded(dbt)) = {}

\* Between operations the header, the file's length and m_uNextRec agree (the
\* assertion of AppendFree, dbtfile.cpp:89).
HeaderMatchesLength ==
    /\ dbt.hdr = Len(dbt.file) + 1
    /\ "INITFREE" \in dbt.flags => dbt.next = dbt.hdr
=============================================================================
