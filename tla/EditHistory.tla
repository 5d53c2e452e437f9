---------------------------- MODULE EditHistory ----------------------------
(***************************************************************************)
(* The survey editor's document and its undo history: CEditHistory         *)
(* (src/Walls32/EditHistory.cpp), CLineDoc::Update and the saving of       *)
(* CLineDoc (src/Walls32/Linedoc.cpp).                                     *)
(*                                                                         *)
(* A document is a sequence of lines, a line a sequence of characters.     *)
(* Text that is deleted, inserted or pasted is a sequence of pieces        *)
(* separated by line ends, so <<s>> has no line end in it.  A range runs   *)
(* from offset c0 of line l0 to offset c1 of line l1; the code's INT_MAX   *)
(* (through the end of line l) is the offset 0 of line l + 1.              *)
(***************************************************************************)
EXTENDS Integers, Sequences, FiniteSets, SequencesExt

CONSTANTS
    Letters,    \* characters other than white space
    Tab,        \* the tab: white space, and never joined to typed text
    Garbage,    \* a byte of m_vecData that no one wrote
    NoText,     \* a text that is not in the history (pText == NULL)
    Typed,      \* bound: the characters that are typed
    InitDocs,   \* the files that may be opened
    Clips,      \* what the clipboard may hold
    MaxLin,     \* CLineDoc::MAXLINLEN
    MaxLocal,   \* HIST_MAX_LOCALALLOC: longer text is kept outside m_vecData
    MaxLines,   \* bound: lines of the document
    MaxHist,    \* bound: actions in the history
    Allow       \* the situations of Situations that may arise

\* Situations in which the code is known to lose track of the text: a character
\* overtyped at the end of a line, a selection of several lines replaced by
\* text that cannot be inserted, a paste that cuts off the text after it, and a
\* paste of an empty text at the caret.
TextLoss == {"OvertypeEnd", "InsertFails", "PasteClips", "EmptyPaste"}
\* And one that leaves a part of the text in the file: a save that fails half-way.
Situations == TextLoss \cup {"SaveFails"}

Chars == Letters \cup {Tab}
IsWS(c) == c = Tab
\* No line of a document is longer than MAXLINLEN, those read from a file
\* included (LineTruncateFail).
IsDoc(d) == d \in Seq(Seq(Chars)) /\ \A l \in DOMAIN d : Len(d[l]) <= MaxLin

ASSUME EditAssumption ==
    /\ Tab \notin Letters /\ Garbage \notin Chars
    /\ Typed \subseteq Chars
    /\ MaxLin \in Nat /\ MaxLocal \in Nat /\ MaxLines \in Nat /\ MaxHist \in Nat
    /\ Allow \subseteq Situations
    /\ \A d \in InitDocs : IsDoc(d)
    /\ \A t \in Clips : t \in Seq(Seq(Chars)) /\ t # << >>
    /\ NoText \notin Seq(Seq(Chars))

VARIABLES
    doc,    \* the lines, the active buffer included
    mod,    \* unmodified, modified (IsModified()), or "active": only the active
            \* buffer was changed (m_bActiveChange), of line, stored as stored
    mHist,  \* CLineDoc::m_Hist: items, m_nPos, m_nPosSaved, m_LastAction
    crc0,   \* the text as opened (the debug build's checksum of it)
    disk,   \* the file's lines as last written
    apart   \* since the file was last written, the action that was saved was
            \* typed on, or a save failed half-way (no variable of the code)

vars == <<doc, mod, mHist, crc0, disk, apart>>

-----------------------------------------------------------------------------
(* Ranges and text of a document.                                          *)

Take(s, n) == SubSeq(s, 1, n)
Drop(s, n) == SubSeq(s, n + 1, Len(s))

Rng(a, b, c, d) == [l0 |-> a, c0 |-> b, l1 |-> c, c1 |-> d]
OneLine(r) == r.l0 = r.l1
InDoc(d, r) == /\ r.l1 \in DOMAIN d /\ r.c0 <= Len(d[r.l0]) /\ r.c1 <= Len(d[r.l1])

\* The normalised, non-empty ranges of a document.
Selections(d) ==
    {r \in UNION {{Rng(l, c, m, e) : c \in 0..Len(d[l]), e \in 0..Len(d[m])} : l, m \in DOMAIN d} :
        r.l0 < r.l1 \/ (OneLine(r) /\ r.c0 < r.c1)}

\* The text in a range, and the document without it.
TextOf(d, r) ==
    IF OneLine(r) THEN <<SubSeq(d[r.l0], r.c0 + 1, r.c1)>>
    ELSE <<Drop(d[r.l0], r.c0)>> \o SubSeq(d, r.l0 + 1, r.l1 - 1) \o <<Take(d[r.l1], r.c1)>>

Cut(d, r) ==
    Take(d, r.l0 - 1) \o <<Take(d[r.l0], r.c0) \o Drop(d[r.l1], r.c1)>> \o Drop(d, r.l1)

\* The document with text t inserted at (l, c), cut to the line length.
Put(d, l, c, t) ==
    LET n == Len(t)
        new == IF n = 1 THEN <<Take(d[l], c) \o t[1] \o Drop(d[l], c)>>
               ELSE <<Take(d[l], c) \o t[1]>> \o SubSeq(t, 2, n - 1) \o <<t[n] \o Drop(d[l], c)>>
        fit == [i \in 1..n |-> IF Len(new[i]) > MaxLin THEN Take(new[i], MaxLin) ELSE new[i]]
    IN  Take(d, l - 1) \o fit \o Drop(d, l)

\* The range that the text inserted by Put occupies.
PutRange(l, c, t) ==
    LET n == Len(t)
        end == IF n = 1 THEN c + Len(t[1]) ELSE Len(t[n])
    IN  Rng(l, c, l + n - 1, IF end > MaxLin THEN MaxLin ELSE end)

Fits(d, l, c, t) ==
    LET n == Len(t)
    IN  IF n = 1 THEN Len(d[l]) + Len(t[1]) <= MaxLin
        ELSE c + Len(t[1]) <= MaxLin /\ Len(t[n]) + Len(d[l]) - c <= MaxLin

Overwrite(d, l, c, s) ==
    [d EXCEPT ![l] = Take(@, c) \o s \o (IF c + Len(s) < Len(@) THEN Drop(@, c + Len(s)) ELSE <<>>)]

\* GetRangeSize(): a line end counts two characters.
SizeOf(t) == FoldLeft(LAMBDA n, s : n + Len(s) + 2, -2, t)

TrimmedLen(s) == Max({0} \cup {i \in DOMAIN s : ~IsWS(s[i])})

\* OnSaveDocument() writes each line without its trailing white space.
Trimmed(d) == [i \in DOMAIN d |-> Take(d[i], TrimmedLen(d[i]))]

-----------------------------------------------------------------------------
(* The history.  Its operations take the history h and return the new one. *)
(* Each item has the checksum the debug build keeps with it, which here is *)
(* the text itself.                                                        *)

Current(h) == h.items[h.pos]
\* Item i takes the place of the current one; the current one gets checksum d.
Change(h, i) == [h EXCEPT !.items[h.pos] = i]
SaveChecksum(h, d) == Change(h, [Current(h) EXCEPT !.crc = d])

\* Mutants of ClearEnd: the position of the last save stays, or is compared
\* with the wrong end.
ClearEnd_Stays(h) == [h EXCEPT !.items = Take(@, h.pos)]
ClearEnd_OffByOne(h) ==
    [h EXCEPT !.items = Take(@, h.pos), !.saved = IF h.pos + 1 < @ THEN -1 ELSE @]

ClearEnd(h) ==
    [h EXCEPT !.items = Take(@, h.pos),
              !.saved = IF h.pos < Len(h.items) /\ h.pos < @ THEN -1 ELSE @]

AddAction(h, item) ==
    LET k == ClearEnd(h)
    IN  [k EXCEPT !.items = Append(@, item), !.pos = @ + 1, !.last = item.act]

ClearLastAction(h) == IF h.pos > 0 THEN ClearEnd([h EXCEPT !.pos = @ - 1]) ELSE h

\* A typed character joins the last action if it continues it.
JoinsAdd(h, l, c, ch) ==
    /\ ch # Tab /\ h.last = "AddChar" /\ h.pos > 0
    /\ Current(h).act = "AddChar" /\ Current(h).l = l
    /\ c = Current(h).c + Len(Current(h).s)

AddChar(h, l, c, ch) ==
    IF JoinsAdd(h, l, c, ch) THEN Change(ClearEnd(h), [Current(h) EXCEPT !.s = Append(@, ch)])
    ELSE AddAction(h, [act |-> "AddChar", l |-> l, c |-> c, s |-> <<ch>>, crc |-> <<>>])

\* A deleted character joins a run of backspaces, or a run of the Del key;
\* fwd is the code's negative count.
JoinsBack(i, c) == ~i.fwd /\ c = i.c - Len(i.s)
JoinsFwd(i, c) == (i.fwd \/ Len(i.s) = 1) /\ c = i.c
JoinsDel(h, l, c) ==
    /\ h.last = "DelChar" /\ h.pos > 0
    /\ Current(h).act = "DelChar" /\ Current(h).l = l
    /\ JoinsBack(Current(h), c) \/ JoinsFwd(Current(h), c)

DelChar(h, l, c, ch) ==
    IF JoinsDel(h, l, c)
    THEN LET i == Current(h)
         IN  Change(ClearEnd(h), [i EXCEPT !.fwd = ~JoinsBack(i, c), !.s = Append(@, ch)])
    ELSE AddAction(h, [act |-> "DelChar", l |-> l, c |-> c, fwd |-> FALSE,
                       s |-> <<ch>>, crc |-> <<>>])

\* Text saved with an action: longer text only while it is not in the document.
Part(r, n, t) == [r |-> r, n |-> n, t |-> t]
Long(n) == n > MaxLocal

DelTextRange(h, d, r, deleteOnly) ==
    LET t == TextOf(d, r)
        part == Part(r, SizeOf(t), t)
    IN  IF deleteOnly /\ OneLine(r) /\ r.c1 = r.c0 + 1 THEN DelChar(h, r.l0, r.c0, t[1][1])
        ELSE IF deleteOnly THEN AddAction(h, [act |-> "DelTextRange", del |-> part, crc |-> <<>>])
        ELSE AddAction(h, [act |-> "DelAddTextRange", del |-> part, crc |-> <<>>,
                           ins |-> Part([r EXCEPT !.c1 = r.c0], -1, NoText)])

AddPasteRange(h, d, r, deleteAlso) ==
    LET t == TextOf(d, r)
        n == SizeOf(t)
        part == Part(r, n, IF Long(n) THEN NoText ELSE t)
    IN  [(IF deleteAlso THEN Change(h, [Current(h) EXCEPT !.ins = part])
          ELSE AddAction(h, [act |-> "AddTextRange", ins |-> part, crc |-> <<>>]))
         EXCEPT !.last = "AddTextRange"]

AddTextRange(h, d, r, deleteAlso) ==
    IF ~deleteAlso /\ OneLine(r) /\ r.c1 = r.c0 + 1
    THEN AddChar(h, r.l0, r.c0, d[r.l0][r.c1])
    ELSE AddPasteRange(h, d, r, deleteAlso)

RepShortStr(h, l, c, old, new) ==
    AddAction(h, [act |-> "RepShortStr", l |-> l, c |-> c, old |-> old, new |-> new, crc |-> <<>>])

AddEOL(h, l, c, ws) ==
    AddAction(h, [act |-> "AddEOL", l |-> l, c |-> c, ws |-> ws, crc |-> <<>>])

-----------------------------------------------------------------------------
(* The modified state.                                                     *)

Unmodified == [is |-> "no", line |-> 0, stored |-> <<>>]
Modified == [Unmodified EXCEPT !.is = "yes"]
Pending == mod.is = "active"

\* SaveActiveBuffer(): the line counts as modified only if it differs.
Saved == IF ~Pending THEN mod ELSE IF doc[mod.line] = mod.stored THEN Unmodified ELSE Modified

\* An edit within line l (LoadActiveBuffer and MarkActiveBuffer), or one that
\* changes the lines of the document.
Marked(l) ==
    IF Pending /\ mod.line = l THEN mod
    ELSE IF Saved = Modified THEN Modified
    ELSE [is |-> "active", line |-> l, stored |-> doc[l]]
ModAfter(inLine, l) == IF inLine THEN Marked(l) ELSE Modified

-----------------------------------------------------------------------------
(* CLineDoc::Update() as the editor's keys and commands call it.           *)

\* An edit that joined the action at the position has changed it.
Extends(h) == mHist.pos > 0 /\ h.items[mHist.pos] # Current(mHist)

\* The end of Update(): the debug build's checksum goes to the last action.
Finish(h, d) ==
    /\ h.pos <= MaxHist
    /\ doc' = d /\ mHist' = SaveChecksum(h, d)
    /\ apart' = (apart \/ (mHist.pos = mHist.saved /\ Extends(h)))
    /\ UNCHANGED <<crc0, disk>>

Merges(r) == Len(Cut(doc, r)[r.l0]) <= MaxLin
Carets == UNION {{Rng(l, c, l, c) : c \in 0..Len(doc[l])} : l \in DOMAIN doc}
Empty(r) == OneLine(r) /\ r.c0 = r.c1
\* What Update() may put text in place of: nothing (Carets) or a selection.
Replaceable == {r \in Selections(doc) : Merges(r)}

\* The document and the history once the selection, if any, is deleted.
Deleted(r) == IF Empty(r) THEN doc ELSE Cut(doc, r)
Logged(r) == IF Empty(r) THEN mHist ELSE DelTextRange(mHist, doc, r, FALSE)

DeleteSel(r) ==
    /\ Merges(r)
    /\ Finish(DelTextRange(mHist, doc, r, TRUE), Cut(doc, r))
    /\ mod' = ModAfter(OneLine(r), r.l0)

\* The lines at both ends of the selection do not fit on one: the action is
\* taken back, the actions that could be redone are gone.
DeleteFails(r, deleteOnly) ==
    /\ ~Merges(r)
    /\ mHist' = ClearLastAction(DelTextRange(mHist, doc, r, deleteOnly))
    /\ mod' = IF Pending /\ mod.line = r.l0 THEN mod ELSE Saved
    /\ UNCHANGED <<doc, crc0, disk, apart>>

\* Characters typed, or a string without line end put in by a command.
InsertText(r, s) ==
    /\ Fits(Deleted(r), r.l0, r.c0, <<s>>)
    /\ LET d == Put(Deleted(r), r.l0, r.c0, <<s>>)
       IN  Finish(AddTextRange(Logged(r), d, PutRange(r.l0, r.c0, <<s>>), ~Empty(r)), d)
    /\ mod' = ModAfter(OneLine(r), r.l0)

\* The selection is gone, but there is no room for the text.
InsertFails(r, s) ==
    /\ ~Empty(r) /\ ~Fits(Deleted(r), r.l0, r.c0, <<s>>)
    /\ OneLine(r) \/ "InsertFails" \in Allow
    /\ Finish(Logged(r), Deleted(r))
    /\ mod' = ModAfter(OneLine(r), r.l0)

Paste(r, t) ==
    /\ Empty(r) /\ t = <<<<>>>> => "EmptyPaste" \in Allow
    /\ Len(Deleted(r)) + Len(t) - 1 <= MaxLines
    /\ Fits(Deleted(r), r.l0, r.c0, t) \/ "PasteClips" \in Allow
    /\ LET d == Put(Deleted(r), r.l0, r.c0, t)
       IN  Finish(AddPasteRange(Logged(r), d, PutRange(r.l0, r.c0, t), ~Empty(r)), d)
    /\ mod' = Modified

\* The clipboard cannot be opened: the selection is gone all the same.
PasteFails(r) ==
    /\ ~Empty(r)
    /\ OneLine(r) \/ "InsertFails" \in Allow
    /\ Finish(Logged(r), Deleted(r))
    /\ mod' = ModAfter(OneLine(r), r.l0)

\* A line end put in at (l, c) of document d; white space before it is dropped.
EOLStart(d, l, c) == TrimmedLen(Take(d[l], c))
PutEOL(d, l, c) ==
    LET n == EOLStart(d, l, c)
    IN  Put(Cut(d, Rng(l, n, l, c)), l, n, <<<<>>, <<>>>>)

InsertEOL(r) ==
    LET d == Deleted(r)
        n == EOLStart(d, r.l0, r.c0)
        h == IF Empty(r) THEN mHist ELSE SaveChecksum(DelTextRange(mHist, doc, r, TRUE), d)
    IN  /\ Len(d) < MaxLines
        /\ Finish(AddEOL(h, r.l0, n, SubSeq(d[r.l0], n + 1, r.c0)), PutEOL(d, r.l0, r.c0))
        /\ mod' = Modified

\* A string that replaces as many characters (overtype mode).
Overtype(l, c, s) ==
    LET old == SubSeq(doc[l] \o [i \in 1..Len(s) |-> Garbage], c + 1, c + Len(s))
    IN  /\ c + Len(s) <= MaxLin
        /\ c + Len(s) <= Len(doc[l]) \/ "OvertypeEnd" \in Allow
        /\ Finish(RepShortStr(mHist, l, c, old, s), Overwrite(doc, l, c, s))
        /\ mod' = Marked(l)

-----------------------------------------------------------------------------
(* Undo and redo.                                                          *)

\* Inserting a saved text frees it if it is long; deleting a text saves it.
Restored(p) == IF p.t = NoText THEN <<<<Garbage>>>> ELSE p.t
\* Mutant of Freed: the block is not given back.
Freed_Kept(p) == p
Freed(p) == IF Long(p.n) THEN [p EXCEPT !.t = NoText] ELSE p
Taken(p) == [p EXCEPT !.t = TextOf(doc, p.r)]

\* replace_TextRange(): out is deleted, in is inserted in its place.
Replace(out, in) ==
    IF ~InDoc(doc, out.r) THEN <<<<Garbage>>>>
    ELSE IF in.n <= 0 THEN Cut(doc, out.r)
    ELSE Put(Cut(doc, out.r), out.r.l0, out.r.c0, Restored(in))

DelStart(i) == IF i.fwd THEN i.c ELSE i.c - Len(i.s) + 1
\* Mutant of DelText: characters deleted backwards come back in that order.
DelText_Unreversed(i) == i.s

DelText(i) == IF i.fwd THEN i.s ELSE Reverse(i.s)

\* The document and the item that IActionBase::Undo() leaves.
Undone(i) ==
    CASE i.act = "AddChar" -> <<Cut(doc, Rng(i.l, i.c, i.l, i.c + Len(i.s))), i>>
      [] i.act = "DelChar" -> <<Put(doc, i.l, DelStart(i), <<DelText(i)>>), i>>
      [] i.act = "DelTextRange" ->
            <<Put(doc, i.del.r.l0, i.del.r.c0, Restored(i.del)), [i EXCEPT !.del = Freed(@)]>>
      [] i.act = "AddTextRange" -> <<Cut(doc, i.ins.r), [i EXCEPT !.ins = Taken(@)]>>
      [] i.act = "DelAddTextRange" ->
            <<Replace(i.ins, i.del),
              [i EXCEPT !.del = Freed(@), !.ins = IF Long(@.n) THEN Taken(@) ELSE @]>>
      [] i.act = "RepShortStr" -> <<Overwrite(doc, i.l, i.c, i.old), i>>
      [] i.act = "AddEOL" ->
            <<Put(Cut(doc, Rng(i.l, i.c, i.l + 1, 0)), i.l, i.c, <<i.ws>>), i>>

\* The same for IActionBase::Redo().  To Update() an insertion of no characters
\* is that of a line end.
RedoneAsEOL(i) == i.act = "AddTextRange" /\ i.ins.n = 0
Redone(i) ==
    CASE i.act = "AddChar" -> <<Put(doc, i.l, i.c, <<i.s>>), i>>
      [] i.act = "DelChar" ->
            <<Cut(doc, Rng(i.l, DelStart(i), i.l, DelStart(i) + Len(i.s))), i>>
      [] i.act = "DelTextRange" -> <<Cut(doc, i.del.r), [i EXCEPT !.del = Taken(@)]>>
      [] i.act = "AddTextRange" ->
            <<IF RedoneAsEOL(i) THEN PutEOL(doc, i.ins.r.l0, i.ins.r.c0)
              ELSE Put(doc, i.ins.r.l0, i.ins.r.c0, Restored(i.ins)), [i EXCEPT !.ins = Freed(@)]>>
      [] i.act = "DelAddTextRange" ->
            <<Replace(i.del, i.ins),
              [i EXCEPT !.ins = Freed(@), !.del = IF Long(@.n) THEN Taken(@) ELSE @]>>
      [] i.act = "RepShortStr" -> <<Overwrite(doc, i.l, i.c, i.new), i>>
      [] i.act = "AddEOL" ->
            <<Put(Cut(doc, Rng(i.l, i.c, i.l, i.c + Len(i.ws))), i.l, i.c, <<<<>>, <<>>>>), i>>

\* The line an action stays within, or 0 if it joins or splits lines.
LineOf(i) ==
    CASE i.act \in {"AddChar", "DelChar", "RepShortStr"} -> i.l
      [] i.act = "DelTextRange" -> IF OneLine(i.del.r) THEN i.del.r.l0 ELSE 0
      [] i.act = "AddTextRange" -> IF OneLine(i.ins.r) THEN i.ins.r.l0 ELSE 0
      [] i.act = "DelAddTextRange" ->
            IF OneLine(i.del.r) /\ OneLine(i.ins.r) THEN i.del.r.l0 ELSE 0
      [] i.act = "AddEOL" -> 0
LineRedone(i) == IF RedoneAsEOL(i) THEN 0 ELSE LineOf(i)

\* Mutant of MoveTo: the position is compared before it moves.
MoveTo_TestsFirst(pos, k, result, line, last) ==
    /\ doc' = result[1]
    /\ mHist' = [mHist EXCEPT !.items[k] = result[2], !.pos = pos, !.last = last]
    /\ mod' = IF mHist.pos = mHist.saved THEN Unmodified ELSE ModAfter(line # 0, line)
    /\ UNCHANGED <<crc0, disk, apart>>

\* Item k is replaced by what doing or undoing it left; at the position of the
\* last save the document becomes unmodified.
MoveTo(pos, k, result, line, last) ==
    /\ doc' = result[1]
    /\ mHist' = [mHist EXCEPT !.items[k] = result[2], !.pos = pos, !.last = last]
    /\ mod' = IF pos = mHist.saved THEN Unmodified ELSE ModAfter(line # 0, line)
    /\ UNCHANGED <<crc0, disk, apart>>

Undo ==
    LET i == Current(mHist)
    IN  /\ mHist.pos > 0
        /\ MoveTo(mHist.pos - 1, mHist.pos, Undone(i), LineOf(i), "Undo")

Redo ==
    LET i == mHist.items[mHist.pos + 1]
    IN  /\ mHist.pos < Len(mHist.items)
        /\ MoveTo(mHist.pos + 1, mHist.pos + 1, Redone(i), LineRedone(i), "Redo")

-----------------------------------------------------------------------------
(* Saving.                                                                 *)

\* The caret moves to another line, or the user tries to close.
SaveActiveBuffer ==
    /\ Pending /\ mod' = Saved
    /\ UNCHANGED <<doc, mHist, crc0, disk, apart>>

\* OnSaveDocument() writes nothing if the line turns out to be unchanged.
Save ==
    /\ mod # Unmodified /\ mod' = Unmodified
    /\ IF Saved = Unmodified THEN UNCHANGED <<mHist, disk, apart>>
       ELSE disk' = Trimmed(doc) /\ mHist' = [mHist EXCEPT !.saved = mHist.pos] /\ apart' = FALSE
    /\ UNCHANGED <<doc, crc0>>

\* The file could not be opened, or is left with its first k lines.
SaveFails ==
    /\ Saved = Modified /\ mod' = Modified
    /\ \/ UNCHANGED <<disk, apart>>
       \/ /\ "SaveFails" \in Allow /\ apart' = TRUE
          /\ \E k \in 0..Len(doc) - 1 : disk' = Take(Trimmed(doc), k)
    /\ UNCHANGED <<doc, mHist, crc0>>

-----------------------------------------------------------------------------

NewHistory == [items |-> <<>>, pos |-> 0, saved |-> 0, last |-> "Undo"]

Init ==
    /\ doc \in InitDocs
    /\ crc0 = doc /\ disk = Trimmed(doc)
    /\ mod = Unmodified /\ mHist = NewHistory /\ apart = FALSE

\* At the bound of the history only an edit that joins the last action fits.
Room == mHist.pos < MaxHist
JoinsOnly == ~Room => mHist.last \in {"AddChar", "DelChar"}

\* What is typed, and what commands insert or put over other text: one
\* character at least.
Strings == ({<<c>> : c \in Typed} \cup {t[1] : t \in {u \in Clips : Len(u) = 1}}) \ {<<>>}

Edit ==
    \/ \E r \in Selections(doc) : DeleteFails(r, TRUE) \/ DeleteFails(r, FALSE)
    \/ JoinsOnly /\ \E r \in Selections(doc) : DeleteSel(r)
    \/ JoinsOnly /\ \E r \in Carets, s \in Strings : InsertText(r, s)
    \/ Room /\ \E r \in Replaceable :
          \/ \E s \in Strings : InsertText(r, s) \/ InsertFails(r, s)
          \/ PasteFails(r)
    \/ Room /\ \E r \in Carets \cup Replaceable :
          \/ \E t \in Clips : Paste(r, t)
          \/ InsertEOL(r)
    \/ Room /\ \E l \in DOMAIN doc, s \in Strings : \E c \in 0..Len(doc[l]) : Overtype(l, c, s)

Next == Edit \/ Undo \/ Redo \/ SaveActiveBuffer \/ Save \/ SaveFails

Spec == Init /\ [][Next]_vars

-----------------------------------------------------------------------------

TextAt(p) == IF p = 0 THEN crc0 ELSE mHist.items[p].crc

\* The state is well formed: the positions lie in the history, the texts
\* within the line length, and no unwritten byte has come into the document.
TypeOK ==
    /\ IsDoc(doc)
    /\ mHist.pos \in 0..Len(mHist.items)
    /\ mHist.saved \in -1..Len(mHist.items)
    /\ Pending => mod.line \in DOMAIN doc

\* CompareChecksum(): however an action was joined from several edits, and
\* however often it was undone and redone, the text at each position of the
\* history is the text there was when the action ended.
UndoRestores == doc = TextAt(mHist.pos)

\* m_nPosSaved is the position of the text in the file, or -1 when that
\* position no longer exists (EditHistory.cpp:97), from each save until the
\* action at that position is typed on.
SavedPosition == mHist.saved # -1 /\ ~apart => Trimmed(TextAt(mHist.saved)) = disk

\* A document without its mark of modification, which is closed without a
\* question, is the one in the file (SetUnModified() in Undo and Redo), from
\* each save until the action that was saved is typed on.
UnmodifiedIsSaved == mod = Unmodified /\ ~apart => Trimmed(doc) = disk

\* OnUpdateFileSave() (Linedoc.cpp:1366): "For a changed file, flag the
\* window/icon title with an asterisk."  The flag is the mark of modification.
ChangedIsFlagged == Trimmed(doc) # disk => mod # Unmodified

\* A text longer than HIST_MAX_LOCALALLOC is in the document or in the
\* history's own memory, never in both (a leak, or a block freed twice) and
\* never in neither (the text is lost).
HeldOnce(p, inDoc) == Long(p.n) => (p.t = NoText) = inDoc
LongTextHeldOnce ==
    \A k \in DOMAIN mHist.items :
        LET i == mHist.items[k]
        IN  /\ i.act \in {"DelTextRange", "DelAddTextRange"} => HeldOnce(i.del, k > mHist.pos)
            /\ i.act \in {"AddTextRange", "DelAddTextRange"} => HeldOnce(i.ins, k <= mHist.pos)

=============================================================================
