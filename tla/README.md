# Walls: models, checks and proofs of its storage and editing core

Walls is a suite of Windows programs for cave survey data.  Underneath the
user interface it has a storage layer of its own: a write-back buffer cache, a
dBase table library, a B-tree index library and an image file library.  All
projects, compiled surveys and image files pass through it, and most of what
can go wrong there needs a long history of calls, a failed write or a crash at
the wrong moment.  Above it are two editors in which a long history of small
steps must come out right: the survey text editor with its undo history, and
the editing of memo fields in WallsMap.  This directory holds TLA+ models of
these, TLC configurations that check them on small instances, and TLAPS proofs.

    tlc -workers 2 -config csh_files.cfg MCCshCache
    tlapm CshCacheProofs.tla

## The system

| Component | Source | State it keeps | Operations | Hard behaviour |
|---|---|---|---|---|
| Buffer cache | `trx_csh/cshalloc.c`, `inc/A__csh.h` | buffer headers in a ring of use and in hash chains; list of client files; per file `Errno`, `HashBase` | get a record, mark, flush, lock, purge, attach and detach files | relinking under eviction, one file's eviction writing another's data, failed writes, locked buffers |
| DBF tables | `dbf_file/*.c`, `inc/a__dbf.h` | header in memory and on disk, change flags, length of the last block, one record per user | open, go, put, append, flush, close | order of header and block writes, the `Incomplete` flag, failed extension, shared files |
| TRX B-tree index | `trx_file/*.c` | tree nodes in cached blocks, free list, header | insert, delete, search, build | several nodes changed one by one, free list, prewriting |
| NTI images | `nti_file/*.cpp` | compressed blocks through a transfer function of their own | append a block under a lock, flush it, read | locks, errors of compressed transfers |
| File access | `trx_csh/dos_io.c` | handles | transfer, lock | partial failure, byte-range locks between processes |
| Text editor and undo | `Walls32/EditHistory.cpp`, `Linedoc.cpp` | actions, position, saved position | edit, undo, redo, save | saved position against cut-off history |
| Project tree | `Walls32/prjhier.cpp`, `hierlb.cpp` | tree of surveys | move, attach, detach | inherited properties |
| Compiler, network adjustment | `Walls32/compile.cpp`, `wall-srv.cpp`, `wallnet/` | tables of vectors and networks (DBF) | compile, adjust | numerical |
| Memo file | `WallsMap/dbtfile.cpp` | blocks, header, free list in memory or at the end of the file, flags | put, free, append, flush, store and load the list | merging free blocks, truncation, crash without the list |
| Memo editing | `WallsMap/ShowShapeDlg.cpp`, `DbtEditDlg.cpp`, `ImageViewDlg.cpp`, `DBGridDlg.cpp`, `ShpLayer.cpp` | edit buffer and waiting memo edits of the selected record, the memo of each open window | select, edit, reset, open and save a memo, fill and replace in the table, copy, repair links, recover space | block numbers that several windows hold at the same time |
| Worker threads | `WallsMap/ThreadJob.cpp`, `ExportJob.cpp`, `ImageViewDlg.cpp` | thread pointer, abort and active flags | begin, abort, wait | races at start and end |
| GPS download | `Walls32/wallgps/` | serial protocol state | request, acknowledge | timeouts |

The three file libraries call the cache (`_csf_GetRecord`, `_csh_MarkHdr`,
`_csf_Flush`, ...) and several files share one cache; the cache calls back into
a file's `XfrFcn` when it has one, and `dos_Transfer` otherwise.  The programs
call the file libraries.  `Errno` in `CSH_FILE` is shared state between the cache
and the file libraries: both set it, and the file libraries reset it.

What must hold, by component (the hazards in PROJECT.json name the lines):

* cache: a record is found if it is buffered and never buffered twice; what was
  written last is what is read, until an error of that file says otherwise;
  handles stay valid for as long as the B-tree code uses them; a flush that
  returns 0 has written everything; every call returns;
* tables: what was committed is read back; after a crash the header on disk is
  covered by the data, and the `Incomplete` flag is right; flush and close report
  failures; a refused append changes nothing;
* B-tree: ordered, balanced, leaf links symmetric, no node both free and used;
  each user's position stays with its key; a full disk stops an insertion before
  it changes anything;
* undo: undo and redo give back the exact text of each position; the saved
  position is that of the file; a text without the modified mark is the saved one;
* memo file: every memo reads back as it was last saved; no block has two owners
  and none is forgotten; header, length and free list agree.

## Modules

    RecordStore        a store of numbered records per file: the cache's promise
      ^ implemented by
    CshCache           cshalloc.c, one action per loop iteration or call
      MCCshCache       instances for TLC
      CshCacheProofs        TypeCorrect, ChainsCorrect
      CshStoreProofs        LocksRespected, CleanBuffersOnDisk
      CshRefinementProofs   CacheIsAStore, FlushesDurable
      CshRingProofs         RingCorrect, HandlesStayValid
    DbfCache           a cached, unshared DBF file, its flush modes and crashes
      MCDbfCache       instances for TLC
      DbfCacheProofs        FileTyped, RecordsKept, CopyCurrent, NoJunkCounted,
                            CrashDetected, AutoFlushed, FlushTrue
    KeyList            a list of keys with a position per user: the tree's promise
      ^ implemented by
    TrxTree            one tree of a TRX file: insertion, deletion, positions, nodes
      MCTrxTree        the view of its states for TLC
    EditHistory        the survey editor's document, history and saving
      MCEditHistory    instances for TLC
      EditHistoryProofs     TypeCorrect, UndoExact, SavedPositionKept, NoChangeLost,
                            LongTextOwned
    DbtFile            operators: the memo file and its free list
      ^ used by
    MemoEdit           the windows and the layer that edit memos, and crashes
      MCMemoEdit       instances for TLC
      MemoEditProofs        TypeCorrect, MemosKept, BlocksOwnedOnce, ListOrdered,
                            NoBlockForgotten, HeaderTrue

### RecordStore

`store[f][r]` is what a reader gets, `durable[f][r]` what the disk holds.  A
record changes only by the caller's request (`Put`, `Discard`), with one
exception: an I/O error sets `err[f]` (`Fail`), and unwritten records of *that*
file may then be lost, then or later.  Anything may become durable at any time.

### CshCache

The variables are the fields of the structures of `A__csh.h`, one function per
field of `CSH_HDR` (`prevMru`, `nextMru`, `prevHash`, `nextHash`, `hashIndex`,
`hashTable`, `file`, `recno`, `status`, `locks`; `data` is the buffer), `mru`
and `attached` for the cache (`attached` is `FstFile` followed through
`NextFile`), `hashBase` and `errno` for the files.  `disk` is the file
contents.  `call` is the running call with its local variables, and `last`,
`prior` and `span` stand for the caller: the handles it goes on using, and
how long it has held a lock.

| Code | Actions |
|---|---|
| `_csf_GetRecord` entry, search | `GetRecord`, `FindNext`, `FindHit`, `FindMiss` |
| collision: reuse the neighbour or take the LRU | `ReuseNeighbour`, `TakeLru` |
| `_csh_GetNextMru` | `NextMruSkip`, `NextMruFree`, `NextMruEvict` |
| insertion | `Link` (`LinkEmpty`, `LinkBefore`, `LinkLast`) |
| read or new buffer, failure | `FillRead`, `FillNew`, `FillFail` |
| `_csh_MarkHdr`, `_csh_FlushHdr`, `_csh_PurgeHdr`, lock, unlock | `Modify`/`MarkHdr`, `FlushRecord`, `Drop`/`PurgeHdr`, `LockHdr`, `UnLockHdr` |
| loops over all headers | `FlushStep`, `FlushEnd`, `PurgeStep`, `PurgeEnd` |
| attach, detach, `_csf_InsertFile` | `AttachCache`, `DetachCache`, `Reattach`, `InsertFile` |

The library is single-threaded: a call runs to completion before the caller's
next one.  The steps inside a call are separate actions all the same, because
each of them works on links an earlier one has read, and because a transfer
may fail in the middle.  Failure of every transfer is a free choice; reading a
record past the end of the file always fails.  Contents of a block are one
value; `Less` orders files by number where the code compares their addresses.
`UnLockHdr` and `FlushRecord` carry the NTI use (flush removes the lock).

How the callers use handles is part of the model, from the libraries' code:
the DBF library uses a handle only until its next request; the B-tree library
uses two (`trxins.c:277-293`), `KeepTwo`; the NTI library locks one buffer at a
time (`nti_AppendRecord`) and fetches others meanwhile, `UsesLocks` and
`LockSpan`.  A client of the cache that resets `Errno` is not part of this module
(DbfCache has the resets of the DBF library), and neither is the B-tree's
prewriting, which changes `Recno` of a buffer it owns (`trxnew.c:45-57`).
`csh_Free` is detaching every file.

### DbfCache

One process, one writing user, one file that is not shared, with a cache.  The
cache is used through what CshCache promises: `cached`, `dirty` and `buf` by
block, `Evict` whenever a buffer is needed, `errno`, and the length
`LastDataLen` of the last block `LastRecno` (`lastLen`, `lastBlk`).  Offsets and
lengths are counted in records.  `disk` and `diskHdr` are the file; `None` is
past its end and `Junk` any bytes that are no record.  `table` is history: the
records as the user has committed and appended them.

| Code | Actions |
|---|---|
| `dbf_Open`, `dbf_AttachCache` | `Open` |
| `dbf_Go` | `Go`, then `Commit`, `Load` |
| `dbf_PutRec` (`_dbf_ErrReadOnly`, `dbf_Mark`) | `PutRec`, then `Flag` |
| `dbf_AppendRec` (`_dbf_AppendUsrRec`, `_dbf_AddCshRec`) | `AppendRec`, then `Flag`, `Commit`, `Add` (`Extend`, `AddRec`, `AddFails`), `AppendHdr` |
| `dbf_Flush` (`_dbf_Flush`) | `Flush`, then `Commit`, `FlushBlock`*, `FlushHdr` |
| `dbf_Close` | `Close`, then `Commit`, `Unflag`, `FlushBlock`*, `FlushHdr`, `Release` |
| eviction by this or another file's request | `Evict` |
| the process ends | `Crash` |

Each disk write is a step, so a crash can come between any two of them.  A
crash loses memory, not what `WriteFile` has accepted: it is the process that
ends, not the machine (the library does not call `FlushFileBuffers` here).  A
failing block write writes nothing.  `Fails[m]` says which kinds of transfer may
fail in flush mode m: reads, block writes, block writes that need new space,
header writes.  Each run states which it allows, because the code reports some
of them and not others; the latter are the findings below.  `dbf_Go(dbf, 0)`
is left out (it re-reads the current record; without one it asks for a block
that does not exist).

### KeyList and TrxTree

`list` is the keys in order, `cursor[u]` the rank of the key at which user u is,
or of the key that holds the place of the one deleted there (a gap).  Inserting
and deleting change the list and every cursor at once.  A failing call sets
`broken`, after which nothing is promised: the library has no recovery, and the
comment at `trxins.c:534` expects a corrupted tree.

`node[n]` is a node whether cached or not (`N_Tree`, its level, `N_Rlink`,
`N_Llink`, `N_Flags`, keys from the lowest to the highest and, in a branch node,
their links); level -1 is a free node.  `tree` is `TRX_TREEVAR`, `file` the node
counts of `TRX_FILE`, `pos[u]` is `NodePos` and `KeyPos`, with `KEYPOS_HIBIT` as `gap`
and `KEYPOS_MASK` as `Mask`.  `pNewLeaf` is the global `_trx_p_NewLeaf`, which one
call leaves for the next.  `op` is the running call with its local variables.

| Code | Definitions |
|---|---|
| `trx_InsertKey`: descent, what it finds | `PathTo`, `LeafOf`, `Insertion` |
| an equal key, room in the leaf | `InsertDup`, `InsertRoom` |
| the first steps of an insertion that takes nodes (`_trx_IncPreWrite`) | `StartGrow`, `InsertFirst` |
| a key above an overflow leaf that holds a place | `FillPlace`, `RaisePlace`, `LinkPlace` |
| splitting a leaf, or giving it an overflow leaf | `SplitLeaf`, `OverflowLeaf` |
| the levels above (`typ` of the loop) | `RepWithNewLink`, `RepWithNewKey`, `RepWithRlink`, `StoreBound`, `SplitBranch`, `NewRoot` |
| `trx_DeleteKey`: in the leaf, the leaf itself | `DeleteInLeaf`, `DeleteLeaf` |
| its descent to the parent (`rev_placeholder`) | `DropPlace`, `ShiftPlace`, `StepDown` |
| its way up | `HandLink`, `RemoveLink`, `RemoveRlink`, `RemoveBranch`, `TrimLevel` |
| `_trx_NewNode`, `_trx_FreeNode`, `_trx_IncPreWrite` | `NewNode`, `TakeNode`; `Freed`, `GiveNode`; `IncPreWrite` |
| `_trx_AddAdjust`, `_trx_DelAdjust`, `_trx_GetNodePos` | `AddAdjusted`, `DelAdjusted`, `GetNodePos` |
| `trx_Find`, `trx_Skip` (`trx_Next`, `trx_Prev`), `trx_First`, `trx_Last` | `Find`, `Skip`, `FirstKey`, `LastKey` |
| `_trx_GetNode` fails | `Fail`; `Refuse` |

The library is single-threaded.  A call that changes more than one leaf is
nevertheless split into steps, the changes at the leaves and then one branch node
after the other, because the node of each next step may fail to come.

Keys have no bytes and so no size: a node holds `LeafCap` or `BranchCap` keys, and
what the code decides by sizes is a free choice: where it splits, and how far
the bound of a split leaf is shortened (`_trx_Btlop`).  The model therefore has
every split the code can make with keys of equal size, and others besides.
Records, which go with their keys, are left out.  `TRX_KeyUnique` is the caller's
choice by call.  One tree has all the file's used nodes, so the tree's `NumNodes`
is the file's less the free ones.  The limit on levels (`TRX_MAX_BRANCH_LEVELS`)
is beyond these instances.  What a failing call did to the node at hand
is not told apart, since no later call uses the tree.

`Faults` names four situations the code mishandles; see Findings.

### EditHistory

`doc` is the document's lines, `mHist` the history (`items`, `pos`, `saved` and
`last` are `m_vecHistItem`, `m_nPos`, `m_nPosSaved` and `m_LastAction`), `mod` the
modified state: the document's flag, or a change that so far is only in the
active buffer and counts only if the line turns out to differ
(`SaveActiveBuffer`).  `disk` is the file.  Each item keeps, as the debug build
does, a checksum of the text after it; the model's is the text itself.  `apart` is no
variable of the code: it remembers that, since the file was last written, the
action that was saved has been typed on, or a save has failed half-way.

A text in the history is a sequence of pieces between line ends.  `NoText` stands
for `pText == NULL` with the text in the document, `Garbage` for a byte nobody
wrote; a text longer than `HIST_MAX_LOCALALLOC` (`MaxLocal`) is owned by either the
document or the item.

| Code | Definitions |
|---|---|
| `ClearEnd`, `AddAction`, `ClearLastAction`, `SaveChecksum` | the same names |
| `AddChar`, `DelChar` and how they join the last action | `AddChar`, `JoinsAdd`; `DelChar`, `JoinsBack`, `JoinsFwd` |
| `DelTextRange`, `AddTextRange`, `AddPasteRange`, `RepShortStr`, `AddEOL` | the same names |
| `CLineDoc::Update`, by kind and outcome | `DeleteSel`, `DeleteFails`, `InsertText`, `InsertFails`, `Paste`, `PasteFails`, `InsertEOL`, `Overtype` |
| the seven `Undo()` and `Redo()` methods, `replace_TextRange` | `Undone`, `Redone`, `Replace`; `Undo`, `Redo` |
| `SaveActiveBuffer`, `OnSaveDocument`, `SetUnModified` | `SaveActiveBuffer`, `Save`, `SaveFails`, `MoveTo` |

`Situations` names four cases in which the code loses track of the text
(`TextLoss`), and a save that fails half-way.  A run says with `Allow` which of
them may arise; see Findings.  Once one of `TextLoss` has gone wrong, what further
undoing and redoing do to the text is only approximated.

### DbtFile and MemoEdit

DbtFile has no state of its own: its operators take the file `d` and return the
file after the call, each for one method of `CDBTFile`.  `d.file` is the blocks,
`d.hdr` the count in the header, `d.next` is `m_uNextRec`, `d.free` the free
list, `d.flags` the flags.  A text is the sequence of blocks it fills, the last
one with the terminator; `GetText` reads through the first block that has one,
whatever it belongs to.  A stored free list takes one block (63 entries).

MemoEdit is the rest of the program as far as it changes memos.  `field` is the
memo field of each record, `sel`, `buf` and `pend` the Selected Points window
(`m_uSelRec`, `m_pEditBuf`, `m_vMemo`), `dlg` the memo each open window shows
(`m_memo`, with its block number and count).  `text` is history: how many blocks
the text last saved for each record fills.  `lost` says that a free list was
lost in a crash and not recovered since.

| Code | Actions |
|---|---|
| `CancelSelChange`, `OnUnselect`, `OnClearEdited` (`FlushEdits`) | `Select`, `ClearEdited` |
| `LoadEditBuf`, `InitEditBuf`, `OnBnClickedResetattr` (`CancelAddition`) | `EditField`, `AddPoint`, `ResetAttr` |
| `OpenMemo` of the two windows, `DenyClose` | `OpenMemo`, `CloseMemo` |
| `SaveEditedMemo` (`UpdateMemo`) | `SaveEditedMemo` |
| `OnTableFill`, `OnTableRepl`, `BadLinkSearch` | `FillOrReplace`, `RepairLinks` |
| `CopyShpRec` (`AppendCopy`, `PutTextField`) | `CopyShpRec` |
| `SetEditable` (`Reopen`, `AppendFree`), `TestMemos` | `SetReadOnly`, `SetEditable`, `TestMemos` |
| the program ends | `Crash` |

The program has one thread, so each handler is one step.  The record file is a
mapped view and the memo file's writes go to the system at once, so a crash of
the program loses only what is in memory: the free list, the edit buffer, the
windows.  Crashes inside a handler are not modelled.  `Situations` are two ways in
which a window's block number becomes stale (finding 5).

## Runs

| Run | Instance | What it shows |
|---|---|---|
| `csh_files` | 2 buffers, 2 files, records 0 and 1, `KeepTwo` | `TypeOK`, `OneBuffer`, `ChainInv`, `RingInv`, `CleanOnDisk`, `HandlesValid`, `FlushDurable`, and `StoreSpec`: CshCache implements RecordStore for both files |
| `csh_locked` | 2 buffers, 3 records, a lock over 2 requests, until a chain breaks (finding 1) | `LockedStays`; `CallsReturn` under fairness |
| `csh_lock_two` | the same, two slots, collisions | violates `OneBuffer` (finding 1) |
| `dbf_cache` | 2 blocks of 2 records, at most 3 records (`MaxRecs`), all flush modes | `TypeOK`, `TableKept`, `ReadsCurrent`, `HeaderCovered`, `CrashSafe`, `AutoDurable`, `FlushTruthful` |
| `dbf_disk_full` | no flush mode, block writes fail | violates `CrashSafe` (finding 3) |
| `dbf_extend` | user flush, no space | violates `FailedAppendKeeps` (finding 4) |
| `edit_history` | a history of 2 actions, documents of up to 3 lines of up to 2 characters, texts over 2 characters long, `Allow = {"SaveFails"}` | `TypeOK`, `UndoRestores`, `SavedPosition`, `UnmodifiedIsSaved`, `LongTextHeldOnce` |
| `edit_type_on` | the same, `Allow = {}` | violates `ChangedIsFlagged` (finding 7) |
| `memo_file` | 2 records, memos of up to 3 blocks, a file of up to 7, one memo window | `TypeOK`, `MemosIntact`, `NoConflict`, `FreeListOrdered`, `NothingWasted`, `HeaderMatchesLength` |
| `memo_stale` | memos of up to 2 blocks, a file of up to 5, `SaveUnderOpenMemo` | violates `NoConflict` (finding 5) |
| `trx_tree` | 2 users, keys 1 to 3, 2 keys to a node, up to 5 keys in the tree | `TypeOK`, `TreeInv`, `NodesAccounted`, `NoFormatError`, `MovesRight`, `GrowsFirst`, and `KeyListSpec`: TrxTree implements KeyList |
| `trx_placed` | 1 user, `Faults = {"placed"}` | violates `PlacedOnce` (finding 6) |

Bounds.  Two buffers are the smallest cache the code allows (`CSH_MIN_BUFCNT`)
and the one in which every miss evicts and the neighbour is often the LRU
buffer.  Larger caches, with chains of three and more, are left to the proofs,
which cover every number of buffers.  Two files
suffice for everything in which files interact: ordering in a chain, evicting
another file's block, `HashBase` and the file list.  Two blocks of two records
give a full, a partly filled and a missing last block, and an append to each;
the fourth record, which only fills the second block as the second fills the
first, is left to the two violating runs (`MaxRecs`).
Nothing else is bounded there: those models have no other counters, so TLC
explores all histories of calls on these instances.

In `edit_history` two actions (`MaxHist`) are enough for an action to be cut off
in front of, at and behind the saved position, and each action may join any
number of single edits; after undoing, the history grows again, so runs are of
any length.  Lines of two characters (`MaxLin`) reach the line limit with every
kind of insertion, and texts of three characters and more are long
(`MaxLocal`), line ends counting two.  The file begins as one line of a tab and
a letter; a letter is typed, and a short and a long text are pasted.  In `memo_file` seven blocks let two memos of up to three blocks
move past each other, leaving free blocks before, between and behind them, with
one block for the stored list; one window is the case of interest, since the
editor and the viewer never show the same memo.

In `trx_tree` nodes of two keys (the smallest the code allows for a branch,
`trx_InitTree`) make five keys (`MaxKeys`) enough for three levels, sets of
duplicates over three leaves, overflow leaves that hold a place and are moved,
splits of the root and trees that lose levels.  While both users have a position
a tree has at most three keys (`SharedKeys`), in two or three leaves: what the
adjustment of positions depends on is the user's own leaf and its neighbours.
`MaxNodes` is never reached.  `Skip` goes up to two keys either way.  No run turns deadlock checking
off.

`StateView` (MCCshCache) drops fields the code cannot read before it has
written them: links, record number and contents of a buffer no file owns, the
`HashIndex` of a buffer that is not the first of its chain, the `HashBase` of a file
that is not attached, and the handles of the caller that a running call replaces.
`StateView` (MCEditHistory) drops the file from a failed save or typing on until the next
save, which replaces it: no property speaks of it then.  `StateView` (MCMemoEdit) drops
the contents of blocks in no memo, which no handler reads before writing them,
except for a stored list.  `StateView` (MCTrxTree) drops, between calls, the numbers of the nodes
and the contents of free ones, keeps of `_trx_p_NewLeaf` nothing (without the
situation "shared" a call sets it before it reads it), and of two users not which
is which; while both have a position, also how many nodes are free or prewritten,
which a single user shows.  Contents of records
in the DBF runs are interchangeable (`ValSymmetry`); no liveness is checked there.

Fairness.  `FairSpec` asks for weak fairness of `Step`, the steps inside a
call: one thread executes the library and nothing in it waits.  The callers'
steps need none.  It is needed for `CallsReturn`: a call that has started comes to
its end, unless a chain is broken.  With locks it may be (finding 1), and a
search in it may then go round for ever.  So the constraint of `csh_locked` stops
where a chain breaks, and the property claims nothing from there; without
locks, `ChainsCorrect` (below) says that this never happens, for every number of
buffers.

Every property of a passing run has a mutant of the model, a plausible bug
(a lock not looked at, a block evicted without writing it, a header that does
not wait for the blocks, a freed node not linked, a position not shifted ...), under which TLC finds it
violated.  The mutants stand next to the definitions they change, with names
that begin like them.

## Findings

1. **A locked LRU buffer lets a miss relink a buffer to itself**
   (`cshalloc.c:417`).  `_csf_GetRecord` finds the neighbour `hp` and then lets
   `_csh_GetNextMru` take any unlocked buffer; with the LRU buffer locked that can
   be `hp`, which is purged and then used as its own neighbour.  The applications
   avoid it by having 64 buffers and at most 16 requests under a lock.
2. **A successful compressed transfer resets `Errno`** (`cshalloc.c:192`),
   against the comment of `_csf_Flush` (336: "May set but does NOT reset").  No
   run of its own: with `CustomXfr = {1}` in `csh_files.cfg` TLC shows `FlushDurable`
   violated, and the theorems that depend on it assume `CustomXfr = {}`.
3. **A header write hides a failed block write** (`dbfopen.c:91`): on a full
   disk `dbf_Flush` returns 0 and `dbf_Close` marks the file complete.
4. **A failed extension in user-flush mode forgets a committed change**
   (`dbfappen.c:38-47`): the block is marked clean though it was not written.

5. **A memo window outlives its block number** (`ShpLayer.cpp:4076`).  A
   pending memo edit is saved when another record is selected, which may move
   the memo; the window opened over it stays open with the old block number and
   count, and its own save writes there and frees those blocks again.  Two memos
   then share a block, which is what `TestMemos` asks to have reported as a bug.
   Repairing links in the table (`DBGridDlg.cpp:2193`) has the same effect on an
   open window (`RepairUnderOpenMemo`).

6. **An overflow leaf becomes the placeholder of two branch nodes**
   (`trxdel.c:354`).  When a branch node loses its last leaf and with it goes itself,
   the overflow leaf on the left takes its place in the node above, though it may
   already hold the place at the end of the neighbouring branch.  The code asserts
   the opposite (`trxdel.c:356`), in the test build only.

7. **What is typed after a save can be lost** (`EditHistory.cpp:52, 68`).  The
   saved position is a number of actions.  Typing or deleting on extends the
   action at that position (`EditHistory.cpp:209-226`), and so does deleting one
   selected character by a line end; coming back to the position by undo or redo
   then takes the mark of modification from a document that differs from the
   file, and it is closed without a question.  `edit_history` therefore claims
   `SavedPosition` and `UnmodifiedIsSaved` from each save until the action that was
   saved is typed on (`~apart`), and `edit_type_on` shows what happens then.

Finding 6 is one of four situations in which the B-tree code goes wrong, all kept
out of `trx_tree` by `Faults = {}`: the call that would bring one about is not made
or does not go on.  Adding the name to `Faults` in `trx_tree.cfg` makes TLC show
each of them:

| `Faults` | What happens | Violates |
|---|---|---|
| `shared` | a key is inserted into a leaf with room while another user is there: the second test of `_trx_AddAdjust` (`trxins.c:62-69`) lacks `_trx_p_RevKeys &&`, which the first has, and sends that user to the leaf of an earlier split, or to none | `MovesRight`, `KeyListSpec` |
| `masked` | rejecting a duplicate leaves its user with `KeyPos = KEYPOS_MASK` (`trxins.c:320`), which is not recognised as the position of a deleted key (`trxdel.c:83-91`, against 15-18): the user moves to another key instead of a gap | `KeyListSpec` |
| `link0` | an insertion turns a leaf linked by `N_Rlink` into an overflow leaf in place of a placeholder: `_trx_Btdel(hp, 0)` (`trxins.c:506`) deletes nothing (`bt_delid.c:7`), and the old leaf keeps a parent; the comments at 477-492 record two earlier corrections here | `TreeInv` |
| `placed` | finding 6 | `PlacedOnce`, `TreeInv` |

The situations of `TextLoss`, in which the undo history loses the text, are kept
out of both runs.  Adding the name to `Allow` makes TLC show each of them (for
`EmptyPaste` an empty text, `<<<<>>>>`, must be in `SmallClips`):

| `Allow` | What happens | Violates |
|---|---|---|
| `OvertypeEnd` | overtyping at the end of a line saves a byte behind the line as the old text (`Linedoc.cpp:1069`), and undo puts it into the document | `UndoRestores` |
| `InsertFails` | a selection of several lines is deleted and the text for it does not fit or cannot be had; the second range of the action was never set (`Linedoc.cpp:1059`, `EditHistory.cpp:410-413`) | `UndoRestores` |
| `PasteClips` | a paste cuts off the end of the line (`Linedoc.cpp:699`), unknown to the history | `UndoRestores` |
| `EmptyPaste` | a paste of an empty text is logged with a length of 0; redo hands the length to `Update()`, where it means a line end (`EditHistory.cpp:347-350`, `Linedoc.cpp:1010`) | `UndoRestores` |

`SaveFails` is different: a save that fails half-way leaves a part of the text in
the file while the saved position stays (`Linedoc.cpp:1140`), so undoing to that
position marks a text unmodified that is not in the file.  `edit_history` lets it
happen and claims nothing of the saved position until the next save; with the
name in `Allow` of `edit_type_on.cfg` TLC shows `ChangedIsFlagged` violated in this
way too.

Smaller differences between comments and code, seen while modelling and not
checked: attaching after a detach with a pending error never clears the error
(`cshalloc.c:264-267`); `_csf_InsertFile` halves the last interval it computed, not the
widest (`cshalloc.c:245`; modelled as it is, it affects only the distribution);
`_dbf_AppendEOF` says it truncates the file, but writing no bytes does not
(`dbfclose.c:157`; modelled as it is); an uncached append leaves the record
unwritten until it is changed (`dbfappen.c:99-105`);
the comment at `Linedoc.cpp:1064` assumes that a tab is never overtyped, but
`CWedView::InsertChar` overtypes any character; `PutText` may ignore a larger
free block although it looks "for first smallest free block that's large
enough" (`dbtfile.cpp:239-250`; modelled as it is).

## Proofs

Every property of CshCache, DbfCache, MemoEdit and EditHistory that a passing
run checks is proved, except liveness: for every number of buffers of at least
two, every set of files and records, every number and size of blocks, every
number of windows, and every document, clipboard and length of lines, of text
and of history.  The constants' assumptions are the named `ASSUME`s of these modules,
which TLC evaluates in every run.

| Theorem | Module | States | Assumes of the constants |
|---|---|---|---|
| `TypeCorrect` | CshCacheProofs | `[]TypeOK` | nothing |
| `ChainsCorrect` | CshCacheProofs | `[](ChainInv /\ OneBuffer)` | no locks |
| `OneBufferEach` | CshCacheProofs | `[]OneBuffer` | no locks |
| `LocksRespected` | CshStoreProofs | `LockedStays` | nothing |
| `CleanBuffersOnDisk` | CshStoreProofs | `[]CleanOnDisk` | no locks, no `XfrFcn` |
| `CacheIsAStore` | CshRefinementProofs | `StoreSpec`, the refinement | no locks, no `XfrFcn` |
| `FlushesDurable` | CshRefinementProofs | `FlushDurable` | no locks, no `XfrFcn` |
| `RingCorrect` | CshRingProofs | `[]RingInv` | nothing |
| `HandlesStayValid` | CshRingProofs | `[]HandlesValid` | no locks |
| `FileTyped` | DbfCacheProofs | `[]TypeOK` | nothing |
| `RecordsKept`, `CopyCurrent`, `NoJunkCounted`, `CrashDetected`, `AutoFlushed` | DbfCacheProofs | `[]TableKept`, `[]ReadsCurrent`, `[]HeaderCovered`, `[]CrashSafe`, `[]AutoDurable` | `Reported` |
| `FlushTrue` | DbfCacheProofs | `FlushTruthful` | `Reported` |
| `TypeCorrect`, `MemosKept`, `BlocksOwnedOnce`, `ListOrdered`, `NoBlockForgotten`, `HeaderTrue` | MemoEditProofs | `[]TypeOK`, `[]MemosIntact`, `[]NoConflict`, `[]FreeListOrdered`, `[]NothingWasted`, `[]HeaderMatchesLength` | no stale block numbers |
| `TypeCorrect`, `UndoExact`, `SavedPositionKept`, `NoChangeLost`, `LongTextOwned` | EditHistoryProofs | `[]TypeOK`, `[]UndoRestores`, `[]SavedPosition`, `[]UnmodifiedIsSaved`, `[]LongTextHeldOnce` | no lost text |

*No locks* (`UsesLocks = FALSE`) is what finding 1 makes necessary: with a locked
LRU buffer the chains can break and a record can get two buffers.  The DBF and
B-tree libraries never lock.  *No `XfrFcn`* (`CustomXfr = {}`) is what finding 2
makes necessary: a transfer that resets the error condition makes the cache
forget that a buffer was not written.  Only the NTI library has one.  *`Reported`*
says that no write of a block fails, except for want of space in auto-flush mode:
findings 3 and 4 are what happens otherwise, and `dbf_disk_full` and `dbf_extend`
show that the theorems do not hold without it.  Reads and header writes may fail
in every mode.  *No stale block numbers* (`Allow = {}`) is what finding 5 makes
necessary, as `memo_stale` shows.  *No lost text* (`TextsKept`: nothing of
`TextLoss` in `Allow`) excludes the four situations tabled under Findings, each of
which violates `UndoRestores`.  Typing on after a save and saves that fail half-way
are not excluded: `SavedPosition` and `UnmodifiedIsSaved` hold from each save until
then, and again from the next.  That lines of opened files fit into `MAXLINLEN` is an assumption
on `InitDocs` that `LineTruncateFail` makes true.

**Chains.** `ChainInv` alone is not inductive.  The steps that relink a chain rely
on what earlier steps of the same call have found, so the invariant `IInv` adds:
no buffer is locked (`NoLocks`); a buffer marked free has no owner, but for the
one a running call is filling (`FreeInv`); a buffered record's file
is attached, so that `InsertFile` never moves the slots of buffered records
(`AttachInv`); and, for each place in a running call, what the search has
established about `hp` and `nexthp`: the record is not buffered, `hp` is in its
slot, and it is the last smaller or the first larger record (`SearchInv`).  In
the insertion step the buffer that was evicted cannot be `hp`: without locks
the LRU buffer is taken, and `hp` being the LRU is the other case.

The argument about links is made once, on plain functions instead of states:
lemmas about removing a buffer from the chains and inserting it into an empty
chain, before a buffer and at the end (`RemoveLink`, `InsertEmptyLink`,
`InsertBeforeLink`, `InsertLastLink`), stated over any functions with the
linked structure, and a bridge from that structure to `ChainInv`
(`ChainIsLinked`).  Each action then cites the lemma for the links it changes.

**Locks.** `LockInv` says why the search for a buffer leaves locked ones alone: a
free buffer is not locked, and neither is the one `_csh_GetNextMru` has settled
on, from the test until the buffer is filled.  `OpInv` ties the call to the
place in the code it can be at.

**Contents.** `SInv` adds to `IInv`: an owned buffer holds a record that exists
(`RecInv`); what a call is about to fill, mark or drop is the buffer of the
record it was asked for (`FillInv`); `CleanOnDisk`; and a loop that flushes has
left behind no buffer of its file that is Updated (`FlushInv`), which is what
makes a detach's purge lose nothing and `_csf_Flush`'s answer true.
`CleanOnDisk` rests on `OneBuffer`: a second buffer of a record could be written
after the first was read.

**Refinement.** `StoreView` reads a record from its buffer if it has one and from
the disk otherwise; with `OneBuffer` there is no choice in it (`ViewAt`).  A step
changes what at most one record reads as, so the lemmas `StoreAnswer`,
`StorePersist`, `StoreFail`, `StorePut` and `StoreDiscard` say once which changes
of the view, the disk and the error conditions are a step of RecordStore.
`EvictStores` is the centre: taking a buffer away from a record is a stutter if
the buffer was clean (by `CleanOnDisk`, or its file has an error already), a
`Persist` if it was written, and a `Fail` if writing it failed.

**Ring.** That the ring is one cycle cannot be shown from the links alone, which
also fit two cycles.  `OrderInv` says instead that the buffers can be numbered in
order of use so that the links follow the numbers, both ways; moving a buffer to
the front renumbers, and making the `Lru` the `Mru` turns the numbering.  That
everything is then reached from `mru` in `Bufcnt - 1` steps (`RingInv`) needs
induction over these steps, which is done with a smallest counterexample
(`LeastNumber`).  `HandleInv` follows the caller's handle through a `GetRecord`: the
last handle is the `Mru`, the buffer taken is the `Lru`, and with two buffers these
differ (`LruIsNotMru`).

**Tables.** The invariant `DInv` holds at every step of a call, between any two
writes.  `TableInv` says that the records of a cached block are those of `table`, and
so are those on disk of a block that is not dirty.  `BlockInv`: in auto-flush mode
nothing is dirty, and once the last block has been extended, it is in the file to
its end.  `HdrInv`: the header on disk counts fewer records than the one in memory
only while `HdrChg` or the error condition says so.  `FlagInv`: without a flush mode
nothing is dirty before the flag is on disk, unless the error condition keeps
anything from changing.  `CopyInv`: the user's unchanged copy is the current record.
Only closing a file takes the flag back, and a header is only written from inside
an append in auto-flush mode (`call.pc = "hdr" => mode = "auto"`): `DInv` was not
inductive before both were added.  `HeaderCovered` needs the others to be
inductive, and they need it.  `TableFacts` then turns "nothing dirty, header written" into
"all of `table` is on disk", which is what `CrashSafe`, `AutoDurable` and
`FlushTruthful` say at different moments.  `FileTyped` needs no hypothesis: whatever
fails, the counts stay in range.

**Memos.** `NoConflict` and `NothingWasted` together say that memos and free blocks
partition the data.  Neither is inductive: the next operation goes by block
numbers that a window, the edit buffer or the stored list holds.  `MInv` says that
all of these are right.  `DataInv`: every block of a memo names its record and
its place in the text (`MemoAt`), the list is that of `List`, the one in memory
or the one `InitFree` will find, and each block is in the list or in a memo
(`Covered`), unless a list was lost.  That memos are disjoint follows from the
names.  `SelInv`, `BufInv` and `WinInv`: what the edit buffer, the waiting edit and
each window know of their memo (`Known`) is what the record's field and text say,
which is what saving under an open window breaks.  While the layer
is read-only no list is in memory (`~editable => dbt.flags = {}`), or reopening it for
writing would drop one.

Each operation of `CDBTFile` has a lemma of what it does to blocks: `AddFacts`
(joining neighbours and cutting off the end of the file keep the set of free
blocks and add the new ones), `PlacedFacts`, `WriteFacts`, and `SaveFacts` over them: after
`PutText` and `FlushHdr` the free blocks are the old ones and those of the old
text, less those of the new (`SaveEffect`).  The handlers then need only
`SaveStep`.  The loop of `TestMemos`, which adds every run of wasted blocks to the list,
is a fold over a set; `AddsExist` gives a function that satisfies its recursion,
and `AddAll` carries the effect of `AddToFree` over it, by the smallest set for
which it would fail.

**Undo.** `UndoRestores` speaks of the current position only, and undoing an action
relies on what was true of the text when the action ended.  `IInv` therefore says
of the whole history, done or undone, that each item leads from the text at the
position before it to the text at its own (`ItemInv`): what was typed lies in the
one and not in the other, what was deleted the other way round, and each text
that the item must hold it holds (`Held`).  `HistOK` adds that the document is the
text at the position and the file that at the saved position, and `ModOK` that a
document without a mark is the file, and one marked for a single line is the file
once that line is put back.

The lemmas about text come first: `PutCut` and `CutPut` (what is inserted can be
deleted, and what was deleted can be inserted where it was, which gives back the
document, because it fitted before), `InsIns` and `JoinIns` (a character inserted
at either end of an inserted text makes one longer inserted text, which is why
joined keystrokes are one action), `OldText` (overtyping), `ReverseIs` and
`TrimmedLenIs`.  `SizeOf` is a fold; `SizeIs` takes its equation from a function that
satisfies it (`SizesExist`) and shows that a non-empty selection and an inserted
text have a positive size (`RangeSize`, `PutSize`), on which `replace_TextRange`
depends to tell a text from none and redo to tell it from a line end.  `ItemUndo` and
`ItemRedo` say for every kind of action that undoing and redoing give the two texts
and an item in the same relation, with a long text handed over.  For the edits,
`AddCharOK`, `DelCharOK`, `DelTextOK`, `AddTextOK`, `SelReplacedOK`, `OvertypeOK` and
`EOLOK` build the item, `PutsOK` cuts off the history and puts it there, and `FinishOK`
records the text; `MovedOK` moves the position.  An edit that joins the action at
the saved position changes the text there.  The invariant therefore speaks of the
file through `FileIs`, which says nothing once the file is not `known` (`apart`): such
an edit makes it unknown (`NotJoined`), any other edit leaves it as it was
(`FinishFile`), and a save makes it known again.

Only model-checked: liveness (`CallsReturn`), which is out of the prover's
reach; and TrxTree, whose descents and walks are recursive operators, which the
prover does not take.

## Plan

What would come next, in this order:

1. Proofs: the theorems of CshCache that assume no locks, for locks that are held
   over fewer requests than there are buffers; TrxTree with its descents and walks
   written as recursive functions.
2. TrxTree on a file: the order in which header and blocks are written and what a
   crash leaves, several trees sharing the free list, `trx_Build`.
3. `WorkerThreads`: start, abort and end of a worker and its owner.
4. MemoEdit with a crash between the writes of one handler.

## Not modelled

* Shared DBF files: `DBF_Share` is not used by any program of the repository, so
  the locking code of `dbf_file` never runs.
* Of TRX files: the order of header and block writes, several trees in a file,
  `trx_Build` and packing, creation and opening, the bytes of keys.  The worker
  threads.  See the plan; their hazards are listed.
* Parsing, drawing, exports, image codecs and the network adjustment: computation
  without interacting state, or floating point.
* The project tree, the viewers and tools: user interface.  The GPS download: a
  device's protocol of which the repository has one side.
* Vendored libraries (GDAL, Kakadu, Cairo and others), most of the repository's
  files: third-party code.
