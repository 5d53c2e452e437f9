------------------------------ MODULE TrxTree ------------------------------
(***************************************************************************)
(* One tree of a TRX index file (src/trx_file): a B-tree with duplicate    *)
(* keys, the file's list of free nodes, and the positions of its users.    *)
(*                                                                         *)
(* A key of a branch node is the upper bound of the keys below its link;   *)
(* N_Rlink leads to what is above the node's last key.  The leaves form a  *)
(* doubly linked list.  A leaf full of one key overflows into the leaves   *)
(* on its right, which have no parent; the last of them, when nothing is   *)
(* above it, may hold the place of the leaf of higher keys (EmptyRight).   *)
(*                                                                         *)
(* The size of a key is not modelled: a node holds LeafCap or BranchCap    *)
(* keys, and what depends on the sizes, where a node is split and how far  *)
(* a bound is shortened, is a choice.  A call that changes more than one   *)
(* leaf runs in steps: the leaves, then one branch node after the other;   *)
(* each may fail to get its node (_trx_GetNode), which ends the call.      *)
(* What a failing call did to the node at hand is not told apart: no later *)
(* call uses the tree.  _trx_pTreeVar->NumNodes is left out: one tree has  *)
(* all the file's used nodes.                                              *)
(*                                                                         *)
(* Faults names four situations the code mishandles; without its name in   *)
(* Faults, the call that would bring one about is not made, or ends:       *)
(*   "shared"  a leaf with room gets a key while another user is in it:    *)
(*             _trx_AddAdjust moves that user to the leaf of the last      *)
(*             split, for its second test lacks "_trx_p_RevKeys &&";       *)
(*   "masked"  a key is deleted at which a rejected duplicate left another *)
(*             user with KeyPos = KEYPOS_MASK: _trx_DelAdjust does not     *)
(*             invalidate that position;                                   *)
(*   "link0"   a leaf of duplicates whose link is its parent's N_Rlink     *)
(*             becomes an overflow leaf where its overflow leaf was a      *)
(*             placeholder: _trx_Btdel(hp, 0) deletes nothing;             *)
(*   "placed"  the last leaf of a branch is deleted right of an overflow   *)
(*             leaf that is another branch's placeholder already.          *)
(***************************************************************************)
EXTENDS Integers, Sequences, FiniteSets, SequencesExt

CONSTANTS
    Users,
    Keys,           \* the keys, as numbers
    LeafCap,        \* keys in a leaf
    BranchCap,      \* keys in a branch node
    MinPreWrite,    \* TRX_FILE.MinPreWrite
    Faults,         \* which of the situations the code mishandles may happen
    MaxNodes,       \* bound: nodes in the file
    MaxKeys,        \* bound: keys in the tree
    SharedKeys      \* bound: keys in the tree while two users have a position

ASSUME TreeAssumption ==
    /\ Keys \subseteq Nat
    /\ LeafCap \in Nat \ {0} /\ BranchCap \in Nat \ {0, 1}   \* trx_InitTree()
    /\ Faults \subseteq {"shared", "masked", "link0", "placed"}
    /\ MinPreWrite \in Nat \ {0} /\ MaxNodes \in Nat
    /\ MaxKeys \in Nat /\ SharedKeys \in 0..MaxKeys

VARIABLES
    node,   \* the nodes, cached or not; level -1 is N_Tree = 0xFF, a free node
    tree,   \* TRX_TREEVAR
    file,   \* NumNodes, NumFreeNodes, FirstFreeNode and NumPreWrite of TRX_FILE
    pos,    \* pos[u]: NodePos, and KeyPos as p and its high bit, gap
    pNewLeaf,   \* _trx_p_NewLeaf, a global variable of the library
    op,     \* the call that is running
    errno   \* Cf.Errno

vars == <<node, tree, file, pos, pNewLeaf, op, errno>>

Nodes == 1..MaxNodes
Null == 0
Mask == 2 * MaxKeys + 2         \* KEYPOS_MASK: the leftmost key, wherever it is
Idle == [pc |-> "idle"]
Flags == {"DupCutRight", "DupCutLeft", "EmptyRight"}

-----------------------------------------------------------------------------
(* A node's keys.  The code counts positions from the right: 1 is the      *)
(* highest key, and 0 in a branch node stands for N_Rlink.                 *)

NumKeys(nd) == Len(nd.keys)
Index(nd, p) == NumKeys(nd) + 1 - p

\* _trx_Btfnd: the position of the first key not less than k, or 0.
Position(nd, k) == Cardinality({i \in DOMAIN nd.keys : nd.keys[i] >= k})
Matches(nd, k) == \E i \in DOMAIN nd.keys : nd.keys[i] = k

\* _trx_Btlnkc, and N_Rlink for position 0.
LinkAt(nd, p) == IF p = 0 THEN nd.rlink ELSE nd.links[Index(nd, p)]

\* _trx_Btsetc, or the assignment to N_Rlink that goes with it.
SetLink(nd, p, n) ==
    IF p = 0 THEN [nd EXCEPT !.rlink = n] ELSE [nd EXCEPT !.links[Index(nd, p)] = n]

\* _trx_Btdel.
DelKey(nd, p) ==
    IF p \notin 1..NumKeys(nd) THEN nd
    ELSE [nd EXCEPT !.keys = RemoveAt(@, Index(nd, p)),
                    !.links = IF nd.level = 0 THEN @ ELSE RemoveAt(@, Index(nd, p))]

\* _trx_Btsto, without its test for room: a new key goes left of its equals.
AddKey(nd, k, n) ==
    LET i == Index(nd, Position(nd, k)) IN
    [nd EXCEPT !.keys = InsertAt(@, i, k),
               !.links = IF nd.level = 0 THEN @ ELSE InsertAt(@, i, n)]

Full(nd) == NumKeys(nd) = IF nd.level = 0 THEN LeafCap ELSE BranchCap

\* The way down to the leaf for key k: branch nodes and positions in them.
\* (A path of more than MaxNodes nodes would be a circle.)
RECURSIVE Descent(_, _, _)
Descent(n, k, max) ==
    IF n = Null \/ max = 0 \/ node[n].level <= 0 THEN <<>>
    ELSE LET p == Position(node[n], k) IN
         <<[n |-> n, p |-> p]>> \o Descent(LinkAt(node[n], p), k, max - 1)
PathTo(k) == Descent(tree.root, k, MaxNodes)
LeafOf(path) ==
    IF path = <<>> THEN tree.root ELSE LinkAt(node[Last(path).n], Last(path).p)

-----------------------------------------------------------------------------
(* The file's nodes.                                                       *)

\* _trx_NewNode: the last node that was freed, else one past the others.
NewNode == IF file.numFree > 0 THEN file.firstFree ELSE file.numNodes + 1
TakeNode ==
    file' = IF file.numFree > 0
            THEN [file EXCEPT !.numFree = @ - 1, !.firstFree = node[file.firstFree].rlink]
            ELSE [file EXCEPT !.numNodes = @ + 1, !.preWrite = IF @ > 0 THEN @ - 1 ELSE 0]
EmptyNode(level) ==
    [level |-> level, keys |-> <<>>, links |-> <<>>, rlink |-> Null, llink |-> Null, flags |-> {}]

\* _trx_FreeNode: what the node holds stays, but for N_Rlink.
\* Mutant: a freed node is not linked to the ones freed before.
Freed_Unlinked(n, nds) == [nds EXCEPT ![n].level = -1]
Freed(n, nds) == [nds EXCEPT ![n].level = -1, ![n].rlink = file.firstFree]
GiveNode(n) == file' = [file EXCEPT !.numFree = @ + 1, !.firstFree = n]

\* _trx_IncPreWrite(numnew): nodes past the used ones are written until there
\* are enough.  ok is whether the disk had room for them.
Shortage(numnew) ==
    IF numnew > file.preWrite + file.numFree
    THEN numnew - (file.numFree + 1 + file.preWrite - MinPreWrite) ELSE 0
IncPreWrite(numnew, ok) ==
    \E done \in 0..Shortage(numnew) :
        /\ ok <=> done = Shortage(numnew)
        /\ file' = [file EXCEPT !.preWrite = @ + done]

-----------------------------------------------------------------------------
(* The users' positions.                                                   *)

NoPos == [n |-> Null, p |-> 0, gap |-> FALSE]
PosAt(n, p) == [n |-> n, p |-> p, gap |-> FALSE]
Eof(n) == [n |-> n, p |-> 0, gap |-> TRUE]          \* KEYPOS_HIBIT
Before(n) == [n |-> n, p |-> Mask, gap |-> TRUE]    \* KEYPOS_MASK | KEYPOS_HIBIT

\* _trx_AddAdjust: i is the insertion: revLeaf the leaf the key belongs to,
\* oldKeys its keys before, keyPos the new key's position in all of them, and,
\* if revKeys is not 0, pNewLeaf the leaf that took those past position revKeys.
\* Mutant: a position at the leftmost key, wherever it is, is shifted as a number.
AddAdjusted_Mask(i, v) ==
    LET q == pos[v]
        p == IF q.p >= i.keyPos THEN q.p + 1 ELSE q.p
    IN  IF v = i.u
        THEN IF i.revKeys > 0 /\ i.keyPos > i.revKeys
             THEN PosAt(pNewLeaf, i.keyPos - i.revKeys) ELSE PosAt(i.revLeaf, i.keyPos)
        ELSE IF q.p = 0 \/ q.n # i.revLeaf THEN q
        ELSE IF p > i.revKeys THEN [q EXCEPT !.n = pNewLeaf, !.p = p - i.revKeys]
        ELSE [q EXCEPT !.p = p]
AddAdjusted(i, v) ==
    LET q == pos[v]
        p0 == IF q.p = Mask THEN i.oldKeys ELSE q.p
        p == IF p0 >= i.keyPos THEN p0 + 1 ELSE p0
    IN  IF v = i.u
        THEN IF i.revKeys > 0 /\ i.keyPos > i.revKeys
             THEN PosAt(pNewLeaf, i.keyPos - i.revKeys) ELSE PosAt(i.revLeaf, i.keyPos)
        ELSE IF q.p = 0 \/ q.n # i.revLeaf THEN q
        ELSE IF p > i.revKeys THEN [q EXCEPT !.n = pNewLeaf, !.p = p - i.revKeys]
        ELSE [q EXCEPT !.p = p]

\* _trx_DelAdjust: the key at keyPos of revLeaf was deleted, and the leaf too
\* if gone; right is the leaf on its right.
\* Mutant: a position at the deleted key becomes one at the next key.
DelAdjusted_NoGap(d, q) ==
    IF q.n # d.revLeaf \/ q.p < d.keyPos THEN q
    ELSE IF d.gone THEN IF d.right = Null THEN Eof(Null) ELSE Before(d.right)
    ELSE IF q.p = 1 /\ d.keyPos = 1
    THEN IF d.right = Null THEN Eof(q.n) ELSE Before(d.right)
    ELSE IF q.p = Mask THEN q ELSE [q EXCEPT !.p = @ - 1]
DelAdjusted(d, q) ==
    IF q.n # d.revLeaf \/ q.p < d.keyPos THEN q
    ELSE IF d.gone THEN IF d.right = Null THEN Eof(Null) ELSE Before(d.right)
    ELSE IF q.p = d.keyPos
    THEN IF q.p > 1 THEN [q EXCEPT !.p = @ - 1, !.gap = TRUE]
         ELSE IF d.right = Null THEN Eof(q.n) ELSE Before(d.right)
    ELSE IF q.p = Mask THEN q ELSE [q EXCEPT !.p = @ - 1]

\* _trx_GetNodePos(offset) of a position q.
Lower(x, y) == IF x < y THEN x ELSE y
LeafEnd(n, p) == IF n = Null THEN NoPos ELSE PosAt(n, p)
\* Mutant: a step forward from a gap skips the key that holds its place.
GetNodePos_Skips(q, offset) ==
    LET n == IF q.p = 0 /\ q.gap THEN tree.highLeaf ELSE IF q.p = 0 THEN Null ELSE q.n
        k == NumKeys(node[n])
        p == Lower(q.p, k) - offset
    IN  IF n = Null \/ (q.gap /\ offset = 0) THEN NoPos
        ELSE IF p \in 1..k THEN PosAt(n, p)
        ELSE IF p = 0 THEN LET r == node[n].rlink IN
                           IF r = Null THEN NoPos ELSE PosAt(r, NumKeys(node[r]))
        ELSE LeafEnd(node[n].llink, 1)
GetNodePos(q, offset) ==
    LET n == IF q.p = 0 /\ q.gap THEN tree.highLeaf
             ELSE IF q.p = 0 THEN Null ELSE q.n
        k == NumKeys(node[n])
        p == Lower(q.p, k) - (IF q.gap /\ offset > 0 THEN 0 ELSE offset)
    IN  IF n = Null \/ (q.gap /\ offset = 0) THEN NoPos
        ELSE IF p \in 1..k THEN PosAt(n, p)
        ELSE IF p = 0 THEN LET r == node[n].rlink IN
                           IF r = Null THEN NoPos ELSE PosAt(r, NumKeys(node[r]))
        ELSE LeafEnd(node[n].llink, 1)

-----------------------------------------------------------------------------
(* trx_InsertKey(u, k)                                                     *)

Init ==
    /\ node = [n \in Nodes |-> EmptyNode(-1)]
    /\ tree = [root |-> Null, lowLeaf |-> Null, highLeaf |-> Null, numKeys |-> 0]
    /\ file = [numNodes |-> 0, numFree |-> 0, firstFree |-> Null, preWrite |-> 0]
    /\ pos = [u \in Users |-> NoPos]
    /\ pNewLeaf = Null
    /\ op = Idle
    /\ errno = FALSE

Ready == op = Idle /\ ~errno
Alone(u) == \A v \in Users \ {u} : pos[v] = NoPos

\* The call returns without an error: the key counts, and positions are shifted.
Inserted(i) ==
    /\ tree' = [tree EXCEPT !.numKeys = @ + 1]
    /\ pos' = [v \in Users |-> AddAdjusted(i, v)]
    /\ op' = Idle

\* What the descent for k finds.  bound is the number of the lowest branch
\* node, from the root, in which k has an upper bound; match: which is k.
Insertion(u, k) ==
    LET path == PathTo(k)
        bounds == {j \in DOMAIN path : path[j].p > 0}
        bound == IF bounds = {} THEN 0 ELSE CHOOSE j \in bounds : \A i \in bounds : i <= j
        leaf == LeafOf(path)
    IN  [pc |-> "none", u |-> u, k |-> k, path |-> path, bound |-> bound,
         match |-> bound > 0 /\ Matches(node[path[bound].n], k),
         revLeaf |-> leaf, revKeys |-> 0,
         oldKeys |-> IF leaf = Null THEN 0 ELSE NumKeys(node[leaf]),
         keyPos |-> 1, level |-> 0, typ |-> "Ins", link |-> Null, rlink |-> Null]

IsPlaceholder(n) == n # Null /\ "EmptyRight" \in node[n].flags

\* The place of an equal key in the leaf, or in the overflow leaf on its right.
Duplicate(i) ==
    LET leaf == node[i.revLeaf] IN
    IF i.revLeaf = Null \/ IsPlaceholder(i.revLeaf) THEN NoPos
    ELSE IF Matches(leaf, i.k) THEN PosAt(i.revLeaf, Position(leaf, i.k))
    ELSE IF Position(leaf, i.k) = 0 /\ i.match /\ "DupCutRight" \in leaf.flags
    THEN PosAt(leaf.rlink, Mask) ELSE NoPos

\* The user's position is set at q, if there is such a position.
SetPos(u, q) ==
    /\ Ready /\ q # NoPos
    /\ Alone(u) \/ tree.numKeys <= SharedKeys
    /\ pos' = [pos EXCEPT ![u] = q]
    /\ UNCHANGED <<node, tree, file, pNewLeaf, op, errno>>

\* With TRX_KeyUnique, which trx_SetUnique() sets or clears between the calls,
\* the key is rejected and its equal is the user's position.
InsertDup(u, k) ==
    SetPos(u, Duplicate(Insertion(u, k)))

MayInsert(u) == Ready /\ tree.numKeys < IF Alone(u) THEN MaxKeys ELSE SharedKeys

\* The leaf has room.
InsertRoom(u, k) ==
    LET i == Insertion(u, k)  leaf == i.revLeaf IN
    /\ MayInsert(u)
    /\ leaf # Null /\ ~IsPlaceholder(leaf) /\ ~Full(node[leaf])
    /\ "shared" \in Faults \/ \A v \in Users \ {u} : pos[v].p = 0 \/ pos[v].n # leaf
    /\ node' = [node EXCEPT ![leaf] = AddKey(@, k, Null)]
    /\ Inserted([i EXCEPT !.keyPos = Position(node[leaf], k) + 1])
    /\ UNCHANGED <<file, pNewLeaf, errno>>

\* Nodes are needed; they are reserved before anything changes.
\* Mutant: no node for a new root.
NodesNeeded_NoRoot(i) ==
    IF i.revLeaf = Null THEN 1
    ELSE IF IsPlaceholder(i.revLeaf) THEN node[Last(i.path).n].level
    ELSE IF i.match /\ \A j \in 1..LeafCap : node[i.revLeaf].keys[j] = i.k THEN 1
    ELSE Len(i.path) + 1
NodesNeeded(i) ==
    IF i.revLeaf = Null THEN 1
    ELSE IF IsPlaceholder(i.revLeaf) THEN node[Last(i.path).n].level
    ELSE IF i.match /\ \A j \in 1..LeafCap : node[i.revLeaf].keys[j] = i.k THEN 1
    ELSE Len(i.path) + 2
StartGrow(u, k) ==
    LET i == Insertion(u, k) IN
    /\ MayInsert(u)
    /\ i.revLeaf # Null => IsPlaceholder(i.revLeaf) \/ Full(node[i.revLeaf])
    /\ \E ok \in BOOLEAN :
          /\ IncPreWrite(NodesNeeded(i), ok)
          /\ op' = IF ~ok THEN Idle
                   ELSE [i EXCEPT !.pc = IF i.revLeaf = Null THEN "first"
                                         ELSE IF IsPlaceholder(i.revLeaf) THEN "place"
                                         ELSE "split"]
    /\ UNCHANGED <<node, tree, pos, pNewLeaf, errno>>

InsertFirst ==
    LET n == NewNode IN
    /\ op.pc = "first"
    /\ TakeNode
    /\ node' = [node EXCEPT ![n] = AddKey(EmptyNode(0), op.k, Null)]
    /\ tree' = [root |-> n, lowLeaf |-> n, highLeaf |-> n, numKeys |-> 1]
    /\ pos' = [v \in Users |-> AddAdjusted([op EXCEPT !.revLeaf = n], v)]
    /\ op' = Idle
    /\ UNCHANGED <<pNewLeaf, errno>>

\* The leaf found is a placeholder: the key gets a leaf of its own, right of
\* it, and branch nodes above that one up to the level of their parent.
FillPlace ==
    LET n == NewNode  left == op.revLeaf  right == node[left].rlink
        leaf == [AddKey(EmptyNode(0), op.k, Null) EXCEPT !.llink = left, !.rlink = right]
        linked == [node EXCEPT ![n] = leaf, ![left].rlink = n,
                               ![left].flags = @ \ {"EmptyRight"}]
    IN
    /\ op.pc = "place"
    /\ TakeNode
    /\ node' = IF right = Null THEN linked ELSE [linked EXCEPT ![right].llink = n]
    /\ tree' = IF right = Null THEN [tree EXCEPT !.highLeaf = n] ELSE tree
    /\ op' = [op EXCEPT !.pc = "raise", !.revLeaf = n, !.link = n, !.level = 1]
    /\ UNCHANGED <<pos, pNewLeaf, errno>>

RaisePlace ==
    LET n == NewNode IN
    /\ op.pc = "raise" /\ op.level < node[Last(op.path).n].level
    /\ TakeNode
    /\ node' = [node EXCEPT ![n] = [EmptyNode(op.level) EXCEPT !.rlink = op.link]]
    /\ op' = [op EXCEPT !.link = n, !.level = @ + 1]
    /\ UNCHANGED <<tree, pos, pNewLeaf, errno>>

LinkPlace ==
    /\ op.pc = "raise" /\ op.level = node[Last(op.path).n].level
    /\ node' = [node EXCEPT ![Last(op.path).n].rlink = op.link]
    /\ Inserted(op)
    /\ UNCHANGED <<file, pNewLeaf, errno>>

\* The leaf is split: the new leaf n, left of the old one, takes the keys
\* before the cut, which is nowhere within a set of duplicates.  The bound is
\* shortened (_trx_Btlop): to any value from the last key moved up to, but
\* not including, the first one that stays.
LinkLeft(n, leaf, nds) ==
    LET left == node[leaf].llink IN
    IF left = Null THEN nds ELSE [nds EXCEPT ![left].rlink = n]
LowLeaf(n, leaf) ==
    tree' = IF node[leaf].llink = Null THEN [tree EXCEPT !.lowLeaf = n] ELSE tree

SplitLeaf ==
    LET n == NewNode  leaf == op.revLeaf  old == node[leaf]
        keys == AddKey(old, op.k, Null).keys
    IN
    /\ op.pc = "split"
    /\ \E cut \in 1..LeafCap :
        /\ keys[cut] # keys[cut + 1]
        /\ \E b \in Keys :
            /\ keys[cut] <= b /\ b < keys[cut + 1]
            /\ op' = [op EXCEPT !.pc = "up", !.level = 1, !.k = b, !.link = n,
                                !.keyPos = Position(old, op.k) + 1,
                                !.revKeys = LeafCap + 1 - cut]
        /\ node' = LinkLeft(n, leaf,
              [node EXCEPT ![leaf].keys = SubSeq(keys, cut + 1, LeafCap + 1), ![leaf].llink = n,
                           ![n] = [EmptyNode(0) EXCEPT !.keys = SubSeq(keys, 1, cut),
                                                       !.llink = old.llink, !.rlink = leaf]])
    /\ LowLeaf(n, leaf)
    /\ TakeNode
    /\ pNewLeaf' = n
    /\ UNCHANGED <<pos, errno>>

\* All keys of the leaf are equal to the new one: the leaf becomes an overflow
\* leaf of the new leaf, and what has to be done above depends on who was the
\* leaf's bound.
OverflowTyp ==
    LET leaf == node[op.revLeaf] IN
    IF op.match THEN "RepWithNewLink"
    ELSE IF op.bound = 0 THEN "Ins"
    ELSE IF "DupCutRight" \notin leaf.flags THEN "RepWithNewKey"
    ELSE IF IsPlaceholder(leaf.rlink) THEN "DelOrgLink_Ins" ELSE "RepWithRlink_Ins"

OverflowLeaf ==
    LET n == NewNode  leaf == op.revLeaf  old == node[leaf]  typ == OverflowTyp
        right == old.rlink
        cutRight == typ \in {"DelOrgLink_Ins", "RepWithRlink_Ins"}
        flags == (old.flags \ (IF cutRight THEN {"DupCutRight"} ELSE {})) \cup {"DupCutLeft"}
                 \cup (IF ~op.match /\ op.bound = 0 THEN {"EmptyRight"} ELSE {})
        linked == LinkLeft(n, leaf,
              [node EXCEPT ![leaf].flags = flags, ![leaf].llink = n,
                           ![n] = [EmptyNode(0) EXCEPT !.keys = <<op.k>>,
                                       !.llink = old.llink, !.rlink = leaf,
                                       !.flags = {"DupCutRight"}]])
    IN
    /\ op.pc = "split"
    /\ \A j \in 1..LeafCap : old.keys[j] = op.k
    /\ node' = IF cutRight THEN [linked EXCEPT ![right].flags = @ \ {"DupCutLeft", "EmptyRight"}]
               ELSE linked
    /\ LowLeaf(n, leaf)
    /\ TakeNode
    /\ pNewLeaf' = n
    /\ op' = [op EXCEPT !.pc = "up", !.level = 1, !.link = n, !.typ = typ, !.rlink = right,
                        !.revKeys = LeafCap, !.keyPos = LeafCap + 1]
    /\ UNCHANGED <<pos, errno>>

\* The branch node of a level on the way down.
Parent(level) == op.path[Len(op.path) + 1 - level]

\* A matching bound only gets a new link.
RepWithNewLink ==
    LET at == Parent(op.level) IN
    /\ op.pc = "up" /\ op.typ = "RepWithNewLink"
    /\ node' = [node EXCEPT ![at.n] = SetLink(@, at.p, op.link)]
    /\ Inserted(op)
    /\ UNCHANGED <<file, pNewLeaf, errno>>

\* The link to the old leaf is replaced and the old bound, wherever it is,
\* is deleted, to be replaced by the new one.
RepWithNewKey ==
    LET at == Parent(op.level)
        level == Len(op.path) - op.bound + 1
        top == Parent(level)
    IN
    /\ op.pc = "up" /\ op.typ = "RepWithNewKey"
    /\ node' = LET nds == [node EXCEPT ![at.n] = SetLink(@, at.p, op.link)]
               IN  [nds EXCEPT ![top.n] = DelKey(@, top.p)]
    /\ op' = [op EXCEPT !.typ = "Ins", !.level = level,
                        !.link = IF level = op.level THEN @ ELSE Parent(level - 1).n]
    /\ UNCHANGED <<tree, file, pos, pNewLeaf, errno>>

\* The leaf's bound now belongs to the leaf on its right, or, if that one
\* was a placeholder, to nobody.
RepWithRlink ==
    LET at == Parent(op.level) IN
    /\ op.pc = "up" /\ op.typ \in {"DelOrgLink_Ins", "RepWithRlink_Ins"}
    /\ op.typ = "DelOrgLink_Ins" /\ at.p = 0 => "link0" \in Faults
    /\ node' = [node EXCEPT ![at.n] = IF op.typ = "DelOrgLink_Ins" THEN DelKey(@, at.p)
                                      ELSE SetLink(@, at.p, op.rlink)]
    /\ op' = [op EXCEPT !.typ = "Ins"]
    /\ UNCHANGED <<tree, file, pos, pNewLeaf, errno>>

StoreBound ==
    LET n == Parent(op.level).n IN
    /\ op.pc = "up" /\ op.typ = "Ins" /\ op.level <= Len(op.path)
    /\ ~Full(node[n])
    /\ node' = [node EXCEPT ![n] = AddKey(@, op.k, op.link)]
    /\ Inserted(op)
    /\ UNCHANGED <<file, pNewLeaf, errno>>

\* The branch node is split: the key at the cut moves up, its link becomes
\* the new node's N_Rlink.
SplitBranch ==
    LET at == Parent(op.level).n  n == NewNode  all == AddKey(node[at], op.k, op.link) IN
    /\ op.pc = "up" /\ op.typ = "Ins" /\ op.level <= Len(op.path)
    /\ Full(node[at])
    /\ \E cut \in 1..BranchCap :
        /\ node' = [node EXCEPT
              ![at].keys = SubSeq(all.keys, cut + 1, BranchCap + 1),
              ![at].links = SubSeq(all.links, cut + 1, BranchCap + 1),
              ![n] = [EmptyNode(op.level) EXCEPT !.keys = SubSeq(all.keys, 1, cut - 1),
                                                 !.links = SubSeq(all.links, 1, cut - 1),
                                                 !.rlink = all.links[cut]]]
        /\ op' = [op EXCEPT !.level = @ + 1, !.k = all.keys[cut], !.link = n]
    /\ TakeNode
    /\ UNCHANGED <<tree, pos, pNewLeaf, errno>>

NewRoot ==
    LET n == NewNode IN
    /\ op.pc = "up" /\ op.level > Len(op.path)
    /\ TakeNode
    /\ node' = [node EXCEPT ![n] = AddKey([EmptyNode(op.level) EXCEPT !.rlink = tree.root],
                                          op.k, op.link)]
    /\ tree' = [tree EXCEPT !.root = n, !.numKeys = @ + 1]
    /\ pos' = [v \in Users |-> AddAdjusted(op, v)]
    /\ op' = Idle
    /\ UNCHANGED <<pNewLeaf, errno>>

-----------------------------------------------------------------------------
(* trx_DeleteKey(u)                                                        *)

\* The user's position, if it is one, and the deletion of its key.  flags, left
\* and right are the leaf's; place is rev_placeholder.
Target(u) == GetNodePos(pos[u], 0)
Deletion(u) ==
    LET leaf == Target(u).n IN
    [pc |-> "down", u |-> u, revLeaf |-> leaf, keyPos |-> Target(u).p, gone |-> FALSE,
     key |-> node[leaf].keys[1], flags |-> node[leaf].flags,
     left |-> node[leaf].llink, right |-> node[leaf].rlink, leftFlags |-> {},
     place |-> 0, path |-> <<>>, at |-> tree.root]
Positions(u) == [pos EXCEPT ![u] = Target(u)]
MayDelete(u) ==
    /\ Ready /\ Target(u) # NoPos
    /\ \/ "masked" \in Faults
       \/ \A v \in Users \ {u} : pos[v] # PosAt(Target(u).n, Mask)
       \/ Target(u).p < NumKeys(node[Target(u).n])

\* The call returns without an error.
DelAdjust(d, posns) == pos' = [v \in Users |-> DelAdjusted(d, posns[v])]
Deleted == DelAdjust(op, pos) /\ op' = Idle

\* The usual case: the leaf keeps another key.
DeleteInLeaf(u) ==
    LET d == Deletion(u)  leaf == d.revLeaf IN
    /\ MayDelete(u)
    /\ NumKeys(node[leaf]) > 1
    /\ node' = [node EXCEPT ![leaf] = DelKey(@, d.keyPos)]
    /\ tree' = [tree EXCEPT !.numKeys = @ - 1]
    /\ pNewLeaf' = IF d.keyPos = 1 THEN d.right ELSE pNewLeaf
    /\ DelAdjust(d, Positions(u))
    /\ UNCHANGED <<file, op, errno>>

\* The leaf goes: the leaves beside it are linked to each other and learn what
\* they are now.
\* Mutant: the leaf before a deleted trailing overflow leaf still has one.
Left_Overflows(d) == [node[d.left] EXCEPT !.rlink = d.right]
Left(d) ==
    LET nd == node[d.left]
        trailing == "DupCutLeft" \in d.flags /\ "DupCutRight" \notin d.flags
    IN  [nd EXCEPT !.rlink = d.right,
            !.flags = IF ~trailing THEN @
                      ELSE IF "EmptyRight" \in d.flags /\ "DupCutLeft" \in @
                      THEN {"DupCutLeft", "EmptyRight"} ELSE @ \ {"DupCutRight"}]
Right(d) ==
    [node[d.right] EXCEPT !.llink = d.left,
            !.flags = IF d.flags = {"DupCutRight"} THEN @ \cap {"DupCutRight"} ELSE @]
\* Mutant: the overflow leaf of a deleted leaf is never a placeholder.
Placeholder_Never(d) == 0
Placeholder(d) ==
    IF d.left # Null /\ {"DupCutLeft", "EmptyRight"} \subseteq d.flags
       /\ "DupCutRight" \notin d.flags THEN 1
    ELSE IF d.right # Null /\ d.flags = {"DupCutRight"} /\ IsPlaceholder(d.right) THEN 2
    ELSE 0

DeleteLeaf(u) ==
    LET d == Deletion(u)  leaf == d.revLeaf
        freed == Freed(leaf, node)
        nds1 == IF d.left = Null THEN freed ELSE [freed EXCEPT ![d.left] = Left(d)]
        nds2 == IF d.right = Null THEN nds1 ELSE [nds1 EXCEPT ![d.right] = Right(d)]
        call == [d EXCEPT !.gone = TRUE, !.place = Placeholder(d),
                          !.leftFlags = IF d.left = Null THEN {} ELSE node[d.left].flags]
        \* The last leaf of the tree, or an overflow leaf, which has no parent.
        done == \/ d.left = Null /\ d.right = Null
                \/ "DupCutLeft" \in d.flags /\ "EmptyRight" \notin d.flags
    IN
    /\ MayDelete(u)
    /\ NumKeys(node[leaf]) = 1
    /\ node' = nds2
    /\ GiveNode(leaf)
    /\ tree' = [root |-> IF d.left = Null /\ d.right = Null THEN Null ELSE tree.root,
                lowLeaf |-> IF d.left = Null THEN d.right ELSE tree.lowLeaf,
                highLeaf |-> IF d.right = Null THEN d.left ELSE tree.highLeaf,
                numKeys |-> tree.numKeys - 1]
    /\ pNewLeaf' = d.right
    /\ IF done THEN DelAdjust(call, Positions(u)) /\ op' = Idle
       ELSE pos' = Positions(u) /\ op' = call
    /\ UNCHANGED errno

\* One branch node of the descent to the parent of the deleted leaf.  link is
\* where the deleted leaf's key leads.
Here == node[op.at]
KeyPosHere == Position(Here, op.key)
LinkHere == LinkAt(Here, KeyPosHere)
IsRoot == op.path = <<>>
Descend(place, p) ==
    op' = [op EXCEPT !.path = Append(@, [n |-> op.at, p |-> p]), !.place = place,
                     !.pc = IF Here.level = 1 THEN "level1" ELSE "down",
                     !.at = IF Here.level = 1 THEN @ ELSE LinkHere]
PlaceAbove(place, n) == op.place = place /\ KeyPosHere = 1 /\ Here.rlink = n
Trim(n) == op' = [op EXCEPT !.pc = "trim", !.at = n]

\* The deleted leaf was a placeholder: its parent, found on the way down, gets
\* the overflow leaf on the left instead, or gives up its last key.
DropPlace ==
    /\ op.pc = "down" /\ Here.level > 0
    /\ PlaceAbove(1, op.revLeaf)
    /\ IF "DupCutLeft" \in op.leftFlags
       THEN node' = [node EXCEPT ![op.at].rlink = op.left] /\ Deleted
       ELSE IF IsRoot /\ NumKeys(Here) = 1
       THEN node' = [node EXCEPT ![op.at].rlink = LinkHere] /\ Trim(op.at) /\ UNCHANGED pos
       ELSE node' = [node EXCEPT ![op.at] = DelKey([@ EXCEPT !.rlink = LinkHere], 1)] /\ Deleted
    /\ UNCHANGED <<tree, file, pNewLeaf, errno>>

\* The leaf on the right was a placeholder and becomes a normal leaf.
ShiftPlace ==
    LET nd == DelKey([Here EXCEPT !.rlink = LinkHere], 1) IN
    /\ op.pc = "down" /\ Here.level > 0
    /\ PlaceAbove(2, op.right)
    /\ node' = [node EXCEPT ![op.at] = nd]
    /\ Descend(IF IsRoot /\ NumKeys(nd) = 0 THEN -2 ELSE -1, 0)
    /\ UNCHANGED <<tree, file, pos, pNewLeaf, errno>>

StepDown ==
    /\ op.pc = "down" /\ Here.level > 0
    /\ ~PlaceAbove(1, op.revLeaf) /\ ~PlaceAbove(2, op.right)
    /\ Descend(op.place, KeyPosHere)
    /\ UNCHANGED <<node, tree, file, pos, pNewLeaf, errno>>

\* At level 1, where op.at and the last of op.path are the parent.  The first
\* leaf of a set of duplicates hands its link to the next.
AtParent == op.pc = "level1" /\ op.place <= 0
HandLink ==
    LET p == Last(op.path).p IN
    /\ AtParent /\ "DupCutRight" \in op.flags
    /\ op.place < 0 => p = 0
    /\ node' = [node EXCEPT ![op.at] = SetLink(@, p, op.right)]
    /\ IF op.place = -2 THEN Trim(op.path[1].n) /\ UNCHANGED pos ELSE Deleted
    /\ UNCHANGED <<tree, file, pNewLeaf, errno>>

\* A normal leaf, or a branch node, is gone; the link to it goes too.
Removing == (AtParent /\ "DupCutRight" \notin op.flags) \/ op.pc = "remove"
AtRoot == Len(op.path) = 1
RemoveLink ==
    LET at == Last(op.path) IN
    /\ Removing /\ at.p > 0
    /\ IF AtRoot /\ NumKeys(node[at.n]) = 1
       THEN Trim(at.n) /\ UNCHANGED <<node, pos>>
       ELSE node' = [node EXCEPT ![at.n] = DelKey(@, at.p)] /\ Deleted
    /\ UNCHANGED <<tree, file, pNewLeaf, errno>>

\* It was N_Rlink: the node's last key goes, or, if the leaf on the left is an
\* overflow leaf, that one becomes a placeholder.
\* The overflow leaf is a placeholder already, of another branch node.
PlacedBefore ==
    /\ Removing /\ Last(op.path).p = 0 /\ NumKeys(node[Last(op.path).n]) > 0
    /\ {"DupCutLeft", "EmptyRight"} \subseteq op.leftFlags
RemoveRlink ==
    LET n == Last(op.path).n IN
    /\ "placed" \in Faults \/ ~PlacedBefore
    /\ Removing /\ Last(op.path).p = 0 /\ NumKeys(node[n]) > 0
    /\ IF "DupCutLeft" \in op.leftFlags
       THEN /\ node' = [node EXCEPT ![n].rlink = op.left,
                                    ![op.left].flags = {"DupCutLeft", "EmptyRight"}]
            /\ Deleted
       ELSE LET nd == [node[n] EXCEPT !.rlink = LinkAt(node[n], 1)] IN
            IF AtRoot /\ NumKeys(nd) = 1
            THEN node' = [node EXCEPT ![n] = nd] /\ Trim(n) /\ UNCHANGED pos
            ELSE node' = [node EXCEPT ![n] = DelKey(nd, 1)] /\ Deleted
    /\ UNCHANGED <<tree, file, pNewLeaf, errno>>

\* It was the node's only link: the node goes too.
RemoveBranch ==
    LET n == Last(op.path).n IN
    /\ Removing /\ Last(op.path).p = 0 /\ NumKeys(node[n]) = 0
    /\ ~AtRoot
    /\ node' = Freed(n, node)
    /\ GiveNode(n)
    /\ op' = [op EXCEPT !.pc = "remove", !.path = Front(@)]
    /\ UNCHANGED <<tree, pos, pNewLeaf, errno>>

\* A root with one link is freed, and so are the nodes below it.
TrimLevel ==
    LET child == node[op.at].rlink IN
    /\ op.pc = "trim"
    /\ node' = Freed(op.at, node)
    /\ GiveNode(op.at)
    /\ IF NumKeys(node[child]) = 0
       THEN Trim(child) /\ UNCHANGED <<tree, pos>>
       ELSE tree' = [tree EXCEPT !.root = child] /\ Deleted
    /\ UNCHANGED <<pNewLeaf, errno>>

-----------------------------------------------------------------------------
(* Positioning, failures and the specification.                            *)

FirstKey(u) == SetPos(u, IF tree.lowLeaf = Null THEN NoPos
                      ELSE PosAt(tree.lowLeaf, NumKeys(node[tree.lowLeaf])))
LastKey(u) == SetPos(u, LeafEnd(tree.highLeaf, 1))

\* trx_Skip, trx_Next and trx_Prev: m is the position wanted, counted in leaf n.
RECURSIVE Walk(_, _, _)
Walk(n, m, max) ==
    IF n = Null \/ max = 0 THEN NoPos
    ELSE IF m \in 1..NumKeys(node[n]) THEN PosAt(n, m)
    ELSE IF m > 0 THEN Walk(node[n].llink, m - NumKeys(node[n]), max - 1)
    ELSE LET r == node[n].rlink IN
         Walk(r, m + (IF r = Null THEN 0 ELSE NumKeys(node[r])), max - 1)
Dists == -2..2
Skipped(u, dist) ==
    LET dir == IF dist > 0 THEN 1 ELSE IF dist < 0 THEN -1 ELSE 0
        q == GetNodePos(pos[u], dir)
    IN  IF q = NoPos THEN q ELSE Walk(q.n, q.p + dir - dist, MaxNodes)
Skip(u, dist) == SetPos(u, Skipped(u, dist))

\* trx_Find(u, k).
Found(k) ==
    LET leaf == LeafOf(PathTo(k))
        n == IF leaf = Null \/ Position(node[leaf], k) > 0 THEN leaf ELSE node[leaf].rlink
    IN  IF n = Null THEN NoPos ELSE PosAt(n, Position(node[n], k))
Find(u, k) == SetPos(u, Found(k))

\* A node cannot be read, or a buffer not be written back (Cf.Errno): the call
\* ends where it is and no later one uses the tree.
Fail ==
    /\ ~errno
    /\ errno' = TRUE
    /\ op' = Idle
    /\ UNCHANGED <<node, tree, file, pos, pNewLeaf>>
Refuse == errno /\ UNCHANGED vars

InsertKey(u, k) == InsertDup(u, k) \/ InsertRoom(u, k) \/ StartGrow(u, k)
InsertStep ==
    \/ InsertFirst \/ FillPlace \/ RaisePlace \/ LinkPlace \/ SplitLeaf \/ OverflowLeaf
    \/ RepWithNewLink \/ RepWithNewKey \/ RepWithRlink \/ StoreBound \/ SplitBranch \/ NewRoot
DeleteKey(u) == DeleteInLeaf(u) \/ DeleteLeaf(u)
DeleteStep ==
    \/ DropPlace \/ ShiftPlace \/ StepDown \/ HandLink \/ RemoveLink \/ RemoveRlink
    \/ RemoveBranch \/ TrimLevel

Next ==
    \/ \E u \in Users :
        \/ \E k \in Keys : InsertKey(u, k) \/ Find(u, k)
        \/ DeleteKey(u) \/ FirstKey(u) \/ LastKey(u)
        \/ \E dist \in Dists : Skip(u, dist)
    \/ InsertStep \/ DeleteStep \/ Fail \/ Refuse

Spec == Init /\ [][Next]_vars

-----------------------------------------------------------------------------
(* Properties.                                                             *)

\* The nodes from n along N_Rlink: leaves, or the free list.
RECURSIVE Rightward(_, _)
Rightward(n, max) ==
    IF n = Null \/ max = 0 THEN <<>> ELSE <<n>> \o Rightward(node[n].rlink, max - 1)
Leaves == Rightward(tree.lowLeaf, MaxNodes)
FreeNodes == Rightward(file.firstFree, MaxNodes)

\* The keys from leaf n to the right.
RECURSIVE KeysFrom(_, _)
KeysFrom(n, max) ==
    IF n = Null \/ max = 0 THEN <<>> ELSE node[n].keys \o KeysFrom(node[n].rlink, max - 1)

Children(n) == ToSet(node[n].links) \cup {node[n].rlink}
RECURSIVE BranchesBelow(_, _)
BranchesBelow(S, max) ==
    IF S = {} \/ max = 0 THEN {}
    ELSE S \cup BranchesBelow({m \in UNION {Children(n) : n \in S} : node[m].level > 0}, max - 1)
Branches == BranchesBelow({n \in {tree.root} \ {Null} : node[n].level > 0}, MaxNodes)

\* Every variable has its type; a leaf and a branch node in use hold no more
\* than fits (_trx_Btsto's test for room), and no position is past a leaf's
\* capacity.
TypeOK ==
    /\ node \in [Nodes -> [level : -1..MaxNodes, keys : Seq(Keys), links : Seq(Nodes),
                           rlink : Nodes \cup {Null}, llink : Nodes \cup {Null},
                           flags : SUBSET Flags]]
    /\ \A n \in Nodes : node[n].level >= 0 =>
          NumKeys(node[n]) <= IF node[n].level = 0 THEN LeafCap ELSE BranchCap
    /\ tree \in [root : Nodes \cup {Null}, lowLeaf : Nodes \cup {Null},
                 highLeaf : Nodes \cup {Null}, numKeys : 0..MaxKeys]
    /\ file.numNodes \in 0..MaxNodes /\ file.preWrite \in Nat
    /\ file.numFree \in 0..file.numNodes /\ file.firstFree \in Nodes \cup {Null}
    /\ \A u \in Users : pos[u].n \in Nodes \cup {Null} /\ pos[u].p \in 0..LeafCap \cup {Mask}
    /\ pNewLeaf \in Nodes \cup {Null}
    /\ errno \in BOOLEAN

\* The flags of a leaf say what it is: DupCutRight, its overflow leaf is on its
\* right; DupCutLeft, it is an overflow leaf, and has no parent; EmptyRight, it
\* is the last of them and has one, at whose N_Rlink it holds a place.
LeafInv(n, linked) ==
    LET nd == node[n] IN
    /\ nd.level = 0 /\ nd.keys # <<>>
    /\ nd.rlink # Null => node[nd.rlink].llink = n
    /\ "DupCutRight" \in nd.flags <=> nd.rlink # Null /\ "DupCutLeft" \in node[nd.rlink].flags
    /\ n \in linked <=> ~("DupCutLeft" \in nd.flags /\ "EmptyRight" \notin nd.flags)
    /\ "EmptyRight" \in nd.flags => nd.flags = {"DupCutLeft", "EmptyRight"}
BranchInv(b) ==
    LET nd == node[b]  children == Children(b) IN
    /\ \A i, j \in DOMAIN nd.keys : i < j => nd.keys[i] < nd.keys[j]
    /\ Cardinality(children) = NumKeys(nd) + 1 /\ Null \notin children
    /\ \A m \in children : node[m].level = nd.level - 1 \/ (m = nd.rlink /\ IsPlaceholder(m))
    /\ b = tree.root => NumKeys(nd) > 0
\* Between calls the leaves are a doubly linked list from LowLeaf to HighLeaf
\* with the tree's NumKeys keys, their flags are true, every branch node has
\* one more link than bounds, all links of level 1 lead to leaves and those of
\* a higher level to nodes of the next one (a placeholder apart), no node has
\* two parents, and a root that is a branch has two links (trxins.c and trxdel.c
\* keep this up with breakpoints, flags and rev_placeholder).
TreeInv ==
    Ready =>
        LET leaves == Leaves
            branches == Branches
            linked == {tree.root} \cup UNION {Children(b) : b \in branches}
        IN
        /\ \A n \in ToSet(leaves) : LeafInv(n, linked)
        /\ \A b \in branches : BranchInv(b)
        /\ \A b, c \in branches : b = c \/ Children(b) \cap Children(c) = {}
        /\ tree.root = Null <=> leaves = <<>>
        /\ leaves # <<>> => /\ node[tree.lowLeaf].llink = Null
                            /\ Last(leaves) = tree.highLeaf
        /\ tree.numKeys = Len(KeysFrom(tree.lowLeaf, MaxNodes))

\* Every node of the file is used by the tree or free, and not both; the free
\* ones are linked from FirstFreeNode through N_Rlink, as many as NumFreeNodes
\* (_trx_FreeNode, _trx_NewNode).
NodesAccounted ==
    Ready =>
        LET used == ToSet(Leaves) \cup Branches
            list == FreeNodes
            free == ToSet(list)
        IN
        /\ used \cap free = {} /\ used \cup free = 1..file.numNodes
        /\ Len(list) = file.numFree /\ Cardinality(free) = file.numFree
        /\ \A n \in free : node[n].level = -1

\* The places where a call returns FORMAT_ERROR(): trxins.c:276, trxfind.c:43,
\* and trxdel.c:271, 305, 315 and 371, in this order.
FormatError ==
    \/ Ready /\ \E k \in Keys :
        LET path == PathTo(k)  leaf == LeafOf(path) IN
        \/ IsPlaceholder(leaf) /\ (path = <<>> \/ Last(path).p > 0)
        \/ leaf # Null /\ Position(node[leaf], k) = 0 /\ node[leaf].rlink # Null
           /\ Position(node[node[leaf].rlink], k) = 0
    \/ op # Idle /\ \/ op.pc = "down" /\ Here.level <= 0
                    \/ op.pc = "level1" /\ op.place > 0
                    \/ op.pc = "level1" /\ op.place < 0
                       /\ ~("DupCutRight" \in op.flags /\ Last(op.path).p = 0)
                    \/ Removing /\ Last(op.path).p = 0 /\ NumKeys(node[Last(op.path).n]) = 0 /\ AtRoot

\* No sequence of calls brings the library to report a corrupted tree.
NoFormatError == ~FormatError

\* A leaf that is made a placeholder is not one yet (trxdel.c:356, an assertion
\* of the test build).
PlacedOnce == ~PlacedBefore

\* The file grows only when a call has not changed anything yet: what
\* _trx_IncPreWrite() reserved is enough for all the nodes the insertion takes,
\* so that a full disk never stops it half-way (trxins.c:354-358, 534-536).
FileSize == file.numNodes + file.preWrite
GrowsFirst == [][FileSize' # FileSize => op = Idle /\ UNCHANGED node]_vars

-----------------------------------------------------------------------------
\* The positions as they will be when the running call is done.
CallPos(u) ==
    IF op = Idle \/ op.pc \in {"first", "place", "split"} THEN pos[u]
    ELSE IF op.pc \in {"raise", "up"} THEN AddAdjusted(op, u) ELSE DelAdjusted(op, pos[u])

\* The rank of a position in the list of keys, counted from the first.
RECURSIVE CountFrom(_, _)
CountFrom(n, max) ==
    IF n = Null \/ max = 0 THEN 0 ELSE NumKeys(node[n]) + CountFrom(node[n].rlink, max - 1)
RankOf(q) ==
    CountFrom(tree.lowLeaf, MaxNodes) + 1
    - (IF q.p = 0 \/ q.n = Null THEN 0
       ELSE CountFrom(node[q.n].rlink, MaxNodes) + Lower(q.p, NumKeys(node[q.n])))
Cursor(u) ==
    LET q == CallPos(u) IN
    IF q = NoPos THEN [rank |-> 0, is |-> "unset"]
    ELSE [rank |-> RankOf(q), is |-> IF q.gap THEN "gap" ELSE "at"]

\* Wherever a user is, trx_Find() leads to the first key not less than k, or to
\* none if there is none, and trx_Skip() to the key dist keys further, a gap
\* being a place between two keys (trxfind.c:10-12, trxskip.c:6-17).
MovesRight ==
    Ready =>
        LET keys == KeysFrom(tree.lowLeaf, MaxNodes)
            Hits(q, r) == IF r \in DOMAIN keys THEN q # NoPos /\ RankOf(q) = r ELSE q = NoPos
        IN
        /\ \A k \in Keys : Hits(Found(k), 1 + Cardinality({i \in DOMAIN keys : keys[i] < k}))
        /\ \A u \in Users, dist \in Dists :
              LET c == Cursor(u) IN
              Hits(Skipped(u, dist),
                   IF c.is = "unset" \/ (c.is = "gap" /\ dist = 0) THEN 0
                   ELSE c.rank + dist - (IF c.is = "gap" /\ dist > 0 THEN 1 ELSE 0))

\* The tree is a list of its users' keys: a call that is split into many steps
\* changes the list and every position at once, with its step at the leaves, and
\* what the steps above the leaves do is not seen.
List == INSTANCE KeyList WITH
    list <- KeysFrom(tree.lowLeaf, MaxNodes), cursor <- [u \in Users |-> Cursor(u)],
    broken <- errno
KeyListSpec == List!Spec
=============================================================================
