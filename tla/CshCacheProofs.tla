--------------------------- MODULE CshCacheProofs ---------------------------
(***************************************************************************)
(* Proofs about the buffer cache, for any number of buffers, files,        *)
(* records and contents, when no buffer is ever locked (the DBF and TRX    *)
(* libraries; with locks OneBuffer does not hold, see csh_lock_two).       *)
(*                                                                         *)
(* ChainInv and OneBuffer are not inductive alone: a search is spread over *)
(* several steps, so what it has found so far (SearchInv) is part of the   *)
(* invariant, and the files' hash bases may only change while no buffer    *)
(* depends on them (AttachInv).                                            *)
(***************************************************************************)
EXTENDS CshCache, TLAPS

GetPcs == {"find", "collide", "lru", "link", "fill"}

\* What the running call has in its variables.
CallInv ==
  /\ call.pc \in GetPcs => /\ call.f \in Files /\ call.r \in Recs
                           /\ call.op = "get"
  /\ call.pc \in {"find", "collide", "fill", "mark", "drop"} => call.hp \in Bufs
  /\ call.pc \in {"lru", "link"} => call.i \in Bufs
  /\ call.pc = "insert" \/ call.op \in {"detach", "attach"} => call.f \in Files
  /\ call.pc = "find" => call.nexthp = Nil
  /\ call.pc \in {"collide", "lru", "link"} => call.nexthp \in {Nil, call.hp}

NoLocks == \A b \in Bufs : locks[b] = 0

\* A buffer no file owns and one that is free are the same thing, but for the
\* one a running call is just filling.
FreeInv ==
  \A b \in Bufs :
    status[b] = "Free" => file[b] = NoFile \/ (call.pc = "fill" /\ call.hp = b)

\* Only attached files own buffers, so no buffer's slot moves when a file gets
\* its hash base; the purge that precedes detaching has left nothing behind.
AttachInv ==
  /\ \A b \in Bufs : file[b] # NoFile => IsAttached(file[b])
  /\ call.pc \in GetPcs => IsAttached(call.f)
  /\ call.pc = "insert" => \A b \in Bufs : file[b] # call.f
  /\ call.pc = "purge" => \A b \in Bufs : b < call.i => ~Concerns(b)

Target == Slot(call.f, call.r)
BeforeTarget(b) == Less(file[b], recno[b], call.f, call.r)
AfterTarget(b) == Less(call.f, call.r, file[b], recno[b])

\* hp and nexthp mark the place of the record asked for in its chain.
PlaceFound ==
  /\ file[call.hp] # NoFile /\ SlotOf(call.hp) = Target
  /\ IF call.nexthp = Nil
     THEN /\ BeforeTarget(call.hp)
          /\ \A c \in Bufs : SameSlot(call.hp, c) => ~KeyLess(call.hp, c)
     ELSE /\ AfterTarget(call.hp)
          /\ \A c \in Bufs : SameSlot(call.hp, c) /\ KeyLess(c, call.hp) => BeforeTarget(c)

\* What the search for a record has established at each point.
SearchInv ==
  /\ call.pc = "find" =>
       /\ file[call.hp] # NoFile /\ SlotOf(call.hp) = Target
       /\ \A c \in Bufs : SameSlot(call.hp, c) /\ KeyLess(c, call.hp) => BeforeTarget(c)
  /\ call.pc = "collide" => PlaceFound
  /\ call.pc \in {"lru", "link"} =>
       IF call.hp = Nil
       THEN \A b \in Bufs : file[b] # NoFile => SlotOf(b) # Target
       ELSE PlaceFound
  /\ call.pc = "lru" => call.i = mru /\ call.hp # nextMru[mru]
  /\ call.pc = "link" => file[call.i] = NoFile

TypeInv == TypeOK /\ CallInv

IInv ==
  /\ TypeInv /\ NoLocks /\ FreeInv /\ AttachInv
  /\ ChainInv /\ OneBuffer /\ SearchInv

-----------------------------------------------------------------------------
(* Lemmas about the helpers.                                               *)

\* A slot is the number of a buffer.
LEMMA SlotInBufs ==
  ASSUME TypeOK, NEW f \in Files, NEW r \in Recs PROVE Slot(f, r) \in Bufs
<1>1. hashBase[f] \in Int /\ r \in Int
  BY RecsAssumption DEF TypeOK, FilesType
<1>2. \A x \in Int : x % Bufcnt \in Bufs
  BY BufcntAssumption DEF Bufs
<1>3. hashBase[f] + r \in Int
  BY <1>1
<1> QED BY <1>2, <1>3 DEF Slot

\* A value occurs in a sequence.
In(x, s) == \E j \in DOMAIN s : s[j] = x

\* What occurs in one of two sequences occurs in their concatenation.
LEMMA InConcat ==
  ASSUME NEW S, NEW s \in Seq(S), NEW t \in Seq(S), NEW x
  PROVE  /\ s \o t \in Seq(S)
         /\ In(x, s) \/ In(x, t) => In(x, s \o t)
<1>1. /\ s \o t \in Seq(S) /\ Len(s \o t) = Len(s) + Len(t)
      /\ \A j \in 1..Len(s) : (s \o t)[j] = s[j]
      /\ \A j \in 1..Len(t) : (s \o t)[Len(s) + j] = t[j]
  OBVIOUS
<1>2. ASSUME NEW j \in DOMAIN s, s[j] = x PROVE In(x, s \o t)
  <2>1. j \in DOMAIN (s \o t) /\ (s \o t)[j] = x
    BY <1>1, <1>2
  <2> QED BY <2>1 DEF In
<1>3. ASSUME NEW j \in DOMAIN t, t[j] = x PROVE In(x, s \o t)
  <2>1. Len(s) + j \in DOMAIN (s \o t) /\ (s \o t)[Len(s) + j] = x
    BY <1>1, <1>3
  <2> QED BY <2>1 DEF In
<1> QED BY <1>1, <1>2, <1>3 DEF In

\* What occurs in a sequence occurs before or after any of its positions, or
\* at it.
LEMMA InSplit ==
  ASSUME NEW S, NEW s \in Seq(S), NEW x, In(x, s), NEW n \in 1..Len(s)
  PROVE  \/ In(x, SubSeq(s, 1, n - 1))
         \/ s[n] = x
         \/ In(x, SubSeq(s, n + 1, Len(s)))
<1>1. PICK j \in 1..Len(s) : s[j] = x
  BY DEF In
<1>2. CASE j < n
  <2>1. j \in DOMAIN SubSeq(s, 1, n - 1) /\ SubSeq(s, 1, n - 1)[j] = x
    BY <1>1, <1>2
  <2> QED BY <2>1 DEF In
<1>3. CASE j > n
  <2> DEFINE t == SubSeq(s, n + 1, Len(s))
  <2>1. Len(t) = Len(s) - n /\ DOMAIN t = 1..Len(t)
        /\ \A k \in 1..Len(t) : t[k] = s[n + k]
    OBVIOUS
  <2>2. j - n \in 1..Len(t) /\ n + (j - n) = j
    BY <1>1, <1>3, <2>1
  <2> HIDE DEF t
  <2>3. t[j - n] = x
    BY <1>1, <2>1, <2>2
  <2> QED BY <2>1, <2>2, <2>3 DEF In, t
<1> QED BY <1>1, <1>2, <1>3

\* Detaching a file leaves the others attached.
LEMMA LeaveCacheType ==
  ASSUME attached \in Seq(Files), NEW f \in Files, LeaveCache(f)
  PROVE  /\ attached' \in Seq(Files)
         /\ \A g \in Files : g # f /\ IsAttached(g) => IsAttached(g)'
<1>1. PICK i \in DOMAIN attached :
        /\ attached[i] = f
        /\ attached' = SubSeq(attached, 1, i - 1) \o SubSeq(attached, i + 1, Len(attached))
  BY DEF LeaveCache
<1>2. i \in 1..Len(attached)
  OBVIOUS
<1>3. /\ SubSeq(attached, 1, i - 1) \in Seq(Files)
      /\ SubSeq(attached, i + 1, Len(attached)) \in Seq(Files)
  BY <1>2
<1>4. ASSUME NEW g \in Files, g # f, IsAttached(g)
      PROVE  IsAttached(g)'
  <2>1. In(g, attached)
    BY <1>4 DEF IsAttached, In
  <2>2. \/ In(g, SubSeq(attached, 1, i - 1))
        \/ In(g, SubSeq(attached, i + 1, Len(attached)))
    BY <1>1, <1>2, <1>4, <2>1, InSplit
  <2>3. In(g, attached')
    BY <1>1, <1>3, <2>2, InConcat
  <2> QED BY <2>3 DEF IsAttached, In
<1> QED BY <1>1, <1>3, <1>4, InConcat

\* Attaching a file gives it a hash base, and leaves the other files attached
\* and their hash bases alone.
LEMMA InsertFileType ==
  ASSUME TypeInv, InsertFile
  PROVE  /\ attached' \in Seq(Files)
         /\ hashBase' \in [Files -> Int]
         /\ \A g \in Files : g # call.f => hashBase'[g] = hashBase[g]
         /\ \A g \in Files : IsAttached(g) => IsAttached(g)'
<1> DEFINE f == call.f
<1>1. /\ f \in Files /\ attached \in Seq(Files) /\ hashBase \in [Files -> Int]
      /\ Bufcnt \in Nat
  BY BufcntAssumption DEF InsertFile, TypeInv, TypeOK, FilesType, CallInv
<1>2. CASE attached = <<>> /\ attached' = <<f>> /\ hashBase' = [hashBase EXCEPT ![f] = 0]
  BY <1>1, <1>2 DEF IsAttached
<1>3. ASSUME NEW m \in DOMAIN attached,
             LET base == hashBase[attached[m]] + Width(Len(attached)) \div 2 IN
             IF base >= Bufcnt
             THEN /\ attached' = <<f>> \o attached
                  /\ hashBase' = [hashBase EXCEPT ![f] = base - Bufcnt]
             ELSE /\ attached' = SubSeq(attached, 1, m) \o <<f>>
                                   \o SubSeq(attached, m + 1, Len(attached))
                  /\ hashBase' = [hashBase EXCEPT ![f] = base]
      PROVE  /\ attached' \in Seq(Files)
             /\ hashBase' \in [Files -> Int]
             /\ \A g \in Files : g # f => hashBase'[g] = hashBase[g]
             /\ \A g \in Files : IsAttached(g) => IsAttached(g)'
  <2> DEFINE base == hashBase[attached[m]] + Width(Len(attached)) \div 2
  <2>1. m \in 1..Len(attached) /\ Len(attached) \in Nat
    BY <1>1
  <2>2. Width(Len(attached)) = hashBase[attached[1]] + Bufcnt - hashBase[attached[Len(attached)]]
    BY <1>1, <2>1 DEF Width
  <2>3. base \in Int
    <3>1. attached[1] \in Files /\ attached[m] \in Files /\ attached[Len(attached)] \in Files
      BY <1>1, <2>1
    <3>2. Width(Len(attached)) \in Int /\ hashBase[attached[m]] \in Int
      BY <1>1, <2>2, <3>1
    <3> HIDE DEF base
    <3> QED BY <3>2 DEF base
  <2> HIDE DEF base
  <2>4. CASE base >= Bufcnt
    <3>1. attached' = <<f>> \o attached /\ hashBase' = [hashBase EXCEPT ![f] = base - Bufcnt]
      BY <1>3, <2>4 DEF base
    <3>2. <<f>> \in Seq(Files)
      BY <1>1
    <3>3. attached' \in Seq(Files) /\ \A g \in Files : In(g, attached) => In(g, attached')
      BY <1>1, <3>1, <3>2, InConcat
    <3>4. \A g \in Files : IsAttached(g) => IsAttached(g)'
      BY <3>3 DEF IsAttached, In
    <3>5. base - Bufcnt \in Int
      BY <1>1, <2>3
    <3> QED BY <1>1, <3>1, <3>3, <3>4, <3>5
  <2>5. CASE ~(base >= Bufcnt)
    <3> DEFINE before == SubSeq(attached, 1, m)
               after == SubSeq(attached, m + 1, Len(attached))
    <3>1. attached' = (before \o <<f>>) \o after /\ hashBase' = [hashBase EXCEPT ![f] = base]
      BY <1>3, <2>5 DEF base
    <3>2. before \in Seq(Files) /\ after \in Seq(Files) /\ <<f>> \in Seq(Files)
      BY <1>1, <2>1
    <3>3. ASSUME NEW g \in Files, In(g, attached)
          PROVE  In(g, before) \/ In(g, after)
      <4>1. CASE In(g, SubSeq(attached, 1, m - 1))
        <5>1. PICK j \in DOMAIN SubSeq(attached, 1, m - 1) : SubSeq(attached, 1, m - 1)[j] = g
          BY <4>1 DEF In
        <5>2. j \in 1..(m - 1) /\ attached[j] = g
          BY <1>1, <2>1, <5>1
        <5>3. j \in DOMAIN before /\ before[j] = g
          BY <1>1, <2>1, <5>2
        <5> QED BY <5>3 DEF In
      <4>2. CASE attached[m] = g
        <5>1. m \in DOMAIN before /\ before[m] = g
          BY <1>1, <2>1, <4>2
        <5> QED BY <5>1 DEF In
      <4> QED BY <1>1, <2>1, <3>3, <4>1, <4>2, InSplit
    <3> HIDE DEF before, after
    <3>4. /\ before \o <<f>> \in Seq(Files)
          /\ \A g \in Files : In(g, before) => In(g, before \o <<f>>)
      BY <3>2, InConcat
    <3>5. /\ attached' \in Seq(Files)
          /\ \A g \in Files : In(g, attached) => In(g, attached')
      BY <3>1, <3>2, <3>3, <3>4, InConcat
    <3> QED BY <1>1, <2>3, <3>1, <3>5 DEF IsAttached, In
  <2> QED BY <2>3, <2>4, <2>5, BufcntAssumption
<1> QED BY <1>2, <1>3 DEF InsertFile

\* Numbers of buffers are numbers.
LEMMA BufsFacts ==
  /\ Nil \notin Bufs /\ Bufs \subseteq 0..Bufcnt /\ Bufs \subseteq Int /\ 0 \in Bufs
  /\ 0 \in 0..Bufcnt
  /\ \A b \in Bufs : b + 1 \in 0..Bufcnt
BY BufcntAssumption DEF Bufs, Nil

-----------------------------------------------------------------------------
(* Types.                                                                  *)

\* What an action leaves alone keeps its type.
LEMMA UnchangedTypes ==
  ASSUME TypeOK
  PROVE  /\ UNCHANGED ring => RingType'
         /\ UNCHANGED <<prevMru, nextMru>> /\ mru' \in Bufs => RingType'
         /\ UNCHANGED hash => HashType'
         /\ UNCHANGED owner => OwnerType'
         /\ UNCHANGED content => ContentType'
         /\ UNCHANGED files => FilesType'
         /\ UNCHANGED storage => StorageType'
         /\ UNCHANGED caller => CallerType'
         /\ UNCHANGED locks => locks' \in [Bufs -> Nat]
         /\ UNCHANGED call => call' \in CallType
BY DEF TypeOK, RingType, HashType, OwnerType, ContentType, FilesType, StorageType, CallerType,
  ring, hash, owner, content, files, storage, caller

\* Taking a buffer out of its chain, writing one back and making one the Mru
\* keep the types of the variables they change.
LEMMA UnlinkType ==
  ASSUME TypeOK, NEW b \in Bufs, Unlink(b)
  PROVE  HashType' /\ OwnerType' /\ ContentType' /\ locks' \in [Bufs -> Nat]
<1>1. HashType'
  BY DEF TypeOK, HashType, Unlink, hash
<1>2. OwnerType' /\ ContentType' /\ locks' \in [Bufs -> Nat]
  BY DEF TypeOK, OwnerType, ContentType, Unlink
<1> QED BY <1>1, <1>2

\* Writing a record keeps the types.
LEMMA WriteType ==
  ASSUME TypeOK, NEW b \in Bufs, WriteIfUpdated(b)
  PROVE  StorageType'
<1>1. CASE UNCHANGED storage
  BY <1>1, UnchangedTypes
<1>2. ASSUME NEW ok \in BOOLEAN,
        disk' = (IF ok THEN [disk EXCEPT ![file[b]][recno[b]] = data[b]] ELSE disk),
        errno' = [errno EXCEPT ![file[b]] = IF file[b] \in CustomXfr THEN ~ok ELSE @ \/ ~ok]
      PROVE  StorageType'
  <2>1. errno' \in [Files -> BOOLEAN]
    BY <1>2 DEF TypeOK, StorageType
  <2>2. data[b] \in Data \cup {Absent}
    BY DEF TypeOK, ContentType
  <2>3. disk' \in [Files -> [Recs -> Data \cup {Absent}]]
    BY <1>2, <2>2 DEF TypeOK, StorageType
  <2> QED BY <2>1, <2>3 DEF StorageType
<1> QED BY <1>1, <1>2 DEF WriteIfUpdated, WriteRecord

\* So does flushing a header.
LEMMA FlushHdrType ==
  ASSUME TypeOK, NEW b \in Bufs, FlushHdr(b)
  PROVE  StorageType' /\ status' \in [Bufs -> {"Free", "InUse", "Updated"}]
BY WriteType DEF TypeOK, ContentType, FlushHdr

\* Making a buffer the Mru keeps the types of the ring.
LEMMA MakeMruType ==
  ASSUME TypeOK, NEW b \in Bufs, MakeMru(b)
  PROVE  RingType'
BY DEF TypeOK, RingType, MakeMru

\* So does stepping back from a purged Mru.
LEMMA StepBackType ==
  ASSUME TypeOK, NEW b \in Bufs, StepBackMru(b)
  PROVE  mru' \in Bufs
BY DEF TypeOK, RingType, StepBackMru

\* A returning call is idle, and the handles are those of buffers.
LEMMA IdleType == Idle \in CallType /\ (call = Idle => CallInv)
BY BufsFacts DEF Idle, CallType, CallInv, GetPcs

\* The types of a call that returns no handle.
LEMMA ReturnNullType ==
  ASSUME TypeOK, ReturnNull PROVE call' = Idle /\ CallerType'
BY DEF ReturnNull, Return, NoHandle, TypeOK, CallerType, HandleType

\* The types of a call that returns one.
LEMMA ReturnHandleType ==
  ASSUME TypeOK, NEW b \in Bufs, ReturnHandle(b) PROVE call' = Idle /\ CallerType'
<1>1. last' \in HandleType
  BY DEF ReturnHandle, Return, TypeOK, CallType, HandleType
<1>2. prior' \in HandleType
  BY DEF ReturnHandle, NoHandle, TypeOK, CallerType, HandleType
<1> QED BY <1>1, <1>2 DEF ReturnHandle, Return, TypeOK, CallerType

\* Which fields of the call record an action may change, to what.
LEMMA CallFields ==
  ASSUME call \in CallType, CallInv
  PROVE  /\ call.pc \in {"idle", "find", "collide", "lru", "link", "fill", "mark", "drop",
                          "flush", "purge", "insert"}
         /\ call.f \in Files \cup {NoFile} /\ call.r \in Recs \cup {0}
         /\ call.hp \in Bufs \cup {Nil} /\ call.nexthp \in Bufs \cup {Nil}
         /\ call.i \in 0..Bufcnt /\ call.fill \in Data \cup {Absent}
BY DEF CallType

\* TypeInv holds initially.
LEMMA InitType == Init => TypeInv
<1> SUFFICES ASSUME Init PROVE TypeInv
  OBVIOUS
<1>1. Bufcnt - 1 \in Bufs /\ 0 \in Bufs /\ \A b \in Bufs : b # 0 => b - 1 \in Bufs
  BY BufcntAssumption DEF Bufs
<1>2. \A b \in Bufs : b # Bufcnt - 1 => b + 1 \in Bufs
  BY BufcntAssumption DEF Bufs
<1>3. RingType /\ HashType
  BY <1>1, <1>2 DEF Init, RingType, HashType
<1>4. OwnerType /\ ContentType /\ FilesType /\ StorageType /\ locks \in [Bufs -> Nat]
  BY DEF Init, OwnerType, ContentType, FilesType, StorageType
<1>5. CallerType
  BY CallerAssumption DEF Init, CallerType, HandleType, NoHandle
<1>6. call \in CallType /\ CallInv
  BY IdleType DEF Init
<1> QED BY <1>3, <1>4, <1>5, <1>6 DEF TypeInv, TypeOK

\* A step keeps TypeInv.
LEMMA NextType == TypeInv /\ [Next]_vars => TypeInv'
<1> SUFFICES ASSUME TypeInv, [Next]_vars PROVE TypeInv'
  OBVIOUS
<1>0. TypeOK /\ CallInv /\ call \in CallType
  BY DEF TypeInv, TypeOK
<1>i. call' = Idle => call' \in CallType /\ CallInv'
  <2> SUFFICES ASSUME call' = Idle PROVE CallInv'
    BY IdleType
  <2> QED BY DEF Idle, CallInv, GetPcs
<1>1. ASSUME NEW f \in Files, NEW r \in Recs, NEW fill \in Data \cup {Absent},
             GetRecord(f, r, fill)
      PROVE  TypeInv'
  <2>1. hashTable[Slot(f, r)] \in Bufs \cup {Nil}
    BY <1>0, SlotInBufs DEF TypeOK, HashType
  <2>2. CASE errno[f] \/ ~IsAttached(f)
    <3>1. errno' = [errno EXCEPT ![f] = TRUE] /\ disk' = disk /\ ReturnNull
      BY <1>1, <2>2 DEF GetRecord
    <3>2. StorageType'
      BY <1>0, <3>1 DEF TypeOK, StorageType
    <3> QED BY <1>0, <1>1, <1>i, <3>1, <3>2, ReturnNullType, UnchangedTypes
      DEF GetRecord, TypeInv, TypeOK
  <2>3. CASE ~(errno[f] \/ ~IsAttached(f))
    <3>1. span' \in 0..LockSpan
      BY <1>0, <1>1, <2>3, CallerAssumption DEF GetRecord, TypeOK, CallerType
    <3>2. call' = [pc |-> IF hashTable[Slot(f, r)] = Nil THEN "lru" ELSE "find",
                   op |-> "get", f |-> f, r |-> r, fill |-> fill,
                   hp |-> hashTable[Slot(f, r)], nexthp |-> Nil, i |-> mru]
      BY <1>1, <2>3 DEF GetRecord, Idle
    <3>3. mru \in Bufs
      BY <1>0 DEF TypeOK, RingType
    <3>4. call' \in CallType /\ CallInv'
      BY <2>1, <3>2, <3>3, BufsFacts DEF CallType, CallInv, GetPcs
    <3>5. CallerType' /\ StorageType'
      BY <1>0, <1>1, <2>3, <3>1 DEF GetRecord, TypeOK, CallerType, StorageType
    <3> QED BY <1>0, <1>1, <3>4, <3>5, UnchangedTypes DEF GetRecord, TypeInv, TypeOK
  <2> QED BY <2>2, <2>3
<1>2. CASE FindNext
  <2>1. call.hp \in Bufs /\ nextHash[call.hp] \in Bufs
    BY <1>0, <1>2 DEF FindNext, CallInv, TypeOK, HashType
  <2>2. call' \in CallType /\ CallInv'
    BY <1>0, <1>2, <2>1 DEF FindNext, CallType, CallInv, GetPcs
  <2> QED BY <1>0, <1>2, <2>2, UnchangedTypes DEF FindNext, TypeInv, TypeOK
<1>3. CASE FindHit
  <2>1. call.hp \in Bufs
    BY <1>3, <1>0 DEF FindHit, CallInv
  <2>2. ContentType'
    BY <1>0, <1>3, <2>1, CallFields, UnchangedTypes DEF FindHit, TypeOK, ContentType
  <2> QED BY <1>0, <1>3, <1>i, <2>1, <2>2, MakeMruType, ReturnHandleType, UnchangedTypes
      DEF FindHit, TypeInv, TypeOK
<1>4. CASE FindMiss
  <2>1. call.hp \in Bufs
    BY <1>4, <1>0 DEF FindMiss, CallInv
  <2>2. call' \in CallType /\ CallInv'
    BY <1>0, <1>4, <2>1 DEF FindMiss, CallType, CallInv, GetPcs
  <2> QED BY <1>0, <1>4, <2>2, UnchangedTypes DEF FindMiss, TypeInv, TypeOK
<1>5. CASE ReuseNeighbour
  <2>1. call.hp \in Bufs /\ call.f \in Files /\ call.r \in Recs
    BY <1>5, <1>0 DEF ReuseNeighbour, CallInv, GetPcs
  <2>2. call' \in CallType /\ CallInv'
    BY <1>0, <1>5, <2>1 DEF ReuseNeighbour, CallType, CallInv, GetPcs
  <2>3. RingType' /\ OwnerType' /\ ContentType' /\ StorageType'
    BY <1>0, <1>5, <2>1, FlushHdrType, UnchangedTypes
    DEF ReuseNeighbour, TypeOK, OwnerType, ContentType
  <2> QED BY <1>0, <1>5, <2>2, <2>3, UnchangedTypes DEF ReuseNeighbour, TypeInv, TypeOK
<1>6. CASE TakeLru
  <2>1. mru \in Bufs
    BY <1>0 DEF TypeOK, RingType
  <2>2. call' \in CallType /\ CallInv'
    BY <1>0, <1>6, <2>1, BufsFacts DEF TakeLru, CallType, CallInv, GetPcs
  <2> QED BY <1>0, <1>6, <2>2, UnchangedTypes DEF TakeLru, TypeInv, TypeOK
<1>7. CASE NextMruSkip
  <2>1. nextMru[call.i] \in Bufs
    BY <1>0, <1>7 DEF NextMruSkip, CallInv, TypeOK, RingType
  <2>2. CASE nextMru[call.i] = mru
    <3>1. ReturnNull /\ errno' = [errno EXCEPT ![call.f] = TRUE] /\ disk' = disk
      BY <1>7, <2>2 DEF NextMruSkip
    <3>2. StorageType'
      BY <1>0, <3>1 DEF TypeOK, StorageType
    <3> QED BY <1>0, <1>7, <1>i, <3>1, <3>2, ReturnNullType, UnchangedTypes
      DEF NextMruSkip, TypeInv, TypeOK
  <2>3. CASE nextMru[call.i] # mru
    <3>1. call' = [call EXCEPT !.i = nextMru[call.i]] /\ UNCHANGED <<storage, caller>>
      BY <1>7, <2>3 DEF NextMruSkip, storage
    <3>2. call' \in CallType /\ CallInv'
      BY <1>0, <3>1, <2>1, BufsFacts DEF CallType, CallInv, GetPcs
    <3> QED BY <1>0, <1>7, <3>1, <3>2, UnchangedTypes DEF NextMruSkip, TypeInv, TypeOK
  <2> QED BY <2>2, <2>3
<1>8. CASE NextMruFree
  <2>1. nextMru[call.i] \in Bufs
    BY <1>0, <1>8 DEF NextMruFree, CallInv, TypeOK, RingType
  <2>2. call' \in CallType /\ CallInv'
    BY <1>0, <1>8, <2>1, BufsFacts DEF NextMruFree, CallType, CallInv, GetPcs
  <2> QED BY <1>0, <1>8, <2>1, <2>2, UnchangedTypes DEF NextMruFree, TypeInv, TypeOK
<1>9. CASE NextMruEvict
  <2>1. nextMru[call.i] \in Bufs
    BY <1>0, <1>9 DEF NextMruEvict, CallInv, TypeOK, RingType
  <2>2. call' \in CallType /\ CallInv'
    BY <1>0, <1>9, <2>1, BufsFacts DEF NextMruEvict, CallType, CallInv, GetPcs
  <2> QED BY <1>0, <1>9, <2>1, <2>2, UnlinkType, WriteType, UnchangedTypes
      DEF NextMruEvict, TypeInv, TypeOK
<1>10. CASE Link
  <2>1. call.i \in Bufs /\ call.f \in Files /\ call.r \in Recs
    BY <1>0, <1>10 DEF Link, CallInv, GetPcs
  <2>2. Target \in Bufs
    BY <1>0, <2>1, SlotInBufs DEF Target
  <2>3. HashType'
    BY <1>0, <1>10, <2>1, <2>2, CallFields DEF Link, LinkEmpty, LinkBefore, LinkLast, Target,
       TypeOK, HashType
  <2>4. call' \in CallType /\ CallInv'
    BY <1>0, <1>10, <2>1 DEF Link, CallType, CallInv, GetPcs
  <2>5. OwnerType'
    BY <1>0, <1>10, <2>1 DEF Link, TypeOK, OwnerType
  <2> QED BY <1>0, <1>10, <2>3, <2>4, <2>5, UnchangedTypes DEF Link, TypeInv, TypeOK
<1>11. CASE FillFail
  <2>1. call.hp \in Bufs
    BY <1>0, <1>11 DEF FillFail, CallInv
  <2>2. StorageType'
    BY <1>0, <1>11 DEF FillFail, TypeOK, StorageType
  <2> QED BY <1>0, <1>11, <1>i, <2>1, <2>2, UnlinkType, StepBackType, ReturnNullType,
      UnchangedTypes DEF FillFail, TypeInv, TypeOK
<1>12. CASE FillRead
  <2>1. call.hp \in Bufs /\ call.f \in Files /\ call.r \in Recs
    BY <1>0, <1>12 DEF FillRead, CallInv, GetPcs
  <2>2. ContentType'
    BY <1>0, <1>12, <2>1 DEF FillRead, TypeOK, ContentType, StorageType
  <2> QED BY <1>0, <1>12, <1>i, <2>1, <2>2, ReturnHandleType, UnchangedTypes
      DEF FillRead, TypeInv, TypeOK
<1>13. CASE FillNew
  <2>1. call.hp \in Bufs
    BY <1>0, <1>13 DEF FillNew, CallInv
  <2>2. ContentType'
    BY <1>0, <1>13, <2>1, CallFields DEF FillNew, TypeOK, ContentType
  <2> QED BY <1>0, <1>13, <1>i, <2>1, <2>2, ReturnHandleType, UnchangedTypes
      DEF FillNew, TypeInv, TypeOK
<1>14. CASE MarkHdr
  <2>1. ContentType'
    BY <1>0, <1>14, CallFields DEF MarkHdr, TypeOK, ContentType
  <2> QED BY <1>0, <1>14, <1>i, <2>1, UnchangedTypes DEF MarkHdr, Return, TypeInv, TypeOK
<1>15. CASE PurgeHdr
  <2>1. call.hp \in Bufs
    BY <1>0, <1>15 DEF PurgeHdr, CallInv
  <2> QED BY <1>0, <1>15, <1>i, <2>1, UnlinkType, StepBackType, ReturnNullType, UnchangedTypes
      DEF PurgeHdr, TypeInv, TypeOK
<1>16. CASE FlushStep
  <2>1. PICK b \in Bufs : FlushHdr(b) /\ call' = [call EXCEPT !.i = b + 1]
    BY <1>16 DEF FlushStep
  <2>2. call' \in CallType /\ CallInv'
    BY <1>0, <1>16, <2>1, BufsFacts DEF FlushStep, CallType, CallInv, GetPcs
  <2>3. StorageType' /\ ContentType'
    BY <1>0, <1>16, <2>1, FlushHdrType DEF FlushStep, TypeOK, ContentType
  <2> QED BY <1>0, <1>16, <2>2, <2>3, UnchangedTypes DEF FlushStep, TypeInv, TypeOK
<1>17. CASE FlushEnd
  <2>1. call' \in CallType /\ CallInv'
    <3>1. CASE call.op \in {"detach", "attach"}
      <4>1. call' = [call EXCEPT !.pc = "purge", !.i = 0]
        BY <1>17, <3>1 DEF FlushEnd
      <4>2. call' \in CallType
        BY <1>0, <4>1, BufsFacts DEF CallType
      <4>3. CallInv'
        BY <1>0, <3>1, <4>1 DEF CallType, CallInv, GetPcs
      <4> QED BY <4>2, <4>3
    <3>2. CASE ~(call.op \in {"detach", "attach"})
      BY <1>17, <1>i, <3>2 DEF FlushEnd, Return
    <3> QED BY <3>1, <3>2
  <2> QED BY <1>0, <1>17, <2>1, UnchangedTypes DEF FlushEnd, TypeInv, TypeOK
<1>18. CASE PurgeStep
  <2>1. PICK b \in Bufs : Unlink(b) /\ StepBackMru(b) /\ call' = [call EXCEPT !.i = b + 1]
    BY <1>18 DEF PurgeStep
  <2>2. call' \in CallType /\ CallInv'
    BY <1>0, <1>18, <2>1, BufsFacts DEF PurgeStep, CallType, CallInv, GetPcs
  <2> QED BY <1>0, <1>18, <2>1, <2>2, UnlinkType, StepBackType, UnchangedTypes
      DEF PurgeStep, TypeInv, TypeOK
<1>19. CASE PurgeEnd
  <2>1. FilesType'
    <3>1. CASE call.op \in {"detach", "attach"}
      <4>1. LeaveCache(call.f) /\ hashBase' = hashBase
        BY <1>19, <3>1 DEF PurgeEnd
      <4>2. call.f \in Files
        BY <1>0, <3>1 DEF CallInv
      <4> QED BY <1>0, <4>1, <4>2, LeaveCacheType DEF TypeOK, FilesType
    <3>2. CASE ~(call.op \in {"detach", "attach"})
      BY <1>0, <1>19, <3>2 DEF PurgeEnd, TypeOK, FilesType
    <3> QED BY <3>1, <3>2
  <2> QED BY <1>0, <1>19, <1>i, <2>1, ReturnNullType, UnchangedTypes
      DEF PurgeEnd, TypeInv, TypeOK
<1>20. CASE Reattach
  <2>1. call.f \in Files
    BY <1>0, <1>20 DEF Reattach, CallInv
  <2>2. FilesType'
    BY <1>0, <1>20, <2>1, LeaveCacheType DEF Reattach, TypeOK, FilesType
  <2>3. call' \in CallType /\ CallInv'
    BY <1>0, <1>20, <2>1, BufsFacts DEF Reattach, CallType, CallInv, GetPcs
  <2>4. CallerType'
    BY <1>0, <1>20 DEF Reattach, NoHandle, TypeOK, CallerType, HandleType
  <2> QED BY <1>0, <1>20, <2>2, <2>3, <2>4, UnchangedTypes DEF Reattach, TypeInv, TypeOK
<1>21. CASE InsertFile
  <2>1. FilesType'
    BY <1>21, InsertFileType DEF FilesType
  <2> QED BY <1>0, <1>21, <1>i, <2>1, UnchangedTypes DEF InsertFile, Return, TypeInv, TypeOK
<1>22. ASSUME NEW op \in {"csf_Flush", "csh_Flush", "csf_Purge", "csh_Purge", "detach", "attach"},
              NEW pc \in {"flush", "purge", "insert"}, NEW f \in Files \cup {NoFile},
              pc = "insert" \/ op \in {"detach", "attach"} => f \in Files,
              Start(op, pc, f)
       PROVE  TypeInv'
  <2>1. call' = [pc |-> pc, op |-> op, f |-> f, r |-> 0, fill |-> Absent,
                 hp |-> Nil, nexthp |-> Nil, i |-> 0]
    BY <1>22 DEF Start, Idle
  <2>2. call' \in CallType /\ CallInv'
    BY <1>22, <2>1, BufsFacts DEF CallType, CallInv, GetPcs
  <2> QED BY <1>0, <1>22, <2>2, UnchangedTypes DEF Start, TypeInv, TypeOK
<1>23. ASSUME NEW f \in Files, Flush(f) \/ Purge(f) \/ DetachCache(f) \/ AttachCache(f)
       PROVE  TypeInv'
  BY <1>22, <1>23 DEF Flush, Purge, DetachCache, AttachCache
<1>24. CASE FlushAll \/ PurgeAll
  BY <1>22, <1>24 DEF FlushAll, PurgeAll
<1>25. ASSUME NEW b \in Bufs, NEW v \in Data, Modify(b, v)
       PROVE  TypeInv'
  <2>1. call' = [pc |-> "mark", op |-> "mark", f |-> file[b], r |-> recno[b], fill |-> v,
                 hp |-> b, nexthp |-> Nil, i |-> 0]
    BY <1>25 DEF Modify, Idle
  <2>2. call' \in CallType /\ CallInv'
    BY <1>0, <2>1, BufsFacts DEF CallType, CallInv, GetPcs, TypeOK, OwnerType
  <2> QED BY <1>0, <1>25, <2>2, UnchangedTypes DEF Modify, TypeInv, TypeOK
<1>26. ASSUME NEW b \in Bufs, FlushRecord(b)
       PROVE  TypeInv'
  <2>1. StorageType' /\ ContentType'
    BY <1>0, <1>26, FlushHdrType DEF FlushRecord, TypeOK, ContentType
  <2>2. locks' \in [Bufs -> Nat]
    BY <1>0, <1>26 DEF FlushRecord, TypeOK
  <2>3. CallInv'
    BY <1>0, <1>26 DEF FlushRecord, CallInv
  <2> QED BY <1>0, <1>26, <2>1, <2>2, <2>3, UnchangedTypes DEF FlushRecord, TypeInv, TypeOK
<1>27. ASSUME NEW b \in Bufs, UnLockHdr(b)
       PROVE  TypeInv'
  <2>1. locks' \in [Bufs -> Nat]
    BY <1>0, <1>27 DEF UnLockHdr, TypeOK
  <2>2. CallInv'
    BY <1>0, <1>27 DEF UnLockHdr, CallInv
  <2> QED BY <1>0, <1>27, <2>1, <2>2, UnchangedTypes DEF UnLockHdr, TypeInv, TypeOK
<1>28. CASE LockHdr
  <2>1. locks' \in [Bufs -> Nat]
    <3>1. last.b \in Bufs /\ locks \in [Bufs -> Nat]
      BY <1>0, <1>28 DEF LockHdr, Usable, TypeOK
    <3>2. locks' = [locks EXCEPT ![last.b] = @ + 1]
      BY <1>28 DEF LockHdr
    <3> QED BY <3>1, <3>2
  <2>2. CallInv' /\ CallerType'
    BY <1>0, <1>28, CallerAssumption DEF LockHdr, CallInv, TypeOK, CallerType
  <2> QED BY <1>0, <1>28, <2>1, <2>2, UnchangedTypes DEF LockHdr, TypeInv, TypeOK
<1>29. CASE Drop
  <2>1. last.b \in Bufs /\ file[last.b] \in Files \cup {NoFile}
    BY <1>0, <1>29 DEF Drop, Usable, TypeOK, OwnerType
  <2>2. call' = [pc |-> "drop", op |-> "drop", f |-> file[last.b], r |-> 0, fill |-> Absent,
                 hp |-> last.b, nexthp |-> Nil, i |-> 0]
    BY <1>29 DEF Drop, Idle
  <2>3. call' \in CallType /\ CallInv'
    BY <2>1, <2>2, BufsFacts DEF CallType, CallInv, GetPcs
  <2> QED BY <1>0, <1>29, <2>3, UnchangedTypes DEF Drop, TypeInv, TypeOK
<1>30. CASE UNCHANGED vars
  <2>1. CallInv'
    BY <1>0, <1>30 DEF vars, CallInv
  <2> QED BY <1>0, <1>30, <2>1, UnchangedTypes DEF vars, TypeInv, TypeOK
<1> QED
  BY <1>1, <1>2, <1>3, <1>4, <1>5, <1>6, <1>7, <1>8, <1>9, <1>10, <1>11, <1>12, <1>13,
     <1>14, <1>15, <1>16, <1>17, <1>18, <1>19, <1>20, <1>21, <1>23, <1>24, <1>25,
     <1>26, <1>27, <1>28, <1>29, <1>30 DEF Next, Step, CallerStep

\* Every variable keeps its type: every link of the ring and of the chains is
\* a header of the cache, whatever is linked, evicted and purged.
THEOREM TypeCorrect == Spec => []TypeOK
<1>1. TypeInv => TypeOK
  BY DEF TypeInv
<1> QED BY <1>1, InitType, NextType, PTL DEF Spec

-----------------------------------------------------------------------------
(* The hash chains as a structure over plain functions: O is the set of    *)
(* owned buffers, slot[b] the slot of b, above[b] the buffers with a       *)
(* larger key than b.                                                      *)

Ordered(O, above) ==
  /\ \A b \in O : b \notin above[b]
  /\ \A a, b, c \in O : b \in above[a] /\ c \in above[b] => c \in above[a]
  /\ \A a, b \in O : a = b \/ b \in above[a] \/ a \in above[b]

NextLink(O, slot, above, next, prev, b) ==
  IF next[b] = Nil
  THEN \A c \in O : slot[c] = slot[b] => c \notin above[b]
  ELSE /\ next[b] \in O /\ slot[next[b]] = slot[b] /\ next[b] \in above[b]
       /\ prev[next[b]] = b
       /\ \A c \in O : slot[c] = slot[b] => ~(c \in above[b] /\ next[b] \in above[c])

PrevLink(O, slot, above, next, prev, head, index, b) ==
  IF prev[b] = Nil
  THEN /\ head[slot[b]] = b /\ index[b] = slot[b]
       /\ \A c \in O : slot[c] = slot[b] => b \notin above[c]
  ELSE prev[b] \in O /\ slot[prev[b]] = slot[b] /\ next[prev[b]] = b

HeadLink(O, slot, prev, head, s) ==
  IF head[s] = Nil
  THEN \A b \in O : slot[b] # s
  ELSE head[s] \in O /\ slot[head[s]] = s /\ prev[head[s]] = Nil

Linked(O, slot, above, next, prev, head, index) ==
  /\ \A b \in O : /\ NextLink(O, slot, above, next, prev, b)
                  /\ PrevLink(O, slot, above, next, prev, head, index, b)
  /\ \A s \in Bufs : HeadLink(O, slot, prev, head, s)

\* Only the order among buffers of the same slot matters.
LEMMA LinkedSame ==
  ASSUME NEW O \in SUBSET Bufs, NEW slot, NEW above, NEW slot2, NEW above2,
         NEW next, NEW prev, NEW head, NEW index,
         Linked(O, slot, above, next, prev, head, index),
         \A b \in O : slot2[b] = slot[b],
         \A b, c \in O : slot[b] = slot[c] => (c \in above2[b] <=> c \in above[b])
  PROVE  Linked(O, slot2, above2, next, prev, head, index)
<1>1. ASSUME NEW b \in O PROVE NextLink(O, slot2, above2, next, prev, b)
  BY DEF Linked, NextLink
<1>2. ASSUME NEW b \in O PROVE PrevLink(O, slot2, above2, next, prev, head, index, b)
  BY DEF Linked, PrevLink
<1>3. ASSUME NEW s \in Bufs PROVE HeadLink(O, slot2, prev, head, s)
  BY DEF Linked, HeadLink
<1> QED BY <1>1, <1>2, <1>3 DEF Linked

\* Taking b out of its chain leaves the other buffers correctly linked.
LEMMA RemoveLink ==
  ASSUME NEW O \in SUBSET Bufs, NEW slot \in [Bufs -> Bufs], NEW above,
         NEW next \in [Bufs -> Bufs \cup {Nil}], NEW prev \in [Bufs -> Bufs \cup {Nil}],
         NEW head \in [Bufs -> Bufs \cup {Nil}], NEW index \in [Bufs -> Bufs],
         Linked(O, slot, above, next, prev, head, index), Ordered(O, above),
         NEW b \in O, NEW next2, NEW prev2, NEW head2, NEW index2,
         prev2 = (IF next[b] = Nil THEN prev ELSE [prev EXCEPT ![next[b]] = prev[b]]),
         index2 = (IF next[b] = Nil THEN index ELSE [index EXCEPT ![next[b]] = index[b]]),
         next2 = (IF prev[b] = Nil THEN next ELSE [next EXCEPT ![prev[b]] = next[b]]),
         head2 = (IF prev[b] = Nil THEN [head EXCEPT ![index[b]] = next[b]] ELSE head)
  PROVE  Linked(O \ {b}, slot, above, next2, prev2, head2, index2)
<1> DEFINE n == next[b]
           p == prev[b]
           O2 == O \ {b}
<1>b. b \in Bufs /\ n \in Bufs \cup {Nil} /\ p \in Bufs \cup {Nil} /\ Nil \notin Bufs
  BY BufsFacts
<1>n. n # Nil => /\ n \in O2 /\ slot[n] = slot[b] /\ n \in above[b] /\ prev[n] = b
                 /\ \A c \in O : slot[c] = slot[b] => ~(c \in above[b] /\ n \in above[c])
  BY DEF Linked, NextLink, Ordered
<1>l. n = Nil => \A c \in O : slot[c] = slot[b] => c \notin above[b]
  BY DEF Linked, NextLink
<1>p. p # Nil => /\ p \in O2 /\ slot[p] = slot[b] /\ next[p] = b /\ b \in above[p]
                 /\ \A c \in O : slot[c] = slot[b] => ~(c \in above[p] /\ b \in above[c])
  <2> SUFFICES ASSUME p # Nil
               PROVE  /\ p \in O2 /\ slot[p] = slot[b] /\ next[p] = b /\ b \in above[p]
                      /\ \A c \in O : slot[c] = slot[b] => ~(c \in above[p] /\ b \in above[c])
    OBVIOUS
  <2>1. p \in O /\ slot[p] = slot[b] /\ next[p] = b
    BY DEF Linked, PrevLink
  <2>2. NextLink(O, slot, above, next, prev, p)
    BY <2>1 DEF Linked
  <2>3. b \in above[p] /\ \A c \in O : slot[c] = slot[b] => ~(c \in above[p] /\ b \in above[c])
    BY <1>b, <2>1, <2>2 DEF NextLink
  <2> QED BY <2>1, <2>3 DEF Ordered
<1>f. p = Nil => /\ head[slot[b]] = b /\ index[b] = slot[b]
                 /\ \A c \in O : slot[c] = slot[b] => b \notin above[c]
  BY DEF Linked, PrevLink
<1>1. ASSUME NEW c \in O2 PROVE NextLink(O2, slot, above, next2, prev2, c)
  <2>1. CASE c = p
    <3>1. next2[c] = n
      BY <1>b, <2>1
    <3>2. CASE n = Nil
      BY <1>b, <1>p, <1>l, <2>1, <3>1, <3>2 DEF NextLink, Ordered
    <3>3. CASE n # Nil
      <4>1. prev2[n] = c
        BY <1>b, <2>1, <3>3
      <4>2. n \in above[c]
        BY <1>b, <1>p, <1>n, <2>1, <3>3 DEF Ordered
      <4>3. \A d \in O2 : slot[d] = slot[c] => ~(d \in above[c] /\ n \in above[d])
        BY <1>b, <1>p, <1>n, <2>1, <3>3 DEF Ordered
      <4> QED BY <1>b, <1>n, <1>p, <2>1, <3>1, <3>3, <4>1, <4>2, <4>3 DEF NextLink
    <3> QED BY <3>2, <3>3
  <2>2. CASE c # p
    <3>1. next2[c] = next[c]
      BY <1>b, <2>2
    <3>2. NextLink(O, slot, above, next, prev, c)
      BY DEF Linked
    <3>3. next[c] # Nil => next[c] \in O2 /\ prev2[next[c]] = c
      <4> SUFFICES ASSUME next[c] # Nil PROVE next[c] \in O2 /\ prev2[next[c]] = c
        OBVIOUS
      <4>1. next[c] \in O /\ prev[next[c]] = c
        BY <3>2 DEF NextLink
      <4>2. next[c] # b
        BY <4>1, <2>2
      <4>3. next[c] # n
        BY <4>1, <1>n, <1>b
      <4> QED BY <4>1, <4>2, <4>3, <1>b
    <3> QED BY <3>1, <3>2, <3>3 DEF NextLink
  <2> QED BY <2>1, <2>2
<1>2. ASSUME NEW c \in O2 PROVE PrevLink(O2, slot, above, next2, prev2, head2, index2, c)
  <2>0. PrevLink(O, slot, above, next, prev, head, index, c)
    BY DEF Linked
  <2>1. CASE c = n
    <3>1. prev2[c] = p /\ index2[c] = index[b] /\ n # Nil
      BY <1>b, <2>1
    <3>2. CASE p = Nil
      <4>1. head2[slot[c]] = c /\ index2[c] = slot[c]
        BY <1>b, <1>f, <1>n, <2>1, <3>1, <3>2
      <4>2. \A d \in O2 : slot[d] = slot[c] => c \notin above[d]
        BY <1>f, <1>n, <2>1, <3>1, <3>2 DEF Ordered
      <4> QED BY <3>1, <3>2, <4>1, <4>2 DEF PrevLink
    <3>3. CASE p # Nil
      <4>1. next2[p] = c
        BY <1>b, <2>1, <3>3
      <4> QED BY <1>n, <1>p, <2>1, <3>1, <3>3, <4>1 DEF PrevLink
    <3> QED BY <3>2, <3>3
  <2>2. CASE c # n
    <3>1. prev2[c] = prev[c] /\ index2[c] = index[c]
      BY <1>b, <2>2
    <3>2. CASE prev[c] = Nil
      <4>1. head[slot[c]] = c /\ index[c] = slot[c] /\ \A d \in O : slot[d] = slot[c] => c \notin above[d]
        BY <2>0, <3>2 DEF PrevLink
      <4>2. head2[slot[c]] = c
        BY <1>b, <1>f, <4>1
      <4> QED BY <3>1, <3>2, <4>1, <4>2 DEF PrevLink
    <3>3. CASE prev[c] # Nil
      <4>1. prev[c] \in O /\ slot[prev[c]] = slot[c] /\ next[prev[c]] = c
        BY <2>0, <3>3 DEF PrevLink
      <4>2. prev[c] # b /\ prev[c] # p
        BY <1>b, <1>p, <2>2, <3>3, <4>1
      <4>3. next2[prev[c]] = c
        BY <1>b, <4>1, <4>2
      <4> QED BY <3>1, <3>3, <4>1, <4>2, <4>3 DEF PrevLink
    <3> QED BY <3>2, <3>3
  <2> QED BY <2>1, <2>2
<1>3. ASSUME NEW s \in Bufs PROVE HeadLink(O2, slot, prev2, head2, s)
  <2>0. HeadLink(O, slot, prev, head, s)
    BY DEF Linked
  <2>1. CASE p = Nil /\ s = slot[b]
    <3>1. head2[s] = n
      BY <1>b, <1>f, <2>1
    <3>2. CASE n = Nil
      BY <1>f, <1>l, <2>1, <3>1, <3>2 DEF HeadLink, Ordered
    <3>3. CASE n # Nil
      BY <1>b, <1>n, <2>1, <3>1, <3>3 DEF HeadLink
    <3> QED BY <3>2, <3>3
  <2>2. CASE ~(p = Nil /\ s = slot[b])
    <3>1. head2[s] = head[s]
      BY <1>b, <1>f, <2>2
    <3>2. CASE head[s] = Nil
      BY <2>0, <3>1, <3>2 DEF HeadLink
    <3>3. CASE head[s] # Nil
      <4>1. head[s] \in O /\ slot[head[s]] = s /\ prev[head[s]] = Nil
        BY <2>0, <3>3 DEF HeadLink
      <4>2. head[s] # b
        BY <4>1, <2>2
      <4>3. prev2[head[s]] = Nil
        BY <1>b, <1>n, <4>1
      <4> QED BY <3>1, <3>3, <4>1, <4>2, <4>3 DEF HeadLink
    <3> QED BY <3>2, <3>3
  <2> QED BY <2>1, <2>2
<1> QED BY <1>1, <1>2, <1>3 DEF Linked

\* Linking m as the only buffer of its slot, before h, or after the last
\* buffer h of its slot.
LEMMA InsertEmptyLink ==
  ASSUME NEW O \in SUBSET Bufs, NEW m \in Bufs \ O,
         NEW slot \in [Bufs -> Bufs], NEW above,
         NEW next \in [Bufs -> Bufs \cup {Nil}], NEW prev \in [Bufs -> Bufs \cup {Nil}],
         NEW head \in [Bufs -> Bufs \cup {Nil}], NEW index \in [Bufs -> Bufs],
         Linked(O, slot, above, next, prev, head, index), Ordered(O \cup {m}, above),
         \A b \in O : slot[b] # slot[m],
         NEW next2, NEW prev2, NEW head2, NEW index2,
         head2 = [head EXCEPT ![slot[m]] = m], index2 = [index EXCEPT ![m] = slot[m]],
         next2 = [next EXCEPT ![m] = Nil], prev2 = [prev EXCEPT ![m] = Nil]
  PROVE  Linked(O \cup {m}, slot, above, next2, prev2, head2, index2)
<1> DEFINE O2 == O \cup {m}
<1>b. m \in Bufs /\ slot[m] \in Bufs /\ Nil \notin Bufs
  BY BufsFacts
<1>1. ASSUME NEW c \in O2 PROVE NextLink(O2, slot, above, next2, prev2, c)
  <2>1. CASE c = m
    BY <1>b, <2>1 DEF NextLink, Ordered
  <2>2. CASE c # m
    <3>1. NextLink(O, slot, above, next, prev, c) /\ c \in O
      BY <2>2 DEF Linked
    <3> QED BY <1>b, <2>2, <3>1 DEF NextLink
  <2> QED BY <2>1, <2>2
<1>2. ASSUME NEW c \in O2 PROVE PrevLink(O2, slot, above, next2, prev2, head2, index2, c)
  <2>1. CASE c = m
    BY <1>b, <2>1 DEF PrevLink, Ordered
  <2>2. CASE c # m
    <3>1. PrevLink(O, slot, above, next, prev, head, index, c) /\ c \in O
      BY <2>2 DEF Linked
    <3>2. slot[c] # slot[m]
      BY <3>1
    <3> QED BY <1>b, <2>2, <3>1, <3>2 DEF PrevLink
  <2> QED BY <2>1, <2>2
<1>3. ASSUME NEW s \in Bufs PROVE HeadLink(O2, slot, prev2, head2, s)
  <2>1. HeadLink(O, slot, prev, head, s)
    BY DEF Linked
  <2> QED BY <1>b, <2>1 DEF HeadLink
<1> QED BY <1>1, <1>2, <1>3 DEF Linked

\* Inserting a buffer before another one keeps the chains.
LEMMA InsertBeforeLink ==
  ASSUME NEW O \in SUBSET Bufs, NEW m \in Bufs \ O,
         NEW slot \in [Bufs -> Bufs], NEW above,
         NEW next \in [Bufs -> Bufs \cup {Nil}], NEW prev \in [Bufs -> Bufs \cup {Nil}],
         NEW head \in [Bufs -> Bufs \cup {Nil}], NEW index \in [Bufs -> Bufs],
         Linked(O, slot, above, next, prev, head, index), Ordered(O \cup {m}, above),
         NEW h \in O, slot[h] = slot[m], h \in above[m],
         \A c \in O : slot[c] = slot[m] /\ h \in above[c] => m \in above[c],
         NEW next2, NEW prev2, NEW head2, NEW index2,
         prev2 = [prev EXCEPT ![m] = prev[h], ![h] = m],
         next2 = (IF prev[h] # Nil THEN [next EXCEPT ![prev[h]] = m, ![m] = h]
                  ELSE [next EXCEPT ![m] = h]),
         head2 = (IF prev[h] # Nil THEN head ELSE [head EXCEPT ![slot[m]] = m]),
         index2 = (IF prev[h] # Nil THEN index ELSE [index EXCEPT ![m] = slot[m]])
  PROVE  Linked(O \cup {m}, slot, above, next2, prev2, head2, index2)
<1> DEFINE O2 == O \cup {m}
           p == prev[h]
<1>b. m \in Bufs /\ h \in Bufs /\ h # m /\ p \in Bufs \cup {Nil} /\ Nil \notin Bufs
      /\ slot[m] \in Bufs
  BY BufsFacts
<1>h. PrevLink(O, slot, above, next, prev, head, index, h)
  BY DEF Linked
<1>p. ASSUME p # Nil
      PROVE  /\ p \in O /\ p # h /\ p # m /\ slot[p] = slot[h] /\ next[p] = h /\ h \in above[p]
             /\ m \in above[p]
             /\ \A c \in O : slot[c] = slot[h] => ~(c \in above[p] /\ h \in above[c])
  <2>1. p \in O /\ slot[p] = slot[h] /\ next[p] = h
    BY <1>h, <1>p DEF PrevLink
  <2>2. NextLink(O, slot, above, next, prev, p)
    BY <2>1 DEF Linked
  <2>3. h \in above[p] /\ \A c \in O : slot[c] = slot[h] => ~(c \in above[p] /\ h \in above[c])
    BY <1>b, <2>1, <2>2 DEF NextLink
  <2> QED BY <2>1, <2>3 DEF Ordered
<1>f. p = Nil => /\ head[slot[h]] = h /\ index[h] = slot[h]
                 /\ \A c \in O : slot[c] = slot[h] => h \notin above[c]
  BY <1>h DEF PrevLink
<1>1. ASSUME NEW c \in O2 PROVE NextLink(O2, slot, above, next2, prev2, c)
  <2>1. CASE c = m
    <3>1. next2[c] = h /\ prev2[h] = c
      BY <1>b, <1>p, <2>1
    <3>2. \A d \in O2 : slot[d] = slot[c] => ~(d \in above[c] /\ h \in above[d])
      BY <2>1 DEF Ordered
    <3> QED BY <1>b, <2>1, <3>1, <3>2 DEF NextLink
  <2>2. CASE c = p
    <3>1. p # Nil /\ next2[c] = m /\ prev2[m] = c
      BY <1>b, <1>p, <2>2
    <3>2. \A d \in O2 : slot[d] = slot[c] => ~(d \in above[c] /\ m \in above[d])
      BY <1>p, <2>2, <3>1 DEF Ordered
    <3> QED BY <1>b, <1>p, <2>2, <3>1, <3>2 DEF NextLink
  <2>3. CASE c # m /\ c # p
    <3>1. NextLink(O, slot, above, next, prev, c) /\ c \in O /\ next2[c] = next[c]
      BY <1>b, <2>3 DEF Linked
    <3>2. CASE next[c] = Nil
      <4>1. slot[m] = slot[c] => m \notin above[c]
        BY <3>1, <3>2 DEF NextLink, Ordered
      <4> QED BY <3>1, <3>2, <4>1 DEF NextLink
    <3>3. CASE next[c] # Nil
      <4>1. next[c] \in O /\ prev[next[c]] = c
        BY <3>1, <3>3 DEF NextLink
      <4>2. next[c] # h /\ next[c] # m
        BY <4>1, <2>3
      <4>3. prev2[next[c]] = c
        BY <1>b, <4>1, <4>2
      <4>4. slot[m] = slot[c] => ~(m \in above[c] /\ next[c] \in above[m])
        <5> SUFFICES ASSUME slot[m] = slot[c], m \in above[c], next[c] \in above[m]
                     PROVE  FALSE
          OBVIOUS
        <5>1. slot[next[c]] = slot[m] /\ h \in above[c]
              /\ \A d \in O : slot[d] = slot[c] => ~(d \in above[c] /\ next[c] \in above[d])
          BY <3>1, <3>3 DEF NextLink, Ordered
        <5>2. next[c] \notin above[h]
          BY <5>1
        <5>3. h \in above[next[c]]
          BY <4>1, <4>2, <5>2 DEF Ordered
        <5>4. m \in above[next[c]]
          BY <4>1, <5>1, <5>3
        <5> QED BY <4>1, <5>4 DEF Ordered
      <4> QED BY <3>1, <3>3, <4>1, <4>3, <4>4 DEF NextLink
    <3> QED BY <3>2, <3>3
  <2> QED BY <2>1, <2>2, <2>3
<1>2. ASSUME NEW c \in O2 PROVE PrevLink(O2, slot, above, next2, prev2, head2, index2, c)
  <2>1. CASE c = m
    <3>1. prev2[c] = p
      BY <1>b, <2>1
    <3>2. CASE p = Nil
      <4>1. head2[slot[c]] = c /\ index2[c] = slot[c]
        BY <1>b, <2>1, <3>2
      <4>2. \A d \in O2 : slot[d] = slot[c] => c \notin above[d]
        BY <1>f, <2>1, <3>2 DEF Ordered
      <4> QED BY <3>1, <3>2, <4>1, <4>2 DEF PrevLink
    <3>3. CASE p # Nil
      <4>1. next2[p] = c
        BY <1>b, <1>p, <2>1, <3>3
      <4> QED BY <1>p, <2>1, <3>1, <3>3, <4>1 DEF PrevLink
    <3> QED BY <3>2, <3>3
  <2>2. CASE c = h
    <3>1. prev2[c] = m /\ next2[m] = c
      BY <1>b, <1>p, <2>2
    <3> QED BY <1>b, <2>2, <3>1 DEF PrevLink
  <2>3. CASE c # m /\ c # h
    <3>1. PrevLink(O, slot, above, next, prev, head, index, c) /\ c \in O /\ prev2[c] = prev[c]
      BY <1>b, <2>3 DEF Linked
    <3>2. CASE prev[c] = Nil
      <4>1. head[slot[c]] = c /\ index[c] = slot[c] /\ \A d \in O : slot[d] = slot[c] => c \notin above[d]
        BY <3>1, <3>2 DEF PrevLink
      <4>2. head2[slot[c]] = c /\ index2[c] = slot[c]
        BY <1>b, <1>f, <2>3, <3>1, <4>1
      <4>3. slot[m] = slot[c] => c \notin above[m]
        <5> SUFFICES ASSUME slot[m] = slot[c], c \in above[m] PROVE FALSE
          OBVIOUS
        <5>1. h \in above[c]
          BY <2>3, <3>1, <4>1 DEF Ordered
        <5>2. m \in above[c]
          BY <3>1, <5>1
        <5> QED BY <3>1, <5>2 DEF Ordered
      <4> QED BY <3>1, <3>2, <4>1, <4>2, <4>3 DEF PrevLink
    <3>3. CASE prev[c] # Nil
      <4>1. prev[c] \in O /\ slot[prev[c]] = slot[c] /\ next[prev[c]] = c
        BY <3>1, <3>3 DEF PrevLink
      <4>2. prev[c] # m /\ prev[c] # p
        BY <1>b, <1>p, <2>3, <3>3, <4>1
      <4>3. next2[prev[c]] = c
        BY <1>b, <4>1, <4>2
      <4> QED BY <3>1, <3>3, <4>1, <4>3 DEF PrevLink
    <3> QED BY <3>2, <3>3
  <2> QED BY <2>1, <2>2, <2>3
<1>3. ASSUME NEW s \in Bufs PROVE HeadLink(O2, slot, prev2, head2, s)
  <2>1. HeadLink(O, slot, prev, head, s)
    BY DEF Linked
  <2>2. CASE p = Nil /\ s = slot[m]
    BY <1>b, <2>2 DEF HeadLink
  <2>3. CASE ~(p = Nil /\ s = slot[m])
    <3>1. head2[s] = head[s]
      BY <1>b, <2>3
    <3>2. CASE head[s] = Nil
      BY <2>1, <3>1, <3>2 DEF HeadLink
    <3>3. CASE head[s] # Nil
      <4>1. head[s] \in O /\ slot[head[s]] = s /\ prev[head[s]] = Nil
        BY <2>1, <3>3 DEF HeadLink
      <4>2. head[s] # h /\ head[s] # m
        BY <2>3, <4>1
      <4>3. prev2[head[s]] = Nil
        BY <1>b, <4>1, <4>2
      <4> QED BY <3>1, <3>3, <4>1, <4>3 DEF HeadLink
    <3> QED BY <3>2, <3>3
  <2> QED BY <2>2, <2>3
<1> QED BY <1>1, <1>2, <1>3 DEF Linked

\* Inserting a buffer after the last of its chain keeps the chains.
LEMMA InsertLastLink ==
  ASSUME NEW O \in SUBSET Bufs, NEW m \in Bufs \ O,
         NEW slot \in [Bufs -> Bufs], NEW above,
         NEW next \in [Bufs -> Bufs \cup {Nil}], NEW prev \in [Bufs -> Bufs \cup {Nil}],
         NEW head \in [Bufs -> Bufs \cup {Nil}], NEW index \in [Bufs -> Bufs],
         Linked(O, slot, above, next, prev, head, index), Ordered(O \cup {m}, above),
         NEW h \in O, slot[h] = slot[m], m \in above[h],
         \A c \in O : slot[c] = slot[m] => c \notin above[h],
         NEW next2, NEW prev2,
         prev2 = [prev EXCEPT ![m] = h], next2 = [next EXCEPT ![m] = Nil, ![h] = m]
  PROVE  Linked(O \cup {m}, slot, above, next2, prev2, head, index)
<1> DEFINE O2 == O \cup {m}
<1>b. m \in Bufs /\ h \in Bufs /\ h # m /\ Nil \notin Bufs /\ slot[m] \in Bufs
  BY BufsFacts
<1>h. next[h] = Nil
  <2>1. NextLink(O, slot, above, next, prev, h)
    BY DEF Linked
  <2> QED BY <2>1 DEF NextLink
<1>1. ASSUME NEW c \in O2 PROVE NextLink(O2, slot, above, next2, prev2, c)
  <2>1. CASE c = m
    <3>1. next2[c] = Nil
      BY <1>b, <2>1
    <3>2. \A d \in O2 : slot[d] = slot[c] => d \notin above[c]
      BY <1>b, <2>1 DEF Ordered
    <3> QED BY <3>1, <3>2 DEF NextLink
  <2>2. CASE c = h
    <3>1. next2[c] = m /\ prev2[m] = c
      BY <1>b, <2>2
    <3>2. \A d \in O2 : slot[d] = slot[c] => ~(d \in above[c] /\ m \in above[d])
      BY <1>b, <2>2 DEF Ordered
    <3> QED BY <1>b, <2>2, <3>1, <3>2 DEF NextLink
  <2>3. CASE c # m /\ c # h
    <3>1. NextLink(O, slot, above, next, prev, c) /\ c \in O /\ next2[c] = next[c]
      BY <1>b, <2>3 DEF Linked
    <3>2. CASE next[c] = Nil
      <4>1. slot[c] # slot[m]
        BY <2>3, <3>1, <3>2 DEF NextLink, Ordered
      <4> QED BY <3>1, <3>2, <4>1 DEF NextLink
    <3>3. CASE next[c] # Nil
      <4>1. next[c] \in O /\ prev[next[c]] = c /\ slot[next[c]] = slot[c]
        BY <3>1, <3>3 DEF NextLink
      <4>2. prev2[next[c]] = c
        BY <1>b, <4>1
      <4>3. slot[m] = slot[c] => next[c] \notin above[m]
        BY <4>1 DEF Ordered
      <4> QED BY <3>1, <3>3, <4>1, <4>2, <4>3 DEF NextLink
    <3> QED BY <3>2, <3>3
  <2> QED BY <2>1, <2>2, <2>3
<1>2. ASSUME NEW c \in O2 PROVE PrevLink(O2, slot, above, next2, prev2, head, index, c)
  <2>1. CASE c = m
    BY <1>b, <2>1 DEF PrevLink
  <2>2. CASE c # m
    <3>1. PrevLink(O, slot, above, next, prev, head, index, c) /\ c \in O /\ prev2[c] = prev[c]
      BY <1>b, <2>2 DEF Linked
    <3>2. CASE prev[c] = Nil
      <4>1. slot[m] = slot[c] => c \notin above[m]
        BY <1>b, <3>1, <3>2 DEF Ordered
      <4> QED BY <3>1, <3>2, <4>1 DEF PrevLink
    <3>3. CASE prev[c] # Nil
      <4>1. prev[c] \in O /\ slot[prev[c]] = slot[c] /\ next[prev[c]] = c
        BY <3>1, <3>3 DEF PrevLink
      <4>2. prev[c] # m /\ prev[c] # h
        BY <1>b, <1>h, <3>1, <4>1
      <4>3. next2[prev[c]] = c
        BY <1>b, <4>1, <4>2
      <4> QED BY <3>1, <3>3, <4>1, <4>3 DEF PrevLink
    <3> QED BY <3>2, <3>3
  <2> QED BY <2>1, <2>2
<1>3. ASSUME NEW s \in Bufs PROVE HeadLink(O2, slot, prev2, head, s)
  <2>1. HeadLink(O, slot, prev, head, s)
    BY DEF Linked
  <2> QED BY <1>b, <2>1 DEF HeadLink
<1> QED BY <1>1, <1>2, <1>3 DEF Linked

-----------------------------------------------------------------------------
(* The cache's chains are such a structure.                                *)

Owned == {b \in Bufs : file[b] # NoFile}
SlotFn == [b \in Bufs |-> IF file[b] # NoFile THEN SlotOf(b) ELSE 0]
Above == [b \in Bufs |-> {c \in Bufs : KeyLess(b, c)}]

\* Keys are ordered by file, then by record number.
LEMMA LessOrder ==
  /\ \A f, r \in Nat : ~Less(f, r, f, r)
  /\ \A f, r, g, s, h, t \in Nat : Less(f, r, g, s) /\ Less(g, s, h, t) => Less(f, r, h, t)
  /\ \A f, r, g, s \in Nat : Less(f, r, g, s) \/ Less(g, s, f, r) \/ (f = g /\ r = s)
BY DEF Less

\* The keys of the buffers are numbers.
LEMMA KeyTypes ==
  TypeOK => /\ file \in [Bufs -> Nat] /\ recno \in [Bufs -> Nat]
            /\ SlotFn \in [Bufs -> Bufs]
            /\ \A b \in Bufs : file[b] # NoFile => file[b] \in Files /\ SlotOf(b) \in Bufs
<1> SUFFICES ASSUME TypeOK
             PROVE  /\ file \in [Bufs -> Nat] /\ recno \in [Bufs -> Nat]
                    /\ SlotFn \in [Bufs -> Bufs]
                    /\ \A b \in Bufs : file[b] # NoFile => file[b] \in Files /\ SlotOf(b) \in Bufs
  OBVIOUS
<1>1. file \in [Bufs -> Nat] /\ recno \in [Bufs -> Nat]
  <2>1. Files \cup {NoFile} \subseteq Nat /\ Recs \cup {0} \subseteq Nat
    BY FilesAssumption, RecsAssumption DEF NoFile
  <2>2. file \in [Bufs -> Files \cup {NoFile}] /\ recno \in [Bufs -> Recs \cup {0}]
    BY DEF TypeOK, OwnerType
  <2> QED BY <2>1, <2>2
<1>2. ASSUME NEW b \in Bufs, file[b] # NoFile
      PROVE  file[b] \in Files /\ SlotOf(b) \in Bufs
  <2>1. file[b] \in Files
    BY <1>2 DEF TypeOK, OwnerType
  <2>2. hashBase[file[b]] + recno[b] \in Int
    BY <1>1, <2>1 DEF TypeOK, FilesType
  <2>3. \A x \in Int : x % Bufcnt \in Bufs
    BY BufcntAssumption DEF Bufs
  <2> QED BY <2>1, <2>2, <2>3 DEF SlotOf, Slot
<1> QED BY <1>1, <1>2, BufsFacts DEF SlotFn

\* Buffers are ordered by their keys.
LEMMA OrderedOwned == TypeOK /\ OneBuffer => Ordered(Owned, Above)
<1> SUFFICES ASSUME TypeOK, OneBuffer PROVE Ordered(Owned, Above)
  OBVIOUS
<1>1. file \in [Bufs -> Nat] /\ recno \in [Bufs -> Nat]
  BY KeyTypes
<1>2. \A b, c \in Bufs : c \in Above[b] <=> KeyLess(b, c)
  BY DEF Above
<1>3. \A b \in Owned : b \notin Above[b]
  BY <1>1, <1>2, LessOrder DEF Owned, KeyLess
<1>4. \A a, b, c \in Owned : b \in Above[a] /\ c \in Above[b] => c \in Above[a]
  BY <1>1, <1>2, LessOrder DEF Owned, KeyLess
<1>5. \A a, b \in Owned : a = b \/ b \in Above[a] \/ a \in Above[b]
  BY <1>1, <1>2, LessOrder DEF Owned, KeyLess, OneBuffer
<1> QED BY <1>3, <1>4, <1>5 DEF Ordered

\* ChainInv is what Linked says of the headers.
LEMMA ChainIsLinked ==
  TypeOK => (ChainInv <=> Linked(Owned, SlotFn, Above, nextHash, prevHash, hashTable, hashIndex))
<1> SUFFICES ASSUME TypeOK
             PROVE  ChainInv <=> Linked(Owned, SlotFn, Above, nextHash, prevHash, hashTable, hashIndex)
  OBVIOUS
<1> USE DEF Owned
<1>1. \A b, c \in Bufs : c \in Above[b] <=> KeyLess(b, c)
  BY DEF Above
<1>2. \A b \in Owned : SlotFn[b] = SlotOf(b)
  BY DEF SlotFn
<1>3. \A b \in Bufs, c \in Bufs : SameSlot(b, c) <=> b \in Owned /\ c \in Owned /\ SlotFn[b] = SlotFn[c]
  BY <1>2 DEF SameSlot
<1>4. HashType
  BY DEF TypeOK
<1>5. ASSUME NEW b \in Owned
      PROVE  NextIsRight(b) <=> NextLink(Owned, SlotFn, Above, nextHash, prevHash, b)
  BY <1>1, <1>3, <1>4 DEF NextIsRight, NextLink, HashType
<1>6. ASSUME NEW b \in Owned
      PROVE  PrevIsRight(b) <=>
               PrevLink(Owned, SlotFn, Above, nextHash, prevHash, hashTable, hashIndex, b)
  BY <1>1, <1>2, <1>3, <1>4 DEF PrevIsRight, PrevLink, HashType
<1>7. ASSUME NEW s \in Bufs
      PROVE  HeadIsRight(s) <=> HeadLink(Owned, SlotFn, prevHash, hashTable, s)
  BY <1>2, <1>4 DEF HeadIsRight, HeadLink, HashType
<1> QED BY <1>5, <1>6, <1>7 DEF ChainInv, Linked

\* The same of the next state.
LEMMA NextState ==
  /\ TypeOK' => /\ file' \in [Bufs -> Nat] /\ recno' \in [Bufs -> Nat]
                /\ SlotFn' \in [Bufs -> Bufs]
  /\ TypeOK' /\ OneBuffer' => Ordered(Owned', Above')
  /\ TypeOK' => (ChainInv' <=> Linked(Owned', SlotFn', Above', nextHash', prevHash',
                                      hashTable', hashIndex'))
<1>1. (TypeOK => /\ file \in [Bufs -> Nat] /\ recno \in [Bufs -> Nat]
                 /\ SlotFn \in [Bufs -> Bufs])'
  BY KeyTypes, PTL
<1>2. (TypeOK /\ OneBuffer => Ordered(Owned, Above))'
  BY OrderedOwned, PTL
<1>3. (TypeOK => (ChainInv <=> Linked(Owned, SlotFn, Above, nextHash, prevHash,
                                      hashTable, hashIndex)))'
  BY ChainIsLinked, PTL
<1> QED BY <1>1, <1>2, <1>3

\* What ChainInv and OneBuffer say is kept by a step that moves no buffer.
LEMMA ChainsKept ==
  ASSUME TypeOK, TypeOK', ChainInv, OneBuffer, UNCHANGED <<hash, owner>>,
         \A b \in Bufs : file[b] # NoFile => hashBase'[file[b]] = hashBase[file[b]]
  PROVE  ChainInv' /\ OneBuffer'
<1>1. OneBuffer'
  BY DEF OneBuffer, owner
<1>2. Owned' = Owned /\ Above' = Above /\ SlotFn' = SlotFn
  BY DEF Owned, Above, SlotFn, SlotOf, Slot, KeyLess, owner
<1>3. Linked(Owned, SlotFn, Above, nextHash, prevHash, hashTable, hashIndex)
  BY ChainIsLinked
<1>4. ChainInv'
  BY <1>2, <1>3, NextState DEF hash
<1> QED BY <1>1, <1>4

\* The keys of the buffers but b are what they were.
LEMMA OtherKeys ==
  ASSUME TypeOK, NEW b \in Bufs,
         \A c \in Bufs \ {b} : file'[c] = file[c] /\ recno'[c] = recno[c],
         UNCHANGED hashBase
  PROVE  /\ \A c \in Bufs \ {b} : SlotFn'[c] = SlotFn[c]
         /\ \A c, d \in Bufs \ {b} : d \in Above'[c] <=> d \in Above[c]
<1>1. \A c \in Bufs \ {b} : SlotFn'[c] = SlotFn[c]
  BY DEF SlotFn, SlotOf, Slot
<1>2. \A c, d \in Bufs \ {b} : d \in Above'[c] <=> d \in Above[c]
  BY DEF Above, KeyLess, Less
<1> QED BY <1>1, <1>2

\* Unlinking a buffer keeps the chains.
LEMMA UnlinkChain ==
  ASSUME TypeOK, TypeOK', ChainInv, OneBuffer, NEW b \in Bufs, Unlink(b), UNCHANGED hashBase
  PROVE  ChainInv' /\ OneBuffer'
<1>1. /\ file' = [file EXCEPT ![b] = NoFile] /\ recno' = recno
      /\ file \in [Bufs -> Files \cup {NoFile}]
  BY DEF Unlink, TypeOK, OwnerType
<1>2. CASE file[b] = NoFile
  <2>1. UNCHANGED <<hash, owner>>
    BY <1>1, <1>2 DEF Unlink, owner
  <2> QED BY <2>1, ChainsKept
<1>3. CASE file[b] # NoFile
  <2>1. Owned' = Owned \ {b} /\ b \in Owned /\ Owned \in SUBSET Bufs
    BY <1>1, <1>3 DEF Owned
  <2>2. \A c \in Bufs \ {b} : file'[c] = file[c] /\ recno'[c] = recno[c]
    BY <1>1
  <2>3. OneBuffer'
    BY <1>1, <2>2 DEF OneBuffer
  <2>4. Linked(Owned \ {b}, SlotFn, Above, nextHash', prevHash', hashTable', hashIndex')
    <3>1. Linked(Owned, SlotFn, Above, nextHash, prevHash, hashTable, hashIndex)
          /\ Ordered(Owned, Above)
      BY ChainIsLinked, OrderedOwned
    <3>2. HashType /\ SlotFn \in [Bufs -> Bufs]
      BY KeyTypes DEF TypeOK
    <3>3. /\ prevHash' = (IF nextHash[b] = Nil THEN prevHash
                          ELSE [prevHash EXCEPT ![nextHash[b]] = prevHash[b]])
          /\ hashIndex' = (IF nextHash[b] = Nil THEN hashIndex
                           ELSE [hashIndex EXCEPT ![nextHash[b]] = hashIndex[b]])
          /\ nextHash' = (IF prevHash[b] = Nil THEN nextHash
                          ELSE [nextHash EXCEPT ![prevHash[b]] = nextHash[b]])
          /\ hashTable' = (IF prevHash[b] = Nil
                           THEN [hashTable EXCEPT ![hashIndex[b]] = nextHash[b]] ELSE hashTable)
      BY <1>3 DEF Unlink
    <3> QED BY <2>1, <3>1, <3>2, <3>3, RemoveLink DEF HashType
  <2>5. Linked(Owned \ {b}, SlotFn', Above', nextHash', prevHash', hashTable', hashIndex')
    <3>1. /\ \A c \in Owned \ {b} : SlotFn'[c] = SlotFn[c]
          /\ \A c, d \in Owned \ {b} : d \in Above'[c] <=> d \in Above[c]
      BY <2>1, <2>2, OtherKeys
    <3>2. Owned \ {b} \in SUBSET Bufs
      BY <2>1
    <3> QED BY <2>4, <3>1, <3>2, LinkedSame
  <2>6. ChainInv'
    BY <2>1, <2>5, NextState
  <2> QED BY <2>3, <2>6
<1> QED BY <1>2, <1>3

\* The target lies in the order of keys like any record.
LEMMA TargetOrder ==
  ASSUME TypeOK, call.f \in Files, call.r \in Recs, NEW b \in Bufs
  PROVE  /\ ~(BeforeTarget(b) /\ AfterTarget(b))
         /\ file[b] = call.f /\ recno[b] = call.r => ~BeforeTarget(b) /\ ~AfterTarget(b)
         /\ \A c \in Bufs : /\ KeyLess(b, c) /\ BeforeTarget(c) => BeforeTarget(b)
                            /\ KeyLess(b, c) /\ AfterTarget(b) => AfterTarget(c)
<1>1. file \in [Bufs -> Nat] /\ recno \in [Bufs -> Nat]
  BY KeyTypes
<1>2. call.f \in Nat /\ call.r \in Nat
  BY FilesAssumption, RecsAssumption
<1> QED BY <1>1, <1>2 DEF BeforeTarget, AfterTarget, KeyLess, Less

\* Of two keys that differ, one is smaller.
LEMMA KeyTotal ==
  ASSUME TypeOK, OneBuffer, NEW b \in Bufs, NEW c \in Bufs, file[b] # NoFile, b # c
  PROVE  /\ KeyLess(b, c) \/ KeyLess(c, b)
         /\ ~(KeyLess(b, c) /\ KeyLess(c, b))
<1>1. file \in [Bufs -> Nat] /\ recno \in [Bufs -> Nat]
  BY KeyTypes
<1>2. ~(file[b] = file[c] /\ recno[b] = recno[c])
  BY DEF OneBuffer
<1> QED BY <1>1, <1>2 DEF KeyLess, Less

\* Every buffer of the slot but hp is on the side of the target on which it is
\* of hp, and none holds the record asked for.
LEMMA PlaceOrder ==
  ASSUME TypeOK, OneBuffer, PlaceFound, call.f \in Files, call.r \in Recs, call.hp \in Bufs
  PROVE  /\ \A c \in Bufs : SameSlot(call.hp, c) /\ c # call.hp =>
              /\ KeyLess(c, call.hp) <=> BeforeTarget(c)
              /\ KeyLess(call.hp, c) <=> AfterTarget(c)
         /\ \A c \in Bufs : ~(file[c] = call.f /\ recno[c] = call.r)
<1>1. file[call.hp] # NoFile /\ SlotOf(call.hp) = Target
  BY DEF PlaceFound
<1>2. ASSUME NEW c \in Bufs, SameSlot(call.hp, c), c # call.hp
      PROVE  /\ KeyLess(c, call.hp) <=> BeforeTarget(c)
             /\ KeyLess(call.hp, c) <=> AfterTarget(c)
             /\ BeforeTarget(c) \/ AfterTarget(c)
  <2>1. KeyLess(call.hp, c) \/ KeyLess(c, call.hp)
    BY <1>1, <1>2, KeyTotal
  <2>2. ~(KeyLess(call.hp, c) /\ KeyLess(c, call.hp))
    BY <1>1, <1>2, KeyTotal
  <2>3. ~(BeforeTarget(c) /\ AfterTarget(c))
    BY TargetOrder
  <2>4. CASE call.nexthp = Nil
    <3>1. KeyLess(c, call.hp) /\ BeforeTarget(call.hp)
      BY <1>2, <2>1, <2>4 DEF PlaceFound
    <3>2. BeforeTarget(c)
      BY <3>1, TargetOrder
    <3> QED BY <2>2, <2>3, <3>1, <3>2
  <2>5. CASE call.nexthp # Nil
    <3>1. KeyLess(c, call.hp) => BeforeTarget(c)
      BY <1>2, <2>5 DEF PlaceFound
    <3>2. KeyLess(call.hp, c) => AfterTarget(c)
      BY <2>5, TargetOrder DEF PlaceFound
    <3> QED BY <2>1, <2>2, <2>3, <3>1, <3>2
  <2> QED BY <2>4, <2>5
<1>3. ASSUME NEW c \in Bufs, file[c] = call.f, recno[c] = call.r
      PROVE  FALSE
  <2>1. ~BeforeTarget(c) /\ ~AfterTarget(c)
    BY <1>3, TargetOrder
  <2>2. c # call.hp
    BY <2>1 DEF PlaceFound
  <2>3. SameSlot(call.hp, c)
    BY <1>1, <1>3, FilesAssumption DEF SameSlot, SlotOf, Target, NoFile
  <2> QED BY <1>2, <2>1, <2>2, <2>3
<1> QED BY <1>2, <1>3

\* Link keeps the chains.
LEMMA LinkChain ==
  ASSUME TypeInv, TypeOK', ChainInv, OneBuffer, SearchInv, Link
  PROVE  ChainInv' /\ OneBuffer'
<1> DEFINE m == call.i
           O == Owned
<1>0. TypeOK
  BY DEF TypeInv
<1>1. /\ m \in Bufs /\ call.f \in Files /\ call.r \in Recs /\ call.f # NoFile
      /\ call.hp \in Bufs \cup {Nil}
  BY <1>0, FilesAssumption, CallFields DEF Link, TypeInv, TypeOK, CallInv, GetPcs, NoFile
<1>2. /\ file[m] = NoFile
      /\ call.hp = Nil => \A b \in Bufs : file[b] # NoFile => SlotOf(b) # Target
      /\ call.hp # Nil => PlaceFound
  BY DEF Link, SearchInv
<1>3. /\ file' = [file EXCEPT ![m] = call.f] /\ recno' = [recno EXCEPT ![m] = call.r]
      /\ file \in [Bufs -> Files \cup {NoFile}] /\ recno \in [Bufs -> Recs \cup {0}]
      /\ hashBase' = hashBase
  BY <1>0 DEF Link, TypeOK, OwnerType, files
<1>4. \A c \in Bufs \ {m} : file'[c] = file[c] /\ recno'[c] = recno[c]
  BY <1>3
<1>5. file'[m] = call.f /\ recno'[m] = call.r
  BY <1>1, <1>3
<1>6. Owned' = O \cup {m} /\ m \notin O /\ O \in SUBSET Bufs
  BY <1>1, <1>2, <1>4, <1>5 DEF Owned
<1>7. OneBuffer'
  <2>1. \A c \in Bufs : ~(file[c] = call.f /\ recno[c] = call.r)
    <3>1. CASE call.hp = Nil
      BY <1>1, <1>2, <3>1 DEF SlotOf, Target
    <3>2. CASE call.hp # Nil
      BY <1>0, <1>1, <1>2, <3>2, PlaceOrder
    <3> QED BY <3>1, <3>2
  <2> QED BY <1>1, <1>4, <1>5, <2>1 DEF OneBuffer
<1>8. Ordered(O \cup {m}, Above')
  BY <1>6, <1>7, NextState
<1>9. Linked(O, SlotFn', Above', nextHash, prevHash, hashTable, hashIndex)
  <2>1. Linked(O, SlotFn, Above, nextHash, prevHash, hashTable, hashIndex)
    BY <1>0, ChainIsLinked
  <2>2. /\ \A c \in Bufs \ {m} : SlotFn'[c] = SlotFn[c]
        /\ \A c, d \in Bufs \ {m} : d \in Above'[c] <=> d \in Above[c]
    BY <1>0, <1>1, <1>3, <1>4, OtherKeys
  <2>3. O \subseteq Bufs \ {m}
    BY <1>6
  <2> HIDE DEF O, m
  <2> QED BY <2>1, <2>2, <2>3, <1>6, LinkedSame
<1>10. SlotFn'[m] = Target
  BY <1>1, <1>3, <1>5 DEF SlotFn, SlotOf, Slot, Target
<1>11. ASSUME NEW c \in O
       PROVE  /\ SlotFn'[c] = SlotOf(c)
              /\ c \in Above'[m] <=> AfterTarget(c)
              /\ m \in Above'[c] <=> BeforeTarget(c)
  <2>1. c \in Bufs \ {m} /\ file[c] # NoFile
    BY <1>6 DEF Owned
  <2>2. SlotFn'[c] = SlotOf(c)
    BY <1>3, <1>4, <2>1 DEF SlotFn, SlotOf, Slot
  <2>3. file'[c] = file[c] /\ recno'[c] = recno[c]
    BY <1>4, <2>1
  <2> QED BY <1>1, <1>5, <2>1, <2>2, <2>3 DEF Above, KeyLess, AfterTarget, BeforeTarget
<1>12. /\ HashType /\ SlotFn' \in [Bufs -> Bufs] /\ m \in Bufs \ O
  BY <1>0, <1>1, <1>6, NextState DEF TypeOK
<1>13. Linked(O \cup {m}, SlotFn', Above', nextHash', prevHash', hashTable', hashIndex')
  <2>1. CASE LinkEmpty(m, Target)
    <3>1. \A b \in O : SlotFn'[b] # SlotFn'[m]
      BY <1>2, <1>10, <1>11, <2>1 DEF LinkEmpty, Owned
    <3>2. /\ hashTable' = [hashTable EXCEPT ![SlotFn'[m]] = m]
          /\ hashIndex' = [hashIndex EXCEPT ![m] = SlotFn'[m]]
          /\ nextHash' = [nextHash EXCEPT ![m] = Nil] /\ prevHash' = [prevHash EXCEPT ![m] = Nil]
      BY <1>10, <2>1 DEF LinkEmpty
    <3> QED BY <1>6, <1>8, <1>9, <1>12, <3>1, <3>2, InsertEmptyLink DEF HashType
  <2>2. ASSUME call.hp # Nil
        PROVE  /\ call.hp \in O /\ SlotFn'[call.hp] = SlotFn'[m]
               /\ \A c \in O : SlotFn'[c] = SlotFn'[m] => SameSlot(call.hp, c)
    <3>1. PlaceFound /\ call.hp \in Bufs
      BY <1>1, <1>2, <2>2
    <3>2. call.hp \in O /\ SlotOf(call.hp) = Target
      BY <3>1 DEF PlaceFound, Owned
    <3> QED BY <1>10, <1>11, <3>2 DEF SameSlot, Owned
  <2>3. CASE LinkBefore(m, Target)
    <3>1. call.hp # Nil /\ call.nexthp # Nil /\ PlaceFound
      BY <1>2, <2>3 DEF LinkBefore
    <3>2. call.hp \in Above'[m]
      BY <1>11, <2>2, <3>1 DEF PlaceFound
    <3>3. ASSUME NEW c \in O, SlotFn'[c] = SlotFn'[m], call.hp \in Above'[c]
          PROVE  m \in Above'[c]
      <4>1. SameSlot(call.hp, c) /\ c \in Bufs \ {m} /\ call.hp \in Bufs \ {m}
        BY <1>6, <2>2, <3>1, <3>3
      <4>2. KeyLess(c, call.hp)
        BY <1>4, <3>3, <4>1 DEF Above, KeyLess
      <4>3. BeforeTarget(c)
        BY <3>1, <4>1, <4>2 DEF PlaceFound
      <4> QED BY <1>11, <4>3
    <3> DEFINE h == call.hp
    <3>4. /\ prevHash' = [prevHash EXCEPT ![m] = prevHash[h], ![h] = m]
          /\ nextHash' = (IF prevHash[h] # Nil
                          THEN [nextHash EXCEPT ![prevHash[h]] = m, ![m] = h]
                          ELSE [nextHash EXCEPT ![m] = h])
          /\ hashTable' = (IF prevHash[h] # Nil THEN hashTable
                           ELSE [hashTable EXCEPT ![SlotFn'[m]] = m])
          /\ hashIndex' = (IF prevHash[h] # Nil THEN hashIndex
                           ELSE [hashIndex EXCEPT ![m] = SlotFn'[m]])
      BY <1>10, <2>3 DEF LinkBefore
    <3>5. /\ h \in O /\ SlotFn'[h] = SlotFn'[m] /\ h \in Above'[m]
          /\ \A c \in O : SlotFn'[c] = SlotFn'[m] /\ h \in Above'[c] => m \in Above'[c]
      BY <2>2, <3>1, <3>2, <3>3
    <3>6. HashType
      BY <1>12
    <3> HIDE DEF O, m, h
    <3> QED BY <1>6, <1>8, <1>9, <1>12, <3>4, <3>5, <3>6, InsertBeforeLink DEF HashType
  <2>4. CASE LinkLast(m)
    <3>1. call.hp # Nil /\ call.nexthp = Nil /\ PlaceFound
      BY <1>2, <2>4 DEF LinkLast
    <3>2. m \in Above'[call.hp]
      BY <1>11, <2>2, <3>1 DEF PlaceFound
    <3>3. ASSUME NEW c \in O, SlotFn'[c] = SlotFn'[m]
          PROVE  c \notin Above'[call.hp]
      <4>1. SameSlot(call.hp, c) /\ c \in Bufs \ {m} /\ call.hp \in Bufs \ {m}
        BY <1>6, <2>2, <3>1, <3>3
      <4>2. ~KeyLess(call.hp, c)
        BY <3>1, <4>1 DEF PlaceFound
      <4> QED BY <1>4, <4>1, <4>2 DEF Above, KeyLess
    <3>4. /\ prevHash' = [prevHash EXCEPT ![m] = call.hp]
          /\ nextHash' = [nextHash EXCEPT ![m] = Nil, ![call.hp] = m]
          /\ UNCHANGED <<hashTable, hashIndex>>
      BY <2>4 DEF LinkLast
    <3> HIDE DEF O, m
    <3> QED BY <1>6, <1>8, <1>9, <1>12, <2>2, <3>1, <3>2, <3>3, <3>4, InsertLastLink DEF HashType
  <2> QED BY <2>1, <2>3, <2>4 DEF Link, Target
<1> QED BY <1>6, <1>7, <1>13, NextState

\* ReuseNeighbour keeps the chains.
LEMMA ReuseChain ==
  ASSUME TypeInv, TypeOK', ChainInv, OneBuffer, SearchInv, ReuseNeighbour
  PROVE  ChainInv' /\ OneBuffer'
<1> DEFINE h == call.hp
<1>0. TypeOK
  BY DEF TypeInv
<1>1. /\ h \in Bufs /\ call.f \in Files /\ call.r \in Recs /\ call.f # NoFile
      /\ PlaceFound
  BY FilesAssumption DEF ReuseNeighbour, TypeInv, CallInv, GetPcs, SearchInv, NoFile
<1>2. /\ file' = [file EXCEPT ![h] = call.f] /\ recno' = [recno EXCEPT ![h] = call.r]
      /\ file \in [Bufs -> Files \cup {NoFile}] /\ recno \in [Bufs -> Recs \cup {0}]
      /\ hashBase' = hashBase /\ UNCHANGED hash
  BY <1>0 DEF ReuseNeighbour, TypeOK, OwnerType, files
<1>3. file'[h] = call.f /\ recno'[h] = call.r
      /\ \A c \in Bufs \ {h} : file'[c] = file[c] /\ recno'[c] = recno[c]
  BY <1>1, <1>2
<1>4. file[h] # NoFile /\ SlotOf(h) = Target
  BY <1>1 DEF PlaceFound
<1>5. /\ \A c \in Bufs : SameSlot(h, c) /\ c # h =>
              /\ KeyLess(c, h) <=> BeforeTarget(c)
              /\ KeyLess(h, c) <=> AfterTarget(c)
      /\ \A c \in Bufs : ~(file[c] = call.f /\ recno[c] = call.r)
  BY <1>0, <1>1, PlaceOrder
<1>6. OneBuffer'
  BY <1>1, <1>3, <1>5 DEF OneBuffer
<1>7. Owned' = Owned /\ Owned \in SUBSET Bufs
  BY <1>1, <1>3, <1>4 DEF Owned
<1>8. \A c \in Owned : SlotFn'[c] = SlotFn[c]
  BY <1>1, <1>2, <1>3, <1>4 DEF Owned, SlotFn, SlotOf, Slot, Target
<1>9. ASSUME NEW b \in Owned, NEW c \in Owned, SlotFn[b] = SlotFn[c]
      PROVE  c \in Above'[b] <=> c \in Above[b]
  <2>0. b \in Bufs /\ c \in Bufs /\ SameSlot(b, c) /\ SameSlot(c, b)
    BY <1>9 DEF Owned, SlotFn, SameSlot
  <2>1. (c \in Above[b] <=> KeyLess(b, c)) /\ (c \in Above'[b] <=> Less(file'[b], recno'[b], file'[c], recno'[c]))
    BY <2>0 DEF Above, KeyLess
  <2>2. CASE b # h /\ c # h
    BY <1>3, <2>0, <2>1, <2>2 DEF KeyLess
  <2>3. CASE b = h /\ c # h
    BY <1>3, <1>5, <2>0, <2>1, <2>3 DEF AfterTarget
  <2>4. CASE b # h /\ c = h
    BY <1>3, <1>5, <2>0, <2>1, <2>4 DEF BeforeTarget
  <2>5. CASE b = h /\ c = h
    <3>1. Ordered(Owned, Above) /\ Ordered(Owned, Above')
      BY <1>0, <1>6, <1>7, OrderedOwned, NextState
    <3> QED BY <2>5, <3>1 DEF Ordered
  <2> QED BY <2>2, <2>3, <2>4, <2>5
<1>10. Linked(Owned, SlotFn, Above, nextHash, prevHash, hashTable, hashIndex)
  BY <1>0, ChainIsLinked
<1>11. Linked(Owned, SlotFn', Above', nextHash, prevHash, hashTable, hashIndex)
  BY <1>7, <1>8, <1>9, <1>10, LinkedSame
<1>12. ChainInv'
  BY <1>2, <1>7, <1>11, NextState DEF hash
<1> QED BY <1>6, <1>12

-----------------------------------------------------------------------------
(* The steps keep the parts of IInv.                                       *)

\* A step keeps the chains.
LEMMA ChainsNext ==
  ASSUME IInv, TypeInv', [Next]_vars
  PROVE  ChainInv' /\ OneBuffer'
<1>0. TypeOK /\ TypeOK' /\ TypeInv /\ ChainInv /\ OneBuffer /\ SearchInv /\ AttachInv
  BY DEF IInv, TypeInv
<1>1. CASE UNCHANGED <<hash, owner, hashBase>>
  BY <1>0, <1>1, ChainsKept
<1>2. CASE Link
  BY <1>0, <1>2, LinkChain
<1>3. CASE ReuseNeighbour
  BY <1>0, <1>3, ReuseChain
<1>4. ASSUME NEW b \in Bufs, Unlink(b), UNCHANGED hashBase
      PROVE  ChainInv' /\ OneBuffer'
  BY <1>0, <1>4, UnlinkChain
<1>5. CASE InsertFile
  <2>1. \A g \in Files : g # call.f => hashBase'[g] = hashBase[g]
    BY <1>0, <1>5, InsertFileType
  <2>2. \A b \in Bufs : file[b] # NoFile => file[b] \in Files /\ file[b] # call.f
    BY <1>0, <1>5, KeyTypes DEF AttachInv, InsertFile
  <2> QED BY <1>0, <1>5, <2>1, <2>2, ChainsKept DEF InsertFile
<1>6. CASE Step
  <2>1. CASE NextMruEvict
    <3>1. nextMru[call.i] \in Bufs
      BY <1>0, <2>1 DEF NextMruEvict, TypeInv, CallInv, TypeOK, RingType
    <3> QED BY <1>4, <2>1, <3>1 DEF NextMruEvict, files
  <2>2. CASE FillFail \/ PurgeHdr
    BY <1>0, <1>4, <2>2 DEF FillFail, PurgeHdr, files, TypeInv, CallInv
  <2>3. CASE PurgeStep
    BY <1>4, <2>3 DEF PurgeStep, files
  <2>4. CASE \/ FindNext \/ FindHit \/ FindMiss \/ TakeLru \/ NextMruSkip \/ NextMruFree
             \/ FillRead \/ FillNew \/ MarkHdr \/ FlushStep \/ FlushEnd \/ PurgeEnd \/ Reattach
    BY <1>1, <2>4 DEF FindNext, FindHit, FindMiss, TakeLru, NextMruSkip, NextMruFree,
       FillRead, FillNew, MarkHdr, FlushStep, FlushEnd, PurgeEnd, Reattach, files
  <2> QED BY <1>2, <1>3, <1>5, <1>6, <2>1, <2>2, <2>3, <2>4 DEF Step
<1>7. CASE CallerStep
  BY <1>1, <1>7 DEF CallerStep, GetRecord, Flush, Purge, DetachCache, AttachCache, Start,
     Modify, FlushRecord, UnLockHdr, LockHdr, Drop, FlushAll, PurgeAll, files
<1> QED BY <1>1, <1>6, <1>7 DEF Next, vars, files

\* A step locks no buffer, when callers do not.
LEMMA NoLocksNext ==
  ASSUME UsesLocks = FALSE, IInv, [Next]_vars
  PROVE  NoLocks'
<1>0. NoLocks /\ TypeOK /\ locks \in [Bufs -> Nat]
  BY DEF IInv, TypeInv, TypeOK
<1>1. CASE UNCHANGED locks
  BY <1>0, <1>1 DEF NoLocks
<1>2. ASSUME NEW b \in Bufs, \/ locks' = [locks EXCEPT ![b] = 0]
                             \/ locks' = [locks EXCEPT ![b] = IF @ > 0 THEN @ - 1 ELSE 0]
      PROVE  NoLocks'
  BY <1>0, <1>2 DEF NoLocks
<1>3. CASE Step
  <2>1. CASE NextMruEvict
    <3>1. nextMru[call.i] \in Bufs
      BY <2>1 DEF NextMruEvict, IInv, TypeInv, CallInv, TypeOK, RingType
    <3> QED BY <1>2, <2>1, <3>1 DEF NextMruEvict, Unlink
  <2>2. CASE FillFail \/ PurgeHdr
    BY <1>2, <2>2 DEF FillFail, PurgeHdr, Unlink, IInv, TypeInv, CallInv
  <2>3. CASE PurgeStep
    BY <1>2, <2>3 DEF PurgeStep, Unlink
  <2> QED BY <1>1, <1>3, <2>1, <2>2, <2>3 DEF Step, FindNext, FindHit, FindMiss, ReuseNeighbour,
      TakeLru, NextMruSkip, NextMruFree, Link, FillRead, FillNew, MarkHdr, FlushStep, FlushEnd,
      PurgeEnd, Reattach, InsertFile
<1>4. CASE CallerStep
  <2>1. ASSUME NEW b \in Bufs, FlushRecord(b) PROVE NoLocks'
    BY <1>2, <2>1 DEF FlushRecord
  <2>2. ASSUME NEW b \in Bufs, UnLockHdr(b) PROVE FALSE
    BY <1>0, <2>2 DEF UnLockHdr, NoLocks
  <2>3. ~LockHdr
    BY DEF LockHdr
  <2> QED BY <1>1, <1>4, <2>1, <2>2, <2>3 DEF CallerStep, GetRecord, Flush, Purge, DetachCache,
      AttachCache, Start, Modify, Drop, FlushAll, PurgeAll
<1> QED BY <1>1, <1>3, <1>4 DEF Next, vars

\* A step keeps FreeInv.
LEMMA FreeNext ==
  ASSUME FreeInv, TypeInv, [Next]_vars
  PROVE  FreeInv'
<1>0. FreeInv /\ TypeOK /\ CallInv /\ OwnerType /\ ContentType
  BY DEF TypeInv, TypeOK
<1>1. CASE UNCHANGED <<status, file>> /\ (call.pc # "fill" \/ UNCHANGED call)
  BY <1>0, <1>1 DEF FreeInv
<1>2. ASSUME NEW b \in Bufs, Unlink(b), call.pc = "fill" => call.hp = b
      PROVE  FreeInv'
  BY <1>0, <1>2 DEF FreeInv, Unlink, OwnerType, ContentType
<1>3. ASSUME NEW b \in Bufs, FlushHdr(b), UNCHANGED file, call.pc # "fill"
      PROVE  FreeInv'
  BY <1>0, <1>3 DEF FreeInv, FlushHdr, ContentType
<1>4. ASSUME NEW b \in Bufs, NEW v \in {"InUse", "Updated"}, status' = [status EXCEPT ![b] = v],
             UNCHANGED file, call.pc = "fill" => call.hp = b
      PROVE  FreeInv'
  BY <1>0, <1>4 DEF FreeInv, ContentType
<1>5. CASE Step
  <2>1. CASE NextMruEvict
    <3>1. nextMru[call.i] \in Bufs
      BY <2>1 DEF NextMruEvict, IInv, TypeInv, CallInv, TypeOK, RingType
    <3> QED BY <1>2, <2>1, <3>1 DEF NextMruEvict
  <2>2. CASE FillFail \/ PurgeHdr
    BY <1>0, <1>2, <2>2 DEF FillFail, PurgeHdr, CallInv
  <2>3. CASE PurgeStep
    BY <1>2, <2>3 DEF PurgeStep
  <2>4. CASE FlushStep
    BY <1>3, <2>4 DEF FlushStep, owner
  <2>5. CASE FindHit \/ FillRead \/ FillNew \/ MarkHdr
    BY <1>0, <1>1, <1>4, <2>5 DEF FindHit, FillRead, FillNew, MarkHdr, CallInv, content, owner
  <2>6. CASE Link
    BY <1>0, <2>6 DEF Link, FreeInv, CallInv, OwnerType, content, CallType, TypeOK
  <2>7. CASE ReuseNeighbour
    <3>1. /\ status' = [status EXCEPT ![call.hp] = IF @ = "Updated" THEN "InUse" ELSE @]
          /\ file' = [file EXCEPT ![call.hp] = call.f]
          /\ call'.pc = "fill" /\ call'.hp = call.hp /\ call.pc = "collide"
      BY <1>0, <2>7 DEF ReuseNeighbour, FlushHdr, TypeOK, CallType
    <3> QED BY <1>0, <3>1 DEF FreeInv, OwnerType, ContentType
  <2> QED BY <1>1, <1>5, <2>1, <2>2, <2>3, <2>4, <2>5, <2>6, <2>7 DEF Step, FindNext, FindMiss,
      TakeLru, NextMruSkip, NextMruFree, FlushEnd, PurgeEnd, Reattach, InsertFile, content, owner
<1>6. CASE CallerStep
  <2>1. ASSUME NEW b \in Bufs, FlushRecord(b) PROVE FreeInv'
    BY <1>3, <2>1 DEF FlushRecord, owner
  <2> QED BY <1>1, <1>6, <2>1 DEF CallerStep, GetRecord, Flush, Purge, DetachCache,
      AttachCache, Start, Modify, UnLockHdr, LockHdr, Drop, FlushAll, PurgeAll, content, owner
<1> QED BY <1>1, <1>5, <1>6 DEF Next, vars, content, owner

\* A step keeps AttachInv.
LEMMA AttachNext ==
  ASSUME IInv, TypeInv', [Next]_vars
  PROVE  AttachInv'
<1>0. /\ AttachInv /\ TypeInv /\ TypeOK /\ CallInv /\ OwnerType /\ call \in CallType
      /\ FilesType
  BY DEF IInv, TypeInv, TypeOK
\* The first conjunct needs only that owners stay attached, the others what
\* the call does.
<1>a. ASSUME UNCHANGED attached,
             \A b \in Bufs : file'[b] \in {file[b], NoFile}
      PROVE  \A b \in Bufs : file'[b] # NoFile => IsAttached(file[b])'
  BY <1>0, <1>a DEF AttachInv, IsAttached
<1>1. CASE UNCHANGED <<file, attached, call>>
  BY <1>0, <1>1 DEF AttachInv, IsAttached, Concerns
<1>2. ASSUME UNCHANGED <<file, attached>>,
             call'.pc \notin {"insert", "purge"},
             call'.pc \in GetPcs => IsAttached(call'.f)
      PROVE  AttachInv'
  BY <1>0, <1>2 DEF AttachInv, IsAttached
<1>3. ASSUME NEW b \in Bufs, Unlink(b), UNCHANGED attached,
             call'.pc \notin {"insert", "purge"},
             call'.pc \in GetPcs => IsAttached(call'.f)
      PROVE  AttachInv'
  <2>1. \A c \in Bufs : file'[c] \in {file[c], NoFile}
    BY <1>0, <1>3 DEF Unlink, OwnerType
  <2> QED BY <1>0, <1>3, <1>a, <2>1 DEF AttachInv, IsAttached
<1>4. CASE Step
  <2>0. CASE FindHit
    BY <1>2, <2>0 DEF FindHit, ReturnHandle, Return, Idle, GetPcs, owner, files
  <2>1. CASE FindNext \/ FindMiss \/ TakeLru \/ NextMruFree
    <3>1. /\ UNCHANGED <<file, attached>> /\ call.pc \in GetPcs
          /\ call'.pc \in GetPcs /\ call'.f = call.f
      BY <1>0, <2>1 DEF FindNext, FindMiss, TakeLru, NextMruFree, GetPcs, CallType, owner, files
    <3>2. call'.pc \notin {"insert", "purge"} /\ IsAttached(call'.f)
      BY <1>0, <3>1 DEF AttachInv, GetPcs
    <3> QED BY <1>2, <3>1, <3>2
  <2>2. CASE NextMruSkip
    BY <1>0, <1>2, <2>2 DEF NextMruSkip, ReturnNull, Return, Idle, AttachInv, GetPcs, CallType,
       owner, files
  <2>3. CASE FillRead \/ FillNew \/ MarkHdr
    BY <1>2, <2>3 DEF FillRead, FillNew, MarkHdr, ReturnHandle, Return, Idle, GetPcs, owner, files
  <2>4. CASE ReuseNeighbour \/ Link
    <3>1. PICK m \in Bufs : file' = [file EXCEPT ![m] = call.f]
      BY <1>0, <2>4 DEF ReuseNeighbour, Link, CallInv
    <3>2. IsAttached(call.f) /\ UNCHANGED attached /\ call'.pc = "fill" /\ call'.f = call.f
      BY <1>0, <2>4 DEF ReuseNeighbour, Link, AttachInv, GetPcs, CallType, files
    <3> QED BY <1>0, <3>1, <3>2 DEF AttachInv, IsAttached, OwnerType
  <2>5. CASE NextMruEvict
    <3>1. nextMru[call.i] \in Bufs
      BY <1>0, <2>5 DEF NextMruEvict, CallInv, TypeOK, RingType
    <3>2. IsAttached(call.f) /\ call'.f = call.f /\ call'.pc = "link" /\ UNCHANGED attached
      BY <1>0, <2>5 DEF NextMruEvict, AttachInv, GetPcs, CallType, files
    <3> QED BY <1>3, <2>5, <3>1, <3>2 DEF NextMruEvict
  <2>6. CASE FillFail \/ PurgeHdr
    BY <1>0, <1>3, <2>6 DEF FillFail, PurgeHdr, ReturnNull, Return, Idle, CallInv, GetPcs, files
  <2>7. CASE FlushStep
    BY <1>0, <1>2, <2>7 DEF FlushStep, GetPcs, CallType, owner, files
  <2>8. CASE FlushEnd
    <3>1. call' = Idle \/ (call'.pc = "purge" /\ call'.i = 0)
      BY <1>0, <2>8 DEF FlushEnd, Return, CallType
    <3>2. CASE call' = Idle
      BY <1>2, <2>8, <3>2 DEF FlushEnd, Idle, GetPcs, owner, files
    <3>3. CASE call'.pc = "purge" /\ call'.i = 0
      <4>1. \A b \in Bufs : ~(b < 0)
        BY BufcntAssumption DEF Bufs
      <4> QED BY <1>0, <2>8, <3>3, <4>1 DEF FlushEnd, AttachInv, IsAttached, GetPcs, owner, files
    <3> QED BY <3>1, <3>2, <3>3
  <2>9. CASE PurgeStep
    <3>1. PICK b \in Bufs : NextConcerned(b) /\ Unlink(b) /\ call' = [call EXCEPT !.i = b + 1]
      BY <2>9 DEF PurgeStep
    <3>2. file' = [file EXCEPT ![b] = NoFile] /\ UNCHANGED attached
      BY <2>9, <3>1 DEF PurgeStep, Unlink, files
    <3>3. \A c \in Bufs : file'[c] \in {file[c], NoFile}
      BY <1>0, <3>2 DEF OwnerType
    <3>4. call.pc = "purge" /\ call'.pc = "purge" /\ call'.f = call.f /\ call'.i = b + 1
      BY <1>0, <2>9, <3>1 DEF PurgeStep, CallType
    <3>5. ASSUME NEW c \in Bufs, c < b + 1 PROVE ~Concerns(c)'
      <4>1. c < call.i \/ (c >= call.i /\ c < b) \/ c = b
        BY <1>0, <3>5, BufsFacts, BufcntAssumption DEF CallType
      <4>2. c < call.i => ~Concerns(c)
        BY <1>0, <3>4 DEF AttachInv
      <4>3. c >= call.i /\ c < b => ~Concerns(c)
        BY <3>1 DEF NextConcerned
      <4>4. c # b => ~Concerns(c)
        BY <4>1, <4>2, <4>3
      <4>5. c = b => file'[c] = NoFile
        BY <1>0, <3>2 DEF OwnerType
      <4>6. c # b => file'[c] = file[c]
        BY <1>0, <3>2 DEF OwnerType
      <4> QED BY <3>4, <4>4, <4>5, <4>6 DEF Concerns
    <3> QED BY <1>a, <3>2, <3>3, <3>4, <3>5 DEF AttachInv, GetPcs
  <2>10. ASSUME call.pc = "purge", LoopEnds
         PROVE  \A b \in Bufs : ~Concerns(b)
    <3>1. ASSUME NEW b \in Bufs PROVE b < call.i \/ b >= call.i
      BY <1>0, BufsFacts DEF CallType
    <3> QED BY <1>0, <2>10, <3>1 DEF AttachInv, LoopEnds
  <2>11. ASSUME call.pc = "purge", LoopEnds, call.op \in {"detach", "attach"},
                LeaveCache(call.f), UNCHANGED file
         PROVE  /\ \A b \in Bufs : file'[b] # NoFile => IsAttached(file[b])'
                /\ \A b \in Bufs : file'[b] # call.f
    <3>1. call.f \in Files /\ call.f # NoFile
      BY <1>0, <2>11, FilesAssumption DEF CallInv, NoFile
    <3>2. \A b \in Bufs : file[b] # call.f
      BY <2>10, <2>11, <3>1 DEF Concerns
    <3>3. \A g \in Files : g # call.f /\ IsAttached(g) => IsAttached(g)'
      BY <1>0, <2>11, <3>1, LeaveCacheType DEF FilesType
    <3>4. \A b \in Bufs : file[b] # NoFile => file[b] \in Files /\ IsAttached(file[b])
      BY <1>0 DEF AttachInv, OwnerType
    <3> QED BY <2>11, <3>2, <3>3, <3>4 DEF IsAttached
  <2>12. CASE PurgeEnd
    <3>1. call' = Idle /\ UNCHANGED file
      BY <2>12 DEF PurgeEnd, ReturnNull, Return, owner
    <3>2. CASE call.op \in {"detach", "attach"}
      BY <2>11, <2>12, <3>1, <3>2 DEF PurgeEnd, AttachInv, Idle, GetPcs
    <3>3. CASE ~(call.op \in {"detach", "attach"})
      BY <1>2, <2>12, <3>1, <3>3 DEF PurgeEnd, Idle, GetPcs
    <3> QED BY <3>2, <3>3
  <2>13. CASE Reattach
    <3>1. /\ call'.pc = "insert" /\ call'.f = call.f /\ UNCHANGED file
          /\ call.pc = "purge" /\ LoopEnds /\ call.op \in {"detach", "attach"}
          /\ LeaveCache(call.f)
      BY <1>0, <2>13 DEF Reattach, CallType, owner
    <3> QED BY <2>11, <3>1 DEF AttachInv, GetPcs
  <2>14. CASE InsertFile
    <3>1. \A g \in Files : IsAttached(g) => IsAttached(g)'
      BY <1>0, <2>14, InsertFileType
    <3>2. call' = Idle /\ UNCHANGED file
      BY <2>14 DEF InsertFile, Return, owner
    <3>3. \A b \in Bufs : file[b] # NoFile => file[b] \in Files /\ IsAttached(file[b])
      BY <1>0 DEF AttachInv, OwnerType
    <3> QED BY <3>1, <3>2, <3>3 DEF AttachInv, Idle, GetPcs, IsAttached
  <2> QED BY <1>4, <2>0, <2>1, <2>2, <2>3, <2>4, <2>5, <2>6, <2>7, <2>8, <2>9, <2>12, <2>13, <2>14
      DEF Step
<1>5. CASE CallerStep
  <2>1. ASSUME NEW f \in Files, NEW r \in Recs, NEW fill \in Data \cup {Absent},
               GetRecord(f, r, fill)
        PROVE  AttachInv'
    <3>1. call' = Idle \/ (IsAttached(f) /\ call'.f = f /\ call'.pc \in GetPcs)
      BY <2>1 DEF GetRecord, ReturnNull, Return, Idle, GetPcs
    <3>2. UNCHANGED <<file, attached>>
      BY <2>1 DEF GetRecord, owner, files
    <3> QED BY <1>2, <3>1, <3>2 DEF Idle, GetPcs
  <2>2. ASSUME NEW op, NEW pc \in {"flush", "purge", "insert"}, NEW f, Start(op, pc, f),
               pc = "insert" => f \in Files /\ ~IsAttached(f)
        PROVE  AttachInv'
    <3>1. /\ call'.pc = pc /\ call'.f = f /\ call'.i = 0 /\ UNCHANGED <<file, attached>>
      BY <2>2 DEF Start, Idle, owner, files
    <3>2. \A b \in Bufs : ~(b < 0)
      BY BufcntAssumption DEF Bufs
    <3>3. pc = "insert" => \A b \in Bufs : file[b] # f
      BY <1>0, <2>2, FilesAssumption DEF AttachInv, NoFile
    <3> QED BY <1>0, <2>2, <3>1, <3>2, <3>3 DEF AttachInv, IsAttached, GetPcs
  <2>3. ASSUME NEW f \in Files, Flush(f) \/ Purge(f) \/ DetachCache(f) \/ AttachCache(f)
        PROVE  AttachInv'
    BY <2>2, <2>3 DEF Flush, Purge, DetachCache, AttachCache
  <2>4. CASE FlushAll \/ PurgeAll
    BY <2>2, <2>4 DEF FlushAll, PurgeAll
  <2>5. ASSUME NEW b \in Bufs, NEW v \in Data, Modify(b, v)
        PROVE  AttachInv'
    BY <1>2, <2>5 DEF Modify, Idle, GetPcs, owner, files
  <2>6. ASSUME NEW b \in Bufs, FlushRecord(b) \/ UnLockHdr(b)
        PROVE  AttachInv'
    BY <1>1, <2>6 DEF FlushRecord, UnLockHdr, owner, files
  <2>7. CASE LockHdr
    BY <1>1, <2>7 DEF LockHdr, owner, files
  <2>8. CASE Drop
    BY <1>2, <2>8 DEF Drop, Idle, GetPcs, owner, files
  <2> QED BY <1>5, <2>1, <2>3, <2>4, <2>5, <2>6, <2>7, <2>8 DEF CallerStep
<1> QED BY <1>1, <1>4, <1>5 DEF Next, vars, owner, files

\* A step keeps SearchInv.
LEMMA SearchNext ==
  ASSUME UsesLocks = FALSE, IInv, TypeInv', [Next]_vars
  PROVE  SearchInv'
<1>0. /\ SearchInv /\ TypeInv /\ TypeOK /\ TypeOK' /\ CallInv /\ call \in CallType
      /\ HashType /\ RingType /\ OwnerType /\ FreeInv /\ ChainInv /\ OneBuffer /\ NoLocks
      /\ CallInv'
  BY DEF IInv, TypeInv, TypeOK
<1>t. ASSUME call.f \in Files, call.r \in Recs PROVE Target \in Bufs
  BY <1>0, <1>t, SlotInBufs DEF Target
<1>1. CASE call'.pc \notin {"find", "collide", "lru", "link"}
  BY <1>1 DEF SearchInv
<1>2. ASSUME NEW f \in Files, NEW r \in Recs, NEW fill \in Data \cup {Absent},
             GetRecord(f, r, fill)
      PROVE  SearchInv'
  <2>1. CASE errno[f] \/ ~IsAttached(f)
    BY <1>1, <1>2, <2>1 DEF GetRecord, ReturnNull, Return, Idle
  <2>2. CASE ~(errno[f] \/ ~IsAttached(f))
    <3> DEFINE s == Slot(f, r)
               head == hashTable[s]
    <3>1. /\ call'.pc = (IF head = Nil THEN "lru" ELSE "find")
          /\ call'.f = f /\ call'.r = r /\ call'.hp = head /\ call'.nexthp = Nil
          /\ call'.i = mru
          /\ UNCHANGED <<mru, nextMru, prevHash, hashTable, file, recno, hashBase>>
      BY <1>2, <2>2 DEF GetRecord, Idle, ring, hash, owner, files
    <3>2. s \in Bufs /\ Target' = s /\ head \in Bufs \cup {Nil}
      BY <1>0, <3>1, SlotInBufs DEF Target, Slot, HashType
    <3>3. HeadIsRight(s)
      BY <1>0, <3>2 DEF ChainInv
    <3>4. CASE head = Nil
      <4>1. nextMru[mru] \in Bufs /\ Nil \notin Bufs
        BY <1>0, BufsFacts DEF RingType
      <4>2. \A b \in Bufs : file'[b] # NoFile => SlotOf(b)' # Target'
        BY <3>1, <3>2, <3>3, <3>4 DEF HeadIsRight, SlotOf, Slot
      <4>3. call'.pc = "lru" /\ call'.hp = Nil /\ call'.i = mru' /\ call'.hp # nextMru'[mru']
        BY <3>1, <3>4, <4>1
      <4> QED BY <4>2, <4>3 DEF SearchInv
    <3>5. CASE head # Nil
      <4>1. PICK h \in Bufs : h = head
        BY <3>2, <3>5
      <4>2. file[h] # NoFile /\ SlotOf(h) = s /\ prevHash[h] = Nil
        BY <3>3, <3>5, <4>1 DEF HeadIsRight
      <4>3. \A c \in Bufs : SameSlot(h, c) => ~KeyLess(c, h)
        BY <1>0, <4>2 DEF ChainInv, PrevIsRight
      <4>4. call'.pc = "find" /\ call'.hp = h
        BY <3>1, <3>5, <4>1
      <4>5. /\ file'[h] # NoFile /\ file'[h] = file[h] /\ SlotOf(h)' = Target'
            /\ \A c \in Bufs : SameSlot(h, c)' => ~KeyLess(c, h)'
        BY <3>1, <3>2, <4>2, <4>3 DEF SameSlot, SlotOf, Slot, KeyLess
      <4>6. /\ file'[call'.hp] # NoFile /\ SlotOf(call.hp)' = Target'
            /\ \A c \in Bufs : SameSlot(call.hp, c)' => ~KeyLess(c, call.hp)'
        BY <4>4, <4>5 DEF SameSlot, SlotOf, KeyLess
      <4> HIDE DEF head, s
      <4> QED BY <4>4, <4>6 DEF SearchInv
    <3> QED BY <3>4, <3>5
  <2> QED BY <2>1, <2>2
\* The steps of the search that move no buffer.
<1>3. ASSUME UNCHANGED <<file, recno, hashBase>>, call'.f = call.f, call'.r = call.r
      PROVE  /\ Target' = Target
             /\ \A b, c \in Bufs : /\ SameSlot(b, c)' <=> SameSlot(b, c)
                                   /\ KeyLess(b, c)' <=> KeyLess(b, c)
             /\ \A b \in Bufs : /\ SlotOf(b)' = SlotOf(b)
                                /\ BeforeTarget(b)' <=> BeforeTarget(b)
                                /\ AfterTarget(b)' <=> AfterTarget(b)
  BY <1>3 DEF Target, SameSlot, SlotOf, Slot, KeyLess, BeforeTarget, AfterTarget
<1>4. ASSUME UNCHANGED <<file, recno, hashBase>>, call'.f = call.f, call'.r = call.r,
             call'.hp = call.hp, call'.nexthp = call.nexthp, call.hp \in Bufs, PlaceFound
      PROVE  PlaceFound'
  BY <1>4 DEF PlaceFound, Target, SameSlot, SlotOf, Slot, KeyLess, BeforeTarget, AfterTarget
<1>5. CASE FindNext
  <2> DEFINE b == call.hp
             n == nextHash[b]
  <2>1. /\ b \in Bufs /\ n \in Bufs /\ n # Nil /\ BeforeTarget(b) /\ call.pc = "find"
        /\ file[b] # NoFile /\ SlotOf(b) = Target /\ call.f \in Files /\ call.r \in Recs
    BY <1>0, <1>5 DEF FindNext, CallInv, GetPcs, SearchInv, HashType, BeforeTarget
  <2>2. /\ call'.pc = "find" /\ call'.f = call.f /\ call'.r = call.r /\ call'.hp = n
        /\ UNCHANGED <<file, recno, hashBase>>
    BY <1>0, <1>5 DEF FindNext, CallType, owner, files
  <2>3. /\ SameSlot(b, n) /\ KeyLess(b, n)
        /\ \A c \in Bufs : SameSlot(b, c) => ~(KeyLess(b, c) /\ KeyLess(c, n))
    BY <1>0, <2>1 DEF ChainInv, NextIsRight
  <2>4. ASSUME NEW c \in Bufs, SameSlot(n, c), KeyLess(c, n)
        PROVE  BeforeTarget(c)
    <3>1. SameSlot(b, c) /\ ~KeyLess(b, c)
      BY <2>3, <2>4 DEF SameSlot
    <3>2. CASE c = b
      BY <2>1, <3>2
    <3>3. CASE c # b
      <4>1. KeyLess(c, b)
        BY <1>0, <2>1, <3>1, <3>3, KeyTotal
      <4> QED BY <1>0, <2>1, <4>1, TargetOrder
    <3> QED BY <3>2, <3>3
  <2>5. file[n] # NoFile /\ SlotOf(n) = Target
    BY <2>1, <2>3 DEF SameSlot
  <2> HIDE DEF n, b
  <2>6. /\ file'[call'.hp] # NoFile /\ SlotOf(call.hp)' = Target'
        /\ \A c \in Bufs : SameSlot(call.hp, c)' /\ KeyLess(c, call.hp)' => BeforeTarget(c)'
    BY <2>2, <2>4, <2>5 DEF Target, SameSlot, SlotOf, Slot, KeyLess, BeforeTarget
  <2> QED BY <2>2, <2>6 DEF SearchInv
<1>6. CASE FindMiss
  <2>1. /\ call.hp \in Bufs /\ call.nexthp = Nil /\ call.pc = "find" /\ call'.pc = "collide"
        /\ file[call.hp] # NoFile /\ SlotOf(call.hp) = Target
        /\ \A c \in Bufs : SameSlot(call.hp, c) /\ KeyLess(c, call.hp) => BeforeTarget(c)
        /\ call'.f = call.f /\ call'.r = call.r /\ call'.hp = call.hp
        /\ UNCHANGED <<file, recno, hashBase>>
    BY <1>0, <1>6 DEF FindMiss, CallInv, CallType, SearchInv, owner, files
  <2>2. CASE BeforeTarget(call.hp) /\ nextHash[call.hp] = Nil /\ call'.nexthp = Nil
    <3>1. \A c \in Bufs : SameSlot(call.hp, c) => ~KeyLess(call.hp, c)
      BY <1>0, <2>1, <2>2 DEF ChainInv, NextIsRight
    <3>2. PlaceFound'
      BY <2>1, <2>2, <3>1
      DEF PlaceFound, Target, SameSlot, SlotOf, Slot, KeyLess, BeforeTarget, AfterTarget
    <3> QED BY <2>1, <3>2 DEF SearchInv
  <2>3. CASE AfterTarget(call.hp) /\ call'.nexthp = call.hp
    <3>1. call.hp # Nil
      BY <2>1, BufsFacts
    <3>2. PlaceFound'
      BY <2>1, <2>3, <3>1
      DEF PlaceFound, Target, SameSlot, SlotOf, Slot, KeyLess, BeforeTarget, AfterTarget
    <3> QED BY <2>1, <3>2 DEF SearchInv
  <2> QED BY <1>0, <1>6, <2>1, <2>2, <2>3 DEF FindMiss, BeforeTarget, AfterTarget, CallType
<1>7. CASE TakeLru
  <2>1. /\ call.hp \in Bufs /\ call.pc = "collide" /\ PlaceFound /\ call'.pc = "lru"
        /\ call'.f = call.f /\ call'.r = call.r /\ call'.hp = call.hp
        /\ call'.nexthp = call.nexthp /\ call'.i = mru
        /\ UNCHANGED <<file, recno, hashBase, mru, nextMru>>
    BY <1>0, <1>7 DEF TakeLru, CallInv, CallType, SearchInv, owner, files, ring
  <2>2. PlaceFound' /\ call.hp # Nil
    BY <1>4, <2>1, BufsFacts
  <2>3. call.hp # nextMru[mru]
    BY <1>0, <1>7, <2>1 DEF TakeLru, NoLocks
  <2> QED BY <2>1, <2>2, <2>3 DEF SearchInv
<1>8. CASE NextMruSkip
  <2>1. nextMru[call.i] \in Bufs
    BY <1>0, <1>8 DEF NextMruSkip, CallInv, RingType
  <2> QED BY <1>0, <1>8, <2>1 DEF NextMruSkip, NoLocks
<1>9. CASE NextMruFree
  <2> DEFINE b == nextMru[call.i]
  <2>1. /\ b \in Bufs /\ status[b] = "Free" /\ call.pc = "lru" /\ call'.pc = "link"
        /\ call'.f = call.f /\ call'.r = call.r /\ call'.hp = call.hp
        /\ call'.nexthp = call.nexthp /\ call'.i = b
        /\ UNCHANGED <<file, recno, hashBase>>
    BY <1>0, <1>9 DEF NextMruFree, CallInv, CallType, RingType, owner, files
  <2>2. file[b] = NoFile
    BY <1>0, <2>1 DEF FreeInv
  <2>3. call'.pc = "link" => file'[call'.i] = NoFile
    BY <2>1, <2>2
  <2>4. CASE call.hp = Nil
    <3>1. \A c \in Bufs : file'[c] # NoFile => SlotOf(c)' # Target'
      BY <1>0, <2>1, <2>4 DEF SearchInv, SlotOf, Slot, Target
    <3> QED BY <2>1, <2>3, <2>4, <3>1 DEF SearchInv
  <2>5. CASE call.hp # Nil
    <3>1. call.hp \in Bufs /\ PlaceFound
      BY <1>0, <2>1, <2>5 DEF SearchInv, CallType
    <3>2. PlaceFound'
      BY <1>4, <2>1, <3>1
    <3> QED BY <2>1, <2>3, <2>5, <3>2 DEF SearchInv
  <2> QED BY <2>4, <2>5
<1>10. CASE NextMruEvict
  <2> DEFINE b == nextMru[call.i]
  <2>1. /\ b \in Bufs /\ call.pc = "lru" /\ call'.pc = "link"
        /\ call'.f = call.f /\ call'.r = call.r /\ call'.hp = call.hp
        /\ call'.nexthp = call.nexthp /\ call'.i = b
        /\ UNCHANGED <<recno, hashBase>> /\ file' = [file EXCEPT ![b] = NoFile]
    BY <1>0, <1>10 DEF NextMruEvict, Unlink, CallInv, CallType, RingType, files
  <2>2. file'[b] = NoFile /\ \A c \in Bufs : c # b => file'[c] = file[c]
    BY <1>0, <2>1 DEF OwnerType
  <2>3. file'[call'.i] = NoFile
    BY <2>1, <2>2
  <2>4. CASE call.hp = Nil
    <3>1. \A c \in Bufs : file'[c] # NoFile => SlotOf(c)' # Target'
      BY <1>0, <2>1, <2>2, <2>4 DEF SearchInv, SlotOf, Slot, Target
    <3> QED BY <2>1, <2>3, <2>4, <3>1 DEF SearchInv
  <2>5. CASE call.hp # Nil
    <3>1. call.hp \in Bufs /\ PlaceFound /\ call.hp # b
      BY <1>0, <2>1, <2>5 DEF SearchInv, CallType
    <3>2. \A c \in Bufs : SameSlot(call.hp, c)' =>
            /\ SameSlot(call.hp, c)
            /\ KeyLess(call.hp, c)' <=> KeyLess(call.hp, c)
            /\ KeyLess(c, call.hp)' <=> KeyLess(c, call.hp)
            /\ BeforeTarget(c)' <=> BeforeTarget(c)
      BY <2>1, <2>2, <3>1 DEF SameSlot, SlotOf, Slot, KeyLess, BeforeTarget
    <3>3. /\ file'[call.hp] # NoFile /\ SlotOf(call.hp)' = Target'
          /\ BeforeTarget(call.hp)' <=> BeforeTarget(call.hp)
          /\ AfterTarget(call.hp)' <=> AfterTarget(call.hp)
      BY <2>1, <2>2, <3>1 DEF PlaceFound, SlotOf, Slot, Target, BeforeTarget, AfterTarget
    <3>4. PlaceFound'
      BY <2>1, <3>1, <3>2, <3>3 DEF PlaceFound
    <3> QED BY <2>1, <2>3, <2>5, <3>4 DEF SearchInv
  <2> QED BY <2>4, <2>5
<1>11. CASE UNCHANGED vars
  <2>1. CASE call.pc \notin {"find", "collide", "lru", "link"}
    BY <1>1, <1>11, <2>1 DEF vars
  <2>2. UNCHANGED <<file, recno, hashBase, mru, nextMru, call>>
    BY <1>11 DEF vars, owner, files, ring
  <2> QED BY <1>0, <2>2 DEF SearchInv, PlaceFound, Target, SameSlot, SlotOf, Slot, KeyLess,
      BeforeTarget, AfterTarget
<1>12. CASE Step
  <2>1. CASE FindHit \/ FillRead \/ FillNew
    BY <1>1, <2>1 DEF FindHit, FillRead, FillNew, ReturnHandle, Return, Idle
  <2>2. CASE FillFail \/ PurgeHdr \/ PurgeEnd
    BY <1>1, <2>2 DEF FillFail, PurgeHdr, PurgeEnd, ReturnNull, Return, Idle
  <2>3. CASE MarkHdr \/ InsertFile
    BY <1>1, <2>3 DEF MarkHdr, InsertFile, Return, Idle
  <2>4. CASE ReuseNeighbour \/ Link \/ FlushStep \/ PurgeStep \/ Reattach
    <3>1. CASE ReuseNeighbour
      <4>1. call'.pc = "fill"
        BY <1>0, <3>1 DEF ReuseNeighbour, CallType
      <4> QED BY <1>1, <4>1
    <3>2. CASE Link
      <4>1. call' = [call EXCEPT !.pc = "fill", !.hp = call.i]
        BY <3>2 DEF Link
      <4>2. call'.pc = "fill"
        BY <1>0, <4>1 DEF CallType
      <4> QED BY <1>1, <4>2
    <3>3. CASE FlushStep \/ PurgeStep
      <4>1. call'.pc \in {"flush", "purge"}
        BY <1>0, <3>3 DEF FlushStep, PurgeStep, CallType
      <4> QED BY <1>1, <4>1
    <3>4. CASE Reattach
      <4>1. call'.pc = "insert"
        BY <1>0, <3>4 DEF Reattach, CallType
      <4> QED BY <1>1, <4>1
    <3> QED BY <2>4, <3>1, <3>2, <3>3, <3>4
  <2>5. CASE FlushEnd
    <3>1. call' = [call EXCEPT !.pc = "purge", !.i = 0] \/ call' = Idle
      BY <2>5 DEF FlushEnd, Return
    <3>2. CASE call' = [call EXCEPT !.pc = "purge", !.i = 0]
      <4>1. call'.pc = "purge"
        BY <1>0, <3>2 DEF CallType
      <4> QED BY <1>1, <4>1
    <3>3. CASE call' = Idle
      <4>1. call'.pc = "idle"
        BY <3>3 DEF Idle
      <4> QED BY <1>1, <4>1
    <3> QED BY <3>1, <3>2, <3>3
  <2> QED BY <1>5, <1>6, <1>7, <1>8, <1>9, <1>10, <1>12, <2>1, <2>2, <2>3, <2>4, <2>5 DEF Step
<1>13. CASE CallerStep
  <2>1. ASSUME NEW op, NEW pc \in {"flush", "purge", "insert"}, NEW f, Start(op, pc, f)
        PROVE  SearchInv'
    BY <1>1, <2>1 DEF Start, Idle
  <2>2. ASSUME NEW f \in Files, Flush(f) \/ Purge(f) \/ DetachCache(f) \/ AttachCache(f)
        PROVE  SearchInv'
    BY <2>1, <2>2 DEF Flush, Purge, DetachCache, AttachCache
  <2>3. CASE FlushAll \/ PurgeAll
    BY <2>1, <2>3 DEF FlushAll, PurgeAll
  <2>4. ASSUME NEW b \in Bufs, NEW v \in Data, Modify(b, v)
        PROVE  SearchInv'
    BY <1>1, <2>4 DEF Modify, Idle
  <2>5. ASSUME NEW b \in Bufs, FlushRecord(b) \/ UnLockHdr(b)
        PROVE  SearchInv'
    BY <1>1, <2>5 DEF FlushRecord, UnLockHdr
  <2>6. CASE LockHdr \/ Drop
    BY <1>1, <2>6 DEF LockHdr, Drop, Idle
  <2> QED BY <1>2, <1>13, <2>2, <2>3, <2>4, <2>5, <2>6 DEF CallerStep
<1> QED BY <1>11, <1>12, <1>13 DEF Next

-----------------------------------------------------------------------------
(* The invariant.                                                          *)

\* IInv holds initially.
LEMMA InitInv == Init => IInv
<1> SUFFICES ASSUME Init PROVE IInv
  OBVIOUS
<1>1. TypeInv
  BY InitType
<1>2. NoLocks /\ FreeInv
  BY DEF Init, NoLocks, FreeInv
<1>3. AttachInv /\ SearchInv
  BY DEF Init, Idle, AttachInv, SearchInv, GetPcs
<1>4. ChainInv /\ OneBuffer
  BY DEF Init, ChainInv, HeadIsRight, OneBuffer
<1> QED BY <1>1, <1>2, <1>3, <1>4 DEF IInv

\* A step keeps IInv, without locks.
LEMMA NextInv == UsesLocks = FALSE /\ IInv /\ [Next]_vars => IInv'
<1> SUFFICES ASSUME UsesLocks = FALSE, IInv, [Next]_vars PROVE IInv'
  OBVIOUS
<1>1. TypeInv'
  BY NextType DEF IInv
<1> QED BY <1>1, ChainsNext, NoLocksNext, FreeNext, AttachNext, SearchNext DEF IInv

\* As long as no buffer is locked, the hash chains are the records buffered in
\* each slot, in order, and no record has two buffers, at every step of every
\* call: for any number of buffers, files and records.
THEOREM ChainsCorrect == UsesLocks = FALSE /\ Spec => [](ChainInv /\ OneBuffer)
<1> SUFFICES ASSUME UsesLocks = FALSE PROVE Spec => [](ChainInv /\ OneBuffer)
  OBVIOUS
<1>1. IInv /\ [Next]_vars => IInv'
  BY NextInv
<1>2. IInv => ChainInv /\ OneBuffer
  BY DEF IInv
<1> QED BY <1>1, <1>2, InitInv, PTL DEF Spec

\* No record ever has two buffers, which could hold different contents and be
\* written in either order: FindHit returns the only one, and TakeLru and
\* FillRead give a buffer to a record that has none.
THEOREM OneBufferEach == UsesLocks = FALSE /\ Spec => []OneBuffer
<1>1. ChainInv /\ OneBuffer => OneBuffer
  OBVIOUS
<1> QED BY <1>1, ChainsCorrect, PTL
=============================================================================
