--------------------------- MODULE CshRingProofs ---------------------------
(***************************************************************************)
(* Proofs about the order of use: the ring of headers is one cycle through *)
(* all buffers, the same both ways (with or without locks), and the handle *)
(* a GetRecord returned stays good for one more GetRecord, however few     *)
(* buffers there are (without locks).                                      *)
(***************************************************************************)
EXTENDS CshStoreProofs, WellFoundedInduction

-----------------------------------------------------------------------------
(* The ring as an order: at[0] is the least recently used buffer, and      *)
(* at[Bufcnt - 1] the most recently used one; pos is the inverse of at.    *)

Up(k) == IF k = Bufcnt - 1 THEN 0 ELSE k + 1
Down(k) == IF k = 0 THEN Bufcnt - 1 ELSE k - 1

IsOrder(m, prev, next, at, pos) ==
  /\ at \in [Bufs -> Bufs] /\ pos \in [Bufs -> Bufs]
  /\ \A b \in Bufs : at[pos[b]] = b
  /\ \A k \in Bufs : pos[at[k]] = k
  /\ at[Bufcnt - 1] = m
  /\ \A k \in Bufs : next[at[k]] = at[Up(k)]
  /\ \A k \in Bufs : prev[at[k]] = at[Down(k)]

HasOrder(m, prev, next) == \E at, pos \in [Bufs -> Bufs] : IsOrder(m, prev, next, at, pos)
OrderInv == HasOrder(mru, prevMru, nextMru)

\* Places are numbers of buffers.
LEMMA PlaceFacts ==
  /\ \A k : k \in Bufs <=> k \in Int /\ 0 <= k /\ k <= Bufcnt - 1
  /\ Bufcnt \in Int /\ Bufcnt >= 2 /\ Bufcnt - 1 \in Bufs
  /\ \A k \in Bufs : Up(k) \in Bufs /\ Down(k) \in Bufs
  /\ \A k \in Bufs : Up(Down(k)) = k /\ Down(Up(k)) = k
BY BufcntAssumption DEF Bufs, Up, Down

\* Any buffer can be made the Mru by turning the ring.
LEMMA TurnOrder ==
  ASSUME NEW m, NEW prev, NEW next, HasOrder(m, prev, next), NEW b \in Bufs
  PROVE  HasOrder(b, prev, next)
<1>1. PICK at \in [Bufs -> Bufs], pos \in [Bufs -> Bufs] : IsOrder(m, prev, next, at, pos)
  BY DEF HasOrder
<1> DEFINE p == pos[b]
           Turn(k) == IF k + p + 1 < Bufcnt THEN k + p + 1 ELSE k + p + 1 - Bufcnt
           Back(k) == IF k > p THEN k - p - 1 ELSE k - p - 1 + Bufcnt
           at2 == [k \in Bufs |-> at[Turn(k)]]
           pos2 == [c \in Bufs |-> Back(pos[c])]
<1>2. p \in Bufs
  OBVIOUS
<1> HIDE DEF p
<1>3. \A k \in Bufs : /\ Turn(k) \in Bufs /\ Back(k) \in Bufs
                      /\ Turn(Back(k)) = k /\ Back(Turn(k)) = k
                      /\ Turn(Up(k)) = Up(Turn(k)) /\ Turn(Down(k)) = Down(Turn(k))
  <2> SUFFICES ASSUME NEW k \in Bufs
               PROVE  /\ Turn(k) \in Bufs /\ Back(k) \in Bufs
                      /\ Turn(Back(k)) = k /\ Back(Turn(k)) = k
                      /\ Turn(Up(k)) = Up(Turn(k)) /\ Turn(Down(k)) = Down(Turn(k))
    OBVIOUS
  <2>1. /\ k \in Int /\ 0 <= k /\ k <= Bufcnt - 1 /\ p \in Int /\ 0 <= p /\ p <= Bufcnt - 1
        /\ Bufcnt \in Int /\ Bufcnt >= 2
    BY <1>2, PlaceFacts
  <2>2. Turn(k) \in Bufs /\ Back(k) \in Bufs
    BY <2>1, PlaceFacts
  <2>3. Turn(Back(k)) = k /\ Back(Turn(k)) = k
    BY <2>1
  <2>4. Turn(Up(k)) = Up(Turn(k)) /\ Turn(Down(k)) = Down(Turn(k))
    BY <2>1 DEF Up, Down
  <2> QED BY <2>2, <2>3, <2>4
<1>4. Turn(Bufcnt - 1) = p
  BY <1>2, PlaceFacts
<1> HIDE DEF Turn, Back
<1>5. at2 \in [Bufs -> Bufs] /\ pos2 \in [Bufs -> Bufs]
  BY <1>3
<1>6. \A c \in Bufs : at2[pos2[c]] = c
  BY <1>1, <1>3 DEF IsOrder
<1>7. \A k \in Bufs : pos2[at2[k]] = k
  BY <1>1, <1>3 DEF IsOrder
<1>8. at2[Bufcnt - 1] = b
  BY <1>1, <1>4, PlaceFacts DEF IsOrder, p
<1>9. \A k \in Bufs : next[at2[k]] = at2[Up(k)] /\ prev[at2[k]] = at2[Down(k)]
  BY <1>1, <1>3, PlaceFacts DEF IsOrder
<1>10. IsOrder(b, prev, next, at2, pos2)
  BY <1>5, <1>6, <1>7, <1>8, <1>9 DEF IsOrder
<1> HIDE DEF at2, pos2
<1> QED BY <1>5, <1>10 DEF HasOrder

\* _csh_MakeLru takes a buffer out of the ring and puts it in as the Mru.
LEMMA MakeMruOrder ==
  ASSUME TypeOK, OrderInv, NEW b \in Bufs, MakeMru(b)
  PROVE  OrderInv'
<1>0. prevMru \in [Bufs -> Bufs] /\ nextMru \in [Bufs -> Bufs] /\ mru \in Bufs
  BY DEF TypeOK, RingType
<1>1. CASE b = mru \/ nextMru[mru] = b
  <2>1. mru' = b /\ UNCHANGED <<prevMru, nextMru>>
    BY <1>1 DEF MakeMru
  <2>2. HasOrder(b, prevMru, nextMru)
    BY TurnOrder DEF OrderInv
  <2> QED BY <2>1, <2>2 DEF OrderInv
<1>2. CASE ~(b = mru \/ nextMru[mru] = b)
  <2>1. PICK at \in [Bufs -> Bufs], pos \in [Bufs -> Bufs] :
          IsOrder(mru, prevMru, nextMru, at, pos)
    BY DEF OrderInv, HasOrder
  <2> DEFINE q == pos[b]
             Into(k) == IF k = Bufcnt - 1 THEN q ELSE IF k >= q THEN k + 1 ELSE k
             From(k) == IF k = q THEN Bufcnt - 1 ELSE IF k > q THEN k - 1 ELSE k
             at2 == [k \in Bufs |-> at[Into(k)]]
             pos2 == [c \in Bufs |-> From(pos[c])]
  <2>2. q \in Bufs /\ at[q] = b
    BY <2>1 DEF IsOrder
  <2> HIDE DEF q
  <2>3. q # Bufcnt - 1 /\ q # 0
    <3>1. at[Bufcnt - 1] = mru /\ nextMru[mru] = at[0]
      BY <2>1, PlaceFacts DEF IsOrder, Up
    <3> QED BY <1>2, <2>2, <3>1
  <2>4. \A k \in Bufs : /\ Into(k) \in Bufs /\ From(k) \in Bufs
                        /\ Into(From(k)) = k /\ From(Into(k)) = k
    BY <2>2, PlaceFacts
  <2>5. /\ at2 \in [Bufs -> Bufs] /\ pos2 \in [Bufs -> Bufs]
        /\ \A c \in Bufs : at2[pos2[c]] = c
        /\ \A k \in Bufs : pos2[at2[k]] = k
    <3> HIDE DEF Into, From
    <3>1. at2 \in [Bufs -> Bufs] /\ pos2 \in [Bufs -> Bufs]
      BY <2>4
    <3> QED BY <2>1, <2>4, <3>1 DEF IsOrder
  <2>6. /\ at2[Bufcnt - 1] = b
        /\ \A k \in Bufs : k < q => at2[k] = at[k]
        /\ \A k \in Bufs : q <= k /\ k < Bufcnt - 1 => at2[k] = at[k + 1]
    BY <2>2, PlaceFacts
  <2>7. at2[Bufcnt - 2] = mru /\ at2[0] = at[0] /\ at2[q - 1] = at[q - 1] /\ at2[q] = at[q + 1]
    <3>1. Bufcnt - 2 \in Bufs /\ q <= Bufcnt - 2 /\ 0 \in Bufs /\ q - 1 \in Bufs
      BY <2>2, <2>3, PlaceFacts
    <3>2. at2[Bufcnt - 2] = at[(Bufcnt - 2) + 1] /\ (Bufcnt - 2) + 1 = Bufcnt - 1
      BY <2>6, <3>1, PlaceFacts
    <3> QED BY <2>1, <2>2, <2>3, <2>6, <3>1, <3>2, PlaceFacts DEF IsOrder
  <2> HIDE DEF at2, pos2
  \* The links that are set.
  <2>8. /\ prevMru[b] = at[q - 1] /\ nextMru[b] = at[q + 1] /\ nextMru[mru] = at[0]
        /\ q - 1 \in Bufs /\ q + 1 \in Bufs /\ 0 \in Bufs
    BY <2>1, <2>2, <2>3, PlaceFacts DEF IsOrder, Up, Down
  <2>9. \A j, k \in Bufs : at[j] = at[k] => j = k
    BY <2>1 DEF IsOrder
  <2>10. at[q - 1] # mru /\ at[q + 1] # b /\ at[q - 1] # b /\ at[0] # b /\ at[q + 1] # at[0]
         /\ at[Bufcnt - 1] = mru
    <3>1. at[Bufcnt - 1] = mru /\ at[q] = b
      BY <2>1, <2>2 DEF IsOrder
    <3>2. /\ q - 1 # Bufcnt - 1 /\ q + 1 # q /\ q - 1 # q /\ q + 1 # 0 /\ Bufcnt - 1 \in Bufs
      BY <2>2, <2>3, PlaceFacts
    <3> QED BY <2>2, <2>3, <2>8, <2>9, <3>1, <3>2
  <2>11. /\ mru' = b
         /\ nextMru' = [nextMru EXCEPT ![at[q - 1]] = at[q + 1], ![b] = at[0], ![mru] = b]
         /\ prevMru' = [prevMru EXCEPT ![at[q + 1]] = at[q - 1], ![b] = mru, ![at[0]] = b]
    BY <1>0, <1>2, <2>8, <2>10 DEF MakeMru
  <2>12. ASSUME NEW k \in Bufs PROVE nextMru'[at2[k]] = at2[Up(k)]
    <3>1. CASE k = Bufcnt - 1
      BY <1>0, <1>2, <2>6, <2>7, <2>10, <2>11, <3>1 DEF Up
    <3>2. CASE k = Bufcnt - 2
      <4>1. Up(k) = Bufcnt - 1
        BY <3>2, PlaceFacts DEF Up
      <4> QED BY <1>0, <2>6, <2>7, <2>11, <3>2, <4>1
    <3>3. CASE k = q - 1
      <4>1. Up(k) = q
        BY <2>2, <2>3, <3>3, PlaceFacts DEF Up
      <4> QED BY <1>0, <2>7, <2>8, <2>10, <2>11, <3>3, <4>1
    <3>4. CASE k < q - 1
      <4>1. k + 1 \in Bufs /\ Up(k) = k + 1 /\ k < q /\ k + 1 < q
        BY <2>2, <3>4, PlaceFacts DEF Up
      <4>2. at2[k] = at[k] /\ at2[k + 1] = at[k + 1]
        BY <2>6, <4>1
      <4>3. at[k] # at[q - 1] /\ at[k] # b /\ at[k] # mru /\ at[k] \in Bufs
        BY <2>1, <2>2, <2>8, <2>9, <2>10, <3>4, PlaceFacts
      <4>4. nextMru'[at[k]] = nextMru[at[k]]
        BY <1>0, <2>11, <4>3
      <4> QED BY <2>1, <4>1, <4>2, <4>4 DEF IsOrder
    <3>5. CASE q <= k /\ k < Bufcnt - 2
      <4>1. /\ k + 1 \in Bufs /\ k + 2 \in Bufs /\ Up(k) = k + 1 /\ Up(k + 1) = k + 2
            /\ k < Bufcnt - 1 /\ k + 1 < Bufcnt - 1 /\ q <= k + 1 /\ (k + 1) + 1 = k + 2
        BY <2>2, <3>5, PlaceFacts DEF Up
      <4>2. at2[k] = at[k + 1] /\ at2[k + 1] = at[k + 2]
        BY <2>6, <3>5, <4>1
      <4>3. at[k + 1] # at[q - 1] /\ at[k + 1] # b /\ at[k + 1] # mru /\ at[k + 1] \in Bufs
        BY <2>1, <2>2, <2>8, <2>9, <2>10, <3>5, <4>1, PlaceFacts
      <4>4. nextMru'[at[k + 1]] = nextMru[at[k + 1]]
        BY <1>0, <2>11, <4>3
      <4> QED BY <2>1, <4>1, <4>2, <4>4 DEF IsOrder
    <3> QED BY <2>2, <3>1, <3>2, <3>3, <3>4, <3>5, PlaceFacts
  <2>13. ASSUME NEW k \in Bufs PROVE prevMru'[at2[k]] = at2[Down(k)]
    <3>1. CASE k = Bufcnt - 1
      <4>1. Down(k) = Bufcnt - 2
        BY <3>1, PlaceFacts DEF Down
      <4> QED BY <1>0, <2>6, <2>7, <2>10, <2>11, <3>1, <4>1
    <3>2. CASE k = 0
      <4>1. Down(k) = Bufcnt - 1 /\ at[0] \in Bufs
        BY <2>8, <3>2 DEF Down
      <4> QED BY <1>0, <2>6, <2>7, <2>11, <3>2, <4>1
    <3>3. CASE k = q
      <4>1. Down(k) = q - 1 /\ at[q + 1] \in Bufs
        BY <2>3, <2>8, <3>3 DEF Down
      <4> QED BY <1>0, <2>7, <2>10, <2>11, <3>3, <4>1
    <3>4. CASE 0 < k /\ k < q
      <4>1. k - 1 \in Bufs /\ Down(k) = k - 1 /\ k - 1 < q
        BY <2>2, <3>4, PlaceFacts DEF Down
      <4>2. at2[k] = at[k] /\ at2[k - 1] = at[k - 1]
        BY <2>6, <3>4, <4>1
      <4>3. at[k] # at[q + 1] /\ at[k] # b /\ at[k] # at[0] /\ at[k] \in Bufs
        BY <2>1, <2>2, <2>8, <2>9, <2>10, <3>4, PlaceFacts
      <4>4. prevMru'[at[k]] = prevMru[at[k]]
        BY <1>0, <2>11, <4>3
      <4> QED BY <2>1, <4>1, <4>2, <4>4 DEF IsOrder
    <3>5. CASE q < k /\ k < Bufcnt - 1
      <4>1. /\ k + 1 \in Bufs /\ k - 1 \in Bufs /\ Down(k) = k - 1 /\ Down(k + 1) = k
            /\ q <= k /\ q <= k - 1 /\ k - 1 < Bufcnt - 1 /\ (k - 1) + 1 = k
        BY <2>2, <3>5, PlaceFacts DEF Down
      <4>2. at2[k] = at[k + 1] /\ at2[k - 1] = at[k]
        BY <2>6, <3>5, <4>1
      <4>3. at[k + 1] # at[q + 1] /\ at[k + 1] # b /\ at[k + 1] # at[0] /\ at[k + 1] \in Bufs
        BY <2>1, <2>2, <2>8, <2>9, <2>10, <3>5, <4>1, PlaceFacts
      <4>4. prevMru'[at[k + 1]] = prevMru[at[k + 1]]
        BY <1>0, <2>11, <4>3
      <4> QED BY <2>1, <4>1, <4>2, <4>4 DEF IsOrder
    <3> QED BY <2>2, <3>1, <3>2, <3>3, <3>4, <3>5, PlaceFacts
  <2>14. IsOrder(mru', prevMru', nextMru', at2, pos2)
    BY <2>5, <2>6, <2>11, <2>12, <2>13 DEF IsOrder
  <2> QED BY <2>5, <2>14 DEF OrderInv, HasOrder
<1> QED BY <1>1, <1>2
\* A step keeps the ring in an order.
LEMMA OrderNext ==
  ASSUME TypeInv, OrderInv, [Next]_vars
  PROVE  OrderInv'
<1>0. TypeOK /\ CallInv /\ RingType
  BY DEF TypeInv, TypeOK
<1>1. CASE UNCHANGED ring
  BY <1>1 DEF OrderInv, ring
<1>2. ASSUME UNCHANGED <<prevMru, nextMru>>, mru' \in Bufs
      PROVE  OrderInv'
  <2>1. HasOrder(mru', prevMru, nextMru)
    BY <1>2, TurnOrder DEF OrderInv
  <2> QED BY <1>2, <2>1 DEF OrderInv
<1>3. CASE Step
  <2>1. CASE FindHit
    BY <1>0, <2>1, MakeMruOrder DEF FindHit, CallInv
  <2>2. CASE ReuseNeighbour
    BY <1>0, <1>2, <2>2 DEF ReuseNeighbour, CallInv
  <2>3. CASE NextMruFree \/ NextMruEvict
    <3>1. nextMru[call.i] \in Bufs
      BY <1>0, <2>3 DEF NextMruFree, NextMruEvict, CallInv, RingType
    <3> QED BY <1>2, <2>3, <3>1 DEF NextMruFree, NextMruEvict
  <2>4. ASSUME NEW b \in Bufs, StepBackMru(b), UNCHANGED <<prevMru, nextMru>> PROVE OrderInv'
    BY <1>0, <1>2, <2>4 DEF StepBackMru, RingType
  <2>5. CASE FillFail \/ PurgeHdr
    BY <1>0, <2>4, <2>5 DEF FillFail, PurgeHdr, CallInv
  <2>6. CASE PurgeStep
    BY <2>4, <2>6 DEF PurgeStep
  <2> QED BY <1>1, <1>3, <2>1, <2>2, <2>3, <2>5, <2>6 DEF Step, FindNext, FindMiss, TakeLru,
      NextMruSkip, Link, FillRead, FillNew, MarkHdr, FlushStep, FlushEnd, PurgeEnd, Reattach,
      InsertFile
<1>4. CASE CallerStep
  BY <1>1, <1>4 DEF CallerStep, GetRecord, Flush, Purge, DetachCache, AttachCache, Start,
     Modify, FlushRecord, UnLockHdr, LockHdr, Drop, FlushAll, PurgeAll
<1> QED BY <1>1, <1>3, <1>4 DEF Next, vars

\* csh_Alloc links the headers in the order of their numbers.
LEMMA InitOrder == Init => OrderInv
<1> SUFFICES ASSUME Init PROVE OrderInv
  OBVIOUS
<1> DEFINE id == [k \in Bufs |-> k]
<1>1. id \in [Bufs -> Bufs] /\ \A k \in Bufs : id[k] = k
  OBVIOUS
<1> HIDE DEF id
<1>2. /\ mru = Bufcnt - 1
      /\ \A k \in Bufs : nextMru[k] = Up(k) /\ prevMru[k] = Down(k)
  BY DEF Init, Up, Down
<1>3. IsOrder(mru, prevMru, nextMru, id, id)
  BY <1>1, <1>2, PlaceFacts DEF IsOrder
<1> QED BY <1>1, <1>3 DEF OrderInv, HasOrder

-----------------------------------------------------------------------------
(* The ring as RingInv walks it.                                           *)

\* A set of numbers that is not empty has a least one.
LEMMA LeastNumber ==
  ASSUME NEW T, T \subseteq Nat, T # {}
  PROVE  \E x \in T : \A y \in T : ~(y < x)
<1> DEFINE R == OpToRel(<, Nat)
<1>1. R = {ss \in Nat \X Nat : ss[1] < ss[2]}
  BY Zenon DEF OpToRel
<1>2. IsWellFoundedOn(R, Nat)
  BY NatLessThanWellFounded, Zenon
<1> HIDE DEF R
<1>3. \E x \in T : \A y \in T : ~(<<y, x>> \in R)
  BY <1>2, WFMin
<1>4. \A x, y \in T : y < x => <<y, x>> \in R
  BY <1>1
<1> QED BY <1>3, <1>4

\* A ring that is in an order is one cycle, the same both ways.
LEMMA OrderIsRing ==
  ASSUME TypeOK, OrderInv
  PROVE  RingInv
<1>1. PICK at \in [Bufs -> Bufs], pos \in [Bufs -> Bufs] :
        IsOrder(mru, prevMru, nextMru, at, pos)
  BY DEF OrderInv, HasOrder
<1>2. ASSUME NEW b \in Bufs
      PROVE  prevMru[nextMru[b]] = b /\ nextMru[prevMru[b]] = b
  <2>1. PICK k \in Bufs : at[k] = b
    BY <1>1 DEF IsOrder
  <2>2. nextMru[b] = at[Up(k)] /\ prevMru[b] = at[Down(k)]
    BY <1>1, <2>1 DEF IsOrder
  <2>3. prevMru[at[Up(k)]] = at[Down(Up(k))] /\ nextMru[at[Down(k)]] = at[Up(Down(k))]
    BY <1>1, PlaceFacts DEF IsOrder
  <2> QED BY <2>1, <2>2, <2>3, PlaceFacts
<1> DEFINE walk == [n \in 0..Bufcnt |-> IF n = 0 THEN mru ELSE at[n - 1]]
\* The walk along NextMru meets the buffers in the order at has them.
<1>3. walk = [n \in 0..Bufcnt |-> IF n = 0 THEN mru ELSE nextMru[walk[n - 1]]]
  <2> SUFFICES ASSUME NEW n \in 0..Bufcnt, n # 0 PROVE at[n - 1] = nextMru[walk[n - 1]]
    OBVIOUS
  <2>1. CASE n = 1
    <3>1. walk[0] = at[Bufcnt - 1] /\ Up(Bufcnt - 1) = 0
      BY <1>1, PlaceFacts DEF IsOrder, Up
    <3> HIDE DEF walk
    <3>2. nextMru[at[Bufcnt - 1]] = at[0]
      BY <1>1, <3>1, PlaceFacts DEF IsOrder
    <3> QED BY <2>1, <3>1, <3>2
  <2>2. CASE n # 1
    <3>1. /\ n - 2 \in Bufs /\ Up(n - 2) = n - 1 /\ n - 1 \in 0..Bufcnt /\ n - 1 # 0
          /\ (n - 1) - 1 = n - 2
      BY <2>2, PlaceFacts DEF Up
    <3>2. walk[n - 1] = at[n - 2]
      BY <3>1
    <3> QED BY <1>1, <3>1, <3>2 DEF IsOrder
  <2> QED BY <2>1, <2>2
<1>4. RingReach = [n \in 0..Bufcnt |-> IF n = 0 THEN mru ELSE nextMru[RingReach[n - 1]]]
  <2>1. \E f : f = [n \in 0..Bufcnt |-> IF n = 0 THEN mru ELSE nextMru[f[n - 1]]]
    <3> HIDE DEF walk
    <3> QED BY <1>3
  <2> QED BY <2>1, Zenon DEF RingReach
<1>5. ASSUME NEW n \in 0..Bufcnt PROVE RingReach[n] = walk[n]
  <2> DEFINE T == {k \in 0..Bufcnt : RingReach[k] # walk[k]}
  <2> SUFFICES ASSUME T # {} PROVE FALSE
    BY <1>5
  <2>1. PICK k \in T : \A y \in T : ~(y < k)
    <3>1. T \subseteq Nat
      <4> HIDE DEF walk
      <4>1. ASSUME NEW k \in 0..Bufcnt PROVE k \in Nat
        BY BufcntAssumption
      <4> QED BY <4>1
    <3> HIDE DEF T
    <3> QED BY <3>1, LeastNumber
  <2> HIDE DEF walk
  <2>2. k \in 0..Bufcnt /\ RingReach[k] # walk[k]
    OBVIOUS
  <2>3. k # 0
    BY <1>3, <1>4, <2>2
  <2>4. k - 1 \in 0..Bufcnt /\ k - 1 < k
    BY <2>2, <2>3, PlaceFacts
  <2>5. RingReach[k - 1] = walk[k - 1]
    BY <2>1, <2>4
  <2>6. RingReach[k] = nextMru[RingReach[k - 1]] /\ walk[k] = nextMru[walk[k - 1]]
    BY <1>3, <1>4, <2>2, <2>3
  <2> QED BY <2>2, <2>5, <2>6
<1>6. ASSUME NEW b \in Bufs PROVE \E n \in 0..Bufcnt - 1 : RingReach[n] = b
  <2>1. CASE pos[b] = Bufcnt - 1
    <3>1. walk[0] = b /\ 0 \in 0..Bufcnt - 1 /\ 0 \in 0..Bufcnt
      BY <1>1, <2>1, PlaceFacts DEF IsOrder
    <3> HIDE DEF walk
    <3> QED BY <1>5, <3>1
  <2>2. CASE pos[b] # Bufcnt - 1
    <3>1. /\ pos[b] + 1 \in 0..Bufcnt - 1 /\ pos[b] + 1 \in 0..Bufcnt /\ pos[b] + 1 # 0
          /\ (pos[b] + 1) - 1 = pos[b]
      BY <2>2, PlaceFacts
    <3>2. walk[pos[b] + 1] = b
      BY <1>1, <3>1 DEF IsOrder
    <3> HIDE DEF walk
    <3> QED BY <1>5, <3>1, <3>2
  <2> QED BY <2>1, <2>2
<1> QED BY <1>2, <1>6 DEF RingInv

\* The use ring stays one cycle through all buffers, the same both ways, for
\* any number of buffers and whether they are locked or not: no sequence of
\* hits, evictions and purges makes _csh_GetNextMru or the purge of the Mru
\* lose a header.
THEOREM RingCorrect == Spec => []RingInv
<1> DEFINE Inv == TypeInv /\ OrderInv
<1>1. Init => Inv
  BY InitType, InitOrder
<1>2. Inv /\ [Next]_vars => Inv'
  BY NextType, OrderNext
<1>3. Inv => RingInv
  BY OrderIsRing DEF TypeInv
<1> QED BY <1>1, <1>2, <1>3, PTL DEF Spec
-----------------------------------------------------------------------------
(* Handles.                                                                *)

Good(h) == h.b # Nil => file[h.b] = h.f /\ recno[h.b] = h.r

\* The places at which the caller's handles are as it left them.
CallerPcs == {"idle", "mark", "flush", "insert"}

\* The last handle is the Mru, which is not the LRU a GetRecord reuses; the
\* one before may be lost to a GetRecord, but is given up when that returns.
HandleInv ==
  /\ call.pc \in CallerPcs => Good(prior)
  /\ call.pc \in CallerPcs \cup {"find", "collide", "lru"} => Good(last) /\ last.b \in {mru, Nil}
  /\ call.pc \in {"link", "fill"} => Good(last)
  /\ call.pc = "link" => call.i = mru /\ last.b # mru
  /\ call.pc = "fill" => call.hp = mru

\* With two buffers or more, the LRU is not the Mru.
LEMMA LruIsNotMru ==
  ASSUME TypeOK, OrderInv
  PROVE  nextMru[mru] # mru /\ nextMru[mru] \in Bufs /\ mru \in Bufs
<1>1. PICK at \in [Bufs -> Bufs], pos \in [Bufs -> Bufs] :
        IsOrder(mru, prevMru, nextMru, at, pos)
  BY DEF OrderInv, HasOrder
<1>2. at[Bufcnt - 1] = mru /\ nextMru[mru] = at[0] /\ 0 \in Bufs /\ Bufcnt - 1 # 0
  BY <1>1, PlaceFacts DEF IsOrder, Up
<1> QED BY <1>1, <1>2, PlaceFacts DEF IsOrder

\* A step keeps HandleInv.
LEMMA HandleNext ==
  ASSUME IInv, FillInv, OrderInv, HandleInv, [Next]_vars
  PROVE  HandleInv'
<1>0. /\ TypeOK /\ CallInv /\ call \in CallType /\ RingType /\ OwnerType /\ SearchInv /\ HandleInv
      /\ last \in HandleType /\ nextMru[mru] # mru /\ Nil \notin Bufs
  BY LruIsNotMru, BufsFacts DEF IInv, TypeInv, TypeOK, CallerType
\* The caller gets no handle.
<1>1. CASE call' = Idle /\ last' = NoHandle /\ prior' = NoHandle
  BY <1>1 DEF HandleInv, Good, NoHandle, Idle, CallerPcs, Nil
\* The caller gets the handle of the Mru, and keeps the one it had.
<1>2. ASSUME NEW b \in Bufs, ReturnHandle(b), mru' = b, file[b] = call.f, recno[b] = call.r,
             UNCHANGED owner, Good(last)
      PROVE  HandleInv'
  <2>1. call'.pc = "idle" /\ last' = [b |-> b, f |-> call.f, r |-> call.r]
        /\ prior' \in {last, NoHandle}
    BY <1>2 DEF ReturnHandle, Return, Idle
  <2>2. Good(last)' /\ Good(prior)'
    BY <1>2, <2>1 DEF Good, NoHandle, owner
  <2> QED BY <1>2, <2>1, <2>2 DEF HandleInv
\* Nothing happens that concerns a handle.
<1>3. ASSUME UNCHANGED <<mru, owner, last, prior>>,
             call'.pc \in CallerPcs => call.pc \in CallerPcs,
             call'.pc \in {"find", "collide", "lru"} =>
               call.pc \in CallerPcs \cup {"find", "collide", "lru"},
             call'.pc \notin {"link", "fill"}
      PROVE  HandleInv'
  BY <1>0, <1>3 DEF HandleInv, Good, owner
<1>4. CASE Step
  <2>1. CASE FindNext \/ FindMiss \/ TakeLru
    <3>1. /\ UNCHANGED <<mru, owner, last, prior>> /\ call.pc \in {"find", "collide"}
          /\ call'.pc \in {"find", "collide", "lru"}
      BY <1>0, <2>1 DEF FindNext, FindMiss, TakeLru, ring, caller, CallType
    <3> QED BY <1>3, <3>1 DEF CallerPcs
  <2>2. CASE FindHit
    <3>1. Good(last) /\ call.hp \in Bufs
      BY <1>0, <2>2 DEF FindHit, HandleInv, CallInv
    <3> QED BY <1>2, <2>2, <3>1 DEF FindHit, MakeMru
  <2>3. CASE ReuseNeighbour
    <3>1. /\ call.hp \in Bufs /\ call.hp # mru /\ mru' = call.hp
          /\ last' = last /\ Good(last) /\ last.b \in {mru, Nil}
          /\ call'.pc = "fill" /\ call'.hp = call.hp
          /\ file' = [file EXCEPT ![call.hp] = call.f]
          /\ recno' = [recno EXCEPT ![call.hp] = call.r]
      BY <1>0, <2>3 DEF ReuseNeighbour, CallInv, HandleInv, caller, CallType
    <3>2. Good(last)'
      BY <1>0, <3>1 DEF Good, OwnerType
    <3> QED BY <3>1, <3>2 DEF HandleInv, CallerPcs
  <2>4. CASE NextMruSkip
    <3>1. nextMru[call.i] = mru => call' = Idle /\ last' = NoHandle /\ prior' = NoHandle
      BY <2>4 DEF NextMruSkip, ReturnNull, Return
    <3>2. nextMru[call.i] # mru =>
            /\ UNCHANGED <<mru, owner, last, prior>> /\ call.pc = "lru" /\ call'.pc = "lru"
      BY <1>0, <2>4 DEF NextMruSkip, ring, caller, CallType
    <3> QED BY <1>1, <1>3, <3>1, <3>2 DEF CallerPcs
  <2>5. CASE NextMruFree \/ NextMruEvict
    <3>1. PICK b \in Bufs : b = nextMru[mru]
      BY <1>0 DEF RingType
    <3>2. /\ call.i = mru /\ mru' = b /\ call'.pc = "link" /\ call'.i = b
          /\ last' = last /\ Good(last) /\ last.b \in {mru, Nil} /\ b # mru
      BY <1>0, <2>5, <3>1 DEF NextMruFree, NextMruEvict, SearchInv, HandleInv, caller, CallType
    <3>3. UNCHANGED owner \/ Unlink(b)
      BY <2>5, <3>1, <3>2 DEF NextMruFree, NextMruEvict
    <3>4. Good(last)'
      <4>1. last.b # Nil => last.b \in Bufs /\ last.b # b
        BY <1>0, <3>2 DEF RingType
      <4>2. last.b # Nil => file'[last.b] = file[last.b] /\ recno'[last.b] = recno[last.b]
        BY <1>0, <3>3, <4>1 DEF Unlink, owner, OwnerType
      <4> QED BY <3>2, <4>2 DEF Good
    <3>5. last'.b # mru'
      BY <1>0, <3>1, <3>2
    <3> QED BY <3>2, <3>4, <3>5 DEF HandleInv, CallerPcs
  <2>6. CASE Link
    <3>1. /\ call.i = mru /\ last.b # mru /\ Good(last) /\ last' = last /\ mru' = mru
          /\ call'.pc = "fill" /\ call'.hp = call.i
          /\ file' = [file EXCEPT ![call.i] = call.f]
          /\ recno' = [recno EXCEPT ![call.i] = call.r]
      BY <1>0, <2>6 DEF Link, HandleInv, ring, caller, CallType
    <3>2. Good(last)'
      BY <1>0, <3>1 DEF Good, OwnerType
    <3> QED BY <3>1, <3>2 DEF HandleInv, CallerPcs
  <2>7. CASE FillRead \/ FillNew
    <3>1. /\ call.hp \in Bufs /\ Good(last) /\ call.hp = mru /\ mru' = mru /\ UNCHANGED owner
          /\ file[call.hp] = call.f /\ recno[call.hp] = call.r
      BY <1>0, <2>7 DEF FillRead, FillNew, HandleInv, FillInv, CallInv, ring
    <3> QED BY <1>2, <2>7, <3>1 DEF FillRead, FillNew
  <2>8. CASE FillFail \/ PurgeHdr \/ PurgeEnd
    BY <1>1, <2>8 DEF FillFail, PurgeHdr, PurgeEnd, ReturnNull, Return
  <2>9. CASE MarkHdr \/ FlushStep \/ InsertFile
    <3>1. /\ UNCHANGED <<mru, owner, last, prior>> /\ call.pc \in CallerPcs
          /\ call'.pc \in CallerPcs
      BY <1>0, <2>9 DEF MarkHdr, FlushStep, InsertFile, Return, Idle, ring, caller, CallType,
         CallerPcs
    <3> QED BY <1>3, <3>1 DEF CallerPcs
  <2>10. CASE FlushEnd
    <3>1. /\ UNCHANGED <<mru, owner, last, prior>> /\ call.pc = "flush"
          /\ call'.pc \in {"purge", "idle"}
      <4>1. UNCHANGED <<mru, owner, last, prior>> /\ call.pc = "flush"
        BY <2>10 DEF FlushEnd, ring, caller
      <4>2. call' = Idle \/ call' = [call EXCEPT !.pc = "purge", !.i = 0]
        BY <2>10 DEF FlushEnd, Return
      <4>3. call' = Idle => call'.pc = "idle"
        BY DEF Idle
      <4>4. call' = [call EXCEPT !.pc = "purge", !.i = 0] => call'.pc = "purge"
        BY <1>0 DEF CallType
      <4> QED BY <4>1, <4>2, <4>3, <4>4
    <3> QED BY <1>3, <3>1 DEF CallerPcs
  <2>11. CASE PurgeStep
    <3>1. call'.pc = "purge"
      BY <1>0, <2>11 DEF PurgeStep, CallType
    <3> QED BY <3>1 DEF HandleInv, CallerPcs
  <2>12. CASE Reattach
    <3>1. call'.pc = "insert" /\ last' = NoHandle /\ prior' = NoHandle
      BY <1>0, <2>12 DEF Reattach, CallType
    <3> QED BY <3>1 DEF HandleInv, CallerPcs, Good, NoHandle, Nil
  <2> QED BY <1>4, <2>1, <2>2, <2>3, <2>4, <2>5, <2>6, <2>7, <2>8, <2>9, <2>10, <2>11, <2>12
      DEF Step
<1>5. CASE CallerStep
  <2>1. ASSUME NEW f \in Files, NEW r \in Recs, NEW fill \in Data \cup {Absent},
               GetRecord(f, r, fill)
        PROVE  HandleInv'
    <3>1. CASE errno[f] \/ ~IsAttached(f)
      BY <1>1, <2>1, <3>1 DEF GetRecord, ReturnNull, Return
    <3>2. CASE ~(errno[f] \/ ~IsAttached(f))
      <4>1. /\ UNCHANGED <<mru, owner, last, prior>> /\ call.pc = "idle"
            /\ call'.pc \in {"find", "lru"}
        BY <2>1, <3>2 DEF GetRecord, Idle, ring
      <4> QED BY <1>3, <4>1 DEF CallerPcs
    <3> QED BY <3>1, <3>2
  <2>2. ASSUME UNCHANGED <<ring, owner, caller>>, call.pc = "idle",
               call'.pc \in CallerPcs \cup {"purge", "drop"}
        PROVE  HandleInv'
    BY <1>3, <2>2 DEF CallerPcs, ring, caller
  <2>3. ASSUME NEW op, NEW pc \in {"flush", "purge", "insert"}, NEW f, Start(op, pc, f)
        PROVE  HandleInv'
    BY <2>2, <2>3 DEF Start, Idle, CallerPcs
  <2>4. ASSUME NEW f \in Files, Flush(f) \/ Purge(f) \/ DetachCache(f) \/ AttachCache(f)
        PROVE  HandleInv'
    BY <2>3, <2>4 DEF Flush, Purge, DetachCache, AttachCache
  <2>5. CASE FlushAll \/ PurgeAll
    BY <2>3, <2>5 DEF FlushAll, PurgeAll
  <2>6. CASE Drop \/ \E b \in Bufs : \E v \in Data : Modify(b, v)
    BY <2>2, <2>6 DEF Drop, Modify, Idle, CallerPcs
  <2>7. CASE \E b \in Bufs : FlushRecord(b) \/ UnLockHdr(b)
    BY <2>2, <2>7 DEF FlushRecord, UnLockHdr, CallerPcs
  <2>8. CASE LockHdr
    <3>1. UNCHANGED <<mru, owner, last, prior, call>> /\ call.pc = "idle"
      BY <2>8 DEF LockHdr, ring
    <3> QED BY <1>3, <3>1 DEF CallerPcs
  <2> QED BY <1>5, <2>1, <2>4, <2>5, <2>6, <2>7, <2>8 DEF CallerStep
<1>6. CASE UNCHANGED vars
  BY <1>0, <1>6 DEF HandleInv, Good, vars, ring, owner, caller
<1> QED BY <1>4, <1>5, <1>6 DEF Next

\* As long as no buffer is locked, the handles the caller may use denote their
\* records, with as few as two buffers: the LRU buffer a GetRecord takes is
\* never the one the GetRecord before it returned.
THEOREM HandlesStayValid == UsesLocks = FALSE /\ Spec => []HandlesValid
<1> SUFFICES ASSUME UsesLocks = FALSE PROVE Spec => []HandlesValid
  OBVIOUS
<1> DEFINE Inv == IInv /\ FillInv /\ OrderInv /\ HandleInv
<1>1. Init => Inv
  <2>1. Init => FillInv /\ HandleInv
    BY DEF Init, Idle, NoHandle, Nil, FillInv, HandleInv, Good, CallerPcs
  <2> QED BY <2>1, InitInv, InitOrder
<1>2. Inv /\ [Next]_vars => Inv'
  <2>1. IInv => TypeInv
    BY DEF IInv
  <2> QED BY <2>1, NextInv, FillNext, OrderNext, HandleNext
<1>3. Inv => HandlesValid
  BY DEF HandleInv, HandlesValid, Good, CallerPcs
<1> QED BY <1>1, <1>2, <1>3, PTL DEF Spec
=============================================================================
