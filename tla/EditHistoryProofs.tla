------------------------- MODULE EditHistoryProofs -------------------------
(***************************************************************************)
(* Proofs about EditHistory, for all documents, clipboards and histories,  *)
(* as long as none of the situations of TextLoss arises in which the code  *)
(* is known to lose track of the text: undo and redo give back the text of *)
(* each position, and from a save until the saved action is typed on, a    *)
(* text without the mark of modification is the one in the file.           *)
(***************************************************************************)
EXTENDS EditHistory, TLAPS, SequenceTheorems, FiniteSetTheorems, WellFoundedInduction

-----------------------------------------------------------------------------
(* The invariant.                                                          *)

Line == Seq(Chars)
Text == Seq(Line) \ {<< >>}
Range4 == [l0 : Nat, c0 : Nat, l1 : Nat, c1 : Nat]

\* A range of the document, which may be empty.
In(d, r) ==
  /\ r \in Range4
  /\ r.l0 \in 1..Len(d) /\ r.l1 \in 1..Len(d)
  /\ r.c0 \in 0..Len(d[r.l0]) /\ r.c1 \in 0..Len(d[r.l1])
  /\ r.l0 < r.l1 \/ (r.l0 = r.l1 /\ r.c0 <= r.c1)

\* e is d with the text t inserted, which lies in the range r of e.
Inserted(d, r, t, e) == IsDoc(d) /\ IsDoc(e) /\ In(e, r) /\ d = Cut(e, r) /\ t = TextOf(e, r)

-----------------------------------------------------------------------------
(* Sequences.                                                              *)

\* The parts and the concatenation of sequences, by their elements.
LEMMA TakeIs ==
  ASSUME NEW S, NEW s \in Seq(S), NEW n \in 0..Len(s)
  PROVE  /\ Take(s, n) \in Seq(S) /\ Len(Take(s, n)) = n
         /\ \A i \in 1..n : Take(s, n)[i] = s[i]
BY DEF Take

LEMMA DropIs ==
  ASSUME NEW S, NEW s \in Seq(S), NEW n \in 0..Len(s)
  PROVE  /\ Drop(s, n) \in Seq(S) /\ Len(Drop(s, n)) = Len(s) - n
         /\ \A i \in 1..(Len(s) - n) : Drop(s, n)[i] = s[n + i]
BY DEF Drop

LEMMA SubIs ==
  ASSUME NEW S, NEW s \in Seq(S), NEW m \in Nat, NEW n \in Nat, m <= n, n <= Len(s)
  PROVE  /\ SubSeq(s, m + 1, n) \in Seq(S) /\ Len(SubSeq(s, m + 1, n)) = n - m
         /\ \A i \in 1..(n - m) : SubSeq(s, m + 1, n)[i] = s[m + i]
OBVIOUS

LEMMA CatIs ==
  ASSUME NEW S, NEW s \in Seq(S), NEW t \in Seq(S)
  PROVE  /\ s \o t \in Seq(S) /\ Len(s \o t) = Len(s) + Len(t)
         /\ \A i \in 1..Len(s) : (s \o t)[i] = s[i]
         /\ \A i \in 1..Len(t) : (s \o t)[Len(s) + i] = t[i]
OBVIOUS

LEMMA SeqSame ==
  ASSUME NEW S, NEW s \in Seq(S), NEW t \in Seq(S), Len(s) = Len(t),
         \A i \in 1..Len(s) : s[i] = t[i]
  PROVE  s = t
OBVIOUS

\* Three sequences in a row.
LEMMA Cat3Is ==
  ASSUME NEW S, NEW s \in Seq(S), NEW t \in Seq(S), NEW u \in Seq(S)
  PROVE  /\ s \o t \o u \in Seq(S) /\ Len(s \o t \o u) = Len(s) + Len(t) + Len(u)
         /\ \A i \in 1..Len(s) : (s \o t \o u)[i] = s[i]
         /\ \A i \in 1..Len(t) : (s \o t \o u)[Len(s) + i] = t[i]
         /\ \A i \in 1..Len(u) : (s \o t \o u)[Len(s) + Len(t) + i] = u[i]
<1> DEFINE v == s \o t
<1>1. /\ v \in Seq(S) /\ Len(v) = Len(s) + Len(t)
      /\ \A i \in 1..Len(s) : v[i] = s[i]
      /\ \A i \in 1..Len(t) : v[Len(s) + i] = t[i]
  BY CatIs
<1> HIDE DEF v
<1>2. /\ v \o u \in Seq(S) /\ Len(v \o u) = Len(v) + Len(u)
      /\ \A i \in 1..Len(v) : (v \o u)[i] = v[i]
      /\ \A i \in 1..Len(u) : (v \o u)[Len(v) + i] = u[i]
  <2>1. v \in Seq(S) /\ u \in Seq(S)
    BY <1>1
  <2> QED BY ONLY <2>1, CatIs
<1>3. Len(s) \in Nat /\ Len(t) \in Nat /\ Len(u) \in Nat
  OBVIOUS
<1>4. \A i \in 1..Len(s) : i \in 1..Len(v)
  BY <1>1, <1>3
<1>5. \A i \in 1..Len(t) : Len(s) + i \in 1..Len(v)
  BY <1>1, <1>3
<1>6. /\ v \o u \in Seq(S) /\ Len(v \o u) = Len(s) + Len(t) + Len(u)
      /\ \A i \in 1..Len(s) : (v \o u)[i] = s[i]
      /\ \A i \in 1..Len(t) : (v \o u)[Len(s) + i] = t[i]
      /\ \A i \in 1..Len(u) : (v \o u)[Len(s) + Len(t) + i] = u[i]
  BY <1>1, <1>2, <1>3, <1>4, <1>5
<1> QED BY <1>6 DEF v

\* A sequence taken apart and put together again.
LEMMA TakeDrop ==
  ASSUME NEW S, NEW s \in Seq(S), NEW n \in 0..Len(s)
  PROVE  Take(s, n) \o Drop(s, n) = s
<1> DEFINE u == Take(s, n)
           v == Drop(s, n)
<1>1. u \in Seq(S) /\ Len(u) = n /\ \A i \in 1..n : u[i] = s[i]
  BY TakeIs
<1>2. v \in Seq(S) /\ Len(v) = Len(s) - n /\ \A i \in 1..(Len(s) - n) : v[i] = s[n + i]
  BY DropIs
<1> HIDE DEF u, v
<1>3. /\ u \o v \in Seq(S) /\ Len(u \o v) = Len(u) + Len(v)
      /\ \A i \in 1..Len(u) : (u \o v)[i] = u[i]
      /\ \A i \in 1..Len(v) : (u \o v)[Len(u) + i] = v[i]
  BY ONLY <1>1, <1>2, CatIs
<1> DEFINE w == u \o v
<1>4. w \in Seq(S) /\ Len(w) = Len(s) /\ Len(s) \in Nat
  BY <1>1, <1>2, <1>3
<1>5. \A i \in 1..Len(w) : w[i] = s[i]
  <2> SUFFICES ASSUME NEW i \in 1..Len(w) PROVE w[i] = s[i]
    OBVIOUS
  <2>1. CASE i \in 1..n
    BY <1>1, <1>3, <2>1
  <2>2. CASE i \notin 1..n
    <3> DEFINE k == i - n
    <3>1. k \in 1..(Len(s) - n) /\ k \in 1..Len(v) /\ i = n + k
      BY <1>2, <1>4, <2>2
    <3> HIDE DEF k
    <3>2. w[i] = v[k] /\ v[k] = s[n + k]
      BY <1>1, <1>2, <1>3, <3>1
    <3> QED BY <3>1, <3>2
  <2> QED BY <2>1, <2>2
<1> HIDE DEF w
<1>6. w = s
  BY ONLY <1>4, <1>5, s \in Seq(S), SeqSame
<1> QED BY <1>6 DEF w, u, v

LEMMA TakeSubDrop ==
  ASSUME NEW S, NEW s \in Seq(S), NEW m \in Nat, NEW n \in Nat, m <= n, n <= Len(s)
  PROVE  Take(s, m) \o SubSeq(s, m + 1, n) \o Drop(s, n) = s
<1> DEFINE u == Take(s, m)
           x == SubSeq(s, m + 1, n)
           v == Drop(s, n)
<1>0. m \in 0..Len(s) /\ n \in 0..Len(s)
  OBVIOUS
<1>1. u \in Seq(S) /\ Len(u) = m /\ \A i \in 1..m : u[i] = s[i]
  BY <1>0, TakeIs
<1>2. v \in Seq(S) /\ Len(v) = Len(s) - n /\ \A i \in 1..(Len(s) - n) : v[i] = s[n + i]
  BY <1>0, DropIs
<1>3. x \in Seq(S) /\ Len(x) = n - m /\ \A i \in 1..(n - m) : x[i] = s[m + i]
  BY SubIs
<1> HIDE DEF u, v, x
<1> DEFINE w == u \o x \o v
<1>4. /\ w \in Seq(S) /\ Len(w) = Len(u) + Len(x) + Len(v)
      /\ \A i \in 1..Len(u) : w[i] = u[i]
      /\ \A i \in 1..Len(x) : w[Len(u) + i] = x[i]
      /\ \A i \in 1..Len(v) : w[Len(u) + Len(x) + i] = v[i]
  <2>1. u \in Seq(S) /\ x \in Seq(S) /\ v \in Seq(S)
    BY <1>1, <1>2, <1>3
  <2> QED BY ONLY <2>1, Cat3Is
<1> HIDE DEF w
<1>5. Len(w) = Len(s) /\ Len(s) \in Nat
  BY <1>1, <1>2, <1>3, <1>4
<1>6. \A i \in 1..Len(w) : w[i] = s[i]
  <2> SUFFICES ASSUME NEW i \in 1..Len(w) PROVE w[i] = s[i]
    OBVIOUS
  <2>1. CASE i \in 1..m
    BY <1>1, <1>4, <2>1
  <2>2. CASE i \notin 1..m /\ i \in 1..n
    <3> DEFINE k == i - m
    <3>1. k \in 1..(n - m) /\ k \in 1..Len(x) /\ i = m + k
      BY <1>3, <1>5, <2>2
    <3> HIDE DEF k
    <3>2. w[i] = x[k] /\ x[k] = s[m + k]
      BY <1>1, <1>3, <1>4, <3>1
    <3> QED BY <3>1, <3>2
  <2>3. CASE i \notin 1..n
    <3> DEFINE k == i - n
    <3>1. k \in 1..(Len(s) - n) /\ k \in 1..Len(v) /\ i = m + (n - m) + k /\ i = n + k
      BY <1>2, <1>5, <2>3
    <3> HIDE DEF k
    <3>2. w[m + (n - m) + k] = v[k] /\ v[k] = s[n + k]
      BY <1>1, <1>2, <1>3, <1>4, <3>1
    <3> QED BY <3>1, <3>2
  <2> QED BY <2>1, <2>2, <2>3
<1>7. w = s
  BY ONLY <1>4, <1>5, <1>6, s \in Seq(S), SeqSame
<1> QED BY <1>7 DEF w, u, v, x

\* The parts of a concatenation.
LEMMA CatParts ==
  ASSUME NEW S, NEW s \in Seq(S), NEW t \in Seq(S)
  PROVE  Take(s \o t, Len(s)) = s /\ Drop(s \o t, Len(s)) = t
<1> DEFINE w == s \o t
<1>1. /\ w \in Seq(S) /\ Len(w) = Len(s) + Len(t) /\ Len(s) \in Nat /\ Len(t) \in Nat
      /\ \A i \in 1..Len(s) : w[i] = s[i]
      /\ \A i \in 1..Len(t) : w[Len(s) + i] = t[i]
  BY CatIs
<1> HIDE DEF w
<1>2. Len(s) \in 0..Len(w)
  BY <1>1
<1> DEFINE u == Take(w, Len(s))
           v == Drop(w, Len(s))
<1>3. u \in Seq(S) /\ Len(u) = Len(s) /\ \A i \in 1..Len(s) : u[i] = w[i]
  BY ONLY <1>1, <1>2, TakeIs
<1>4. v \in Seq(S) /\ Len(v) = Len(w) - Len(s) /\ \A i \in 1..(Len(w) - Len(s)) : v[i] = w[Len(s) + i]
  BY ONLY <1>1, <1>2, DropIs
<1> HIDE DEF u, v
<1>5. u = s
  BY <1>1, <1>3, SeqSame
<1>6. Len(v) = Len(t) /\ \A i \in 1..Len(v) : v[i] = t[i]
  BY <1>1, <1>4
<1>7. v = t
  BY ONLY <1>4, <1>6, t \in Seq(S), SeqSame
<1> QED BY <1>5, <1>7 DEF u, v, w

-----------------------------------------------------------------------------
(* Documents.                                                              *)

\* What the ends of a range become when the text in it is cut out.
Merged(d, r) == Take(d[r.l0], r.c0) \o Drop(d[r.l1], r.c1)

LEMMA DocIs ==
  ASSUME NEW d, IsDoc(d)
  PROVE  /\ d \in Seq(Line) /\ Len(d) \in Nat /\ DOMAIN d = 1..Len(d)
         /\ \A l \in 1..Len(d) : d[l] \in Line /\ d[l] \in Seq(Chars) /\ Len(d[l]) \in Nat /\ Len(d[l]) <= MaxLin
<1>1. d \in Seq(Line) /\ Len(d) \in Nat /\ DOMAIN d = 1..Len(d)
  BY DEF IsDoc, Line
<1>2. \A l \in 1..Len(d) : d[l] \in Seq(Chars)
  BY <1>1 DEF Line
<1>3. \A l \in 1..Len(d) : Len(d[l]) \in Nat
  BY <1>2
<1> QED BY <1>1, <1>2, <1>3 DEF IsDoc, Line

LEMMA InIs ==
  ASSUME NEW d, IsDoc(d), NEW r, In(d, r)
  PROVE  /\ r.l0 \in Nat \ {0} /\ r.l1 \in Nat \ {0} /\ r.c0 \in Nat /\ r.c1 \in Nat
         /\ r.l0 \in 1..Len(d) /\ r.l1 \in 1..Len(d) /\ r.l0 <= r.l1
         /\ r.c0 \in 0..Len(d[r.l0]) /\ r.c1 \in 0..Len(d[r.l1])
         /\ d[r.l0] \in Seq(Chars) /\ d[r.l1] \in Seq(Chars)
         /\ r.l0 = r.l1 => r.c0 <= r.c1
         /\ r.l0 - 1 \in 0..Len(d) /\ r.l1 \in 0..Len(d)
<1>1. /\ r.l0 \in Nat /\ r.l1 \in Nat /\ r.c0 \in Nat /\ r.c1 \in Nat
  BY DEF In, Range4
<1> QED BY <1>1, DocIs DEF In

\* The line that is left of those of the range.
LEMMA MergedIs ==
  ASSUME NEW d, IsDoc(d), NEW r, In(d, r)
  PROVE  /\ Merged(d, r) \in Line /\ Len(Merged(d, r)) = r.c0 + (Len(d[r.l1]) - r.c1)
         /\ Take(Merged(d, r), r.c0) = Take(d[r.l0], r.c0)
         /\ Drop(Merged(d, r), r.c0) = Drop(d[r.l1], r.c1)
<1> DEFINE u == Take(d[r.l0], r.c0)
           v == Drop(d[r.l1], r.c1)
<1>1. u \in Seq(Chars) /\ Len(u) = r.c0
  BY InIs, TakeIs
<1>2. v \in Seq(Chars) /\ Len(v) = Len(d[r.l1]) - r.c1
  BY InIs, DropIs
<1> HIDE DEF u, v
<1>3. u \o v \in Seq(Chars) /\ Len(u \o v) = Len(u) + Len(v)
  BY ONLY <1>1, <1>2, CatIs
<1>4. Take(u \o v, Len(u)) = u /\ Drop(u \o v, Len(u)) = v
  BY ONLY <1>1, <1>2, CatParts
<1> QED BY <1>1, <1>2, <1>3, <1>4 DEF Merged, u, v, Line

\* A document without the text in a range.
LEMMA CutIs ==
  ASSUME NEW d, IsDoc(d), NEW r, In(d, r)
  PROVE  /\ Cut(d, r) \in Seq(Line) /\ Len(Cut(d, r)) = Len(d) - (r.l1 - r.l0)
         /\ \A j \in 1..(r.l0 - 1) : Cut(d, r)[j] = d[j]
         /\ Cut(d, r)[r.l0] = Merged(d, r)
         /\ \A j \in 1..(Len(d) - r.l1) : Cut(d, r)[r.l0 + j] = d[r.l1 + j]
<1> DEFINE u == Take(d, r.l0 - 1)
           m == <<Merged(d, r)>>
           v == Drop(d, r.l1)
           w == u \o m \o v
<1>1. /\ d \in Seq(Line) /\ r.l0 - 1 \in 0..Len(d) /\ r.l1 \in 0..Len(d)
      /\ r.l0 \in Nat \ {0} /\ r.l1 \in Nat /\ Len(d) \in Nat
  BY DocIs, InIs
<1>2. u \in Seq(Line) /\ Len(u) = r.l0 - 1 /\ \A i \in 1..(r.l0 - 1) : u[i] = d[i]
  BY ONLY <1>1, TakeIs
<1>3. v \in Seq(Line) /\ Len(v) = Len(d) - r.l1 /\ \A i \in 1..(Len(d) - r.l1) : v[i] = d[r.l1 + i]
  BY ONLY <1>1, DropIs
<1>4. m \in Seq(Line) /\ Len(m) = 1 /\ m[1] = Merged(d, r)
  BY MergedIs
<1> HIDE DEF u, v, m
<1>5. /\ w \in Seq(Line) /\ Len(w) = Len(u) + Len(m) + Len(v)
      /\ \A i \in 1..Len(u) : w[i] = u[i]
      /\ \A i \in 1..Len(m) : w[Len(u) + i] = m[i]
      /\ \A i \in 1..Len(v) : w[Len(u) + Len(m) + i] = v[i]
  <2>1. u \in Seq(Line) /\ m \in Seq(Line) /\ v \in Seq(Line)
    BY <1>2, <1>3, <1>4
  <2> QED BY ONLY <2>1, Cat3Is
<1> HIDE DEF w
<1>6. Len(w) = Len(d) - (r.l1 - r.l0)
  <2>1. Len(w) = Len(u) + Len(m) + Len(v) /\ Len(u) = r.l0 - 1 /\ Len(m) = 1 /\ Len(v) = Len(d) - r.l1
    BY <1>2, <1>3, <1>4, <1>5
  <2> QED BY ONLY <2>1, <1>1
<1>7. \A j \in 1..(r.l0 - 1) : w[j] = d[j]
  BY <1>2, <1>5
<1>8. w[r.l0] = Merged(d, r)
  <2>1. w[Len(u) + 1] = m[1]
    BY <1>4, <1>5
  <2> QED BY <1>1, <1>2, <1>4, <2>1
<1>9. \A j \in 1..(Len(d) - r.l1) : w[r.l0 + j] = d[r.l1 + j]
  <2> SUFFICES ASSUME NEW j \in 1..(Len(d) - r.l1) PROVE w[r.l0 + j] = d[r.l1 + j]
    OBVIOUS
  <2>1. w[Len(u) + Len(m) + j] = v[j] /\ v[j] = d[r.l1 + j]
    BY <1>3, <1>5
  <2>2. Len(u) + Len(m) + j = r.l0 + j
    BY <1>1, <1>2, <1>4
  <2> QED BY <2>1, <2>2
<1>10. Cut(d, r) = w
  BY DEF Cut, w, u, m, v, Merged
<1> QED BY <1>5, <1>6, <1>7, <1>8, <1>9, <1>10

\* The text in a range.
LEMMA TextIs ==
  ASSUME NEW d, IsDoc(d), NEW r, In(d, r)
  PROVE  /\ TextOf(d, r) \in Text /\ Len(TextOf(d, r)) = r.l1 - r.l0 + 1
         /\ r.l0 = r.l1 => TextOf(d, r) = <<SubSeq(d[r.l0], r.c0 + 1, r.c1)>>
         /\ r.l0 # r.l1 =>
              /\ TextOf(d, r)[1] = Drop(d[r.l0], r.c0)
              /\ TextOf(d, r)[r.l1 - r.l0 + 1] = Take(d[r.l1], r.c1)
              /\ \A k \in 2..(r.l1 - r.l0) : TextOf(d, r)[k] = d[r.l0 + k - 1]
<1>1. CASE r.l0 = r.l1
  <2>1. SubSeq(d[r.l0], r.c0 + 1, r.c1) \in Seq(Chars)
    BY <1>1, InIs, SubIs
  <2>2. TextOf(d, r) = <<SubSeq(d[r.l0], r.c0 + 1, r.c1)>>
    BY <1>1 DEF TextOf, OneLine
  <2>3. r.l0 \in Nat
    BY InIs
  <2> QED BY <1>1, <2>1, <2>2, <2>3 DEF Text, Line
<1>2. CASE r.l0 # r.l1
  <2> DEFINE u == <<Drop(d[r.l0], r.c0)>>
             m == SubSeq(d, r.l0 + 1, r.l1 - 1)
             v == <<Take(d[r.l1], r.c1)>>
             w == u \o m \o v
  <2>1. u \in Seq(Line) /\ Len(u) = 1 /\ u[1] = Drop(d[r.l0], r.c0)
    <3>1. Drop(d[r.l0], r.c0) \in Line
      BY InIs, DropIs DEF Line
    <3> QED BY <3>1
  <2>2. v \in Seq(Line) /\ Len(v) = 1 /\ v[1] = Take(d[r.l1], r.c1)
    <3>1. Take(d[r.l1], r.c1) \in Line
      BY InIs, TakeIs DEF Line
    <3> QED BY <3>1
  <2>3. /\ m \in Seq(Line) /\ Len(m) = r.l1 - 1 - r.l0
        /\ \A i \in 1..(r.l1 - 1 - r.l0) : m[i] = d[r.l0 + i]
    <3>1. r.l0 \in Nat /\ r.l1 - 1 \in Nat /\ r.l0 <= r.l1 - 1 /\ r.l1 - 1 <= Len(d) /\ d \in Seq(Line)
      BY <1>2, InIs, DocIs
    <3> QED BY ONLY <3>1, SubIs
  <2> HIDE DEF u, m, v
  <2>4. /\ w \in Seq(Line) /\ Len(w) = Len(u) + Len(m) + Len(v)
        /\ \A i \in 1..Len(u) : w[i] = u[i]
        /\ \A i \in 1..Len(m) : w[Len(u) + i] = m[i]
        /\ \A i \in 1..Len(v) : w[Len(u) + Len(m) + i] = v[i]
    <3>1. u \in Seq(Line) /\ m \in Seq(Line) /\ v \in Seq(Line)
      BY <2>1, <2>2, <2>3
    <3> QED BY ONLY <3>1, Cat3Is
  <2> HIDE DEF w
  <2>5. r.l0 \in Nat /\ r.l1 \in Nat /\ r.l0 < r.l1
    BY <1>2, InIs
  <2>6. Len(w) = r.l1 - r.l0 + 1
    BY <2>1, <2>2, <2>3, <2>4, <2>5
  <2>7. w[1] = Drop(d[r.l0], r.c0)
    BY <2>1, <2>4
  <2>8. w[r.l1 - r.l0 + 1] = Take(d[r.l1], r.c1)
    <3>1. w[Len(u) + Len(m) + 1] = v[1]
      BY <2>2, <2>4
    <3>2. Len(u) + Len(m) + 1 = r.l1 - r.l0 + 1
      BY <2>1, <2>3, <2>5
    <3> QED BY <2>2, <3>1, <3>2
  <2>9. \A k \in 2..(r.l1 - r.l0) : w[k] = d[r.l0 + k - 1]
    <3> SUFFICES ASSUME NEW k \in 2..(r.l1 - r.l0) PROVE w[k] = d[r.l0 + k - 1]
      OBVIOUS
    <3> DEFINE i == k - 1
    <3>1. i \in 1..(r.l1 - 1 - r.l0) /\ k = 1 + i /\ r.l0 + k - 1 = r.l0 + i
      BY <2>5
    <3> HIDE DEF i
    <3>2. w[1 + i] = m[i] /\ m[i] = d[r.l0 + i]
      BY <2>1, <2>3, <2>4, <3>1
    <3> QED BY <3>1, <3>2
  <2>10. TextOf(d, r) = w
    BY <1>2 DEF TextOf, OneLine, w, u, m, v
  <2>11. w # << >>
    BY <2>4, <2>5, <2>6
  <2> QED BY <1>2, <2>4, <2>6, <2>7, <2>8, <2>9, <2>10, <2>11 DEF Text
<1> QED BY <1>1, <1>2

\* Three sequences in a row, taken apart.
LEMMA Cat3Parts ==
  ASSUME NEW S, NEW s \in Seq(S), NEW t \in Seq(S), NEW u \in Seq(S)
  PROVE  /\ Take(s \o t \o u, Len(s)) = s
         /\ Drop(s \o t \o u, Len(s) + Len(t)) = u
<1>1. s \o t \in Seq(S) /\ t \o u \in Seq(S) /\ Len(s \o t) = Len(s) + Len(t)
  BY CatIs
<1>2. (s \o t) \o u = s \o (t \o u)
  BY ConcatAssociative
<1>3. Take(s \o (t \o u), Len(s)) = s
  BY ONLY <1>1, CatParts, s \in Seq(S)
<1>4. Drop((s \o t) \o u, Len(s \o t)) = u
  BY ONLY <1>1, CatParts, u \in Seq(S)
<1> QED BY <1>1, <1>2, <1>3, <1>4

-----------------------------------------------------------------------------
(* Putting text into a document.                                           *)

\* The lines that take the place of line x when t is put into it at c, and
\* these lines cut to the line length.
Pieces(x, c, t) ==
  IF Len(t) = 1 THEN <<Take(x, c) \o t[1] \o Drop(x, c)>>
  ELSE <<Take(x, c) \o t[1]>> \o SubSeq(t, 2, Len(t) - 1) \o <<t[Len(t)] \o Drop(x, c)>>
Clipped(s) == IF Len(s) > MaxLin THEN Take(s, MaxLin) ELSE s
Fitted(x, c, t) == [i \in 1..Len(t) |-> Clipped(Pieces(x, c, t)[i])]

LEMMA PutAs ==
  ASSUME NEW d, NEW l, NEW c, NEW t
  PROVE  Put(d, l, c, t) = Take(d, l - 1) \o Fitted(d[l], c, t) \o Drop(d, l)
BY DEF Put, Fitted, Clipped, Pieces

LEMMA ClippedIs ==
  ASSUME NEW s \in Line
  PROVE  /\ Clipped(s) \in Line /\ Len(Clipped(s)) <= MaxLin
         /\ Len(s) <= MaxLin => Clipped(s) = s
<1>1. MaxLin \in Nat /\ s \in Seq(Chars) /\ Len(s) \in Nat
  BY EditAssumption DEF Line
<1>2. CASE Len(s) > MaxLin
  <2>1. MaxLin \in 0..Len(s)
    BY <1>1, <1>2
  <2>2. Take(s, MaxLin) \in Seq(Chars) /\ Len(Take(s, MaxLin)) = MaxLin
    BY ONLY <1>1, <2>1, TakeIs
  <2> QED BY <1>1, <1>2, <2>2 DEF Clipped, Line
<1>3. CASE ~(Len(s) > MaxLin)
  BY <1>1, <1>3 DEF Clipped, Line
<1> QED BY <1>2, <1>3

LEMMA TextParts ==
  ASSUME NEW t \in Text
  PROVE  /\ t \in Seq(Line) /\ Len(t) \in Nat \ {0} /\ 1 \in 1..Len(t) /\ Len(t) \in 1..Len(t)
         /\ \A i \in 1..Len(t) : t[i] \in Line /\ t[i] \in Seq(Chars) /\ Len(t[i]) \in Nat
<1>1. t \in Seq(Line) /\ Len(t) \in Nat \ {0}
  BY DEF Text
<1>2. \A i \in 1..Len(t) : t[i] \in Seq(Chars)
  BY <1>1 DEF Line
<1>3. \A i \in 1..Len(t) : Len(t[i]) \in Nat
  BY <1>2
<1> QED BY <1>1, <1>2, <1>3 DEF Line

LEMMA PiecesIs ==
  ASSUME NEW x \in Line, NEW c \in 0..Len(x), NEW t \in Text
  PROVE  /\ Pieces(x, c, t) \in Seq(Line) /\ Len(Pieces(x, c, t)) = Len(t)
         /\ Len(t) = 1 => Pieces(x, c, t)[1] = Take(x, c) \o t[1] \o Drop(x, c)
         /\ Len(t) # 1 =>
              /\ Pieces(x, c, t)[1] = Take(x, c) \o t[1]
              /\ Pieces(x, c, t)[Len(t)] = t[Len(t)] \o Drop(x, c)
              /\ \A k \in 2..(Len(t) - 1) : Pieces(x, c, t)[k] = t[k]
<1> DEFINE a == Take(x, c)
           b == Drop(x, c)
<1>0. x \in Seq(Chars)
  BY DEF Line
<1>1. a \in Seq(Chars) /\ b \in Seq(Chars)
  BY <1>0, TakeIs, DropIs
<1>2. /\ t \in Seq(Line) /\ Len(t) \in Nat \ {0}
      /\ \A i \in 1..Len(t) : t[i] \in Seq(Chars)
  BY TextParts
<1> HIDE DEF a, b
<1>3. CASE Len(t) = 1
  <2>1. t[1] \in Seq(Chars)
    BY <1>2, <1>3
  <2>2. a \o t[1] \o b \in Seq(Chars)
    BY ONLY <1>1, <2>1, Cat3Is
  <2>3. Pieces(x, c, t) = <<a \o t[1] \o b>>
    BY <1>3 DEF Pieces, a, b
  <2> QED BY <1>3, <2>2, <2>3 DEF Line, a, b
<1>4. CASE Len(t) # 1
  <2> DEFINE n == Len(t)
             u == <<a \o t[1]>>
             m == SubSeq(t, 2, n - 1)
             v == <<t[n] \o b>>
             w == u \o m \o v
  <2>1. n \in Nat /\ n >= 2 /\ 1 <= n - 1 /\ n - 1 \in Nat /\ n - 1 <= Len(t)
    <3>1. n \in Nat \ {0} /\ n # 1 /\ n = Len(t)
      BY <1>2, <1>4
    <3> HIDE DEF n
    <3> QED BY <3>1
  <2>2. t[1] \in Seq(Chars) /\ t[n] \in Seq(Chars)
    BY <1>2, <2>1
  <2>3. u \in Seq(Line) /\ Len(u) = 1 /\ u[1] = a \o t[1]
    <3>1. a \o t[1] \in Line
      BY <1>1, <2>2, CatIs DEF Line
    <3> QED BY <3>1
  <2>4. v \in Seq(Line) /\ Len(v) = 1 /\ v[1] = t[n] \o b
    <3>1. t[n] \o b \in Line
      BY <1>1, <2>2, CatIs DEF Line
    <3> QED BY <3>1
  <2>5. m \in Seq(Line) /\ Len(m) = n - 2 /\ \A i \in 1..(n - 2) : m[i] = t[1 + i]
    <3>1. m = SubSeq(t, 1 + 1, n - 1) /\ 1 \in Nat /\ n - 1 - 1 = n - 2
      BY <2>1
    <3> HIDE DEF m, n
    <3>2. SubSeq(t, 1 + 1, n - 1) \in Seq(Line) /\ Len(SubSeq(t, 1 + 1, n - 1)) = n - 1 - 1
          /\ \A i \in 1..(n - 1 - 1) : SubSeq(t, 1 + 1, n - 1)[i] = t[1 + i]
      BY ONLY <1>2, <2>1, SubIs, 1 \in Nat
    <3> QED BY <3>1, <3>2
  <2> HIDE DEF n, u, m, v
  <2>6. /\ w \in Seq(Line) /\ Len(w) = Len(u) + Len(m) + Len(v)
        /\ \A i \in 1..Len(u) : w[i] = u[i]
        /\ \A i \in 1..Len(m) : w[Len(u) + i] = m[i]
        /\ \A i \in 1..Len(v) : w[Len(u) + Len(m) + i] = v[i]
    <3>1. u \in Seq(Line) /\ m \in Seq(Line) /\ v \in Seq(Line)
      BY <2>3, <2>4, <2>5
    <3> QED BY ONLY <3>1, Cat3Is
  <2> HIDE DEF w
  <2>7. Len(w) = n
    BY <2>1, <2>3, <2>4, <2>5, <2>6
  <2>8. w[1] = a \o t[1]
    BY <2>3, <2>6
  <2>9. w[n] = t[n] \o b
    <3>1. w[Len(u) + Len(m) + 1] = v[1]
      BY <2>4, <2>6
    <3>2. Len(u) + Len(m) + 1 = n
      BY <2>1, <2>3, <2>5
    <3> QED BY <2>4, <3>1, <3>2
  <2>10. \A k \in 2..(n - 1) : w[k] = t[k]
    <3> SUFFICES ASSUME NEW k \in 2..(n - 1) PROVE w[k] = t[k]
      OBVIOUS
    <3> DEFINE i == k - 1
    <3>1. i \in 1..(n - 2) /\ k = 1 + i
      BY <2>1
    <3> HIDE DEF i
    <3>2. w[1 + i] = m[i] /\ m[i] = t[1 + i]
      BY <2>3, <2>5, <2>6, <3>1
    <3> QED BY <3>1, <3>2
  <2>11. Pieces(x, c, t) = w
    BY <1>4 DEF Pieces, w, u, m, v, n, a, b
  <2> QED BY <1>4, <2>6, <2>7, <2>8, <2>9, <2>10, <2>11 DEF n, a, b
<1> QED BY <1>3, <1>4

LEMMA FittedIs ==
  ASSUME NEW x \in Line, NEW c \in 0..Len(x), NEW t \in Text
  PROVE  /\ Fitted(x, c, t) \in Seq(Line) /\ Len(Fitted(x, c, t)) = Len(t)
         /\ \A i \in 1..Len(t) :
              /\ Fitted(x, c, t)[i] = Clipped(Pieces(x, c, t)[i])
              /\ Len(Fitted(x, c, t)[i]) <= MaxLin
<1>1. Len(t) \in Nat
  BY TextParts
<1>2. \A i \in 1..Len(t) : Pieces(x, c, t)[i] \in Line
  <2>1. Pieces(x, c, t) \in Seq(Line) /\ Len(Pieces(x, c, t)) = Len(t)
    BY PiecesIs
  <2> QED BY ONLY <2>1
<1>3. \A i \in 1..Len(t) : Clipped(Pieces(x, c, t)[i]) \in Line /\ Len(Clipped(Pieces(x, c, t)[i])) <= MaxLin
  BY <1>2, ClippedIs
<1>4. Fitted(x, c, t) \in [1..Len(t) -> Line]
  BY <1>3 DEF Fitted
<1>5. Fitted(x, c, t) \in Seq(Line) /\ Len(Fitted(x, c, t)) = Len(t)
  BY <1>1, <1>4
<1>6. \A i \in 1..Len(t) : Fitted(x, c, t)[i] = Clipped(Pieces(x, c, t)[i])
  BY DEF Fitted
<1> QED BY <1>3, <1>5, <1>6

\* Lines that are not too long.
Short(s) == \A i \in 1..Len(s) : Len(s[i]) <= MaxLin

LEMMA ShortDoc ==
  ASSUME NEW s \in Seq(Line), NEW t \in Seq(Line), NEW u \in Seq(Line), Short(s), Short(t), Short(u)
  PROVE  IsDoc(s \o t \o u)
<1> DEFINE w == s \o t \o u
<1>1. /\ w \in Seq(Line) /\ Len(w) = Len(s) + Len(t) + Len(u)
      /\ \A i \in 1..Len(s) : w[i] = s[i]
      /\ \A i \in 1..Len(t) : w[Len(s) + i] = t[i]
      /\ \A i \in 1..Len(u) : w[Len(s) + Len(t) + i] = u[i]
  BY Cat3Is
<1>2. Len(s) \in Nat /\ Len(t) \in Nat /\ Len(u) \in Nat
  OBVIOUS
<1> HIDE DEF w
<1>3. \A i \in 1..Len(w) : Len(w[i]) <= MaxLin
  <2> SUFFICES ASSUME NEW i \in 1..Len(w) PROVE Len(w[i]) <= MaxLin
    OBVIOUS
  <2>1. CASE i \in 1..Len(s)
    BY <1>1, <2>1 DEF Short
  <2>2. CASE i \notin 1..Len(s) /\ i \in 1..(Len(s) + Len(t))
    <3> DEFINE k == i - Len(s)
    <3>1. k \in 1..Len(t) /\ i = Len(s) + k
      BY <1>1, <1>2, <2>2
    <3> HIDE DEF k
    <3> QED BY <1>1, <3>1 DEF Short
  <2>3. CASE i \notin 1..(Len(s) + Len(t))
    <3> DEFINE k == i - (Len(s) + Len(t))
    <3>1. k \in 1..Len(u) /\ i = Len(s) + Len(t) + k
      BY <1>1, <1>2, <2>3
    <3> HIDE DEF k
    <3> QED BY <1>1, <3>1 DEF Short
  <2> QED BY <2>1, <2>2, <2>3
<1>4. DOMAIN w = 1..Len(w)
  BY <1>1
<1> QED BY <1>1, <1>3, <1>4 DEF IsDoc, Line, w

LEMMA ShortParts ==
  ASSUME NEW d, IsDoc(d), NEW n \in 0..Len(d)
  PROVE  Short(Take(d, n)) /\ Short(Drop(d, n))
<1>1. d \in Seq(Line) /\ Len(d) \in Nat /\ \A i \in 1..Len(d) : Len(d[i]) <= MaxLin
  BY DocIs
<1>2. Len(Take(d, n)) = n /\ \A i \in 1..n : Take(d, n)[i] = d[i]
  BY <1>1, TakeIs
<1>3. Len(Drop(d, n)) = Len(d) - n /\ \A i \in 1..(Len(d) - n) : Drop(d, n)[i] = d[n + i]
  BY <1>1, DropIs
<1>4. \A i \in 1..n : i \in 1..Len(d)
  BY <1>1
<1>5. \A i \in 1..(Len(d) - n) : n + i \in 1..Len(d)
  BY <1>1
<1> QED BY <1>1, <1>2, <1>3, <1>4, <1>5 DEF Short

\* A range cut out of a document leaves a document if the merged line fits.
LEMMA CutDoc ==
  ASSUME NEW d, IsDoc(d), NEW r, In(d, r)
  PROVE  /\ Len(Cut(d, r)[r.l0]) <= MaxLin => IsDoc(Cut(d, r))
         /\ OneLine(r) => Len(Cut(d, r)[r.l0]) <= MaxLin
<1>1. Cut(d, r)[r.l0] = Merged(d, r)
  BY CutIs
<1>2. ASSUME Len(Merged(d, r)) <= MaxLin PROVE IsDoc(Cut(d, r))
  <2> DEFINE u == Take(d, r.l0 - 1)
             m == <<Merged(d, r)>>
             v == Drop(d, r.l1)
  <2>1. d \in Seq(Line) /\ r.l0 - 1 \in 0..Len(d) /\ r.l1 \in 0..Len(d)
    BY DocIs, InIs
  <2>2. u \in Seq(Line) /\ v \in Seq(Line)
    BY <2>1, TakeIs, DropIs
  <2>3. Short(u) /\ Short(v)
    BY <2>1, ShortParts
  <2>4. m \in Seq(Line) /\ Len(m) = 1 /\ m[1] = Merged(d, r)
    BY MergedIs
  <2>5. Short(m)
    BY <1>2, <2>4 DEF Short
  <2>6. Cut(d, r) = u \o m \o v
    BY DEF Cut, Merged
  <2> HIDE DEF u, m, v
  <2> QED BY <2>2, <2>3, <2>4, <2>5, <2>6, ShortDoc
<1>3. ASSUME OneLine(r) PROVE Len(Merged(d, r)) <= MaxLin
  <2>1. Len(Merged(d, r)) = r.c0 + (Len(d[r.l1]) - r.c1)
    BY MergedIs
  <2>2. r.c0 \in Nat /\ r.c1 \in Nat /\ r.c0 <= r.c1 /\ r.l1 \in 1..Len(d)
    BY <1>3, InIs DEF OneLine
  <2>3. Len(d[r.l1]) \in Nat /\ Len(d[r.l1]) <= MaxLin
    BY <2>2, DocIs
  <2>4. MaxLin \in Nat
    BY EditAssumption
  <2> QED BY <2>1, <2>2, <2>3, <2>4
<1> QED BY <1>1, <1>2, <1>3

\* The document after text has been put into it.
LEMMA PutIs ==
  ASSUME NEW d, IsDoc(d), NEW l \in 1..Len(d), NEW c \in 0..Len(d[l]), NEW t \in Text
  PROVE  /\ IsDoc(Put(d, l, c, t)) /\ Len(Put(d, l, c, t)) = Len(d) + Len(t) - 1
         /\ Take(Put(d, l, c, t), l - 1) = Take(d, l - 1)
         /\ Drop(Put(d, l, c, t), l - 1 + Len(t)) = Drop(d, l)
         /\ \A i \in 1..Len(t) : Put(d, l, c, t)[l - 1 + i] = Fitted(d[l], c, t)[i]
<1> DEFINE u == Take(d, l - 1)
           m == Fitted(d[l], c, t)
           v == Drop(d, l)
           w == u \o m \o v
<1>1. /\ d \in Seq(Line) /\ Len(d) \in Nat /\ l \in Nat /\ l - 1 \in 0..Len(d) /\ l \in 0..Len(d)
      /\ d[l] \in Line /\ Len(t) \in Nat
  BY DocIs, TextParts
<1>2. u \in Seq(Line) /\ Len(u) = l - 1
  BY <1>1, TakeIs
<1>3. v \in Seq(Line) /\ Len(v) = Len(d) - l
  BY <1>1, DropIs
<1>4. m \in Seq(Line) /\ Len(m) = Len(t) /\ Short(m)
  BY <1>1, FittedIs DEF Short
<1>5. Short(u) /\ Short(v)
  BY <1>1, ShortParts
<1> HIDE DEF u, m, v
<1>6. IsDoc(w)
  BY <1>2, <1>3, <1>4, <1>5, ShortDoc
<1>7. /\ Len(w) = Len(u) + Len(m) + Len(v)
      /\ \A i \in 1..Len(m) : w[Len(u) + i] = m[i]
  <2>1. u \in Seq(Line) /\ m \in Seq(Line) /\ v \in Seq(Line)
    BY <1>2, <1>3, <1>4
  <2> QED BY ONLY <2>1, Cat3Is
<1>8. Take(w, Len(u)) = u /\ Drop(w, Len(u) + Len(m)) = v
  <2>1. u \in Seq(Line) /\ m \in Seq(Line) /\ v \in Seq(Line)
    BY <1>2, <1>3, <1>4
  <2> QED BY ONLY <2>1, Cat3Parts
<1> HIDE DEF w
<1>9. Len(w) = Len(d) + Len(t) - 1
  <2>1. Len(w) = Len(u) + Len(m) + Len(v) /\ Len(u) = l - 1 /\ Len(m) = Len(t) /\ Len(v) = Len(d) - l
    BY <1>2, <1>3, <1>4, <1>7
  <2> QED BY ONLY <1>1, <2>1
<1>10. Put(d, l, c, t) = w
  BY PutAs DEF w, u, m, v
<1> QED BY <1>2, <1>4, <1>6, <1>7, <1>8, <1>9, <1>10 DEF u, m, v

\* The parts of a document without a range.
LEMMA CutParts ==
  ASSUME NEW d, IsDoc(d), NEW r, In(d, r)
  PROVE  /\ Take(Cut(d, r), r.l0 - 1) = Take(d, r.l0 - 1)
         /\ Drop(Cut(d, r), r.l0) = Drop(d, r.l1)
<1> DEFINE u == Take(d, r.l0 - 1)
           m == <<Merged(d, r)>>
           v == Drop(d, r.l1)
<1>1. d \in Seq(Line) /\ r.l0 - 1 \in 0..Len(d) /\ r.l1 \in 0..Len(d) /\ r.l0 \in Nat \ {0}
  BY DocIs, InIs
<1>2. u \in Seq(Line) /\ Len(u) = r.l0 - 1 /\ v \in Seq(Line)
  BY <1>1, TakeIs, DropIs
<1>3. m \in Seq(Line) /\ Len(m) = 1
  BY MergedIs
<1>4. Cut(d, r) = u \o m \o v
  BY DEF Cut, Merged
<1> HIDE DEF u, m, v
<1>5. Take(u \o m \o v, Len(u)) = u /\ Drop(u \o m \o v, Len(u) + Len(m)) = v
  <2>1. u \in Seq(Line) /\ m \in Seq(Line) /\ v \in Seq(Line)
    BY <1>2, <1>3
  <2> QED BY ONLY <2>1, Cat3Parts
<1>6. Len(u) + Len(m) = r.l0
  BY <1>1, <1>2, <1>3
<1> QED BY <1>2, <1>4, <1>5, <1>6 DEF u, v

\* Putting back the text that was cut out gives the document.
LEMMA CutPut ==
  ASSUME NEW d, IsDoc(d), NEW r, In(d, r)
  PROVE  Put(Cut(d, r), r.l0, r.c0, TextOf(d, r)) = d
<1> DEFINE t == TextOf(d, r)
           x == Merged(d, r)
           n == r.l1 - r.l0 + 1
           f == Fitted(x, r.c0, t)
           g == SubSeq(d, r.l0 - 1 + 1, r.l1)
<1>1. /\ d \in Seq(Line) /\ Len(d) \in Nat /\ r.l0 - 1 \in Nat /\ r.l0 - 1 <= r.l1 /\ r.l1 <= Len(d)
      /\ r.l0 \in Nat \ {0} /\ r.l1 \in Nat /\ r.l0 \in 1..Len(d) /\ r.l1 \in 1..Len(d) /\ r.l0 <= r.l1
  BY DocIs, InIs
<1>2. x \in Line /\ r.c0 \in 0..Len(x)
  <2>1. /\ Len(x) = r.c0 + (Len(d[r.l1]) - r.c1) /\ r.c0 \in Nat /\ r.c1 \in 0..Len(d[r.l1])
        /\ Len(d[r.l1]) \in Nat
    BY MergedIs, InIs, DocIs
  <2> HIDE DEF x
  <2>2. r.c0 \in 0..Len(x)
    BY <2>1
  <2> QED BY <2>2, MergedIs DEF x
<1>3. t \in Text /\ Len(t) = n
  BY TextIs
<1>4. n \in Nat /\ n >= 1
  BY <1>1
<1>5. \A i \in 1..n : Pieces(x, r.c0, t)[i] = d[r.l0 - 1 + i]
  <2>1. CASE r.l0 = r.l1
    <3>1. n = 1 /\ Len(t) = 1
      BY <1>1, <1>3, <2>1
    <3>2. t[1] = SubSeq(d[r.l0], r.c0 + 1, r.c1)
      BY <2>1, TextIs
    <3>3. Pieces(x, r.c0, t)[1] = Take(x, r.c0) \o t[1] \o Drop(x, r.c0)
      BY <1>2, <1>3, <3>1, PiecesIs
    <3>4. Pieces(x, r.c0, t)[1] = Take(d[r.l0], r.c0) \o SubSeq(d[r.l0], r.c0 + 1, r.c1) \o Drop(d[r.l0], r.c1)
      BY <2>1, <3>2, <3>3, MergedIs
    <3>5. d[r.l0] \in Seq(Chars) /\ r.c0 \in Nat /\ r.c1 \in Nat /\ r.c0 <= r.c1 /\ r.c1 <= Len(d[r.l0])
      BY <2>1, InIs
    <3>6. Pieces(x, r.c0, t)[1] = d[r.l0]
      BY <3>4, <3>5, TakeSubDrop
    <3>7. r.l0 - 1 + 1 = r.l0
      BY <1>1
    <3> QED BY <3>1, <3>6, <3>7
  <2>2. CASE r.l0 # r.l1
    <3>0. n # 1 /\ n >= 2 /\ Len(t) # 1
      BY <1>1, <1>3, <2>2
    <3>1. /\ t[1] = Drop(d[r.l0], r.c0) /\ t[n] = Take(d[r.l1], r.c1)
          /\ \A k \in 2..(n - 1) : t[k] = d[r.l0 + k - 1]
      <4>1. n - 1 = r.l1 - r.l0
        BY <1>1
      <4> QED BY <2>2, <4>1, TextIs
    <3>2. /\ Pieces(x, r.c0, t)[1] = Take(x, r.c0) \o t[1]
          /\ Pieces(x, r.c0, t)[n] = t[n] \o Drop(x, r.c0)
          /\ \A k \in 2..(n - 1) : Pieces(x, r.c0, t)[k] = t[k]
      <4>1. Len(t) = n /\ Len(t) # 1 /\ x \in Line /\ r.c0 \in 0..Len(x) /\ t \in Text
        BY <1>2, <1>3, <3>0
      <4> HIDE DEF x, t, n
      <4> QED BY <4>1, PiecesIs
    <3>3. d[r.l0] \in Seq(Chars) /\ d[r.l1] \in Seq(Chars) /\ r.c0 \in 0..Len(d[r.l0]) /\ r.c1 \in 0..Len(d[r.l1])
      BY InIs
    <3>10. Take(x, r.c0) = Take(d[r.l0], r.c0) /\ Drop(x, r.c0) = Drop(d[r.l1], r.c1)
      BY MergedIs
    <3>11. /\ Take(d[r.l0], r.c0) \o Drop(d[r.l0], r.c0) = d[r.l0]
           /\ Take(d[r.l1], r.c1) \o Drop(d[r.l1], r.c1) = d[r.l1]
      BY <3>3, TakeDrop
    <3> HIDE DEF x, t, n
    <3>4. Pieces(x, r.c0, t)[1] = d[r.l0]
      BY <3>1, <3>2, <3>10, <3>11
    <3>5. Pieces(x, r.c0, t)[n] = d[r.l1]
      BY <3>1, <3>2, <3>10, <3>11
    <3>6. \A k \in 2..(n - 1) : Pieces(x, r.c0, t)[k] = d[r.l0 + k - 1]
      BY <3>1, <3>2
    <3> SUFFICES ASSUME NEW i \in 1..n PROVE Pieces(x, r.c0, t)[i] = d[r.l0 - 1 + i]
      OBVIOUS
    <3>7. CASE i = 1
      <4>1. r.l0 - 1 + i = r.l0
        BY <1>1, <3>7
      <4> QED BY <3>4, <3>7, <4>1
    <3>8. CASE i = n
      <4>1. r.l0 - 1 + i = r.l1
        BY <1>1, <3>8 DEF n
      <4> QED BY <3>5, <3>8, <4>1
    <3>9. CASE i # 1 /\ i # n
      <4>1. i \in 2..(n - 1) /\ r.l0 - 1 + i = r.l0 + i - 1
        BY <1>1, <1>4, <3>9
      <4> QED BY <3>6, <4>1
    <3> QED BY <3>7, <3>8, <3>9
  <2> QED BY <2>1, <2>2
<1> HIDE DEF t, x, n
<1>6. \A i \in 1..n : r.l0 - 1 + i \in 1..Len(d)
  BY <1>1 DEF n
<1>7. f \in Seq(Line) /\ Len(f) = n /\ \A i \in 1..n : f[i] = Clipped(Pieces(x, r.c0, t)[i])
  BY <1>2, <1>3, FittedIs
<1>8. \A i \in 1..n : Clipped(d[r.l0 - 1 + i]) = d[r.l0 - 1 + i]
  BY <1>6, DocIs, ClippedIs
<1>9. g \in Seq(Line) /\ Len(g) = r.l1 - (r.l0 - 1) /\ \A i \in 1..(r.l1 - (r.l0 - 1)) : g[i] = d[r.l0 - 1 + i]
  BY ONLY SMTT(40), <1>1, SubIs
<1>10. r.l1 - (r.l0 - 1) = n
  BY <1>1 DEF n
<1> HIDE DEF f, g
<1>11. f = g
  <2>1. Len(f) = Len(g) /\ \A i \in 1..Len(f) : f[i] = g[i]
    BY <1>5, <1>7, <1>8, <1>9, <1>10
  <2> QED BY ONLY <1>7, <1>9, <2>1, SeqSame
<1>12. Take(d, r.l0 - 1) \o g \o Drop(d, r.l1) = d
  BY <1>1, TakeSubDrop DEF g
<1>13. Cut(d, r)[r.l0] = x
  BY CutIs DEF x
<1>14. Put(Cut(d, r), r.l0, r.c0, t) = Take(d, r.l0 - 1) \o f \o Drop(d, r.l1)
  BY <1>13, CutParts, PutAs DEF f
<1> QED BY <1>11, <1>12, <1>14 DEF t

\* w is s, t and u in a row.
Row3(S, w, s, t, u) ==
  /\ w \in Seq(S) /\ Len(w) = Len(s) + Len(t) + Len(u)
  /\ \A i \in 1..Len(s) : w[i] = s[i]
  /\ \A i \in 1..Len(t) : w[Len(s) + i] = t[i]
  /\ \A i \in 1..Len(u) : w[Len(s) + Len(t) + i] = u[i]
  /\ Take(w, Len(s)) = s /\ Drop(w, Len(s) + Len(t)) = u

LEMMA Row3Is ==
  ASSUME NEW S, NEW s \in Seq(S), NEW t \in Seq(S), NEW u \in Seq(S)
  PROVE  Row3(S, s \o t \o u, s, t, u)
BY Cat3Is, Cat3Parts DEF Row3

\* One line of a sequence replaced.
WithLine(d, l, x) == [d EXCEPT ![l] = x]

LEMMA SetLine ==
  ASSUME NEW S, NEW d \in Seq(S), NEW l \in 1..Len(d), NEW x \in S
  PROVE  Take(d, l - 1) \o <<x>> \o Drop(d, l) = WithLine(d, l, x)
<1> DEFINE u == Take(d, l - 1)
           m == <<x>>
           v == Drop(d, l)
           w == u \o m \o v
           e == [d EXCEPT ![l] = x]
<1>1. l - 1 \in 0..Len(d) /\ l \in 0..Len(d) /\ Len(d) \in Nat /\ l \in Nat
  OBVIOUS
<1>2. u \in Seq(S) /\ Len(u) = l - 1 /\ \A i \in 1..(l - 1) : u[i] = d[i]
  BY <1>1, TakeIs
<1>3. v \in Seq(S) /\ Len(v) = Len(d) - l /\ \A i \in 1..(Len(d) - l) : v[i] = d[l + i]
  BY <1>1, DropIs
<1>4. m \in Seq(S) /\ Len(m) = 1 /\ m[1] = x
  OBVIOUS
<1>5. e \in Seq(S) /\ Len(e) = Len(d) /\ e[l] = x /\ \A i \in 1..Len(d) : i # l => e[i] = d[i]
  OBVIOUS
<1> HIDE DEF u, m, v, e
<1>6. /\ w \in Seq(S) /\ Len(w) = Len(u) + Len(m) + Len(v)
      /\ \A i \in 1..Len(u) : w[i] = u[i]
      /\ \A i \in 1..Len(m) : w[Len(u) + i] = m[i]
      /\ \A i \in 1..Len(v) : w[Len(u) + Len(m) + i] = v[i]
  <2>1. u \in Seq(S) /\ m \in Seq(S) /\ v \in Seq(S)
    BY <1>2, <1>3, <1>4
  <2>2. Row3(S, w, u, m, v)
    BY ONLY <2>1, Row3Is
  <2> HIDE DEF w
  <2> QED BY <2>2 DEF Row3
<1> HIDE DEF w
<1>7. Len(w) = Len(e)
  <2>1. Len(w) = Len(u) + Len(m) + Len(v) /\ Len(u) = l - 1 /\ Len(m) = 1 /\ Len(v) = Len(d) - l
    BY <1>2, <1>3, <1>4, <1>6
  <2> QED BY <1>1, <1>5, <2>1
<1>8. \A i \in 1..Len(w) : w[i] = e[i]
  <2> SUFFICES ASSUME NEW i \in 1..Len(w) PROVE w[i] = e[i]
    OBVIOUS
  <2>1. i \in 1..Len(d)
    BY <1>5, <1>7
  <2>2. CASE i \in 1..(l - 1)
    <3>1. i \in 1..Len(u) /\ i # l
      BY <1>1, <1>2, <2>2
    <3> QED BY <1>2, <1>5, <1>6, <2>1, <2>2, <3>1
  <2>3. CASE i = l
    <3>1. w[Len(u) + 1] = m[1]
      BY <1>4, <1>6
    <3>2. Len(u) + 1 = l
      BY <1>1, <1>2
    <3> QED BY <1>4, <1>5, <2>3, <3>1, <3>2
  <2>4. CASE i \notin 1..(l - 1) /\ i # l
    <3> DEFINE k == i - l
    <3>1. k \in 1..(Len(d) - l) /\ k \in 1..Len(v) /\ i = l + k /\ l - 1 + 1 + k = i
      BY <1>1, <1>3, <2>1, <2>4
    <3> HIDE DEF k
    <3>2. w[Len(u) + Len(m) + k] = v[k] /\ v[k] = d[l + k]
      BY <1>3, <1>6, <3>1
    <3>3. Len(u) + Len(m) + k = i
      BY <1>2, <1>4, <3>1
    <3> QED BY <1>5, <2>1, <2>4, <3>1, <3>2, <3>3
  <2> QED BY <2>2, <2>3, <2>4
<1>9. w = e
  BY ONLY <1>5, <1>6, <1>7, <1>8, SeqSame
<1> QED BY <1>9 DEF w, u, m, v, e, WithLine

\* Cutting out text that was put in gives the document as it was before.
LEMMA PutCut ==
  ASSUME NEW d, IsDoc(d), NEW l \in 1..Len(d), NEW c \in 0..Len(d[l]), NEW t \in Text,
         Fits(d, l, c, t)
  PROVE  /\ In(Put(d, l, c, t), PutRange(l, c, t))
         /\ Cut(Put(d, l, c, t), PutRange(l, c, t)) = d
         /\ PutRange(l, c, t).l0 = l /\ PutRange(l, c, t).c0 = c
         /\ PutRange(l, c, t).l1 = l + Len(t) - 1
         /\ Len(t) = 1 => PutRange(l, c, t).c1 = c + Len(t[1])
<1> DEFINE e == Put(d, l, c, t)
           n == Len(t)
           x == d[l]
           end == IF n = 1 THEN c + Len(t[1]) ELSE Len(t[n])
           r == PutRange(l, c, t)
           p == Pieces(x, c, t)
           f == Fitted(x, c, t)
<1>1. /\ d \in Seq(Line) /\ Len(d) \in Nat /\ x \in Seq(Chars) /\ x \in Line /\ Len(x) \in Nat
      /\ l \in Nat /\ c \in Nat /\ c <= Len(x) /\ l <= Len(d) /\ 1 <= l
  BY DocIs
<1>2. /\ n \in Nat \ {0} /\ 1 \in 1..n /\ n \in 1..n
      /\ t[1] \in Seq(Chars) /\ t[n] \in Seq(Chars) /\ Len(t[1]) \in Nat /\ Len(t[n]) \in Nat
  BY TextParts
<1>3. Take(x, c) \in Seq(Chars) /\ Drop(x, c) \in Seq(Chars) /\ Len(Take(x, c)) = c /\ Len(Drop(x, c)) = Len(x) - c
  BY <1>1, TakeIs, DropIs
<1>4. MaxLin \in Nat
  BY EditAssumption
<1>5. /\ IsDoc(e) /\ Len(e) = Len(d) + n - 1 /\ Take(e, l - 1) = Take(d, l - 1)
      /\ Drop(e, l - 1 + n) = Drop(d, l)
      /\ \A i \in 1..n : e[l - 1 + i] = f[i]
  BY PutIs
<1>6. \A i \in 1..n : f[i] = Clipped(p[i])
  BY <1>1, FittedIs
<1>7. e[l] = f[1] /\ e[l + n - 1] = f[n]
  <2>1. l - 1 + 1 = l /\ l - 1 + n = l + n - 1
    BY <1>1, <1>2
  <2> HIDE DEF e, n, f
  <2> QED BY <1>2, <1>5, <2>1
<1>8. /\ n = 1 => p[1] = Take(x, c) \o t[1] \o Drop(x, c)
      /\ n # 1 => p[1] = Take(x, c) \o t[1] /\ p[n] = t[n] \o Drop(x, c)
  BY <1>1, PiecesIs
<1>9. end \in Nat /\ end <= MaxLin
  <2>1. n = 1 => Len(x) + Len(t[1]) <= MaxLin
    BY DEF Fits
  <2>2. n # 1 => c + Len(t[1]) <= MaxLin /\ Len(t[n]) + Len(x) - c <= MaxLin
    BY DEF Fits
  <2> HIDE DEF n, x
  <2> QED BY <1>1, <1>2, <1>4, <2>1, <2>2
<1>10. r = Rng(l, c, l + n - 1, end)
  <2> HIDE DEF end, n
  <2>1. ~(end > MaxLin)
    BY <1>4, <1>9
  <2>2. PutRange(l, c, t) = Rng(l, c, l + n - 1, IF end > MaxLin THEN MaxLin ELSE end)
    BY DEF PutRange, end, n
  <2> QED BY <2>1, <2>2
<1>11. r.l0 = l /\ r.c0 = c /\ r.l1 = l + n - 1 /\ r.c1 = end
  BY <1>10 DEF Rng
<1>12. /\ Take(e[l], c) = Take(x, c) /\ c <= Len(e[l])
       /\ Drop(e[l + n - 1], end) = Drop(x, c) /\ end <= Len(e[l + n - 1])
       /\ n = 1 => c <= end
  <2>1. CASE n = 1
    <3>1. p[1] = Take(x, c) \o t[1] \o Drop(x, c)
      BY <1>8, <2>1
    <3>2. p[1] \in Line /\ Len(p[1]) = Len(Take(x, c)) + Len(t[1]) + Len(Drop(x, c))
      <4>1. Take(x, c) \in Seq(Chars) /\ t[1] \in Seq(Chars) /\ Drop(x, c) \in Seq(Chars)
        BY <1>2, <1>3
      <4> HIDE DEF p, x
      <4>2. /\ Take(x, c) \o t[1] \o Drop(x, c) \in Seq(Chars)
            /\ Len(Take(x, c) \o t[1] \o Drop(x, c)) = Len(Take(x, c)) + Len(t[1]) + Len(Drop(x, c))
        BY ONLY <4>1, Cat3Is
      <4> QED BY ONLY <3>1, <4>2 DEF Line
    <3>3. Len(p[1]) = Len(x) + Len(t[1])
      <4>1. Len(Take(x, c)) = c /\ Len(Drop(x, c)) = Len(x) - c /\ c \in Nat /\ Len(x) \in Nat /\ Len(t[1]) \in Nat
        BY <1>1, <1>2, <1>3
      <4> HIDE DEF p, x
      <4> QED BY ONLY <3>2, <4>1
    <3>4. Len(x) + Len(t[1]) <= MaxLin
      BY <2>1 DEF Fits
    <3>5. e[l] = p[1] /\ e[l + n - 1] = p[1]
      BY <1>2, <1>6, <1>7, <2>1, <3>2, <3>3, <3>4, ClippedIs
    <3>6. Take(p[1], c) = Take(x, c) /\ Drop(p[1], c + Len(t[1])) = Drop(x, c)
      <4>1. Take(x, c) \in Seq(Chars) /\ t[1] \in Seq(Chars) /\ Drop(x, c) \in Seq(Chars) /\ Len(Take(x, c)) = c
        BY <1>2, <1>3
      <4> HIDE DEF p, x
      <4>2. /\ Take(Take(x, c) \o t[1] \o Drop(x, c), Len(Take(x, c))) = Take(x, c)
            /\ Drop(Take(x, c) \o t[1] \o Drop(x, c), Len(Take(x, c)) + Len(t[1])) = Drop(x, c)
        <5>1. Row3(Chars, Take(x, c) \o t[1] \o Drop(x, c), Take(x, c), t[1], Drop(x, c))
          BY ONLY <4>1, Row3Is
        <5> QED BY ONLY <5>1 DEF Row3
      <4> QED BY ONLY <3>1, <4>1, <4>2
    <3>7. end = c + Len(t[1])
      BY <2>1
    <3> HIDE DEF e, p, x, end, n
    <3>8. c <= Len(x) + Len(t[1]) /\ end <= Len(x) + Len(t[1]) /\ c <= end
      BY <1>1, <1>2, <3>7
    <3> QED BY <3>3, <3>5, <3>6, <3>7, <3>8
  <2>2. CASE n # 1
    <3>1. p[1] = Take(x, c) \o t[1] /\ p[n] = t[n] \o Drop(x, c)
      BY <1>8, <2>2
    <3>2. /\ p[1] \in Line /\ Len(p[1]) = Len(Take(x, c)) + Len(t[1])
          /\ p[n] \in Line /\ Len(p[n]) = Len(t[n]) + Len(Drop(x, c))
      <4>1. Take(x, c) \in Seq(Chars) /\ t[1] \in Seq(Chars) /\ Drop(x, c) \in Seq(Chars) /\ t[n] \in Seq(Chars)
        BY <1>2, <1>3
      <4> HIDE DEF p, x, n
      <4>2. /\ Take(x, c) \o t[1] \in Seq(Chars) /\ Len(Take(x, c) \o t[1]) = Len(Take(x, c)) + Len(t[1])
            /\ t[n] \o Drop(x, c) \in Seq(Chars) /\ Len(t[n] \o Drop(x, c)) = Len(t[n]) + Len(Drop(x, c))
        BY ONLY <4>1, CatIs
      <4> QED BY ONLY <3>1, <4>2 DEF Line
    <3>3. Len(p[1]) = c + Len(t[1]) /\ Len(p[n]) = Len(t[n]) + Len(x) - c
      BY <1>1, <1>2, <1>3, <3>2
    <3>4. c + Len(t[1]) <= MaxLin /\ Len(t[n]) + Len(x) - c <= MaxLin
      BY <2>2 DEF Fits
    <3>5. e[l] = p[1] /\ e[l + n - 1] = p[n]
      <4> HIDE DEF e, n, p, f, x
      <4>1. Clipped(p[1]) = p[1] /\ Clipped(p[n]) = p[n]
        BY <3>2, <3>3, <3>4, ClippedIs
      <4> QED BY <1>2, <1>6, <1>7, <4>1
    <3>6. Take(p[1], c) = Take(x, c) /\ Drop(p[n], Len(t[n])) = Drop(x, c)
      BY ONLY <1>2, <1>3, <3>1, CatParts
    <3>7. end = Len(t[n])
      BY <2>2
    <3> HIDE DEF e, p, x, end, n
    <3>8. c <= c + Len(t[1]) /\ end <= Len(t[n]) + Len(x) - c
      BY <1>1, <1>2, <3>7
    <3> QED BY <2>2, <3>3, <3>5, <3>6, <3>7, <3>8
  <2> QED BY <2>1, <2>2
<1> HIDE DEF e, n, x, r, p, f, end
<1>13. In(e, r)
  <2>1. l \in 1..Len(e) /\ l + n - 1 \in 1..Len(e) /\ (l < l + n - 1 \/ (l = l + n - 1 /\ n = 1))
    BY <1>1, <1>2, <1>5
  <2>2. r \in Range4
    BY <1>1, <1>2, <1>9, <1>10 DEF Rng, Range4
  <2>3. Len(e[l]) \in Nat /\ Len(e[l + n - 1]) \in Nat
    <3>1. l \in 1..Len(e) /\ l + n - 1 \in 1..Len(e)
      BY <1>1, <1>2, <1>5
    <3> QED BY <1>5, <3>1, DocIs
  <2>4. c \in 0..Len(e[l]) /\ end \in 0..Len(e[l + n - 1])
    BY <1>1, <1>9, <1>12, <2>3
  <2>5. l \in 1..Len(e) /\ l + n - 1 \in 1..Len(e)
    BY <1>1, <1>2, <1>5
  <2> QED BY <1>11, <1>12, <2>1, <2>2, <2>4, <2>5 DEF In
<1>14. Merged(e, r) = x
  BY <1>1, <1>11, <1>12, TakeDrop DEF Merged
<1>15. Cut(e, r) = Take(d, l - 1) \o <<x>> \o Drop(d, l)
  <2>1. Cut(e, r) = Take(e, l - 1) \o <<Merged(e, r)>> \o Drop(e, l + n - 1)
    BY <1>11 DEF Cut, Merged
  <2>2. l - 1 + n = l + n - 1
    BY <1>1, <1>2
  <2> QED BY <1>5, <1>14, <2>1, <2>2
<1>16. [d EXCEPT ![l] = x] = d
  BY <1>1 DEF x
<1>17. Cut(e, r) = d
  <2>1. d \in Seq(Line) /\ l \in 1..Len(d) /\ x \in Line
    BY <1>1
  <2>2. Take(d, l - 1) \o <<x>> \o Drop(d, l) = WithLine(d, l, x)
    BY ONLY <2>1, SetLine
  <2> QED BY <1>15, <1>16, <2>2 DEF WithLine
<1> QED BY <1>11, <1>13, <1>17 DEF e, r, n, end

-----------------------------------------------------------------------------
(* Edits within a line.                                                    *)

\* s is put into line x at c.
Ins(x, c, s) == Take(x, c) \o s \o Drop(x, c)

\* e is d with s put into line l at c.
OneIns(d, l, c, s, e) ==
  /\ IsDoc(d) /\ IsDoc(e) /\ l \in 1..Len(d) /\ c \in 0..Len(d[l]) /\ s \in Line
  /\ e = WithLine(d, l, Ins(d[l], c, s))

LEMMA CatAssoc ==
  ASSUME NEW S, NEW s \in Seq(S), NEW t \in Seq(S), NEW u \in Seq(S)
  PROVE  (s \o t) \o u = s \o (t \o u)
BY ConcatAssociative

LEMMA WithLineIs ==
  ASSUME NEW d, IsDoc(d), NEW l \in 1..Len(d), NEW x \in Line
  PROVE  /\ WithLine(d, l, x)[l] = x /\ Len(WithLine(d, l, x)) = Len(d)
         /\ \A j \in 1..Len(d) : j # l => WithLine(d, l, x)[j] = d[j]
         /\ \A y : WithLine(WithLine(d, l, x), l, y) = WithLine(d, l, y)
         /\ WithLine(d, l, d[l]) = d
         /\ Len(x) <= MaxLin => IsDoc(WithLine(d, l, x))
<1>1. d \in Seq(Line) /\ Len(d) \in Nat /\ \A j \in 1..Len(d) : Len(d[j]) <= MaxLin
  BY DocIs
<1>2. WithLine(d, l, x)[l] = x /\ \A j \in 1..Len(d) : j # l => WithLine(d, l, x)[j] = d[j]
  BY <1>1 DEF WithLine
<1>3. \A y : WithLine(WithLine(d, l, x), l, y) = WithLine(d, l, y)
  BY <1>1 DEF WithLine
<1>4. WithLine(d, l, d[l]) = d
  BY <1>1 DEF WithLine
<1>5. WithLine(d, l, x) \in Seq(Line) /\ Len(WithLine(d, l, x)) = Len(d)
  BY <1>1 DEF WithLine
<1>6. Len(x) <= MaxLin => IsDoc(WithLine(d, l, x))
  <2> DEFINE w == WithLine(d, l, x)
  <2>1. w \in Seq(Line) /\ Len(w) = Len(d) /\ w[l] = x /\ \A j \in 1..Len(d) : j # l => w[j] = d[j]
    BY <1>2, <1>5
  <2> HIDE DEF w
  <2>2. DOMAIN w = 1..Len(d) /\ w \in Seq(Seq(Chars))
    BY <2>1 DEF Line
  <2>3. Len(x) <= MaxLin => \A j \in 1..Len(d) : Len(w[j]) <= MaxLin
    BY <1>1, <2>1
  <2>4. Len(x) <= MaxLin => IsDoc(w)
    BY <2>2, <2>3 DEF IsDoc
  <2> QED BY <2>4 DEF w
<1> QED BY <1>2, <1>3, <1>4, <1>5, <1>6

\* The parts of y, which is x with s put in at c.
InsParts(y, x, c, s) ==
  /\ y \in Line /\ Len(y) = Len(x) + Len(s)
  /\ Take(y, c) = Take(x, c) /\ Drop(y, c) = s \o Drop(x, c)
  /\ Take(y, c + Len(s)) = Take(x, c) \o s /\ Drop(y, c + Len(s)) = Drop(x, c)
  /\ SubSeq(y, c + 1, c + Len(s)) = s

LEMMA InsIs ==
  ASSUME NEW x \in Line, NEW c \in 0..Len(x), NEW s \in Line
  PROVE  InsParts(Ins(x, c, s), x, c, s)
<1> DEFINE a == Take(x, c)
           b == Drop(x, c)
           w == a \o s \o b
<1>1. x \in Seq(Chars) /\ s \in Seq(Chars) /\ Len(x) \in Nat /\ Len(s) \in Nat
  BY DEF Line
<1>2. a \in Seq(Chars) /\ Len(a) = c /\ b \in Seq(Chars) /\ Len(b) = Len(x) - c
  BY <1>1, TakeIs, DropIs
<1> HIDE DEF a, b
<1>3. Row3(Chars, w, a, s, b)
  BY ONLY <1>1, <1>2, Row3Is
<1>4. a \o s \in Seq(Chars) /\ Len(a \o s) = Len(a) + Len(s) /\ s \o b \in Seq(Chars)
  BY ONLY <1>1, <1>2, CatIs
<1>5. Take((a \o s) \o b, Len(a \o s)) = a \o s
  BY ONLY <1>2, <1>4, CatParts
<1>6. Drop(a \o (s \o b), Len(a)) = s \o b
  BY ONLY <1>2, <1>4, CatParts
<1>7. (a \o s) \o b = a \o (s \o b)
  <2>1. a \in Seq(Chars) /\ s \in Seq(Chars) /\ b \in Seq(Chars)
    BY <1>1, <1>2
  <2> QED BY ONLY <2>1, CatAssoc
<1> HIDE DEF w
<1>8. /\ w \in Seq(Chars) /\ Len(w) = Len(a) + Len(s) + Len(b)
      /\ \A i \in 1..Len(s) : w[Len(a) + i] = s[i]
      /\ Take(w, Len(a)) = a /\ Drop(w, Len(a) + Len(s)) = b
  BY <1>3 DEF Row3
<1>9. Len(w) = Len(x) + Len(s)
  BY <1>1, <1>2, <1>8
<1>10. SubSeq(w, c + 1, c + Len(s)) = s
  <2>1. c \in Nat /\ c + Len(s) \in Nat /\ c <= c + Len(s) /\ c + Len(s) <= Len(w) /\ c + Len(s) - c = Len(s)
    BY <1>1, <1>9
  <2> DEFINE g == SubSeq(w, c + 1, c + Len(s))
  <2>2. /\ g \in Seq(Chars) /\ Len(g) = c + Len(s) - c
        /\ \A i \in 1..(c + Len(s) - c) : g[i] = w[c + i]
    BY ONLY <1>8, <2>1, SubIs
  <2> HIDE DEF g
  <2>3. Len(g) = Len(s) /\ \A i \in 1..Len(g) : g[i] = s[i]
    BY <1>2, <1>8, <2>1, <2>2
  <2>4. g = s
    BY ONLY <1>1, <2>2, <2>3, SeqSame
  <2> QED BY <2>4 DEF g
<1>11. Ins(x, c, s) = w
  BY DEF Ins, w, a, b
<1>12. Take(w, c + Len(s)) = a \o s /\ Drop(w, c) = s \o b
  BY <1>2, <1>4, <1>5, <1>6, <1>7 DEF w
<1>13. w \in Line
  BY <1>8 DEF Line
<1> QED BY <1>2, <1>8, <1>9, <1>10, <1>11, <1>12, <1>13 DEF InsParts, a, b

\* Two insertions, the second after the text of the first or before it.
LEMMA InsIns ==
  ASSUME NEW x \in Line, NEW c \in 0..Len(x), NEW s \in Line, NEW t \in Line
  PROVE  /\ Ins(Ins(x, c, s), c + Len(s), t) = Ins(x, c, s \o t)
         /\ Ins(Ins(x, c, s), c, t) = Ins(x, c, t \o s)
         /\ s \o t \in Line /\ Len(s \o t) = Len(s) + Len(t)
         /\ c + Len(s) \in 0..Len(Ins(x, c, s)) /\ c \in 0..Len(Ins(x, c, s))
<1> DEFINE a == Take(x, c)
           b == Drop(x, c)
           w == Ins(x, c, s)
<1>1. x \in Seq(Chars) /\ s \in Seq(Chars) /\ t \in Seq(Chars) /\ Len(x) \in Nat /\ Len(s) \in Nat
  BY DEF Line
<1>2. a \in Seq(Chars) /\ b \in Seq(Chars)
  BY <1>1, TakeIs, DropIs
<1>3. /\ Take(w, c) = a /\ Drop(w, c) = s \o b /\ Take(w, c + Len(s)) = a \o s
      /\ Drop(w, c + Len(s)) = b /\ Len(w) = Len(x) + Len(s)
  <2>1. x \in Line /\ c \in 0..Len(x) /\ s \in Line
    OBVIOUS
  <2>2. InsParts(Ins(x, c, s), x, c, s)
    BY ONLY <2>1, InsIs
  <2> QED BY ONLY <2>2 DEF InsParts
<1> HIDE DEF a, b, w
<1>4. a \o s \in Seq(Chars) /\ a \o t \in Seq(Chars)
  BY ONLY <1>1, <1>2, CatIs
<1>5. s \o t \in Seq(Chars) /\ Len(s \o t) = Len(s) + Len(t)
  BY ONLY <1>1, CatIs
<1>6. (a \o s) \o t = a \o (s \o t)
  <2>1. a \in Seq(Chars) /\ s \in Seq(Chars) /\ t \in Seq(Chars)
    BY <1>1, <1>2
  <2> QED BY ONLY <2>1, CatAssoc
<1>7. (a \o t) \o (s \o b) = ((a \o t) \o s) \o b
  <2> DEFINE z == a \o t
  <2>1. z \in Seq(Chars) /\ s \in Seq(Chars) /\ b \in Seq(Chars)
    BY <1>1, <1>2, <1>4
  <2> HIDE DEF z
  <2>2. (z \o s) \o b = z \o (s \o b)
    BY ONLY <2>1, CatAssoc
  <2> QED BY <2>2 DEF z
<1>8. (a \o t) \o s = a \o (t \o s)
  <2>1. a \in Seq(Chars) /\ t \in Seq(Chars) /\ s \in Seq(Chars)
    BY <1>1, <1>2
  <2> QED BY ONLY <2>1, CatAssoc
<1>9. Ins(w, c + Len(s), t) = Ins(x, c, s \o t)
  BY <1>3, <1>6 DEF Ins, a, b
<1>10. Ins(w, c, t) = Ins(x, c, t \o s)
  BY <1>3, <1>7, <1>8 DEF Ins, a, b
<1>11. c + Len(s) \in 0..Len(w) /\ c \in 0..Len(w)
  BY <1>1, <1>3
<1> QED BY <1>5, <1>9, <1>10, <1>11 DEF w, Line

\* Text without line end put into a document, or cut out, changes one line.
LEMMA PutLine ==
  ASSUME NEW d, IsDoc(d), NEW l \in 1..Len(d), NEW c \in 0..Len(d[l]), NEW s \in Line
  PROVE  Put(d, l, c, <<s>>) = WithLine(d, l, Clipped(Ins(d[l], c, s)))
<1> DEFINE x == d[l]
           t == <<s>>
           y == Clipped(Ins(x, c, s))
           f == Fitted(x, c, t)
<1>1. d \in Seq(Line) /\ x \in Line /\ c \in 0..Len(x)
  BY DocIs
<1>2. t \in Text /\ Len(t) = 1 /\ t[1] = s
  BY DEF Text
<1>3. Ins(x, c, s) \in Line
  BY <1>1, InsIs DEF InsParts
<1>4. y \in Line
  BY <1>3, ClippedIs
<1> HIDE DEF x, t
<1>5. Pieces(x, c, t)[1] = Ins(x, c, s)
  BY <1>1, <1>2, PiecesIs DEF Ins
<1>6. f \in Seq(Line) /\ Len(f) = 1 /\ f[1] = y
  <2>1. f \in Seq(Line) /\ Len(f) = Len(t) /\ \A i \in 1..Len(t) : f[i] = Clipped(Pieces(x, c, t)[i])
    BY <1>1, <1>2, FittedIs
  <2> QED BY <1>2, <1>5, <2>1
<1> HIDE DEF f, y
<1>7. f = <<y>>
  BY <1>4, <1>6
<1>8. Put(d, l, c, t) = Take(d, l - 1) \o f \o Drop(d, l)
  BY PutAs DEF f, x
<1>9. Take(d, l - 1) \o <<y>> \o Drop(d, l) = WithLine(d, l, y)
  <2>1. d \in Seq(Line) /\ l \in 1..Len(d) /\ y \in Line
    BY <1>1, <1>4
  <2> QED BY ONLY <2>1, SetLine
<1>10. Put(d, l, c, t) = WithLine(d, l, y)
  BY <1>7, <1>8, <1>9
<1> QED BY <1>10 DEF t, y, x

LEMMA CutLine ==
  ASSUME NEW d, IsDoc(d), NEW r, In(d, r), OneLine(r)
  PROVE  Cut(d, r) = WithLine(d, r.l0, Merged(d, r))
<1> DEFINE l == r.l0
           y == Merged(d, r)
<1>1. d \in Seq(Line) /\ l \in 1..Len(d) /\ y \in Line
  BY DocIs, InIs, MergedIs
<1>2. Cut(d, r) = Take(d, l - 1) \o <<y>> \o Drop(d, l)
  BY DEF Cut, Merged, OneLine
<1> HIDE DEF l, y
<1>3. Take(d, l - 1) \o <<y>> \o Drop(d, l) = WithLine(d, l, y)
  BY ONLY <1>1, SetLine
<1> QED BY <1>2, <1>3 DEF l, y

\* What OneIns says of the documents.
LEMMA OneInsIs ==
  ASSUME NEW d, NEW l, NEW c, NEW s, NEW e, OneIns(d, l, c, s, e)
  PROVE  /\ d[l] \in Line /\ e[l] = Ins(d[l], c, s) /\ Len(e) = Len(d) /\ l \in 1..Len(e)
         /\ InsParts(e[l], d[l], c, s) /\ d = WithLine(e, l, d[l])
         /\ \A j \in 1..Len(d) : j # l => e[j] = d[j]
         /\ l \in Nat /\ c \in Nat /\ Len(s) \in Nat /\ c + Len(s) \in 0..Len(e[l]) /\ c \in 0..Len(e[l])
         /\ d \in Seq(Line) /\ e \in Seq(Line)
<1>1. /\ IsDoc(d) /\ IsDoc(e) /\ l \in 1..Len(d) /\ c \in 0..Len(d[l]) /\ s \in Line
      /\ e = WithLine(d, l, Ins(d[l], c, s))
  BY DEF OneIns
<1>2. d \in Seq(Line) /\ e \in Seq(Line) /\ d[l] \in Line /\ l \in Nat /\ Len(d[l]) \in Nat
  BY <1>1, DocIs
<1>3. InsParts(Ins(d[l], c, s), d[l], c, s)
  BY <1>1, <1>2, InsIs
<1>4. Ins(d[l], c, s) \in Line
  BY <1>3 DEF InsParts
<1>5. /\ e[l] = Ins(d[l], c, s) /\ Len(e) = Len(d)
      /\ \A j \in 1..Len(d) : j # l => e[j] = d[j]
      /\ WithLine(e, l, d[l]) = WithLine(d, l, d[l])
  BY <1>1, <1>4, WithLineIs
<1>6. WithLine(d, l, d[l]) = d
  BY <1>1, <1>2, WithLineIs
<1>7. Len(e[l]) = Len(d[l]) + Len(s) /\ Len(s) \in Nat
  BY <1>1, <1>3, <1>5 DEF InsParts, Line
<1>8. c \in Nat /\ c + Len(s) \in 0..Len(e[l]) /\ c \in 0..Len(e[l])
  BY <1>1, <1>2, <1>7
<1> QED BY <1>1, <1>2, <1>3, <1>5, <1>6, <1>7, <1>8

\* The range of text s in line l; taking the text out again, and putting it
\* back.
Span(l, c, s) == Rng(l, c, l, c + Len(s))
Spans(d, l, c, s, e) ==
  In(e, Span(l, c, s)) /\ OneLine(Span(l, c, s)) /\ Cut(e, Span(l, c, s)) = d

LEMMA OneInsUndo ==
  ASSUME NEW d, NEW l, NEW c, NEW s, NEW e, OneIns(d, l, c, s, e)
  PROVE  Spans(d, l, c, s, e) /\ Put(d, l, c, <<s>>) = e
<1> DEFINE r == Rng(l, c, l, c + Len(s))
<1>1. /\ IsDoc(d) /\ IsDoc(e) /\ l \in 1..Len(d) /\ c \in 0..Len(d[l]) /\ s \in Line
      /\ e = WithLine(d, l, Ins(d[l], c, s))
  BY DEF OneIns
<1>2. /\ d[l] \in Line /\ e[l] = Ins(d[l], c, s) /\ l \in 1..Len(e)
      /\ InsParts(e[l], d[l], c, s) /\ d = WithLine(e, l, d[l])
      /\ l \in Nat /\ c \in Nat /\ Len(s) \in Nat /\ c + Len(s) \in 0..Len(e[l]) /\ c \in 0..Len(e[l])
  BY OneInsIs
<1>3. r.l0 = l /\ r.c0 = c /\ r.l1 = l /\ r.c1 = c + Len(s) /\ r \in Range4
  BY <1>2 DEF Rng, Range4
<1>4. In(e, r)
  BY <1>2, <1>3 DEF In
<1>5. Merged(e, r) = d[l]
  <2>1. Take(e[l], c) = Take(d[l], c) /\ Drop(e[l], c + Len(s)) = Drop(d[l], c)
    BY <1>2 DEF InsParts
  <2>2. Take(d[l], c) \o Drop(d[l], c) = d[l]
    <3>1. d[l] \in Seq(Chars) /\ c \in 0..Len(d[l])
      BY <1>1, <1>2 DEF Line
    <3> QED BY ONLY <3>1, TakeDrop
  <2> HIDE DEF r
  <2> QED BY <1>3, <2>1, <2>2 DEF Merged
<1>6. OneLine(r)
  BY <1>3 DEF OneLine
<1>7. Cut(e, r) = WithLine(e, l, d[l])
  <2> HIDE DEF r
  <2>1. Cut(e, r) = WithLine(e, r.l0, Merged(e, r))
    BY <1>1, <1>4, <1>6, CutLine
  <2> QED BY <1>3, <1>5, <2>1
<1>8. Len(e[l]) <= MaxLin /\ e[l] \in Line
  BY <1>1, <1>2, DocIs
<1>9. Clipped(Ins(d[l], c, s)) = Ins(d[l], c, s)
  BY <1>2, <1>8, ClippedIs
<1>10. Put(d, l, c, <<s>>) = e
  BY <1>1, <1>9, PutLine
<1>11. Span(l, c, s) = r
  BY DEF Span
<1> QED BY <1>2, <1>4, <1>6, <1>7, <1>10, <1>11 DEF Spans

\* Edits that insert or cut within a line.
LEMMA PutOne ==
  ASSUME NEW d, IsDoc(d), NEW l \in 1..Len(d), NEW c \in 0..Len(d[l]), NEW s \in Line,
         Fits(d, l, c, <<s>>)
  PROVE  OneIns(d, l, c, s, Put(d, l, c, <<s>>))
<1> DEFINE y == Ins(d[l], c, s)
<1>1. d[l] \in Line
  BY DocIs
<1>2. y \in Line /\ Len(y) = Len(d[l]) + Len(s)
  BY <1>1, InsIs DEF InsParts
<1>3. Len(d[l]) + Len(s) <= MaxLin
  BY DEF Fits
<1> HIDE DEF y
<1>4. Clipped(y) = y
  BY <1>2, <1>3, ClippedIs
<1>5. Put(d, l, c, <<s>>) = WithLine(d, l, y)
  BY <1>4, PutLine DEF y
<1>6. IsDoc(WithLine(d, l, y))
  BY <1>2, <1>3, WithLineIs
<1> QED BY <1>5, <1>6 DEF OneIns, y

LEMMA CutOne ==
  ASSUME NEW e, IsDoc(e), NEW r, In(e, r), OneLine(r)
  PROVE  OneIns(Cut(e, r), r.l0, r.c0, SubSeq(e[r.l0], r.c0 + 1, r.c1), e)
<1> DEFINE l == r.l0
           c == r.c0
           d == Cut(e, r)
           x == e[l]
           s == SubSeq(x, c + 1, r.c1)
           y == Merged(e, r)
<1>1. /\ l \in 1..Len(e) /\ c \in Nat /\ r.c1 \in Nat /\ c <= r.c1 /\ r.c1 <= Len(x) /\ x \in Seq(Chars)
      /\ l = r.l1
  BY InIs DEF OneLine
<1>2. s \in Line
  BY <1>1, SubIs DEF Line
<1>3. y \in Line /\ Take(y, c) = Take(x, c) /\ Drop(y, c) = Drop(x, r.c1) /\ Len(y) = c + (Len(x) - r.c1)
  BY <1>1, MergedIs
<1>4. IsDoc(d)
  BY CutDoc
<1>5. d = WithLine(e, l, y)
  BY CutLine
<1> HIDE DEF d, y, x, c
<1>6. d[l] = y /\ Len(d) = Len(e) /\ WithLine(d, l, x) = WithLine(e, l, x)
  BY <1>1, <1>3, <1>5, WithLineIs
<1>7. WithLine(e, l, x) = e
  BY <1>1, <1>3, WithLineIs DEF x
<1>8. Ins(y, c, s) = x
  <2>1. Take(x, c) \o s \o Drop(x, r.c1) = x
    BY <1>1, TakeSubDrop
  <2> QED BY <1>3, <2>1 DEF Ins
<1>9. c \in 0..Len(d[l])
  <2>1. Len(x) \in Nat
    BY <1>1
  <2> QED BY <1>1, <1>3, <1>6, <2>1
<1> QED BY <1>1, <1>2, <1>4, <1>6, <1>7, <1>8, <1>9 DEF OneIns, d, c, x

\* Insertions next to each other are one.
LEMMA JoinIns ==
  ASSUME NEW d, NEW l, NEW c, NEW s, NEW e, NEW t, NEW f, OneIns(d, l, c, s, e)
  PROVE  /\ OneIns(e, l, c + Len(s), t, f) => OneIns(d, l, c, s \o t, f) /\ Len(s \o t) = Len(s) + Len(t)
         /\ OneIns(e, l, c, t, f) => OneIns(d, l, c, t \o s, f)
<1>1. /\ IsDoc(d) /\ IsDoc(e) /\ l \in 1..Len(d) /\ c \in 0..Len(d[l]) /\ s \in Line
      /\ e = WithLine(d, l, Ins(d[l], c, s))
  BY DEF OneIns
<1>2. /\ d[l] \in Line /\ e[l] = Ins(d[l], c, s) /\ e[l] \in Line
  BY OneInsIs DEF InsParts
<1>3. Ins(d[l], c, s) \in Line
  BY <1>2
<1>4. \A y : WithLine(e, l, y) = WithLine(d, l, y)
  BY <1>1, <1>3, WithLineIs
<1>5. ASSUME t \in Line
      PROVE  /\ Ins(e[l], c + Len(s), t) = Ins(d[l], c, s \o t)
             /\ Ins(e[l], c, t) = Ins(d[l], c, t \o s)
             /\ s \o t \in Line /\ t \o s \in Line /\ Len(s \o t) = Len(s) + Len(t)
  <2>1. d[l] \in Line /\ c \in 0..Len(d[l]) /\ s \in Line /\ t \in Line
    BY <1>1, <1>2, <1>5
  <2>2. /\ Ins(Ins(d[l], c, s), c + Len(s), t) = Ins(d[l], c, s \o t)
        /\ Ins(Ins(d[l], c, s), c, t) = Ins(d[l], c, t \o s)
        /\ s \o t \in Line /\ Len(s \o t) = Len(s) + Len(t)
    BY <2>1, InsIns
  <2>3. t \o s \in Line
    BY <2>1, CatIs DEF Line
  <2> QED BY <1>2, <2>2, <2>3
<1>6. ASSUME OneIns(e, l, c + Len(s), t, f)
      PROVE  OneIns(d, l, c, s \o t, f) /\ Len(s \o t) = Len(s) + Len(t)
  <2>1. t \in Line /\ IsDoc(f) /\ f = WithLine(e, l, Ins(e[l], c + Len(s), t))
    BY <1>6 DEF OneIns
  <2> QED BY <1>1, <1>4, <1>5, <2>1 DEF OneIns
<1>7. ASSUME OneIns(e, l, c, t, f) PROVE OneIns(d, l, c, t \o s, f)
  <2>1. t \in Line /\ IsDoc(f) /\ f = WithLine(e, l, Ins(e[l], c, t))
    BY <1>7 DEF OneIns
  <2> QED BY <1>1, <1>4, <1>5, <2>1 DEF OneIns
<1> QED BY <1>6, <1>7

\* e is d with s put over as many characters old of line l, from c on.
Over(d, l, c, s, old, e) ==
  /\ IsDoc(d) /\ IsDoc(e) /\ l \in 1..Len(d) /\ l \in 1..Len(e)
  /\ e = Overwrite(d, l, c, s) /\ d = Overwrite(e, l, c, old)
  /\ e = WithLine(d, l, e[l]) /\ d = WithLine(e, l, d[l])

LEMMA OverwriteIs ==
  ASSUME NEW d, IsDoc(d), NEW l \in 1..Len(d), NEW c \in Nat, NEW s \in Line, c + Len(s) <= Len(d[l])
  PROVE  Over(d, l, c, s, SubSeq(d[l], c + 1, c + Len(s)), Overwrite(d, l, c, s))
<1> DEFINE x == d[l]
           a == Take(x, c)
           b == Drop(x, c + Len(s))
           old == SubSeq(x, c + 1, c + Len(s))
           y == a \o s \o b
           e == Overwrite(d, l, c, s)
<1>1. x \in Seq(Chars) /\ x \in Line /\ s \in Seq(Chars) /\ Len(x) \in Nat /\ Len(s) \in Nat /\ Len(x) <= MaxLin
  BY DocIs DEF Line
<1>2. c \in 0..Len(x) /\ c + Len(s) \in 0..Len(x) /\ c + Len(s) \in Nat /\ c <= c + Len(s)
  BY <1>1
<1>3. a \in Seq(Chars) /\ Len(a) = c /\ b \in Seq(Chars) /\ Len(b) = Len(x) - (c + Len(s))
  BY <1>1, <1>2, TakeIs, DropIs
<1>4. old \in Seq(Chars) /\ Len(old) = c + Len(s) - c
  <2>1. x \in Seq(Chars) /\ c \in Nat /\ c + Len(s) \in Nat /\ c <= c + Len(s) /\ c + Len(s) <= Len(x)
    BY <1>1, <1>2
  <2> HIDE DEF x
  <2> QED BY ONLY <2>1, SubIs
<1>5. a \o old \o b = x
  <2>1. x \in Seq(Chars) /\ c \in Nat /\ c + Len(s) \in Nat /\ c <= c + Len(s) /\ c + Len(s) <= Len(x)
    BY <1>1, <1>2
  <2> HIDE DEF x
  <2> QED BY ONLY <2>1, TakeSubDrop
<1> HIDE DEF a, b, x, old
<1>6. Row3(Chars, y, a, s, b)
  BY ONLY <1>1, <1>3, Row3Is
<1> HIDE DEF y
<1>7. /\ y \in Seq(Chars) /\ Len(y) = Len(a) + Len(s) + Len(b)
      /\ Take(y, Len(a)) = a /\ Drop(y, Len(a) + Len(s)) = b
  BY <1>6 DEF Row3
<1>8. Len(y) = Len(x) /\ y \in Line
  BY <1>1, <1>3, <1>7 DEF Line
<1>9. Len(old) = Len(s)
  BY <1>1, <1>2, <1>4
<1>10. (IF c + Len(s) < Len(x) THEN b ELSE << >>) = b
  <2>1. CASE c + Len(s) < Len(x)
    BY <2>1
  <2>2. CASE ~(c + Len(s) < Len(x))
    <3>1. Len(b) = 0
      <4>1. Len(b) = Len(x) - (c + Len(s)) /\ Len(x) \in Nat /\ Len(s) \in Nat /\ c + Len(s) <= Len(x) /\ c \in Nat
        BY <1>1, <1>2, <1>3
      <4> HIDE DEF x
      <4> QED BY ONLY <2>2, <4>1
    <3> QED BY <1>3, <2>2, <3>1
  <2> QED BY <2>1, <2>2
<1>11. e = WithLine(d, l, y)
  <2>1. e = [d EXCEPT ![l] = a \o s \o (IF c + Len(s) < Len(x) THEN b ELSE << >>)]
    BY DEF Overwrite, e, x, a, b
  <2> HIDE DEF e
  <2> QED BY <1>10, <2>1 DEF WithLine, y
<1> HIDE DEF e
<1>12. /\ IsDoc(e) /\ e[l] = y /\ Len(e) = Len(d)
       /\ \A z : WithLine(e, l, z) = WithLine(d, l, z)
  BY <1>1, <1>8, <1>11, WithLineIs
<1>13. WithLine(d, l, x) = d
  BY <1>1, WithLineIs DEF x
<1>14. Overwrite(e, l, c, old) = d
  <2>1. /\ Take(e[l], c) = a /\ Drop(e[l], c + Len(old)) = b
        /\ c + Len(old) < Len(e[l]) <=> c + Len(s) < Len(x)
    BY <1>3, <1>7, <1>8, <1>9, <1>12
  <2>2. Overwrite(e, l, c, old)
          = WithLine(e, l, Take(e[l], c) \o old \o (IF c + Len(old) < Len(e[l]) THEN Drop(e[l], c + Len(old)) ELSE << >>))
    BY DEF Overwrite, WithLine
  <2>3. Overwrite(e, l, c, old) = WithLine(e, l, a \o old \o b)
    BY <1>10, <2>1, <2>2
  <2> QED BY <1>5, <1>12, <1>13, <2>3
<1>15. e = WithLine(d, l, e[l]) /\ d = WithLine(e, l, d[l]) /\ l \in 1..Len(e)
  BY <1>11, <1>12, <1>13 DEF x
<1>16. Over(d, l, c, s, old, e)
  BY <1>12, <1>14, <1>15 DEF Over, e
<1> QED BY <1>16 DEF old, e, x

\* What Overtype keeps of the line is all of it that is replaced.
LEMMA OldText ==
  ASSUME NEW x \in Line, NEW c \in Nat, NEW s \in Line, c + Len(s) <= Len(x)
  PROVE  /\ SubSeq(x \o [i \in 1..Len(s) |-> Garbage], c + 1, c + Len(s)) = SubSeq(x, c + 1, c + Len(s))
         /\ SubSeq(x, c + 1, c + Len(s)) \in Line
<1> DEFINE S == Chars \cup {Garbage}
           g == [i \in 1..Len(s) |-> Garbage]
           w == x \o g
           n == c + Len(s)
           u == SubSeq(w, c + 1, n)
           v == SubSeq(x, c + 1, n)
<1>1. x \in Seq(S) /\ x \in Seq(Chars) /\ Len(x) \in Nat /\ Len(s) \in Nat
  BY DEF Line
<1>2. g \in Seq(S) /\ Len(g) = Len(s)
  BY <1>1
<1> HIDE DEF S, g
<1>3. w \in Seq(S) /\ Len(w) = Len(x) + Len(g) /\ \A i \in 1..Len(x) : w[i] = x[i]
  BY ONLY <1>1, <1>2, CatIs
<1> HIDE DEF w
<1>4. c \in Nat /\ n \in Nat /\ c <= n /\ n <= Len(x) /\ n <= Len(w)
  BY <1>1, <1>2, <1>3
<1> HIDE DEF n
<1>5. u \in Seq(S) /\ Len(u) = n - c /\ \A i \in 1..(n - c) : u[i] = w[c + i]
  BY ONLY <1>3, <1>4, SubIs
<1>6. v \in Seq(S) /\ Len(v) = n - c /\ \A i \in 1..(n - c) : v[i] = x[c + i]
  BY ONLY <1>1, <1>4, SubIs
<1>7. v \in Seq(Chars)
  BY ONLY <1>1, <1>4, SubIs
<1> HIDE DEF u, v
<1>8. \A i \in 1..Len(u) : u[i] = v[i]
  <2> SUFFICES ASSUME NEW i \in 1..Len(u) PROVE u[i] = v[i]
    OBVIOUS
  <2> DEFINE k == c + i
  <2>1. k \in 1..Len(x) /\ i \in 1..(n - c)
    BY <1>1, <1>4, <1>5
  <2>2. u[i] = w[k] /\ v[i] = x[k]
    BY <1>5, <1>6, <2>1
  <2> HIDE DEF k
  <2> QED BY <1>3, <2>1, <2>2
<1>9. u = v
  BY ONLY <1>5, <1>6, <1>8, SeqSame
<1> QED BY <1>7, <1>9 DEF u, v, w, g, n, Line

-----------------------------------------------------------------------------
(* Greatest elements, and the size of a text.                              *)

LEMMA LeastNumber ==
  ASSUME NEW T, T \subseteq Nat, T # {}
  PROVE  \E x \in T : \A y \in T : ~(y < x)
<1> DEFINE R == OpToRel(<, Nat)
<1>1. R = {ss \in Nat \X Nat : ss[1] < ss[2]}
  BY Zenon DEF OpToRel
<1>2. IsWellFoundedOn(R, Nat)
  BY NatLessThanWellFounded, Zenon
<1> HIDE DEF R
<1>3. \E x \in T : \A y \in T : ~(<<y, x>> \in R)
  BY <1>2, WFMin
<1>4. \A x, y \in T : y < x => <<y, x>> \in R
  BY <1>1
<1> QED BY <1>3, <1>4

LEMMA MaxIs ==
  ASSUME NEW n \in Nat, NEW S, S \subseteq 0..n, S # {}
  PROVE  Max(S) \in S /\ \A y \in S : y <= Max(S)
<1> DEFINE T == {m \in Nat : \A y \in S : y <= m}
<1>1. n \in T /\ T \subseteq Nat
  OBVIOUS
<1>2. PICK m \in T : \A j \in T : ~(j < m)
  BY <1>1, LeastNumber
<1>3. m \in S
  <2> SUFFICES ASSUME m \notin S PROVE FALSE
    OBVIOUS
  <2>1. PICK y : y \in S
    OBVIOUS
  <2>2. y \in Nat /\ y <= m /\ y # m
    BY <2>1
  <2>3. m - 1 \in Nat
    BY <2>2
  <2>4. \A z \in S : z <= m - 1
    <3> SUFFICES ASSUME NEW z \in S PROVE z <= m - 1
      OBVIOUS
    <3>1. z \in Nat /\ z <= m /\ z # m
      OBVIOUS
    <3> QED BY <3>1
  <2>5. m - 1 \in T
    BY <2>3, <2>4
  <2> QED BY <1>2, <2>5
<1>4. \A y \in S : m >= y
  BY <1>2
<1> HIDE DEF T
<1>5. Max(S) \in S /\ \A y \in S : Max(S) >= y
  <2>1. \E x \in S : \A y \in S : x >= y
    BY <1>3, <1>4
  <2> QED BY <2>1, Zenon DEF Max
<1>6. Max(S) \in 0..n /\ \A y \in S : y \in 0..n
  BY <1>5
<1> QED BY <1>5, <1>6

LEMMA TrimmedLenIs ==
  ASSUME NEW s \in Line
  PROVE  TrimmedLen(s) \in 0..Len(s)
<1> DEFINE S == {0} \cup {i \in DOMAIN s : ~IsWS(s[i])}
<1>1. Len(s) \in Nat /\ DOMAIN s = 1..Len(s)
  BY DEF Line
<1>2. S \subseteq 0..Len(s) /\ S # {}
  BY <1>1
<1> HIDE DEF S
<1>3. Max(S) \in S
  BY <1>1, <1>2, MaxIs
<1> QED BY <1>2, <1>3 DEF TrimmedLen, S

\* The size of the pieces s of text t, g being that of fewer pieces.
SizeFrom(t, g, s) == IF s = {} THEN -2 ELSE g[s \ {Max(s)}] + Len(t[Max(s)]) + 2

LEMMA SizesExist ==
  ASSUME NEW n \in Nat, NEW t
  PROVE  \E g : g = [s \in SUBSET (1..n) |-> SizeFrom(t, g, s)]
<1> DEFINE D(k) == {s \in SUBSET (1..n) : s \subseteq 1..k}
           Good(k) == \E g : g = [s \in D(k) |-> SizeFrom(t, g, s)]
           Bad == {k \in Nat : ~Good(k)}
<1>1. ASSUME NEW k \in Nat, NEW s \in D(k), s # {}
      PROVE  Max(s) \in s /\ \A y \in s : y <= Max(s)
  <2>1. s \subseteq 0..n
    OBVIOUS
  <2> HIDE DEF D
  <2> QED BY ONLY <1>1, <2>1, n \in Nat, MaxIs
<1>2. Good(0)
  <2>1. \A s \in D(0) : s = {}
    OBVIOUS
  <2> DEFINE g == [s \in D(0) |-> -2]
  <2>2. g = [s \in D(0) |-> SizeFrom(t, g, s)]
    BY <2>1 DEF SizeFrom
  <2> HIDE DEF g
  <2> QED BY <2>2
<1>3. ASSUME NEW k \in Nat, Good(k) PROVE Good(k + 1)
  <2>1. PICK g : g = [s \in D(k) |-> SizeFrom(t, g, s)]
    BY <1>3
  <2> DEFINE h == [s \in D(k + 1) |-> SizeFrom(t, g, s)]
  <2>2. \A s \in D(k) : s \in D(k + 1) /\ h[s] = g[s]
    <3>1. \A s \in D(k) : s \in D(k + 1)
      OBVIOUS
    <3>2. \A s \in D(k) : g[s] = SizeFrom(t, g, s)
      BY <2>1
    <3> HIDE DEF D
    <3> QED BY <3>1, <3>2
  <2>3. ASSUME NEW s \in D(k + 1) PROVE SizeFrom(t, h, s) = SizeFrom(t, g, s)
    <3>1. CASE s = {}
      BY <3>1 DEF SizeFrom
    <3>2. CASE s # {}
      <4> DEFINE x == Max(s)
      <4>1. x \in s /\ \A y \in s : y <= x
        <5>1. k + 1 \in Nat
          OBVIOUS
        <5> HIDE DEF D
        <5> QED BY ONLY <1>1, <2>3, <3>2, <5>1
      <4> HIDE DEF x
      <4>2. s \ {x} \in D(k)
        <5>1. \A y \in s : y \in Nat /\ y >= 1 /\ y <= k + 1
          OBVIOUS
        <5>2. \A y \in s \ {x} : y \in 1..k
          <6> SUFFICES ASSUME NEW y \in s, y # x PROVE y \in 1..k
            OBVIOUS
          <6>1. y \in Nat /\ y >= 1 /\ y <= x /\ x \in Nat /\ x <= k + 1
            BY <4>1, <5>1
          <6> QED BY <6>1
        <5>3. s \ {x} \in SUBSET (1..n)
          OBVIOUS
        <5> QED BY <5>2, <5>3
      <4>3. h[s \ {x}] = g[s \ {x}]
        BY <2>2, <4>2
      <4> HIDE DEF h
      <4> QED BY <4>3 DEF SizeFrom, x
    <3> QED BY <3>1, <3>2
  <2>4. h = [s \in D(k + 1) |-> SizeFrom(t, h, s)]
    <3> DEFINE j == [s \in D(k + 1) |-> SizeFrom(t, h, s)]
    <3>1. \A s \in D(k + 1) : j[s] = h[s]
      <4> HIDE DEF D
      <4> QED BY <2>3
    <3> HIDE DEF D
    <3> QED BY <3>1
  <2> HIDE DEF h
  <2> QED BY <2>4
<1>4. Bad = {}
  <2> HIDE DEF Good
  <2> SUFFICES ASSUME Bad # {} PROVE FALSE
    OBVIOUS
  <2>1. PICK k \in Bad : \A j \in Bad : ~(j < k)
    BY LeastNumber
  <2>2. k # 0
    BY <1>2
  <2>3. k - 1 \in Nat /\ k - 1 \notin Bad /\ (k - 1) + 1 = k
    BY <2>1, <2>2
  <2>4. Good((k - 1) + 1)
    BY <1>3, <2>3
  <2> QED BY <2>3, <2>4
<1>5. D(n) = SUBSET (1..n)
  OBVIOUS
<1>6. Good(n)
  BY <1>4
<1> HIDE DEF D
<1> QED BY <1>5, <1>6

\* A text of size 0 or less is the empty piece.
LEMMA SizeIs ==
  ASSUME NEW t \in Text
  PROVE  SizeOf(t) \in Int /\ (SizeOf(t) <= 0 => t = <<<<>>>>)
<1> DEFINE n == Len(t)
           G(g) == g = [s \in SUBSET (1..n) |-> SizeFrom(t, g, s)]
           g == CHOOSE g : G(g)
<1>1. n \in Nat \ {0} /\ DOMAIN t = 1..n /\ \A i \in 1..n : Len(t[i]) \in Nat /\ t[i] \in Seq(Chars)
  BY TextParts
<1>2. SizeOf(t) = g[1..n]
  BY <1>1 DEF SizeOf, FoldLeft, MapThenFoldSet, SizeFrom
<1>3. \E f : G(f)
  BY <1>1, SizesExist
<1>4. G(g)
  BY <1>3
<1> HIDE DEF g, n
<1>5. \A s \in SUBSET (1..n) : g[s] = SizeFrom(t, g, s)
  BY <1>4
<1> DEFINE P(k) == k <= n =>
             /\ g[1..k] \in Int /\ g[1..k] >= 2 * k - 2
             /\ k >= 1 => g[1..k] >= 2 * k - 2 + Len(t[k])
<1> HIDE DEF G
<1>6. P(0)
  <2>1. 1..0 = {} /\ 1..0 \in SUBSET (1..n)
    OBVIOUS
  <2>2. g[1..0] = SizeFrom(t, g, 1..0)
    BY <1>5, <2>1
  <2>3. g[1..0] = -2
    BY <2>1, <2>2 DEF SizeFrom
  <2> QED BY ONLY <2>3
<1>7. ASSUME NEW k \in Nat, P(k) PROVE P(k + 1)
  <2> SUFFICES ASSUME k + 1 <= n
               PROVE  /\ g[1..(k + 1)] \in Int /\ g[1..(k + 1)] >= 2 * (k + 1) - 2
                      /\ g[1..(k + 1)] >= 2 * (k + 1) - 2 + Len(t[k + 1])
    OBVIOUS
  <2> DEFINE s == 1..(k + 1)
  <2>0. n \in Nat /\ k \in Nat /\ k + 1 <= n
    BY <1>1
  <2>1. s \in SUBSET (1..n) /\ s # {} /\ s \subseteq 0..n /\ k + 1 \in s /\ k + 1 \in 1..n
    BY ONLY <2>0
  <2>2. Max(s) \in s /\ \A y \in s : y <= Max(s)
    <3> HIDE DEF s
    <3> QED BY <1>1, <2>1, MaxIs
  <2>3. Max(s) = k + 1
    BY <2>1, <2>2
  <2>4. s \ {k + 1} = 1..k
    OBVIOUS
  <2>5. g[s] = g[1..k] + Len(t[k + 1]) + 2
    <3> HIDE DEF s
    <3> QED BY <1>5, <2>1, <2>3, <2>4 DEF SizeFrom
  <2>6. Len(t[k + 1]) \in Nat
    BY <1>1, <2>1
  <2>7. g[1..k] \in Int /\ g[1..k] >= 2 * k - 2
    <3>1. k <= n
      BY ONLY <2>0
    <3> QED BY <1>7, <3>1
  <2> DEFINE a == g[1..k]
             b == g[s]
             m == Len(t[k + 1])
  <2>8. b = a + m + 2 /\ m \in Nat /\ a \in Int /\ a >= 2 * k - 2
    BY <2>5, <2>6, <2>7
  <2> HIDE DEF a, b, m
  <2>9. b \in Int /\ b >= 2 * (k + 1) - 2 /\ b >= 2 * (k + 1) - 2 + m
    BY ONLY <2>0, <2>8
  <2> QED BY <2>9 DEF b, m
<1> DEFINE Bad == {k \in Nat : ~P(k)}
<1>8. Bad = {}
  <2> HIDE DEF P
  <2> SUFFICES ASSUME Bad # {} PROVE FALSE
    OBVIOUS
  <2>1. PICK k \in Bad : \A j \in Bad : ~(j < k)
    BY LeastNumber
  <2>2. k # 0
    BY <1>6
  <2>3. k - 1 \in Nat /\ k - 1 \notin Bad /\ (k - 1) + 1 = k
    BY <2>1, <2>2
  <2>4. P((k - 1) + 1)
    BY <1>7, <2>3
  <2> QED BY <2>3, <2>4
<1>9. P(n)
  BY <1>1, <1>8
<1>10. g[1..n] \in Int /\ g[1..n] >= 2 * n - 2 + Len(t[n]) /\ Len(t[n]) \in Nat
  <2>1. n \in Nat /\ n <= n /\ n >= 1 /\ n \in 1..n
    <3>1. n \in Nat \ {0}
      BY <1>1
    <3> QED BY ONLY <3>1
  <2>2. g[1..n] \in Int /\ g[1..n] >= 2 * n - 2 + Len(t[n])
    BY <1>9, <2>1
  <2> QED BY <1>1, <2>1, <2>2
<1>11. ASSUME g[1..n] <= 0 PROVE t = <<<<>>>>
  <2>1. n = 1 /\ Len(t[n]) = 0
    <3> DEFINE u == g[1..n]
               w == Len(t[n])
    <3>1. n \in Nat \ {0} /\ u \in Int /\ w \in Nat /\ u >= 2 * n - 2 + w /\ u <= 0
      BY ONLY <1>1, <1>10, <1>11
    <3> HIDE DEF u, w
    <3>2. n = 1 /\ w = 0
      BY ONLY <3>1
    <3> QED BY <3>2 DEF w
  <2>2. t[1] = << >>
    BY <1>1, <2>1
  <2>3. t \in Seq(Line) /\ Len(t) = 1
    BY <2>1, TextParts DEF n
  <2> QED BY <2>2, <2>3
<1> QED BY <1>2, <1>10, <1>11

-----------------------------------------------------------------------------
(* The items of the history.                                               *)

\* A further deleted character comes first when the text is reversed.
LEMMA ReverseIs ==
  ASSUME NEW s \in Line, NEW ch \in Chars
  PROVE  /\ Append(s, ch) \in Line /\ Len(Append(s, ch)) = Len(s) + 1 /\ Append(s, ch) = s \o <<ch>>
         /\ Reverse(s) \in Line /\ Len(Reverse(s)) = Len(s)
         /\ Reverse(Append(s, ch)) = <<ch>> \o Reverse(s)
         /\ Len(s) = 1 => Reverse(s) = s
<1>1. s \in Seq(Chars) /\ Len(s) \in Nat
  BY DEF Line
<1>2. Append(s, ch) \in Seq(Chars) /\ Len(Append(s, ch)) = Len(s) + 1 /\ Append(s, ch) = s \o <<ch>>
  BY <1>1
<1> DEFINE u == Reverse(s)
           t == Append(s, ch)
           v == Reverse(t)
           w == <<ch>> \o u
<1>3. u \in Seq(Chars) /\ Len(u) = Len(s) /\ \A i \in 1..Len(s) : u[i] = s[Len(s) - i + 1]
  <2>1. \A i \in 1..Len(s) : Len(s) - i + 1 \in 1..Len(s)
    BY <1>1
  <2>2. \A i \in 1..Len(s) : s[Len(s) - i + 1] \in Chars
    BY <1>1, <2>1
  <2> QED BY <1>1, <2>2 DEF Reverse
<1>4. t \in Seq(Chars) /\ Len(t) = Len(s) + 1 /\ t[Len(s) + 1] = ch /\ \A i \in 1..Len(s) : t[i] = s[i]
  BY <1>1
<1> HIDE DEF t
<1>5. v \in Seq(Chars) /\ Len(v) = Len(t) /\ \A i \in 1..Len(t) : v[i] = t[Len(t) - i + 1]
  <2>0. Len(t) \in Nat
    BY <1>1, <1>4
  <2>1. \A i \in 1..Len(t) : Len(t) - i + 1 \in 1..Len(t)
    BY <2>0
  <2>2. \A i \in 1..Len(t) : t[Len(t) - i + 1] \in Chars
    BY <1>4, <2>1
  <2> QED BY <2>0, <2>2 DEF Reverse
<1> HIDE DEF u, v
<1>6. w \in Seq(Chars) /\ Len(w) = 1 + Len(u) /\ w[1] = ch /\ \A i \in 1..Len(u) : w[1 + i] = u[i]
  <2>1. <<ch>> \in Seq(Chars) /\ Len(<<ch>>) = 1 /\ <<ch>>[1] = ch
    OBVIOUS
  <2>2. /\ w \in Seq(Chars) /\ Len(w) = Len(<<ch>>) + Len(u)
        /\ \A i \in 1..Len(<<ch>>) : w[i] = <<ch>>[i]
        /\ \A i \in 1..Len(u) : w[Len(<<ch>>) + i] = u[i]
    BY ONLY <1>3, <2>1, CatIs
  <2> QED BY <2>1, <2>2
<1> HIDE DEF w
<1>7. Len(v) = Len(w) /\ \A i \in 1..Len(v) : v[i] = w[i]
  <2>1. Len(v) = Len(w) /\ Len(v) = Len(s) + 1
    BY <1>1, <1>3, <1>4, <1>5, <1>6
  <2> SUFFICES ASSUME NEW i \in 1..Len(v) PROVE v[i] = w[i]
    BY <2>1
  <2>2. CASE i = 1
    BY <1>1, <1>4, <1>5, <1>6, <2>1, <2>2
  <2>3. CASE i # 1
    <3> DEFINE k == i - 1
               m == Len(s) - k + 1
    <3>1. k \in 1..Len(s) /\ i = 1 + k /\ Len(t) - i + 1 = m /\ m \in 1..Len(s)
      BY <1>1, <1>4, <2>1, <2>3
    <3>2. w[1 + k] = u[k] /\ u[k] = s[m]
      BY <1>3, <1>6, <3>1
    <3> HIDE DEF k, m
    <3>3. v[i] = t[m] /\ t[m] = s[m]
      BY <1>4, <1>5, <3>1, <2>1
    <3> QED BY <3>1, <3>2, <3>3
  <2> QED BY <2>2, <2>3
<1>8. v = w
  BY ONLY <1>5, <1>6, <1>7, SeqSame
<1>9. Len(s) = 1 => u = s
  <2> SUFFICES ASSUME Len(s) = 1 PROVE u = s
    OBVIOUS
  <2>1. u[1] = s[1]
    BY <1>3
  <2>2. Len(u) = Len(s) /\ \A i \in 1..Len(u) : u[i] = s[i]
    BY <1>3, <2>1
  <2> QED BY ONLY <1>1, <1>3, <2>2, SeqSame
<1> QED BY <1>2, <1>3, <1>8, <1>9 DEF u, v, w, t, Line

\* The kinds of items, and their parts.
Doc == Seq(Line)
TextPart == [r : Range4, n : Int, t : Doc \cup {NoText}]
AddCharItem == [act : {"AddChar"}, l : Nat, c : Nat, s : Line, crc : Doc]
DelCharItem == [act : {"DelChar"}, l : Nat, c : Nat, fwd : BOOLEAN, s : Line, crc : Doc]
DelTextItem == [act : {"DelTextRange"}, del : TextPart, crc : Doc]
AddTextItem == [act : {"AddTextRange"}, ins : TextPart, crc : Doc]
DelAddItem == [act : {"DelAddTextRange"}, del : TextPart, ins : TextPart, crc : Doc]
ReplaceItem == [act : {"RepShortStr"}, l : Nat, c : Nat, old : Line, new : Line, crc : Doc]
EOLItem == [act : {"AddEOL"}, l : Nat, c : Nat, ws : Line, crc : Doc]
Item == AddCharItem \cup DelCharItem \cup DelTextItem \cup AddTextItem \cup DelAddItem
          \cup ReplaceItem \cup EOLItem

\* The text of a part: that of range r of d, unless it is long and in the document.
Held(p, d, inDoc) == p.t = IF Long(p.n) /\ inDoc THEN NoText ELSE TextOf(d, p.r)

\* The two parts of a replacement have the same start, and the document
\* without either is the same.
Replaced(i, a, b, done) ==
  /\ In(a, i.del.r) /\ In(b, i.ins.r) /\ Cut(a, i.del.r) = Cut(b, i.ins.r)
  /\ i.del.r.l0 = i.ins.r.l0 /\ i.del.r.c0 = i.ins.r.c0
  /\ i.del.n > 0 /\ Held(i.del, a, ~done)
  /\ i.ins.n <= 0 => b = Cut(a, i.del.r)
  /\ i.ins.n > 0 => Held(i.ins, b, done)

\* A line end in place of white space: x is the document without either.
Split(i, a, b, x) ==
  /\ OneIns(x, i.l, i.c, i.ws, a)
  /\ b = Put(x, i.l, i.c, <<<<>>, <<>>>>) /\ Cut(b, Rng(i.l, i.c, i.l + 1, 0)) = x

\* Item i leads from document a to document b; it is done, or undone.
ItemInv(i, a, b, done) ==
  /\ i \in Item /\ IsDoc(a) /\ IsDoc(b)
  /\ i.act = "AddChar" => OneIns(a, i.l, i.c, i.s, b)
  /\ i.act = "DelChar" => OneIns(b, i.l, DelStart(i), DelText(i), a) /\ Len(i.s) >= 1
  /\ i.act = "DelTextRange" => In(a, i.del.r) /\ b = Cut(a, i.del.r) /\ Held(i.del, a, ~done)
  /\ i.act = "AddTextRange" =>
        In(b, i.ins.r) /\ a = Cut(b, i.ins.r) /\ i.ins.n > 0 /\ Held(i.ins, b, done)
  /\ i.act = "DelAddTextRange" => Replaced(i, a, b, done)
  /\ i.act = "RepShortStr" => Over(a, i.l, i.c, i.new, i.old, b)
  /\ i.act = "AddEOL" => \E x : Split(i, a, b, x)

\* The documents differ in line l at most.
OnlyLine(a, b, l) == l \in 1..Len(a) /\ l \in 1..Len(b) /\ b = WithLine(a, l, b[l]) /\ a = WithLine(b, l, a[l])

LEMMA OnlyLineIns ==
  ASSUME NEW d, NEW l, NEW c, NEW s, NEW e, OneIns(d, l, c, s, e)
  PROVE  OnlyLine(d, e, l) /\ OnlyLine(e, d, l)
<1>1. l \in 1..Len(d) /\ l \in 1..Len(e) /\ e = WithLine(d, l, Ins(d[l], c, s)) /\ e[l] = Ins(d[l], c, s)
  <2>1. l \in 1..Len(d) /\ e = WithLine(d, l, Ins(d[l], c, s))
    BY DEF OneIns
  <2>2. l \in 1..Len(e) /\ e[l] = Ins(d[l], c, s)
    BY OneInsIs
  <2> QED BY <2>1, <2>2
<1>2. d = WithLine(e, l, d[l])
  BY OneInsIs
<1> QED BY <1>1, <1>2 DEF OnlyLine

LEMMA OnlyLineCut ==
  ASSUME NEW d, IsDoc(d), NEW r, In(d, r), OneLine(r)
  PROVE  OnlyLine(d, Cut(d, r), r.l0) /\ OnlyLine(Cut(d, r), d, r.l0)
<1>1. OneIns(Cut(d, r), r.l0, r.c0, SubSeq(d[r.l0], r.c0 + 1, r.c1), d)
  BY CutOne
<1> QED BY <1>1, OnlyLineIns

LEMMA OnlyLineTrans ==
  ASSUME NEW a, NEW b, NEW d, NEW l, IsDoc(b), OnlyLine(b, a, l), OnlyLine(b, d, l), IsDoc(a), IsDoc(d)
  PROVE  OnlyLine(a, d, l)
<1>1. a[l] \in Line /\ d[l] \in Line
  BY DocIs DEF OnlyLine
<1>2. /\ a = WithLine(b, l, a[l]) /\ d = WithLine(b, l, d[l]) /\ l \in 1..Len(b)
      /\ l \in 1..Len(a) /\ l \in 1..Len(d)
  BY DEF OnlyLine
<1>3. \A y : WithLine(WithLine(b, l, a[l]), l, y) = WithLine(b, l, y)
  BY <1>1, <1>2, WithLineIs
<1>4. \A y : WithLine(WithLine(b, l, d[l]), l, y) = WithLine(b, l, y)
  BY <1>1, <1>2, WithLineIs
<1> QED BY <1>2, <1>3, <1>4 DEF OnlyLine

Acts == {"AddChar", "DelChar", "DelTextRange", "AddTextRange", "DelAddTextRange", "RepShortStr", "AddEOL"}

LEMMA ItemKinds ==
  ASSUME NEW i \in Item
  PROVE  /\ i.act \in Acts /\ i.crc \in Doc
         /\ i.act = "AddChar" => i \in AddCharItem
         /\ i.act = "DelChar" => i \in DelCharItem
         /\ i.act = "DelTextRange" => i \in DelTextItem
         /\ i.act = "AddTextRange" => i \in AddTextItem
         /\ i.act = "DelAddTextRange" => i \in DelAddItem
         /\ i.act = "RepShortStr" => i \in ReplaceItem
         /\ i.act = "AddEOL" => i \in EOLItem
<1>1. CASE i \in AddCharItem
  BY <1>1 DEF AddCharItem, Acts
<1>2. CASE i \in DelCharItem
  BY <1>2 DEF DelCharItem, Acts
<1>3. CASE i \in DelTextItem
  BY <1>3 DEF DelTextItem, Acts
<1>4. CASE i \in AddTextItem
  BY <1>4 DEF AddTextItem, Acts
<1>5. CASE i \in DelAddItem
  BY <1>5 DEF DelAddItem, Acts
<1>6. CASE i \in ReplaceItem
  BY <1>6 DEF ReplaceItem, Acts
<1>7. CASE i \in EOLItem
  BY <1>7 DEF EOLItem, Acts
<1> QED BY <1>1, <1>2, <1>3, <1>4, <1>5, <1>6, <1>7 DEF Item

\* An item that stays within a line changes no other.
LEMMA ItemLine ==
  ASSUME NEW i, NEW a, NEW b, NEW done, ItemInv(i, a, b, done), LineOf(i) # 0
  PROVE  OnlyLine(a, b, LineOf(i)) /\ OnlyLine(b, a, LineOf(i))
<1>0. i \in Item /\ i.act \in Acts /\ IsDoc(a) /\ IsDoc(b)
  BY ItemKinds DEF ItemInv
<1>1. CASE i.act = "AddChar"
  <2>1. LineOf(i) = i.l /\ OneIns(a, i.l, i.c, i.s, b)
    BY <1>1 DEF LineOf, ItemInv
  <2> QED BY <2>1, OnlyLineIns
<1>2. CASE i.act = "DelChar"
  <2>1. LineOf(i) = i.l /\ OneIns(b, i.l, DelStart(i), DelText(i), a)
    BY <1>2 DEF LineOf, ItemInv
  <2> QED BY <2>1, OnlyLineIns
<1>3. CASE i.act = "DelTextRange"
  <2>1. LineOf(i) = IF OneLine(i.del.r) THEN i.del.r.l0 ELSE 0
    BY <1>3 DEF LineOf
  <2>2. In(a, i.del.r) /\ b = Cut(a, i.del.r)
    BY <1>3 DEF ItemInv
  <2> QED BY <1>0, <2>1, <2>2, OnlyLineCut
<1>4. CASE i.act = "AddTextRange"
  <2>1. LineOf(i) = IF OneLine(i.ins.r) THEN i.ins.r.l0 ELSE 0
    BY <1>4 DEF LineOf
  <2>2. In(b, i.ins.r) /\ a = Cut(b, i.ins.r)
    BY <1>4 DEF ItemInv
  <2> QED BY <1>0, <2>1, <2>2, OnlyLineCut
<1>5. CASE i.act = "DelAddTextRange"
  <2>1. LineOf(i) = IF OneLine(i.del.r) /\ OneLine(i.ins.r) THEN i.del.r.l0 ELSE 0
    BY <1>5 DEF LineOf
  <2>2. /\ In(a, i.del.r) /\ In(b, i.ins.r) /\ Cut(a, i.del.r) = Cut(b, i.ins.r)
        /\ i.del.r.l0 = i.ins.r.l0
    BY <1>5 DEF ItemInv, Replaced
  <2>3. OneLine(i.del.r) /\ OneLine(i.ins.r) /\ LineOf(i) = i.del.r.l0
    BY <2>1
  <2> DEFINE m == Cut(a, i.del.r)
             l == i.del.r.l0
  <2>4. OnlyLine(m, a, l) /\ OnlyLine(m, b, l)
    BY <1>0, <2>2, <2>3, OnlyLineCut
  <2>5. IsDoc(m)
    BY <1>0, <2>2, <2>3, CutDoc
  <2> HIDE DEF m, l
  <2>6. OnlyLine(a, b, l) /\ OnlyLine(b, a, l)
    BY <1>0, <2>4, <2>5, OnlyLineTrans
  <2> QED BY <2>3, <2>6 DEF l
<1>6. CASE i.act = "RepShortStr"
  <2>1. LineOf(i) = i.l /\ Over(a, i.l, i.c, i.new, i.old, b)
    BY <1>6 DEF LineOf, ItemInv
  <2> QED BY <2>1 DEF Over, OnlyLine
<1>7. CASE i.act = "AddEOL"
  BY <1>7 DEF LineOf
<1> QED BY <1>0, <1>1, <1>2, <1>3, <1>4, <1>5, <1>6, <1>7 DEF Acts

\* The text that a part has again, or gives up.
LEMMA PartText ==
  ASSUME NEW p \in TextPart, NEW d, IsDoc(d), In(d, p.r)
  PROVE  /\ Held(p, d, FALSE) => Restored(p) = TextOf(d, p.r) /\ Held(Freed(p), d, TRUE)
         /\ Freed(p) \in TextPart /\ Freed(p).r = p.r /\ Freed(p).n = p.n
         /\ ~Long(p.n) /\ Held(p, d, TRUE) => Held(p, d, FALSE)
<1>1. TextOf(d, p.r) \in Text /\ NoText \notin Seq(Seq(Chars))
  BY TextIs, EditAssumption
<1>2. TextOf(d, p.r) # NoText
  BY <1>1 DEF Text, Line
<1>3. Freed(p) \in TextPart /\ Freed(p).r = p.r /\ Freed(p).n = p.n
  BY DEF Freed, TextPart
<1>4. Long(p.n) => Freed(p).t = NoText
  BY DEF Freed, TextPart
<1>5. ~Long(p.n) => Freed(p) = p
  BY DEF Freed
<1> QED BY <1>2, <1>3, <1>4, <1>5 DEF Held, Restored

LEMMA TakenIs ==
  ASSUME NEW p \in TextPart, IsDoc(doc), In(doc, p.r)
  PROVE  Taken(p) \in TextPart /\ Taken(p).r = p.r /\ Taken(p).n = p.n /\ Held(Taken(p), doc, FALSE)
<1>1. TextOf(doc, p.r) \in Doc
  BY TextIs DEF Text, Doc
<1>2. Taken(p) \in TextPart /\ Taken(p).r = p.r /\ Taken(p).n = p.n /\ Taken(p).t = TextOf(doc, p.r)
  BY <1>1 DEF Taken, TextPart
<1> QED BY <1>2 DEF Held

\* What undoing leaves: the document before the item, and the item undone.
Undoes(i, res, a, b) ==
  res[1] = a /\ ItemInv(res[2], a, b, FALSE) /\ res[2].crc = i.crc /\ LineOf(res[2]) = LineOf(i)
Redoes(i, res, a, b) ==
  res[1] = b /\ ItemInv(res[2], a, b, TRUE) /\ res[2].crc = i.crc /\ LineOf(res[2]) = LineOf(i)

LEMMA UndoesIs ==
  ASSUME NEW i, NEW j, NEW a, NEW b, ItemInv(j, a, b, FALSE), j.crc = i.crc, LineOf(j) = LineOf(i)
  PROVE  Undoes(i, <<a, j>>, a, b)
BY DEF Undoes

LEMMA RedoesIs ==
  ASSUME NEW i, NEW j, NEW a, NEW b, ItemInv(j, a, b, TRUE), j.crc = i.crc, LineOf(j) = LineOf(i)
  PROVE  Redoes(i, <<b, j>>, a, b)
BY DEF Redoes

\* OneInsUndo, one conclusion at a time.
LEMMA OneInsCut ==
  ASSUME NEW d, NEW l, NEW c, NEW s, NEW e, OneIns(d, l, c, s, e)
  PROVE  Cut(e, Rng(l, c, l, c + Len(s))) = d
<1>1. Spans(d, l, c, s, e)
  BY OneInsUndo
<1> QED BY <1>1 DEF Span, Spans

LEMMA OneInsPut ==
  ASSUME NEW d, NEW l, NEW c, NEW s, NEW e, OneIns(d, l, c, s, e)
  PROVE  Put(d, l, c, <<s>>) = e
BY OneInsUndo

\* The items that stay as they are.
SameItems == {"AddChar", "DelChar", "RepShortStr", "AddEOL"}

LEMMA ItemSame ==
  ASSUME NEW i, NEW a, NEW b, NEW done, ItemInv(i, a, b, done), i.act \in SameItems
  PROVE  \A q \in BOOLEAN : ItemInv(i, a, b, q)
BY DEF ItemInv, SameItems

\* Two parts of a replacement: out is in the document, in takes its place.
LEMMA ReplaceIs ==
  ASSUME NEW p, NEW q, NEW e, IsDoc(doc), IsDoc(e), In(doc, p.r), In(e, q.r), Cut(doc, p.r) = Cut(e, q.r),
         p.r.l0 = q.r.l0, p.r.c0 = q.r.c0, q.n \in Int,
         q.n <= 0 => e = Cut(doc, p.r), q.n > 0 => Restored(q) = TextOf(e, q.r)
  PROVE  Replace(p, q) = e
<1>1. InDoc(doc, p.r)
  <2>1. DOMAIN doc = 1..Len(doc)
    BY DocIs
  <2>2. /\ p.r.l1 \in 1..Len(doc) /\ p.r.c0 \in 0..Len(doc[p.r.l0]) /\ p.r.c1 \in 0..Len(doc[p.r.l1])
        /\ p.r.l0 \in 1..Len(doc)
    BY InIs
  <2>3. Len(doc[p.r.l0]) \in Nat /\ Len(doc[p.r.l1]) \in Nat
    BY <2>2, DocIs
  <2> QED BY <2>1, <2>2, <2>3 DEF InDoc
<1>2. CASE q.n <= 0
  BY <1>1, <1>2 DEF Replace
<1>3. CASE ~(q.n <= 0)
  <2>1. Replace(p, q) = Put(Cut(doc, p.r), p.r.l0, p.r.c0, Restored(q))
    BY <1>1, <1>3 DEF Replace
  <2>2. Restored(q) = TextOf(e, q.r)
    BY <1>3
  <2>3. Put(Cut(e, q.r), q.r.l0, q.r.c0, TextOf(e, q.r)) = e
    BY CutPut
  <2> QED BY <2>1, <2>2, <2>3
<1> QED BY <1>2, <1>3

LEMMA UndoSame ==
  ASSUME NEW i, NEW a, ItemInv(i, a, doc, TRUE), i.act \in SameItems
  PROVE  Undoes(i, Undone(i), a, doc)
<1>1. ItemInv(i, a, doc, FALSE)
  BY ItemSame
<1>2. CASE i.act = "AddChar"
  <2>1. OneIns(a, i.l, i.c, i.s, doc)
    BY <1>2 DEF ItemInv
  <2>2. Undone(i) = <<Cut(doc, Rng(i.l, i.c, i.l, i.c + Len(i.s))), i>>
    BY <1>2 DEF Undone
  <2>3. Cut(doc, Rng(i.l, i.c, i.l, i.c + Len(i.s))) = a
    BY <2>1, OneInsCut
  <2>5. Undone(i) = <<a, i>>
    BY <2>2, <2>3
  <2> QED BY <1>1, <2>5, UndoesIs
<1>3. CASE i.act = "DelChar"
  <2>1. OneIns(doc, i.l, DelStart(i), DelText(i), a)
    BY <1>3 DEF ItemInv
  <2>2. Undone(i) = <<Put(doc, i.l, DelStart(i), <<DelText(i)>>), i>>
    BY <1>3 DEF Undone
  <2>3. Put(doc, i.l, DelStart(i), <<DelText(i)>>) = a
    BY <2>1, OneInsPut
  <2>5. Undone(i) = <<a, i>>
    BY <2>2, <2>3
  <2> QED BY <1>1, <2>5, UndoesIs
<1>4. CASE i.act = "RepShortStr"
  <2>1. Over(a, i.l, i.c, i.new, i.old, doc)
    BY <1>4 DEF ItemInv
  <2>2. Undone(i) = <<Overwrite(doc, i.l, i.c, i.old), i>>
    BY <1>4 DEF Undone
  <2>3. Overwrite(doc, i.l, i.c, i.old) = a
    BY <2>1 DEF Over
  <2>5. Undone(i) = <<a, i>>
    BY <2>2, <2>3
  <2> QED BY <1>1, <2>5, UndoesIs
<1>5. CASE i.act = "AddEOL"
  <2>1. PICK x : Split(i, a, doc, x)
    BY <1>5 DEF ItemInv
  <2>2. Undone(i) = <<Put(Cut(doc, Rng(i.l, i.c, i.l + 1, 0)), i.l, i.c, <<i.ws>>), i>>
    BY <1>5 DEF Undone
  <2>3. Cut(doc, Rng(i.l, i.c, i.l + 1, 0)) = x /\ OneIns(x, i.l, i.c, i.ws, a)
    BY <2>1 DEF Split
  <2>4. Put(x, i.l, i.c, <<i.ws>>) = a
    BY <2>3, OneInsPut
  <2>5. Undone(i) = <<a, i>>
    BY <2>2, <2>3, <2>4
  <2> QED BY <1>1, <2>5, UndoesIs
<1> QED BY <1>2, <1>3, <1>4, <1>5 DEF SameItems

LEMMA RedoSame ==
  ASSUME NEW i, NEW b, ItemInv(i, doc, b, FALSE), i.act \in SameItems
  PROVE  Redoes(i, Redone(i), doc, b)
<1>1. ItemInv(i, doc, b, TRUE)
  BY ItemSame
<1>2. CASE i.act = "AddChar"
  <2>1. OneIns(doc, i.l, i.c, i.s, b)
    BY <1>2 DEF ItemInv
  <2>2. Redone(i) = <<Put(doc, i.l, i.c, <<i.s>>), i>>
    BY <1>2 DEF Redone
  <2>3. Put(doc, i.l, i.c, <<i.s>>) = b
    BY <2>1, OneInsPut
  <2>5. Redone(i) = <<b, i>>
    BY <2>2, <2>3
  <2> QED BY <1>1, <2>5, RedoesIs
<1>3. CASE i.act = "DelChar"
  <2>0. i \in DelCharItem
    BY <1>3, ItemKinds DEF ItemInv
  <2>1. OneIns(b, i.l, DelStart(i), DelText(i), doc)
    BY <1>3 DEF ItemInv
  <2>2. Redone(i) = <<Cut(doc, Rng(i.l, DelStart(i), i.l, DelStart(i) + Len(i.s))), i>>
    BY <1>3 DEF Redone
  <2>3. Len(DelText(i)) = Len(i.s)
    <3>1. i.s \in Line /\ Len(i.s) \in Nat
      BY <2>0 DEF DelCharItem, Line
    <3>2. Len(Reverse(i.s)) = Len(i.s)
      BY <3>1 DEF Reverse
    <3> QED BY <3>2 DEF DelText
  <2>4. Cut(doc, Rng(i.l, DelStart(i), i.l, DelStart(i) + Len(DelText(i)))) = b
    BY <2>1, OneInsCut
  <2>5. Redone(i) = <<b, i>>
    BY <2>2, <2>3, <2>4
  <2> QED BY <1>1, <2>5, RedoesIs
<1>4. CASE i.act = "RepShortStr"
  <2>1. Over(doc, i.l, i.c, i.new, i.old, b)
    BY <1>4 DEF ItemInv
  <2>2. Redone(i) = <<Overwrite(doc, i.l, i.c, i.new), i>>
    BY <1>4 DEF Redone
  <2>3. Overwrite(doc, i.l, i.c, i.new) = b
    BY <2>1 DEF Over
  <2>5. Redone(i) = <<b, i>>
    BY <2>2, <2>3
  <2> QED BY <1>1, <2>5, RedoesIs
<1>5. CASE i.act = "AddEOL"
  <2>1. PICK x : Split(i, doc, b, x)
    BY <1>5 DEF ItemInv
  <2>2. Redone(i) = <<Put(Cut(doc, Rng(i.l, i.c, i.l, i.c + Len(i.ws))), i.l, i.c, <<<<>>, <<>>>>), i>>
    BY <1>5 DEF Redone
  <2>3. b = Put(x, i.l, i.c, <<<<>>, <<>>>>) /\ OneIns(x, i.l, i.c, i.ws, doc)
    BY <2>1 DEF Split
  <2>4. Cut(doc, Rng(i.l, i.c, i.l, i.c + Len(i.ws))) = x
    BY <2>3, OneInsCut
  <2>5. Redone(i) = <<b, i>>
    BY <2>2, <2>3, <2>4
  <2> QED BY <1>1, <2>5, RedoesIs
<1> QED BY <1>2, <1>3, <1>4, <1>5 DEF SameItems

LEMMA UndoDelText ==
  ASSUME NEW i, NEW a, ItemInv(i, a, doc, TRUE), i.act = "DelTextRange"
  PROVE  Undoes(i, Undone(i), a, doc)
<1> DEFINE j == [i EXCEPT !.del = Freed(@)]
<1>1. i \in DelTextItem /\ IsDoc(a) /\ IsDoc(doc) /\ In(a, i.del.r) /\ doc = Cut(a, i.del.r) /\ Held(i.del, a, FALSE)
  BY ItemKinds DEF ItemInv
<1>2. i.del \in TextPart
  BY <1>1 DEF DelTextItem
<1>3. /\ Restored(i.del) = TextOf(a, i.del.r) /\ Held(Freed(i.del), a, TRUE)
      /\ Freed(i.del) \in TextPart /\ Freed(i.del).r = i.del.r
  BY <1>1, <1>2, PartText
<1>4. Undone(i) = <<Put(doc, i.del.r.l0, i.del.r.c0, Restored(i.del)), j>>
  BY DEF Undone
<1>5. Put(doc, i.del.r.l0, i.del.r.c0, Restored(i.del)) = a
  BY <1>1, <1>3, CutPut
<1>6. j \in DelTextItem /\ j.act = i.act /\ j.crc = i.crc /\ j.del = Freed(i.del)
  BY <1>1, <1>3 DEF DelTextItem
<1> HIDE DEF j
<1>7. j \in Item
  BY <1>6 DEF Item
<1>8. ItemInv(j, a, doc, FALSE)
  BY <1>1, <1>3, <1>6, <1>7 DEF ItemInv
<1>9. LineOf(j) = LineOf(i)
  BY <1>3, <1>6 DEF LineOf
<1>10. Undone(i) = <<a, j>>
  BY <1>4, <1>5
<1> QED BY <1>6, <1>8, <1>9, <1>10, UndoesIs

LEMMA RedoDelText ==
  ASSUME NEW i, NEW b, ItemInv(i, doc, b, FALSE), i.act = "DelTextRange"
  PROVE  Redoes(i, Redone(i), doc, b)
<1> DEFINE j == [i EXCEPT !.del = Taken(@)]
<1>1. i \in DelTextItem /\ IsDoc(b) /\ IsDoc(doc) /\ In(doc, i.del.r) /\ b = Cut(doc, i.del.r)
  BY ItemKinds DEF ItemInv
<1>2. i.del \in TextPart
  BY <1>1 DEF DelTextItem
<1>3. Taken(i.del) \in TextPart /\ Taken(i.del).r = i.del.r /\ Held(Taken(i.del), doc, FALSE)
  BY <1>1, <1>2, TakenIs
<1>4. Redone(i) = <<Cut(doc, i.del.r), j>>
  BY DEF Redone
<1>6. j \in DelTextItem /\ j.act = i.act /\ j.crc = i.crc /\ j.del = Taken(i.del)
  BY <1>1, <1>3 DEF DelTextItem
<1> HIDE DEF j
<1>7. j \in Item
  BY <1>6 DEF Item
<1>8. ItemInv(j, doc, b, TRUE)
  BY <1>1, <1>3, <1>6, <1>7 DEF ItemInv
<1>9. LineOf(j) = LineOf(i)
  BY <1>3, <1>6 DEF LineOf
<1>10. Redone(i) = <<b, j>>
  BY <1>1, <1>4
<1> QED BY <1>6, <1>8, <1>9, <1>10, RedoesIs

LEMMA UndoAddText ==
  ASSUME NEW i, NEW a, ItemInv(i, a, doc, TRUE), i.act = "AddTextRange"
  PROVE  Undoes(i, Undone(i), a, doc)
<1> DEFINE j == [i EXCEPT !.ins = Taken(@)]
<1>1. /\ i \in AddTextItem /\ IsDoc(a) /\ IsDoc(doc) /\ In(doc, i.ins.r) /\ a = Cut(doc, i.ins.r)
      /\ i.ins.n > 0
  BY ItemKinds DEF ItemInv
<1>2. i.ins \in TextPart
  BY <1>1 DEF AddTextItem
<1>3. /\ Taken(i.ins) \in TextPart /\ Taken(i.ins).r = i.ins.r /\ Taken(i.ins).n = i.ins.n
      /\ Held(Taken(i.ins), doc, FALSE)
  BY <1>1, <1>2, TakenIs
<1>4. Undone(i) = <<Cut(doc, i.ins.r), j>>
  BY DEF Undone
<1>6. j \in AddTextItem /\ j.act = i.act /\ j.crc = i.crc /\ j.ins = Taken(i.ins)
  BY <1>1, <1>3 DEF AddTextItem
<1> HIDE DEF j
<1>7. j \in Item
  BY <1>6 DEF Item
<1>8. ItemInv(j, a, doc, FALSE)
  BY <1>1, <1>3, <1>6, <1>7 DEF ItemInv
<1>9. LineOf(j) = LineOf(i)
  BY <1>3, <1>6 DEF LineOf
<1>10. Undone(i) = <<a, j>>
  BY <1>1, <1>4
<1> QED BY <1>6, <1>8, <1>9, <1>10, UndoesIs

LEMMA RedoAddText ==
  ASSUME NEW i, NEW b, ItemInv(i, doc, b, FALSE), i.act = "AddTextRange"
  PROVE  Redoes(i, Redone(i), doc, b)
<1> DEFINE j == [i EXCEPT !.ins = Freed(@)]
<1>1. /\ i \in AddTextItem /\ IsDoc(b) /\ IsDoc(doc) /\ In(b, i.ins.r) /\ doc = Cut(b, i.ins.r)
      /\ i.ins.n > 0 /\ Held(i.ins, b, FALSE)
  BY ItemKinds DEF ItemInv
<1>2. i.ins \in TextPart /\ i.ins.n \in Int
  BY <1>1 DEF AddTextItem, TextPart
<1>3. /\ Restored(i.ins) = TextOf(b, i.ins.r) /\ Held(Freed(i.ins), b, TRUE)
      /\ Freed(i.ins) \in TextPart /\ Freed(i.ins).r = i.ins.r /\ Freed(i.ins).n = i.ins.n
  BY <1>1, <1>2, PartText
<1>4. Redone(i) = <<Put(doc, i.ins.r.l0, i.ins.r.c0, Restored(i.ins)), j>>
  <2>1. ~RedoneAsEOL(i)
    BY <1>1, <1>2 DEF RedoneAsEOL
  <2> QED BY <2>1 DEF Redone
<1>5. Put(doc, i.ins.r.l0, i.ins.r.c0, Restored(i.ins)) = b
  BY <1>1, <1>3, CutPut
<1>6. j \in AddTextItem /\ j.act = i.act /\ j.crc = i.crc /\ j.ins = Freed(i.ins)
  BY <1>1, <1>3 DEF AddTextItem
<1> HIDE DEF j
<1>7. j \in Item
  BY <1>6 DEF Item
<1>8. ItemInv(j, doc, b, TRUE)
  BY <1>1, <1>3, <1>6, <1>7 DEF ItemInv
<1>9. LineOf(j) = LineOf(i)
  BY <1>3, <1>6 DEF LineOf
<1>10. Redone(i) = <<b, j>>
  BY <1>4, <1>5
<1> QED BY <1>6, <1>8, <1>9, <1>10, RedoesIs

LEMMA UndoDelAdd ==
  ASSUME NEW i, NEW a, ItemInv(i, a, doc, TRUE), i.act = "DelAddTextRange"
  PROVE  Undoes(i, Undone(i), a, doc)
<1> DEFINE u == IF Long(i.ins.n) THEN Taken(i.ins) ELSE i.ins
           j == [i EXCEPT !.ins = IF Long(@.n) THEN Taken(@) ELSE @, !.del = Freed(@)]
<1>1. i \in DelAddItem /\ IsDoc(a) /\ IsDoc(doc) /\ Replaced(i, a, doc, TRUE)
  BY ItemKinds DEF ItemInv
<1>2. i.del \in TextPart /\ i.ins \in TextPart /\ i.ins.n \in Int /\ i.del.n \in Int
  BY <1>1 DEF DelAddItem, TextPart
<1>3. /\ In(a, i.del.r) /\ In(doc, i.ins.r) /\ Cut(a, i.del.r) = Cut(doc, i.ins.r)
      /\ i.del.r.l0 = i.ins.r.l0 /\ i.del.r.c0 = i.ins.r.c0
      /\ i.del.n > 0 /\ Held(i.del, a, ~TRUE)
      /\ i.ins.n <= 0 => doc = Cut(a, i.del.r)
      /\ i.ins.n > 0 => Held(i.ins, doc, TRUE)
  BY <1>1 DEF Replaced
<1>4. /\ Freed(i.del) \in TextPart /\ Freed(i.del).r = i.del.r /\ Freed(i.del).n = i.del.n
      /\ i.del.n > 0 => Restored(i.del) = TextOf(a, i.del.r) /\ Held(Freed(i.del), a, TRUE)
  BY <1>1, <1>2, <1>3, PartText
<1>5. /\ u \in TextPart /\ u.r = i.ins.r /\ u.n = i.ins.n
      /\ i.ins.n > 0 => Held(u, doc, FALSE)
  <2>1. CASE Long(i.ins.n)
    BY <1>1, <1>2, <1>3, <2>1, TakenIs
  <2>2. CASE ~Long(i.ins.n)
    BY <1>1, <1>2, <1>3, <2>2, PartText
  <2> QED BY <2>1, <2>2
<1>6. Undone(i) = <<Replace(i.ins, i.del), j>>
  <2>1. Undone(i) = <<Replace(i.ins, i.del),
                   [i EXCEPT !.del = Freed(@), !.ins = IF Long(@.n) THEN Taken(@) ELSE @]>>
    BY DEF Undone
  <2>2. [i EXCEPT !.del = Freed(@), !.ins = IF Long(@.n) THEN Taken(@) ELSE @] = j
    BY <1>1 DEF DelAddItem
  <2> HIDE DEF j
  <2> QED BY <2>1, <2>2
<1>7. j \in DelAddItem /\ j.act = i.act /\ j.crc = i.crc /\ j.del = Freed(i.del) /\ j.ins = u
  <2>1. j = [i EXCEPT !.ins = u, !.del = Freed(i.del)]
    BY <1>1 DEF DelAddItem
  <2> HIDE DEF j, u
  <2> QED BY <1>1, <1>4, <1>5, <2>1 DEF DelAddItem
<1> HIDE DEF j, u
<1>8. j \in Item
  BY <1>7 DEF Item
<1>9. Replaced(j, a, doc, FALSE)
  BY <1>3, <1>4, <1>5, <1>7 DEF Replaced
<1>10. ItemInv(j, a, doc, FALSE)
  BY <1>1, <1>7, <1>8, <1>9 DEF ItemInv
<1>11. LineOf(j) = LineOf(i)
  BY <1>4, <1>5, <1>7 DEF LineOf
<1>12. Replace(i.ins, i.del) = a
  <2>1. /\ IsDoc(doc) /\ IsDoc(a) /\ In(doc, i.ins.r) /\ In(a, i.del.r)
        /\ Cut(doc, i.ins.r) = Cut(a, i.del.r)
        /\ i.ins.r.l0 = i.del.r.l0 /\ i.ins.r.c0 = i.del.r.c0 /\ i.del.n \in Int
    BY <1>1, <1>2, <1>3
  <2>2. i.del.n > 0
    BY <1>3
  <2>3. Restored(i.del) = TextOf(a, i.del.r)
    BY <1>4, <2>2
  <2>4. ~(i.del.n <= 0)
    BY ONLY <2>1, <2>2
  <2> QED BY ONLY <2>1, <2>3, <2>4, ReplaceIs
<1>13. Undone(i) = <<a, j>>
  BY <1>6, <1>12
<1> QED BY <1>7, <1>10, <1>11, <1>13, UndoesIs

LEMMA RedoDelAdd ==
  ASSUME NEW i, NEW b, ItemInv(i, doc, b, FALSE), i.act = "DelAddTextRange"
  PROVE  Redoes(i, Redone(i), doc, b)
<1> DEFINE u == IF Long(i.del.n) THEN Taken(i.del) ELSE i.del
           j == [i EXCEPT !.del = IF Long(@.n) THEN Taken(@) ELSE @, !.ins = Freed(@)]
<1>1. i \in DelAddItem /\ IsDoc(b) /\ IsDoc(doc) /\ Replaced(i, doc, b, FALSE)
  BY ItemKinds DEF ItemInv
<1>2. i.del \in TextPart /\ i.ins \in TextPart /\ i.ins.n \in Int /\ i.del.n \in Int
  BY <1>1 DEF DelAddItem, TextPart
<1>3. /\ In(doc, i.del.r) /\ In(b, i.ins.r) /\ Cut(doc, i.del.r) = Cut(b, i.ins.r)
      /\ i.del.r.l0 = i.ins.r.l0 /\ i.del.r.c0 = i.ins.r.c0
      /\ i.del.n > 0 /\ Held(i.del, doc, ~FALSE)
      /\ i.ins.n <= 0 => b = Cut(doc, i.del.r)
      /\ i.ins.n > 0 => Held(i.ins, b, FALSE)
  BY <1>1 DEF Replaced
<1>4. /\ Freed(i.ins) \in TextPart /\ Freed(i.ins).r = i.ins.r /\ Freed(i.ins).n = i.ins.n
      /\ i.ins.n > 0 => Restored(i.ins) = TextOf(b, i.ins.r) /\ Held(Freed(i.ins), b, TRUE)
  BY <1>1, <1>2, <1>3, PartText
<1>5. /\ u \in TextPart /\ u.r = i.del.r /\ u.n = i.del.n
      /\ i.del.n > 0 => Held(u, doc, FALSE)
  <2>1. CASE Long(i.del.n)
    BY <1>1, <1>2, <1>3, <2>1, TakenIs
  <2>2. CASE ~Long(i.del.n)
    BY <1>1, <1>2, <1>3, <2>2, PartText
  <2> QED BY <2>1, <2>2
<1>6. Redone(i) = <<Replace(i.del, i.ins), j>>
  <2>1. Redone(i) = <<Replace(i.del, i.ins),
                   [i EXCEPT !.ins = Freed(@), !.del = IF Long(@.n) THEN Taken(@) ELSE @]>>
    BY DEF Redone
  <2>2. [i EXCEPT !.ins = Freed(@), !.del = IF Long(@.n) THEN Taken(@) ELSE @] = j
    BY <1>1 DEF DelAddItem
  <2> HIDE DEF j
  <2> QED BY <2>1, <2>2
<1>7. j \in DelAddItem /\ j.act = i.act /\ j.crc = i.crc /\ j.ins = Freed(i.ins) /\ j.del = u
  <2>1. j = [i EXCEPT !.del = u, !.ins = Freed(i.ins)]
    BY <1>1 DEF DelAddItem
  <2> HIDE DEF j, u
  <2> QED BY <1>1, <1>4, <1>5, <2>1 DEF DelAddItem
<1> HIDE DEF j, u
<1>8. j \in Item
  BY <1>7 DEF Item
<1>9. Replaced(j, doc, b, TRUE)
  BY <1>3, <1>4, <1>5, <1>7 DEF Replaced
<1>10. ItemInv(j, doc, b, TRUE)
  BY <1>1, <1>7, <1>8, <1>9 DEF ItemInv
<1>11. LineOf(j) = LineOf(i)
  BY <1>4, <1>5, <1>7 DEF LineOf
<1>12. Replace(i.del, i.ins) = b
  BY <1>1, <1>2, <1>3, <1>4, ReplaceIs
<1>13. Redone(i) = <<b, j>>
  BY <1>6, <1>12
<1> QED BY <1>7, <1>10, <1>11, <1>13, RedoesIs

LEMMA ItemUndo ==
  ASSUME NEW i, NEW a, ItemInv(i, a, doc, TRUE)
  PROVE  Undoes(i, Undone(i), a, doc)
<1>1. i \in Item
  BY DEF ItemInv
<1>2. i.act \in SameItems \/ i.act = "DelTextRange" \/ i.act = "AddTextRange" \/ i.act = "DelAddTextRange"
  BY <1>1, ItemKinds DEF Acts, SameItems
<1> QED BY <1>2, UndoSame, UndoDelText, UndoAddText, UndoDelAdd

LEMMA ItemRedo ==
  ASSUME NEW i, NEW b, ItemInv(i, doc, b, FALSE)
  PROVE  Redoes(i, Redone(i), doc, b)
<1>1. i \in Item
  BY DEF ItemInv
<1>2. i.act \in SameItems \/ i.act = "DelTextRange" \/ i.act = "AddTextRange" \/ i.act = "DelAddTextRange"
  BY <1>1, ItemKinds DEF Acts, SameItems
<1> QED BY <1>2, RedoSame, RedoDelText, RedoAddText, RedoDelAdd

-----------------------------------------------------------------------------
(* The history.                                                            *)

Lasts == Acts \cup {"Undo", "Redo"}
HistRec == [items : Seq(Item), pos : Nat, saved : Int, last : Lasts]
HistShape(h) == h \in HistRec /\ h.pos <= Len(h.items) /\ h.saved \in -1..Len(h.items)

\* The text at position k of a history that began with text a.
At(h, a, k) == IF k = 0 THEN a ELSE h.items[k].crc

\* x is the file f, as far as that is known.
FileIs(x, f) == f.known => x = f.text

\* Each item leads from the text at its position to the next, the document d
\* is the text at the position, and the file f that at the saved position.
HistOK(h, a, d, f) ==
  /\ HistShape(h) /\ IsDoc(a) /\ IsDoc(d) /\ d = At(h, a, h.pos)
  /\ \A k \in 1..Len(h.items) : ItemInv(h.items[k], At(h, a, k - 1), At(h, a, k), k <= h.pos)
  /\ h.saved # -1 => FileIs(Trimmed(At(h, a, h.saved)), f)

\* What ClearEnd leaves of the saved position.
Kept(h) == IF h.pos < h.saved THEN -1 ELSE h.saved

\* g is history h cut off, with item j at the position p.
Puts(h, g, p, j) ==
  /\ p \in 1..(h.pos + 1) /\ g \in HistRec /\ Len(g.items) = p /\ g.pos = p /\ g.saved = Kept(h)
  /\ g.items[p] = j /\ j \in Item
  /\ \A k \in 1..(p - 1) : g.items[k] = h.items[k]

LEMMA ClearEndIs ==
  ASSUME NEW h, HistShape(h)
  PROVE  /\ ClearEnd(h) \in HistRec /\ ClearEnd(h).pos = h.pos /\ ClearEnd(h).saved = Kept(h)
         /\ Len(ClearEnd(h).items) = h.pos
         /\ \A k \in 1..h.pos : ClearEnd(h).items[k] = h.items[k]
         /\ HistShape(ClearEnd(h))
<1> DEFINE q == Take(h.items, h.pos)
           s == IF h.pos < Len(h.items) /\ h.pos < h.saved THEN -1 ELSE h.saved
<1>1. h \in HistRec /\ h.items \in Seq(Item) /\ h.pos \in 0..Len(h.items) /\ h.saved \in -1..Len(h.items)
  BY DEF HistShape, HistRec
<1>2. q \in Seq(Item) /\ Len(q) = h.pos /\ \A k \in 1..h.pos : q[k] = h.items[k]
  BY ONLY <1>1, TakeIs
<1>3. s = Kept(h) /\ s \in Int /\ s \in -1..h.pos
  BY <1>1 DEF Kept
<1>4. ClearEnd(h) = [h EXCEPT !.items = q, !.saved = s]
  BY <1>1 DEF ClearEnd, HistRec
<1> HIDE DEF q, s
<1>5. /\ ClearEnd(h) \in HistRec /\ ClearEnd(h).items = q /\ ClearEnd(h).saved = s
      /\ ClearEnd(h).pos = h.pos
  BY <1>1, <1>2, <1>3, <1>4 DEF HistRec
<1> QED BY <1>1, <1>2, <1>3, <1>5 DEF HistShape

LEMMA AddActionIs ==
  ASSUME NEW h, HistShape(h), NEW j \in Item
  PROVE  Puts(h, AddAction(h, j), h.pos + 1, j)
<1> DEFINE k == ClearEnd(h)
           q == Append(k.items, j)
           g == AddAction(h, j)
<1>1. /\ k \in HistRec /\ k.pos = h.pos /\ k.saved = Kept(h) /\ Len(k.items) = h.pos
      /\ \A n \in 1..h.pos : k.items[n] = h.items[n]
  BY ClearEndIs
<1>2. k.items \in Seq(Item) /\ h.pos \in Nat /\ k.saved \in Int /\ j.act \in Lasts
  <2>1. j.act \in Acts
    BY ItemKinds
  <2>2. j.act \in Lasts
    BY <2>1 DEF Lasts
  <2>3. k.items \in Seq(Item) /\ k.pos \in Nat /\ k.saved \in Int
    BY <1>1 DEF HistRec
  <2> QED BY <1>1, <2>2, <2>3
<1> HIDE DEF k
<1>3. /\ q \in Seq(Item) /\ Len(q) = h.pos + 1 /\ q[h.pos + 1] = j
      /\ \A n \in 1..h.pos : q[n] = k.items[n]
  BY <1>1, <1>2
<1>4. g = [k EXCEPT !.items = q, !.pos = h.pos + 1, !.last = j.act]
  BY <1>1 DEF AddAction, k, HistRec
<1> HIDE DEF g, q
<1>5. g \in HistRec /\ g.items = q /\ g.pos = h.pos + 1 /\ g.saved = k.saved
  <2>1. q \in Seq(Item) /\ h.pos + 1 \in Nat
    BY <1>2, <1>3
  <2> QED BY ONLY <1>1, <1>2, <1>4, <2>1 DEF HistRec
<1>6. h.pos + 1 \in 1..(h.pos + 1) /\ (h.pos + 1) - 1 = h.pos
  BY <1>2
<1> QED BY <1>1, <1>3, <1>5, <1>6 DEF Puts, g

LEMMA ChangeIs ==
  ASSUME NEW h, NEW g, NEW p, NEW i, Puts(h, g, p, i), NEW j \in Item
  PROVE  Puts(h, Change(g, j), p, j)
<1> DEFINE q == [g.items EXCEPT ![p] = j]
           e == Change(g, j)
<1>1. /\ g \in HistRec /\ Len(g.items) = p /\ g.pos = p /\ g.items \in Seq(Item) /\ p \in Nat /\ p >= 1
      /\ p \in 1..Len(g.items)
  <2>1. p \in 1..(h.pos + 1) /\ g \in HistRec /\ Len(g.items) = p /\ g.pos = p
    BY DEF Puts
  <2> QED BY <2>1 DEF HistRec
<1>2. q \in Seq(Item) /\ Len(q) = p /\ q[p] = j /\ \A k \in 1..(p - 1) : q[k] = g.items[k]
  BY <1>1
<1>3. e = [g EXCEPT !.items = q]
  BY <1>1 DEF Change, HistRec
<1> HIDE DEF e, q
<1>4. e \in HistRec /\ e.items = q /\ e.pos = g.pos /\ e.saved = g.saved
  BY <1>1, <1>2, <1>3 DEF HistRec
<1> QED BY <1>2, <1>4 DEF Puts, e

LEMMA PutsIs ==
  ASSUME NEW h, NEW g, NEW p, NEW j, Puts(h, g, p, j)
  PROVE  /\ Current(g) = j /\ \A x \in Lasts : Puts(h, [g EXCEPT !.last = x], p, j)
         /\ \A d \in Doc : SaveChecksum(g, d) = Change(g, [j EXCEPT !.crc = d])
<1>1. g \in HistRec /\ g.pos = p /\ g.items[p] = j
  BY DEF Puts
<1>2. Current(g) = j
  BY <1>1 DEF Current
<1>3. ASSUME NEW x \in Lasts PROVE Puts(h, [g EXCEPT !.last = x], p, j)
  <2> DEFINE e == [g EXCEPT !.last = x]
  <2>1. e \in HistRec /\ e.items = g.items /\ e.pos = g.pos /\ e.saved = g.saved
    BY <1>1 DEF HistRec
  <2> HIDE DEF e
  <2>2. Puts(h, e, p, j)
    BY <2>1 DEF Puts
  <2> QED BY <2>2 DEF e
<1> QED BY <1>2, <1>3 DEF SaveChecksum

LEMMA JoinActionIs ==
  ASSUME NEW h, HistShape(h), h.pos > 0, NEW j \in Item
  PROVE  Puts(h, Change(ClearEnd(h), j), h.pos, j)
<1> DEFINE k == ClearEnd(h)
<1>1. /\ k \in HistRec /\ k.pos = h.pos /\ k.saved = Kept(h) /\ Len(k.items) = h.pos
      /\ \A n \in 1..h.pos : k.items[n] = h.items[n]
  BY ClearEndIs
<1> HIDE DEF k
<1>2. h.pos \in Nat /\ h.pos \in 1..h.pos /\ h.pos \in 1..(h.pos + 1) /\ k.items \in Seq(Item)
  BY <1>1 DEF HistShape, HistRec
<1>3. k.items[h.pos] \in Item
  BY <1>1, <1>2
<1>4. Puts(h, k, h.pos, k.items[h.pos])
  BY <1>1, <1>2, <1>3 DEF Puts
<1>5. Puts(h, Change(k, j), h.pos, j)
  BY <1>4, ChangeIs
<1> QED BY <1>5 DEF k

\* The checksum is no part of what an item does.
LEMMA ItemCrc ==
  ASSUME NEW i, NEW a, NEW b, NEW q, ItemInv(i, a, b, q), NEW e \in Doc
  PROVE  ItemInv([i EXCEPT !.crc = e], a, b, q) /\ [i EXCEPT !.crc = e].crc = e
<1> DEFINE j == [i EXCEPT !.crc = e]
<1>0. i \in Item /\ i.act \in Acts /\ IsDoc(a) /\ IsDoc(b)
  BY ItemKinds DEF ItemInv
<1>1. CASE i.act = "AddChar"
  <2>1. i \in AddCharItem /\ OneIns(a, i.l, i.c, i.s, b)
    BY <1>0, <1>1, ItemKinds DEF ItemInv
  <2>2. j \in AddCharItem /\ j.act = i.act /\ j.l = i.l /\ j.c = i.c /\ j.s = i.s /\ j.crc = e
    BY <2>1 DEF AddCharItem
  <2> HIDE DEF j
  <2>3. j \in Item
    BY <2>2 DEF Item
  <2> QED BY <1>0, <1>1, <2>1, <2>2, <2>3 DEF ItemInv, j
<1>2. CASE i.act = "DelChar"
  <2>1. i \in DelCharItem /\ OneIns(b, i.l, DelStart(i), DelText(i), a) /\ Len(i.s) >= 1
    BY <1>0, <1>2, ItemKinds DEF ItemInv
  <2>2. /\ j \in DelCharItem /\ j.act = i.act /\ j.l = i.l /\ j.c = i.c /\ j.s = i.s /\ j.fwd = i.fwd
        /\ j.crc = e
    BY <2>1 DEF DelCharItem
  <2> HIDE DEF j
  <2>3. j \in Item /\ DelStart(j) = DelStart(i) /\ DelText(j) = DelText(i)
    BY <2>2 DEF Item, DelStart, DelText
  <2> QED BY <1>0, <1>2, <2>1, <2>2, <2>3 DEF ItemInv, j
<1>3. CASE i.act = "DelTextRange"
  <2>1. i \in DelTextItem /\ In(a, i.del.r) /\ b = Cut(a, i.del.r) /\ Held(i.del, a, ~q)
    BY <1>0, <1>3, ItemKinds DEF ItemInv
  <2>2. j \in DelTextItem /\ j.act = i.act /\ j.del = i.del /\ j.crc = e
    BY <2>1 DEF DelTextItem
  <2> HIDE DEF j
  <2>3. j \in Item
    BY <2>2 DEF Item
  <2> QED BY <1>0, <1>3, <2>1, <2>2, <2>3 DEF ItemInv, j
<1>4. CASE i.act = "AddTextRange"
  <2>1. i \in AddTextItem /\ In(b, i.ins.r) /\ a = Cut(b, i.ins.r) /\ i.ins.n > 0 /\ Held(i.ins, b, q)
    BY <1>0, <1>4, ItemKinds DEF ItemInv
  <2>2. j \in AddTextItem /\ j.act = i.act /\ j.ins = i.ins /\ j.crc = e
    BY <2>1 DEF AddTextItem
  <2> HIDE DEF j
  <2>3. j \in Item
    BY <2>2 DEF Item
  <2> QED BY <1>0, <1>4, <2>1, <2>2, <2>3 DEF ItemInv, j
<1>5. CASE i.act = "DelAddTextRange"
  <2>1. i \in DelAddItem /\ Replaced(i, a, b, q)
    BY <1>0, <1>5, ItemKinds DEF ItemInv
  <2>2. j \in DelAddItem /\ j.act = i.act /\ j.del = i.del /\ j.ins = i.ins /\ j.crc = e
    BY <2>1 DEF DelAddItem
  <2> HIDE DEF j
  <2>3. j \in Item /\ Replaced(j, a, b, q)
    BY <2>1, <2>2 DEF Item, Replaced
  <2> QED BY <1>0, <1>5, <2>2, <2>3 DEF ItemInv, j
<1>6. CASE i.act = "RepShortStr"
  <2>1. i \in ReplaceItem /\ Over(a, i.l, i.c, i.new, i.old, b)
    BY <1>0, <1>6, ItemKinds DEF ItemInv
  <2>2. j \in ReplaceItem /\ j.act = i.act /\ j.l = i.l /\ j.c = i.c /\ j.new = i.new /\ j.old = i.old /\ j.crc = e
    BY <2>1 DEF ReplaceItem
  <2> HIDE DEF j
  <2>3. j \in Item
    BY <2>2 DEF Item
  <2> QED BY <1>0, <1>6, <2>1, <2>2, <2>3 DEF ItemInv, j
<1>7. CASE i.act = "AddEOL"
  <2>1. i \in EOLItem /\ \E x : Split(i, a, b, x)
    BY <1>0, <1>7, ItemKinds DEF ItemInv
  <2>2. j \in EOLItem /\ j.act = i.act /\ j.l = i.l /\ j.c = i.c /\ j.ws = i.ws /\ j.crc = e
    BY <2>1 DEF EOLItem
  <2> HIDE DEF j
  <2>3. j \in Item /\ \E x : Split(j, a, b, x)
    BY <2>1, <2>2 DEF Item, Split
  <2> QED BY <1>0, <1>7, <2>2, <2>3 DEF ItemInv, j
<1> QED BY <1>0, <1>1, <1>2, <1>3, <1>4, <1>5, <1>6, <1>7 DEF Acts

\* A history with the item of an edit in it: one that follows the position, or
\* that took the place of the item at the position, which is not the saved one
\* unless the file is not known.
LEMMA PutsOK ==
  ASSUME NEW h, NEW a, NEW d, NEW f, HistOK(h, a, d, f), NEW g, NEW p, NEW j, Puts(h, g, p, j), p >= h.pos,
         p = h.pos => h.saved # h.pos \/ ~f.known, NEW e, ItemInv(j, At(h, a, p - 1), e, TRUE), j.crc = e
  PROVE  HistOK(g, a, e, f)
<1>1. /\ h \in HistRec /\ h.pos \in Nat /\ h.saved \in Int /\ Len(h.items) \in Nat /\ h.pos <= Len(h.items)
      /\ h.saved \in -1..Len(h.items) /\ IsDoc(a) /\ IsDoc(e)
  BY DEF HistOK, HistShape, HistRec, ItemInv
<1>2. /\ p \in Nat /\ p >= 1 /\ p <= h.pos + 1 /\ p - 1 \in Nat /\ p - 1 <= h.pos
      /\ g \in HistRec /\ Len(g.items) = p /\ g.pos = p /\ g.saved = Kept(h) /\ g.items[p] = j
      /\ \A k \in 1..(p - 1) : g.items[k] = h.items[k]
  BY <1>1 DEF Puts
<1>3. g.saved = -1 \/ (g.saved = h.saved /\ g.saved \in 0..p /\ (g.saved \in 0..(p - 1) \/ ~f.known))
  BY <1>1, <1>2 DEF Kept
<1>4. HistShape(g)
  BY <1>2, <1>3 DEF HistShape
<1>5. \A k \in 0..(p - 1) : At(g, a, k) = At(h, a, k)
  BY <1>2 DEF At
<1>6. At(g, a, p) = e
  BY <1>2 DEF At
<1>7. ASSUME NEW k \in 1..Len(g.items)
      PROVE  ItemInv(g.items[k], At(g, a, k - 1), At(g, a, k), k <= g.pos)
  <2>1. (k <= g.pos) = TRUE
    BY <1>2
  <2>2. CASE k = p
    <3>1. At(g, a, p - 1) = At(h, a, p - 1)
      BY <1>2, <1>5
    <3>2. ItemInv(g.items[p], At(g, a, p - 1), At(g, a, p), TRUE)
      BY <1>2, <1>6, <3>1
    <3> QED BY <2>1, <2>2, <3>2
  <2>3. CASE k # p
    <3>1. k \in 1..(p - 1) /\ k \in 0..(p - 1) /\ k - 1 \in 0..(p - 1) /\ k \in 1..Len(h.items) /\ (k <= h.pos) = TRUE
      BY <1>1, <1>2, <2>3
    <3>2. ItemInv(h.items[k], At(h, a, k - 1), At(h, a, k), k <= h.pos)
      BY <3>1 DEF HistOK
    <3>3. g.items[k] = h.items[k] /\ At(g, a, k - 1) = At(h, a, k - 1) /\ At(g, a, k) = At(h, a, k)
      BY <1>2, <1>5, <3>1
    <3>4. ItemInv(g.items[k], At(g, a, k - 1), At(g, a, k), TRUE)
      BY <3>1, <3>2, <3>3
    <3> QED BY <2>1, <3>4
  <2> QED BY <2>2, <2>3
<1>8. g.saved # -1 => FileIs(Trimmed(At(g, a, g.saved)), f)
  BY <1>3, <1>5 DEF HistOK, FileIs
<1> QED BY <1>1, <1>2, <1>4, <1>6, <1>7, <1>8 DEF HistOK

LEMMA FinishOK ==
  ASSUME NEW h, NEW a, NEW d, NEW f, HistOK(h, a, d, f), NEW g, NEW p, NEW i, Puts(h, g, p, i), p >= h.pos,
         p = h.pos => h.saved # h.pos \/ ~f.known, NEW e, ItemInv(i, At(h, a, p - 1), e, TRUE)
  PROVE  HistOK(SaveChecksum(g, e), a, e, f)
<1> DEFINE j == [i EXCEPT !.crc = e]
<1>1. e \in Doc
  BY DocIs DEF ItemInv, Doc
<1>2. ItemInv(j, At(h, a, p - 1), e, TRUE) /\ j.crc = e
  BY <1>1, ItemCrc
<1>3. SaveChecksum(g, e) = Change(g, j)
  BY <1>1, PutsIs
<1> HIDE DEF j
<1>4. j \in Item
  BY <1>2 DEF ItemInv
<1>5. Puts(h, Change(g, j), p, j)
  BY <1>4, ChangeIs
<1> QED BY <1>2, <1>3, <1>5, PutsOK

\* The position moves over item k, which is done or undone.
LEMMA MovedOK ==
  ASSUME NEW h, NEW a, NEW d, NEW f, HistOK(h, a, d, f), NEW k \in 1..Len(h.items), NEW m \in (k - 1)..k,
         h.pos \in (k - 1)..k, NEW j, ItemInv(j, At(h, a, k - 1), At(h, a, k), k <= m),
         j.crc = h.items[k].crc, NEW x \in Lasts
  PROVE  HistOK([h EXCEPT !.items[k] = j, !.pos = m, !.last = x], a, At(h, a, m), f)
<1> DEFINE q == [h.items EXCEPT ![k] = j]
           g == [h EXCEPT !.items[k] = j, !.pos = m, !.last = x]
<1>1. /\ h \in HistRec /\ h.items \in Seq(Item) /\ Len(h.items) \in Nat /\ h.saved \in -1..Len(h.items)
      /\ h.pos \in Nat /\ IsDoc(a) /\ j \in Item /\ k \in Nat
  BY DEF HistOK, HistShape, HistRec, ItemInv
<1>2. /\ q \in Seq(Item) /\ Len(q) = Len(h.items) /\ q[k] = j
      /\ \A n \in 1..Len(h.items) : n # k => q[n] = h.items[n]
  BY <1>1
<1>3. g = [h EXCEPT !.items = q, !.pos = m, !.last = x]
  BY <1>1 DEF HistRec
<1>4. m \in Nat /\ m <= Len(h.items)
  BY <1>1
<1> HIDE DEF q, g
<1>5. g \in HistRec /\ g.items = q /\ g.pos = m /\ g.saved = h.saved
  BY <1>1, <1>2, <1>3, <1>4 DEF HistRec
<1>6. HistShape(g)
  BY <1>1, <1>2, <1>4, <1>5 DEF HistShape
<1>7. \A n \in 0..Len(h.items) : At(g, a, n) = At(h, a, n)
  <2> SUFFICES ASSUME NEW n \in 0..Len(h.items) PROVE At(g, a, n) = At(h, a, n)
    OBVIOUS
  <2>1. CASE n = 0
    BY <2>1 DEF At
  <2>2. CASE n = k
    BY <1>1, <1>2, <1>5, <2>2 DEF At
  <2>3. CASE n # 0 /\ n # k
    <3>1. n \in 1..Len(h.items)
      BY <2>3
    <3> QED BY <1>2, <1>5, <2>3, <3>1 DEF At
  <2> QED BY <2>1, <2>2, <2>3
<1>8. ASSUME NEW n \in 1..Len(g.items)
      PROVE  ItemInv(g.items[n], At(g, a, n - 1), At(g, a, n), n <= g.pos)
  <2>1. n \in 1..Len(h.items) /\ n - 1 \in 0..Len(h.items) /\ n \in 0..Len(h.items)
    BY <1>1, <1>2, <1>5
  <2>2. At(g, a, n - 1) = At(h, a, n - 1) /\ At(g, a, n) = At(h, a, n)
    BY <1>7, <2>1
  <2>3. CASE n = k
    BY <1>2, <1>5, <2>2, <2>3
  <2>4. CASE n # k
    <3>1. g.items[n] = h.items[n]
      BY <1>2, <1>5, <2>1, <2>4
    <3>2. (n <= g.pos) = (n <= h.pos)
      BY <1>1, <1>5, <2>1, <2>4
    <3>3. ItemInv(h.items[n], At(h, a, n - 1), At(h, a, n), n <= h.pos)
      BY <2>1 DEF HistOK
    <3> QED BY <2>2, <3>1, <3>2, <3>3
  <2> QED BY <2>3, <2>4
<1>9. IsDoc(At(h, a, m))
  <2>1. m = k - 1 \/ m = k
    BY <1>1
  <2>2. IsDoc(At(h, a, k - 1)) /\ IsDoc(At(h, a, k))
    BY DEF ItemInv
  <2> QED BY <2>1, <2>2
<1>10. At(h, a, m) = At(g, a, g.pos)
  BY <1>4, <1>5, <1>7
<1>11. g.saved # -1 => FileIs(Trimmed(At(g, a, g.saved)), f)
  <2> SUFFICES ASSUME g.saved # -1 PROVE FileIs(Trimmed(At(g, a, g.saved)), f)
    OBVIOUS
  <2>1. h.saved \in 0..Len(h.items) /\ h.saved # -1
    BY <1>1, <1>5
  <2>2. FileIs(Trimmed(At(h, a, h.saved)), f)
    BY <2>1 DEF HistOK
  <2> QED BY <1>5, <1>7, <2>1, <2>2
<1>12. HistOK(g, a, At(h, a, m), f)
  BY <1>1, <1>6, <1>8, <1>9, <1>10, <1>11 DEF HistOK
<1> QED BY <1>12 DEF g

LEMMA FinishOne ==
  ASSUME NEW h, NEW a, NEW d, NEW f, HistOK(h, a, d, f), h.saved # h.pos \/ ~f.known, NEW g, NEW i, Puts(h, g, h.pos, i),
         NEW e, ItemInv(i, At(h, a, h.pos - 1), e, TRUE)
  PROVE  HistOK(SaveChecksum(g, e), a, e, f)
<1> DEFINE p == h.pos
<1>1. Puts(h, g, p, i) /\ ItemInv(i, At(h, a, p - 1), e, TRUE) /\ (h.saved # h.pos \/ ~f.known)
  OBVIOUS
<1>2. p >= h.pos
  BY DEF HistOK, HistShape, HistRec
<1> HIDE DEF p
<1> QED BY <1>1, <1>2, FinishOK

-----------------------------------------------------------------------------
(* The modified state.                                                     *)

\* Without a mark of modification document d is the file f; with the mark of
\* one line it is the file once that line is what it was.
ModOK(m, d, f) ==
  \/ m = Unmodified /\ FileIs(Trimmed(d), f)
  \/ m = Modified
  \/ m.is = "active" /\ m.line \in 1..Len(d) /\ FileIs(Trimmed(WithLine(d, m.line, m.stored)), f)

LEMMA MarksDiffer ==
  Unmodified.is = "no" /\ Modified.is = "yes" /\ Modified # Unmodified
BY DEF Unmodified, Modified

LEMMA SavedIs ==
  ASSUME NEW f, ModOK(mod, doc, f), IsDoc(doc)
  PROVE  Saved = Modified \/ (Saved = Unmodified /\ FileIs(Trimmed(doc), f))
<1>1. CASE mod = Unmodified /\ FileIs(Trimmed(doc), f)
  BY <1>1, MarksDiffer DEF Saved, Pending
<1>2. CASE mod = Modified
  BY <1>2, MarksDiffer DEF Saved, Pending
<1>3. CASE /\ mod.is = "active" /\ mod.line \in 1..Len(doc)
           /\ FileIs(Trimmed(WithLine(doc, mod.line, mod.stored)), f)
  <2>1. doc[mod.line] \in Line
    BY <1>3, DocIs
  <2>2. WithLine(doc, mod.line, doc[mod.line]) = doc
    BY <1>3, <2>1, WithLineIs
  <2> QED BY <1>3, <2>2 DEF Saved, Pending
<1> QED BY <1>1, <1>2, <1>3 DEF ModOK

LEMMA SavedOK ==
  ASSUME NEW f, ModOK(mod, doc, f), IsDoc(doc)
  PROVE  ModOK(Saved, doc, f)
BY SavedIs DEF ModOK

LEMMA MarkedOK ==
  ASSUME NEW f, ModOK(mod, doc, f), IsDoc(doc), NEW e, IsDoc(e), NEW l, OnlyLine(doc, e, l)
  PROVE  ModOK(Marked(l), e, f)
<1>1. /\ l \in 1..Len(doc) /\ l \in 1..Len(e) /\ e = WithLine(doc, l, e[l]) /\ doc = WithLine(e, l, doc[l])
      /\ e[l] \in Line
  BY DocIs DEF OnlyLine
<1>2. CASE Pending /\ mod.line = l
  <2>1. FileIs(Trimmed(WithLine(doc, l, mod.stored)), f) /\ mod.is = "active"
    BY <1>2, MarksDiffer DEF ModOK, Pending
  <2>2. \A y : WithLine(WithLine(doc, l, e[l]), l, y) = WithLine(doc, l, y)
    BY <1>1, WithLineIs
  <2>3. WithLine(e, l, mod.stored) = WithLine(doc, l, mod.stored)
    BY <1>1, <2>2
  <2> QED BY <1>1, <1>2, <2>1, <2>3 DEF ModOK, Marked
<1>3. CASE ~(Pending /\ mod.line = l) /\ Saved = Modified
  BY <1>3 DEF ModOK, Marked
<1>4. CASE ~(Pending /\ mod.line = l) /\ Saved # Modified
  <2>1. Marked(l) = [is |-> "active", line |-> l, stored |-> doc[l]]
    BY <1>4 DEF Marked
  <2>2. FileIs(Trimmed(doc), f)
    BY <1>4, SavedIs
  <2> QED BY <1>1, <2>1, <2>2 DEF ModOK
<1> QED BY <1>2, <1>3, <1>4

LEMMA ModAfterOK ==
  ASSUME NEW f, ModOK(mod, doc, f), IsDoc(doc), NEW e, IsDoc(e), NEW q, NEW l, q => OnlyLine(doc, e, l)
  PROVE  ModOK(ModAfter(q, l), e, f)
<1>1. CASE q
  BY <1>1, MarkedOK DEF ModAfter
<1>2. CASE ~q
  BY <1>2 DEF ModAfter, ModOK
<1> QED BY <1>1, <1>2

-----------------------------------------------------------------------------
(* Typed and deleted characters.                                           *)

LEMMA CurrentIs ==
  ASSUME NEW h, NEW a, NEW d, NEW f, HistOK(h, a, d, f), h.pos > 0
  PROVE  /\ Current(h) \in Item /\ ItemInv(Current(h), At(h, a, h.pos - 1), d, TRUE)
         /\ h.pos \in 1..Len(h.items) /\ HistShape(h)
<1>1. HistShape(h) /\ d = At(h, a, h.pos)
  BY DEF HistOK
<1>2. h.pos \in 1..Len(h.items) /\ (h.pos <= h.pos) = TRUE
  BY <1>1 DEF HistShape, HistRec
<1>3. ItemInv(h.items[h.pos], At(h, a, h.pos - 1), At(h, a, h.pos), h.pos <= h.pos)
  BY <1>2 DEF HistOK
<1>4. ItemInv(Current(h), At(h, a, h.pos - 1), d, TRUE)
  BY <1>1, <1>2, <1>3 DEF Current
<1> QED BY <1>1, <1>2, <1>4 DEF ItemInv

\* A text with a further character is another text.
LEMMA AppendIs ==
  ASSUME NEW s \in Line, NEW ch \in Chars
  PROVE  Append(s, ch) # s
<1>1. Len(Append(s, ch)) = Len(s) + 1 /\ Len(s) \in Nat
  BY DEF Line
<1> QED BY <1>1

LEMMA OneCharIs ==
  ASSUME NEW ch \in Chars
  PROVE  <<ch>> \in Line /\ Len(<<ch>>) = 1 /\ Reverse(<<ch>>) = <<ch>>
<1>1. <<ch>> \in Line /\ Len(<<ch>>) = 1
  BY DEF Line
<1>2. Reverse(<<ch>>) = <<ch>>
  BY <1>1, ReverseIs
<1> QED BY <1>1, <1>2

\* The item at the position, joined by a typed or a deleted character.
AddJoined(h, ch) == [Current(h) EXCEPT !.s = Append(@, ch)]
DelJoined(h, c, ch) == [Current(h) EXCEPT !.fwd = ~JoinsBack(Current(h), c), !.s = Append(@, ch)]

LEMMA AddJoinIs ==
  ASSUME NEW h, HistShape(h), Current(h) \in Item, NEW l, NEW c, NEW ch \in Chars, JoinsAdd(h, l, c, ch),
         NEW j, j = AddJoined(h, ch)
  PROVE  /\ Puts(h, AddChar(h, l, c, ch), h.pos, j) /\ Current(h) \in AddCharItem
         /\ j \in AddCharItem /\ j.act = "AddChar" /\ j.l = l /\ j.c = Current(h).c
         /\ j.s = Append(Current(h).s, ch) /\ j.s # Current(h).s
<1> DEFINE i == Current(h)
<1>1. h.pos > 0 /\ i.act = "AddChar" /\ i.l = l
  BY DEF JoinsAdd
<1>2. i \in AddCharItem
  BY <1>1, ItemKinds
<1>3. i.s \in Line /\ Append(i.s, ch) \in Line
  BY <1>2, ReverseIs DEF AddCharItem
<1>4. Append(i.s, ch) # i.s
  BY <1>3, AppendIs
<1>5. AddChar(h, l, c, ch) = Change(ClearEnd(h), j)
  BY DEF AddChar, AddJoined
<1> HIDE DEF i
<1>6. /\ j \in AddCharItem /\ j.act = "AddChar" /\ j.l = l /\ j.c = i.c /\ j.s = Append(i.s, ch)
  <2>1. j = [i EXCEPT !.s = Append(i.s, ch)]
    BY DEF i, AddJoined
  <2> QED BY <1>1, <1>2, <1>3, <2>1 DEF AddCharItem
<1>7. j \in Item
  BY <1>6 DEF Item
<1>8. Puts(h, AddChar(h, l, c, ch), h.pos, j)
  BY <1>1, <1>5, <1>7, JoinActionIs
<1> QED BY <1>2, <1>4, <1>6, <1>8 DEF i

DelJoins(i, l, c, ch, j) ==
  /\ i \in DelCharItem /\ j \in DelCharItem /\ j.act = "DelChar" /\ j.l = l /\ j.c = i.c
  /\ JoinsBack(i, c) => j.fwd = FALSE
  /\ ~JoinsBack(i, c) => j.fwd = TRUE
  /\ j.s = Append(i.s, ch) /\ j.s # i.s

LEMMA DelJoinIs ==
  ASSUME NEW h, HistShape(h), Current(h) \in Item, NEW l, NEW c, NEW ch \in Chars, JoinsDel(h, l, c),
         NEW j, j = DelJoined(h, c, ch)
  PROVE  Puts(h, DelChar(h, l, c, ch), h.pos, j) /\ DelJoins(Current(h), l, c, ch, j)
<1> DEFINE i == Current(h)
           w == ~JoinsBack(i, c)
<1>1. h.pos > 0 /\ i.act = "DelChar" /\ i.l = l
  BY DEF JoinsDel
<1>2. i \in DelCharItem
  BY <1>1, ItemKinds
<1>3. i.s \in Line /\ Append(i.s, ch) \in Line
  BY <1>2, ReverseIs DEF DelCharItem
<1>4. Append(i.s, ch) # i.s
  BY <1>3, AppendIs
<1>5. DelChar(h, l, c, ch) = Change(ClearEnd(h), j)
  BY DEF DelChar, DelJoined
<1>6. w \in BOOLEAN
  BY DEF JoinsBack
<1> HIDE DEF i, w
<1>7. /\ j \in DelCharItem /\ j.act = "DelChar" /\ j.l = l /\ j.c = i.c /\ j.s = Append(i.s, ch) /\ j.fwd = w
  <2>1. j = [i EXCEPT !.fwd = w, !.s = Append(i.s, ch)]
    BY <1>2 DEF i, w, DelCharItem, DelJoined
  <2> QED BY <1>1, <1>2, <1>3, <1>6, <2>1 DEF DelCharItem
<1>8. j \in Item
  BY <1>7 DEF Item
<1>9. Puts(h, DelChar(h, l, c, ch), h.pos, j)
  BY <1>1, <1>5, <1>8, JoinActionIs
<1>10. DelJoins(i, l, c, ch, j)
  BY <1>2, <1>4, <1>7 DEF DelJoins, w
<1> QED BY <1>9, <1>10 DEF i

\* A new item of one character.
LEMMA NewCharItems ==
  ASSUME NEW l \in Nat, NEW c \in Nat, NEW ch \in Chars
  PROVE  /\ [act |-> "AddChar", l |-> l, c |-> c, s |-> <<ch>>, crc |-> << >>] \in Item
         /\ [act |-> "DelChar", l |-> l, c |-> c, fwd |-> FALSE, s |-> <<ch>>, crc |-> << >>] \in Item
<1>1. <<ch>> \in Line /\ << >> \in Doc
  <2>1. << >> \in Seq(Line)
    OBVIOUS
  <2> QED BY <2>1, OneCharIs DEF Doc
<1>2. [act |-> "AddChar", l |-> l, c |-> c, s |-> <<ch>>, crc |-> << >>] \in AddCharItem
  BY <1>1 DEF AddCharItem
<1>3. [act |-> "DelChar", l |-> l, c |-> c, fwd |-> FALSE, s |-> <<ch>>, crc |-> << >>] \in DelCharItem
  BY <1>1 DEF DelCharItem
<1> QED BY <1>2, <1>3 DEF Item

LEMMA AddCharOK ==
  ASSUME NEW h, NEW a, NEW d, NEW f, HistOK(h, a, d, f), NEW l, NEW c, NEW ch \in Chars, NEW e,
         OneIns(d, l, c, <<ch>>, e), JoinsAdd(h, l, c, ch) => h.saved # h.pos \/ ~f.known
  PROVE  HistOK(SaveChecksum(AddChar(h, l, c, ch), e), a, e, f)
<1> DEFINE g == AddChar(h, l, c, ch)
<1>1. HistShape(h) /\ h.pos \in Nat /\ d = At(h, a, h.pos) /\ IsDoc(a)
  BY DEF HistOK, HistShape, HistRec
<1>2. l \in Nat /\ c \in Nat /\ IsDoc(d) /\ IsDoc(e)
  BY OneInsIs DEF OneIns
<1>3. CASE JoinsAdd(h, l, c, ch)
  <2>0. PICK j : j = AddJoined(h, ch)
    OBVIOUS
  <2> DEFINE i == Current(h)
             b == At(h, a, h.pos - 1)
  <2>1. h.pos > 0 /\ i.act = "AddChar" /\ i.l = l /\ c = i.c + Len(i.s) /\ (h.saved # h.pos \/ ~f.known)
    BY <1>3 DEF JoinsAdd
  <2>2. i \in Item /\ ItemInv(i, b, d, TRUE)
    BY <2>1, CurrentIs
  <2>3. /\ Puts(h, g, h.pos, j) /\ i \in AddCharItem
        /\ j \in AddCharItem /\ j.act = "AddChar" /\ j.l = l /\ j.c = i.c /\ j.s = Append(i.s, ch)
    BY <1>1, <1>3, <2>0, <2>2, AddJoinIs
  <2>4. OneIns(b, l, i.c, i.s, d) /\ IsDoc(b)
    BY <2>1, <2>2 DEF ItemInv
  <2> HIDE DEF i, b, g
  <2>5. OneIns(d, l, i.c + Len(i.s), <<ch>>, e)
    BY <2>1
  <2>6. OneIns(b, l, i.c, i.s \o <<ch>>, e)
    BY <2>4, <2>5, JoinIns
  <2>7. Append(i.s, ch) = i.s \o <<ch>>
    <3>1. i.s \in Line
      BY <2>3 DEF AddCharItem
    <3> QED BY <3>1, ReverseIs
  <2>8. j \in Item
    BY <2>3 DEF Item
  <2>9. ItemInv(j, b, e, TRUE)
    BY <1>2, <2>3, <2>4, <2>6, <2>7, <2>8 DEF ItemInv
  <2>10. ItemInv(j, At(h, a, h.pos - 1), e, TRUE)
    BY <2>9 DEF b
  <2>11. HistOK(SaveChecksum(g, e), a, e, f)
    BY <2>1, <2>3, <2>10, FinishOne
  <2> QED BY <2>11 DEF g
<1>4. CASE ~JoinsAdd(h, l, c, ch)
  <2> DEFINE j == [act |-> "AddChar", l |-> l, c |-> c, s |-> <<ch>>, crc |-> << >>]
             p == h.pos + 1
  <2>1. g = AddAction(h, j)
    BY <1>4 DEF AddChar
  <2>2. j \in Item
    BY <1>2, NewCharItems
  <2>3. Puts(h, g, p, j)
    BY <1>1, <2>1, <2>2, AddActionIs
  <2>4. ItemInv(j, d, e, TRUE)
    BY <1>2, <2>2 DEF ItemInv
  <2>5. p - 1 = h.pos /\ p # h.pos /\ p >= h.pos
    BY <1>1
  <2> HIDE DEF p, j, g
  <2>6. ItemInv(j, At(h, a, p - 1), e, TRUE)
    BY <1>1, <2>4, <2>5
  <2>7. HistOK(SaveChecksum(g, e), a, e, f)
    BY <2>3, <2>5, <2>6, FinishOK
  <2> QED BY <2>7 DEF g
<1> QED BY <1>3, <1>4

LEMMA DelCharOK ==
  ASSUME NEW h, NEW a, NEW d, NEW f, HistOK(h, a, d, f), NEW l, NEW c, NEW ch \in Chars, NEW e,
         OneIns(e, l, c, <<ch>>, d), JoinsDel(h, l, c) => h.saved # h.pos \/ ~f.known
  PROVE  HistOK(SaveChecksum(DelChar(h, l, c, ch), e), a, e, f)
<1> DEFINE g == DelChar(h, l, c, ch)
<1>1. HistShape(h) /\ h.pos \in Nat /\ d = At(h, a, h.pos) /\ IsDoc(a)
  BY DEF HistOK, HistShape, HistRec
<1>2. l \in Nat /\ c \in Nat /\ IsDoc(d) /\ IsDoc(e)
  BY OneInsIs DEF OneIns
<1>3. CASE JoinsDel(h, l, c)
  <2>0. PICK j : j = DelJoined(h, c, ch)
    OBVIOUS
  <2> DEFINE i == Current(h)
             b == At(h, a, h.pos - 1)
  <2>1. /\ h.pos > 0 /\ i.act = "DelChar" /\ i.l = l /\ (h.saved # h.pos \/ ~f.known)
        /\ JoinsBack(i, c) \/ JoinsFwd(i, c)
    BY <1>3 DEF JoinsDel
  <2>2. i \in Item /\ ItemInv(i, b, d, TRUE)
    BY <2>1, CurrentIs
  <2>3. /\ Puts(h, g, h.pos, j) /\ i \in DelCharItem
        /\ j \in DelCharItem /\ j.act = "DelChar" /\ j.l = l /\ j.c = i.c
        /\ JoinsBack(i, c) => j.fwd = FALSE
        /\ ~JoinsBack(i, c) => j.fwd = TRUE
        /\ j.s = Append(i.s, ch)
    <3>1. Puts(h, g, h.pos, j) /\ DelJoins(Current(h), l, c, ch, j)
      BY <1>1, <1>3, <2>0, <2>2, DelJoinIs
    <3> QED BY <3>1 DEF DelJoins
  <2>4. OneIns(d, l, DelStart(i), DelText(i), b) /\ IsDoc(b) /\ Len(i.s) >= 1
    BY <2>1, <2>2 DEF ItemInv
  <2>5. i.s \in Line /\ Len(i.s) \in Nat /\ i.c \in Nat /\ i.fwd \in BOOLEAN
    BY <2>3 DEF DelCharItem, Line
  <2>6. /\ Append(i.s, ch) = i.s \o <<ch>> /\ Len(Append(i.s, ch)) = Len(i.s) + 1
        /\ Reverse(Append(i.s, ch)) = <<ch>> \o Reverse(i.s)
        /\ Len(i.s) = 1 => Reverse(i.s) = i.s
    BY <2>5, ReverseIs
  <2>7. Len(<<ch>>) = 1
    BY OneCharIs
  <2> HIDE DEF i, b, g
  <2>8. OneIns(e, l, DelStart(j), DelText(j), b)
    <3>1. CASE JoinsBack(i, c)
      <4>1. ~i.fwd /\ c = i.c - Len(i.s) /\ j.fwd = FALSE
        BY <2>3, <3>1 DEF JoinsBack
      <4>2. DelStart(i) = c + Len(<<ch>>) /\ DelText(i) = Reverse(i.s)
        BY <2>5, <2>7, <4>1 DEF DelStart, DelText
      <4>3. OneIns(d, l, c + Len(<<ch>>), Reverse(i.s), b)
        BY <2>4, <4>2
      <4>4. OneIns(e, l, c, <<ch>> \o Reverse(i.s), b)
        BY <4>3, JoinIns
      <4>5. DelText(j) = Reverse(Append(i.s, ch)) /\ DelStart(j) = i.c - Len(Append(i.s, ch)) + 1
        BY <2>3, <4>1 DEF DelText, DelStart
      <4>6. DelStart(j) = c
        BY <2>5, <2>6, <4>1, <4>5
      <4> QED BY <2>3, <2>6, <4>4, <4>5, <4>6
    <3>2. CASE ~JoinsBack(i, c)
      <4>1. (i.fwd \/ Len(i.s) = 1) /\ c = i.c /\ j.fwd = TRUE
        BY <2>1, <2>3, <3>2 DEF JoinsFwd
      <4>2. DelText(i) = i.s
        BY <2>6, <4>1 DEF DelText
      <4>3. DelStart(i) = c
        <5>1. DelStart(i) = IF i.fwd THEN i.c ELSE i.c - Len(i.s) + 1
          BY DEF DelStart
        <5>2. CASE i.fwd
          BY <4>1, <5>1, <5>2
        <5>3. CASE ~i.fwd
          <6>0. Len(i.s) = 1 /\ i.c \in Nat
            BY <2>5, <4>1, <5>3
          <6>1. i.c - Len(i.s) + 1 = i.c
            BY ONLY <6>0
          <6> QED BY <4>1, <5>1, <5>3, <6>1
        <5> QED BY <5>2, <5>3
      <4>4. OneIns(d, l, c, i.s, b)
        BY <2>4, <4>2, <4>3
      <4>5. OneIns(e, l, c, i.s \o <<ch>>, b)
        BY <4>4, JoinIns
      <4>6. DelText(j) = Append(i.s, ch) /\ DelStart(j) = c
        BY <2>3, <4>1 DEF DelText, DelStart
      <4> QED BY <2>3, <2>6, <4>5, <4>6
    <3> QED BY <3>1, <3>2
  <2>9. j \in Item /\ Len(j.s) >= 1
    BY <2>3, <2>5, <2>6 DEF Item
  <2>10. ItemInv(j, b, e, TRUE)
    BY <1>2, <2>3, <2>4, <2>8, <2>9 DEF ItemInv
  <2>11. ItemInv(j, At(h, a, h.pos - 1), e, TRUE)
    BY <2>10 DEF b
  <2>12. HistOK(SaveChecksum(g, e), a, e, f)
    BY <2>1, <2>3, <2>11, FinishOne
  <2> QED BY <2>12 DEF g
<1>4. CASE ~JoinsDel(h, l, c)
  <2> DEFINE j == [act |-> "DelChar", l |-> l, c |-> c, fwd |-> FALSE, s |-> <<ch>>, crc |-> << >>]
             p == h.pos + 1
  <2>1. g = AddAction(h, j)
    BY <1>4 DEF DelChar
  <2>2. j \in Item
    BY <1>2, NewCharItems
  <2>3. Puts(h, g, p, j)
    BY <1>1, <2>1, <2>2, AddActionIs
  <2>4. /\ j.act = "DelChar" /\ j.l = l /\ j.s = <<ch>> /\ DelText(j) = Reverse(<<ch>>)
        /\ DelStart(j) = c - Len(<<ch>>) + 1
    BY DEF DelText, DelStart
  <2>5. DelText(j) = <<ch>> /\ DelStart(j) = c /\ Len(j.s) >= 1
    <3>1. <<ch>> \in Line /\ Len(<<ch>>) = 1 /\ Reverse(<<ch>>) = <<ch>>
      BY OneCharIs
    <3>2. c - Len(<<ch>>) + 1 = c
      BY <1>2, <3>1
    <3> QED BY <2>4, <3>1, <3>2
  <2>6. p - 1 = h.pos /\ p # h.pos /\ p >= h.pos
    BY <1>1
  <2> HIDE DEF p, j, g
  <2>7. ItemInv(j, d, e, TRUE)
    BY <1>2, <2>2, <2>4, <2>5 DEF ItemInv
  <2>8. ItemInv(j, At(h, a, p - 1), e, TRUE)
    BY <1>1, <2>6, <2>7
  <2>9. HistOK(SaveChecksum(g, e), a, e, f)
    BY <2>3, <2>6, <2>8, FinishOK
  <2> QED BY <2>9 DEF g
<1> QED BY <1>3, <1>4

-----------------------------------------------------------------------------
(* Deleted, inserted and replaced text.                                    *)

\* A range that is not empty has a text of some size.
LEMMA RangeSize ==
  ASSUME NEW d, IsDoc(d), NEW r, In(d, r), r.l0 < r.l1 \/ (r.l0 = r.l1 /\ r.c0 < r.c1)
  PROVE  SizeOf(TextOf(d, r)) \in Int /\ SizeOf(TextOf(d, r)) > 0
<1> DEFINE t == TextOf(d, r)
<1>1. r.l0 \in Nat /\ r.l1 \in Nat /\ r.c0 \in Nat /\ r.c1 \in Nat
  BY DEF In, Range4
<1>2. t \in Text /\ Len(t) = r.l1 - r.l0 + 1 /\ (r.l0 = r.l1 => t = <<SubSeq(d[r.l0], r.c0 + 1, r.c1)>>)
  BY TextIs
<1>3. t # <<<<>>>>
  <2>1. CASE r.l0 < r.l1
    <3>1. Len(t) # 1
      BY <1>1, <1>2, <2>1
    <3> HIDE DEF t
    <3> QED BY <3>1
  <2>2. CASE r.l0 = r.l1 /\ r.c0 < r.c1
    <3> DEFINE x == d[r.l0]
               s == SubSeq(x, r.c0 + 1, r.c1)
    <3>1. x \in Seq(Chars) /\ r.c0 \in Nat /\ r.c1 \in Nat /\ r.c0 <= r.c1 /\ r.c1 <= Len(x)
      BY <1>1, <2>2, InIs
    <3> HIDE DEF x
    <3>2. Len(s) = r.c1 - r.c0
      BY ONLY SMTT(40), <3>1, SubIs
    <3>3. Len(s) # 0
      BY <1>1, <2>2, <3>2
    <3>4. t = <<s>>
      BY <1>2, <2>2 DEF x
    <3> HIDE DEF s, t
    <3> QED BY <3>3, <3>4
  <2> QED BY <2>1, <2>2
<1> HIDE DEF t
<1>4. SizeOf(t) \in Int /\ (SizeOf(t) <= 0 => t = <<<<>>>>)
  BY <1>2, SizeIs
<1>5. SizeOf(t) > 0
  <2>1. ~(SizeOf(t) <= 0)
    BY <1>3, <1>4
  <2> QED BY <1>4, <2>1
<1> QED BY <1>4, <1>5 DEF t

LEMMA SelectionIs ==
  ASSUME NEW d, IsDoc(d), NEW r \in Selections(d)
  PROVE  /\ In(d, r) /\ ~Empty(r)
         /\ SizeOf(TextOf(d, r)) \in Int /\ SizeOf(TextOf(d, r)) > 0
<1>1. DOMAIN d = 1..Len(d) /\ Len(d) \in Nat /\ \A l \in 1..Len(d) : Len(d[l]) \in Nat
  BY DocIs
<1>2. PICK l \in DOMAIN d, m \in DOMAIN d : \E c \in 0..Len(d[l]), e \in 0..Len(d[m]) : r = Rng(l, c, m, e)
  BY DEF Selections
<1>3. PICK c \in 0..Len(d[l]), e \in 0..Len(d[m]) : r = Rng(l, c, m, e)
  BY <1>2
<1>4. r.l0 = l /\ r.c0 = c /\ r.l1 = m /\ r.c1 = e /\ r \in Range4
  BY <1>1, <1>2, <1>3 DEF Rng, Range4
<1>5. r.l0 < r.l1 \/ (r.l0 = r.l1 /\ r.c0 < r.c1)
  BY DEF Selections, OneLine
<1>6. In(d, r)
  BY <1>1, <1>2, <1>3, <1>4, <1>5 DEF In
<1>7. r.l0 \in Nat /\ r.l1 \in Nat /\ r.c0 \in Nat /\ r.c1 \in Nat
  BY <1>4 DEF Range4
<1>8. ~Empty(r)
  BY <1>5, <1>7 DEF Empty, OneLine
<1>9. SizeOf(TextOf(d, r)) \in Int /\ SizeOf(TextOf(d, r)) > 0
  BY <1>5, <1>6, RangeSize
<1> QED BY <1>6, <1>8, <1>9

\* What is put in has some size, unless it is nothing.
LEMMA PutSize ==
  ASSUME NEW d, IsDoc(d), NEW l \in 1..Len(d), NEW c \in 0..Len(d[l]), NEW t \in Text, Fits(d, l, c, t),
         t # <<<<>>>>, NEW e, IsDoc(e), e = Put(d, l, c, t), NEW u, u = PutRange(l, c, t)
  PROVE  SizeOf(TextOf(e, u)) > 0
<1>1. /\ In(e, u) /\ u.l0 = l /\ u.c0 = c /\ u.l1 = l + Len(t) - 1
      /\ Len(t) = 1 => u.c1 = c + Len(t[1])
  BY PutCut
<1>2. Len(t) \in Nat \ {0} /\ l \in Nat /\ c \in Nat /\ Len(t[1]) \in Nat /\ t[1] \in Seq(Chars)
  BY TextParts, DocIs
<1>3. CASE Len(t) = 1
  <2>1. t[1] # << >>
    <3> DEFINE v == <<<<>>>>
    <3>1. v \in Seq(Line) /\ Len(v) = 1 /\ v[1] = << >> /\ t \in Seq(Line)
      BY DEF Line, Text
    <3> HIDE DEF v
    <3>2. ASSUME t[1] = << >> PROVE t = v
      <4>1. \A i \in 1..Len(t) : t[i] = v[i]
        BY <1>3, <3>1, <3>2
      <4>2. t \in Seq(Line) /\ v \in Seq(Line) /\ Len(t) = Len(v) /\ \A i \in 1..Len(t) : t[i] = v[i]
        BY <1>3, <3>1, <4>1
      <4> QED BY ONLY <4>2, SeqSame
    <3> QED BY <3>2 DEF v
  <2>2. Len(t[1]) # 0
    BY <1>2, <2>1
  <2>3. u.l0 = u.l1 /\ u.c0 < u.c1
    BY <1>1, <1>2, <1>3, <2>2
  <2> QED BY <1>1, <2>3, RangeSize
<1>4. CASE Len(t) # 1
  <2>1. PICK k : k = Len(t)
    OBVIOUS
  <2>2. k \in Nat /\ k # 0 /\ k # 1 /\ l \in Nat /\ u.l0 = l /\ u.l1 = l + k - 1
    BY <1>1, <1>2, <1>4, <2>1
  <2>3. u.l0 < u.l1
    BY ONLY <2>2
  <2> QED BY <1>1, <2>3, RangeSize
<1> QED BY <1>3, <1>4

LEMMA InsNothing ==
  ASSUME NEW d, IsDoc(d), NEW l \in 1..Len(d), NEW c \in 0..Len(d[l])
  PROVE  OneIns(d, l, c, << >>, d)
<1> DEFINE x == d[l]
<1>1. x \in Seq(Chars) /\ x \in Line /\ c \in 0..Len(x) /\ << >> \in Line
  BY DocIs DEF Line
<1>2. Take(x, c) \in Seq(Chars) /\ Drop(x, c) \in Seq(Chars) /\ Take(x, c) \o Drop(x, c) = x
  BY ONLY <1>1, TakeIs, DropIs, TakeDrop
<1> HIDE DEF x
<1>3. Take(x, c) \o << >> = Take(x, c)
  BY <1>2
<1>4. Ins(x, c, << >>) = x
  BY <1>2, <1>3 DEF Ins
<1>5. WithLine(d, l, x) = d
  BY <1>1, WithLineIs DEF x
<1> QED BY <1>1, <1>4, <1>5 DEF OneIns, x

\* Where text was cut out, text may be put in.
LEMMA CutAt ==
  ASSUME NEW d, IsDoc(d), NEW r, In(d, r)
  PROVE  r.l0 \in 1..Len(Cut(d, r)) /\ r.c0 \in 0..Len(Cut(d, r)[r.l0])
<1>1. /\ Len(Cut(d, r)) = Len(d) - (r.l1 - r.l0) /\ Cut(d, r)[r.l0] = Merged(d, r)
  BY CutIs
<1>2. /\ r.l0 \in Nat \ {0} /\ r.l1 \in Nat /\ r.l1 <= Len(d) /\ r.l0 <= r.l1 /\ Len(d) \in Nat
      /\ r.c0 \in Nat /\ r.c1 \in Nat /\ r.c1 <= Len(d[r.l1]) /\ Len(d[r.l1]) \in Nat
  BY InIs, DocIs
<1>3. Len(Merged(d, r)) = r.c0 + (Len(d[r.l1]) - r.c1)
  BY MergedIs
<1>4. r.l0 \in 1..(Len(d) - (r.l1 - r.l0))
  BY <1>2
<1>5. Len(Merged(d, r)) \in Nat /\ r.c0 <= Len(Merged(d, r))
  BY <1>2, <1>3
<1> QED BY <1>1, <1>2, <1>4, <1>5

\* The part that holds the text of a range.
Holds(p, d, r, n, inDoc) == p \in TextPart /\ p.r = r /\ p.n = n /\ Held(p, d, inDoc)

LEMMA PartIs ==
  ASSUME NEW d, IsDoc(d), NEW r, In(d, r), NEW n \in Int
  PROVE  Holds(Part(r, n, TextOf(d, r)), d, r, n, FALSE)
<1> DEFINE p == Part(r, n, TextOf(d, r))
<1>1. TextOf(d, r) \in Doc /\ r \in Range4
  BY TextIs DEF Text, Doc, In
<1>2. p.r = r /\ p.n = n /\ p.t = TextOf(d, r) /\ p \in TextPart
  BY <1>1 DEF Part, TextPart
<1> QED BY <1>2 DEF Held, Holds

LEMMA PartInDoc ==
  ASSUME NEW d, IsDoc(d), NEW r, In(d, r), NEW n \in Int
  PROVE  Holds(Part(r, n, IF Long(n) THEN NoText ELSE TextOf(d, r)), d, r, n, TRUE)
<1> DEFINE p == Part(r, n, IF Long(n) THEN NoText ELSE TextOf(d, r))
<1>1. TextOf(d, r) \in Doc /\ r \in Range4
  BY TextIs DEF Text, Doc, In
<1>2. p.r = r /\ p.n = n /\ p.t = (IF Long(n) THEN NoText ELSE TextOf(d, r)) /\ p \in TextPart
  BY <1>1 DEF Part, TextPart
<1> QED BY <1>2 DEF Held, Holds

\* The selections that are deleted as a character.
OneChar(r) == OneLine(r) /\ r.c1 = r.c0 + 1

LEMMA OneCharText ==
  ASSUME NEW d, IsDoc(d), NEW r, In(d, r), OneChar(r)
  PROVE  /\ TextOf(d, r)[1][1] \in Chars
         /\ SubSeq(d[r.l0], r.c0 + 1, r.c1) = <<TextOf(d, r)[1][1]>>
<1> DEFINE x == d[r.l0]
           s == SubSeq(x, r.c0 + 1, r.c1)
<1>1. x \in Seq(Chars) /\ r.c0 \in Nat /\ r.c1 \in Nat /\ r.c0 <= r.c1 /\ r.c1 <= Len(x) /\ r.c1 - r.c0 = 1
  BY InIs DEF OneChar, OneLine
<1>2. TextOf(d, r) = <<s>>
  BY DEF OneChar, TextOf
<1> HIDE DEF x
<1>3. s \in Seq(Chars) /\ Len(s) = r.c1 - r.c0
  BY ONLY <1>1, SubIs
<1> HIDE DEF s
<1>4. Len(s) = 1
  BY <1>1, <1>3
<1>5. PICK ch : ch = s[1]
  OBVIOUS
<1>6. ch \in Chars /\ s = <<ch>>
  <2>1. ch \in Chars
    BY ONLY <1>3, <1>4, <1>5
  <2>2. <<ch>> \in Seq(Chars) /\ Len(<<ch>>) = 1 /\ <<ch>>[1] = ch
    BY ONLY <2>1
  <2> DEFINE u == <<ch>>
  <2> HIDE DEF u
  <2>3. u \in Seq(Chars) /\ Len(s) = Len(u) /\ \A i \in 1..Len(s) : s[i] = u[i]
    BY <1>4, <1>5, <2>2 DEF u
  <2>4. s = u
    BY ONLY <1>3, <2>3, SeqSame
  <2> QED BY <2>1, <2>4 DEF u
<1>7. TextOf(d, r)[1][1] = ch
  BY <1>2, <1>6
<1> QED BY <1>6, <1>7 DEF s, x

LEMMA DelTextOK ==
  ASSUME NEW h, NEW a, NEW d, NEW f, HistOK(h, a, d, f), NEW r \in Selections(d), IsDoc(Cut(d, r)),
         OneChar(r) /\ JoinsDel(h, r.l0, r.c0) => h.saved # h.pos \/ ~f.known
  PROVE  HistOK(SaveChecksum(DelTextRange(h, d, r, TRUE), Cut(d, r)), a, Cut(d, r), f)
<1> DEFINE g == DelTextRange(h, d, r, TRUE)
           e == Cut(d, r)
           t == TextOf(d, r)
<1>1. HistShape(h) /\ h.pos \in Nat /\ d = At(h, a, h.pos) /\ IsDoc(a) /\ IsDoc(d)
  BY DEF HistOK, HistShape, HistRec
<1>2. In(d, r) /\ SizeOf(t) \in Int
  BY <1>1, SelectionIs
<1>3. CASE OneChar(r)
  <2> DEFINE ch == t[1][1]
  <2>1. ch \in Chars /\ SubSeq(d[r.l0], r.c0 + 1, r.c1) = <<ch>>
    BY <1>1, <1>2, <1>3, OneCharText
  <2>2. OneIns(e, r.l0, r.c0, SubSeq(d[r.l0], r.c0 + 1, r.c1), d)
    BY <1>1, <1>2, <1>3, CutOne DEF OneChar
  <2>3. g = DelChar(h, r.l0, r.c0, ch)
    BY <1>3 DEF DelTextRange, OneChar
  <2> HIDE DEF ch, e, g
  <2>4. HistOK(SaveChecksum(g, e), a, e, f)
    BY <1>3, <2>1, <2>2, <2>3, DelCharOK
  <2> QED BY <2>4 DEF e, g
<1>4. CASE ~OneChar(r)
  <2> DEFINE n == SizeOf(t)
             q == Part(r, n, t)
             j == [act |-> "DelTextRange", del |-> q, crc |-> << >>]
             p == h.pos + 1
  <2>1. g = AddAction(h, j)
    BY <1>4 DEF DelTextRange, OneChar
  <2>2. q = Part(r, n, TextOf(d, r)) /\ n \in Int
    BY <1>2
  <2> HIDE DEF n, q
  <2>3. q \in TextPart /\ q.r = r /\ Held(q, d, FALSE)
    <3>1. Holds(q, d, r, n, FALSE)
      BY <1>1, <1>2, <2>2, PartIs
    <3> QED BY <3>1 DEF Holds
  <2>4. << >> \in Doc
    <3>1. << >> \in Seq(Line)
      OBVIOUS
    <3> QED BY <3>1 DEF Doc
  <2>5. j \in DelTextItem /\ j.act = "DelTextRange" /\ j.del = q
    BY <2>3, <2>4 DEF DelTextItem
  <2>6. p - 1 = h.pos /\ p # h.pos /\ p >= h.pos
    BY <1>1
  <2> HIDE DEF j, p, g, e
  <2>7. j \in Item
    BY <2>5 DEF Item
  <2>8. Puts(h, g, p, j)
    BY <1>1, <2>1, <2>7, AddActionIs DEF p
  <2>9. IsDoc(e) /\ e = Cut(d, q.r) /\ In(d, q.r)
    BY <1>2, <2>3 DEF e
  <2>10. ItemInv(j, d, e, TRUE)
    BY <1>1, <2>3, <2>5, <2>7, <2>9 DEF ItemInv
  <2>11. ItemInv(j, At(h, a, p - 1), e, TRUE)
    BY <1>1, <2>6, <2>10
  <2>12. HistOK(SaveChecksum(g, e), a, e, f)
    BY <2>6, <2>8, <2>11, FinishOK
  <2> QED BY <2>12 DEF g, e
<1> QED BY <1>3, <1>4

\* The item of a selection that is to be replaced, before the text is in.
SelItem(d, r) ==
  [act |-> "DelAddTextRange", del |-> Part(r, SizeOf(TextOf(d, r)), TextOf(d, r)), crc |-> << >>,
   ins |-> Part([r EXCEPT !.c1 = r.c0], -1, NoText)]
SelItemIs(i, d, r) ==
  /\ i \in DelAddItem /\ i \in Item /\ i.act = "DelAddTextRange"
  /\ i.del \in TextPart /\ i.del.r = r /\ i.del.n > 0 /\ Held(i.del, d, FALSE)
  /\ i.ins.n = -1 /\ i.ins.r \in Range4
  /\ i.ins.r.l0 = r.l0 /\ i.ins.r.c0 = r.c0 /\ i.ins.r.l1 = r.l1 /\ i.ins.r.c1 = r.c0

LEMMA SelItemOK ==
  ASSUME NEW h, HistShape(h), NEW d, IsDoc(d), NEW r \in Selections(d), NEW i, i = SelItem(d, r)
  PROVE  Puts(h, DelTextRange(h, d, r, FALSE), h.pos + 1, i) /\ SelItemIs(i, d, r)
<1> DEFINE t == TextOf(d, r)
           n == SizeOf(t)
           q == Part(r, n, t)
           u == [r EXCEPT !.c1 = r.c0]
           v == Part(u, -1, NoText)
<1>1. In(d, r) /\ n \in Int /\ n > 0 /\ r \in Range4
  BY SelectionIs DEF In
<1>2. DelTextRange(h, d, r, FALSE) = AddAction(h, i)
  BY DEF DelTextRange, SelItem
<1>3. i = [act |-> "DelAddTextRange", del |-> q, crc |-> << >>, ins |-> v]
  BY DEF SelItem
<1>4. q = Part(r, n, TextOf(d, r))
  OBVIOUS
<1> HIDE DEF n, q
<1>5. q \in TextPart /\ q.r = r /\ q.n = n /\ Held(q, d, FALSE)
  <2>1. Holds(q, d, r, n, FALSE)
    BY <1>1, <1>4, PartIs
  <2> QED BY <2>1 DEF Holds
<1>6. << >> \in Doc
  <2>1. << >> \in Seq(Line)
    OBVIOUS
  <2> QED BY <2>1 DEF Doc
<1>7. u \in Range4 /\ u.l0 = r.l0 /\ u.c0 = r.c0 /\ u.l1 = r.l1 /\ u.c1 = r.c0
  BY <1>1 DEF Range4
<1> HIDE DEF u
<1>8. v \in TextPart /\ v.r = u /\ v.n = -1
  BY <1>7 DEF TextPart, Part
<1> HIDE DEF v
<1>9. i \in DelAddItem /\ i.act = "DelAddTextRange" /\ i.del = q /\ i.ins = v
  BY <1>3, <1>5, <1>6, <1>8 DEF DelAddItem
<1>10. i \in Item
  BY <1>9 DEF Item
<1>11. SelItemIs(i, d, r)
  BY <1>1, <1>5, <1>7, <1>8, <1>9, <1>10 DEF SelItemIs
<1>12. Puts(h, AddAction(h, i), h.pos + 1, i)
  BY <1>10, AddActionIs
<1> QED BY <1>2, <1>11, <1>12

LEMMA AddTextOK ==
  ASSUME NEW h, NEW a, NEW d, NEW f, HistOK(h, a, d, f), NEW e, IsDoc(e), NEW r, In(e, r), Cut(e, r) = d,
         SizeOf(TextOf(e, r)) > 0
  PROVE  HistOK(SaveChecksum(AddPasteRange(h, e, r, FALSE), e), a, e, f)
<1> DEFINE n == SizeOf(TextOf(e, r))
           q == Part(r, n, IF Long(n) THEN NoText ELSE TextOf(e, r))
           j == [act |-> "AddTextRange", ins |-> q, crc |-> << >>]
           k == AddAction(h, j)
           g == AddPasteRange(h, e, r, FALSE)
           p == h.pos + 1
<1>1. HistShape(h) /\ h.pos \in Nat /\ d = At(h, a, h.pos) /\ IsDoc(d)
  BY DEF HistOK, HistShape, HistRec
<1>2. n \in Int /\ n > 0
  BY TextIs, SizeIs
<1>3. g = [k EXCEPT !.last = "AddTextRange"]
  BY DEF AddPasteRange
<1>4. << >> \in Doc
  <2>1. << >> \in Seq(Line)
    OBVIOUS
  <2> QED BY <2>1 DEF Doc
<1>5. Holds(q, e, r, n, TRUE)
  BY <1>2, PartInDoc
<1> HIDE DEF q, n, k, g
<1>6. q \in TextPart /\ q.r = r /\ q.n = n /\ q.n > 0 /\ Held(q, e, TRUE)
  BY <1>2, <1>5 DEF Holds
<1>7. j \in AddTextItem /\ j.act = "AddTextRange" /\ j.ins = q
  BY <1>4, <1>6 DEF AddTextItem
<1>8. p - 1 = h.pos /\ p # h.pos /\ p >= h.pos
  BY <1>1
<1> HIDE DEF j, p
<1>9. j \in Item
  BY <1>7 DEF Item
<1>10. Puts(h, k, p, j)
  BY <1>1, <1>9, AddActionIs DEF k, p
<1>11. "AddTextRange" \in Lasts
  BY DEF Lasts, Acts
<1>12. Puts(h, g, p, j)
  BY <1>3, <1>10, <1>11, PutsIs
<1>13. ItemInv(j, d, e, TRUE)
  BY <1>1, <1>6, <1>7, <1>9 DEF ItemInv
<1>14. ItemInv(j, At(h, a, p - 1), e, TRUE)
  BY <1>1, <1>8, <1>13
<1>15. HistOK(SaveChecksum(g, e), a, e, f)
  BY <1>8, <1>12, <1>14, FinishOK
<1> QED BY <1>15 DEF g

\* The empty range at the start of a selection, and a text of no size.
LEMMA EmptyIs ==
  ASSUME NEW d, IsDoc(d), NEW u \in Range4, u.l0 \in 1..Len(d), u.c0 \in 0..Len(d[u.l0]), u.l1 = u.l0, u.c1 = u.c0
  PROVE  In(d, u) /\ Cut(d, u) = d
<1> DEFINE l == u.l0
           c == u.c0
           v == Span(l, c, << >>)
<1>1. OneIns(d, l, c, << >>, d)
  BY InsNothing
<1>2. Spans(d, l, c, << >>, d)
  BY <1>1, OneInsUndo
<1>3. Cut(d, v) = d /\ In(d, v)
  BY <1>2 DEF Spans
<1>4. c \in Nat /\ l \in Nat
  BY DEF Range4
<1>5. v.l0 = l /\ v.c0 = c /\ v.l1 = l /\ v.c1 = c
  BY <1>4 DEF Span, Rng
<1> HIDE DEF v
<1>6. Cut(d, u) = Cut(d, v)
  BY <1>5 DEF Cut
<1>7. In(d, u)
  <2>1. u.c0 <= u.c1
    BY <1>4
  <2> QED BY <2>1 DEF In
<1> QED BY <1>3, <1>6, <1>7

LEMMA NoSize ==
  ASSUME NEW d, IsDoc(d), NEW e, IsDoc(e), NEW r, In(e, r), Cut(e, r) = d, SizeOf(TextOf(e, r)) <= 0
  PROVE  e = d
<1>1. TextOf(e, r) = <<<<>>>>
  BY TextIs, SizeIs
<1>2. Put(d, r.l0, r.c0, <<<<>>>>) = e
  BY <1>1, CutPut
<1>3. r.l0 \in 1..Len(d) /\ r.c0 \in 0..Len(d[r.l0])
  BY CutAt
<1>4. OneIns(d, r.l0, r.c0, << >>, d)
  BY <1>3, InsNothing
<1>5. Put(d, r.l0, r.c0, <<<<>>>>) = d
  BY <1>4, OneInsPut
<1> QED BY <1>2, <1>5

\* A selection that is deleted, but not replaced, within a line.
LEMMA SelGoneOK ==
  ASSUME NEW h, NEW a, NEW d, NEW f, HistOK(h, a, d, f), NEW r \in Selections(d), OneLine(r)
  PROVE  HistOK(SaveChecksum(DelTextRange(h, d, r, FALSE), Cut(d, r)), a, Cut(d, r), f)
<1> DEFINE g == DelTextRange(h, d, r, FALSE)
           e == Cut(d, r)
           p == h.pos + 1
<1>0. PICK i : i = SelItem(d, r)
  OBVIOUS
<1>1. HistShape(h) /\ h.pos \in Nat /\ d = At(h, a, h.pos) /\ IsDoc(d)
  BY DEF HistOK, HistShape, HistRec
<1>2. Puts(h, g, p, i) /\ SelItemIs(i, d, r)
  BY <1>0, <1>1, SelItemOK
<1>3. In(d, r) /\ IsDoc(e)
  BY <1>1, SelectionIs, CutDoc
<1>4. r.l0 \in 1..Len(e) /\ r.c0 \in 0..Len(e[r.l0])
  BY <1>1, <1>3, CutAt
<1> HIDE DEF e, g
<1>5. /\ i.ins.r \in Range4 /\ i.ins.r.l0 = r.l0 /\ i.ins.r.c0 = r.c0 /\ i.ins.r.l1 = r.l0 /\ i.ins.r.c1 = r.c0
      /\ i.ins.n = -1 /\ i.del.r = r /\ i.del.n > 0 /\ Held(i.del, d, FALSE) /\ i.act = "DelAddTextRange"
      /\ i \in Item
  BY <1>2 DEF SelItemIs, OneLine
<1>6. In(e, i.ins.r) /\ Cut(e, i.ins.r) = e
  BY <1>3, <1>4, <1>5, EmptyIs
<1>7. Replaced(i, d, e, TRUE)
  <2>1. ~(i.ins.n > 0)
    BY <1>5
  <2>2. e = Cut(d, i.del.r)
    BY <1>5 DEF e
  <2>3. In(d, i.del.r) /\ Cut(d, i.del.r) = Cut(e, i.ins.r)
    BY <1>3, <1>5, <1>6, <2>2
  <2>4. i.del.r.l0 = i.ins.r.l0 /\ i.del.r.c0 = i.ins.r.c0 /\ Held(i.del, d, ~TRUE)
    BY <1>5
  <2> QED BY <1>5, <1>6, <2>1, <2>2, <2>3, <2>4 DEF Replaced
<1>8. ItemInv(i, d, e, TRUE)
  BY <1>1, <1>3, <1>5, <1>7 DEF ItemInv
<1>9. p - 1 = h.pos /\ p # h.pos /\ p >= h.pos
  BY <1>1
<1> HIDE DEF p
<1>10. ItemInv(i, At(h, a, p - 1), e, TRUE)
  BY <1>1, <1>8, <1>9
<1>11. HistOK(SaveChecksum(g, e), a, e, f)
  BY <1>2, <1>9, <1>10, FinishOK
<1> QED BY <1>11 DEF g, e

LEMMA SelReplacedOK ==
  ASSUME NEW h, NEW a, NEW d, NEW f, HistOK(h, a, d, f), NEW r \in Selections(d), NEW m, IsDoc(m), m = Cut(d, r),
         NEW e, IsDoc(e), NEW u, In(e, u), Cut(e, u) = m, u.l0 = r.l0, u.c0 = r.c0
  PROVE  HistOK(SaveChecksum(AddPasteRange(DelTextRange(h, d, r, FALSE), e, u, TRUE), e), a, e, f)
<1> DEFINE n == SizeOf(TextOf(e, u))
           q == Part(u, n, IF Long(n) THEN NoText ELSE TextOf(e, u))
           k == DelTextRange(h, d, r, FALSE)
           g == AddPasteRange(k, e, u, TRUE)
           p == h.pos + 1
<1>0. PICK i : i = SelItem(d, r)
  OBVIOUS
<1>1. HistShape(h) /\ h.pos \in Nat /\ d = At(h, a, h.pos) /\ IsDoc(d)
  BY DEF HistOK, HistShape, HistRec
<1>2. Puts(h, k, p, i) /\ SelItemIs(i, d, r)
  BY <1>0, <1>1, SelItemOK
<1>3. Current(k) = i
  BY <1>2, PutsIs
<1>4. n \in Int
  BY TextIs, SizeIs
<1>5. Holds(q, e, u, n, TRUE)
  BY <1>4, PartInDoc
<1>6. g = [Change(k, [Current(k) EXCEPT !.ins = q]) EXCEPT !.last = "AddTextRange"]
  BY DEF AddPasteRange
<1>7. n <= 0 => e = m
  BY NoSize
<1> HIDE DEF n, q, k, g
<1> DEFINE j == [i EXCEPT !.ins = q]
           w == Change(k, j)
<1>8. q \in TextPart /\ q.r = u /\ q.n = n /\ Held(q, e, TRUE)
  BY <1>5 DEF Holds
<1>9. i \in DelAddItem /\ i.act = "DelAddTextRange" /\ i.del.r = r /\ i.del.n > 0 /\ Held(i.del, d, FALSE)
  BY <1>2 DEF SelItemIs
<1>10. j \in DelAddItem /\ j.act = "DelAddTextRange" /\ j.del = i.del /\ j.ins = q
  BY <1>8, <1>9 DEF DelAddItem
<1>11. g = [w EXCEPT !.last = "AddTextRange"]
  BY <1>3, <1>6
<1>12. p - 1 = h.pos /\ p # h.pos /\ p >= h.pos
  BY <1>1
<1> HIDE DEF j, p, w
<1>13. j \in Item
  BY <1>10 DEF Item
<1>14. Puts(h, w, p, j)
  BY <1>2, <1>13, ChangeIs DEF w
<1>15. "AddTextRange" \in Lasts
  BY DEF Lasts, Acts
<1>16. Puts(h, g, p, j)
  BY <1>11, <1>14, <1>15, PutsIs
<1>17. In(d, r)
  BY <1>1, SelectionIs
<1>18. Replaced(j, d, e, TRUE)
  BY <1>4, <1>7, <1>8, <1>9, <1>10, <1>17 DEF Replaced
<1>19. ItemInv(j, d, e, TRUE)
  BY <1>1, <1>10, <1>13, <1>18 DEF ItemInv
<1>20. ItemInv(j, At(h, a, p - 1), e, TRUE)
  BY <1>1, <1>12, <1>19
<1>21. HistOK(SaveChecksum(g, e), a, e, f)
  BY <1>12, <1>16, <1>20, FinishOK
<1> QED BY <1>21 DEF g, k

LEMMA OvertypeOK ==
  ASSUME NEW h, NEW a, NEW d, NEW f, HistOK(h, a, d, f), NEW l \in 1..Len(d), NEW c \in Nat, NEW s \in Line,
         c + Len(s) <= Len(d[l]), NEW old, old = SubSeq(d[l], c + 1, c + Len(s)), old \in Line
  PROVE  HistOK(SaveChecksum(RepShortStr(h, l, c, old, s), Overwrite(d, l, c, s)), a, Overwrite(d, l, c, s), f)
<1> DEFINE e == Overwrite(d, l, c, s)
           j == [act |-> "RepShortStr", l |-> l, c |-> c, old |-> old, new |-> s, crc |-> << >>]
           g == RepShortStr(h, l, c, old, s)
           p == h.pos + 1
<1>1. HistShape(h) /\ h.pos \in Nat /\ d = At(h, a, h.pos) /\ IsDoc(d)
  BY DEF HistOK, HistShape, HistRec
<1>2. Over(d, l, c, s, old, e)
  BY <1>1, OverwriteIs
<1>3. << >> \in Doc
  <2>1. << >> \in Seq(Line)
    OBVIOUS
  <2> QED BY <2>1 DEF Doc
<1>4. j \in ReplaceItem /\ j.act = "RepShortStr" /\ j.l = l /\ j.c = c /\ j.new = s /\ j.old = old
  BY <1>1, <1>3, DocIs DEF ReplaceItem
<1>5. g = AddAction(h, j)
  BY DEF RepShortStr
<1>6. p - 1 = h.pos /\ p # h.pos /\ p >= h.pos
  BY <1>1
<1> HIDE DEF e, j, g, p
<1>7. j \in Item
  BY <1>4 DEF Item
<1>8. Puts(h, g, p, j)
  BY <1>1, <1>5, <1>7, AddActionIs DEF p
<1>9. ItemInv(j, d, e, TRUE)
  BY <1>1, <1>2, <1>4, <1>7 DEF ItemInv, Over
<1>10. ItemInv(j, At(h, a, p - 1), e, TRUE)
  BY <1>1, <1>6, <1>9
<1>11. HistOK(SaveChecksum(g, e), a, e, f)
  BY <1>6, <1>8, <1>10, FinishOK
<1> QED BY <1>11 DEF e, g

\* A line end put in at n, in place of the white space from n to c.
LEMMA SplitIs ==
  ASSUME NEW d, IsDoc(d), NEW l \in 1..Len(d), NEW c \in 0..Len(d[l]), NEW n \in 0..c,
         NEW x, x = Cut(d, Rng(l, n, l, c)), NEW e, e = Put(x, l, n, <<<<>>, <<>>>>)
  PROVE  /\ OneIns(x, l, n, SubSeq(d[l], n + 1, c), d) /\ IsDoc(e)
         /\ Cut(e, Rng(l, n, l + 1, 0)) = x
<1> DEFINE r == Rng(l, n, l, c)
           t == <<<<>>, <<>>>>
<1>1. d[l] \in Line /\ Len(d[l]) \in Nat /\ l \in Nat /\ c \in Nat /\ n \in Nat /\ n <= c /\ Len(d) \in Nat
  BY DocIs
<1>2. r.l0 = l /\ r.c0 = n /\ r.l1 = l /\ r.c1 = c /\ r \in Range4
  BY <1>1 DEF Rng, Range4
<1>3. In(d, r) /\ OneLine(r)
  BY <1>1, <1>2 DEF In, OneLine
<1>4. OneIns(x, l, n, SubSeq(d[l], n + 1, c), d)
  <2> HIDE DEF r
  <2>1. OneIns(Cut(d, r), r.l0, r.c0, SubSeq(d[r.l0], r.c0 + 1, r.c1), d)
    BY <1>3, CutOne
  <2>2. x = Cut(d, r)
    BY DEF r
  <2> QED BY <1>2, <2>1, <2>2
<1>5. IsDoc(x) /\ l \in 1..Len(x) /\ n \in 0..Len(x[l])
  BY <1>4 DEF OneIns
<1>6. Len(x[l]) \in Nat /\ Len(x[l]) <= MaxLin /\ MaxLin \in Nat
  BY <1>5, DocIs, EditAssumption
<1>7. t \in Text /\ Len(t) = 2 /\ t[1] = << >> /\ t[2] = << >> /\ Len(<< >>) = 0
  <2>1. << >> \in Line
    BY DEF Line
  <2> QED BY <2>1 DEF Text
<1> HIDE DEF t
<1>8. Fits(x, l, n, t)
  <2>1. Fits(x, l, n, t) = (n + Len(t[1]) <= MaxLin /\ Len(t[Len(t)]) + Len(x[l]) - n <= MaxLin)
    BY <1>7 DEF Fits
  <2>2. n + 0 <= MaxLin /\ 0 + Len(x[l]) - n <= MaxLin
    BY <1>1, <1>5, <1>6
  <2> QED BY <1>7, <2>1, <2>2
<1>9. PutRange(l, n, t) = Rng(l, n, l + 1, 0)
  <2>1. PutRange(l, n, t) = Rng(l, n, l + 2 - 1, IF 0 > MaxLin THEN MaxLin ELSE 0)
    BY <1>7 DEF PutRange
  <2>2. l + 2 - 1 = l + 1 /\ (IF 0 > MaxLin THEN MaxLin ELSE 0) = 0
    BY <1>1, <1>6
  <2> QED BY <2>1, <2>2
<1>10. e = Put(x, l, n, t)
  BY DEF t
<1>11. Cut(e, PutRange(l, n, t)) = x
  BY <1>5, <1>7, <1>8, <1>10, PutCut
<1>12. IsDoc(e)
  BY <1>5, <1>7, <1>10, PutIs
<1> QED BY <1>4, <1>9, <1>11, <1>12

LEMMA EOLOK ==
  ASSUME NEW h, NEW a, NEW d, NEW f, HistOK(h, a, d, f), NEW l \in 1..Len(d), NEW c \in 0..Len(d[l]), NEW n \in 0..c,
         NEW ws, ws = SubSeq(d[l], n + 1, c), NEW e, e = Put(Cut(d, Rng(l, n, l, c)), l, n, <<<<>>, <<>>>>)
  PROVE  HistOK(SaveChecksum(AddEOL(h, l, n, ws), e), a, e, f)
<1> DEFINE j == [act |-> "AddEOL", l |-> l, c |-> n, ws |-> ws, crc |-> << >>]
           g == AddEOL(h, l, n, ws)
           p == h.pos + 1
<1>0. PICK x : x = Cut(d, Rng(l, n, l, c))
  OBVIOUS
<1>1. HistShape(h) /\ h.pos \in Nat /\ d = At(h, a, h.pos) /\ IsDoc(d)
  BY DEF HistOK, HistShape, HistRec
<1>2. e = Put(x, l, n, <<<<>>, <<>>>>)
  BY <1>0
<1>3. OneIns(x, l, n, ws, d) /\ IsDoc(e) /\ Cut(e, Rng(l, n, l + 1, 0)) = x
  BY <1>0, <1>1, <1>2, SplitIs
<1>4. << >> \in Doc
  <2>1. << >> \in Seq(Line)
    OBVIOUS
  <2> QED BY <2>1 DEF Doc
<1>5. l \in Nat /\ n \in Nat /\ ws \in Line
  BY <1>3, OneInsIs DEF OneIns
<1>6. j \in EOLItem /\ j.act = "AddEOL" /\ j.l = l /\ j.c = n /\ j.ws = ws
  BY <1>4, <1>5 DEF EOLItem
<1>7. g = AddAction(h, j)
  BY DEF AddEOL
<1>8. p - 1 = h.pos /\ p # h.pos /\ p >= h.pos
  BY <1>1
<1> HIDE DEF j, g, p
<1>9. j \in Item
  BY <1>6 DEF Item
<1>10. Puts(h, g, p, j)
  BY <1>1, <1>7, <1>9, AddActionIs DEF p
<1>11. Split(j, d, e, x)
  BY <1>2, <1>3, <1>6 DEF Split
<1>12. ItemInv(j, d, e, TRUE)
  BY <1>1, <1>3, <1>6, <1>9, <1>11 DEF ItemInv
<1>13. ItemInv(j, At(h, a, p - 1), e, TRUE)
  BY <1>1, <1>8, <1>12
<1>14. HistOK(SaveChecksum(g, e), a, e, f)
  BY <1>8, <1>10, <1>13, FinishOK
<1> QED BY <1>14 DEF g

-----------------------------------------------------------------------------
(* The steps.                                                              *)

\* The file, which is known until the action that was saved is typed on.
File == [known |-> ~apart, text |-> disk]

\* The history leads from the text as opened to the document, the saved
\* position is that of the file, and the mark tells whether they are the same.
IInv == HistOK(mHist, crc0, doc, File) /\ ModOK(mod, doc, File)

\* None of the situations in which the text itself is lost.
TextsKept == Allow \cap TextLoss = {}

LEMMA NotAllowed ==
  ASSUME TextsKept
  PROVE  "OvertypeEnd" \notin Allow /\ "InsertFails" \notin Allow /\ "PasteClips" \notin Allow /\ "EmptyPaste" \notin Allow
BY DEF TextsKept, TextLoss

LEMMA IInvIs ==
  ASSUME IInv
  PROVE  /\ HistOK(mHist, crc0, doc, File) /\ ModOK(mod, doc, File)
         /\ IsDoc(doc) /\ HistShape(mHist) /\ mHist.pos \in Nat /\ mHist \in HistRec
         /\ mHist.pos > 0 => Current(mHist) \in Item
         /\ DOMAIN doc = 1..Len(doc)
<1>1. HistOK(mHist, crc0, doc, File) /\ ModOK(mod, doc, File)
  BY DEF IInv
<1>2. IsDoc(doc) /\ HistShape(mHist) /\ mHist.pos \in Nat /\ mHist \in HistRec
  BY <1>1 DEF HistOK, HistShape, HistRec
<1>3. mHist.pos > 0 => Current(mHist) \in Item
  BY <1>1, CurrentIs
<1>4. DOMAIN doc = 1..Len(doc)
  BY <1>2, DocIs
<1> QED BY <1>1, <1>2, <1>3, <1>4

\* What is known of the file is still true when less of it is known.
LEMMA LessKnown ==
  ASSUME NEW h, NEW a, NEW d, NEW f, HistOK(h, a, d, f), NEW m, ModOK(m, d, f),
         NEW g, g.known => f.known, g.text = f.text
  PROVE  HistOK(h, a, d, g) /\ ModOK(m, d, g)
<1>1. \A x : FileIs(x, f) => FileIs(x, g)
  BY DEF FileIs
<1>2. HistOK(h, a, d, g)
  BY <1>1 DEF HistOK
<1>3. ModOK(m, d, g)
  BY <1>1 DEF ModOK
<1> QED BY <1>2, <1>3

\* An edit leaves the file; that it is known ends when the edit joins the
\* action that was saved.
LEMMA FinishFile ==
  ASSUME IInv, NEW h, NEW e, Finish(h, e)
  PROVE  HistOK(mHist, crc0, doc, File') /\ ModOK(mod, doc, File')
<1>1. File'.known => File.known
  BY DEF Finish, File
<1>2. File'.text = File.text
  BY DEF Finish, File
<1>3. HistOK(mHist, crc0, doc, File) /\ ModOK(mod, doc, File)
  BY IInvIs
<1> QED BY <1>1, <1>2, <1>3, LessKnown

LEMMA FinishStep ==
  ASSUME NEW h, NEW e, Finish(h, e), HistOK(SaveChecksum(h, e), crc0, e, File'), ModOK(mod', e, File')
  PROVE  IInv'
BY DEF Finish, IInv

LEMMA NotJoined ==
  ASSUME NEW h, NEW e, Finish(h, e), Extends(h)
  PROVE  mHist.saved # mHist.pos \/ ~File'.known
BY DEF Finish, File

LEMMA SameFile ==
  ASSUME disk' = disk, apart' = apart
  PROVE  File' = File
BY DEF File

\* A joined item has changed.
LEMMA AddExtends ==
  ASSUME IInv, NEW l, NEW c, NEW ch \in Chars, JoinsAdd(mHist, l, c, ch)
  PROVE  Extends(AddChar(mHist, l, c, ch))
<1>1. PICK j : j = AddJoined(mHist, ch)
  OBVIOUS
<1>2. mHist.pos > 0
  BY DEF JoinsAdd
<1>3. HistShape(mHist) /\ Current(mHist) \in Item
  BY <1>2, IInvIs
<1>4. Puts(mHist, AddChar(mHist, l, c, ch), mHist.pos, j) /\ j.s # Current(mHist).s
  BY <1>1, <1>3, AddJoinIs
<1>5. AddChar(mHist, l, c, ch).items[mHist.pos] = j
  BY <1>4 DEF Puts
<1> QED BY <1>2, <1>4, <1>5 DEF Extends

LEMMA DelExtends ==
  ASSUME IInv, NEW r, OneChar(r), In(doc, r), JoinsDel(mHist, r.l0, r.c0)
  PROVE  /\ Extends(DelTextRange(mHist, doc, r, TRUE))
         /\ \A e \in Doc, l \in Nat, n \in Nat, ws \in Line :
              Extends(AddEOL(SaveChecksum(DelTextRange(mHist, doc, r, TRUE), e), l, n, ws))
<1> DEFINE ch == TextOf(doc, r)[1][1]
           g == DelTextRange(mHist, doc, r, TRUE)
           i == Current(mHist)
           p == mHist.pos
<1>1. ch \in Chars
  BY IInvIs, OneCharText
<1>2. g = DelChar(mHist, r.l0, r.c0, ch)
  BY DEF DelTextRange, OneChar
<1>3. PICK j : j = DelJoined(mHist, r.c0, ch)
  OBVIOUS
<1>4. mHist.pos > 0
  BY DEF JoinsDel
<1>5. HistShape(mHist) /\ Current(mHist) \in Item /\ p \in Nat
  BY <1>4, IInvIs
<1> HIDE DEF ch
<1>6. Puts(mHist, g, p, j) /\ DelJoins(i, r.l0, r.c0, ch, j)
  BY <1>1, <1>2, <1>3, <1>5, DelJoinIs
<1> HIDE DEF g
<1>7. j.s # i.s /\ j \in DelCharItem
  BY <1>6 DEF DelJoins
<1>8. g.items[p] = j
  BY <1>6 DEF Puts
<1>9. Extends(g)
  BY <1>4, <1>7, <1>8 DEF Extends
<1>10. ASSUME NEW e \in Doc, NEW l \in Nat, NEW n \in Nat, NEW ws \in Line
       PROVE  Extends(AddEOL(SaveChecksum(g, e), l, n, ws))
  <2> DEFINE k == [j EXCEPT !.crc = e]
             h == SaveChecksum(g, e)
             u == [act |-> "AddEOL", l |-> l, c |-> n, ws |-> ws, crc |-> << >>]
             w == AddEOL(h, l, n, ws)
  <2>1. k \in DelCharItem /\ k.s = j.s
    BY <1>7 DEF DelCharItem
  <2>2. h = Change(g, k)
    BY <1>6, PutsIs
  <2> HIDE DEF k, h
  <2>3. k \in Item
    BY <2>1 DEF Item
  <2>4. Puts(mHist, h, p, k)
    BY <1>6, <2>2, <2>3, ChangeIs
  <2>5. h \in HistRec /\ Len(h.items) = p /\ h.pos = p /\ h.items[p] = k /\ h.saved = Kept(mHist)
    BY <2>4 DEF Puts
  <2>6. HistShape(h)
    <3>1. Kept(mHist) \in -1..p
      BY <1>5 DEF Kept, HistShape, HistRec
    <3> QED BY <1>5, <2>5, <3>1 DEF HistShape
  <2>7. u \in Item
    <3>1. << >> \in Seq(Line)
      OBVIOUS
    <3>2. u \in EOLItem
      BY <3>1 DEF EOLItem, Doc
    <3> QED BY <3>2 DEF Item
  <2>8. w = AddAction(h, u)
    BY DEF AddEOL
  <2> HIDE DEF u, w
  <2>9. Puts(h, w, h.pos + 1, u)
    BY <2>6, <2>7, <2>8, AddActionIs
  <2>10. p \in 1..((p + 1) - 1)
    BY <1>4, <1>5
  <2>11. w.items[p] = k
    BY <2>5, <2>9, <2>10 DEF Puts
  <2>12. Extends(w)
    BY <1>4, <1>7, <2>1, <2>11 DEF Extends
  <2> QED BY <2>12 DEF w, h
<1> QED BY <1>9, <1>10 DEF g

\* A history that only lost what could be redone.
LEMMA ShortenedOK ==
  ASSUME NEW h, NEW a, NEW d, NEW f, HistOK(h, a, d, f), NEW g \in HistRec, g.pos = h.pos, Len(g.items) = h.pos,
         g.saved = Kept(h), \A k \in 1..h.pos : g.items[k] = h.items[k]
  PROVE  HistOK(g, a, d, f)
<1>1. /\ h.pos \in Nat /\ h.saved \in Int /\ Len(h.items) \in Nat /\ h.pos <= Len(h.items)
      /\ h.saved \in -1..Len(h.items) /\ IsDoc(a) /\ IsDoc(d) /\ d = At(h, a, h.pos)
  BY DEF HistOK, HistShape, HistRec
<1>2. g.saved = -1 \/ (g.saved = h.saved /\ g.saved \in 0..h.pos)
  BY <1>1 DEF Kept
<1>3. HistShape(g)
  BY <1>1, <1>2 DEF HistShape
<1>4. \A k \in 0..h.pos : At(g, a, k) = At(h, a, k)
  BY DEF At
<1>5. ASSUME NEW k \in 1..Len(g.items)
      PROVE  ItemInv(g.items[k], At(g, a, k - 1), At(g, a, k), k <= g.pos)
  <2>1. k \in 1..h.pos /\ k \in 0..h.pos /\ k - 1 \in 0..h.pos /\ k \in 1..Len(h.items)
    BY <1>1
  <2>2. ItemInv(h.items[k], At(h, a, k - 1), At(h, a, k), k <= h.pos)
    BY <2>1 DEF HistOK
  <2>3. g.items[k] = h.items[k] /\ At(g, a, k - 1) = At(h, a, k - 1) /\ At(g, a, k) = At(h, a, k)
    BY <1>4, <2>1
  <2> QED BY <2>2, <2>3
<1>6. g.saved # -1 => FileIs(Trimmed(At(g, a, g.saved)), f)
  BY <1>2, <1>4 DEF HistOK
<1>7. d = At(g, a, g.pos)
  BY <1>1, <1>4
<1> QED BY <1>1, <1>3, <1>5, <1>6, <1>7 DEF HistOK

LEMMA DeleteSelStep ==
  ASSUME TextsKept, IInv, NEW r \in Selections(doc), DeleteSel(r)
  PROVE  IInv'
<1> DEFINE h == DelTextRange(mHist, doc, r, TRUE)
           e == Cut(doc, r)
<1>1. /\ Len(Cut(doc, r)[r.l0]) <= MaxLin /\ Finish(h, e) /\ mod' = ModAfter(OneLine(r), r.l0)
  BY DEF DeleteSel, Merges
<1>2. IsDoc(doc) /\ In(doc, r) /\ HistOK(mHist, crc0, doc, File') /\ ModOK(mod, doc, File')
  BY <1>1, IInvIs, SelectionIs, FinishFile
<1>3. IsDoc(e)
  BY <1>1, <1>2, CutDoc
<1>4. ASSUME OneChar(r) /\ JoinsDel(mHist, r.l0, r.c0) PROVE mHist.saved # mHist.pos \/ ~File'.known
  <2>1. Extends(h)
    BY <1>2, <1>4, DelExtends
  <2> HIDE DEF h, e
  <2> QED BY <1>1, <2>1, NotJoined
<1>5. HistOK(SaveChecksum(h, e), crc0, e, File')
  BY <1>2, <1>3, <1>4, DelTextOK
<1>6. OneLine(r) => OnlyLine(doc, e, r.l0)
  BY <1>2, OnlyLineCut
<1> HIDE DEF h, e
<1>7. ModOK(ModAfter(OneLine(r), r.l0), e, File')
  BY <1>2, <1>3, <1>6, ModAfterOK
<1>8. ModOK(mod', e, File')
  BY <1>1, <1>7
<1> QED BY <1>1, <1>5, <1>8, FinishStep

LEMMA DeleteFailsStep ==
  ASSUME IInv, NEW r \in Selections(doc), NEW q \in BOOLEAN, DeleteFails(r, q)
  PROVE  IInv'
<1> DEFINE k == DelTextRange(mHist, doc, r, q)
           n == mHist.pos
           g == ClearLastAction(k)
<1>1. /\ ~Merges(r) /\ mHist' = g /\ mod' = (IF Pending /\ mod.line = r.l0 THEN mod ELSE Saved)
      /\ doc' = doc /\ crc0' = crc0 /\ File' = File
  BY SameFile DEF DeleteFails
<1>2. /\ IsDoc(doc) /\ In(doc, r) /\ HistOK(mHist, crc0, doc, File) /\ ModOK(mod, doc, File)
      /\ HistShape(mHist) /\ n \in Nat /\ SizeOf(TextOf(doc, r)) \in Int
  BY IInvIs, SelectionIs
<1>3. ~OneLine(r)
  BY <1>1, <1>2, CutDoc DEF Merges
<1>4. PICK j : Puts(mHist, k, n + 1, j)
  <2>1. CASE q = FALSE
    <3>1. PICK i : i = SelItem(doc, r)
      OBVIOUS
    <3>2. Puts(mHist, k, n + 1, i)
      BY <1>2, <2>1, <3>1, SelItemOK
    <3> QED BY <3>2
  <2>2. CASE q = TRUE
    <3> DEFINE u == Part(r, SizeOf(TextOf(doc, r)), TextOf(doc, r))
               i == [act |-> "DelTextRange", del |-> u, crc |-> << >>]
    <3>1. k = AddAction(mHist, i)
      BY <1>3, <2>2 DEF DelTextRange
    <3>2. Holds(u, doc, r, SizeOf(TextOf(doc, r)), FALSE)
      BY <1>2, PartIs
    <3>3. u \in TextPart
      BY <3>2 DEF Holds
    <3>4. << >> \in Seq(Line)
      OBVIOUS
    <3> HIDE DEF u
    <3>5. i \in DelTextItem
      BY <3>3, <3>4 DEF DelTextItem, Doc
    <3> HIDE DEF i, k
    <3>6. i \in Item
      BY <3>5 DEF Item
    <3>7. Puts(mHist, k, n + 1, i)
      BY <1>2, <3>1, <3>6, AddActionIs
    <3> QED BY <3>7
  <2> QED BY <2>1, <2>2
<1> HIDE DEF k
<1> DEFINE m == [k EXCEPT !.pos = @ - 1]
<1>5. /\ k \in HistRec /\ Len(k.items) = n + 1 /\ k.pos = n + 1 /\ k.saved = Kept(mHist)
      /\ \A x \in 1..n : k.items[x] = mHist.items[x]
  BY <1>2, <1>4 DEF Puts
<1>6. g = ClearEnd(m)
  <2>1. k.pos > 0
    BY <1>2, <1>5
  <2> QED BY <2>1 DEF ClearLastAction
<1>7. m \in HistRec /\ m.items = k.items /\ m.pos = n /\ m.saved = k.saved
  <2>1. k.pos - 1 = n
    BY <1>2, <1>5
  <2>2. m = [k EXCEPT !.pos = n]
    BY <2>1
  <2> HIDE DEF m
  <2> QED BY <1>2, <1>5, <2>2 DEF HistRec
<1> HIDE DEF m, g, n
<1>8. Kept(mHist) \in -1..n
  BY <1>2 DEF Kept, HistShape, HistRec, n
<1>9. HistShape(m)
  BY <1>2, <1>5, <1>7, <1>8 DEF HistShape
<1>10. /\ g \in HistRec /\ g.pos = n /\ g.saved = Kept(m) /\ Len(g.items) = n
       /\ \A x \in 1..n : g.items[x] = m.items[x]
  BY <1>6, <1>7, <1>9, ClearEndIs
<1>11. Kept(m) = Kept(mHist)
  <2>1. Kept(m) = IF n < Kept(mHist) THEN -1 ELSE Kept(mHist)
    BY <1>5, <1>7 DEF Kept
  <2>2. ~(n < Kept(mHist))
    BY <1>2, <1>8
  <2> QED BY <2>1, <2>2
<1>12. HistOK(g, crc0, doc, File)
  <2>1. g.pos = mHist.pos /\ Len(g.items) = mHist.pos /\ \A x \in 1..mHist.pos : g.items[x] = mHist.items[x]
    BY <1>5, <1>7, <1>10 DEF n
  <2> QED BY <1>2, <1>10, <1>11, <2>1, ShortenedOK
<1>13. ModOK(mod', doc, File)
  BY <1>1, <1>2, SavedOK
<1> QED BY <1>1, <1>12, <1>13 DEF IInv

LEMMA OvertypeStep ==
  ASSUME TextsKept, IInv, NEW l \in DOMAIN doc, NEW s \in Line, NEW c \in 0..Len(doc[l]), Overtype(l, c, s)
  PROVE  IInv'
<1> DEFINE w == doc[l] \o [i \in 1..Len(s) |-> Garbage]
           old == SubSeq(w, c + 1, c + Len(s))
           h == RepShortStr(mHist, l, c, old, s)
           e == Overwrite(doc, l, c, s)
<1>1. c + Len(s) <= Len(doc[l]) /\ Finish(h, e) /\ mod' = Marked(l)
  BY NotAllowed DEF Overtype
<1>2. /\ IsDoc(doc) /\ HistOK(mHist, crc0, doc, File') /\ ModOK(mod, doc, File') /\ l \in 1..Len(doc)
  BY <1>1, IInvIs, FinishFile
<1>3. doc[l] \in Line /\ c \in Nat
  BY <1>2, DocIs
<1>4. old = SubSeq(doc[l], c + 1, c + Len(s)) /\ SubSeq(doc[l], c + 1, c + Len(s)) \in Line
  BY <1>1, <1>3, OldText
<1> HIDE DEF old
<1>5. HistOK(SaveChecksum(h, e), crc0, e, File')
  BY <1>1, <1>2, <1>3, <1>4, OvertypeOK
<1>6. Over(doc, l, c, s, SubSeq(doc[l], c + 1, c + Len(s)), e)
  BY <1>1, <1>2, <1>3, OverwriteIs
<1> HIDE DEF h, e
<1>7. IsDoc(e) /\ OnlyLine(doc, e, l)
  BY <1>6 DEF Over, OnlyLine
<1>8. ModOK(mod', e, File')
  BY <1>1, <1>2, <1>7, MarkedOK
<1> QED BY <1>1, <1>5, <1>8, FinishStep

\* The places at which text is put in.
LEMMA CaretIs ==
  ASSUME IInv, NEW r \in Carets
  PROVE  /\ Empty(r) /\ OneLine(r) /\ Deleted(r) = doc /\ Logged(r) = mHist
         /\ r.l0 \in 1..Len(doc) /\ r.c0 \in 0..Len(doc[r.l0])
<1>1. DOMAIN doc = 1..Len(doc)
  BY IInvIs
<1>2. PICK l \in DOMAIN doc : \E c \in 0..Len(doc[l]) : r = Rng(l, c, l, c)
  BY DEF Carets
<1>3. PICK c \in 0..Len(doc[l]) : r = Rng(l, c, l, c)
  BY <1>2
<1>4. r.l0 = l /\ r.c0 = c /\ r.l1 = l /\ r.c1 = c
  BY <1>3 DEF Rng
<1>5. Empty(r) /\ OneLine(r)
  BY <1>4 DEF Empty, OneLine
<1> QED BY <1>1, <1>2, <1>3, <1>4, <1>5 DEF Deleted, Logged

LEMMA ReplaceableIs ==
  ASSUME IInv, NEW r \in Replaceable
  PROVE  /\ r \in Selections(doc) /\ ~Empty(r) /\ IsDoc(Cut(doc, r)) /\ In(doc, r)
         /\ Deleted(r) = Cut(doc, r) /\ Logged(r) = DelTextRange(mHist, doc, r, FALSE)
         /\ r.l0 \in 1..Len(Cut(doc, r)) /\ r.c0 \in 0..Len(Cut(doc, r)[r.l0])
<1>1. r \in Selections(doc) /\ Len(Cut(doc, r)[r.l0]) <= MaxLin
  BY DEF Replaceable, Merges
<1>2. IsDoc(doc) /\ In(doc, r) /\ ~Empty(r)
  BY <1>1, IInvIs, SelectionIs
<1>3. IsDoc(Cut(doc, r))
  BY <1>1, <1>2, CutDoc
<1>4. r.l0 \in 1..Len(Cut(doc, r)) /\ r.c0 \in 0..Len(Cut(doc, r)[r.l0])
  BY <1>2, CutAt
<1> QED BY <1>1, <1>2, <1>3, <1>4 DEF Deleted, Logged

LEMMA PasteOK ==
  ASSUME IInv, NEW f, HistOK(mHist, crc0, doc, f),
         NEW r \in Carets \cup Replaceable, NEW t \in Text, Fits(Deleted(r), r.l0, r.c0, t),
         Empty(r) => t # <<<<>>>>,
         NEW e, e = Put(Deleted(r), r.l0, r.c0, t), NEW u, u = PutRange(r.l0, r.c0, t)
  PROVE  /\ IsDoc(e)
         /\ HistOK(SaveChecksum(AddPasteRange(Logged(r), e, u, ~Empty(r)), e), crc0, e, f)
<1> DEFINE m == Deleted(r)
           l == r.l0
           c == r.c0
<1>1. IsDoc(m) /\ l \in 1..Len(m) /\ c \in 0..Len(m[l])
  <2>1. CASE r \in Carets
    BY <2>1, CaretIs, IInvIs
  <2>2. CASE r \in Replaceable
    BY <2>2, ReplaceableIs
  <2> QED BY <2>1, <2>2
<1>2. HistOK(mHist, crc0, doc, f)
  OBVIOUS
<1>3. Fits(m, l, c, t) /\ e = Put(m, l, c, t) /\ u = PutRange(l, c, t)
  OBVIOUS
<1> HIDE DEF m, l, c
<1>4. In(e, u) /\ Cut(e, u) = m /\ u.l0 = l /\ u.c0 = c
  BY <1>1, <1>3, PutCut
<1>5. IsDoc(e)
  BY <1>1, <1>3, PutIs
<1>6. CASE r \in Carets
  <2>1. m = doc /\ Logged(r) = mHist /\ (~Empty(r)) = FALSE
    BY <1>6, CaretIs DEF m
  <2>2. t # <<<<>>>>
    BY <2>1
  <2>3. SizeOf(TextOf(e, u)) > 0
    BY <1>1, <1>3, <1>5, <2>2, PutSize
  <2>4. HistOK(SaveChecksum(AddPasteRange(mHist, e, u, FALSE), e), crc0, e, f)
    BY <1>2, <1>4, <1>5, <2>1, <2>3, AddTextOK
  <2> QED BY <1>5, <2>1, <2>4
<1>7. CASE r \in Replaceable
  <2>1. /\ m = Cut(doc, r) /\ Logged(r) = DelTextRange(mHist, doc, r, FALSE) /\ (~Empty(r)) = TRUE
        /\ r \in Selections(doc)
    BY <1>7, ReplaceableIs DEF m
  <2>2. u.l0 = r.l0 /\ u.c0 = r.c0
    BY <1>4 DEF l, c
  <2>3. HistOK(SaveChecksum(AddPasteRange(DelTextRange(mHist, doc, r, FALSE), e, u, TRUE), e), crc0, e, f)
    BY <1>1, <1>2, <1>4, <1>5, <2>1, <2>2, SelReplacedOK
  <2> QED BY <1>5, <2>1, <2>3
<1> QED BY <1>6, <1>7

LEMMA PasteStep ==
  ASSUME TextsKept, IInv, NEW r \in Carets \cup Replaceable, NEW t \in Text, Paste(r, t)
  PROVE  IInv'
<1> DEFINE e == Put(Deleted(r), r.l0, r.c0, t)
           h == AddPasteRange(Logged(r), e, PutRange(r.l0, r.c0, t), ~Empty(r))
<1>1. Fits(Deleted(r), r.l0, r.c0, t) /\ Finish(h, e) /\ mod' = Modified /\ (Empty(r) => t # <<<<>>>>)
  BY NotAllowed DEF Paste
<1>0. HistOK(mHist, crc0, doc, File')
  BY <1>1, FinishFile
<1>2. HistOK(SaveChecksum(h, e), crc0, e, File')
  <2> HIDE DEF h
  <2>1. IsDoc(e) /\ HistOK(SaveChecksum(AddPasteRange(Logged(r), e, PutRange(r.l0, r.c0, t), ~Empty(r)), e), crc0, e, File')
    BY <1>0, <1>1, PasteOK
  <2> QED BY <2>1 DEF h
<1> HIDE DEF h, e
<1>3. ModOK(mod', e, File')
  BY <1>1 DEF ModOK
<1> QED BY <1>1, <1>2, <1>3, FinishStep

\* The selection is gone, and nothing is in its place.
LEMMA GoneStep ==
  ASSUME IInv, NEW r \in Replaceable, OneLine(r), Finish(Logged(r), Deleted(r)), mod' = ModAfter(OneLine(r), r.l0)
  PROVE  IInv'
<1> DEFINE e == Cut(doc, r)
           h == DelTextRange(mHist, doc, r, FALSE)
<1>1. r \in Selections(doc) /\ IsDoc(e) /\ In(doc, r) /\ Deleted(r) = e /\ Logged(r) = h
  BY ReplaceableIs
<1>2. HistOK(mHist, crc0, doc, File') /\ IsDoc(doc) /\ ModOK(mod, doc, File')
  BY IInvIs, FinishFile
<1>3. HistOK(SaveChecksum(h, e), crc0, e, File')
  BY <1>1, <1>2, SelGoneOK
<1>4. OnlyLine(doc, e, r.l0)
  BY <1>1, <1>2, OnlyLineCut
<1> HIDE DEF h, e
<1>5. ModOK(mod', e, File')
  BY <1>1, <1>2, <1>4, ModAfterOK
<1>6. Finish(h, e)
  BY <1>1
<1> QED BY <1>3, <1>5, <1>6, FinishStep

\* The character that was put in is the one AddTextRange reads.
LEMMA TypedIs ==
  ASSUME NEW d, NEW l, NEW c, NEW s, NEW e, OneIns(d, l, c, s, e), Len(s) = 1, NEW x, x = e[l][c + 1]
  PROVE  x \in Chars /\ s = <<x>>
<1> DEFINE y == e[l]
           v == <<x>>
<1>1. InsParts(y, d[l], c, s) /\ c \in Nat /\ y \in Line /\ c + Len(s) \in 0..Len(y)
  <2>1. InsParts(e[l], d[l], c, s) /\ c \in Nat /\ c + Len(s) \in 0..Len(e[l])
    BY OneInsIs
  <2> QED BY <2>1 DEF InsParts
<1>2. SubSeq(y, c + 1, c + Len(s)) = s
  BY <1>1 DEF InsParts
<1>3. x = y[c + 1]
  OBVIOUS
<1> HIDE DEF y
<1>4. y \in Seq(Chars) /\ c \in Nat /\ c + 1 \in Nat /\ c <= c + 1 /\ c + 1 <= Len(y) /\ SubSeq(y, c + 1, c + 1) = s
  BY <1>1, <1>2 DEF Line
<1>5. x \in Chars
  BY ONLY <1>3, <1>4
<1>6. /\ SubSeq(y, c + 1, c + 1) \in Seq(Chars)
      /\ \A i \in 1..((c + 1) - c) : SubSeq(y, c + 1, c + 1)[i] = y[c + i]
  BY ONLY <1>4, SubIs
<1>7. s \in Seq(Chars) /\ s[1] = x
  <2>1. 1 \in 1..((c + 1) - c)
    BY <1>4
  <2>2. s[1] = y[c + 1]
    BY <1>4, <1>6, <2>1
  <2> QED BY <1>3, <1>4, <1>6, <2>2
<1>8. <<x>> \in Seq(Chars) /\ Len(<<x>>) = 1 /\ <<x>>[1] = x
  BY ONLY <1>5
<1> HIDE DEF v
<1>9. v \in Seq(Chars) /\ Len(s) = Len(v) /\ \A i \in 1..Len(s) : s[i] = v[i]
  BY <1>7, <1>8 DEF v
<1>10. s = v
  BY ONLY <1>7, <1>9, SeqSame
<1> QED BY <1>5, <1>10 DEF v

LEMMA InsertTextStep ==
  ASSUME TextsKept, IInv, NEW r \in Carets \cup Replaceable, NEW s \in Line, s # << >>, InsertText(r, s)
  PROVE  IInv'
<1> DEFINE t == <<s>>
           m == Deleted(r)
           l == r.l0
           c == r.c0
           e == Put(m, l, c, t)
           u == PutRange(l, c, t)
           h == AddTextRange(Logged(r), e, u, ~Empty(r))
<1>1. Fits(m, l, c, t) /\ Finish(h, e) /\ mod' = ModAfter(OneLine(r), l)
  BY DEF InsertText
<1>2. HistOK(mHist, crc0, doc, File') /\ IsDoc(doc) /\ ModOK(mod, doc, File')
  BY <1>1, IInvIs, FinishFile
<1>3. t \in Text /\ Len(t) = 1 /\ t[1] = s /\ t # <<<<>>>>
  BY DEF Text
<1>4. IsDoc(m) /\ l \in 1..Len(m) /\ c \in 0..Len(m[l])
  <2>1. CASE r \in Carets
    BY <2>1, CaretIs, IInvIs
  <2>2. CASE r \in Replaceable
    BY <2>2, ReplaceableIs
  <2> QED BY <2>1, <2>2
<1>5. IsDoc(e) /\ HistOK(SaveChecksum(AddPasteRange(Logged(r), e, u, ~Empty(r)), e), crc0, e, File')
  BY <1>1, <1>2, <1>3, PasteOK
<1>6. OneIns(m, l, c, s, e)
  BY <1>1, <1>4, PutOne
<1>7. u.l0 = l /\ u.c0 = c /\ u.c1 = c + Len(s)
  <2> HIDE DEF m, l, c, t
  <2>1. /\ PutRange(l, c, t).l0 = l /\ PutRange(l, c, t).c0 = c
        /\ Len(t) = 1 => PutRange(l, c, t).c1 = c + Len(t[1])
    <3>1. IsDoc(m) /\ l \in 1..Len(m) /\ c \in 0..Len(m[l]) /\ t \in Text /\ Fits(m, l, c, t)
      BY <1>1, <1>3, <1>4
    <3> QED BY ONLY <3>1, PutCut
  <2> QED BY <1>3, <2>1
<1>8. HistOK(SaveChecksum(h, e), crc0, e, File')
  <2>1. CASE Empty(r) /\ OneLine(u) /\ u.c1 = u.c0 + 1
    <3> DEFINE ch == e[u.l0][u.c1]
    <3>1. r \in Carets
      BY <2>1, ReplaceableIs
    <3>2. m = doc /\ Logged(r) = mHist
      BY <3>1, CaretIs
    <3>3. h = AddChar(mHist, u.l0, u.c0, ch)
      BY <2>1, <3>2 DEF AddTextRange
    <3>4. c \in Nat /\ Len(s) \in Nat /\ u.c0 = c /\ u.c1 = c + Len(s) /\ u.l0 = l
      <4>1. c \in Nat /\ Len(s) \in Nat
        BY <1>6, OneInsIs
      <4> QED BY <1>7, <4>1
    <3> HIDE DEF h, e, m, u, l, c
    <3>5. Len(s) = 1 /\ u.c1 = c + 1
      <4>1. u.c1 = u.c0 + 1
        BY <2>1
      <4>2. u.c1 = c + 1
        BY <3>4, <4>1
      <4>3. c + Len(s) = c + 1
        BY <3>4, <4>2
      <4>4. PICK k : k = Len(s)
        OBVIOUS
      <4>5. k \in Nat /\ c \in Nat /\ c + k = c + 1
        BY <3>4, <4>3, <4>4
      <4>6. k = 1
        BY ONLY <4>5
      <4> QED BY <4>2, <4>4, <4>6
    <3>7. PICK x : x = e[l][c + 1]
      OBVIOUS
    <3>8. ch = x /\ x \in Chars /\ s = <<x>>
      <4>1. x \in Chars /\ s = <<x>>
        BY <1>6, <3>5, <3>7, TypedIs
      <4> QED BY <3>4, <3>5, <3>7, <4>1
    <3>9. h = AddChar(mHist, l, c, x)
      BY <1>7, <3>3, <3>8
    <3>10. OneIns(doc, l, c, <<x>>, e)
      BY <1>6, <3>2, <3>8
    <3>11. ASSUME JoinsAdd(mHist, l, c, x) PROVE mHist.saved # mHist.pos \/ ~File'.known
      <4>1. Extends(h)
        BY <3>8, <3>9, <3>11, AddExtends
      <4> QED BY <1>1, <4>1, NotJoined
    <3>12. HistOK(SaveChecksum(AddChar(mHist, l, c, x), e), crc0, e, File')
      BY <1>2, <3>8, <3>10, <3>11, AddCharOK
    <3> QED BY <3>9, <3>12
  <2>2. CASE ~(Empty(r) /\ OneLine(u) /\ u.c1 = u.c0 + 1)
    <3>1. h = AddPasteRange(Logged(r), e, u, ~Empty(r))
      BY <2>2 DEF AddTextRange
    <3> QED BY <1>5, <3>1
  <2> QED BY <2>1, <2>2
<1>9. ASSUME OneLine(r) PROVE OnlyLine(doc, e, l)
  <2>1. OnlyLine(m, e, l)
    BY <1>6, OnlyLineIns
  <2>2. CASE r \in Carets
    BY <2>1, <2>2, CaretIs
  <2>3. CASE r \in Replaceable
    <3>1. In(doc, r) /\ m = Cut(doc, r)
      BY <2>3, ReplaceableIs
    <3> HIDE DEF e
    <3>2. OnlyLine(m, doc, l)
      BY <1>2, <1>9, <3>1, OnlyLineCut
    <3> HIDE DEF m, l
    <3> QED BY <1>2, <1>4, <1>5, <2>1, <3>2, OnlyLineTrans
  <2> QED BY <2>2, <2>3
<1> HIDE DEF e, h, m, u
<1>10. ModOK(ModAfter(OneLine(r), l), e, File')
  BY <1>2, <1>5, <1>9, ModAfterOK
<1>11. ModOK(mod', e, File')
  BY <1>1, <1>10
<1> QED BY <1>1, <1>8, <1>11, FinishStep

LEMMA InsertEOLStep ==
  ASSUME TextsKept, IInv, NEW r \in Carets \cup Replaceable, InsertEOL(r)
  PROVE  IInv'
<1> DEFINE d == Deleted(r)
           l == r.l0
           c == r.c0
           n == EOLStart(d, l, c)
           ws == SubSeq(d[l], n + 1, c)
           g == DelTextRange(mHist, doc, r, TRUE)
           h == IF Empty(r) THEN mHist ELSE SaveChecksum(g, d)
           w == AddEOL(h, l, n, ws)
           e == Put(Cut(d, Rng(l, n, l, c)), l, n, <<<<>>, <<>>>>)
<1>1. Finish(w, e) /\ mod' = Modified
  BY DEF InsertEOL, PutEOL
<1>2. HistOK(mHist, crc0, doc, File') /\ IsDoc(doc)
  BY <1>1, IInvIs, FinishFile
<1>3. IsDoc(d) /\ l \in 1..Len(d) /\ c \in 0..Len(d[l])
  <2>1. CASE r \in Carets
    BY <2>1, CaretIs, IInvIs
  <2>2. CASE r \in Replaceable
    BY <2>2, ReplaceableIs
  <2> QED BY <2>1, <2>2
<1>4. n \in 0..c
  <2>1. d[l] \in Seq(Chars) /\ c \in 0..Len(d[l]) /\ Take(d[l], c) \in Seq(Chars) /\ Len(Take(d[l], c)) = c
    BY <1>3, DocIs, TakeIs
  <2> HIDE DEF d, l, c
  <2>2. TrimmedLen(Take(d[l], c)) \in 0..c
    BY <2>1, TrimmedLenIs DEF Line
  <2> QED BY <2>2 DEF EOLStart
<1> HIDE DEF n
<1>5. ws \in Line /\ n \in Nat /\ l \in Nat
  <2>1. d[l] \in Seq(Chars) /\ Len(d[l]) \in Nat /\ n \in Nat /\ c \in Nat /\ n <= c /\ c <= Len(d[l]) /\ l \in Nat
    BY <1>3, <1>4, DocIs
  <2> HIDE DEF d, l, c
  <2>2. SubSeq(d[l], n + 1, c) \in Seq(Chars)
    <3> DEFINE x == d[l]
    <3>1. x \in Seq(Chars) /\ n \in Nat /\ c \in Nat /\ n <= c /\ c <= Len(x)
      BY <2>1
    <3> HIDE DEF x
    <3>2. SubSeq(x, n + 1, c) \in Seq(Chars)
      BY ONLY <3>1, SubIs
    <3> QED BY <3>2 DEF x
  <2> QED BY <2>1, <2>2 DEF Line
<1>6. HistOK(h, crc0, d, File')
  <2>1. CASE r \in Carets
    BY <1>2, <2>1, CaretIs
  <2>2. CASE r \in Replaceable
    <3>1. r \in Selections(doc) /\ ~Empty(r) /\ d = Cut(doc, r) /\ In(doc, r)
      BY <2>2, ReplaceableIs
    <3>2. h = SaveChecksum(g, d)
      BY <3>1
    <3>3. d \in Doc
      BY <1>3, DocIs DEF Doc
    <3> HIDE DEF d, h, e, ws, l, c
    <3>4. ASSUME OneChar(r) /\ JoinsDel(mHist, r.l0, r.c0) PROVE mHist.saved # mHist.pos \/ ~File'.known
      <4>1. Extends(AddEOL(SaveChecksum(g, d), l, n, ws))
        BY <1>5, <3>1, <3>3, <3>4, DelExtends
      <4>2. Extends(w)
        BY <3>2, <4>1
      <4> HIDE DEF w
      <4> QED BY <1>1, <4>2, NotJoined
    <3>5. HistOK(SaveChecksum(DelTextRange(mHist, doc, r, TRUE), Cut(doc, r)), crc0, Cut(doc, r), File')
      BY <1>2, <1>3, <3>1, <3>4, DelTextOK
    <3> QED BY <3>1, <3>2, <3>5
  <2> QED BY <2>1, <2>2
<1> HIDE DEF d, l, c, h
<1>7. HistOK(SaveChecksum(w, e), crc0, e, File')
  BY <1>3, <1>4, <1>6, EOLOK
<1> HIDE DEF w, e
<1>8. ModOK(mod', e, File')
  BY <1>1 DEF ModOK
<1> QED BY <1>1, <1>7, <1>8, FinishStep

LEMMA UndoStep ==
  ASSUME IInv, Undo
  PROVE  IInv'
<1> DEFINE k == mHist.pos
           i == Current(mHist)
           res == Undone(i)
           a == At(mHist, crc0, k - 1)
           n == k - 1
<1>1. k > 0 /\ MoveTo(n, k, res, LineOf(i), "Undo")
  BY DEF Undo
<1>2. /\ HistOK(mHist, crc0, doc, File) /\ ModOK(mod, doc, File) /\ IsDoc(doc) /\ mHist.pos \in Nat
  BY IInvIs
<1>3. ItemInv(i, a, doc, TRUE) /\ k \in 1..Len(mHist.items)
  BY <1>1, <1>2, CurrentIs
<1>4. Undoes(i, res, a, doc)
  BY <1>3, ItemUndo
<1>5. i = mHist.items[k] /\ doc = At(mHist, crc0, k)
  BY <1>2 DEF Current, HistOK
<1> HIDE DEF res, a
<1>6. res[1] = a /\ ItemInv(res[2], a, doc, FALSE) /\ res[2].crc = i.crc /\ LineOf(res[2]) = LineOf(i)
  BY <1>4 DEF Undoes
<1>7. /\ doc' = a /\ crc0' = crc0 /\ File' = File
      /\ mHist' = [mHist EXCEPT !.items[k] = res[2], !.pos = n, !.last = "Undo"]
      /\ mod' = IF n = mHist.saved THEN Unmodified ELSE ModAfter(LineOf(i) # 0, LineOf(i))
  BY <1>1, <1>6, SameFile DEF MoveTo
<1>8. n \in (k - 1)..k /\ mHist.pos \in (k - 1)..k /\ (k <= n) = FALSE
  BY <1>1, <1>2
<1>9. "Undo" \in Lasts
  BY DEF Lasts
<1>10. IsDoc(a)
  BY <1>6 DEF ItemInv
<1>11. HistOK(mHist', crc0, a, File)
  <2>1. ItemInv(res[2], At(mHist, crc0, k - 1), At(mHist, crc0, k), k <= n)
    BY <1>5, <1>6, <1>8 DEF a
  <2>2. res[2].crc = mHist.items[k].crc
    BY <1>5, <1>6
  <2> HIDE DEF k, n, i
  <2>3. HistOK([mHist EXCEPT !.items[k] = res[2], !.pos = n, !.last = "Undo"], crc0, At(mHist, crc0, n), File)
    BY <1>2, <1>3, <1>8, <1>9, <2>1, <2>2, MovedOK
  <2> QED BY <1>7, <2>3 DEF a, n
<1>12. ModOK(mod', a, File)
  <2>1. CASE n = mHist.saved
    <3>1. mHist.saved # -1
      BY <1>1, <1>2, <2>1
    <3>2. FileIs(Trimmed(At(mHist, crc0, mHist.saved)), File)
      BY <1>2, <3>1 DEF HistOK
    <3> QED BY <1>7, <2>1, <3>2 DEF ModOK, a
  <2>2. CASE n # mHist.saved
    <3> HIDE DEF i
    <3>1. LineOf(i) # 0 => OnlyLine(doc, a, LineOf(i))
      BY <1>3, ItemLine
    <3>2. ModOK(ModAfter(LineOf(i) # 0, LineOf(i)), a, File)
      BY <1>2, <1>10, <3>1, ModAfterOK
    <3> QED BY <1>7, <2>2, <3>2
  <2> QED BY <2>1, <2>2
<1> QED BY <1>7, <1>11, <1>12 DEF IInv

LEMMA RedoStep ==
  ASSUME IInv, Redo
  PROVE  IInv'
<1> DEFINE k == mHist.pos + 1
           i == mHist.items[k]
           res == Redone(i)
           b == At(mHist, crc0, k)
<1>1. mHist.pos < Len(mHist.items) /\ MoveTo(k, k, res, LineRedone(i), "Redo")
  BY DEF Redo
<1>2. /\ HistOK(mHist, crc0, doc, File) /\ ModOK(mod, doc, File) /\ IsDoc(doc) /\ mHist.pos \in Nat
      /\ Len(mHist.items) \in Nat /\ doc = At(mHist, crc0, mHist.pos)
  BY IInvIs DEF HistOK, HistShape, HistRec
<1>3. /\ k \in 1..Len(mHist.items) /\ k - 1 = mHist.pos /\ (k <= mHist.pos) = FALSE /\ (k <= k) = TRUE
      /\ k \in (k - 1)..k /\ mHist.pos \in (k - 1)..k /\ k # -1
  BY <1>1, <1>2
<1>4. ItemInv(i, doc, b, FALSE)
  <2>1. ItemInv(mHist.items[k], At(mHist, crc0, k - 1), At(mHist, crc0, k), k <= mHist.pos)
    BY <1>2, <1>3 DEF HistOK
  <2> QED BY <1>2, <1>3, <2>1
<1>5. Redoes(i, res, doc, b)
  BY <1>4, ItemRedo
<1> HIDE DEF res, b
<1>6. res[1] = b /\ ItemInv(res[2], doc, b, TRUE) /\ res[2].crc = i.crc /\ LineOf(res[2]) = LineOf(i)
  BY <1>5 DEF Redoes
<1>12. ~RedoneAsEOL(i)
  <2>1. i \in Item
    BY <1>4 DEF ItemInv
  <2>2. i.act = "AddTextRange" => i.ins.n > 0
    BY <1>4 DEF ItemInv
  <2>3. i.act = "AddTextRange" => i.ins.n \in Int
    BY <2>1, ItemKinds DEF AddTextItem, TextPart
  <2> HIDE DEF i
  <2> QED BY <2>2, <2>3 DEF RedoneAsEOL
<1>7. /\ doc' = b /\ crc0' = crc0 /\ File' = File
      /\ mHist' = [mHist EXCEPT !.items[k] = res[2], !.pos = k, !.last = "Redo"]
      /\ mod' = IF k = mHist.saved THEN Unmodified ELSE ModAfter(LineOf(i) # 0, LineOf(i))
  BY <1>1, <1>6, <1>12, SameFile DEF MoveTo, LineRedone
<1>8. "Redo" \in Lasts
  BY DEF Lasts
<1>9. IsDoc(b)
  BY <1>6 DEF ItemInv
<1>10. HistOK(mHist', crc0, b, File)
  <2>1. ItemInv(res[2], At(mHist, crc0, k - 1), At(mHist, crc0, k), k <= k)
    BY <1>2, <1>3, <1>6 DEF b
  <2>2. res[2].crc = mHist.items[k].crc
    BY <1>6
  <2> HIDE DEF k, i
  <2>3. HistOK([mHist EXCEPT !.items[k] = res[2], !.pos = k, !.last = "Redo"], crc0, At(mHist, crc0, k), File)
    BY <1>2, <1>3, <1>8, <2>1, <2>2, MovedOK
  <2> QED BY <1>7, <2>3 DEF b
<1>11. ModOK(mod', b, File)
  <2>1. CASE k = mHist.saved
    <3>1. FileIs(Trimmed(At(mHist, crc0, mHist.saved)), File)
      BY <1>2, <1>3, <2>1 DEF HistOK
    <3> QED BY <1>7, <2>1, <3>1 DEF ModOK, b
  <2>2. CASE k # mHist.saved
    <3> HIDE DEF i, k
    <3>1. LineOf(i) # 0 => OnlyLine(doc, b, LineOf(i))
      BY <1>4, ItemLine
    <3>2. ModOK(ModAfter(LineOf(i) # 0, LineOf(i)), b, File)
      BY <1>2, <1>9, <3>1, ModAfterOK
    <3> QED BY <1>7, <2>2, <3>2
  <2> QED BY <2>1, <2>2
<1> QED BY <1>7, <1>10, <1>11 DEF IInv

LEMMA SaveStep ==
  ASSUME IInv, Save
  PROVE  IInv'
<1>1. /\ HistOK(mHist, crc0, doc, File) /\ ModOK(mod, doc, File) /\ IsDoc(doc)
      /\ mHist \in HistRec /\ HistShape(mHist)
  BY IInvIs
<1>2. mod' = Unmodified /\ doc' = doc /\ crc0' = crc0
  BY DEF Save
<1>3. CASE Saved = Unmodified
  <2>1. mHist' = mHist /\ File' = File
    BY <1>3, SameFile DEF Save
  <2>2. FileIs(Trimmed(doc), File)
    BY <1>1, <1>3, SavedIs, MarksDiffer
  <2> QED BY <1>1, <1>2, <2>1, <2>2 DEF IInv, ModOK
<1>4. CASE Saved # Unmodified
  <2> DEFINE g == [mHist EXCEPT !.saved = mHist.pos]
  <2> DEFINE f == [known |-> TRUE, text |-> Trimmed(doc)]
  <2>1. mHist' = g /\ File' = f
    BY <1>4 DEF Save, File
  <2>6. FileIs(Trimmed(doc), f)
    BY DEF FileIs
  <2>2. /\ g \in HistRec /\ g.items = mHist.items /\ g.pos = mHist.pos /\ g.saved = mHist.pos
        /\ mHist.pos \in Nat /\ mHist.pos <= Len(mHist.items) /\ Len(mHist.items) \in Nat
    BY <1>1 DEF HistRec, HistShape
  <2> HIDE DEF g, f
  <2>3. HistShape(g)
    BY <2>2 DEF HistShape
  <2>4. \A n : At(g, crc0, n) = At(mHist, crc0, n)
    BY <2>2 DEF At
  <2>5. HistOK(g, crc0, doc, f)
    BY <1>1, <2>2, <2>3, <2>4, <2>6 DEF HistOK
  <2> QED BY <1>2, <2>1, <2>5, <2>6 DEF IInv, ModOK
<1> QED BY <1>3, <1>4

LEMMA OtherSteps ==
  ASSUME IInv, SaveActiveBuffer \/ SaveFails
  PROVE  IInv'
<1>1. /\ HistOK(mHist, crc0, doc, File) /\ ModOK(mod, doc, File) /\ IsDoc(doc)
  BY IInvIs
<1>2. CASE SaveActiveBuffer
  <2>1. ModOK(Saved, doc, File)
    BY <1>1, SavedOK
  <2>2. File' = File
    BY <1>2, SameFile DEF SaveActiveBuffer
  <2> QED BY <1>1, <1>2, <2>1, <2>2 DEF SaveActiveBuffer, IInv
<1>3. CASE SaveFails
  <2>1. mod' = Modified /\ doc' = doc /\ crc0' = crc0 /\ mHist' = mHist
    BY <1>3 DEF SaveFails
  <2>2. File' = File \/ ~File'.known
    BY <1>3, SameFile DEF SaveFails, File
  <2>3. HistOK(mHist, crc0, doc, File')
    BY <1>1, <2>2 DEF HistOK, FileIs
  <2> QED BY <2>1, <2>3 DEF IInv, ModOK
<1> QED BY <1>2, <1>3

\* What is typed and what the clipboard holds are lines and texts.
LEMMA InputIs ==
  /\ \A s \in Strings : s \in Line /\ s # << >>
  /\ \A t \in Clips : t \in Text
<1>1. \A t \in Clips : t \in Seq(Seq(Chars)) /\ t # << >>
  BY EditAssumption
<1>2. \A t \in Clips : t \in Text
  BY <1>1 DEF Text, Line
<1>3. ASSUME NEW s \in Strings PROVE s \in Line /\ s # << >>
  <2>0. s # << >>
    BY DEF Strings
  <2>1. CASE \E c \in Typed : s = <<c>>
    <3>1. PICK c \in Typed : s = <<c>>
      BY <2>1
    <3>2. c \in Chars
      BY EditAssumption
    <3> QED BY <2>0, <3>1, <3>2, OneCharIs
  <2>2. CASE \E t \in Clips : Len(t) = 1 /\ s = t[1]
    <3>1. PICK t \in Clips : Len(t) = 1 /\ s = t[1]
      BY <2>2
    <3> QED BY <1>2, <2>0, <3>1, TextParts
  <2>3. (\E c \in Typed : s = <<c>>) \/ (\E t \in Clips : Len(t) = 1 /\ s = t[1])
    BY DEF Strings
  <2> QED BY <2>0, <2>1, <2>2, <2>3
<1> QED BY <1>2, <1>3

LEMMA InitIInv == Init => IInv
<1> SUFFICES ASSUME Init PROVE IInv
  OBVIOUS
<1>1. /\ doc \in InitDocs /\ crc0 = doc /\ disk = Trimmed(doc) /\ mod = Unmodified /\ mHist = NewHistory
  BY DEF Init
<1>2. IsDoc(doc)
  BY <1>1, EditAssumption
<1>3. "Undo" \in Lasts /\ << >> \in Seq(Item)
  BY DEF Lasts
<1>4. /\ mHist \in HistRec /\ mHist.items = << >> /\ mHist.pos = 0 /\ mHist.saved = 0 /\ Len(mHist.items) = 0
  BY <1>1, <1>3 DEF NewHistory, HistRec
<1>5. HistShape(mHist)
  BY <1>4 DEF HistShape
<1>6. At(mHist, crc0, 0) = doc
  BY <1>1 DEF At
<1>8. FileIs(Trimmed(doc), File)
  BY <1>1 DEF FileIs, File
<1>7. HistOK(mHist, crc0, doc, File)
  BY <1>1, <1>2, <1>4, <1>5, <1>6, <1>8 DEF HistOK
<1> QED BY <1>1, <1>7, <1>8 DEF IInv, ModOK

LEMMA EditStep ==
  ASSUME TextsKept, IInv, Edit
  PROVE  IInv'
<1>1. CASE \E r \in Selections(doc) : DeleteFails(r, TRUE) \/ DeleteFails(r, FALSE)
  BY <1>1, DeleteFailsStep
<1>2. CASE \E r \in Selections(doc) : DeleteSel(r)
  BY <1>2, DeleteSelStep
<1>3. CASE \E r \in Carets, s \in Strings : InsertText(r, s)
  BY <1>3, InputIs, InsertTextStep
<1>4. CASE \E r \in Replaceable : \E s \in Strings : InsertText(r, s) \/ InsertFails(r, s)
  <2>1. PICK r \in Replaceable, s \in Strings : InsertText(r, s) \/ InsertFails(r, s)
    BY <1>4
  <2>2. s \in Line /\ s # << >>
    BY InputIs
  <2>3. CASE InsertText(r, s)
    BY <2>2, <2>3, InsertTextStep
  <2>4. CASE InsertFails(r, s)
    <3>1. OneLine(r) /\ Finish(Logged(r), Deleted(r)) /\ mod' = ModAfter(OneLine(r), r.l0)
      BY <2>4, NotAllowed DEF InsertFails
    <3> QED BY <3>1, GoneStep
  <2> QED BY <2>1, <2>3, <2>4
<1>5. CASE \E r \in Replaceable : PasteFails(r)
  <2>1. PICK r \in Replaceable : PasteFails(r)
    BY <1>5
  <2>2. OneLine(r) /\ Finish(Logged(r), Deleted(r)) /\ mod' = ModAfter(OneLine(r), r.l0)
    BY <2>1, NotAllowed DEF PasteFails
  <2> QED BY <2>2, GoneStep
<1>6. CASE \E r \in Carets \cup Replaceable : (\E t \in Clips : Paste(r, t)) \/ InsertEOL(r)
  <2>1. PICK r \in Carets \cup Replaceable : (\E t \in Clips : Paste(r, t)) \/ InsertEOL(r)
    BY <1>6
  <2>2. CASE \E t \in Clips : Paste(r, t)
    BY <2>2, InputIs, PasteStep
  <2>3. CASE InsertEOL(r)
    BY <2>3, InsertEOLStep
  <2> QED BY <2>1, <2>2, <2>3
<1>7. CASE \E l \in DOMAIN doc, s \in Strings : \E c \in 0..Len(doc[l]) : Overtype(l, c, s)
  BY <1>7, InputIs, OvertypeStep
<1> QED BY <1>1, <1>2, <1>3, <1>4, <1>5, <1>6, <1>7 DEF Edit

LEMMA NextIInv ==
  ASSUME TextsKept, IInv, [Next]_vars
  PROVE  IInv'
<1>1. CASE Edit
  BY <1>1, EditStep
<1>2. CASE Undo
  BY <1>2, UndoStep
<1>3. CASE Redo
  BY <1>3, RedoStep
<1>4. CASE Save
  BY <1>4, SaveStep
<1>5. CASE SaveActiveBuffer \/ SaveFails
  BY <1>5, OtherSteps
<1>6. CASE UNCHANGED vars
  BY <1>6, SameFile DEF vars, IInv
<1> QED BY <1>1, <1>2, <1>3, <1>4, <1>5, <1>6 DEF Next

LEMMA Inductive == TextsKept /\ Spec => []IInv
<1> SUFFICES ASSUME TextsKept PROVE Spec => []IInv
  OBVIOUS
<1>1. Init => IInv
  BY InitIInv
<1>2. IInv /\ [Next]_vars => IInv'
  BY NextIInv
<1> QED BY <1>1, <1>2, PTL DEF Spec

-----------------------------------------------------------------------------
(* What the invariant says of the properties.                              *)

LEMMA AtIs ==
  ASSUME NEW p
  PROVE  TextAt(p) = At(mHist, crc0, p)
BY DEF TextAt, At

LEMMA TypeFact ==
  ASSUME IInv
  PROVE  TypeOK
<1>1. IsDoc(doc) /\ DOMAIN doc = 1..Len(doc) /\ HistShape(mHist) /\ ModOK(mod, doc, File)
  BY IInvIs
<1>2. mHist.pos \in 0..Len(mHist.items) /\ mHist.saved \in -1..Len(mHist.items)
  BY <1>1 DEF HistShape, HistRec
<1>3. Pending => mod.line \in DOMAIN doc
  BY <1>1, MarksDiffer DEF ModOK, Pending
<1> QED BY <1>1, <1>2, <1>3 DEF TypeOK

LEMMA RestoreFact ==
  ASSUME IInv
  PROVE  UndoRestores /\ SavedPosition
<1>1. doc = At(mHist, crc0, mHist.pos)
  BY DEF IInv, HistOK
<1>2. mHist.saved # -1 => FileIs(Trimmed(At(mHist, crc0, mHist.saved)), File)
  BY DEF IInv, HistOK
<1>3. mHist.saved # -1 /\ ~apart => Trimmed(At(mHist, crc0, mHist.saved)) = disk
  BY <1>2 DEF FileIs, File
<1> QED BY <1>1, <1>3, AtIs DEF UndoRestores, SavedPosition

LEMMA UnmodifiedFact ==
  ASSUME IInv
  PROVE  UnmodifiedIsSaved
<1>1. mod = Unmodified => FileIs(Trimmed(doc), File)
  BY MarksDiffer DEF IInv, ModOK
<1> QED BY <1>1 DEF FileIs, File, UnmodifiedIsSaved

\* A part that holds its text unless it is long and in the document.
LEMMA HeldPart ==
  ASSUME NEW p, NEW d, NEW q \in BOOLEAN, IsDoc(d), In(d, p.r), Held(p, d, q)
  PROVE  HeldOnce(p, q)
<1>1. TextOf(d, p.r) \in Text /\ NoText \notin Seq(Seq(Chars))
  BY TextIs, EditAssumption
<1>2. TextOf(d, p.r) # NoText
  BY <1>1 DEF Text, Line
<1> QED BY <1>2 DEF Held, HeldOnce

LEMMA HeldItem ==
  ASSUME NEW i, NEW a, NEW b, NEW done \in BOOLEAN, ItemInv(i, a, b, done)
  PROVE  /\ i.act \in {"DelTextRange", "DelAddTextRange"} => HeldOnce(i.del, ~done)
         /\ i.act \in {"AddTextRange", "DelAddTextRange"} => HeldOnce(i.ins, done)
<1>0. IsDoc(a) /\ IsDoc(b) /\ i \in Item
  BY DEF ItemInv
<1>1. i.act = "DelTextRange" => HeldOnce(i.del, ~done)
  <2> SUFFICES ASSUME i.act = "DelTextRange" PROVE HeldOnce(i.del, ~done)
    OBVIOUS
  <2>1. In(a, i.del.r) /\ Held(i.del, a, ~done)
    BY DEF ItemInv
  <2> QED BY <1>0, <2>1, HeldPart
<1>2. i.act = "AddTextRange" => HeldOnce(i.ins, done)
  <2> SUFFICES ASSUME i.act = "AddTextRange" PROVE HeldOnce(i.ins, done)
    OBVIOUS
  <2>1. In(b, i.ins.r) /\ Held(i.ins, b, done)
    BY DEF ItemInv
  <2> QED BY <1>0, <2>1, HeldPart
<1>3. i.act = "DelAddTextRange" => HeldOnce(i.del, ~done) /\ HeldOnce(i.ins, done)
  <2> SUFFICES ASSUME i.act = "DelAddTextRange" PROVE HeldOnce(i.del, ~done) /\ HeldOnce(i.ins, done)
    OBVIOUS
  <2>1. Replaced(i, a, b, done)
    BY DEF ItemInv
  <2>2. In(a, i.del.r) /\ Held(i.del, a, ~done) /\ In(b, i.ins.r)
    BY <2>1 DEF Replaced
  <2>3. HeldOnce(i.del, ~done)
    BY <1>0, <2>2, HeldPart
  <2>4. i \in DelAddItem
    BY <1>0, ItemKinds
  <2>5. i.ins.n \in Int /\ MaxLocal \in Nat
    BY <2>4, EditAssumption DEF DelAddItem, TextPart
  <2>6. CASE i.ins.n > 0
    <3>1. Held(i.ins, b, done)
      BY <2>1, <2>6 DEF Replaced
    <3>2. HeldOnce(i.ins, done)
      BY <1>0, <2>2, <3>1, HeldPart
    <3> QED BY <2>3, <3>2
  <2>7. CASE ~(i.ins.n > 0)
    BY <2>3, <2>5, <2>7 DEF HeldOnce, Long
  <2> QED BY <2>6, <2>7
<1> QED BY <1>1, <1>2, <1>3

LEMMA HeldFact ==
  ASSUME IInv
  PROVE  LongTextHeldOnce
<1>1. HistShape(mHist) /\ HistOK(mHist, crc0, doc, File)
  BY IInvIs
<1>2. DOMAIN mHist.items = 1..Len(mHist.items) /\ mHist.pos \in Nat /\ Len(mHist.items) \in Nat
  BY <1>1 DEF HistShape, HistRec
<1> SUFFICES ASSUME NEW k \in DOMAIN mHist.items
             PROVE  /\ mHist.items[k].act \in {"DelTextRange", "DelAddTextRange"}
                          => HeldOnce(mHist.items[k].del, k > mHist.pos)
                    /\ mHist.items[k].act \in {"AddTextRange", "DelAddTextRange"}
                          => HeldOnce(mHist.items[k].ins, k <= mHist.pos)
  BY DEF LongTextHeldOnce
<1>3. ItemInv(mHist.items[k], At(mHist, crc0, k - 1), At(mHist, crc0, k), k <= mHist.pos)
  BY <1>1, <1>2 DEF HistOK
<1>4. (k <= mHist.pos) \in BOOLEAN /\ (k > mHist.pos) = ~(k <= mHist.pos)
  BY <1>2
<1>5. /\ mHist.items[k].act \in {"DelTextRange", "DelAddTextRange"}
            => HeldOnce(mHist.items[k].del, ~(k <= mHist.pos))
      /\ mHist.items[k].act \in {"AddTextRange", "DelAddTextRange"}
            => HeldOnce(mHist.items[k].ins, k <= mHist.pos)
  BY <1>3, <1>4, HeldItem
<1> QED BY <1>4, <1>5

-----------------------------------------------------------------------------
(* The theorems.  They hold without the situations of TextLoss, in each of   *)
(* which the text itself is lost; saves may fail half-way, and the action    *)
(* that was saved may be typed on.                                          *)

\* Undo and redo are exact: whatever edits were joined into an action, and
\* however often actions were undone and redone, the document is the text that
\* the history recorded for its position (CompareChecksum never complains).
\* Excluded are characters overtyped past the end of a line, selections of
\* several lines whose replacement cannot be inserted, pastes that are cut off,
\* and pastes of an empty text without a selection.
THEOREM UndoExact == TextsKept /\ Spec => []UndoRestores
<1>1. IInv => UndoRestores
  BY RestoreFact
<1> QED BY <1>1, Inductive, PTL

\* From each save until the action that was saved is typed on, the saved
\* position is that of the text in the file, or -1 once ClearEnd has dropped
\* it: undoing or redoing to it is returning to the file.
THEOREM SavedPositionKept == TextsKept /\ Spec => []SavedPosition
<1>1. IInv => SavedPosition
  BY RestoreFact
<1> QED BY <1>1, Inductive, PTL

\* From each save until the action that was saved is typed on, a document that
\* is closed without a question has nothing to save: whatever line was changed
\* and changed back, undone or redone, it is the file's text.
THEOREM NoChangeLost == TextsKept /\ Spec => []UnmodifiedIsSaved
<1>1. IInv => UnmodifiedIsSaved
  BY UnmodifiedFact
<1> QED BY <1>1, Inductive, PTL

\* Each long text has one owner, the document or the history: no block is
\* leaked, freed twice, or missing when it is to be inserted again.
THEOREM LongTextOwned == TextsKept /\ Spec => []LongTextHeldOnce
<1>1. IInv => LongTextHeldOnce
  BY HeldFact
<1> QED BY <1>1, Inductive, PTL

\* The positions stay in the history and the lines within MAXLINLEN, and no
\* byte that was never written comes into the document.
THEOREM TypeCorrect == TextsKept /\ Spec => []TypeOK
<1>1. IInv => TypeOK
  BY TypeFact
<1> QED BY <1>1, Inductive, PTL
=============================================================================
