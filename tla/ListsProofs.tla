---------------------------- MODULE ListsProofs ----------------------------
(* What the list operations of module Lists do, for lists of any length. *)
EXTENDS Lists, SequenceTheorems, FiniteSetTheorems, WellFoundedInduction, TLAPS

(* RemoveAt drops the element at its index and moves up the ones after it. *)
LEMMA RemoveAtProperties ==
  ASSUME NEW S, NEW s \in Seq(S), NEW i \in 1..Len(s)
  PROVE  /\ RemoveAt(s, i) \in Seq(S)
         /\ Len(RemoveAt(s, i)) = Len(s) - 1
         /\ \A j \in 1..(Len(s) - 1) :
              RemoveAt(s, i)[j] = IF j < i THEN s[j] ELSE s[j + 1]
<1> DEFINE a == SubSeq(s, 1, i - 1)
           b == SubSeq(s, i + 1, Len(s))
<1>0. Len(s) \in Nat /\ i \in Int
  OBVIOUS
<1>1. a \in Seq(S) /\ Len(a) = i - 1 /\ \A j \in 1..(i - 1) : a[j] = s[j]
  BY <1>0, SMT
<1>2. b \in Seq(S) /\ Len(b) = Len(s) - i /\ \A j \in 1..(Len(s) - i) : b[j] = s[j + i]
  BY <1>0, SMT
<1> HIDE DEF a, b
<1>3. /\ a \o b \in Seq(S) /\ Len(a \o b) = Len(a) + Len(b)
      /\ \A j \in 1..(Len(a) + Len(b)) :
           (a \o b)[j] = IF j <= Len(a) THEN a[j] ELSE b[j - Len(a)]
  BY <1>1, <1>2, ConcatProperties
<1>4. \A j \in 1..(Len(s) - 1) : (a \o b)[j] = IF j < i THEN s[j] ELSE s[j + 1]
  BY <1>0, <1>1, <1>2, <1>3
<1>5. Len(a \o b) = Len(s) - 1
  BY <1>0, <1>1, <1>2, <1>3
<1> QED
  BY <1>3, <1>4, <1>5 DEF RemoveAt, a, b

(* InsertAt puts the new element at its index and moves down the rest. *)
LEMMA InsertAtProperties ==
  ASSUME NEW S, NEW s \in Seq(S), NEW i \in 1..Len(s), NEW e \in S
  PROVE  /\ InsertAt(s, i, e) \in Seq(S)
         /\ Len(InsertAt(s, i, e)) = Len(s) + 1
         /\ \A j \in 1..(Len(s) + 1) :
              InsertAt(s, i, e)[j] = IF j < i THEN s[j] ELSE IF j = i THEN e ELSE s[j - 1]
<1> DEFINE a == SubSeq(s, 1, i - 1)
           b == SubSeq(s, i, Len(s))
           m == <<e>>
<1>0. Len(s) \in Nat /\ i \in Int
  OBVIOUS
<1>1. a \in Seq(S) /\ Len(a) = i - 1 /\ \A j \in 1..(i - 1) : a[j] = s[j]
  BY <1>0, SMT
<1>2. /\ b \in Seq(S) /\ Len(b) = Len(s) - i + 1
      /\ \A j \in 1..(Len(s) - i + 1) : b[j] = s[j + i - 1]
  BY <1>0, SMT
<1>3. m \in Seq(S) /\ Len(m) = 1 /\ m[1] = e
  OBVIOUS
<1> HIDE DEF a, b, m
<1> DEFINE c == a \o m
           r == c \o b
<1>4. /\ c \in Seq(S) /\ Len(c) = Len(a) + Len(m)
      /\ \A j \in 1..(Len(a) + Len(m)) :
           c[j] = IF j <= Len(a) THEN a[j] ELSE m[j - Len(a)]
  BY <1>1, <1>3, ConcatProperties
<1> HIDE DEF c
<1>5. /\ r \in Seq(S) /\ Len(r) = Len(c) + Len(b)
      /\ \A j \in 1..(Len(c) + Len(b)) :
           r[j] = IF j <= Len(c) THEN c[j] ELSE b[j - Len(c)]
  <2>1. c \in Seq(S) /\ b \in Seq(S)
    BY <1>2, <1>4
  <2> QED
    BY <2>1, ConcatProperties
<1> HIDE DEF r
<1>6. Len(a) = i - 1 /\ Len(c) = i /\ Len(b) = Len(s) - i + 1 /\ Len(r) = Len(s) + 1
  BY <1>0, <1>1, <1>2, <1>3, <1>4, <1>5
<1>7. \A j \in 1..i : c[j] = IF j < i THEN s[j] ELSE e
  <2> SUFFICES ASSUME NEW j \in 1..i PROVE c[j] = IF j < i THEN s[j] ELSE e
    OBVIOUS
  <2>1. c[j] = IF j <= i - 1 THEN a[j] ELSE m[j - (i - 1)]
    BY <1>0, <1>3, <1>4, <1>6
  <2>2. CASE j < i
    BY <2>1, <2>2, <1>0, <1>1
  <2>3. CASE j = i
    <3>1. c[j] = m[j - (i - 1)] /\ j - (i - 1) = 1
      BY <2>1, <2>3, <1>0
    <3> QED
      BY <3>1, <2>3, <1>0, <1>3
  <2> QED
    BY <2>2, <2>3, <1>0
<1>8. \A j \in 1..(Len(s) + 1) :
        r[j] = IF j < i THEN s[j] ELSE IF j = i THEN e ELSE s[j - 1]
  <2>1. \A j \in 1..(Len(s) + 1) : r[j] = IF j <= i THEN c[j] ELSE b[j - i]
    BY <1>0, <1>5, <1>6
  <2>2. \A j \in 1..(Len(s) + 1) : j > i => b[j - i] = s[j - 1]
    BY <1>0, <1>2
  <2> QED
    BY <1>0, <1>7, <2>1, <2>2
<1> QED
  BY <1>5, <1>6, <1>8 DEF InsertAt, a, b, m, c, r

(* The index of an element of a list. *)
LEMMA IndexOfProperties ==
  ASSUME NEW S, NEW l \in Seq(S), NEW x, On(l, x)
  PROVE  IndexOf(l, x) \in 1..Len(l) /\ l[IndexOf(l, x)] = x
BY DEF On, IndexOf

(* list_del(): the other elements stay, in order, and x is gone. *)
LEMMA WithoutProperties ==
  ASSUME NEW S, NEW l \in Seq(S), NEW x, On(l, x), Distinct(l)
  PROVE  /\ Without(l, x) \in Seq(S)
         /\ Len(Without(l, x)) = Len(l) - 1
         /\ Distinct(Without(l, x))
         /\ \A y : On(Without(l, x), y) <=> On(l, y) /\ y # x
         /\ l[1] # x => Len(Without(l, x)) > 0 /\ Without(l, x)[1] = l[1]
<1> DEFINE i == IndexOf(l, x)
           w == RemoveAt(l, i)
<1>1. i \in 1..Len(l) /\ l[i] = x /\ Len(l) \in Nat
  BY IndexOfProperties
<1> HIDE DEF i
<1>2. /\ w \in Seq(S) /\ Len(w) = Len(l) - 1
      /\ \A j \in 1..(Len(l) - 1) : w[j] = IF j < i THEN l[j] ELSE l[j + 1]
  BY <1>1, RemoveAtProperties
<1> HIDE DEF w
<1>3. Distinct(w)
  <2> SUFFICES ASSUME NEW a \in 1..Len(w), NEW b \in 1..Len(w), w[a] = w[b]
               PROVE  a = b
    BY DEF Distinct
  <2>1. /\ a \in 1..(Len(l) - 1) /\ b \in 1..(Len(l) - 1)
        /\ \A j, m \in 1..Len(l) : l[j] = l[m] => j = m
    BY <1>1, <1>2 DEF Distinct
  <2>2. CASE a < i /\ b < i
    BY <2>1, <2>2, <1>1, <1>2
  <2>3. CASE a < i /\ ~(b < i)
    BY <2>1, <2>3, <1>1, <1>2
  <2>4. CASE ~(a < i) /\ b < i
    BY <2>1, <2>4, <1>1, <1>2
  <2>5. CASE ~(a < i) /\ ~(b < i)
    BY <2>1, <2>5, <1>1, <1>2
  <2> QED
    BY <2>2, <2>3, <2>4, <2>5
<1>4. ASSUME NEW y, On(w, y) PROVE On(l, y) /\ y # x
  BY <1>1, <1>2, <1>4 DEF Distinct, On
<1>5. ASSUME NEW y, On(l, y), y # x PROVE On(w, y)
  <2>1. PICK k \in 1..Len(l) : l[k] = y
    BY <1>5 DEF On
  <2>2. k # i
    BY <1>1, <1>5, <2>1
  <2>3. CASE k < i
    <3>1. k \in 1..Len(w) /\ w[k] = y
      BY <1>1, <1>2, <2>1, <2>3
    <3> QED
      BY <3>1 DEF On
  <2>4. CASE k > i
    <3>1. k - 1 \in 1..Len(w) /\ w[k - 1] = y
      BY <1>1, <1>2, <2>1, <2>4
    <3> QED
      BY <3>1 DEF On
  <2> QED
    BY <1>1, <2>1, <2>2, <2>3, <2>4
<1>6. l[1] # x => Len(w) > 0 /\ w[1] = l[1]
  BY <1>1, <1>2
<1> QED
  BY <1>2, <1>3, <1>4, <1>5, <1>6 DEF Without, w, i

(* list_add_before(): p joins the list, which keeps its head. *)
LEMMA AddBeforeProperties ==
  ASSUME NEW S, NEW l \in Seq(S), NEW x, On(l, x), NEW p \in S, ~On(l, p), Distinct(l)
  PROVE  /\ AddBefore(l, x, p) \in Seq(S)
         /\ Len(AddBefore(l, x, p)) > 0
         /\ AddBefore(l, x, p)[1] = l[1]
         /\ Distinct(AddBefore(l, x, p))
         /\ \A y : On(AddBefore(l, x, p), y) <=> On(l, y) \/ y = p
<1> DEFINE i == IndexOf(l, x)
           k == IF i = 1 THEN Len(l) + 1 ELSE i
           r == AddBefore(l, x, p)
<1>1. i \in 1..Len(l) /\ l[i] = x /\ Len(l) \in Nat
  BY IndexOfProperties
<1>2. /\ r \in Seq(S) /\ Len(r) = Len(l) + 1
      /\ \A j \in 1..(Len(l) + 1) :
           r[j] = IF j < k THEN l[j] ELSE IF j = k THEN p ELSE l[j - 1]
  <2>1. CASE i = 1
    <3>1. r = Append(l, p) /\ k = Len(l) + 1
      BY <2>1 DEF AddBefore
    <3>2. /\ Append(l, p) \in Seq(S) /\ Len(Append(l, p)) = Len(l) + 1
          /\ \A j \in 1..Len(l) : Append(l, p)[j] = l[j]
          /\ Append(l, p)[Len(l) + 1] = p
      BY AppendProperties
    <3> HIDE DEF r, k
    <3> QED
      BY <3>1, <3>2, <1>1
  <2>2. CASE i # 1
    <3>1. r = InsertAt(l, i, p) /\ k = i
      BY <2>2 DEF AddBefore
    <3> HIDE DEF r, k, i
    <3>2. /\ InsertAt(l, i, p) \in Seq(S)
          /\ Len(InsertAt(l, i, p)) = Len(l) + 1
          /\ \A j \in 1..(Len(l) + 1) : InsertAt(l, i, p)[j] =
               IF j < i THEN l[j] ELSE IF j = i THEN p ELSE l[j - 1]
      <4>1. i \in 1..Len(l)
        BY <1>1
      <4> QED
        BY <4>1, InsertAtProperties
    <3> QED
      BY <3>1, <3>2
  <2> QED
    BY <2>1, <2>2
<1>3. k \in 2..(Len(l) + 1)
  BY <1>1
<1> HIDE DEF i, k, r
<1>4. r[1] = l[1] /\ Len(r) > 0
  BY <1>1, <1>2, <1>3
<1>5. \A j \in 1..(Len(l) + 1) : (j # k => On(l, r[j])) /\ (j = k => r[j] = p)
  <2> SUFFICES ASSUME NEW j \in 1..(Len(l) + 1)
               PROVE  (j # k => On(l, r[j])) /\ (j = k => r[j] = p)
    OBVIOUS
  <2>1. CASE j < k
    <3>1. j \in 1..Len(l) /\ r[j] = l[j]
      BY <2>1, <1>1, <1>2, <1>3
    <3> QED
      BY <3>1, <2>1, <1>3 DEF On
  <2>2. CASE j = k
    BY <2>2, <1>2
  <2>3. CASE j > k
    <3>1. j - 1 \in 1..Len(l) /\ r[j] = l[j - 1]
      BY <2>3, <1>1, <1>2, <1>3
    <3> QED
      BY <3>1, <2>3, <1>3 DEF On
  <2> QED
    BY <2>1, <2>2, <2>3, <1>1, <1>3
<1>6. Distinct(r)
  <2> SUFFICES ASSUME NEW a \in 1..Len(r), NEW b \in 1..Len(r), r[a] = r[b]
               PROVE  a = b
    BY DEF Distinct
  <2>1. CASE a = k \/ b = k
    BY <2>1, <1>2, <1>5
  <2>2. CASE a # k /\ b # k
    <3>1. \A j, n \in 1..Len(l) : l[j] = l[n] => j = n
      BY DEF Distinct
    <3>2. CASE a < k /\ b < k
      BY <3>1, <3>2, <1>1, <1>2, <1>3
    <3>3. CASE a < k /\ b > k
      BY <3>1, <3>3, <1>1, <1>2, <1>3, SMTT(60)
    <3>4. CASE a > k /\ b < k
      BY <3>1, <3>4, <1>1, <1>2, <1>3, SMTT(30)
    <3>5. CASE a > k /\ b > k
      <4>1. /\ a - 1 \in 1..Len(l) /\ r[a] = l[a - 1]
            /\ b - 1 \in 1..Len(l) /\ r[b] = l[b - 1]
        BY <3>5, <1>1, <1>2, <1>3
      <4>2. a - 1 = b - 1
        BY <3>1, <4>1
      <4> QED
        BY <4>2, <1>1, <1>2
    <3> QED
      BY <2>2, <3>2, <3>3, <3>4, <3>5, <1>1, <1>2, <1>3
  <2> QED
    BY <2>1, <2>2
<1>7. ASSUME NEW y, On(r, y) PROVE On(l, y) \/ y = p
  BY <1>2, <1>5, <1>7 DEF On
<1>8. ASSUME NEW y, On(l, y) \/ y = p PROVE On(r, y)
  <2>1. CASE y = p
    BY <2>1, <1>2, <1>3 DEF On
  <2>2. CASE On(l, y)
    <3>1. PICK a \in 1..Len(l) : l[a] = y
      BY <2>2 DEF On
    <3>2. CASE a < k
      <4>1. a \in 1..Len(r) /\ r[a] = y
        BY <3>1, <3>2, <1>1, <1>2
      <4> QED
        BY <4>1 DEF On
    <3>3. CASE a >= k
      <4>1. a + 1 \in 1..Len(r) /\ r[a + 1] = y
        BY <3>1, <3>3, <1>1, <1>2, <1>3
      <4> QED
        BY <4>1 DEF On
    <3> QED
      BY <3>1, <3>2, <3>3, <1>1, <1>3
  <2> QED
    BY <1>8, <2>1, <2>2
<1> QED
  BY <1>2, <1>4, <1>6, <1>7, <1>8 DEF r
(* The successor of an element is an element: lists are circular. *)
LEMMA NextOfProperties ==
  ASSUME NEW S, NEW l \in Seq(S), NEW x, On(l, x)
  PROVE  On(l, NextOf(l, x)) /\ NextOf(l, x) \in S
<1> DEFINE i == IndexOf(l, x)
<1>1. i \in 1..Len(l) /\ Len(l) \in Nat
  BY IndexOfProperties
<1> HIDE DEF i
<1>2. PICK j \in 1..Len(l) : NextOf(l, x) = l[j]
  <2>1. CASE i = Len(l)
    BY <1>1, <2>1 DEF NextOf, i
  <2>2. CASE i # Len(l)
    <3>1. i + 1 \in 1..Len(l) /\ NextOf(l, x) = l[i + 1]
      BY <1>1, <2>2 DEF NextOf, i
    <3> QED
      BY <3>1
  <2> QED
    BY <2>1, <2>2
<1> QED
  BY <1>2 DEF On

(* The predecessor of an element that is not the head is another element. *)
LEMMA PrevOfProperties ==
  ASSUME NEW S, NEW l \in Seq(S), NEW x, On(l, x), l[1] # x, Distinct(l)
  PROVE  On(l, PrevOf(l, x)) /\ PrevOf(l, x) # x
<1> DEFINE i == IndexOf(l, x)
<1>1. i \in 1..Len(l) /\ l[i] = x /\ Len(l) \in Nat
  BY IndexOfProperties
<1>2. PrevOf(l, x) = l[i - 1]
  BY DEF PrevOf
<1> HIDE DEF i
<1>3. i - 1 \in 1..Len(l) /\ i - 1 # i
  BY <1>1
<1> QED
  BY <1>1, <1>2, <1>3 DEF On, Distinct

(* A PCB put at the end of a list that does not have it. *)
LEMMA AppendOn ==
  ASSUME NEW S, NEW l \in Seq(S), NEW x \in S, ~On(l, x), Distinct(l)
  PROVE  /\ Append(l, x) \in Seq(S) /\ Distinct(Append(l, x))
         /\ \A y : On(Append(l, x), y) <=> On(l, y) \/ y = x
<1> DEFINE r == Append(l, x)
           n == Len(l)
<1>1. /\ r \in Seq(S) /\ Len(r) = n + 1 /\ n \in Nat
      /\ \A i \in 1..n : r[i] = l[i]
      /\ r[n + 1] = x
  BY AppendProperties
<1> HIDE DEF r, n
<1>2. \A y : On(r, y) <=> On(l, y) \/ y = x
  BY <1>1 DEF On, n
<1>3. Distinct(r)
  <2> SUFFICES ASSUME NEW a \in 1..(n + 1), NEW b \in 1..(n + 1), r[a] = r[b]
               PROVE  a = b
    BY <1>1 DEF Distinct
  <2>1. \A c \in 1..n : r[c] # x
    BY <1>1 DEF On, n
  <2>2. CASE a \in 1..n /\ b \in 1..n
    BY <1>1, <2>2 DEF Distinct, n
  <2>3. CASE a = n + 1 \/ b = n + 1
    BY <1>1, <2>1, <2>3
  <2> QED
    BY <1>1, <2>2, <2>3
<1> QED
  BY <1>1, <1>2, <1>3 DEF r

(* The first PCB taken out of a list. *)
LEMMA TailOn ==
  ASSUME NEW S, NEW l \in Seq(S), l # <<>>, Distinct(l)
  PROVE  /\ Tail(l) \in Seq(S) /\ Distinct(Tail(l))
         /\ Head(l) \in S /\ On(l, Head(l))
         /\ \A y : On(Tail(l), y) <=> On(l, y) /\ y # Head(l)
<1> DEFINE t == Tail(l)
           n == Len(l)
<1>1. /\ Head(l) \in S /\ t \in Seq(S) /\ Len(t) = n - 1
      /\ \A i \in 1..Len(t) : t[i] = l[i + 1]
  BY HeadTailProperties
<1>2. n \in Nat /\ n > 0 /\ Head(l) = l[1]
  OBVIOUS
<1>3. \A i, j \in 1..n : l[i] = l[j] => i = j
  BY DEF Distinct
<1> HIDE DEF t, n
<1>4. On(l, Head(l))
  <2>1. 1 \in 1..Len(l)
    BY <1>2 DEF n
  <2> QED
    BY <1>2, <2>1 DEF On
<1>5. \A i \in 1..(n - 1) : i + 1 \in 1..n /\ i + 1 # 1 /\ t[i] = l[i + 1]
  BY <1>1, <1>2
<1>6. Distinct(t)
  <2> SUFFICES ASSUME NEW a \in 1..(n - 1), NEW b \in 1..(n - 1), t[a] = t[b]
               PROVE  a = b
    BY <1>1 DEF Distinct
  <2>1. a + 1 = b + 1
    BY <1>3, <1>5
  <2> QED
    BY <1>2, <2>1
<1>7. ASSUME NEW y, On(t, y) PROVE On(l, y) /\ y # Head(l)
  <2>1. PICK i \in 1..(n - 1) : t[i] = y
    BY <1>1, <1>7 DEF On
  <2>2. i + 1 \in 1..n /\ l[i + 1] = y /\ i + 1 # 1 /\ 1 \in 1..n
    BY <1>2, <1>5, <2>1
  <2> QED
    BY <1>2, <1>3, <2>2 DEF On, n
<1>8. ASSUME NEW y, On(l, y), y # Head(l) PROVE On(t, y)
  <2>1. PICK i \in 1..n : l[i] = y
    BY <1>8 DEF On, n
  <2>2. i - 1 \in 1..Len(t) /\ t[i - 1] = y
    BY <1>1, <1>2, <1>8, <2>1
  <2> QED
    BY <2>2 DEF On
<1> QED
  BY <1>1, <1>4, <1>6, <1>7, <1>8 DEF t

(* Every set of natural numbers that is not empty has a least element. *)
LEMMA LeastElement ==
  ASSUME NEW T \in SUBSET Nat, T # {}
  PROVE  \E n \in T : \A m \in T : n <= m
<1> DEFINE R == OpToRel(<, Nat)
<1>1. \E n \in T : \A m \in T : ~(<<m, n>> \in R)
  <2>1. IsWellFoundedOn(R, Nat)
    BY NatLessThanWellFounded
  <2> HIDE DEF R
  <2> QED
    BY <2>1, WFMin
<1>2. \A m, n \in Nat : <<m, n>> \in R <=> m < n
  BY DEF OpToRel
<1> HIDE DEF R
<1>3. PICK n \in T : \A m \in T : ~(<<m, n>> \in R)
  BY <1>1
<1>4. \A m \in T : m \in Nat /\ ~(m < n) /\ n \in Nat
  BY <1>2, <1>3
<1>5. \A m \in T : n <= m
  BY <1>4
<1> QED
  BY <1>5
-----------------------------------------------------------------------------
(* Counting the messages of a source. *)

\* The places of a queue that hold a message from x.
Places(q, x) == {i \in 1..Len(q) : q[i].src = x}

(* A count is a natural number, and is not zero exactly when there is a
   message to be found. *)
LEMMA CountType ==
  ASSUME NEW S, NEW q \in Seq(S), NEW x
  PROVE  /\ IsFiniteSet(Places(q, x)) /\ Count(q, x) = Cardinality(Places(q, x))
         /\ Count(q, x) \in Nat
         /\ Count(q, x) > 0 <=> \E i \in 1..Len(q) : q[i].src = x
<1>1. Places(q, x) \in SUBSET (1..Len(q)) /\ 1 \in Int /\ Len(q) \in Int
  BY DEF Places
<1>2. IsFiniteSet(1..Len(q))
  BY <1>1, FS_Interval
<1>3. IsFiniteSet(Places(q, x))
  BY <1>1, <1>2, FS_Subset
<1>4. Cardinality(Places(q, x)) \in Nat
  BY <1>3, FS_CardinalityType
<1>5. Cardinality(Places(q, x)) = 0 <=> Places(q, x) = {}
  BY <1>3, FS_EmptySet
<1>6. Places(q, x) = {} <=> ~\E i \in 1..Len(q) : q[i].src = x
  BY DEF Places
<1>7. Count(q, x) = Cardinality(Places(q, x))
  BY DEF Count, Places
<1> QED
  BY <1>3, <1>4, <1>5, <1>6, <1>7

(* An empty queue counts nothing. *)
LEMMA CountEmpty == \A x : Count(<<>>, x) = 0
<1> TAKE x
<1>1. {i \in 1..Len(<<>>) : <<>>[i].src = x} = {}
  OBVIOUS
<1> QED
  BY <1>1, FS_EmptySet DEF Count

(* A message sent adds one to the count of its source. *)
LEMMA CountAppend ==
  ASSUME NEW S, NEW q \in Seq(S), NEW e \in S, NEW x
  PROVE  Count(Append(q, e), x) = Count(q, x) + (IF e.src = x THEN 1 ELSE 0)
<1> DEFINE r == Append(q, e)
           n == Len(q)
<1>1. /\ r \in Seq(S) /\ Len(r) = n + 1 /\ n \in Nat
      /\ \A i \in 1..n : r[i] = q[i]
      /\ r[n + 1] = e
  BY AppendProperties
<1>2. IsFiniteSet(Places(q, x)) /\ Count(q, x) = Cardinality(Places(q, x))
  BY CountType
<1>3. Count(r, x) = Cardinality(Places(r, x))
  BY <1>1, CountType
<1> HIDE DEF r, n
<1>4. CASE e.src = x
  <2>1. Places(r, x) = Places(q, x) \cup {n + 1} /\ n + 1 \notin Places(q, x)
    BY <1>1, <1>4 DEF Places, n
  <2>2. Cardinality(Places(q, x) \cup {n + 1}) = Cardinality(Places(q, x)) + 1
    BY <1>2, <2>1, FS_AddElement
  <2> QED
    BY <1>2, <1>3, <1>4, <2>1, <2>2 DEF r
<1>5. CASE e.src # x
  <2>1. Places(r, x) = Places(q, x)
    BY <1>1, <1>5 DEF Places, n
  <2>2. Count(q, x) \in Nat
    BY CountType
  <2> QED
    BY <1>2, <1>3, <1>5, <2>1, <2>2 DEF r
<1> QED
  BY <1>4, <1>5

(* A message taken out subtracts one from the count of its source. *)
LEMMA CountRemove ==
  ASSUME NEW S, NEW q \in Seq(S), NEW k \in 1..Len(q), NEW x
  PROVE  Count(RemoveAt(q, k), x) = Count(q, x) - (IF q[k].src = x THEN 1 ELSE 0)
<1> DEFINE r == RemoveAt(q, k)
           n == Len(q)
           A == Places(q, x) \ {k}
           B == Places(r, x)
           up(i) == IF i < k THEN i ELSE i + 1
           f == [i \in B |-> up(i)]
<1>1. /\ r \in Seq(S) /\ Len(r) = n - 1
      /\ \A i \in 1..(n - 1) : r[i] = IF i < k THEN q[i] ELSE q[i + 1]
  BY RemoveAtProperties
<1>2. /\ IsFiniteSet(Places(q, x)) /\ Count(q, x) = Cardinality(Places(q, x))
      /\ Count(q, x) \in Nat
  BY CountType
<1>3. IsFiniteSet(B) /\ Count(r, x) = Cardinality(B)
  BY <1>1, CountType
<1>4. n \in Nat /\ k \in 1..n
  OBVIOUS
<1> HIDE DEF r, n
<1>5. \A i \in 1..(n - 1) : up(i) \in 1..n /\ up(i) # k /\ r[i] = q[up(i)]
  BY <1>1, <1>4
<1>6. \A i, j \in 1..(n - 1) : up(i) = up(j) => i = j
  BY <1>4
<1>7. \A m \in 1..n : m # k => \E i \in 1..(n - 1) : up(i) = m
  <2> SUFFICES ASSUME NEW m \in 1..n, m # k
               PROVE  \E i \in 1..(n - 1) : up(i) = m
    OBVIOUS
  <2>1. CASE m < k
    <3>1. m \in 1..(n - 1) /\ up(m) = m
      BY <1>4, <2>1
    <3> QED
      BY <3>1
  <2>2. CASE m > k
    <3>1. m - 1 \in 1..(n - 1) /\ up(m - 1) = m
      BY <1>4, <2>2
    <3> QED
      BY <3>1
  <2> QED
    BY <1>4, <2>1, <2>2
<1> HIDE DEF up
<1>8. \A i : i \in B <=> i \in 1..(n - 1) /\ r[i].src = x
  BY <1>1 DEF Places
<1>9. \A m : m \in A <=> m \in 1..n /\ m # k /\ q[m].src = x
  BY DEF Places, n
<1> HIDE DEF A, B
<1>10. f \in [B -> A]
  BY <1>5, <1>8, <1>9
<1>11. \A i, j \in B : f[i] = f[j] => i = j
  BY <1>6, <1>8
<1>12. \A m \in A : \E i \in B : f[i] = m
  BY <1>5, <1>7, <1>8, <1>9
<1> HIDE DEF f
<1>13. ExistsBijection(B, A)
  <2>1. f \in Injection(B, A)
    BY <1>10, <1>11 DEF Injection, IsInjective
  <2>2. f \in Surjection(B, A)
    BY <1>10, <1>12 DEF Surjection
  <2> QED
    BY <2>1, <2>2 DEF ExistsBijection, Bijection
<1>14. Cardinality(A) = Cardinality(B)
  BY <1>3, <1>13, FS_Bijection
<1>15. Cardinality(A) = IF k \in Places(q, x) THEN Cardinality(Places(q, x)) - 1
                                              ELSE Cardinality(Places(q, x))
  BY <1>2, FS_RemoveElement DEF A
<1>16. k \in Places(q, x) <=> q[k].src = x
  BY DEF Places
<1> QED
  BY <1>2, <1>3, <1>14, <1>15, <1>16 DEF r
=============================================================================
