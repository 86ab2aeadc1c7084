---------------------------- MODULE SpeechProofs -----------------------------
(***************************************************************************)
(* How the cutting of a session's audio keeps speech whole (Chunker), for  *)
(* any sizes of block, frame, window, pre-roll and cap that fit together:  *)
(* every utterance is a part of the recording, one after the other, and    *)
(* what has been judged to be speech is in one of them or in the one that  *)
(* grows.  First what is true of the parts of a recording, then each step. *)
(***************************************************************************)
EXTENDS Chunker, SequenceTheorems, TLAPS

BP == INSTANCE BookProofs

-------------------------------------------------------------------------------
(* Parts of a recording.  A slice of it is what follows a units, up to b. *)
Slice(s, a, b) == SubSeq(s, a + 1, b)

Rising(s) == \A i, j \in DOMAIN s : i < j => s[i] < s[j]

Below(A, B) == \A x \in A, y \in B : x < y

LEMMA SetOf == ASSUME NEW s \in Seq(Int) PROVE ToSet(s) = {s[i] : i \in 1..Len(s)} /\ DOMAIN s = 1..Len(s) /\ ToSet(s) \subseteq Int
<1>1. DOMAIN s = 1..Len(s) /\ \A i \in 1..Len(s) : s[i] \in Int
  OBVIOUS
<1> QED BY <1>1 DEF ToSet

LEMMA Concats ==
  ASSUME NEW s \in Seq(Int), NEW t \in Seq(Int)
  PROVE  /\ s \o t \in Seq(Int) /\ Len(s \o t) = Len(s) + Len(t)
         /\ \A i \in 1..Len(s) : (s \o t)[i] = s[i]
         /\ \A i \in 1..Len(t) : (s \o t)[Len(s) + i] = t[i]
         /\ ToSet(s \o t) = ToSet(s) \cup ToSet(t)
         /\ Rising(s) /\ Rising(t) /\ Below(ToSet(s), ToSet(t)) => Rising(s \o t)
<1> DEFINE r == s \o t
           m == Len(s)
           n == Len(t)
<1>1. /\ m \in Nat /\ n \in Nat /\ r \in Seq(Int) /\ Len(r) = m + n
      /\ \A i \in 1..m : r[i] = s[i]
      /\ \A i \in 1..n : r[m + i] = t[i]
  OBVIOUS
<1>2. ToSet(s) = {s[i] : i \in 1..m} /\ ToSet(t) = {t[i] : i \in 1..n} /\ ToSet(r) = {r[i] : i \in 1..(m + n)}
      /\ DOMAIN r = 1..(m + n) /\ DOMAIN s = 1..m /\ DOMAIN t = 1..n
  <2> HIDE DEF r
  <2> QED BY <1>1, SetOf
<1>3. \A k \in 1..(m + n) : k \in 1..m \/ \E i \in 1..n : k = m + i
  <2> SUFFICES ASSUME NEW k \in 1..(m + n), k \notin 1..m PROVE \E i \in 1..n : k = m + i
    OBVIOUS
  <2>1. k - m \in 1..n /\ k = m + (k - m)
    BY <1>1
  <2> QED BY <2>1
<1>4. \A i \in 1..m : i \in 1..(m + n)
  BY <1>1
<1>5. \A i \in 1..n : m + i \in 1..(m + n)
  BY <1>1
<1> HIDE DEF r, m, n
<1>6. ToSet(r) = ToSet(s) \cup ToSet(t)
  <2>1. ASSUME NEW x \in ToSet(r) PROVE x \in ToSet(s) \cup ToSet(t)
    <3>1. PICK k \in 1..(m + n) : x = r[k]
      BY <1>2
    <3>2. CASE k \in 1..m
      BY <1>1, <1>2, <3>1, <3>2
    <3>3. CASE \E i \in 1..n : k = m + i
      BY <1>1, <1>2, <3>1, <3>3
    <3> QED BY <1>3, <3>2, <3>3
  <2>2. ASSUME NEW x \in ToSet(s) PROVE x \in ToSet(r)
    BY <1>1, <1>2, <1>4
  <2>3. ASSUME NEW x \in ToSet(t) PROVE x \in ToSet(r)
    <3>1. PICK i \in 1..n : x = t[i]
      BY <1>2
    <3>2. r[m + i] = x /\ m + i \in 1..(m + n)
      BY <1>1, <1>5, <3>1
    <3> QED BY <1>2, <3>2
  <2> QED BY <2>1, <2>2, <2>3
<1>7. ASSUME Rising(s), Rising(t), Below(ToSet(s), ToSet(t)) PROVE Rising(r)
  <2> SUFFICES ASSUME NEW i \in 1..(m + n), NEW j \in 1..(m + n), i < j PROVE r[i] < r[j]
    BY <1>2 DEF Rising
  <2>1. CASE j \in 1..m
    <3>1. i \in 1..m
      BY <1>1, <2>1
    <3> QED BY <1>1, <1>2, <1>7, <2>1, <3>1 DEF Rising
  <2>2. CASE i \in 1..m /\ j \notin 1..m
    <3>1. PICK k \in 1..n : j = m + k
      BY <1>3, <2>2
    <3>2. r[i] \in ToSet(s) /\ r[j] \in ToSet(t)
      BY <1>1, <1>2, <2>2, <3>1
    <3> QED BY <1>7, <3>2 DEF Below
  <2>3. CASE i \notin 1..m /\ j \notin 1..m
    <3>1. PICK k \in 1..n : j = m + k
      BY <1>3, <2>3
    <3>2. PICK l \in 1..n : i = m + l
      BY <1>3, <2>3
    <3>3. l < k
      BY <1>1, <3>1, <3>2
    <3>4. r[i] = t[l] /\ r[j] = t[k]
      BY <1>1, <3>1, <3>2
    <3> QED BY <1>2, <1>7, <3>3, <3>4 DEF Rising
  <2> QED BY <2>1, <2>2, <2>3
<1> QED BY <1>1, <1>6, <1>7 DEF r, m, n

LEMMA Chained ==
  ASSUME NEW s \in Seq(Int), NEW t \in Seq(Int), NEW u \in Seq(Int)
  PROVE  (s \o t) \o u = s \o (t \o u)
  BY ConcatAssociative

LEMMA Slices ==
  ASSUME NEW s \in Seq(Int), NEW a \in Nat, NEW b \in Nat, a <= b, b <= Len(s)
  PROVE  /\ Slice(s, a, b) \in Seq(Int) /\ Len(Slice(s, a, b)) = b - a
         /\ \A i \in 1..(b - a) : Slice(s, a, b)[i] = s[a + i]
         /\ ToSet(Slice(s, a, b)) = {s[p] : p \in (a + 1)..b}
         /\ ToSet(Slice(s, a, b)) \subseteq ToSet(s)
         /\ Rising(s) => Rising(Slice(s, a, b))
<1> DEFINE r == Slice(s, a, b)
<1>0. Len(s) \in Nat
  OBVIOUS
<1>1. r \in Seq(Int) /\ Len(r) = b - a /\ \A i \in 1..(b - a) : r[i] = s[a + i]
  <2>1. a + 1 \in Nat /\ b - (a + 1) + 1 = b - a /\ \A i \in 1..(b - a) : (a + 1) + i - 1 = a + i
    OBVIOUS
  <2> QED BY <1>0, <2>1 DEF Slice
<1> HIDE DEF r
<1>2. ToSet(r) = {r[i] : i \in 1..(b - a)} /\ DOMAIN r = 1..(b - a) /\ ToSet(s) = {s[i] : i \in 1..Len(s)}
      /\ DOMAIN s = 1..Len(s)
  BY <1>1, SetOf
<1>3. \A i \in 1..(b - a) : a + i \in (a + 1)..b /\ a + i \in 1..Len(s)
  BY <1>0
<1>4. \A p \in (a + 1)..b : p - a \in 1..(b - a) /\ a + (p - a) = p /\ p \in 1..Len(s)
  BY <1>0
<1>5. ToSet(r) = {s[p] : p \in (a + 1)..b}
  <2>1. ASSUME NEW x \in ToSet(r) PROVE \E p \in (a + 1)..b : x = s[p]
    BY <1>1, <1>2, <1>3
  <2>2. ASSUME NEW p \in (a + 1)..b PROVE s[p] \in ToSet(r)
    <3> DEFINE i == p - a
    <3>1. i \in 1..(b - a) /\ a + i = p
      BY <1>4
    <3> HIDE DEF i
    <3>2. r[i] = s[p]
      BY <1>1, <3>1
    <3> QED BY <1>2, <3>1, <3>2
  <2> QED BY <2>1, <2>2
<1>6. ToSet(r) \subseteq ToSet(s)
  BY <1>2, <1>4, <1>5
<1>7. ASSUME Rising(s) PROVE Rising(r)
  <2> SUFFICES ASSUME NEW i \in 1..(b - a), NEW j \in 1..(b - a), i < j PROVE r[i] < r[j]
    BY <1>2 DEF Rising
  <2>1. a + i < a + j /\ a + i \in DOMAIN s /\ a + j \in DOMAIN s
    BY <1>2, <1>3
  <2> QED BY <1>1, <1>7, <2>1 DEF Rising
<1> QED BY <1>1, <1>5, <1>6, <1>7 DEF r

LEMMA Same ==
  ASSUME NEW s \in Seq(Int), NEW t \in Seq(Int), Len(s) = Len(t), \A i \in 1..Len(s) : s[i] = t[i]
  PROVE  s = t
  OBVIOUS

LEMMA SlicesMeet ==
  ASSUME NEW s \in Seq(Int), NEW a \in Nat, NEW b \in Nat, NEW c \in Nat, a <= b, b <= c, c <= Len(s)
  PROVE  Slice(s, a, b) \o Slice(s, b, c) = Slice(s, a, c)
<1> DEFINE x == Slice(s, a, b)
           y == Slice(s, b, c)
           z == Slice(s, a, c)
<1>0. Len(s) \in Nat /\ b <= Len(s) /\ a <= c
  OBVIOUS
<1>1. x \in Seq(Int) /\ Len(x) = b - a /\ \A i \in 1..(b - a) : x[i] = s[a + i]
  BY <1>0, Slices
<1>2. y \in Seq(Int) /\ Len(y) = c - b /\ \A i \in 1..(c - b) : y[i] = s[b + i]
  BY <1>0, Slices
<1>3. z \in Seq(Int) /\ Len(z) = c - a /\ \A i \in 1..(c - a) : z[i] = s[a + i]
  BY <1>0, Slices
<1> HIDE DEF x, y, z
<1>4. /\ x \o y \in Seq(Int) /\ Len(x \o y) = (b - a) + (c - b)
      /\ \A i \in 1..(b - a) : (x \o y)[i] = x[i]
      /\ \A i \in 1..(c - b) : (x \o y)[(b - a) + i] = y[i]
  <2>1. /\ x \o y \in Seq(Int) /\ Len(x \o y) = Len(x) + Len(y)
        /\ \A i \in 1..Len(x) : (x \o y)[i] = x[i]
        /\ \A i \in 1..Len(y) : (x \o y)[Len(x) + i] = y[i]
    BY <1>1, <1>2, Concats
  <2>2. Len(x) = b - a /\ Len(y) = c - b
    BY <1>1, <1>2
  <2> QED BY <2>1, <2>2
<1>5. \A i \in 1..(c - a) : (x \o y)[i] = z[i]
  <2> SUFFICES ASSUME NEW i \in 1..(c - a) PROVE (x \o y)[i] = z[i]
    OBVIOUS
  <2>1. CASE i \in 1..(b - a)
    BY <1>1, <1>3, <1>4, <2>1
  <2>2. CASE i \notin 1..(b - a)
    <3> DEFINE k == i - (b - a)
    <3>1. k \in 1..(c - b) /\ i = (b - a) + k /\ b + k = a + i
      BY <2>2
    <3> HIDE DEF k
    <3>2. (x \o y)[i] = y[k] /\ y[k] = s[b + k]
      BY <1>2, <1>4, <3>1
    <3> QED BY <1>3, <3>1, <3>2
  <2> QED BY <2>1, <2>2
<1>6. Len(x \o y) = c - a
  BY <1>4
<1>7. x \o y = z
  BY <1>3, <1>4, <1>5, <1>6, Same
<1> QED BY <1>7 DEF x, y, z

(* What is added behind a slice leaves it alone. *)
LEMMA SliceStays ==
  ASSUME NEW s \in Seq(Int), NEW t \in Seq(Int)
  PROVE  /\ \A a, b \in Nat : a <= b /\ b <= Len(s) => Slice(s \o t, a, b) = Slice(s, a, b)
         /\ Slice(s \o t, Len(s), Len(s) + Len(t)) = t
<1> DEFINE r == s \o t
           n == Len(s)
           m == Len(t)
<1>1. /\ n \in Nat /\ m \in Nat /\ r \in Seq(Int) /\ Len(r) = n + m
      /\ \A i \in 1..n : r[i] = s[i]
      /\ \A i \in 1..m : r[n + i] = t[i]
  BY Concats
<1> HIDE DEF r
<1>2. ASSUME NEW a \in Nat, NEW b \in Nat, a <= b, b <= n PROVE Slice(r, a, b) = Slice(s, a, b)
  <2>0. b <= Len(r)
    BY <1>1, <1>2
  <2> DEFINE x == Slice(r, a, b)
             y == Slice(s, a, b)
  <2>1. x \in Seq(Int) /\ Len(x) = b - a /\ \A i \in 1..(b - a) : x[i] = r[a + i]
    BY <1>1, <1>2, <2>0, Slices
  <2>2. y \in Seq(Int) /\ Len(y) = b - a /\ \A i \in 1..(b - a) : y[i] = s[a + i]
    BY <1>2, Slices
  <2>3. \A i \in 1..(b - a) : a + i \in 1..n
    BY <1>1, <1>2
  <2> HIDE DEF x, y, n
  <2>4. \A i \in 1..Len(x) : x[i] = y[i]
    BY <1>1, <2>1, <2>2, <2>3
  <2>5. x = y
    BY <2>1, <2>2, <2>4, Same
  <2> QED BY <2>5 DEF x, y
<1>3. Slice(r, n, n + m) = t
  <2> DEFINE x == Slice(r, n, n + m)
  <2>0. n + m \in Nat /\ n <= n + m /\ n + m <= Len(r) /\ n + m - n = m
    BY <1>1
  <2> HIDE DEF n, m
  <2>1. x \in Seq(Int) /\ Len(x) = m /\ \A i \in 1..m : x[i] = r[n + i]
    <3> DEFINE q == n + m
    <3>0. n \in Nat /\ q \in Nat /\ n <= q /\ q <= Len(r) /\ q - n = m /\ r \in Seq(Int) /\ x = Slice(r, n, q)
      BY <1>1, <2>0 DEF n
    <3> HIDE DEF q, x
    <3>1. x \in Seq(Int) /\ Len(x) = q - n /\ \A i \in 1..(q - n) : x[i] = r[n + i]
      BY <3>0, Slices
    <3> QED BY <3>0, <3>1
  <2> HIDE DEF x
  <2>2. Len(t) = Len(x) /\ \A i \in 1..Len(x) : x[i] = t[i]
    BY <1>1, <2>1 DEF m
  <2>3. x = t
    BY <2>1, <2>2, Same
  <2> QED BY <2>3 DEF x
<1> QED BY <1>2, <1>3 DEF r

LEMMA SliceOfSlice ==
  ASSUME NEW s \in Seq(Int), NEW a \in Nat, NEW b \in Nat, NEW c \in Nat, NEW d \in Nat,
         a <= b, b <= Len(s), c <= d, d <= b - a
  PROVE  Slice(Slice(s, a, b), c, d) = Slice(s, a + c, a + d)
<1> DEFINE x == Slice(s, a, b)
           y == Slice(x, c, d)
           z == Slice(s, a + c, a + d)
<1>0. Len(s) \in Nat /\ a + c \in Nat /\ a + d \in Nat /\ a + c <= a + d /\ a + d <= Len(s)
  OBVIOUS
<1>1. x \in Seq(Int) /\ Len(x) = b - a /\ \A i \in 1..(b - a) : x[i] = s[a + i]
  BY <1>0, Slices
<1>2. y \in Seq(Int) /\ Len(y) = d - c /\ \A i \in 1..(d - c) : y[i] = x[c + i]
  <2> HIDE DEF x
  <2> QED BY <1>1, Slices
<1>3. z \in Seq(Int) /\ Len(z) = d - c /\ \A i \in 1..(d - c) : z[i] = s[a + c + i]
  <2>1. (a + d) - (a + c) = d - c
    OBVIOUS
  <2> DEFINE k == a + c
             l == a + d
  <2> HIDE DEF k, l
  <2>2. Slice(s, k, l) \in Seq(Int) /\ Len(Slice(s, k, l)) = l - k /\ \A i \in 1..(l - k) : Slice(s, k, l)[i] = s[k + i]
    BY <1>0, Slices DEF k, l
  <2> QED BY <2>1, <2>2 DEF k, l
<1>4. \A i \in 1..(d - c) : c + i \in 1..(b - a) /\ a + (c + i) = a + c + i
  OBVIOUS
<1> HIDE DEF x, y, z
<1>5. \A i \in 1..Len(y) : y[i] = z[i]
  BY <1>1, <1>2, <1>3, <1>4
<1>6. y = z
  BY <1>2, <1>3, <1>5, Same
<1> QED BY <1>6 DEF x, y, z

(* The last units of a recording: of two endings, the longer has the shorter
   in it, and what is recorded next makes each longer. *)
Ending(s, k) == Slice(s, Len(s) - k, Len(s))

LEMMA Endings ==
  ASSUME NEW s \in Seq(Int), NEW k \in Nat, k <= Len(s)
  PROVE  /\ Ending(s, k) \in Seq(Int) /\ Len(Ending(s, k)) = k
         /\ ToSet(Ending(s, k)) \subseteq ToSet(s)
         /\ ToSet(Ending(s, k)) = {s[p] : p \in (Len(s) - k + 1)..Len(s)}
         /\ Rising(s) => Rising(Ending(s, k))
<1> DEFINE n == Len(s)
           a == n - k
<1>0. n \in Nat /\ a \in Nat /\ a <= n /\ n - a = k /\ n <= Len(s)
  OBVIOUS
<1>1. Ending(s, k) = Slice(s, a, n)
  BY DEF Ending
<1> HIDE DEF a, n
<1>2. /\ Slice(s, a, n) \in Seq(Int) /\ Len(Slice(s, a, n)) = n - a
      /\ ToSet(Slice(s, a, n)) = {s[p] : p \in (a + 1)..n}
      /\ ToSet(Slice(s, a, n)) \subseteq ToSet(s)
      /\ Rising(s) => Rising(Slice(s, a, n))
  BY <1>0, Slices
<1>3. Len(Ending(s, k)) = k
  BY <1>0, <1>1, <1>2
<1>4. ToSet(Ending(s, k)) = {s[p] : p \in (Len(s) - k + 1)..Len(s)}
  BY <1>1, <1>2 DEF a, n
<1> QED BY <1>1, <1>2, <1>3, <1>4

LEMMA EndingsNest ==
  ASSUME NEW s \in Seq(Int), NEW j \in Nat, NEW k \in Nat, j <= k, k <= Len(s)
  PROVE  ToSet(Ending(s, j)) \subseteq ToSet(Ending(s, k))
<1>0. Len(s) \in Nat /\ j <= Len(s)
  OBVIOUS
<1>1. ToSet(Ending(s, j)) = {s[p] : p \in (Len(s) - j + 1)..Len(s)}
  BY <1>0, Endings
<1>2. ToSet(Ending(s, k)) = {s[p] : p \in (Len(s) - k + 1)..Len(s)}
  BY <1>0, Endings
<1>3. (Len(s) - j + 1)..Len(s) \subseteq (Len(s) - k + 1)..Len(s)
  BY <1>0
<1> QED BY <1>1, <1>2, <1>3

LEMMA EndingGrows ==
  ASSUME NEW s \in Seq(Int), NEW t \in Seq(Int), NEW k \in Nat, k <= Len(s)
  PROVE  Ending(s, k) \o t = Ending(s \o t, k + Len(t))
<1> DEFINE r == s \o t
           n == Len(s)
           m == Len(t)
           a == n - k
           l == n + m
<1>1. /\ n \in Nat /\ m \in Nat /\ a \in Nat /\ l \in Nat /\ a <= n /\ n <= l /\ l - (k + m) = a
      /\ n <= Len(s)
  OBVIOUS
<1>2. r \in Seq(Int) /\ Len(r) = l
  BY Concats
<1>3. Slice(r, n, l) = t
  BY SliceStays
<1>4. Slice(r, a, n) = Slice(s, a, n)
  <2> HIDE DEF a, n
  <2> QED BY <1>1, SliceStays
<1>5. Slice(r, a, n) \o Slice(r, n, l) = Slice(r, a, l)
  <2>1. a \in Nat /\ n \in Nat /\ l \in Nat /\ a <= n /\ n <= l
    BY <1>1
  <2>2. r \in Seq(Int) /\ l <= Len(r)
    BY <1>1, <1>2
  <2> HIDE DEF a, n, l, r
  <2> QED BY <2>1, <2>2, SlicesMeet
<1>6. Ending(s, k) = Slice(s, a, n)
  BY DEF Ending
<1>7. Ending(r, k + m) = Slice(r, a, l)
  <2> HIDE DEF r, l, a, m
  <2> QED BY <1>1, <1>2 DEF Ending
<1> HIDE DEF a, n, l
<1> QED BY <1>3, <1>4, <1>5, <1>6, <1>7

(* What is cut off the front of an ending leaves an ending. *)
LEMMA EndingShortens ==
  ASSUME NEW s \in Seq(Int), NEW j \in Nat, NEW k \in Nat, j <= k, k <= Len(s)
  PROVE  /\ SubSeq(Ending(s, k), j + 1, k) = Ending(s, k - j)
         /\ ToSet(SubSeq(Ending(s, k), 1, j)) \subseteq ToSet(Ending(s, k))
<1> DEFINE n == Len(s)
           a == n - k
           x == Ending(s, k)
<1>1. n \in Nat /\ a \in Nat /\ a <= n /\ n - a = k /\ a + j = n - (k - j) /\ a + k = n /\ n <= Len(s)
  OBVIOUS
<1>2. x = Slice(s, a, n) /\ Ending(s, k - j) = Slice(s, a + j, n)
  <2>1. Len(s) = n /\ n - (k - j) = a + j
    OBVIOUS
  <2> QED BY <2>1 DEF Ending
<1>3. x \in Seq(Int) /\ Len(x) = k
  BY Endings
<1> HIDE DEF x, a, n
<1>4. Slice(Slice(s, a, n), j, k) = Slice(s, a + j, a + k)
  BY <1>1, SliceOfSlice
<1>5. SubSeq(x, j + 1, k) = Ending(s, k - j)
  BY <1>1, <1>2, <1>4 DEF Slice
<1>6. ToSet(SubSeq(x, 1, j)) \subseteq ToSet(x)
  <2>0. 0 \in Nat /\ 0 <= j /\ j <= Len(x)
    BY <1>3
  <2>1. ToSet(Slice(x, 0, j)) \subseteq ToSet(x)
    BY <1>3, <2>0, Slices
  <2> QED BY <2>1 DEF Slice
<1> QED BY <1>5, <1>6 DEF x

LEMMA Flattens ==
  ASSUME NEW parts \in Seq(Seq(Int))
  PROVE  \E f : BP!Joins(f, parts) /\ FlattenSeq(parts) = f[Len(parts)]
  BY BP!Flattens DEF FlattenSeq, BP!FlattenSeq

LEMMA EmptySlice ==
  ASSUME NEW s \in Seq(Int), NEW a \in Nat, a <= Len(s)
  PROVE  Slice(s, a, a) = <<>>
<1>1. a <= a /\ a - a = 0
  OBVIOUS
<1>2. Slice(s, a, a) \in Seq(Int) /\ Len(Slice(s, a, a)) = 0
  BY <1>1, Slices
<1> QED BY <1>2

(* Parts that follow one another in a recording are one part of it. *)
LEMMA FlatMeets ==
  ASSUME NEW s \in Seq(Int), NEW parts \in Seq(Seq(Int)), NEW at \in [0..Len(parts) -> Nat],
         \A i \in 0..Len(parts) : at[i] <= Len(s),
         \A i \in 1..Len(parts) : at[i - 1] <= at[i] /\ parts[i] = Slice(s, at[i - 1], at[i])
  PROVE  at[0] <= at[Len(parts)] /\ FlattenSeq(parts) = Slice(s, at[0], at[Len(parts)])
<1> DEFINE N == Len(parts)
<1>0. N \in Nat
  OBVIOUS
<1>1. PICK f : BP!Joins(f, parts) /\ FlattenSeq(parts) = f[N]
  BY Flattens
<1>2. f[0] = <<>> /\ \A i \in 1..N : f[i] = f[i - 1] \o parts[i]
  BY <1>1 DEF BP!Joins
<1> DEFINE P == {n \in 0..N : at[0] <= at[n] /\ f[n] = Slice(s, at[0], at[n])}
<1>3. 0 \in P
  <2>1. at[0] \in Nat /\ at[0] <= Len(s) /\ 0 \in 0..N
    BY <1>0
  <2>2. Slice(s, at[0], at[0]) = <<>>
    BY <2>1, EmptySlice
  <2> HIDE DEF N
  <2> QED BY <1>2, <2>1, <2>2
<1>4. ASSUME NEW n \in 0..(N - 1), n \in P PROVE n + 1 \in P
  <2> DEFINE k == n + 1
             a == at[0]
             b == at[n]
             c == at[k]
  <2>1. k \in 1..N /\ k \in 0..N /\ k - 1 = n /\ n \in 0..N /\ 0 \in 0..N
    BY <1>0
  <2> HIDE DEF k
  <2>2. f[k] = f[n] \o parts[k]
    <3>1. f[k] = f[k - 1] \o parts[k]
      BY <1>2, <2>1
    <3> QED BY <2>1, <3>1
  <2>3. at[n] <= at[k] /\ parts[k] = Slice(s, at[n], at[k])
    <3>1. at[k - 1] <= at[k] /\ parts[k] = Slice(s, at[k - 1], at[k])
      BY <2>1
    <3> QED BY <2>1, <3>1
  <2>4. a \in Nat /\ b \in Nat /\ c \in Nat /\ c <= Len(s) /\ b <= c /\ parts[k] = Slice(s, b, c)
    BY <2>1, <2>3
  <2>5. a <= b /\ f[n] = Slice(s, a, b)
    BY <1>4
  <2> HIDE DEF a, b, c
  <2>6. Slice(s, a, b) \o Slice(s, b, c) = Slice(s, a, c)
    BY <2>4, <2>5, SlicesMeet
  <2>7. f[k] = Slice(s, a, c) /\ a <= c
    BY <2>2, <2>4, <2>5, <2>6
  <2> QED BY <2>1, <2>7 DEF k, a, c
<1>5. N \in P
  <2> HIDE DEF P
  <2>1. \A n \in 0..N : n \in P
    <3> HIDE DEF N
    <3> QED BY <1>0, <1>3, <1>4, BP!Climb
  <2> QED BY <1>0, <2>1
<1> QED BY <1>1, <1>5

(* Parts that rise, each above those before it, rise when they are joined. *)
Within(parts, n) == UNION {ToSet(parts[i]) : i \in 1..n}

LEMMA FlatRises ==
  ASSUME NEW parts \in Seq(Seq(Int)), \A i \in 1..Len(parts) : Rising(parts[i]),
         \A i, j \in 1..Len(parts) : i < j => Below(ToSet(parts[i]), ToSet(parts[j]))
  PROVE  /\ FlattenSeq(parts) \in Seq(Int) /\ Rising(FlattenSeq(parts))
         /\ ToSet(FlattenSeq(parts)) = Within(parts, Len(parts))
<1> DEFINE N == Len(parts)
<1>0. N \in Nat
  OBVIOUS
<1>1. PICK f : BP!Joins(f, parts) /\ FlattenSeq(parts) = f[N]
  BY Flattens
<1>2. f \in [0..N -> Seq(Int)] /\ f[0] = <<>> /\ \A i \in 1..N : f[i] = f[i - 1] \o parts[i]
  BY <1>1 DEF BP!Joins
<1> DEFINE P == {n \in 0..N : Rising(f[n]) /\ ToSet(f[n]) = Within(parts, n)}
<1>3. 0 \in P
  <2>1. Rising(<<>>) /\ ToSet(<<>>) = {}
    BY DEF Rising, ToSet
  <2>2. Within(parts, 0) = {} /\ 0 \in 0..N
    BY <1>0 DEF Within
  <2> HIDE DEF N
  <2> QED BY <1>2, <2>1, <2>2
<1>4. ASSUME NEW n \in 0..(N - 1), n \in P PROVE n + 1 \in P
  <2> DEFINE k == n + 1
             x == f[n]
             y == parts[k]
  <2>1. k \in 1..N /\ k \in 0..N /\ k - 1 = n /\ n \in 0..N /\ \A i \in 1..n : i \in 1..N /\ i < k
    BY <1>0
  <2>2. 1..k = (1..n) \cup {k}
    BY <1>0
  <2> HIDE DEF k
  <2>3. f[k] = x \o y
    <3>1. f[k] = f[k - 1] \o parts[k]
      BY <1>2, <2>1
    <3> QED BY <2>1, <3>1
  <2>4. x \in Seq(Int) /\ y \in Seq(Int) /\ Rising(x) /\ Rising(y) /\ ToSet(x) = Within(parts, n)
    <3>1. x \in Seq(Int) /\ y \in Seq(Int)
      <4>1. \A i \in 1..N : parts[i] \in Seq(Int)
        OBVIOUS
      <4> HIDE DEF N
      <4> QED BY <1>2, <2>1, <4>1
    <3>2. Rising(y)
      BY <2>1
    <3>3. Rising(x) /\ ToSet(x) = Within(parts, n)
      BY <1>4
    <3> QED BY <3>1, <3>2, <3>3
  <2>5. Below(ToSet(x), ToSet(y))
    <3>1. ASSUME NEW u \in ToSet(x), NEW v \in ToSet(y) PROVE u < v
      <4>1. PICK i \in 1..n : u \in ToSet(parts[i])
        BY <2>4, <3>1 DEF Within
      <4>2. Below(ToSet(parts[i]), ToSet(parts[k]))
        BY <2>1, <4>1
      <4> QED BY <3>1, <4>1, <4>2 DEF Below
    <3> QED BY <3>1 DEF Below
  <2>6. Within(parts, k) = Within(parts, n) \cup ToSet(y)
    BY <2>2 DEF Within
  <2> HIDE DEF x, y
  <2>7. Rising(x \o y) /\ ToSet(x \o y) = ToSet(x) \cup ToSet(y)
    BY <2>4, <2>5, Concats
  <2>8. Rising(f[k]) /\ ToSet(f[k]) = Within(parts, k)
    BY <2>3, <2>4, <2>6, <2>7
  <2> QED BY <2>1, <2>8 DEF k
<1>5. N \in P
  <2> HIDE DEF P
  <2>1. \A n \in 0..N : n \in P
    <3> HIDE DEF N
    <3> QED BY <1>0, <1>3, <1>4, BP!Climb
  <2> QED BY <1>0, <2>1
<1>6. f[N] \in Seq(Int)
  BY <1>0, <1>2
<1> QED BY <1>1, <1>5, <1>6

(* A list of frames, the last that were recorded. *)
Back(s, F, q) == Len(s) - F * q

Rolled(roll, s, F) ==
  /\ roll \in Seq(Seq(Int)) /\ F * Len(roll) <= Len(s)
  /\ \A i \in 1..Len(roll) :
       roll[i] = Slice(s, Back(s, F, Len(roll) - i + 1), Back(s, F, Len(roll) - i))

LEMMA Times ==
  ASSUME NEW F \in Nat, NEW i \in Nat, NEW j \in Nat
  PROVE  /\ F * i \in Nat /\ F * (i + 1) = F * i + F /\ F * 0 = 0 /\ F * 1 = F
         /\ i <= j => F * i <= F * j
         /\ F * i < F * j => F * i + F <= F * j
<1>1. F * i \in Nat /\ F * (i + 1) = F * i + F /\ F * 0 = 0 /\ F * 1 = F
  OBVIOUS
<1>2. ASSUME i <= j PROVE F * i <= F * j
  <2>1. PICK d \in Nat : j = i + d
    <3>1. j - i \in Nat /\ j = i + (j - i)
      BY <1>2
    <3> QED BY <3>1
  <2>2. F * j = F * i + F * d /\ F * d >= 0
    BY <2>1
  <2> QED BY <2>2
<1>3. ASSUME F * i < F * j PROVE F * i + F <= F * j
  <2>1. i < j
    <3>1. ASSUME j <= i PROVE F * j <= F * i
      <4>1. PICK d \in Nat : i = j + d
        <5>1. i - j \in Nat /\ i = j + (i - j)
          BY <3>1
        <5> QED BY <5>1
      <4>2. F * i = F * j + F * d /\ F * d >= 0
        BY <4>1
      <4> QED BY <4>2
    <3> QED BY <1>3, <3>1
  <2>2. PICK d \in Nat : j = i + 1 + d
    <3>1. j - i - 1 \in Nat /\ j = i + 1 + (j - i - 1)
      BY <2>1
    <3> QED BY <3>1
  <2>3. F * j = F * i + F + F * d /\ F * d >= 0
    BY <2>2
  <2> QED BY <2>3
<1> QED BY <1>1, <1>2, <1>3

LEMMA Backs ==
  ASSUME NEW s \in Seq(Int), NEW F \in Nat, NEW m \in Nat, F * m <= Len(s)
  PROVE  /\ \A q \in 0..m : Back(s, F, q) \in Nat /\ Back(s, F, q) <= Len(s)
         /\ \A q \in 0..m : \A p \in 0..q : Back(s, F, q) <= Back(s, F, p)
         /\ Back(s, F, 0) = Len(s)
<1>1. ASSUME NEW q \in 0..m PROVE F * q \in Nat /\ F * q <= F * m
  BY Times
<1>2. ASSUME NEW q \in 0..m, NEW p \in 0..q PROVE F * p \in Nat /\ F * p <= F * q
  BY Times
<1>3. F * 0 = 0 /\ Len(s) \in Nat /\ F * m \in Nat
  BY Times
<1>4. \A q \in 0..m : Back(s, F, q) \in Nat /\ Back(s, F, q) <= Len(s)
  <2> SUFFICES ASSUME NEW q \in 0..m PROVE Back(s, F, q) \in Nat /\ Back(s, F, q) <= Len(s)
    OBVIOUS
  <2> DEFINE x == F * q
             y == F * m
  <2>1. x \in Nat /\ y \in Nat /\ x <= y /\ y <= Len(s)
    BY <1>1, <1>3
  <2>2. Back(s, F, q) = Len(s) - x
    BY DEF Back
  <2> HIDE DEF x, y
  <2> QED BY <1>3, <2>1, <2>2
<1>5. \A q \in 0..m : \A p \in 0..q : Back(s, F, q) <= Back(s, F, p)
  <2> SUFFICES ASSUME NEW q \in 0..m, NEW p \in 0..q PROVE Back(s, F, q) <= Back(s, F, p)
    OBVIOUS
  <2> DEFINE x == F * q
             y == F * p
  <2>1. x \in Nat /\ y \in Nat /\ y <= x
    BY <1>1, <1>2
  <2>2. Back(s, F, q) = Len(s) - x /\ Back(s, F, p) = Len(s) - y
    BY DEF Back
  <2> HIDE DEF x, y
  <2> QED BY <1>3, <2>1, <2>2
<1> QED BY <1>3, <1>4, <1>5 DEF Back

(* What was at a place from the end is one frame further from it. *)
LEMMA BackMoves ==
  ASSUME NEW s \in Seq(Int), NEW F \in Nat, NEW t \in Seq(Int), Len(t) = F, NEW q \in Nat
  PROVE  Back(s \o t, F, q + 1) = Back(s, F, q)
<1>1. Len(s \o t) = Len(s) + F /\ Len(s) \in Nat
  OBVIOUS
<1>2. F * (q + 1) = F * q + F /\ F * q \in Nat
  BY Times
<1> DEFINE x == F * q
<1>3. Back(s \o t, F, q + 1) = Len(s) + F - (x + F) /\ Back(s, F, q) = Len(s) - x
  BY <1>1, <1>2 DEF Back
<1> HIDE DEF x
<1>4. x \in Nat
  BY <1>2 DEF x
<1> QED BY <1>1, <1>3, <1>4

LEMMA RollAppends ==
  ASSUME NEW s \in Seq(Int), NEW F \in Nat, NEW roll, Rolled(roll, s, F),
         NEW t \in Seq(Int), Len(t) = F
  PROVE  Rolled(Append(roll, t), s \o t, F)
<1> DEFINE m == Len(roll)
           l == m + 1
           r == s \o t
           new == Append(roll, t)
<1>0. roll \in Seq(Seq(Int)) /\ F * m <= Len(s) /\ m \in Nat /\ l \in Nat
  BY DEF Rolled
<1>1. /\ new \in Seq(Seq(Int)) /\ Len(new) = l /\ new[l] = t
      /\ \A i \in 1..m : new[i] = roll[i]
  BY <1>0
<1>2. r \in Seq(Int) /\ Len(r) = Len(s) + F /\ Len(s) \in Nat
  OBVIOUS
<1>3. F * l = F * m + F /\ F * m \in Nat
  BY <1>0, Times
<1>4. F * l <= Len(r)
  <2> DEFINE x == F * m
  <2> HIDE DEF x, l, r
  <2> QED BY <1>0, <1>2, <1>3 DEF x
<1>5. ASSUME NEW i \in 1..l
      PROVE  new[i] = Slice(r, Back(r, F, l - i + 1), Back(r, F, l - i))
  <2>1. CASE i = l
    <3>1. l - i + 1 = 0 + 1 /\ l - i = 0
      BY <1>0, <2>1
    <3>2. Back(r, F, 0 + 1) = Back(s, F, 0) /\ Back(s, F, 0) = Len(s)
      <4>1. Back(r, F, 0 + 1) = Back(s, F, 0)
        BY BackMoves
      <4>2. Back(s, F, 0) = Len(s)
        BY <1>0, Backs
      <4> QED BY <4>1, <4>2
    <3>3. Back(r, F, 0) = Len(r)
      BY <1>0, <1>2, <1>4, Backs
    <3>4. Slice(r, Len(s), Len(s) + Len(t)) = t
      BY SliceStays
    <3>5. Len(r) = Len(s) + Len(t)
      BY <1>2
    <3> HIDE DEF r, l
    <3> QED BY <1>1, <2>1, <3>1, <3>2, <3>3, <3>4, <3>5
  <2>2. CASE i # l
    <3> DEFINE q == m - i
               a == Back(s, F, q + 1)
               b == Back(s, F, q)
    <3>1. q \in Nat /\ q + 1 \in 0..m /\ q \in 0..(q + 1) /\ q \in 0..m /\ i \in 1..m
          /\ l - i + 1 = q + 1 + 1 /\ l - i = q + 1 /\ m - i + 1 = q + 1
      BY <1>0, <2>2
    <3>2. a \in Nat /\ b \in Nat /\ a <= b /\ b <= Len(s)
      <4> HIDE DEF q, m
      <4> QED BY <1>0, <3>1, Backs
    <3> HIDE DEF q
    <3>3. Back(r, F, q + 1 + 1) = a /\ Back(r, F, q + 1) = b
      <4>1. q + 1 \in Nat
        BY <3>1
      <4> QED BY <3>1, <4>1, BackMoves
    <3>4. roll[i] = Slice(s, a, b)
      <4>1. roll[i] = Slice(s, Back(s, F, m - i + 1), Back(s, F, m - i))
        BY <3>1 DEF Rolled
      <4>2. m - i = q
        BY DEF q
      <4> QED BY <3>1, <4>1, <4>2
    <3>5. Slice(r, a, b) = Slice(s, a, b)
      <4> HIDE DEF a, b
      <4> QED BY <3>2, SliceStays
    <3> HIDE DEF a, b, r
    <3> QED BY <1>1, <3>1, <3>3, <3>4, <3>5
  <2> QED BY <2>1, <2>2
<1> HIDE DEF new, r, l
<1>6. Rolled(new, r, F)
  BY <1>1, <1>4, <1>5 DEF Rolled
<1> QED BY <1>6 DEF new, r

LEMMA RollShortens ==
  ASSUME NEW s \in Seq(Int), NEW F \in Nat, NEW roll, Rolled(roll, s, F),
         NEW k \in Nat, k <= Len(roll)
  PROVE  LET new == SubSeq(roll, Len(roll) - k + 1, Len(roll))
         IN Rolled(new, s, F) /\ Len(new) = k
<1> DEFINE m == Len(roll)
           d == m - k
           new == SubSeq(roll, d + 1, m)
<1>0. roll \in Seq(Seq(Int)) /\ F * m <= Len(s) /\ m \in Nat /\ d \in Nat /\ m - d = k /\ Len(s) \in Nat
  BY DEF Rolled
<1>1. /\ new \in Seq(Seq(Int)) /\ Len(new) = k
      /\ \A i \in 1..k : new[i] = roll[d + i]
  <2>1. d + 1 \in Nat /\ m - (d + 1) + 1 = k /\ \A i \in 1..k : (d + 1) + i - 1 = d + i
    BY <1>0
  <2> QED BY <1>0, <2>1
<1>2. F * k <= Len(s)
  <2>1. F * k <= F * m /\ F * k \in Nat /\ F * m \in Nat
    BY <1>0, Times
  <2> DEFINE x == F * k
             y == F * m
  <2>2. x <= y /\ y <= Len(s) /\ x \in Nat /\ y \in Nat
    BY <1>0, <2>1
  <2> HIDE DEF x, y
  <2>3. x <= Len(s)
    BY <1>0, <2>2
  <2> QED BY <2>3 DEF x
<1>3. ASSUME NEW i \in 1..k PROVE new[i] = Slice(s, Back(s, F, k - i + 1), Back(s, F, k - i))
  <2>1. d + i \in 1..m /\ m - (d + i) + 1 = k - i + 1 /\ m - (d + i) = k - i
    BY <1>0
  <2> DEFINE j == d + i
  <2>2. roll[j] = Slice(s, Back(s, F, m - j + 1), Back(s, F, m - j))
    BY <2>1 DEF Rolled
  <2>3. new[i] = roll[j] /\ m - j + 1 = k - i + 1 /\ m - j = k - i
    BY <1>1, <2>1
  <2> HIDE DEF j, m, new
  <2> QED BY <2>2, <2>3
<1> HIDE DEF new
<1>4. Rolled(new, s, F) /\ Len(new) = k
  BY <1>1, <1>2, <1>3 DEF Rolled
<1> QED BY <1>4 DEF new

LEMMA RollFlat ==
  ASSUME NEW s \in Seq(Int), NEW F \in Nat, NEW roll, Rolled(roll, s, F)
  PROVE  FlattenSeq(roll) = Ending(s, F * Len(roll))
<1> DEFINE m == Len(roll)
           at == [i \in 0..m |-> Back(s, F, m - i)]
<1>0. roll \in Seq(Seq(Int)) /\ F * m <= Len(s) /\ m \in Nat
  BY DEF Rolled
<1>1. ASSUME NEW i \in 0..m PROVE at[i] \in Nat /\ at[i] <= Len(s)
  <2>1. m - i \in 0..m
    BY <1>0
  <2>2. at[i] = Back(s, F, m - i)
    OBVIOUS
  <2> DEFINE q == m - i
  <2> HIDE DEF m, at, q
  <2> QED BY <1>0, <2>1, <2>2, Backs DEF q
<1>2. ASSUME NEW i \in 1..m PROVE at[i - 1] <= at[i] /\ roll[i] = Slice(s, at[i - 1], at[i])
  <2> DEFINE q == m - i
             p == m - i + 1
  <2>1. i \in 0..m /\ i - 1 \in 0..m /\ m - (i - 1) = p /\ q \in 0..p /\ p \in 0..m
    BY <1>0
  <2>2. at[i] = Back(s, F, q) /\ at[i - 1] = Back(s, F, p)
    BY <2>1
  <2>3. roll[i] = Slice(s, Back(s, F, p), Back(s, F, q))
    BY DEF Rolled
  <2> HIDE DEF q, p, at, m
  <2>4. Back(s, F, p) <= Back(s, F, q)
    BY <1>0, <2>1, Backs
  <2> QED BY <2>2, <2>3, <2>4
<1>3. at \in [0..m -> Nat] /\ at[0] = Back(s, F, m) /\ at[m] = Back(s, F, 0)
  <2>1. 0 \in 0..m /\ m \in 0..m /\ m - 0 = m /\ m - m = 0
    BY <1>0
  <2>2. \A i \in 0..m : at[i] \in Nat
    BY <1>1
  <2>3. at[0] = Back(s, F, m) /\ at[m] = Back(s, F, 0)
    BY <2>1
  <2>4. at \in [0..m -> Nat]
    <3>1. at = [i \in 0..m |-> at[i]]
      OBVIOUS
    <3> HIDE DEF at, m
    <3> QED BY <2>2, <3>1
  <2> QED BY <2>3, <2>4
<1> HIDE DEF at
<1>4. FlattenSeq(roll) = Slice(s, at[0], at[m])
  BY <1>0, <1>1, <1>2, <1>3, FlatMeets
<1>5. Back(s, F, 0) = Len(s) /\ Back(s, F, m) = Len(s) - F * m
  <2>1. Back(s, F, 0) = Len(s)
    BY <1>0, Backs
  <2> QED BY <2>1 DEF Back
<1> QED BY <1>3, <1>4, <1>5 DEF Ending

(* The entries of an index: where each starts and stops, and that they follow
   one another in the recording, up to a place. *)
Entry == [pcm : Seq(Int), offset : Nat, late : Nat]

Start(e) == e.offset - e.late

Stop(e) == e.offset - e.late + Len(e.pcm)

Placed(e, s) == e \in Entry /\ e.late <= e.offset /\ Stop(e) <= Len(s) /\ e.pcm = Slice(s, Start(e), Stop(e))

Listed(index, s, base) ==
  /\ index \in Seq(Entry)
  /\ \A i \in 1..Len(index) : Placed(index[i], s) /\ Stop(index[i]) <= base
  /\ \A i, j \in 1..Len(index) : i < j => Stop(index[i]) <= Start(index[j])

InIndex(index) == UNION {ToSet(index[i].pcm) : i \in 1..Len(index)}

LEMMA Places ==
  ASSUME NEW s \in Seq(Int), NEW e, Placed(e, s)
  PROVE  /\ e.pcm \in Seq(Int) /\ Start(e) \in Nat /\ Stop(e) \in Nat /\ Start(e) <= Stop(e)
         /\ Stop(e) <= Len(s) /\ e.pcm = Slice(s, Start(e), Stop(e))
<1>1. e.pcm \in Seq(Int) /\ e.offset \in Nat /\ e.late \in Nat /\ e.late <= e.offset
  BY DEF Placed, Entry
<1>2. Len(e.pcm) \in Nat
  BY <1>1
<1>3. Start(e) \in Nat /\ Stop(e) \in Nat /\ Start(e) <= Stop(e)
  BY <1>1, <1>2 DEF Start, Stop
<1> QED BY <1>1, <1>3 DEF Placed

LEMMA ListedGrows ==
  ASSUME NEW s \in Seq(Int), NEW t \in Seq(Int), NEW index, NEW base \in Nat, NEW upto \in Nat,
         Listed(index, s, base), base <= upto
  PROVE  Listed(index, s \o t, upto)
<1> DEFINE r == s \o t
<1>0. r \in Seq(Int) /\ Len(r) = Len(s) + Len(t) /\ Len(s) \in Nat /\ Len(t) \in Nat
  OBVIOUS
<1>1. ASSUME NEW i \in 1..Len(index) PROVE Placed(index[i], r) /\ Stop(index[i]) <= upto
  <2> DEFINE e == index[i]
             a == Start(e)
             b == Stop(e)
  <2>1. Placed(e, s) /\ b <= base
    BY DEF Listed
  <2> HIDE DEF e
  <2>2. a \in Nat /\ b \in Nat /\ a <= b /\ b <= Len(s) /\ e.pcm = Slice(s, a, b)
    BY <2>1, Places
  <2> HIDE DEF a, b
  <2>3. Slice(r, a, b) = Slice(s, a, b)
    BY <2>2, SliceStays
  <2>4. b <= Len(r) /\ b <= upto
    <3> HIDE DEF r
    <3> QED BY <1>0, <2>1, <2>2
  <2> HIDE DEF r
  <2>5. Placed(e, r)
    BY <2>1, <2>2, <2>3, <2>4 DEF Placed, a, b
  <2> QED BY <2>4, <2>5 DEF e, b
<1> HIDE DEF r
<1>2. Listed(index, r, upto)
  BY <1>1 DEF Listed
<1> QED BY <1>2 DEF r

LEMMA ListedMarks ==
  ASSUME NEW s \in Seq(Int), NEW index, NEW base \in Nat, Listed(index, s, base),
         NEW e, Placed(e, s), base <= Start(e)
  PROVE  /\ Listed(Append(index, e), s, Stop(e))
         /\ InIndex(Append(index, e)) = InIndex(index) \cup ToSet(e.pcm)
<1> DEFINE new == Append(index, e)
           m == Len(index)
           k == m + 1
<1>1. index \in Seq(Entry) /\ e \in Entry /\ m \in Nat
  BY DEF Listed, Placed
<1>2. /\ new \in Seq(Entry) /\ Len(new) = k /\ new[k] = e
      /\ \A i \in 1..m : new[i] = index[i]
  BY <1>1
<1>3. Start(e) \in Nat /\ Stop(e) \in Nat /\ Start(e) <= Stop(e)
  BY Places
<1>4. \A i \in 1..k : i = k \/ (i \in 1..m /\ i < k)
  BY <1>1
<1>5. ASSUME NEW i \in 1..m PROVE Placed(index[i], s) /\ Stop(index[i]) <= Start(e) /\ Stop(index[i]) <= Stop(e)
  <2> DEFINE b == Stop(index[i])
  <2>1. Placed(index[i], s) /\ b <= base
    BY DEF Listed
  <2>2. b \in Nat
    BY <2>1, Places
  <2> HIDE DEF b
  <2>3. b <= Start(e) /\ b <= Stop(e)
    BY <1>3, <2>1, <2>2
  <2> QED BY <2>1, <2>3 DEF b
<1> HIDE DEF new
<1>6. ASSUME NEW i \in 1..k PROVE Placed(new[i], s) /\ Stop(new[i]) <= Stop(e)
  <2>1. CASE i = k
    BY <1>2, <1>3, <2>1
  <2>2. CASE i \in 1..m
    BY <1>2, <1>5, <2>2
  <2> QED BY <1>4, <2>1, <2>2
<1>7. ASSUME NEW i \in 1..k, NEW j \in 1..k, i < j PROVE Stop(new[i]) <= Start(new[j])
  <2>1. i \in 1..m
    BY <1>1, <1>7
  <2>2. CASE j = k
    BY <1>2, <1>5, <2>1, <2>2
  <2>3. CASE j \in 1..m
    <3>1. Stop(index[i]) <= Start(index[j])
      BY <1>7, <2>1, <2>3 DEF Listed
    <3> QED BY <1>2, <2>1, <2>3, <3>1
  <2> QED BY <1>4, <2>2, <2>3
<1>8. Listed(new, s, Stop(e))
  <2> HIDE DEF k
  <2> QED BY <1>2, <1>6, <1>7 DEF Listed
<1>9. InIndex(new) = InIndex(index) \cup ToSet(e.pcm)
  <2>1. 1..k = (1..m) \cup {k}
    BY <1>1
  <2>2. InIndex(new) = UNION {ToSet(new[i].pcm) : i \in 1..k}
    BY <1>2 DEF InIndex
  <2> HIDE DEF k
  <2> QED BY <1>2, <2>1, <2>2 DEF InIndex
<1> QED BY <1>8, <1>9 DEF new

(* Entries of a recording that rises rise when they are joined, and what comes
   after the last of them rises with them. *)
LEMMA Following ==
  ASSUME NEW s \in Seq(Int), Rising(s), NEW a \in Nat, NEW b \in Nat, NEW c \in Nat, NEW d \in Nat,
         a <= b, b <= c, c <= d, d <= Len(s)
  PROVE  Below(ToSet(Slice(s, a, b)), ToSet(Slice(s, c, d)))
<1>0. Len(s) \in Nat /\ b <= Len(s) /\ DOMAIN s = 1..Len(s)
  OBVIOUS
<1>1. ToSet(Slice(s, a, b)) = {s[p] : p \in (a + 1)..b}
  BY <1>0, Slices
<1>2. ToSet(Slice(s, c, d)) = {s[p] : p \in (c + 1)..d}
  BY Slices
<1>3. ASSUME NEW p \in (a + 1)..b, NEW q \in (c + 1)..d PROVE s[p] < s[q]
  <2>1. p \in 1..Len(s) /\ q \in 1..Len(s) /\ p < q
    BY <1>0
  <2> QED BY <1>0, <2>1 DEF Rising
<1> QED BY <1>1, <1>2, <1>3 DEF Below

LEMMA ListedRises ==
  ASSUME NEW s \in Seq(Int), Rising(s), NEW index, NEW base \in Nat, Listed(index, s, base),
         NEW k \in Nat, k <= Len(s), base <= Len(s) - k
  PROVE  LET all == FlattenSeq([i \in DOMAIN index |-> index[i].pcm]) \o Ending(s, k)
         IN Rising(all) /\ ToSet(all) = InIndex(index) \cup ToSet(Ending(s, k))
<1> DEFINE m == Len(index)
           parts == [i \in DOMAIN index |-> index[i].pcm]
           n == Len(s)
           c == n - k
<1>0. m \in Nat /\ DOMAIN index = 1..m /\ n \in Nat /\ c \in Nat /\ c <= n /\ base <= c
  BY DEF Listed
<1>1. ASSUME NEW i \in 1..m
      PROVE  /\ parts[i] = index[i].pcm /\ parts[i] \in Seq(Int)
             /\ Start(index[i]) \in Nat /\ Stop(index[i]) \in Nat /\ Start(index[i]) <= Stop(index[i])
             /\ Stop(index[i]) <= Len(s) /\ parts[i] = Slice(s, Start(index[i]), Stop(index[i]))
             /\ Stop(index[i]) <= base
  <2> DEFINE e == index[i]
  <2>1. parts[i] = e.pcm
    BY <1>0
  <2>2. Placed(e, s) /\ Stop(e) <= base
    BY DEF Listed
  <2> HIDE DEF e, parts
  <2>3. /\ e.pcm \in Seq(Int) /\ Start(e) \in Nat /\ Stop(e) \in Nat /\ Start(e) <= Stop(e)
        /\ Stop(e) <= Len(s) /\ e.pcm = Slice(s, Start(e), Stop(e))
    BY <2>2, Places
  <2> QED BY <2>1, <2>2, <2>3 DEF e
<1>2. parts \in Seq(Seq(Int)) /\ Len(parts) = m
  <2>1. parts = [i \in 1..m |-> parts[i]]
    BY <1>0
  <2>2. \A i \in 1..m : parts[i] \in Seq(Int)
    BY <1>1
  <2> HIDE DEF parts
  <2> QED BY <1>0, <2>1, <2>2
<1> HIDE DEF parts
<1>3. ASSUME NEW i \in 1..m PROVE Rising(parts[i])
  BY <1>1, Slices
<1>4. ASSUME NEW i \in 1..m, NEW j \in 1..m, i < j PROVE Below(ToSet(parts[i]), ToSet(parts[j]))
  <2>1. Stop(index[i]) <= Start(index[j])
    BY <1>4 DEF Listed
  <2> QED BY <1>1, <2>1, Following
<1> DEFINE flat == FlattenSeq(parts)
<1>5. flat \in Seq(Int) /\ Rising(flat) /\ ToSet(flat) = InIndex(index)
  <2>1. flat \in Seq(Int) /\ Rising(flat) /\ ToSet(flat) = Within(parts, m)
    <3> HIDE DEF m
    <3> QED BY <1>2, <1>3, <1>4, FlatRises
  <2>2. Within(parts, m) = InIndex(index)
    BY <1>1 DEF Within, InIndex
  <2> QED BY <2>1, <2>2
<1>6. Ending(s, k) = Slice(s, c, n) /\ Ending(s, k) \in Seq(Int) /\ Rising(Ending(s, k))
  BY Endings DEF Ending
<1>7. Below(ToSet(flat), ToSet(Ending(s, k)))
  <2>1. ASSUME NEW i \in 1..m PROVE Below(ToSet(parts[i]), ToSet(Slice(s, c, n)))
    <3> DEFINE a == Start(index[i])
               b == Stop(index[i])
    <3>1. a \in Nat /\ b \in Nat /\ a <= b /\ b <= base /\ parts[i] = Slice(s, a, b)
      BY <1>1
    <3> HIDE DEF a, b
    <3>2. b <= c /\ n <= Len(s)
      BY <1>0, <3>1
    <3> HIDE DEF c, n
    <3> QED BY <1>0, <3>1, <3>2, Following
  <2>2. ASSUME NEW x \in ToSet(flat), NEW y \in ToSet(Ending(s, k)) PROVE x < y
    <3>1. PICK i \in 1..m : x \in ToSet(parts[i])
      BY <1>1, <1>5, <2>2 DEF InIndex
    <3> QED BY <1>6, <2>1, <2>2, <3>1 DEF Below
  <2> QED BY <2>2 DEF Below
<1> HIDE DEF flat
<1>8. Rising(flat \o Ending(s, k)) /\ ToSet(flat \o Ending(s, k)) = ToSet(flat) \cup ToSet(Ending(s, k))
  BY <1>5, <1>6, <1>7, Concats
<1> QED BY <1>5, <1>8 DEF flat, parts

(* What was heard of a window reaches no further back than what is kept. *)
LEMMA Overheard ==
  ASSUME NEW s \in Seq(Int), NEW t \in Seq(Int), NEW l \in Nat, l <= Len(s), NEW g \in Nat, g <= Len(s),
         NEW U, ToSet(Ending(s, l)) \subseteq U \cup ToSet(Ending(s, g))
  PROVE  ToSet(Ending(s \o t, l + Len(t))) \subseteq U \cup ToSet(Ending(s \o t, g + Len(t)))
<1>1. Ending(s \o t, l + Len(t)) = Ending(s, l) \o t /\ Ending(s \o t, g + Len(t)) = Ending(s, g) \o t
  BY EndingGrows
<1>2. Ending(s, l) \in Seq(Int) /\ Ending(s, g) \in Seq(Int)
  BY Endings
<1>3. ToSet(Ending(s, l) \o t) = ToSet(Ending(s, l)) \cup ToSet(t)
  BY <1>2, Concats
<1>4. ToSet(Ending(s, g) \o t) = ToSet(Ending(s, g)) \cup ToSet(t)
  BY <1>2, Concats
<1> QED BY <1>1, <1>3, <1>4

(* A stream: what was taken from the device, what waits in its queue, and
   where its next block begins. *)
Streamed(heard, blocks, next) ==
  /\ heard \in Seq(Int) /\ blocks \in Seq(Seq(Int)) /\ next \in Nat
  /\ Rising(heard) /\ Below(ToSet(heard), {next})
  /\ \A i \in 1..Len(blocks) :
       Rising(blocks[i]) /\ Below(ToSet(blocks[i]), {next}) /\ Below(ToSet(heard), ToSet(blocks[i]))
  /\ \A i, j \in 1..Len(blocks) : i < j => Below(ToSet(blocks[i]), ToSet(blocks[j]))

LEMMA StreamLoses ==
  ASSUME NEW heard, NEW blocks, NEW next, Streamed(heard, blocks, next), blocks # <<>>
  PROVE  Streamed(heard, Tail(blocks), next)
<1> DEFINE q == Tail(blocks)
           n == Len(blocks)
<1>1. blocks \in Seq(Seq(Int)) /\ n \in Nat /\ n # 0
  BY DEF Streamed
<1>2. q \in Seq(Seq(Int)) /\ Len(q) = n - 1 /\ \A i \in 1..(n - 1) : q[i] = blocks[i + 1] /\ i + 1 \in 1..n
  BY <1>1
<1> HIDE DEF q
<1>3. ASSUME NEW i \in 1..Len(q)
      PROVE  Rising(q[i]) /\ Below(ToSet(q[i]), {next}) /\ Below(ToSet(heard), ToSet(q[i]))
  <2>1. q[i] = blocks[i + 1] /\ i + 1 \in 1..n
    BY <1>2
  <2> QED BY <2>1 DEF Streamed
<1>4. ASSUME NEW i \in 1..Len(q), NEW j \in 1..Len(q), i < j PROVE Below(ToSet(q[i]), ToSet(q[j]))
  <2>1. q[i] = blocks[i + 1] /\ i + 1 \in 1..n /\ q[j] = blocks[j + 1] /\ j + 1 \in 1..n /\ i + 1 < j + 1
    BY <1>2, <1>4
  <2> QED BY <2>1 DEF Streamed
<1>5. Streamed(heard, q, next)
  BY <1>2, <1>3, <1>4 DEF Streamed
<1> QED BY <1>5 DEF q

LEMMA StreamDelivers ==
  ASSUME NEW heard, NEW blocks, NEW next, Streamed(heard, blocks, next), NEW k \in Nat
  PROVE  Streamed(heard, Append(blocks, [i \in 1..k |-> next + i - 1]), next + k)
<1> DEFINE new == [i \in 1..k |-> next + i - 1]
           q == Append(blocks, new)
           n == Len(blocks)
           l == n + 1
           upto == next + k
<1>1. /\ heard \in Seq(Int) /\ blocks \in Seq(Seq(Int)) /\ next \in Nat /\ n \in Nat /\ Rising(heard)
      /\ upto \in Nat /\ next <= upto
  BY DEF Streamed
<1>2. new \in Seq(Int) /\ Len(new) = k /\ \A i \in 1..k : new[i] = next + i - 1
  <2>1. \A i \in 1..k : next + i - 1 \in Int
    BY <1>1
  <2> QED BY <2>1
<1>3. ToSet(new) = {new[i] : i \in 1..k} /\ DOMAIN new = 1..k
  BY <1>2, SetOf
<1>4. Rising(new) /\ Below(ToSet(new), {upto}) /\ \A x \in ToSet(new) : x \in Int /\ next <= x
  <2>1. \A i \in 1..k : new[i] \in Int /\ new[i] < upto /\ next <= new[i]
    BY <1>1, <1>2
  <2>2. \A i, j \in 1..k : i < j => new[i] < new[j]
    BY <1>1, <1>2
  <2> HIDE DEF new, upto
  <2> QED BY <1>3, <2>1, <2>2 DEF Rising, Below
<1> HIDE DEF new, upto
<1>5. q \in Seq(Seq(Int)) /\ Len(q) = l /\ q[l] = new /\ \A i \in 1..n : q[i] = blocks[i]
  BY <1>1, <1>2
<1>6. \A i \in 1..l : i = l \/ (i \in 1..n /\ i < l)
  BY <1>1
<1>7. ASSUME NEW s \in Seq(Int), Below(ToSet(s), {next}) PROVE Below(ToSet(s), {upto}) /\ Below(ToSet(s), ToSet(new))
  <2>1. ASSUME NEW x \in ToSet(s) PROVE x \in Int /\ x < next
    BY <1>7, SetOf DEF Below
  <2>2. ASSUME NEW x \in ToSet(s) PROVE x < upto
    BY <1>1, <2>1
  <2>3. ASSUME NEW x \in ToSet(s), NEW y \in ToSet(new) PROVE x < y
    BY <1>1, <1>4, <2>1
  <2> QED BY <2>2, <2>3 DEF Below
<1> HIDE DEF q
<1>8. Below(ToSet(heard), {upto}) /\ Below(ToSet(heard), ToSet(new))
  <2>1. Below(ToSet(heard), {next})
    BY DEF Streamed
  <2> QED BY <1>1, <1>7, <2>1
<1>9. ASSUME NEW i \in 1..n
      PROVE  /\ Rising(blocks[i]) /\ Below(ToSet(blocks[i]), {upto}) /\ Below(ToSet(blocks[i]), ToSet(new))
             /\ Below(ToSet(heard), ToSet(blocks[i]))
  <2>1. blocks[i] \in Seq(Int) /\ Below(ToSet(blocks[i]), {next}) /\ Rising(blocks[i])
        /\ Below(ToSet(heard), ToSet(blocks[i]))
    <3>1. blocks[i] \in Seq(Int)
      BY <1>1
    <3> QED BY <3>1 DEF Streamed
  <2> QED BY <1>7, <2>1
<1>10. ASSUME NEW i \in 1..l
       PROVE  Rising(q[i]) /\ Below(ToSet(q[i]), {upto}) /\ Below(ToSet(heard), ToSet(q[i]))
  <2>1. CASE i = l
    BY <1>4, <1>5, <1>8, <2>1
  <2>2. CASE i \in 1..n
    BY <1>5, <1>9, <2>2
  <2> QED BY <1>6, <2>1, <2>2
<1>11. ASSUME NEW i \in 1..l, NEW j \in 1..l, i < j PROVE Below(ToSet(q[i]), ToSet(q[j]))
  <2>1. i \in 1..n
    BY <1>1, <1>11
  <2>2. CASE j = l
    BY <1>5, <1>9, <2>1, <2>2
  <2>3. CASE j \in 1..n
    <3>1. Below(ToSet(blocks[i]), ToSet(blocks[j]))
      BY <1>11, <2>1, <2>3 DEF Streamed
    <3> QED BY <1>5, <2>1, <2>3, <3>1
  <2> QED BY <1>6, <2>2, <2>3
<1>12. Streamed(heard, q, upto)
  <2> HIDE DEF l
  <2> QED BY <1>1, <1>5, <1>8, <1>10, <1>11 DEF Streamed
<1> QED BY <1>12 DEF q, new, upto

LEMMA StreamTakes ==
  ASSUME NEW heard, NEW blocks, NEW next, Streamed(heard, blocks, next), blocks # <<>>
  PROVE  Streamed(heard \o Head(blocks), Tail(blocks), next)
<1> DEFINE b == Head(blocks)
           q == Tail(blocks)
           n == Len(blocks)
           r == heard \o b
<1>1. heard \in Seq(Int) /\ blocks \in Seq(Seq(Int)) /\ n \in Nat /\ n # 0 /\ Rising(heard)
      /\ Below(ToSet(heard), {next})
  BY DEF Streamed
<1>2. q \in Seq(Seq(Int)) /\ Len(q) = n - 1 /\ \A i \in 1..(n - 1) : q[i] = blocks[i + 1] /\ i + 1 \in 1..n /\ 1 < i + 1
  BY <1>1
<1>3. b = blocks[1] /\ 1 \in 1..n /\ b \in Seq(Int)
  BY <1>1
<1>4. Rising(b) /\ Below(ToSet(b), {next}) /\ Below(ToSet(heard), ToSet(b))
  <2> HIDE DEF b
  <2> QED BY <1>3 DEF Streamed
<1>5. Streamed(heard, q, next)
  BY StreamLoses
<1> HIDE DEF b, q
<1>6. r \in Seq(Int) /\ ToSet(r) = ToSet(heard) \cup ToSet(b) /\ Rising(r)
  BY <1>1, <1>3, <1>4, Concats
<1> HIDE DEF r
<1>7. Below(ToSet(r), {next})
  BY <1>1, <1>4, <1>6 DEF Below
<1>8. ASSUME NEW i \in 1..Len(q) PROVE Below(ToSet(r), ToSet(q[i]))
  <2>1. q[i] = blocks[i + 1] /\ i + 1 \in 1..n /\ 1 < i + 1
    BY <1>2
  <2>2. Below(ToSet(b), ToSet(q[i])) /\ Below(ToSet(heard), ToSet(q[i]))
    BY <1>3, <2>1 DEF Streamed
  <2> QED BY <1>6, <2>2 DEF Below
<1>9. Streamed(r, q, next)
  BY <1>5, <1>6, <1>7, <1>8 DEF Streamed
<1> QED BY <1>9 DEF r, b, q

-----------------------------------------------------------------------------
(* Speech.  While the loop runs, what may still become an utterance is the end
   of the recording, the units of the pre-roll or of the utterance that grows;
   the window the detector has begun reaches no further back than that or than
   the last entry of the index; and the entries follow one another up to it. *)
Cut ==
  [blocks : Seq(Seq(Int)), next : Nat, pending : Seq(Int), wav : Seq(Int), window : Seq(Int),
   says : BOOLEAN, roll : Seq(Seq(Int)), voiced : Seq(Int), quiet : Int,
   index : Seq(Entry), spoken : SUBSET Int, at : {"runs", "closed"}]

Region(c) == IF c.voiced = <<>> THEN Frame * Len(c.roll) ELSE Len(c.voiced)

Grows(c, s) ==
  /\ c.voiced = <<>> => Rolled(c.roll, s, Frame) /\ Len(c.roll) <= PreRoll
  /\ c.voiced # <<>> =>
       /\ Len(c.voiced) <= Len(s) /\ c.voiced = Ending(s, Len(c.voiced))
       /\ Len(c.voiced) < MaxUtterance /\ \E k \in Nat : Len(c.voiced) = Frame * k

Capped(c) == \A i \in 1..Len(c.index) : Len(c.index[i].pcm) <= MaxUtterance /\ c.index[i].late = 0

Indexed(c, s) == Listed(c.index, s, Len(s) - Region(c)) /\ Capped(c)

Streams(c) == Streamed(c.wav \o c.pending, c.blocks, c.next)

Windowed(c) ==
  /\ Len(c.window) < VadWindow /\ Len(c.window) <= Len(c.wav)
  /\ c.window = Ending(c.wav, Len(c.window))

Known(c) == InIndex(c.index) \cup ToSet(c.voiced)

Whole(c) ==
  /\ c \in Cut /\ Streams(c) /\ Windowed(c) /\ Grows(c, c.wav) /\ Indexed(c, c.wav)
  /\ c.spoken \subseteq Known(c)
  /\ ToSet(c.window) \subseteq InIndex(c.index) \cup ToSet(Ending(c.wav, Region(c)))

Accounted(c) ==
  /\ c \in Cut /\ Rising(c.wav)
  /\ \E base, k \in Nat :
       /\ Listed(c.index, c.wav, base) /\ k <= Len(c.wav) /\ base <= Len(c.wav) - k
       /\ c.voiced = Ending(c.wav, k)
  /\ c.spoken \subseteq Known(c)
  /\ \A i \in 1..Len(c.index) :
       /\ Len(c.index[i].pcm) <= MaxUtterance
       /\ c.index[i].late > 0 => i = Len(c.index) /\ c.at = "closed"

LEMMA Frames ==
  ASSUME FramesFit
  PROVE
  /\ Frame \in Nat /\ Frame >= 1 /\ VadWindow \in Nat /\ VadWindow >= 1 /\ PreRoll \in Nat /\ PreRoll >= 1
  /\ MaxUtterance \in Nat /\ Block \in Nat /\ BlockQueue \in Nat /\ BlockQueue >= 1
  /\ Frame <= VadWindow /\ Frame * PreRoll >= VadWindow + Frame - 1 /\ Frame * PreRoll < MaxUtterance
  /\ \E k \in Nat : MaxUtterance = Frame * k
<1>1. {Block, Frame, VadWindow, PreRoll, MaxUtterance, BlockQueue} \subseteq Nat \ {0}
  BY DEF FramesFit
<1>2. PreRoll * Frame = Frame * PreRoll
  BY <1>1
<1>3. \E k \in Nat : MaxUtterance = Frame * k
  <2>1. PICK k \in 1..MaxUtterance : MaxUtterance = k * Frame
    BY DEF FramesFit
  <2>2. k \in Nat /\ k * Frame = Frame * k
    BY <1>1
  <2> QED BY <2>1, <2>2
<1> QED BY <1>1, <1>2, <1>3 DEF FramesFit

(* Where an utterance may begin. *)
LEMMA Regions ==
  ASSUME FramesFit, NEW c \in Cut, NEW s \in Seq(Int), Grows(c, s)
  PROVE  Region(c) \in Nat /\ Region(c) <= Len(s)
<1>1. CASE c.voiced = <<>>
  <2>1. Len(c.roll) \in Nat /\ Frame * Len(c.roll) <= Len(s)
    BY <1>1 DEF Grows, Rolled, Cut
  <2>2. Frame * Len(c.roll) \in Nat
    BY <2>1, Frames, Times
  <2> QED BY <1>1, <2>1, <2>2 DEF Region
<1>2. CASE c.voiced # <<>>
  <2>1. Len(c.voiced) \in Nat
    BY DEF Cut
  <2> QED BY <1>2, <2>1 DEF Region, Grows
<1> QED BY <1>1, <1>2

LEMMA StreamRises == ASSUME NEW c \in Cut, Streams(c) PROVE Rising(c.wav)
<1>a. Streamed(c.wav \o c.pending, c.blocks, c.next)
  BY DEF Streams
<1>b. c.wav \in Seq(Int) /\ c.pending \in Seq(Int)
  BY DEF Cut
<1> DEFINE r == c.wav \o c.pending
           n == Len(c.wav)
<1>1. Rising(r)
  BY <1>a DEF Streams, Streamed
<1>2. r \in Seq(Int) /\ n \in Nat /\ n <= Len(r) /\ 0 \in Nat /\ 0 <= n /\ n <= Len(c.wav)
  <2>1. r \in Seq(Int) /\ Len(r) = Len(c.wav) + Len(c.pending)
    BY <1>b, Concats
  <2> DEFINE m == Len(c.pending)
  <2>2. n \in Nat /\ m \in Nat /\ n <= n
    BY <1>b
  <2>3. r \in Seq(Int) /\ Len(r) = n + m /\ n = Len(c.wav)
    BY <2>1
  <2> HIDE DEF r, n, m
  <2> QED BY <2>2, <2>3
<1>3. Slice(r, 0, n) = Slice(c.wav, 0, n)
  <2> HIDE DEF n
  <2> QED BY <1>b, <1>2, SliceStays
<1>4. Rising(Slice(r, 0, n))
  <2> HIDE DEF r, n
  <2> QED BY <1>1, <1>2, Slices
<1>5. Slice(c.wav, 0, n) = c.wav
  <2> DEFINE w == c.wav
             x == Slice(w, 0, n)
  <2>1. x \in Seq(Int) /\ Len(x) = n - 0 /\ \A i \in 1..(n - 0) : x[i] = w[0 + i]
    <3> HIDE DEF n, w
    <3> QED BY <1>b, <1>2, Slices DEF w
  <2>2. w \in Seq(Int) /\ Len(w) = n
    BY <1>b
  <2> HIDE DEF x, w, n
  <2>3. Len(x) = Len(w) /\ \A i \in 1..Len(x) : x[i] = w[i]
    BY <2>1, <2>2
  <2>4. x = w
    BY <2>1, <2>2, <2>3, Same
  <2> QED BY <2>4 DEF x, w
<1> QED BY <1>3, <1>4, <1>5

LEMMA TellsWhole == ASSUME FramesFit, NEW c, Whole(c), c.at = "runs" PROVE Accounted(c)
<1>1. c \in Cut /\ Streams(c) /\ Grows(c, c.wav) /\ Listed(c.index, c.wav, Len(c.wav) - Region(c)) /\ Capped(c)
      /\ c.spoken \subseteq Known(c)
  BY DEF Whole, Indexed
<1>2. c.wav \in Seq(Int) /\ c.pending \in Seq(Int) /\ c.voiced \in Seq(Int)
  BY <1>1 DEF Cut
<1>3. Region(c) \in Nat /\ Region(c) <= Len(c.wav)
  BY <1>1, <1>2, Regions
<1>4. Rising(c.wav)
  BY <1>1, StreamRises
<1> DEFINE base == Len(c.wav) - Region(c)
           k == Len(c.voiced)
<1>5. base \in Nat /\ k \in Nat /\ Listed(c.index, c.wav, base)
  BY <1>1, <1>2, <1>3
<1>6. k <= Len(c.wav) /\ base <= Len(c.wav) - k /\ c.voiced = Ending(c.wav, k)
  <2>1. CASE c.voiced = <<>>
    <3>1. k = 0
      BY <2>1
    <3>2. Ending(c.wav, 0) = <<>>
      <4>1. 0 \in Nat /\ 0 <= Len(c.wav)
        BY <1>2
      <4>2. Ending(c.wav, 0) \in Seq(Int) /\ Len(Ending(c.wav, 0)) = 0
        BY <1>2, <4>1, Endings
      <4> QED BY <4>2
    <3> QED BY <1>2, <1>3, <2>1, <3>1, <3>2
  <2>2. CASE c.voiced # <<>>
    BY <1>1, <1>2, <2>2 DEF Region, Grows
  <2> QED BY <2>1, <2>2
<1>7. \A i \in 1..Len(c.index) :
       /\ Len(c.index[i].pcm) <= MaxUtterance
       /\ c.index[i].late > 0 => i = Len(c.index) /\ c.at = "closed"
  BY <1>1 DEF Capped
<1> HIDE DEF base, k
<1> QED BY <1>1, <1>4, <1>5, <1>6, <1>7 DEF Accounted

(* What the device delivers and what is taken from its queue leaves the
   recording, and with it all the rest, as they are. *)
Alike(d, c) ==
  /\ d.wav = c.wav /\ d.window = c.window /\ d.says = c.says /\ d.roll = c.roll
  /\ d.voiced = c.voiced /\ d.index = c.index /\ d.spoken = c.spoken

LEMMA WholeAlike ==
  ASSUME NEW c, NEW d \in Cut, Whole(c), Alike(d, c), Streams(d)
  PROVE  Whole(d)
  BY DEF Whole, Alike, Windowed, Grows, Indexed, Capped, Known, Region

LEMMA DeliversKeeps ==
  ASSUME FramesFit, Whole(take), Delivers
  PROVE  Whole(take') /\ take'.at = "runs"
<1> DEFINE block == [i \in 1..Block |-> take.next + i - 1]
           kept == IF Len(take.blocks) >= BlockQueue THEN Tail(take.blocks) ELSE take.blocks
           next == take.next + Block
           blocks == Append(kept, block)
           heard == take.wav \o take.pending
<1>1. take' = [take EXCEPT !.next = next, !.blocks = blocks] /\ take.at = "runs"
  BY DEF Delivers
<1>2. take \in Cut /\ Streamed(heard, take.blocks, take.next) /\ Block \in Nat
  BY Frames DEF Whole, Streams
<1>3. Streamed(heard, kept, take.next)
  <2>1. CASE Len(take.blocks) >= BlockQueue
    <3>1. take.blocks # <<>>
      BY <1>2, <2>1, Frames DEF Cut
    <3> HIDE DEF heard
    <3> QED BY <1>2, <2>1, <3>1, StreamLoses
  <2>2. CASE ~(Len(take.blocks) >= BlockQueue)
    BY <1>2, <2>2
  <2> QED BY <2>1, <2>2
<1>4. Streamed(heard, blocks, next)
  <2> HIDE DEF heard, kept
  <2> QED BY <1>2, <1>3, StreamDelivers
<1>5. blocks \in Seq(Seq(Int)) /\ next \in Nat
  <2> HIDE DEF blocks, next
  <2> QED BY <1>4 DEF Streamed
<1> HIDE DEF blocks, next
<1>6. take' \in Cut /\ Alike(take', take) /\ take'.pending = take.pending /\ take'.blocks = blocks
      /\ take'.next = next /\ take'.at = "runs"
  BY <1>1, <1>2, <1>5 DEF Cut, Alike
<1>7. Streams(take')
  BY <1>4, <1>6 DEF Streams, Alike
<1> QED BY <1>6, <1>7, WholeAlike

LEMMA TakesBlockKeeps ==
  ASSUME Whole(take), TakesBlock
  PROVE  Whole(take') /\ take'.at = "runs"
<1> DEFINE block == Head(take.blocks)
           blocks == Tail(take.blocks)
           pending == take.pending \o block
           heard == take.wav \o take.pending
<1>1. take' = [take EXCEPT !.pending = pending, !.blocks = blocks] /\ take.at = "runs" /\ take.blocks # <<>>
  BY DEF TakesBlock
<1>2. take \in Cut /\ Streamed(heard, take.blocks, take.next)
  BY DEF Whole, Streams
<1>3. take.blocks \in Seq(Seq(Int)) /\ take.wav \in Seq(Int) /\ take.pending \in Seq(Int)
  BY <1>2 DEF Cut
<1>4. block \in Seq(Int) /\ blocks \in Seq(Seq(Int)) /\ pending \in Seq(Int)
  BY <1>1, <1>3
<1>5. Streamed(heard \o block, blocks, take.next)
  <2> HIDE DEF heard
  <2> QED BY <1>1, <1>2, StreamTakes
<1>6. take.wav \o pending = heard \o block
  <2> HIDE DEF block
  <2> QED BY <1>3, <1>4, Chained
<1> HIDE DEF pending, blocks
<1>7. take' \in Cut /\ Alike(take', take) /\ take'.pending = pending /\ take'.blocks = blocks
      /\ take'.next = take.next /\ take'.at = "runs"
  BY <1>1, <1>2, <1>4 DEF Cut, Alike
<1>8. Streams(take')
  BY <1>5, <1>6, <1>7 DEF Streams, Alike
<1> QED BY <1>7, <1>8, WholeAlike

(* A frame is written, judged and fed.  In between, what the detector has just
   listened to, l units and the frame, is the end of the recording. *)
Judged(c, s, t, l) ==
  /\ c \in Cut /\ s \in Seq(Int) /\ t \in Seq(Int) /\ Len(t) = Frame /\ c.wav = s \o t
  /\ Streams(c) /\ Windowed(c) /\ Grows(c, s) /\ Indexed(c, s)
  /\ l \in Nat /\ l < VadWindow /\ l <= Len(s)
  /\ ToSet(c.window) \subseteq ToSet(Ending(s \o t, l + Frame))
  /\ ToSet(Ending(s \o t, l + Frame))
       \subseteq InIndex(c.index) \cup ToSet(Ending(s \o t, Region(c) + Frame))
  /\ c.spoken \subseteq Known(c) \cup (IF c.says THEN ToSet(Ending(s \o t, l + Frame)) ELSE {})

LEMMA WritesFrame ==
  ASSUME FramesFit, NEW c, Whole(c), Len(c.pending) >= Frame
  PROVE  LET t == SubSeq(c.pending, 1, Frame)  d == Written(c)
         IN /\ t \in Seq(Int) /\ Len(t) = Frame /\ d \in Cut /\ d.wav = c.wav \o t
            /\ d.window = c.window /\ d.says = c.says /\ d.roll = c.roll /\ d.voiced = c.voiced
            /\ d.index = c.index /\ d.spoken = c.spoken /\ d.at = c.at /\ Streams(d)
<1> DEFINE w == c.wav
           p == c.pending
           n == Len(p)
           t == SubSeq(p, 1, Frame)
           u == SubSeq(p, Frame + 1, n)
           wav == w \o t
           d == Written(c)
<1>1. c \in Cut /\ Streamed(w \o p, c.blocks, c.next)
  BY DEF Whole, Streams
<1>2. w \in Seq(Int) /\ p \in Seq(Int) /\ n \in Nat /\ Frame \in Nat /\ 0 \in Nat /\ 0 <= Frame /\ Frame <= n
      /\ n <= Len(p)
  BY <1>1, Frames DEF Cut
<1>3. t = Slice(p, 0, Frame) /\ u = Slice(p, Frame, n)
  BY DEF Slice
<1> HIDE DEF w, p, t, u
<1>4. t \in Seq(Int) /\ Len(t) = Frame /\ u \in Seq(Int)
  <2>1. Slice(p, 0, Frame) \in Seq(Int) /\ Len(Slice(p, 0, Frame)) = Frame - 0
    BY <1>2, Slices
  <2>2. Slice(p, Frame, n) \in Seq(Int)
    <3> HIDE DEF n
    <3> QED BY <1>2, Slices
  <2>3. Frame - 0 = Frame
    BY <1>2
  <2> QED BY <1>3, <2>1, <2>2, <2>3
<1>5. t \o u = p
  <2> DEFINE all == Slice(p, 0, n)
  <2>1. t \o u = all
    <3> HIDE DEF n
    <3> QED BY <1>2, <1>3, SlicesMeet
  <2>2. all = p
    <3>1. all \in Seq(Int) /\ Len(all) = n - 0 /\ \A i \in 1..(n - 0) : all[i] = p[0 + i]
      <4>1. 0 <= n
        BY <1>2
      <4> HIDE DEF n
      <4> QED BY <1>2, <4>1, Slices
    <3> HIDE DEF all
    <3>2. Len(all) = Len(p) /\ \A i \in 1..Len(all) : all[i] = p[i]
      BY <1>2, <3>1
    <3> QED BY <1>2, <3>1, <3>2, Same
  <2> QED BY <2>1, <2>2
<1>6. wav \in Seq(Int) /\ wav \o u = w \o p
  <2>1. (w \o t) \o u = w \o (t \o u)
    BY <1>2, <1>4, Chained
  <2> QED BY <1>2, <1>4, <1>5, <2>1
<1> HIDE DEF wav
<1>7. d = [c EXCEPT !.wav = wav, !.pending = u]
  BY DEF Written, w, p, t, u, wav
<1> HIDE DEF d
<1>8. /\ d \in Cut /\ d.wav = wav /\ d.pending = u /\ d.blocks = c.blocks /\ d.next = c.next
      /\ d.window = c.window /\ d.says = c.says /\ d.roll = c.roll /\ d.voiced = c.voiced
      /\ d.index = c.index /\ d.spoken = c.spoken /\ d.at = c.at
  BY <1>1, <1>4, <1>6, <1>7 DEF Cut
<1>9. Streams(d)
  BY <1>1, <1>6, <1>8 DEF Streams
<1> QED BY <1>4, <1>8, <1>9 DEF d, wav, t, p, w

LEMMA JudgesFrame ==
  ASSUME FramesFit, NEW c, Whole(c), Len(c.pending) >= Frame, NEW verdict \in BOOLEAN
  PROVE  LET t == SubSeq(c.pending, 1, Frame)  d == Judges(Written(c), t, verdict)
         IN Judged(d, c.wav, t, Len(c.window)) /\ d.at = c.at
<1> DEFINE s == c.wav
           t == SubSeq(c.pending, 1, Frame)
           r == s \o t
           m == Written(c)
           d == Judges(m, t, verdict)
           l == Len(c.window)
           k == l + Frame
           h == c.window \o t
           H == ToSet(Ending(r, k))
           g == Region(c)
           U == InIndex(c.index)
<1>1. /\ t \in Seq(Int) /\ Len(t) = Frame /\ m \in Cut /\ m.wav = r
      /\ m.window = c.window /\ m.says = c.says /\ m.roll = c.roll /\ m.voiced = c.voiced
      /\ m.index = c.index /\ m.spoken = c.spoken /\ m.at = c.at /\ Streams(m)
  BY WritesFrame
<1> HIDE DEF m, t
<1>2. /\ c \in Cut /\ Grows(c, s) /\ Indexed(c, s) /\ c.spoken \subseteq Known(c)
      /\ l < VadWindow /\ l <= Len(s) /\ c.window = Ending(s, l)
      /\ ToSet(Ending(s, l)) \subseteq U \cup ToSet(Ending(s, g))
  BY DEF Whole, Windowed
<1>3. s \in Seq(Int) /\ l \in Nat /\ Len(s) \in Nat /\ r \in Seq(Int) /\ Len(r) = Len(s) + Frame
  <2>1. s \in Seq(Int) /\ c.window \in Seq(Int)
    BY <1>2 DEF Cut
  <2>2. r \in Seq(Int) /\ Len(r) = Len(s) + Len(t)
    <3> HIDE DEF s
    <3> QED BY <1>1, <2>1, Concats
  <2>3. l \in Nat /\ Len(s) \in Nat
    BY <2>1
  <2> HIDE DEF s, r, l
  <2> QED BY <1>1, <2>1, <2>2, <2>3
<1>4. g \in Nat /\ g <= Len(s)
  BY <1>2, <1>3, Regions
<1>5. k \in Nat /\ k <= Len(r) /\ Frame \in Nat /\ VadWindow \in Nat /\ Frame <= VadWindow
  <2>1. Frame \in Nat /\ VadWindow \in Nat /\ Frame <= VadWindow
    BY Frames
  <2>2. l \in Nat /\ l <= Len(s) /\ Len(s) \in Nat /\ Len(r) = Len(s) + Frame
    BY <1>2, <1>3
  <2> HIDE DEF r, s, l
  <2>3. k \in Nat /\ k <= Len(r)
    BY <2>1, <2>2 DEF k
  <2> QED BY <2>1, <2>3
<1>6. h = Ending(r, k)
  <2>1. Ending(s, l) \o t = Ending(s \o t, l + Len(t))
    <3> HIDE DEF s, l
    <3> QED BY <1>1, <1>2, <1>3, EndingGrows
  <2> QED BY <1>1, <1>2, <2>1
<1>7. H \subseteq U \cup ToSet(Ending(r, g + Frame))
  <2>1. ToSet(Ending(s \o t, l + Len(t))) \subseteq U \cup ToSet(Ending(s \o t, g + Len(t)))
    <3> HIDE DEF s, l, g, U
    <3> QED BY <1>1, <1>2, <1>3, <1>4, Overheard
  <2> QED BY <1>1, <2>1
<1>8. h \in Seq(Int) /\ Len(h) = k /\ H \subseteq Int
  <2> HIDE DEF r, k, s
  <2>1. Ending(r, k) \in Seq(Int) /\ Len(Ending(r, k)) = k
    BY <1>3, <1>5, Endings
  <2>2. H \subseteq Int
    BY <2>1, SetOf
  <2> HIDE DEF h
  <2> QED BY <1>6, <2>1, <2>2
<1> HIDE DEF h, r, k, l
<1>9. /\ d \in Cut /\ d.wav = r /\ d.roll = c.roll /\ d.voiced = c.voiced /\ d.index = c.index
      /\ d.at = c.at /\ d.pending = m.pending /\ d.blocks = m.blocks /\ d.next = m.next
      /\ Windowed(d) /\ ToSet(d.window) \subseteq H
      /\ d.spoken \subseteq Known(c) \cup (IF d.says THEN H ELSE {})
  <2>1. CASE Len(h) < VadWindow
    <3>1. d = [m EXCEPT !.window = h]
      BY <1>1, <2>1 DEF Judges, h
    <3> HIDE DEF d
    <3>2. /\ d \in Cut /\ d.wav = r /\ d.roll = c.roll /\ d.voiced = c.voiced /\ d.index = c.index
          /\ d.at = c.at /\ d.pending = m.pending /\ d.blocks = m.blocks /\ d.next = m.next
          /\ d.window = h /\ d.spoken = c.spoken
      BY <1>1, <1>8, <3>1 DEF Cut
    <3>3. Windowed(d)
      BY <1>5, <1>6, <1>8, <2>1, <3>2 DEF Windowed
    <3> HIDE DEF H
    <3> QED BY <1>2, <1>6, <3>2, <3>3 DEF H
  <2>2. CASE ~(Len(h) < VadWindow)
    <3> DEFINE rest == SubSeq(h, VadWindow + 1, k)
               heard == ToSet(SubSeq(h, 1, VadWindow))
               spoken == IF verdict THEN m.spoken \cup heard ELSE m.spoken
               j == k - VadWindow
    <3>1. VadWindow <= k /\ j \in Nat /\ j < VadWindow /\ j <= k /\ j <= Len(r)
      <4>1. VadWindow <= k
        BY <1>5, <1>8, <2>2
      <4>2. l < VadWindow /\ k = l + Frame
        BY <1>2 DEF k
      <4> HIDE DEF s
      <4> QED BY <1>3, <1>5, <4>1, <4>2
    <3>2. rest = Ending(r, j) /\ heard \subseteq H
      <4>1. SubSeq(Ending(r, k), VadWindow + 1, k) = Ending(r, k - VadWindow)
            /\ ToSet(SubSeq(Ending(r, k), 1, VadWindow)) \subseteq H
        BY <1>3, <1>5, <3>1, EndingShortens
      <4> QED BY <1>6, <4>1
    <3> HIDE DEF j
    <3>3. rest \in Seq(Int) /\ Len(rest) = j /\ ToSet(rest) \subseteq H
      <4>1. Ending(r, j) \in Seq(Int) /\ Len(Ending(r, j)) = j
        BY <1>3, <3>1, Endings
      <4>2. ToSet(Ending(r, j)) \subseteq H
        BY <1>3, <1>5, <3>1, EndingsNest
      <4> HIDE DEF rest
      <4> QED BY <3>2, <4>1, <4>2
    <3>4. d = [m EXCEPT !.window = rest, !.says = verdict, !.spoken = spoken]
      BY <1>1, <1>8, <2>2 DEF Judges, h
    <3>5. m.spoken \in SUBSET Int /\ spoken \in SUBSET Int /\ spoken \subseteq c.spoken \cup (IF verdict THEN H ELSE {})
      <4>1. m.spoken \in SUBSET Int
        BY <1>1 DEF Cut
      <4> HIDE DEF heard, H
      <4> QED BY <1>1, <1>8, <3>2, <4>1
    <3> HIDE DEF d, rest, spoken
    <3>6. /\ d \in Cut /\ d.wav = r /\ d.roll = c.roll /\ d.voiced = c.voiced /\ d.index = c.index
          /\ d.at = c.at /\ d.pending = m.pending /\ d.blocks = m.blocks /\ d.next = m.next
          /\ d.window = rest /\ d.spoken = spoken /\ d.says = verdict
      BY <1>1, <3>3, <3>4, <3>5 DEF Cut
    <3>7. Windowed(d)
      BY <3>1, <3>2, <3>3, <3>6 DEF Windowed, rest
    <3> HIDE DEF H
    <3> QED BY <1>2, <3>3, <3>5, <3>6, <3>7
  <2> QED BY <2>1, <2>2
<1> HIDE DEF d
<1>10. Region(d) = g /\ Grows(d, s) /\ Indexed(d, s) /\ Streams(d) /\ Known(d) = Known(c)
       /\ InIndex(d.index) = U
  BY <1>1, <1>2, <1>9 DEF Region, Grows, Indexed, Capped, Streams, Known
<1>11. Judged(d, s, t, l)
  <2> HIDE DEF g, U, s
  <2>1. /\ d \in Cut /\ s \in Seq(Int) /\ t \in Seq(Int) /\ Len(t) = Frame /\ d.wav = s \o t
        /\ Streams(d) /\ Windowed(d) /\ Grows(d, s) /\ Indexed(d, s)
        /\ l \in Nat /\ l < VadWindow /\ l <= Len(s)
    BY <1>1, <1>2, <1>3, <1>9, <1>10 DEF r
  <2>2. r = s \o t /\ k = l + Frame
    BY DEF r, k
  <2>3. /\ ToSet(d.window) \subseteq ToSet(Ending(s \o t, l + Frame))
        /\ ToSet(Ending(s \o t, l + Frame))
             \subseteq InIndex(d.index) \cup ToSet(Ending(s \o t, Region(d) + Frame))
        /\ d.spoken \subseteq Known(d) \cup (IF d.says THEN ToSet(Ending(s \o t, l + Frame)) ELSE {})
    BY <1>7, <1>9, <1>10, <2>2
  <2> QED BY <2>1, <2>3 DEF Judged
<1> QED BY <1>9, <1>11 DEF d, l, t, m

LEMMA RollsOn ==
  ASSUME FramesFit, NEW s \in Seq(Int), NEW t \in Seq(Int), Len(t) = Frame, NEW roll, Rolled(roll, s, Frame)
  PROVE  LET new == Newest(Append(roll, t))
         IN /\ Rolled(new, s \o t, Frame) /\ Len(new) \in 1..PreRoll
            /\ Len(new) = Len(roll) + 1 \/ (Len(new) = PreRoll /\ Len(new) <= Len(roll) + 1)
<1> DEFINE all == Append(roll, t)
           m == Len(roll)
           r == s \o t
<1>1. roll \in Seq(Seq(Int)) /\ m \in Nat /\ PreRoll \in Nat /\ PreRoll >= 1 /\ Frame \in Nat
  BY Frames DEF Rolled
<1>2. Rolled(all, r, Frame)
  BY <1>1, RollAppends
<1>3. Len(all) = m + 1
  BY <1>1
<1>4. r \in Seq(Int)
  OBVIOUS
<1> HIDE DEF all, r
<1>5. CASE Len(all) > PreRoll
  <2> DEFINE new == SubSeq(all, Len(all) - PreRoll + 1, Len(all))
  <2>1. Newest(all) = new
    BY <1>5 DEF Newest
  <2>2. Rolled(new, r, Frame) /\ Len(new) = PreRoll
    <3>1. PreRoll <= Len(all)
      BY <1>1, <1>3, <1>5
    <3> HIDE DEF new
    <3> QED BY <1>1, <1>2, <1>4, <3>1, RollShortens DEF new
  <2> HIDE DEF new
  <2> QED BY <1>1, <1>3, <1>5, <2>1, <2>2 DEF all, r
<1>6. CASE ~(Len(all) > PreRoll)
  <2>1. Newest(all) = all
    BY <1>6 DEF Newest
  <2> QED BY <1>1, <1>2, <1>3, <1>6, <2>1 DEF all, r
<1> QED BY <1>5, <1>6

Opened(c, roll, q, v) == [c EXCEPT !.roll = roll, !.quiet = q, !.voiced = v]

LEMMA OpensFields ==
  ASSUME NEW c \in Cut, NEW roll \in Seq(Seq(Int)), NEW q \in Int, NEW v \in Seq(Int), NEW d,
         d = Opened(c, roll, q, v)
  PROVE  /\ d \in Cut /\ d.wav = c.wav /\ d.index = c.index /\ d.spoken = c.spoken /\ d.window = c.window
         /\ d.roll = roll /\ d.pending = c.pending /\ d.blocks = c.blocks /\ d.next = c.next
         /\ d.at = c.at /\ d.voiced = v
  BY DEF Cut, Opened

LEMMA WaitsKeeps ==
  ASSUME FramesFit, NEW c, NEW s, NEW t, NEW l, Judged(c, s, t, l), c.voiced = <<>>
  PROVE  Whole(Waits(c, t)) /\ Waits(c, t).at = c.at
<1> DEFINE r == s \o t
           roll == Newest(Append(c.roll, t))
           m == Len(c.roll)
           n == Len(roll)
           x == Frame * n
           y == Frame * m
           H == ToSet(Ending(r, l + Frame))
           U == InIndex(c.index)
           d == Waits(c, t)
<1>1. /\ c \in Cut /\ s \in Seq(Int) /\ t \in Seq(Int) /\ Len(t) = Frame /\ c.wav = r
      /\ Streams(c) /\ Windowed(c) /\ Grows(c, s) /\ Indexed(c, s)
      /\ l \in Nat /\ l < VadWindow /\ l <= Len(s) /\ ToSet(c.window) \subseteq H
      /\ H \subseteq U \cup ToSet(Ending(r, Region(c) + Frame))
      /\ c.spoken \subseteq Known(c) \cup (IF c.says THEN H ELSE {})
  BY DEF Judged
<1>2. Rolled(c.roll, s, Frame) /\ Region(c) = y /\ m \in Nat /\ y <= Len(s) /\ y \in Nat
  <2>1. Rolled(c.roll, s, Frame)
    BY <1>1 DEF Grows
  <2>2. Region(c) = y
    BY DEF Region
  <2>3. Region(c) \in Nat /\ Region(c) <= Len(s)
    BY <1>1, Regions
  <2>4. m \in Nat
    BY <2>1 DEF Rolled
  <2> HIDE DEF y, m
  <2> QED BY <2>1, <2>2, <2>3, <2>4
<1>3. /\ Rolled(roll, r, Frame) /\ n \in 1..PreRoll
      /\ n = m + 1 \/ (n = PreRoll /\ n <= m + 1)
  BY <1>1, <1>2, RollsOn
<1>4. r \in Seq(Int) /\ Len(r) = Len(s) + Frame /\ Len(s) \in Nat
  <2>1. r \in Seq(Int) /\ Len(r) = Len(s) + Len(t)
    BY <1>1, Concats
  <2>2. Len(s) \in Nat
    BY <1>1
  <2> HIDE DEF r
  <2> QED BY <1>1, <2>1, <2>2
<1>5. Known(c) = U
  <2>1. ToSet(<<>>) = {}
    BY DEF ToSet
  <2> QED BY <2>1 DEF Known
<1> HIDE DEF roll, r, m
<1>6. n \in Nat /\ n >= 1 /\ n <= PreRoll /\ PreRoll \in Nat /\ Frame \in Nat /\ Frame >= 1 /\ m + 1 \in Nat /\ n <= m + 1
      /\ 1 \in Nat /\ VadWindow \in Nat
  BY <1>2, <1>3, Frames
<1>7. x \in Nat /\ x <= Len(r) /\ x <= y + Frame /\ Frame <= x /\ x <= Frame * PreRoll
      /\ (n = m + 1 => x = y + Frame) /\ (n = PreRoll => x = Frame * PreRoll) /\ x < MaxUtterance
  <2>1. x \in Nat /\ Frame * 1 = Frame /\ Frame * (m + 1) = y + Frame /\ Frame * PreRoll \in Nat
    BY <1>2, <1>6, Times
  <2>2. Frame * 1 <= Frame * n /\ Frame * n <= Frame * PreRoll /\ Frame * n <= Frame * (m + 1)
    BY <1>6, Times
  <2>3. x <= Len(r)
    BY <1>3 DEF Rolled
  <2>4. Frame * PreRoll < MaxUtterance /\ MaxUtterance \in Nat
    BY Frames
  <2>5. n = m + 1 => x = Frame * (m + 1)
    OBVIOUS
  <2>6. n = PreRoll => x = Frame * PreRoll
    OBVIOUS
  <2>7. x <= Frame * PreRoll
    BY <2>2
  <2>8. x < MaxUtterance
    <3> DEFINE z == Frame * PreRoll
    <3> HIDE DEF z, x
    <3> QED BY <2>1, <2>4, <2>7 DEF z
  <2>9. Frame <= x /\ x <= y + Frame
    BY <2>1, <2>2
  <2> HIDE DEF x, y, n
  <2> QED BY <2>1, <2>3, <2>5, <2>6, <2>7, <2>8, <2>9
<1>8. H \subseteq U \cup ToSet(Ending(r, x))
  <2>1. CASE n = m + 1
    <3>1. x = Region(c) + Frame
      BY <1>2, <1>7, <2>1
    <3> HIDE DEF x, H
    <3> QED BY <1>1, <3>1
  <2>2. CASE n = PreRoll
    <3>1. l + Frame <= x /\ l + Frame \in Nat
      <4>1. x >= VadWindow + Frame - 1
        BY <1>7, <2>2, Frames
      <4> HIDE DEF x
      <4> QED BY <1>1, <1>6, <1>7, <4>1
    <3> HIDE DEF x
    <3>2. ToSet(Ending(r, l + Frame)) \subseteq ToSet(Ending(r, x))
      <4> DEFINE k == l + Frame
      <4>1. k \in Nat /\ k <= x
        BY <3>1
      <4> HIDE DEF k
      <4>2. ToSet(Ending(r, k)) \subseteq ToSet(Ending(r, x))
        BY <1>4, <1>7, <4>1, EndingsNest
      <4> QED BY <4>2 DEF k
    <3> QED BY <3>2
  <2> QED BY <1>3, <2>1, <2>2
<1>9. FlattenSeq(roll) = Ending(r, x) /\ Ending(r, x) \in Seq(Int) /\ Len(Ending(r, x)) = x
  <2>1. FlattenSeq(roll) = Ending(r, Frame * Len(roll))
    BY <1>3, <1>4, <1>6, RollFlat
  <2> HIDE DEF x
  <2>2. Ending(r, x) \in Seq(Int) /\ Len(Ending(r, x)) = x
    BY <1>4, <1>7, Endings
  <2> QED BY <2>1, <2>2 DEF x
<1> HIDE DEF x, y, H, U
<1>10. Listed(c.index, r, Len(r) - x) /\ Capped(c)
  <2> DEFINE base == Len(s) - y
             upto == Len(r) - x
  <2>1. base \in Nat /\ upto \in Nat /\ base <= upto
    <3>1. y \in Nat /\ y <= Len(s) /\ x \in Nat /\ x <= Len(r) /\ x <= y + Frame
      BY <1>2, <1>7
    <3>2. Len(s) \in Nat /\ Len(r) = Len(s) + Frame /\ Frame \in Nat
      BY <1>4, <1>6
    <3> QED BY <3>1, <3>2
  <2>2. Listed(c.index, s, base) /\ Capped(c)
    BY <1>1, <1>2 DEF Indexed
  <2> HIDE DEF base, upto
  <2>3. Listed(c.index, s \o t, upto)
    BY <1>1, <2>1, <2>2, ListedGrows
  <2> QED BY <2>2, <2>3 DEF r, upto
<1>11. d \in Cut /\ d.wav = r /\ d.index = c.index /\ d.spoken = c.spoken /\ d.window = c.window /\ d.roll = roll
       /\ d.pending = c.pending /\ d.blocks = c.blocks /\ d.next = c.next /\ d.at = c.at
       /\ d.voiced = IF c.says THEN Ending(r, x) ELSE <<>>
  <2>1. FlattenSeq(roll) = Ending(r, x)
    BY <1>9
  <2>2. roll \in Seq(Seq(Int))
    BY <1>3 DEF Rolled
  <2>3. CASE c.says
    <3> DEFINE v == Ending(r, x)
               q == 0
    <3>1. d = Opened(c, roll, q, v)
      BY <2>1, <2>3 DEF Waits, roll, Opened
    <3>2. v \in Seq(Int) /\ q \in Int
      BY <1>9
    <3> HIDE DEF d, v, q
    <3>3. d \in Cut /\ d.wav = c.wav /\ d.index = c.index /\ d.spoken = c.spoken /\ d.window = c.window
          /\ d.roll = roll /\ d.pending = c.pending /\ d.blocks = c.blocks /\ d.next = c.next
          /\ d.at = c.at /\ d.voiced = v
      <4>1. c \in Cut
        BY <1>1
      <4> HIDE DEF roll
      <4> QED BY <2>2, <3>1, <3>2, <4>1, OpensFields
    <3> QED BY <1>1, <2>3, <3>3 DEF v
  <2>4. CASE ~c.says
    <3>1. d = [c EXCEPT !.roll = roll, !.quiet = @, !.voiced = @]
      BY <2>4 DEF Waits, roll
    <3> HIDE DEF d
    <3> QED BY <1>1, <2>2, <2>4, <3>1 DEF Cut
  <2> QED BY <2>3, <2>4
<1> HIDE DEF d
<1>12. Region(d) = x /\ Grows(d, r)
  <2>1. CASE c.says
    <3>1. d.voiced = Ending(r, x) /\ Len(d.voiced) = x /\ d.voiced # <<>>
      BY <1>6, <1>7, <1>9, <1>11, <2>1
    <3>2. \E k \in Nat : x = Frame * k
      BY <1>6 DEF x
    <3> QED BY <1>7, <3>1, <3>2 DEF Region, Grows
  <2>2. CASE ~c.says
    <3>1. d.voiced = <<>> /\ d.roll = roll
      BY <1>11, <2>2
    <3> QED BY <1>3, <1>6, <3>1 DEF Region, Grows, x
  <2> QED BY <2>1, <2>2
<1>13. Indexed(d, r) /\ Streams(d) /\ Windowed(d)
  BY <1>1, <1>10, <1>11, <1>12 DEF Indexed, Capped, Streams, Windowed
<1>14. d.spoken \subseteq Known(d) /\ ToSet(d.window) \subseteq InIndex(d.index) \cup ToSet(Ending(r, x))
  BY <1>1, <1>5, <1>8, <1>11 DEF Known, U
<1>15. Whole(d)
  BY <1>11, <1>12, <1>13, <1>14 DEF Whole
<1> QED BY <1>11, <1>15 DEF d

(* An utterance that ends, in the middle of the loop or with it, is an entry;
   a frame that was written and not fed is what it is late by. *)
LEMMA MarksEntry ==
  ASSUME NEW s \in Seq(Int), NEW t \in Seq(Int), NEW index, NEW base \in Nat, Listed(index, s, base),
         NEW k \in Nat, k <= Len(s), base <= Len(s) - k,
         NEW e \in Entry, e.pcm = Ending(s, k), e.offset = Len(s \o t) - k, e.late = Len(t)
  PROVE  /\ Listed(Append(index, e), s \o t, Len(s))
         /\ InIndex(Append(index, e)) = InIndex(index) \cup ToSet(Ending(s, k))
<1> DEFINE r == s \o t
           n == Len(s)
           m == Len(t)
           a == n - k
           offset == Len(r) - k
<1>0. e.pcm = Ending(s, k) /\ e.offset = offset /\ e.late = m
  OBVIOUS
<1>1. r \in Seq(Int) /\ Len(r) = n + m /\ n \in Nat /\ m \in Nat
  BY Concats
<1>2. Len(Ending(s, k)) = k
  BY Endings
<1>3. a \in Nat /\ a <= n /\ m <= offset /\ offset - m = a /\ a + k = n /\ n <= Len(r)
  <2>1. k <= n
    OBVIOUS
  <2> HIDE DEF r, n, m
  <2> QED BY <1>1, <2>1
<1>4. Ending(s, k) = Slice(s, a, n) /\ Slice(r, a, n) = Slice(s, a, n)
  <2>1. Ending(s, k) = Slice(s, a, n)
    BY DEF Ending
  <2>2. n <= Len(s)
    BY <1>1
  <2> HIDE DEF a, n
  <2>3. Slice(r, a, n) = Slice(s, a, n)
    BY <1>1, <1>3, <2>2, SliceStays
  <2> QED BY <2>1, <2>3 DEF a, n
<1> HIDE DEF a, r
<1>5. Start(e) = a /\ Stop(e) = n
  <2>1. Start(e) = offset - m /\ Stop(e) = offset - m + k
    BY <1>0, <1>2 DEF Start, Stop
  <2> HIDE DEF offset, m, n
  <2> QED BY <1>3, <2>1
<1>6. Placed(e, r)
  <2>1. e.late <= e.offset
    BY <1>0, <1>3
  <2>2. Stop(e) <= Len(r)
    BY <1>3, <1>5
  <2>3. e.pcm = Slice(r, Start(e), Stop(e))
    BY <1>0, <1>4, <1>5
  <2> QED BY <2>1, <2>2, <2>3 DEF Placed
<1>7. Listed(index, r, base)
  <2>1. base <= base
    OBVIOUS
  <2> QED BY <2>1, ListedGrows DEF r
<1>8. base <= Start(e)
  BY <1>5 DEF a
<1>9. Listed(Append(index, e), r, Stop(e)) /\ InIndex(Append(index, e)) = InIndex(index) \cup ToSet(e.pcm)
  BY <1>1, <1>6, <1>7, <1>8, ListedMarks
<1> QED BY <1>0, <1>5, <1>9 DEF r

LEMMA EntryOfAll ==
  ASSUME NEW s \in Seq(Int), NEW index, NEW base \in Nat, Listed(index, s, base),
         NEW k \in Nat, k <= Len(s), base <= Len(s) - k,
         NEW e \in Entry, e.pcm = Ending(s, k), e.offset = Len(s) - k, e.late = 0
  PROVE  /\ Listed(Append(index, e), s, Len(s))
         /\ InIndex(Append(index, e)) = InIndex(index) \cup ToSet(Ending(s, k))
<1> DEFINE t == << >>
           r == s \o t
<1>1. t \in Seq(Int) /\ r = s /\ Len(t) = 0
  OBVIOUS
<1>2. e.offset = Len(r) - k /\ e.late = Len(t)
  BY <1>1
<1> HIDE DEF t
<1>3. /\ Listed(Append(index, e), r, Len(s))
      /\ InIndex(Append(index, e)) = InIndex(index) \cup ToSet(Ending(s, k))
  <2>1. t \in Seq(Int)
    BY <1>1
  <2> QED BY <1>2, <2>1, MarksEntry
<1> HIDE DEF r
<1> QED BY <1>1, <1>3

Mark(v, offset, late) == [pcm |-> v, offset |-> offset, late |-> late]

LEMMA MarkIs ==
  ASSUME NEW v \in Seq(Int), NEW offset \in Nat, NEW late \in Nat, NEW e, e = Mark(v, offset, late)
  PROVE  e \in Entry /\ e.pcm = v /\ e.offset = offset /\ e.late = late
  BY DEF Mark, Entry

Ended(c, index, voiced, roll, q) ==
  [c EXCEPT !.index = index, !.voiced = voiced, !.quiet = q, !.roll = roll]

LEMMA EndsFields ==
  ASSUME NEW c \in Cut, NEW index \in Seq(Entry), NEW v \in Seq(Int), NEW roll \in Seq(Seq(Int)),
         NEW q \in Int, NEW d, d = Ended(c, index, v, roll, q)
  PROVE  /\ d \in Cut /\ d.wav = c.wav /\ d.index = index /\ d.spoken = c.spoken /\ d.window = c.window
         /\ d.roll = roll /\ d.pending = c.pending /\ d.blocks = c.blocks /\ d.next = c.next
         /\ d.at = c.at /\ d.voiced = v
<1> HIDE DEF Entry
<1> QED BY DEF Cut, Ended

LEMMA ExtendsKeeps ==
  ASSUME FramesFit, NEW c, NEW s, NEW t, NEW l, Judged(c, s, t, l), c.voiced # <<>>
  PROVE  Whole(Extends(c, t)) /\ Extends(c, t).at = c.at
<1> DEFINE r == s \o t
           g == Len(c.voiced)
           k == g + Frame
           v == c.voiced \o t
           q == IF c.says THEN 0 ELSE c.quiet + 1
           e == [c EXCEPT !.voiced = @ \o t, !.quiet = IF c.says THEN 0 ELSE @ + 1]
           H == ToSet(Ending(r, l + Frame))
           U == InIndex(c.index)
           d == Extends(c, t)
<1>1. /\ c \in Cut /\ s \in Seq(Int) /\ t \in Seq(Int) /\ Len(t) = Frame /\ c.wav = r
      /\ Streams(c) /\ Windowed(c) /\ Grows(c, s) /\ Indexed(c, s)
      /\ ToSet(c.window) \subseteq H
      /\ H \subseteq U \cup ToSet(Ending(r, Region(c) + Frame))
      /\ c.spoken \subseteq Known(c) \cup (IF c.says THEN H ELSE {})
  BY DEF Judged
<1>2. /\ Region(c) = g /\ g \in Nat /\ g <= Len(s) /\ c.voiced = Ending(s, g) /\ g < MaxUtterance
      /\ c.voiced \in Seq(Int) /\ \E j \in Nat : g = Frame * j
  <2>1. c.voiced \in Seq(Int)
    BY <1>1 DEF Cut
  <2>2. g \in Nat /\ Region(c) = g
    BY <2>1 DEF Region
  <2> QED BY <1>1, <2>1, <2>2 DEF Grows
<1>3. r \in Seq(Int) /\ Len(r) = Len(s) + Frame /\ Len(s) \in Nat
  <2>1. r \in Seq(Int) /\ Len(r) = Len(s) + Len(t)
    BY <1>1, Concats
  <2>2. Len(s) \in Nat
    BY <1>1
  <2> HIDE DEF r
  <2> QED BY <1>1, <2>1, <2>2
<1>4. Frame \in Nat /\ Frame >= 1 /\ MaxUtterance \in Nat
  BY Frames
<1>5. k \in Nat /\ k >= 1 /\ k <= Len(r) /\ k <= MaxUtterance /\ \E j \in Nat : k = Frame * j
  <2>1. PICK j \in Nat : g = Frame * j
    BY <1>2
  <2>2. PICK m \in Nat : MaxUtterance = Frame * m
    BY Frames
  <2>3. Frame * (j + 1) = Frame * j + Frame /\ (Frame * j < Frame * m => Frame * j + Frame <= Frame * m)
    BY <1>4, Times
  <2>4. k = Frame * (j + 1) /\ j + 1 \in Nat
    BY <2>1, <2>3
  <2>5. g + Frame <= MaxUtterance
    BY <1>2, <2>1, <2>2, <2>3
  <2> HIDE DEF g, r
  <2>6. k \in Nat /\ k >= 1 /\ k <= Len(r) /\ k <= MaxUtterance
    <3>1. g \in Nat /\ g <= Len(s)
      BY <1>2
    <3>2. Len(r) = Len(s) + Frame /\ Len(s) \in Nat
      BY <1>3
    <3> QED BY <1>4, <2>5, <3>1, <3>2
  <2> HIDE DEF k
  <2> QED BY <2>4, <2>6
<1>6. v = Ending(r, k) /\ v \in Seq(Int) /\ Len(v) = k /\ v # <<>>
  <2>1. Ending(s, g) \o t = Ending(s \o t, g + Len(t))
    <3> HIDE DEF g
    <3> QED BY <1>1, <1>2, EndingGrows
  <2>2. v = Ending(r, k)
    BY <1>1, <1>2, <2>1
  <2> HIDE DEF v, k, r
  <2>3. v \in Seq(Int) /\ Len(v) = k
    BY <1>3, <1>5, <2>2, Endings
  <2>4. v # <<>>
    BY <1>5, <2>3
  <2> QED BY <2>2, <2>3, <2>4
<1>7. ToSet(v) = ToSet(c.voiced) \cup ToSet(t)
  BY <1>1, <1>2, Concats
<1>8. H \subseteq U \cup ToSet(v)
  BY <1>1, <1>2, <1>6
<1>9. c.spoken \subseteq U \cup ToSet(v)
  <2> HIDE DEF v, H
  <2> QED BY <1>1, <1>7, <1>8 DEF Known
<1> HIDE DEF H, U, k, g, r, v
<1>10. Listed(c.index, r, Len(r) - k) /\ Capped(c) /\ Len(r) - k \in Nat
  <2> DEFINE base == Len(s) - g
             upto == Len(r) - k
  <2>1. base \in Nat /\ upto \in Nat /\ base <= upto
    BY <1>2, <1>3, <1>4, <1>5 DEF k
  <2>2. Listed(c.index, s, base) /\ Capped(c)
    BY <1>1, <1>2 DEF Indexed
  <2> HIDE DEF base, upto
  <2>3. Listed(c.index, s \o t, upto)
    BY <1>1, <2>1, <2>2, ListedGrows
  <2> QED BY <2>1, <2>2, <2>3 DEF r, upto
<1>11. /\ e \in Cut /\ e.wav = r /\ e.index = c.index /\ e.spoken = c.spoken /\ e.window = c.window
       /\ e.pending = c.pending /\ e.blocks = c.blocks /\ e.next = c.next
       /\ e.at = c.at /\ e.voiced = v
  <2>1. e = Opened(c, c.roll, q, v)
    <3>1. e = [c EXCEPT !.roll = @, !.quiet = q, !.voiced = v]
      BY <1>1 DEF Cut, v
    <3> HIDE DEF e, q
    <3> QED BY <3>1 DEF Opened
  <2>2. q \in Int /\ c.roll \in Seq(Seq(Int)) /\ c \in Cut
    BY <1>1 DEF Cut
  <2> HIDE DEF e, q
  <2> QED BY <1>1, <1>6, <2>1, <2>2, OpensFields
<1>12. d = IF e.quiet >= Silence \/ Len(e.voiced) >= MaxUtterance THEN Flushed(e) ELSE e
  BY DEF Extends
<1> HIDE DEF e, d
<1>13. ASSUME ~(e.quiet >= Silence \/ Len(e.voiced) >= MaxUtterance) PROVE Whole(e)
  <2>1. k < MaxUtterance
    BY <1>4, <1>5, <1>6, <1>11, <1>13
  <2>2. Region(e) = k /\ Grows(e, r)
    BY <1>5, <1>6, <1>11, <2>1 DEF Region, Grows
  <2>3. Indexed(e, r) /\ Streams(e) /\ Windowed(e)
    BY <1>1, <1>10, <1>11, <2>2 DEF Indexed, Capped, Streams, Windowed
  <2>4. e.spoken \subseteq Known(e) /\ ToSet(e.window) \subseteq InIndex(e.index) \cup ToSet(Ending(r, k))
    BY <1>1, <1>6, <1>8, <1>9, <1>11 DEF Known, U
  <2> QED BY <1>11, <2>2, <2>3, <2>4 DEF Whole
<1>14. Whole(Flushed(e)) /\ Flushed(e).at = e.at
  <2> DEFINE f == Flushed(e)
             none == << >>
             zero == 0
             offset == Len(r) - k
             entry == Mark(v, offset, zero)
             index == Append(c.index, entry)
  <2>2. entry \in Entry /\ entry.pcm = v /\ entry.offset = offset /\ entry.late = zero /\ zero = 0
    <3>1. offset \in Nat /\ zero \in Nat
      BY <1>10
    <3> HIDE DEF offset, zero, entry
    <3>2. entry \in Entry /\ entry.pcm = v /\ entry.offset = offset /\ entry.late = zero
      BY <1>6, <3>1, MarkIs DEF entry
    <3> QED BY <3>2 DEF zero
  <2>1. /\ Listed(index, r, Len(r)) /\ InIndex(index) = U \cup ToSet(v)
    <3> DEFINE base == Len(r) - k
    <3>1. base \in Nat /\ Listed(c.index, r, base) /\ base <= Len(r) - k
      BY <1>10
    <3>2. r \in Seq(Int) /\ k \in Nat /\ k <= Len(r) /\ entry \in Entry
      BY <1>3, <1>5, <2>2
    <3>3. entry.pcm = Ending(r, k) /\ entry.offset = Len(r) - k /\ entry.late = 0
      BY <1>6, <2>2
    <3> HIDE DEF base, none, entry
    <3>4. /\ Listed(index, r, Len(r))
          /\ InIndex(index) = InIndex(c.index) \cup ToSet(Ending(r, k))
      BY <3>1, <3>2, <3>3, EntryOfAll
    <3> QED BY <1>6, <3>4 DEF U
  <2>3. index \in Seq(Entry)
    BY <2>1 DEF Listed
  <2>4. f = Ended(e, index, none, none, zero)
    <3>1. entry = [pcm |-> e.voiced, offset |-> Len(e.wav) - Len(e.voiced), late |-> 0]
      BY <1>6, <1>11 DEF Mark
    <3> HIDE DEF entry
    <3>2. index = Append(e.index, entry)
      BY <1>11
    <3> QED BY <1>11, <3>1, <3>2 DEF Flushed, Marks, Ended, Cut
  <2>5. none \in Seq(Int) /\ none \in Seq(Seq(Int)) /\ zero \in Int /\ ToSet(none) = {}
    BY DEF ToSet
  <2> HIDE DEF f, entry, none, zero, offset
  <2>6. Capped(c) /\ c.index \in Seq(Entry)
    BY <1>1, <1>10 DEF Cut
  <2>7. \A i \in 1..Len(index) : Len(index[i].pcm) <= MaxUtterance /\ index[i].late = 0
    <3>1. /\ Len(index) = Len(c.index) + 1 /\ index[Len(c.index) + 1] = entry /\ Len(c.index) \in Nat
          /\ \A i \in 1..Len(c.index) : index[i] = c.index[i]
      BY <2>1, <2>6
    <3>2. Len(entry.pcm) <= MaxUtterance
      BY <1>5, <1>6, <2>2
    <3> HIDE DEF index
    <3>3. ASSUME NEW i \in 1..Len(index) PROVE Len(index[i].pcm) <= MaxUtterance /\ index[i].late = 0
      <4>1. CASE i \in 1..Len(c.index)
        BY <2>6, <3>1, <4>1 DEF Capped
      <4>2. CASE i = Len(c.index) + 1
        BY <2>2, <3>1, <3>2, <4>2
      <4> QED BY <3>1, <4>1, <4>2
    <3> QED BY <3>3
  <2> HIDE DEF index
  <2>8. /\ f \in Cut /\ f.wav = r /\ f.index = index /\ f.spoken = c.spoken /\ f.window = c.window
        /\ f.roll = none /\ f.pending = c.pending /\ f.blocks = c.blocks /\ f.next = c.next
        /\ f.at = e.at /\ f.voiced = none
    <3>1. /\ f \in Cut /\ f.wav = e.wav /\ f.index = index /\ f.spoken = e.spoken /\ f.window = e.window
          /\ f.roll = none /\ f.pending = e.pending /\ f.blocks = e.blocks /\ f.next = e.next
          /\ f.at = e.at /\ f.voiced = none
      BY <1>11, <2>3, <2>4, <2>5, EndsFields
    <3> QED BY <1>11, <3>1
  <2>9. Region(f) = 0 /\ Grows(f, r)
    <3>1. Len(none) = 0 /\ none = <<>> /\ Frame * 0 = 0 /\ 0 <= PreRoll /\ 0 <= Len(r)
      BY <1>3, <1>4, Frames DEF none
    <3>2. Rolled(none, r, Frame)
      BY <2>5, <3>1 DEF Rolled
    <3> QED BY <2>8, <3>1, <3>2 DEF Region, Grows
  <2>10. Indexed(f, r) /\ Streams(f) /\ Windowed(f)
    <3>1. Len(r) - 0 = Len(r)
      BY <1>3
    <3>2. Indexed(f, r)
      BY <2>1, <2>7, <2>8, <2>9, <3>1 DEF Indexed, Capped
    <3> QED BY <1>1, <2>8, <3>2 DEF Streams, Windowed
  <2>11. f.spoken \subseteq Known(f) /\ ToSet(f.window) \subseteq InIndex(f.index)
    BY <1>1, <1>8, <1>9, <2>1, <2>8 DEF Known
  <2>12. Whole(f)
    BY <2>8, <2>9, <2>10, <2>11 DEF Whole
  <2> QED BY <2>8, <2>12 DEF f
<1> QED BY <1>11, <1>12, <1>13, <1>14 DEF d

Over(c, index, voiced) == [c EXCEPT !.index = index, !.voiced = voiced, !.at = "closed"]

LEMMA OverFields ==
  ASSUME NEW c \in Cut, NEW index \in Seq(Entry), NEW v \in Seq(Int), NEW d, d = Over(c, index, v)
  PROVE  /\ d \in Cut /\ d.wav = c.wav /\ d.index = index /\ d.spoken = c.spoken /\ d.voiced = v
         /\ d.at = "closed"
<1> HIDE DEF Entry
<1> QED BY DEF Cut, Over

LEMMA OverAccounted ==
  ASSUME NEW d \in Cut, Rising(d.wav), NEW index \in Seq(Entry), NEW upto \in Nat,
         upto <= Len(d.wav), Listed(index, d.wav, upto), d.spoken \subseteq InIndex(index),
         NEW none \in Seq(Int), none = Ending(d.wav, 0), NEW f, f = Over(d, index, none),
         \A i \in 1..Len(index) : Len(index[i].pcm) <= MaxUtterance /\ (index[i].late > 0 => i = Len(index))
  PROVE  Accounted(f) /\ f.at = "closed"
<1>1. /\ f \in Cut /\ f.wav = d.wav /\ f.index = index /\ f.spoken = d.spoken /\ f.voiced = none
      /\ f.at = "closed"
  BY OverFields
<1>2. Rising(f.wav)
  BY <1>1
<1>3. upto \in Nat /\ 0 \in Nat /\ Listed(f.index, f.wav, upto) /\ 0 <= Len(f.wav)
      /\ upto <= Len(f.wav) - 0 /\ f.voiced = Ending(f.wav, 0)
  <2> DEFINE w == d.wav
             n == Len(w)
  <2>1. w \in Seq(Int)
    BY DEF Cut
  <2>2. n \in Nat /\ upto <= n
    BY <2>1
  <2>3. 0 <= n /\ upto <= n - 0
    <3> HIDE DEF n
    <3> QED BY <2>2
  <2>4. 0 <= Len(f.wav) /\ upto <= Len(f.wav) - 0
    <3>1. Len(f.wav) = n
      BY <1>1
    <3> HIDE DEF n
    <3> QED BY <2>3, <3>1
  <2> QED BY <1>1, <2>4
<1>4. f.spoken \subseteq Known(f)
  BY <1>1 DEF Known
<1>5. \A i \in 1..Len(f.index) :
        Len(f.index[i].pcm) <= MaxUtterance /\ (f.index[i].late > 0 => i = Len(f.index) /\ f.at = "closed")
  BY <1>1
<1>6. \E b, k \in Nat : Listed(f.index, f.wav, b) /\ k <= Len(f.wav) /\ b <= Len(f.wav) - k
                        /\ f.voiced = Ending(f.wav, k)
  <2> DEFINE k == 0
  <2>1. upto \in Nat /\ k \in Nat /\ Listed(f.index, f.wav, upto) /\ k <= Len(f.wav)
        /\ upto <= Len(f.wav) - k /\ f.voiced = Ending(f.wav, k)
    BY <1>3
  <2> HIDE DEF k
  <2> QED BY <2>1
<1> QED BY <1>1, <1>2, <1>4, <1>5, <1>6 DEF Accounted

(* What is closed is the take as it was, or with one more frame written. *)
Follows(d, c, t) ==
  /\ d \in Cut /\ t \in Seq(Int) /\ d.wav = c.wav \o t /\ Rising(d.wav)
  /\ d.voiced = c.voiced /\ d.index = c.index /\ d.spoken = c.spoken

LEMMA NoEnding == ASSUME NEW s \in Seq(Int) PROVE Ending(s, 0) = <<>>
<1>1. 0 \in Nat /\ 0 <= Len(s)
  OBVIOUS
<1>2. Ending(s, 0) \in Seq(Int) /\ Len(Ending(s, 0)) = 0
  BY <1>1, Endings
<1> QED BY <1>2

LEMMA ClosesSilent ==
  ASSUME FramesFit, NEW c, Whole(c), c.voiced = <<>>, NEW t, NEW d, Follows(d, c, t), NEW late
  PROVE  Accounted(Closed(d, late)) /\ Closed(d, late).at = "closed"
<1> DEFINE base == Len(c.wav) - Region(c)
           f == Closed(d, late)
           none == << >>
<1>1. c \in Cut /\ Grows(c, c.wav) /\ Listed(c.index, c.wav, base) /\ Capped(c) /\ c.spoken \subseteq Known(c)
  BY DEF Whole, Indexed
<1>2. c.wav \in Seq(Int) /\ c.index \in Seq(Entry)
  BY <1>1 DEF Cut
<1>3. base \in Nat /\ base <= Len(c.wav) /\ base <= base
  <2>1. Region(c) \in Nat /\ Region(c) <= Len(c.wav)
    BY <1>1, <1>2, Regions
  <2>2. Len(c.wav) \in Nat
    BY <1>2
  <2> DEFINE g == Region(c)
             n == Len(c.wav)
  <2>3. base = n - g /\ g \in Nat /\ n \in Nat /\ g <= n
    BY <2>1, <2>2
  <2> HIDE DEF base, g, n
  <2>4. base \in Nat /\ base <= n
    BY <2>3
  <2> QED BY <2>4 DEF n
<1>4. /\ d \in Cut /\ t \in Seq(Int) /\ d.wav = c.wav \o t /\ Rising(d.wav)
      /\ d.voiced = <<>> /\ d.index = c.index /\ d.spoken = c.spoken
  BY DEF Follows
<1>5. d.wav \in Seq(Int)
  BY <1>4 DEF Cut
<1>6. Listed(c.index, c.wav \o t, base)
  <2>1. t \in Seq(Int)
    BY <1>4
  <2> HIDE DEF base
  <2> QED BY <1>1, <1>2, <1>3, <2>1, ListedGrows
<1>7. Listed(c.index, d.wav, base)
  BY <1>4, <1>6
<1>8. base <= Len(d.wav)
  <2> DEFINE m == Len(t)
             n == Len(c.wav)
  <2>1. Len(c.wav \o t) = n + m
    BY <1>2, <1>4, Concats
  <2>2. Len(d.wav) = n + m /\ n \in Nat /\ m \in Nat /\ base <= n
    BY <1>2, <1>3, <1>4, <2>1
  <2> HIDE DEF m, n, base
  <2> QED BY <1>3, <2>2
<1>9. none \in Seq(Int) /\ none = Ending(d.wav, 0)
  BY <1>5, NoEnding
<1>10. d.spoken \subseteq InIndex(c.index)
  <2>1. ToSet(c.voiced) = {}
    BY DEF ToSet
  <2> QED BY <1>1, <1>4, <2>1 DEF Known
<1>11. f = Over(d, c.index, none)
  <2>1. f = [d EXCEPT !.voiced = none, !.at = "closed"]
    BY <1>4 DEF Closed
  <2> HIDE DEF f, none
  <2> QED BY <1>4, <2>1 DEF Over, Cut
<1>12. \A i \in 1..Len(c.index) :
         Len(c.index[i].pcm) <= MaxUtterance /\ (c.index[i].late > 0 => i = Len(c.index))
  BY <1>1 DEF Capped
<1>13. d \in Cut /\ Rising(d.wav) /\ c.index \in Seq(Entry)
  BY <1>2, <1>4
<1> HIDE DEF base, none, f
<1>14. Accounted(f) /\ f.at = "closed"
  BY <1>3, <1>7, <1>8, <1>9, <1>10, <1>11, <1>12, <1>13, OverAccounted
<1> QED BY <1>14 DEF f

LEMMA ClosesVoiced ==
  ASSUME FramesFit, NEW c, Whole(c), c.voiced # <<>>, NEW t, NEW d, Follows(d, c, t)
  PROVE  Accounted(Closed(d, Len(t))) /\ Closed(d, Len(t)).at = "closed"
<1> DEFINE s == c.wav
           n == Len(s)
           v == c.voiced
           k == Len(v)
           base == n - Region(c)
           late == Len(t)
           r == d.wav
           offset == Len(r) - k
           e == Mark(v, offset, late)
           index == Append(c.index, e)
           f == Closed(d, late)
           none == << >>
<1>1. c \in Cut /\ Grows(c, s) /\ Listed(c.index, s, base) /\ Capped(c) /\ c.spoken \subseteq Known(c)
  BY DEF Whole, Indexed
<1>2. s \in Seq(Int) /\ c.index \in Seq(Entry) /\ v \in Seq(Int) /\ n \in Nat /\ k \in Nat
  BY <1>1 DEF Cut
<1>3. k <= n /\ v = Ending(s, k) /\ k < MaxUtterance /\ base = n - k
  BY <1>1 DEF Grows, Region
<1>4. /\ d \in Cut /\ t \in Seq(Int) /\ r = s \o t /\ Rising(r)
      /\ d.voiced = v /\ d.index = c.index /\ d.spoken = c.spoken
  BY DEF Follows
<1>5. late \in Nat /\ Len(s \o t) = n + late
  BY <1>2, <1>4, Concats
<1>6. Len(r) = n + late
  BY <1>4, <1>5
<1>7. base \in Nat /\ base <= n - k
  <2> HIDE DEF base, n, k
  <2> QED BY <1>2, <1>3
<1>8. offset \in Nat /\ n <= Len(r)
  <2> DEFINE m == Len(r)
  <2>1. offset = m - k /\ m = n + late
    BY <1>6
  <2> HIDE DEF m, n, k, late, offset
  <2>2. offset \in Nat /\ n <= m
    BY <1>2, <1>3, <1>5, <2>1
  <2> QED BY <2>2 DEF m
<1>9. e \in Entry /\ e.pcm = v /\ e.offset = offset /\ e.late = late
  <2> HIDE DEF v, offset, late, e
  <2> QED BY <1>2, <1>5, <1>8, MarkIs DEF e
<1>10. Listed(index, s \o t, n) /\ InIndex(index) = InIndex(c.index) \cup ToSet(Ending(s, k))
  <2>1. e.pcm = Ending(s, k)
    BY <1>3, <1>9
  <2>2. e.offset = Len(s \o t) - k /\ e.late = Len(t)
    BY <1>4, <1>9
  <2>3. k \in Nat /\ k <= Len(s) /\ base \in Nat /\ base <= Len(s) - k
    BY <1>2, <1>3, <1>7
  <2>4. c.index \in Seq(Entry) /\ Listed(c.index, s, base) /\ s \in Seq(Int) /\ t \in Seq(Int)
    BY <1>1, <1>2, <1>4
  <2>5. e \in Entry
    BY <1>9
  <2> DEFINE old == c.index
  <2>6. old \in Seq(Entry) /\ Listed(old, s, base)
    BY <2>4
  <2>7. e.pcm = Ending(s, k) /\ e.offset = Len(s \o t) - k /\ e.late = Len(t)
    BY <2>1, <2>2
  <2>8. k \in Nat /\ k <= Len(s) /\ base \in Nat /\ base <= Len(s) - k /\ s \in Seq(Int) /\ t \in Seq(Int)
    BY <2>3, <2>4
  <2> HIDE DEF e, k, base, s, old
  <2>9. Listed(Append(old, e), s \o t, Len(s))
        /\ InIndex(Append(old, e)) = InIndex(old) \cup ToSet(Ending(s, k))
    BY <2>5, <2>6, <2>7, <2>8, MarksEntry
  <2> QED BY <2>9 DEF s, old
<1>11. Listed(index, d.wav, n) /\ index \in Seq(Entry)
  <2>1. Listed(index, d.wav, n)
    <3> HIDE DEF index, n
    <3> QED BY <1>4, <1>10
  <2>2. index \in Seq(Entry)
    <3> HIDE DEF e
    <3> QED BY <1>2, <1>9
  <2> QED BY <2>1, <2>2
<1>12. d.spoken \subseteq InIndex(index)
  BY <1>1, <1>3, <1>4, <1>10 DEF Known
<1>13. f = Over(d, index, none)
  <2>1. e = [pcm |-> d.voiced, offset |-> Len(d.wav) - Len(d.voiced), late |-> late]
    BY <1>4 DEF Mark
  <2>2. d.voiced # <<>> /\ d.index = c.index
    BY <1>4
  <2> HIDE DEF e, late
  <2>3. f = [[d EXCEPT !.index = Append(@, e)] EXCEPT !.voiced = none, !.at = "closed"]
    BY <2>1, <2>2 DEF Closed, Marks
  <2> HIDE DEF f, none
  <2> QED BY <1>4, <2>2, <2>3 DEF Over, Cut
<1>14. \A i \in 1..Len(index) : Len(index[i].pcm) <= MaxUtterance /\ (index[i].late > 0 => i = Len(index))
  <2>1. /\ Len(index) = Len(c.index) + 1 /\ index[Len(c.index) + 1] = e /\ Len(c.index) \in Nat
        /\ \A i \in 1..Len(c.index) : index[i] = c.index[i]
    <3> HIDE DEF e
    <3> QED BY <1>2, <1>9
  <2>2. Len(e.pcm) <= MaxUtterance
    <3>1. Len(e.pcm) = k /\ k \in Nat /\ k < MaxUtterance /\ MaxUtterance \in Nat
      BY <1>2, <1>3, <1>9, Frames
    <3> HIDE DEF k, e
    <3> QED BY <3>1
  <2>3. \A i \in 1..Len(c.index) : Len(c.index[i].pcm) <= MaxUtterance /\ c.index[i].late = 0
    BY <1>1 DEF Capped
  <2> HIDE DEF index, e
  <2>4. ASSUME NEW i \in 1..Len(index) PROVE Len(index[i].pcm) <= MaxUtterance /\ (index[i].late > 0 => i = Len(index))
    <3>1. CASE i \in 1..Len(c.index)
      <4>1. index[i] = c.index[i] /\ Len(c.index[i].pcm) <= MaxUtterance /\ c.index[i].late = 0
        BY <2>1, <2>3, <3>1
      <4> QED BY <4>1
    <3>2. CASE i = Len(c.index) + 1
      BY <2>1, <2>2, <3>2
    <3> QED BY <2>1, <3>1, <3>2
  <2> QED BY <2>4
<1>15. none \in Seq(Int) /\ none = Ending(d.wav, 0)
  <2>1. d.wav \in Seq(Int)
    BY <1>4 DEF Cut
  <2> QED BY <2>1, NoEnding
<1>16. d \in Cut /\ Rising(d.wav) /\ n \in Nat /\ n <= Len(d.wav)
  BY <1>2, <1>4, <1>8
<1> HIDE DEF n, index, none, f
<1>17. Accounted(f) /\ f.at = "closed"
  BY <1>11, <1>12, <1>13, <1>14, <1>15, <1>16, OverAccounted
<1> QED BY <1>17 DEF f, late

LEMMA ClosesKeeps ==
  ASSUME FramesFit, NEW c, Whole(c), NEW t, NEW d, Follows(d, c, t)
  PROVE  Accounted(Closed(d, Len(t))) /\ Closed(d, Len(t)).at = "closed"
<1>1. CASE c.voiced = <<>>
  <2> DEFINE late == Len(t)
  <2> HIDE DEF late
  <2>1. Accounted(Closed(d, late)) /\ Closed(d, late).at = "closed"
    BY <1>1, ClosesSilent
  <2> QED BY <2>1 DEF late
<1>2. CASE c.voiced # <<>>
  BY <1>2, ClosesVoiced
<1> QED BY <1>1, <1>2

LEMMA TakesFrameKeeps ==
  ASSUME FramesFit, Whole(take), TakesFrame
  PROVE  Whole(take') /\ take'.at = "runs"
<1> DEFINE t == SubSeq(take.pending, 1, Frame)
           l == Len(take.window)
<1>1. take.at = "runs" /\ Len(take.pending) >= Frame
  BY DEF TakesFrame
<1>2. PICK verdict \in BOOLEAN : take' = Feeds(Judges(Written(take), t, verdict), t)
  BY DEF TakesFrame
<1> DEFINE d == Judges(Written(take), t, verdict)
<1>3. Judged(d, take.wav, t, l) /\ d.at = "runs"
  BY <1>1, JudgesFrame
<1>4. take' = Feeds(d, t)
  BY <1>2
<1> DEFINE s == take.wav
<1> HIDE DEF d, t, l, s
<1>5. Judged(d, s, t, l)
  BY <1>3 DEF s
<1>6. CASE d.voiced = <<>>
  <2>1. Whole(Waits(d, t)) /\ Waits(d, t).at = d.at
    BY <1>5, <1>6, WaitsKeeps
  <2> QED BY <1>3, <1>4, <1>6, <2>1 DEF Feeds
<1>7. CASE d.voiced # <<>>
  <2>1. Whole(Extends(d, t)) /\ Extends(d, t).at = d.at
    BY <1>5, <1>7, ExtendsKeeps
  <2> QED BY <1>3, <1>4, <1>7, <2>1 DEF Feeds
<1> QED BY <1>6, <1>7

LEMMA StopsKeeps ==
  ASSUME FramesFit, Whole(take), Stops
  PROVE  Accounted(take') /\ take'.at = "closed"
<1> DEFINE t == << >>
<1>1. take' = Closed(take, 0)
  BY DEF Stops
<1>2. take \in Cut /\ take.wav \in Seq(Int) /\ Rising(take.wav)
  BY StreamRises DEF Whole, Cut
<1>3. t \in Seq(Int) /\ Len(t) = 0 /\ take.wav \o t = take.wav
  BY <1>2
<1>4. Follows(take, take, t)
  <2> HIDE DEF t
  <2> QED BY <1>2, <1>3 DEF Follows
<1>5. take' = Closed(take, Len(t))
  BY <1>1, <1>3
<1> HIDE DEF t
<1> QED BY <1>4, <1>5, ClosesKeeps

LEMMA BreaksKeeps ==
  ASSUME FramesFit, Whole(take), BreaksMidFrame
  PROVE  Accounted(take') /\ take'.at = "closed"
<1> DEFINE t == SubSeq(take.pending, 1, Frame)
           d == Written(take)
<1>1. take' = Closed(d, Frame) /\ Len(take.pending) >= Frame
  BY DEF BreaksMidFrame
<1>2. /\ t \in Seq(Int) /\ Len(t) = Frame /\ d \in Cut /\ d.wav = take.wav \o t
      /\ d.voiced = take.voiced /\ d.index = take.index /\ d.spoken = take.spoken /\ Streams(d)
  BY <1>1, WritesFrame
<1> HIDE DEF t, d
<1>3. Rising(d.wav)
  BY <1>2, StreamRises
<1>4. Follows(d, take, t)
  BY <1>2, <1>3 DEF Follows
<1>5. take' = Closed(d, Len(t))
  BY <1>1, <1>2
<1> QED BY <1>4, <1>5, ClosesKeeps

LEMMA NothingHeard == ASSUME FramesFit, ChunkerInit PROVE Whole(take) /\ take.at = "runs"
<1> DEFINE e == << >>
           c == take
<1>1. /\ c.blocks = e /\ c.next = 1 /\ c.pending = e /\ c.wav = e /\ c.window = e /\ c.roll = e
      /\ c.voiced = e /\ c.index = e /\ c.spoken = {} /\ c.at = "runs"
  BY DEF ChunkerInit
<1>2. e \in Seq(Int) /\ e \in Seq(Seq(Int)) /\ e \in Seq(Entry) /\ Len(e) = 0 /\ e \o e = e
  OBVIOUS
<1>3. c \in Cut
  <2> HIDE DEF Entry
  <2> QED BY DEF Cut, ChunkerInit
<1>4. Ending(e, 0) = e
  BY <1>2, NoEnding
<1>5. ToSet(e) = {} /\ InIndex(e) = {}
  BY DEF ToSet, InIndex
<1>6. Streamed(e, e, 1)
  BY <1>2, <1>5 DEF Streamed, Rising, Below
<1>7. Frame * 0 = 0 /\ 0 < VadWindow /\ 0 <= PreRoll
  BY Frames
<1>8. Rolled(e, e, Frame) /\ Listed(e, e, 0)
  BY <1>2, <1>7 DEF Rolled, Listed
<1> HIDE DEF e, c
<1>9. Region(c) = 0 /\ Grows(c, c.wav)
  <2>1. e = <<>>
    BY DEF e
  <2> QED BY <1>1, <1>2, <1>7, <1>8, <2>1 DEF Region, Grows
<1>10. Streams(c) /\ Windowed(c)
  BY <1>1, <1>2, <1>4, <1>6, <1>7 DEF Streams, Windowed
<1>11. Indexed(c, c.wav)
  <2>1. Len(c.wav) - Region(c) = 0
    BY <1>1, <1>2, <1>9
  <2>2. Capped(c)
    BY <1>1, <1>2 DEF Capped
  <2> QED BY <1>1, <1>8, <2>1, <2>2 DEF Indexed
<1>12. Whole(c)
  BY <1>1, <1>3, <1>5, <1>9, <1>10, <1>11 DEF Whole
<1> QED BY <1>1, <1>12 DEF c

LEMMA SpeechStays ==
  ASSUME FramesFit, Accounted(take), take.at = "runs" => Whole(take), ChunkerNext \/ UNCHANGED take
  PROVE  Accounted(take)' /\ (take.at = "runs" => Whole(take))'
<1>1. ASSUME Whole(take'), take'.at = "runs"
      PROVE  Accounted(take)' /\ (take.at = "runs" => Whole(take))'
  BY <1>1, TellsWhole
<1>2. ASSUME Accounted(take'), take'.at = "closed"
      PROVE  Accounted(take)' /\ (take.at = "runs" => Whole(take))'
  BY <1>2
<1>3. CASE Delivers
  <2>1. Whole(take)
    BY <1>3 DEF Delivers
  <2> QED BY <1>1, <1>3, <2>1, DeliversKeeps
<1>4. CASE TakesBlock
  <2>1. Whole(take)
    BY <1>4 DEF TakesBlock
  <2> QED BY <1>1, <1>4, <2>1, TakesBlockKeeps
<1>5. CASE TakesFrame
  <2>1. Whole(take)
    BY <1>5 DEF TakesFrame
  <2> QED BY <1>1, <1>5, <2>1, TakesFrameKeeps
<1>6. CASE Stops
  <2>1. Whole(take)
    BY <1>6 DEF Stops
  <2> QED BY <1>2, <1>6, <2>1, StopsKeeps
<1>7. CASE BreaksMidFrame
  <2>1. Whole(take)
    BY <1>7 DEF BreaksMidFrame
  <2> QED BY <1>2, <1>7, <2>1, BreaksKeeps
<1>8. CASE UNCHANGED take
  BY <1>8
<1> QED BY <1>3, <1>4, <1>5, <1>6, <1>7, <1>8 DEF ChunkerNext
=============================================================================
