---------------------------- MODULE GatewayProofs ----------------------------
(***************************************************************************)
(* The gateway: its sliding-window rate limiter, for every set of keys and *)
(* every policy, and its request pipeline, for every set of requests,      *)
(* calls and rules.                                                        *)
(***************************************************************************)
EXTENDS Gateway, SequenceTheorems, FunctionTheorems, FiniteSetTheorems, TLAPS

\* The instance of the abstract specification counts as this module does.
LEMMA SameCount == \A S : TH!Cardinality(S) = Cardinality(S)
    BY DEF TH!Cardinality, Cardinality, TH!IsFiniteSet, IsFiniteSet

\* How many entries of s are not older than t.
CountSince(s, t) == Cardinality({i \in 1..Len(s) : s[i] >= t})

Sorted(s) == \A i \in 1..Len(s) : \A j \in 1..i : s[j] <= s[i]

\* The first m entries of s are older than t, and from the next one on none is.
OlderUpTo(s, t, m) == \A i \in 1..m : s[i] < t
NoneOlderAfter(s, t, m) == \A i \in m + 1 .. Len(s) : s[i] >= t
IsSuffix(d, s, m) == d = SubSeq(s, m + 1, Len(s))
Later(u, t) == IF u > t THEN u ELSE t
NextNotOlder(s, t, m) == m < Len(s) => ~(s[m + 1] < t)

\* The entries of s from m on are those that are not older than t.
LEMMA SuffixCount ==
    ASSUME NEW s \in Seq(Nat), NEW m \in 0..Len(s), NEW t \in Int,
           OlderUpTo(s, t, m), NoneOlderAfter(s, t, m)
    PROVE  CountSince(s, t) = Len(s) - m
<1>1. \A i \in 1..Len(s) : s[i] \in Nat
    OBVIOUS
<1>2. {i \in 1..Len(s) : s[i] >= t} = m + 1 .. Len(s)
    BY <1>1 DEF OlderUpTo, NoneOlderAfter
<1>3. m + 1 \in Int /\ Len(s) \in Int
    OBVIOUS
<1>4. Cardinality(m + 1 .. Len(s))
        = IF m + 1 > Len(s) THEN 0 ELSE Len(s) - (m + 1) + 1
    BY <1>3, FS_Interval, Zenon
<1>5. Cardinality({i \in 1..Len(s) : s[i] >= t}) = Cardinality(m + 1 .. Len(s))
    BY <1>2, Zenon
<1>6. (IF m + 1 > Len(s) THEN 0 ELSE Len(s) - (m + 1) + 1) = Len(s) - m
    BY <1>3
<1> QED  BY <1>4, <1>5, <1>6, Zenon DEF CountSince

\* A suffix of s whose dropped entries are older than t, less all its leading entries that
\* are older than t, is the suffix of s that holds the entries not older than t.
LEMMA DroppedTwice ==
    ASSUME NEW s \in Seq(Nat), NEW d \in Seq(Nat), NEW t \in Int,
           NEW p \in 0..Len(s), IsSuffix(d, s, p),
           OlderUpTo(s, t, p), Sorted(s),
           NEW n \in 0..Len(d), OlderUpTo(d, t, n), NextNotOlder(d, t, n)
    PROVE  /\ p + n \in 0..Len(s)
           /\ SubSeq(d, n + 1, Len(d)) = SubSeq(s, p + n + 1, Len(s))
           /\ OlderUpTo(s, t, p + n)
           /\ NoneOlderAfter(s, t, p + n)
<1>0. Len(s) \in Nat /\ p \in Nat /\ p <= Len(s) /\ \A i \in 1..Len(s) : s[i] \in Nat
    OBVIOUS
<1>a. Len(d) = Len(s) - p /\ \A i \in 1..Len(d) : d[i] = s[p + i]
  <2>1. LET e == SubSeq(s, p + 1, Len(s))
        IN  Len(e) = Len(s) - p /\ \A i \in 1..Len(e) : e[i] = s[p + i]
    BY <1>0
  <2> QED  BY <2>1, Zenon DEF IsSuffix
<1>1. /\ Len(s) \in Nat /\ Len(d) = Len(s) - p /\ p \in Nat /\ n \in Nat
      /\ \A i \in 1..Len(d) : d[i] = s[p + i]
      /\ \A i \in 1..Len(s) : s[i] \in Nat
    BY <1>0, <1>a
<1>b. Len(s) \in Nat /\ Len(d) = Len(s) - p /\ p \in Nat /\ n \in Nat /\ n <= Len(d)
    BY <1>1
<1>2. p + n \in 0..Len(s)
    BY <1>b
<1>3. SubSeq(d, n + 1, Len(d)) = SubSeq(s, p + n + 1, Len(s))
  <2> DEFINE a == SubSeq(d, n + 1, Len(d))
             b == SubSeq(s, p + n + 1, Len(s))
  <2>1. a \in Seq(Nat) /\ Len(a) = Len(d) - n /\ \A i \in 1..Len(a) : a[i] = d[n + i]
    OBVIOUS
  <2>2. /\ b \in Seq(Nat) /\ Len(b) = Len(s) - (p + n)
        /\ \A i \in 1..Len(b) : b[i] = s[p + n + i]
    BY <1>2
  <2> HIDE DEF a, b
  <2>3. Len(a) = Len(b) /\ Len(a) = Len(d) - n
    BY <2>1, <2>2, <1>1
  <2>4. ASSUME NEW i \in 1..Len(a) PROVE a[i] = b[i]
    <3>1. i \in 1..Len(b) /\ n + i \in 1..Len(d) /\ p + (n + i) = p + n + i
      BY <2>3, <1>b
    <3>2. a[i] = d[n + i] /\ b[i] = s[p + n + i]
      BY <3>1, <2>1, <2>2, Zenon
    <3>3. d[n + i] = s[p + (n + i)]
      BY <3>1, <1>1, Zenon
    <3> QED  BY <3>1, <3>2, <3>3, Zenon
  <2>5. a \in Seq(Nat) /\ b \in Seq(Nat)
    BY <2>1, <2>2, Zenon
  <2>6. a = b
    BY <2>3, <2>4, <2>5, SeqEqual
  <2> QED  BY <2>6 DEF a, b
<1>4. ASSUME NEW i \in 1..p + n PROVE s[i] < t
  <2>1. CASE i <= p
    BY <2>1, <1>b DEF OlderUpTo
  <2>2. CASE i > p
    <3>1. i - p \in 1..n /\ i - p \in 1..Len(d) /\ p + (i - p) = i
      BY <2>2, <1>b
    <3>2. d[i - p] = s[i]
      BY <3>1, <1>1
    <3>3. d[i - p] < t
      BY <3>1, Zenon DEF OlderUpTo
    <3> QED  BY <3>2, <3>3
  <2> QED  BY <2>1, <2>2, <1>b
<1>5. ASSUME NEW i \in p + n + 1 .. Len(s) PROVE s[i] >= t
  <2> DEFINE j == p + n + 1
  <2>0. i \in Int /\ i >= p + n + 1 /\ i <= Len(s)
    BY <1>b
  <2>a. n < Len(d)
    BY <2>0, <1>b
  <2>1. n < Len(d) /\ n + 1 \in 1..Len(d) /\ j = p + (n + 1)
    BY <2>a, <1>b
  <2>b. d[n + 1] = s[p + (n + 1)]
    BY <2>1, <1>1, Zenon
  <2>2. d[n + 1] = s[j]
    BY <2>b, <2>1, Zenon
  <2>3. j \in 1..i /\ i \in 1..Len(s) /\ j \in 1..Len(s)
    BY <1>b
  <2> HIDE DEF j
  <2>4. s[j] <= s[i]
    BY <2>3 DEF Sorted
  <2>5. s[i] \in Nat /\ s[j] \in Nat
    BY <2>3, <1>1
  <2>6. ~(s[j] < t)
    BY <2>1, <2>2 DEF NextNotOlder
  <2> QED  BY <2>4, <2>5, <2>6
<1>6. OlderUpTo(s, t, p + n)
    BY <1>4 DEF OlderUpTo
<1>7. NoneOlderAfter(s, t, p + n)
    BY <1>5 DEF NoneOlderAfter
<1> QED  BY <1>2, <1>3, <1>6, <1>7

\* What eviction leaves of a deque is exactly the part of the history inside the window.
LEMMA EvictedSuffix ==
    ASSUME LimiterAssumption, LimiterTypeOK, NEW k \in Keys,
           InOrder(admitted[k]), KeepsWindow(history[k], admitted[k]),
           NEW n \in 0..Len(history[k]), Stale(history[k], n)
    PROVE  \E m \in 0..Len(admitted[k]) :
               /\ Evict(history[k], n) = SubSeq(admitted[k], m + 1, Len(admitted[k]))
               /\ OlderUpTo(admitted[k], clock - Window, m)
               /\ NoneOlderAfter(admitted[k], clock - Window, m)
<1> DEFINE s == admitted[k]
           d == history[k]
           t == clock - Window
<1>1. s \in Seq(Nat) /\ d \in Seq(Nat) /\ t \in Int
    BY DEF LimiterTypeOK, LimiterAssumption
<1>2. PICK p \in 0..Len(s) : IsSuffix(d, s, p) /\ OlderUpTo(s, t, p)
    BY DEF KeepsWindow, OlderUpTo, IsSuffix
<1>3. Sorted(s)
    BY DEF InOrder, Sorted
<1>4. n \in 0..Len(d) /\ OlderUpTo(d, t, n) /\ NextNotOlder(d, t, n)
    BY DEF Stale, OlderUpTo, NextNotOlder
<1>5. Evict(d, n) = SubSeq(d, n + 1, Len(d))
    BY DEF Evict
<1> HIDE DEF s, d, t
<1>6. /\ p + n \in 0..Len(s)
      /\ SubSeq(d, n + 1, Len(d)) = SubSeq(s, p + n + 1, Len(s))
      /\ OlderUpTo(s, t, p + n)
      /\ NoneOlderAfter(s, t, p + n)
    BY <1>1, <1>2, <1>3, <1>4, DroppedTwice
<1>7. \E m \in 0..Len(s) :
        /\ Evict(d, n) = SubSeq(s, m + 1, Len(s))
        /\ OlderUpTo(s, t, m)
        /\ NoneOlderAfter(s, t, m)
    BY <1>5, <1>6, Zenon
<1> QED  BY <1>7, Zenon DEF s, d, t

\* Looking for a burst in what the main window kept is looking for it in the history, as
\* far back as both windows reach.
LEMMA BurstCount ==
    ASSUME NEW s \in Seq(Nat), NEW m \in 0..Len(s), NEW t \in Int, NEW u \in Int,
           OlderUpTo(s, t, m), NoneOlderAfter(s, t, m)
    PROVE  CountSince(SubSeq(s, m + 1, Len(s)), u) = CountSince(s, Later(u, t))
<1> DEFINE r == SubSeq(s, m + 1, Len(s))
           A == {i \in 1..Len(r) : r[i] >= u}
           B == {i \in 1..Len(s) : s[i] >= Later(u, t)}
           f == [i \in A |-> i + m]
<1>0. Len(s) \in Nat /\ m \in Nat /\ m <= Len(s)
    OBVIOUS
<1>a. Len(r) = Len(s) - m
    BY <1>0
<1>b. \A i \in 1..Len(r) : r[i] = s[m + i]
    BY <1>0, <1>a
<1> HIDE DEF r
<1>1. Len(r) = Len(s) - m /\ \A i \in 1..Len(r) : r[i] = s[m + i]
    BY <1>a, <1>b
<1>2. \A i \in 1..Len(s) : s[i] \in Nat
    OBVIOUS
<1>3. IsFiniteSet(A)
  <2>1. Len(r) \in Int
    BY <1>1
  <2>2. IsFiniteSet(1..Len(r))
    BY <2>1, 1 \in Int, FS_Interval, Zenon
  <2>3. A \in SUBSET (1..Len(r))
    OBVIOUS
  <2> QED  BY <2>2, <2>3, FS_Subset
<1>4. \A i \in A : i + m \in B
  <2> SUFFICES ASSUME NEW i \in A PROVE i + m \in B
    OBVIOUS
  <2>1. i \in Nat /\ m \in Nat /\ i + m \in m + 1 .. Len(s) /\ r[i] = s[i + m]
    BY <1>1
  <2>2. s[i + m] >= u /\ s[i + m] >= t
    BY <2>1 DEF NoneOlderAfter
  <2> QED  BY <2>1, <2>2 DEF Later
<1>5. f \in [A -> B]
    BY <1>4
<1>6. \A i, j \in A : f[i] = f[j] => i = j
    BY <1>1
<1>7. \A j \in B : \E i \in A : f[i] = j
  <2> SUFFICES ASSUME NEW j \in B PROVE j - m \in A /\ f[j - m] = j
    OBVIOUS
  <2>1. j > m
    BY <1>2 DEF OlderUpTo, Later
  <2>2. s[j] >= u /\ j \in 1..Len(s) /\ s[j] \in Nat
    BY <1>2 DEF Later
  <2>3. j - m \in 1..Len(r) /\ r[j - m] = s[m + (j - m)] /\ m + (j - m) = j
    BY <2>1, <2>2, <1>1
  <2> QED  BY <2>2, <2>3
<1>8. f \in Bijection(A, B)
    BY <1>5, <1>6, <1>7, Fun_IsBij
<1>9. ExistsBijection(A, B)
    BY <1>8 DEF ExistsBijection
<1>10. Cardinality(A) = Cardinality(B)
    BY <1>3, <1>9, FS_Bijection
<1> QED  BY <1>10 DEF CountSince, r

\* After eviction the deque gives the answer the whole history gives.
LEMMA SameAnswer ==
    ASSUME LimiterAssumption, LimiterTypeOK, NEW k \in Keys,
           InOrder(admitted[k]), KeepsWindow(history[k], admitted[k]),
           NEW n \in 0..Len(history[k]), Stale(history[k], n)
    PROVE  Allowed(Evict(history[k], n)) <=> TH!HasRoom(k)
<1> DEFINE s == admitted[k]
           q == Evict(history[k], n)
           t == clock - Window
           u == clock - BurstWindow
<1>1. /\ s \in Seq(Nat) /\ t \in Int /\ u \in Int
      /\ clock \in Nat /\ Window \in Nat /\ BurstWindow \in Nat
    BY DEF LimiterTypeOK, LimiterAssumption
<1>2. PICK m \in 0..Len(s) :
        /\ q = SubSeq(s, m + 1, Len(s))
        /\ OlderUpTo(s, t, m)
        /\ NoneOlderAfter(s, t, m)
    BY EvictedSuffix, Zenon
<1>3. Len(q) = Len(s) - m
    BY <1>1, <1>2
<1>4. Cardinality(TH!Recent(k, Window)) = Len(q)
  <2>1. CountSince(s, t) = Len(s) - m
    BY <1>1, <1>2, SuffixCount, Zenon
  <2> QED  BY <2>1, <1>3 DEF TH!Recent, CountSince
<1>5. Cardinality(TH!Recent(k, TH!ShorterWindow)) = RecentBurst(q)
  <2>1. CountSince(SubSeq(s, m + 1, Len(s)), u) = CountSince(s, Later(u, t))
    BY <1>1, <1>2, BurstCount, Zenon
  <2>2. Later(u, t) = clock - TH!ShorterWindow
    BY <1>1 DEF TH!ShorterWindow, Later
  <2>3. RecentBurst(q) = CountSince(SubSeq(s, m + 1, Len(s)), u)
    BY <1>2 DEF RecentBurst, CountSince
  <2>4. Cardinality(TH!Recent(k, TH!ShorterWindow)) = CountSince(s, clock - TH!ShorterWindow)
    BY DEF TH!Recent, CountSince
  <2> QED  BY <2>1, <2>2, <2>3, <2>4
<1>6. Allowed(q) <=> Len(q) < Limit /\ RecentBurst(q) < BurstLimit
    BY DEF Allowed
<1>7. TH!HasRoom(k) <=> /\ Cardinality(TH!Recent(k, Window)) < Limit
                        /\ Cardinality(TH!Recent(k, TH!ShorterWindow)) < BurstLimit
    BY SameCount DEF TH!HasRoom
<1> HIDE DEF q
<1>8. Allowed(q) <=> TH!HasRoom(k)
    BY <1>4, <1>5, <1>6, <1>7
<1> QED  BY <1>8 DEF q

\* Admitting a call when fewer than `limit` are recent keeps `limit` calls apart by w.
LEMMA RoomSpread ==
    ASSUME NEW s \in Seq(Nat), NEW limit \in Nat \ {0}, NEW w \in Nat, clock \in Nat,
           InOrder(s), Spread(s, limit, w),
           CountSince(s, clock - w) < limit
    PROVE  Spread(Append(s, clock), limit, w)
<1> DEFINE S == Append(s, clock)
           R == {i \in 1..Len(s) : s[i] >= clock - w}
<1>1. /\ Len(S) = Len(s) + 1 /\ S[Len(s) + 1] = clock
      /\ \A i \in 1..Len(s) : S[i] = s[i] /\ s[i] \in Nat
    OBVIOUS
<1> SUFFICES ASSUME NEW i \in 1..Len(S), i + limit <= Len(S) PROVE S[i + limit] - S[i] > w
    BY DEF Spread
<1>0. i + limit <= Len(s) \/ i + limit = Len(s) + 1
  <2>1. Len(S) = Len(s) + 1 /\ i \in Nat /\ limit \in Nat /\ Len(s) \in Nat
    BY <1>1
  <2> HIDE DEF S
  <2> QED  BY <2>1
<1>2. CASE i + limit <= Len(s)
  <2>1. i \in 1..Len(s) /\ i + limit \in 1..Len(s)
    BY <1>2, <1>1
  <2>2. s[i + limit] - s[i] > w
    BY <2>1, <1>2 DEF Spread
  <2> QED  BY <2>1, <2>2, <1>1
<1>3. CASE i + limit = Len(s) + 1
  <2>1. i \in 1..Len(s) /\ S[i + limit] = clock /\ S[i] = s[i]
    BY <1>3, <1>1
  <2>2. SUFFICES ASSUME s[i] >= clock - w PROVE FALSE
    BY <2>1, <1>1
  <2>3. \A j \in i..Len(s) : j \in R
    <3> SUFFICES ASSUME NEW j \in i..Len(s) PROVE s[j] >= clock - w
      BY <2>1
    <3>1. s[i] <= s[j] /\ s[i] \in Nat /\ s[j] \in Nat
      BY <2>1, <1>1 DEF InOrder
    <3> QED  BY <3>1, <2>2
  <2>4. i \in Int /\ Len(s) \in Int /\ 1 \in Int
    BY <2>1
  <2>5. IsFiniteSet(1..Len(s))
    BY <2>4, FS_Interval, Zenon
  <2>6. IsFiniteSet(R)
    BY <2>5, FS_Subset
  <2>7. Cardinality(i..Len(s)) <= Cardinality(R)
    BY <2>3, <2>6, FS_Subset
  <2>8. Cardinality(i..Len(s)) = IF i > Len(s) THEN 0 ELSE Len(s) - i + 1
    BY <2>4, FS_Interval, Zenon
  <2>9. (IF i > Len(s) THEN 0 ELSE Len(s) - i + 1) = limit
    BY <1>1, <2>1, <2>4, <1>3
  <2>10. Cardinality(i..Len(s)) = limit
    BY <2>8, <2>9, Zenon
  <2>11. Cardinality(R) \in Nat
    BY <2>6, FS_CardinalityType
  <2>12. Cardinality(R) < limit
    BY DEF CountSince
  <2> QED  BY <2>7, <2>10, <2>11, <2>12
<1> QED  BY <1>0, <1>2, <1>3
-----------------------------------------------------------------------------
LimiterSafe == LimiterInv /\ LimitsHold

\* What the invariant says of one key.
KeySafe(k) ==
    /\ InOrder(admitted[k]) /\ KeepsWindow(history[k], admitted[k])
    /\ Spread(admitted[k], Limit, Window)
    /\ Spread(admitted[k], BurstLimit, TH!ShorterWindow)

LEMMA KeyByKey ==
    /\ LimiterSafe <=> LimiterTypeOK /\ \A k \in Keys : KeySafe(k)
    /\ LimiterSafe' <=> LimiterTypeOK' /\ \A k \in Keys : KeySafe(k)'
    BY Zenon DEF LimiterSafe, LimiterInv, LimitsHold, KeySafe

LEMMA LimiterStarts ==
    ASSUME LimiterAssumption, LimiterInit
    PROVE  LimiterSafe
<1>1. LimiterTypeOK
    BY DEF LimiterInit, TH!Init, LimiterTypeOK
<1>2. ASSUME NEW k \in Keys PROVE KeySafe(k)
  <2>1. history[k] = <<>> /\ admitted[k] = <<>>
    BY DEF LimiterInit, TH!Init
  <2>2. InOrder(admitted[k])
    BY <2>1 DEF InOrder
  <2>3. KeepsWindow(history[k], admitted[k])
    BY <2>1 DEF KeepsWindow
  <2> QED  BY <2>1, <2>2, <2>3 DEF KeySafe, Spread
<1> QED  BY <1>1, <1>2, KeyByKey

\* A suffix of a longer history is the longer suffix.
LEMMA SuffixAppend ==
    ASSUME NEW s \in Seq(Nat), NEW m \in 0..Len(s), NEW e \in Nat
    PROVE  Append(SubSeq(s, m + 1, Len(s)), e)
             = SubSeq(Append(s, e), m + 1, Len(s) + 1)
<1> DEFINE a == Append(SubSeq(s, m + 1, Len(s)), e)
           b == SubSeq(Append(s, e), m + 1, Len(s) + 1)
<1>1. /\ a \in Seq(Nat) /\ Len(a) = Len(s) - m + 1
      /\ \A i \in 1..Len(a) : a[i] = IF i = Len(a) THEN e ELSE s[m + i]
    OBVIOUS
<1>2. /\ b \in Seq(Nat) /\ Len(b) = Len(s) - m + 1
      /\ \A i \in 1..Len(b) : b[i] = IF i = Len(b) THEN e ELSE s[m + i]
    OBVIOUS
<1> HIDE DEF a, b
<1>3. a = b
    BY <1>1, <1>2, SeqEqual
<1> QED  BY <1>3 DEF a, b

\* A call keeps the invariant and the limits of its key.
LEMMA CallKeeps ==
    ASSUME LimiterAssumption, LimiterSafe, NEW k \in Keys, CheckLimit(k)
    PROVE  LimiterSafe' /\ (TH!Admit(k) \/ TH!Deny(k))
<1>1. PICK n \in 0..Len(history[k]) : IsAllowed(k, n)
    BY DEF CheckLimit
<1> DEFINE s == admitted[k]
           q == Evict(history[k], n)
<1>2. /\ LimiterTypeOK /\ InOrder(s) /\ KeepsWindow(history[k], s)
      /\ Spread(s, Limit, Window) /\ Spread(s, BurstLimit, TH!ShorterWindow)
    BY DEF LimiterSafe, LimiterInv, LimitsHold
<1>3. /\ s \in Seq(Nat) /\ clock \in Nat /\ clock' = clock
      /\ history \in [Keys -> Seq(Nat)] /\ admitted \in [Keys -> Seq(Nat)]
      /\ Limit \in Nat \ {0} /\ BurstLimit \in Nat \ {0}
      /\ Window \in Nat /\ TH!ShorterWindow \in Nat
    BY <1>1, <1>2 DEF LimiterTypeOK, LimiterAssumption, IsAllowed, TH!ShorterWindow
<1>0. Stale(history[k], n)
    BY <1>1, Zenon DEF IsAllowed
<1>4. PICK m \in 0..Len(s) :
        q = SubSeq(s, m + 1, Len(s)) /\ \A i \in 1..m : s[i] < clock - Window
  <2>1. \E m \in 0..Len(s) :
          /\ q = SubSeq(s, m + 1, Len(s))
          /\ OlderUpTo(s, clock - Window, m)
          /\ NoneOlderAfter(s, clock - Window, m)
    BY <1>0, <1>2, EvictedSuffix, Zenon
  <2> QED  BY <2>1, Zenon DEF OlderUpTo
<1>5. q \in Seq(Nat)
    BY <1>3, <1>4
<1>6. Allowed(q) <=> TH!HasRoom(k)
    BY <1>1, <1>2, SameAnswer DEF IsAllowed
<1>7. \A j \in Keys \ {k} : history'[j] = history[j] /\ admitted'[j] = admitted[j]
    BY <1>1, <1>3 DEF IsAllowed
<1>10. \A j \in Keys \ {k} : KeySafe(j)'
  <2> SUFFICES ASSUME NEW j \in Keys \ {k} PROVE KeySafe(j)'
    OBVIOUS
  <2>1. KeySafe(j)
    BY KeyByKey
  <2> QED
    BY <2>1, <1>3, <1>7 DEF KeySafe, InOrder, KeepsWindow, Spread, TH!ShorterWindow
<1>8. CASE Allowed(q)
  <2>1. /\ history' = [history EXCEPT ![k] = Append(q, clock)]
        /\ admitted' = [admitted EXCEPT ![k] = Append(s, clock)]
        /\ verdict' = <<k, TRUE>>
    BY <1>1, <1>8 DEF IsAllowed
  <2>2. history'[k] = Append(q, clock) /\ admitted'[k] = Append(s, clock)
    BY <2>1, <1>3
  <2>3. LimiterTypeOK'
    <3>1. Append(q, clock) \in Seq(Nat) /\ Append(s, clock) \in Seq(Nat)
      BY <1>3, <1>5
    <3>2. history' \in [Keys -> Seq(Nat)] /\ admitted' \in [Keys -> Seq(Nat)]
      BY <2>1, <3>1, <1>3
    <3> QED  BY <2>1, <3>2, <1>3 DEF LimiterTypeOK
  <2>4. InOrder(Append(s, clock))
    <3>1. /\ Len(Append(s, clock)) = Len(s) + 1
          /\ Append(s, clock)[Len(s) + 1] = clock
          /\ \A i \in 1..Len(s) : Append(s, clock)[i] = s[i] /\ s[i] \in Nat
      BY <1>3
    <3>2. \A i \in 1..Len(s) : s[i] <= clock /\ \A j \in 1..i : s[j] <= s[i]
      BY <1>2 DEF InOrder
    <3>3. \A i \in 1..Len(s) + 1 : i \in 1..Len(s) \/ i = Len(s) + 1
      BY <1>3
    <3>4. clock <= clock
      BY <1>3
    <3> QED  BY <3>1, <3>2, <3>3, <3>4, <1>3 DEF InOrder
  <2>5. KeepsWindow(Append(q, clock), Append(s, clock))
    <3>1. Append(q, clock) = SubSeq(Append(s, clock), m + 1, Len(s) + 1)
      BY <1>3, <1>4, SuffixAppend
    <3>2. \A i \in 1..m : Append(s, clock)[i] = s[i]
      BY <1>3
    <3>3. m \in 0..Len(s) + 1 /\ Len(Append(s, clock)) = Len(s) + 1
      BY <1>3
    <3> QED  BY <3>1, <3>2, <3>3, <1>4 DEF KeepsWindow
  <2>6. Spread(Append(s, clock), Limit, Window)
    <3>1. CountSince(s, clock - Window) < Limit
      BY <1>6, <1>8, SameCount DEF TH!HasRoom, TH!Recent, CountSince
    <3> QED  BY <3>1, <1>2, <1>3, RoomSpread
  <2>7. Spread(Append(s, clock), BurstLimit, TH!ShorterWindow)
    <3>1. CountSince(s, clock - TH!ShorterWindow) < BurstLimit
      BY <1>6, <1>8, SameCount DEF TH!HasRoom, TH!Recent, CountSince
    <3> QED  BY <3>1, <1>2, <1>3, RoomSpread
  <2>8. TH!Admit(k)
    BY <1>3, <1>6, <1>8, <2>1 DEF TH!Admit
  <2>9. KeySafe(k)'
    BY <2>2, <2>4, <2>5, <2>6, <2>7, <1>3
    DEF KeySafe, InOrder, KeepsWindow, Spread, TH!ShorterWindow
  <2> QED  BY <2>3, <2>8, <2>9, <1>10, KeyByKey
<1>9. CASE ~Allowed(q)
  <2>1. /\ history' = [history EXCEPT ![k] = q]
        /\ admitted' = admitted /\ verdict' = <<k, FALSE>>
    BY <1>1, <1>9 DEF IsAllowed, Allowed
  <2>2. history'[k] = q
    BY <2>1, <1>3
  <2>3. LimiterTypeOK'
    BY <2>1, <1>3, <1>5 DEF LimiterTypeOK
  <2>4. KeepsWindow(q, s)
    BY <1>4 DEF KeepsWindow
  <2>5. TH!Deny(k)
    BY <1>3, <1>6, <1>9, <2>1 DEF TH!Deny
  <2>6. KeySafe(k)'
    BY <2>1, <2>2, <2>4, <1>2, <1>3
    DEF KeySafe, InOrder, KeepsWindow, Spread, TH!ShorterWindow
  <2> QED  BY <2>3, <2>5, <2>6, <1>10, KeyByKey
<1> QED  BY <1>8, <1>9

LEMMA ResetKeeps ==
    ASSUME LimiterAssumption, LimiterSafe, NEW k \in Keys, Reset(k)
    PROVE  LimiterSafe' /\ TH!Forget(k)
<1>1. LimiterTypeOK /\ \A j \in Keys : KeySafe(j)
    BY KeyByKey
<1>2. /\ history \in [Keys -> Seq(Nat)] /\ admitted \in [Keys -> Seq(Nat)]
      /\ clock' = clock /\ verdict' = verdict
    BY <1>1 DEF LimiterTypeOK, Reset
<1>3. LimiterTypeOK'
    BY <1>1, <1>2 DEF LimiterTypeOK, Reset
<1>4. ASSUME NEW j \in Keys PROVE KeySafe(j)'
  <2>1. CASE j = k
    <3>1. history'[k] = <<>> /\ admitted'[k] = <<>>
      BY <1>2 DEF Reset
    <3> QED  BY <2>1, <3>1 DEF KeySafe, InOrder, KeepsWindow, Spread
  <2>2. CASE j # k
    <3>1. history'[j] = history[j] /\ admitted'[j] = admitted[j]
      BY <2>2, <1>2 DEF Reset
    <3> QED
      BY <3>1, <1>1, <1>2 DEF KeySafe, InOrder, KeepsWindow, Spread, TH!ShorterWindow
  <2> QED  BY <2>1, <2>2
<1>5. TH!Forget(k)
    BY DEF Reset, TH!Forget
<1> QED  BY <1>3, <1>4, <1>5, KeyByKey

LEMMA TickKeeps ==
    ASSUME LimiterAssumption, LimiterSafe, Tick
    PROVE  LimiterSafe' /\ TH!Tick
<1>1. LimiterTypeOK /\ \A j \in Keys : KeySafe(j)
    BY KeyByKey
<1>2. /\ history' = history /\ admitted' = admitted /\ verdict' = verdict
      /\ clock' = clock + 1 /\ clock \in Nat /\ Window \in Nat
      /\ admitted \in [Keys -> Seq(Nat)]
    BY <1>1 DEF Tick, LimiterTypeOK, LimiterAssumption
<1>3. LimiterTypeOK'
    BY <1>1, <1>2 DEF LimiterTypeOK
<1>4. ASSUME NEW j \in Keys PROVE KeySafe(j)'
  <2>1. \A i \in 1..Len(admitted[j]) : admitted[j][i] \in Nat
    BY <1>2
  <2>2. InOrder(admitted[j])'
    BY <2>1, <1>1, <1>2 DEF KeySafe, InOrder
  <2>3. KeepsWindow(history[j], admitted[j])'
    BY <2>1, <1>1, <1>2 DEF KeySafe, KeepsWindow
  <2> QED  BY <2>2, <2>3, <1>1, <1>2 DEF KeySafe, Spread, TH!ShorterWindow
<1>5. TH!Tick
    BY <1>2 DEF Tick, TH!Tick
<1> QED  BY <1>3, <1>4, <1>5, KeyByKey

LEMMA StutterKeeps ==
    ASSUME LimiterSafe, UNCHANGED limiterVars
    PROVE  LimiterSafe'
<1>1. LimiterTypeOK /\ \A j \in Keys : KeySafe(j)
    BY KeyByKey
<1>2. LimiterTypeOK'
    BY <1>1 DEF LimiterTypeOK, limiterVars
<1>3. \A j \in Keys : KeySafe(j)'
    BY <1>1 DEF KeySafe, InOrder, KeepsWindow, Spread, TH!ShorterWindow, limiterVars
<1> QED  BY <1>2, <1>3, KeyByKey

\* Every step of the limiter keeps the invariant and is a step of the abstract throttle.
LEMMA LimiterStep ==
    ASSUME LimiterAssumption, LimiterSafe, [LimiterNext]_limiterVars
    PROVE  LimiterSafe' /\ [TH!Next]_(TH!throttleVars)
<1>1. CASE \E k \in Keys : CheckLimit(k)
    BY <1>1, CallKeeps DEF TH!Next
<1>2. CASE \E k \in Keys : Reset(k)
    BY <1>2, ResetKeeps DEF TH!Next
<1>3. CASE Tick
    BY <1>3, TickKeeps DEF TH!Next
<1>4. CASE UNCHANGED limiterVars
    BY <1>4, StutterKeeps DEF limiterVars, TH!throttleVars
<1> QED  BY <1>1, <1>2, <1>3, <1>4 DEF LimiterNext

\* In every window of the configured length at most requests_per_window calls of a key are
\* admitted, and in every burst window at most burst_limit: is_allowed under any sequence of
\* callers, times and resets, for every policy.
THEOREM LimitsAreKept == LimiterSpec => [](LimiterInv /\ LimitsHold)
<1>1. LimiterInit => LimiterSafe
    BY LimiterAssumption, LimiterStarts
<1>2. LimiterSafe /\ [LimiterNext]_limiterVars => LimiterSafe'
    BY LimiterAssumption, LimiterStep
<1>3. LimiterSafe => LimiterInv /\ LimitsHold
    BY DEF LimiterSafe
<1> QED  BY <1>1, <1>2, <1>3, PTL DEF LimiterSpec

\* Dropping what left the window changes no answer: is_allowed admits and rejects exactly as
\* a limiter that remembers every call would.
THEOREM ForgettingIsHarmless == LimiterSpec => ImplementsThrottle
<1>1. LimiterInit => LimiterSafe /\ TH!Init
    BY LimiterAssumption, LimiterStarts DEF LimiterInit
<1>2. LimiterSafe /\ [LimiterNext]_limiterVars
        => LimiterSafe' /\ [TH!Next]_(TH!throttleVars)
    BY LimiterAssumption, LimiterStep
<1> QED  BY <1>1, <1>2, PTL DEF LimiterSpec, ImplementsThrottle, TH!Spec
-----------------------------------------------------------------------------
(* The request pipeline.                                                    *)

\* What the policy, the token and the route must say for a call to be let through.
Authorized(c) ==
    LET p == Principals[c.header]
        rule == Rules[c.tool]
    IN  /\ c.header \in DOMAIN Principals
        /\ c.tool \in DOMAIN Routes \cap DOMAIN Rules
        /\ p.role >= rule.minimum
        /\ rule.requires \subseteq p.attributes
        /\ "attachment_access" \in rule.requires => AttachmentAccessEnabled

Waiting == {"opening", "opened", "calling"}
AuthenticationCodes == {"AUTHENTICATION_REQUIRED", "INVALID_TOKEN"}

\* A call that is not refused is authorized.
LEMMA GrantedIsAuthorized ==
    ASSUME NEW c, Screening(c) = Granted
    PROVE  Authorized(c)
<1>1. c.header # NoHeader /\ c.header \in DOMAIN Principals /\ c.tool \in DOMAIN Routes
      /\ PolicyDenial(Principals[c.header], c.tool) = Granted
    BY DEF Screening, Granted
<1> DEFINE p == Principals[c.header]
           rule == Rules[c.tool]
<1>2. /\ c.tool \in DOMAIN Rules /\ ~(p.role < rule.minimum)
      /\ PrivilegeDenial(rule, p.attributes) = Granted
    BY <1>1 DEF PolicyDenial, Granted
<1>3. p.role \in 1..3 /\ rule.minimum \in 1..3 /\ rule.requires \subseteq Privileges
    BY <1>1, <1>2, GatewayAssumption DEF WellFormedRule, Roles
<1>4. p.role >= rule.minimum
    BY <1>2, <1>3
<1>5. /\ "production_write" \notin rule.requires \ p.attributes
      /\ ~("attachment_access" \in rule.requires /\ ~AttachmentAccessEnabled)
      /\ "attachment_access" \notin rule.requires \ p.attributes
    BY <1>2, Zenon DEF PrivilegeDenial, Granted
<1>6. rule.requires \subseteq p.attributes
    BY <1>3, <1>5 DEF Privileges
<1> QED  BY <1>1, <1>2, <1>4, <1>5, <1>6 DEF Authorized

\* A refusal has a code of its own, and only the two of authentication leave no user.
LEMMA RefusalCode ==
    ASSUME NEW c, Screening(c) # Granted
    PROVE  /\ Screening(c) \in RefusalCodes \ {"RATE_LIMIT_EXCEEDED"}
           /\ Screening(c) \in AuthenticationCodes <=>
                (c.header = NoHeader \/ c.header \notin DOMAIN Principals)
  BY DEF Screening, PolicyDenial, PrivilegeDenial, Granted, RefusalCodes, AuthenticationCodes
-----------------------------------------------------------------------------
(* The limiter inside the gateway is the limiter: every step of the pipeline asks it as    *)
(* is_allowed is asked, or leaves it alone.                                                *)

LEMMA PipelineAsksLimiter ==
    ASSUME GatewayNext PROVE [LimiterNext]_limiterVars
<1>1. ASSUME NEW r \in Requests, Receive(r) PROVE [LimiterNext]_limiterVars
  <2>1. PICK c \in Calls : Refuse(r, c) \/ Throttled(r, c)
    BY <1>1, Zenon DEF Receive
  <2>2. CASE Refuse(r, c)
    BY <2>2 DEF Refuse, limiterVars
  <2>3. CASE Throttled(r, c)
    <3>1. Screening(c) = Granted /\ CheckLimit(Key(c))
      BY <2>3 DEF Throttled
    <3>2. Key(c) \in Keys
      BY <3>1, GatewayAssumption, GrantedIsAuthorized DEF Authorized
    <3> QED  BY <3>1, <3>2 DEF LimiterNext
  <2> QED  BY <2>1, <2>2, <2>3
<1>2. ASSUME NEW r \in Requests,
             Open(r) \/ Post(r) \/ Answer(r) \/ Fail(r) \/ Audit(r) \/ SinkFails(r)
                \/ Cancel(r) \/ Run(r)
      PROVE  UNCHANGED limiterVars
  BY <1>2 DEF Open, Post, Answer, Fail, Audit, SinkFails, Cancel, Run, Send, limiterVars
<1>3. ASSUME Elapse PROVE LimiterNext
  BY <1>3 DEF Elapse, LimiterNext
<1> QED  BY <1>1, <1>2, <1>3 DEF GatewayNext, Handle

\* The gateway's runs are runs of the limiter (handle_tool_call, step 4).
THEOREM GatewayUsesLimiter == GatewaySpec => LimiterSpec
<1>1. GatewayInit => LimiterInit
  BY DEF GatewayInit
<1>2. ASSUME [GatewayNext]_gatewayVars PROVE [LimiterNext]_limiterVars
  BY <1>2, PipelineAsksLimiter DEF gatewayVars, limiterVars
<1> QED  BY <1>1, <1>2, PTL DEF GatewaySpec, LimiterSpec

\* So the limits hold for whatever requests arrive and however they interleave.
THEOREM GatewayKeepsLimits == GatewaySpec => []LimitsHold
<1>1. (LimiterInv /\ LimitsHold) => LimitsHold
  OBVIOUS
<1> QED  BY <1>1, GatewayUsesLimiter, LimitsAreKept, PTL
-----------------------------------------------------------------------------
(* What is known of one request at each point of its handling. *)
RequestInv(r) ==
    /\ pc[r] = "new" =>
          /\ wire[r] = {} /\ ~posted[r] /\ ~ran[r] /\ trail[r] = <<>> /\ reply[r] = NoReply
    /\ pc[r] # "new" => call[r] \in Calls
    /\ pc[r] \in Waiting =>
          /\ reply[r] = NoReply /\ trail[r] = <<>> /\ Screening(call[r]) = Granted
          /\ call[r].fits
    /\ pc[r] = "auditing" => trail[r] = <<>> /\ reply[r] # NoReply
    /\ pc[r] = "answered" => trail[r] = <<AuditEvent(r)>>
    /\ trail[r] = <<>> \/ (trail[r] = <<AuditEvent(r)>> /\ reply[r] # NoReply)
    /\ reply[r] \in RefusalCodes =>
          /\ wire[r] = {} /\ ~posted[r] /\ ~ran[r]
          /\ \/ reply[r] = Screening(call[r]) /\ Screening(call[r]) # Granted
             \/ reply[r] = "RATE_LIMIT_EXCEEDED" /\ Screening(call[r]) = Granted
    /\ reply[r] \in DispatchCodes => Screening(call[r]) = Granted
    /\ reply[r] = "SUCCESS" => ran[r]
    /\ ran[r] => posted[r]
    /\ posted[r] => wire[r] # {}
    /\ wire[r] # {} => Screening(call[r]) = Granted

PipelineTypeOK ==
    /\ pc \in [Requests -> {"new", "opening", "opened", "calling", "auditing",
                            "answered", "raised", "cancelled"}]
    /\ call \in [Requests -> Calls \cup {NoCall}]
    /\ reply \in [Requests -> RefusalCodes \cup DispatchCodes \cup {NoReply}]
    /\ clients \in [Requests \cup {Shared} -> Headers]
    /\ wire \in [Requests -> SUBSET Headers]
    /\ posted \in [Requests -> BOOLEAN] /\ ran \in [Requests -> BOOLEAN]
    /\ trail \in [Requests -> Seq(AuditEvents)]

PipelineInv == PipelineTypeOK /\ \A r \in Requests : RequestInv(r)

Frame(q) ==
    /\ pc'[q] = pc[q] /\ call'[q] = call[q] /\ reply'[q] = reply[q] /\ wire'[q] = wire[q]
    /\ posted'[q] = posted[q] /\ ran'[q] = ran[q] /\ trail'[q] = trail[q]

\* A step that leaves a request alone keeps what is known of it.
LEMMA FrameKeeps ==
    ASSUME NEW q \in Requests, RequestInv(q), Frame(q) PROVE RequestInv(q)'
<1>1. AuditEvent(q)' = AuditEvent(q)
  BY DEF Frame, AuditEvent
<1> QED  BY <1>1 DEF Frame, RequestInv

LEMMA AuditEventType ==
    ASSUME PipelineTypeOK, NEW r \in Requests, call[r] \in Calls, reply[r] # NoReply
    PROVE  AuditEvent(r) \in AuditEvents
<1>1. reply[r] \in RefusalCodes \cup DispatchCodes
  BY DEF PipelineTypeOK
<1>2. AuditUser(call[r]) \in {Principals[t].user : t \in DOMAIN Principals} \cup {NoUser}
  BY DEF AuditUser, User
<1>3. ContextCorrelation(r) \in {ContextCorrelation(q) : q \in Requests}
  OBVIOUS
<1> QED  BY <1>1, <1>2, <1>3 DEF AuditEvent, AuditEvents

LEMMA TrustedHeadersType ==
    ASSUME NEW r \in Requests, NEW c, Screening(c) = Granted
    PROVE  TrustedHeaders(r, c) \in Headers
BY GrantedIsAuthorized DEF TrustedHeaders, Headers, Authorized

LEMMA PipelineStarts == ASSUME GatewayInit PROVE PipelineInv
<1>1. PipelineTypeOK
  BY DEF GatewayInit, PipelineTypeOK, Headers
<1>2. ASSUME NEW r \in Requests PROVE RequestInv(r)
  BY GatewayAssumption DEF GatewayInit, RequestInv, Waiting, RefusalCodes, DispatchCodes
<1> QED  BY <1>1, <1>2 DEF PipelineInv

\* A step of request r keeps the invariant when it keeps the types, leaves the other
\* requests alone, and leaves r in a state the invariant allows.
LEMMA OneRequestMoves ==
    ASSUME PipelineInv, NEW r \in Requests, PipelineTypeOK', RequestInv(r)',
           \A q \in Requests \ {r} : Frame(q)
    PROVE  PipelineInv'
<1>1. ASSUME NEW q \in Requests, q # r PROVE RequestInv(q)'
  BY <1>1, FrameKeeps DEF PipelineInv
<1> QED  BY <1>1 DEF PipelineInv

LEMMA ReceiveKeeps ==
    ASSUME PipelineInv, NEW r \in Requests, Receive(r) PROVE PipelineInv'
<1>1. PICK c \in Calls :
        call' = [call EXCEPT ![r] = c] /\ (Refuse(r, c) \/ Throttled(r, c))
  BY Zenon DEF Receive
<1>2. /\ pc[r] = "new" /\ PipelineTypeOK /\ RequestInv(r)
      /\ UNCHANGED <<wire, posted, ran, trail>>
  BY DEF Receive, PipelineInv
<1>3. call'[r] = c /\ \A q \in Requests \ {r} : call'[q] = call[q]
  BY <1>1, <1>2 DEF PipelineTypeOK
<1>4. wire[r] = {} /\ ~posted[r] /\ ~ran[r] /\ trail[r] = <<>> /\ reply[r] = NoReply
  BY <1>2 DEF RequestInv
<1>5. ASSUME NEW code \in RefusalCodes, Settle(r, code), UNCHANGED clients,
             \/ code = Screening(c) /\ Screening(c) # Granted
             \/ code = "RATE_LIMIT_EXCEEDED" /\ Screening(c) = Granted
      PROVE  PipelineInv'
  <2>1. pc'[r] = "auditing" /\ reply'[r] = code
    BY <1>2, <1>5 DEF Settle, PipelineTypeOK
  <2>2. PipelineTypeOK'
    BY <1>1, <1>2, <1>5 DEF Settle, PipelineTypeOK
  <2>3. \A q \in Requests \ {r} : Frame(q)
    BY <1>2, <1>3, <1>5 DEF Settle, PipelineTypeOK, Frame
  <2>4. code # NoReply /\ code \notin DispatchCodes /\ code # "SUCCESS"
    BY <1>5, GatewayAssumption DEF RefusalCodes, DispatchCodes
  <2>5. RequestInv(r)'
    BY <1>2, <1>3, <1>4, <1>5, <2>1, <2>4 DEF RequestInv, Waiting
  <2> QED  BY <2>2, <2>3, <2>5, OneRequestMoves
<1>6. CASE Refuse(r, c)
  BY <1>5, <1>6, RefusalCode DEF Refuse
<1>7. CASE Throttled(r, c)
  <2>1. Screening(c) = Granted
    BY <1>7 DEF Throttled
  <2>2. CASE Prepare(r, c)
    <3>1. pc'[r] = "opening" /\ reply' = reply /\ c.fits
      BY <1>2, <2>2 DEF Prepare, PipelineTypeOK
    <3>2. PipelineTypeOK'
      BY <1>1, <1>2, <2>1, <2>2, TrustedHeadersType DEF Prepare, PipelineTypeOK
    <3>3. \A q \in Requests \ {r} : Frame(q)
      BY <1>2, <1>3, <2>2 DEF Prepare, PipelineTypeOK, Frame
    <3>4. RequestInv(r)'
      BY <1>2, <1>3, <1>4, <2>1, <3>1, GatewayAssumption
      DEF RequestInv, Waiting, RefusalCodes, DispatchCodes
    <3> QED  BY <3>2, <3>3, <3>4, OneRequestMoves
  <2>3. CASE Reject(r, c)
    <3>1. pc'[r] = "raised" /\ reply' = reply
      BY <1>2, <2>3 DEF Reject, PipelineTypeOK
    <3>2. PipelineTypeOK'
      BY <1>1, <1>2, <2>3 DEF Reject, PipelineTypeOK
    <3>3. \A q \in Requests \ {r} : Frame(q)
      BY <1>2, <1>3, <2>3 DEF Reject, PipelineTypeOK, Frame
    <3>4. RequestInv(r)'
      BY <1>2, <1>3, <1>4, <3>1, GatewayAssumption
      DEF RequestInv, Waiting, RefusalCodes, DispatchCodes
    <3> QED  BY <3>2, <3>3, <3>4, OneRequestMoves
  <2>4. CASE Settle(r, "RATE_LIMIT_EXCEEDED") /\ UNCHANGED clients
    BY <1>5, <2>1, <2>4 DEF RefusalCodes
  <2> QED  BY <1>7, <2>2, <2>3, <2>4, Zenon DEF Throttled
<1> QED  BY <1>1, <1>6, <1>7

\* A message is posted only for a call that was let through, with headers of the right type.
LEMMA SendKeeps ==
    ASSUME PipelineInv, NEW r \in Requests, Open(r) \/ Post(r) PROVE PipelineInv'
<1> DEFINE next == IF pc[r] = "opening" THEN "opened" ELSE "calling"
<1>1. /\ pc[r] \in Waiting /\ Send(r, next)
      /\ posted' = posted \/ posted' = [posted EXCEPT ![r] = TRUE]
  BY DEF Open, Post, Waiting
<1>2. PipelineTypeOK /\ RequestInv(r) /\ next \in Waiting
  BY DEF PipelineInv, Waiting
<1>3. /\ pc' = [pc EXCEPT ![r] = next] /\ wire' = [wire EXCEPT ![r] = @ \cup {clients[Client(r)]}]
      /\ UNCHANGED <<call, reply, clients, ran, trail>>
  BY <1>1 DEF Send
<1> HIDE DEF next
<1>4. clients[Client(r)] \in Headers
  BY <1>2 DEF PipelineTypeOK, Client
<1>5. PipelineTypeOK'
  BY <1>1, <1>2, <1>3, <1>4 DEF PipelineTypeOK, Waiting
<1>6. \A q \in Requests \ {r} : Frame(q)
  BY <1>1, <1>2, <1>3 DEF PipelineTypeOK, Frame
<1>7. /\ pc'[r] = next /\ wire'[r] # {} /\ (posted[r] => posted'[r])
  BY <1>1, <1>2, <1>3 DEF PipelineTypeOK
<1>8. RequestInv(r)'
  BY <1>1, <1>2, <1>3, <1>7, GatewayAssumption
  DEF RequestInv, Waiting, RefusalCodes, DispatchCodes
<1> QED  BY <1>5, <1>6, <1>8, OneRequestMoves

LEMMA RunKeeps ==
    ASSUME PipelineInv, NEW r \in Requests, Run(r) PROVE PipelineInv'
<1>1. PipelineTypeOK /\ RequestInv(r)
  BY DEF PipelineInv
<1>2. PipelineTypeOK'
  BY <1>1 DEF Run, PipelineTypeOK
<1>3. \A q \in Requests \ {r} : Frame(q)
  BY <1>1 DEF Run, PipelineTypeOK, Frame
<1>4. AuditEvent(r)' = AuditEvent(r)
  BY DEF Run, AuditEvent
<1>5. ran'[r] /\ posted[r]
  BY <1>1 DEF Run, PipelineTypeOK
<1>6. RequestInv(r)'
  BY <1>1, <1>4, <1>5 DEF Run, RequestInv
<1> QED  BY <1>2, <1>3, <1>6, OneRequestMoves

\* The dispatch ends with one of its codes; a success only after the backend ran the tool.
LEMMA DispatchEnds ==
    ASSUME PipelineInv, NEW r \in Requests, Answer(r) \/ Fail(r) PROVE PipelineInv'
<1>1. PICK code \in DispatchCodes : Settle(r, code) /\ (code = "SUCCESS" => ran[r])
  BY DEF Answer, Fail, DispatchCodes
<1>2. /\ pc[r] \in Waiting /\ PipelineTypeOK /\ RequestInv(r)
      /\ UNCHANGED <<call, clients, wire, posted, ran, trail>>
  BY DEF Answer, Fail, Waiting, PipelineInv
<1>3. PipelineTypeOK'
  BY <1>1, <1>2 DEF Settle, PipelineTypeOK
<1>4. \A q \in Requests \ {r} : Frame(q)
  BY <1>1, <1>2 DEF Settle, PipelineTypeOK, Frame
<1>5. pc'[r] = "auditing" /\ reply'[r] = code
  BY <1>1, <1>2 DEF Settle, PipelineTypeOK
<1>6. code # NoReply /\ code \notin RefusalCodes
  BY <1>1, GatewayAssumption DEF RefusalCodes, DispatchCodes
<1>7. RequestInv(r)'
  BY <1>1, <1>2, <1>5, <1>6 DEF RequestInv, Waiting
<1> QED  BY <1>3, <1>4, <1>7, OneRequestMoves

\* The event is recorded, or lost with the request, or the request is cancelled.
LEMMA EndKeeps ==
    ASSUME PipelineInv, NEW r \in Requests, Audit(r) \/ SinkFails(r) \/ Cancel(r)
    PROVE  PipelineInv'
<1>1. /\ pc[r] \in Waiting \cup {"auditing"} /\ PipelineTypeOK /\ RequestInv(r)
      /\ UNCHANGED <<call, reply, clients, wire, posted, ran>>
  BY DEF Audit, SinkFails, Cancel, Waiting, PipelineInv
<1>2. PICK end \in {"answered", "raised", "cancelled"} :
        /\ pc' = [pc EXCEPT ![r] = end]
        /\ \/ trail' = trail /\ end # "answered"
           \/ pc[r] = "auditing" /\ trail' = [trail EXCEPT ![r] = Append(@, AuditEvent(r))]
  BY DEF Audit, SinkFails, Cancel, Record
<1>3. AuditEvent(r)' = AuditEvent(r)
  BY <1>1 DEF AuditEvent
<1>4. pc'[r] = end
  BY <1>1, <1>2 DEF PipelineTypeOK
<1>5. \A q \in Requests \ {r} : Frame(q)
  BY <1>1, <1>2 DEF PipelineTypeOK, Frame
<1>6. CASE trail' = trail /\ end # "answered"
  <2>1. PipelineTypeOK'
    BY <1>1, <1>2, <1>6 DEF PipelineTypeOK
  <2>2. RequestInv(r)'
    BY <1>1, <1>3, <1>4, <1>6 DEF RequestInv, Waiting
  <2> QED  BY <1>5, <2>1, <2>2, OneRequestMoves
<1>7. CASE pc[r] = "auditing" /\ trail' = [trail EXCEPT ![r] = Append(@, AuditEvent(r))]
  <2>1. call[r] \in Calls /\ reply[r] # NoReply /\ trail[r] = <<>>
    BY <1>1, <1>7 DEF RequestInv
  <2>2. AuditEvent(r) \in AuditEvents
    BY <1>1, <2>1, AuditEventType
  <2>3. trail'[r] = <<AuditEvent(r)>>
    BY <1>1, <1>7, <2>1, <2>2 DEF PipelineTypeOK
  <2>4. PipelineTypeOK'
    BY <1>1, <1>2, <1>7, <2>2 DEF PipelineTypeOK
  <2>5. RequestInv(r)'
    BY <1>1, <1>3, <1>4, <2>1, <2>3 DEF RequestInv, Waiting
  <2> QED  BY <1>5, <2>4, <2>5, OneRequestMoves
<1> QED  BY <1>2, <1>6, <1>7

LEMMA PipelineStep == ASSUME PipelineInv, [GatewayNext]_gatewayVars PROVE PipelineInv'
<1>1. CASE UNCHANGED requestVars
  <2>1. ASSUME NEW r \in Requests PROVE RequestInv(r)'
    BY <1>1, FrameKeeps DEF Frame, requestVars, PipelineInv
  <2> QED  BY <1>1, <2>1 DEF PipelineInv, PipelineTypeOK, requestVars
<1>2. CASE UNCHANGED gatewayVars
  BY <1>1, <1>2 DEF gatewayVars
<1>3. CASE Elapse
  BY <1>1, <1>3 DEF Elapse
<1>4. ASSUME NEW r \in Requests, Handle(r) \/ Run(r) PROVE PipelineInv'
  BY <1>4, ReceiveKeeps, SendKeeps, DispatchEnds, EndKeeps, RunKeeps, Zenon DEF Handle
<1> QED  BY <1>2, <1>3, <1>4 DEF GatewayNext

LEMMA PipelineInvariant == GatewaySpec => []PipelineInv
<1>1. GatewayInit => PipelineInv
  BY PipelineStarts
<1>2. PipelineInv /\ [GatewayNext]_gatewayVars => PipelineInv'
  BY PipelineStep
<1> QED  BY <1>1, <1>2, PTL DEF GatewaySpec

\* Every state of the gateway is well typed; no refusal code but the listed ones is given
\* (the service's fallback "FORBIDDEN" is never used).
THEOREM GatewayTypes == GatewaySpec => []GatewayTypeOK
<1>1. PipelineInv /\ (LimiterInv /\ LimitsHold) => GatewayTypeOK
  BY DEF PipelineInv, PipelineTypeOK, LimiterInv, GatewayTypeOK
<1> QED  BY <1>1, PipelineInvariant, GatewayUsesLimiter, LimitsAreKept, PTL

\* A tool runs for authorized calls only, however late the backend runs it.
THEOREM OnlyAuthorizedRun == GatewaySpec => []DenyByDefault
<1>1. PipelineInv => DenyByDefault
  <2> SUFFICES ASSUME PipelineInv, NEW r \in Requests, ran[r] PROVE Authorized(call[r])
    BY DEF DenyByDefault, Authorized
  <2>1. Screening(call[r]) = Granted
    BY DEF PipelineInv, RequestInv
  <2> QED  BY <2>1, GrantedIsAuthorized
<1> QED  BY <1>1, PipelineInvariant, PTL

\* The audit trail says what happened, whatever fails and whoever is cancelled.
THEOREM TrailIsTruthful == GatewaySpec => []AuditTruthful
<1>1. ASSUME PipelineInv, NEW r \in Requests
      PROVE  /\ Len(trail[r]) <= 1
             /\ pc[r] = "answered" => Len(trail[r]) = 1
             /\ reply[r] \in RefusalCodes => ~posted[r] /\ ~ran[r]
             /\ \A i \in 1..Len(trail[r]) : trail[r][i] = AuditEvent(r) /\ reply[r] # NoReply
  <2>1. RequestInv(r)
    BY <1>1 DEF PipelineInv
  <2>2. trail[r] = <<>> \/ (trail[r] = <<AuditEvent(r)>> /\ reply[r] # NoReply)
    BY <2>1 DEF RequestInv
  <2>3. pc[r] = "answered" => trail[r] = <<AuditEvent(r)>>
    BY <2>1 DEF RequestInv
  <2>4. reply[r] \in RefusalCodes => ~posted[r] /\ ~ran[r]
    BY <2>1 DEF RequestInv
  <2>5. /\ Len(trail[r]) <= 1
        /\ \A i \in 1..Len(trail[r]) : trail[r][i] = AuditEvent(r) /\ reply[r] # NoReply
    <3>1. CASE trail[r] = <<>>
      BY <3>1
    <3>2. CASE trail[r] = <<AuditEvent(r)>> /\ reply[r] # NoReply
      BY <3>2
    <3> QED  BY <2>2, <3>1, <3>2, Zenon
  <2>6. pc[r] = "answered" => Len(trail[r]) = 1
    BY <2>3
  <2> QED  BY <2>4, <2>5, <2>6, Zenon
<1>2. ASSUME PipelineInv, NEW r \in Requests, reply[r] # NoReply
      PROVE  LET event == AuditEvent(r)
             IN  /\ event.reason = reply[r]
                 /\ event.status = "SUCCESS" <=> reply[r] = "SUCCESS"
                 /\ event.status = "SUCCESS" => ran[r]
                 /\ event.user = NoUser <=>
                       event.reason \in {"AUTHENTICATION_REQUIRED", "INVALID_TOKEN"}
  <2>1. RequestInv(r) /\ reply[r] \in RefusalCodes \cup DispatchCodes
    BY <1>2 DEF PipelineInv, PipelineTypeOK
  <2>2. reply[r] = "SUCCESS" => ran[r]
    BY <2>1 DEF RequestInv
  <2>3. AuditUser(call[r]) = NoUser <=> call[r].header \notin DOMAIN Principals
    BY GatewayAssumption DEF AuditUser, User
  <2>4. reply[r] \in AuthenticationCodes <=> call[r].header \notin DOMAIN Principals
    <3>1. CASE reply[r] = Screening(call[r]) /\ Screening(call[r]) # Granted
      BY <3>1, RefusalCode, GatewayAssumption
    <3>2. CASE /\ reply[r] \in DispatchCodes \cup {"RATE_LIMIT_EXCEEDED"}
               /\ Screening(call[r]) = Granted
      BY <3>2, GrantedIsAuthorized DEF Authorized, AuthenticationCodes, DispatchCodes
    <3> QED  BY <2>1, <3>1, <3>2 DEF RequestInv
  <2> QED  BY <2>2, <2>3, <2>4 DEF AuditEvent, AuthenticationCodes
<1>3. PipelineInv => AuditTruthful
  BY <1>1, <1>2 DEF AuditTruthful
<1> QED  BY <1>3, PipelineInvariant, PTL
-----------------------------------------------------------------------------
(* Where no client is injected each dispatch has its own, whose headers nobody else sets.  *)
IdentityInv ==
    \A r \in Requests :
        /\ pc[r] \in Waiting => clients[r] = TrustedHeaders(r, call[r])
        /\ wire[r] \subseteq {TrustedHeaders(r, call[r])}

LEMMA IdentityStarts == ASSUME GatewayInit PROVE IdentityInv
BY DEF GatewayInit, IdentityInv, Waiting

LEMMA IdentityStep ==
    ASSUME ~InjectedClient, PipelineInv, IdentityInv, [GatewayNext]_gatewayVars
    PROVE  IdentityInv'
<1> DEFINE Own(q) == /\ pc[q] \in Waiting => clients[q] = TrustedHeaders(q, call[q])
                     /\ wire[q] \subseteq {TrustedHeaders(q, call[q])}
<1>1. PipelineTypeOK /\ \A q \in Requests : Own(q) /\ RequestInv(q) /\ Client(q) = q
  BY DEF PipelineInv, IdentityInv, Client
<1>2. CASE UNCHANGED <<pc, call, clients, wire>>
  BY <1>1, <1>2 DEF IdentityInv, TrustedHeaders
<1>3. ASSUME NEW r \in Requests, Receive(r) PROVE IdentityInv'
  <2>1. PICK c \in Calls :
          call' = [call EXCEPT ![r] = c] /\ (Refuse(r, c) \/ Throttled(r, c))
    BY <1>3, Zenon DEF Receive
  <2>2. UNCHANGED wire /\ wire[r] = {}
    BY <1>1, <1>3 DEF Receive, RequestInv
  <2>3. /\ \A q \in Requests \ {r} : pc'[q] = pc[q] /\ clients'[q] = clients[q]
        /\ pc'[r] \in Waiting => clients'[r] = TrustedHeaders(r, c)
    BY <1>1, <2>1
    DEF Refuse, Throttled, Settle, Prepare, Reject, PipelineTypeOK, Waiting
  <2>4. call'[r] = c /\ \A q \in Requests \ {r} : call'[q] = call[q]
    BY <1>1, <2>1 DEF PipelineTypeOK
  <2>5. \A q \in Requests : Own(q)'
    BY <1>1, <2>2, <2>3, <2>4 DEF TrustedHeaders
  <2> QED  BY <2>5 DEF IdentityInv
<1>4. ASSUME NEW r \in Requests, Open(r) \/ Post(r) PROVE IdentityInv'
  <2>1. /\ pc[r] \in Waiting /\ UNCHANGED <<call, clients>>
        /\ wire' = [wire EXCEPT ![r] = @ \cup {clients[r]}]
        /\ \A q \in Requests \ {r} : pc'[q] = pc[q]
    BY <1>1, <1>4 DEF Open, Post, Send, Waiting, PipelineTypeOK
  <2>2. clients[r] = TrustedHeaders(r, call[r])
    BY <1>1, <2>1
  <2>3. \A q \in Requests : Own(q)'
    BY <1>1, <2>1, <2>2 DEF PipelineTypeOK, TrustedHeaders
  <2> QED  BY <2>3 DEF IdentityInv
<1>5. ASSUME NEW r \in Requests,
             Answer(r) \/ Fail(r) \/ Audit(r) \/ SinkFails(r) \/ Cancel(r)
      PROVE  IdentityInv'
  <2>1. /\ UNCHANGED <<call, clients, wire>>
        /\ pc'[r] \notin Waiting /\ \A q \in Requests \ {r} : pc'[q] = pc[q]
    BY <1>1, <1>5
    DEF Answer, Fail, Audit, SinkFails, Cancel, Settle, Waiting, PipelineTypeOK
  <2>2. \A q \in Requests : Own(q)'
    BY <1>1, <2>1 DEF TrustedHeaders
  <2> QED  BY <2>2 DEF IdentityInv
<1>6. ASSUME NEW r \in Requests, Run(r) PROVE UNCHANGED <<pc, call, clients, wire>>
  BY <1>6 DEF Run
<1>7. CASE Elapse \/ UNCHANGED gatewayVars
  BY <1>2, <1>7 DEF Elapse, gatewayVars, requestVars
<1> QED  BY <1>2, <1>3, <1>4, <1>5, <1>6, <1>7 DEF GatewayNext, Handle

\* In the wiring of create_gateway_app every message carries its own caller's identity.
THEOREM IdentitiesAreKeptApart ==
    ASSUME ~InjectedClient PROVE GatewaySpec => []OwnIdentity
<1>1. GatewayInit => IdentityInv
  BY IdentityStarts
<1>2. PipelineInv /\ IdentityInv /\ [GatewayNext]_gatewayVars => IdentityInv'
  BY IdentityStep
<1>3. IdentityInv => OwnIdentity
  BY DEF IdentityInv, OwnIdentity
<1> QED  BY <1>1, <1>2, <1>3, PipelineInvariant, PTL DEF GatewaySpec
-----------------------------------------------------------------------------
(* A place in a caller's window is taken by each call that passed the limiter and by       *)
(* nothing else.  The counted sets start empty and grow by one request at a time, so they  *)
(* are finite however many requests there are.                                             *)
Slots(k) == {r \in Requests : Passed(r) /\ Key(call[r]) = k}

SlotInv ==
    \A k \in Keys : IsFiniteSet(Slots(k)) /\ Len(admitted[k]) = Cardinality(Slots(k))

\* A step that counts no further request and admits nothing keeps the account.
LEMMA SlotsStand ==
    ASSUME SlotInv, UNCHANGED admitted,
           \A q \in Requests : /\ Passed(q)' <=> Passed(q)
                               /\ Passed(q) => call'[q] = call[q]
    PROVE  SlotInv'
<1>1. ASSUME NEW k \in Keys PROVE Slots(k)' = Slots(k)
  <2>1. \A q \in Requests : (Passed(q)' /\ Key(call'[q]) = k) <=> (Passed(q) /\ Key(call[q]) = k)
    OBVIOUS
  <2> QED  BY <2>1, Zenon DEF Slots
<1> QED  BY <1>1 DEF SlotInv

\* A step that lets one request pass takes one place, of that request's key.
LEMMA SlotTaken ==
    ASSUME SlotInv, admitted \in [Keys -> Seq(Nat)], clock \in Nat,
           NEW r \in Requests, ~Passed(r), Passed(r)',
           NEW key \in Keys, Key(call'[r]) = key,
           admitted' = [admitted EXCEPT ![key] = Append(@, clock)],
           \A q \in Requests \ {r} : (Passed(q)' <=> Passed(q)) /\ call'[q] = call[q]
    PROVE  SlotInv'
<1>1. ASSUME NEW k \in Keys, k # key PROVE Slots(k)' = Slots(k) /\ admitted'[k] = admitted[k]
  <2>1. \A q \in Requests : (Passed(q)' /\ Key(call'[q]) = k) <=> (Passed(q) /\ Key(call[q]) = k)
    BY <1>1
  <2>2. Slots(k)' = Slots(k)
    BY <2>1, Zenon DEF Slots
  <2> QED  BY <1>1, <2>2
<1>2. Slots(key)' = Slots(key) \cup {r} /\ r \notin Slots(key)
  <2>1. \A q \in Requests :
          (Passed(q)' /\ Key(call'[q]) = key) <=> (q = r \/ (Passed(q) /\ Key(call[q]) = key))
    OBVIOUS
  <2>2. ASSUME NEW q PROVE q \in Slots(key)' <=> q \in Slots(key) \cup {r}
    BY <2>1 DEF Slots
  <2> QED  BY <2>2 DEF Slots
<1>3. /\ IsFiniteSet(Slots(key)) /\ Len(admitted[key]) = Cardinality(Slots(key))
      /\ Len(admitted'[key]) = Len(admitted[key]) + 1
  BY DEF SlotInv
<1>4. /\ IsFiniteSet(Slots(key) \cup {r})
      /\ Cardinality(Slots(key) \cup {r}) = Cardinality(Slots(key)) + 1
  BY <1>2, <1>3, FS_AddElement
<1>5. ASSUME NEW k \in Keys
      PROVE  IsFiniteSet(Slots(k)') /\ Len(admitted'[k]) = Cardinality(Slots(k)')
  BY <1>1, <1>2, <1>3, <1>4 DEF SlotInv
<1> QED  BY <1>5 DEF SlotInv

LEMMA SlotsStart == ASSUME GatewayInit PROVE SlotInv
<1>1. ASSUME NEW k \in Keys PROVE Slots(k) = {} /\ admitted[k] = <<>>
  BY DEF GatewayInit, LimiterInit, TH!Init, Slots, Passed
<1>2. IsFiniteSet({}) /\ Cardinality({}) = 0
  BY FS_EmptySet
<1>3. ASSUME NEW k \in Keys PROVE IsFiniteSet(Slots(k)) /\ Len(admitted[k]) = Cardinality(Slots(k))
  <2>1. Slots(k) = {} /\ admitted[k] = <<>>
    BY <1>1
  <2>2. Len(admitted[k]) = 0
    BY <2>1
  <2>3. IsFiniteSet(Slots(k)) /\ Cardinality(Slots(k)) = 0
    BY <1>2, <2>1, Zenon
  <2> QED  BY <2>2, <2>3
<1> QED  BY <1>3 DEF SlotInv

\* A request that arrives takes a place exactly when the limiter answers yes.
LEMMA ReceiveTakes ==
    ASSUME SlotInv, PipelineInv, LimiterTypeOK, NEW r \in Requests, Receive(r)
    PROVE  SlotInv'
<1>1. PICK c \in Calls :
        call' = [call EXCEPT ![r] = c] /\ (Refuse(r, c) \/ Throttled(r, c))
  BY Zenon DEF Receive
<1>2. pc[r] = "new" /\ PipelineTypeOK /\ reply[r] = NoReply /\ ~Passed(r)
  BY DEF Receive, PipelineInv, RequestInv, Passed
<1>3. call'[r] = c /\ \A q \in Requests \ {r} : call'[q] = call[q]
  BY <1>1, <1>2 DEF PipelineTypeOK
<1>4. ASSUME NEW code \in RefusalCodes, Settle(r, code), UNCHANGED admitted PROVE SlotInv'
  <2>1. ~Passed(r)' /\ \A q \in Requests \ {r} : Passed(q)' <=> Passed(q)
    BY <1>2, <1>4 DEF Settle, Passed, PipelineTypeOK
  <2>2. \A q \in Requests : (Passed(q)' <=> Passed(q)) /\ (Passed(q) => call'[q] = call[q])
    BY <1>2, <1>3, <2>1
  <2> QED  BY <1>4, <2>2, SlotsStand
<1>5. CASE Refuse(r, c)
  BY <1>4, <1>5, RefusalCode DEF Refuse, limiterVars
<1>6. CASE Throttled(r, c)
  <2>1. Key(c) \in Keys
    BY <1>6, GatewayAssumption, GrantedIsAuthorized DEF Throttled, Authorized
  <2>2. PICK n \in 0..Len(history[Key(c)]) : IsAllowed(Key(c), n)
    BY <1>6 DEF Throttled, CheckLimit
  <2>3. /\ verdict'[2] => admitted' = [admitted EXCEPT ![Key(c)] = Append(@, clock)]
        /\ ~verdict'[2] => UNCHANGED admitted
    BY <2>2 DEF IsAllowed
  <2>4. CASE verdict'[2] /\ (Prepare(r, c) \/ Reject(r, c))
    <3>1. NoReply \notin RefusalCodes
      BY GatewayAssumption
    <3>2. Passed(r)' /\ \A q \in Requests \ {r} : Passed(q)' <=> Passed(q)
      BY <1>2, <2>4, <3>1 DEF Prepare, Reject, Passed, PipelineTypeOK
    <3>3. admitted \in [Keys -> Seq(Nat)] /\ clock \in Nat
      BY DEF LimiterTypeOK
    <3>4. Key(call'[r]) = Key(c)
      BY <1>3
    <3> QED  BY <1>2, <1>3, <2>1, <2>3, <2>4, <3>2, <3>3, <3>4, SlotTaken
  <2>5. CASE ~verdict'[2] /\ Settle(r, "RATE_LIMIT_EXCEEDED")
    BY <1>4, <2>3, <2>5 DEF RefusalCodes
  <2> QED  BY <1>6, <2>4, <2>5, Zenon DEF Throttled
<1> QED  BY <1>1, <1>5, <1>6

LEMMA SlotsStep ==
    ASSUME SlotInv, PipelineInv, LimiterTypeOK, [GatewayNext]_gatewayVars
    PROVE  SlotInv'
<1>1. PipelineTypeOK /\ \A r \in Requests : RequestInv(r)
  BY DEF PipelineInv
<1>2. CASE UNCHANGED <<admitted, pc, reply, call>>
  BY <1>2, SlotsStand DEF Passed
<1>3. ASSUME NEW r \in Requests, Open(r) \/ Post(r) \/ Audit(r) \/ SinkFails(r) \/ Cancel(r)
      PROVE  SlotInv'
  <2>1. UNCHANGED <<admitted, reply, call>>
    BY <1>3 DEF Open, Post, Audit, SinkFails, Cancel, Send, limiterVars
  <2>2. /\ pc[r] # "new" /\ pc'[r] # "new"
        /\ \A q \in Requests \ {r} : pc'[q] = pc[q]
    BY <1>1, <1>3 DEF Open, Post, Audit, SinkFails, Cancel, Send, PipelineTypeOK
  <2>3. \A q \in Requests : Passed(q)' <=> Passed(q)
    BY <2>1, <2>2 DEF Passed
  <2> QED  BY <2>1, <2>3, SlotsStand
<1>4. ASSUME NEW r \in Requests, Answer(r) \/ Fail(r) PROVE SlotInv'
  <2>1. PICK code \in DispatchCodes : Settle(r, code)
    BY <1>4 DEF Answer, Fail, DispatchCodes
  <2>2. UNCHANGED <<admitted, call>> /\ pc[r] \in Waiting
    BY <1>4 DEF Answer, Fail, limiterVars, Waiting
  <2>3. reply[r] \notin RefusalCodes /\ code \notin RefusalCodes
    BY <1>1, <2>2, GatewayAssumption DEF RequestInv, RefusalCodes, DispatchCodes
  <2>4. \A q \in Requests : Passed(q)' <=> Passed(q)
    BY <1>1, <2>1, <2>2, <2>3 DEF Passed, Settle, Waiting, PipelineTypeOK
  <2> QED  BY <2>2, <2>4, SlotsStand
<1>5. CASE Elapse \/ UNCHANGED gatewayVars
  BY <1>2, <1>5 DEF Elapse, Tick, gatewayVars, limiterVars, requestVars
<1>6. ASSUME NEW r \in Requests, Run(r) PROVE SlotInv'
  BY <1>2, <1>6 DEF Run, limiterVars
<1> QED  BY <1>3, <1>4, <1>5, <1>6, ReceiveTakes DEF GatewayNext, Handle

\* The window is used up by the calls the limiter let pass, one place for each, whatever
\* becomes of them afterwards.
THEOREM WindowIsAccounted == GatewaySpec => []SlotPerDispatch
<1>1. GatewayInit => SlotInv
  BY SlotsStart
<1>2. SlotInv /\ PipelineInv /\ (LimiterInv /\ LimitsHold) /\ [GatewayNext]_gatewayVars
      => SlotInv'
  BY SlotsStep DEF LimiterInv
<1>3. SlotInv => SlotPerDispatch
  BY DEF SlotInv, SlotPerDispatch, Slots
<1> QED
  BY <1>1, <1>2, <1>3, PipelineInvariant, GatewayUsesLimiter, LimitsAreKept, PTL
  DEF GatewaySpec
=============================================================================
