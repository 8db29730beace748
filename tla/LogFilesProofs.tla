--------------------------- MODULE LogFilesProofs ---------------------------
(***************************************************************************)
(* Lemmas about the operators of LogSearch: where the lines of a file lie, *)
(* what the chunks of a scan from its end cut and carry, what a chunk      *)
(* gives and in which order, what the parser of the warning logs makes of  *)
(* a stream of lines, and what the programs that write leave as it is.     *)
(* They hold for every file and every size of chunk, line and window.      *)
(*                                                                         *)
(* What is said of all numbers is proved from the least number of a set    *)
(* that is not empty, which follows from the well-foundedness of the       *)
(* subsets of a finite set.                                                *)
(***************************************************************************)
EXTENDS LogSearch, FiniteSetTheorems, SequenceTheorems, FunctionTheorems, WellFoundedInduction, TLAPS

\* A directory as its writers keep it.
WellKept(files) == files \in Seq(Files) /\ \A k \in DOMAIN files : WellPlaced(files[k])

\* The lines that start below a position; the position is sound if each of them ends below it,
\* unless it starts right there, is too long for a record, or is the fragment that torn announces.
Left(f, high) == {i \in 1..(Len(f.lines) + 1) : From(f, i) <= high}
Bottom(f, i, high) == \A j \in Left(f, high) : j <= i
Safe(f, i, high) ==
    i <= Len(f.lines) /\ (Upto(f, i) <= high \/ f.lines[i].size > MaxLine)
Sound(f, high, t) ==
    \A i \in Left(f, high) :
        Safe(f, i, high) \/ From(f, i) = high \/ (t /\ Bottom(f, i, high))

\* A record of a line that was read to its end; of a line that is too long a head may do.
IsWhole(r) == r.whole \/ r.size > MaxLine

\* A line of a file that a search over the window owes the caller, and whether a scan that has come
\* down to a position has still to read it.
ShownBy(files, k, i, row) ==
    /\ k \in DOMAIN files /\ i \in DOMAIN files[k].lines
    /\ LET l == files[k].lines[i]
       IN  /\ l.kind = "entry" /\ l.size <= MaxLine /\ l.what \in Hits /\ l.time \in Start..Now
           /\ row = <<"iis", l.time, l.what>>

StillLeft(f, i, high, t) ==
    Upto(f, i) <= high /\ (t => ~Bottom(f, i, high))
-----------------------------------------------------------------------------
(* Numbers.                                                                 *)

\* Every set of numbers that is not empty has a least member.
LEMMA LeastNumber ==
    ASSUME NEW T \in SUBSET Nat, T # {}
    PROVE  \E m \in T : \A k \in T : m <= k
<1>1. PICK n \in T : TRUE
  OBVIOUS
<1> DEFINE S == 0..n
           F == {0..m : m \in {t \in T : t <= n}}
           R == StrictSubsetOrdering(S)
<1>2. n \in Nat
  OBVIOUS
<1>3. IsFiniteSet(S)
  BY <1>2, FS_Interval
<1>4. FiniteSubsetsOf(S) = SUBSET S
  BY <1>3, FS_FiniteSubsetsOfFinite
<1>5. IsWellFoundedOn(R, SUBSET S)
  BY <1>4, FS_StrictSubsetOrderingWellFounded
<1>6. F \subseteq SUBSET S
  BY <1>2
<1>7. 0..n \in F
  BY <1>1, <1>2
<1>8. F # {}
  BY <1>7
<1>9. \E x \in F : \A y \in F : ~(<<y, x>> \in R)
  <2> HIDE DEF F, R, S
  <2> QED BY <1>5, <1>6, <1>8, WFMin
<1>10. PICK m \in T : m <= n /\ \A y \in F : ~(<<y, 0..m>> \in R)
  BY <1>9
<1>11. ASSUME NEW k \in T PROVE m <= k
  <2> SUFFICES ASSUME k < m PROVE FALSE
    OBVIOUS
  <2>1. 0..k \in F
    BY <1>2, <1>10
  <2>2. 0..k \in SUBSET S /\ 0..m \in SUBSET S
    BY <1>2, <1>10
  <2>3. 0..k \subseteq 0..m
    OBVIOUS
  <2>4. m \in 0..m /\ m \notin 0..k
    OBVIOUS
  <2>5. 0..k # 0..m
    BY <2>4
  <2>6. <<0..k, 0..m>> \in R
    BY <2>2, <2>3, <2>5 DEF StrictSubsetOrdering
  <2> QED BY <1>10, <2>1, <2>6
<1> QED BY <1>11

\* Induction, for a set of numbers.
LEMMA Induction ==
    ASSUME NEW U, 0 \in U, \A n \in Nat : n \in U => n + 1 \in U
    PROVE  Nat \subseteq U
<1> DEFINE T == Nat \ U
<1> SUFFICES ASSUME T # {} PROVE FALSE
  OBVIOUS
<1>1. PICK m \in T : \A k \in T : m <= k
  BY LeastNumber
<1>2. m # 0 /\ m - 1 \in Nat
  BY <1>1
<1>3. m - 1 \in U
  BY <1>1, <1>2
<1>4. (m - 1) + 1 \in U
  BY <1>2, <1>3
<1> QED BY <1>1, <1>4


Above(S, c) == {x \in S : x > c}
Rank(S, c) == Cardinality(Above(S, c))

\* The ranks of the members of a set of numbers: below its cardinality, and each its own.
LEMMA Ranks ==
    ASSUME NEW S \in SUBSET Nat, IsFiniteSet(S)
    PROVE  /\ \A c \in S : Rank(S, c) \in 0..(Cardinality(S) - 1)
           /\ \A c, d \in S : c < d => Rank(S, d) < Rank(S, c)
           /\ \A c, d \in S : Rank(S, c) = Rank(S, d) => c = d
<1>1. Cardinality(S) \in Nat
  BY FS_CardinalityType
<1>2. ASSUME NEW c \in S PROVE IsFiniteSet(Above(S, c)) /\ Rank(S, c) \in Nat
  <2>1. Above(S, c) \in SUBSET S
    BY DEF Above
  <2>2. IsFiniteSet(Above(S, c))
    BY <2>1, FS_Subset
  <2> QED BY <2>2, FS_CardinalityType DEF Rank
<1>3. ASSUME NEW c \in S PROVE Rank(S, c) \in 0..(Cardinality(S) - 1)
  <2>1. Above(S, c) \in SUBSET (S \ {c})
    BY DEF Above
  <2>2. IsFiniteSet(S \ {c}) /\ Cardinality(S \ {c}) = Cardinality(S) - 1
    BY FS_RemoveElement
  <2>3. Rank(S, c) <= Cardinality(S) - 1
    BY <2>1, <2>2, FS_Subset DEF Rank
  <2> QED BY <2>3, <1>1, <1>2
<1>4. ASSUME NEW c \in S, NEW d \in S, c < d PROVE Rank(S, d) < Rank(S, c)
  <2>1. Above(S, d) \in SUBSET Above(S, c)
    <3>1. ASSUME NEW x \in S, x > d PROVE x > c
      <4>1. x \in Nat /\ c \in Nat /\ d \in Nat
        OBVIOUS
      <4> QED BY <4>1, <3>1, <1>4
    <3> QED BY <3>1 DEF Above
  <2>2. d \in Above(S, c) /\ d \notin Above(S, d)
    BY <1>4 DEF Above
  <2>3. IsFiniteSet(Above(S, c)) /\ Above(S, c) # Above(S, d)
    BY <1>2, <2>2
  <2>4. Rank(S, d) <= Rank(S, c) /\ Rank(S, c) # Rank(S, d)
    BY <2>1, <2>3, FS_Subset DEF Rank
  <2> QED BY <2>4, <1>2
<1>5. ASSUME NEW c \in S, NEW d \in S, Rank(S, c) = Rank(S, d) PROVE c = d
  <2>1. c < d \/ d < c \/ c = d
    OBVIOUS
  <2> QED BY <2>1, <1>2, <1>4, <1>5
<1> QED BY <1>3, <1>4, <1>5

\* The descending order of a finite set of numbers has each of its members once.
LEMMA DescendingOrder ==
    ASSUME NEW S \in SUBSET Nat, IsFiniteSet(S)
    PROVE  /\ Cardinality(S) \in Nat
           /\ \A k \in 1..Cardinality(S) : Descending(S)[k] \in S
           /\ \A c \in S : \E k \in 1..Cardinality(S) : Descending(S)[k] = c
           /\ \A k, m \in 1..Cardinality(S) : k < m => Descending(S)[k] > Descending(S)[m]
<1> DEFINE n == Cardinality(S)
           f == [c \in S |-> Rank(S, c) + 1]
<1>1. n \in Nat
  BY FS_CardinalityType
<1>2. /\ \A c \in S : Rank(S, c) \in 0..(n - 1)
      /\ \A c, d \in S : c < d => Rank(S, d) < Rank(S, c)
      /\ \A c, d \in S : Rank(S, c) = Rank(S, d) => c = d
  BY Ranks
<1>3. f \in [S -> 1..n]
  BY <1>1, <1>2
<1>4. \A c, d \in S : f[c] = f[d] => c = d
  BY <1>2
<1>5. f \in Injection(S, 1..n)
  <2> HIDE DEF f
  <2> QED BY <1>3, <1>4, Fun_IsInj
<1>6. IsFiniteSet(1..n) /\ Cardinality(1..n) = n
  BY <1>1, FS_Interval
<1>7. f \in Surjection(S, 1..n)
  <2> HIDE DEF f
  <2> QED BY <1>5, <1>6, FS_Injection
<1>8. \A k \in 1..n : \E c \in S : f[c] = k
  <2> HIDE DEF f
  <2> QED BY <1>7, Fun_SurjectionProperties
<1>9. ASSUME NEW k \in 1..n PROVE Descending(S)[k] \in S /\ Rank(S, Descending(S)[k]) = k - 1
  <2>1. PICK c \in S : f[c] = k
    BY <1>8
  <2>2. Rank(S, c) = k - 1
    BY <2>1, <1>2
  <2>3. Descending(S)[k] = CHOOSE x \in S : Rank(S, x) = k - 1
    BY DEF Descending, Rank, Above
  <2> QED BY <2>2, <2>3
<1>10. ASSUME NEW c \in S PROVE \E k \in 1..n : Descending(S)[k] = c
  <2>1. Rank(S, c) + 1 \in 1..n /\ (Rank(S, c) + 1) - 1 = Rank(S, c)
    BY <1>1, <1>2
  <2>2. /\ Descending(S)[Rank(S, c) + 1] \in S
        /\ Rank(S, Descending(S)[Rank(S, c) + 1]) = Rank(S, c)
    BY <1>9, <2>1
  <2>3. Descending(S)[Rank(S, c) + 1] = c
    BY <2>2, <1>2
  <2> QED BY <2>1, <2>3
<1>11. ASSUME NEW k \in 1..n, NEW m \in 1..n, k < m
       PROVE  Descending(S)[k] > Descending(S)[m]
  <2>1. Descending(S)[k] \in S /\ Descending(S)[m] \in S
    BY <1>9
  <2>2. /\ Rank(S, Descending(S)[k]) < Rank(S, Descending(S)[m])
        /\ Rank(S, Descending(S)[k]) \in Nat /\ Rank(S, Descending(S)[m]) \in Nat
    BY <1>9, <1>11
  <2>3. ~(Descending(S)[k] < Descending(S)[m])
    <3>1. ASSUME Descending(S)[k] < Descending(S)[m]
          PROVE  Rank(S, Descending(S)[m]) < Rank(S, Descending(S)[k])
      BY <2>1, <3>1, <1>2
    <3> QED BY <3>1, <2>2
  <2>4. Descending(S)[k] # Descending(S)[m]
    BY <1>2, <2>1, <2>2
  <2>5. Descending(S)[k] \in Nat /\ Descending(S)[m] \in Nat
    BY <2>1
  <2> QED BY <2>3, <2>4, <2>5
<1> QED BY <1>1, <1>9, <1>10, <1>11
-----------------------------------------------------------------------------
(* Lines and positions.                                                     *)

\* What a file of the directory consists of.
LEMMA FileShape ==
    ASSUME NEW f \in Files
    PROVE  /\ f.lines \in Seq(Lines) /\ f.tail \in Nat /\ f.fields \in BOOLEAN
           /\ Len(f.lines) \in Nat /\ DOMAIN f.lines = 1..Len(f.lines)
           /\ \A i \in 1..Len(f.lines) :
                 /\ f.lines[i] \in Lines
                 /\ f.lines[i].at \in Nat /\ f.lines[i].size \in Nat
                 /\ f.lines[i].time \in Nat /\ f.lines[i].what \in Nat
<1>1. f.lines \in Seq(Lines) /\ f.tail \in Nat /\ f.fields \in BOOLEAN
  BY DEF Files
<1>2. Len(f.lines) \in Nat /\ DOMAIN f.lines = 1..Len(f.lines)
  BY <1>1
<1>3. \A i \in 1..Len(f.lines) : f.lines[i] \in Lines
  BY <1>1
<1> QED BY <1>1, <1>2, <1>3 DEF Lines

\* The lines of a file follow each other, a newline apart.
LEMMA Places ==
    ASSUME NEW f \in Files, WellPlaced(f)
    PROVE  /\ End(f) \in Nat /\ Size(f) \in Nat /\ Size(f) = End(f) + f.tail
           /\ From(f, 1) = 0
           /\ \A i \in 1..(Len(f.lines) + 1) :
                 From(f, i) \in Nat /\ Upto(f, i) \in Nat /\ From(f, i) <= Upto(f, i)
           /\ \A i \in 1..Len(f.lines) :
                 /\ From(f, i + 1) = Upto(f, i) + 1
                 /\ Upto(f, i) = From(f, i) + f.lines[i].size
           /\ From(f, Len(f.lines) + 1) = End(f) /\ Upto(f, Len(f.lines) + 1) = Size(f)
<1> DEFINE n == Len(f.lines)
<1>1. /\ n \in Nat /\ DOMAIN f.lines = 1..n /\ f.tail \in Nat
      /\ \A i \in 1..n : f.lines[i].at \in Nat /\ f.lines[i].size \in Nat
  BY FileShape
<1>2. f.lines = <<>> <=> n = 0
  BY FileShape, EmptySeq
<1>3. End(f) = IF n = 0 THEN 0 ELSE f.lines[n].at + f.lines[n].size + 1
  BY <1>2 DEF End, Last
<1>4. End(f) \in Nat /\ Size(f) \in Nat /\ Size(f) = End(f) + f.tail
  <2>1. n # 0 => n \in 1..n
    BY <1>1
  <2>2. End(f) \in Nat
    BY <2>1, <1>1, <1>3
  <2> QED BY <2>2, <1>1 DEF Size
<1>5. \A i \in 1..n : From(f, i) = f.lines[i].at /\ Upto(f, i) = f.lines[i].at + f.lines[i].size
  BY <1>1 DEF From, Upto
<1>6. From(f, n + 1) = End(f) /\ Upto(f, n + 1) = Size(f)
  BY <1>1 DEF From, Upto
<1>7. From(f, 1) = 0
  <2>1. CASE n = 0
    BY <2>1, <1>3, <1>6
  <2>2. CASE n # 0
    BY <2>2, <1>1, <1>5 DEF WellPlaced
  <2> QED BY <2>1, <2>2
<1>8. \A i \in 1..n : From(f, i + 1) = Upto(f, i) + 1
  <2>1. ASSUME NEW i \in 1..n, i < n PROVE From(f, i + 1) = Upto(f, i) + 1
    <3>1. i + 1 \in 1..n /\ (i + 1) - 1 = i /\ i + 1 # 1
      BY <1>1, <2>1
    <3>2. f.lines[i + 1].at = Upto(f, i) + 1
      BY <1>1, <3>1 DEF WellPlaced
    <3> QED BY <3>1, <3>2, <1>5
  <2>2. n # 0 => From(f, n + 1) = Upto(f, n) + 1
    BY <1>1, <1>3, <1>5, <1>6
  <2> QED BY <2>1, <2>2, <1>1
<1>9. \A i \in 1..(n + 1) : From(f, i) \in Nat /\ Upto(f, i) \in Nat /\ From(f, i) <= Upto(f, i)
  <2>1. \A i \in 1..n : From(f, i) \in Nat /\ Upto(f, i) \in Nat /\ From(f, i) <= Upto(f, i)
    BY <1>1, <1>5
  <2>2. End(f) <= Size(f)
    BY <1>1, <1>4
  <2>3. \A i \in 1..(n + 1) : i \in 1..n \/ i = n + 1
    BY <1>1
  <2> QED BY <2>1, <2>2, <2>3, <1>4, <1>6
<1>10. \A i \in 1..n : Upto(f, i) = From(f, i) + f.lines[i].size
  BY <1>5
<1> QED BY <1>4, <1>6, <1>7, <1>8, <1>9, <1>10

\* A line lies before every later one.
LEMMA Spaced ==
    ASSUME NEW f \in Files, WellPlaced(f)
    PROVE  \A i, j \in 1..(Len(f.lines) + 1) :
              i < j => Upto(f, i) < From(f, j) /\ From(f, i) < From(f, j) /\ Upto(f, i) < Upto(f, j)
<1> DEFINE n == Len(f.lines)
           U == {j \in Nat : j <= n + 1 => \A i \in 1..n : i < j => Upto(f, i) < From(f, j)}
<1>1. /\ n \in Nat
      /\ \A i \in 1..(n + 1) : From(f, i) \in Nat /\ Upto(f, i) \in Nat /\ From(f, i) <= Upto(f, i)
      /\ \A i \in 1..n : From(f, i + 1) = Upto(f, i) + 1
  BY FileShape, Places
<1>2. 0 \in U
  BY <1>1
<1>3. ASSUME NEW j \in Nat, j \in U PROVE j + 1 \in U
  <2>1. SUFFICES ASSUME j + 1 <= n + 1, NEW i \in 1..n, i < j + 1
                 PROVE  Upto(f, i) < From(f, j + 1)
    BY <1>1
  <2>2. j \in 1..n /\ From(f, j + 1) = Upto(f, j) + 1
    BY <1>1, <2>1
  <2>3. CASE i = j
    BY <2>2, <2>3, <1>1
  <2>4. CASE i < j
    <3>1. Upto(f, i) < From(f, j)
      BY <1>3, <1>1, <2>1, <2>4
    <3>2. From(f, j) <= Upto(f, j) /\ From(f, j) \in Nat /\ Upto(f, j) \in Nat /\ Upto(f, i) \in Nat
      BY <1>1, <2>2
    <3> QED BY <2>2, <3>1, <3>2
  <2> QED BY <2>1, <2>2, <2>3, <2>4, <1>1
<1>4. Nat \subseteq U
  <2> HIDE DEF U
  <2> QED BY <1>2, <1>3, Induction
<1>5. ASSUME NEW i \in 1..(n + 1), NEW j \in 1..(n + 1), i < j PROVE Upto(f, i) < From(f, j)
  <2>1. j \in U /\ i \in 1..n
    BY <1>1, <1>4, <1>5
  <2> QED BY <2>1, <1>1, <1>5
<1> QED BY <1>1, <1>5
-----------------------------------------------------------------------------
(* What a chunk carries over.                                               *)

NewlineAt(f, i, low, high) == i \in 1..Len(f.lines) /\ low <= Upto(f, i) /\ Upto(f, i) < high
NoNewline(f, low, high) == \A i \in 1..Len(f.lines) : ~NewlineAt(f, i, low, high)
FirstNewline(f, j, low, high) ==
    NewlineAt(f, j, low, high)
    /\ \A i \in 1..Len(f.lines) : NewlineAt(f, i, low, high) => Upto(f, j) <= Upto(f, i)

\* Where a carry ends: at the first newline, at the end of what was at hand, or it is given up.
LEMMA CarryCases ==
    ASSUME NEW f \in Files, WellPlaced(f), NEW low \in Nat, NEW high \in Nat, low < high
    PROVE  \/ NoNewline(f, low, high) /\ Carry(f, low, high) = high
           \/ NoNewline(f, low, high) /\ high - low > MaxLine /\ Carry(f, low, high) = low
           \/ \E j \in 1..Len(f.lines) :
                 FirstNewline(f, j, low, high) /\ Carry(f, low, high) = Upto(f, j)
           \/ \E j \in 1..Len(f.lines) :
                 FirstNewline(f, j, low, high) /\ Upto(f, j) - low > MaxLine
                 /\ Carry(f, low, high) = low
<1> DEFINE ends == {Upto(f, i) : i \in 1..Len(f.lines)} \cap low..(high - 1)
           end == IF ends = {} THEN high ELSE CHOOSE e \in ends : \A d \in ends : e <= d
<1>1. Carry(f, low, high) = IF end - low > MaxLine THEN low ELSE end
  BY DEF Carry
<1>2. CASE ends = {}
  <2>1. NoNewline(f, low, high)
    <3>1. ASSUME NEW i \in 1..Len(f.lines), NewlineAt(f, i, low, high) PROVE FALSE
      <4>1. Upto(f, i) \in low..(high - 1)
        BY <3>1, FileShape, Places DEF NewlineAt
      <4> QED BY <4>1, <1>2
    <3> QED BY <3>1 DEF NoNewline
  <2> QED BY <1>1, <1>2, <2>1
<1>3. CASE ends # {}
  <2>1. ends \in SUBSET Nat
    OBVIOUS
  <2>2. \E e \in ends : \A d \in ends : e <= d
    <3> HIDE DEF ends
    <3> QED BY <1>3, <2>1, LeastNumber
  <2>3. end \in ends /\ \A d \in ends : end <= d
    <3> HIDE DEF ends
    <3> QED BY <1>3, <2>2
  <2>4. PICK j \in 1..Len(f.lines) : end = Upto(f, j)
    BY <2>3
  <2>5. FirstNewline(f, j, low, high)
    <3>1. NewlineAt(f, j, low, high)
      <4>1. Upto(f, j) \in low..(high - 1)
        BY <2>3, <2>4
      <4> QED BY <4>1 DEF NewlineAt
    <3>2. ASSUME NEW i \in 1..Len(f.lines), NewlineAt(f, i, low, high)
          PROVE  Upto(f, j) <= Upto(f, i)
      <4>1. Upto(f, i) \in low..(high - 1)
        BY <3>2, FileShape, Places DEF NewlineAt
      <4>2. Upto(f, i) \in ends
        BY <4>1
      <4> QED BY <4>2, <2>3, <2>4
    <3> QED BY <3>1, <3>2 DEF FirstNewline
  <2> QED BY <1>1, <2>4, <2>5
<1> QED BY <1>2, <1>3

\* A carry stays within what was at hand.
LEMMA CarryRange ==
    ASSUME NEW f \in Files, WellPlaced(f), NEW low \in Nat, NEW high \in Nat, low < high
    PROVE  /\ Carry(f, low, high) \in Nat
           /\ low <= Carry(f, low, high) /\ Carry(f, low, high) <= high
<1>1. ASSUME NEW j \in 1..Len(f.lines), FirstNewline(f, j, low, high)
      PROVE  Upto(f, j) \in Nat /\ low <= Upto(f, j) /\ Upto(f, j) < high
  <2>1. j \in 1..(Len(f.lines) + 1)
    BY FileShape
  <2> QED BY <2>1, <1>1, Places DEF FirstNewline, NewlineAt
<1> QED BY <1>1, CarryCases

\* A chunk without a newline holds no piece but the one it started in; with one it does.
LEMMA PiecesOfChunk ==
    ASSUME NEW f \in Files, WellPlaced(f), NEW low \in Nat, NEW high \in Nat,
           0 < low, low < high, NoNewline(f, low, high)
    PROVE  Pieces(f, low, high) = {}
<1> SUFFICES ASSUME NEW i \in 1..(Len(f.lines) + 1), From(f, i) <= high, From(f, i) > low
             PROVE  FALSE
  BY DEF Pieces
<1>1. i # 1
  BY Places
<1>2. i - 1 \in 1..Len(f.lines) /\ (i - 1) + 1 = i
  BY <1>1, FileShape
<1>3. From(f, i) = Upto(f, i - 1) + 1 /\ Upto(f, i - 1) \in Nat
  BY <1>2, Places, FileShape
<1>4. NewlineAt(f, i - 1, low, high)
  BY <1>2, <1>3 DEF NewlineAt
<1> QED BY <1>2, <1>4 DEF NoNewline

\* The places of a file as one fact to cite.
Laid(f) ==
    /\ Len(f.lines) \in Nat /\ End(f) \in Nat /\ Size(f) \in Nat /\ f.tail \in Nat
    /\ Size(f) = End(f) + f.tail
    /\ From(f, 1) = 0
    /\ From(f, Len(f.lines) + 1) = End(f) /\ Upto(f, Len(f.lines) + 1) = Size(f)
    /\ \A i \in 1..(Len(f.lines) + 1) :
          From(f, i) \in Nat /\ Upto(f, i) \in Nat /\ From(f, i) <= Upto(f, i)
    /\ \A i \in 1..Len(f.lines) :
          f.lines[i].size \in Nat /\ Upto(f, i) = From(f, i) + f.lines[i].size
    /\ \A i, j \in 1..(Len(f.lines) + 1) :
          i < j => Upto(f, i) < From(f, j) /\ From(f, i) < From(f, j) /\ Upto(f, i) < Upto(f, j)

\* The places of a line whose predecessors are laid out are numbers, and its size lies between them.
LEMMA LineType ==
    ASSUME NEW f, Laid(f), NEW i \in 1..(Len(f.lines) + 1)
    PROVE  /\ From(f, i) \in Nat /\ Upto(f, i) \in Nat /\ From(f, i) <= Upto(f, i)
           /\ i \in 1..Len(f.lines) =>
                 f.lines[i].size \in Nat /\ Upto(f, i) = From(f, i) + f.lines[i].size
BY DEF Laid

\* Lines follow each other: what starts later is a later line.
LEMMA LaterLine ==
    ASSUME NEW f, Laid(f), NEW i \in 1..(Len(f.lines) + 1), NEW j \in 1..(Len(f.lines) + 1)
    PROVE  /\ Upto(f, i) >= From(f, j) => j <= i
           /\ i <= j => From(f, i) <= From(f, j) /\ Upto(f, i) <= Upto(f, j)
<1>1. From(f, i) \in Nat /\ Upto(f, i) \in Nat /\ From(f, j) \in Nat /\ Upto(f, j) \in Nat
  BY LineType
<1>2. i < j => Upto(f, i) < From(f, j) /\ From(f, i) < From(f, j) /\ Upto(f, i) < Upto(f, j)
  BY DEF Laid
<1> QED BY <1>1, <1>2

\* A well-placed file is laid out: the form of it the lemmas on chunks use.
LEMMA FilesAreLaid == ASSUME NEW f \in Files, WellPlaced(f) PROVE Laid(f)
BY FileShape, Places, Spaced DEF Laid

\* What is still to be read when the line at edge is carried over: a chunk later as before.
LEMMA CarryKeepsSound ==
    ASSUME NEW f \in Files, WellPlaced(f), NEW low \in Nat, NEW high \in Nat, MaxLine \in Nat,
           0 < low, low < high, NEW t \in BOOLEAN, Sound(f, high, t)
    PROVE  Sound(f, Carry(f, low, high), t /\ Pieces(f, low, high) = {})
<1> DEFINE n == Len(f.lines)
           c == Carry(f, low, high)
           u == t /\ Pieces(f, low, high) = {}
<1>1. Laid(f)
  BY FilesAreLaid
<1>2. \A i \in 1..(n + 1) : From(f, i) <= high =>
         Safe(f, i, high) \/ From(f, i) = high \/ (t /\ Bottom(f, i, high))
  BY DEF Sound, Left
<1>3. c \in Nat /\ low <= c /\ c <= high
  <2>1. ASSUME NEW j \in 1..n, FirstNewline(f, j, low, high)
        PROVE  Upto(f, j) \in Nat /\ low <= Upto(f, j) /\ Upto(f, j) < high
    BY <2>1, <1>1, LineType DEF FirstNewline, NewlineAt, Laid
  <2> QED BY <2>1, CarryCases
<1>4. ASSUME NEW i \in 1..(n + 1), Bottom(f, i, high) PROVE Bottom(f, i, c)
  <2>1. ASSUME NEW j \in Left(f, c) PROVE j \in Left(f, high)
    <3>1. j \in 1..(n + 1) /\ From(f, j) <= c
      BY DEF Left
    <3>2. From(f, j) \in Nat
      BY <3>1, <1>1, LineType
    <3> QED BY <3>1, <3>2, <1>3 DEF Left
  <2> QED BY <2>1, <1>4 DEF Bottom
<1> SUFFICES ASSUME NEW i \in 1..(n + 1), From(f, i) <= c
             PROVE  Safe(f, i, c) \/ From(f, i) = c \/ (u /\ Bottom(f, i, c))
  BY DEF Sound, Left
<1>5. From(f, i) \in Nat /\ Upto(f, i) \in Nat /\ From(f, i) <= Upto(f, i) /\ n \in Nat
  BY <1>1 DEF Laid
<1>6. CASE NoNewline(f, low, high) /\ c = high
  <2>1. Pieces(f, low, high) = {}
    BY <1>6, PiecesOfChunk
  <2> QED BY <1>2, <1>4, <1>6, <2>1
<1>7. CASE NoNewline(f, low, high) /\ high - low > MaxLine /\ c = low
  <2>1. Pieces(f, low, high) = {}
    BY <1>7, PiecesOfChunk
  <2>2. From(f, i) < high
    BY <1>5, <1>7
  <2>3. Safe(f, i, high) \/ (t /\ Bottom(f, i, high))
    BY <1>2, <1>5, <2>2
  <2>4. CASE Safe(f, i, high)
    <3>1. i \in 1..n /\ Upto(f, i) = From(f, i) + f.lines[i].size /\ f.lines[i].size \in Nat
      BY <2>4, <1>1, <1>5 DEF Safe, Laid
    <3>2. ~(low <= Upto(f, i) /\ Upto(f, i) < high)
      BY <3>1, <1>7 DEF NoNewline, NewlineAt
    <3>3. CASE Upto(f, i) < low
      BY <3>1, <3>3, <1>5, <1>7 DEF Safe
    <3>4. CASE Upto(f, i) >= high
      <4>1. f.lines[i].size > MaxLine
        BY <3>1, <3>4, <1>5, <1>7, <2>4 DEF Safe
      <4> QED BY <4>1, <3>1 DEF Safe
    <3> QED BY <3>2, <3>3, <3>4, <1>5
  <2>5. CASE t /\ Bottom(f, i, high)
    BY <2>1, <2>5, <1>4
  <2> QED BY <2>3, <2>4, <2>5
<1>8. ASSUME NEW j \in 1..n, FirstNewline(f, j, low, high), c = Upto(f, j) PROVE Safe(f, i, c)
  <2>1. j \in 1..(n + 1)
    BY <1>5
  <2>2. i <= j
    BY <1>1, <1>8, <2>1, LaterLine
  <2>3. i \in 1..n /\ Upto(f, i) <= Upto(f, j)
    BY <1>1, <2>1, <2>2, LaterLine
  <2> QED BY <1>8, <2>3 DEF Safe
<1>9. ASSUME NEW j \in 1..n, FirstNewline(f, j, low, high), Upto(f, j) - low > MaxLine, c = low
      PROVE  Safe(f, i, c) \/ From(f, i) = c
  <2>1. low <= Upto(f, j) /\ Upto(f, j) < high /\ Upto(f, j) \in Nat
    BY <1>9, <1>1, <1>5, LineType DEF FirstNewline, NewlineAt
  <2>2. j \in 1..(n + 1) /\ i <= j
    <3>1. j \in 1..(n + 1) /\ Upto(f, j) >= From(f, i)
      BY <1>5, <1>9, <2>1
    <3> QED BY <3>1, <1>1, LaterLine
  <2>3. i \in 1..n /\ Upto(f, i) <= Upto(f, j)
    BY <1>1, <2>2, LaterLine
  <2>4. Upto(f, i) = From(f, i) + f.lines[i].size /\ f.lines[i].size \in Nat
    BY <1>1, <2>3, LineType
  <2>5. CASE Upto(f, i) < low
    BY <2>3, <2>5, <1>5, <1>9 DEF Safe
  <2>6. CASE low <= Upto(f, i)
    <3>1. NewlineAt(f, i, low, high)
      BY <2>1, <2>3, <2>6, <1>5 DEF NewlineAt
    <3>2. Upto(f, j) <= Upto(f, i)
      BY <3>1, <1>9, <2>3 DEF FirstNewline
    <3>3. f.lines[i].size > MaxLine
      <4>1. From(f, i) <= low
        BY <1>9
      <4>2. Upto(f, j) - low <= Upto(f, i) - From(f, i)
        BY <4>1, <3>2, <2>1, <1>5
      <4>3. f.lines[i].size = Upto(f, i) - From(f, i)
        BY <2>4, <1>5
      <4> QED BY <4>2, <4>3, <2>1, <1>5, <1>9
    <3> QED BY <2>3, <3>3 DEF Safe
  <2> QED BY <2>5, <2>6, <1>5
<1> QED BY <1>6, <1>7, <1>8, <1>9, CarryCases

\* A line that is to be read whole is carried over whole.
LEMMA CarryKeepsLeft ==
    ASSUME NEW f \in Files, WellPlaced(f), NEW low \in Nat, NEW high \in Nat, MaxLine \in Nat,
           0 < low, low < high, NEW t \in BOOLEAN,
           NEW i \in 1..Len(f.lines), f.lines[i].size <= MaxLine,
           From(f, i) <= low, StillLeft(f, i, high, t)
    PROVE  StillLeft(f, i, Carry(f, low, high), t /\ Pieces(f, low, high) = {})
<1> DEFINE n == Len(f.lines)
           c == Carry(f, low, high)
<1>1. Laid(f) /\ n \in Nat
  BY FilesAreLaid DEF Laid
<1>2. /\ i \in 1..(n + 1) /\ From(f, i) \in Nat /\ Upto(f, i) \in Nat /\ f.lines[i].size \in Nat
      /\ Upto(f, i) = From(f, i) + f.lines[i].size /\ Upto(f, i) <= high
  BY <1>1, LineType DEF StillLeft
<1>3. Upto(f, i) <= low \/ Upto(f, i) - low <= f.lines[i].size
  BY <1>2
<1>4. ASSUME NEW j \in 1..n, FirstNewline(f, j, low, high)
      PROVE  /\ Upto(f, j) \in Nat /\ low <= Upto(f, j) /\ Upto(f, j) < high
             /\ Upto(f, i) <= Upto(f, j)
             /\ low <= Upto(f, i) => Upto(f, i) = Upto(f, j)
  <2>1. j \in 1..(n + 1) /\ Upto(f, j) \in Nat
    BY <1>1, LineType
  <2>2. low <= Upto(f, j) /\ Upto(f, j) < high
    BY <1>4 DEF FirstNewline, NewlineAt
  <2>3. i <= j
    BY <1>1, <1>2, <2>1, <2>2, LaterLine
  <2>4. Upto(f, i) <= Upto(f, j)
    BY <1>1, <1>2, <2>1, <2>3, LaterLine
  <2>5. ASSUME low <= Upto(f, i) PROVE Upto(f, j) <= Upto(f, i)
    <3>1. NewlineAt(f, i, low, high)
      BY <1>2, <2>1, <2>2, <2>4, <2>5 DEF NewlineAt
    <3> QED BY <3>1, <1>4 DEF FirstNewline
  <2> QED BY <1>2, <2>1, <2>2, <2>4, <2>5
<1>5. ASSUME NoNewline(f, low, high) PROVE low <= Upto(f, i) => Upto(f, i) = high
  <2>1. ~NewlineAt(f, i, low, high)
    BY <1>5 DEF NoNewline
  <2> QED BY <2>1, <1>2 DEF NewlineAt
<1>6. c \in Nat /\ low <= c /\ Upto(f, i) <= c
  <2>1. CASE NoNewline(f, low, high) /\ c = high
    BY <2>1, <1>2
  <2>2. CASE NoNewline(f, low, high) /\ high - low > MaxLine /\ c = low
    BY <2>2, <1>2, <1>3, <1>5
  <2>3. ASSUME NEW j \in 1..n, FirstNewline(f, j, low, high), c = Upto(f, j)
        PROVE  c \in Nat /\ low <= c /\ Upto(f, i) <= c
    BY <2>3, <1>4
  <2>4. ASSUME NEW j \in 1..n, FirstNewline(f, j, low, high), Upto(f, j) - low > MaxLine, c = low
        PROVE  c \in Nat /\ low <= c /\ Upto(f, i) <= c
    <3>1. /\ Upto(f, j) \in Nat
          /\ low <= Upto(f, i) => Upto(f, i) = Upto(f, j)
      BY <2>4, <1>4
    <3>2. Upto(f, i) <= low
      <4>1. Upto(f, j) - low > MaxLine /\ f.lines[i].size <= MaxLine
        BY <2>4
      <4>2. CASE low <= Upto(f, i)
        <5>1. Upto(f, i) - low > MaxLine
          BY <3>1, <4>1, <4>2
        <5> QED BY <4>1, <5>1, <1>2, <1>3
      <4> QED BY <4>2, <1>2
    <3> QED BY <3>2, <2>4
  <2> QED BY <2>1, <2>2, <2>3, <2>4, CarryCases
<1>7. ASSUME t /\ Pieces(f, low, high) = {} PROVE ~Bottom(f, i, c)
  <2>1. PICK j \in Left(f, high) : ~(j <= i)
    BY <1>7 DEF StillLeft, Bottom
  <2>2. j \in 1..(n + 1) /\ From(f, j) <= high /\ j \notin Pieces(f, low, high)
    BY <2>1, <1>7 DEF Left
  <2>3. ~(From(f, j) > low) /\ From(f, j) \in Nat
    BY <2>2, <1>1, LineType DEF Pieces
  <2>4. j \in Left(f, c)
    BY <2>2, <2>3, <1>6 DEF Left
  <2> QED BY <2>1, <2>4 DEF Bottom
<1> QED BY <1>6, <1>7 DEF StillLeft

\* A file as it is opened.
LEMMA OpenedIsSound ==
    ASSUME NEW f \in Files, WellPlaced(f)
    PROVE  /\ Sound(f, Size(f), Unfinished(f))
           /\ \A i \in 1..Len(f.lines) : StillLeft(f, i, Size(f), Unfinished(f))
<1> DEFINE n == Len(f.lines)
<1>1. Laid(f)
  BY FilesAreLaid
<1>2. /\ n \in Nat /\ n + 1 \in 1..(n + 1) /\ End(f) \in Nat /\ f.tail \in Nat
      /\ Size(f) = End(f) + f.tail /\ From(f, n + 1) = End(f)
  BY <1>1 DEF Laid
<1>3. ASSUME NEW i \in 1..n PROVE Upto(f, i) <= Size(f)
  <2>1. i \in 1..(n + 1) /\ i < n + 1 /\ Upto(f, i) \in Nat
    BY <1>1, <1>2, LineType
  <2>2. Upto(f, i) < From(f, n + 1)
    BY <1>1, <1>2, <2>1 DEF Laid
  <2> QED BY <1>2, <2>1, <2>2
<1>4. ASSUME NEW i \in Left(f, Size(f))
      PROVE  Safe(f, i, Size(f)) \/ From(f, i) = Size(f)
             \/ (Unfinished(f) /\ Bottom(f, i, Size(f)))
  <2>1. i \in 1..n \/ i = n + 1
    BY <1>2 DEF Left
  <2>2. CASE i \in 1..n
    BY <2>2, <1>3 DEF Safe
  <2>3. CASE i = n + 1 /\ f.tail = 0
    BY <2>3, <1>2
  <2>4. CASE i = n + 1 /\ f.tail > 0
    <3>1. Bottom(f, i, Size(f))
      BY <2>4, <1>2 DEF Bottom, Left
    <3> QED BY <3>1, <2>4 DEF Unfinished
  <2> QED BY <2>1, <2>2, <2>3, <2>4, <1>2
<1>5. ASSUME NEW i \in 1..n PROVE StillLeft(f, i, Size(f), Unfinished(f))
  <2>1. n + 1 \in Left(f, Size(f)) /\ ~(n + 1 <= i)
    BY <1>2 DEF Left
  <2> QED BY <1>3, <2>1 DEF StillLeft, Bottom
<1> QED BY <1>4, <1>5 DEF Sound

\* What may be appended to a file, and what it does to the file.
Appendable(lines) ==
    \A l \in lines : l \in Lines /\ l.at = 0 /\ (l.kind = "entry" => l.size > 0)

Extends(f, g) ==
    /\ g \in Files /\ WellPlaced(g) /\ g.fields = f.fields
    /\ \/ Len(g.lines) = Len(f.lines) /\ g.tail = 1
       \/ Len(g.lines) = Len(f.lines) + 1 /\ g.tail = 0
          /\ g.lines[Len(f.lines) + 1].at = End(f) /\ g.lines[Len(f.lines) + 1].size >= f.tail
    /\ \A i \in 1..Len(f.lines) : g.lines[i] = f.lines[i]
    /\ Size(g) >= Size(f)

\* Whatever is written to a file, its complete lines stay where they are.
LEMMA WritingExtends ==
    ASSUME NEW f \in Files, WellPlaced(f), NEW lines, Appendable(lines), NEW g \in Written(f, lines)
    PROVE  /\ Extends(f, g)
           /\ Len(g.lines) = Len(f.lines) + 1 =>
                 \E l \in lines : /\ g.lines[Len(f.lines) + 1].time = l.time
                                  /\ g.lines[Len(f.lines) + 1].kind = l.kind
<1> DEFINE n == Len(f.lines)
<1>1. Laid(f) /\ f.lines \in Seq(Lines) /\ DOMAIN f.lines = 1..n /\ f.fields \in BOOLEAN
  BY FilesAreLaid, FileShape
<1>2. n \in Nat /\ End(f) \in Nat /\ f.tail \in Nat /\ Size(f) = End(f) + f.tail
  BY <1>1 DEF Laid
<1>3. f = [lines |-> f.lines, tail |-> f.tail, fields |-> f.fields]
  BY DEF Files
<1>4. CASE f.tail = 0 /\ g = [f EXCEPT !.tail = 1]
  <2>1. g = [lines |-> f.lines, tail |-> 1, fields |-> f.fields]
    BY <1>3, <1>4
  <2>2. g.lines = f.lines /\ g.tail = 1 /\ g.fields = f.fields /\ g \in Files
    BY <2>1, <1>1 DEF Files
  <2>3. \A i \in 1..n : Upto(g, i) = Upto(f, i)
    BY <2>2, <1>1 DEF Upto
  <2>4. WellPlaced(g)
    <3> SUFFICES ASSUME NEW i \in 1..n
                 PROVE  /\ f.lines[i].at = IF i = 1 THEN 0 ELSE Upto(g, i - 1) + 1
                        /\ f.lines[i].kind = "entry" => f.lines[i].size > 0
      BY <2>2, <1>1 DEF WellPlaced
    <3>1. i # 1 => i - 1 \in 1..n
      BY <1>2
    <3> QED BY <3>1, <2>3, <1>1 DEF WellPlaced
  <2>5. End(g) = End(f) /\ Size(g) >= Size(f)
    BY <2>2, <1>2, <1>4 DEF End, Size
  <2>6. n # n + 1
    BY <1>2
  <2> QED BY <2>2, <2>4, <2>5, <2>6 DEF Extends
<1>5. ASSUME NEW l \in lines, l.size >= f.tail,
             g = [f EXCEPT !.lines = Append(@, [l EXCEPT !.at = End(f)]), !.tail = 0]
      PROVE  Extends(f, g) /\ g.lines[n + 1].time = l.time /\ g.lines[n + 1].kind = l.kind
  <2> DEFINE m == [l EXCEPT !.at = End(f)]
  <2>1. l \in Lines /\ (l.kind = "entry" => l.size > 0)
    BY DEF Appendable
  <2>2. /\ m \in Lines /\ m.at = End(f) /\ m.size = l.size /\ m.kind = l.kind /\ m.time = l.time
        /\ m.size \in Nat
    BY <2>1, <1>2 DEF Lines
  <2> HIDE DEF m
  <2>3. g = [lines |-> Append(f.lines, m), tail |-> 0, fields |-> f.fields]
    <3>1. g = [f EXCEPT !.lines = Append(f.lines, m), !.tail = 0]
      BY <1>5 DEF m
    <3> QED BY <3>1, <1>3
  <2>4. g.lines = Append(f.lines, m) /\ g.tail = 0 /\ g.fields = f.fields
    BY <2>3
  <2>5. /\ g.lines \in Seq(Lines) /\ Len(g.lines) = n + 1 /\ g.lines[n + 1] = m
        /\ \A i \in 1..n : g.lines[i] = f.lines[i]
        /\ DOMAIN g.lines = 1..(n + 1) /\ g.lines # <<>>
    BY <2>4, <2>2, <1>1, AppendProperties, LenProperties
  <2>6. g \in Files
    BY <2>3, <2>4, <2>5, <1>1 DEF Files
  <2>7. \A i \in 1..n : Upto(g, i) = Upto(f, i)
    BY <2>5, <1>2 DEF Upto
  <2>8. n # 0 => Upto(f, n) + 1 = End(f)
    <3>1. n # 0 => n \in 1..n /\ From(f, n + 1) = Upto(f, n) + 1
      BY <1>2, Places
    <3> QED BY <3>1, <1>1 DEF Laid
  <2>9. n = 0 => End(f) = 0
    BY <1>1, EmptySeq DEF End
  <2>10. WellPlaced(g)
    <3> SUFFICES ASSUME NEW i \in 1..(n + 1)
                 PROVE  /\ g.lines[i].at = IF i = 1 THEN 0 ELSE Upto(g, i - 1) + 1
                        /\ g.lines[i].kind = "entry" => g.lines[i].size > 0
      BY <2>5 DEF WellPlaced
    <3>1. i # 1 => i - 1 \in 1..n
      BY <1>2
    <3>2. CASE i \in 1..n
      BY <3>1, <3>2, <2>5, <2>7, <1>1 DEF WellPlaced
    <3>3. CASE i = n + 1
      BY <3>3, <3>1, <2>1, <2>2, <2>5, <2>7, <2>8, <2>9, <1>2
    <3> QED BY <3>2, <3>3, <1>2
  <2>11. Size(g) >= Size(f)
    <3>1. End(g) = End(f) + m.size + 1
      BY <2>5, <2>2 DEF End, Last
    <3> QED BY <3>1, <2>2, <2>4, <1>2, <1>5 DEF Size
  <2> QED BY <2>2, <2>4, <2>5, <2>6, <2>10, <2>11, <1>5 DEF Extends
<1>6. \/ f.tail = 0 /\ g = [f EXCEPT !.tail = 1]
      \/ \E l \in lines : /\ l.size >= f.tail
                          /\ g = [f EXCEPT !.lines = Append(@, [l EXCEPT !.at = End(f)]), !.tail = 0]
  BY DEF Written
<1>7. Len(g.lines) = n + 1 => ~(f.tail = 0 /\ g = [f EXCEPT !.tail = 1])
  <2>1. g = [f EXCEPT !.tail = 1] => g.lines = f.lines
    BY <1>3
  <2> QED BY <2>1, <1>2
<1> QED BY <1>4, <1>5, <1>6, <1>7

\* What was there before is where it was; what is new lies beyond.
LEMMA SamePlaces ==
    ASSUME NEW f \in Files, WellPlaced(f), NEW g, Extends(f, g), NEW high \in Nat, high <= Size(f)
    PROVE  /\ \A i \in 1..Len(f.lines) :
                 /\ i \in 1..Len(g.lines) /\ g.lines[i] = f.lines[i]
                 /\ From(g, i) = From(f, i) /\ Upto(g, i) = Upto(f, i)
           /\ From(g, Len(f.lines) + 1) = From(f, Len(f.lines) + 1)
           /\ Left(g, high) = Left(f, high)
<1> DEFINE n == Len(f.lines)
<1>1. Laid(f) /\ Laid(g) /\ g \in Files
  BY FilesAreLaid DEF Extends
<1>2. /\ n \in Nat /\ Len(g.lines) \in {n, n + 1} /\ Len(g.lines) \in Nat
      /\ End(f) \in Nat /\ f.tail \in Nat /\ Size(f) = End(f) + f.tail
  BY <1>1 DEF Laid, Extends
<1>3. ASSUME NEW i \in 1..n
      PROVE  /\ i \in 1..Len(g.lines) /\ g.lines[i] = f.lines[i]
             /\ From(g, i) = From(f, i) /\ Upto(g, i) = Upto(f, i)
  BY <1>2 DEF Extends, From, Upto
<1>4. From(g, n + 1) = From(f, n + 1) /\ From(f, n + 1) = End(f)
  <2>0. From(f, n + 1) = End(f) /\ From(g, Len(g.lines) + 1) = End(g)
    BY <1>1 DEF Laid
  <2>1. CASE Len(g.lines) = n + 1
    <3>1. g.lines[n + 1].at = End(f)
      BY <2>1, <1>2 DEF Extends
    <3> QED BY <3>1, <2>0, <2>1, <1>2 DEF From
  <2>2. CASE Len(g.lines) = n /\ n # 0
    <3>1. n \in 1..n
      BY <1>2, <2>2
    <3>2. From(f, n + 1) = Upto(f, n) + 1
      BY <3>1, Places
    <3>3. From(g, n + 1) = Upto(g, n) + 1
      BY <3>1, <1>1, <2>2, Places DEF Extends
    <3> QED BY <3>1, <3>2, <3>3, <1>3, <2>0
  <2>3. CASE Len(g.lines) = n /\ n = 0
    <3>1. From(f, 1) = 0 /\ From(g, 1) = 0
      BY <1>1 DEF Laid
    <3> QED BY <3>1, <2>0, <2>3
  <2> QED BY <2>1, <2>2, <2>3, <1>2
<1>5. ASSUME Len(g.lines) = n + 1 PROVE From(g, n + 2) > high
  <2>1. /\ g.lines[n + 1].size >= f.tail /\ g.lines[n + 1].size \in Nat
        /\ Upto(g, n + 1) = From(g, n + 1) + g.lines[n + 1].size
    <3>1. n + 1 \in 1..Len(g.lines) /\ n + 1 \in 1..(Len(g.lines) + 1)
      BY <1>2, <1>5
    <3>2. g.lines[n + 1].size >= f.tail
      BY <1>5, <1>2 DEF Extends
    <3> QED BY <3>1, <3>2, <1>1, LineType
  <2>2. From(g, n + 2) = Upto(g, n + 1) + 1
    <3>1. n + 1 \in 1..Len(g.lines) /\ (n + 1) + 1 = n + 2
      BY <1>2, <1>5
    <3> QED BY <3>1, <1>1, Places DEF Extends
  <2> QED BY <2>1, <2>2, <1>2, <1>4
<1>6. Left(g, high) = Left(f, high)
  <2>1. ASSUME NEW i \in 1..(n + 1) PROVE i \in 1..(Len(g.lines) + 1) /\ From(g, i) = From(f, i)
    BY <2>1, <1>2, <1>3, <1>4
  <2>2. ASSUME NEW i \in 1..(Len(g.lines) + 1), i \notin 1..(n + 1) PROVE ~(From(g, i) <= high)
    <3>1. Len(g.lines) = n + 1 /\ i = n + 2
      BY <2>2, <1>2
    <3>2. From(g, i) \in Nat
      BY <1>1, LineType
    <3> QED BY <3>1, <3>2, <1>5
  <2> QED BY <2>1, <2>2 DEF Left
<1> QED BY <1>3, <1>4, <1>6

\* A file that grows changes nothing for a scan that is under way.
LEMMA GrowthKeeps ==
    ASSUME NEW f \in Files, WellPlaced(f), NEW g, Extends(f, g), NEW high \in Nat, high <= Size(f),
           NEW t \in BOOLEAN
    PROVE  /\ Sound(f, high, t) => Sound(g, high, t)
           /\ \A i \in 1..Len(f.lines) : StillLeft(f, i, high, t) => StillLeft(g, i, high, t)
<1>1. Left(g, high) = Left(f, high)
  BY SamePlaces
<1>2. \A i : Bottom(g, i, high) <=> Bottom(f, i, high)
  BY <1>1 DEF Bottom
<1>3. \A i \in 1..Len(f.lines) : StillLeft(f, i, high, t) => StillLeft(g, i, high, t)
  BY <1>2, SamePlaces DEF StillLeft
<1>4. ASSUME Sound(f, high, t), NEW i \in Left(g, high)
      PROVE  Safe(g, i, high) \/ From(g, i) = high \/ (t /\ Bottom(g, i, high))
  <2>1. i \in Left(f, high) /\ i \in 1..(Len(f.lines) + 1)
    BY <1>1 DEF Left
  <2>2. Safe(f, i, high) \/ From(f, i) = high \/ (t /\ Bottom(f, i, high))
    BY <1>4, <2>1 DEF Sound
  <2>3. Len(f.lines) \in Nat
    BY FileShape
  <2>4. Safe(f, i, high) => Safe(g, i, high)
    <3>1. Safe(f, i, high) => i \in 1..Len(f.lines)
      BY <2>1, <2>3 DEF Safe
    <3> QED BY <3>1, SamePlaces DEF Safe
  <2>5. From(g, i) = From(f, i)
    <3>1. i \in 1..Len(f.lines) \/ i = Len(f.lines) + 1
      BY <2>1, <2>3
    <3> QED BY <3>1, SamePlaces
  <2> QED BY <2>2, <2>4, <2>5, <1>2
<1> QED BY <1>3, <1>4 DEF Sound
-----------------------------------------------------------------------------
(* The order of time is kept by the programs that write.                    *)

Same(files, more, k, i) ==
    /\ k \in DOMAIN files /\ i \in DOMAIN files[k].lines
    /\ more[k].lines[i] = files[k].lines[i]
After(k, i, m, j) == k < m \/ (k = m /\ i < j)
Recent(more, k, i) ==
    \A m \in DOMAIN more : \A j \in DOMAIN more[m].lines :
        After(k, i, m, j) => more[m].lines[j].time >= Now

\* The order of time is kept, if what is new is written after everything else.
LEMMA OrderGrows ==
    ASSUME NEW files, NEW more, InOrder(files), Now \in Nat,
           \A k \in DOMAIN more :
              \/ Modified(more[k]) \in Nat /\ Modified(more[k]) >= Now
              \/ k \in DOMAIN files /\ more[k] = files[k],
           \A k \in DOMAIN more : \A i \in DOMAIN more[k].lines :
              /\ more[k].lines[i].time \in Nat
              /\ Same(files, more, k, i) \/ (more[k].lines[i].time >= Now /\ Recent(more, k, i))
    PROVE  InOrder(more)
<1>1. ASSUME NEW k \in DOMAIN more, NEW i \in DOMAIN more[k].lines
      PROVE  /\ Clocked(more[k].lines[i]) \in Nat /\ Clocked(more[k].lines[i]) <= Now
             /\ more[k].lines[i].time >= Now => Clocked(more[k].lines[i]) = Now
  BY DEF Clocked, LowerOf
<1>2. ASSUME NEW k \in DOMAIN more, NEW i \in DOMAIN more[k].lines,
             more[k].lines[i].kind = "entry"
      PROVE  Clocked(more[k].lines[i]) <= Modified(more[k])
  <2>1. CASE Modified(more[k]) \in Nat /\ Modified(more[k]) >= Now
    BY <2>1, <1>1
  <2>2. CASE k \in DOMAIN files /\ more[k] = files[k]
    BY <2>2, <1>2 DEF InOrder
  <2> QED BY <2>1, <2>2
<1>3. ASSUME NEW k \in DOMAIN more, NEW i \in DOMAIN more[k].lines,
             more[k].lines[i].kind = "entry",
             NEW m \in DOMAIN more, NEW j \in DOMAIN more[m].lines,
             more[m].lines[j].kind = "entry", After(k, i, m, j)
      PROVE  Clocked(more[k].lines[i]) <= Clocked(more[m].lines[j])
  <2>1. CASE more[m].lines[j].time >= Now
    BY <2>1, <1>1
  <2>2. CASE ~(more[m].lines[j].time >= Now)
    <3>1. Same(files, more, m, j)
      BY <2>2
    <3>2. ~Recent(more, k, i)
      BY <2>2, <1>3 DEF Recent
    <3>3. Same(files, more, k, i)
      BY <3>2
    <3> QED BY <3>1, <3>3, <1>3 DEF Same, InOrder, After
  <2> QED BY <2>1, <2>2
<1> QED BY <1>2, <1>3 DEF InOrder, After

\* One more write to the last file of a directory.
LEMMA WritingKeeps ==
    ASSUME NEW files, WellKept(files), NEW lines, Appendable(lines),
           NEW g \in Written(files[Len(files)], lines),
           NEW more, more = [files EXCEPT ![Len(files)] = g]
    PROVE  /\ WellKept(more) /\ Len(more) = Len(files) /\ DOMAIN more = DOMAIN files
           /\ \A k \in DOMAIN files : more[k] = files[k] \/ Extends(files[k], more[k])
           /\ InOrder(files) /\ (\A l \in lines : l.time >= Now) => InOrder(more)
<1> DEFINE n == Len(files)
<1>1. n \in Nat /\ DOMAIN files = 1..n /\ \A k \in 1..n : files[k] \in Files /\ WellPlaced(files[k])
  BY DEF WellKept
<1>2. CASE n = 0
  <2>1. more = files
    BY <1>1, <1>2
  <2> QED BY <2>1
<1>3. CASE n # 0
  <2>1. n \in 1..n
    BY <1>1, <1>3
  <2>2. Extends(files[n], g)
    BY <1>1, <2>1, WritingExtends
  <2>3. /\ more \in Seq(Files) /\ Len(more) = n /\ DOMAIN more = 1..n /\ more[n] = g
        /\ \A k \in 1..n : k # n => more[k] = files[k]
    <3>1. g \in Files /\ files \in Seq(Files)
      BY <2>2 DEF Extends, WellKept
    <3> QED BY <3>1, <2>1, <1>1, ExceptSeq, LenProperties
  <2>4. WellKept(more)
    BY <2>2, <2>3, <1>1 DEF WellKept, Extends
  <2>5. \A k \in DOMAIN files : more[k] = files[k] \/ Extends(files[k], more[k])
    BY <2>2, <2>3, <1>1
  <2>6. ASSUME InOrder(files), \A l \in lines : l.time >= Now PROVE InOrder(more)
    <3> DEFINE f == files[n]
    <3>0. Now \in Nat
      BY LogAssumption
    <3>1. \A k \in 1..n : /\ Len(more[k].lines) \in Nat /\ DOMAIN more[k].lines = 1..Len(more[k].lines)
                          /\ more[k].tail \in Nat
                          /\ \A i \in 1..Len(more[k].lines) : more[k].lines[i].time \in Nat
      <4> SUFFICES ASSUME NEW k \in 1..n
                   PROVE  /\ Len(more[k].lines) \in Nat
                          /\ DOMAIN more[k].lines = 1..Len(more[k].lines)
                          /\ more[k].tail \in Nat
                          /\ \A i \in 1..Len(more[k].lines) : more[k].lines[i].time \in Nat
        OBVIOUS
      <4>1. more[k] \in Files
        BY <2>3
      <4> QED BY <4>1, FileShape
    <3>2. f \in Files /\ Len(f.lines) \in Nat /\ DOMAIN f.lines = 1..Len(f.lines)
      BY <1>1, <2>1, FileShape
    <3>3. Len(g.lines) = Len(f.lines) + 1 => g.lines[Len(f.lines) + 1].time >= Now
      BY <1>1, <2>1, <2>6, WritingExtends
    <3>4. Modified(g) \in Nat /\ Modified(g) >= Now
      <4>1. CASE Len(g.lines) = Len(f.lines) /\ g.tail = 1
        <5>1. Modified(g) = Now
          BY <4>1, <3>2 DEF Modified, LineAt
        <5> QED BY <5>1, <3>0
      <4>2. CASE Len(g.lines) = Len(f.lines) + 1 /\ g.tail = 0
        <5>1. Modified(g) = g.lines[Len(f.lines) + 1].time
          BY <4>2, <3>2 DEF Modified, LineAt
        <5>2. Len(f.lines) + 1 \in 1..Len(more[n].lines)
          BY <4>2, <3>2, <2>3
        <5>3. more[n].lines[Len(f.lines) + 1].time \in Nat
          BY <5>2, <3>1, <2>1
        <5> QED BY <5>1, <5>3, <3>3, <4>2, <2>3
      <4> QED BY <4>1, <4>2, <2>2 DEF Extends
    <3>5. \A k \in DOMAIN more : \/ Modified(more[k]) \in Nat /\ Modified(more[k]) >= Now
                                 \/ k \in DOMAIN files /\ more[k] = files[k]
      BY <3>4, <2>3, <1>1
    <3>6. ASSUME NEW k \in 1..n, NEW i \in 1..Len(more[k].lines)
          PROVE  /\ more[k].lines[i].time \in Nat
                 /\ \/ Same(files, more, k, i)
                    \/ more[k].lines[i].time >= Now /\ Recent(more, k, i)
      <4>1. more[k].lines[i].time \in Nat
        BY <3>1
      <4>2. CASE k # n
        <5>1. more[k] = files[k]
          BY <4>2, <2>3
        <5> QED BY <4>1, <5>1, <1>1, <3>1 DEF Same
      <4>3. CASE k = n /\ i \in 1..Len(f.lines)
        BY <4>1, <4>3, <2>2, <2>3, <1>1, <3>2 DEF Same, Extends
      <4>4. CASE k = n /\ i \notin 1..Len(f.lines)
        <5>1. Len(g.lines) = Len(f.lines) + 1 /\ i = Len(f.lines) + 1
          BY <4>4, <2>2, <2>3, <3>2 DEF Extends
        <5>2. Recent(more, k, i)
          <6> SUFFICES ASSUME NEW m \in 1..n, NEW j \in 1..Len(more[m].lines), After(k, i, m, j)
                       PROVE  FALSE
            BY <2>3, <3>1 DEF Recent
          <6> QED BY <5>1, <4>4, <2>3, <3>2, <1>1 DEF After
        <5> QED BY <4>1, <4>4, <5>1, <5>2, <3>3, <2>3
      <4> QED BY <4>2, <4>3, <4>4
    <3>7. \A k \in DOMAIN more : \A i \in DOMAIN more[k].lines :
             /\ more[k].lines[i].time \in Nat
             /\ Same(files, more, k, i) \/ (more[k].lines[i].time >= Now /\ Recent(more, k, i))
      BY <3>1, <3>6, <2>3
    <3> QED BY <2>6, <3>0, <3>5, <3>7, OrderGrows
  <2> QED BY <2>3, <2>4, <2>5, <2>6, <1>1
<1> QED BY <1>2, <1>3

\* A new file after the last one.
Rotated(files, l) == Append(files, Fresh(l))
\* A new file changes none of the others.
LEMMA RotatingKeeps ==
    ASSUME NEW files, WellKept(files), NEW lines, Appendable(lines), NEW l \in lines
    PROVE  /\ WellKept(Rotated(files, l)) /\ Len(Rotated(files, l)) = Len(files) + 1
           /\ \A k \in DOMAIN files :
                 k \in DOMAIN Rotated(files, l) /\ Rotated(files, l)[k] = files[k]
           /\ InOrder(files) /\ l.time >= Now => InOrder(Rotated(files, l))
<1> DEFINE n == Len(files)
           f == Fresh(l)
           more == Rotated(files, l)
<1>m. more = Append(files, f)
  BY DEF Rotated
<1>1. n \in Nat /\ DOMAIN files = 1..n /\ \A k \in 1..n : files[k] \in Files /\ WellPlaced(files[k])
  BY DEF WellKept
<1>2. l \in Lines /\ l.at = 0 /\ (l.kind = "entry" => l.size > 0) /\ l.time \in Nat
  BY DEF Appendable, Lines
<1>3. f = [lines |-> <<l>>, tail |-> 0, fields |-> TRUE] /\ f.lines = <<l>>
  BY DEF Fresh
<1>4. /\ f \in Files /\ DOMAIN f.lines = 1..1 /\ f.lines[1] = l /\ Len(f.lines) = 1 /\ f.tail = 0
  BY <1>2, <1>3 DEF Files
<1>5. WellPlaced(f)
  BY <1>2, <1>4 DEF WellPlaced
<1> HIDE DEF f, more
<1>6. /\ more \in Seq(Files) /\ Len(more) = n + 1 /\ DOMAIN more = 1..(n + 1) /\ more[n + 1] = f
      /\ \A k \in 1..n : more[k] = files[k]
  BY <1>m, <1>1, <1>4, AppendProperties, LenProperties DEF WellKept
<1>7. WellKept(more)
  <2>1. ASSUME NEW k \in 1..(n + 1) PROVE WellPlaced(more[k])
    <3>1. k \in 1..n \/ k = n + 1
      BY <1>1
    <3> QED BY <3>1, <1>1, <1>5, <1>6
  <2> QED BY <2>1, <1>6 DEF WellKept
<1>8. ASSUME InOrder(files), l.time >= Now PROVE InOrder(more)
  <2>1. Now \in Nat
    BY LogAssumption
  <2>2. Modified(f) = l.time
    BY <1>4 DEF Modified, LineAt
  <2>3. \A k \in DOMAIN more : \/ Modified(more[k]) \in Nat /\ Modified(more[k]) >= Now
                               \/ k \in DOMAIN files /\ more[k] = files[k]
    <3>1. ASSUME NEW k \in DOMAIN more PROVE k \in 1..n \/ k = n + 1
      BY <1>1, <1>6
    <3> QED BY <3>1, <2>2, <1>1, <1>2, <1>6, <1>8
  <2>4. ASSUME NEW k \in DOMAIN more, NEW i \in DOMAIN more[k].lines
        PROVE  /\ more[k].lines[i].time \in Nat
               /\ Same(files, more, k, i) \/ (more[k].lines[i].time >= Now /\ Recent(more, k, i))
    <3>1. CASE k \in 1..n
      <4>1. more[k] = files[k] /\ files[k] \in Files
        BY <3>1, <1>1, <1>6
      <4>2. more[k].lines[i].time \in Nat
        BY <4>1, FileShape
      <4> QED BY <3>1, <4>1, <4>2, <1>1 DEF Same
    <3>2. CASE k = n + 1
      <4>1. i = 1 /\ more[k].lines[i] = l
        BY <3>2, <1>4, <1>6
      <4>2. Recent(more, k, i)
        <5> SUFFICES ASSUME NEW m \in DOMAIN more, NEW j \in DOMAIN more[m].lines, After(k, i, m, j)
                     PROVE  FALSE
          BY DEF Recent
        <5>1. ~(k < m)
          BY <3>2, <1>1, <1>6
        <5>2. m = k => j = 1
          BY <3>2, <1>4, <1>6
        <5> QED BY <5>1, <5>2, <4>1 DEF After
      <4> QED BY <4>1, <4>2, <1>2, <1>8
    <3> QED BY <3>1, <3>2, <1>1, <1>6
  <2> QED BY <2>1, <2>3, <2>4, <1>8, OrderGrows
<1> QED BY <1>1, <1>6, <1>7, <1>8 DEF more
-----------------------------------------------------------------------------
(* What a chunk gives.                                                      *)

\* Every set of numbers that has a bound and is not empty has a greatest member.
LEMMA GreatestNumber ==
    ASSUME NEW b \in Nat, NEW T \in SUBSET (0..b), T # {}
    PROVE  Max(T) \in T /\ \A k \in T : k <= Max(T)
<1> DEFINE U == {k \in 0..b : b - k \in T}
<1>1. PICK n \in T : TRUE
  OBVIOUS
<1>2. \A k \in T : k \in 0..b /\ b - k \in 0..b /\ b - (b - k) = k
  OBVIOUS
<1>3. b - n \in U /\ U \in SUBSET Nat
  BY <1>1, <1>2
<1>4. PICK m \in U : \A k \in U : m <= k
  <2> HIDE DEF U
  <2> QED BY <1>3, LeastNumber
<1>5. b - m \in T /\ m \in 0..b
  BY <1>4
<1>6. ASSUME NEW k \in T PROVE b - m >= k
  <2>1. b - k \in U
    BY <1>2
  <2>2. m <= b - k
    BY <2>1, <1>4
  <2> QED BY <2>2, <1>2, <1>5
<1>7. \E x \in T : \A y \in T : x >= y
  BY <1>5, <1>6
<1>8. Max(T) \in T /\ \A y \in T : Max(T) >= y
  BY <1>7 DEF Max
<1> QED BY <1>2, <1>8

Dropped(pieces, t) == IF t /\ pieces # {} THEN pieces \ {Max(pieces)} ELSE pieces
LinesOfChunk(f, low, high, t) == Dropped(Pieces(f, low, high), t)

\* The pieces of a chunk are lines of the file, or the one under way behind them.
LEMMA PiecesType ==
    ASSUME NEW f \in Files, NEW low \in Nat, NEW high \in Nat, NEW t \in BOOLEAN
    PROVE  /\ Len(f.lines) + 1 \in Nat
           /\ Pieces(f, low, high) \subseteq Left(f, high)
           /\ Pieces(f, low, high) \in SUBSET (0..(Len(f.lines) + 1))
           /\ LinesOfChunk(f, low, high, t) \subseteq Pieces(f, low, high)
           /\ LinesOfChunk(f, low, high, t) \in SUBSET (1..(Len(f.lines) + 1))
<1>1. Len(f.lines) \in Nat
  BY FileShape
<1> QED BY <1>1 DEF Pieces, Left, LinesOfChunk, Dropped

\* A line that parses is a whole one, or longer than a line may be.
LEMMA ReadsWhole ==
    ASSUME NEW f \in Files, WellPlaced(f), NEW low \in Nat, NEW high \in Nat, NEW t \in BOOLEAN,
           Sound(f, high, t), NEW i \in LinesOfChunk(f, low, high, t), Parses(f, i, high)
    PROVE  /\ i \in 1..Len(f.lines) /\ LineAt(f, i) = f.lines[i] /\ f.lines[i].kind = "entry"
           /\ IsWhole(IisRecord(f, i, high))
<1> DEFINE pieces == Pieces(f, low, high)
<1>1. i \in pieces /\ i \in Left(f, high) /\ i \in 1..(Len(f.lines) + 1) /\ Len(f.lines) \in Nat
  BY PiecesType, FileShape
<1>2. Safe(f, i, high) \/ From(f, i) = high \/ (t /\ Bottom(f, i, high))
  BY <1>1 DEF Sound
<1>3. From(f, i) \in Nat /\ Upto(f, i) \in Nat /\ From(f, i) <= Upto(f, i)
  BY <1>1, FilesAreLaid, LineType
<1>4. From(f, i) # high
  <2>1. LowerOf(Upto(f, i), high) - From(f, i) \in 1..MaxLine
    BY DEF Parses
  <2> QED BY <2>1, <1>3 DEF LowerOf
<1>5. ~(t /\ Bottom(f, i, high))
  <2> SUFFICES ASSUME t, Bottom(f, i, high) PROVE FALSE
    OBVIOUS
  <2>1. \A j \in pieces : j <= i
    BY PiecesType DEF Bottom
  <2>2. Max(pieces) \in pieces /\ i <= Max(pieces)
    BY <1>1, PiecesType, GreatestNumber
  <2>3. Max(pieces) = i
    <3>1. pieces \in SUBSET Nat
      <4>1. pieces \in SUBSET (0..(Len(f.lines) + 1))
        BY PiecesType
      <4> HIDE DEF pieces
      <4> QED BY <4>1, <1>1
    <3>2. Max(pieces) \in Nat
      BY <2>2, <3>1
    <3> QED BY <3>2, <2>1, <2>2, <1>1
  <2> QED BY <2>3, <1>1 DEF LinesOfChunk, Dropped
<1>6. Safe(f, i, high)
  BY <1>2, <1>4, <1>5
<1>7. i \in 1..Len(f.lines) /\ LineAt(f, i) = f.lines[i]
  BY <1>6, <1>1 DEF Safe, LineAt
<1>8. f.lines[i].kind = "entry"
  BY <1>7 DEF Parses
<1>9. IsWhole(IisRecord(f, i, high))
  BY <1>6, <1>7 DEF IsWhole, IisRecord, Safe
<1> QED BY <1>7, <1>8, <1>9

\* A line that is to be read whole is read once the chunk reaches its start.
LEMMA LeftIsRead ==
    ASSUME NEW f \in Files, WellPlaced(f), NEW low \in Nat, NEW high \in Nat, NEW t \in BOOLEAN,
           MaxLine \in Nat,
           NEW i \in 1..Len(f.lines), f.lines[i].kind = "entry", f.lines[i].size <= MaxLine,
           StillLeft(f, i, high, t), From(f, i) > low \/ low = 0
    PROVE  i \in LinesOfChunk(f, low, high, t) /\ Parses(f, i, high)
<1> DEFINE pieces == Pieces(f, low, high)
<1>1. /\ Laid(f) /\ Len(f.lines) \in Nat /\ i \in 1..(Len(f.lines) + 1)
      /\ DOMAIN f.lines = 1..Len(f.lines)
  BY FilesAreLaid, FileShape
<1>2. /\ From(f, i) \in Nat /\ Upto(f, i) \in Nat /\ f.lines[i].size \in Nat
      /\ Upto(f, i) = From(f, i) + f.lines[i].size
  BY <1>1, LineType
<1>3. Upto(f, i) <= high /\ (t => ~Bottom(f, i, high))
  BY DEF StillLeft
<1>4. f.lines[i].size > 0
  BY <1>1 DEF WellPlaced
<1>5. Parses(f, i, high)
  <2>1. LineAt(f, i) = f.lines[i]
    BY <1>1 DEF LineAt
  <2>2. LowerOf(Upto(f, i), high) = Upto(f, i)
    BY <1>2, <1>3 DEF LowerOf
  <2>3. Upto(f, i) - From(f, i) \in 1..MaxLine
    BY <1>2, <1>4
  <2> QED BY <2>1, <2>2, <2>3, <1>3 DEF Parses
<1>6. i \in pieces
  BY <1>1, <1>2, <1>3 DEF Pieces
<1>7. CASE t
  <2>1. PICK j \in Left(f, high) : ~(j <= i)
    BY <1>3, <1>7 DEF Bottom
  <2>2. j \in 1..(Len(f.lines) + 1) /\ From(f, j) <= high /\ i < j
    BY <2>1, <1>1 DEF Left
  <2>3. From(f, i) <= From(f, j) /\ From(f, j) \in Nat
    BY <2>2, <1>1, LaterLine, LineType
  <2>4. j \in pieces
    BY <2>2, <2>3, <1>2 DEF Pieces
  <2>5. j <= Max(pieces)
    BY <2>4, PiecesType, GreatestNumber
  <2>6. Max(pieces) # i
    BY <2>2, <2>5
  <2> QED BY <2>6, <1>5, <1>6 DEF LinesOfChunk, Dropped
<1>8. CASE ~t
  BY <1>8, <1>5, <1>6 DEF LinesOfChunk, Dropped
<1> QED BY <1>7, <1>8

\* The highest of a set of numbers.
LEMMA ListingOf ==
    ASSUME NEW b \in Nat, NEW S \in SUBSET (0..b), NEW most \in Nat
    PROVE  /\ IsFiniteSet(S) /\ Cardinality(S) \in Nat
           /\ Beyond(S, most) \in Nat
           /\ Listing(S, most) \in Seq(S)
           /\ Len(Listing(S, most)) = LowerOf(most, Cardinality(S))
           /\ LowerOf(most, Cardinality(S)) \in Nat
           /\ \A k \in 1..LowerOf(most, Cardinality(S)) :
                 Listing(S, most)[k] = Descending(S)[k] /\ Descending(S)[k] \in S
           /\ \A k, m \in 1..LowerOf(most, Cardinality(S)) :
                 k < m => Descending(S)[k] > Descending(S)[m]
           /\ \A c \in S : \/ \E k \in 1..LowerOf(most, Cardinality(S)) : Descending(S)[k] = c
                           \/ /\ Beyond(S, most) > 0 /\ Cardinality(S) > most
                              /\ \A k \in 1..LowerOf(most, Cardinality(S)) : Descending(S)[k] > c
<1>1. IsFiniteSet(S) /\ S \in SUBSET Nat
  <2>1. IsFiniteSet(0..b)
    BY FS_Interval
  <2>2. IsFiniteSet(S)
    BY <2>1, FS_Subset
  <2> QED BY <2>2
<1> DEFINE n == Cardinality(S)
           m == LowerOf(most, n)
<1>2. /\ n \in Nat
      /\ \A k \in 1..n : Descending(S)[k] \in S
      /\ \A c \in S : \E k \in 1..n : Descending(S)[k] = c
      /\ \A k, q \in 1..n : k < q => Descending(S)[k] > Descending(S)[q]
  BY <1>1, DescendingOrder
<1>3. m \in Nat /\ m <= n /\ m <= most /\ (m = n \/ (m = most /\ n > most))
  BY <1>2 DEF LowerOf
<1>4. Listing(S, most) = [k \in 1..m |-> Descending(S)[k]]
  BY DEF Listing
<1>5. Beyond(S, most) \in Nat /\ (n > most => Beyond(S, most) > 0)
  BY <1>2 DEF Beyond
<1>6. 1..m \subseteq 1..n
  BY <1>2, <1>3
<1> HIDE DEF m
<1>7. Listing(S, most) \in Seq(S) /\ Len(Listing(S, most)) = m
  BY <1>2, <1>3, <1>4, <1>6
<1>8. ASSUME NEW c \in S
      PROVE  \/ \E k \in 1..m : Descending(S)[k] = c
             \/ /\ Beyond(S, most) > 0 /\ n > most
                /\ \A k \in 1..m : Descending(S)[k] > c
  <2>1. PICK q \in 1..n : Descending(S)[q] = c
    BY <1>2
  <2>2. CASE q <= m
    BY <2>1, <2>2, <1>3
  <2>3. CASE q > m
    <3>1. n > most
      BY <2>1, <2>3, <1>2, <1>3
    <3>2. \A k \in 1..m : Descending(S)[k] > c
      BY <2>1, <2>3, <1>2, <1>3, <1>6
    <3> QED BY <3>1, <3>2, <1>5
  <2> QED BY <2>2, <2>3, <1>2, <1>3
<1> QED BY <1>1, <1>2, <1>3, <1>4, <1>5, <1>6, <1>7, <1>8 DEF m

\* The records a chunk adds.
LEMMA BackwardsOf ==
    ASSUME NEW f \in Files, NEW lines \in SUBSET (1..Len(f.lines)), NEW room \in Nat, NEW high \in Nat
    PROVE  LET rs == Backwards(f, lines, room, high)
               few == LowerOf(room, Cardinality(lines))
           IN  /\ Cardinality(lines) \in Nat /\ few \in Nat
               /\ DOMAIN rs = 1..few /\ rs \in Seq(LogRecords) /\ Len(rs) = few
               /\ \A k \in 1..few : \E i \in lines : rs[k] = IisRecord(f, i, high)
               /\ \A i \in lines :
                     \/ \E k \in 1..few : rs[k] = IisRecord(f, i, high)
                     \/ /\ Cardinality(lines) > room
                        /\ \A k \in 1..few : \E j \in lines : j > i /\ rs[k] = IisRecord(f, j, high)
<1> DEFINE rs == Backwards(f, lines, room, high)
           few == LowerOf(room, Cardinality(lines))
<1>0. Len(f.lines) \in Nat
  BY FileShape
<1>1. /\ Cardinality(lines) \in Nat /\ few \in Nat
      /\ \A k \in 1..few : Descending(lines)[k] \in lines
      /\ \A c \in lines : \/ \E k \in 1..few : Descending(lines)[k] = c
                          \/ /\ Cardinality(lines) > room
                             /\ \A k \in 1..few : Descending(lines)[k] > c
  <2>1. lines \in SUBSET (0..Len(f.lines))
    BY <1>0
  <2> QED BY <1>0, <2>1, ListingOf
<1>2. rs = [k \in 1..few |-> IisRecord(f, Descending(lines)[k], high)]
  BY DEF Backwards
<1>3. \A i \in lines : IisRecord(f, i, high) \in LogRecords
  <2> SUFFICES ASSUME NEW i \in lines PROVE IisRecord(f, i, high) \in LogRecords
    OBVIOUS
  <2>1. i \in 1..Len(f.lines) /\ LineAt(f, i) = f.lines[i]
    BY <1>0 DEF LineAt
  <2>2. f.lines[i].time \in Nat /\ f.lines[i].what \in Nat /\ f.lines[i].size \in Nat
    BY <2>1, FileShape
  <2> QED BY <2>1, <2>2 DEF IisRecord, LogRecords
<1> HIDE DEF few
<1>4. rs \in Seq(LogRecords) /\ Len(rs) = few /\ DOMAIN rs = 1..few
  <2>1. \A k \in 1..few : IisRecord(f, Descending(lines)[k], high) \in LogRecords
    BY <1>1, <1>3
  <2>2. rs \in [1..few -> LogRecords]
    BY <1>2, <2>1
  <2> HIDE DEF rs
  <2> QED BY <1>1, <2>2, SeqDef, LenProperties
<1>5. \A k \in 1..few : rs[k] = IisRecord(f, Descending(lines)[k], high)
  BY <1>2
<1> HIDE DEF rs
<1>6. /\ \A k \in 1..few : \E i \in lines : rs[k] = IisRecord(f, i, high)
      /\ \A i \in lines :
            \/ \E k \in 1..few : rs[k] = IisRecord(f, i, high)
            \/ /\ Cardinality(lines) > room
               /\ \A k \in 1..few : \E j \in lines : j > i /\ rs[k] = IisRecord(f, j, high)
  BY <1>1, <1>5
<1> QED BY <1>1, <1>4, <1>6 DEF rs, few

ReadLines(f, read) ==
    \A p \in read : p \in 1..Len(f.lines) /\ f.lines[p].kind = "entry" /\ LineAt(f, p) = f.lines[p]

\* Whatever precedes a line of the window lies in the window or is older than it.
LEMMA EarlierIsOlder ==
    ASSUME NEW files, WellKept(files), InOrder(files), NEW row,
           NEW k, NEW i, ShownBy(files, k, i, row),
           NEW h \in DOMAIN files, NEW p \in DOMAIN files[h].lines, files[h].lines[p].kind = "entry",
           After(k, i, h, p)
    PROVE  /\ files[h].lines[p].time \in Nat /\ row[2] \in Nat
           /\ files[h].lines[p].time >= row[2]
           /\ ~(files[h].lines[p].time < Start)
<1> DEFINE l == files[k].lines[i]
           m == files[h].lines[p]
<1>1. /\ l.time \in Start..Now /\ row[2] = l.time /\ Start \in Nat /\ Now \in Nat
  BY LogAssumption DEF ShownBy
<1>2. files[h] \in Files /\ m.time \in Nat
  <2>1. files[h] \in Files
    BY DEF WellKept
  <2> QED BY <2>1, FileShape
<1>3. Clocked(l) <= Clocked(m)
  BY DEF InOrder, ShownBy, After
<1>4. m.time >= l.time
  <2>1. Clocked(l) = l.time
    BY <1>1 DEF Clocked, LowerOf
  <2>2. Clocked(m) \in Nat /\ Clocked(m) <= m.time
    BY <1>1, <1>2 DEF Clocked, LowerOf
  <2> HIDE DEF l, m
  <2> QED BY <1>1, <1>2, <1>3, <2>1, <2>2
<1> QED BY <1>1, <1>2, <1>4

\* A line of the window that is read is a match, whatever else is read with it.
LEMMA ReadMatches ==
    ASSUME NEW files, WellKept(files), InOrder(files), NEW row,
           NEW k, NEW i, ShownBy(files, k, i, row),
           NEW read, ReadLines(files[k], read), i \in read
    PROVE  i \in IisMatches(files[k], Inside(files[k], read))
<1> DEFINE f == files[k]
<1>1. /\ k \in DOMAIN files /\ i \in DOMAIN f.lines /\ LineAt(f, i) = f.lines[i]
      /\ f.lines[i].time \in Start..Now /\ f.lines[i].what \in Hits
      /\ Start \in Nat /\ Now \in Nat
  BY LogAssumption DEF ShownBy, ReadLines
<1>2. ASSUME NEW j \in read, LineAt(f, j).time < Start PROVE j < i
  <2>1. j \in 1..Len(f.lines) /\ f.lines[j].kind = "entry" /\ LineAt(f, j) = f.lines[j]
    BY DEF ReadLines
  <2>2. f \in Files /\ Len(f.lines) \in Nat /\ DOMAIN f.lines = 1..Len(f.lines)
    <3>1. f \in Files
      BY <1>1 DEF WellKept
    <3> QED BY <3>1, FileShape
  <2>3. ~(i < j)
    <3>1. i < j => After(k, i, k, j)
      BY DEF After
    <3> QED BY <3>1, <1>1, <1>2, <2>1, <2>2, EarlierIsOlder
  <2>4. i # j
    BY <1>1, <1>2
  <2> QED BY <2>1, <2>2, <2>3, <2>4, <1>1
<1> QED BY <1>1, <1>2 DEF IisMatches, Inside

\* What is read after a line of the window ends no search, and is not older than the line.
LEMMA ReadIsNewer ==
    ASSUME NEW files, WellKept(files), InOrder(files), NEW row,
           NEW k, NEW i, ShownBy(files, k, i, row), NEW h \in DOMAIN files,
           NEW read, ReadLines(files[h], read), \A p \in read : After(k, i, h, p)
    PROVE  /\ Inside(files[h], read) = read
           /\ \A p \in read : LineAt(files[h], p).time >= row[2]
<1>1. ASSUME NEW p \in read
      PROVE  ~(LineAt(files[h], p).time < Start) /\ LineAt(files[h], p).time >= row[2]
  <2>1. /\ p \in DOMAIN files[h].lines /\ files[h].lines[p].kind = "entry"
        /\ LineAt(files[h], p) = files[h].lines[p]
    <3>1. files[h] \in Files
      BY DEF WellKept
    <3> QED BY <3>1, FileShape DEF ReadLines
  <2> QED BY <2>1, EarlierIsOlder
<1> QED BY <1>1 DEF Inside

-----------------------------------------------------------------------------
(* What the streaming reader is given, and what its parser makes of it.     *)

Events == [kind: {"event"}, time: Nat, what: Nat, dst: BOOLEAN, lines: Nat, bytes: Nat,
           blank: BOOLEAN, cut: BOOLEAN]
Parsers == [active: Events \cup {NoEvent}, events: Seq(Events)]
Reads(e, l) == e.kind = "event" /\ e.time = l.time /\ e.what = l.what
Holds(p, l) == Reads(p.active, l) \/ \E k \in DOMAIN p.events : Reads(p.events[k], l)

\* The event under way joins the others; nothing that is held is given up.
LEMMA ClosedKeeps ==
    ASSUME NEW p \in Parsers
    PROVE  /\ Closed(p) \in Seq(Events)
           /\ \A l : Holds(p, l) => \E k \in DOMAIN Closed(p) : Reads(Closed(p)[k], l)
<1>1. p.events \in Seq(Events) /\ p.active \in Events \cup {NoEvent}
  BY DEF Parsers
<1>2. CASE p.active = NoEvent
  <2>1. Closed(p) = p.events
    BY <1>2 DEF Closed
  <2>2. \A l : ~Reads(p.active, l)
    BY <1>2 DEF Reads, NoEvent
  <2> QED BY <1>1, <2>1, <2>2 DEF Holds
<1>3. CASE p.active # NoEvent
  <2>1. Closed(p) = Append(p.events, p.active) /\ p.active \in Events
    BY <1>1, <1>3 DEF Closed
  <2> DEFINE c == Closed(p)
             n == Len(p.events)
  <2>2. /\ c \in Seq(Events) /\ Len(c) = n + 1 /\ n \in Nat /\ c[n + 1] = p.active
        /\ \A k \in 1..n : c[k] = p.events[k]
        /\ DOMAIN c = 1..(n + 1) /\ DOMAIN p.events = 1..n
    BY <1>1, <2>1, AppendProperties, LenProperties
  <2> HIDE DEF c, n
  <2>3. n + 1 \in DOMAIN c /\ \A k \in DOMAIN p.events : k \in DOMAIN c /\ c[k] = p.events[k]
    BY <2>2
  <2>4. ASSUME NEW l, Holds(p, l) PROVE \E k \in DOMAIN c : Reads(c[k], l)
    BY <2>2, <2>3, <2>4 DEF Holds
  <2> QED BY <2>2, <2>4 DEF c
<1> QED BY <1>2, <1>3

\* A line that goes on with an event leaves its time and text alone.
LEMMA ContinueKeeps ==
    ASSUME NEW e \in Events, NEW line \in Lines
    PROVE  /\ Continue(e, line) \in Events
           /\ Continue(e, line).time = e.time /\ Continue(e, line).what = e.what
<1> DEFINE blank == line.kind = "blank"
           bytes == e.bytes + 1 + (IF blank THEN 0 ELSE line.size)
<1>1. PICK t \in Nat, w \in Nat, d \in BOOLEAN, n \in Nat, b \in Nat, k \in BOOLEAN, c \in BOOLEAN :
         e = [kind |-> "event", time |-> t, what |-> w, dst |-> d, lines |-> n, bytes |-> b,
              blank |-> k, cut |-> c]
  BY DEF Events
<1>2. bytes \in Nat /\ blank \in BOOLEAN
  BY <1>1 DEF Lines
<1>3. \/ Continue(e, line) = e
      \/ Continue(e, line) = [e EXCEPT !.blank = blank, !.cut = TRUE]
      \/ Continue(e, line) = [e EXCEPT !.blank = blank, !.lines = @ + 1, !.bytes = bytes]
  BY DEF Continue
<1> HIDE DEF blank, bytes
<1>4. CASE Continue(e, line) = [e EXCEPT !.blank = blank, !.cut = TRUE]
  <2>1. Continue(e, line) =
           [kind |-> "event", time |-> t, what |-> w, dst |-> d, lines |-> n, bytes |-> b,
            blank |-> blank, cut |-> TRUE]
    BY <1>1, <1>4
  <2> QED BY <2>1, <1>1, <1>2 DEF Events
<1>5. CASE Continue(e, line) = [e EXCEPT !.blank = blank, !.lines = @ + 1, !.bytes = bytes]
  <2>1. Continue(e, line) =
           [kind |-> "event", time |-> t, what |-> w, dst |-> d, lines |-> n + 1, bytes |-> bytes,
            blank |-> blank, cut |-> c]
    BY <1>1, <1>5
  <2>2. n + 1 \in Nat
    OBVIOUS
  <2> QED BY <2>1, <2>2, <1>1, <1>2 DEF Events
<1> QED BY <1>3, <1>4, <1>5

\* One more line: its entry is held from then on, and so is whatever was held.
LEMMA FeedKeeps ==
    ASSUME NEW p \in Parsers, NEW line \in Lines
    PROVE  /\ Feed(line, p) \in Parsers
           /\ line.kind = "entry" => Holds(Feed(line, p), line)
           /\ \A l : Holds(p, l) => Holds(Feed(line, p), l)
<1>1. /\ line.time \in Nat /\ line.what \in Nat /\ line.size \in Nat /\ line.dst \in BOOLEAN
      /\ p.events \in Seq(Events) /\ p.active \in Events \cup {NoEvent}
      /\ p = [active |-> p.active, events |-> p.events]
  BY DEF Lines, Parsers
<1>2. /\ Closed(p) \in Seq(Events)
      /\ \A l : Holds(p, l) => \E k \in DOMAIN Closed(p) : Reads(Closed(p)[k], l)
  BY ClosedKeeps
<1>3. CASE line.kind = "entry"
  <2> DEFINE e == [kind |-> "event", time |-> line.time, what |-> line.what,
                   dst |-> line.dst, lines |-> 1, bytes |-> line.size + 1,
                   blank |-> FALSE, cut |-> FALSE]
  <2>1. Feed(line, p) = [active |-> e, events |-> Closed(p)]
    BY <1>3 DEF Feed
  <2>2. e \in Events
    BY <1>1 DEF Events
  <2>3. Reads(e, line)
    BY DEF Reads
  <2> HIDE DEF e
  <2>4. Feed(line, p).active = e /\ Feed(line, p).events = Closed(p) /\ Feed(line, p) \in Parsers
    BY <2>1, <2>2, <1>2 DEF Parsers
  <2> QED BY <2>3, <2>4, <1>2 DEF Holds
<1>4. CASE line.kind = "malformed"
  <2>1. Feed(line, p) = [active |-> NoEvent, events |-> Closed(p)]
    BY <1>4 DEF Feed
  <2>2. Feed(line, p).events = Closed(p) /\ Feed(line, p) \in Parsers
    BY <2>1, <1>2 DEF Parsers
  <2> QED BY <2>2, <1>2, <1>4 DEF Holds
<1>5. CASE line.kind \notin {"entry", "malformed"} /\ p.active = NoEvent
  <2>1. Feed(line, p) = p
    BY <1>5 DEF Feed
  <2> QED BY <2>1, <1>5
<1>6. CASE line.kind \notin {"entry", "malformed"} /\ p.active # NoEvent
  <2> DEFINE e == Continue(p.active, line)
  <2>1. Feed(line, p) = [p EXCEPT !.active = e]
    BY <1>6 DEF Feed
  <2>2. Feed(line, p) = [active |-> e, events |-> p.events]
    BY <2>1, <1>1
  <2>3. p.active \in Events
    BY <1>1, <1>6
  <2>4. e \in Events /\ e.time = p.active.time /\ e.what = p.active.what
    BY <2>3, <1>1, ContinueKeeps
  <2> HIDE DEF e
  <2>5. Feed(line, p).active = e /\ Feed(line, p).events = p.events /\ Feed(line, p) \in Parsers
    BY <2>2, <2>4, <1>1 DEF Parsers
  <2>6. e.kind = "event" /\ p.active.kind = "event"
    BY <2>3, <2>4 DEF Events
  <2> QED BY <2>4, <2>5, <2>6, <1>6 DEF Holds, Reads
<1> QED BY <1>3, <1>4, <1>5, <1>6

Run(lines, m, f) ==
    f = [n \in 0..m |-> IF n = 0 THEN FreshParser ELSE Feed(lines[n], f[n - 1])]

\* Feeding line after line is well-defined.
LEMMA RunExists ==
    ASSUME NEW lines, NEW m \in Nat
    PROVE  \E f : Run(lines, m, f)
<1> DEFINE U == {n \in Nat : \E f : Run(lines, n, f)}
<1>1. 0 \in U
  <2>1. Run(lines, 0, [n \in 0..0 |-> FreshParser])
    BY DEF Run
  <2> QED BY <2>1
<1>2. ASSUME NEW k \in Nat, k \in U PROVE k + 1 \in U
  <2>1. PICK f : Run(lines, k, f)
    BY <1>2
  <2> DEFINE g == [n \in 0..(k + 1) |-> IF n = k + 1 THEN Feed(lines[n], f[k]) ELSE f[n]]
             h == [n \in 0..(k + 1) |-> IF n = 0 THEN FreshParser ELSE Feed(lines[n], g[n - 1])]
  <2>2. \A n \in 0..k : g[n] = f[n]
    OBVIOUS
  <2>3. \A n \in 0..k : f[n] = IF n = 0 THEN FreshParser ELSE Feed(lines[n], f[n - 1])
    BY <2>1 DEF Run
  <2>4. ASSUME NEW n \in 0..(k + 1) PROVE g[n] = h[n]
    <3>1. CASE n = 0
      BY <3>1, <2>2, <2>3
    <3>2. CASE n # 0
      <4>1. n - 1 \in 0..k /\ g[n - 1] = f[n - 1]
        BY <3>2, <2>2
      <4>2. h[n] = Feed(lines[n], f[n - 1])
        BY <3>2, <4>1
      <4>3. CASE n = k + 1
        BY <4>2, <4>3
      <4>4. CASE n # k + 1
        <5>1. n \in 0..k
          BY <4>4
        <5> QED BY <5>1, <4>2, <3>2, <2>2, <2>3
      <4> QED BY <4>3, <4>4
    <3> QED BY <3>1, <3>2
  <2>5. g = h
    BY <2>4
  <2>6. Run(lines, k + 1, g)
    BY <2>5 DEF Run
  <2> HIDE DEF g
  <2> QED BY <2>6
<1>3. Nat \subseteq U
  <2> HIDE DEF U
  <2> QED BY <1>1, <1>2, Induction
<1> QED BY <1>3

\* Every entry of a warning log is an event with its time and text.
LEMMA ParsedEvents ==
    ASSUME NEW lines \in Seq(Lines)
    PROVE  /\ EventsOf(lines) \in Seq(Events)
           /\ \A i \in DOMAIN lines : lines[i].kind = "entry" =>
                 \E k \in DOMAIN EventsOf(lines) : Reads(EventsOf(lines)[k], lines[i])
<1> DEFINE m == Len(lines)
           parser == CHOOSE f : Run(lines, m, f)
<1>1. m \in Nat /\ DOMAIN lines = 1..m /\ \A n \in 1..m : lines[n] \in Lines
  OBVIOUS
<1>2. Run(lines, m, parser)
  BY <1>1, RunExists
<1>3. EventsOf(lines) = Closed(parser[m])
  BY DEF EventsOf, Run
<1> HIDE DEF parser
<1>4. parser[0] = FreshParser /\ \A n \in 1..m : parser[n] = Feed(lines[n], parser[n - 1])
  BY <1>1, <1>2 DEF Run
<1> DEFINE Kept(n) == /\ parser[n] \in Parsers
                      /\ \A i \in 1..n : lines[i].kind = "entry" => Holds(parser[n], lines[i])
           U == {n \in Nat : n <= m => Kept(n)}
<1>5. 0 \in U
  <2>1. FreshParser \in Parsers
    BY DEF FreshParser, Parsers
  <2> QED BY <2>1, <1>4
<1>6. ASSUME NEW n \in Nat, n \in U PROVE n + 1 \in U
  <2> SUFFICES ASSUME n + 1 <= m PROVE Kept(n + 1)
    OBVIOUS
  <2>1. Kept(n) /\ n + 1 \in 1..m /\ (n + 1) - 1 = n
    BY <1>1, <1>6
  <2>2. parser[n + 1] = Feed(lines[n + 1], parser[n]) /\ lines[n + 1] \in Lines
    BY <2>1, <1>1, <1>4
  <2>3. /\ parser[n + 1] \in Parsers
        /\ lines[n + 1].kind = "entry" => Holds(parser[n + 1], lines[n + 1])
        /\ \A l : Holds(parser[n], l) => Holds(parser[n + 1], l)
    BY <2>1, <2>2, FeedKeeps
  <2>4. \A i \in 1..(n + 1) : i \in 1..n \/ i = n + 1
    OBVIOUS
  <2> QED BY <2>1, <2>3, <2>4
<1>7. Kept(m)
  <2>1. Nat \subseteq U
    <3> HIDE DEF U
    <3> QED BY <1>5, <1>6, Induction
  <2> QED BY <2>1, <1>1
<1>8. /\ Closed(parser[m]) \in Seq(Events)
      /\ \A l : Holds(parser[m], l) =>
            \E k \in DOMAIN Closed(parser[m]) : Reads(Closed(parser[m])[k], l)
  BY <1>7, ClosedKeeps
<1> QED BY <1>1, <1>3, <1>7, <1>8

\* Of a file the lines up to the limit are given as they are, and nothing but lines.
LEMMA Streamed ==
    ASSUME NEW f \in Files, WellPlaced(f), NEW limit \in Nat, NEW lines \in Streams(f, limit)
    PROVE  /\ lines \in Seq(Lines)
           /\ \A i \in 1..Len(f.lines) : Upto(f, i) <= limit =>
                 i \in DOMAIN lines /\ lines[i] = f.lines[i]
<1> DEFINE m     == Len(f.lines)
           whole == {i \in 1..m : Upto(f, i) <= limit}
           n     == Cardinality(whole)
           part  == LowerOf(Size(f), limit) - From(f, n + 1)
           line  == LineAt(f, n + 1)
           given == SubSeq(f.lines, 1, n)
<1>1. /\ m \in Nat /\ DOMAIN f.lines = 1..m /\ f.lines \in Seq(Lines) /\ f.tail \in Nat
      /\ \A i \in 1..m : f.lines[i] \in Lines
  BY FileShape
<1>2. Laid(f)
  BY FilesAreLaid
<1>3. \E b \in 0..m : whole = 1..b
  <2> DEFINE T == {b \in 0..m : \A i \in 1..b : Upto(f, i) <= limit}
  <2>1. 0 \in T /\ T \in SUBSET (0..m) /\ T # {}
    BY <1>1
  <2>2. Max(T) \in T /\ \A k \in T : k <= Max(T)
    <3> HIDE DEF T
    <3> QED BY <2>1, <1>1, GreatestNumber
  <2>3. PICK b \in T : \A k \in T : k <= b
    BY <2>2
  <2>4. ASSUME NEW i \in 1..m, Upto(f, i) <= limit PROVE i \in T
    <3> SUFFICES ASSUME NEW j \in 1..i PROVE Upto(f, j) <= limit
      BY <1>1
    <3>1. i \in 1..(m + 1) /\ j \in 1..(m + 1) /\ j <= i
      BY <1>1
    <3>2. Upto(f, j) <= Upto(f, i) /\ Upto(f, j) \in Nat /\ Upto(f, i) \in Nat
      BY <3>1, <1>2, LaterLine, LineType
    <3> QED BY <3>2, <2>4
  <2>5. \A i \in 1..m : Upto(f, i) <= limit => i <= b
    BY <2>3, <2>4
  <2>6. b \in 0..m /\ \A i \in 1..b : Upto(f, i) <= limit
    BY <2>3
  <2>7. whole = 1..b
    BY <2>5, <2>6, <1>1
  <2> QED BY <2>6, <2>7
<1>4. n \in 0..m /\ whole = 1..n
  <2>1. PICK b \in 0..m : whole = 1..b
    BY <1>3
  <2>2. Cardinality(1..b) = b
    BY <2>1, <1>1, FS_Interval
  <2> HIDE DEF whole
  <2> QED BY <2>1, <2>2
<1>5. /\ given \in Seq(Lines) /\ Len(given) = n /\ DOMAIN given = 1..n
      /\ \A i \in 1..n : given[i] = f.lines[i]
  <2>1. n <= m
    BY <1>4
  <2> HIDE DEF n, whole
  <2> QED BY <2>1, <1>1, <1>4, SubSeqProperties, LenProperties
<1>6. \A i \in 1..m : Upto(f, i) <= limit => i \in 1..n
  BY <1>4
<1>7. line \in Lines
  <2>1. CASE n + 1 <= m
    <3>1. n + 1 \in 1..m /\ line = f.lines[n + 1]
      BY <2>1, <1>1, <1>4 DEF LineAt
    <3> HIDE DEF line, n
    <3> QED BY <3>1, <1>1
  <2>2. CASE ~(n + 1 <= m)
    <3>1. line = [kind |-> "entry", time |-> Now, what |-> Torn, size |-> f.tail, dst |-> FALSE,
                  at |-> End(f)]
      BY <2>2 DEF LineAt
    <3>2. End(f) \in Nat /\ Now \in Nat /\ Torn \in Nat
      BY <1>2, LogAssumption DEF Laid
    <3> HIDE DEF line
    <3> QED BY <3>1, <3>2, <1>1 DEF Lines
  <2> QED BY <2>1, <2>2
<1>8. part \in Int
  <2>1. n + 1 \in 1..(m + 1)
    BY <1>1, <1>4
  <2>2. From(f, n + 1) \in Nat /\ Size(f) \in Nat
    BY <2>1, <1>2, LineType DEF Laid
  <2> QED BY <2>2 DEF LowerOf
<1>9. CASE lines = given
  BY <1>5, <1>6, <1>9
<1>10. ASSUME NEW k \in {"entry", "malformed", "text", "blank"}, part > 0,
              lines = Append(given, [line EXCEPT !.kind = k, !.size = part, !.what = Torn])
       PROVE  /\ lines \in Seq(Lines)
              /\ \A i \in 1..n : i \in DOMAIN lines /\ lines[i] = given[i]
  <2> DEFINE last == [line EXCEPT !.kind = k, !.size = part, !.what = Torn]
  <2> HIDE DEF line, part, given, n
  <2>1. Torn \in Nat /\ part \in Nat
    BY <1>8, <1>10, LogAssumption
  <2>2. last \in Lines
    BY <2>1, <1>7 DEF Lines
  <2> HIDE DEF last
  <2>3. lines = Append(given, last)
    BY <1>10 DEF last
  <2>4. lines \in Seq(Lines) /\ Len(lines) = n + 1 /\ DOMAIN lines = 1..(n + 1)
        /\ \A i \in 1..n : lines[i] = given[i]
    BY <2>2, <2>3, <1>5, AppendProperties, LenProperties
  <2>5. n \in Nat
    BY <1>4
  <2> QED BY <2>4, <2>5
<1>11. \/ lines = given
       \/ part > 0 /\ \E k \in {"entry", "malformed", "text", "blank"} :
             lines = Append(given, [line EXCEPT !.kind = k, !.size = part, !.what = Torn])
  <2> DEFINE kinds == IF line.kind = "entry" THEN {"entry", "malformed", "text"} ELSE {line.kind}
  <2>1. kinds \subseteq {"entry", "malformed", "text", "blank"}
    BY <1>7 DEF Lines
  <2>2. lines \in IF part <= 0 THEN {given}
                  ELSE {Append(given, [line EXCEPT !.kind = k, !.size = part, !.what = Torn]) : k \in kinds}
    BY DEF Streams
  <2> HIDE DEF part, given, line, kinds
  <2>3. CASE part <= 0
    BY <2>2, <2>3
  <2>4. CASE ~(part <= 0)
    <3>1. PICK k \in kinds : lines = Append(given, [line EXCEPT !.kind = k, !.size = part, !.what = Torn])
      BY <2>2, <2>4
    <3>2. part > 0 /\ k \in {"entry", "malformed", "text", "blank"}
      BY <2>1, <2>4, <1>8
    <3> QED BY <3>1, <3>2
  <2> QED BY <2>3, <2>4
<1> QED BY <1>5, <1>6, <1>9, <1>10, <1>11
=============================================================================
