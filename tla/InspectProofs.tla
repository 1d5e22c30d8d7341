---------------------------- MODULE InspectProofs ----------------------------
(***************************************************************************)
(* versions, diff and dump miss nothing that stays, and list nothing       *)
(* twice, for every page size and whatever others do between two pages;    *)
(* and what diff says of two versions is so.                               *)
(***************************************************************************)
EXTENDS Inspect, FiniteSetTheorems, FunctionTheorems, SequenceTheorems, TLAPS

-----------------------------------------------------------------------------
\* A page of a listing, for S of any size.

IDs == Nat \ {0}

Sorted(down, seq) == \A i, j \in DOMAIN seq : i < j => Before(down, seq[i], seq[j])

\* What comes before x in R.
Earlier(down, R, x) == {y \in R : Before(down, y, x)}

LEMMA EarlierBounds ==
  ASSUME NEW R, R \subseteq IDs, IsFiniteSet(R), NEW down \in BOOLEAN, NEW x \in R
  PROVE  Cardinality(Earlier(down, R, x)) \in 0..(Cardinality(R) - 1)
<1> DEFINE E == Earlier(down, R, x)
<1>1. E \subseteq R \ {x}
  BY DEF Earlier, Before, IDs
<1>2. IsFiniteSet(R \ {x}) /\ Cardinality(R \ {x}) = Cardinality(R) - 1
  BY FS_RemoveElement
<1>3. IsFiniteSet(E) /\ Cardinality(E) <= Cardinality(R \ {x})
  BY <1>1, <1>2, FS_Subset
<1>4. Cardinality(R) \in Nat /\ Cardinality(E) \in Nat
  BY <1>3, FS_CardinalityType
<1> QED
  BY <1>2, <1>3, <1>4

\* The more comes before, the later the place.
LEMMA EarlierGrows ==
  ASSUME NEW R, R \subseteq IDs, IsFiniteSet(R), NEW down \in BOOLEAN,
         NEW x \in R, NEW y \in R, Before(down, x, y)
  PROVE  Cardinality(Earlier(down, R, x)) < Cardinality(Earlier(down, R, y))
<1> DEFINE D == Earlier(down, R, x)
           E == Earlier(down, R, y)
<1>0. x \in Nat /\ y \in Nat /\ R \subseteq Nat
  BY DEF IDs
<1>1. D \subseteq E /\ x \in E /\ x \notin D
  <2>1. \A z \in R : Before(down, z, x) => Before(down, z, y)
    BY <1>0 DEF Before
  <2>2. ~Before(down, x, x)
    BY <1>0 DEF Before
  <2> QED
    BY <2>1, <2>2 DEF Earlier
<1>2. E \subseteq R
  BY DEF Earlier
<1>3. IsFiniteSet(E)
  BY <1>2, FS_Subset
<1>4. IsFiniteSet(D) /\ Cardinality(D) <= Cardinality(E) /\ (Cardinality(E) = Cardinality(D) => E = D)
  BY <1>1, <1>3, FS_Subset
<1>5. Cardinality(D) \in Nat /\ Cardinality(E) \in Nat
  BY <1>3, <1>4, FS_CardinalityType
<1> HIDE DEF D, E
<1>6. D # E
  BY <1>1
<1> QED
  BY <1>4, <1>5, <1>6 DEF D, E

\* Every place up to the size of R has its element.
LEMMA EarlierHits ==
  ASSUME NEW R, R \subseteq IDs, IsFiniteSet(R), NEW down \in BOOLEAN,
         NEW k \in 0..(Cardinality(R) - 1)
  PROVE  \E x \in R : Cardinality(Earlier(down, R, x)) = k
<1> DEFINE n == Cardinality(R)
           T == 0..(n - 1)
           f == [x \in R |-> Cardinality(Earlier(down, R, x))]
<1>1. n \in Nat
  BY FS_CardinalityType
<1>2. f \in [R -> T]
  BY EarlierBounds
<1>3. ASSUME NEW x \in R, NEW y \in R, f[x] = f[y] PROVE x = y
  <2>1. CASE Before(down, x, y)
    BY <1>3, <2>1, EarlierGrows, EarlierBounds
  <2>2. CASE Before(down, y, x)
    BY <1>3, <2>2, EarlierGrows, EarlierBounds
  <2>3. CASE ~Before(down, x, y) /\ ~Before(down, y, x)
    BY <2>3 DEF Before, IDs
  <2> QED
    BY <2>1, <2>2, <2>3
<1>4. f \in Injection(R, T)
  <2>1. IsInjective(f)
    BY <1>3 DEF IsInjective
  <2> QED
    BY <1>2, <2>1 DEF Injection
<1>5. IsFiniteSet(T) /\ Cardinality(T) = n
  BY <1>1, FS_Interval
<1>6. f \in Surjection(R, T)
  BY <1>4, <1>5, FS_Injection
<1> QED
  BY <1>6 DEF Surjection

\* A page is a sorted part of what comes after the cursor: all of it when it fits, and
\* else as much as fits, the rest coming after it.
LEMMA PageFacts ==
  ASSUME NEW S, S \subseteq IDs, IsFiniteSet(S), NEW down \in BOOLEAN
  PROVE  /\ Page(S, down) \in Seq(Rest(S, down)) /\ Page(S, down) \in Seq(S)
         /\ Sorted(down, Page(S, down))
         /\ NextCursor(S, down) = 0 => Rest(S, down) \subseteq ToSet(Page(S, down))
         /\ NextCursor(S, down) # 0 =>
              /\ Page(S, down) # <<>>
              /\ NextCursor(S, down) = Page(S, down)[Len(Page(S, down))]
              /\ \A x \in Rest(S, down) :
                   x \in ToSet(Page(S, down)) \/ Before(down, NextCursor(S, down), x)
         /\ Rest(S, down) # {} => Page(S, down) # <<>>
<1> DEFINE R == Rest(S, down)
           n == Cardinality(R)
           m == IF n < PageSize THEN n ELSE PageSize
           P == Page(S, down)
           At(x) == Cardinality(Earlier(down, R, x))
<1>1. R \subseteq S /\ R \subseteq IDs /\ IsFiniteSet(R)
  <2>1. R \subseteq S
    BY DEF Rest
  <2> QED
    BY <2>1, FS_Subset
<1>2. n \in Nat /\ m \in 0..n /\ m <= PageSize /\ PageSize \in Nat \ {0}
  BY <1>1, FS_CardinalityType, BoundsAssumption
<1>3. P = [i \in 1..m |-> CHOOSE x \in R : At(x) = i - 1]
  BY DEF Page, Earlier
<1>4. \A i \in 1..m : P[i] \in R /\ At(P[i]) = i - 1
  <2> SUFFICES ASSUME NEW i \in 1..m PROVE P[i] \in R /\ At(P[i]) = i - 1
    OBVIOUS
  <2>1. i - 1 \in 0..(n - 1)
    BY <1>2
  <2>2. \E x \in R : At(x) = i - 1
    BY <1>1, <2>1, EarlierHits
  <2>3. P[i] = CHOOSE x \in R : At(x) = i - 1
    BY <1>3
  <2> QED
    BY <2>2, <2>3
<1> HIDE DEF P
<1>5. P \in Seq(R) /\ Len(P) = m /\ DOMAIN P = 1..m
  <2>1. P \in [1..m -> R]
    BY <1>3, <1>4
  <2> QED
    BY <1>2, <2>1
<1>6. P \in Seq(S)
  BY <1>1, <1>5
<1>7. \A x, y \in R : At(x) < At(y) => Before(down, x, y)
  <2> SUFFICES ASSUME NEW x \in R, NEW y \in R, At(x) < At(y) PROVE Before(down, x, y)
    OBVIOUS
  <2>1. CASE Before(down, y, x)
    BY <1>1, <2>1, EarlierGrows, EarlierBounds
  <2>2. CASE x = y
    BY <1>1, <2>2, EarlierBounds
  <2> QED
    BY <1>1, <2>1, <2>2 DEF Before, IDs
<1>8. Sorted(down, P)
  BY <1>2, <1>4, <1>5, <1>7 DEF Sorted
<1>9. ASSUME NEW x \in R, At(x) < m PROVE x \in ToSet(P)
  <2>1. At(x) \in 0..(n - 1)
    BY <1>1, EarlierBounds
  <2> DEFINE i == At(x) + 1
  <2>2. i \in 1..m
    BY <1>2, <1>9, <2>1
  <2>3. P[i] \in R /\ At(P[i]) = At(x)
    BY <1>4, <2>1, <2>2
  <2>4. ~Before(down, P[i], x) /\ ~Before(down, x, P[i])
    BY <1>1, <2>1, <2>3, EarlierGrows
  <2>5. P[i] = x
    BY <1>1, <2>3, <2>4 DEF Before, IDs
  <2> QED
    BY <1>5, <2>2, <2>5 DEF ToSet
<1>10. CASE n <= PageSize
  <2>1. NextCursor(S, down) = 0
    BY <1>2, <1>10 DEF NextCursor
  <2>2. R \subseteq ToSet(P)
    <3>1. m = n
      BY <1>2, <1>10
    <3>2. \A x \in R : At(x) < m
      BY <1>1, <1>2, <3>1, EarlierBounds
    <3> QED
      BY <1>9, <3>2
  <2>3. R # {} => P # <<>>
    BY <2>2 DEF ToSet
  <2> QED
    BY <1>5, <1>6, <1>8, <2>1, <2>2, <2>3 DEF P
<1>11. CASE n > PageSize
  <2>1. m = PageSize /\ m \in 1..m
    BY <1>2, <1>11
  <2>2. NextCursor(S, down) = P[m] /\ P[m] \in R /\ At(P[m]) = m - 1
    BY <1>4, <1>5, <1>11, <2>1 DEF NextCursor, Last, P
  <2>3. \A x \in R : x \in ToSet(P) \/ Before(down, P[m], x)
    <3> SUFFICES ASSUME NEW x \in R, x \notin ToSet(P) PROVE Before(down, P[m], x)
      OBVIOUS
    <3>1. At(x) \in Nat /\ ~(At(x) < m)
      BY <1>1, <1>9, EarlierBounds
    <3> QED
      BY <1>7, <2>1, <2>2, <3>1
  <2>4. P # <<>> /\ P[m] # 0
    BY <1>1, <1>5, <2>1, <2>2 DEF IDs
  <2> QED
    BY <1>5, <1>6, <1>8, <2>1, <2>2, <2>3, <2>4 DEF P
<1> QED
  BY <1>2, <1>10, <1>11

\* A set that is not empty has a first and a last element.
LEMMA FirstThere ==
  ASSUME NEW R, R \subseteq IDs, IsFiniteSet(R), R # {}, NEW down \in BOOLEAN
  PROVE  \E x \in R : \A y \in R : x = y \/ Before(down, x, y)
<1>1. Cardinality(R) \in Nat /\ Cardinality(R) # 0
  BY FS_CardinalityType, FS_EmptySet
<1>2. PICK x \in R : Cardinality(Earlier(down, R, x)) = 0
  BY <1>1, EarlierHits
<1>3. Earlier(down, R, x) \subseteq R
  BY DEF Earlier
<1>4. IsFiniteSet(Earlier(down, R, x))
  BY <1>3, FS_Subset
<1>5. Earlier(down, R, x) = {}
  BY <1>2, <1>4, FS_EmptySet
<1>6. \A y \in R : ~Before(down, y, x)
  BY <1>5 DEF Earlier
<1> QED
  BY <1>6 DEF Before, IDs

\* What is in a sequence after it grew or shrank.
LEMMA AppendedSet ==
  ASSUME NEW T, NEW seq \in Seq(T), NEW x \in T
  PROVE  /\ Append(seq, x) \in Seq(T)
         /\ ToSet(Append(seq, x)) = ToSet(seq) \cup {x}
         /\ Once(seq) /\ x \notin ToSet(seq) => Once(Append(seq, x))
<1> DEFINE n == Len(seq)
           new == Append(seq, x)
<1>1. /\ n \in Nat /\ DOMAIN seq = 1..n /\ new \in Seq(T) /\ DOMAIN new = 1..(n + 1)
      /\ \A i \in 1..n : new[i] = seq[i]
      /\ new[n + 1] = x
  BY AppendProperties, LenProperties
<1> HIDE DEF new
<1>2. ToSet(new) = ToSet(seq) \cup {x}
  BY <1>1 DEF ToSet
<1>3. ASSUME Once(seq), x \notin ToSet(seq) PROVE Once(new)
  BY <1>1, <1>3 DEF Once, ToSet
<1> QED
  BY <1>1, <1>2, <1>3 DEF new

LEMMA TailSet ==
  ASSUME NEW T, NEW seq \in Seq(T), seq # <<>>
  PROVE  /\ Head(seq) \in T /\ Tail(seq) \in Seq(T)
         /\ ToSet(seq) = {Head(seq)} \cup ToSet(Tail(seq))
         /\ (Len(seq) = 1) = (Tail(seq) = <<>>)
         /\ Tail(seq) # <<>> => Tail(seq)[Len(Tail(seq))] = seq[Len(seq)]
         /\ Tail(seq) = <<>> => Head(seq) = seq[Len(seq)]
<1> DEFINE n == Len(seq)
           new == Tail(seq)
<1>1. /\ n \in Nat \ {0} /\ DOMAIN seq = 1..n /\ new \in Seq(T) /\ DOMAIN new = 1..(n - 1)
      /\ Len(new) = n - 1
      /\ \A i \in 1..(n - 1) : new[i] = seq[i + 1]
      /\ Head(seq) = seq[1] /\ Head(seq) \in T
  BY HeadTailProperties, LenProperties, EmptySeq
<1> HIDE DEF new
<1>2. ASSUME new = <<>> PROVE n = 1
  <2>1. Len(new) = 0
    BY <1>2, EmptySeq
  <2>2. n \in Nat /\ Len(new) = n - 1
    BY <1>1
  <2> HIDE DEF n
  <2> QED
    BY <2>1, <2>2
<1>3. ASSUME n = 1 PROVE new = <<>>
  <2>1. Len(new) = 0 /\ new \in Seq(T)
    BY <1>1, <1>3
  <2> QED
    BY <2>1, EmptySeq
<1>4. ASSUME NEW x \in ToSet(seq) PROVE x = Head(seq) \/ x \in ToSet(new)
  <2>1. PICK i \in 1..n : x = seq[i]
    BY <1>1, <1>4 DEF ToSet
  <2>2. CASE i = 1
    BY <1>1, <2>1, <2>2
  <2>3. CASE i # 1
    <3>1. i - 1 \in 1..(n - 1) /\ new[i - 1] = x
      BY <1>1, <2>1, <2>3
    <3> QED
      BY <1>1, <3>1 DEF ToSet
  <2> QED
    BY <2>2, <2>3
<1>5. ToSet(new) \subseteq ToSet(seq) /\ Head(seq) \in ToSet(seq)
  <2>1. ASSUME NEW i \in 1..(n - 1) PROVE new[i] \in ToSet(seq)
    <3>1. i + 1 \in 1..n
      BY <1>1
    <3> QED
      BY <1>1, <3>1 DEF ToSet
  <2>2. ToSet(new) \subseteq ToSet(seq)
    BY <1>1, <2>1 DEF ToSet
  <2>3. 1 \in DOMAIN seq
    BY <1>1
  <2> QED
    BY <1>1, <2>2, <2>3 DEF ToSet
<1>6. new # <<>> => new[Len(new)] = seq[n]
  BY <1>1, <1>3
<1> QED
  BY <1>1, <1>2, <1>3, <1>4, <1>5, <1>6 DEF new

LEMMA SortedTail ==
  ASSUME NEW seq \in Seq(IDs), seq # <<>>, NEW down \in BOOLEAN, Sorted(down, seq)
  PROVE  /\ Sorted(down, Tail(seq))
         /\ \A x \in ToSet(Tail(seq)) : Before(down, Head(seq), x)
<1> DEFINE n == Len(seq)
           new == Tail(seq)
<1>1. /\ n \in Nat \ {0} /\ DOMAIN seq = 1..n /\ DOMAIN new = 1..(n - 1)
      /\ \A i \in 1..(n - 1) : new[i] = seq[i + 1]
      /\ Head(seq) = seq[1]
  BY HeadTailProperties, LenProperties, EmptySeq
<1> HIDE DEF new
<1>2. \A i, j \in DOMAIN new : i < j => Before(down, new[i], new[j])
  <2> SUFFICES ASSUME NEW i \in 1..(n - 1), NEW j \in 1..(n - 1), i < j
               PROVE  Before(down, new[i], new[j])
    BY <1>1
  <2>1. i + 1 \in 1..n /\ j + 1 \in 1..n /\ i + 1 < j + 1
    BY <1>1
  <2> QED
    BY <1>1, <2>1 DEF Sorted
<1>3. \A i \in 1..(n - 1) : Before(down, Head(seq), new[i])
  <2> SUFFICES ASSUME NEW i \in 1..(n - 1) PROVE Before(down, Head(seq), new[i])
    OBVIOUS
  <2>1. i + 1 \in 1..n /\ 1 \in 1..n /\ 1 < i + 1
    BY <1>1
  <2> QED
    BY <1>1, <2>1 DEF Sorted
<1> QED
  BY <1>1, <1>2, <1>3 DEF Sorted, ToSet, new

LEMMA SortedOnce ==
  ASSUME NEW seq \in Seq(IDs), NEW down \in BOOLEAN, Sorted(down, seq)
  PROVE  Once(seq)
<1>1. DOMAIN seq = 1..Len(seq) /\ Len(seq) \in Nat /\ \A i \in DOMAIN seq : seq[i] \in Nat
  BY LenProperties, ElementOfSeq DEF IDs
<1> SUFFICES ASSUME NEW i \in DOMAIN seq, NEW j \in DOMAIN seq, seq[i] = seq[j] PROVE i = j
  BY DEF Once
<1>2. ~(i < j) /\ ~(j < i)
  BY <1>1 DEF Sorted, Before
<1> QED
  BY <1>1, <1>2

LEMMA SortedLast ==
  ASSUME NEW seq \in Seq(IDs), NEW down \in BOOLEAN, Sorted(down, seq), NEW x \in ToSet(seq)
  PROVE  x = seq[Len(seq)] \/ Before(down, x, seq[Len(seq)])
<1>1. DOMAIN seq = 1..Len(seq) /\ Len(seq) \in Nat
  BY LenProperties
<1>2. PICK i \in DOMAIN seq : x = seq[i]
  BY DEF ToSet
<1>3. Len(seq) \in DOMAIN seq /\ (i = Len(seq) \/ i < Len(seq))
  BY <1>1
<1> QED
  BY <1>2, <1>3 DEF Sorted

-----------------------------------------------------------------------------
\* A listing, page after page.

\* What a listing has found so far, the last of it being the cursor, misses nothing of
\* what stays but what comes after the cursor.
Progress(down, cursor, found, stay) ==
  /\ found \in Seq(IDs) /\ Sorted(down, found)
  /\ cursor = 0 => found = <<>>
  /\ cursor # 0 => found # <<>> /\ cursor = found[Len(found)]
  /\ \A x \in stay : x \in ToSet(found) \/ cursor = 0 \/ Before(down, cursor, x)

LEMMA ListingStep ==
  ASSUME NEW S, S \subseteq IDs, IsFiniteSet(S), NEW down \in BOOLEAN,
         NEW found, NEW stay, stay \subseteq S, Progress(down, cmd.cursor, found, stay)
  PROVE  LET new == found \o Page(S, down)
             cursor == NextCursor(S, down)
         IN  /\ new \in Seq(IDs) /\ Sorted(down, new) /\ cursor \in Nat
             /\ cursor = 0 => stay \subseteq ToSet(new)
             /\ cursor # 0 => Progress(down, cursor, new, stay)
<1> DEFINE page == Page(S, down)
           new == found \o page
           c == NextCursor(S, down)
           m == Len(found)
           n == Len(page)
<1>1. /\ page \in Seq(Rest(S, down)) /\ page \in Seq(S) /\ Sorted(down, page)
      /\ c = 0 => Rest(S, down) \subseteq ToSet(page)
      /\ c # 0 => /\ page # <<>> /\ c = page[n]
                  /\ \A x \in Rest(S, down) : x \in ToSet(page) \/ Before(down, c, x)
  BY PageFacts
<1>2. found \in Seq(IDs) /\ page \in Seq(IDs)
  BY <1>1 DEF Progress
<1> HIDE DEF page, c
<1>3. /\ new \in Seq(IDs) /\ DOMAIN new = 1..(m + n) /\ Len(new) = m + n
      /\ m \in Nat /\ n \in Nat /\ DOMAIN found = 1..m /\ DOMAIN page = 1..n
      /\ \A i \in 1..m : new[i] = found[i]
      /\ \A i \in (m + 1)..(m + n) : new[i] = page[i - m]
  BY <1>2, ConcatProperties, LenProperties
<1> HIDE DEF new
<1>4. ToSet(found) \subseteq ToSet(new)
  BY <1>3 DEF ToSet
<1>5. ToSet(page) \subseteq ToSet(new)
  <2> SUFFICES ASSUME NEW i \in 1..n PROVE page[i] \in ToSet(new)
    BY <1>3 DEF ToSet
  <2>1. i + m \in (m + 1)..(m + n) /\ (i + m) - m = i
    BY <1>3
  <2>2. new[i + m] = page[i] /\ i + m \in DOMAIN new
    BY <1>3, <2>1
  <2> QED
    BY <2>2 DEF ToSet
<1>6. ASSUME NEW i \in 1..m, NEW j \in 1..n PROVE Before(down, found[i], page[j])
  <2>1. cmd.cursor # 0 /\ cmd.cursor = found[m]
    BY <1>3, <1>6 DEF Progress
  <2>2. page[j] \in Rest(S, down)
    BY <1>1, ElementOfSeq
  <2>3. Before(down, cmd.cursor, page[j])
    BY <2>1, <2>2 DEF Rest
  <2>4. found[i] \in ToSet(found)
    BY <1>3 DEF ToSet
  <2>5. found[i] = found[m] \/ Before(down, found[i], found[m])
    BY <2>4, SortedLast DEF Progress
  <2>6. found[i] \in Nat /\ found[m] \in Nat /\ page[j] \in Nat
    BY <1>2, <1>3, ElementOfSeq DEF IDs
  <2> QED
    BY <2>1, <2>3, <2>5, <2>6 DEF Before
<1>7. Sorted(down, new)
  <2> SUFFICES ASSUME NEW i \in 1..(m + n), NEW j \in 1..(m + n), i < j
               PROVE  Before(down, new[i], new[j])
    BY <1>3 DEF Sorted
  <2>1. CASE j \in 1..m
    <3>1. i \in 1..m
      BY <1>3, <2>1
    <3> QED
      BY <1>3, <2>1, <3>1 DEF Progress, Sorted
  <2>2. CASE i \in 1..m /\ j \notin 1..m
    <3>1. j - m \in 1..n /\ j \in (m + 1)..(m + n)
      BY <1>3, <2>2
    <3> QED
      BY <1>3, <1>6, <2>2, <3>1
  <2>3. CASE i \notin 1..m
    <3>1. /\ i - m \in 1..n /\ i \in (m + 1)..(m + n) /\ j - m \in 1..n
          /\ j \in (m + 1)..(m + n) /\ i - m < j - m
      BY <1>3, <2>3
    <3> QED
      BY <1>1, <1>3, <3>1 DEF Sorted
  <2> QED
    BY <2>1, <2>2, <2>3
<1>8. \A x \in stay : x \in ToSet(found) \/ x \in Rest(S, down)
  BY DEF Progress, Rest
<1>9. c = 0 => stay \subseteq ToSet(new)
  BY <1>1, <1>4, <1>5, <1>8
<1>10. ASSUME c # 0
       PROVE  new # <<>> /\ c = new[Len(new)] /\ c \in Nat
              /\ \A x \in stay : x \in ToSet(new) \/ Before(down, c, x)
  <2>1. n \in 1..n /\ m + n \in (m + 1)..(m + n) /\ (m + n) - m = n
    BY <1>1, <1>2, <1>3, <1>10, EmptySeq
  <2>2. c = new[m + n] /\ new # <<>> /\ page[n] \in IDs
    <3>1. new[m + n] = page[n] /\ m + n \in DOMAIN new
      BY <1>3, <2>1
    <3>2. new # <<>>
      BY <3>1
    <3>3. page[n] \in IDs
      BY <1>2, <1>3, <2>1, ElementOfSeq
    <3> QED
      BY <1>1, <1>10, <3>1, <3>2, <3>3
  <2>3. \A x \in stay : x \in ToSet(new) \/ Before(down, c, x)
    BY <1>1, <1>4, <1>5, <1>8, <1>10
  <2> QED
    BY <1>1, <1>3, <1>10, <2>2, <2>3 DEF IDs
<1>11. c \in Nat
  BY <1>10
<1> QED
  BY <1>3, <1>7, <1>9, <1>10, <1>11 DEF new, c, page, Progress

-----------------------------------------------------------------------------
\* The inductive invariant.

Application(vs) == [name : AppNames, active : Nat, versions : {vs}, last : 0..MaxVersion]

Item == [id : IDs, name : AppNames, active : Nat]

\* What a version is made of does not matter here.
Commands(c) ==
  [pc : {"idle", "done", "failed", "asgs", "lbs", "lb", "find", "apps", "pages", "latest",
         "detail", "from", "to"},
   kind : {"dump", "versions", "diff"}, name : AppNames \cup {None}, from : Nat, to : Nat,
   cursor : Nat, found : {c.found}, app : Nat, active : Nat, latest : Nat,
   details : {c.details}, todo : Seq(IDs), lbs : Seq(IDs), out : Seq({"app", "asg", "lb"} \X IDs),
   specs : SUBSET (Nat \X Nat), skipped : SUBSET Nat]

AppsFine ==
  \A id \in DOMAIN apps :
    /\ id \in 1..created
    /\ apps[id] \in Application(apps[id].versions)
    /\ DOMAIN apps[id].versions \subseteq 1..apps[id].last
    /\ apps[id].active \in {0} \cup DOMAIN apps[id].versions

\* No ID is given to two LBs.
ASGsFine ==
  \A g \in DOMAIN asgs :
    /\ g \in 1..created /\ asgs[g] \subseteq 1..created
    /\ \A h \in DOMAIN asgs : asgs[g] \cap asgs[h] # {} => g = h

\* An LB that stays is in an ASG that stays.
StaysFine ==
  /\ through \subseteq Existing
  /\ \A g \in DOMAIN asgs : \A l \in asgs[g] : <<"lb", l>> \in through => <<"asg", g>> \in through

Cluster ==
  /\ created \in 0..MaxID /\ newFirst \in BOOLEAN
  /\ DOMAIN apps \cap DOMAIN asgs = {}
  /\ AppsFine /\ ASGsFine /\ StaysFine

Typed == Cluster /\ moves \in 0..MaxMoves /\ cmd \in Commands(cmd)

\* What stays, and what dump has of it.
Stay(kind) == {id \in IDs : <<kind, id>> \in through}
Has(kind, id) == <<kind, id>> \in ToSet(cmd.out)

AtASGs ==
  cmd.pc = "asgs" =>
    /\ cmd.kind = "dump" /\ cmd.out = <<>> /\ cmd.found \in Seq(IDs)
    /\ Progress(FALSE, cmd.cursor, cmd.found, Stay("asg"))

\* LBs of the ASG in turn that dump has, or has yet to read.
Behind(l) == IF cmd.pc = "lbs" THEN cmd.cursor # 0 /\ l <= cmd.cursor ELSE l < Head(cmd.lbs)
Ahead(l) ==
  IF cmd.pc = "lbs" THEN cmd.cursor = 0 \/ cmd.cursor < l
                    ELSE l \in ToSet(cmd.lbs) \/ (cmd.cursor # 0 /\ cmd.cursor < l)

AtLBs ==
  cmd.pc \in {"lbs", "lb"} =>
    /\ cmd.kind = "dump" /\ cmd.found = <<>> /\ cmd.todo # <<>> /\ Sorted(FALSE, cmd.todo)
    /\ Once(cmd.out)
    /\ \A id : ~Has("app", id)
    /\ \A id : Has("asg", id) => \A x \in ToSet(cmd.todo) : id < x
    /\ \A id \in Stay("asg") : Has("asg", id) \/ id \in ToSet(cmd.todo)
    /\ \A l : Has("lb", l) =>
         /\ l <= created
         /\ \A g \in DOMAIN asgs :
              l \in asgs[g] => Has("asg", g) \/ (g = Head(cmd.todo) /\ Behind(l))
    /\ \A g \in DOMAIN asgs : \A l \in asgs[g] : <<"lb", l>> \in through =>
         Has("lb", l) \/ g \in ToSet(Tail(cmd.todo)) \/ (g = Head(cmd.todo) /\ Ahead(l))
    /\ cmd.pc = "lb" =>
         /\ cmd.lbs # <<>> /\ Sorted(FALSE, cmd.lbs)
         /\ cmd.cursor # 0 => cmd.cursor = cmd.lbs[Len(cmd.lbs)]

\* dump is through with the ASGs and LBs.
Built ==
  /\ Once(cmd.out)
  /\ \A x \in through : x[1] \in {"asg", "lb"} => x \in ToSet(cmd.out)

Ids(list) == [i \in DOMAIN list |-> list[i].id]

\* A version number that was given is not given again.
Given(app, n) == app <= created /\ (app \in DOMAIN apps => n <= apps[app].last)

AtApps ==
  cmd.pc \in {"find", "apps"} =>
    /\ cmd.found \in Seq(Item)
    /\ Progress(FALSE, cmd.cursor, Ids(cmd.found), Stay("app"))
    /\ \A i \in DOMAIN cmd.found : Given(cmd.found[i].id, cmd.found[i].active)
    /\ cmd.pc = "find" => cmd.kind \in {"versions", "diff"} /\ cmd.latest = 0
    /\ cmd.pc = "apps" => cmd.kind = "dump" /\ Built /\ \A id : ~Has("app", id)

AtDumping ==
  cmd.kind = "dump" /\ cmd.pc \in {"latest", "detail", "done"} =>
    /\ Built
    /\ \A id \in Stay("app") :
         Has("app", id) \/ id \in cmd.skipped \/ (cmd.pc # "done" /\ id \in ToSet(cmd.todo))
    /\ cmd.pc # "done" =>
         /\ cmd.todo # <<>> /\ Sorted(FALSE, cmd.todo)
         /\ \A id : Has("app", id) => \A x \in ToSet(cmd.todo) : id < x

\* The versions that the list has to name.
Kept ==
  {n \in IDs : <<"version", cmd.app, n>> \in through}
  \cup ({cmd.active} \cap {n \in IDs : <<"version", cmd.app, n>> \in Existing})

AtVersions ==
  cmd.kind = "versions" /\ cmd.pc \in {"pages", "done"} =>
    /\ Given(cmd.app, cmd.active)
    /\ cmd.pc = "pages" => Progress(newFirst, cmd.cursor, cmd.found, Kept)
    /\ cmd.pc = "done" => Once(cmd.found) /\ Kept \subseteq ToSet(cmd.found)

\* No version of the application that stays is newer than n.
Newest(app, n) == \A k \in IDs : <<"version", app, k>> \in through => k <= n

AtReads ==
  /\ cmd.pc \in {"latest", "detail"} => cmd.cursor = 0
  /\ cmd.pc \in {"latest", "detail"} => cmd.kind \in {"dump", "diff"}
  /\ cmd.pc = "pages" => cmd.kind = "versions"
  /\ cmd.pc \in {"from", "to"} => cmd.kind = "diff"

Recent ==
  /\ \A s \in cmd.specs : Newest(s[1], s[2])
  /\ cmd.pc = "detail" => Newest(Reading, cmd.latest)
  /\ cmd.kind = "diff" /\ cmd.pc \in {"from", "to", "done"} /\ cmd.latest # 0 =>
       cmd.to = cmd.latest /\ Newest(cmd.app, cmd.latest)

\* The first page of the list has the newest version.
NewestFirst == newFirst \/ MaxVersion <= PageSize

Inv ==
  /\ Typed /\ AtASGs /\ AtLBs /\ AtApps /\ AtDumping /\ AtVersions /\ AtReads
  /\ NewestFirst => Recent

-----------------------------------------------------------------------------
\* What others do.

LEMMA ObjectsOf ==
  ASSUME NEW as, NEW gs
  PROVE  LET all == Objects(as, gs)
                    \cup UNION {{<<"version", id, n>> : n \in DOMAIN as[id].versions} : id \in DOMAIN as}
         IN  /\ \A id : <<"app", id>> \in all <=> id \in DOMAIN as
             /\ \A g : <<"asg", g>> \in all <=> g \in DOMAIN gs
             /\ \A l : <<"lb", l>> \in all <=> \E g \in DOMAIN gs : l \in gs[g]
             /\ \A id, n : <<"version", id, n>> \in all
                           <=> id \in DOMAIN as /\ n \in DOMAIN as[id].versions
             /\ \A x \in all : x[1] \in {"app", "asg", "lb"} => x = <<x[1], x[2]>>
<1> DEFINE versions == UNION {{<<"version", id, n>> : n \in DOMAIN as[id].versions} : id \in DOMAIN as}
<1>1. \A x \in versions : \E id \in DOMAIN as : \E n \in DOMAIN as[id].versions :
         x = <<"version", id, n>>
  OBVIOUS
<1>2. ASSUME NEW id \in DOMAIN as, NEW n \in DOMAIN as[id].versions
      PROVE  <<"version", id, n>> \in versions
  <2>1. <<"version", id, n>> \in {<<"version", id, k>> : k \in DOMAIN as[id].versions}
    OBVIOUS
  <2> QED
    BY <2>1
<1> HIDE DEF versions
<1>3. \A x : x \in Objects(as, gs) <=>
         \/ \E id \in DOMAIN as : x = <<"app", id>>
         \/ \E id \in DOMAIN gs : x = <<"asg", id>>
         \/ \E id \in DOMAIN gs : \E l \in gs[id] : x = <<"lb", l>>
  BY DEF Objects
<1>4. /\ \A id, k, n : /\ <<"app", id>> # <<"version", k, n>> /\ <<"asg", id>> # <<"version", k, n>>
                       /\ <<"lb", id>> # <<"version", k, n>>
      /\ \A id, k : /\ <<"app", id>> # <<"asg", k>> /\ <<"app", id>> # <<"lb", k>>
                    /\ <<"asg", id>> # <<"lb", k>>
      /\ \A id, n, k, m : (<<"version", id, n>> = <<"version", k, m>>) => k = id /\ m = n
      /\ \A id, k : /\ (<<"app", id>> = <<"app", k>>) => k = id
                    /\ (<<"asg", id>> = <<"asg", k>>) => k = id
                    /\ (<<"lb", id>> = <<"lb", k>>) => k = id
  OBVIOUS
<1>5. ASSUME NEW x \in Objects(as, gs) \cup versions, x[1] \in {"app", "asg", "lb"}
      PROVE  x = <<x[1], x[2]>>
  <2>1. CASE x \in versions
    <3>1. PICK id \in DOMAIN as : \E n \in DOMAIN as[id].versions : x = <<"version", id, n>>
      BY <1>1, <2>1
    <3>2. x[1] = "version"
      BY <3>1
    <3> QED
      BY <1>5, <3>2
  <2>2. CASE x \in Objects(as, gs)
    <3>1. \E kind, id : x = <<kind, id>>
      BY <1>3, <2>2, Zenon
    <3> QED
      BY <3>1
  <2> QED
    BY <1>5, <2>1, <2>2
<1>6. \A id : <<"app", id>> \in Objects(as, gs) \cup versions <=> id \in DOMAIN as
  <2> SUFFICES ASSUME NEW id
               PROVE  <<"app", id>> \in Objects(as, gs) \cup versions <=> id \in DOMAIN as
    OBVIOUS
  <2> DEFINE x == <<"app", id>>
  <2>1. x \notin versions
    BY <1>1, <1>4, Zenon
  <2>2. /\ \A k : x # <<"asg", k>> /\ x # <<"lb", k>>
        /\ \A k : x = <<"app", k>> => k = id
    BY <1>4
  <2>3. x \in Objects(as, gs) <=> id \in DOMAIN as
    BY <1>3, <2>2, Zenon
  <2> QED
    BY <2>1, <2>3
<1>7. \A g : <<"asg", g>> \in Objects(as, gs) \cup versions <=> g \in DOMAIN gs
  <2> SUFFICES ASSUME NEW g
               PROVE  <<"asg", g>> \in Objects(as, gs) \cup versions <=> g \in DOMAIN gs
    OBVIOUS
  <2> DEFINE x == <<"asg", g>>
  <2>1. x \notin versions
    BY <1>1, <1>4, Zenon
  <2>2. /\ \A k : x # <<"app", k>> /\ x # <<"lb", k>>
        /\ \A k : x = <<"asg", k>> => k = g
    BY <1>4
  <2>3. x \in Objects(as, gs) <=> g \in DOMAIN gs
    BY <1>3, <2>2, Zenon
  <2> QED
    BY <2>1, <2>3
<1>8. \A l : <<"lb", l>> \in Objects(as, gs) \cup versions <=> \E g \in DOMAIN gs : l \in gs[g]
  <2> SUFFICES ASSUME NEW l
               PROVE  <<"lb", l>> \in Objects(as, gs) \cup versions <=> \E g \in DOMAIN gs : l \in gs[g]
    OBVIOUS
  <2> DEFINE x == <<"lb", l>>
  <2>1. x \notin versions
    BY <1>1, <1>4, Zenon
  <2>2. /\ \A k : x # <<"app", k>> /\ x # <<"asg", k>>
        /\ \A k : x = <<"lb", k>> => k = l
    BY <1>4
  <2>3. x \in Objects(as, gs) <=> \E g \in DOMAIN gs : l \in gs[g]
    BY <1>3, <2>2, Zenon
  <2> QED
    BY <2>1, <2>3
<1>9. \A id, n : <<"version", id, n>> \in Objects(as, gs) \cup versions
                 <=> id \in DOMAIN as /\ n \in DOMAIN as[id].versions
  <2> SUFFICES ASSUME NEW id, NEW n
               PROVE  <<"version", id, n>> \in Objects(as, gs) \cup versions
                        <=> id \in DOMAIN as /\ n \in DOMAIN as[id].versions
    OBVIOUS
  <2> DEFINE x == <<"version", id, n>>
  <2>1. \A k : x # <<"app", k>> /\ x # <<"asg", k>> /\ x # <<"lb", k>>
    BY <1>4, Zenon
  <2>2. x \notin Objects(as, gs)
    BY <1>3, <2>1, Zenon
  <2>3. id \in DOMAIN as /\ n \in DOMAIN as[id].versions => x \in versions
    BY <1>2
  <2>4. ASSUME x \in versions PROVE id \in DOMAIN as /\ n \in DOMAIN as[id].versions
    <3>1. PICK k \in DOMAIN as : \E m \in DOMAIN as[k].versions : x = <<"version", k, m>>
      BY <1>1, <2>4
    <3>2. PICK m \in DOMAIN as[k].versions : x = <<"version", k, m>>
      BY <3>1
    <3>3. k = id /\ m = n
      BY <3>2
    <3> QED
      BY <3>3
  <2> QED
    BY <2>2, <2>3, <2>4
<1> QED
  BY <1>5, <1>6, <1>7, <1>8, <1>9 DEF versions

LEMMA ExistingFacts ==
  /\ \A id : <<"app", id>> \in Existing <=> id \in DOMAIN apps
  /\ \A g : <<"asg", g>> \in Existing <=> g \in DOMAIN asgs
  /\ \A l : <<"lb", l>> \in Existing <=> \E g \in DOMAIN asgs : l \in asgs[g]
  /\ \A id, n : <<"version", id, n>> \in Existing <=> id \in DOMAIN apps /\ n \in DOMAIN apps[id].versions
  /\ \A x \in Existing : x[1] \in {"app", "asg", "lb"} => x = <<x[1], x[2]>>
  BY ObjectsOf, Zenon DEF Existing

LEMMA ExistingThen ==
  /\ \A id : <<"app", id>> \in Existing' <=> id \in DOMAIN apps'
  /\ \A g : <<"asg", g>> \in Existing' <=> g \in DOMAIN asgs'
  /\ \A l : <<"lb", l>> \in Existing' <=> \E g \in DOMAIN asgs' : l \in asgs'[g]
  /\ \A id, n : <<"version", id, n>> \in Existing' <=> id \in DOMAIN apps' /\ n \in DOMAIN apps'[id].versions
<1> DEFINE all == Objects(apps', asgs')
                  \cup UNION {{<<"version", id, n>> : n \in DOMAIN apps'[id].versions} : id \in DOMAIN apps'}
<1>1. Existing' = all
  BY DEF Existing
<1>2. /\ \A id : <<"app", id>> \in all <=> id \in DOMAIN apps'
      /\ \A g : <<"asg", g>> \in all <=> g \in DOMAIN asgs'
      /\ \A l : <<"lb", l>> \in all <=> \E g \in DOMAIN asgs' : l \in asgs'[g]
      /\ \A id, n : <<"version", id, n>> \in all <=> id \in DOMAIN apps' /\ n \in DOMAIN apps'[id].versions
  BY ObjectsOf
<1> HIDE DEF all
<1> QED
  BY <1>1, <1>2

\* Steps on applications and steps on ASGs; what either leaves behind.
AppsMove ==
  /\ created' \in created..MaxID
  /\ DOMAIN apps' \subseteq DOMAIN apps \cup ((created + 1)..created')
  /\ AppsFine'
  /\ \A id \in DOMAIN apps \cap DOMAIN apps' :
       /\ apps[id].last <= apps'[id].last
       /\ \A n \in DOMAIN apps'[id].versions :
            n \in DOMAIN apps[id].versions \/ n > apps[id].last

ASGsMove ==
  /\ created' \in created..MaxID
  /\ DOMAIN asgs' \subseteq DOMAIN asgs \cup ((created + 1)..created')
  /\ ASGsFine'
  /\ \A g \in DOMAIN asgs' : \A l \in asgs'[g] :
       (g \in DOMAIN asgs /\ l \in asgs[g]) \/ l \in (created + 1)..created'

LEMMA AppsStand ==
  ASSUME Cluster, UNCHANGED apps, created' \in created..MaxID
  PROVE  AppsMove
<1>1. created \in Nat /\ created' \in Nat /\ created <= created'
  BY BoundsAssumption DEF Cluster
<1>2. \A id \in DOMAIN apps : apps[id].last \in Nat
  BY BoundsAssumption DEF Cluster, AppsFine, Application
<1> QED
  BY <1>1, <1>2 DEF Cluster, AppsMove, AppsFine

LEMMA ASGsStand ==
  ASSUME Cluster, UNCHANGED asgs, created' \in created..MaxID
  PROVE  ASGsMove
<1>1. created \in Nat /\ created' \in Nat /\ created <= created'
  BY BoundsAssumption DEF Cluster
<1> QED
  BY <1>1 DEF Cluster, ASGsMove, ASGsFine

LEMMA FreshID ==
  ASSUME Cluster, Fresh
  PROVE  /\ created \in Nat /\ created' = created + 1 /\ created' \in created..MaxID
         /\ created + 1 \in 1..created' /\ created + 1 \in (created + 1)..created'
         /\ created + 1 \notin DOMAIN apps /\ created + 1 \notin DOMAIN asgs
<1>1. created \in 0..MaxID /\ MaxID \in Nat /\ created < MaxID /\ created' = created + 1
  BY BoundsAssumption DEF Cluster, Fresh
<1>2. created + 1 \notin DOMAIN apps /\ created + 1 \notin DOMAIN asgs
  BY <1>1 DEF Cluster, AppsFine, ASGsFine
<1> QED
  BY <1>1, <1>2

\* One application is changed or created, the others stay.
LEMMA OneApp ==
  ASSUME Cluster, created' \in created..MaxID,
         NEW id \in 1..created', NEW app,
         DOMAIN apps' \subseteq DOMAIN apps \cup {id},
         \A other \in DOMAIN apps' : apps'[other] = IF other = id THEN app ELSE apps[other],
         app \in Application(app.versions), DOMAIN app.versions \subseteq 1..app.last,
         app.active \in {0} \cup DOMAIN app.versions,
         id \in DOMAIN apps \/ id = created + 1,
         id \in DOMAIN apps =>
           /\ apps[id].last <= app.last
           /\ \A n1 \in DOMAIN app.versions : n1 \in DOMAIN apps[id].versions \/ n1 > apps[id].last
  PROVE  AppsMove
<1>1. created \in Nat /\ created' \in Nat /\ created <= created'
  BY BoundsAssumption DEF Cluster
<1>2. AppsFine'
  BY <1>1 DEF Cluster, AppsFine
<1>3. DOMAIN apps' \subseteq DOMAIN apps \cup ((created + 1)..created')
  BY <1>1
<1>4. \A other \in DOMAIN apps : apps[other].last \in Nat
  BY BoundsAssumption DEF Cluster, AppsFine, Application
<1> QED
  BY <1>1, <1>2, <1>3, <1>4 DEF AppsMove

LEMMA AppChanged ==
  ASSUME Cluster, NEW id \in DOMAIN apps, NEW app,
         apps' = [apps EXCEPT ![id] = app], asgs' = asgs, created' = created,
         app \in Application(app.versions), DOMAIN app.versions \subseteq 1..app.last,
         app.active \in {0} \cup DOMAIN app.versions, apps[id].last <= app.last,
         \A n \in DOMAIN app.versions : n \in DOMAIN apps[id].versions \/ n > apps[id].last
  PROVE  AppsMove /\ ASGsMove /\ UNCHANGED asgs
<1>1. created' \in created..MaxID /\ id \in 1..created'
  BY BoundsAssumption DEF Cluster, AppsFine
<1>2. /\ DOMAIN apps' \subseteq DOMAIN apps \cup {id}
      /\ \A other \in DOMAIN apps' : apps'[other] = IF other = id THEN app ELSE apps[other]
  OBVIOUS
<1>3. AppsMove
  BY <1>1, <1>2, OneApp
<1> QED
  BY <1>1, <1>3, ASGsStand

LEMMA AppsSteps ==
  ASSUME Cluster,
         \/ \E name \in AppNames : CreateApplication(name)
         \/ \E id \in DOMAIN apps :
              \/ DeleteApplication(id)
              \/ \E c \in Contents : PostVersion(id, c)
              \/ \E n \in DOMAIN apps[id].versions : Activate(id, n) \/ DeleteVersion(id, n)
  PROVE  AppsMove /\ ASGsMove /\ UNCHANGED asgs
<1>0. created \in 0..MaxID /\ MaxID \in Nat /\ MaxVersion \in Nat
  BY BoundsAssumption DEF Cluster
<1>1. ASSUME NEW name \in AppNames, CreateApplication(name)
      PROVE  AppsMove /\ ASGsMove /\ UNCHANGED asgs
  <2> DEFINE app == [name |-> name, active |-> 0, versions |-> <<>>, last |-> 0]
  <2>1. Fresh /\ apps' = With(apps, created + 1, app) /\ UNCHANGED asgs
    BY <1>1 DEF CreateApplication
  <2>2. /\ created' \in created..MaxID /\ created + 1 \in 1..created'
        /\ created + 1 \notin DOMAIN apps
    BY <2>1, FreshID
  <2>3. /\ DOMAIN apps' \subseteq DOMAIN apps \cup {created + 1}
        /\ \A other \in DOMAIN apps' :
             apps'[other] = IF other = created + 1 THEN app ELSE apps[other]
    BY <2>1 DEF With
  <2>4. DOMAIN <<>> = {}
    OBVIOUS
  <2>5. /\ app \in Application(app.versions) /\ DOMAIN app.versions \subseteq 1..app.last
        /\ app.active \in {0} \cup DOMAIN app.versions
    BY <1>0, <2>4 DEF Application
  <2> HIDE DEF app
  <2>6. AppsMove
    BY <2>2, <2>3, <2>5, OneApp
  <2> QED
    BY <2>1, <2>2, <2>6, ASGsStand
<1>3. ASSUME NEW id \in DOMAIN apps, DeleteApplication(id)
      PROVE  AppsMove /\ ASGsMove /\ UNCHANGED asgs
  <2>1. /\ DOMAIN apps' = DOMAIN apps \ {id} /\ UNCHANGED <<asgs, created>>
        /\ \A other \in DOMAIN apps' : apps'[other] = apps[other]
    BY <1>3 DEF DeleteApplication, Without
  <2>2. created' \in created..MaxID /\ \A other \in DOMAIN apps : apps[other].last \in Nat
    BY <1>0, <2>1 DEF Cluster, AppsFine, Application
  <2>3. AppsMove
    BY <1>0, <2>1, <2>2 DEF Cluster, AppsMove, AppsFine
  <2> QED
    BY <2>1, <2>2, <2>3, ASGsStand
<1>4. ASSUME NEW id \in DOMAIN apps
      PROVE  /\ apps[id] \in Application(apps[id].versions) /\ apps[id].last \in 0..MaxVersion
             /\ DOMAIN apps[id].versions \subseteq 1..apps[id].last
             /\ apps[id].active \in {0} \cup DOMAIN apps[id].versions
  BY DEF Cluster, AppsFine, Application
<1>5. ASSUME NEW id \in DOMAIN apps, NEW c \in Contents, PostVersion(id, c)
      PROVE  AppsMove /\ ASGsMove /\ UNCHANGED asgs
  <2> DEFINE n == apps[id].last + 1
             vs == With(apps[id].versions, n, c)
             app == [apps[id] EXCEPT !.last = n, !.versions = vs]
  <2>1. apps[id].last < MaxVersion /\ apps' = [apps EXCEPT ![id] = app]
        /\ UNCHANGED <<asgs, created>>
    BY <1>5 DEF PostVersion
  <2>2. DOMAIN vs = DOMAIN apps[id].versions \cup {n}
    BY DEF With
  <2>3. n \in 1..MaxVersion /\ n > apps[id].last
    BY <1>0, <1>4, <2>1
  <2> HIDE DEF vs, n
  <2>4. app.last = n /\ app.versions = vs /\ app.active = apps[id].active /\ app \in Application(vs)
    <3> DEFINE old == apps[id]
    <3>1. old \in [name : AppNames, active : Nat, versions : {old.versions}, last : 0..MaxVersion]
      BY <1>4 DEF Application
    <3>2. n \in 0..MaxVersion
      BY <1>0, <2>3
    <3> HIDE DEF old
    <3>3. app \in [name : AppNames, active : Nat, versions : {vs}, last : 0..MaxVersion]
      BY <3>1, <3>2 DEF old
    <3>4. app.last = n /\ app.versions = vs /\ app.active = old.active
      BY <3>1 DEF old
    <3> QED
      BY <3>3, <3>4 DEF Application, old
  <2>5. DOMAIN vs \subseteq 1..n
    BY <1>4, <2>2, <2>3
  <2> HIDE DEF app
  <2>9. /\ apps' = [apps EXCEPT ![id] = app] /\ asgs' = asgs /\ created' = created
        /\ app \in Application(app.versions) /\ DOMAIN app.versions \subseteq 1..app.last
        /\ app.active \in {0} \cup DOMAIN app.versions /\ apps[id].last <= app.last
        /\ \A k \in DOMAIN app.versions : k \in DOMAIN apps[id].versions \/ k > apps[id].last
    BY <1>0, <1>4, <2>1, <2>2, <2>3, <2>4, <2>5
  <2> QED
    BY <2>9, AppChanged
<1>6. ASSUME NEW id \in DOMAIN apps, NEW n \in DOMAIN apps[id].versions, Activate(id, n)
      PROVE  AppsMove /\ ASGsMove /\ UNCHANGED asgs
  <2> DEFINE app == [apps[id] EXCEPT !.active = n]
  <2>1. apps' = [apps EXCEPT ![id] = app] /\ UNCHANGED <<asgs, created>>
    BY <1>6 DEF Activate
  <2>2. /\ app.last = apps[id].last /\ app.versions = apps[id].versions /\ app.active = n
        /\ app \in Application(app.versions)
    BY <1>4 DEF Application
  <2> HIDE DEF app
  <2>9. /\ apps' = [apps EXCEPT ![id] = app] /\ asgs' = asgs /\ created' = created
        /\ app \in Application(app.versions) /\ DOMAIN app.versions \subseteq 1..app.last
        /\ app.active \in {0} \cup DOMAIN app.versions /\ apps[id].last <= app.last
        /\ \A k \in DOMAIN app.versions : k \in DOMAIN apps[id].versions \/ k > apps[id].last
    BY <1>0, <1>4, <2>1, <2>2
  <2> QED
    BY <2>9, AppChanged
<1>7. ASSUME NEW id \in DOMAIN apps, NEW n \in DOMAIN apps[id].versions, DeleteVersion(id, n)
      PROVE  AppsMove /\ ASGsMove /\ UNCHANGED asgs
  <2> DEFINE vs == Without(apps[id].versions, n)
             app == [apps[id] EXCEPT !.versions = vs]
  <2>1. apps' = [apps EXCEPT ![id] = app] /\ UNCHANGED <<asgs, created>> /\ apps[id].active # n
    BY <1>7 DEF DeleteVersion
  <2>2. DOMAIN vs = DOMAIN apps[id].versions \ {n}
    BY DEF Without
  <2> HIDE DEF vs
  <2>3. /\ app.last = apps[id].last /\ app.versions = vs /\ app.active = apps[id].active
        /\ app \in Application(app.versions)
    BY <1>4 DEF Application
  <2> HIDE DEF app
  <2>9. /\ apps' = [apps EXCEPT ![id] = app] /\ asgs' = asgs /\ created' = created
        /\ app \in Application(app.versions) /\ DOMAIN app.versions \subseteq 1..app.last
        /\ app.active \in {0} \cup DOMAIN app.versions /\ apps[id].last <= app.last
        /\ \A k \in DOMAIN app.versions : k \in DOMAIN apps[id].versions \/ k > apps[id].last
    BY <1>0, <1>4, <2>1, <2>2, <2>3
  <2> QED
    BY <2>9, AppChanged
<1> QED
  BY <1>1, <1>3, <1>5, <1>6, <1>7

LEMMA ASGsSteps ==
  ASSUME Cluster,
         \/ CreateASG
         \/ \E id \in DOMAIN asgs :
              DeleteASG(id) \/ CreateLB(id) \/ \E l \in asgs[id] : DeleteLB(id, l)
  PROVE  AppsMove /\ ASGsMove /\ UNCHANGED apps
<1>0. created \in 0..MaxID /\ MaxID \in Nat
  BY BoundsAssumption DEF Cluster
<1>1. CASE CreateASG
  <2>1. Fresh /\ asgs' = With(asgs, created + 1, {}) /\ UNCHANGED apps
    BY <1>1 DEF CreateASG
  <2>2. /\ created' \in created..MaxID /\ created + 1 \in (created + 1)..created'
        /\ created + 1 \in 1..created' /\ created + 1 \notin DOMAIN asgs
    BY <2>1, FreshID
  <2>3. /\ DOMAIN asgs' = DOMAIN asgs \cup {created + 1}
        /\ \A g \in DOMAIN asgs' : asgs'[g] = IF g = created + 1 THEN {} ELSE asgs[g]
    BY <2>1 DEF With
  <2>4. ASGsMove
    BY <1>0, <2>2, <2>3 DEF Cluster, ASGsMove, ASGsFine
  <2> QED
    BY <2>1, <2>2, <2>4, AppsStand
<1>2. ASSUME NEW id \in DOMAIN asgs, DeleteASG(id)
      PROVE  AppsMove /\ ASGsMove /\ UNCHANGED apps
  <2>1. /\ DOMAIN asgs' = DOMAIN asgs \ {id} /\ UNCHANGED <<apps, created>>
        /\ \A g \in DOMAIN asgs' : asgs'[g] = asgs[g]
    BY <1>2 DEF DeleteASG, Without
  <2>2. ASGsMove
    BY <1>0, <2>1 DEF Cluster, ASGsMove, ASGsFine
  <2>3. created' \in created..MaxID
    BY <1>0, <2>1
  <2> QED
    BY <2>1, <2>2, <2>3, AppsStand
<1>3. ASSUME NEW id \in DOMAIN asgs, CreateLB(id)
      PROVE  AppsMove /\ ASGsMove /\ UNCHANGED apps
  <2>1. Fresh /\ asgs' = [asgs EXCEPT ![id] = asgs[id] \cup {created + 1}] /\ UNCHANGED apps
    BY <1>3 DEF CreateLB
  <2>2. /\ created' \in created..MaxID /\ created + 1 \in (created + 1)..created'
        /\ created + 1 \in 1..created'
    BY <2>1, FreshID
  <2>3. /\ DOMAIN asgs' = DOMAIN asgs
        /\ \A g \in DOMAIN asgs :
             asgs'[g] = IF g = id THEN asgs[id] \cup {created + 1} ELSE asgs[g]
    BY <2>1
  <2>4. \A g \in DOMAIN asgs : created + 1 \notin asgs[g]
    BY <1>0 DEF Cluster, ASGsFine
  <2>5. ASGsFine'
    BY <1>0, <2>2, <2>3, <2>4 DEF Cluster, ASGsFine
  <2>6. ASGsMove
    BY <2>2, <2>3, <2>5 DEF ASGsMove
  <2> QED
    BY <2>1, <2>2, <2>6, AppsStand
<1>4. ASSUME NEW id \in DOMAIN asgs, NEW l \in asgs[id], DeleteLB(id, l)
      PROVE  AppsMove /\ ASGsMove /\ UNCHANGED apps
  <2>1. /\ DOMAIN asgs' = DOMAIN asgs /\ UNCHANGED <<apps, created>>
        /\ \A g \in DOMAIN asgs : asgs'[g] = IF g = id THEN asgs[id] \ {l} ELSE asgs[g]
    BY <1>4 DEF DeleteLB
  <2>2. ASGsMove
    BY <1>0, <2>1 DEF Cluster, ASGsMove, ASGsFine
  <2>3. created' \in created..MaxID
    BY <1>0, <2>1
  <2> QED
    BY <2>1, <2>2, <2>3, AppsStand
<1> QED
  BY <1>1, <1>2, <1>3, <1>4

\* What exists after others moved existed before, if its number had been given.
LEMMA OthersMove ==
  ASSUME Cluster, Others
  PROVE  /\ Cluster' /\ AppsMove /\ ASGsMove
         /\ through' \subseteq through /\ UNCHANGED <<newFirst, cmd>>
<1>1. through' = through \cap Existing' /\ UNCHANGED <<newFirst, cmd>>
  BY DEF Others, Move
<1>2. AppsMove /\ ASGsMove /\ (UNCHANGED apps \/ UNCHANGED asgs)
  BY AppsSteps, ASGsSteps DEF Others
<1>3. created \in 0..MaxID /\ MaxID \in Nat /\ created' \in 0..MaxID
  BY <1>2, BoundsAssumption DEF Cluster, AppsMove
<1>4. DOMAIN apps' \cap DOMAIN asgs' = {}
  <2>1. DOMAIN apps \cup DOMAIN asgs \subseteq 1..created
    BY DEF Cluster, AppsFine, ASGsFine
  <2>2. DOMAIN apps \cap DOMAIN asgs = {}
    BY DEF Cluster
  <2> QED
    BY <1>2, <1>3, <2>1, <2>2 DEF AppsMove, ASGsMove
<1>5. StaysFine'
  <2> SUFFICES ASSUME NEW g \in DOMAIN asgs', NEW l \in asgs'[g], <<"lb", l>> \in through'
               PROVE  <<"asg", g>> \in through'
    BY <1>1 DEF StaysFine
  <2>1. <<"lb", l>> \in Existing
    BY <1>1 DEF Cluster, StaysFine
  <2>2. PICK h \in DOMAIN asgs : l \in asgs[h]
    BY <2>1, ExistingFacts
  <2>3. l \in 1..created
    BY <2>2 DEF Cluster, ASGsFine
  <2>4. g \in DOMAIN asgs /\ l \in asgs[g]
    BY <1>2, <1>3, <2>3 DEF ASGsMove
  <2>5. <<"asg", g>> \in through
    BY <1>1, <2>4 DEF Cluster, StaysFine
  <2> QED
    BY <1>1, <2>5, ExistingThen
<1> QED
  BY <1>1, <1>2, <1>3, <1>4, <1>5 DEF Cluster, AppsMove, ASGsMove

LEMMA ProgressLess ==
  ASSUME NEW down, NEW cursor, NEW found, NEW stay, NEW less \in SUBSET stay,
         Progress(down, cursor, found, stay)
  PROVE  Progress(down, cursor, found, less)
  BY DEF Progress

LEMMA GivenStays ==
  ASSUME Cluster, AppsMove, NEW app, NEW n \in Nat, app \in Nat, Given(app, n)
  PROVE  /\ Given(app, n)'
         /\ <<"version", app, n>> \in Existing' => <<"version", app, n>> \in Existing
<1>1. created \in Nat /\ created' \in Nat /\ created <= created'
  BY BoundsAssumption DEF Cluster, AppsMove
<1>2. app \in DOMAIN apps' => app \in DOMAIN apps
  BY <1>1 DEF AppsMove, Given
<1>3. app \in DOMAIN apps' => apps[app].last \in Nat /\ apps'[app].last \in Nat
  BY <1>2, BoundsAssumption DEF Cluster, AppsMove, AppsFine, Application
<1>4. Given(app, n)'
  BY <1>1, <1>2, <1>3 DEF Given, AppsMove
<1>5. app \in DOMAIN apps' /\ n \in DOMAIN apps'[app].versions => n \in DOMAIN apps[app].versions
  BY <1>2, <1>3 DEF AppsMove, Given
<1> QED
  BY <1>2, <1>4, <1>5, ExistingFacts, ExistingThen

\* No step of others breaks what a running command relies on.
LEMMA OthersInv == Inv /\ Others => Inv'
<1> SUFFICES ASSUME Inv, Others PROVE Inv'
  OBVIOUS
<1>1. /\ Cluster' /\ AppsMove /\ ASGsMove
      /\ through' \subseteq through /\ cmd' = cmd /\ newFirst' = newFirst
  BY OthersMove DEF Inv, Typed
<1>2. Typed'
  <2>1. moves' \in 0..MaxMoves
    BY BoundsAssumption DEF Inv, Typed, Others, Move
  <2> QED
    BY <1>1, <2>1 DEF Inv, Typed
<1>3. \A kind : Stay(kind)' \subseteq Stay(kind)
  BY <1>1 DEF Stay
<1>4. created \in Nat /\ created' \in Nat /\ created <= created'
  BY <1>1, BoundsAssumption DEF Inv, Typed, Cluster, AppsMove
<1>5. \A kind, id : Has(kind, id)' = Has(kind, id)
  BY <1>1 DEF Has
<1>6. cmd \in Commands(cmd)
  BY DEF Inv, Typed
<1>7. AtASGs'
  BY <1>1, <1>3, ProgressLess DEF Inv, AtASGs
<1>8. AtLBs'
  <2> SUFFICES ASSUME cmd.pc \in {"lbs", "lb"} PROVE AtLBs'
    BY <1>1 DEF AtLBs
  <2>1. \A l : Behind(l)' = Behind(l) /\ Ahead(l)' = Ahead(l)
    BY <1>1 DEF Behind, Ahead
  <2>2. \A l : Has("lb", l) => l <= created'
    <3> SUFFICES ASSUME NEW l, Has("lb", l) PROVE l <= created'
      OBVIOUS
    <3>1. l <= created
      BY DEF Inv, AtLBs
    <3>2. l \in Nat
      <4>1. PICK i \in DOMAIN cmd.out : cmd.out[i] = <<"lb", l>>
        BY DEF Has, ToSet
      <4>2. cmd.out \in Seq({"app", "asg", "lb"} \X IDs)
        BY <1>6 DEF Commands
      <4>3. cmd.out[i] \in {"app", "asg", "lb"} \X IDs
        BY <4>2, LenProperties, ElementOfSeq
      <4> QED
        BY <4>1, <4>3 DEF IDs
    <3> QED
      BY <1>4, <3>1, <3>2
  <2>3. ASSUME NEW l, Has("lb", l), NEW g \in DOMAIN asgs', l \in asgs'[g]
        PROVE  Has("asg", g) \/ (g = Head(cmd.todo) /\ Behind(l))
    <3>1. l <= created
      BY <2>3 DEF Inv, AtLBs
    <3>2. g \in DOMAIN asgs /\ l \in asgs[g]
      BY <1>1, <1>4, <2>3, <3>1 DEF ASGsMove
    <3> QED
      BY <2>3, <3>2 DEF Inv, AtLBs
  <2>4. ASSUME NEW g \in DOMAIN asgs', NEW l \in asgs'[g], <<"lb", l>> \in through'
        PROVE  Has("lb", l) \/ g \in ToSet(Tail(cmd.todo)) \/ (g = Head(cmd.todo) /\ Ahead(l))
    <3>1. <<"lb", l>> \in through
      BY <1>1, <2>4
    <3>2. \E h \in DOMAIN asgs : l \in asgs[h]
      BY <3>1, ExistingFacts DEF Inv, Typed, Cluster, StaysFine
    <3>3. l \in 1..created
      BY <3>2 DEF Inv, Typed, Cluster, ASGsFine
    <3>4. g \in DOMAIN asgs /\ l \in asgs[g]
      BY <1>1, <1>4, <3>3 DEF ASGsMove
    <3> QED
      BY <3>1, <3>4 DEF Inv, AtLBs
  <2>5. \A id \in Stay("asg")' : Has("asg", id) \/ id \in ToSet(cmd.todo)
    BY <1>3 DEF Inv, AtLBs
  <2> QED
    BY <1>1, <1>5, <2>1, <2>2, <2>3, <2>4, <2>5 DEF Inv, AtLBs
<1>9. AtApps'
  <2> SUFFICES ASSUME cmd.pc \in {"find", "apps"} PROVE AtApps'
    BY <1>1 DEF AtApps
  <2>1. Progress(FALSE, cmd.cursor, Ids(cmd.found), Stay("app")')
    BY <1>3, ProgressLess DEF Inv, AtApps
  <2>2. ASSUME NEW i \in DOMAIN cmd.found
        PROVE  Given(cmd.found[i].id, cmd.found[i].active)'
    <3>1. cmd.found[i] \in Item
      BY LenProperties, ElementOfSeq DEF Inv, AtApps
    <3>2. cmd.found[i].id \in Nat /\ cmd.found[i].active \in Nat
      BY <3>1 DEF Item, IDs
    <3>3. Given(cmd.found[i].id, cmd.found[i].active)
      BY DEF Inv, AtApps
    <3> DEFINE id == cmd.found[i].id
               n == cmd.found[i].active
    <3>4. id' = id /\ n' = n
      BY <1>1
    <3> HIDE DEF id, n
    <3>5. \A a \in Nat, k \in Nat : Given(a, k) =>
           a <= created' /\ (a \in DOMAIN apps' => k <= apps'[a].last)
      BY <1>1, GivenStays DEF Inv, Typed, Given
    <3> QED
      BY <1>1, <3>2, <3>3, <3>5 DEF Given
  <2>3. cmd.pc = "apps" => (Built /\ \A id : ~Has("app", id))'
    BY <1>1, <1>5 DEF Inv, AtApps, Built
  <2> QED
    BY <1>1, <2>1, <2>2, <2>3 DEF Inv, AtApps
<1>10. AtDumping'
  <2>1. Built => Built'
    BY <1>1 DEF Built
  <2> QED
    BY <1>1, <1>3, <1>5, <2>1 DEF Inv, AtDumping
<1>11. AtVersions'
  <2> SUFFICES ASSUME cmd.kind = "versions", cmd.pc \in {"pages", "done"} PROVE AtVersions'
    BY <1>1 DEF AtVersions
  <2>1. Given(cmd.app, cmd.active) /\ cmd.app \in Nat /\ cmd.active \in Nat
    BY <1>6 DEF Inv, AtVersions, Commands
  <2>2. /\ Given(cmd.app, cmd.active)'
        /\ <<"version", cmd.app, cmd.active>> \in Existing' => <<"version", cmd.app, cmd.active>> \in Existing
    BY <1>1, <2>1, GivenStays DEF Inv, Typed, Given
  <2>3. Kept' \subseteq Kept
    BY <1>1, <2>2 DEF Kept
  <2>4. Progress(newFirst, cmd.cursor, cmd.found, Kept) =>
          Progress(newFirst, cmd.cursor, cmd.found, Kept')
    BY <2>3, ProgressLess
  <2> QED
    BY <1>1, <2>2, <2>3, <2>4 DEF Inv, AtVersions
<1>12. AtReads'
  BY <1>1 DEF Inv, AtReads
<1>13. NewestFirst' => Recent'
  <2>1. NewestFirst' = NewestFirst
    BY <1>1 DEF NewestFirst
  <2>2. \A app, n : Newest(app, n) => Newest(app, n)'
    BY <1>1 DEF Newest
  <2> QED
    BY <1>1, <2>1, <2>2 DEF Inv, Recent, Reading
<1> QED
  BY <1>2, <1>7, <1>8, <1>9, <1>10, <1>11, <1>12, <1>13 DEF Inv

-----------------------------------------------------------------------------
\* What the running command does.

Framed == UNCHANGED <<service, through>> /\ moves' \in 0..MaxMoves

LEMMA Frame ==
  ASSUME Framed
  PROVE  /\ apps' = apps /\ asgs' = asgs /\ created' = created /\ newFirst' = newFirst
         /\ through' = through /\ Existing' = Existing
         /\ \A kind : Stay(kind)' = Stay(kind)
         /\ \A app, n : Given(app, n)' = Given(app, n) /\ Newest(app, n)' = Newest(app, n)
         /\ NewestFirst' = NewestFirst
         /\ Cluster => Cluster'
<1>1. /\ apps' = apps /\ asgs' = asgs /\ created' = created /\ newFirst' = newFirst
      /\ through' = through
  BY DEF Framed, service
<1> QED
  BY <1>1 DEF Existing, Objects, Stay, Given, Newest, NewestFirst, Cluster, AppsFine, ASGsFine,
              StaysFine

\* What is recent stays so.
LEMMA RecentStays ==
  ASSUME Inv, Framed, cmd'.specs = cmd.specs, cmd'.pc # "detail",
         cmd'.kind = "diff" /\ cmd'.pc \in {"from", "to", "done"} => cmd'.latest = 0
  PROVE  NewestFirst' => Recent'
<1> SUFFICES ASSUME NewestFirst' PROVE Recent'
  OBVIOUS
<1>1. \A s \in cmd.specs : Newest(s[1], s[2])
  BY Frame DEF Inv, Recent
<1>2. \A s \in cmd'.specs : Newest(s[1], s[2])'
  BY <1>1, Frame
<1> QED
  BY <1>2 DEF Recent

\* Each part of the invariant is about some control states.
LEMMA Elsewhere ==
  /\ cmd'.pc # "asgs" => AtASGs'
  /\ cmd'.pc \notin {"lbs", "lb"} => AtLBs'
  /\ cmd'.pc \notin {"find", "apps"} => AtApps'
  /\ cmd'.pc \notin {"latest", "detail", "done"} \/ cmd'.kind # "dump" => AtDumping'
  /\ cmd'.pc \notin {"pages", "done"} \/ cmd'.kind # "versions" => AtVersions'
  /\ cmd'.pc \notin {"latest", "detail", "pages", "from", "to"} => AtReads'
<1>1. cmd'.pc # "asgs" => AtASGs'
  BY DEF AtASGs
<1>2. cmd'.pc \notin {"lbs", "lb"} => AtLBs'
  BY DEF AtLBs
<1>3. cmd'.pc \notin {"find", "apps"} => AtApps'
  BY DEF AtApps
<1>4. cmd'.pc \notin {"latest", "detail", "done"} \/ cmd'.kind # "dump" => AtDumping'
  BY DEF AtDumping
<1>5. cmd'.pc \notin {"pages", "done"} \/ cmd'.kind # "versions" => AtVersions'
  BY DEF AtVersions
<1>6. cmd'.pc \notin {"latest", "detail", "pages", "from", "to"} => AtReads'
  BY DEF AtReads
<1> QED
  BY <1>1, <1>2, <1>3, <1>4, <1>5, <1>6

\* A command that has failed relies on nothing.
LEMMA Fails ==
  ASSUME Inv, Framed, cmd' \in Commands(cmd'), cmd'.pc = "failed", cmd'.specs = cmd.specs
  PROVE  Inv'
<1>1. Typed'
  BY Frame DEF Inv, Typed, Framed
<1>2. AtASGs' /\ AtLBs' /\ AtApps' /\ AtDumping' /\ AtVersions' /\ AtReads'
  BY Elsewhere
<1>3. NewestFirst' => Recent'
  BY RecentStays
<1> QED
  BY <1>1, <1>2, <1>3 DEF Inv

LEMMA FailedFine ==
  cmd \in Commands(cmd) =>
    Failed \in Commands(Failed) /\ Failed.pc = "failed" /\ Failed.specs = cmd.specs
BY DEF Commands, Failed

LEMMA FailedInv == ASSUME Inv, Framed, cmd' = Failed PROVE Inv'
BY Fails, FailedFine DEF Inv, Typed

\* What is listed, and what of it stays.
LEMMA Listings ==
  ASSUME Cluster
  PROVE  /\ DOMAIN asgs \subseteq IDs /\ IsFiniteSet(DOMAIN asgs) /\ Stay("asg") \subseteq DOMAIN asgs
         /\ DOMAIN apps \subseteq IDs /\ IsFiniteSet(DOMAIN apps) /\ Stay("app") \subseteq DOMAIN apps
         /\ \A g \in DOMAIN asgs : asgs[g] \subseteq IDs /\ IsFiniteSet(asgs[g])
         /\ \A a \in DOMAIN apps : /\ DOMAIN apps[a].versions \subseteq IDs
                                   /\ IsFiniteSet(DOMAIN apps[a].versions)
                                   /\ Cardinality(DOMAIN apps[a].versions) <= MaxVersion
                                   /\ Cardinality(DOMAIN apps[a].versions) \in Nat
<1>1. created \in Nat /\ MaxVersion \in Nat
  BY BoundsAssumption DEF Cluster
<1>2. IsFiniteSet(1..created) /\ 1..created \subseteq IDs
  BY <1>1, FS_Interval DEF IDs
<1>3. \A S : S \subseteq 1..created => S \subseteq IDs /\ IsFiniteSet(S)
  BY <1>2, FS_Subset
<1>4. DOMAIN asgs \subseteq 1..created /\ DOMAIN apps \subseteq 1..created
  BY DEF Cluster, AppsFine, ASGsFine
<1>5. \A g \in DOMAIN asgs : asgs[g] \subseteq 1..created
  BY DEF Cluster, ASGsFine
<1>6. Stay("asg") \subseteq DOMAIN asgs /\ Stay("app") \subseteq DOMAIN apps
  BY ExistingFacts DEF Stay, Cluster, StaysFine
<1>7. ASSUME NEW a \in DOMAIN apps
      PROVE  /\ DOMAIN apps[a].versions \subseteq IDs /\ IsFiniteSet(DOMAIN apps[a].versions)
             /\ Cardinality(DOMAIN apps[a].versions) <= MaxVersion
             /\ Cardinality(DOMAIN apps[a].versions) \in Nat
  <2>1. apps[a].last \in 0..MaxVersion /\ DOMAIN apps[a].versions \subseteq 1..apps[a].last
    BY DEF Cluster, AppsFine, Application
  <2>2. DOMAIN apps[a].versions \subseteq 1..MaxVersion /\ 1..MaxVersion \subseteq IDs
    BY <1>1, <2>1 DEF IDs
  <2>3. IsFiniteSet(1..MaxVersion) /\ Cardinality(1..MaxVersion) = MaxVersion
    BY <1>1, FS_Interval
  <2> QED
    BY <2>2, <2>3, FS_Subset, FS_CardinalityType
<1> QED
  BY <1>3, <1>4, <1>5, <1>6, <1>7

LEMMA EmptyLists ==
  /\ Once(<<>>) /\ ToSet(<<>>) = {} /\ \A T : <<>> \in Seq(T)
  /\ Ids(<<>>) = <<>>
  /\ \A down, stay : Progress(down, 0, <<>>, stay)
<1>1. DOMAIN <<>> = {}
  OBVIOUS
<1>2. Once(<<>>) /\ ToSet(<<>>) = {}
  BY <1>1 DEF Once, ToSet
<1>3. \A T : <<>> \in Seq(T)
  BY EmptySeq
<1>4. Ids(<<>>) = <<>>
  BY <1>1 DEF Ids
<1>5. \A down : Sorted(down, <<>>)
  BY <1>1 DEF Sorted
<1> QED
  BY <1>2, <1>3, <1>4, <1>5 DEF Progress

LEMMA ListASGsInv == Inv /\ ListASGs => Inv'
<1> SUFFICES ASSUME Inv, ListASGs PROVE Inv'
  OBVIOUS
<1> DEFINE new == cmd.found \o Page(DOMAIN asgs, FALSE)
           cursor == NextCursor(DOMAIN asgs, FALSE)
           next == IF cursor # 0 THEN [cmd EXCEPT !.found = new, !.cursor = cursor]
                   ELSE [cmd EXCEPT !.pc = IF new = <<>> THEN "apps" ELSE "lbs",
                                    !.found = <<>>, !.cursor = 0, !.todo = new]
<1>1. cmd.pc = "asgs" /\ cmd' = next
  BY DEF ListASGs, Go
<1>2. Framed
  BY DEF ListASGs, Go, Framed, Inv, Typed
<1>3. /\ cmd.kind = "dump" /\ cmd.out = <<>> /\ cmd.found \in Seq(IDs)
      /\ Progress(FALSE, cmd.cursor, cmd.found, Stay("asg"))
  BY <1>1 DEF Inv, AtASGs
<1>4. /\ new \in Seq(IDs) /\ Sorted(FALSE, new) /\ cursor \in Nat
      /\ cursor = 0 => Stay("asg") \subseteq ToSet(new)
      /\ cursor # 0 => Progress(FALSE, cursor, new, Stay("asg"))
  BY <1>3, ListingStep, Listings DEF Inv, Typed
<1> HIDE DEF new, cursor
<1>5. /\ cmd' \in Commands(cmd') /\ cmd'.kind = "dump" /\ cmd'.out = <<>> /\ cmd'.specs = cmd.specs
      /\ cursor # 0 => cmd'.pc = "asgs" /\ cmd'.found = new /\ cmd'.cursor = cursor
      /\ cursor = 0 => /\ cmd'.pc = IF new = <<>> THEN "apps" ELSE "lbs"
                       /\ cmd'.found = <<>> /\ cmd'.cursor = 0 /\ cmd'.todo = new
  <2>1. cmd \in Commands(cmd)
    BY DEF Inv, Typed
  <2>2. CASE cursor # 0
    <3>1. cmd' = [cmd EXCEPT !.found = new, !.cursor = cursor]
      BY <1>1, <2>2
    <3>2. cmd' \in Commands(cmd')
      BY <1>4, <2>1, <3>1 DEF Commands
    <3>3. /\ cmd'.kind = "dump" /\ cmd'.out = <<>> /\ cmd'.specs = cmd.specs
          /\ cmd'.pc = "asgs" /\ cmd'.found = new /\ cmd'.cursor = cursor
      BY <1>1, <1>3, <2>1, <3>1 DEF Commands
    <3> QED
      BY <2>2, <3>2, <3>3
  <2>3. CASE cursor = 0
    <3> DEFINE pc == IF new = <<>> THEN "apps" ELSE "lbs"
    <3>1. cmd' = [cmd EXCEPT !.pc = pc, !.found = <<>>, !.cursor = 0, !.todo = new]
      BY <1>1, <2>3
    <3>2. pc \in {"apps", "lbs"}
      OBVIOUS
    <3> HIDE DEF pc
    <3>3. cmd' \in Commands(cmd')
      BY <1>4, <2>1, <3>1, <3>2, ZenonT(30) DEF Commands
    <3>4. /\ cmd'.kind = "dump" /\ cmd'.out = <<>> /\ cmd'.specs = cmd.specs
          /\ cmd'.pc = pc /\ cmd'.found = <<>> /\ cmd'.cursor = 0 /\ cmd'.todo = new
      BY <1>3, <2>1, <3>1 DEF Commands
    <3> QED
      BY <2>3, <3>3, <3>4 DEF pc
  <2> QED
    BY <2>2, <2>3
<1>6. Typed'
  BY <1>2, <1>5, Frame DEF Inv, Typed, Framed
<1>7. AtASGs'
  BY <1>2, <1>4, <1>5, Frame DEF AtASGs
<1>8. AtLBs'
  <2> SUFFICES ASSUME cursor = 0, new # <<>> PROVE AtLBs'
    BY <1>5 DEF AtLBs
  <2>1. ToSet(new) = {Head(new)} \cup ToSet(Tail(new))
    BY <1>4, TailSet
  <2>2. \A kind, id : ~Has(kind, id)'
    BY <1>5, EmptyLists DEF Has
  <2>3. \A g \in DOMAIN asgs : \A l \in asgs[g] : <<"lb", l>> \in through => g \in Stay("asg")
    BY Listings DEF Inv, Typed, Cluster, StaysFine, Stay
  <2>4. cmd'.pc = "lbs" /\ cmd'.cursor = 0 /\ cmd'.todo = new /\ cmd'.found = <<>>
    BY <1>5
  <2>5. \A l : Ahead(l)'
    BY <2>4 DEF Ahead
  <2> QED
    BY <1>2, <1>4, <1>5, <2>1, <2>2, <2>3, <2>4, <2>5, EmptyLists, Frame DEF AtLBs
<1>9. AtApps'
  <2> SUFFICES ASSUME cursor = 0, new = <<>> PROVE AtApps'
    BY <1>5 DEF AtApps
  <2>1. \A id : <<"asg", id>> \notin through
    <3>1. \A id : <<"asg", id>> \in through => id \in Stay("asg")
      BY Listings, ExistingFacts DEF Inv, Typed, Cluster, StaysFine, Stay
    <3> QED
      BY <1>4, <3>1, EmptyLists
  <2>2. \A x \in through : x[1] \notin {"asg", "lb"}
    <3> SUFFICES ASSUME NEW x \in through, x[1] \in {"asg", "lb"} PROVE FALSE
      OBVIOUS
    <3>1. x \in Existing /\ x = <<x[1], x[2]>>
      BY ExistingFacts DEF Inv, Typed, Cluster, StaysFine
    <3>2. x[1] = "lb"
      BY <2>1, <3>1
    <3>3. PICK g \in DOMAIN asgs : x[2] \in asgs[g]
      BY <3>1, <3>2, ExistingFacts
    <3>4. <<"asg", g>> \in through
      BY <3>1, <3>2, <3>3 DEF Inv, Typed, Cluster, StaysFine
    <3> QED
      BY <2>1, <3>4
  <2>3. Built' /\ \A id : ~Has("app", id)'
    BY <1>2, <1>5, <2>2, EmptyLists, Frame DEF Built, Has
  <2>4. \A i \in DOMAIN <<>> : FALSE
    OBVIOUS
  <2> QED
    BY <1>2, <1>5, <2>3, <2>4, EmptyLists, Frame DEF AtApps
<1>10. AtDumping' /\ AtVersions' /\ AtReads'
  <2>1. cmd'.pc \in {"asgs", "apps", "lbs"} /\ cmd'.kind = "dump"
    BY <1>5
  <2> QED
    BY <2>1, Elsewhere
<1>11. NewestFirst' => Recent'
  <2>1. cmd'.kind = "dump" /\ cmd'.pc # "detail"
    BY <1>5
  <2> QED
    BY <1>2, <1>5, <2>1, RecentStays
<1> QED
  BY <1>6, <1>7, <1>8, <1>9, <1>10, <1>11 DEF Inv

\* The loop over the ASGs goes on, when dump has all LBs of the one in turn that stay.
LEMMA NextASGInv ==
  ASSUME Inv, Framed, cmd.pc \in {"lbs", "lb"}, Head(cmd.todo) \in DOMAIN asgs,
         NEW c, c \in Commands(c), cmd' = NextASG(c),
         c.kind = "dump", c.found = <<>>, c.cursor = 0, c.todo = cmd.todo, c.specs = cmd.specs,
         Once(c.out),
         \A id : <<"app", id>> \notin ToSet(c.out),
         \A id : <<"asg", id>> \in ToSet(c.out) <=> Has("asg", id),
         \A l : <<"lb", l>> \in ToSet(c.out) =>
           /\ l <= created
           /\ \A g \in DOMAIN asgs : l \in asgs[g] => Has("asg", g) \/ g = Head(cmd.todo),
         \A g \in DOMAIN asgs : \A l \in asgs[g] : <<"lb", l>> \in through =>
           <<"lb", l>> \in ToSet(c.out) \/ g \in ToSet(Tail(cmd.todo))
  PROVE  Inv'
<1> DEFINE asg == Head(cmd.todo)
           out == Append(c.out, <<"asg", asg>>)
<1>1. /\ cmd.todo \in Seq(IDs) /\ cmd.todo # <<>> /\ Sorted(FALSE, cmd.todo)
      /\ \A id : Has("asg", id) => \A x \in ToSet(cmd.todo) : id < x
      /\ \A id \in Stay("asg") : Has("asg", id) \/ id \in ToSet(cmd.todo)
  BY DEF Inv, Typed, Commands, AtLBs
<1>2. /\ asg \in IDs /\ Tail(cmd.todo) \in Seq(IDs)
      /\ ToSet(cmd.todo) = {asg} \cup ToSet(Tail(cmd.todo))
      /\ (Len(cmd.todo) = 1) = (Tail(cmd.todo) = <<>>)
      /\ Sorted(FALSE, Tail(cmd.todo)) /\ \A x \in ToSet(Tail(cmd.todo)) : asg < x
  BY <1>1, TailSet, SortedTail, ZenonT(30) DEF Before
<1>3. c.out \in Seq({"app", "asg", "lb"} \X IDs) /\ <<"asg", asg>> \in {"app", "asg", "lb"} \X IDs
  BY <1>2 DEF Commands
<1>4. <<"asg", asg>> \notin ToSet(c.out)
  <2>1. ~(asg < asg)
    BY <1>2 DEF IDs
  <2> QED
    BY <1>1, <1>2, <2>1
<1>5. /\ out \in Seq({"app", "asg", "lb"} \X IDs) /\ Once(out)
      /\ ToSet(out) = ToSet(c.out) \cup {<<"asg", asg>>}
  BY <1>3, <1>4, AppendedSet
<1> HIDE DEF out
<1>6. /\ cmd' \in Commands(cmd') /\ cmd'.kind = "dump" /\ cmd'.specs = cmd.specs
      /\ cmd'.found = <<>> /\ cmd'.cursor = 0 /\ cmd'.todo = Tail(cmd.todo) /\ cmd'.out = out
      /\ cmd'.pc = IF Len(cmd.todo) = 1 THEN "apps" ELSE "lbs"
  <2> DEFINE pc == IF Len(cmd.todo) = 1 THEN "apps" ELSE "lbs"
  <2>1. cmd' = [c EXCEPT !.pc = pc, !.todo = Tail(cmd.todo), !.out = out]
    BY DEF NextASG, Commands, out
  <2>2. pc \in {"apps", "lbs"}
    OBVIOUS
  <2> DEFINE todo == Tail(cmd.todo)
  <2>3. todo \in Seq(IDs) /\ out \in Seq({"app", "asg", "lb"} \X IDs)
    BY <1>2, <1>5
  <2> HIDE DEF pc, asg, todo
  <2>4. cmd' = [c EXCEPT !.pc = pc, !.todo = todo, !.out = out]
    BY <2>1 DEF todo
  <2>5. cmd' \in Commands(cmd')
    BY <2>2, <2>3, <2>4, ZenonT(60) DEF Commands
  <2>6. /\ cmd'.kind = "dump" /\ cmd'.specs = cmd.specs /\ cmd'.found = <<>> /\ cmd'.cursor = 0
        /\ cmd'.todo = todo /\ cmd'.out = out /\ cmd'.pc = pc
    BY <2>4 DEF Commands
  <2> QED
    BY <2>5, <2>6 DEF pc, todo
<1> HIDE DEF asg
<1>7. Typed'
  BY <1>6, Frame DEF Inv, Typed, Framed
<1>8. /\ \A id : ~Has("app", id)'
      /\ \A id : Has("asg", id)' <=> Has("asg", id) \/ id = asg
      /\ \A l : Has("lb", l)' <=> <<"lb", l>> \in ToSet(c.out)
  BY <1>5, <1>6 DEF Has
<1>9. AtLBs'
  <2> SUFFICES ASSUME Tail(cmd.todo) # <<>> PROVE AtLBs'
    BY <1>2, <1>6 DEF AtLBs
  <2>1. ToSet(Tail(cmd.todo)) = {Head(Tail(cmd.todo))} \cup ToSet(Tail(Tail(cmd.todo)))
    BY <1>2, TailSet
  <2>2. cmd'.pc = "lbs" /\ cmd'.cursor = 0
    BY <1>2, <1>6
  <2>3. \A l : Ahead(l)'
    BY <2>2 DEF Ahead
  <2>4. \A id : Has("asg", id)' => \A x \in ToSet(cmd'.todo) : id < x
    BY <1>1, <1>2, <1>6, <1>8
  <2>5. \A id \in Stay("asg")' : Has("asg", id)' \/ id \in ToSet(cmd'.todo)
    BY <1>1, <1>2, <1>6, <1>8, Frame
  <2>6. \A l : Has("lb", l)' =>
          /\ l <= created'
          /\ \A g \in DOMAIN asgs' : l \in asgs'[g] => Has("asg", g)'
    BY <1>8, Frame DEF asg
  <2>7. \A g \in DOMAIN asgs' : \A l \in asgs'[g] : <<"lb", l>> \in through' =>
          \/ Has("lb", l)' \/ g \in ToSet(Tail(cmd'.todo))
          \/ (g = Head(cmd'.todo) /\ Ahead(l)')
    BY <1>6, <1>8, <2>1, <2>3, Frame
  <2> QED
    BY <1>2, <1>5, <1>6, <1>8, <2>2, <2>4, <2>5, <2>6, <2>7 DEF AtLBs
<1>10. AtApps'
  <2> SUFFICES ASSUME Tail(cmd.todo) = <<>> PROVE AtApps'
    BY <1>2, <1>6 DEF AtApps
  <2>1. ToSet(Tail(cmd.todo)) = {}
    BY EmptyLists
  <2>2. ASSUME NEW x \in through, x[1] \in {"asg", "lb"} PROVE x \in ToSet(cmd'.out)
    <3>1. x \in Existing /\ x = <<x[1], x[2]>>
      BY <2>2, ExistingFacts DEF Inv, Typed, Cluster, StaysFine
    <3>2. CASE x[1] = "asg"
      <4>1. x[2] \in Stay("asg")
        BY <3>1, <3>2, Listings, ExistingFacts DEF Inv, Typed, Stay
      <4>2. Has("asg", x[2])'
        BY <1>1, <1>2, <1>8, <2>1, <4>1
      <4> QED
        BY <3>1, <3>2, <4>2 DEF Has
    <3>3. CASE x[1] = "lb"
      <4>1. PICK g \in DOMAIN asgs : x[2] \in asgs[g]
        BY <3>1, <3>3, ExistingFacts
      <4>2. <<"lb", x[2]>> \in through
        BY <3>1, <3>3
      <4>3. Has("lb", x[2])'
        BY <1>8, <2>1, <4>1, <4>2
      <4> QED
        BY <3>1, <3>3, <4>3 DEF Has
    <3> QED
      BY <2>2, <3>2, <3>3
  <2>3. Built'
    BY <1>5, <1>6, <2>2, Frame DEF Built
  <2>4. \A i \in DOMAIN <<>> : FALSE
    OBVIOUS
  <2>5. cmd'.pc = "apps"
    BY <1>2, <1>6
  <2>6. cmd'.found \in Seq(Item) /\ Progress(FALSE, cmd'.cursor, Ids(cmd'.found), Stay("app")')
    BY <1>6, EmptyLists
  <2> QED
    BY <1>6, <1>8, <2>3, <2>4, <2>5, <2>6 DEF AtApps
<1>11. cmd'.pc \in {"apps", "lbs"}
  BY <1>6
<1>12. AtASGs' /\ AtDumping' /\ AtVersions' /\ AtReads'
  BY <1>6, <1>11, Elsewhere
<1>13. NewestFirst' => Recent'
  BY <1>6, <1>11, RecentStays
<1> QED
  BY <1>7, <1>9, <1>10, <1>12, <1>13 DEF Inv

LEMMA ListLBsInv == Inv /\ ListLBs => Inv'
<1> SUFFICES ASSUME Inv, ListLBs PROVE Inv'
  OBVIOUS
<1> DEFINE asg == Head(cmd.todo)
           page == Page(asgs[asg], FALSE)
           cursor == NextCursor(asgs[asg], FALSE)
           first == [cmd EXCEPT !.cursor = 0]
           read == [cmd EXCEPT !.pc = "lb", !.lbs = page, !.cursor = cursor]
<1>1. /\ cmd.pc = "lbs"
      /\ cmd' = IF asg \notin DOMAIN asgs THEN Failed
                ELSE IF page = <<>> THEN NextASG(first) ELSE read
  BY DEF ListLBs, Go
<1>2. Framed
  BY DEF ListLBs, Go, Framed, Inv, Typed
<1>3. CASE asg \notin DOMAIN asgs
  BY <1>1, <1>2, <1>3, FailedInv
<1> SUFFICES ASSUME asg \in DOMAIN asgs PROVE Inv'
  BY <1>3
<1>4. cmd \in Commands(cmd)
  BY DEF Inv, Typed
<1>5. /\ cmd.kind = "dump" /\ cmd.found = <<>> /\ cmd.todo # <<>> /\ Sorted(FALSE, cmd.todo)
      /\ Once(cmd.out)
      /\ \A id : ~Has("app", id)
      /\ \A id : Has("asg", id) => \A x \in ToSet(cmd.todo) : id < x
      /\ \A id \in Stay("asg") : Has("asg", id) \/ id \in ToSet(cmd.todo)
      /\ \A l : Has("lb", l) =>
           /\ l <= created
           /\ \A g \in DOMAIN asgs :
                l \in asgs[g] => Has("asg", g) \/ (g = asg /\ Behind(l))
      /\ \A g \in DOMAIN asgs : \A l \in asgs[g] : <<"lb", l>> \in through =>
           Has("lb", l) \/ g \in ToSet(Tail(cmd.todo)) \/ (g = asg /\ Ahead(l))
  BY <1>1 DEF Inv, AtLBs
<1>6. asgs[asg] \subseteq IDs /\ IsFiniteSet(asgs[asg])
  BY Listings DEF Inv, Typed
<1>7. /\ page \in Seq(Rest(asgs[asg], FALSE)) /\ page \in Seq(asgs[asg]) /\ Sorted(FALSE, page)
      /\ cursor = 0 => Rest(asgs[asg], FALSE) \subseteq ToSet(page)
      /\ cursor # 0 =>
           /\ page # <<>> /\ cursor = page[Len(page)]
           /\ \A x \in Rest(asgs[asg], FALSE) : x \in ToSet(page) \/ Before(FALSE, cursor, x)
      /\ Rest(asgs[asg], FALSE) # {} => page # <<>>
  BY <1>6, PageFacts
<1> HIDE DEF page, cursor
<1>8. \A l \in asgs[asg] : Ahead(l) => l \in Rest(asgs[asg], FALSE)
  BY <1>1 DEF Ahead, Rest, Before
<1>9. CASE page = <<>>
  <2>1. /\ first \in Commands(first) /\ first.kind = "dump" /\ first.found = <<>>
        /\ first.cursor = 0 /\ first.todo = cmd.todo /\ first.specs = cmd.specs
        /\ first.out = cmd.out
    BY <1>4, <1>5 DEF Commands
  <2>2. cmd' = NextASG(first)
    BY <1>1, <1>9
  <2> HIDE DEF first, asg
  <2>3. \A g \in DOMAIN asgs : \A l \in asgs[g] : <<"lb", l>> \in through =>
           Has("lb", l) \/ g \in ToSet(Tail(cmd.todo))
    BY <1>5, <1>7, <1>8, <1>9
  <2> QED
    BY <1>1, <1>2, <1>5, <2>1, <2>2, <2>3, NextASGInv DEF asg, Has
<1>10. CASE page # <<>>
  <2>1. page \in Seq(IDs) /\ cursor \in Nat
    <3>1. page \in Seq(IDs)
      BY <1>6, <1>7
    <3>2. cursor # 0 => cursor \in IDs
      BY <1>7, <3>1, LenProperties, EmptySeq, ElementOfSeq
    <3> QED
      BY <3>1, <3>2 DEF IDs
  <2>2. /\ cmd' \in Commands(cmd') /\ cmd'.pc = "lb" /\ cmd'.lbs = page /\ cmd'.cursor = cursor
        /\ cmd'.kind = "dump" /\ cmd'.found = <<>> /\ cmd'.todo = cmd.todo
        /\ cmd'.out = cmd.out /\ cmd'.specs = cmd.specs
    BY <1>1, <1>4, <1>5, <1>10, <2>1, ZenonT(30) DEF Commands
  <2>3. Typed'
    BY <1>2, <2>2, Frame DEF Inv, Typed, Framed
  <2>4. \A kind, id : Has(kind, id)' <=> Has(kind, id)
    BY <2>2 DEF Has
  <2>5. ASSUME NEW l \in Nat, Behind(l) PROVE Behind(l)'
    <3>1. Head(page) \in Rest(asgs[asg], FALSE)
      BY <1>7, <1>10, TailSet
    <3>2. cmd.cursor # 0 /\ l <= cmd.cursor /\ cmd.cursor \in Nat
      BY <1>1, <1>4, <2>5 DEF Behind, Commands
    <3>3. cmd.cursor < Head(page) /\ Head(page) \in Nat
      BY <1>6, <3>1, <3>2 DEF Rest, Before, IDs
    <3> QED
      BY <2>2, <3>2, <3>3 DEF Behind
  <2>6. ASSUME NEW l \in asgs[asg], Ahead(l) PROVE Ahead(l)'
    <3>1. l \in Rest(asgs[asg], FALSE)
      BY <1>8, <2>6
    <3>2. l \in ToSet(page) \/ (cursor # 0 /\ cursor < l)
      BY <1>7, <3>1 DEF Before
    <3> QED
      BY <2>2, <3>2 DEF Ahead
  <2>7. \A l : Has("lb", l)' =>
          /\ l <= created'
          /\ \A g \in DOMAIN asgs' :
               l \in asgs'[g] => Has("asg", g)' \/ (g = Head(cmd'.todo) /\ Behind(l)')
    <3>1. \A g \in DOMAIN asgs : \A l \in asgs[g] : l \in Nat
      BY Listings DEF Inv, Typed, IDs
    <3> QED
      BY <1>2, <1>5, <2>2, <2>4, <2>5, <3>1, Frame
  <2>8. \A g \in DOMAIN asgs' : \A l \in asgs'[g] : <<"lb", l>> \in through' =>
          \/ Has("lb", l)' \/ g \in ToSet(Tail(cmd'.todo))
          \/ (g = Head(cmd'.todo) /\ Ahead(l)')
    BY <1>2, <1>5, <2>2, <2>4, <2>6, Frame
  <2>9. AtLBs'
    <3>1. \A id \in Stay("asg")' : Has("asg", id)' \/ id \in ToSet(cmd'.todo)
      BY <1>2, <1>5, <2>2, <2>4, Frame
    <3> QED
      BY <1>5, <1>7, <1>10, <2>2, <2>4, <2>7, <2>8, <3>1 DEF AtLBs
  <2>10. AtASGs' /\ AtApps' /\ AtDumping' /\ AtVersions' /\ AtReads'
    BY <2>2, Elsewhere
  <2>11. NewestFirst' => Recent'
    BY <1>2, <2>2, RecentStays
  <2> QED
    BY <2>3, <2>9, <2>10, <2>11 DEF Inv
<1> QED
  BY <1>9, <1>10

LEMMA GetLBInv == Inv /\ GetLB => Inv'
<1> SUFFICES ASSUME Inv, GetLB PROVE Inv'
  OBVIOUS
<1> DEFINE asg == Head(cmd.todo)
           lb == Head(cmd.lbs)
           out == Append(cmd.out, <<"lb", lb>>)
           read == [cmd EXCEPT !.lbs = Tail(@), !.out = out]
<1>1. /\ cmd.pc = "lb"
      /\ cmd' = IF asg \notin DOMAIN asgs \/ lb \notin asgs[asg] THEN Failed
                ELSE IF Len(cmd.lbs) > 1 THEN read
                ELSE IF cmd.cursor # 0 THEN [read EXCEPT !.pc = "lbs"]
                ELSE NextASG(read)
  <2>1. read = [cmd EXCEPT !.lbs = Tail(@), !.out = Append(@, <<"lb", lb>>)]
    OBVIOUS
  <2> QED
    BY <2>1 DEF GetLB, Go
<1>2. Framed
  BY DEF GetLB, Go, Framed, Inv, Typed
<1>3. CASE asg \notin DOMAIN asgs \/ lb \notin asgs[asg]
  BY <1>1, <1>2, <1>3, FailedInv
<1> SUFFICES ASSUME asg \in DOMAIN asgs, lb \in asgs[asg] PROVE Inv'
  BY <1>3
<1>4. cmd \in Commands(cmd)
  BY DEF Inv, Typed
<1>5. /\ cmd.kind = "dump" /\ cmd.found = <<>> /\ cmd.todo # <<>> /\ Sorted(FALSE, cmd.todo)
      /\ Once(cmd.out)
      /\ \A id : ~Has("app", id)
      /\ \A id : Has("asg", id) => \A x \in ToSet(cmd.todo) : id < x
      /\ \A id \in Stay("asg") : Has("asg", id) \/ id \in ToSet(cmd.todo)
      /\ \A l : Has("lb", l) =>
           /\ l <= created
           /\ \A g \in DOMAIN asgs :
                l \in asgs[g] => Has("asg", g) \/ (g = asg /\ Behind(l))
      /\ \A g \in DOMAIN asgs : \A l \in asgs[g] : <<"lb", l>> \in through =>
           Has("lb", l) \/ g \in ToSet(Tail(cmd.todo)) \/ (g = asg /\ Ahead(l))
      /\ cmd.lbs # <<>> /\ Sorted(FALSE, cmd.lbs)
      /\ cmd.cursor # 0 => cmd.cursor = cmd.lbs[Len(cmd.lbs)]
  BY <1>1 DEF Inv, AtLBs
<1>6. /\ cmd.lbs \in Seq(IDs) /\ cmd.todo \in Seq(IDs) /\ cmd.cursor \in Nat
      /\ cmd.out \in Seq({"app", "asg", "lb"} \X IDs)
  BY <1>4 DEF Commands
<1>7. /\ lb \in IDs /\ Tail(cmd.lbs) \in Seq(IDs)
      /\ ToSet(cmd.lbs) = {lb} \cup ToSet(Tail(cmd.lbs))
      /\ (Len(cmd.lbs) = 1) = (Tail(cmd.lbs) = <<>>)
      /\ Tail(cmd.lbs) # <<>> => Tail(cmd.lbs)[Len(Tail(cmd.lbs))] = cmd.lbs[Len(cmd.lbs)]
      /\ Tail(cmd.lbs) = <<>> => lb = cmd.lbs[Len(cmd.lbs)]
      /\ Sorted(FALSE, Tail(cmd.lbs)) /\ \A x \in ToSet(Tail(cmd.lbs)) : lb < x
  BY <1>5, <1>6, TailSet, SortedTail DEF Before
<1>8. Len(cmd.lbs) > 1 <=> Tail(cmd.lbs) # <<>>
  <2>1. Len(cmd.lbs) \in Nat /\ Len(cmd.lbs) # 0
    <3> DEFINE lbs == cmd.lbs
    <3>1. lbs \in Seq(IDs) /\ lbs # <<>>
      BY <1>5, <1>6
    <3> HIDE DEF lbs
    <3>2. Len(lbs) \in Nat /\ Len(lbs) # 0
      BY <3>1, LenProperties, EmptySeq
    <3> QED
      BY <3>2 DEF lbs
  <2> QED
    BY <1>7, <2>1
<1>9. /\ lb <= created /\ created \in Nat
      /\ \A g \in DOMAIN asgs : lb \in asgs[g] => g = asg
  <2>1. \A g \in DOMAIN asgs : lb \in asgs[g] => asgs[g] \cap asgs[asg] # {}
    OBVIOUS
  <2> QED
    BY <2>1 DEF Inv, Typed, Cluster, ASGsFine
<1>10. ~Has("lb", lb)
  <2>1. asg \in ToSet(cmd.todo) /\ asg \in IDs
    BY <1>5, <1>6, TailSet
  <2>2. ~Has("asg", asg)
    BY <1>5, <2>1 DEF IDs
  <2>3. ~Behind(lb)
    BY <1>1, <1>7 DEF Behind, IDs
  <2> QED
    BY <1>5, <2>2, <2>3
<1>11. /\ out \in Seq({"app", "asg", "lb"} \X IDs) /\ Once(out)
       /\ ToSet(out) = ToSet(cmd.out) \cup {<<"lb", lb>>}
  <2>1. <<"lb", lb>> \in {"app", "asg", "lb"} \X IDs
    BY <1>7
  <2>2. <<"lb", lb>> \notin ToSet(cmd.out)
    BY <1>10 DEF Has
  <2> QED
    BY <1>5, <1>6, <2>1, <2>2, AppendedSet
<1>12. /\ \A id : <<"app", id>> \notin ToSet(out)
       /\ \A id : <<"asg", id>> \in ToSet(out) <=> Has("asg", id)
       /\ \A l : <<"lb", l>> \in ToSet(out) <=> Has("lb", l) \/ l = lb
  BY <1>5, <1>11 DEF Has
<1> HIDE DEF out
<1>13. /\ read \in Commands(read) /\ read.kind = "dump" /\ read.found = <<>> /\ read.pc = "lb"
       /\ read.cursor = cmd.cursor /\ read.todo = cmd.todo /\ read.specs = cmd.specs
       /\ read.out = out /\ read.lbs = Tail(cmd.lbs)
  BY <1>1, <1>4, <1>5, <1>7, <1>11 DEF Commands
<1>14. \A g \in DOMAIN asgs : \A l \in asgs[g] : l \in Nat
  BY Listings DEF Inv, Typed, IDs
<1> HIDE DEF read
<1>15. CASE ~(Len(cmd.lbs) > 1) /\ cmd.cursor = 0
  <2>1. cmd' = NextASG(read)
    BY <1>1, <1>15
  <2>2. \A l : Ahead(l) => l = lb
    BY <1>1, <1>7, <1>8, <1>15, EmptyLists DEF Ahead
  <2> HIDE DEF asg, lb
  <2>3. \A g \in DOMAIN asgs : \A l \in asgs[g] : <<"lb", l>> \in through =>
          <<"lb", l>> \in ToSet(out) \/ g \in ToSet(Tail(cmd.todo))
    BY <1>5, <1>12, <2>2
  <2>4. \A l : <<"lb", l>> \in ToSet(out) =>
          /\ l <= created
          /\ \A g \in DOMAIN asgs : l \in asgs[g] => Has("asg", g) \/ g = asg
    BY <1>5, <1>9, <1>12
  <2> QED
    BY <1>1, <1>2, <1>11, <1>12, <1>13, <1>15, <2>1, <2>3, <2>4, NextASGInv DEF asg
<1>16. CASE Len(cmd.lbs) > 1 \/ cmd.cursor # 0
  <2>1. /\ cmd' \in Commands(cmd') /\ cmd'.kind = "dump" /\ cmd'.found = <<>>
        /\ cmd'.cursor = cmd.cursor /\ cmd'.todo = cmd.todo /\ cmd'.specs = cmd.specs
        /\ cmd'.out = out /\ cmd'.lbs = Tail(cmd.lbs)
        /\ cmd'.pc = IF Len(cmd.lbs) > 1 THEN "lb" ELSE "lbs"
    <3>1. CASE Len(cmd.lbs) > 1
      BY <1>1, <1>13, <3>1
    <3>2. CASE ~(Len(cmd.lbs) > 1)
      <4>1. cmd' = [read EXCEPT !.pc = "lbs"]
        BY <1>1, <1>16, <3>2
      <4> QED
        BY <1>13, <3>2, <4>1 DEF Commands
    <3> QED
      BY <3>1, <3>2
  <2>2. Typed'
    BY <1>2, <2>1, Frame DEF Inv, Typed, Framed
  <2>3. /\ \A id : ~Has("app", id)'
        /\ \A id : Has("asg", id)' <=> Has("asg", id)
        /\ \A l : Has("lb", l)' <=> Has("lb", l) \/ l = lb
    BY <1>12, <2>1 DEF Has
  <2>4. Tail(cmd.lbs) # <<>> =>
          Head(Tail(cmd.lbs)) \in IDs /\ lb < Head(Tail(cmd.lbs))
    <3> DEFINE tail == Tail(cmd.lbs)
    <3>1. tail \in Seq(IDs) /\ \A x \in ToSet(tail) : lb < x
      BY <1>7
    <3> HIDE DEF tail
    <3>2. tail # <<>> => Head(tail) \in IDs /\ ToSet(tail) = {Head(tail)} \cup ToSet(Tail(tail))
      BY <3>1, TailSet
    <3> QED
      BY <3>1, <3>2 DEF tail
  <2>5. ASSUME NEW l \in Nat, l = lb \/ Behind(l) PROVE Behind(l)'
    <3>1. l <= lb /\ lb \in Nat
      BY <1>1, <1>7, <2>5 DEF Behind, IDs
    <3>2. CASE Len(cmd.lbs) > 1
      BY <1>8, <2>1, <2>4, <3>1, <3>2 DEF Behind, IDs
    <3>3. CASE ~(Len(cmd.lbs) > 1)
      <4>1. cmd.cursor = lb
        BY <1>5, <1>7, <1>8, <1>16, <3>3
      <4> QED
        BY <1>16, <2>1, <3>1, <3>3, <4>1 DEF Behind
    <3> QED
      BY <3>2, <3>3
  <2>6. ASSUME NEW l \in Nat, Ahead(l), l # lb PROVE Ahead(l)'
    <3>1. l \in ToSet(Tail(cmd.lbs)) \/ (cmd.cursor # 0 /\ cmd.cursor < l)
      BY <1>1, <1>7, <2>6 DEF Ahead
    <3>2. CASE Len(cmd.lbs) > 1
      BY <2>1, <3>1, <3>2 DEF Ahead
    <3>3. CASE ~(Len(cmd.lbs) > 1)
      BY <1>8, <2>1, <3>1, <3>3, EmptyLists DEF Ahead
    <3> QED
      BY <3>2, <3>3
  <2>7. \A l : Has("lb", l)' =>
          /\ l <= created'
          /\ \A g \in DOMAIN asgs' :
               l \in asgs'[g] => Has("asg", g)' \/ (g = Head(cmd'.todo) /\ Behind(l)')
    BY <1>2, <1>5, <1>9, <1>14, <2>1, <2>3, <2>5, Frame
  <2>8. \A g \in DOMAIN asgs' : \A l \in asgs'[g] : <<"lb", l>> \in through' =>
          \/ Has("lb", l)' \/ g \in ToSet(Tail(cmd'.todo))
          \/ (g = Head(cmd'.todo) /\ Ahead(l)')
    BY <1>2, <1>5, <1>14, <2>1, <2>3, <2>6, Frame
  <2>9. AtLBs'
    <3>1. \A id \in Stay("asg")' : Has("asg", id)' \/ id \in ToSet(cmd'.todo)
      BY <1>2, <1>5, <2>1, <2>3, Frame
    <3>2. cmd'.pc = "lb" => Tail(cmd.lbs) # <<>>
      BY <1>8, <2>1
    <3>3. cmd'.cursor # 0 /\ cmd'.pc = "lb" => cmd'.cursor = cmd'.lbs[Len(cmd'.lbs)]
      BY <1>5, <1>7, <2>1, <3>2
    <3> QED
      BY <1>5, <1>7, <1>11, <2>1, <2>3, <2>7, <2>8, <3>1, <3>2, <3>3 DEF AtLBs
  <2>10. cmd'.pc \in {"lb", "lbs"}
    BY <2>1
  <2>11. AtASGs' /\ AtApps' /\ AtDumping' /\ AtVersions' /\ AtReads'
    BY <2>10, Elsewhere
  <2>12. NewestFirst' => Recent'
    BY <1>2, <2>1, <2>10, RecentStays
  <2> QED
    BY <2>2, <2>9, <2>11, <2>12 DEF Inv
<1> QED
  BY <1>15, <1>16

\* What a page of applications adds to the list.
LEMMA AppsListed ==
  ASSUME Cluster, NEW found \in Seq(Item), NEW page \in Seq(DOMAIN apps),
         \A i \in DOMAIN found : Given(found[i].id, found[i].active)
  PROVE  LET items == [i \in DOMAIN page |->
                         [id |-> page[i], name |-> apps[page[i]].name,
                          active |-> apps[page[i]].active]]
             new == found \o items
         IN  /\ new \in Seq(Item) /\ Ids(new) = Ids(found) \o page
             /\ \A i \in DOMAIN new : Given(new[i].id, new[i].active)
<1> DEFINE item(a) == [id |-> a, name |-> apps[a].name, active |-> apps[a].active]
           items == [i \in DOMAIN page |-> item(page[i])]
           new == found \o items
           m == Len(found)
           n == Len(page)
<1>1. ASSUME NEW a \in DOMAIN apps PROVE item(a) \in Item /\ Given(a, apps[a].active)
  <2>1. /\ a \in 1..created /\ apps[a] \in Application(apps[a].versions)
        /\ DOMAIN apps[a].versions \subseteq 1..apps[a].last
        /\ apps[a].active \in {0} \cup DOMAIN apps[a].versions
        /\ created \in Nat
    BY DEF Cluster, AppsFine
  <2>2. apps[a].name \in AppNames /\ apps[a].active \in Nat /\ apps[a].last \in Nat
    BY <2>1, BoundsAssumption DEF Application
  <2>3. apps[a].active <= apps[a].last
    BY <2>1, <2>2
  <2> QED
    BY <2>1, <2>2, <2>3 DEF Item, IDs, Given
<1>2. /\ m \in Nat /\ n \in Nat /\ DOMAIN found = 1..m /\ DOMAIN page = 1..n
      /\ \A i \in 1..m : found[i] \in Item
      /\ \A i \in 1..n : page[i] \in DOMAIN apps
  BY LenProperties, ElementOfSeq
<1> HIDE DEF item
<1>3. items \in Seq(Item) /\ Len(items) = n /\ \A i \in 1..n : items[i] = item(page[i])
  <2>1. items \in [1..n -> Item] /\ \A i \in 1..n : items[i] = item(page[i])
    BY <1>1, <1>2
  <2> QED
    BY <1>2, <2>1
<1> HIDE DEF items
<1>4. /\ new \in Seq(Item) /\ Len(new) = m + n /\ DOMAIN new = 1..(m + n)
      /\ \A i \in 1..m : new[i] = found[i]
      /\ \A i \in (m + 1)..(m + n) : new[i] = item(page[i - m])
  <2>1. /\ new \in Seq(Item) /\ Len(new) = m + n
        /\ \A i \in 1..(m + n) : new[i] = IF i <= m THEN found[i] ELSE items[i - m]
    <3>1. /\ found \o items \in Seq(Item) /\ Len(found \o items) = Len(found) + Len(items)
          /\ \A i \in 1..(Len(found) + Len(items)) :
               (found \o items)[i] = IF i <= Len(found) THEN found[i] ELSE items[i - Len(found)]
      BY <1>3, ConcatProperties, ZenonT(30)
    <3> QED
      BY <1>3, <3>1
  <2>2. DOMAIN new = 1..(m + n)
    BY <2>1, LenProperties
  <2>3. \A i \in (m + 1)..(m + n) : i \in 1..(m + n) /\ ~(i <= m) /\ i - m \in 1..n
    BY <1>2
  <2>4. \A i \in 1..m : i \in 1..(m + n) /\ i <= m
    BY <1>2
  <2> QED
    BY <1>3, <2>1, <2>2, <2>3, <2>4
<1> HIDE DEF new
<1>5. \A i \in DOMAIN new : Given(new[i].id, new[i].active)
  <2> SUFFICES ASSUME NEW i \in 1..(m + n) PROVE Given(new[i].id, new[i].active)
    BY <1>4
  <2>1. CASE i \in 1..m
    BY <1>2, <1>4, <2>1
  <2>2. CASE i \notin 1..m
    <3>1. i \in (m + 1)..(m + n) /\ i - m \in 1..n
      BY <1>2, <2>2
    <3>2. new[i] = item(page[i - m]) /\ page[i - m] \in DOMAIN apps
      BY <1>2, <1>4, <3>1
    <3> QED
      BY <1>1, <3>2 DEF item
  <2> QED
    BY <2>1, <2>2
<1>6. Ids(new) = Ids(found) \o page
  <2> DEFINE ids == Ids(found)
             both == ids \o page
  <2>1. ids \in Seq(IDs) /\ Len(ids) = m /\ \A i \in 1..m : ids[i] = found[i].id
    <3>1. ids \in [1..m -> IDs] /\ \A i \in 1..m : ids[i] = found[i].id
      BY <1>2 DEF Ids, Item
    <3> QED
      BY <1>2, <3>1
  <2>2. page \in Seq(IDs)
    <3>1. DOMAIN apps \subseteq IDs
      BY Listings
    <3> QED
      BY <3>1
  <2> HIDE DEF ids
  <2>3. /\ both \in Seq(IDs) /\ Len(both) = m + n
        /\ \A i \in 1..(m + n) : both[i] = IF i <= m THEN ids[i] ELSE page[i - m]
    <3>1. /\ ids \o page \in Seq(IDs) /\ Len(ids \o page) = Len(ids) + Len(page)
          /\ \A i \in 1..(Len(ids) + Len(page)) :
               (ids \o page)[i] = IF i <= Len(ids) THEN ids[i] ELSE page[i - Len(ids)]
      BY <2>1, <2>2, ConcatProperties
    <3> QED
      BY <2>1, <3>1
  <2> HIDE DEF both
  <2>4. ASSUME NEW i \in 1..(m + n) PROVE new[i].id = both[i]
    <3>1. CASE i <= m
      <4>1. i \in 1..m
        BY <1>2, <3>1
      <4> QED
        BY <1>4, <2>1, <2>3, <3>1, <4>1
    <3>2. CASE ~(i <= m)
      <4>1. i \in (m + 1)..(m + n)
        BY <1>2, <3>2
      <4>2. new[i] = item(page[i - m])
        BY <1>4, <4>1
      <4> QED
        BY <2>3, <3>2, <4>2 DEF item
    <3> QED
      BY <3>1, <3>2
  <2>5. DOMAIN both = 1..(m + n) /\ both = [i \in 1..(m + n) |-> both[i]]
    BY <2>3, LenProperties
  <2>6. Ids(new) = [i \in 1..(m + n) |-> new[i].id]
    BY <1>4 DEF Ids
  <2> QED
    BY <2>4, <2>5, <2>6 DEF both, ids
<1> QED
  BY <1>4, <1>5, <1>6 DEF new, items, item

LEMMA Cleared ==
  ASSUME NEW c, c \in Commands(c), cmd' = [c EXCEPT !.found = <<>>, !.cursor = 0]
  PROVE  /\ cmd' \in Commands(cmd') /\ cmd'.found = <<>> /\ cmd'.cursor = 0
         /\ cmd'.pc = c.pc /\ cmd'.kind = c.kind /\ cmd'.app = c.app /\ cmd'.active = c.active
         /\ cmd'.latest = c.latest /\ cmd'.todo = c.todo /\ cmd'.out = c.out
         /\ cmd'.specs = c.specs
<1>1. cmd' \in Commands(cmd')
  BY DEF Commands
<1>2. cmd'.found = <<>> /\ cmd'.cursor = 0 /\ cmd'.pc = c.pc /\ cmd'.kind = c.kind
  BY DEF Commands
<1>3. cmd'.app = c.app /\ cmd'.active = c.active /\ cmd'.latest = c.latest
  BY DEF Commands
<1>4. cmd'.todo = c.todo /\ cmd'.out = c.out /\ cmd'.specs = c.specs
  BY DEF Commands
<1> QED
  BY <1>1, <1>2, <1>3, <1>4

\* What the commands do with the list of applications.
LEMMA AppsComplete ==
  ASSUME Inv, Framed, cmd.pc \in {"find", "apps"},
         NEW list \in Seq(Item), Sorted(FALSE, Ids(list)), Stay("app") \subseteq ToSet(Ids(list)),
         \A i \in DOMAIN list : Given(list[i].id, list[i].active),
         cmd' = [Listed(list) EXCEPT !.found = <<>>, !.cursor = 0]
  PROVE  Inv'
<1>1. cmd \in Commands(cmd)
  BY DEF Inv, Typed
<1>2. /\ cmd.pc = "find" => cmd.kind \in {"versions", "diff"} /\ cmd.latest = 0
      /\ cmd.pc = "apps" => cmd.kind = "dump" /\ Built /\ \A id : ~Has("app", id)
  BY DEF Inv, AtApps
<1>3. CASE cmd.pc = "apps"
  <2>1. /\ Ids(list) \in Seq(IDs) /\ DOMAIN Ids(list) = DOMAIN list
        /\ list = <<>> <=> Ids(list) = <<>>
    <3>1. DOMAIN list = 1..Len(list) /\ Len(list) \in Nat /\ \A i \in DOMAIN list : list[i] \in Item
      BY LenProperties, ElementOfSeq
    <3>2. Ids(list) \in [1..Len(list) -> IDs]
      BY <3>1 DEF Ids, Item
    <3>3. Ids(list) \in Seq(IDs) /\ Len(Ids(list)) = Len(list)
      BY <3>1, <3>2
    <3> QED
      BY <3>1, <3>2, <3>3, EmptySeq
  <2>2. Listed(list) = [cmd EXCEPT !.pc = IF list = <<>> THEN "done" ELSE "latest",
                                   !.todo = Ids(list)]
    BY <1>2, <1>3 DEF Listed, Ids
  <2>3. /\ cmd' \in Commands(cmd') /\ cmd'.kind = "dump" /\ cmd'.out = cmd.out
        /\ cmd'.pc = IF list = <<>> THEN "done" ELSE "latest"
        /\ cmd'.cursor = 0 /\ cmd'.todo = Ids(list) /\ cmd'.specs = cmd.specs
    <3> DEFINE ids == Ids(list)
               pc == IF list = <<>> THEN "done" ELSE "latest"
               c == [cmd EXCEPT !.pc = pc, !.todo = ids]
    <3>1. ids \in Seq(IDs) /\ pc \in {"done", "latest"} /\ cmd' = [c EXCEPT !.found = <<>>, !.cursor = 0]
      BY <2>1, <2>2
    <3> HIDE DEF ids, pc
    <3>2. c \in Commands(c)
      BY <1>1, <3>1 DEF Commands
    <3>3. c.kind = "dump" /\ c.out = cmd.out /\ c.pc = pc /\ c.todo = ids /\ c.specs = cmd.specs
      BY <1>1, <1>2, <1>3, <3>1 DEF Commands
    <3> HIDE DEF c
    <3> QED
      BY <3>1, <3>2, <3>3, Cleared DEF ids, pc
  <2>4. Typed'
    BY <2>3, Frame DEF Inv, Typed, Framed
  <2>5. Built' /\ \A id : ~Has("app", id)'
    BY <1>2, <1>3, <2>3, Frame DEF Built, Has
  <2>6. AtDumping'
    <3>1. \A id \in Stay("app")' : cmd'.pc # "done" /\ id \in ToSet(cmd'.todo)
      <4>1. ASSUME NEW id \in Stay("app")
            PROVE  cmd'.pc # "done" /\ id \in ToSet(cmd'.todo)
        BY <2>1, <2>3, <4>1, EmptyLists
      <4> QED
        BY <4>1, Frame
    <3>2. cmd'.pc # "done" => cmd'.todo # <<>> /\ Sorted(FALSE, cmd'.todo)
      BY <2>1, <2>3
    <3> QED
      BY <2>5, <3>1, <3>2 DEF AtDumping
  <2>7. cmd'.pc \in {"done", "latest"}
    BY <2>3
  <2>8. AtReads'
    BY <2>3, <2>7 DEF AtReads
  <2>9. AtASGs' /\ AtLBs' /\ AtApps' /\ AtVersions'
    BY <2>3, <2>7, Elsewhere
  <2>10. NewestFirst' => Recent'
    BY <2>3, <2>7, RecentStays
  <2> QED
    BY <2>4, <2>6, <2>8, <2>9, <2>10 DEF Inv
<1>4. CASE cmd.pc = "find"
  <2>1. cmd.kind \in {"versions", "diff"} /\ cmd.latest = 0
    BY <1>2, <1>4
  <2>2. CASE Found(list) = {}
    <3>1. cmd' = [Failed EXCEPT !.found = <<>>, !.cursor = 0]
      BY <2>1, <2>2 DEF Listed
    <3>2. cmd' \in Commands(cmd') /\ cmd'.pc = "failed" /\ cmd'.specs = cmd.specs
      BY <1>1, <3>1, Cleared, FailedFine
    <3> QED
      BY <3>2, Fails
  <2>3. CASE Found(list) # {}
    <3> DEFINE a == list[CHOOSE i \in Found(list) : \A j \in Found(list) : i <= j]
    <3>1. /\ Found(list) \subseteq IDs /\ IsFiniteSet(Found(list))
          /\ Found(list) \subseteq DOMAIN list
      <4>1. DOMAIN list = 1..Len(list) /\ Len(list) \in Nat
        BY LenProperties
      <4>2. IsFiniteSet(1..Len(list)) /\ 1..Len(list) \subseteq IDs
        <5>1. \A n \in Nat : IsFiniteSet(1..n)
          BY FS_Interval
        <5> QED
          BY <4>1, <5>1 DEF IDs
      <4>3. Found(list) \subseteq 1..Len(list)
        BY <4>1 DEF Found
      <4> QED
        BY <4>1, <4>2, <4>3, FS_Subset
    <3>2. PICK i \in Found(list) : \A j \in Found(list) : i = j \/ Before(FALSE, i, j)
      BY <2>3, <3>1, FirstThere
    <3>3. \A j \in Found(list) : i <= j
      BY <3>1, <3>2 DEF Before, IDs
    <3>4. (CHOOSE k \in Found(list) : \A j \in Found(list) : k <= j) \in DOMAIN list
      BY <3>1, <3>3
    <3>5. a \in Item /\ Given(a.id, a.active)
      BY <3>4, ElementOfSeq
    <3>6. cmd' = [WithApp(a) EXCEPT !.found = <<>>, !.cursor = 0]
      BY <2>1, <2>3 DEF Listed
    <3> HIDE DEF a
    <3>7. a.id \in Nat /\ a.active \in Nat
      BY <3>5 DEF Item, IDs
    <3>8. CASE cmd.kind = "versions"
      <4> DEFINE c == [cmd EXCEPT !.pc = "pages", !.app = a.id, !.active = a.active]
      <4>1. cmd' = [c EXCEPT !.found = <<>>, !.cursor = 0]
        BY <3>6, <3>8 DEF WithApp
      <4>2. /\ cmd' \in Commands(cmd') /\ cmd'.pc = "pages" /\ cmd'.kind = "versions"
            /\ cmd'.app = a.id /\ cmd'.active = a.active /\ cmd'.found = <<>> /\ cmd'.cursor = 0
            /\ cmd'.specs = cmd.specs
        <5>1. c \in Commands(c)
          BY <1>1, <3>7 DEF Commands
        <5>2. c.pc = "pages" /\ c.kind = "versions" /\ c.app = a.id /\ c.active = a.active
              /\ c.specs = cmd.specs
          BY <1>1, <3>8 DEF Commands
        <5> HIDE DEF c
        <5> QED
          BY <4>1, <5>1, <5>2, Cleared
      <4>3. Typed'
        BY <4>2, Frame DEF Inv, Typed, Framed
      <4>4. AtVersions'
        BY <3>5, <4>2, EmptyLists, Frame DEF AtVersions
      <4>5. AtReads'
        BY <4>2 DEF AtReads
      <4>6. AtASGs' /\ AtLBs' /\ AtApps' /\ AtDumping'
        BY <4>2, Elsewhere
      <4>7. NewestFirst' => Recent'
        BY <4>2, RecentStays
      <4> QED
        BY <4>3, <4>4, <4>5, <4>6, <4>7 DEF Inv
    <3>9. CASE cmd.kind = "diff" /\ cmd.from = 0 /\ a.active = 0
      <4>1. cmd' = [Failed EXCEPT !.found = <<>>, !.cursor = 0]
        BY <3>6, <3>9 DEF WithApp
      <4>2. cmd' \in Commands(cmd') /\ cmd'.pc = "failed" /\ cmd'.specs = cmd.specs
        BY <1>1, <4>1, Cleared, FailedFine
      <4> QED
        BY <4>2, Fails
    <3>10. CASE cmd.kind = "diff" /\ ~(cmd.from = 0 /\ a.active = 0)
      <4> DEFINE pc == IF cmd.to = 0 THEN "latest" ELSE "from"
                 from == IF cmd.from = 0 THEN a.active ELSE cmd.from
                 c == [cmd EXCEPT !.pc = pc, !.app = a.id, !.active = a.active, !.from = from]
      <4>1. cmd' = [c EXCEPT !.found = <<>>, !.cursor = 0]
        BY <3>6, <3>10 DEF WithApp
      <4>2. /\ cmd' \in Commands(cmd') /\ cmd'.pc \in {"latest", "from"} /\ cmd'.kind = "diff"
            /\ cmd'.cursor = 0 /\ cmd'.specs = cmd.specs /\ cmd'.latest = 0
        <5>1. pc \in {"latest", "from"} /\ from \in Nat
          BY <1>1, <3>7 DEF Commands
        <5> HIDE DEF pc, from
        <5>2. c \in Commands(c)
          BY <1>1, <3>7, <5>1 DEF Commands
        <5>3. c.pc = pc /\ c.kind = "diff" /\ c.specs = cmd.specs /\ c.latest = 0
          BY <1>1, <2>1, <3>10 DEF Commands
        <5> HIDE DEF c
        <5> QED
          BY <4>1, <5>1, <5>2, <5>3, Cleared
      <4>3. Typed'
        BY <4>2, Frame DEF Inv, Typed, Framed
      <4>4. AtReads'
        BY <4>2 DEF AtReads
      <4>5. AtASGs' /\ AtLBs' /\ AtApps' /\ AtDumping' /\ AtVersions'
        BY <4>2, Elsewhere
      <4>6. NewestFirst' => Recent'
        BY <4>2, RecentStays
      <4> QED
        BY <4>3, <4>4, <4>5, <4>6 DEF Inv
    <3> QED
      BY <2>1, <3>8, <3>9, <3>10
  <2> QED
    BY <2>2, <2>3
<1> QED
  BY <1>3, <1>4

LEMMA ListApplicationsInv == Inv /\ ListApplications => Inv'
<1> SUFFICES ASSUME Inv, ListApplications PROVE Inv'
  OBVIOUS
<1> DEFINE page == Page(DOMAIN apps, FALSE)
           items == [i \in DOMAIN page |->
                      [id |-> page[i], name |-> apps[page[i]].name, active |-> apps[page[i]].active]]
           new == cmd.found \o items
           cursor == NextCursor(DOMAIN apps, FALSE)
<1>1. /\ cmd.pc \in {"find", "apps"}
      /\ cmd' = IF cursor # 0 THEN [cmd EXCEPT !.found = new, !.cursor = cursor]
                ELSE [Listed(new) EXCEPT !.found = <<>>, !.cursor = 0]
  BY DEF ListApplications, Go
<1>2. Framed
  BY DEF ListApplications, Go, Framed, Inv, Typed
<1>3. /\ cmd.found \in Seq(Item)
      /\ Progress(FALSE, cmd.cursor, Ids(cmd.found), Stay("app"))
      /\ \A i \in DOMAIN cmd.found : Given(cmd.found[i].id, cmd.found[i].active)
      /\ cmd.pc = "find" => cmd.kind \in {"versions", "diff"} /\ cmd.latest = 0
      /\ cmd.pc = "apps" => cmd.kind = "dump" /\ Built /\ \A id : ~Has("app", id)
  BY <1>1 DEF Inv, AtApps
<1>4. DOMAIN apps \subseteq IDs /\ IsFiniteSet(DOMAIN apps) /\ Stay("app") \subseteq DOMAIN apps
  BY Listings DEF Inv, Typed
<1>5. page \in Seq(DOMAIN apps)
  BY <1>4, PageFacts
<1>6. /\ new \in Seq(Item) /\ Ids(new) = Ids(cmd.found) \o page
      /\ \A i \in DOMAIN new : Given(new[i].id, new[i].active)
  BY <1>3, <1>5, AppsListed DEF Inv, Typed
<1>7. /\ Sorted(FALSE, Ids(new)) /\ cursor \in Nat
      /\ cursor = 0 => Stay("app") \subseteq ToSet(Ids(new))
      /\ cursor # 0 => Progress(FALSE, cursor, Ids(new), Stay("app"))
  <2> DEFINE all == Ids(cmd.found) \o Page(DOMAIN apps, FALSE)
  <2>1. Ids(new) = all
    BY <1>6
  <2> HIDE DEF new
  <2>2. /\ Sorted(FALSE, all) /\ cursor \in Nat
        /\ cursor = 0 => Stay("app") \subseteq ToSet(all)
        /\ cursor # 0 => Progress(FALSE, cursor, all, Stay("app"))
    BY <1>3, <1>4, ListingStep
  <2> HIDE DEF all
  <2> QED
    BY <2>1, <2>2
<1> HIDE DEF new, cursor
<1>8. CASE cursor = 0
  BY <1>1, <1>2, <1>6, <1>7, <1>8, AppsComplete
<1>9. CASE cursor # 0
  <2>1. cmd \in Commands(cmd)
    BY DEF Inv, Typed
  <2>2. cmd' = [cmd EXCEPT !.found = new, !.cursor = cursor]
    BY <1>1, <1>9
  <2>3. cmd' \in Commands(cmd')
    BY <1>7, <2>1, <2>2 DEF Commands
  <2>4. /\ cmd'.found = new /\ cmd'.cursor = cursor /\ cmd'.pc = cmd.pc /\ cmd'.kind = cmd.kind
        /\ cmd'.latest = cmd.latest /\ cmd'.out = cmd.out /\ cmd'.specs = cmd.specs
    BY <2>1, <2>2 DEF Commands
  <2>5. Typed'
    BY <1>2, <2>3, Frame DEF Inv, Typed, Framed
  <2>6. (Built <=> Built') /\ \A id : Has("app", id)' <=> Has("app", id)
    BY <1>2, <2>4, Frame DEF Built, Has
  <2>7. AtApps'
    <3>1. (\A i \in DOMAIN cmd.found : Given(cmd.found[i].id, cmd.found[i].active))'
      BY <1>2, <1>6, <2>4, Frame
    <3>2. Progress(FALSE, cmd'.cursor, Ids(cmd'.found), Stay("app")')
      BY <1>2, <1>7, <1>9, <2>4, Frame
    <3> QED
      BY <1>3, <1>6, <2>4, <2>6, <3>1, <3>2 DEF AtApps
  <2>8. AtASGs' /\ AtLBs' /\ AtDumping' /\ AtVersions' /\ AtReads'
    BY <1>1, <2>4, Elsewhere
  <2>9. NewestFirst' => Recent'
    BY <1>1, <1>2, <2>4, RecentStays
  <2> QED
    BY <2>5, <2>7, <2>8, <2>9 DEF Inv
<1> QED
  BY <1>8, <1>9

LEMMA ListVersionsInv == Inv /\ ListVersions => Inv'
<1> SUFFICES ASSUME Inv, ListVersions PROVE Inv'
  OBVIOUS
<1> DEFINE numbers == DOMAIN apps[cmd.app].versions
           cursor == NextCursor(numbers, newFirst)
           new == cmd.found \o Page(numbers, newFirst)
<1>1. /\ cmd.pc = "pages"
      /\ cmd' = IF cmd.app \notin DOMAIN apps THEN Failed
                ELSE [cmd EXCEPT !.pc = IF cursor = 0 THEN "done" ELSE @, !.cursor = cursor,
                                 !.found = @ \o Page(numbers, newFirst)]
  BY DEF ListVersions, Go
<1>2. Framed
  BY DEF ListVersions, Go, Framed, Inv, Typed
<1>3. CASE cmd.app \notin DOMAIN apps
  BY <1>1, <1>2, <1>3, FailedInv
<1> SUFFICES ASSUME cmd.app \in DOMAIN apps PROVE Inv'
  BY <1>3
<1>4. cmd.kind = "versions" /\ cmd \in Commands(cmd) /\ newFirst \in BOOLEAN
  BY <1>1 DEF Inv, Typed, Cluster, AtReads
<1>5. Given(cmd.app, cmd.active) /\ Progress(newFirst, cmd.cursor, cmd.found, Kept)
  BY <1>1, <1>4 DEF Inv, AtVersions
<1>6. numbers \subseteq IDs /\ IsFiniteSet(numbers)
  BY Listings DEF Inv, Typed
<1>7. Kept \subseteq numbers
  <2>1. \A n : <<"version", cmd.app, n>> \in Existing => n \in numbers
    BY ExistingFacts
  <2> QED
    BY <2>1 DEF Kept, Inv, Typed, Cluster, StaysFine
<1>8. /\ new \in Seq(IDs) /\ Sorted(newFirst, new) /\ cursor \in Nat
      /\ cursor = 0 => Kept \subseteq ToSet(new)
      /\ cursor # 0 => Progress(newFirst, cursor, new, Kept)
  BY <1>4, <1>5, <1>6, <1>7, ListingStep
<1>9. cmd' = [cmd EXCEPT !.pc = IF cursor = 0 THEN "done" ELSE "pages", !.cursor = cursor,
                         !.found = new]
  BY <1>1, <1>4 DEF Commands
<1> HIDE DEF new, cursor
<1>10. cmd' \in Commands(cmd')
  BY <1>4, <1>8, <1>9, ZenonT(30) DEF Commands
<1>11. /\ cmd'.pc = IF cursor = 0 THEN "done" ELSE "pages"
       /\ cmd'.cursor = cursor /\ cmd'.found = new /\ cmd'.kind = "versions"
       /\ cmd'.app = cmd.app /\ cmd'.active = cmd.active /\ cmd'.specs = cmd.specs
  BY <1>4, <1>9 DEF Commands
<1>12. Typed'
  BY <1>2, <1>10, Frame DEF Inv, Typed, Framed
<1>13. Kept' = Kept
  BY <1>2, <1>11, Frame DEF Kept
<1>14. AtVersions'
  <2>2. CASE cursor = 0
    <3>1. Once(new)
      BY <1>4, <1>8, SortedOnce
    <3> QED
      BY <1>2, <1>5, <1>8, <1>11, <1>13, <2>2, <3>1, Frame DEF AtVersions
  <2>3. CASE cursor # 0
    BY <1>2, <1>5, <1>8, <1>11, <1>13, <2>3, Frame DEF AtVersions
  <2> QED
    BY <2>2, <2>3
<1>15. AtReads'
  BY <1>11 DEF AtReads
<1>16. AtASGs' /\ AtLBs' /\ AtApps' /\ AtDumping'
  BY <1>11, Elsewhere
<1>17. NewestFirst' => Recent'
  BY <1>2, <1>11, RecentStays
<1> QED
  BY <1>12, <1>14, <1>15, <1>16, <1>17 DEF Inv

\* The loop over the applications goes on, when dump has the one in turn, or left it out.
LEMMA NextAppInv ==
  ASSUME Inv, Framed, cmd.pc \in {"latest", "detail"}, cmd.kind = "dump",
         NEW c, c \in Commands(c), cmd' = NextApp(c),
         c.kind = "dump", c.todo = cmd.todo, c.cursor = cmd.cursor,
         Once(c.out), ToSet(cmd.out) \subseteq ToSet(c.out), cmd.skipped \subseteq c.skipped,
         \A id : <<"app", id>> \in ToSet(c.out) => Has("app", id) \/ id = Head(cmd.todo),
         <<"app", Head(cmd.todo)>> \in ToSet(c.out) \/ Head(cmd.todo) \in c.skipped,
         NewestFirst => \A s \in c.specs : Newest(s[1], s[2])
  PROVE  Inv'
<1> DEFINE app == Head(cmd.todo)
<1>1. /\ Built /\ cmd.todo # <<>> /\ Sorted(FALSE, cmd.todo) /\ cmd.todo \in Seq(IDs)
      /\ \A id \in Stay("app") : Has("app", id) \/ id \in cmd.skipped \/ id \in ToSet(cmd.todo)
      /\ \A id : Has("app", id) => \A x \in ToSet(cmd.todo) : id < x
      /\ cmd.cursor = 0
  BY DEF Inv, Typed, Commands, AtDumping, AtReads
<1>2. /\ app \in IDs /\ Tail(cmd.todo) \in Seq(IDs)
      /\ ToSet(cmd.todo) = {app} \cup ToSet(Tail(cmd.todo))
      /\ (Len(cmd.todo) = 1) = (Tail(cmd.todo) = <<>>)
      /\ Sorted(FALSE, Tail(cmd.todo)) /\ \A x \in ToSet(Tail(cmd.todo)) : app < x
  BY <1>1, TailSet, SortedTail DEF Before
<1>3. cmd' \in Commands(cmd')
  BY <1>2, ZenonT(30) DEF NextApp, Commands
<1>4. /\ cmd'.kind = "dump" /\ cmd'.specs = c.specs /\ cmd'.cursor = 0 /\ cmd'.out = c.out
      /\ cmd'.skipped = c.skipped /\ cmd'.todo = Tail(cmd.todo)
      /\ cmd'.pc = IF Len(cmd.todo) = 1 THEN "done" ELSE "latest"
  BY <1>1 DEF NextApp, Commands
<1>5. Typed'
  BY <1>3, Frame DEF Inv, Typed, Framed
<1>6. Built'
  BY <1>1, <1>4, Frame DEF Built
<1> HIDE DEF app
<1>7. AtDumping'
  <2>1. \A id \in Stay("app")' :
          \/ Has("app", id)' \/ id \in cmd'.skipped
          \/ (cmd'.pc # "done" /\ id \in ToSet(cmd'.todo))
    <3> SUFFICES ASSUME NEW id \in Stay("app"), ~Has("app", id)', id \notin cmd'.skipped
                 PROVE  cmd'.pc # "done" /\ id \in ToSet(cmd'.todo)
      BY Frame
    <3>1. <<"app", id>> \notin ToSet(c.out) /\ id \notin c.skipped
      BY <1>4 DEF Has
    <3>2. ~Has("app", id) /\ id \notin cmd.skipped /\ id # app
      BY <3>1 DEF Has, app
    <3>3. id \in ToSet(Tail(cmd.todo))
      BY <1>1, <1>2, <3>2
    <3> QED
      BY <1>2, <1>4, <3>3, EmptyLists
  <2>2. \A id : Has("app", id)' => \A x \in ToSet(Tail(cmd.todo)) : id < x
    <3>1. \A id : Has("app", id)' => Has("app", id) \/ id = app
      BY <1>4 DEF Has, app
    <3> QED
      BY <1>1, <1>2, <3>1
  <2> QED
    BY <1>2, <1>4, <1>6, <2>1, <2>2 DEF AtDumping
<1>8. cmd'.pc \in {"done", "latest"}
  BY <1>4
<1>9. AtReads'
  BY <1>4, <1>8 DEF AtReads
<1>10. AtASGs' /\ AtLBs' /\ AtApps' /\ AtVersions'
  BY <1>4, <1>8, Elsewhere
<1>11. NewestFirst' => Recent'
  <2> SUFFICES ASSUME NewestFirst' PROVE Recent'
    OBVIOUS
  <2>1. \A s \in c.specs : Newest(s[1], s[2])
    BY Frame
  <2>2. \A s \in cmd'.specs : Newest(s[1], s[2])'
    BY <1>4, <2>1, Frame
  <2> QED
    BY <1>4, <1>8, <2>2 DEF Recent
<1> QED
  BY <1>5, <1>7, <1>9, <1>10, <1>11 DEF Inv

LEMMA UnreadInv ==
  ASSUME Inv, Framed, cmd.pc \in {"latest", "detail"}, cmd' = Unread
  PROVE  Inv'
<1>1. cmd.kind \in {"dump", "diff"} /\ cmd \in Commands(cmd)
  BY DEF Inv, Typed, AtReads
<1>2. CASE cmd.kind = "diff"
  BY <1>2, FailedInv DEF Unread
<1>3. CASE cmd.kind = "dump"
  <2> DEFINE app == Head(cmd.todo)
             c == [cmd EXCEPT !.skipped = @ \cup {app}]
  <2>1. cmd' = NextApp(c)
    BY <1>3 DEF Unread, Reading
  <2>2. app \in Nat
    <3>1. cmd.todo # <<>> /\ cmd.todo \in Seq(IDs)
      BY <1>1, <1>3 DEF Inv, AtDumping, Commands
    <3> QED
      BY <3>1, TailSet DEF IDs
  <2> HIDE DEF app
  <2>3. c \in Commands(c)
    BY <1>1, <2>2, ZenonT(30) DEF Commands
  <2>4. /\ c.kind = "dump" /\ c.todo = cmd.todo /\ c.cursor = cmd.cursor /\ c.out = cmd.out
        /\ c.specs = cmd.specs /\ c.skipped = cmd.skipped \cup {app}
    BY <1>1, <1>3 DEF Commands
  <2> HIDE DEF c
  <2>5. Once(cmd.out)
    BY <1>3 DEF Inv, AtDumping, Built
  <2>6. NewestFirst => \A s \in cmd.specs : Newest(s[1], s[2])
    BY DEF Inv, Recent
  <2> QED
    BY <1>3, <2>1, <2>3, <2>4, <2>5, <2>6, NextAppInv DEF app, Has
<1> QED
  BY <1>1, <1>2, <1>3

LEMMA DumpedInv ==
  ASSUME Inv, Framed, cmd.pc \in {"latest", "detail"}, cmd.kind = "dump",
         NEW n \in Nat, NewestFirst => Newest(Head(cmd.todo), n), cmd' = Dumped(n)
  PROVE  Inv'
<1> DEFINE app == Head(cmd.todo)
           out == Append(cmd.out, <<"app", app>>)
           specs == cmd.specs \cup {<<app, n>>}
           c == [cmd EXCEPT !.out = out, !.specs = specs]
<1>1. cmd \in Commands(cmd)
  BY DEF Inv, Typed
<1>2. cmd' = NextApp(c)
  <2>1. c = [cmd EXCEPT !.out = Append(@, <<"app", app>>), !.specs = @ \cup {<<app, n>>}]
    OBVIOUS
  <2> QED
    BY <2>1 DEF Dumped, Reading
<1>3. /\ cmd.todo # <<>> /\ cmd.todo \in Seq(IDs) /\ Built
      /\ \A id : Has("app", id) => \A x \in ToSet(cmd.todo) : id < x
      /\ cmd.out \in Seq({"app", "asg", "lb"} \X IDs)
  BY <1>1 DEF Inv, AtDumping, Commands
<1>4. app \in IDs /\ app \in ToSet(cmd.todo)
  BY <1>3, TailSet
<1>5. <<"app", app>> \notin ToSet(cmd.out)
  <2>1. ~(app < app)
    BY <1>4 DEF IDs
  <2> QED
    BY <1>3, <1>4, <2>1 DEF Has
<1>6. /\ out \in Seq({"app", "asg", "lb"} \X IDs) /\ Once(out)
      /\ ToSet(out) = ToSet(cmd.out) \cup {<<"app", app>>}
  <2>1. <<"app", app>> \in {"app", "asg", "lb"} \X IDs
    BY <1>4
  <2>2. Once(cmd.out)
    BY <1>3 DEF Built
  <2> QED
    BY <1>3, <1>5, <2>1, <2>2, AppendedSet
<1> HIDE DEF app, out
<1>7. specs \in SUBSET (Nat \X Nat)
  <2>1. <<app, n>> \in Nat \X Nat
    BY <1>4 DEF IDs
  <2>2. cmd.specs \in SUBSET (Nat \X Nat)
    BY <1>1 DEF Commands
  <2> QED
    BY <2>1, <2>2
<1> HIDE DEF specs
<1>8. /\ c \in Commands(c) /\ c.kind = "dump" /\ c.todo = cmd.todo /\ c.cursor = cmd.cursor
      /\ c.out = out /\ c.specs = specs /\ c.skipped = cmd.skipped
  <2>1. c \in Commands(c)
    BY <1>1, <1>6, <1>7 DEF Commands
  <2> QED
    BY <1>1, <2>1 DEF Commands
<1> HIDE DEF c
<1>9. NewestFirst => \A s \in c.specs : Newest(s[1], s[2])
  <2> SUFFICES ASSUME NewestFirst, NEW s \in c.specs PROVE Newest(s[1], s[2])
    OBVIOUS
  <2>1. CASE s \in cmd.specs
    BY <2>1 DEF Inv, Recent
  <2>2. CASE s = <<app, n>>
    BY <2>2 DEF app
  <2> QED
    BY <1>8, <2>1, <2>2 DEF specs
<1>10. \A id : <<"app", id>> \in ToSet(c.out) => Has("app", id) \/ id = app
  BY <1>6, <1>8 DEF Has
<1> QED
  BY <1>2, <1>6, <1>8, <1>9, <1>10, NextAppInv DEF app

\* The highest number on the first page, for a list whose first page has the newest.
LEMMA HighestFacts ==
  ASSUME Cluster, cmd.cursor = 0, NEW app \in DOMAIN apps
  PROVE  LET page == Page(DOMAIN apps[app].versions, newFirst)
         IN  /\ page # <<>> => Highest(page) \in Nat
             /\ NewestFirst /\ page # <<>> => Newest(app, Highest(page))
             /\ page = <<>> => Newest(app, 0)
<1> DEFINE numbers == DOMAIN apps[app].versions
           page == Page(numbers, newFirst)
           cursor == NextCursor(numbers, newFirst)
<1>1. /\ numbers \subseteq IDs /\ IsFiniteSet(numbers) /\ Cardinality(numbers) \in Nat
      /\ Cardinality(numbers) <= MaxVersion
  BY Listings
<1>2. Rest(numbers, newFirst) = numbers
  BY DEF Rest
<1>3. newFirst \in BOOLEAN
  BY DEF Cluster
<1>4. /\ page \in Seq(numbers)
      /\ cursor = 0 => numbers \subseteq ToSet(page)
      /\ cursor # 0 =>
           /\ page # <<>> /\ cursor = page[Len(page)]
           /\ \A x \in numbers : x \in ToSet(page) \/ Before(newFirst, cursor, x)
      /\ numbers # {} => page # <<>>
  BY <1>1, <1>2, <1>3, PageFacts
<1>5. \A k \in IDs : <<"version", app, k>> \in through => k \in numbers
  BY ExistingFacts DEF Cluster, StaysFine
<1>6. MaxVersion <= PageSize => cursor = 0
  BY <1>1, <1>2, BoundsAssumption DEF NextCursor
<1> HIDE DEF page, cursor, numbers
<1>7. page = <<>> => Newest(app, 0)
  BY <1>4, <1>5 DEF Newest
<1>8. ASSUME page # <<>>
      PROVE  /\ Highest(page) \in IDs /\ \A k \in ToSet(page) : k <= Highest(page)
             /\ page[Len(page)] \in ToSet(page)
  <2>1. DOMAIN page = 1..Len(page) /\ Len(page) \in Nat /\ Len(page) # 0
    BY <1>4, <1>8, LenProperties, EmptySeq
  <2>2. page[Len(page)] \in ToSet(page)
    BY <2>1 DEF ToSet
  <2>3. ToSet(page) \subseteq numbers
    BY <1>4, <2>1, ElementOfSeq DEF ToSet
  <2>4. ToSet(page) \subseteq IDs /\ IsFiniteSet(ToSet(page)) /\ ToSet(page) # {}
    BY <1>1, <2>2, <2>3, FS_Subset
  <2>5. PICK x \in ToSet(page) : \A y \in ToSet(page) : x = y \/ Before(TRUE, x, y)
    BY <2>4, FirstThere
  <2>6. \A y \in ToSet(page) : y <= x
    BY <2>4, <2>5 DEF Before, IDs
  <2>7. Highest(page) \in ToSet(page) /\ \A k \in ToSet(page) : k <= Highest(page)
    BY <2>6 DEF Highest
  <2> QED
    BY <2>2, <2>4, <2>7
<1>9. ASSUME NewestFirst, page # <<>> PROVE Newest(app, Highest(page))
  <2> SUFFICES ASSUME NEW k \in numbers PROVE k <= Highest(page)
    BY <1>5 DEF Newest
  <2>1. CASE k \in ToSet(page)
    BY <1>8, <1>9, <2>1
  <2>2. CASE k \notin ToSet(page)
    <3>1. cursor # 0 /\ newFirst
      BY <1>4, <1>6, <1>9, <2>2 DEF NewestFirst
    <3>2. k < page[Len(page)]
      BY <1>4, <2>2, <3>1 DEF Before
    <3>3. page[Len(page)] <= Highest(page) /\ page[Len(page)] \in numbers
      BY <1>4, <1>8, <1>9, LenProperties, EmptySeq, ElementOfSeq
    <3>4. k \in Nat /\ page[Len(page)] \in Nat /\ Highest(page) \in Nat
      BY <1>1, <1>8, <1>9, <3>3 DEF IDs
    <3> QED
      BY <3>2, <3>3, <3>4
  <2> QED
    BY <2>1, <2>2
<1>10. page # <<>> => Highest(page) \in Nat
  BY <1>8 DEF IDs
<1> QED
  BY <1>7, <1>9, <1>10 DEF page, numbers

LEMMA GetLatestInv == Inv /\ GetLatest => Inv'
<1> SUFFICES ASSUME Inv, GetLatest PROVE Inv'
  OBVIOUS
<1> DEFINE page == Page(DOMAIN apps[Reading].versions, newFirst)
           latest == Highest(page)
<1>1. /\ cmd.pc = "latest"
      /\ cmd' = IF Reading \notin DOMAIN apps THEN Unread
                ELSE IF page # <<>> THEN [cmd EXCEPT !.pc = "detail", !.latest = latest]
                ELSE IF cmd.kind = "dump" THEN Dumped(0) ELSE Failed
  BY DEF GetLatest, Go
<1>2. Framed
  BY DEF GetLatest, Go, Framed, Inv, Typed
<1>3. cmd.kind \in {"dump", "diff"} /\ cmd.cursor = 0 /\ cmd \in Commands(cmd)
  BY <1>1 DEF Inv, Typed, AtReads
<1>4. CASE Reading \notin DOMAIN apps
  BY <1>1, <1>2, <1>4, UnreadInv
<1> SUFFICES ASSUME Reading \in DOMAIN apps PROVE Inv'
  BY <1>4
<1>5. /\ page # <<>> => latest \in Nat
      /\ NewestFirst /\ page # <<>> => Newest(Reading, latest)
      /\ page = <<>> => Newest(Reading, 0)
  BY <1>3, HighestFacts DEF Inv, Typed
<1> HIDE DEF page, latest
<1>6. CASE page = <<>> /\ cmd.kind = "dump"
  <2>1. cmd' = Dumped(0) /\ Newest(Head(cmd.todo), 0)
    BY <1>1, <1>5, <1>6 DEF Reading
  <2> QED
    BY <1>1, <1>2, <1>6, <2>1, DumpedInv
<1>7. CASE page = <<>> /\ cmd.kind # "dump"
  BY <1>1, <1>2, <1>7, FailedInv
<1>8. CASE page # <<>>
  <2>1. cmd' = [cmd EXCEPT !.pc = "detail", !.latest = latest]
    BY <1>1, <1>8
  <2>2. cmd' \in Commands(cmd')
    BY <1>3, <1>5, <1>8, <2>1 DEF Commands
  <2>3. /\ cmd'.pc = "detail" /\ cmd'.latest = latest /\ cmd'.kind = cmd.kind
        /\ cmd'.cursor = 0 /\ cmd'.todo = cmd.todo /\ cmd'.app = cmd.app
    BY <1>3, <2>1 DEF Commands
  <2>4. cmd'.out = cmd.out /\ cmd'.specs = cmd.specs /\ cmd'.skipped = cmd.skipped
    BY <1>3, <2>1 DEF Commands
  <2>5. Typed'
    BY <1>2, <2>2, Frame DEF Inv, Typed, Framed
  <2>6. AtDumping'
    <3> SUFFICES ASSUME cmd.kind = "dump" PROVE AtDumping'
      BY <2>3 DEF AtDumping
    <3>1. /\ Built
          /\ \A id \in Stay("app") :
               Has("app", id) \/ id \in cmd.skipped \/ id \in ToSet(cmd.todo)
          /\ cmd.todo # <<>> /\ Sorted(FALSE, cmd.todo)
          /\ \A id : Has("app", id) => \A x \in ToSet(cmd.todo) : id < x
      BY <1>1 DEF Inv, AtDumping
    <3>2. Built' /\ \A id : Has("app", id)' <=> Has("app", id)
      BY <1>2, <2>4, <3>1, Frame DEF Built, Has
    <3>3. \A id \in Stay("app")' :
            Has("app", id)' \/ id \in cmd'.skipped \/ (cmd'.pc # "done" /\ id \in ToSet(cmd'.todo))
      BY <1>2, <2>3, <2>4, <3>1, <3>2, Frame
    <3> QED
      BY <2>3, <3>1, <3>2, <3>3 DEF AtDumping
  <2>7. AtReads'
    BY <1>3, <2>3 DEF AtReads
  <2>8. AtASGs' /\ AtLBs' /\ AtApps' /\ AtVersions'
    BY <2>3, Elsewhere
  <2>9. NewestFirst' => Recent'
    <3> SUFFICES ASSUME NewestFirst' PROVE Recent'
      OBVIOUS
    <3>1. NewestFirst /\ \A s \in cmd.specs : Newest(s[1], s[2])
      BY <1>2, Frame DEF Inv, Recent
    <3>2. \A s \in cmd'.specs : Newest(s[1], s[2])'
      BY <1>2, <2>4, <3>1, Frame
    <3>3. Reading' = Reading
      BY <2>3 DEF Reading
    <3>4. Newest(Reading, cmd.latest)'
      BY <1>2, <1>5, <1>8, <2>3, <3>1, <3>3, Frame DEF Newest
    <3> QED
      BY <2>3, <3>2, <3>4 DEF Recent
  <2> QED
    BY <2>5, <2>6, <2>7, <2>8, <2>9 DEF Inv
<1> QED
  BY <1>3, <1>6, <1>7, <1>8

\* diff goes on with the next of its two versions.
LEMMA DiffInv ==
  ASSUME Inv, Framed, cmd' \in Commands(cmd'), cmd'.kind = "diff",
         cmd'.pc \in {"from", "to", "done"}, cmd'.specs = cmd.specs,
         NewestFirst /\ cmd'.latest # 0 =>
           cmd'.to = cmd'.latest /\ \A k \in IDs : <<"version", cmd'.app, k>> \in through => k <= cmd'.latest
  PROVE  Inv'
<1>1. Typed'
  BY Frame DEF Inv, Typed, Framed
<1>2. AtReads'
  BY DEF AtReads
<1>3. AtASGs' /\ AtLBs' /\ AtApps' /\ AtDumping' /\ AtVersions'
  BY Elsewhere
<1>4. NewestFirst' => Recent'
  <2> SUFFICES ASSUME NewestFirst' PROVE Recent'
    OBVIOUS
  <2>1. NewestFirst /\ \A s \in cmd.specs : Newest(s[1], s[2])
    BY Frame DEF Inv, Recent
  <2>2. \A s \in cmd'.specs : Newest(s[1], s[2])'
    BY <2>1, Frame
  <2>3. cmd'.latest # 0 => cmd'.to = cmd'.latest /\ Newest(cmd.app, cmd.latest)'
    BY <2>1, Frame DEF Newest
  <2> QED
    BY <2>2, <2>3 DEF Recent
<1> QED
  BY <1>1, <1>2, <1>3, <1>4 DEF Inv

LEMMA GetDetailInv == Inv /\ GetDetail => Inv'
<1> SUFFICES ASSUME Inv, GetDetail PROVE Inv'
  OBVIOUS
<1>1. /\ cmd.pc = "detail"
      /\ cmd' = IF ~Readable(Reading, cmd.latest) THEN Unread
                ELSE IF cmd.kind = "dump" THEN Dumped(cmd.latest)
                ELSE [cmd EXCEPT !.pc = "from", !.to = cmd.latest]
  BY DEF GetDetail, Go
<1>2. Framed
  BY DEF GetDetail, Go, Framed, Inv, Typed
<1>3. cmd.kind \in {"dump", "diff"} /\ cmd \in Commands(cmd) /\ cmd.latest \in Nat
  BY <1>1 DEF Inv, Typed, AtReads, Commands
<1>4. NewestFirst => Newest(Reading, cmd.latest)
  BY <1>1 DEF Inv, Recent
<1>5. CASE ~Readable(Reading, cmd.latest)
  BY <1>1, <1>2, <1>5, UnreadInv
<1>6. CASE Readable(Reading, cmd.latest) /\ cmd.kind = "dump"
  <2>1. cmd' = Dumped(cmd.latest) /\ (NewestFirst => Newest(Head(cmd.todo), cmd.latest))
    BY <1>1, <1>4, <1>6 DEF Reading
  <2> QED
    BY <1>1, <1>2, <1>3, <1>6, <2>1, DumpedInv
<1>7. CASE Readable(Reading, cmd.latest) /\ cmd.kind = "diff"
  <2>1. cmd' = [cmd EXCEPT !.pc = "from", !.to = cmd.latest]
    BY <1>1, <1>7
  <2>2. cmd' \in Commands(cmd')
    BY <1>3, <2>1 DEF Commands
  <2>3. /\ cmd'.kind = "diff" /\ cmd'.pc = "from" /\ cmd'.specs = cmd.specs
        /\ cmd'.to = cmd.latest /\ cmd'.latest = cmd.latest /\ cmd'.app = cmd.app
    BY <1>3, <1>7, <2>1 DEF Commands
  <2>4. NewestFirst => Newest(cmd.app, cmd.latest)
    BY <1>4, <1>7 DEF Reading
  <2> QED
    BY <1>2, <2>2, <2>3, <2>4, DiffInv DEF Newest
<1> QED
  BY <1>3, <1>5, <1>6, <1>7

LEMMA GetVersionInv == Inv /\ GetVersion => Inv'
<1> SUFFICES ASSUME Inv, GetVersion PROVE Inv'
  OBVIOUS
<1> DEFINE n == IF cmd.pc = "from" THEN cmd.from ELSE cmd.to
           details == Append(cmd.details, apps[cmd.app].versions[n])
           pc == IF cmd.pc = "from" THEN "to" ELSE "done"
<1>1. /\ cmd.pc \in {"from", "to"}
      /\ cmd' = IF ~Readable(cmd.app, n) THEN Failed ELSE [cmd EXCEPT !.pc = pc, !.details = details]
  <2>1. [cmd EXCEPT !.pc = pc, !.details = details]
          = [cmd EXCEPT !.pc = pc, !.details = Append(@, apps[cmd.app].versions[n])]
    OBVIOUS
  <2> QED
    BY <2>1 DEF GetVersion, Go
<1>2. Framed
  BY DEF GetVersion, Go, Framed, Inv, Typed
<1>3. cmd.kind = "diff" /\ cmd \in Commands(cmd)
  BY <1>1 DEF Inv, Typed, AtReads
<1>4. CASE ~Readable(cmd.app, n)
  BY <1>1, <1>2, <1>4, FailedInv
<1>5. CASE Readable(cmd.app, n)
  <2>1. cmd' = [cmd EXCEPT !.pc = pc, !.details = details]
    BY <1>1, <1>5
  <2>2. pc \in {"to", "done"}
    OBVIOUS
  <2> HIDE DEF pc, details, n
  <2>3. cmd' \in Commands(cmd')
    BY <1>3, <2>1, <2>2 DEF Commands
  <2>4. /\ cmd'.kind = "diff" /\ cmd'.pc \in {"to", "done"} /\ cmd'.specs = cmd.specs
        /\ cmd'.to = cmd.to /\ cmd'.latest = cmd.latest /\ cmd'.app = cmd.app
    BY <1>3, <2>1, <2>2 DEF Commands
  <2>5. NewestFirst /\ cmd.latest # 0 => cmd.to = cmd.latest /\ Newest(cmd.app, cmd.latest)
    BY <1>1, <1>3 DEF Inv, Recent
  <2> QED
    BY <1>2, <2>3, <2>4, <2>5, DiffInv DEF Newest
<1> QED
  BY <1>4, <1>5

LEMMA CallFailsInv == Inv /\ CallFails => Inv'
<1> SUFFICES ASSUME Inv, CallFails PROVE Inv'
  OBVIOUS
<1>1. Framed
  BY BoundsAssumption DEF CallFails, Framed, Inv, Typed
<1>2. CASE cmd.pc \in {"latest", "detail"}
  BY <1>1, <1>2, UnreadInv DEF CallFails
<1>3. CASE cmd.pc \notin {"latest", "detail"}
  BY <1>1, <1>3, FailedInv DEF CallFails
<1> QED
  BY <1>2, <1>3

-----------------------------------------------------------------------------
\* A command starts with nothing, and what exists then is what may stay.

LEMMA IdleFacts ==
  /\ Idle \in Commands(Idle) /\ Idle.pc = "idle" /\ Idle.kind = "dump" /\ Idle.cursor = 0
  /\ Idle.found = <<>> /\ Idle.out = <<>> /\ Idle.specs = {} /\ Idle.latest = 0
<1>1. Idle \in Commands(Idle)
  BY EmptyLists DEF Idle, Commands
<1>2. Idle.pc = "idle" /\ Idle.kind = "dump" /\ Idle.cursor = 0 /\ Idle.found = <<>>
  BY DEF Idle
<1>3. Idle.out = <<>> /\ Idle.specs = {} /\ Idle.latest = 0
  BY DEF Idle
<1> QED
  BY <1>1, <1>2, <1>3

LEMMA StartInv == Inv /\ Start => Inv'
<1> SUFFICES ASSUME Inv, Start PROVE Inv'
  OBVIOUS
<1>1. /\ apps' = apps /\ asgs' = asgs /\ created' = created /\ newFirst' = newFirst
      /\ moves' = moves /\ through' = Existing
  BY DEF Start, service
<1>2. Existing' = Existing
  BY <1>1 DEF Existing, Objects
<1>3. Cluster'
  <2>1. StaysFine'
    BY <1>1, <1>2, ExistingFacts DEF StaysFine
  <2>2. AppsFine' /\ ASGsFine'
    BY <1>1 DEF Inv, Typed, Cluster, AppsFine, ASGsFine
  <2> QED
    BY <1>1, <2>1, <2>2 DEF Inv, Typed, Cluster
<1>4. /\ cmd' \in Commands(cmd') /\ cmd'.specs = {} /\ cmd'.cursor = 0
      /\ cmd'.found = <<>> /\ cmd'.out = <<>> /\ cmd'.latest = 0
      /\ \/ cmd'.pc = "asgs" /\ cmd'.kind = "dump"
         \/ cmd'.pc = "find" /\ cmd'.kind \in {"versions", "diff"}
  <2>1. CASE cmd' = [Idle EXCEPT !.pc = "asgs"]
    <3>1. cmd' \in Commands(cmd')
      BY <2>1, IdleFacts DEF Commands
    <3> QED
      BY <2>1, <3>1, IdleFacts, ZenonT(30) DEF Commands
  <2>2. CASE \E name \in AppNames :
               cmd' = [Idle EXCEPT !.pc = "find", !.kind = "versions", !.name = name]
    <3>1. PICK name \in AppNames :
            cmd' = [Idle EXCEPT !.pc = "find", !.kind = "versions", !.name = name]
      BY <2>2
    <3>2. cmd' \in Commands(cmd')
      BY <3>1, IdleFacts, ZenonT(30) DEF Commands
    <3>3. cmd'.specs = {} /\ cmd'.cursor = 0 /\ cmd'.found = <<>> /\ cmd'.out = <<>>
      BY <3>1, IdleFacts DEF Commands
    <3>4. cmd'.latest = 0 /\ cmd'.pc = "find" /\ cmd'.kind = "versions"
      BY <3>1, IdleFacts DEF Commands
    <3> QED
      BY <3>2, <3>3, <3>4
  <2>3. CASE \E name \in AppNames : \E from, to \in 0..MaxVersion :
               cmd' = [Idle EXCEPT !.pc = "find", !.kind = "diff", !.name = name,
                                   !.from = from, !.to = to]
    <3>1. PICK name \in AppNames, from \in 0..MaxVersion, to \in 0..MaxVersion :
            cmd' = [Idle EXCEPT !.pc = "find", !.kind = "diff", !.name = name,
                                !.from = from, !.to = to]
      BY <2>3
    <3>2. from \in Nat /\ to \in Nat
      BY BoundsAssumption
    <3>3. cmd' \in Commands(cmd')
      BY <3>1, <3>2, IdleFacts, ZenonT(30) DEF Commands
    <3>4. cmd'.specs = {} /\ cmd'.cursor = 0 /\ cmd'.found = <<>> /\ cmd'.out = <<>>
      BY <3>1, IdleFacts DEF Commands
    <3>5. cmd'.latest = 0 /\ cmd'.pc = "find" /\ cmd'.kind = "diff"
      BY <3>1, IdleFacts DEF Commands
    <3> QED
      BY <3>3, <3>4, <3>5
  <2> QED
    BY <2>1, <2>2, <2>3 DEF Start
<1>5. Typed'
  BY <1>1, <1>3, <1>4 DEF Inv, Typed
<1>6. AtASGs'
  BY <1>4, EmptyLists DEF AtASGs
<1>7. AtApps'
  <2>1. \A i \in DOMAIN <<>> : FALSE
    OBVIOUS
  <2> QED
    BY <1>4, <2>1, EmptyLists DEF AtApps
<1>8. AtLBs' /\ AtDumping' /\ AtVersions' /\ AtReads'
  BY <1>4, Elsewhere
<1>9. Recent'
  BY <1>4 DEF Recent
<1> QED
  BY <1>5, <1>6, <1>7, <1>8, <1>9 DEF Inv

LEMMA InitInv == Init => Inv
<1> SUFFICES ASSUME Init PROVE Inv
  OBVIOUS
<1> DEFINE count == Cardinality(Objects(InitialApps, InitialASGs))
<1>1. /\ apps = InitialApps /\ asgs = InitialASGs /\ created = count /\ newFirst \in BOOLEAN
      /\ moves = 0 /\ cmd = Idle /\ through = {}
  BY DEF Init
<1>2. /\ count \in 0..MaxID
      /\ DOMAIN InitialApps \cap DOMAIN InitialASGs = {}
      /\ DOMAIN InitialApps \cup DOMAIN InitialASGs \subseteq 1..count
      /\ \A id \in DOMAIN InitialApps :
           LET app == InitialApps[id] IN
           /\ app = [name |-> app.name, active |-> app.active, versions |-> app.versions,
                     last |-> app.last]
           /\ app.name \in AppNames
           /\ app.last \in 0..MaxVersion /\ DOMAIN app.versions \subseteq 1..app.last
           /\ app.active \in {0} \cup DOMAIN app.versions
      /\ \A id \in DOMAIN InitialASGs :
           /\ InitialASGs[id] \subseteq 1..count
           /\ \A other \in DOMAIN InitialASGs \ {id} : InitialASGs[id] \cap InitialASGs[other] = {}
  BY InitialAssumption
<1> HIDE DEF count
<1>3. AppsFine
  <2> SUFFICES ASSUME NEW id \in DOMAIN apps
               PROVE  /\ id \in 1..created
                      /\ apps[id] \in Application(apps[id].versions)
                      /\ DOMAIN apps[id].versions \subseteq 1..apps[id].last
                      /\ apps[id].active \in {0} \cup DOMAIN apps[id].versions
    BY DEF AppsFine
  <2> DEFINE app == apps[id]
  <2>1. /\ id \in 1..created
        /\ app = [name |-> app.name, active |-> app.active, versions |-> app.versions,
                  last |-> app.last]
        /\ app.name \in AppNames
        /\ app.last \in 0..MaxVersion /\ DOMAIN app.versions \subseteq 1..app.last
        /\ app.active \in {0} \cup DOMAIN app.versions
    BY <1>1, <1>2
  <2> HIDE DEF app
  <2>2. app.active \in Nat
    BY <2>1, BoundsAssumption
  <2>3. app \in Application(app.versions)
    BY <2>1, <2>2 DEF Application
  <2> QED
    BY <2>1, <2>3 DEF app
<1>4. ASGsFine
  BY <1>1, <1>2 DEF ASGsFine
<1>5. Cluster
  BY <1>1, <1>2, <1>3, <1>4 DEF Cluster, StaysFine
<1>6. cmd \in Commands(cmd) /\ cmd.pc = "idle" /\ cmd.specs = {} /\ cmd.kind = "dump"
  BY <1>1, IdleFacts
<1>7. Typed
  BY <1>1, <1>5, <1>6, BoundsAssumption DEF Typed
<1>8. AtASGs /\ AtLBs /\ AtApps
  BY <1>6 DEF AtASGs, AtLBs, AtApps
<1>9. AtDumping /\ AtVersions /\ AtReads
  BY <1>6 DEF AtDumping, AtVersions, AtReads
<1>10. Recent
  BY <1>6 DEF Recent
<1> QED
  BY <1>7, <1>8, <1>9, <1>10 DEF Inv

LEMMA StutterInv == Inv /\ UNCHANGED vars => Inv'
<1> SUFFICES ASSUME Inv, UNCHANGED vars PROVE Inv'
  OBVIOUS
<1>1. Framed /\ cmd' = cmd
  BY DEF vars, service, Framed, Inv, Typed
<1>2. Typed'
  BY <1>1, Frame DEF Inv, Typed, Framed
<1>3. \A kind, id : Has(kind, id)' <=> Has(kind, id)
  BY <1>1 DEF Has
<1>4. AtASGs'
  BY <1>1, Frame DEF Inv, AtASGs
<1>5. AtLBs'
  <2>1. \A l : (Behind(l)' <=> Behind(l)) /\ (Ahead(l)' <=> Ahead(l))
    BY <1>1 DEF Behind, Ahead
  <2> QED
    BY <1>1, <1>3, <2>1, Frame DEF Inv, AtLBs
<1>6. Built' <=> Built
  BY <1>1, Frame DEF Built
<1>7. AtApps'
  BY <1>1, <1>3, <1>6, Frame DEF Inv, AtApps
<1>8. AtDumping'
  BY <1>1, <1>3, <1>6, Frame DEF Inv, AtDumping
<1>9. AtVersions'
  <2>1. Kept' = Kept
    BY <1>1, Frame DEF Kept
  <2> QED
    BY <1>1, <2>1, Frame DEF Inv, AtVersions
<1>10. AtReads'
  BY <1>1 DEF Inv, AtReads
<1>11. NewestFirst' => Recent'
  BY <1>1, Frame DEF Inv, Recent, Reading
<1> QED
  BY <1>2, <1>4, <1>5, <1>7, <1>8, <1>9, <1>10, <1>11 DEF Inv

LEMMA NextInv == Inv /\ [Next]_vars => Inv'
BY StartInv, ListASGsInv, ListLBsInv, GetLBInv, ListApplicationsInv, ListVersionsInv,
   GetLatestInv, GetDetailInv, GetVersionInv, CallFailsInv, OthersInv, StutterInv DEF Next, Step

-----------------------------------------------------------------------------
LEMMA SpecInv == Spec => []Inv
BY InitInv, NextInv, PTL DEF Spec

LEMMA InvTypes == Inv => TypeOK
<1> SUFFICES ASSUME Inv PROVE TypeOK
  OBVIOUS
<1>1. /\ created \in 0..MaxID /\ moves \in 0..MaxMoves /\ newFirst \in BOOLEAN
      /\ DOMAIN apps \cap DOMAIN asgs = {}
  BY DEF Inv, Typed, Cluster
<1>2. DOMAIN apps \cup DOMAIN asgs \subseteq 1..created
  BY DEF Inv, Typed, Cluster, AppsFine, ASGsFine
<1>3. \A id \in DOMAIN apps :
        /\ DOMAIN apps[id].versions \subseteq 1..apps[id].last
        /\ apps[id].active = 0 \/ apps[id].active \in DOMAIN apps[id].versions
  BY DEF Inv, Typed, Cluster, AppsFine
<1>4. cmd.cursor \in Nat /\ DOMAIN cmd = DOMAIN Idle
  BY DEF Inv, Typed, Commands, Idle
<1>5. cmd.pc = "lb" => cmd.lbs # <<>>
  BY DEF Inv, AtLBs
<1>6. cmd.pc \in {"lbs", "lb"} \/ (cmd.kind = "dump" /\ cmd.pc \in {"latest", "detail"})
      => cmd.todo # <<>>
  BY DEF Inv, AtLBs, AtDumping
<1> QED
  BY <1>1, <1>2, <1>3, <1>4, <1>5, <1>6 DEF TypeOK

LEMMA InvVersions == Inv => VersionsWhole
<1> SUFFICES ASSUME Inv, Done("versions") PROVE
      /\ Once(cmd.found)
      /\ \A n \in 1..MaxVersion : <<"version", cmd.app, n>> \in through => n \in ToSet(cmd.found)
      /\ <<"version", cmd.app, cmd.active>> \in Existing => cmd.active \in ToSet(cmd.found)
  BY DEF VersionsWhole
<1>1. Once(cmd.found) /\ Kept \subseteq ToSet(cmd.found)
  BY DEF Inv, AtVersions, Done
<1>2. \A n \in 1..MaxVersion : n \in IDs
  BY BoundsAssumption DEF IDs
<1>3. <<"version", cmd.app, cmd.active>> \in Existing => cmd.active \in IDs
  <2>1. \A id \in DOMAIN apps : \A n \in DOMAIN apps[id].versions : n \in IDs
    BY Listings DEF Inv, Typed
  <2> QED
    BY <2>1, ExistingFacts
<1> QED
  BY <1>1, <1>2, <1>3 DEF Kept

LEMMA InvDump == Inv => DumpWhole
<1> SUFFICES ASSUME Inv, Done("dump") PROVE
      /\ Once(cmd.out)
      /\ \A x \in through :
           x[1] # "version" => x \in ToSet(cmd.out) \/ (x[1] = "app" /\ x[2] \in cmd.skipped)
  BY DEF DumpWhole
<1>1. /\ Built
      /\ \A id \in Stay("app") : Has("app", id) \/ id \in cmd.skipped
  BY DEF Inv, AtDumping, Done
<1> SUFFICES ASSUME NEW x \in through, x[1] # "version"
             PROVE  x \in ToSet(cmd.out) \/ (x[1] = "app" /\ x[2] \in cmd.skipped)
  BY <1>1 DEF Built
<1>2. x \in Existing
  BY DEF Inv, Typed, Cluster, StaysFine
<1>3. x[1] \in {"app", "asg", "lb"} /\ x = <<x[1], x[2]>>
  <2>1. \A e \in Existing : e[1] \in {"app", "asg", "lb", "version"}
    BY DEF Existing, Objects
  <2> QED
    BY <1>2, <2>1, ExistingFacts
<1>4. CASE x[1] = "app"
  <2>1. x[2] \in Stay("app")
    BY <1>2, <1>3, <1>4, Listings, ExistingFacts DEF Inv, Typed, Stay
  <2> QED
    BY <1>1, <1>3, <1>4, <2>1 DEF Has
<1>5. CASE x[1] \in {"asg", "lb"}
  BY <1>1, <1>5 DEF Built
<1> QED
  BY <1>3, <1>4, <1>5

LEMMA InvLatest == Inv => LatestIsRecent
<1> SUFFICES ASSUME Inv, NewestFirst, NEW n \in 1..MaxVersion PROVE
      /\ Done("dump") => \A s \in cmd.specs : <<"version", s[1], n>> \in through => n <= s[2]
      /\ Done("diff") /\ cmd.latest # 0 /\ <<"version", cmd.app, n>> \in through => n <= cmd.to
  BY DEF LatestIsRecent, NewestFirst
<1>1. n \in IDs
  BY BoundsAssumption DEF IDs
<1>2. \A s \in cmd.specs : Newest(s[1], s[2])
  BY DEF Inv, Recent
<1>3. Done("diff") /\ cmd.latest # 0 => cmd.to = cmd.latest /\ Newest(cmd.app, cmd.latest)
  BY DEF Inv, Recent, Done
<1> QED
  BY <1>1, <1>2, <1>3 DEF Newest

-----------------------------------------------------------------------------
\* The comparison of two versions: sorted lists, joined words, ports under their targets.

\* Where x is in a list.
Places(s, x) == {i \in DOMAIN s : s[i] = x}

LEMMA PlacesFinite ==
  ASSUME NEW s, IsList(s), NEW x
  PROVE  IsFiniteSet(Places(s, x)) /\ Cardinality(Places(s, x)) \in Nat
<1>1. DOMAIN s = 1..Len(s) /\ Len(s) \in Nat
  BY DEF IsList
<1>2. IsFiniteSet(DOMAIN s)
  BY <1>1, FS_Interval
<1> QED
  BY <1>2, FS_Subset, FS_CardinalityType DEF Places

LEMMA BagOf ==
  ASSUME NEW s, NEW t
  PROVE  ToBag(s) = ToBag(t) <=>
           /\ Range(s) = Range(t)
           /\ \A x \in Range(s) : Cardinality(Places(s, x)) = Cardinality(Places(t, x))
<1>1. /\ ToBag(s) = [x \in Range(s) |-> Cardinality(Places(s, x))]
      /\ ToBag(t) = [x \in Range(t) |-> Cardinality(Places(t, x))]
  BY DEF ToBag, Places
<1>2. DOMAIN ToBag(s) = Range(s) /\ DOMAIN ToBag(t) = Range(t)
  BY <1>1
<1>3. ASSUME Range(s) = Range(t),
             \A x \in Range(s) : Cardinality(Places(s, x)) = Cardinality(Places(t, x))
      PROVE  ToBag(s) = ToBag(t)
  BY <1>1, <1>3
<1>4. ASSUME ToBag(s) = ToBag(t), NEW x \in Range(s)
      PROVE  Cardinality(Places(s, x)) = Cardinality(Places(t, x))
  <2>1. x \in Range(t)
    BY <1>2, <1>4
  <2>2. ToBag(s)[x] = Cardinality(Places(s, x)) /\ ToBag(t)[x] = Cardinality(Places(t, x))
    BY <1>1, <1>4, <2>1
  <2> QED
    BY <1>4, <2>2
<1> QED
  BY <1>2, <1>3, <1>4

\* Sorted, two lists are the same exactly when one is a permutation of the other.
LEMMA SortedSame ==
  ASSUME NEW s, IsList(s), NEW t, IsList(t)
  PROVE  SameUpToOrder(s, t) <=> ToBag(s) = ToBag(t)
<1>1. ASSUME SameUpToOrder(s, t) PROVE ToBag(s) = ToBag(t)
  <2>1. PICK perm \in Bijection(DOMAIN s, DOMAIN t) : \A i \in DOMAIN s : s[i] = t[perm[i]]
    BY <1>1 DEF SameUpToOrder
  <2>2. /\ \A i \in DOMAIN s : perm[i] \in DOMAIN t
        /\ \A i, j \in DOMAIN s : perm[i] = perm[j] => i = j
        /\ \A j \in DOMAIN t : \E i \in DOMAIN s : perm[i] = j
    BY Fun_BijectionProperties
  <2>3. Range(s) = Range(t)
    BY <2>1, <2>2 DEF Range
  <2>4. ASSUME NEW x PROVE Cardinality(Places(s, x)) = Cardinality(Places(t, x))
    <3> DEFINE f == [i \in Places(s, x) |-> perm[i]]
    <3>1. f \in [Places(s, x) -> Places(t, x)]
      BY <2>1, <2>2 DEF Places
    <3>2. \A i, j \in Places(s, x) : f[i] = f[j] => i = j
      BY <2>2 DEF Places
    <3>3. \A j \in Places(t, x) : \E i \in Places(s, x) : f[i] = j
      BY <2>1, <2>2 DEF Places
    <3> HIDE DEF f
    <3>4. f \in Bijection(Places(s, x), Places(t, x))
      BY <3>1, <3>2, <3>3, Fun_IsBij
    <3>5. ExistsBijection(Places(s, x), Places(t, x))
      BY <3>4, Fun_ExistsBij
    <3> QED
      BY <3>5, PlacesFinite, FS_Bijection
  <2> QED
    BY <2>3, <2>4, BagOf
<1>2. ASSUME ToBag(s) = ToBag(t) PROVE SameUpToOrder(s, t)
  <2> DEFINE Pair(x) == CHOOSE f : f \in Bijection(Places(s, x), Places(t, x))
             perm == [i \in DOMAIN s |-> Pair(s[i])[i]]
  <2>1. ASSUME NEW x \in Range(s)
        PROVE  /\ Pair(x) \in [Places(s, x) -> Places(t, x)]
               /\ \A i, j \in Places(s, x) : Pair(x)[i] = Pair(x)[j] => i = j
               /\ \A j \in Places(t, x) : \E i \in Places(s, x) : Pair(x)[i] = j
    <3>1. Cardinality(Places(s, x)) = Cardinality(Places(t, x))
      BY <1>2, <2>1, BagOf
    <3>2. ExistsBijection(Places(s, x), Places(t, x))
      BY <3>1, PlacesFinite, FS_SameCardinalityBij
    <3>3. \E f : f \in Bijection(Places(s, x), Places(t, x))
      BY <3>2, Fun_ExistsBij
    <3>4. Pair(x) \in Bijection(Places(s, x), Places(t, x))
      BY <3>3
    <3> HIDE DEF Pair
    <3> QED
      BY <3>4, Fun_BijectionProperties
  <2> HIDE DEF Pair
  <2>2. Range(s) = Range(t)
    BY <1>2, BagOf
  <2>3. \A i \in DOMAIN s : s[i] \in Range(s) /\ i \in Places(s, s[i])
    BY DEF Range, Places
  <2>4. \A i \in DOMAIN s : perm[i] \in Places(t, s[i])
    BY <2>1, <2>3
  <2>5. \A i \in DOMAIN s : perm[i] \in DOMAIN t /\ t[perm[i]] = s[i]
    BY <2>4 DEF Places
  <2>6. ASSUME NEW i \in DOMAIN s, NEW j \in DOMAIN s, perm[i] = perm[j] PROVE i = j
    <3>1. s[i] = s[j]
      BY <2>5, <2>6
    <3>2. Pair(s[i])[i] = Pair(s[i])[j] /\ j \in Places(s, s[i])
      BY <2>3, <2>6, <3>1
    <3> QED
      BY <2>1, <2>3, <3>2
  <2>7. ASSUME NEW j \in DOMAIN t PROVE \E i \in DOMAIN s : perm[i] = j
    <3>1. t[j] \in Range(s) /\ j \in Places(t, t[j])
      BY <2>2 DEF Range, Places
    <3>2. PICK i \in Places(s, t[j]) : Pair(t[j])[i] = j
      BY <2>1, <3>1
    <3>3. i \in DOMAIN s /\ s[i] = t[j]
      BY DEF Places
    <3> QED
      BY <3>2, <3>3
  <2>8. perm \in [DOMAIN s -> DOMAIN t]
    BY <2>5
  <2> HIDE DEF perm
  <2>9. perm \in Bijection(DOMAIN s, DOMAIN t)
    BY <2>6, <2>7, <2>8, Fun_IsBij
  <2> QED
    BY <2>5, <2>9 DEF SameUpToOrder
<1> QED
  BY <1>1, <1>2

\* A set of numbers has a least one.
LEMMA Least ==
  ASSUME NEW T \in SUBSET Nat, T # {}
  PROVE  \E k \in T : \A m \in T : k <= m
<1> DEFINE Less == OpToRel(<, Nat)
<1>1. IsWellFoundedOn(Less, Nat)
  BY NatLessThanWellFounded
<1>2. PICK k \in T : \A m \in T : <<m, k>> \notin Less
  <2> HIDE DEF Less
  <2> QED
    BY <1>1, WFMin
<1>3. \A m \in T : ~(m < k)
  BY <1>2 DEF OpToRel
<1> QED
  BY <1>3

\* Words without a space stay apart when they are joined.
LEMMA WordsJoined ==
  ASSUME NEW s, IsList(s), \A i \in DOMAIN s : IsList(s[i]) /\ Len(s[i]) = 1
  PROVE  FlattenSeq(s) = [i \in 1..Len(s) |-> s[i][1]]
<1>1. Len(s) \in Nat /\ DOMAIN s = 1..Len(s)
  BY DEF IsList
<1>2. CASE Len(s) = 0
  <2>1. s = <<>>
    BY <1>2, EmptySeq DEF IsList
  <2>2. FlattenSeq(s) = s
    BY <1>2 DEF FlattenSeq
  <2>3. [i \in 1..Len(s) |-> s[i][1]] = <<>>
    BY <1>2
  <2> QED
    BY <2>1, <2>2, <2>3
<1>3. CASE Len(s) # 0
  <2> DEFINE n == Len(s)
             Firsts(k) == [i \in 1..k |-> s[i][1]]
             Joint(f) == [i \in 1..n |-> IF i = 1 THEN s[i] ELSE f[i - 1] \o s[i]]
             flatten[i \in 1..n] == IF i = 1 THEN s[i] ELSE flatten[i - 1] \o s[i]
             wanted == [i \in 1..n |-> Firsts(i)]
  <2>1. FlattenSeq(s) = flatten[n]
    BY <1>3 DEF FlattenSeq
  <2>2. \A i \in 1..n : s[i] = <<s[i][1]>> /\ s[i] \in Seq({s[i][1]})
    <3> SUFFICES ASSUME NEW i \in 1..n PROVE s[i] = <<s[i][1]>> /\ s[i] \in Seq({s[i][1]})
      OBVIOUS
    <3>1. s[i] \in Seq(ToSet(s[i])) /\ Len(s[i]) = 1
      BY <1>1 DEF IsList
    <3>2. DOMAIN s[i] = 1..1 /\ s[i] = [j \in 1..1 |-> s[i][j]]
      BY <3>1, LenProperties
    <3>3. s[i] = <<s[i][1]>>
      BY <3>2
    <3>4. ToSet(s[i]) = {s[i][1]}
      BY <3>2 DEF ToSet
    <3> QED
      BY <3>1, <3>3, <3>4
  <2>3. ASSUME NEW i \in 1..n, i # 1 PROVE Firsts(i - 1) \o s[i] = Firsts(i)
    <3>1. i - 1 \in Nat /\ i \in Nat /\ i - 1 + 1 = i /\ i - 1 \in 1..n
      BY <1>1, <2>3
    <3> DEFINE W == {s[k][1] : k \in 1..n}
    <3>2. Firsts(i - 1) \in Seq(W) /\ Len(Firsts(i - 1)) = i - 1
      <4>1. \A k \in 1..(i - 1) : k \in 1..n
        BY <1>1, <3>1
      <4>2. \A k \in 1..(i - 1) : s[k][1] \in W
        BY <4>1
      <4> HIDE DEF W
      <4> QED
        BY <3>1, <4>2
    <3>3. <<s[i][1]>> \in Seq(W) /\ Len(<<s[i][1]>>) = 1
      OBVIOUS
    <3> HIDE DEF W
    <3>4. Firsts(i - 1) \o <<s[i][1]>> = [k \in 1..i |-> IF k <= i - 1 THEN Firsts(i - 1)[k] ELSE s[i][1]]
      <4>1. Firsts(i - 1) \o <<s[i][1]>> \in Seq(W) /\ Len(Firsts(i - 1) \o <<s[i][1]>>) = i
        BY <3>1, <3>2, <3>3, ConcatProperties
      <4>2. \A k \in 1..i : (Firsts(i - 1) \o <<s[i][1]>>)[k]
                            = IF k <= i - 1 THEN Firsts(i - 1)[k] ELSE s[i][1]
        BY <3>1, <3>2, <3>3, ConcatProperties
      <4> HIDE DEF Firsts
      <4> QED
        BY <3>1, <4>1, <4>2
    <3>5. \A k \in 1..i : (IF k <= i - 1 THEN Firsts(i - 1)[k] ELSE s[i][1]) = Firsts(i)[k]
      BY <3>1
    <3> QED
      BY <2>2, <3>4, <3>5
  <2>4. wanted = Joint(wanted)
    <3>1. \A i \in 1..n : wanted[i] = IF i = 1 THEN s[i] ELSE wanted[i - 1] \o s[i]
      <4> SUFFICES ASSUME NEW i \in 1..n
                   PROVE  wanted[i] = IF i = 1 THEN s[i] ELSE wanted[i - 1] \o s[i]
        OBVIOUS
      <4>1. CASE i = 1
        <5>1. Firsts(1) = <<s[1][1]>>
          OBVIOUS
        <5> QED
          BY <2>2, <4>1, <5>1
      <4>2. CASE i # 1
        <5>1. i - 1 \in 1..n
          BY <1>1, <4>2
        <5> QED
          BY <2>3, <4>2, <5>1
      <4> QED
        BY <4>1, <4>2
    <3> QED
      BY <3>1
  <2>5. flatten = Joint(flatten)
    <3>1. \E f : f = Joint(f)
      BY <2>4
    <3>2. flatten = CHOOSE f : f = Joint(f)
      OBVIOUS
    <3> HIDE DEF flatten, Joint
    <3> QED
      BY <3>1, <3>2
  <2> HIDE DEF flatten, Firsts
  <2>6. \A i \in 1..n : flatten[i] = Firsts(i)
    <3> DEFINE T == {i \in 1..n : flatten[i] # Firsts(i)}
    <3> SUFFICES ASSUME T # {} PROVE FALSE
      OBVIOUS
    <3>0. T \in SUBSET Nat
      BY <1>1
    <3>1. PICK k \in T : \A m \in T : k <= m
      <4> HIDE DEF T
      <4> QED
        BY <3>0, Least
    <3>2. k \in 1..n /\ flatten[k] # Firsts(k)
      OBVIOUS
    <3>3. wanted[k] = IF k = 1 THEN s[k] ELSE wanted[k - 1] \o s[k]
      BY <2>4, <3>2
    <3>4. flatten[k] = IF k = 1 THEN s[k] ELSE flatten[k - 1] \o s[k]
      BY <2>5, <3>2
    <3>5. CASE k = 1
      BY <3>2, <3>3, <3>4, <3>5
    <3>6. CASE k # 1
      <4>1. k - 1 \in 1..n /\ ~(k <= k - 1)
        BY <1>1, <3>2, <3>6
      <4>2. flatten[k - 1] = Firsts(k - 1)
        BY <3>1, <4>1
      <4>3. wanted[k - 1] = Firsts(k - 1) /\ wanted[k] = Firsts(k)
        BY <3>2, <4>1
      <4> QED
        BY <3>2, <3>3, <3>4, <3>6, <4>2, <4>3
    <3> QED
      BY <3>5, <3>6
  <2> QED
    BY <1>1, <1>3, <2>1, <2>6 DEF Firsts
<1> QED
  BY <1>2, <1>3

Distinct(ps) ==
  /\ IsList(ps)
  /\ \A i, j \in DOMAIN ps :
       IsList(ps[i].hosts) /\ (ps[i].target = ps[j].target => i = j)

NamedHosts(ps) == \A i \in DOMAIN ps : None \notin ToSet(ps[i].hosts)

Normal(p) == [lb |-> p.lb, hosts |-> ToBag(JoinedList(p.hosts))]

\* The normal form has each port under its target.
LEMMA PortAt ==
  ASSUME NEW ps, Distinct(ps)
  PROVE  /\ DOMAIN NormalPorts(ps) = {ps[i].target : i \in DOMAIN ps}
         /\ NormalPorts(ps) = [t \in DOMAIN NormalPorts(ps) |-> NormalPorts(ps)[t]]
         /\ \A i \in DOMAIN ps : NormalPorts(ps)[ps[i].target] = Normal(ps[i])
<1> DEFINE Port(t) == CHOOSE q \in ToSet(ps) : q.target = t
           all == {p.target : p \in ToSet(ps)}
<1>1. NormalPorts(ps) = [t \in all |-> Normal(Port(t))]
  BY DEF NormalPorts, Normal
<1>2. all = {ps[i].target : i \in DOMAIN ps}
  BY DEF ToSet
<1>3. ASSUME NEW i \in DOMAIN ps PROVE Port(ps[i].target) = ps[i]
  <2>1. ps[i] \in ToSet(ps)
    BY DEF ToSet
  <2>2. Port(ps[i].target) \in ToSet(ps) /\ Port(ps[i].target).target = ps[i].target
    BY <2>1
  <2> HIDE DEF Port
  <2>3. PICK j \in DOMAIN ps : Port(ps[i].target) = ps[j]
    BY <2>2 DEF ToSet
  <2>4. ps[j].target = ps[i].target
    BY <2>2, <2>3
  <2> QED
    BY <2>3, <2>4 DEF Distinct
<1>4. \A i \in DOMAIN ps : ps[i].target \in all
  BY <1>2
<1> HIDE DEF Port, all
<1> QED
  BY <1>1, <1>2, <1>3, <1>4

LEMMA JoinedIsList ==
  ASSUME NEW s, IsList(s)
  PROVE  IsList(JoinedList(s))
<1>1. IsList(<<None>>)
  <2>1. <<None>> \in Seq({None}) /\ DOMAIN <<None>> = 1..1 /\ <<None>>[1] = None
    OBVIOUS
  <2>2. ToSet(<<None>>) = {None}
    BY <2>1 DEF ToSet
  <2> QED
    BY <2>1, <2>2 DEF IsList
<1> QED
  BY <1>1 DEF JoinedList

\* A list is the same up to order as an empty one only if it is empty.
LEMMA EmptySame ==
  ASSUME NEW s, IsList(s), NEW t, IsList(t), SameUpToOrder(s, t)
  PROVE  s = <<>> <=> t = <<>>
<1>1. PICK perm \in Bijection(DOMAIN s, DOMAIN t) : \A i \in DOMAIN s : s[i] = t[perm[i]]
  BY DEF SameUpToOrder
<1>2. /\ \A i \in DOMAIN s : perm[i] \in DOMAIN t
      /\ \A j \in DOMAIN t : \E i \in DOMAIN s : perm[i] = j
  BY Fun_BijectionProperties
<1>3. ASSUME NEW u, IsList(u) PROVE u = <<>> <=> DOMAIN u = {}
  <2>1. u \in Seq(ToSet(u)) /\ DOMAIN u = 1..Len(u) /\ Len(u) \in Nat
    BY <1>3, LenProperties DEF IsList
  <2>2. Len(u) = 0 <=> u = <<>>
    BY <2>1, EmptySeq
  <2>3. Len(u) = 0 <=> 1..Len(u) = {}
    <3>1. ASSUME NEW n \in Nat PROVE n = 0 <=> 1..n = {}
      <4>1. n # 0 => 1 \in 1..n
        OBVIOUS
      <4>2. n = 0 => \A i \in 1..n : FALSE
        OBVIOUS
      <4> QED
        BY <4>1, <4>2
    <3> QED
      BY <2>1, <3>1
  <2> QED
    BY <2>1, <2>2, <2>3
<1>4. DOMAIN s = {} <=> DOMAIN t = {}
  BY <1>2
<1> QED
  BY <1>3, <1>4

\* Nothing is as good as an empty string once it is joined, and all else keeps apart.
LEMMA JoinedSame ==
  ASSUME NEW s, IsList(s), NEW t, IsList(t), None \notin ToSet(t),
         SameUpToOrder(JoinedList(s), JoinedList(t))
  PROVE  s = <<>> => t = <<>>
<1> SUFFICES ASSUME s = <<>>, t # <<>> PROVE FALSE
  OBVIOUS
<1>1. PICK perm \in Bijection(DOMAIN <<None>>, DOMAIN t) :
         \A i \in DOMAIN <<None>> : <<None>>[i] = t[perm[i]]
  BY DEF SameUpToOrder, JoinedList
<1>2. 1 \in DOMAIN <<None>> /\ <<None>>[1] = None
  OBVIOUS
<1>3. perm[1] \in DOMAIN t /\ t[perm[1]] = None
  <2>1. \A i \in DOMAIN <<None>> : perm[i] \in DOMAIN t
    BY Fun_BijectionProperties
  <2> QED
    BY <1>1, <1>2, <2>1
<1> QED
  BY <1>3 DEF ToSet

LEMMA SameBack ==
  ASSUME NEW s, NEW t, SameUpToOrder(s, t)
  PROVE  SameUpToOrder(t, s)
<1>1. PICK perm \in Bijection(DOMAIN s, DOMAIN t) : \A i \in DOMAIN s : s[i] = t[perm[i]]
  BY DEF SameUpToOrder
<1>2. /\ perm \in [DOMAIN s -> DOMAIN t]
      /\ \A i, j \in DOMAIN s : perm[i] = perm[j] => i = j
      /\ \A j \in DOMAIN t : \E i \in DOMAIN s : perm[i] = j
  BY Fun_BijectionProperties
<1> DEFINE back == [j \in DOMAIN t |-> CHOOSE i \in DOMAIN s : perm[i] = j]
<1>3. ASSUME NEW j \in DOMAIN t PROVE back[j] \in DOMAIN s /\ perm[back[j]] = j
  BY <1>2
<1>4. back \in [DOMAIN t -> DOMAIN s]
  BY <1>3
<1> HIDE DEF back
<1>5. \A j, k \in DOMAIN t : back[j] = back[k] => j = k
  BY <1>3
<1>6. \A i \in DOMAIN s : \E j \in DOMAIN t : back[j] = i
  BY <1>2, <1>3
<1>7. back \in Bijection(DOMAIN t, DOMAIN s)
  BY <1>4, <1>5, <1>6, Fun_IsBij
<1>8. \A j \in DOMAIN t : t[j] = s[back[j]]
  BY <1>1, <1>3
<1> QED
  BY <1>7, <1>8 DEF SameUpToOrder

\* The normal form of a port is the same for hosts in another order, and for no others
\* if no host is empty.
LEMMA NormalSame ==
  ASSUME NEW p, NEW q, IsList(p.hosts), IsList(q.hosts)
  PROVE  /\ p.lb = q.lb /\ SameUpToOrder(p.hosts, q.hosts) => Normal(p) = Normal(q)
         /\ /\ None \notin ToSet(p.hosts) /\ None \notin ToSet(q.hosts)
            /\ Normal(p) = Normal(q)
            => p.lb = q.lb /\ SameUpToOrder(p.hosts, q.hosts)
<1> DEFINE s == p.hosts
           t == q.hosts
<1>1. Normal(p) = Normal(q) <=> p.lb = q.lb /\ ToBag(JoinedList(s)) = ToBag(JoinedList(t))
  <2>1. Normal(p).lb = p.lb /\ Normal(q).lb = q.lb
    BY DEF Normal
  <2>2. Normal(p).hosts = ToBag(JoinedList(s)) /\ Normal(q).hosts = ToBag(JoinedList(t))
    BY DEF Normal
  <2> QED
    BY <2>1, <2>2 DEF Normal
<1>2. IsList(s) /\ IsList(t)
  OBVIOUS
<1> HIDE DEF s, t
<1>3. SameUpToOrder(JoinedList(s), JoinedList(t)) <=> ToBag(JoinedList(s)) = ToBag(JoinedList(t))
  BY <1>2, JoinedIsList, SortedSame
<1>4. ASSUME SameUpToOrder(s, t) PROVE SameUpToOrder(JoinedList(s), JoinedList(t))
  <2>1. CASE s = <<>>
    <3>1. JoinedList(s) = JoinedList(t)
      BY <1>2, <1>4, <2>1, EmptySame
    <3> QED
      BY <1>3, <3>1
  <2>2. CASE s # <<>>
    <3>1. JoinedList(s) = s /\ JoinedList(t) = t
      BY <1>2, <1>4, <2>2, EmptySame DEF JoinedList
    <3> QED
      BY <1>4, <3>1
  <2> QED
    BY <2>1, <2>2
<1>5. ASSUME None \notin ToSet(s), None \notin ToSet(t),
             SameUpToOrder(JoinedList(s), JoinedList(t))
      PROVE  SameUpToOrder(s, t)
  <2>1. s = <<>> => t = <<>>
    BY <1>2, <1>5, JoinedSame
  <2>2. t = <<>> => s = <<>>
    BY <1>2, <1>5, JoinedSame, SameBack
  <2>3. CASE s = <<>>
    <3>1. s = t
      BY <2>1, <2>3
    <3> QED
      BY <1>2, <3>1, SortedSame
  <2>4. CASE s # <<>>
    BY <1>5, <2>2, <2>4 DEF JoinedList
  <2> QED
    BY <2>3, <2>4
<1> QED
  BY <1>1, <1>3, <1>4, <1>5 DEF s, t

LEMMA PortsSame ==
  ASSUME NEW ps, Distinct(ps), NEW qs, Distinct(qs)
  PROVE  /\ SamePorts(ps, qs) => NormalPorts(ps) = NormalPorts(qs)
         /\ NamedHosts(ps) /\ NamedHosts(qs) /\ NormalPorts(ps) = NormalPorts(qs)
              => SamePorts(ps, qs)
<1>1. ASSUME NEW i \in DOMAIN ps, NEW j \in DOMAIN qs
      PROVE  /\ ps[i].lb = qs[j].lb /\ SameUpToOrder(ps[i].hosts, qs[j].hosts)
                   => Normal(ps[i]) = Normal(qs[j])
             /\ NamedHosts(ps) /\ NamedHosts(qs) /\ Normal(ps[i]) = Normal(qs[j])
                   => ps[i].lb = qs[j].lb /\ SameUpToOrder(ps[i].hosts, qs[j].hosts)
  BY NormalSame DEF Distinct, NamedHosts
<1>2. ASSUME SamePorts(ps, qs) PROVE NormalPorts(ps) = NormalPorts(qs)
  <2>1. PICK perm \in Bijection(DOMAIN ps, DOMAIN qs) : \A i \in DOMAIN ps :
          /\ ps[i].target = qs[perm[i]].target
          /\ ps[i].lb = qs[perm[i]].lb /\ SameUpToOrder(ps[i].hosts, qs[perm[i]].hosts)
    BY <1>2 DEF SamePorts
  <2>2. /\ \A i \in DOMAIN ps : perm[i] \in DOMAIN qs
        /\ \A j \in DOMAIN qs : \E i \in DOMAIN ps : perm[i] = j
    BY Fun_BijectionProperties
  <2>3. {ps[i].target : i \in DOMAIN ps} = {qs[j].target : j \in DOMAIN qs}
    <3>1. ASSUME NEW i \in DOMAIN ps PROVE ps[i].target \in {qs[j].target : j \in DOMAIN qs}
      BY <2>1, <2>2
    <3>2. ASSUME NEW j \in DOMAIN qs PROVE qs[j].target \in {ps[i].target : i \in DOMAIN ps}
      BY <2>1, <2>2
    <3> QED
      BY <3>1, <3>2
  <2>4. \A i \in DOMAIN ps : Normal(ps[i]) = Normal(qs[perm[i]])
    BY <1>1, <2>1, <2>2
  <2>5. \A i \in DOMAIN ps : NormalPorts(ps)[ps[i].target] = NormalPorts(qs)[ps[i].target]
    <3> SUFFICES ASSUME NEW i \in DOMAIN ps
                 PROVE  NormalPorts(ps)[ps[i].target] = NormalPorts(qs)[ps[i].target]
      OBVIOUS
    <3>1. NormalPorts(ps)[ps[i].target] = Normal(ps[i])
      BY PortAt
    <3>2. perm[i] \in DOMAIN qs
      BY <2>2
    <3>3. NormalPorts(qs)[qs[perm[i]].target] = Normal(qs[perm[i]])
      BY <3>2, PortAt
    <3> QED
      BY <2>1, <2>4, <3>1, <3>3
  <2>6. DOMAIN NormalPorts(ps) = DOMAIN NormalPorts(qs)
    <3>1. DOMAIN NormalPorts(ps) = {ps[i].target : i \in DOMAIN ps}
      BY PortAt
    <3>2. DOMAIN NormalPorts(qs) = {qs[j].target : j \in DOMAIN qs}
      BY PortAt
    <3> QED
      BY <2>3, <3>1, <3>2
  <2>7. ASSUME NEW t \in DOMAIN NormalPorts(ps) PROVE NormalPorts(ps)[t] = NormalPorts(qs)[t]
    <3>1. DOMAIN NormalPorts(ps) = {ps[i].target : i \in DOMAIN ps}
      BY PortAt
    <3>2. PICK i \in DOMAIN ps : t = ps[i].target
      BY <3>1
    <3> QED
      BY <2>5, <3>2
  <2>8. /\ NormalPorts(ps) = [t \in DOMAIN NormalPorts(ps) |-> NormalPorts(ps)[t]]
        /\ NormalPorts(qs) = [t \in DOMAIN NormalPorts(qs) |-> NormalPorts(qs)[t]]
    BY PortAt
  <2> QED
    BY <2>6, <2>7, <2>8
<1>3. ASSUME NamedHosts(ps), NamedHosts(qs), NormalPorts(ps) = NormalPorts(qs)
      PROVE  SamePorts(ps, qs)
  <2>1. {ps[i].target : i \in DOMAIN ps} = {qs[j].target : j \in DOMAIN qs}
    <3>1. DOMAIN NormalPorts(ps) = {ps[i].target : i \in DOMAIN ps}
      BY PortAt
    <3>2. DOMAIN NormalPorts(qs) = {qs[j].target : j \in DOMAIN qs}
      BY PortAt
    <3> QED
      BY <1>3, <3>1, <3>2
  <2> DEFINE perm == [i \in DOMAIN ps |-> CHOOSE j \in DOMAIN qs : qs[j].target = ps[i].target]
  <2>2. \A i \in DOMAIN ps : perm[i] \in DOMAIN qs /\ qs[perm[i]].target = ps[i].target
    <3> SUFFICES ASSUME NEW i \in DOMAIN ps
                 PROVE  perm[i] \in DOMAIN qs /\ qs[perm[i]].target = ps[i].target
      OBVIOUS
    <3>1. \E j \in DOMAIN qs : qs[j].target = ps[i].target
      BY <2>1
    <3> QED
      BY <3>1
  <2>3. perm \in [DOMAIN ps -> DOMAIN qs]
    BY <2>2
  <2> HIDE DEF perm
  <2>4. \A i, j \in DOMAIN ps : perm[i] = perm[j] => i = j
    BY <2>2 DEF Distinct
  <2>5. ASSUME NEW j \in DOMAIN qs PROVE \E i \in DOMAIN ps : perm[i] = j
    <3>1. PICK i \in DOMAIN ps : ps[i].target = qs[j].target
      BY <2>1
    <3> QED
      BY <2>2, <3>1 DEF Distinct
  <2>6. perm \in Bijection(DOMAIN ps, DOMAIN qs)
    BY <2>3, <2>4, <2>5, Fun_IsBij
  <2>7. ASSUME NEW i \in DOMAIN ps
        PROVE  ps[i].lb = qs[perm[i]].lb /\ SameUpToOrder(ps[i].hosts, qs[perm[i]].hosts)
    <3>1. NormalPorts(ps)[ps[i].target] = Normal(ps[i])
      BY PortAt
    <3>2. NormalPorts(qs)[qs[perm[i]].target] = Normal(qs[perm[i]])
      BY <2>2, PortAt
    <3>3. Normal(ps[i]) = Normal(qs[perm[i]])
      BY <1>3, <2>2, <3>1, <3>2
    <3> QED
      BY <1>1, <1>3, <2>2, <3>3
  <2> QED
    BY <2>2, <2>6, <2>7 DEF SamePorts
<1> QED
  BY <1>2, <1>3

\* The comparison of the variables, where a note would not say that it cannot tell.
LEMMA EnvTold ==
  ASSUME NEW v, IsVersion(v), NEW w, IsVersion(w), ~HasSecretEnv(v, w),
         CompareVersionEnv(v.env, w.env) = {}
  PROVE  v.env = w.env
<1>1. ASSUME NEW k \in Keys PROVE v.env[k] = w.env[k]
  <2>1. /\ (v.env[k] = None) = (w.env[k] = None)
        /\ v.env[k] # None /\ w.env[k] # None /\ ~v.env[k].secret /\ ~w.env[k].secret
             => v.env[k].value = w.env[k].value
    BY DEF CompareVersionEnv
  <2>2. CASE v.env[k] # None /\ w.env[k] # None
    <3>1. v.env[k].secret = FALSE /\ w.env[k].secret = FALSE
      BY <2>2 DEF HasSecretEnv, IsVersion
    <3>2. /\ v.env[k] = [secret |-> v.env[k].secret, value |-> v.env[k].value]
          /\ w.env[k] = [secret |-> w.env[k].secret, value |-> w.env[k].value]
      BY <2>2 DEF IsVersion
    <3> QED
      BY <2>1, <2>2, <3>1, <3>2
  <2> QED
    BY <2>1, <2>2
<1>2. v.env = [k \in Keys |-> v.env[k]] /\ w.env = [k \in Keys |-> w.env[k]]
  BY DEF IsVersion
<1> QED
  BY <1>1, <1>2

LEMMA CmdTold ==
  ASSUME NEW v, IsVersion(v), Separable(v), NEW w, IsVersion(w), Separable(w),
         JoinedList(FlattenSeq(v.cmd)) = JoinedList(FlattenSeq(w.cmd))
  PROVE  v.cmd = w.cmd
<1>1. ASSUME NEW u, IsVersion(u), Separable(u)
      PROVE  /\ FlattenSeq(u.cmd) = [i \in 1..Len(u.cmd) |-> u.cmd[i][1]]
             /\ FlattenSeq(u.cmd) # <<None>>
             /\ Len(u.cmd) \in Nat
             /\ u.cmd = [i \in 1..Len(u.cmd) |-> <<u.cmd[i][1]>>]
  <2>1. IsList(u.cmd) /\ \A i \in DOMAIN u.cmd : IsList(u.cmd[i]) /\ Len(u.cmd[i]) = 1
    BY <1>1 DEF IsVersion, Separable
  <2>2. FlattenSeq(u.cmd) = [i \in 1..Len(u.cmd) |-> u.cmd[i][1]]
    BY <2>1, WordsJoined
  <2>3. /\ Len(u.cmd) \in Nat /\ DOMAIN u.cmd = 1..Len(u.cmd)
        /\ u.cmd = [i \in 1..Len(u.cmd) |-> u.cmd[i]]
    BY <2>1, LenProperties DEF IsList
  <2>4. ASSUME NEW i \in 1..Len(u.cmd) PROVE u.cmd[i] = <<u.cmd[i][1]>>
    <3>1. u.cmd[i] \in Seq(ToSet(u.cmd[i])) /\ Len(u.cmd[i]) = 1
      BY <2>1, <2>3 DEF IsList
    <3>2. DOMAIN u.cmd[i] = 1..1 /\ u.cmd[i] = [j \in 1..1 |-> u.cmd[i][j]]
      BY <3>1, LenProperties
    <3> QED
      BY <3>2
  <2>5. ASSUME FlattenSeq(u.cmd) = <<None>> PROVE FALSE
    <3>1. /\ DOMAIN [i \in 1..Len(u.cmd) |-> u.cmd[i][1]] = 1..Len(u.cmd)
          /\ 1 \in DOMAIN <<None>> /\ <<None>>[1] = None
      OBVIOUS
    <3>2. 1 \in 1..Len(u.cmd) /\ u.cmd[1][1] = None
      BY <2>2, <2>5, <3>1
    <3> QED
      BY <1>1, <2>3, <2>4, <3>2 DEF Separable
  <2> QED
    BY <2>2, <2>3, <2>4, <2>5
<1> DEFINE F(u) == [i \in 1..Len(u.cmd) |-> u.cmd[i][1]]
<1>2. F(v) = F(w)
  <2>1. FlattenSeq(v.cmd) = F(v)
    BY <1>1
  <2>2. FlattenSeq(w.cmd) = F(w)
    BY <1>1
  <2> HIDE DEF F
  <2>3. FlattenSeq(v.cmd) # <<None>> /\ FlattenSeq(w.cmd) # <<None>>
    BY <1>1
  <2>4. FlattenSeq(v.cmd) = FlattenSeq(w.cmd)
    BY <2>3 DEF JoinedList
  <2> QED
    BY <2>1, <2>2, <2>4
<1>3. Len(v.cmd) = Len(w.cmd)
  <2>1. DOMAIN F(v) = 1..Len(v.cmd) /\ DOMAIN F(w) = 1..Len(w.cmd)
    OBVIOUS
  <2> HIDE DEF F
  <2>2. 1..Len(v.cmd) = 1..Len(w.cmd)
    BY <1>2, <2>1
  <2>3. Len(v.cmd) \in Nat /\ Len(w.cmd) \in Nat
    BY <1>1
  <2> QED
    BY <2>2, <2>3
<1>4. ASSUME NEW i \in 1..Len(v.cmd) PROVE v.cmd[i][1] = w.cmd[i][1]
  <2>1. F(v)[i] = v.cmd[i][1] /\ F(w)[i] = w.cmd[i][1]
    BY <1>3
  <2> HIDE DEF F
  <2> QED
    BY <1>2, <2>1
<1>5. v.cmd = [i \in 1..Len(v.cmd) |-> <<v.cmd[i][1]>>]
  BY <1>1
<1>6. w.cmd = [i \in 1..Len(v.cmd) |-> <<w.cmd[i][1]>>]
  BY <1>1, <1>3
<1> DEFINE Words(u) == [i \in 1..Len(v.cmd) |-> <<u.cmd[i][1]>>]
<1>7. Words(v) = Words(w)
  BY <1>4
<1> HIDE DEF Words
<1> QED
  BY <1>5, <1>6, <1>7 DEF Words

\* What diff tells of two versions.
LEMMA Told ==
  ASSUME NEW v, IsVersion(v), NEW w, IsVersion(w)
  PROVE  /\ Separable(v) /\ Separable(w) /\ Changes(v, w) = {} /\ ~Noted(v, w) => Same(v, w)
         /\ Same(v, w) => Changes(v, w) = {}
<1> DEFINE a == NormalizeFromAPI(v)
           b == NormalizeFromAPI(w)
<1>1. /\ DOMAIN a = {"cmd", "ports"}
      /\ a["cmd"] = JoinedList(FlattenSeq(v.cmd)) /\ a["ports"] = NormalPorts(v.ports)
      /\ b["cmd"] = JoinedList(FlattenSeq(w.cmd)) /\ b["ports"] = NormalPorts(w.ports)
  BY DEF NormalizeFromAPI
<1> HIDE DEF a, b
<1>2. CompareSpecs(v, w) = {f \in Plain : v[f] # w[f]} \cup {f \in DOMAIN a : a[f] # b[f]}
  BY DEF CompareSpecs, a, b
<1>3. CompareSpecs(v, w) = {} <=>
        /\ \A f \in Plain : v[f] = w[f]
        /\ JoinedList(FlattenSeq(v.cmd)) = JoinedList(FlattenSeq(w.cmd))
        /\ NormalPorts(v.ports) = NormalPorts(w.ports)
  BY <1>1, <1>2
<1>4. Distinct(v.ports) /\ Distinct(w.ports)
  BY DEF IsVersion, Distinct
<1>5. /\ SamePorts(v.ports, w.ports) => NormalPorts(v.ports) = NormalPorts(w.ports)
      /\ Separable(v) /\ Separable(w) /\ NormalPorts(v.ports) = NormalPorts(w.ports)
           => SamePorts(v.ports, w.ports)
  BY <1>4, PortsSame DEF Separable, NamedHosts
<1>6. Changes(v, w) = {} <=> CompareSpecs(v, w) = {} /\ CompareVersionEnv(v.env, w.env) = {}
  BY DEF Changes
<1>7. v["cmd"] = v.cmd /\ w["cmd"] = w.cmd /\ v["env"] = v.env /\ w["env"] = w.env
  OBVIOUS
<1>8. ASSUME Separable(v), Separable(w), Changes(v, w) = {}, ~Noted(v, w)
      PROVE  Same(v, w)
  <2>1. v.env = w.env
    BY <1>6, <1>8, EnvTold DEF Noted
  <2>2. v.cmd = w.cmd
    BY <1>3, <1>6, <1>8, CmdTold
  <2> QED
    BY <1>3, <1>5, <1>6, <1>7, <1>8, <2>1, <2>2 DEF Same
<1>9. ASSUME Same(v, w) PROVE Changes(v, w) = {}
  <2>1. v.env = w.env /\ v.cmd = w.cmd
    BY <1>7, <1>9 DEF Same
  <2>2. CompareVersionEnv(v.env, w.env) = {}
    BY <2>1 DEF CompareVersionEnv
  <2> QED
    BY <1>3, <1>5, <1>6, <1>9, <2>1, <2>2 DEF Same
<1> QED
  BY <1>8, <1>9

-----------------------------------------------------------------------------
\* The versions that diff has read.

VersionsFine ==
  \A id \in DOMAIN apps : \A n \in DOMAIN apps[id].versions : IsVersion(apps[id].versions[n])

DetailsFine ==
  /\ cmd.pc \notin Ended \cup {"to"} => cmd.details = <<>>
  /\ cmd.pc = "to" => \E v : IsVersion(v) /\ cmd.details = <<v>>
  /\ Done("diff") => \E v, w : IsVersion(v) /\ IsVersion(w) /\ cmd.details = <<v, w>>

ReadInv == VersionsFine /\ DetailsFine

LEMMA InitRead == Init => ReadInv
<1> SUFFICES ASSUME Init PROVE ReadInv
  OBVIOUS
<1>1. apps = InitialApps /\ cmd = Idle
  BY DEF Init
<1>2. VersionsFine
  BY <1>1, ContentsAssumption DEF VersionsFine
<1>3. cmd.pc = "idle"
  BY <1>1, IdleFacts
<1> QED
  BY <1>2, <1>3 DEF ReadInv, DetailsFine, Done, Ended

\* Only others change versions.
LEMMA OthersVersions ==
  ASSUME VersionsFine, Others PROVE VersionsFine'
<1>1. ASSUME NEW name \in AppNames, CreateApplication(name) PROVE VersionsFine'
  <2> DEFINE app == [name |-> name, active |-> 0, versions |-> <<>>, last |-> 0]
  <2>1. /\ DOMAIN apps' = DOMAIN apps \cup {created + 1}
        /\ \A id \in DOMAIN apps' : apps'[id] = IF id = created + 1 THEN app ELSE apps[id]
    BY <1>1 DEF CreateApplication, With
  <2>2. DOMAIN app.versions = {}
    OBVIOUS
  <2> HIDE DEF app
  <2> QED
    BY <2>1, <2>2 DEF VersionsFine
<1>2. ASSUME NEW id \in DOMAIN apps, DeleteApplication(id) PROVE VersionsFine'
  BY <1>2 DEF DeleteApplication, Without, VersionsFine
<1>3. ASSUME NEW id \in DOMAIN apps, NEW c \in Contents, PostVersion(id, c) PROVE VersionsFine'
  <2> DEFINE n == apps[id].last + 1
             vs == With(apps[id].versions, n, c)
             app == [apps[id] EXCEPT !.last = n, !.versions = vs]
  <2>1. apps' = [apps EXCEPT ![id] = app]
    BY <1>3 DEF PostVersion
  <2>2. \A k \in DOMAIN vs : IsVersion(vs[k])
    <3>1. \A k \in DOMAIN vs : vs[k] = IF k = n THEN c ELSE apps[id].versions[k]
      BY DEF With
    <3>2. \A k \in DOMAIN vs : k = n \/ k \in DOMAIN apps[id].versions
      BY DEF With
    <3> HIDE DEF vs, n
    <3> QED
      BY <3>1, <3>2, ContentsAssumption DEF VersionsFine
  <2> HIDE DEF vs, n
  <2>3. app.versions = vs \/ app.versions = apps[id].versions
    OBVIOUS
  <2> HIDE DEF app
  <2>4. \A k \in DOMAIN app.versions : IsVersion(app.versions[k])
    BY <2>2, <2>3 DEF VersionsFine
  <2> QED
    BY <2>1, <2>4 DEF VersionsFine
<1>4. ASSUME NEW id \in DOMAIN apps, NEW n \in DOMAIN apps[id].versions, Activate(id, n)
      PROVE  VersionsFine'
  <2> DEFINE app == [apps[id] EXCEPT !.active = n]
  <2>1. apps' = [apps EXCEPT ![id] = app]
    BY <1>4 DEF Activate
  <2>2. app.versions = apps[id].versions
    OBVIOUS
  <2> HIDE DEF app
  <2> QED
    BY <2>1, <2>2 DEF VersionsFine
<1>5. ASSUME NEW id \in DOMAIN apps, NEW n \in DOMAIN apps[id].versions, DeleteVersion(id, n)
      PROVE  VersionsFine'
  <2> DEFINE vs == Without(apps[id].versions, n)
             app == [apps[id] EXCEPT !.versions = vs]
  <2>1. apps' = [apps EXCEPT ![id] = app]
    BY <1>5 DEF DeleteVersion
  <2>2. \A k \in DOMAIN vs : IsVersion(vs[k])
    BY DEF Without, VersionsFine
  <2> HIDE DEF vs
  <2>3. app.versions = vs \/ app.versions = apps[id].versions
    OBVIOUS
  <2> HIDE DEF app
  <2>4. \A k \in DOMAIN app.versions : IsVersion(app.versions[k])
    BY <2>2, <2>3 DEF VersionsFine
  <2> QED
    BY <2>1, <2>4 DEF VersionsFine
<1>6. ASSUME UNCHANGED apps PROVE VersionsFine'
  BY <1>6 DEF VersionsFine
<1>7. CreateASG => UNCHANGED apps
  BY DEF CreateASG
<1>8. \A id : DeleteASG(id) \/ CreateLB(id) => UNCHANGED apps
  BY DEF DeleteASG, CreateLB
<1>9. \A id, l : DeleteLB(id, l) => UNCHANGED apps
  BY DEF DeleteLB
<1> QED
  BY <1>1, <1>2, <1>3, <1>4, <1>5, <1>6, <1>7, <1>8, <1>9 DEF Others

\* A step that reads no version, of a command that has read none.
Quiet(c) ==
  /\ c.details = cmd.details /\ c.pc # "to" /\ (c.pc = "done" => c.kind # "diff")

LEMMA QuietStep ==
  ASSUME DetailsFine, cmd.pc \notin Ended \cup {"to"}, Quiet(cmd')
  PROVE  DetailsFine'
BY DEF DetailsFine, Quiet, Ended, Done

LEMMA QuietFailed == cmd \in Commands(cmd) => Quiet(Failed)
BY DEF Commands, Failed, Quiet

LEMMA QuietNext ==
  ASSUME NEW c, {"pc", "kind", "details", "todo", "out"} \subseteq DOMAIN c, c.details = cmd.details
  PROVE  Quiet(NextASG(c)) /\ (c.kind = "dump" => Quiet(NextApp(c)))
<1>1. Quiet(NextASG(c))
  BY DEF NextASG, Quiet
<1>2. /\ NextApp(c).pc \in {"done", "latest"} /\ NextApp(c).kind = c.kind
      /\ NextApp(c).details = c.details
  BY DEF NextApp
<1> QED
  BY <1>1, <1>2 DEF Quiet

LEMMA QuietUnread ==
  cmd \in Commands(cmd) => Quiet(Unread) /\ \A n : cmd.kind = "dump" => Quiet(Dumped(n))
<1> SUFFICES ASSUME cmd \in Commands(cmd)
             PROVE  Quiet(Unread) /\ \A n : cmd.kind = "dump" => Quiet(Dumped(n))
  OBVIOUS
<1>1. {"pc", "kind", "details", "todo", "out"} \subseteq DOMAIN cmd
  BY DEF Commands
<1>2. ASSUME cmd.kind = "dump" PROVE Quiet(Unread)
  <2> DEFINE c == [cmd EXCEPT !.skipped = @ \cup {Reading}]
  <2>1. Unread = NextApp(c)
    BY <1>2 DEF Unread
  <2>2. c.kind = "dump" /\ c.details = cmd.details /\ DOMAIN c = DOMAIN cmd
    BY <1>1, <1>2
  <2> HIDE DEF c
  <2> QED
    BY <1>1, <2>1, <2>2, QuietNext
<1>3. ASSUME NEW n, cmd.kind = "dump" PROVE Quiet(Dumped(n))
  <2> DEFINE c == [cmd EXCEPT !.out = Append(@, <<"app", Reading>>),
                              !.specs = @ \cup {<<Reading, n>>}]
  <2>1. Dumped(n) = NextApp(c)
    BY DEF Dumped
  <2>2. c.kind = "dump" /\ c.details = cmd.details /\ DOMAIN c = DOMAIN cmd
    BY <1>1, <1>3
  <2> HIDE DEF c
  <2> QED
    BY <1>1, <2>1, <2>2, QuietNext
<1>4. cmd.kind # "dump" => Unread = Failed
  BY DEF Unread
<1> QED
  BY <1>2, <1>3, <1>4, QuietFailed

LEMMA QuietListed ==
  ASSUME cmd \in Commands(cmd), NEW list
  PROVE  Quiet(Listed(list)) /\ Quiet([Listed(list) EXCEPT !.found = <<>>, !.cursor = 0])
<1>1. /\ {"pc", "kind", "details", "found", "cursor", "todo", "app", "active", "from"} \subseteq DOMAIN cmd
      /\ cmd.kind \in {"dump", "versions", "diff"}
  BY DEF Commands
<1> DEFINE Well(c) == Quiet(c) /\ DOMAIN c = DOMAIN cmd
<1>2. Well(Failed)
  BY QuietFailed DEF Failed
<1>3. ASSUME NEW a PROVE Well(WithApp(a))
  <2>1. CASE cmd.kind = "versions"
    BY <1>1, <2>1 DEF WithApp, Quiet
  <2>2. CASE cmd.kind = "diff" /\ cmd.from = 0 /\ a.active = 0
    BY <1>2, <2>2 DEF WithApp
  <2>3. CASE cmd.kind # "versions" /\ ~(cmd.kind = "diff" /\ cmd.from = 0 /\ a.active = 0)
    <3> DEFINE c == [cmd EXCEPT !.pc = IF cmd.to = 0 THEN "latest" ELSE "from", !.app = a.id,
                                !.active = a.active, !.from = IF @ = 0 THEN a.active ELSE @]
    <3>1. WithApp(a) = c
      BY <2>3 DEF WithApp
    <3>2. c.pc \in {"latest", "from"} /\ c.details = cmd.details /\ DOMAIN c = DOMAIN cmd
      BY <1>1
    <3> HIDE DEF c
    <3> QED
      BY <3>1, <3>2 DEF Quiet
  <2> QED
    BY <2>1, <2>2, <2>3
<1>4. Well(Listed(list))
  <2>1. CASE cmd.kind = "dump"
    <3> DEFINE c == [cmd EXCEPT !.pc = IF list = <<>> THEN "done" ELSE "latest",
                                !.todo = [i \in DOMAIN list |-> list[i].id]]
    <3>1. Listed(list) = c
      BY <2>1 DEF Listed
    <3>2. /\ c.pc \in {"done", "latest"} /\ c.kind = "dump" /\ c.details = cmd.details
          /\ DOMAIN c = DOMAIN cmd
      BY <1>1, <2>1
    <3> HIDE DEF c
    <3> QED
      BY <3>1, <3>2 DEF Quiet
  <2>2. CASE cmd.kind # "dump"
    <3> HIDE DEF Well
    <3> QED
      BY <1>2, <1>3, <2>2 DEF Listed
  <2> QED
    BY <2>1, <2>2
<1>5. ASSUME NEW c, Well(c) PROVE Quiet([c EXCEPT !.found = <<>>, !.cursor = 0])
  BY <1>1, <1>5 DEF Quiet
<1> QED
  BY <1>4, <1>5

LEMMA QuietSteps ==
  ASSUME Inv,
         \/ ListASGs \/ ListLBs \/ GetLB \/ ListApplications \/ ListVersions
         \/ GetLatest \/ GetDetail
  PROVE  Quiet(cmd') /\ cmd.pc \notin Ended \cup {"to"} /\ apps' = apps
<1>1. /\ cmd \in Commands(cmd)
      /\ {"pc", "kind", "details", "found", "cursor", "todo", "lbs", "out", "latest", "to"}
           \subseteq DOMAIN cmd
  BY DEF Inv, Typed, Commands
<1>2. \A c : Go(c) => cmd' = c /\ apps' = apps
  BY DEF Go, service
<1>3. CASE ListASGs
  <2> DEFINE found == cmd.found \o Page(DOMAIN asgs, FALSE)
             cursor == NextCursor(DOMAIN asgs, FALSE)
             more == [cmd EXCEPT !.found = found, !.cursor = cursor]
             last == [cmd EXCEPT !.pc = IF found = <<>> THEN "apps" ELSE "lbs",
                                 !.found = <<>>, !.cursor = 0, !.todo = found]
  <2>1. cmd.pc = "asgs" /\ Go(IF cursor # 0 THEN more ELSE last)
    BY <1>3 DEF ListASGs
  <2> HIDE DEF found, cursor
  <2>2. more.details = cmd.details /\ more.pc = cmd.pc
    BY <1>1
  <2>3. last.details = cmd.details /\ last.pc \in {"apps", "lbs"}
    BY <1>1
  <2> HIDE DEF more, last
  <2> QED
    BY <1>2, <2>1, <2>2, <2>3 DEF Quiet, Ended
<1>4. CASE ListLBs
  <2> DEFINE asg == Head(cmd.todo)
             page == Page(asgs[asg], FALSE)
             c == [cmd EXCEPT !.cursor = 0]
             some == [cmd EXCEPT !.pc = "lb", !.lbs = page, !.cursor = NextCursor(asgs[asg], FALSE)]
  <2>1. cmd.pc = "lbs" /\ Go(IF asg \notin DOMAIN asgs THEN Failed
                             ELSE IF page = <<>> THEN NextASG(c) ELSE some)
    BY <1>4 DEF ListLBs
  <2> HIDE DEF asg, page
  <2>2. c.details = cmd.details /\ DOMAIN c = DOMAIN cmd
    BY <1>1
  <2>3. some.details = cmd.details /\ some.pc = "lb"
    BY <1>1
  <2> HIDE DEF c, some
  <2>4. Quiet(NextASG(c))
    BY <1>1, <2>2, QuietNext
  <2>5. Quiet(some) /\ Quiet(Failed)
    BY <1>1, <2>3, QuietFailed DEF Quiet
  <2> QED
    BY <1>2, <2>1, <2>4, <2>5 DEF Ended
<1>5. CASE GetLB
  <2> DEFINE asg == Head(cmd.todo)
             lb == Head(cmd.lbs)
             read == [cmd EXCEPT !.lbs = Tail(@), !.out = Append(@, <<"lb", lb>>)]
             page == [read EXCEPT !.pc = "lbs"]
  <2>1. cmd.pc = "lb" /\ Go(IF asg \notin DOMAIN asgs \/ lb \notin asgs[asg] THEN Failed
                            ELSE IF Len(cmd.lbs) > 1 THEN read
                            ELSE IF cmd.cursor # 0 THEN page ELSE NextASG(read))
    BY <1>5 DEF GetLB
  <2>2. read.details = cmd.details /\ read.pc = cmd.pc /\ DOMAIN read = DOMAIN cmd
    BY <1>1
  <2> HIDE DEF asg, lb, read
  <2>3. page.details = cmd.details /\ page.pc = "lbs"
    BY <1>1, <2>2
  <2> HIDE DEF page
  <2>4. Quiet(NextASG(read)) /\ Quiet(Failed)
    BY <1>1, <2>2, QuietNext, QuietFailed
  <2>5. Quiet(read) /\ Quiet(page)
    BY <2>1, <2>2, <2>3 DEF Quiet
  <2> QED
    BY <1>2, <2>1, <2>4, <2>5 DEF Ended
<1>6. CASE ListApplications
  <2> DEFINE page == Page(DOMAIN apps, FALSE)
             found == cmd.found \o [i \in DOMAIN page |->
                        [id |-> page[i], name |-> apps[page[i]].name, active |-> apps[page[i]].active]]
             cursor == NextCursor(DOMAIN apps, FALSE)
             more == [cmd EXCEPT !.found = found, !.cursor = cursor]
             last == [Listed(found) EXCEPT !.found = <<>>, !.cursor = 0]
  <2>1. cmd.pc \in {"find", "apps"} /\ Go(IF cursor # 0 THEN more ELSE last)
    BY <1>6 DEF ListApplications
  <2> HIDE DEF found, cursor
  <2>2. more.details = cmd.details /\ more.pc = cmd.pc
    BY <1>1
  <2>3. Quiet(last)
    BY <1>1, QuietListed
  <2> HIDE DEF more, last
  <2> QED
    BY <1>2, <2>1, <2>2, <2>3 DEF Quiet, Ended
<1>7. CASE ListVersions
  <2> DEFINE numbers == DOMAIN apps[cmd.app].versions
             cursor == NextCursor(numbers, newFirst)
             more == [cmd EXCEPT !.pc = IF cursor = 0 THEN "done" ELSE @, !.cursor = cursor,
                                 !.found = @ \o Page(numbers, newFirst)]
  <2>1. cmd.pc = "pages" /\ Go(IF cmd.app \notin DOMAIN apps THEN Failed ELSE more)
    BY <1>7 DEF ListVersions
  <2> HIDE DEF numbers, cursor
  <2>2. more.details = cmd.details /\ more.pc \in {"done", cmd.pc} /\ more.kind = cmd.kind
    BY <1>1
  <2> HIDE DEF more
  <2>3. cmd.kind = "versions"
    BY <2>1 DEF Inv, AtReads
  <2>4. Quiet(more) /\ Quiet(Failed)
    BY <1>1, <2>1, <2>2, <2>3, QuietFailed DEF Quiet
  <2> QED
    BY <1>2, <2>1, <2>4 DEF Ended
<1>8. CASE GetLatest
  <2> DEFINE page == Page(DOMAIN apps[Reading].versions, newFirst)
             read == [cmd EXCEPT !.pc = "detail", !.latest = Highest(page)]
  <2>1. cmd.pc = "latest" /\ Go(IF Reading \notin DOMAIN apps THEN Unread
                                ELSE IF page # <<>> THEN read
                                ELSE IF cmd.kind = "dump" THEN Dumped(0) ELSE Failed)
    BY <1>8 DEF GetLatest
  <2> HIDE DEF page
  <2>2. read.details = cmd.details /\ read.pc = "detail"
    BY <1>1
  <2> HIDE DEF read
  <2>3. Quiet(read) /\ Quiet(Failed) /\ Quiet(Unread)
    BY <1>1, <2>2, QuietFailed, QuietUnread DEF Quiet
  <2>4. cmd.kind = "dump" => Quiet(Dumped(0))
    BY <1>1, QuietUnread
  <2> QED
    BY <1>2, <2>1, <2>3, <2>4 DEF Ended
<1>9. CASE GetDetail
  <2> DEFINE read == [cmd EXCEPT !.pc = "from", !.to = cmd.latest]
  <2>1. cmd.pc = "detail" /\ Go(IF ~Readable(Reading, cmd.latest) THEN Unread
                                ELSE IF cmd.kind = "dump" THEN Dumped(cmd.latest) ELSE read)
    BY <1>9 DEF GetDetail
  <2>2. read.details = cmd.details /\ read.pc = "from"
    BY <1>1
  <2> HIDE DEF read
  <2>3. Quiet(read) /\ Quiet(Unread)
    BY <1>1, <2>2, QuietUnread DEF Quiet
  <2>4. cmd.kind = "dump" => Quiet(Dumped(cmd.latest))
    BY <1>1, QuietUnread
  <2> QED
    BY <1>2, <2>1, <2>3, <2>4 DEF Ended
<1> QED
  BY <1>3, <1>4, <1>5, <1>6, <1>7, <1>8, <1>9

LEMMA OneMore == \A u, v : Append(<<>>, v) = <<v>> /\ Append(<<u>>, v) = <<u, v>>
<1> SUFFICES ASSUME NEW u, NEW v PROVE Append(<<>>, v) = <<v>> /\ Append(<<u>>, v) = <<u, v>>
  BY Zenon
<1> DEFINE T == {u, v}
           a == Append(<<>>, v)
           b == Append(<<u>>, v)
<1>1. <<>> \in Seq(T) /\ <<u>> \in Seq(T) /\ v \in T /\ Len(<<>>) = 0 /\ Len(<<u>>) = 1
  OBVIOUS
<1> HIDE DEF T
<1>2. b \in Seq(T) /\ Len(b) = 2 /\ b[1] = u /\ b[2] = v
  BY <1>1, AppendProperties
<1>3. a \in Seq(T) /\ Len(a) = 1 /\ a[1] = v
  BY <1>1, AppendProperties
<1>4. <<v>> \in Seq(T) /\ <<u, v>> \in Seq(T)
  BY DEF T
<1> HIDE DEF a, b
<1>5. a = <<v>>
  BY <1>3, <1>4, SeqEqual
<1>6. b = <<u, v>>
  BY <1>2, <1>4, SeqEqual
<1> QED
  BY <1>5, <1>6 DEF a, b

\* The two calls that read a version.
LEMMA GetVersionRead ==
  ASSUME Inv, ReadInv, GetVersion PROVE DetailsFine' /\ apps' = apps
<1> DEFINE n == IF cmd.pc = "from" THEN cmd.from ELSE cmd.to
           v == apps[cmd.app].versions[n]
           read == [cmd EXCEPT !.pc = IF cmd.pc = "from" THEN "to" ELSE "done",
                               !.details = Append(@, v)]
<1>1. cmd.pc \in {"from", "to"} /\ Go(IF ~Readable(cmd.app, n) THEN Failed ELSE read)
  BY DEF GetVersion
<1>2. cmd' = (IF ~Readable(cmd.app, n) THEN Failed ELSE read) /\ apps' = apps
  BY <1>1 DEF Go, service
<1>3. {"pc", "details", "kind"} \subseteq DOMAIN cmd
  BY DEF Inv, Typed, Commands
<1>4. CASE ~Readable(cmd.app, n)
  <2>1. cmd'.pc = "failed"
    BY <1>2, <1>3, <1>4 DEF Failed
  <2> QED
    BY <1>2, <2>1 DEF DetailsFine, Done, Ended
<1>5. CASE Readable(cmd.app, n)
  <2>1. IsVersion(v)
    BY <1>5 DEF Readable, ReadInv, VersionsFine
  <2>2. cmd' = read
    BY <1>2, <1>5
  <2> HIDE DEF v
  <2>3. cmd'.pc = (IF cmd.pc = "from" THEN "to" ELSE "done") /\ cmd'.details = Append(cmd.details, v)
    BY <1>3, <2>2
  <2> HIDE DEF read
  <2>4. CASE cmd.pc = "from"
    <3>1. cmd'.details = <<v>> /\ cmd'.pc = "to"
      <4>1. cmd.details = <<>>
        BY <2>4 DEF ReadInv, DetailsFine, Ended
      <4> QED
        BY <2>3, <2>4, <4>1, OneMore
    <3>2. \E x : IsVersion(x) /\ cmd'.details = <<x>>
      BY <2>1, <3>1
    <3>3. cmd'.pc # "done"
      BY <3>1
    <3> HIDE DEF v
    <3> QED
      BY <1>2, <3>1, <3>2, <3>3 DEF DetailsFine, Done
  <2>5. CASE cmd.pc = "to"
    <3>1. PICK u : IsVersion(u) /\ cmd.details = <<u>>
      BY <2>5 DEF ReadInv, DetailsFine
    <3>2. cmd'.details = <<u, v>> /\ cmd'.pc = "done"
      BY <2>3, <2>5, <3>1, OneMore
    <3>3. \E x, y : IsVersion(x) /\ IsVersion(y) /\ cmd'.details = <<x, y>>
      BY <2>1, <3>1, <3>2
    <3>4. cmd'.pc # "to" /\ cmd'.pc \in Ended
      BY <3>2 DEF Ended
    <3> QED
      BY <1>2, <3>3, <3>4 DEF DetailsFine
  <2> QED
    BY <1>1, <2>4, <2>5
<1> QED
  BY <1>2, <1>4, <1>5

LEMMA StartRead == ASSUME Start PROVE DetailsFine' /\ apps' = apps
<1>1. Idle.details = <<>> /\ {"pc", "kind", "name", "from", "to", "details"} \subseteq DOMAIN Idle
  BY DEF Idle
<1>2. CASE cmd' = [Idle EXCEPT !.pc = "asgs"]
  BY <1>1, <1>2 DEF DetailsFine, Done, Start, service
<1>3. ASSUME NEW name,
             cmd' = [Idle EXCEPT !.pc = "find", !.kind = "versions", !.name = name]
      PROVE  cmd'.details = <<>> /\ cmd'.pc = "find"
  BY <1>1, <1>3
<1>4. ASSUME NEW name, NEW from, NEW to,
             cmd' = [Idle EXCEPT !.pc = "find", !.kind = "diff", !.name = name,
                                 !.from = from, !.to = to]
      PROVE  cmd'.details = <<>> /\ cmd'.pc = "find"
  BY <1>1, <1>4
<1>5. CASE cmd' # [Idle EXCEPT !.pc = "asgs"]
  <2>1. cmd'.details = <<>> /\ cmd'.pc = "find"
    BY <1>3, <1>4, <1>5 DEF Start
  <2> QED
    BY <2>1 DEF DetailsFine, Done, Start, service
<1> QED
  BY <1>2, <1>5

LEMMA NextRead == Inv /\ ReadInv /\ [Next]_vars => ReadInv'
<1> SUFFICES ASSUME Inv, ReadInv, [Next]_vars PROVE ReadInv'
  OBVIOUS
<1>1. apps' = apps => VersionsFine'
  BY DEF ReadInv, VersionsFine
<1>2. CASE Start
  BY <1>1, <1>2, StartRead DEF ReadInv
<1>3. CASE Step
  <2>1. CASE GetVersion
    BY <1>1, <2>1, GetVersionRead DEF ReadInv
  <2>2. CASE \/ ListASGs \/ ListLBs \/ GetLB \/ ListApplications \/ ListVersions
             \/ GetLatest \/ GetDetail
    BY <1>1, <2>2, QuietSteps, QuietStep DEF ReadInv
  <2> QED
    BY <1>3, <2>1, <2>2 DEF Step
<1>4. CASE CallFails
  <2>1. /\ cmd.pc \notin Ended /\ apps' = apps
        /\ cmd' = IF cmd.pc \in {"latest", "detail"} THEN Unread ELSE Failed
    BY <1>4 DEF CallFails, service
  <2>2. cmd \in Commands(cmd)
    BY DEF Inv, Typed
  <2>3. CASE cmd.pc \in {"latest", "detail"}
    <3>1. Quiet(cmd') /\ cmd.pc # "to"
      BY <2>1, <2>2, <2>3, QuietUnread
    <3> QED
      BY <1>1, <2>1, <3>1, QuietStep DEF ReadInv
  <2>4. CASE cmd.pc \notin {"latest", "detail"}
    <3>1. cmd'.pc = "failed"
      BY <2>1, <2>2, <2>4, FailedFine
    <3> QED
      BY <1>1, <2>1, <3>1 DEF ReadInv, DetailsFine, Done, Ended
  <2> QED
    BY <2>3, <2>4
<1>5. CASE Others
  <2>1. cmd' = cmd
    BY <1>5 DEF Others, Move
  <2> QED
    BY <1>5, <2>1, OthersVersions DEF ReadInv, DetailsFine, Done
<1>6. CASE UNCHANGED vars
  BY <1>1, <1>6 DEF vars, ReadInv, DetailsFine, Done
<1> QED
  BY <1>2, <1>3, <1>4, <1>5, <1>6 DEF Next

LEMMA SpecRead == Spec => []ReadInv
BY InitRead, NextRead, SpecInv, PTL DEF Spec

LEMMA ReadTells == ReadInv => DiffTells
<1> SUFFICES ASSUME ReadInv, Done("diff")
             PROVE  LET from == cmd.details[1]
                        to == cmd.details[2]
                    IN  /\ /\ Separable(from) /\ Separable(to)
                           /\ Changes(from, to) = {} /\ ~Noted(from, to)
                           => Same(from, to)
                        /\ Same(from, to) => Changes(from, to) = {}
  BY DEF DiffTells
<1>1. PICK v, w : IsVersion(v) /\ IsVersion(w) /\ cmd.details = <<v, w>>
  BY DEF ReadInv, DetailsFine
<1>2. cmd.details[1] = v /\ cmd.details[2] = w
  BY <1>1
<1> QED
  BY <1>1, <1>2, Told

-----------------------------------------------------------------------------
\* The theorems.

\* Type correctness: IDs and version numbers stay what the service gave out, and the loops
\* of dump never take the head of an empty list.
THEOREM TypeCorrect == Spec => []TypeOK
BY SpecInv, InvTypes, PTL

\* The list that versions prints names no version twice, all that stay, and the active one
\* unless that is deleted: ListVersions, with a cursor, while others post, activate and
\* delete versions between two pages.
THEOREM VersionsListed == Spec => []VersionsWhole
BY SpecInv, InvVersions, PTL

\* A dump that completes has everything that stays, each thing once, but for the
\* applications it warned about: DumpClusterConfig over three listings, one within another.
THEOREM DumpComplete == Spec => []DumpWhole
BY SpecInv, InvDump, PTL

\* Where the first page has the newest version, getLatestVersion finds one as new as any
\* that stays, for dump and for diff.
THEOREM LatestFound == Spec => []LatestIsRecent
BY SpecInv, InvLatest, PTL

\* diff reports no difference exactly where there is none, but for what its note says:
\* the joined words, the sorted hosts and the ports paired by target lose nothing but order.
THEOREM DiffSaysSo == Spec => []DiffTells
BY SpecRead, ReadTells, PTL
=============================================================================
