---------------------------- MODULE RecordsProofs ---------------------------
(***************************************************************************)
(* What is written of an image and read again, for every value of the      *)
(* constants: the list of its files for every filesystem, and the record   *)
(* with reproduce, verify-image and diff for every world and number of     *)
(* runs.  That an answer is right rests on what a directory that is        *)
(* vouched for holds: what one run made, under a record that says so.      *)
(***************************************************************************)
EXTENDS Records, FiniteSetTheorems, Induction, TLAPS

(* The list of an image's files *)

\* R orders S; what of S it puts before one of them.
Orders(R, S) ==
    /\ \A a \in S : <<a, a>> \notin R
    /\ \A a, b \in S : a = b \/ <<a, b>> \in R \/ <<b, a>> \in R
    /\ \A a, b, c \in S : <<a, b>> \in R /\ <<b, c>> \in R => <<a, c>> \in R
Earlier(R, S, n) == {m \in S : <<m, n>> \in R}

LEMMA EarlierIsFinite ==
    ASSUME NEW S, IsFiniteSet(S), NEW R, NEW n
    PROVE  IsFiniteSet(Earlier(R, S, n)) /\ Cardinality(Earlier(R, S, n)) \in Nat
<1>1. Earlier(R, S, n) \in SUBSET S
  BY DEF Earlier
<1> QED BY <1>1, FS_Subset, FS_CardinalityType

LEMMA EarlierGrows ==
    ASSUME NEW S, IsFiniteSet(S), NEW R, Orders(R, S), NEW a \in S, NEW b \in S, <<a, b>> \in R
    PROVE  Cardinality(Earlier(R, S, a)) < Cardinality(Earlier(R, S, b))
<1>1. /\ IsFiniteSet(Earlier(R, S, b)) /\ Cardinality(Earlier(R, S, b)) \in Nat
      /\ Cardinality(Earlier(R, S, a)) \in Nat
  BY EarlierIsFinite
<1>2. Earlier(R, S, a) \in SUBSET Earlier(R, S, b)
  BY DEF Earlier, Orders
<1>3. a \in Earlier(R, S, b) /\ a \notin Earlier(R, S, a)
  BY DEF Earlier, Orders
<1>4. /\ Cardinality(Earlier(R, S, a)) <= Cardinality(Earlier(R, S, b))
      /\ Cardinality(Earlier(R, S, b)) = Cardinality(Earlier(R, S, a)) => Earlier(R, S, b) = Earlier(R, S, a)
  BY <1>1, <1>2, FS_Subset
<1> QED BY <1>1, <1>3, <1>4

\* The ranks of a finite ordered set are the numbers below its size, each once.
LEMMA RanksAreAll ==
    ASSUME NEW S, IsFiniteSet(S), NEW R, Orders(R, S)
    PROVE  /\ Cardinality(S) \in Nat
           /\ \A n \in S : Cardinality(Earlier(R, S, n)) \in 0..(Cardinality(S) - 1)
           /\ \A m, n \in S : Cardinality(Earlier(R, S, m)) = Cardinality(Earlier(R, S, n)) => m = n
           /\ \A i \in 0..(Cardinality(S) - 1) : \E n \in S : Cardinality(Earlier(R, S, n)) = i
<1> DEFINE rank == [n \in S |-> Cardinality(Earlier(R, S, n))]
           T == 0..(Cardinality(S) - 1)
<1>1. Cardinality(S) \in Nat
  BY FS_CardinalityType
<1>2. ASSUME NEW n \in S PROVE Cardinality(Earlier(R, S, n)) \in 0..(Cardinality(S) - 1)
  <2>1. Earlier(R, S, n) \in SUBSET S /\ n \notin Earlier(R, S, n)
    BY DEF Earlier, Orders
  <2>2. Cardinality(Earlier(R, S, n)) \in Nat
    BY EarlierIsFinite
  <2>3. /\ Cardinality(Earlier(R, S, n)) <= Cardinality(S)
        /\ Cardinality(S) = Cardinality(Earlier(R, S, n)) => S = Earlier(R, S, n)
    BY <2>1, FS_Subset
  <2>4. Cardinality(Earlier(R, S, n)) # Cardinality(S)
    BY <2>1, <2>3
  <2> QED BY <1>1, <2>2, <2>3, <2>4
<1>3. ASSUME NEW m \in S, NEW n \in S, Cardinality(Earlier(R, S, m)) = Cardinality(Earlier(R, S, n)) PROVE m = n
  <2>1. Cardinality(Earlier(R, S, m)) \in Nat
    BY EarlierIsFinite
  <2>2. <<m, n>> \notin R /\ <<n, m>> \notin R
    BY <1>3, <2>1, EarlierGrows
  <2> QED BY <2>2 DEF Orders
<1>4. rank \in Injection(S, T)
  BY <1>2, <1>3 DEF Injection, IsInjective
<1>5. IsFiniteSet(T) /\ Cardinality(T) = Cardinality(S)
  BY <1>1, FS_Interval
<1>6. rank \in Surjection(S, T)
  <2> HIDE DEF rank, T
  <2>1. Cardinality(S) = Cardinality(T) <=> rank \in Surjection(S, T)
    BY <1>4, <1>5, FS_Injection
  <2> QED BY <2>1, <1>5
<1>7. \A i \in T : \E n \in S : rank[n] = i
  BY <1>6 DEF Surjection
<1> QED BY <1>1, <1>2, <1>3, <1>7

LEMMA FirstOfAll ==
    ASSUME NEW S, IsFiniteSet(S), NEW R, Orders(R, S), S # {}
    PROVE  \E n \in S : \A m \in S : n = m \/ <<n, m>> \in R
<1>1. Cardinality(S) \in Nat /\ Cardinality(S) # 0
  BY FS_CardinalityType, FS_EmptySet
<1>2. 0 \in 0..(Cardinality(S) - 1)
  BY <1>1
<1>3. PICK n \in S : Cardinality(Earlier(R, S, n)) = 0
  BY <1>2, RanksAreAll
<1>4. Earlier(R, S, n) = {}
  BY <1>3, EarlierIsFinite, FS_EmptySet
<1>5. \A m \in S : <<m, n>> \notin R
  BY <1>4 DEF Earlier
<1> QED BY <1>5 DEF Orders

\* Names are ordered.
LEMMA BeforeIsStrict ==
    ASSUME NEW a \in Seq(Nat) PROVE ~Before(a, a)
BY DEF Before

LEMMA BeforeIsTotal ==
    ASSUME NEW a \in Seq(Nat), NEW b \in Seq(Nat), a # b
    PROVE  Before(a, b) \/ Before(b, a)
<1> DEFINE T == {i \in Nat : i > 0 /\ (i > Len(a) \/ i > Len(b) \/ a[i] # b[i])}
<1>1. Len(a) \in Nat /\ Len(b) \in Nat
  OBVIOUS
<1>2. Len(a) + 1 \in T
  BY <1>1
<1>3. PICK i \in T : \A m \in T : i <= m
  BY <1>2, Least
<1>4. \A j \in 1..(i - 1) : j <= Len(a) /\ j <= Len(b) /\ a[j] = b[j]
  <2> SUFFICES ASSUME NEW j \in 1..(i - 1) PROVE j <= Len(a) /\ j <= Len(b) /\ a[j] = b[j]
    OBVIOUS
  <2>1. j \in Nat /\ j > 0 /\ ~(i <= j)
    BY <1>3
  <2>2. j \notin T
    BY <2>1, <1>3
  <2> QED BY <2>1, <2>2, <1>1
<1>5. i \in Nat /\ i > 0 /\ (i > Len(a) \/ i > Len(b) \/ a[i] # b[i])
  BY <1>3
<1> HIDE DEF T
<1>6. CASE i > Len(a) /\ i > Len(b)
  <2>1. Len(a) = i - 1
    <3>1. CASE i = 1 BY <3>1, <1>1, <1>6
    <3>2. CASE i # 1
      <4>1. i - 1 \in 1..(i - 1)
        BY <3>2, <1>5
      <4> QED BY <4>1, <1>4, <1>1, <1>5, <1>6
    <3> QED BY <3>1, <3>2
  <2>2. Len(b) = i - 1
    <3>1. CASE i = 1 BY <3>1, <1>1, <1>6
    <3>2. CASE i # 1
      <4>1. i - 1 \in 1..(i - 1)
        BY <3>2, <1>5
      <4> QED BY <4>1, <1>4, <1>1, <1>5, <1>6
    <3> QED BY <3>1, <3>2
  <2>3. \A j \in 1..Len(a) : a[j] = b[j]
    BY <2>1, <1>4
  <2>4. a = [j \in 1..Len(a) |-> a[j]] /\ b = [j \in 1..Len(b) |-> b[j]]
    OBVIOUS
  <2>5. [j \in 1..Len(a) |-> a[j]] = [j \in 1..Len(a) |-> b[j]]
    BY <2>3
  <2> QED BY <2>1, <2>2, <2>4, <2>5
<1>7. CASE i > Len(a) /\ i <= Len(b)
  <2>1. i \in 1..Len(b)
    BY <1>1, <1>5, <1>7
  <2> QED BY <2>1, <1>4, <1>7 DEF Before
<1>8. CASE i <= Len(a) /\ i > Len(b)
  <2>1. i \in 1..Len(a)
    BY <1>1, <1>5, <1>8
  <2> QED BY <2>1, <1>4, <1>8 DEF Before
<1>9. CASE i <= Len(a) /\ i <= Len(b)
  <2>1. i \in 1..Len(a) /\ i \in 1..Len(b)
    BY <1>1, <1>5, <1>9
  <2>2. a[i] \in Nat /\ b[i] \in Nat /\ a[i] # b[i]
    BY <2>1, <1>5, <1>9, <1>1
  <2>3. CASE a[i] < b[i]
    BY <2>1, <2>3, <1>4 DEF Before
  <2>4. CASE b[i] < a[i]
    BY <2>1, <2>4, <1>4 DEF Before
  <2> QED BY <2>2, <2>3, <2>4
<1> QED BY <1>1, <1>5, <1>6, <1>7, <1>8, <1>9

LEMMA BeforeIsTransitive ==
    ASSUME NEW a \in Seq(Nat), NEW b \in Seq(Nat), NEW c \in Seq(Nat), Before(a, b), Before(b, c)
    PROVE  Before(a, c)
<1>0. Len(a) \in Nat /\ Len(b) \in Nat /\ Len(c) \in Nat
  OBVIOUS
<1>1. PICK i \in 1..Len(b) : /\ \A j \in 1..(i - 1) : j <= Len(a) /\ a[j] = b[j]
                             /\ i > Len(a) \/ a[i] < b[i]
  BY DEF Before
<1>2. PICK k \in 1..Len(c) : /\ \A j \in 1..(k - 1) : j <= Len(b) /\ b[j] = c[j]
                             /\ k > Len(b) \/ b[k] < c[k]
  BY DEF Before
<1>3. CASE i < k
  <2>1. i \in 1..Len(c) /\ i \in 1..(k - 1)
    BY <1>0, <1>3
  <2>2. \A j \in 1..(i - 1) : j <= Len(a) /\ a[j] = c[j]
    BY <1>0, <1>1, <1>2, <1>3
  <2>3. i > Len(a) \/ a[i] < c[i]
    BY <2>1, <1>1, <1>2
  <2> QED BY <2>1, <2>2, <2>3 DEF Before
<1>4. CASE i = k
  <2>1. i \in 1..Len(c) /\ i <= Len(b)
    BY <1>0, <1>4
  <2>2. \A j \in 1..(i - 1) : j <= Len(a) /\ a[j] = c[j]
    BY <1>0, <1>1, <1>2, <1>4
  <2>3. b[i] < c[i]
    BY <2>1, <1>0, <1>2, <1>4
  <2>4. i <= Len(a) => a[i] \in Nat /\ b[i] \in Nat /\ c[i] \in Nat
    <3>1. i \in 1..Len(b) /\ i \in Nat
      BY <1>0
    <3>2. b[i] \in Nat /\ c[i] \in Nat
      BY <2>1, <3>1
    <3>3. ASSUME i <= Len(a) PROVE a[i] \in Nat
      <4>1. i \in 1..Len(a)
        BY <3>1, <3>3, <1>0
      <4> QED BY <4>1
    <3> QED BY <3>2, <3>3
  <2>5. i > Len(a) \/ a[i] < c[i]
    <3>1. CASE i > Len(a)
      BY <3>1
    <3>2. CASE i <= Len(a) /\ a[i] < b[i]
      BY <2>3, <2>4, <3>2
    <3> QED BY <3>1, <3>2, <1>0, <1>1
  <2> QED BY <2>1, <2>2, <2>5 DEF Before
<1>5. CASE k < i
  <2>1. k \in 1..Len(c) /\ k \in 1..(i - 1) /\ k <= Len(b)
    BY <1>0, <1>5
  <2>2. \A j \in 1..(k - 1) : j <= Len(a) /\ a[j] = c[j]
    BY <1>0, <1>1, <1>2, <1>5
  <2>3. b[k] < c[k]
    BY <2>1, <1>0, <1>2
  <2>4. a[k] < c[k]
    BY <2>1, <2>3, <1>1
  <2> QED BY <2>1, <2>2, <2>4 DEF Before
<1> QED BY <1>3, <1>4, <1>5

\* The order of a set of names, as a set.
OrderOf(S) == {p \in S \X S : Before(p[1], p[2])}

LEMMA NamesAreOrdered ==
    ASSUME NEW S, S \subseteq Seq(Nat)
    PROVE  /\ \A a, b \in S : <<a, b>> \in OrderOf(S) <=> Before(a, b)
           /\ Orders(OrderOf(S), S)
<1>1. \A a, b \in S : <<a, b>> \in OrderOf(S) <=> Before(a, b)
  BY DEF OrderOf
<1>2. /\ \A a \in S : ~Before(a, a)
      /\ \A a, b \in S : a = b \/ Before(a, b) \/ Before(b, a)
      /\ \A a, b, c \in S : Before(a, b) /\ Before(b, c) => Before(a, c)
  BY BeforeIsStrict, BeforeIsTotal, BeforeIsTransitive
<1> QED BY <1>1, <1>2 DEF Orders
-----------------------------------------------------------------------------
LEMMA TreeFacts ==
    ASSUME NEW t, IsFilesystem(t)
    PROVE  /\ NamesOf(t) \subseteq Seq(Nat) /\ IsFiniteSet(NamesOf(t))
           /\ <<>> \in DOMAIN t.number /\ InodeAt(t, <<>>).type = "dir"
           /\ \A name \in DOMAIN t.number : name \in NamesOf(t) <=> name # <<>>
           /\ NamesOf(t) \subseteq DOMAIN t.number
<1>1. NamesOf(t) \in SUBSET DOMAIN t.number
  BY DEF NamesOf
<1>2. IsFiniteSet(NamesOf(t))
  BY <1>1, FS_Subset DEF IsFilesystem
<1> QED BY <1>1, <1>2 DEF IsFilesystem, NamesOf, InodeAt

LEMMA NthNameFacts ==
    ASSUME NEW t, IsFilesystem(t)
    PROVE  /\ Cardinality(NamesOf(t)) \in Nat
           /\ \A i, j \in 1..Cardinality(NamesOf(t)) : Before(NthName(t, i), NthName(t, j)) <=> i < j
           /\ \A i \in 1..Cardinality(NamesOf(t)) : NthName(t, i) \in NamesOf(t)
           /\ \A name \in NamesOf(t) : \E i \in 1..Cardinality(NamesOf(t)) : NthName(t, i) = name
<1> DEFINE S == NamesOf(t)
           R == OrderOf(S)
<1>1. IsFiniteSet(S) /\ S \subseteq Seq(Nat)
  BY TreeFacts
<1>2. Orders(R, S) /\ \A a, b \in S : <<a, b>> \in R <=> Before(a, b)
  BY <1>1, NamesAreOrdered
<1>3. \A n \in S : Earlier(R, S, n) = {m \in NamesOf(t) : Before(m, n)}
  <2> SUFFICES ASSUME NEW n \in S PROVE Earlier(R, S, n) = {m \in NamesOf(t) : Before(m, n)}
    OBVIOUS
  <2>1. \A m \in S : <<m, n>> \in R <=> Before(m, n)
    BY <1>2
  <2> HIDE DEF R
  <2> QED BY <2>1 DEF Earlier
<1>4. /\ Cardinality(S) \in Nat
      /\ \A n \in S : Cardinality(Earlier(R, S, n)) \in 0..(Cardinality(S) - 1)
      /\ \A m, n \in S : Cardinality(Earlier(R, S, m)) = Cardinality(Earlier(R, S, n)) => m = n
      /\ \A i \in 0..(Cardinality(S) - 1) : \E n \in S : Cardinality(Earlier(R, S, n)) = i
  <2> HIDE DEF S, R
  <2> QED BY <1>1, <1>2, RanksAreAll
<1>5. ASSUME NEW i \in 1..Cardinality(NamesOf(t))
      PROVE  NthName(t, i) \in S /\ Cardinality({m \in NamesOf(t) : Before(m, NthName(t, i))}) = i - 1
  <2>1. i - 1 \in 0..(Cardinality(S) - 1)
    BY <1>4
  <2>2. PICK n \in S : Cardinality(Earlier(R, S, n)) = i - 1
    BY <2>1, <1>4
  <2>3. n \in NamesOf(t) /\ Cardinality({m \in NamesOf(t) : Before(m, n)}) = i - 1
    BY <2>2, <1>3
  <2> QED BY <2>3 DEF NthName
<1>6. ASSUME NEW name \in NamesOf(t) PROVE \E i \in 1..Cardinality(NamesOf(t)) : NthName(t, i) = name
  <2> DEFINE r == Cardinality(Earlier(R, S, name))
  <2>1. r \in 0..(Cardinality(S) - 1)
    BY <1>4
  <2>2. r + 1 \in 1..Cardinality(NamesOf(t)) /\ (r + 1) - 1 = r
    BY <2>1, <1>4
  <2>3. NthName(t, r + 1) \in S /\ Cardinality({m \in NamesOf(t) : Before(m, NthName(t, r + 1))}) = r
    BY <2>2, <1>5
  <2>4. Cardinality(Earlier(R, S, NthName(t, r + 1))) = Cardinality(Earlier(R, S, name))
    BY <2>3, <1>3
  <2>5. NthName(t, r + 1) = name
    BY <2>3, <2>4, <1>4
  <2> QED BY <2>2, <2>5
<1>7. ASSUME NEW i \in 1..Cardinality(NamesOf(t)), NEW j \in 1..Cardinality(NamesOf(t))
      PROVE  Before(NthName(t, i), NthName(t, j)) <=> i < j
  <2> DEFINE a == NthName(t, i)
             b == NthName(t, j)
  <2>1. a \in S /\ b \in S
    BY <1>5
  <2>2. Cardinality(Earlier(R, S, a)) = i - 1 /\ Cardinality(Earlier(R, S, b)) = j - 1
    BY <1>3, <1>5
  <2> HIDE DEF S, R, a, b
  <2>3. <<a, b>> \in R => i - 1 < j - 1
    BY <1>1, <1>2, <2>1, <2>2, EarlierGrows
  <2>4. <<b, a>> \in R => j - 1 < i - 1
    BY <1>1, <1>2, <2>1, <2>2, EarlierGrows
  <2>5. a = b => i - 1 = j - 1
    BY <2>2
  <2>6. <<a, b>> \in R <=> i < j
    BY <1>2, <2>1, <2>3, <2>4, <2>5 DEF Orders
  <2> QED BY <1>2, <2>1, <2>6 DEF a, b
<1> QED BY <1>4, <1>5, <1>6, <1>7

\* An inode is shared under a first name, which names no other.
LEMMA FirstNameFacts ==
    ASSUME NEW t, IsFilesystem(t), NEW n \in Shared(t)
    PROVE  /\ FirstName(t, n) \in NamesOf(t) /\ t.number[FirstName(t, n)] = n
           /\ \A name \in NamesOf(t) : t.number[name] = n => name = FirstName(t, n) \/ Before(FirstName(t, n), name)
<1> DEFINE S == Links(t, n)
<1>1. S \in SUBSET NamesOf(t) /\ S # {}
  BY DEF Shared, Links
<1>2. S \subseteq Seq(Nat) /\ IsFiniteSet(S)
  BY <1>1, TreeFacts, FS_Subset
<1>3. Orders(OrderOf(S), S) /\ \A a, b \in S : <<a, b>> \in OrderOf(S) <=> Before(a, b)
  BY <1>2, NamesAreOrdered
<1>4. \E a \in S : \A b \in S : a = b \/ Before(a, b)
  <2> HIDE DEF S
  <2>1. PICK a \in S : \A b \in S : a = b \/ <<a, b>> \in OrderOf(S)
    BY <1>1, <1>2, <1>3, FirstOfAll
  <2> QED BY <2>1, <1>3
<1>5. FirstName(t, n) \in Links(t, n) /\ \A b \in Links(t, n) : FirstName(t, n) = b \/ Before(FirstName(t, n), b)
  BY <1>4 DEF FirstName
<1> QED BY <1>5 DEF Links

LEMMA SharedIsFinite ==
    ASSUME NEW t, IsFilesystem(t)
    PROVE  IsFiniteSet(Shared(t))
<1> DEFINE T == {t.number[name] : name \in NamesOf(t)}
           f == [name \in NamesOf(t) |-> t.number[name]]
<1>1. f \in Surjection(NamesOf(t), T)
  BY DEF Surjection
<1>2. IsFiniteSet(T)
  <2>1. IsFiniteSet(NamesOf(t))
    BY TreeFacts
  <2> HIDE DEF T, f
  <2> QED BY <1>1, <2>1, FS_Surjection
<1>3. Shared(t) \in SUBSET T
  BY DEF Shared
<1> QED BY <1>2, <1>3, FS_Subset

OrderOfShared(t) == {p \in Shared(t) \X Shared(t) : Before(FirstName(t, p[1]), FirstName(t, p[2]))}

LEMMA SharedAreOrdered ==
    ASSUME NEW t, IsFilesystem(t)
    PROVE  /\ \A m, n \in Shared(t) : <<m, n>> \in OrderOfShared(t) <=> Before(FirstName(t, m), FirstName(t, n))
           /\ Orders(OrderOfShared(t), Shared(t))
<1>1. \A m, n \in Shared(t) : <<m, n>> \in OrderOfShared(t) <=> Before(FirstName(t, m), FirstName(t, n))
  BY DEF OrderOfShared
<1>2. \A n \in Shared(t) : FirstName(t, n) \in Seq(Nat) /\ t.number[FirstName(t, n)] = n
  BY FirstNameFacts, TreeFacts
<1>3. \A n \in Shared(t) : ~Before(FirstName(t, n), FirstName(t, n))
  BY <1>2, BeforeIsStrict
<1>4. \A m, n \in Shared(t) :
         m = n \/ Before(FirstName(t, m), FirstName(t, n)) \/ Before(FirstName(t, n), FirstName(t, m))
  BY <1>2, BeforeIsTotal
<1>5. \A k, m, n \in Shared(t) :
         Before(FirstName(t, k), FirstName(t, m)) /\ Before(FirstName(t, m), FirstName(t, n))
         => Before(FirstName(t, k), FirstName(t, n))
  BY <1>2, BeforeIsTransitive
<1> QED BY <1>1, <1>3, <1>4, <1>5 DEF Orders

\* A token is zero where there is nothing to share, and names one shared inode elsewhere.
LEMMA TokenFacts ==
    ASSUME NEW t, IsFilesystem(t)
    PROVE  /\ \A n : n \notin Shared(t) => Token(t, n) = 0
           /\ \A n \in Shared(t) : Token(t, n) # 0
           /\ \A m, n \in Shared(t) : Token(t, m) = Token(t, n) => m = n
           /\ \A n \in Shared(t) :
                /\ Token(t, n) = Cardinality(Earlier(OrderOfShared(t), Shared(t), n)) + 1
                /\ IsFiniteSet(Earlier(OrderOfShared(t), Shared(t), n))
<1> DEFINE S == Shared(t)
           R == OrderOfShared(t)
<1>1. \A n : n \notin Shared(t) => Token(t, n) = 0
  BY DEF Token
<1>2. IsFiniteSet(S) /\ Orders(R, S)
  BY SharedIsFinite, SharedAreOrdered
<1>3. ASSUME NEW n \in S
      PROVE  Token(t, n) = Cardinality(Earlier(R, S, n)) + 1 /\ Cardinality(Earlier(R, S, n)) \in Nat
  <2>1. \A m \in S : <<m, n>> \in R <=> Before(FirstName(t, m), FirstName(t, n))
    BY SharedAreOrdered
  <2> HIDE DEF S, R
  <2>2. {m \in S : m = n \/ Before(FirstName(t, m), FirstName(t, n))} = Earlier(R, S, n) \cup {n}
    BY <2>1 DEF Earlier
  <2>3. n \notin Earlier(R, S, n)
    BY <1>2 DEF Earlier, Orders
  <2>4. IsFiniteSet(Earlier(R, S, n)) /\ Cardinality(Earlier(R, S, n)) \in Nat
    BY <1>2, EarlierIsFinite
  <2>5. Cardinality(Earlier(R, S, n) \cup {n}) = Cardinality(Earlier(R, S, n)) + 1
    BY <2>3, <2>4, FS_AddElement
  <2>6. Token(t, n) = Cardinality({m \in S : m = n \/ Before(FirstName(t, m), FirstName(t, n))})
    BY DEF Token, S
  <2> QED BY <2>2, <2>4, <2>5, <2>6
<1>4. \A m, n \in S : Cardinality(Earlier(R, S, m)) = Cardinality(Earlier(R, S, n)) => m = n
  <2> HIDE DEF S, R
  <2> QED BY <1>2, RanksAreAll
<1>5. \A n \in S : Token(t, n) # 0
  <2> SUFFICES ASSUME NEW n \in S PROVE Token(t, n) # 0
    OBVIOUS
  <2> QED BY <1>3
<1>6. \A m, n \in S : Token(t, m) = Token(t, n) => m = n
  <2> SUFFICES ASSUME NEW m \in S, NEW n \in S, Token(t, m) = Token(t, n) PROVE m = n
    OBVIOUS
  <2>1. Cardinality(Earlier(R, S, m)) = Cardinality(Earlier(R, S, n))
    BY <1>3
  <2> QED BY <2>1, <1>4
<1>7. \A n \in S : IsFiniteSet(Earlier(R, S, n))
  <2> HIDE DEF S, R
  <2> QED BY <1>2, EarlierIsFinite
<1> QED BY <1>1, <1>3, <1>5, <1>6, <1>7
-----------------------------------------------------------------------------
\* The entry of a name, the root's too.
EntryOf(t, name) == [Describe(name, InodeAt(t, name)) EXCEPT !.token = TokenOf(t, name)]

LEMMA EntryShape ==
    ASSUME NEW t, NEW name, NEW f, f = InodeAt(t, name)
    PROVE  EntryOf(t, name) =
             [name |-> name, type |-> f.type, mode |-> IF f.type = "lnk" THEN 0 ELSE f.mode,
              owner |-> f.owner, mtime |-> f.mtime,
              size |-> IF f.type \in {"reg", "lnk"} THEN Len(f.data) ELSE 0,
              sha256 |-> IF f.type = "reg" THEN f.data ELSE <<>>,
              target |-> IF f.type = "lnk" THEN f.data ELSE <<>>,
              device |-> IF f.type \in {"chr", "blk"} THEN f.data ELSE <<>>,
              token |-> TokenOf(t, name), xattrs |-> f.xattrs]
BY DEF EntryOf, Describe

LEMMA RootHasNoToken ==
    ASSUME NEW t, IsFilesystem(t)
    PROVE  TokenOf(t, <<>>) = 0
<1>1. t.number[<<>>] \notin Shared(t)
  BY TreeFacts DEF Shared, InodeAt
<1> QED BY <1>1, TokenFacts DEF TokenOf

LEMMA AssembleFacts ==
    ASSUME NEW t, IsFilesystem(t)
    PROVE  /\ Assemble(t) = [root |-> EntryOf(t, <<>>),
                             entries |-> [i \in 1..Cardinality(NamesOf(t)) |-> EntryOf(t, NthName(t, i))]]
           /\ All(Assemble(t)) = {EntryOf(t, name) : name \in DOMAIN t.number}
<1>1. Describe(<<>>, InodeAt(t, <<>>)) = EntryOf(t, <<>>)
  BY RootHasNoToken DEF EntryOf, Describe
<1>2. Assemble(t) = [root |-> EntryOf(t, <<>>),
                     entries |-> [i \in 1..Cardinality(NamesOf(t)) |-> EntryOf(t, NthName(t, i))]]
  BY <1>1 DEF Assemble, EntryOf
<1>3. All(Assemble(t)) = {EntryOf(t, <<>>)} \cup {EntryOf(t, NthName(t, i)) : i \in 1..Cardinality(NamesOf(t))}
  BY <1>2 DEF All
<1>4. {EntryOf(t, NthName(t, i)) : i \in 1..Cardinality(NamesOf(t))} = {EntryOf(t, name) : name \in NamesOf(t)}
  BY NthNameFacts
<1>5. DOMAIN t.number = {<<>>} \cup NamesOf(t)
  BY TreeFacts
<1>6. {EntryOf(t, name) : name \in DOMAIN t.number} = {EntryOf(t, <<>>)} \cup {EntryOf(t, name) : name \in NamesOf(t)}
  BY <1>5
<1> QED BY <1>2, <1>3, <1>4, <1>6
\* The other names of a file are those its token is repeated at.
LEMMA SiblingsFacts ==
    ASSUME NEW t, IsFilesystem(t), NEW name \in DOMAIN t.number
    PROVE  /\ InodeAt(t, name).type = "dir" => Siblings(All(Assemble(t)), EntryOf(t, name)) = {}
           /\ InodeAt(t, name).type # "dir" =>
                /\ Siblings(All(Assemble(t)), EntryOf(t, name)) = Links(t, t.number[name]) \ {name}
                /\ name \in Links(t, t.number[name])
<1> DEFINE E == All(Assemble(t))
           n == t.number[name]
<1>1. E = {EntryOf(t, m) : m \in DOMAIN t.number}
  BY AssembleFacts
<1>2. \A m : EntryOf(t, m).token = Token(t, t.number[m]) /\ EntryOf(t, m).name = m
  BY EntryShape DEF TokenOf
<1>3. InodeAt(t, name).type # "dir" => name \in Links(t, n)
  BY TreeFacts DEF Links
<1>4. CASE n \notin Shared(t)
  <2>1. EntryOf(t, name).token = 0
    BY <1>2, <1>4, TokenFacts
  <2>2. Siblings(E, EntryOf(t, name)) = {}
    BY <2>1 DEF Siblings
  <2>3. ASSUME InodeAt(t, name).type # "dir" PROVE Links(t, n) \ {name} = {}
    <3>1. name \in NamesOf(t)
      BY <2>3, TreeFacts
    <3>2. ~(Cardinality(Links(t, n)) > 1)
      BY <3>1, <2>3, <1>4 DEF Shared, InodeAt
    <3>3. Links(t, n) \in SUBSET NamesOf(t)
      BY DEF Links
    <3>4. IsFiniteSet(Links(t, n)) /\ Cardinality(Links(t, n)) \in Nat
      BY <3>3, TreeFacts, FS_Subset, FS_CardinalityType
    <3>5. Cardinality(Links(t, n)) # 0
      BY <3>4, <1>3, <2>3, FS_EmptySet
    <3>6. Cardinality(Links(t, n)) = 1
      BY <3>2, <3>4, <3>5
    <3>7. \E x : Links(t, n) = {x}
      BY <3>4, <3>6, FS_Singleton
    <3> QED BY <3>7, <1>3, <2>3
  <2> QED BY <1>3, <2>2, <2>3
<1>5. CASE n \in Shared(t)
  <2>1. InodeAt(t, name).type # "dir"
    BY <1>5 DEF Shared, InodeAt
  <2>2. EntryOf(t, name).token = Token(t, n) /\ Token(t, n) # 0
    BY <1>2, <1>5, TokenFacts
  <2>3. \A m : Token(t, t.number[m]) = Token(t, n) <=> t.number[m] = n
    <3> SUFFICES ASSUME NEW m, Token(t, t.number[m]) = Token(t, n) PROVE t.number[m] = n
      OBVIOUS
    <3>1. t.number[m] \in Shared(t)
      BY <2>2, TokenFacts
    <3> QED BY <3>1, <1>5, TokenFacts
  <2>4. t.number[<<>>] # n
    BY <2>1, TreeFacts DEF InodeAt
  <2>5. {o.name : o \in {o \in E : o.token = EntryOf(t, name).token}} = Links(t, n)
    <3>1. {o \in E : o.token = EntryOf(t, name).token} = {EntryOf(t, m) : m \in Links(t, n)}
      <4>1. \A m \in DOMAIN t.number : EntryOf(t, m).token = EntryOf(t, name).token <=> m \in Links(t, n)
        BY <1>2, <2>2, <2>3, <2>4, TreeFacts DEF Links
      <4>2. Links(t, n) \subseteq DOMAIN t.number
        BY TreeFacts DEF Links
      <4> QED BY <1>1, <4>1, <4>2
    <3>2. {o.name : o \in {EntryOf(t, m) : m \in Links(t, n)}} = Links(t, n)
      BY <1>2
    <3> QED BY <3>1, <3>2
  <2>6. Siblings(E, EntryOf(t, name)) = Links(t, n) \ {name}
    BY <1>2, <2>2, <2>5 DEF Siblings
  <2> QED BY <1>3, <2>1, <2>6
<1> QED BY <1>4, <1>5

\* What a name shows of its inode, and of the other names of the file.
ShownAt(t, name) ==
    [InodeAt(t, name) EXCEPT !.mode = IF InodeAt(t, name).type = "lnk" THEN 0 ELSE @]
VisibleAt(t, name) ==
    [inode |-> ShownAt(t, name), links |-> IF InodeAt(t, name).type = "dir" THEN {} ELSE Links(t, t.number[name])]

LEMMA ShownAtShape ==
    ASSUME NEW t, IsFilesystem(t), NEW name \in DOMAIN t.number, NEW f, f = InodeAt(t, name)
    PROVE  /\ ShownAt(t, name) = [type |-> f.type, mode |-> IF f.type = "lnk" THEN 0 ELSE f.mode,
                                owner |-> f.owner, mtime |-> f.mtime, data |-> f.data, xattrs |-> f.xattrs]
           /\ f.type \notin {"reg", "lnk", "chr", "blk"} => f.data = <<>>
<1>1. /\ f = [type |-> f.type, mode |-> f.mode, owner |-> f.owner, mtime |-> f.mtime, data |-> f.data, xattrs |-> f.xattrs]
      /\ f.type \notin {"reg", "lnk", "chr", "blk"} => f.data = <<>>
  BY DEF IsFilesystem, InodeAt
<1>2. [f EXCEPT !.mode = IF f.type = "lnk" THEN 0 ELSE f.mode] =
        [type |-> f.type, mode |-> IF f.type = "lnk" THEN 0 ELSE f.mode,
         owner |-> f.owner, mtime |-> f.mtime, data |-> f.data, xattrs |-> f.xattrs]
  BY <1>1
<1> QED BY <1>1, <1>2 DEF ShownAt

\* The fields of an entry tell exactly what the name shows of its inode.
LEMMA FieldsTell ==
    ASSUME NEW s, NEW t, IsFilesystem(s), IsFilesystem(t), NEW name \in DOMAIN s.number, name \in DOMAIN t.number
    PROVE  (\A x \in OwnFields : EntryOf(s, name)[x] = EntryOf(t, name)[x]) <=> ShownAt(s, name) = ShownAt(t, name)
<1> DEFINE f == InodeAt(s, name)
           g == InodeAt(t, name)
           a == EntryOf(s, name)
           b == EntryOf(t, name)
<1>1. (\A x \in OwnFields : a[x] = b[x]) <=>
        /\ a.type = b.type /\ a.mode = b.mode /\ a.owner = b.owner /\ a.mtime = b.mtime /\ a.size = b.size
        /\ a.sha256 = b.sha256 /\ a.target = b.target /\ a.device = b.device /\ a.xattrs = b.xattrs
  <2> HIDE DEF a, b
  <2> QED BY DEF OwnFields
<1>2. /\ a.type = f.type /\ a.mode = (IF f.type = "lnk" THEN 0 ELSE f.mode) /\ a.owner = f.owner /\ a.mtime = f.mtime
      /\ a.size = (IF f.type \in {"reg", "lnk"} THEN Len(f.data) ELSE 0)
      /\ a.sha256 = (IF f.type = "reg" THEN f.data ELSE <<>>)
      /\ a.target = (IF f.type = "lnk" THEN f.data ELSE <<>>)
      /\ a.device = (IF f.type \in {"chr", "blk"} THEN f.data ELSE <<>>) /\ a.xattrs = f.xattrs
  BY EntryShape
<1>3. /\ b.type = g.type /\ b.mode = (IF g.type = "lnk" THEN 0 ELSE g.mode) /\ b.owner = g.owner /\ b.mtime = g.mtime
      /\ b.size = (IF g.type \in {"reg", "lnk"} THEN Len(g.data) ELSE 0)
      /\ b.sha256 = (IF g.type = "reg" THEN g.data ELSE <<>>)
      /\ b.target = (IF g.type = "lnk" THEN g.data ELSE <<>>)
      /\ b.device = (IF g.type \in {"chr", "blk"} THEN g.data ELSE <<>>) /\ b.xattrs = g.xattrs
  BY EntryShape
<1>4. ShownAt(s, name) = [type |-> f.type, mode |-> IF f.type = "lnk" THEN 0 ELSE f.mode,
                        owner |-> f.owner, mtime |-> f.mtime, data |-> f.data, xattrs |-> f.xattrs]
  BY ShownAtShape
<1>5. ShownAt(t, name) = [type |-> g.type, mode |-> IF g.type = "lnk" THEN 0 ELSE g.mode,
                        owner |-> g.owner, mtime |-> g.mtime, data |-> g.data, xattrs |-> g.xattrs]
  BY ShownAtShape
<1>6. /\ f.type \notin {"reg", "lnk", "chr", "blk"} => f.data = <<>>
      /\ g.type \notin {"reg", "lnk", "chr", "blk"} => g.data = <<>>
  BY ShownAtShape
<1> HIDE DEF f, g, a, b
<1>7. ShownAt(s, name) = ShownAt(t, name) <=>
        /\ f.type = g.type /\ (IF f.type = "lnk" THEN 0 ELSE f.mode) = (IF g.type = "lnk" THEN 0 ELSE g.mode)
        /\ f.owner = g.owner /\ f.mtime = g.mtime /\ f.data = g.data /\ f.xattrs = g.xattrs
  BY <1>4, <1>5
<1>8. ASSUME a.type = b.type, a.sha256 = b.sha256, a.target = b.target, a.device = b.device PROVE f.data = g.data
  BY <1>2, <1>3, <1>6, <1>8
<1>9. ASSUME f.type = g.type, f.data = g.data
      PROVE  a.size = b.size /\ a.sha256 = b.sha256 /\ a.target = b.target /\ a.device = b.device
  BY <1>2, <1>3, <1>9
<1>10. a.mode = b.mode <=> (IF f.type = "lnk" THEN 0 ELSE f.mode) = (IF g.type = "lnk" THEN 0 ELSE g.mode)
  BY <1>2, <1>3
<1>11. (\A x \in OwnFields : EntryOf(s, name)[x] = EntryOf(t, name)[x]) <=> (\A x \in OwnFields : a[x] = b[x])
  BY DEF a, b
<1>12. /\ a.type = b.type <=> f.type = g.type
       /\ a.owner = b.owner <=> f.owner = g.owner
       /\ a.mtime = b.mtime <=> f.mtime = g.mtime
       /\ a.xattrs = b.xattrs <=> f.xattrs = g.xattrs
  BY <1>2, <1>3
<1> QED BY <1>1, <1>7, <1>8, <1>9, <1>10, <1>11, <1>12
LEMMA VisibleShape ==
    ASSUME NEW t
    PROVE  Visible(t) = [name \in DOMAIN t.number |-> VisibleAt(t, name)]
BY DEF Visible, VisibleAt, ShownAt

\* One name, on both sides.
LEMMA NameTells ==
    ASSUME NEW s, NEW t, IsFilesystem(s), IsFilesystem(t), NEW name \in DOMAIN s.number, name \in DOMAIN t.number
    PROVE  ChangedFields(All(Assemble(s)), All(Assemble(t)), EntryOf(s, name), EntryOf(t, name)) = {}
             <=> VisibleAt(s, name) = VisibleAt(t, name)
<1> DEFINE X == Siblings(All(Assemble(s)), EntryOf(s, name))
           Y == Siblings(All(Assemble(t)), EntryOf(t, name))
           P == Links(s, s.number[name])
           Q == Links(t, t.number[name])
           f == InodeAt(s, name)
           g == InodeAt(t, name)
<1>1. ChangedFields(All(Assemble(s)), All(Assemble(t)), EntryOf(s, name), EntryOf(t, name)) = {}
        <=> (\A x \in OwnFields : EntryOf(s, name)[x] = EntryOf(t, name)[x]) /\ X = Y
  BY DEF ChangedFields
<1>2. (\A x \in OwnFields : EntryOf(s, name)[x] = EntryOf(t, name)[x]) <=> ShownAt(s, name) = ShownAt(t, name)
  BY FieldsTell
<1>3. ShownAt(s, name) = ShownAt(t, name) => f.type = g.type
  <2>1. ShownAt(s, name).type = f.type /\ ShownAt(t, name).type = g.type
    BY ShownAtShape
  <2> QED BY <2>1
<1>4. /\ f.type = "dir" => X = {}
      /\ f.type # "dir" => X = P \ {name} /\ name \in P
      /\ g.type = "dir" => Y = {}
      /\ g.type # "dir" => Y = Q \ {name} /\ name \in Q
  BY SiblingsFacts
<1>5. VisibleAt(s, name) = VisibleAt(t, name) <=>
        /\ ShownAt(s, name) = ShownAt(t, name)
        /\ (IF f.type = "dir" THEN {} ELSE P) = (IF g.type = "dir" THEN {} ELSE Q)
  <2> HIDE DEF f, g, P, Q
  <2>1. /\ VisibleAt(s, name) = [inode |-> ShownAt(s, name), links |-> IF f.type = "dir" THEN {} ELSE P]
        /\ VisibleAt(t, name) = [inode |-> ShownAt(t, name), links |-> IF g.type = "dir" THEN {} ELSE Q]
    BY DEF VisibleAt, f, g, P, Q
  <2> QED BY <2>1
<1> HIDE DEF X, Y, P, Q, f, g
<1>6. ASSUME f.type = g.type
      PROVE  X = Y <=> (IF f.type = "dir" THEN {} ELSE P) = (IF g.type = "dir" THEN {} ELSE Q)
  <2>1. CASE f.type = "dir"
    BY <1>4, <1>6, <2>1
  <2>2. CASE f.type # "dir"
    <3>1. X = P \ {name} /\ name \in P /\ Y = Q \ {name} /\ name \in Q
      BY <1>4, <1>6, <2>2
    <3>2. X = Y <=> P = Q
      BY <3>1
    <3> QED BY <3>2, <1>6, <2>2
  <2> QED BY <2>1, <2>2
<1> QED BY <1>1, <1>2, <1>3, <1>5, <1>6

\* Two lists compare equal exactly where the filesystems show the same.
LEMMA DiffIsOfTheFiles ==
    ASSUME NEW s, NEW t, IsFilesystem(s), IsFilesystem(t)
    PROVE  IsEmpty(FilesDiff(Assemble(s), Assemble(t))) <=> Visible(s) = Visible(t)
<1> DEFINE L == All(Assemble(s))
           R == All(Assemble(t))
           D == FilesDiff(Assemble(s), Assemble(t))
<1>1. L = {EntryOf(s, name) : name \in DOMAIN s.number} /\ R = {EntryOf(t, name) : name \in DOMAIN t.number}
  BY AssembleFacts
<1>2. \A u, m : EntryOf(u, m).name = m
  BY EntryShape
<1>3. {e.name : e \in L} = DOMAIN s.number /\ {e.name : e \in R} = DOMAIN t.number
  <2> HIDE DEF L, R
  <2> QED BY <1>1, <1>2
<1>4. /\ D.added = {e.name : e \in R} \ {e.name : e \in L}
      /\ D.removed = {e.name : e \in L} \ {e.name : e \in R}
      /\ D.changed = {c \in UNION {{[name |-> e.name, fields |-> ChangedFields(L, R, e, o)] : o \in {o \in R : o.name = e.name}} : e \in L} :
                        c.fields # {}}
  BY DEF FilesDiff
<1> HIDE DEF L, R, D
<1>5. D.changed = {} <=> \A e \in L : \A o \in R : o.name = e.name => ChangedFields(L, R, e, o) = {}
  <2>1. ASSUME D.changed = {}, NEW e \in L, NEW o \in R, o.name = e.name PROVE ChangedFields(L, R, e, o) = {}
    <3> DEFINE c == [name |-> e.name, fields |-> ChangedFields(L, R, e, o)]
    <3>1. c \in UNION {{[name |-> d.name, fields |-> ChangedFields(L, R, d, p)] : p \in {p \in R : p.name = d.name}} : d \in L}
      BY <2>1
    <3>2. c.fields = ChangedFields(L, R, e, o)
      OBVIOUS
    <3> HIDE DEF c
    <3> QED BY <3>1, <3>2, <2>1, <1>4
  <2>2. ASSUME \A e \in L : \A o \in R : o.name = e.name => ChangedFields(L, R, e, o) = {} PROVE D.changed = {}
    <3> SUFFICES ASSUME NEW c \in D.changed PROVE FALSE
      OBVIOUS
    <3>1. PICK e \in L : \E o \in R : o.name = e.name /\ c = [name |-> e.name, fields |-> ChangedFields(L, R, e, o)]
      BY <1>4
    <3>2. PICK o \in R : o.name = e.name /\ c = [name |-> e.name, fields |-> ChangedFields(L, R, e, o)]
      BY <3>1
    <3>3. c.fields = {}
      BY <2>2, <3>2
    <3> QED BY <3>3, <1>4
  <2> QED BY <2>1, <2>2
<1>6. D.changed = {} <=>
        \A name \in DOMAIN s.number \cap DOMAIN t.number : ChangedFields(L, R, EntryOf(s, name), EntryOf(t, name)) = {}
  BY <1>1, <1>2, <1>5
<1>7. \A name \in DOMAIN s.number \cap DOMAIN t.number :
        ChangedFields(L, R, EntryOf(s, name), EntryOf(t, name)) = {} <=> VisibleAt(s, name) = VisibleAt(t, name)
  BY NameTells DEF L, R
<1>8. D.added = {} /\ D.removed = {} <=> DOMAIN s.number = DOMAIN t.number
  BY <1>3, <1>4
<1>9. IsEmpty(D) <=>
        /\ DOMAIN s.number = DOMAIN t.number
        /\ \A name \in DOMAIN s.number \cap DOMAIN t.number : VisibleAt(s, name) = VisibleAt(t, name)
  BY <1>6, <1>7, <1>8 DEF IsEmpty
<1>10. Visible(s) = Visible(t) <=>
        /\ DOMAIN s.number = DOMAIN t.number
        /\ \A name \in DOMAIN s.number \cap DOMAIN t.number : VisibleAt(s, name) = VisibleAt(t, name)
  <2>1. Visible(s) = [name \in DOMAIN s.number |-> VisibleAt(s, name)]
    BY VisibleShape
  <2>2. Visible(t) = [name \in DOMAIN t.number |-> VisibleAt(t, name)]
    BY VisibleShape
  <2> QED BY <2>1, <2>2
<1> QED BY <1>9, <1>10 DEF D
-----------------------------------------------------------------------------
\* A record says all of an entry, and is read back as it.
LEMMA ReadBack ==
    ASSUME NEW t, IsFilesystem(t), NEW name \in DOMAIN t.number, NEW r \in BOOLEAN, r = (name = <<>>)
    PROVE  ReadEntry(Object(EntryOf(t, name), r)) = EntryOf(t, name)
<1> DEFINE e == EntryOf(t, name)
           f == InodeAt(t, name)
           o == Object(e, r)
<1>1. e = [name |-> e.name, type |-> e.type, mode |-> e.mode, owner |-> e.owner, mtime |-> e.mtime, size |-> e.size,
           sha256 |-> e.sha256, target |-> e.target, device |-> e.device, token |-> e.token, xattrs |-> e.xattrs]
  BY EntryShape
<1>2. e.name = name /\ (e.type = "lnk" => e.mode = 0) /\ (e.type \notin {"reg", "lnk"} => e.size = 0)
  BY EntryShape
<1> HIDE DEF e
<1>3. /\ o["type"] = e.type /\ o["uid"] = e.owner /\ o["mTimeNSec"] = e.mtime
  BY DEF Object, Keys, Values
<1>4. Get(o, "name", <<>>) = e.name
  <2>1. CASE r BY <2>1, <1>2 DEF Get, Object, Keys
  <2>2. CASE ~r BY <2>2 DEF Get, Object, Keys, Values
  <2> QED BY <2>1, <2>2
<1>5. Get(o, "mode", 0) = e.mode
  <2>1. CASE e.type = "lnk" BY <2>1, <1>2 DEF Get, Object, Keys
  <2>2. CASE e.type # "lnk" BY <2>2 DEF Get, Object, Keys, Values
  <2> QED BY <2>1, <2>2
<1>6. Get(o, "size", 0) = e.size
  <2>1. CASE e.type \notin {"reg", "lnk"} BY <2>1, <1>2 DEF Get, Object, Keys
  <2>2. CASE e.type \in {"reg", "lnk"} BY <2>2 DEF Get, Object, Keys, Values
  <2> QED BY <2>1, <2>2
<1>7. Get(o, "sha256", <<>>) = e.sha256
  <2>1. CASE e.sha256 = <<>> BY <2>1 DEF Get, Object, Keys
  <2>2. CASE e.sha256 # <<>> BY <2>2 DEF Get, Object, Keys, Values
  <2> QED BY <2>1, <2>2
<1>8. Get(o, "contents", <<>>) = e.target
  <2>1. CASE e.target = <<>> BY <2>1 DEF Get, Object, Keys
  <2>2. CASE e.target # <<>> BY <2>2 DEF Get, Object, Keys, Values
  <2> QED BY <2>1, <2>2
<1>9. Get(o, "major", <<>>) = e.device
  <2>1. CASE e.device = <<>> BY <2>1 DEF Get, Object, Keys
  <2>2. CASE e.device # <<>> BY <2>2 DEF Get, Object, Keys, Values
  <2> QED BY <2>1, <2>2
<1>10. Get(o, "inodeToken", 0) = e.token
  <2>1. CASE e.token = 0 BY <2>1 DEF Get, Object, Keys
  <2>2. CASE e.token # 0 BY <2>2 DEF Get, Object, Keys, Values
  <2> QED BY <2>1, <2>2
<1>11. Get(o, "xattrs", {}) = e.xattrs
  <2>1. CASE e.xattrs = {} BY <2>1 DEF Get, Object, Keys
  <2>2. CASE e.xattrs # {} BY <2>2 DEF Get, Object, Keys, Values
  <2> QED BY <2>1, <2>2
<1> HIDE DEF o
<1>12. ReadEntry(o) = e
  BY <1>1, <1>3, <1>4, <1>5, <1>6, <1>7, <1>8, <1>9, <1>10, <1>11 DEF ReadEntry
<1> QED BY <1>12 DEF o, e
TextOf(t) == ToBytes(Assemble(t))
Count(t) == Cardinality(NamesOf(t))

LEMMA TextFacts ==
    ASSUME NEW t, IsFilesystem(t)
    PROVE  /\ Count(t) \in Nat
           /\ \E S : TextOf(t) \in Seq(S)
           /\ Len(TextOf(t)) = Count(t) + 2
           /\ TextOf(t)[1] = Object(EntryOf(t, <<>>), TRUE)
           /\ \A i \in 1..Count(t) : TextOf(t)[i + 1] = Object(EntryOf(t, NthName(t, i)), FALSE)
           /\ TextOf(t)[Count(t) + 2] = Trailer
<1> DEFINE m == [i \in 1..Count(t) |-> Object(EntryOf(t, NthName(t, i)), FALSE)]
           a == Object(EntryOf(t, <<>>), TRUE)
<1>1. Count(t) \in Nat
  BY NthNameFacts DEF Count
<1>2. TextOf(t) = <<a>> \o m \o <<Trailer>>
  <2>0. Assemble(t) = [root |-> EntryOf(t, <<>>),
                       entries |-> [i \in 1..Count(t) |-> EntryOf(t, NthName(t, i))]]
    BY AssembleFacts DEF Count
  <2>1. /\ Assemble(t).root = EntryOf(t, <<>>)
        /\ Assemble(t).entries = [i \in 1..Count(t) |-> EntryOf(t, NthName(t, i))]
    BY <2>0
  <2>2. [i \in DOMAIN Assemble(t).entries |-> Object(Assemble(t).entries[i], FALSE)] = m
    BY <2>1
  <2> HIDE DEF m
  <2> QED BY <2>1, <2>2 DEF TextOf, ToBytes
<1>3. /\ m = [i \in 1..Count(t) |-> m[i]]
      /\ \A i \in 1..Count(t) : m[i] = Object(EntryOf(t, NthName(t, i)), FALSE)
  OBVIOUS
<1> HIDE DEF m, a
<1> DEFINE S == {a, Trailer} \cup {m[i] : i \in 1..Count(t)}
           two == <<a>> \o m
<1>4. <<a>> \in Seq(S) /\ <<Trailer>> \in Seq(S)
  OBVIOUS
<1>5. m \in Seq(S) /\ Len(m) = Count(t)
  <2>1. m \in [1..Count(t) -> S]
    BY <1>3
  <2> HIDE DEF S
  <2> QED BY <1>1, <2>1
<1> HIDE DEF S
<1>6. /\ two \in Seq(S) /\ Len(two) = Count(t) + 1 /\ two[1] = a
      /\ \A i \in 1..Count(t) : two[i + 1] = m[i]
  BY <1>1, <1>4, <1>5
<1>7. TextOf(t) = two \o <<Trailer>>
  BY <1>2
<1> HIDE DEF two
<1>8. /\ TextOf(t) \in Seq(S) /\ Len(TextOf(t)) = Count(t) + 2
      /\ TextOf(t)[Count(t) + 2] = Trailer
      /\ \A i \in 1..(Count(t) + 1) : TextOf(t)[i] = two[i]
  BY <1>1, <1>4, <1>6, <1>7
<1>9. TextOf(t)[1] = a /\ \A i \in 1..Count(t) : TextOf(t)[i + 1] = m[i]
  <2>1. \A i \in 1..Count(t) : i + 1 \in 1..(Count(t) + 1)
    BY <1>1
  <2>2. 1 \in 1..(Count(t) + 1)
    BY <1>1
  <2> QED BY <1>6, <1>8, <2>1, <2>2
<1> QED BY <1>1, <1>3, <1>8, <1>9 DEF a

LEMMA WholeReads ==
    ASSUME NEW t, IsFilesystem(t), NEW text, text = TextOf(t)
    PROVE  Parse(text) = Assemble(t)
<1> DEFINE n == Count(t)
<1>1. n \in Nat /\ Len(text) = n + 2 /\ \E S : text \in Seq(S)
  BY TextFacts
<1>2. Head(text) = text[1]
  BY <1>1
<1>3. ReadEntry(Head(text)) = EntryOf(t, <<>>)
  <2>1. Head(text) = Object(EntryOf(t, <<>>), TRUE)
    BY <1>2, TextFacts
  <2> QED BY <2>1, ReadBack, TreeFacts
<1>4. \A i \in 1..n : ReadEntry(text[i + 1]) = EntryOf(t, NthName(t, i))
  <2> SUFFICES ASSUME NEW i \in 1..n PROVE ReadEntry(text[i + 1]) = EntryOf(t, NthName(t, i))
    OBVIOUS
  <2>1. text[i + 1] = Object(EntryOf(t, NthName(t, i)), FALSE)
    BY TextFacts
  <2>2. NthName(t, i) \in NamesOf(t)
    BY NthNameFacts DEF Count
  <2>3. NthName(t, i) \in DOMAIN t.number /\ NthName(t, i) # <<>>
    BY <2>2, TreeFacts
  <2> QED BY <2>1, <2>3, ReadBack
<1>5. Len(text) - 2 = n
  BY <1>1
<1>6. Parse(text) = [root |-> EntryOf(t, <<>>), entries |-> [i \in 1..n |-> EntryOf(t, NthName(t, i))]]
  <2> HIDE DEF n
  <2>1. [i \in 1..(Len(text) - 2) |-> ReadEntry(text[i + 1])] = [i \in 1..n |-> EntryOf(t, NthName(t, i))]
    BY <1>4, <1>5
  <2> QED BY <1>3, <2>1 DEF Parse
<1> QED BY <1>6, AssembleFacts DEF Count

\* Any part of the text that reads back is all of it.
LEMMA WholeOrRefused ==
    ASSUME NEW t, IsFilesystem(t), NEW k \in 1..Len(TextOf(t)), Parses(SubSeq(TextOf(t), 1, k))
    PROVE  Parse(SubSeq(TextOf(t), 1, k)) = Assemble(t)
<1> DEFINE text == TextOf(t)
           n == Count(t)
           p == SubSeq(text, 1, k)
<1>1. n \in Nat /\ Len(text) = n + 2 /\ k \in 1..(n + 2)
  BY TextFacts
<1>2. PICK S : text \in Seq(S)
  BY TextFacts
<1>3. Len(p) = k /\ \A j \in 1..k : p[j] = text[j]
  <2> HIDE DEF text
  <2> QED BY <1>1, <1>2
<1>4. k >= 2 /\ text[k] = Trailer
  BY <1>1, <1>3 DEF Parses
<1>5. k = n + 2
  <2> SUFFICES ASSUME k # n + 2 PROVE FALSE
    OBVIOUS
  <2>1. k - 1 \in 1..n /\ (k - 1) + 1 = k
    BY <1>1, <1>4
  <2>2. text[k] = Object(EntryOf(t, NthName(t, k - 1)), FALSE)
    BY <2>1, TextFacts
  <2>3. "type" \in DOMAIN Object(EntryOf(t, NthName(t, k - 1)), FALSE)
    BY DEF Object, Keys
  <2>4. "type" \notin DOMAIN Trailer
    BY DEF Trailer
  <2> QED BY <1>4, <2>2, <2>3, <2>4
<1>6. p = text
  <2> HIDE DEF text
  <2> QED BY <1>1, <1>2, <1>5
<1> QED BY <1>6, WholeReads

-----------------------------------------------------------------------------
\* The list of what can be listed is accepted.
LEMMA EntriesPass ==
    ASSUME NEW t, IsListable(t), NEW name \in DOMAIN t.number
    PROVE  /\ CheckEntry(EntryOf(t, name), name = <<>>)
           /\ name # <<>> => CheckName(name)
<1> DEFINE f == InodeAt(t, name)
           e == EntryOf(t, name)
<1>1. IsFilesystem(t)
  BY DEF IsListable
<1>2. /\ name \notin Reserved /\ (f.data # <<>> => Len(f.data) > 0)
      /\ f.type \in {"lnk", "chr", "blk"} => f.data # <<>>
  BY DEF IsListable
<1>3. /\ e.name = name /\ e.type = f.type /\ e.mode = (IF f.type = "lnk" THEN 0 ELSE f.mode)
      /\ e.size = (IF f.type \in {"reg", "lnk"} THEN Len(f.data) ELSE 0)
      /\ e.sha256 = (IF f.type = "reg" THEN f.data ELSE <<>>)
      /\ e.target = (IF f.type = "lnk" THEN f.data ELSE <<>>)
      /\ e.device = (IF f.type \in {"chr", "blk"} THEN f.data ELSE <<>>)
      /\ e.token = TokenOf(t, name)
  BY EntryShape
<1>4. name = <<>> => f.type = "dir"
  BY <1>1, TreeFacts
<1>5. f.type = "dir" => TokenOf(t, name) = 0
  <2>1. f.type = "dir" => t.number[name] \notin Shared(t)
    BY DEF Shared, InodeAt
  <2> QED BY <2>1, <1>1, TokenFacts DEF TokenOf
<1> HIDE DEF f, e
<1>6. f.type = "reg" => ((f.data # <<>>) = (Len(f.data) > 0))
  <2>1. f.data = <<>> => ~(Len(f.data) > 0)
    OBVIOUS
  <2> QED BY <2>1, <1>2
<1>7. /\ name = <<>> => e.type = "dir" /\ e.name = <<>>
      /\ e.type = "lnk" => e.mode = 0
      /\ e.type \notin {"reg", "lnk"} => e.size = 0
      /\ e.type = "lnk" => Len(e.target) = e.size
      /\ e.type = "dir" => e.token = 0
  BY <1>3, <1>4, <1>5
<1>8. (e.sha256 # <<>>) = (e.type = "reg" /\ e.size > 0)
  <2>1. CASE f.type = "reg"
    BY <2>1, <1>3, <1>6
  <2>2. CASE f.type # "reg"
    BY <2>2, <1>3
  <2> QED BY <2>1, <2>2
<1>9. (e.target # <<>>) = (e.type = "lnk") /\ (e.device # <<>>) = (e.type \in {"chr", "blk"})
  BY <1>2, <1>3
<1>10. CheckEntry(e, name = <<>>)
  BY <1>7, <1>8, <1>9 DEF CheckEntry
<1>11. name # <<>> => CheckName(name)
  BY <1>2 DEF CheckName
<1> QED BY <1>10, <1>11 DEF e

\* The tokens of the names up to a first name are those of the inodes shared before it.
LEMMA TokensCountUp ==
    ASSUME NEW t, IsFilesystem(t), NEW i \in 1..Count(t), TokenOf(t, NthName(t, i)) # 0,
           \A j \in 1..(i - 1) : TokenOf(t, NthName(t, j)) # TokenOf(t, NthName(t, i))
    PROVE  TokenOf(t, NthName(t, i)) = 1 + Cardinality({TokenOf(t, NthName(t, j)) : j \in 1..(i - 1)} \ {0})
<1> DEFINE name == NthName(t, i)
           n == t.number[name]
           S == Shared(t)
           E == Earlier(OrderOfShared(t), S, n)
           T == {TokenOf(t, NthName(t, j)) : j \in 1..(i - 1)} \ {0}
           f == [m \in E |-> Token(t, m)]
<1>0. /\ Count(t) \in Nat
      /\ \A j, k \in 1..Count(t) : Before(NthName(t, j), NthName(t, k)) <=> j < k
      /\ \A j \in 1..Count(t) : NthName(t, j) \in NamesOf(t)
      /\ \A m \in NamesOf(t) : \E j \in 1..Count(t) : NthName(t, j) = m
  BY NthNameFacts DEF Count
<1>1. /\ \A m : m \notin S => Token(t, m) = 0
      /\ \A m \in S : Token(t, m) # 0
      /\ \A k, m \in S : Token(t, k) = Token(t, m) => k = m
      /\ \A m \in S : Token(t, m) = Cardinality(Earlier(OrderOfShared(t), S, m)) + 1
      /\ \A m \in S : IsFiniteSet(Earlier(OrderOfShared(t), S, m))
  BY TokenFacts
<1>2. n \in S
  BY <1>1 DEF TokenOf
<1>3. \A m \in S :
        /\ FirstName(t, m) \in NamesOf(t) /\ t.number[FirstName(t, m)] = m
        /\ \A a \in NamesOf(t) : t.number[a] = m => a = FirstName(t, m) \/ Before(FirstName(t, m), a)
  BY FirstNameFacts
<1>4. name \in NamesOf(t)
  BY <1>0
<1>5. name = FirstName(t, n)
  <2> SUFFICES ASSUME name # FirstName(t, n) PROVE FALSE
    OBVIOUS
  <2>1. Before(FirstName(t, n), name) /\ FirstName(t, n) \in NamesOf(t) /\ t.number[FirstName(t, n)] = n
    BY <1>2, <1>3, <1>4
  <2>2. PICK j \in 1..Count(t) : NthName(t, j) = FirstName(t, n)
    BY <2>1, <1>0
  <2>3. j < i
    BY <2>1, <2>2, <1>0
  <2>4. j \in 1..(i - 1)
    BY <2>3, <1>0
  <2>5. TokenOf(t, NthName(t, j)) = TokenOf(t, name)
    BY <2>1, <2>2 DEF TokenOf
  <2> QED BY <2>4, <2>5
<1>6. \A m \in S : m \in E <=> Before(FirstName(t, m), name)
  <2> SUFFICES ASSUME NEW m \in S PROVE m \in E <=> Before(FirstName(t, m), name)
    OBVIOUS
  <2>1. <<m, n>> \in OrderOfShared(t) <=> Before(FirstName(t, m), FirstName(t, n))
    BY <1>2, SharedAreOrdered
  <2> QED BY <2>1, <1>5 DEF Earlier
<1>7. E \subseteq S
  BY DEF Earlier
<1>8. \A j \in 1..(i - 1) : j \in 1..Count(t) /\ j < i
  BY <1>0
<1>9. ASSUME NEW m \in E PROVE Token(t, m) \in T
  <2>1. m \in S /\ FirstName(t, m) \in NamesOf(t) /\ t.number[FirstName(t, m)] = m /\ Before(FirstName(t, m), name)
    BY <1>3, <1>6, <1>7
  <2>2. PICK j \in 1..Count(t) : NthName(t, j) = FirstName(t, m)
    BY <2>1, <1>0
  <2>3. j \in 1..(i - 1)
    <3>1. j < i
      BY <2>1, <2>2, <1>0
    <3> QED BY <3>1, <1>0
  <2>4. TokenOf(t, NthName(t, j)) = Token(t, m) /\ Token(t, m) # 0
    BY <2>1, <2>2, <1>1 DEF TokenOf
  <2> QED BY <2>3, <2>4
<1>10. ASSUME NEW x \in T PROVE \E m \in E : Token(t, m) = x
  <2>1. PICK j \in 1..(i - 1) : x = TokenOf(t, NthName(t, j)) /\ x # 0
    OBVIOUS
  <2> DEFINE a == NthName(t, j)
             m == t.number[a]
  <2>2. m \in S /\ x = Token(t, m)
    BY <2>1, <1>1 DEF TokenOf
  <2>3. a \in NamesOf(t) /\ Before(a, name)
    BY <1>0, <1>8
  <2>4. FirstName(t, m) = a \/ Before(FirstName(t, m), a)
    BY <2>2, <2>3, <1>3
  <2>5. FirstName(t, m) \in Seq(Nat) /\ a \in Seq(Nat) /\ name \in Seq(Nat)
    BY <2>2, <2>3, <1>3, <1>4, TreeFacts
  <2>6. Before(FirstName(t, m), name)
    BY <2>3, <2>4, <2>5, BeforeIsTransitive
  <2> QED BY <2>2, <2>6, <1>6
<1>11. f \in Bijection(E, T)
  <2>1. \A m \in E : f[m] = Token(t, m)
    OBVIOUS
  <2>2. f \in [E -> T]
    BY <1>9
  <2>3. \A k, m \in E : f[k] = f[m] => k = m
    BY <2>1, <1>1, <1>7
  <2>4. \A x \in T : \E m \in E : f[m] = x
    BY <2>1, <1>10
  <2> HIDE DEF f, E, T
  <2> QED BY <2>2, <2>3, <2>4 DEF Bijection, Injection, Surjection, IsInjective
<1>12. Cardinality(E) = Cardinality(T) /\ Cardinality(E) \in Nat
  <2>1. IsFiniteSet(E)
    BY <1>1, <1>2
  <2>2. ExistsBijection(E, T)
    BY <1>11 DEF ExistsBijection
  <2> HIDE DEF f, E, T
  <2> QED BY <2>1, <2>2, FS_Bijection, FS_CardinalityType
<1>13. TokenOf(t, name) = Cardinality(E) + 1
  BY <1>1, <1>2 DEF TokenOf
<1> QED BY <1>12, <1>13

LEMMA ListableParses ==
    ASSUME NEW t, IsListable(t), NEW text, text = TextOf(t)
    PROVE  Parses(text) /\ Parse(text) = Assemble(t)
<1> DEFINE n == Count(t)
           m == Assemble(t)
<1>1. IsFilesystem(t)
  BY DEF IsListable
<1>2. n \in Nat /\ Len(text) = n + 2 /\ \E S : text \in Seq(S)
  BY <1>1, TextFacts
<1>3. /\ text[1] = Object(EntryOf(t, <<>>), TRUE)
      /\ \A i \in 1..n : text[i + 1] = Object(EntryOf(t, NthName(t, i)), FALSE)
      /\ text[n + 2] = Trailer
  BY <1>1, TextFacts
<1>4. Parse(text) = m
  BY <1>1, WholeReads
<1>5. /\ \A i, j \in 1..n : Before(NthName(t, i), NthName(t, j)) <=> i < j
      /\ \A i \in 1..n : NthName(t, i) \in NamesOf(t)
      /\ \A name \in NamesOf(t) : \E i \in 1..n : NthName(t, i) = name
  BY <1>1, NthNameFacts DEF Count
<1>6. \A i \in 1..n : NthName(t, i) \in DOMAIN t.number /\ NthName(t, i) # <<>>
  BY <1>1, <1>5, TreeFacts
<1>7. ReadCanonical(Head(text), TRUE)
  <2>0. Head(text) = text[1]
    BY <1>2
  <2>1. Head(text) = Object(EntryOf(t, <<>>), TRUE)
    BY <2>0, <1>3
  <2>2. ReadEntry(Head(text)) = EntryOf(t, <<>>)
    BY <2>1, <1>1, ReadBack, TreeFacts
  <2>3. {"type", "uid", "mTimeNSec", "mediaType"} \subseteq DOMAIN Head(text)
    BY <2>1 DEF Object, Keys
  <2> QED BY <2>1, <2>2, <2>3 DEF ReadCanonical
<1>8. ASSUME NEW k \in 2..(Len(text) - 1) PROVE ReadCanonical(text[k], FALSE)
  <2>1. k - 1 \in 1..n /\ (k - 1) + 1 = k
    BY <1>2
  <2>2. text[k] = Object(EntryOf(t, NthName(t, k - 1)), FALSE)
    BY <1>3, <2>1
  <2>3. ReadEntry(text[k]) = EntryOf(t, NthName(t, k - 1))
    BY <2>1, <2>2, <1>1, <1>6, ReadBack
  <2>4. {"type", "uid", "mTimeNSec"} \subseteq DOMAIN text[k] /\ "mediaType" \notin DOMAIN text[k]
    BY <2>2 DEF Object, Keys
  <2> QED BY <2>2, <2>3, <2>4 DEF ReadCanonical
<1>9. m = [root |-> EntryOf(t, <<>>), entries |-> [i \in 1..n |-> EntryOf(t, NthName(t, i))]]
  BY <1>1, AssembleFacts DEF Count
<1>10. m.root = EntryOf(t, <<>>) /\ DOMAIN m.entries = 1..n /\ \A i \in 1..n : m.entries[i] = EntryOf(t, NthName(t, i))
  BY <1>9
<1> HIDE DEF m
<1>11. CheckEntry(m.root, TRUE)
  <2>1. <<>> \in DOMAIN t.number
    BY <1>1, TreeFacts
  <2>2. CheckEntry(EntryOf(t, <<>>), <<>> = <<>>)
    BY <2>1, EntriesPass
  <2> QED BY <2>2, <1>10
<1> DEFINE Passes(i, e, seen) ==
             /\ CheckName(e.name) /\ CheckEntry(e, FALSE)
             /\ i > 1 => Before(m.entries[i - 1].name, e.name)
             /\ Len(e.name) > 1 => \E d \in seen : d.type = "dir" /\ d.name = Front(e.name)
             /\ e.token # 0 =>
                   IF \E s \in seen : s.token = e.token
                   THEN \A s \in seen : s.token = e.token => SameInode(s, e)
                   ELSE e.token = 1 + Cardinality({s.token : s \in seen} \ {0})
<1>12. ASSUME NEW i \in 1..n, NEW e, e = m.entries[i], NEW seen, seen = {m.entries[j] : j \in 1..(i - 1)}
       PROVE  Passes(i, e, seen)
  <2> DEFINE name == NthName(t, i)
  <2>1. /\ e = EntryOf(t, name) /\ name \in DOMAIN t.number /\ name # <<>> /\ name \in NamesOf(t)
        /\ \A j \in 1..(i - 1) : j \in 1..n /\ j < i /\ m.entries[j] = EntryOf(t, NthName(t, j))
    BY <1>2, <1>5, <1>6, <1>10, <1>12
  <2>2. \A a : EntryOf(t, a).name = a /\ EntryOf(t, a).token = TokenOf(t, a) /\ EntryOf(t, a).type = InodeAt(t, a).type
    BY EntryShape
  <2> HIDE DEF name
  <2>3. CheckName(e.name) /\ CheckEntry(e, FALSE)
    <3>1. CheckEntry(EntryOf(t, name), name = <<>>) /\ CheckName(name)
      BY <2>1, EntriesPass
    <3>2. (name = <<>>) = FALSE
      BY <2>1
    <3>3. CheckEntry(EntryOf(t, name), FALSE)
      BY <3>1, <3>2
    <3> QED BY <2>1, <2>2, <3>1, <3>3
  <2>4. ASSUME i > 1 PROVE Before(m.entries[i - 1].name, e.name)
    <3>1. i - 1 \in 1..n /\ i - 1 < i
      BY <2>4, <1>2
    <3>2. Before(NthName(t, i - 1), NthName(t, i))
      BY <3>1, <1>5
    <3> QED BY <3>1, <3>2, <1>10, <2>1, <2>2 DEF name
  <2>5. ASSUME Len(e.name) > 1 PROVE \E d \in seen : d.type = "dir" /\ d.name = Front(e.name)
    <3> DEFINE up == Front(name)
    <3>1. Len(name) > 1 /\ name \in Seq(Nat)
      BY <2>1, <2>2, <2>5, <1>1, TreeFacts
    <3>2. up \in DOMAIN t.number /\ InodeAt(t, up).type = "dir"
      BY <2>1, <3>1 DEF IsListable
    <3>3. up \in Seq(Nat) /\ Len(up) = Len(name) - 1 /\ \A j \in 1..Len(up) : up[j] = name[j]
      BY <3>1 DEF Front
    <3>4. up # <<>>
      BY <3>1, <3>3
    <3>5. Before(up, name)
      <4>1. Len(name) \in 1..Len(name) /\ Len(name) > Len(up)
        BY <3>1, <3>3
      <4>2. \A j \in 1..(Len(name) - 1) : j <= Len(up) /\ up[j] = name[j]
        BY <3>1, <3>3
      <4> HIDE DEF up
      <4> QED BY <4>1, <4>2 DEF Before
    <3>6. up \in NamesOf(t)
      BY <3>2, <3>4 DEF NamesOf
    <3> HIDE DEF up
    <3>7. PICK j \in 1..n : NthName(t, j) = up
      BY <3>6, <1>5
    <3>8. j < i
      BY <3>5, <3>7, <1>5 DEF name
    <3>9. j \in 1..(i - 1)
      BY <3>8, <1>2
    <3>10. EntryOf(t, up) \in seen
      BY <3>7, <3>9, <2>1, <1>12
    <3>11. EntryOf(t, up).type = "dir" /\ EntryOf(t, up).name = up
      BY <3>2, <2>2
    <3> QED BY <3>10, <3>11, <2>1, <2>2 DEF up
  <2>6. ASSUME NEW s \in seen, e.token # 0, s.token = e.token PROVE SameInode(s, e)
    <3>1. PICK j \in 1..(i - 1) : s = m.entries[j]
      BY <1>12
    <3> DEFINE a == NthName(t, j)
    <3>2. s = EntryOf(t, a)
      BY <2>1, <3>1
    <3>3. Token(t, t.number[a]) = Token(t, t.number[name]) /\ Token(t, t.number[name]) # 0
      BY <2>1, <2>2, <2>6, <3>2 DEF TokenOf
    <3>4. t.number[a] = t.number[name]
      <4>1. t.number[a] \in Shared(t) /\ t.number[name] \in Shared(t)
        BY <3>3, <1>1, TokenFacts
      <4> QED BY <4>1, <3>3, <1>1, TokenFacts
    <3>5. InodeAt(t, a) = InodeAt(t, name) /\ TokenOf(t, a) = TokenOf(t, name)
      BY <3>4 DEF InodeAt, TokenOf
    <3> HIDE DEF a
    <3>6. \A b, c : InodeAt(t, b) = InodeAt(t, c) /\ TokenOf(t, b) = TokenOf(t, c) =>
                    [EntryOf(t, b) EXCEPT !.name = <<>>] = [EntryOf(t, c) EXCEPT !.name = <<>>]
      <4> SUFFICES ASSUME NEW b, NEW c, InodeAt(t, b) = InodeAt(t, c), TokenOf(t, b) = TokenOf(t, c)
                   PROVE  [EntryOf(t, b) EXCEPT !.name = <<>>] = [EntryOf(t, c) EXCEPT !.name = <<>>]
        OBVIOUS
      <4> DEFINE x == EntryOf(t, b)
                 y == EntryOf(t, c)
      <4>1. \A a_1 \in {x, y} : a_1 = [name |-> a_1.name, type |-> a_1.type, mode |-> a_1.mode, owner |-> a_1.owner,
                mtime |-> a_1.mtime, size |-> a_1.size, sha256 |-> a_1.sha256, target |-> a_1.target,
                device |-> a_1.device, token |-> a_1.token, xattrs |-> a_1.xattrs]
        BY EntryShape
      <4>2. /\ x.type = y.type /\ x.mode = y.mode /\ x.owner = y.owner /\ x.mtime = y.mtime /\ x.size = y.size
            /\ x.sha256 = y.sha256 /\ x.target = y.target /\ x.device = y.device /\ x.token = y.token /\ x.xattrs = y.xattrs
        BY EntryShape
      <4> HIDE DEF x, y
      <4> QED BY <4>1, <4>2 DEF x, y
    <3>7. [EntryOf(t, a) EXCEPT !.name = <<>>] = [EntryOf(t, name) EXCEPT !.name = <<>>]
      BY <3>5, <3>6
    <3> QED BY <3>2, <3>7, <2>1 DEF SameInode
  <2>7. ASSUME e.token # 0, ~\E s \in seen : s.token = e.token
        PROVE  e.token = 1 + Cardinality({s.token : s \in seen} \ {0})
    <3>1. {s.token : s \in seen} = {TokenOf(t, NthName(t, j)) : j \in 1..(i - 1)}
      <4>1. \A j \in 1..(i - 1) : m.entries[j].token = TokenOf(t, NthName(t, j))
        BY <2>1, <2>2
      <4>2. {s.token : s \in seen} = {m.entries[j].token : j \in 1..(i - 1)}
        BY <1>12
      <4> QED BY <4>1, <4>2
    <3>2. \A j \in 1..(i - 1) : TokenOf(t, NthName(t, j)) # TokenOf(t, name)
      <4> SUFFICES ASSUME NEW j \in 1..(i - 1) PROVE TokenOf(t, NthName(t, j)) # TokenOf(t, name)
        OBVIOUS
      <4>1. m.entries[j] \in seen /\ m.entries[j].token = TokenOf(t, NthName(t, j))
        BY <1>12, <2>1, <2>2
      <4> QED BY <4>1, <2>1, <2>2, <2>7
    <3>3. i \in 1..Count(t) /\ TokenOf(t, NthName(t, i)) # 0
      BY <2>1, <2>2, <2>7 DEF name
    <3>4. TokenOf(t, NthName(t, i)) = 1 + Cardinality({TokenOf(t, NthName(t, j)) : j \in 1..(i - 1)} \ {0})
      BY <3>2, <3>3, <1>1, TokensCountUp DEF name
    <3> QED BY <3>1, <3>4, <2>1, <2>2 DEF name
  <2> QED BY <2>3, <2>4, <2>5, <2>6, <2>7
<1>13. Validate(m)
  <2>1. \A i \in 1..n : Passes(i, m.entries[i], {m.entries[j] : j \in 1..(i - 1)})
    <3> HIDE DEF Passes
    <3> QED BY <1>12
  <2> QED BY <1>10, <1>11, <2>1 DEF Validate
<1>14. Parses(text)
  <2>1. Len(text) >= 2 /\ text[Len(text)] = Trailer
    BY <1>2, <1>3
  <2>2. [root |-> ReadEntry(Head(text)), entries |-> [i \in 1..(Len(text) - 2) |-> ReadEntry(text[i + 1])]] = m
    BY <1>4 DEF Parse
  <2> QED BY <2>1, <2>2, <1>7, <1>8, <1>13 DEF Parses
<1> QED BY <1>4, <1>14 DEF m
\* What is beside an image is the list of its files, or a part of it.
FilesInv ==
    /\ FilesTypeOK
    /\ \A i \in {1, 2} :
          listing[i] = <<>> \/ \E k \in 1..Len(TextOf(disks[i])) : listing[i] = SubSeq(TextOf(disks[i]), 1, k)

LEMMA FilesInvInductive == FilesSpec => []FilesInv
<1>1. FilesInit => FilesInv
  BY DEF FilesInit, FilesInv, FilesTypeOK
<1>2. FilesInv /\ [FilesNext]_fileVars => FilesInv'
  <2> SUFFICES ASSUME FilesInv, [FilesNext]_fileVars PROVE FilesInv'
    OBVIOUS
  <2>1. CASE UNCHANGED fileVars
    BY <2>1 DEF FilesInv, FilesTypeOK, fileVars
  <2>2. CASE FilesNext
    <3>1. PICK i \in {1, 2} :
            /\ disks' = disks
            /\ \E k \in 1..Len(TextOf(disks[i])) : listing' = [listing EXCEPT ![i] = SubSeq(TextOf(disks[i]), 1, k)]
      BY <2>2 DEF FilesNext, WriteListing, TextOf
    <3>2. PICK k \in 1..Len(TextOf(disks[i])) : listing' = [listing EXCEPT ![i] = SubSeq(TextOf(disks[i]), 1, k)]
      BY <3>1
    <3>3. DOMAIN listing = {1, 2}
      BY DEF FilesInv, FilesTypeOK
    <3>4. /\ DOMAIN listing' = {1, 2} /\ listing'[i] = SubSeq(TextOf(disks[i]), 1, k)
          /\ \A j \in {1, 2} \ {i} : listing'[j] = listing[j]
      BY <3>2, <3>3
    <3>5. FilesTypeOK'
      BY <3>1, <3>4 DEF FilesInv, FilesTypeOK
    <3>6. \A j \in {1, 2} :
            listing'[j] = <<>> \/ \E c \in 1..Len(TextOf(disks[j])) : listing'[j] = SubSeq(TextOf(disks[j]), 1, c)
      BY <3>4 DEF FilesInv
    <3>7. \A j : TextOf(disks[j])' = TextOf(disks[j])
      BY <3>1 DEF TextOf
    <3> QED BY <3>1, <3>5, <3>6, <3>7 DEF FilesInv
  <2> QED BY <2>1, <2>2
<1> QED BY <1>1, <1>2, PTL DEF FilesSpec

LEMMA ReadsAsItsFiles ==
    ASSUME FilesInv, NEW i \in {1, 2}, Parses(listing[i])
    PROVE  IsFilesystem(disks[i]) /\ Parse(listing[i]) = Assemble(disks[i])
<1>1. IsFilesystem(disks[i])
  BY FilesAssumption DEF FilesInv, FilesTypeOK
<1>2. listing[i] # <<>>
  BY DEF Parses
<1>3. PICK k \in 1..Len(TextOf(disks[i])) : listing[i] = SubSeq(TextOf(disks[i]), 1, k)
  BY <1>2 DEF FilesInv
<1> QED BY <1>1, <1>3, WholeOrRefused

\* write_manifest keeps one list for each image, and each image its filesystem.
THEOREM FilesTypes == FilesSpec => []FilesTypeOK
<1>1. FilesInv => FilesTypeOK
  BY DEF FilesInv
<1> QED BY <1>1, FilesInvInductive, PTL

\* FileManifest::parse and compare, for every two filesystems: a list that reads back is
\* all of the filesystem it was written from, wherever a kill cut it, and two of them
\* compare equal exactly where the filesystems show the same.
THEOREM ListingIsTheFilesHolds == FilesSpec => []ListingIsTheFiles
<1>1. FilesInv => ListingIsTheFiles
  <2> SUFFICES ASSUME FilesInv PROVE ListingIsTheFiles
    OBVIOUS
  <2>1. \A i \in {1, 2} : Parses(listing[i]) => IsFilesystem(disks[i]) /\ Parse(listing[i]) = Assemble(disks[i])
    BY ReadsAsItsFiles
  <2>2. ASSUME \A i \in {1, 2} : Parses(listing[i])
        PROVE  IsEmpty(FilesDiff(Parse(listing[1]), Parse(listing[2]))) <=> Visible(disks[1]) = Visible(disks[2])
    <3>1. /\ IsFilesystem(disks[1]) /\ Parse(listing[1]) = Assemble(disks[1])
          /\ IsFilesystem(disks[2]) /\ Parse(listing[2]) = Assemble(disks[2])
      BY <2>1, <2>2
    <3> QED BY <3>1, DiffIsOfTheFiles
  <2> QED BY <2>1, <2>2 DEF ListingIsTheFiles
<1> QED BY <1>1, FilesInvInductive, PTL
-----------------------------------------------------------------------------
(* What a build says of itself *)

\* What differs of a name is in the difference of the lists.
LEMMA ChangesAreListed ==
    ASSUME NEW s, NEW t, IsFilesystem(s), IsFilesystem(t), NEW D, D = FilesDiff(Assemble(s), Assemble(t))
    PROVE  /\ D.added = DOMAIN t.number \ DOMAIN s.number /\ D.removed = DOMAIN s.number \ DOMAIN t.number
           /\ \A name \in DOMAIN s.number \cap DOMAIN t.number :
                LET X == ChangedFields(All(Assemble(s)), All(Assemble(t)), EntryOf(s, name), EntryOf(t, name)) IN
                X # {} => [name |-> name, fields |-> X] \in D.changed
           /\ D = [added |-> D.added, removed |-> D.removed, changed |-> D.changed]
<1> DEFINE L == All(Assemble(s))
           R == All(Assemble(t))
<1>1. L = {EntryOf(s, name) : name \in DOMAIN s.number} /\ R = {EntryOf(t, name) : name \in DOMAIN t.number}
  BY AssembleFacts
<1>2. \A u, m : EntryOf(u, m).name = m
  BY EntryShape
<1>3. {e.name : e \in L} = DOMAIN s.number /\ {e.name : e \in R} = DOMAIN t.number
  <2> HIDE DEF L, R
  <2> QED BY <1>1, <1>2
<1>4. D = [added |-> {e.name : e \in R} \ {e.name : e \in L}, removed |-> {e.name : e \in L} \ {e.name : e \in R},
           changed |-> {c \in UNION {{[name |-> e.name, fields |-> ChangedFields(L, R, e, o)] : o \in {o \in R : o.name = e.name}} : e \in L} :
                          c.fields # {}}]
  BY DEF FilesDiff
<1> HIDE DEF L, R
<1>5. ASSUME NEW name \in DOMAIN s.number \cap DOMAIN t.number,
             NEW X, X = ChangedFields(L, R, EntryOf(s, name), EntryOf(t, name)), X # {}
      PROVE  [name |-> name, fields |-> X] \in D.changed
  <2> DEFINE e == EntryOf(s, name)
             o == EntryOf(t, name)
             c == [name |-> name, fields |-> X]
  <2>1. e \in L /\ o \in R /\ e.name = name /\ o.name = name
    BY <1>1, <1>2
  <2>2. c = [name |-> e.name, fields |-> ChangedFields(L, R, e, o)] /\ c.fields # {}
    BY <2>1, <1>5
  <2> HIDE DEF e, o, c
  <2>3. c \in UNION {{[name |-> d.name, fields |-> ChangedFields(L, R, d, p)] : p \in {p \in R : p.name = d.name}} : d \in L}
    BY <2>1, <2>2
  <2>4. D.changed = {d \in UNION {{[name |-> d.name, fields |-> ChangedFields(L, R, d, p)] : p \in {p \in R : p.name = d.name}} : d \in L} :
                       d.fields # {}}
    BY <1>4
  <2>5. c \in D.changed
    BY <2>2, <2>3, <2>4
  <2> QED BY <2>5 DEF c
<1>6. D.added = DOMAIN t.number \ DOMAIN s.number /\ D.removed = DOMAIN s.number \ DOMAIN t.number
  BY <1>3, <1>4
<1>7. D = [added |-> D.added, removed |-> D.removed, changed |-> D.changed]
  BY <1>4
<1> QED BY <1>5, <1>6, <1>7 DEF L, R

\* Lists that agree but for the per-image file are of the same files, its content aside.
LEMMA AgreeMeansSame ==
    ASSUME NEW s, NEW t, IsFilesystem(s), IsFilesystem(t), FilesAgree(Assemble(s), Assemble(t))
    PROVE  SameBarShadow(s, t)
<1> DEFINE D == FilesDiff(Assemble(s), Assemble(t))
           X(name) == ChangedFields(All(Assemble(s)), All(Assemble(t)), EntryOf(s, name), EntryOf(t, name))
           rest(c) == IF c.name = Shadow THEN c.fields \ PerImageFields ELSE c.fields
           N == DOMAIN s.number \cap DOMAIN t.number
<1>1. /\ D.added = DOMAIN t.number \ DOMAIN s.number /\ D.removed = DOMAIN s.number \ DOMAIN t.number
      /\ \A name \in N : X(name) # {} => [name |-> name, fields |-> X(name)] \in D.changed
      /\ D = [added |-> D.added, removed |-> D.removed, changed |-> D.changed]
  BY ChangesAreListed
<1> HIDE DEF D, X
<1>2. WithoutPerImage(D) = [added |-> D.added, removed |-> D.removed,
                            changed |-> {c \in {[name |-> c.name, fields |-> rest(c)] : c \in D.changed} : c.fields # {}}]
  <2> DEFINE Z == {c \in {[name |-> c.name, fields |-> rest(c)] : c \in D.changed} : c.fields # {}}
  <2>1. WithoutPerImage(D) = [D EXCEPT !.changed = Z]
    BY DEF WithoutPerImage
  <2> HIDE DEF Z
  <2>2. [D EXCEPT !.changed = Z] = [added |-> D.added, removed |-> D.removed, changed |-> Z]
    BY <1>1
  <2> QED BY <2>1, <2>2 DEF Z
<1>3. /\ D.added = {} /\ D.removed = {}
      /\ {c \in {[name |-> c.name, fields |-> rest(c)] : c \in D.changed} : c.fields # {}} = {}
  <2>1. IsEmpty(WithoutPerImage(D))
    BY DEF FilesAgree, D
  <2> QED BY <1>2, <2>1 DEF IsEmpty
<1>4. \A c \in D.changed : rest(c) = {}
  <2> SUFFICES ASSUME NEW c \in D.changed, rest(c) # {} PROVE FALSE
    OBVIOUS
  <2> DEFINE d == [name |-> c.name, fields |-> rest(c)]
  <2>1. d \in {[name |-> b.name, fields |-> rest(b)] : b \in D.changed} /\ d.fields # {}
    OBVIOUS
  <2> HIDE DEF d, rest
  <2> QED BY <2>1, <1>3
<1>5. DOMAIN s.number = DOMAIN t.number /\ N = DOMAIN s.number
  BY <1>1, <1>3
<1>6. ASSUME NEW name \in N, name # Shadow PROVE VisibleAt(s, name) = VisibleAt(t, name)
  <2>1. X(name) = {}
    <3> SUFFICES ASSUME X(name) # {} PROVE FALSE
      OBVIOUS
    <3> DEFINE c == [name |-> name, fields |-> X(name)]
    <3>1. c \in D.changed /\ rest(c) = X(name)
      BY <1>1, <1>6
    <3> QED BY <3>1, <1>4
  <2> QED BY <2>1, NameTells DEF X
<1>7. ASSUME NEW name \in N, name = Shadow
      PROVE  /\ VisibleAt(s, name).links = VisibleAt(t, name).links
             /\ \A f \in {"type", "mode", "owner", "xattrs"} : VisibleAt(s, name).inode[f] = VisibleAt(t, name).inode[f]
  <2> DEFINE a == EntryOf(s, name)
             b == EntryOf(t, name)
             P == Siblings(All(Assemble(s)), a)
             Q == Siblings(All(Assemble(t)), b)
             f == InodeAt(s, name)
             g == InodeAt(t, name)
  <2>1. X(name) \subseteq PerImageFields
    <3> DEFINE c == [name |-> name, fields |-> X(name)]
    <3>1. CASE X(name) = {}
      BY <3>1
    <3>2. CASE X(name) # {}
      <4>1. c \in D.changed /\ rest(c) = X(name) \ PerImageFields
        BY <1>1, <1>7, <3>2
      <4> QED BY <4>1, <1>4
    <3> QED BY <3>1, <3>2
  <2>2. X(name) = {x \in OwnFields : a[x] # b[x]} \cup (IF P # Q THEN {"hardlinks"} ELSE {})
    BY DEF X, ChangedFields
  <2> HIDE DEF a, b, P, Q, f, g
  <2>3. \A x \in {"type", "mode", "owner", "xattrs"} : a[x] = b[x]
    BY <2>1, <2>2 DEF OwnFields, PerImageFields
  <2>4. P = Q
    BY <2>1, <2>2 DEF PerImageFields
  <2>5. a.type = b.type /\ a.mode = b.mode /\ a.owner = b.owner /\ a.xattrs = b.xattrs
    BY <2>3
  <2>6. /\ a.type = f.type /\ a.mode = (IF f.type = "lnk" THEN 0 ELSE f.mode) /\ a.owner = f.owner /\ a.xattrs = f.xattrs
        /\ b.type = g.type /\ b.mode = (IF g.type = "lnk" THEN 0 ELSE g.mode) /\ b.owner = g.owner /\ b.xattrs = g.xattrs
    BY EntryShape DEF a, b, f, g
  <2>7. /\ ShownAt(s, name) = [type |-> f.type, mode |-> IF f.type = "lnk" THEN 0 ELSE f.mode,
                               owner |-> f.owner, mtime |-> f.mtime, data |-> f.data, xattrs |-> f.xattrs]
        /\ ShownAt(t, name) = [type |-> g.type, mode |-> IF g.type = "lnk" THEN 0 ELSE g.mode,
                               owner |-> g.owner, mtime |-> g.mtime, data |-> g.data, xattrs |-> g.xattrs]
    BY <1>7, ShownAtShape DEF f, g
  <2>8. /\ VisibleAt(s, name).inode = ShownAt(s, name) /\ VisibleAt(t, name).inode = ShownAt(t, name)
        /\ VisibleAt(s, name).links = (IF f.type = "dir" THEN {} ELSE Links(s, s.number[name]))
        /\ VisibleAt(t, name).links = (IF g.type = "dir" THEN {} ELSE Links(t, t.number[name]))
    BY DEF VisibleAt, f, g
  <2>9. /\ f.type # "dir" => P = Links(s, s.number[name]) \ {name} /\ name \in Links(s, s.number[name])
        /\ g.type # "dir" => Q = Links(t, t.number[name]) \ {name} /\ name \in Links(t, t.number[name])
    BY <1>7, SiblingsFacts DEF P, Q, a, b, f, g
  <2>10. VisibleAt(s, name).links = VisibleAt(t, name).links
    <3>1. CASE f.type = "dir"
      BY <3>1, <2>5, <2>6, <2>8
    <3>2. CASE f.type # "dir"
      <4>1. f.type = g.type
        BY <2>5, <2>6
      <4>2. \A A, B : name \in A /\ name \in B /\ A \ {name} = B \ {name} => A = B
        OBVIOUS
      <4>3. Links(s, s.number[name]) = Links(t, t.number[name])
        BY <3>2, <4>1, <4>2, <2>4, <2>9
      <4> QED BY <4>1, <4>3, <2>8
    <3> QED BY <3>1, <3>2
  <2>11. \A x \in {"type", "mode", "owner", "xattrs"} : ShownAt(s, name)[x] = ShownAt(t, name)[x]
    <3>1. ShownAt(s, name).type = a.type /\ ShownAt(t, name).type = b.type
      BY <2>6, <2>7
    <3>2. ShownAt(s, name).mode = a.mode /\ ShownAt(t, name).mode = b.mode
      BY <2>6, <2>7
    <3>3. /\ ShownAt(s, name).owner = a.owner /\ ShownAt(t, name).owner = b.owner
          /\ ShownAt(s, name).xattrs = a.xattrs /\ ShownAt(t, name).xattrs = b.xattrs
      BY <2>6, <2>7
    <3> QED BY <3>1, <3>2, <3>3, <2>5
  <2> QED BY <2>8, <2>10, <2>11
<1>8. Visible(s) = [name \in DOMAIN s.number |-> VisibleAt(s, name)] /\ Visible(t) = [name \in DOMAIN t.number |-> VisibleAt(t, name)]
  BY VisibleShape
<1>9. /\ DOMAIN Visible(s) = DOMAIN s.number /\ DOMAIN Visible(t) = DOMAIN s.number
      /\ \A name \in N : Visible(s)[name] = VisibleAt(s, name) /\ Visible(t)[name] = VisibleAt(t, name)
  BY <1>5, <1>8
<1> HIDE DEF N
<1>10. ASSUME NEW n \in N
       PROVE  /\ Visible(s)[n].links = Visible(t)[n].links
              /\ IF n = Shadow THEN \A f \in {"type", "mode", "owner", "xattrs"} : Visible(s)[n].inode[f] = Visible(t)[n].inode[f]
                 ELSE Visible(s)[n].inode = Visible(t)[n].inode
  <2>1. CASE n = Shadow
    BY <2>1, <1>7, <1>9
  <2>2. CASE n # Shadow
    BY <2>2, <1>6, <1>9
  <2> QED BY <2>1, <2>2
<1> QED BY <1>5, <1>9, <1>10 DEF SameBarShadow

\* The password and the identity are in the filesystem, and it can still be listed.
LEMMA SpliceFacts ==
    ASSUME NEW t, IsFormatted(t), NEW id, NEW pw, NEW s, s = Splice(t, id, pw)
    PROVE  /\ IsListable(s) /\ Shadow \in DOMAIN s.number /\ IdentityName \in DOMAIN s.number
           /\ InodeAt(s, Shadow).data = <<pw>> /\ InodeAt(s, IdentityName).data = <<0, id>>
<1>1. /\ IsListable(t) /\ IsFilesystem(t) /\ Shadow \in DOMAIN t.number /\ IdentityName \in DOMAIN t.number
      /\ t.number[Shadow] # t.number[IdentityName]
      /\ InodeAt(t, Shadow).type = "reg" /\ InodeAt(t, IdentityName).type = "reg"
  BY DEF IsFormatted, IsListable
<1>2. /\ s.number = t.number
      /\ s.inode = [n \in DOMAIN t.inode |->
                  [t.inode[n] EXCEPT !.data = IF n = t.number[Shadow] THEN <<pw>>
                                              ELSE IF n = t.number[IdentityName] THEN <<0, id>> ELSE t.inode[n].data]]
  BY DEF Splice
<1>3. ASSUME NEW name \in DOMAIN t.number, NEW f, f = InodeAt(t, name)
      PROVE  InodeAt(s, name) =
               [type |-> f.type, mode |-> f.mode, owner |-> f.owner, mtime |-> f.mtime,
                data |-> IF t.number[name] = t.number[Shadow] THEN <<pw>>
                         ELSE IF t.number[name] = t.number[IdentityName] THEN <<0, id>> ELSE f.data,
                xattrs |-> f.xattrs]
  <2> DEFINE n == t.number[name]
             d == IF n = t.number[Shadow] THEN <<pw>> ELSE IF n = t.number[IdentityName] THEN <<0, id>> ELSE f.data
  <2>1. n \in DOMAIN t.inode /\ f = t.inode[n]
    BY <1>1, <1>3 DEF IsListable, InodeAt
  <2>2. f = [type |-> f.type, mode |-> f.mode, owner |-> f.owner, mtime |-> f.mtime, data |-> f.data, xattrs |-> f.xattrs]
    BY <1>1, <1>3 DEF IsFilesystem, InodeAt
  <2>3. InodeAt(s, name) = [f EXCEPT !.data = d]
    BY <1>2, <2>1 DEF InodeAt
  <2> HIDE DEF d
  <2>4. [f EXCEPT !.data = d] = [type |-> f.type, mode |-> f.mode, owner |-> f.owner, mtime |-> f.mtime, data |-> d, xattrs |-> f.xattrs]
    BY <2>2
  <2> QED BY <2>3, <2>4 DEF d
<1>4. \A name \in DOMAIN t.number :
        /\ InodeAt(s, name).type = InodeAt(t, name).type
        /\ \/ InodeAt(s, name).data = InodeAt(t, name).data
           \/ InodeAt(s, name).type = "reg" /\ InodeAt(s, name).data \in {<<pw>>, <<0, id>>}
  <2> SUFFICES ASSUME NEW name \in DOMAIN t.number
               PROVE  /\ InodeAt(s, name).type = InodeAt(t, name).type
                      /\ \/ InodeAt(s, name).data = InodeAt(t, name).data
                         \/ InodeAt(s, name).type = "reg" /\ InodeAt(s, name).data \in {<<pw>>, <<0, id>>}
    OBVIOUS
  <2>1. InodeAt(s, name).type = InodeAt(t, name).type
    BY <1>3
  <2>2. CASE t.number[name] = t.number[Shadow]
    <3>1. InodeAt(t, name).type = "reg"
      BY <2>2, <1>1 DEF InodeAt
    <3>2. InodeAt(s, name).data = <<pw>>
      BY <2>2, <1>3
    <3> QED BY <2>1, <3>1, <3>2
  <2>3. CASE t.number[name] # t.number[Shadow] /\ t.number[name] = t.number[IdentityName]
    <3>1. InodeAt(t, name).type = "reg"
      BY <2>3, <1>1 DEF InodeAt
    <3>2. InodeAt(s, name).data = <<0, id>>
      BY <2>3, <1>3
    <3> QED BY <2>1, <3>1, <3>2
  <2>4. CASE t.number[name] # t.number[Shadow] /\ t.number[name] # t.number[IdentityName]
    <3>1. InodeAt(s, name).data = InodeAt(t, name).data
      BY <2>4, <1>3
    <3> QED BY <2>1, <3>1
  <2> QED BY <2>2, <2>3, <2>4
<1>5. IsFilesystem(s)
  <2>1. IsFiniteSet(DOMAIN s.number) /\ <<>> \in DOMAIN s.number /\ InodeAt(s, <<>>).type = "dir"
    BY <1>1, <1>2, <1>4 DEF IsFilesystem, InodeAt
  <2>2. ASSUME NEW name \in DOMAIN s.number, NEW f, f = InodeAt(s, name)
        PROVE  /\ name \in Seq(Nat)
               /\ f = [type |-> f.type, mode |-> f.mode, owner |-> f.owner, mtime |-> f.mtime, data |-> f.data, xattrs |-> f.xattrs]
               /\ f.type \notin {"reg", "lnk", "chr", "blk"} => f.data = <<>>
    <3>1. name \in DOMAIN t.number
      BY <1>2
    <3>2. name \in Seq(Nat) /\ (InodeAt(t, name).type \notin {"reg", "lnk", "chr", "blk"} => InodeAt(t, name).data = <<>>)
      BY <1>1, <3>1 DEF IsFilesystem, InodeAt
    <3>3. f = [type |-> f.type, mode |-> f.mode, owner |-> f.owner, mtime |-> f.mtime, data |-> f.data, xattrs |-> f.xattrs]
      BY <1>3, <2>2, <3>1
    <3> QED BY <1>4, <2>2, <3>1, <3>2, <3>3
  <2> QED BY <2>1, <2>2 DEF IsFilesystem, InodeAt
<1>6. IsListable(s)
  <2>1. ASSUME NEW name \in DOMAIN s.number
        PROVE  /\ s.number[name] \in DOMAIN s.inode /\ name \notin Reserved
               /\ Len(name) > 1 => Front(name) \in DOMAIN s.number /\ InodeAt(s, Front(name)).type = "dir"
               /\ InodeAt(s, name).data # <<>> => Len(InodeAt(s, name).data) > 0
               /\ InodeAt(s, name).type \in {"lnk", "chr", "blk"} => InodeAt(s, name).data # <<>>
    <3>1. name \in DOMAIN t.number
      BY <1>2
    <3>2. /\ t.number[name] \in DOMAIN t.inode /\ name \notin Reserved
          /\ Len(name) > 1 => Front(name) \in DOMAIN t.number /\ InodeAt(t, Front(name)).type = "dir"
          /\ InodeAt(t, name).data # <<>> => Len(InodeAt(t, name).data) > 0
          /\ InodeAt(t, name).type \in {"lnk", "chr", "blk"} => InodeAt(t, name).data # <<>>
      BY <1>1, <3>1 DEF IsListable
    <3>3. s.number[name] \in DOMAIN s.inode
      BY <1>2, <3>2
    <3>4. Len(<<pw>>) > 0 /\ Len(<<0, id>>) > 0
      OBVIOUS
    <3>5. InodeAt(s, name).data # <<>> => Len(InodeAt(s, name).data) > 0
      BY <1>4, <3>1, <3>2, <3>4
    <3>6. Len(name) > 1 => Front(name) \in DOMAIN s.number /\ InodeAt(s, Front(name)).type = "dir"
      BY <1>2, <1>4, <3>2
    <3> QED BY <1>4, <3>1, <3>2, <3>3, <3>5, <3>6
  <2> QED BY <1>5, <2>1 DEF IsListable
<1>7. InodeAt(s, Shadow).data = <<pw>>
  BY <1>1, <1>3
<1>8. InodeAt(s, IdentityName).data = <<0, id>>
  BY <1>1, <1>3
<1> QED BY <1>1, <1>2, <1>6, <1>7, <1>8
-----------------------------------------------------------------------------
\* What a quiet comparison says, section by section.
LEMMA QuietIsEmpty ==
    ASSUME NEW X, IsQuiet(<<X>>)
    PROVE  X = {}
BY DEF IsQuiet, The

LEMMA PresentTells ==
    ASSUME NEW axes, NEW none, NEW a \in DOMAIN axes
    PROVE  /\ AxisOr(Present(axes, none), a, none) = axes[a]
           /\ a \in DOMAIN Present(axes, none) <=> axes[a] # none
<1>1. DOMAIN Present(axes, none) = {x \in DOMAIN axes : axes[x] # none}
  BY DEF Present
<1>2. CASE axes[a] = none
  BY <1>1, <1>2 DEF AxisOr
<1>3. CASE axes[a] # none
  <2>1. a \in DOMAIN Present(axes, none) /\ Present(axes, none)[a] = axes[a]
    BY <1>1, <1>3 DEF Present
  <2> QED BY <2>1, <1>3 DEF AxisOr
<1> QED BY <1>2, <1>3

LEMMA SourcesTell ==
    ASSUME NEW f, NEW g, IsQuiet(CompareSources(Present(f, NoPin), Present(g, NoPin))),
           NEW a \in DOMAIN f, a \in DOMAIN g
    PROVE  f[a] = g[a]
<1> DEFINE l == Present(f, NoPin)
           r == Present(g, NoPin)
           X == {x \in DOMAIN l \cup DOMAIN r : AxisOr(l, x, NoPin) # AxisOr(r, x, NoPin)}
<1>1. /\ AxisOr(l, a, NoPin) = f[a] /\ (a \in DOMAIN l <=> f[a] # NoPin)
      /\ AxisOr(r, a, NoPin) = g[a] /\ (a \in DOMAIN r <=> g[a] # NoPin)
  BY PresentTells
<1>2. CompareSources(l, r) = IF DOMAIN l \cup DOMAIN r = {} THEN <<>> ELSE <<X>>
  BY DEF CompareSources
<1> HIDE DEF l, r, X
<1>3. CASE a \notin DOMAIN l /\ a \notin DOMAIN r
  BY <1>1, <1>3
<1>4. CASE a \in DOMAIN l \cup DOMAIN r
  <2>1. CompareSources(l, r) = <<X>>
    BY <1>2, <1>4
  <2>2. X = {}
    BY <2>1, QuietIsEmpty DEF l, r
  <2>3. a \notin X
    BY <2>2
  <2> QED BY <2>3, <1>1, <1>4 DEF X
<1> QED BY <1>3, <1>4

LEMMA PatchesTell ==
    ASSUME NEW f, NEW g, IsQuiet(ComparePatches(Present(f, NoPatches), Present(g, NoPatches))),
           NEW a \in DOMAIN f, a \in DOMAIN g
    PROVE  Elements(f[a].series) = Elements(g[a].series) /\ f[a].commit = g[a].commit
<1> DEFINE l == Present(f, NoPatches)
           r == Present(g, NoPatches)
           X == {x \in DOMAIN l \cup DOMAIN r :
                   \/ Elements(AxisOr(l, x, NoPatches).series) # Elements(AxisOr(r, x, NoPatches).series)
                   \/ AxisOr(l, x, NoPatches).ref # AxisOr(r, x, NoPatches).ref
                   \/ AxisOr(l, x, NoPatches).commit # AxisOr(r, x, NoPatches).commit}
<1>1. /\ AxisOr(l, a, NoPatches) = f[a] /\ (a \in DOMAIN l <=> f[a] # NoPatches)
      /\ AxisOr(r, a, NoPatches) = g[a] /\ (a \in DOMAIN r <=> g[a] # NoPatches)
  BY PresentTells
<1>2. ComparePatches(l, r) = IF DOMAIN l \cup DOMAIN r = {} THEN <<>> ELSE <<X>>
  BY DEF ComparePatches
<1> HIDE DEF l, r, X
<1>3. CASE a \notin DOMAIN l /\ a \notin DOMAIN r
  BY <1>1, <1>3
<1>4. CASE a \in DOMAIN l \cup DOMAIN r
  <2>1. ComparePatches(l, r) = <<X>>
    BY <1>2, <1>4
  <2>2. X = {}
    BY <2>1, QuietIsEmpty DEF l, r
  <2>3. a \notin X
    BY <2>2
  <2> QED BY <2>3, <1>1, <1>4 DEF X
<1> QED BY <1>3, <1>4

\* Of two manifests that name the same packages, versions and digests, each is the other.
LEMMA LastIsTheOne ==
    ASSUME NEW a, ManifestsAgree(a, a)
    PROVE  /\ DOMAIN LastBy(a, PackageName) = {a[i].name : i \in DOMAIN a}
           /\ \A i \in DOMAIN a : LastBy(a, PackageName)[a[i].name] = a[i]
<1>1. LastBy(a, PackageName) =
        [k \in {a[i].name : i \in DOMAIN a} |->
            a[CHOOSE i \in DOMAIN a : a[i].name = k /\ \A j \in DOMAIN a : a[j].name = k => j <= i]]
  BY DEF LastBy, PackageName
<1>2. ASSUME NEW i \in DOMAIN a
      PROVE  (CHOOSE c \in DOMAIN a : a[c].name = a[i].name /\ \A j \in DOMAIN a : a[j].name = a[i].name => j <= c) = i
  <2>1. \A j \in DOMAIN a : a[j].name = a[i].name => j = i
    BY DEF ManifestsAgree
  <2>2. i <= i
    BY DEF ManifestsAgree
  <2> DEFINE P(c) == a[c].name = a[i].name /\ \A j \in DOMAIN a : a[j].name = a[i].name => j <= c
  <2>3. P(i)
    BY <2>1, <2>2
  <2>4. \A c \in DOMAIN a : P(c) => c = i
    BY <2>1
  <2>5. (CHOOSE c \in DOMAIN a : P(c)) = i
    <3> HIDE DEF P
    <3> QED BY <2>3, <2>4
  <2> QED BY <2>5
<1>3. ASSUME NEW i \in DOMAIN a PROVE LastBy(a, PackageName)[a[i].name] = a[i]
  <2> DEFINE k == a[i].name
             C == CHOOSE c \in DOMAIN a : a[c].name = k /\ \A j \in DOMAIN a : a[j].name = k => j <= c
  <2>1. k \in {a[j].name : j \in DOMAIN a}
    OBVIOUS
  <2>2. LastBy(a, PackageName)[k] = a[C]
    BY <1>1, <2>1
  <2>3. C = i
    BY <1>2
  <2> HIDE DEF C
  <2> QED BY <2>2, <2>3
<1>4. DOMAIN LastBy(a, PackageName) = {a[i].name : i \in DOMAIN a}
  BY <1>1
<1> QED BY <1>3, <1>4

LEMMA PackagesTell ==
    ASSUME NEW a, NEW b, ManifestsAgree(a, a), ManifestsAgree(b, b), ManifestsAgree(a, b), ComparePackages(a, b) = {}
    PROVE  a = b
<1> DEFINE l == LastBy(a, PackageName)
           r == LastBy(b, PackageName)
<1>1. /\ DOMAIN l = {a[i].name : i \in DOMAIN a} /\ \A i \in DOMAIN a : l[a[i].name] = a[i]
      /\ DOMAIN r = {b[i].name : i \in DOMAIN b} /\ \A i \in DOMAIN b : r[b[i].name] = b[i]
  BY LastIsTheOne
<1>2. OneSided(l, r) = {} /\ Versions(l, r) = {} /\ Rebuilt(l, r) = {}
  <2>1. ComparePackages(a, b) = OneSided(l, r) \cup Versions(l, r) \cup Rebuilt(l, r)
    BY DEF ComparePackages
  <2> HIDE DEF l, r
  <2> QED BY <2>1
<1> HIDE DEF l, r
<1>3. DOMAIN l = DOMAIN r
  BY <1>2 DEF OneSided
<1>4. \A n \in DOMAIN l : l[n].version = r[n].version /\ l[n].sha = r[n].sha
  <2>1. \A n \in DOMAIN l \cap DOMAIN r : l[n].version = r[n].version
    BY <1>2 DEF Versions
  <2>2. \A n \in DOMAIN l \cap DOMAIN r : ~(l[n].version = r[n].version /\ l[n].sha # r[n].sha)
    BY <1>2 DEF Rebuilt
  <2> QED BY <2>1, <2>2, <1>3
<1>5. ASSUME NEW i \in DOMAIN a, NEW j \in DOMAIN b, a[i].name = b[j].name PROVE a[i] = b[j]
  <2>1. a[i].name \in DOMAIN l /\ l[a[i].name] = a[i] /\ r[a[i].name] = b[j]
    BY <1>1, <1>5
  <2>2. a[i].version = b[j].version /\ a[i].sha = b[j].sha
    BY <2>1, <1>4
  <2>3. a[i] \in Elements(a) /\ b[j] \in Elements(b)
    BY DEF Elements
  <2> QED BY <2>2, <2>3, <1>5 DEF ManifestsAgree
<1>6. \A i \in DOMAIN a : \E j \in DOMAIN b : a[i].name = b[j].name
  <2>1. {a[i].name : i \in DOMAIN a} = {b[i].name : i \in DOMAIN b}
    BY <1>1, <1>3
  <2> QED BY <2>1
<1>7. \A j \in DOMAIN b : \E i \in DOMAIN a : a[i].name = b[j].name
  BY <1>1, <1>3
<1>8. Elements(a) = Elements(b)
  <2>1. \A i \in DOMAIN a : a[i] \in Elements(b)
    BY <1>5, <1>6 DEF Elements
  <2>2. \A j \in DOMAIN b : b[j] \in Elements(a)
    BY <1>5, <1>7 DEF Elements
  <2> QED BY <2>1, <2>2 DEF Elements
<1> QED BY <1>8 DEF ManifestsAgree
-----------------------------------------------------------------------------
\* A run, and what it leaves.
LEMMA MadeFacts ==
    ASSUME NEW l, NEW b, NEW h, NEW plan, NEW making, NEW pw, NEW flags,
           NEW tree, tree = Splice(making.tree, SystemIdentity(b, l), pw),
           NEW m, m = Made(l, b, h, plan, making, pw, flags)
    PROVE  /\ m.deb = making.deb /\ m.tar = making.tar /\ m.pkgs = plan.pkgs /\ m.plan = plan
           /\ m.listing = TextOf(tree) /\ m.host = h /\ m.password = pw
           /\ m.image.tree = tree /\ m.image.table = making.disk.table
           /\ m.outputs = Rows(m, flags)
<1> DEFINE image == [tree |-> tree, table |-> making.disk.table, free |-> making.disk.free]
           roots == IF flags.cached THEN <<>> ELSE <<ProvisionedRoot(b.suite, h.arch, making.root)>>
           facts == [deb |-> making.deb, tar |-> making.tar, pkgs |-> plan.pkgs, plan |-> plan, listing |-> TextOf(tree),
                     disk |-> making.disk, host |-> h, password |-> pw, cached |-> flags.cached, image |-> image,
                     roots |-> roots, outputs |-> {}]
<1> DEFINE R == Rows(facts, flags)
<1>1. m = [facts EXCEPT !.outputs = R]
  BY DEF Made, TextOf
<1>2. /\ facts.deb = making.deb /\ facts.tar = making.tar /\ facts.pkgs = plan.pkgs /\ facts.plan = plan /\ facts.roots = roots
  OBVIOUS
<1> HIDE DEF R, image, roots
<1>3. m = [deb |-> making.deb, tar |-> making.tar, pkgs |-> plan.pkgs, plan |-> plan, listing |-> TextOf(tree),
           disk |-> making.disk, host |-> h, password |-> pw, cached |-> flags.cached, image |-> image,
           roots |-> roots, outputs |-> R]
  BY <1>1
<1>4. R = Rows(m, flags)
  <2>1. m.deb = facts.deb /\ m.tar = facts.tar /\ m.pkgs = facts.pkgs /\ m.plan = facts.plan /\ m.roots = facts.roots
    BY <1>2, <1>3
  <2> HIDE DEF facts
  <2> QED BY <2>1 DEF R, Rows
<1>5. image.tree = tree /\ image.table = making.disk.table
  BY DEF image
<1> QED BY <1>3, <1>4, <1>5

LEMMA RowFacts ==
    ASSUME NEW m, NEW flags
    PROVE  /\ Output("kernel", "image_deb", "deb", <<"deb", m.deb>>, FALSE) \in Rows(m, flags)
           /\ Output("rootfs", "tar", "tar", <<"tar", m.tar>>, FALSE) \in Rows(m, flags)
           /\ Output("rootfs", "manifest", "pkgs", <<"pkgs", m.pkgs>>, FALSE) \in Rows(m, flags)
           /\ Output("rootfs", "plan", "plan", <<"plan", m.plan>>, FALSE) \in Rows(m, flags)
           /\ PerImage("files-manifest", "files") \in Rows(m, flags)
           /\ \A o \in Rows(m, flags) :
                /\ o = Output(o.step, o.role, o.file, o.sha256, o.per_image)
                /\ o.file = "deb" => o.sha256 = <<"deb", m.deb>>
                /\ o.file = "tar" => o.sha256 = <<"tar", m.tar>>
                /\ o.file = "pkgs" => o.sha256 = <<"pkgs", m.pkgs>>
                /\ o.file = "plan" => o.sha256 = <<"plan", m.plan>>
                /\ IsDiskImage(o) <=> o.file \in Containers
                /\ o.file = "img" => KeepsRaw(flags)
                /\ o.file \in {"img.xz", "img.gz"} => flags.compress # "none" /\ o.file = ContainerOf(flags)
<1> DEFINE R == Rows(m, flags)
<1>1. /\ Output("kernel", "image_deb", "deb", <<"deb", m.deb>>, FALSE) \in R
      /\ Output("rootfs", "tar", "tar", <<"tar", m.tar>>, FALSE) \in R
      /\ Output("rootfs", "manifest", "pkgs", <<"pkgs", m.pkgs>>, FALSE) \in R
      /\ Output("rootfs", "plan", "plan", <<"plan", m.plan>>, FALSE) \in R
      /\ PerImage("files-manifest", "files") \in R
  BY DEF Rows
<1>2. ASSUME NEW o \in R
      PROVE  \/ o = Output("kernel", "image_deb", "deb", <<"deb", m.deb>>, FALSE)
             \/ o = Output("rootfs", "tar", "tar", <<"tar", m.tar>>, FALSE)
             \/ o = Output("rootfs", "manifest", "pkgs", <<"pkgs", m.pkgs>>, FALSE)
             \/ o = Output("rootfs", "plan", "plan", <<"plan", m.plan>>, FALSE)
             \/ o = PerImage("files-manifest", "files")
             \/ o = PerImage("image", "img") /\ KeepsRaw(flags)
             \/ o = PerImage("compressed", ContainerOf(flags)) /\ flags.compress # "none"
             \/ o = Output("image", "packaging-manifest", "roots", <<"roots", m.roots>>, FALSE)
  BY DEF Rows
<1>3. ContainerOf(flags) \in {"img.xz", "img.gz"}
  BY DEF ContainerOf
<1>4. ASSUME NEW o \in R
      PROVE  /\ o = Output(o.step, o.role, o.file, o.sha256, o.per_image)
             /\ o.file = "deb" => o.sha256 = <<"deb", m.deb>>
             /\ o.file = "tar" => o.sha256 = <<"tar", m.tar>>
             /\ o.file = "pkgs" => o.sha256 = <<"pkgs", m.pkgs>>
             /\ o.file = "plan" => o.sha256 = <<"plan", m.plan>>
             /\ IsDiskImage(o) <=> o.file \in Containers
             /\ o.file = "img" => KeepsRaw(flags)
             /\ o.file \in {"img.xz", "img.gz"} => flags.compress # "none" /\ o.file = ContainerOf(flags)
  <2>1. CASE o = Output("kernel", "image_deb", "deb", <<"deb", m.deb>>, FALSE)
    BY <2>1 DEF Output, IsDiskImage, Containers
  <2>2. CASE o = Output("rootfs", "tar", "tar", <<"tar", m.tar>>, FALSE)
    BY <2>2 DEF Output, IsDiskImage, Containers
  <2>3. CASE o = Output("rootfs", "manifest", "pkgs", <<"pkgs", m.pkgs>>, FALSE)
    BY <2>3 DEF Output, IsDiskImage, Containers
  <2>4. CASE o = Output("rootfs", "plan", "plan", <<"plan", m.plan>>, FALSE)
    BY <2>4 DEF Output, IsDiskImage, Containers
  <2>5. CASE o = PerImage("files-manifest", "files")
    BY <2>5 DEF Output, PerImage, IsDiskImage, Containers
  <2>6. CASE o = PerImage("image", "img") /\ KeepsRaw(flags)
    BY <2>6 DEF Output, PerImage, IsDiskImage, Containers
  <2>7. CASE o = PerImage("compressed", ContainerOf(flags)) /\ flags.compress # "none"
    BY <2>7, <1>3 DEF Output, PerImage, IsDiskImage, Containers
  <2>8. CASE o = Output("image", "packaging-manifest", "roots", <<"roots", m.roots>>, FALSE)
    BY <2>8 DEF Output, IsDiskImage, Containers
  <2> QED BY <1>2, <2>1, <2>2, <2>3, <2>4, <2>5, <2>6, <2>7, <2>8
<1> QED BY <1>1, <1>4
-----------------------------------------------------------------------------
\* What the pins of a record say of the lock it was made from.
LEMMA MediaTell ==
    ASSUME NEW l, NEW k,
           NEW x, x = IF Has(MediaAccelProvenance(l)) THEN The(MediaAccelProvenance(l)) ELSE [base |-> NoPin, graft |-> NoPin],
           NEW y, y = IF Has(MediaAccelProvenance(k)) THEN The(MediaAccelProvenance(k)) ELSE [base |-> NoPin, graft |-> NoPin],
           x.base = y.base, x.graft = y.graft
    PROVE  MediaAccelProvenance(l) = MediaAccelProvenance(k)
<1>1. \A o : Has(MediaAccelProvenance(o)) <=> o.git["ffmpeg"] # <<>>
  BY DEF MediaAccelProvenance, Has
<1>2. \A o : o.git["ffmpeg"] # <<>> =>
        MediaAccelProvenance(o) = <<[base |-> Pinned(o.git["ffmpeg"]), graft |-> Pinned(o.git["graft"])]>>
  BY DEF MediaAccelProvenance
<1>3. \A o : o.git["ffmpeg"] = <<>> => MediaAccelProvenance(o) = <<>>
  BY DEF MediaAccelProvenance
<1>4. \A o : o # <<>> => Pinned(o) # NoPin
  BY DEF Pinned, NoPin, SourcePin, RefOf, Has
<1>5. l.git["ffmpeg"] # <<>> => x = [base |-> Pinned(l.git["ffmpeg"]), graft |-> Pinned(l.git["graft"])]
  BY <1>1, <1>2 DEF The
<1>6. k.git["ffmpeg"] # <<>> => y = [base |-> Pinned(k.git["ffmpeg"]), graft |-> Pinned(k.git["graft"])]
  BY <1>1, <1>2 DEF The
<1>7. (l.git["ffmpeg"] = <<>> => x.base = NoPin) /\ (k.git["ffmpeg"] = <<>> => y.base = NoPin)
  BY <1>1
<1>8. CASE l.git["ffmpeg"] = <<>>
  <2>1. k.git["ffmpeg"] = <<>>
    BY <1>4, <1>6, <1>7, <1>8
  <2> QED BY <2>1, <1>3, <1>8
<1>9. CASE l.git["ffmpeg"] # <<>>
  <2>1. k.git["ffmpeg"] # <<>>
    BY <1>4, <1>5, <1>7, <1>9
  <2>2. /\ Pinned(l.git["ffmpeg"]) = Pinned(k.git["ffmpeg"])
        /\ Pinned(l.git["graft"]) = Pinned(k.git["graft"])
    BY <2>1, <1>5, <1>6, <1>9
  <2> QED BY <2>1, <2>2, <1>2, <1>9
<1> QED BY <1>8, <1>9

LEMMA PinParts ==
    ASSUME NEW a, NEW b, NEW c, NEW d, SourcePin(a, b) = SourcePin(c, d)
    PROVE  a = c /\ b = d
<1>1. SourcePin(a, b).ref = a /\ SourcePin(a, b).commit = b /\ SourcePin(c, d).ref = c /\ SourcePin(c, d).commit = d
  BY DEF SourcePin
<1> QED BY <1>1

LEMMA OneInAnyOrder ==
    ASSUME NEW a, NEW c, [a EXCEPT !.series = Elements(a.series)] = [c EXCEPT !.series = Elements(c.series)]
    PROVE  InAnyOrder(<<a>>) = InAnyOrder(<<c>>)
<1>1. DOMAIN <<a>> = 1..1 /\ DOMAIN <<c>> = 1..1
  OBVIOUS
<1>2. \A i \in 1..1 : <<a>>[i] = a /\ <<c>>[i] = c
  OBVIOUS
<1>3. InAnyOrder(<<a>>) = [i \in 1..1 |-> [<<a>>[i] EXCEPT !.series = Elements(<<a>>[i].series)]]
  BY <1>1 DEF InAnyOrder
<1>4. InAnyOrder(<<c>>) = [i \in 1..1 |-> [<<c>>[i] EXCEPT !.series = Elements(<<c>>[i].series)]]
  BY <1>1 DEF InAnyOrder
<1>5. \A i \in 1..1 : [<<a>>[i] EXCEPT !.series = Elements(<<a>>[i].series)] = [<<c>>[i] EXCEPT !.series = Elements(<<c>>[i].series)]
  <2> SUFFICES ASSUME NEW i \in 1..1
               PROVE  [<<a>>[i] EXCEPT !.series = Elements(<<a>>[i].series)] = [<<c>>[i] EXCEPT !.series = Elements(<<c>>[i].series)]
    OBVIOUS
  <2>1. <<a>>[i] = a /\ <<c>>[i] = c
    BY <1>2
  <2> QED BY <2>1
<1> QED BY <1>3, <1>4, <1>5

\* An app that is built from a packaging tree is built on an SDK.
IsAppLock(l) ==
    /\ Has(l.git["packaging"]) \/ Has(l.nuget) => Has(l.sdk)
    /\ Has(l.sdk) => Has(l.git["app"])

AppOf(l) ==
    [ref |-> The(l.git["app"]).ref, commit |-> The(l.git["app"]).commit,
     series |-> SeriesOf(l.patches["apppatches"]), patches_commit |-> CommitOf(l.patches["apppatches"]),
     packaging_ref |-> RefOf(l.git["packaging"]), packaging_commit |-> CommitOf(l.git["packaging"]),
     sdk |-> IF Has(l.sdk) THEN <<The(l.sdk).version>> ELSE <<>>, nuget |-> l.nuget]

\* What RecordPins says of a record's app.
AppPinsOf(apps) ==
    IF Has(apps)
    THEN AppPins(SourcePin(<<The(apps).ref>>, <<The(apps).commit>>),
                 SourcePin(The(apps).packaging_ref, The(apps).packaging_commit), The(apps).sdk, The(apps).nuget)
    ELSE AppPins(NoPin, NoPin, <<>>, <<>>)
AppPatchesOf(apps) ==
    IF Has(apps) /\ Has(The(apps).patches_commit) THEN PatchAxis(The(apps).series, <<>>, The(apps).patches_commit) ELSE NoPatches

LEMMA AppsTell ==
    ASSUME NEW l, NEW k, IsAppLock(l), IsAppLock(k),
           NEW x, x = AppPinsOf(AppSources(l)), NEW y, y = AppPinsOf(AppSources(k)),
           x.app = y.app, x.packaging = y.packaging, x.sdk = y.sdk, x.nuget = y.nuget,
           NEW s, s = AppPatchesOf(AppSources(l)), NEW t, t = AppPatchesOf(AppSources(k)),
           Elements(s.series) = Elements(t.series), s.commit = t.commit
    PROVE  InAnyOrder(AppSources(l)) = InAnyOrder(AppSources(k))
<1>1. \A o : /\ o.git["app"] = <<>> => AppSources(o) = <<>>
             /\ o.git["app"] # <<>> => AppSources(o) = <<AppOf(o)>>
  BY DEF AppSources, AppOf
<1>2. \A o : /\ o.git["app"] = <<>> => AppPinsOf(AppSources(o)).app = NoPin
             /\ o.git["app"] # <<>> => AppPinsOf(AppSources(o)).app = SourcePin(<<The(o.git["app"]).ref>>, <<The(o.git["app"]).commit>>)
  <2> SUFFICES ASSUME NEW o
               PROVE  /\ o.git["app"] = <<>> => AppPinsOf(AppSources(o)).app = NoPin
                      /\ o.git["app"] # <<>> => AppPinsOf(AppSources(o)).app = SourcePin(<<The(o.git["app"]).ref>>, <<The(o.git["app"]).commit>>)
    OBVIOUS
  <2>1. CASE o.git["app"] = <<>>
    BY <2>1, <1>1 DEF AppPinsOf, AppPins, Has
  <2>2. CASE o.git["app"] # <<>>
    <3>1. Has(AppSources(o)) /\ The(AppSources(o)) = AppOf(o)
      BY <2>2, <1>1 DEF Has, The
    <3>2. AppOf(o).ref = The(o.git["app"]).ref /\ AppOf(o).commit = The(o.git["app"]).commit
      BY DEF AppOf
    <3> QED BY <2>2, <3>1, <3>2 DEF AppPinsOf, AppPins
  <2> QED BY <2>1, <2>2
<1>3. \A a, c : SourcePin(<<a>>, <<c>>) # NoPin
  BY DEF SourcePin, NoPin
<1>4. CASE l.git["app"] = <<>>
  <2>1. k.git["app"] = <<>>
    BY <1>2, <1>3, <1>4
  <2> QED BY <2>1, <1>1, <1>4
<1>5. CASE l.git["app"] # <<>>
  <2>1. k.git["app"] # <<>>
    BY <1>2, <1>3, <1>5
  <2> DEFINE a == AppOf(l)
             c == AppOf(k)
  <2>2. AppSources(l) = <<a>> /\ AppSources(k) = <<c>>
    BY <2>1, <1>1, <1>5
  <2>3. \A o : AppOf(o) = [ref |-> AppOf(o).ref, commit |-> AppOf(o).commit, series |-> AppOf(o).series,
                           patches_commit |-> AppOf(o).patches_commit, packaging_ref |-> AppOf(o).packaging_ref,
                           packaging_commit |-> AppOf(o).packaging_commit, sdk |-> AppOf(o).sdk, nuget |-> AppOf(o).nuget]
    BY DEF AppOf
  <2>4. \A o : /\ AppOf(o).packaging_ref = RefOf(o.git["packaging"]) /\ AppOf(o).packaging_commit = CommitOf(o.git["packaging"])
               /\ AppOf(o).sdk = (IF Has(o.sdk) THEN <<The(o.sdk).version>> ELSE <<>>) /\ AppOf(o).nuget = o.nuget
               /\ AppOf(o).patches_commit = CommitOf(o.patches["apppatches"]) /\ AppOf(o).series = SeriesOf(o.patches["apppatches"])
    BY DEF AppOf
  <2> HIDE DEF a, c
  <2>5. /\ x = AppPins(SourcePin(<<a.ref>>, <<a.commit>>), SourcePin(a.packaging_ref, a.packaging_commit), a.sdk, a.nuget)
        /\ y = AppPins(SourcePin(<<c.ref>>, <<c.commit>>), SourcePin(c.packaging_ref, c.packaging_commit), c.sdk, c.nuget)
    BY <2>2 DEF AppPinsOf, Has, The
  <2>6. a.ref = c.ref /\ a.commit = c.commit
    <3>1. x.app = SourcePin(<<a.ref>>, <<a.commit>>) /\ y.app = SourcePin(<<c.ref>>, <<c.commit>>)
      BY <2>5 DEF AppPins
    <3>2. SourcePin(<<a.ref>>, <<a.commit>>) = SourcePin(<<c.ref>>, <<c.commit>>)
      BY <3>1
    <3>3. <<a.ref>> = <<c.ref>> /\ <<a.commit>> = <<c.commit>>
      BY <3>2, PinParts
    <3>4. <<a.ref>>[1] = a.ref /\ <<c.ref>>[1] = c.ref /\ <<a.commit>>[1] = a.commit /\ <<c.commit>>[1] = c.commit
      OBVIOUS
    <3> QED BY <3>3, <3>4
  <2>7. a.sdk = c.sdk
    <3>1. x.sdk = SourcePin(a.sdk, <<>>) /\ y.sdk = SourcePin(c.sdk, <<>>)
      BY <2>5 DEF AppPins
    <3>2. SourcePin(a.sdk, <<>>) = SourcePin(c.sdk, <<>>)
      BY <3>1
    <3> QED BY <3>2, PinParts
  <2>8. a.packaging_ref = c.packaging_ref /\ a.packaging_commit = c.packaging_commit /\ a.nuget = c.nuget
    <3>1. CASE Has(a.sdk)
      <4>1. /\ x.packaging = SourcePin(a.packaging_ref, a.packaging_commit) /\ y.packaging = SourcePin(c.packaging_ref, c.packaging_commit)
            /\ x.nuget = SourcePin(<<"manifest">>, a.nuget) /\ y.nuget = SourcePin(<<"manifest">>, c.nuget)
        BY <2>5, <2>7, <3>1 DEF AppPins
      <4>2. /\ SourcePin(a.packaging_ref, a.packaging_commit) = SourcePin(c.packaging_ref, c.packaging_commit)
            /\ SourcePin(<<"manifest">>, a.nuget) = SourcePin(<<"manifest">>, c.nuget)
        BY <4>1
      <4> QED BY <4>2, PinParts
    <3>2. CASE ~Has(a.sdk)
      <4>1. ~Has(l.sdk) /\ ~Has(k.sdk)
        <5>1. a.sdk = <<>> /\ c.sdk = <<>>
          BY <2>7, <3>2 DEF Has
        <5>2. \A v : <<v>> # <<>>
          OBVIOUS
        <5>3. \A o : Has(o.sdk) => AppOf(o).sdk # <<>>
          BY <2>4, <5>2
        <5> QED BY <5>1, <5>3 DEF a, c
      <4>2. l.git["packaging"] = <<>> /\ k.git["packaging"] = <<>> /\ l.nuget = <<>> /\ k.nuget = <<>>
        BY <4>1 DEF IsAppLock, Has
      <4> QED BY <2>4, <4>2 DEF RefOf, CommitOf, Has, a, c
    <3> QED BY <3>1, <3>2
  <2>9. Elements(a.series) = Elements(c.series) /\ a.patches_commit = c.patches_commit
    <3>1. \A o : LET d == AppOf(o)
                     z == AppPatchesOf(<<d>>) IN
                 z.series = d.series /\ z.commit = d.patches_commit
      <4> SUFFICES ASSUME NEW o, NEW d, d = AppOf(o), NEW z, z = AppPatchesOf(<<d>>)
                   PROVE  z.series = d.series /\ z.commit = d.patches_commit
        OBVIOUS
      <4>1. d.patches_commit = CommitOf(o.patches["apppatches"]) /\ d.series = SeriesOf(o.patches["apppatches"])
        BY <2>4
      <4>2. CASE Has(d.patches_commit)
        <5>1. z = PatchAxis(d.series, <<>>, d.patches_commit)
          BY <4>2 DEF AppPatchesOf, Has, The
        <5> QED BY <5>1 DEF PatchAxis
      <4>3. CASE ~Has(d.patches_commit)
        <5>1. z = NoPatches
          BY <4>3 DEF AppPatchesOf, Has, The
        <5>2. o.patches["apppatches"] = <<>>
          BY <4>1, <4>3 DEF CommitOf, Has
        <5>3. d.series = <<>> /\ d.patches_commit = <<>>
          BY <4>1, <5>2 DEF SeriesOf, CommitOf, Has
        <5> QED BY <5>1, <5>3 DEF NoPatches, PatchAxis
      <4> QED BY <4>2, <4>3
    <3>2. s.series = a.series /\ s.commit = a.patches_commit /\ t.series = c.series /\ t.commit = c.patches_commit
      BY <2>2, <3>1 DEF a, c
    <3> QED BY <3>2
  <2>10. [a EXCEPT !.series = Elements(a.series)] = [c EXCEPT !.series = Elements(c.series)]
    <3>1. /\ a = [ref |-> a.ref, commit |-> a.commit, series |-> a.series, patches_commit |-> a.patches_commit,
                  packaging_ref |-> a.packaging_ref, packaging_commit |-> a.packaging_commit, sdk |-> a.sdk, nuget |-> a.nuget]
          /\ c = [ref |-> c.ref, commit |-> c.commit, series |-> c.series, patches_commit |-> c.patches_commit,
                  packaging_ref |-> c.packaging_ref, packaging_commit |-> c.packaging_commit, sdk |-> c.sdk, nuget |-> c.nuget]
      BY <2>3 DEF a, c
    <3> QED BY <3>1, <2>6, <2>7, <2>8, <2>9
  <2> QED BY <2>2, <2>10, OneInAnyOrder
<1> QED BY <1>4, <1>5

LEMMA PinsTell ==
    ASSUME NEW b, NEW l, IsAppLock(l), NEW p, p.sources = SourcesProvenance(b, l), p.userspace = UserspaceSources(l), p.apps = AppSources(l),
           NEW c, NEW k, IsAppLock(k), NEW q, q.sources = SourcesProvenance(c, k), q.userspace = UserspaceSources(k), q.apps = AppSources(k),
           IsQuiet(CompareSources(Present(RecordPins(p), NoPin), Present(RecordPins(q), NoPin))),
           IsQuiet(ComparePatches(Present(RecordPatches(p), NoPatches), Present(RecordPatches(q), NoPatches))),
           p.sources.kernel_id = q.sources.kernel_id, p.sources.kernel_flavor = q.sources.kernel_flavor,
           p.sources.kernel_ref = q.sources.kernel_ref, p.sources.kernel_commit = q.sources.kernel_commit,
           p.sources.kernel_package = q.sources.kernel_package
    PROVE  /\ [p.sources EXCEPT !.patch_series = Elements(p.sources.patch_series)]
                = [q.sources EXCEPT !.patch_series = Elements(q.sources.patch_series)]
           /\ InAnyOrder(p.apps) = InAnyOrder(q.apps) /\ p.userspace = q.userspace
<1> DEFINE f == RecordPins(p)
           g == RecordPins(q)
<1>1. \A r : LET media == IF Has(r.sources.media_accel) THEN The(r.sources.media_accel) ELSE [base |-> NoPin, graft |-> NoPin]
                 apps == AppPinsOf(r.apps) IN
        RecordPins(r) = [uboot |-> SourcePin(r.sources.uboot_ref, r.sources.uboot_commit), lib |-> r.userspace, ffmpeg |-> media.base,
                         graft |-> media.graft, app |-> apps.app, packaging |-> apps.packaging, sdk |-> apps.sdk, nuget |-> apps.nuget]
  BY DEF RecordPins, AppPinsOf
<1>2. \A r : RecordPatches(r) = [patches |-> PatchAxis(r.sources.patch_series, <<>>, r.sources.patches_commit), apppatches |-> AppPatchesOf(r.apps)]
  BY DEF RecordPatches, AppPatchesOf
<1> DEFINE media(r) == IF Has(r.sources.media_accel) THEN The(r.sources.media_accel) ELSE [base |-> NoPin, graft |-> NoPin]
           Axes == {"uboot", "lib", "ffmpeg", "graft", "app", "packaging", "sdk", "nuget"}
<1>3. \A r : /\ DOMAIN RecordPins(r) = Axes
             /\ RecordPins(r)["uboot"] = SourcePin(r.sources.uboot_ref, r.sources.uboot_commit)
             /\ RecordPins(r)["lib"] = r.userspace
             /\ RecordPins(r)["ffmpeg"] = media(r).base /\ RecordPins(r)["graft"] = media(r).graft
             /\ RecordPins(r)["app"] = AppPinsOf(r.apps).app /\ RecordPins(r)["packaging"] = AppPinsOf(r.apps).packaging
             /\ RecordPins(r)["sdk"] = AppPinsOf(r.apps).sdk /\ RecordPins(r)["nuget"] = AppPinsOf(r.apps).nuget
  <2> HIDE DEF media
  <2>1. \A r : RecordPins(r) =
          [uboot |-> SourcePin(r.sources.uboot_ref, r.sources.uboot_commit), lib |-> r.userspace, ffmpeg |-> media(r).base,
           graft |-> media(r).graft, app |-> AppPinsOf(r.apps).app, packaging |-> AppPinsOf(r.apps).packaging,
           sdk |-> AppPinsOf(r.apps).sdk, nuget |-> AppPinsOf(r.apps).nuget]
    BY <1>1 DEF media
  <2> QED BY <2>1
<1>4. \A a \in Axes : f[a] = g[a]
  <2> SUFFICES ASSUME NEW a \in Axes PROVE f[a] = g[a]
    OBVIOUS
  <2>1. a \in DOMAIN f /\ a \in DOMAIN g
    BY <1>3
  <2> HIDE DEF Axes, media
  <2> QED BY <2>1, SourcesTell
<1>5. \A r : /\ DOMAIN RecordPatches(r) = {"patches", "apppatches"}
             /\ RecordPatches(r)["patches"] = PatchAxis(r.sources.patch_series, <<>>, r.sources.patches_commit)
             /\ RecordPatches(r)["apppatches"] = AppPatchesOf(r.apps)
  BY <1>2
<1>6. \A a \in {"patches", "apppatches"} :
        /\ Elements(RecordPatches(p)[a].series) = Elements(RecordPatches(q)[a].series)
        /\ RecordPatches(p)[a].commit = RecordPatches(q)[a].commit
  <2> SUFFICES ASSUME NEW a \in {"patches", "apppatches"}
               PROVE  /\ Elements(RecordPatches(p)[a].series) = Elements(RecordPatches(q)[a].series)
                      /\ RecordPatches(p)[a].commit = RecordPatches(q)[a].commit
    OBVIOUS
  <2>1. a \in DOMAIN RecordPatches(p) /\ a \in DOMAIN RecordPatches(q)
    BY <1>5
  <2> QED BY <2>1, PatchesTell
<1>7. f["uboot"] = g["uboot"] /\ f["lib"] = g["lib"] /\ f["ffmpeg"] = g["ffmpeg"] /\ f["graft"] = g["graft"] /\ f["app"] = g["app"]
      /\ f["packaging"] = g["packaging"] /\ f["sdk"] = g["sdk"] /\ f["nuget"] = g["nuget"]
  BY <1>4
<1> HIDE DEF media, Axes, f, g
<1>8. p.userspace = q.userspace
  BY <1>3, <1>7 DEF f, g
<1>9. p.sources.uboot_ref = q.sources.uboot_ref /\ p.sources.uboot_commit = q.sources.uboot_commit
  <2>1. SourcePin(p.sources.uboot_ref, p.sources.uboot_commit) = SourcePin(q.sources.uboot_ref, q.sources.uboot_commit)
    BY <1>3, <1>7 DEF f, g
  <2> QED BY <2>1 DEF SourcePin
<1>10. p.sources.media_accel = q.sources.media_accel
  <2>1. p.sources.media_accel = MediaAccelProvenance(l) /\ q.sources.media_accel = MediaAccelProvenance(k)
    BY DEF SourcesProvenance
  <2>2. media(p).base = media(q).base /\ media(p).graft = media(q).graft
    BY <1>3, <1>7 DEF f, g
  <2>3. /\ media(p) = IF Has(MediaAccelProvenance(l)) THEN The(MediaAccelProvenance(l)) ELSE [base |-> NoPin, graft |-> NoPin]
        /\ media(q) = IF Has(MediaAccelProvenance(k)) THEN The(MediaAccelProvenance(k)) ELSE [base |-> NoPin, graft |-> NoPin]
    BY <2>1 DEF media
  <2>4. MediaAccelProvenance(l) = MediaAccelProvenance(k)
    BY <2>2, <2>3, MediaTell
  <2> QED BY <2>1, <2>4
<1>11. Elements(p.sources.patch_series) = Elements(q.sources.patch_series) /\ p.sources.patches_commit = q.sources.patches_commit
  <2>1. /\ Elements(RecordPatches(p)["patches"].series) = Elements(RecordPatches(q)["patches"].series)
        /\ RecordPatches(p)["patches"].commit = RecordPatches(q)["patches"].commit
    BY <1>6
  <2>2. \A r : RecordPatches(r)["patches"].series = r.sources.patch_series /\ RecordPatches(r)["patches"].commit = r.sources.patches_commit
    <3> SUFFICES ASSUME NEW r
                 PROVE  RecordPatches(r)["patches"].series = r.sources.patch_series /\ RecordPatches(r)["patches"].commit = r.sources.patches_commit
      OBVIOUS
    <3>1. RecordPatches(r)["patches"] = PatchAxis(r.sources.patch_series, <<>>, r.sources.patches_commit)
      BY <1>5
    <3>2. RecordPatches(r).patches = PatchAxis(r.sources.patch_series, <<>>, r.sources.patches_commit)
      BY <3>1
    <3> QED BY <3>2 DEF PatchAxis
  <2> QED BY <2>1, <2>2
<1>12. InAnyOrder(p.apps) = InAnyOrder(q.apps)
  <2>1. /\ AppPinsOf(p.apps).app = AppPinsOf(q.apps).app /\ AppPinsOf(p.apps).packaging = AppPinsOf(q.apps).packaging
        /\ AppPinsOf(p.apps).sdk = AppPinsOf(q.apps).sdk /\ AppPinsOf(p.apps).nuget = AppPinsOf(q.apps).nuget
    BY <1>3, <1>7 DEF f, g
  <2>2. Elements(AppPatchesOf(p.apps).series) = Elements(AppPatchesOf(q.apps).series) /\ AppPatchesOf(p.apps).commit = AppPatchesOf(q.apps).commit
    BY <1>5, <1>6
  <2> QED BY <2>1, <2>2, AppsTell
<1>13. \A d, o : SourcesProvenance(d, o) =
        [kernel_id |-> SourcesProvenance(d, o).kernel_id, kernel_flavor |-> SourcesProvenance(d, o).kernel_flavor,
         kernel_package |-> SourcesProvenance(d, o).kernel_package, kernel_ref |-> SourcesProvenance(d, o).kernel_ref,
         kernel_commit |-> SourcesProvenance(d, o).kernel_commit, patch_series |-> SourcesProvenance(d, o).patch_series,
         patches_commit |-> SourcesProvenance(d, o).patches_commit, uboot_ref |-> SourcesProvenance(d, o).uboot_ref,
         uboot_commit |-> SourcesProvenance(d, o).uboot_commit, media_accel |-> SourcesProvenance(d, o).media_accel]
  BY DEF SourcesProvenance
<1> DEFINE x == p.sources
           y == q.sources
<1>14. /\ x = [kernel_id |-> x.kernel_id, kernel_flavor |-> x.kernel_flavor, kernel_package |-> x.kernel_package, kernel_ref |-> x.kernel_ref,
               kernel_commit |-> x.kernel_commit, patch_series |-> x.patch_series, patches_commit |-> x.patches_commit,
               uboot_ref |-> x.uboot_ref, uboot_commit |-> x.uboot_commit, media_accel |-> x.media_accel]
       /\ y = [kernel_id |-> y.kernel_id, kernel_flavor |-> y.kernel_flavor, kernel_package |-> y.kernel_package, kernel_ref |-> y.kernel_ref,
               kernel_commit |-> y.kernel_commit, patch_series |-> y.patch_series, patches_commit |-> y.patches_commit,
               uboot_ref |-> y.uboot_ref, uboot_commit |-> y.uboot_commit, media_accel |-> y.media_accel]
  BY <1>13
<1>15. [x EXCEPT !.patch_series = Elements(x.patch_series)] = [y EXCEPT !.patch_series = Elements(y.patch_series)]
  <2>1. /\ x.kernel_id = y.kernel_id /\ x.kernel_flavor = y.kernel_flavor /\ x.kernel_package = y.kernel_package /\ x.kernel_ref = y.kernel_ref
        /\ x.kernel_commit = y.kernel_commit /\ Elements(x.patch_series) = Elements(y.patch_series) /\ x.patches_commit = y.patches_commit
        /\ x.uboot_ref = y.uboot_ref /\ x.uboot_commit = y.uboot_commit /\ x.media_accel = y.media_accel
    BY <1>9, <1>10, <1>11
  <2> HIDE DEF x, y
  <2> QED BY <2>1, <1>14
<1> QED BY <1>8, <1>12, <1>15
-----------------------------------------------------------------------------
MadeOf(w, v, making, pw, flags) == Made(w.lock, w.build, w.host, v.served, making, pw, flags)

\* A directory that is vouched for holds what one run made, and its record says so.
Holds(dir, w, m) ==
    /\ dir.deb = <<m.deb>> /\ dir.tar = <<m.tar>> /\ dir.pkgs = <<m.pkgs>> /\ dir.plan = <<m.plan>>
    /\ dir.listing = m.listing /\ dir.prov = <<AssembleRecord(w.build, w.lock, m)>>
    /\ \A o \in m.outputs : IsDiskImage(o) => dir.images[o.file] = <<m.image>>
Finished(dir) ==
    \E w, v \in Worlds, making \in Makings, pw \in Passwords, flags \in RunFlags :
        Holds(dir, w, MadeOf(w, v, making, pw, flags))

\* Any directory holds a plan the archives served and images that can be listed.
InShape(dir) ==
    /\ dir.plan = <<>> \/ \E v \in Worlds : dir.plan = <<v.served>>
    /\ \A c \in Containers : dir.images[c] = <<>> \/ \E i : dir.images[c] = <<i>> /\ IsListable(i.tree)

ShelfInv ==
    /\ DOMAIN shelf = {"published", "rebuilt"}
    /\ \A d \in DOMAIN shelf : InShape(shelf[d]) /\ (shelf[d].vouched => Finished(shelf[d]))

IsCommitted(R) == \A o \in R : o = Output(o.step, o.role, o.file, o.sha256, o.per_image) /\ ~o.per_image /\ ~IsDiskImage(o)
SavedInv ==
    /\ DOMAIN saved = {w.host.arch : w \in Worlds}
    /\ \A a \in DOMAIN saved : saved[a] = <<>> \/ \E R : saved[a] = <<R>> /\ IsCommitted(R)

\* What was answered is still so: an answer stands until something moves.
Reproduced == Failed(JudgeRebuild(shelf["published"], shelf["rebuilt"])) = {}
Report == CompareSides(ReadSide(answer.left), ReadSide(answer.right))
AnswerInv ==
    /\ answer.asked \in {"nothing", "reproduce", "verify-image", "diff"}
    /\ answer.asked = "reproduce" /\ answer.says = "reproduced" =>
          shelf["rebuilt"].vouched /\ Has(shelf["published"].prov) /\ Reproduced
    /\ answer.asked = "verify-image" => answer.dir \in DOMAIN shelf /\ answer.failed = FailedChecks(shelf[answer.dir])
    /\ answer.asked = "diff" /\ answer.quiet => \A s \in DOMAIN Report : IsQuiet(Report[s])
RecordsInv == now \in Worlds /\ ShelfInv /\ SavedInv /\ AnswerInv

\* What a record says of its build, section by section.
LEMMA RecordFacts ==
    ASSUME NEW b, NEW l, NEW m, NEW p, p = AssembleRecord(b, l, m)
    PROVE  /\ p.image = ImageProvenance(b, m.disk.bytes) /\ p.sources = SourcesProvenance(b, l)
           /\ p.rootfs = RootfsProvenance(l, m) /\ p.credentials = Credentials(b, m.password)
           /\ p.toolchain = ToolchainProvenance(b, m.host) /\ p.userspace = UserspaceSources(l)
           /\ p.apps = AppSources(l) /\ p.blobs = l.blobs /\ p.filesystem = m.disk.fs
BY DEF AssembleRecord

\* What a directory that is vouched for has, and what its record says.
IsAccount(dir, w, v, pw, flags, m, tree, p) ==
    /\ w \in Worlds /\ v \in Worlds /\ dir.prov = <<p>> /\ p = The(dir.prov)
    /\ dir.deb = <<m.deb>> /\ dir.tar = <<m.tar>> /\ dir.pkgs = <<m.pkgs>> /\ dir.plan = <<m.plan>>
    /\ m.pkgs = v.served.pkgs /\ m.image.tree = tree
    /\ IsListable(tree) /\ Parses(dir.listing) /\ Parse(dir.listing) = Assemble(tree)
    /\ Shadow \in DOMAIN tree.number /\ IdentityName \in DOMAIN tree.number
    /\ InodeAt(tree, Shadow).data = <<pw>> /\ InodeAt(tree, IdentityName).data = <<0, SystemIdentity(w.build, w.lock)>>
    /\ p.image = ImageProvenance(w.build, m.disk.bytes) /\ p.sources = SourcesProvenance(w.build, w.lock)
    /\ p.rootfs = RootfsProvenance(w.lock, m) /\ p.credentials = Credentials(w.build, pw)
    /\ p.toolchain = ToolchainProvenance(w.build, w.host) /\ p.userspace = UserspaceSources(w.lock)
    /\ p.apps = AppSources(w.lock) /\ p.blobs = w.lock.blobs
    /\ p.outputs = Rows(m, flags) /\ Lists(p)
    /\ \A o \in p.outputs : IsDiskImage(o) => dir.images[o.file] = <<m.image>>

LEMMA FinishedFacts ==
    ASSUME NEW dir, Finished(dir)
    PROVE  \E w, v, pw, flags, m, tree, p : IsAccount(dir, w, v, pw, flags, m, tree, p)
<1>0. PICK w \in Worlds, v \in Worlds, making \in Makings, pw \in Passwords, flags \in RunFlags :
        Holds(dir, w, MadeOf(w, v, making, pw, flags))
  BY DEF Finished
<1> DEFINE m == MadeOf(w, v, making, pw, flags)
           tree == Splice(making.tree, SystemIdentity(w.build, w.lock), pw)
           p == The(dir.prov)
<1>1. /\ m.pkgs = v.served.pkgs /\ m.host = w.host /\ m.password = pw
      /\ m.listing = TextOf(tree) /\ m.image.tree = tree /\ m.outputs = Rows(m, flags)
  BY MadeFacts DEF MadeOf
<1>5. IsFormatted(making.tree)
  BY RecordsAssumption
<1>6. /\ IsListable(tree) /\ Shadow \in DOMAIN tree.number /\ IdentityName \in DOMAIN tree.number
      /\ InodeAt(tree, Shadow).data = <<pw>> /\ InodeAt(tree, IdentityName).data = <<0, SystemIdentity(w.build, w.lock)>>
  BY <1>5, SpliceFacts
<1> HIDE DEF m, tree
<1>2. /\ dir.deb = <<m.deb>> /\ dir.tar = <<m.tar>> /\ dir.pkgs = <<m.pkgs>> /\ dir.plan = <<m.plan>>
      /\ dir.listing = m.listing /\ dir.prov = <<AssembleRecord(w.build, w.lock, m)>>
      /\ \A o \in m.outputs : IsDiskImage(o) => dir.images[o.file] = <<m.image>>
  BY <1>0 DEF Holds, m
<1>3. p = AssembleRecord(w.build, w.lock, m) /\ dir.prov = <<p>>
  BY <1>2 DEF The
<1> HIDE DEF p
<1>4. p.outputs = m.outputs
  BY <1>3 DEF AssembleRecord
<1>7. Parses(dir.listing) /\ Parse(dir.listing) = Assemble(tree)
  BY <1>1, <1>2, <1>6, ListableParses
<1>8. Lists(p)
  <2>1. p.outputs = Rows(m, flags)
    BY <1>1, <1>4
  <2>3. PerImage("files-manifest", "files") \in p.outputs
    BY <2>1, RowFacts
  <2>2. PerImage("files-manifest", "files").role = "files-manifest"
    BY DEF PerImage, Output
  <2> QED BY <2>2, <2>3 DEF Lists
<1>9. /\ p.image = ImageProvenance(w.build, m.disk.bytes) /\ p.sources = SourcesProvenance(w.build, w.lock)
      /\ p.rootfs = RootfsProvenance(w.lock, m) /\ p.credentials = Credentials(w.build, pw)
      /\ p.toolchain = ToolchainProvenance(w.build, w.host) /\ p.userspace = UserspaceSources(w.lock)
      /\ p.apps = AppSources(w.lock) /\ p.blobs = w.lock.blobs
  BY <1>1, <1>3, RecordFacts
<1>10. p = The(dir.prov)
  BY DEF p
<1>11. IsAccount(dir, w, v, pw, flags, m, tree, p)
  BY <1>1, <1>2, <1>3, <1>4, <1>6, <1>7, <1>8, <1>9, <1>10 DEF IsAccount
<1> QED BY <1>11

\* All six writes of a run leave a finished directory.
LEMMA LastWriteFinishes ==
    ASSUME NEW w \in Worlds, NEW v \in Worlds, NEW making \in Makings, NEW pw \in Passwords, NEW flags \in RunFlags,
           NEW m, m = MadeOf(w, v, making, pw, flags), NEW old, NEW n,
           NEW dir, dir = AfterWrites(old, w.lock, w.build, m, flags, n), dir.vouched
    PROVE  Finished(dir)
<1>1. n = 6
  BY DEF AfterWrites
<1>2. /\ dir.deb = <<m.deb>> /\ dir.tar = <<m.tar>> /\ dir.pkgs = <<m.pkgs>> /\ dir.plan = <<m.plan>>
      /\ dir.listing = m.listing /\ dir.prov = <<AssembleRecord(w.build, w.lock, m)>>
  BY <1>1 DEF AfterWrites
<1>3. dir.images = [c \in Containers |->
                        IF c = "img" THEN (IF KeepsRaw(flags) THEN <<m.image>> ELSE <<>>)
                        ELSE IF flags.compress # "none" /\ c = ContainerOf(flags) THEN <<m.image>> ELSE old.images[c]]
  BY <1>1 DEF AfterWrites
<1>4. m.outputs = Rows(m, flags)
  BY MadeFacts DEF MadeOf
<1>5. ASSUME NEW o \in m.outputs, IsDiskImage(o) PROVE dir.images[o.file] = <<m.image>>
  <2>1. /\ o.file \in Containers /\ (o.file = "img" => KeepsRaw(flags))
        /\ o.file \in {"img.xz", "img.gz"} => flags.compress # "none" /\ o.file = ContainerOf(flags)
    <3>1. o \in Rows(m, flags)
      BY <1>4, <1>5
    <3> QED BY <3>1, <1>5, RowFacts
  <2>2. CASE o.file = "img"
    BY <2>1, <2>2, <1>3
  <2>3. CASE o.file # "img"
    <3>1. o.file \in {"img.xz", "img.gz"}
      BY <2>1, <2>3 DEF Containers
    <3> QED BY <2>1, <2>3, <3>1, <1>3
  <2> QED BY <2>2, <2>3
<1>6. Holds(dir, w, m)
  BY <1>2, <1>5 DEF Holds
<1> QED BY <1>6 DEF Finished

\* Any of the writes leaves plans and images that runs made.
LEMMA WritesKeepShape ==
    ASSUME NEW w \in Worlds, NEW v \in Worlds, NEW making \in Makings, NEW pw \in Passwords, NEW flags \in RunFlags,
           NEW old, InShape(old), NEW n
    PROVE  InShape(AfterWrites(old, w.lock, w.build, MadeOf(w, v, making, pw, flags), flags, n))
<1> DEFINE m == MadeOf(w, v, making, pw, flags)
           dir == AfterWrites(old, w.lock, w.build, m, flags, n)
<1>1. m.plan = v.served /\ m.image.tree = Splice(making.tree, SystemIdentity(w.build, w.lock), pw)
  BY MadeFacts DEF MadeOf
<1> HIDE DEF m
<1>2. IsListable(m.image.tree)
  <2>1. IsFormatted(making.tree)
    BY RecordsAssumption
  <2> QED BY <1>1, <2>1, SpliceFacts
<1>3. dir.plan = old.plan \/ dir.plan = <<m.plan>>
  BY DEF AfterWrites
<1>4. ASSUME NEW c \in Containers PROVE dir.images[c] \in {<<>>, <<m.image>>, old.images[c]}
  <2>1. \/ dir.images = old.images
        \/ dir.images = [x \in Containers |->
                        IF x = "img" THEN (IF KeepsRaw(flags) THEN <<m.image>> ELSE <<>>)
                        ELSE IF flags.compress # "none" /\ x = ContainerOf(flags) THEN <<m.image>> ELSE old.images[x]]
    BY DEF AfterWrites
  <2> QED BY <2>1
<1>5. \A c \in Containers : dir.images[c] = <<>> \/ \E i : dir.images[c] = <<i>> /\ IsListable(i.tree)
  <2> SUFFICES ASSUME NEW c \in Containers PROVE dir.images[c] = <<>> \/ \E i : dir.images[c] = <<i>> /\ IsListable(i.tree)
    OBVIOUS
  <2>1. CASE dir.images[c] = <<>>
    BY <2>1
  <2>2. CASE dir.images[c] = <<m.image>>
    BY <2>2, <1>2
  <2>3. CASE dir.images[c] = old.images[c]
    BY <2>3 DEF InShape
  <2> QED BY <1>4, <2>1, <2>2, <2>3
<1>6. dir.plan = <<>> \/ \E x \in Worlds : dir.plan = <<x.served>>
  BY <1>1, <1>3 DEF InShape
<1> QED BY <1>5, <1>6 DEF m, InShape

LEMMA RecordableIsCommitted ==
    ASSUME NEW m, NEW flags
    PROVE  IsCommitted(Recordable(Rows(m, flags)))
BY RowFacts DEF IsCommitted, Recordable

\* A run keeps what is on the shelf in shape.
LEMMA RunKeepsShelf ==
    ASSUME now \in Worlds, ShelfInv, SavedInv, NEW d \in DOMAIN shelf, NEW v \in Worlds, NEW n, NEW flags \in RunFlags,
           NEW making \in Makings, NEW pw \in Passwords, RunBuild(d, v.served, n, flags, making, pw)
    PROVE  now' \in Worlds /\ ShelfInv' /\ SavedInv'
<1> DEFINE m == MadeOf(now, v, making, pw, flags)
           dir == AfterWrites(shelf[d], now.lock, now.build, m, flags, n)
<1>1. /\ shelf' = [shelf EXCEPT ![d] = dir] /\ now' = now
      /\ saved' = IF flags.save /\ n >= 5 THEN [saved EXCEPT ![now.host.arch] = <<Recordable(m.outputs)>>] ELSE saved
  BY DEF RunBuild, MadeOf
<1>2. m.outputs = Rows(m, flags)
  BY MadeFacts DEF MadeOf
<1> HIDE DEF m
<1>3. InShape(dir)
  <2>1. InShape(shelf[d])
    BY DEF ShelfInv
  <2> QED BY <2>1, WritesKeepShape DEF m
<1>4. dir.vouched => Finished(dir)
  BY LastWriteFinishes DEF m
<1> HIDE DEF dir
<1>5. DOMAIN shelf' = DOMAIN shelf /\ shelf'[d] = dir /\ \A e \in DOMAIN shelf \ {d} : shelf'[e] = shelf[e]
  BY <1>1
<1>6. ShelfInv'
  <2>1. \A e \in DOMAIN shelf : InShape(shelf'[e]) /\ (shelf'[e].vouched => Finished(shelf'[e]))
    <3> SUFFICES ASSUME NEW e \in DOMAIN shelf PROVE InShape(shelf'[e]) /\ (shelf'[e].vouched => Finished(shelf'[e]))
      OBVIOUS
    <3>1. CASE e = d
      BY <3>1, <1>3, <1>4, <1>5
    <3>2. CASE e # d
      <4>1. shelf'[e] = shelf[e]
        BY <3>2, <1>5
      <4> QED BY <4>1 DEF ShelfInv
    <3> QED BY <3>1, <3>2
  <2> QED BY <2>1, <1>5 DEF ShelfInv
<1>7. SavedInv'
  <2>1. CASE saved' = saved
    BY <2>1 DEF SavedInv
  <2>2. CASE saved' = [saved EXCEPT ![now.host.arch] = <<Recordable(m.outputs)>>]
    <3>1. IsCommitted(Recordable(m.outputs))
      BY <1>2, RecordableIsCommitted
    <3>2. /\ DOMAIN saved' = DOMAIN saved
          /\ \A a \in DOMAIN saved : saved'[a] = saved[a] \/ saved'[a] = <<Recordable(m.outputs)>>
      BY <2>2
    <3> QED BY <3>1, <3>2 DEF SavedInv
  <2> QED BY <1>1, <2>1, <2>2
<1> QED BY <1>1, <1>6, <1>7
-----------------------------------------------------------------------------
LEMMA EmptyInShape == InShape(EmptyDir) /\ ~EmptyDir.vouched
BY DEF InShape, EmptyDir

LEMMA RecordsInvInductive == RecordsSpec => []RecordsInv
<1>1. RecordsInit => RecordsInv
  <2> SUFFICES ASSUME RecordsInit PROVE RecordsInv
    OBVIOUS
  <2>1. /\ now \in Worlds /\ shelf = [d \in {"published", "rebuilt"} |-> EmptyDir]
        /\ saved = [a \in {w.host.arch : w \in Worlds} |-> <<>>] /\ answer = [asked |-> "nothing"]
    BY DEF RecordsInit, NoAnswer
  <2>2. ShelfInv
    BY <2>1, EmptyInShape DEF ShelfInv
  <2>3. SavedInv
    BY <2>1 DEF SavedInv
  <2>4. AnswerInv
    BY <2>1 DEF AnswerInv
  <2> QED BY <2>1, <2>2, <2>3, <2>4 DEF RecordsInv
<1>2. RecordsInv /\ [RecordsNext]_recordVars => RecordsInv'
  <2> SUFFICES ASSUME RecordsInv, [RecordsNext]_recordVars PROVE RecordsInv'
    OBVIOUS
  <2>0. now \in Worlds /\ ShelfInv /\ SavedInv /\ AnswerInv
    BY DEF RecordsInv
  <2>1. CASE BuildPoint
    <3>1. PICK d \in DOMAIN shelf, n \in Writes, flags \in RunFlags, making \in Makings, pw \in Passwords :
            RunBuild(d, now.served, n, flags, making, pw)
      BY <2>0, <2>1 DEF BuildPoint, ShelfInv
    <3>2. now' \in Worlds /\ ShelfInv' /\ SavedInv'
      BY <2>0, <3>1, RunKeepsShelf
    <3>3. answer' = [asked |-> "nothing"]
      BY <2>1 DEF BuildPoint, NoAnswer
    <3>4. AnswerInv'
      BY <3>3 DEF AnswerInv
    <3> QED BY <3>2, <3>4 DEF RecordsInv
  <2>2. CASE Reproduce
    <3>1. PICK n \in Writes, flags \in RunFlags, making \in Makings, pw \in Passwords :
            RunBuild("rebuilt", The(shelf["published"].plan), n, flags, making, pw)
      BY <2>2 DEF Reproduce
    <3>2. PICK v \in Worlds : The(shelf["published"].plan) = v.served
      <4>1. Has(shelf["published"].plan) /\ InShape(shelf["published"])
        BY <2>0, <2>2 DEF Reproduce, ShelfInv
      <4> QED BY <4>1 DEF InShape, Has, The
    <3>3. "rebuilt" \in DOMAIN shelf
      BY <2>0 DEF ShelfInv
    <3>4. now' \in Worlds /\ ShelfInv' /\ SavedInv'
      BY <2>0, <3>1, <3>2, <3>3, RunKeepsShelf
    <3>5. shelf'["published"] = shelf["published"]
      BY <2>0, <3>1 DEF RunBuild, ShelfInv
    <3>6. answer' =
            IF ~shelf'["rebuilt"].vouched THEN [asked |-> "reproduce", says |-> "failed"]
            ELSE IF shelf["published"].prov = <<>> THEN [asked |-> "reproduce", says |-> "not-judged"]
            ELSE IF Failed(JudgeRebuild(shelf["published"], shelf'["rebuilt"])) = {}
                 THEN [asked |-> "reproduce", says |-> "reproduced"] ELSE [asked |-> "reproduce", says |-> "differs"]
      BY <2>2 DEF Reproduce
    <3>7. answer'.asked = "reproduce"
      BY <3>6
    <3>8. ASSUME answer'.says = "reproduced"
          PROVE  shelf'["rebuilt"].vouched /\ Has(shelf'["published"].prov) /\ Reproduced'
      <4>1. shelf'["rebuilt"].vouched
        BY <3>6, <3>8
      <4>2. shelf["published"].prov # <<>>
        BY <3>6, <3>8, <4>1
      <4>3. Failed(JudgeRebuild(shelf["published"], shelf'["rebuilt"])) = {}
        BY <3>6, <3>8, <4>1, <4>2
      <4> QED BY <3>5, <4>1, <4>2, <4>3 DEF Has, Reproduced
    <3>9. AnswerInv'
      BY <3>7, <3>8 DEF AnswerInv
    <3> QED BY <3>4, <3>9 DEF RecordsInv
  <2>3. CASE VerifyImage
    <3>1. PICK d \in DOMAIN shelf : answer' = [asked |-> "verify-image", dir |-> d, failed |-> FailedChecks(shelf[d])]
      BY <2>3 DEF VerifyImage
    <3>2. now' = now /\ shelf' = shelf /\ saved' = saved
      BY <2>3 DEF VerifyImage
    <3>3. FailedChecks(shelf[answer.dir])' = FailedChecks(shelf[d])
      BY <3>1, <3>2 DEF FailedChecks, CommittedFailures
    <3>4. AnswerInv'
      BY <3>1, <3>2, <3>3 DEF AnswerInv
    <3> QED BY <2>0, <3>2, <3>4 DEF RecordsInv, ShelfInv, SavedInv
  <2>4. CASE Diff
    <3>1. PICK pair \in DiffPairs :
            LET report == CompareSides(ReadSide(pair[1]), ReadSide(pair[2])) IN
            answer' = [asked |-> "diff", left |-> pair[1], right |-> pair[2], quiet |-> \A s \in DOMAIN report : IsQuiet(report[s])]
      BY <2>4 DEF Diff
    <3>2. now' = now /\ shelf' = shelf /\ saved' = saved
      BY <2>4 DEF Diff
    <3> DEFINE report == CompareSides(ReadSide(pair[1]), ReadSide(pair[2]))
    <3>3. /\ answer'.asked = "diff" /\ answer'.left = pair[1] /\ answer'.right = pair[2]
          /\ answer'.quiet = (\A s \in DOMAIN report : IsQuiet(report[s]))
      BY <3>1
    <3>4. Report' = report
      <4>1. ReadSide(answer.left)' = ReadSide(pair[1]) /\ ReadSide(answer.right)' = ReadSide(pair[2])
        BY <3>2, <3>3 DEF ReadSide
      <4> QED BY <4>1 DEF Report
    <3> HIDE DEF report
    <3>5. AnswerInv'
      BY <3>3, <3>4 DEF AnswerInv
    <3> QED BY <2>0, <3>2, <3>5 DEF RecordsInv, ShelfInv, SavedInv
  <2>5. CASE TimePasses
    <3>1. now' \in Worlds /\ shelf' = shelf /\ saved' = saved /\ answer' = [asked |-> "nothing"]
      BY <2>5 DEF TimePasses, NoAnswer
    <3>2. AnswerInv'
      BY <3>1 DEF AnswerInv
    <3> QED BY <2>0, <3>1, <3>2 DEF RecordsInv, ShelfInv, SavedInv
  <2>6. CASE UNCHANGED recordVars
    <3>1. now' = now /\ shelf' = shelf /\ saved' = saved /\ answer' = answer
      BY <2>6 DEF recordVars
    <3>2. FailedChecks(shelf[answer.dir])' = FailedChecks(shelf[answer.dir])
      BY <3>1 DEF FailedChecks, CommittedFailures
    <3>3. Report' = Report /\ Reproduced' = Reproduced
      BY <3>1 DEF Report, Reproduced, ReadSide
    <3>4. AnswerInv'
      BY <2>0, <3>1, <3>2, <3>3 DEF AnswerInv
    <3> QED BY <2>0, <3>1, <3>4 DEF RecordsInv, ShelfInv, SavedInv
  <2> QED BY <2>1, <2>2, <2>3, <2>4, <2>5, <2>6 DEF RecordsNext
<1> QED BY <1>1, <1>2, PTL DEF RecordsSpec

\* AssembleRecord, CommittedOutputs::record and the commands that read them, for every
\* world and number of runs: locks stay locks, a directory that is vouched for has all a
\* run leaves, and nothing per image is committed.
THEOREM RecordsTypes == RecordsSpec => []RecordsTypeOK
<1>1. RecordsInv => RecordsTypeOK
  <2> SUFFICES ASSUME RecordsInv PROVE RecordsTypeOK
    OBVIOUS
  <2>1. IsLock(now.lock)
    BY RecordsAssumption DEF RecordsInv
  <2>2. ASSUME NEW d \in DOMAIN shelf, shelf[d].vouched
        PROVE  Has(shelf[d].prov) /\ Has(shelf[d].plan) /\ Has(shelf[d].listing)
    <3>1. Finished(shelf[d])
      BY <2>2 DEF RecordsInv, ShelfInv
    <3>2. PICK w, v, pw, flags, m, tree, p : IsAccount(shelf[d], w, v, pw, flags, m, tree, p)
      BY <3>1, FinishedFacts
    <3>3. Has(shelf[d].prov) /\ Has(shelf[d].plan)
      BY <3>2 DEF IsAccount, Has
    <3>4. Parses(shelf[d].listing)
      BY <3>2 DEF IsAccount
    <3>5. Has(shelf[d].listing)
      BY <3>4 DEF Parses, Has
    <3> QED BY <3>3, <3>5
  <2>3. \A a \in DOMAIN saved : Has(saved[a]) => \A o \in The(saved[a]) : ~o.per_image /\ ~IsDiskImage(o)
    BY DEF RecordsInv, SavedInv, IsCommitted, Has, The
  <2>4. answer.asked \in {"nothing", "reproduce", "verify-image", "diff"}
    BY DEF RecordsInv, AnswerInv
  <2> QED BY <2>1, <2>2, <2>3, <2>4 DEF RecordsTypeOK
<1> QED BY <1>1, RecordsInvInductive, PTL
-----------------------------------------------------------------------------
\* Filesystems that show the same hold the same content behind every name.
LEMMA SameVisibleSameData ==
    ASSUME NEW s, NEW t, IsFilesystem(s), IsFilesystem(t), Visible(s) = Visible(t), NEW name \in DOMAIN s.number
    PROVE  name \in DOMAIN t.number /\ InodeAt(s, name).data = InodeAt(t, name).data
<1>1. /\ Visible(s) = [n \in DOMAIN s.number |-> VisibleAt(s, n)]
      /\ Visible(t) = [n \in DOMAIN t.number |-> VisibleAt(t, n)]
  BY VisibleShape
<1>2. DOMAIN Visible(s) = DOMAIN s.number /\ DOMAIN Visible(t) = DOMAIN t.number
  BY <1>1
<1>3. name \in DOMAIN t.number
  BY <1>2
<1>4. VisibleAt(s, name) = VisibleAt(t, name)
  BY <1>1, <1>3
<1>5. ShownAt(s, name) = ShownAt(t, name)
  <2>1. \A u : VisibleAt(u, name).inode = ShownAt(u, name)
    BY DEF VisibleAt
  <2> QED BY <1>4, <2>1
<1>6. ShownAt(s, name).data = InodeAt(s, name).data /\ ShownAt(t, name).data = InodeAt(t, name).data
  <2>1. ShownAt(s, name).data = InodeAt(s, name).data
    BY ShownAtShape
  <2>2. ShownAt(t, name).data = InodeAt(t, name).data
    BY <1>3, ShownAtShape
  <2> QED BY <2>1, <2>2
<1> QED BY <1>3, <1>5, <1>6

\* The image that verify-image finds is one that a run made.
LEMMA FoundIsListable ==
    ASSUME NEW dir, InShape(dir), FindImage(dir) # <<>>
    PROVE  FindImage(dir) = <<The(FindImage(dir))>> /\ IsListable(The(FindImage(dir)).tree)
<1>1. PICK c \in Containers : FindImage(dir) = dir.images[c]
  BY DEF FindImage, Containers
<1>2. PICK i : dir.images[c] = <<i>> /\ IsListable(i.tree)
  BY <1>1 DEF InShape
<1> QED BY <1>1, <1>2 DEF The

LEMMA FileInShape ==
    ASSUME NEW dir, NEW file, Has(FileIn(dir, file))
    PROVE  FileIn(dir, file) = <<The(FileIn(dir, file))>>
<1>1. FileIn(dir, file) = <<>> \/ \E y : FileIn(dir, file) = <<y>>
  <2>1. CASE file = "deb"
    BY <2>1 DEF FileIn
  <2>2. CASE file = "tar"
    BY <2>2 DEF FileIn
  <2>3. CASE file = "pkgs"
    BY <2>3 DEF FileIn
  <2>4. CASE file = "plan"
    BY <2>4 DEF FileIn
  <2>5. CASE file = "roots"
    BY <2>5 DEF FileIn
  <2>6. CASE file \notin {"deb", "tar", "pkgs", "plan", "roots"}
    BY <2>6 DEF FileIn
  <2> QED BY <2>1, <2>2, <2>3, <2>4, <2>5, <2>6
<1> QED BY <1>1 DEF Has, The

\* What a clean verdict says of the rows that were judged.
LEMMA NoneFailed ==
    ASSUME NEW O, NEW R, NEW compared, NEW same, Failed(Judge(O, R, compared, same)) = {}, NEW o \in O
    PROVE  /\ \E r \in R : r.file = o.file
           /\ ~o.per_image => \E r \in R : r.file = o.file /\ r.sha256 = o.sha256
           /\ o.per_image /\ compared => same
<1> DEFINE J == Judge(O, R, compared, same)
<1>1. DOMAIN J = O /\ J[o] =
        IF ~\E r \in R : r.file = o.file THEN "missing"
        ELSE IF o.per_image THEN (IF ~compared THEN "not-comparable" ELSE IF same THEN "identical" ELSE "differs")
        ELSE IF \E r \in R : r.file = o.file /\ r.sha256 = o.sha256 THEN "identical" ELSE "differs"
  BY DEF Judge
<1> HIDE DEF J
<1>2. J[o] # "missing" /\ J[o] # "differs"
  <2>1. Failed(J) = {}
    BY DEF J
  <2>2. \A x \in DOMAIN J : J[x] \notin {"differs", "missing"}
    BY <2>1 DEF Failed
  <2> QED BY <1>1, <2>2
<1>3. \E r \in R : r.file = o.file
  BY <1>1, <1>2
<1>4. ~o.per_image => \E r \in R : r.file = o.file /\ r.sha256 = o.sha256
  BY <1>1, <1>2, <1>3
<1>5. o.per_image /\ compared => same
  BY <1>1, <1>2, <1>3
<1> QED BY <1>3, <1>4, <1>5

\* What is committed and not missed is there, as committed.
LEMMA CommittedAreThere ==
    ASSUME NEW R, IsCommitted(R), NEW dir, Failed(Judge(R, FoundOutputs(R, dir), FALSE, FALSE)) = {}, NEW o \in R
    PROVE  FileIn(dir, o.file) = <<o.sha256>>
<1>1. ~o.per_image
  BY DEF IsCommitted
<1> DEFINE F == FoundOutputs(R, dir)
           no == FALSE
<1>0. Failed(Judge(R, F, no, no)) = {}
  OBVIOUS
<1> HIDE DEF F, no
<1>2. PICK r \in F : r.file = o.file /\ r.sha256 = o.sha256
  <2>1. ~o.per_image => \E r \in F : r.file = o.file /\ r.sha256 = o.sha256
    BY <1>0, NoneFailed
  <2> QED BY <1>1, <2>1
<1>3. PICK x \in R : Has(FileIn(dir, x.file)) /\ r = [x EXCEPT !.sha256 = The(FileIn(dir, x.file))]
  BY <1>2 DEF FoundOutputs, F
<1>4. r.file = x.file /\ r.sha256 = The(FileIn(dir, x.file))
  <2>1. x = [step |-> x.step, role |-> x.role, file |-> x.file, sha256 |-> x.sha256, per_image |-> x.per_image]
    BY DEF IsCommitted, Output
  <2> QED BY <1>3, <2>1
<1>5. FileIn(dir, x.file) = <<The(FileIn(dir, x.file))>>
  BY <1>3, FileInShape
<1> QED BY <1>2, <1>4, <1>5

\* What verify-image asked of an image that it passes.
LEMMA PassedChecks ==
    ASSUME NEW dir, FailedChecks(dir) = {}
    PROVE  /\ dir.vouched /\ FindImage(dir) # <<>>
           /\ The(FindImage(dir)).table.bytes = The(dir.prov).filesystem.blocks * The(dir.prov).filesystem.block
           /\ HoldsListed(dir.listing, The(FindImage(dir)))
           /\ CommittedFailures(The(dir.prov).toolchain.host_arch, dir) = {}
<1> DEFINE p == The(dir.prov)
           image == The(FindImage(dir))
           plan == Len(The(dir.plan).pkgs) > 0
           digest == The(dir.plan) = p.rootfs.plan_sha256
           rows == Len(p.archives) >= 2
           pool == \E i \in DOMAIN p.archives : p.archives[i].local /\ p.archives[i].mirror = <<>>
           fits == image.table.bytes = p.filesystem.blocks * p.filesystem.block
           bytes == p.image.image_bytes > 0
           slack == image.free >= RequiredFree(p.image.image_size, p.filesystem.blocks, p.filesystem.block)
           files == Lists(p) /\ Parses(dir.listing) /\ HoldsListed(dir.listing, image)
           committed == CommittedFailures(p.toolchain.host_arch, dir) = {}
           ok == [plan |-> plan, plan_sha256 |-> digest, archives |-> rows, pool_row |-> pool, ext4_fits |-> fits,
                  rootfs_bootable |-> image.table.bootable, size |-> bytes, slack |-> slack, rootfs_files |-> files,
                  outputs |-> committed, packages |-> Has(dir.deb)]
<1>1. FailedChecks(dir) =
        IF ~dir.vouched THEN {"build"}
        ELSE IF FindImage(dir) = <<>> \/ dir.prov = <<>> \/ dir.plan = <<>> THEN {"artifacts"}
        ELSE {c \in DOMAIN ok : ~ok[c]}
  BY DEF FailedChecks
<1>2. ok.ext4_fits = fits /\ ok.rootfs_files = files /\ ok.outputs = committed
      /\ {"ext4_fits", "rootfs_files", "outputs"} \subseteq DOMAIN ok
  <2> HIDE DEF plan, digest, rows, pool, fits, bytes, slack, files, committed
  <2> QED OBVIOUS
<1> HIDE DEF plan, digest, rows, pool, fits, bytes, slack, files, committed, ok
<1>3. dir.vouched
  BY <1>1
<1>4. ~(FindImage(dir) = <<>> \/ dir.prov = <<>> \/ dir.plan = <<>>)
  BY <1>1, <1>3
<1>5. {c \in DOMAIN ok : ~ok[c]} = {}
  BY <1>1, <1>3, <1>4
<1>6. ok["ext4_fits"] /\ ok["rootfs_files"] /\ ok["outputs"]
  BY <1>2, <1>5
<1>7. fits /\ files /\ committed
  BY <1>2, <1>6
<1> QED BY <1>3, <1>4, <1>7 DEF fits, files, committed
-----------------------------------------------------------------------------
\* verify_point, for every world and number of runs: an image it passes shows the files
\* the run listed, and with them the identity and the password the record has.
THEOREM VerifiedIsDescribedHolds == RecordsSpec => []VerifiedIsDescribed
<1>1. RecordsInv => VerifiedIsDescribed
  <2> SUFFICES ASSUME RecordsInv, answer.asked = "verify-image", answer.failed = {},
                      NEW dir, dir = shelf[answer.dir], NEW p, p = The(dir.prov),
                      NEW image, image = The(FindImage(dir)),
                      NEW id, id = InodeAt(image.tree, IdentityName).data[2]
               PROVE  /\ id.image = [device |-> p.image.device, suite |-> p.image.suite, features |-> p.image.features, layout |-> p.image.layout]
                      /\ id.kernel.commit = p.sources.kernel_commit /\ id.kernel.series = p.sources.patch_series
                      /\ InodeAt(image.tree, Shadow).data = <<p.credentials.password>>
                      /\ image.table.bytes = p.filesystem.blocks * p.filesystem.block
                      /\ dir.pkgs = <<p.rootfs.manifest_sha256>>
                      /\ Has(saved[p.toolchain.host_arch]) =>
                            \A o \in The(saved[p.toolchain.host_arch]) : FileIn(dir, o.file) = <<o.sha256>>
    BY DEF VerifiedIsDescribed
  <2>1. answer.dir \in DOMAIN shelf /\ FailedChecks(dir) = {}
    BY DEF RecordsInv, AnswerInv
  <2>2. /\ dir.vouched /\ FindImage(dir) # <<>>
        /\ image.table.bytes = p.filesystem.blocks * p.filesystem.block
        /\ HoldsListed(dir.listing, image)
        /\ CommittedFailures(p.toolchain.host_arch, dir) = {}
    BY <2>1, PassedChecks
  <2>3. InShape(dir) /\ Finished(dir)
    BY <2>1, <2>2 DEF RecordsInv, ShelfInv
  <2>4. PICK w, v, pw, flags, m, tree, r : IsAccount(dir, w, v, pw, flags, m, tree, r)
    BY <2>3, FinishedFacts
  <2>5. /\ w \in Worlds /\ dir.pkgs = <<m.pkgs>> /\ IsListable(tree) /\ Parse(dir.listing) = Assemble(tree)
        /\ Shadow \in DOMAIN tree.number /\ IdentityName \in DOMAIN tree.number
        /\ InodeAt(tree, Shadow).data = <<pw>> /\ InodeAt(tree, IdentityName).data = <<0, SystemIdentity(w.build, w.lock)>>
    BY <2>4 DEF IsAccount
  <2>8. /\ p.image = ImageProvenance(w.build, m.disk.bytes) /\ p.sources = SourcesProvenance(w.build, w.lock)
        /\ p.rootfs = RootfsProvenance(w.lock, m) /\ p.credentials = Credentials(w.build, pw)
        /\ p.toolchain = ToolchainProvenance(w.build, w.host)
    BY <2>4 DEF IsAccount
  <2>9. Visible(tree) = Visible(image.tree) /\ IsFilesystem(tree) /\ IsFilesystem(image.tree)
    <3>1. IsListable(image.tree)
      BY <2>2, <2>3, FoundIsListable
    <3>2. IsFilesystem(tree) /\ IsFilesystem(image.tree)
      BY <2>5, <3>1 DEF IsListable
    <3>3. IsEmpty(FilesDiff(Assemble(tree), Assemble(image.tree)))
      BY <2>2, <2>5 DEF HoldsListed
    <3> QED BY <3>2, <3>3, DiffIsOfTheFiles
  <2>10. InodeAt(image.tree, IdentityName).data = <<0, SystemIdentity(w.build, w.lock)>> /\ InodeAt(image.tree, Shadow).data = <<pw>>
    <3>1. InodeAt(tree, IdentityName).data = InodeAt(image.tree, IdentityName).data
      BY <2>5, <2>9, SameVisibleSameData
    <3>2. InodeAt(tree, Shadow).data = InodeAt(image.tree, Shadow).data
      BY <2>5, <2>9, SameVisibleSameData
    <3> QED BY <2>5, <3>1, <3>2
  <2>11. id = SystemIdentity(w.build, w.lock)
    <3>1. \A x : <<0, x>>[2] = x
      OBVIOUS
    <3> QED BY <2>10, <3>1
  <2>12. id.image = IdentityImage(w.build) /\ id.kernel = IdentityKernel(w.build, w.lock)
    BY <2>11 DEF SystemIdentity
  <2>13. id.image = [device |-> p.image.device, suite |-> p.image.suite, features |-> p.image.features, layout |-> p.image.layout]
    BY <2>8, <2>12 DEF IdentityImage, ImageProvenance
  <2>14. id.kernel.commit = p.sources.kernel_commit /\ id.kernel.series = p.sources.patch_series
    BY <2>8, <2>12 DEF IdentityKernel, SourcesProvenance
  <2>15. InodeAt(image.tree, Shadow).data = <<p.credentials.password>>
    BY <2>8, <2>10 DEF Credentials
  <2>16. dir.pkgs = <<p.rootfs.manifest_sha256>>
    BY <2>5, <2>8 DEF RootfsProvenance
  <2>17. ASSUME Has(saved[p.toolchain.host_arch]), NEW o \in The(saved[p.toolchain.host_arch])
         PROVE  FileIn(dir, o.file) = <<o.sha256>>
    <3> DEFINE arch == p.toolchain.host_arch
    <3>1. arch = w.host.arch
      BY <2>5, <2>8 DEF ToolchainProvenance
    <3> HIDE DEF arch
    <3>2. arch \in DOMAIN saved
      BY <2>5, <3>1 DEF RecordsInv, SavedInv
    <3>3. PICK R : saved[arch] = <<R>> /\ IsCommitted(R)
      BY <2>17, <3>2 DEF RecordsInv, SavedInv, Has, arch
    <3>4. R = The(saved[arch])
      BY <3>3 DEF The
    <3>5. Failed(Judge(R, FoundOutputs(R, dir), FALSE, FALSE)) = {}
      <4>1. saved[arch] # <<>>
        BY <3>3
      <4> QED BY <2>2, <3>4, <4>1 DEF CommittedFailures, arch
    <3>6. o \in R
      BY <2>17, <3>4 DEF arch
    <3> QED BY <3>3, <3>5, <3>6, CommittedAreThere
  <2> QED BY <2>2, <2>13, <2>14, <2>15, <2>16, <2>17
<1> QED BY <1>1, RecordsInvInductive, PTL
-----------------------------------------------------------------------------
\* A row that was not missed and is not per image has the same digest in the rebuild.
LEMMA SameRows ==
    ASSUME NEW m, NEW f, NEW n, NEW g, NEW compared, NEW same, Failed(Judge(Rows(m, f), Rows(n, g), compared, same)) = {}
    PROVE  /\ m.deb = n.deb /\ m.tar = n.tar /\ m.pkgs = n.pkgs /\ m.plan = n.plan
           /\ compared => same
           /\ \A o \in Rows(m, f) : IsDiskImage(o) => \E r \in Rows(n, g) : r.file = o.file /\ IsDiskImage(r)
<1> DEFINE O == Rows(m, f)
           R == Rows(n, g)
           deb == Output("kernel", "image_deb", "deb", <<"deb", m.deb>>, FALSE)
           tar == Output("rootfs", "tar", "tar", <<"tar", m.tar>>, FALSE)
           pkgs == Output("rootfs", "manifest", "pkgs", <<"pkgs", m.pkgs>>, FALSE)
           plan == Output("rootfs", "plan", "plan", <<"plan", m.plan>>, FALSE)
           files == PerImage("files-manifest", "files")
<1>1. deb \in O /\ tar \in O /\ pkgs \in O /\ plan \in O /\ files \in O
  BY RowFacts
<1>2. \A r \in R :
        /\ r.file = "deb" => r.sha256 = <<"deb", n.deb>>
        /\ r.file = "tar" => r.sha256 = <<"tar", n.tar>>
        /\ r.file = "pkgs" => r.sha256 = <<"pkgs", n.pkgs>>
        /\ r.file = "plan" => r.sha256 = <<"plan", n.plan>>
        /\ IsDiskImage(r) <=> r.file \in Containers
  BY RowFacts
<1>3. \A o \in O : IsDiskImage(o) <=> o.file \in Containers
  BY RowFacts
<1>4. /\ deb.file = "deb" /\ deb.sha256 = <<"deb", m.deb>> /\ ~deb.per_image
      /\ tar.file = "tar" /\ tar.sha256 = <<"tar", m.tar>> /\ ~tar.per_image
      /\ pkgs.file = "pkgs" /\ pkgs.sha256 = <<"pkgs", m.pkgs>> /\ ~pkgs.per_image
      /\ plan.file = "plan" /\ plan.sha256 = <<"plan", m.plan>> /\ ~plan.per_image
      /\ files.per_image
  BY DEF Output, PerImage
<1> HIDE DEF O, R, deb, tar, pkgs, plan, files
<1>5. \A o \in O :
        /\ \E r \in R : r.file = o.file
        /\ ~o.per_image => \E r \in R : r.file = o.file /\ r.sha256 = o.sha256
        /\ o.per_image /\ compared => same
  <2>1. Failed(Judge(O, R, compared, same)) = {}
    BY DEF O, R
  <2> QED BY <2>1, NoneFailed
<1>6. \A x, y : x # y => <<"deb", x>> # <<"deb", y>> /\ <<"tar", x>> # <<"tar", y>> /\ <<"pkgs", x>> # <<"pkgs", y>> /\ <<"plan", x>> # <<"plan", y>>
  <2> SUFFICES ASSUME NEW x, NEW y, x # y
               PROVE  <<"deb", x>> # <<"deb", y>> /\ <<"tar", x>> # <<"tar", y>> /\ <<"pkgs", x>> # <<"pkgs", y>> /\ <<"plan", x>> # <<"plan", y>>
    OBVIOUS
  <2>1. \A k, z : <<k, z>>[2] = z
    OBVIOUS
  <2> QED BY <2>1
<1>7. m.deb = n.deb
  <2>1. PICK r \in R : r.file = "deb" /\ r.sha256 = <<"deb", m.deb>>
    BY <1>1, <1>4, <1>5
  <2> QED BY <2>1, <1>2, <1>6
<1>8. m.tar = n.tar
  <2>1. PICK r \in R : r.file = "tar" /\ r.sha256 = <<"tar", m.tar>>
    BY <1>1, <1>4, <1>5
  <2> QED BY <2>1, <1>2, <1>6
<1>9. m.pkgs = n.pkgs
  <2>1. PICK r \in R : r.file = "pkgs" /\ r.sha256 = <<"pkgs", m.pkgs>>
    BY <1>1, <1>4, <1>5
  <2> QED BY <2>1, <1>2, <1>6
<1>10. m.plan = n.plan
  <2>1. PICK r \in R : r.file = "plan" /\ r.sha256 = <<"plan", m.plan>>
    BY <1>1, <1>4, <1>5
  <2> QED BY <2>1, <1>2, <1>6
<1>11. compared => same
  BY <1>1, <1>4, <1>5
<1>12. \A o \in O : IsDiskImage(o) => \E r \in R : r.file = o.file /\ IsDiskImage(r)
  BY <1>2, <1>3, <1>5
<1> QED BY <1>7, <1>8, <1>9, <1>10, <1>11, <1>12 DEF O, R

\* A clean verdict on two finished directories.
LEMMA ReproducedTells ==
    ASSUME NEW dir, NEW w, NEW v, NEW pw, NEW flags, NEW m, NEW tree, NEW p, IsAccount(dir, w, v, pw, flags, m, tree, p),
           NEW other, NEW w2, NEW v2, NEW pw2, NEW flags2, NEW n, NEW tree2, NEW q, IsAccount(other, w2, v2, pw2, flags2, n, tree2, q),
           Failed(JudgeRebuild(dir, other)) = {}
    PROVE  /\ dir.deb = other.deb /\ dir.tar = other.tar /\ dir.pkgs = other.pkgs /\ dir.plan = other.plan
           /\ \A o \in p.outputs : IsDiskImage(o) =>
                /\ SameBarShadow(The(dir.images[o.file]).tree, The(other.images[o.file]).tree)
                /\ The(dir.images[o.file]).table = The(other.images[o.file]).table
<1> DEFINE compared == Lists(p) /\ Lists(q)
           alike == FilesAgree(Parse(dir.listing), Parse(other.listing))
           disk == DiskDiffers(p, dir, q, other)
           same == compared /\ alike /\ ~disk
<1>1. /\ p = The(dir.prov) /\ p.outputs = Rows(m, flags) /\ Lists(p) /\ m.image.tree = tree
      /\ dir.deb = <<m.deb>> /\ dir.tar = <<m.tar>> /\ dir.pkgs = <<m.pkgs>> /\ dir.plan = <<m.plan>>
      /\ IsListable(tree) /\ Parse(dir.listing) = Assemble(tree)
      /\ \A o \in p.outputs : IsDiskImage(o) => dir.images[o.file] = <<m.image>>
  BY DEF IsAccount
<1>2. /\ q = The(other.prov) /\ q.outputs = Rows(n, flags2) /\ Lists(q) /\ n.image.tree = tree2
      /\ other.deb = <<n.deb>> /\ other.tar = <<n.tar>> /\ other.pkgs = <<n.pkgs>> /\ other.plan = <<n.plan>>
      /\ IsListable(tree2) /\ Parse(other.listing) = Assemble(tree2)
      /\ \A o \in q.outputs : IsDiskImage(o) => other.images[o.file] = <<n.image>>
  BY DEF IsAccount
<1>3. JudgeRebuild(dir, other) = Judge(p.outputs, q.outputs, compared, same)
  <2>1. JudgeRebuild(dir, other) =
          Judge(The(dir.prov).outputs, The(other.prov).outputs, Lists(The(dir.prov)) /\ Lists(The(other.prov)),
                (Lists(The(dir.prov)) /\ Lists(The(other.prov)))
                  /\ (FilesAgree(Parse(dir.listing), Parse(other.listing)) /\ ~DiskDiffers(The(dir.prov), dir, The(other.prov), other)))
    BY DEF JudgeRebuild
  <2>2. Lists(The(dir.prov)) /\ Lists(The(other.prov)) /\ compared
    BY <1>1, <1>2
  <2>3. same <=> alike /\ ~disk
    BY <2>2
  <2> HIDE DEF same, compared, alike, disk
  <2> QED BY <2>1, <2>2, <2>3, <1>1, <1>2 DEF alike, disk
<1>4. compared
  BY <1>1, <1>2
<1>5. same => alike /\ ~disk
  OBVIOUS
<1> HIDE DEF same, compared
<1>6. /\ m.deb = n.deb /\ m.tar = n.tar /\ m.pkgs = n.pkgs /\ m.plan = n.plan
      /\ compared => same
      /\ \A o \in Rows(m, flags) : IsDiskImage(o) => \E r \in Rows(n, flags2) : r.file = o.file /\ IsDiskImage(r)
  <2>1. Failed(Judge(Rows(m, flags), Rows(n, flags2), compared, same)) = {}
    BY <1>1, <1>2, <1>3
  <2> QED BY <2>1, SameRows
<1>7. alike /\ ~disk
  BY <1>4, <1>5, <1>6
<1>8. SameBarShadow(tree, tree2)
  <2>1. IsFilesystem(tree) /\ IsFilesystem(tree2)
    BY <1>1, <1>2 DEF IsListable
  <2>2. FilesAgree(Assemble(tree), Assemble(tree2))
    BY <1>1, <1>2, <1>7
  <2> QED BY <2>1, <2>2, AgreeMeansSame
<1>9. ASSUME NEW o \in p.outputs, IsDiskImage(o)
      PROVE  /\ SameBarShadow(The(dir.images[o.file]).tree, The(other.images[o.file]).tree)
             /\ The(dir.images[o.file]).table = The(other.images[o.file]).table
  <2>1. dir.images[o.file] = <<m.image>>
    BY <1>1, <1>9
  <2>2. other.images[o.file] = <<n.image>>
    <3>1. PICK r \in q.outputs : r.file = o.file /\ IsDiskImage(r)
      BY <1>1, <1>2, <1>6, <1>9
    <3>2. other.images[r.file] = <<n.image>>
      BY <1>2, <3>1
    <3> QED BY <3>1, <3>2
  <2>3. The(dir.images[o.file]).tree = tree /\ The(other.images[o.file]).tree = tree2
    BY <1>1, <1>2, <2>1, <2>2 DEF The
  <2>4. The(dir.images[o.file]).table = The(other.images[o.file]).table
    <3>1. Has(other.images[o.file])
      BY <2>2 DEF Has
    <3> QED BY <1>7, <1>9, <3>1 DEF disk, DiskDiffers
  <2> QED BY <1>8, <2>3, <2>4
<1> QED BY <1>1, <1>2, <1>6, <1>9

\* judge and disk_differences, for every world: a rebuild said to reproduce a finished
\* build has its packages, its rootfs and its plan, and in every recorded image the same
\* files and the same partitions.
THEOREM ReproducedMeansSameHolds == RecordsSpec => []ReproducedMeansSame
<1>1. RecordsInv => ReproducedMeansSame
  <2> SUFFICES ASSUME RecordsInv, answer.asked = "reproduce", answer.says = "reproduced", shelf["published"].vouched,
                      NEW old, old = shelf["published"], NEW new, new = shelf["rebuilt"]
               PROVE  /\ old.deb = new.deb /\ old.tar = new.tar /\ old.pkgs = new.pkgs /\ old.plan = new.plan
                      /\ \A o \in The(old.prov).outputs : IsDiskImage(o) =>
                            /\ SameBarShadow(The(old.images[o.file]).tree, The(new.images[o.file]).tree)
                            /\ The(old.images[o.file]).table = The(new.images[o.file]).table
    BY DEF ReproducedMeansSame
  <2>1. new.vouched /\ Failed(JudgeRebuild(old, new)) = {}
    BY DEF RecordsInv, AnswerInv, Reproduced
  <2>2. Finished(old) /\ Finished(new)
    BY <2>1 DEF RecordsInv, ShelfInv
  <2>3. PICK w, v, pw, flags, m, tree, p : IsAccount(old, w, v, pw, flags, m, tree, p)
    BY <2>2, FinishedFacts
  <2>4. PICK w2, v2, pw2, flags2, n, tree2, q : IsAccount(new, w2, v2, pw2, flags2, n, tree2, q)
    BY <2>2, FinishedFacts
  <2>5. p = The(old.prov)
    BY <2>3 DEF IsAccount
  <2>6. /\ old.deb = new.deb /\ old.tar = new.tar /\ old.pkgs = new.pkgs /\ old.plan = new.plan
        /\ \A o \in p.outputs : IsDiskImage(o) =>
              /\ SameBarShadow(The(old.images[o.file]).tree, The(new.images[o.file]).tree)
              /\ The(old.images[o.file]).table = The(new.images[o.file]).table
    BY <2>1, <2>3, <2>4, ReproducedTells
  <2> QED BY <2>5, <2>6
<1> QED BY <1>1, RecordsInvInductive, PTL
-----------------------------------------------------------------------------
\* Of two sections that both sides have, a quiet one has no changes.
LEMMA ComparedTell ==
    ASSUME NEW a, NEW b
    PROVE  /\ IsQuiet(Compared(<<a>>, <<b>>, ComparePackages)) => ComparePackages(a, b) = {}
           /\ IsQuiet(Compared(<<a>>, <<b>>, Changed)) => Changed(a, b) = {}
           /\ IsQuiet(Compared(<<a>>, <<b>>, CompareBlobs)) => CompareBlobs(a, b) = {}
           /\ IsQuiet(Compared(<<a>>, <<b>>, CompareBuilder)) => CompareBuilder(a, b) = {}
           /\ IsQuiet(Compared(<<a>>, <<b>>, CompareFiles)) => CompareFiles(a, b) = {}
<1>1. Has(<<a>>) /\ Has(<<b>>) /\ The(<<a>>) = a /\ The(<<b>>) = b
  BY DEF Has, The
<1>2. /\ Compared(<<a>>, <<b>>, ComparePackages) = <<ComparePackages(a, b)>>
      /\ Compared(<<a>>, <<b>>, Changed) = <<Changed(a, b)>>
      /\ Compared(<<a>>, <<b>>, CompareBlobs) = <<CompareBlobs(a, b)>>
      /\ Compared(<<a>>, <<b>>, CompareBuilder) = <<CompareBuilder(a, b)>>
      /\ Compared(<<a>>, <<b>>, CompareFiles) = <<CompareFiles(a, b)>>
  BY <1>1 DEF Compared
<1> QED BY <1>2, QuietIsEmpty

LEMMA BlobsTell ==
    ASSUME NEW f, NEW g, f = [b \in DOMAIN f |-> f[b]], g = [b \in DOMAIN g |-> g[b]], CompareBlobs(f, g) = {}
    PROVE  f = g
<1>1. \A b \in DOMAIN f \cup DOMAIN g : b \in DOMAIN f \cap DOMAIN g /\ f[b] = g[b]
  BY DEF CompareBlobs
<1>2. DOMAIN f = DOMAIN g
  BY <1>1
<1> QED BY <1>1, <1>2

LEMMA KernelTell ==
    ASSUME NEW a, NEW b, NEW c, NEW d, NEW e, NEW a2, NEW b2, NEW c2, NEW d2, NEW e2,
           Changed(KernelFacts(a, <<b>>, <<>>, c, d, e), KernelFacts(a2, <<b2>>, <<>>, c2, d2, e2)) = {}
    PROVE  a = a2 /\ b = b2 /\ c = c2 /\ d = d2 /\ e = e2
<1> DEFINE x == KernelFacts(a, <<b>>, <<>>, c, d, e)
           y == KernelFacts(a2, <<b2>>, <<>>, c2, d2, e2)
<1>1. /\ DOMAIN x = {"id", "flavor", "source", "ref", "commit", "package"}
      /\ x.id = a /\ x.flavor = <<b>> /\ x.ref = c /\ x.commit = d /\ x.package = e
      /\ y.id = a2 /\ y.flavor = <<b2>> /\ y.ref = c2 /\ y.commit = d2 /\ y.package = e2
  BY DEF KernelFacts
<1>2. Changed(x, y) = {}
  OBVIOUS
<1> HIDE DEF x, y
<1>3. \A f \in DOMAIN x : x[f] = y[f]
  BY <1>2 DEF Changed
<1>4. x.id = y.id /\ x.flavor = y.flavor /\ x.ref = y.ref /\ x.commit = y.commit /\ x.package = y.package
  BY <1>1, <1>3
<1>5. <<b>>[1] = b /\ <<b2>>[1] = b2
  OBVIOUS
<1> QED BY <1>1, <1>4, <1>5

LEMMA BuilderTell ==
    ASSUME NEW p, NEW q, CompareBuilder(BuilderFacts(p), BuilderFacts(q)) = {}
    PROVE  p.toolchain.cross = q.toolchain.cross
<1> DEFINE x == BuilderFacts(p)
           y == BuilderFacts(q)
<1>1. "cross" \in DOMAIN x /\ x["cross"] = p.toolchain.cross /\ y["cross"] = q.toolchain.cross
  <2>1. \A r : "cross" \in DOMAIN BuilderFacts(r) /\ BuilderFacts(r)["cross"] = r.toolchain.cross
    <3> SUFFICES ASSUME NEW r PROVE "cross" \in DOMAIN BuilderFacts(r) /\ BuilderFacts(r)["cross"] = r.toolchain.cross
      OBVIOUS
    <3> DEFINE rows == LastBy(r.archives, MirrorOf)
               archives == [k \in DOMAIN rows |-> ReleaseOf(rows[k])]
    <3>1. BuilderFacts(r) = [stamp |-> r.built_with, host_arch |-> r.toolchain.host_arch, target_arch |-> r.toolchain.target_arch,
                             cross |-> r.toolchain.cross, archives |-> archives]
      BY DEF BuilderFacts
    <3> HIDE DEF archives
    <3> QED BY <3>1
  <2> QED BY <2>1
<1>2. Changed(x, y) = {}
  BY DEF CompareBuilder
<1> HIDE DEF x, y
<1>3. x["cross"] = y["cross"]
  BY <1>1, <1>2 DEF Changed
<1> QED BY <1>1, <1>3

LEMMA FilesTell ==
    ASSUME NEW s, NEW t, IsListable(s), IsListable(t), CompareFiles(Assemble(s), Assemble(t)) = {}
    PROVE  Visible(s) = Visible(t)
<1>1. IsEmpty(FilesDiff(Assemble(s), Assemble(t)))
  BY DEF CompareFiles
<1>2. IsFilesystem(s) /\ IsFilesystem(t)
  BY DEF IsListable
<1> QED BY <1>1, <1>2, DiffIsOfTheFiles

\* Every section is quiet.
AllQuiet(l, r) ==
    /\ IsQuiet(Compared(l.packages, r.packages, ComparePackages)) /\ IsQuiet(Compared(l.kernel, r.kernel, Changed))
    /\ IsQuiet(ComparePatches(l.patches, r.patches)) /\ IsQuiet(CompareSources(l.sources, r.sources))
    /\ IsQuiet(Compared(l.blobs, r.blobs, CompareBlobs)) /\ IsQuiet(Compared(l.builder, r.builder, CompareBuilder))
    /\ IsQuiet(Compared(l.files, r.files, CompareFiles))

LEMMA QuietReport ==
    ASSUME NEW l, NEW r, NEW report, report = CompareSides(l, r), \A s \in DOMAIN report : IsQuiet(report[s])
    PROVE  AllQuiet(l, r)
<1> DEFINE packages == Compared(l.packages, r.packages, ComparePackages)
           kernel == Compared(l.kernel, r.kernel, Changed)
           patches == ComparePatches(l.patches, r.patches)
           sources == CompareSources(l.sources, r.sources)
           blobs == Compared(l.blobs, r.blobs, CompareBlobs)
           builder == Compared(l.builder, r.builder, CompareBuilder)
           files == Compared(l.files, r.files, CompareFiles)
<1>1. report = [packages |-> packages, kernel |-> kernel, patches |-> patches, sources |-> sources, blobs |-> blobs,
                builder |-> builder, files |-> files]
  BY DEF CompareSides
<1> HIDE DEF packages, kernel, patches, sources, blobs, builder, files
<1>2. /\ IsQuiet(report["packages"]) /\ IsQuiet(report["kernel"]) /\ IsQuiet(report["patches"]) /\ IsQuiet(report["sources"])
      /\ IsQuiet(report["blobs"]) /\ IsQuiet(report["builder"]) /\ IsQuiet(report["files"])
  BY <1>1
<1>3. /\ report["packages"] = packages /\ report["kernel"] = kernel /\ report["patches"] = patches /\ report["sources"] = sources
      /\ report["blobs"] = blobs /\ report["builder"] = builder /\ report["files"] = files
  BY <1>1
<1>4. /\ IsQuiet(packages) /\ IsQuiet(kernel) /\ IsQuiet(patches) /\ IsQuiet(sources)
      /\ IsQuiet(blobs) /\ IsQuiet(builder) /\ IsQuiet(files)
  BY <1>2, <1>3
<1> QED BY <1>4 DEF AllQuiet, packages, kernel, patches, sources, blobs, builder, files

\* What a record reads back as, section by section.
LEMMA RecordSide ==
    ASSUME NEW dir, NEW w, NEW v, NEW pw, NEW flags, NEW m, NEW tree, NEW p, IsAccount(dir, w, v, pw, flags, m, tree, p)
    PROVE  LET side == FromProvenance(p, dir)
               s == p.sources IN
           /\ side.kernel = <<KernelFacts(s.kernel_id, <<s.kernel_flavor>>, <<>>, s.kernel_ref, s.kernel_commit, s.kernel_package)>>
           /\ side.patches = Present(RecordPatches(p), NoPatches) /\ side.sources = Present(RecordPins(p), NoPin)
           /\ side.blobs = BlobFacts(p.blobs) /\ side.packages = <<m.pkgs>> /\ side.builder = <<BuilderFacts(p)>>
           /\ side.files = <<Assemble(tree)>>
<1>1. dir.pkgs = <<m.pkgs>> /\ Lists(p) /\ Parses(dir.listing) /\ Parse(dir.listing) = Assemble(tree)
  BY DEF IsAccount
<1>2. FromProvenance(p, dir) =
        [kernel |-> <<KernelFacts(p.sources.kernel_id, <<p.sources.kernel_flavor>>, <<>>, p.sources.kernel_ref, p.sources.kernel_commit,
                                  p.sources.kernel_package)>>,
         patches |-> Present(RecordPatches(p), NoPatches), sources |-> Present(RecordPins(p), NoPin),
         blobs |-> BlobFacts(p.blobs), packages |-> dir.pkgs, builder |-> <<BuilderFacts(p)>>,
         files |-> IF Lists(p) /\ Parses(dir.listing) THEN <<Parse(dir.listing)>> ELSE <<>>]
  BY DEF FromProvenance
<1>3. (IF Lists(p) /\ Parses(dir.listing) THEN <<Parse(dir.listing)>> ELSE <<>>) = <<Assemble(tree)>>
  BY <1>1
<1> QED BY <1>1, <1>2, <1>3

\* Two finished builds that diff finds alike.
IsAlike(dir, p, other, q) ==
    /\ p.rootfs.manifest_sha256 = q.rootfs.manifest_sha256
    /\ [p.sources EXCEPT !.patch_series = Elements(p.sources.patch_series)]
          = [q.sources EXCEPT !.patch_series = Elements(q.sources.patch_series)]
    /\ InAnyOrder(p.apps) = InAnyOrder(q.apps) /\ p.userspace = q.userspace /\ p.blobs = q.blobs
    /\ p.toolchain.cross = q.toolchain.cross
    /\ \A o \in p.outputs, r \in q.outputs : IsDiskImage(o) /\ IsDiskImage(r) =>
          Visible(The(dir.images[o.file]).tree) = Visible(The(other.images[r.file]).tree)

LEMMA QuietTells ==
    ASSUME NEW dir, NEW w, NEW v, NEW pw, NEW flags, NEW m, NEW tree, NEW p, IsAccount(dir, w, v, pw, flags, m, tree, p),
           NEW other, NEW w2, NEW v2, NEW pw2, NEW flags2, NEW n, NEW tree2, NEW q, IsAccount(other, w2, v2, pw2, flags2, n, tree2, q),
           AllQuiet(FromProvenance(p, dir), FromProvenance(q, other))
    PROVE  IsAlike(dir, p, other, q)
<1> DEFINE l == FromProvenance(p, dir)
           r == FromProvenance(q, other)
           s == p.sources
           t == q.sources
<1>1. /\ l.kernel = <<KernelFacts(s.kernel_id, <<s.kernel_flavor>>, <<>>, s.kernel_ref, s.kernel_commit, s.kernel_package)>>
      /\ l.patches = Present(RecordPatches(p), NoPatches) /\ l.sources = Present(RecordPins(p), NoPin)
      /\ l.blobs = BlobFacts(p.blobs) /\ l.packages = <<m.pkgs>> /\ l.builder = <<BuilderFacts(p)>> /\ l.files = <<Assemble(tree)>>
  BY RecordSide
<1>2. /\ r.kernel = <<KernelFacts(t.kernel_id, <<t.kernel_flavor>>, <<>>, t.kernel_ref, t.kernel_commit, t.kernel_package)>>
      /\ r.patches = Present(RecordPatches(q), NoPatches) /\ r.sources = Present(RecordPins(q), NoPin)
      /\ r.blobs = BlobFacts(q.blobs) /\ r.packages = <<n.pkgs>> /\ r.builder = <<BuilderFacts(q)>> /\ r.files = <<Assemble(tree2)>>
  BY RecordSide
<1>3. AllQuiet(l, r)
  OBVIOUS
<1> HIDE DEF l, r
<1>4. /\ w \in Worlds /\ v \in Worlds /\ m.pkgs = v.served.pkgs /\ IsListable(tree) /\ m.image.tree = tree
      /\ p.sources = SourcesProvenance(w.build, w.lock) /\ p.rootfs = RootfsProvenance(w.lock, m)
      /\ p.userspace = UserspaceSources(w.lock) /\ p.apps = AppSources(w.lock) /\ p.blobs = w.lock.blobs
      /\ \A o \in p.outputs : IsDiskImage(o) => dir.images[o.file] = <<m.image>>
  BY DEF IsAccount
<1>5. /\ w2 \in Worlds /\ v2 \in Worlds /\ n.pkgs = v2.served.pkgs /\ IsListable(tree2) /\ n.image.tree = tree2
      /\ q.sources = SourcesProvenance(w2.build, w2.lock) /\ q.rootfs = RootfsProvenance(w2.lock, n)
      /\ q.userspace = UserspaceSources(w2.lock) /\ q.apps = AppSources(w2.lock) /\ q.blobs = w2.lock.blobs
      /\ \A o \in q.outputs : IsDiskImage(o) => other.images[o.file] = <<n.image>>
  BY DEF IsAccount
<1>6. m.pkgs = n.pkgs
  <2>1. ComparePackages(m.pkgs, n.pkgs) = {}
    BY <1>1, <1>2, <1>3, ComparedTell DEF AllQuiet
  <2>2. ManifestsAgree(m.pkgs, m.pkgs) /\ ManifestsAgree(n.pkgs, n.pkgs) /\ ManifestsAgree(m.pkgs, n.pkgs)
    BY <1>4, <1>5, RecordsAssumption
  <2> QED BY <2>1, <2>2, PackagesTell
<1>7. p.rootfs.manifest_sha256 = q.rootfs.manifest_sha256
  BY <1>4, <1>5, <1>6 DEF RootfsProvenance
<1>8. /\ s.kernel_id = t.kernel_id /\ s.kernel_flavor = t.kernel_flavor /\ s.kernel_ref = t.kernel_ref
      /\ s.kernel_commit = t.kernel_commit /\ s.kernel_package = t.kernel_package
  <2>1. Changed(KernelFacts(s.kernel_id, <<s.kernel_flavor>>, <<>>, s.kernel_ref, s.kernel_commit, s.kernel_package),
                KernelFacts(t.kernel_id, <<t.kernel_flavor>>, <<>>, t.kernel_ref, t.kernel_commit, t.kernel_package)) = {}
    BY <1>1, <1>2, <1>3, ComparedTell DEF AllQuiet
  <2> HIDE DEF s, t
  <2> QED BY <2>1, KernelTell
<1>9. /\ [p.sources EXCEPT !.patch_series = Elements(p.sources.patch_series)]
            = [q.sources EXCEPT !.patch_series = Elements(q.sources.patch_series)]
      /\ InAnyOrder(p.apps) = InAnyOrder(q.apps) /\ p.userspace = q.userspace
  <2>1. IsAppLock(w.lock) /\ IsAppLock(w2.lock)
    BY <1>4, <1>5, RecordsAssumption DEF IsAppLock
  <2>2. /\ IsQuiet(CompareSources(Present(RecordPins(p), NoPin), Present(RecordPins(q), NoPin)))
        /\ IsQuiet(ComparePatches(Present(RecordPatches(p), NoPatches), Present(RecordPatches(q), NoPatches)))
    BY <1>1, <1>2, <1>3 DEF AllQuiet
  <2> QED BY <1>4, <1>5, <1>8, <2>1, <2>2, PinsTell
<1>10. p.blobs = q.blobs
  <2>1. p.blobs = [b \in DOMAIN p.blobs |-> p.blobs[b]] /\ q.blobs = [b \in DOMAIN q.blobs |-> q.blobs[b]]
    BY <1>4, <1>5, RecordsAssumption
  <2>2. s.uboot_commit = t.uboot_commit
    <3>1. /\ [p.sources EXCEPT !.patch_series = Elements(p.sources.patch_series)].uboot_commit = s.uboot_commit
          /\ [q.sources EXCEPT !.patch_series = Elements(q.sources.patch_series)].uboot_commit = t.uboot_commit
      BY <1>4, <1>5 DEF SourcesProvenance
    <3> QED BY <1>9, <3>1
  <2>3. DOMAIN p.blobs # {} <=> DOMAIN q.blobs # {}
    <3>1. s.uboot_commit = CommitOf(w.lock.git["uboot"]) /\ t.uboot_commit = CommitOf(w2.lock.git["uboot"])
      <4>1. ASSUME NEW b, NEW k PROVE SourcesProvenance(b, k).uboot_commit = CommitOf(k.git["uboot"])
        BY DEF SourcesProvenance
      <4>2. s = SourcesProvenance(w.build, w.lock) /\ t = SourcesProvenance(w2.build, w2.lock)
        BY <1>4, <1>5
      <4> HIDE DEF s, t
      <4> QED BY <4>1, <4>2
    <3>2. Has(w.lock.git["uboot"]) <=> Has(w2.lock.git["uboot"])
      <4>1. ASSUME NEW c PROVE Has(c) <=> CommitOf(c) # <<>>
        <5>1. <<The(c).commit>> # <<>>
          OBVIOUS
        <5> QED BY <5>1 DEF CommitOf, Has
      <4> HIDE DEF s, t
      <4> QED BY <2>2, <3>1, <4>1
    <3> QED BY <1>4, <1>5, <3>2, RecordsAssumption
  <2>4. CASE DOMAIN p.blobs = {}
    BY <2>1, <2>3, <2>4
  <2>5. CASE DOMAIN p.blobs # {}
    <3>1. BlobFacts(p.blobs) = <<p.blobs>> /\ BlobFacts(q.blobs) = <<q.blobs>>
      BY <2>3, <2>5 DEF BlobFacts
    <3>2. CompareBlobs(p.blobs, q.blobs) = {}
      BY <1>1, <1>2, <1>3, <3>1, ComparedTell DEF AllQuiet
    <3> QED BY <2>1, <3>2, BlobsTell
  <2> QED BY <2>4, <2>5
<1>11. p.toolchain.cross = q.toolchain.cross
  <2>1. CompareBuilder(BuilderFacts(p), BuilderFacts(q)) = {}
    BY <1>1, <1>2, <1>3, ComparedTell DEF AllQuiet
  <2> QED BY <2>1, BuilderTell
<1>12. Visible(tree) = Visible(tree2)
  <2>1. CompareFiles(Assemble(tree), Assemble(tree2)) = {}
    BY <1>1, <1>2, <1>3, ComparedTell DEF AllQuiet
  <2> QED BY <1>4, <1>5, <2>1, FilesTell
<1>13. ASSUME NEW o \in p.outputs, NEW x \in q.outputs, IsDiskImage(o), IsDiskImage(x)
       PROVE  Visible(The(dir.images[o.file]).tree) = Visible(The(other.images[x.file]).tree)
  <2>1. The(dir.images[o.file]).tree = tree /\ The(other.images[x.file]).tree = tree2
    <3>1. dir.images[o.file] = <<m.image>> /\ other.images[x.file] = <<n.image>>
      BY <1>4, <1>5, <1>13
    <3> QED BY <1>4, <1>5, <3>1 DEF The
  <2> QED BY <1>12, <2>1
<1> QED BY <1>7, <1>9, <1>10, <1>11, <1>13 DEF IsAlike

\* compare of two records, for every world: two finished builds it finds alike installed
\* the same packages of the same digests from the same sources, and their newest images
\* show the same files.
THEOREM QuietMeansSameHolds == RecordsSpec => []QuietMeansSame
<1>1. RecordsInv => QuietMeansSame
  <2> SUFFICES ASSUME RecordsInv, answer.asked = "diff", answer.quiet, {answer.left, answer.right} = DOMAIN shelf,
                      \A d \in DOMAIN shelf : shelf[d].vouched,
                      NEW old, old = shelf["published"], NEW new, new = shelf["rebuilt"]
               PROVE  IsAlike(old, The(old.prov), new, The(new.prov))
    BY DEF QuietMeansSame, IsAlike
  <2>1. DOMAIN shelf = {"published", "rebuilt"} /\ Finished(old) /\ Finished(new)
    BY DEF RecordsInv, ShelfInv
  <2>2. \A s \in DOMAIN Report : IsQuiet(Report[s])
    BY DEF RecordsInv, AnswerInv
  <2>3. AllQuiet(ReadSide(answer.left), ReadSide(answer.right))
    BY <2>2, QuietReport DEF Report
  <2>4. PICK w, v, pw, flags, m, tree, p : IsAccount(old, w, v, pw, flags, m, tree, p)
    BY <2>1, FinishedFacts
  <2>5. PICK w2, v2, pw2, flags2, n, tree2, q : IsAccount(new, w2, v2, pw2, flags2, n, tree2, q)
    BY <2>1, FinishedFacts
  <2>6. p = The(old.prov) /\ q = The(new.prov)
    BY <2>4, <2>5 DEF IsAccount
  <2>7. ReadSide("published") = FromProvenance(p, old) /\ ReadSide("rebuilt") = FromProvenance(q, new)
    BY <2>1, <2>6 DEF ReadSide
  <2>8. CASE answer.left = "published" /\ answer.right = "rebuilt"
    <3>1. AllQuiet(FromProvenance(p, old), FromProvenance(q, new))
      BY <2>3, <2>7, <2>8
    <3> QED BY <2>4, <2>5, <2>6, <3>1, QuietTells
  <2>9. CASE answer.left = "rebuilt" /\ answer.right = "published"
    <3>1. AllQuiet(FromProvenance(q, new), FromProvenance(p, old))
      BY <2>3, <2>7, <2>9
    <3>2. IsAlike(new, q, old, p)
      BY <2>4, <2>5, <3>1, QuietTells
    <3> QED BY <2>6, <3>2 DEF IsAlike
  <2>10. \/ answer.left = "published" /\ answer.right = "rebuilt"
         \/ answer.left = "rebuilt" /\ answer.right = "published"
    BY <2>1
  <2> QED BY <2>8, <2>9, <2>10
<1> QED BY <1>1, RecordsInvInductive, PTL
=============================================================================
