---------------------------- MODULE NameListProofs ----------------------------
(***************************************************************************)
(* Theorems about NameList, for any number of processes and accounts, any  *)
(* number of names, any size of a page and any lifetime of the cache, with *)
(* and without faults.                                                     *)
(***************************************************************************)
EXTENDS NameList, FiniteSetTheorems, SequenceTheorems, TLAPS

-----------------------------------------------------------------------------
(* Sets of names: they are finite, and have a first and a last member.     *)

LEMMA NamesAreNumbers ==
    ASSUME NEW S \in SUBSET Name
    PROVE  \A n \in S : n \in Nat /\ 1 <= n /\ n <= Names
BY NameListAssumption DEF Name

LEMMA NamesAreFinite ==
    ASSUME NEW S \in SUBSET Name
    PROVE  IsFiniteSet(S) /\ Cardinality(S) \in Nat
<1>1. IsFiniteSet(Name)
  BY NameListAssumption, FS_Interval DEF Name
<1>2. IsFiniteSet(S)
  BY <1>1, FS_Subset
<1>. QED
  BY <1>2, FS_CardinalityType

LEMMA LeastIn ==
    ASSUME NEW S \in SUBSET Nat, S # {}
    PROVE  \E n \in S : \A m \in S : n <= m
<1>1. PICK n \in S : \A m \in S : <<m, n>> \notin OpToRel(<, Nat)
  BY NatLessThanWellFounded, WFMin, Zenon
<1>2. \A m \in S : ~(m < n)
  BY <1>1 DEF OpToRel
<1>. QED
  BY <1>2

LEMMA GreatestIn ==
    ASSUME NEW S \in SUBSET Name, S # {}
    PROVE  \E n \in S : \A m \in S : m <= n
<1>. DEFINE T == {Names - n : n \in S}
<1>1. T \in SUBSET Nat /\ T # {}
  <2>1. \A n \in S : Names - n \in Nat
    BY NamesAreNumbers, NameListAssumption
  <2>. QED
    BY <2>1
<1>2. PICK k \in T : \A l \in T : k <= l
  BY <1>1, LeastIn
<1>3. PICK n \in S : k = Names - n
  BY <1>2
<1>4. \A m \in S : k <= Names - m
  BY <1>2
<1>. QED
  BY <1>3, <1>4, NamesAreNumbers, NameListAssumption

-----------------------------------------------------------------------------
(* The order of the server.                                                *)

Increasing(s) == \A i, j \in DOMAIN s : i < j => s[i] < s[j]

NamesOf(s) == {s[i] : i \in DOMAIN s}

(* The place of a name in a set of names: names in order have places in    *)
(* order, and every place up to the number of the names is taken.          *)
Rank(S, n) == Cardinality({m \in S : m <= n})

LEMMA RankType ==
    ASSUME NEW S \in SUBSET Name, NEW n \in S
    PROVE  Rank(S, n) \in 1..Cardinality(S)
<1>. DEFINE T == {m \in S : m <= n}
<1>1. IsFiniteSet(S) /\ Cardinality(S) \in Nat
  BY NamesAreFinite
<1>2. T \in SUBSET S /\ T \in SUBSET Name
  OBVIOUS
<1>3. IsFiniteSet(T) /\ Cardinality(T) \in Nat /\ Cardinality(T) <= Cardinality(S)
  <2>. HIDE DEF T
  <2>. QED  BY <1>1, <1>2, NamesAreFinite, FS_Subset
<1>4. n \in T
  BY DEF Name
<1>5. Cardinality(T) # 0
  <2>. HIDE DEF T
  <2>. QED  BY <1>3, <1>4, FS_EmptySet
<1>. QED
  BY <1>1, <1>3, <1>5 DEF Rank

LEMMA RankGrows ==
    ASSUME NEW S \in SUBSET Name, NEW m \in S, NEW n \in S, m < n
    PROVE  Rank(S, m) < Rank(S, n)
<1>. DEFINE T == {k \in S : k <= m}
            U == {k \in S : k <= n}
<1>1. T \in SUBSET U /\ U \in SUBSET Name /\ T \in SUBSET Name /\ n \in U /\ n \notin T
  <2>1. \A x \in S : x \in Nat
    BY NamesAreNumbers
  <2>2. \A x \in S : x <= m => x <= n
    BY <2>1
  <2>. QED
    BY <2>1, <2>2
<1>2. Cardinality(T) < Cardinality(U)
  <2>. HIDE DEF T, U
  <2>1. IsFiniteSet(U) /\ Cardinality(U) \in Nat /\ Cardinality(T) \in Nat
    BY <1>1, NamesAreFinite
  <2>2. Cardinality(T) <= Cardinality(U) /\ (Cardinality(U) = Cardinality(T) => U = T)
    BY <2>1, <1>1, FS_Subset
  <2>. QED
    BY <2>1, <2>2, <1>1
<1>. QED
  BY <1>2 DEF Rank

LEMMA RankTakesAll ==
    ASSUME NEW S \in SUBSET Name, NEW i \in 1..Cardinality(S)
    PROVE  \E n \in S : Rank(S, n) = i
<1>. DEFINE r == [n \in S |-> Rank(S, n)]
            I == 1..Cardinality(S)
<1>1. IsFiniteSet(S) /\ Cardinality(S) \in Nat
  BY NamesAreFinite
<1>2. r \in [S -> I]
  BY RankType
<1>3. \A m, n \in S : m # n => Rank(S, m) # Rank(S, n)
  <2>. SUFFICES ASSUME NEW m \in S, NEW n \in S, m < n
       PROVE  Rank(S, m) # Rank(S, n)
    BY DEF Name
  <2>. QED
    BY RankGrows, RankType, <1>1
<1>4. r \in Injection(S, I)
  BY <1>2, <1>3 DEF Injection, IsInjective
<1>5. IsFiniteSet(I) /\ Cardinality(I) = Cardinality(S)
  BY <1>1, FS_Interval
<1>6. r \in Surjection(S, I)
  <2>. HIDE DEF r, I
  <2>. QED  BY <1>4, <1>5, FS_Injection
<1>7. \A t \in I : \E n \in S : r[n] = t
  BY <1>6 DEF Surjection
<1>. QED
  BY <1>7

(* A page is a list of the names on it, each once, in order.               *)
LEMMA InOrderIs ==
    ASSUME NEW S \in SUBSET Name
    PROVE  /\ InOrder(S) \in Seq(Name)
           /\ Increasing(InOrder(S))
           /\ NamesOf(InOrder(S)) = S
<1>. DEFINE k == Cardinality(S)
            s == InOrder(S)
            Ordered(t) == \A i, j \in DOMAIN t : i < j => t[i] < t[j]
<1>1. IsFiniteSet(S) /\ k \in Nat
  BY NamesAreFinite
<1>2. \E t \in [1..k -> S] : Ordered(t)
  <2>. DEFINE t == [i \in 1..k |-> CHOOSE n \in S : Rank(S, n) = i]
  <2>1. \A i \in 1..k : t[i] \in S /\ Rank(S, t[i]) = i
    BY RankTakesAll
  <2>2. t \in [1..k -> S]
    BY <2>1
  <2>3. ASSUME NEW i \in 1..k, NEW j \in 1..k, i < j
        PROVE  t[i] < t[j]
    <3>1. t[i] \in S /\ t[j] \in S /\ Rank(S, t[i]) = i /\ Rank(S, t[j]) = j
      BY <2>1
    <3>2. PICK x \in S : x = t[i]
      BY <3>1
    <3>3. PICK y \in S : y = t[j]
      BY <3>1
    <3>4. Rank(S, x) = i /\ Rank(S, y) = j
      BY <3>1, <3>2, <3>3
    <3>5. x # y
      BY <3>4, <2>3
    <3>6. ~(y < x)
      BY <3>4, <2>3, RankGrows
    <3>. QED
      BY <3>2, <3>3, <3>5, <3>6, NamesAreNumbers
  <2>. QED
    BY <2>2, <2>3
<1>3. s \in [1..k -> S] /\ Ordered(s)
  <2>. HIDE DEF k
  <2>1. s = CHOOSE t \in [1..k -> S] : Ordered(t)
    BY DEF InOrder, k
  <2>. HIDE DEF s, Ordered
  <2>. QED
    BY <1>2, <2>1
<1>. HIDE DEF s, k
<1>4. s \in Seq(Name)
  <2>1. s \in [1..k -> Name]
    BY <1>3
  <2>. QED
    BY <1>1, <2>1
<1>5. s \in Injection(1..k, S)
  <2>1. \A i \in 1..k : s[i] \in Nat
    BY <1>3, NamesAreNumbers
  <2>2. \A i, j \in 1..k : s[i] = s[j] => i = j
    BY <1>1, <1>3, <2>1
  <2>. QED
    BY <1>3, <2>2 DEF Injection, IsInjective
<1>6. IsFiniteSet(1..k) /\ Cardinality(1..k) = k
  BY <1>1, FS_Interval
<1>7. s \in Surjection(1..k, S)
  BY <1>1, <1>5, <1>6, FS_Injection DEF k
<1>8. NamesOf(s) = S
  BY <1>3, <1>7 DEF NamesOf, Surjection
<1>. QED
  BY <1>3, <1>4, <1>8 DEF s, Increasing

(* Names in order are as many as there are places for them.                *)
LEMMA Distinct ==
    ASSUME NEW s \in Seq(Name), Increasing(s)
    PROVE  Cardinality(NamesOf(s)) = Len(s)
<1>. DEFINE I == 1..Len(s)
            N == NamesOf(s)
<1>1. Len(s) \in Nat /\ DOMAIN s = I /\ s \in [I -> Name]
  BY LenProperties
<1>2. s \in [I -> N] /\ \A n \in N : \E i \in I : s[i] = n
  BY <1>1 DEF NamesOf
<1>3. \A i, j \in I : s[i] = s[j] => i = j
  BY <1>1 DEF Increasing, Name
<1>4. s \in Bijection(I, N)
  <2>. HIDE DEF I, N
  <2>. QED  BY <1>2, <1>3 DEF Bijection, Injection, Surjection, IsInjective
<1>5. IsFiniteSet(I) /\ Cardinality(I) = Len(s)
  BY <1>1, FS_Interval
<1>. HIDE DEF I, N
<1>6. Cardinality(N) = Cardinality(I)
  BY <1>4, <1>5, FS_Bijection DEF ExistsBijection
<1>. QED
  BY <1>5, <1>6 DEF N

(* One page behind the other.                                              *)
LEMMA Appended ==
    ASSUME NEW s \in Seq(Name), NEW t \in Seq(Name), Increasing(s), Increasing(t),
           \A m \in NamesOf(s), n \in NamesOf(t) : m < n
    PROVE  /\ s \o t \in Seq(Name)
           /\ NamesOf(s \o t) = NamesOf(s) \cup NamesOf(t)
           /\ Increasing(s \o t)
<1>. DEFINE u == s \o t
            k == Len(s)
            l == Len(t)
<1>1. k \in Nat /\ l \in Nat /\ DOMAIN s = 1..k /\ DOMAIN t = 1..l
  BY LenProperties
<1>2. /\ u \in Seq(Name)
      /\ Len(u) = k + l
      /\ \A i \in 1..(k + l) : u[i] = IF i <= k THEN s[i] ELSE t[i - k]
  BY ConcatProperties
<1>3. DOMAIN u = 1..(k + l)
  BY <1>2, LenProperties
<1>. HIDE DEF u, k, l
<1>4. \A i \in 1..k : u[i] = s[i]
  BY <1>1, <1>2
<1>5. \A j \in 1..l : u[k + j] = t[j]
  BY <1>1, <1>2
<1>6. \A i \in DOMAIN u : i \in 1..k \/ \E j \in 1..l : i = k + j
  <2>. SUFFICES ASSUME NEW i \in DOMAIN u, i \notin 1..k
       PROVE  i - k \in 1..l /\ i = k + (i - k)
    OBVIOUS
  <2>. QED
    BY <1>1, <1>3
<1>7. NamesOf(u) = NamesOf(s) \cup NamesOf(t)
  <2>1. \A i \in DOMAIN u : u[i] \in NamesOf(s) \cup NamesOf(t)
    BY <1>1, <1>4, <1>5, <1>6 DEF NamesOf
  <2>2. \A i \in 1..k : s[i] \in NamesOf(u)
    BY <1>1, <1>3, <1>4 DEF NamesOf
  <2>3. \A j \in 1..l : t[j] \in NamesOf(u)
    <3>. TAKE j \in 1..l
    <3>1. k + j \in DOMAIN u
      BY <1>1, <1>3
    <3>. QED
      BY <1>5, <3>1 DEF NamesOf
  <2>. QED
    BY <1>1, <2>1, <2>2, <2>3 DEF NamesOf
<1>8. Increasing(u)
  <2>. SUFFICES ASSUME NEW i \in DOMAIN u, NEW j \in DOMAIN u, i < j
       PROVE  u[i] < u[j]
    BY DEF Increasing
  <2>1. CASE i \in 1..k /\ j \in 1..k
    BY <2>1, <1>1, <1>4 DEF Increasing
  <2>2. CASE i \in 1..k /\ j \notin 1..k
    BY <2>2, <1>1, <1>4, <1>5, <1>6 DEF NamesOf
  <2>3. CASE i \notin 1..k
    <3>1. PICK a \in 1..l : i = k + a
      BY <2>3, <1>6
    <3>2. PICK b \in 1..l : j = k + b
      BY <2>3, <1>1, <1>3, <1>6
    <3>3. a < b
      BY <1>1, <3>1, <3>2
    <3>. QED
      BY <1>1, <1>5, <3>1, <3>2, <3>3 DEF Increasing
  <2>. QED
    BY <2>1, <2>2, <2>3
<1>. QED
  BY <1>2, <1>7, <1>8 DEF u

(* A page is where the cursor says and stops at the next one: every name   *)
(* from the one to the other is on it, and all of them when there is none. *)
LEMMA PageIs ==
    ASSUME NEW S \in SUBSET Name, NEW c \in 0..Names
    PROVE  /\ OnPage(S, c) \in SUBSET Name
           /\ OnPage(S, c) \subseteq After(S, c)
           /\ NextCursor(S, c) \in 0..Names
           /\ NextCursor(S, c) = 0 => OnPage(S, c) = After(S, c)
           /\ NextCursor(S, c) # 0 =>
                /\ NextCursor(S, c) \in OnPage(S, c)
                /\ \A n \in OnPage(S, c) : n <= NextCursor(S, c)
                /\ \A n \in After(S, c) : n <= NextCursor(S, c) => n \in OnPage(S, c)
<1>. DEFINE A == After(S, c)
            P == OnPage(S, c)
            next == NextCursor(S, c)
<1>1. A \in SUBSET Name /\ P \subseteq A
  BY DEF After, OnPage
<1>2. \A n \in P : Rank(A, n) <= PageSize
  BY DEF OnPage, Rank
<1>3. \A n \in A : Rank(A, n) <= PageSize => n \in P
  BY DEF OnPage, Rank
<1>. HIDE DEF A
<1>4. CASE P = A
  BY <1>1, <1>4, NameListAssumption DEF NextCursor, A
<1>5. CASE P # A
  <2>1. A # {}
    BY <1>1, <1>5
  <2>2. PICK f \in A : \A n \in A : f <= n
    BY <1>1, <2>1, LeastIn DEF Name
  <2>3. {m \in A : m <= f} = {f}
    BY <1>1, <2>2, NamesAreNumbers
  <2>4. Rank(A, f) = 1
    BY <2>3, FS_Singleton DEF Rank
  <2>5. P # {}
    BY <2>4, <1>3, NameListAssumption
  <2>6. \E n \in P : \A m \in P : m <= n
    BY <1>1, <2>5, GreatestIn
  <2>7. next = CHOOSE n \in P : \A m \in P : m <= n
    BY <1>5 DEF NextCursor, A
  <2>8. next \in P /\ \A m \in P : m <= next
    <3>. HIDE DEF P, next
    <3>. QED  BY <2>6, <2>7
  <2>9. ASSUME NEW n \in A, n <= next
        PROVE  n \in P
    <3>1. next \in A /\ Rank(A, next) <= PageSize
      BY <1>1, <1>2, <2>8
    <3>2. Rank(A, n) <= Rank(A, next)
      <4>1. CASE n = next
        BY <4>1, <1>1, <3>1, RankType, NamesAreFinite
      <4>2. CASE n # next
        <5>1. n < next
          BY <4>2, <2>9, <1>1, <3>1, NamesAreNumbers
        <5>. QED
          BY <5>1, <1>1, <3>1, RankGrows, RankType, NamesAreFinite
      <4>. QED
        BY <4>1, <4>2
    <3>3. Rank(A, n) \in Nat /\ Rank(A, next) \in Nat
      BY <1>1, <3>1, RankType, NamesAreFinite
    <3>4. Rank(A, n) <= PageSize
      BY <3>1, <3>2, <3>3, NameListAssumption
    <3>. QED
      BY <1>3, <3>4
  <2>10. next \in 1..Names
    BY <1>1, <2>8 DEF Name
  <2>. QED
    BY <1>1, <2>8, <2>9, <2>10 DEF A
<1>. QED
  BY <1>4, <1>5

-----------------------------------------------------------------------------
(* The inductive invariant.                                                *)

TypeInv == TypeOK /\ \A p \in Proc : pc[p] # "idle" => job[p] \in Job

(* What a list of names must be to be consistent, whoever holds it.        *)
Sound(names, st, se) ==
    /\ st \subseteq NamesOf(names)
    /\ NamesOf(names) \subseteq se
    /\ Cardinality(NamesOf(names)) = Len(names)

(* Before the first page nothing is gathered.  Between two pages the names *)
(* gathered are in order and end at the cursor; none of them was never on  *)
(* the server, and none that stayed on it is missing up to the cursor.     *)
(* After the last page the whole list is sound.                            *)
Gathering(p) ==
    /\ pc[p] = "open" => cursor[p] = 0 /\ found[p] = <<>>
    /\ pc[p] = "page" =>
         /\ steady[p] \subseteq server[job[p].account]
         /\ server[job[p].account] \subseteq seen[p]
         /\ Increasing(found[p])
         /\ \A n \in NamesOf(found[p]) : n <= cursor[p] /\ n \in seen[p]
         /\ \A n \in steady[p] : n <= cursor[p] => n \in NamesOf(found[p])
    /\ pc[p] \in {"truncate", "fill"} => Sound(found[p], steady[p], seen[p])

(* The cache file holds a sound list or nothing that can be read.          *)
CacheInv == Readable => Consistent(cache)

(* An answer out of the cache was young enough, and consistent; any other  *)
(* is consistent unless the server may answer with an empty page.          *)
Answered(a) ==
    /\ a.cached => a.at - a.listing.stamp < TTL
    /\ a.cached \/ "empty" \notin Shapes => Consistent(a.listing)

AnswerInv == \A p \in Proc : answer[p] # None => Answered(answer[p])

ListInv == TypeInv /\ (\A p \in Proc : Gathering(p)) /\ CacheInv /\ AnswerInv

-----------------------------------------------------------------------------
(* Types.                                                                  *)

LEMMA ReportType ==
    ASSUME TypeOK, NEW p \in Proc, NEW l \in Listing, NEW cached \in BOOLEAN,
           Report(p, l, cached)
    PROVE  \A q \in Proc : answer'[q] = None \/ answer'[q] \in Answer
<1>1. [listing |-> l, cached |-> cached, at |-> clock] \in Answer
  BY DEF TypeOK, Answer
<1>2. \A q \in Proc : answer'[q] = answer[q]
                       \/ answer'[q] = [listing |-> l, cached |-> cached, at |-> clock]
  BY DEF Report
<1>. QED
  BY <1>1, <1>2 DEF TypeOK

LEMMA GatheredType ==
    ASSUME TypeInv, NEW p \in Proc, pc[p] # "idle", NEW names \in Seq(Name)
    PROVE  Gathered(p, names) \in Listing
<1>1. took[p] \in 0..MaxClock /\ clock \in 0..MaxClock
  BY NameListAssumption DEF TypeInv, TypeOK
<1>. QED
  BY <1>1 DEF TypeInv, TypeOK, Gathered, Listing, Job

(* What a process has of its own.                                          *)
LocalsOK ==
    /\ pc \in [Proc -> {"idle", "open", "page", "truncate", "fill"}]
    /\ cursor \in [Proc -> 0..Names]
    /\ found \in [Proc -> Seq(Name)]
    /\ stamp \in [Proc -> 0..MaxClock]
    /\ took \in [Proc -> Nat] /\ \A p \in Proc : took[p] <= clock
    /\ steady \in [Proc -> SUBSET Name]
    /\ seen \in [Proc -> SUBSET Name]

LEMMA LeaveType ==
    ASSUME TypeOK, NEW p \in Proc, Leave(p), UNCHANGED clock
    PROVE  /\ LocalsOK'
           /\ pc'[p] = "idle"
           /\ \A q \in Proc \ {p} : UNCHANGED <<pc[q], cursor[q], found[q], stamp[q], took[q],
                                               steady[q], seen[q]>>
<1>1. <<>> \in Seq(Name) /\ 0 \in 0..Names /\ 0 \in 0..MaxClock /\ clock \in Nat
  BY NameListAssumption DEF TypeOK
<1>2. pc' \in [Proc -> {"idle", "open", "page", "truncate", "fill"}]
  BY DEF TypeOK, Leave, Goto
<1>3. cursor' \in [Proc -> 0..Names] /\ stamp' \in [Proc -> 0..MaxClock]
  BY <1>1 DEF TypeOK, Leave
<1>4. found' \in [Proc -> Seq(Name)]
  BY <1>1 DEF TypeOK, Leave
<1>5. took' \in [Proc -> Nat] /\ \A q \in Proc : took'[q] <= clock'
  BY <1>1 DEF TypeOK, Leave
<1>6. steady' \in [Proc -> SUBSET Name] /\ seen' \in [Proc -> SUBSET Name]
  BY DEF TypeOK, Leave
<1>7. /\ pc'[p] = "idle"
      /\ \A q \in Proc \ {p} : UNCHANGED <<pc[q], cursor[q], found[q], stamp[q], took[q],
                                          steady[q], seen[q]>>
  BY DEF TypeOK, Leave, Goto
<1>. QED
  BY <1>2, <1>3, <1>4, <1>5, <1>6, <1>7 DEF LocalsOK

LEMMA TypeStep == TypeInv /\ [Next]_vars => TypeInv'
<1> SUFFICES ASSUME TypeInv, [Next]_vars PROVE TypeInv'
  OBVIOUS
<1>0. TypeOK
  BY DEF TypeInv
<1> USE NameListAssumption DEF TypeInv, Goto, registry
<1>1. CASE Tick
  <2>1. took' \in [Proc -> Nat] /\ \A p \in Proc : took'[p] <= clock'
    BY <1>0, <1>1 DEF Tick, TypeOK
  <2>. QED
    BY <1>0, <1>1, <2>1 DEF Tick, TypeOK
<1>2. ASSUME NEW a \in Account, NEW n \in Name, Change(a, n)
      PROVE  TypeInv'
  <2>1. server' \in [Account -> SUBSET Name]
    <3>1. (IF n \in server[a] THEN server[a] \ {n} ELSE server[a] \cup {n}) \in SUBSET Name
      BY <1>0 DEF TypeOK
    <3>. QED
      BY <1>0, <1>2, <3>1 DEF Change, TypeOK
  <2>2. steady' \in [Proc -> SUBSET Name] /\ seen' \in [Proc -> SUBSET Name]
    BY <1>0, <1>2, <2>1 DEF Change, TypeOK
  <2>3. since' \in [Account -> [Name -> 0..MaxClock \cup {None}]]
    BY <1>0, <1>2 DEF Change, TypeOK
  <2>. QED
    BY <1>0, <1>2, <2>1, <2>2, <2>3 DEF Change, TypeOK
<1>3. ASSUME NEW p \in Proc, NEW cmd \in Commands, NEW a \in Account, Start(p, cmd, a)
      PROVE  TypeInv'
  <2>1. [cmd |-> cmd, account |-> a] \in Job
    BY DEF Job
  <2>2. \A q \in Proc : answer'[q] = None \/ answer'[q] = answer[q]
    BY <1>0, <1>3 DEF Start, TypeOK
  <2>3. /\ job' \in [Proc -> Job \cup {None}]
        /\ \A q \in Proc : pc'[q] # "idle" => job'[q] \in Job
    BY <1>0, <1>3, <2>1 DEF Start, TypeOK
  <2>4. found' \in [Proc -> Seq(Name)]
    BY <1>0, <1>3 DEF Start, TypeOK
  <2>5. took' \in [Proc -> Nat] /\ \A q \in Proc : took'[q] <= clock'
    BY <1>0, <1>3 DEF Start, Begin, TypeOK
  <2>. QED
    BY <1>0, <1>3, <2>2, <2>3, <2>4, <2>5 DEF Start, Begin, TypeOK
<1>4. ASSUME NEW p \in Proc, Open(p)
      PROVE  TypeInv'
  <2>1. job[p] \in Job
    BY <1>4 DEF Open
  <2>2. CASE Fresh
    <3>1. cache \in Listing
      BY <1>0, <2>2 DEF Fresh, Readable, TypeOK
    <3>2. Report(p, cache, TRUE)
      BY <1>4, <2>2 DEF Open
    <3>3. \A q \in Proc : answer'[q] = None \/ answer'[q] \in Answer
      BY <1>0, <3>1, <3>2, ReportType
    <3>4. Leave(p) /\ UNCHANGED <<registry, clock, cache, job>>
      BY <1>4, <2>2 DEF Open
    <3>. QED
      BY <1>0, <3>3, <3>4, LeaveType DEF LocalsOK, TypeOK
  <2>3. CASE ~Fresh
    <3>1. server[job[p].account] \in SUBSET Name
      BY <1>0, <2>1 DEF TypeOK, Job
    <3>2. took' = [took EXCEPT ![p] = 0] /\ clock' = clock /\ clock \in 0..MaxClock
      BY <1>0, <1>4, <2>3 DEF Open, Begin, TypeOK
    <3>3. took' \in [Proc -> Nat] /\ \A q \in Proc : took'[q] <= clock'
      BY <1>0, <3>2 DEF TypeOK
    <3>. QED
      BY <1>0, <1>4, <2>3, <3>1, <3>3 DEF Open, Begin, TypeOK
  <2>. QED
    BY <2>2, <2>3
<1>5. ASSUME NEW p \in Proc, Page(p)
      PROVE  TypeInv'
  <2>. DEFINE S     == server[job[p].account]
              names == Gather(p, InOrder(OnPage(S, cursor[p])))
              next  == NextCursor(S, cursor[p])
  <2>1. job[p] \in Job /\ pc[p] = "page"
    BY <1>5 DEF Page
  <2>2. S \in SUBSET Name /\ cursor[p] \in 0..Names /\ found[p] \in Seq(Name)
    BY <1>0, <2>1 DEF TypeOK, Job
  <2>3. next \in 0..Names /\ InOrder(OnPage(S, cursor[p])) \in Seq(Name)
    BY <2>2, PageIs, InOrderIs
  <2>4. names \in Seq(Name)
    BY <2>2, <2>3, ConcatProperties DEF Gather
  <2>5. UNCHANGED <<registry, clock, cache, job>>
    BY <1>5 DEF Page
  <2>6. \/ Turn(p, names, next) /\ UNCHANGED answer
           /\ (pc' = pc \/ pc' = [pc EXCEPT ![p] = "truncate"])
        \/ Leave(p) /\ Report(p, Gathered(p, names), FALSE)
    BY <1>5 DEF Page
  <2>. HIDE DEF names, next
  <2>7. CASE Turn(p, names, next) /\ UNCHANGED answer
             /\ (pc' = pc \/ pc' = [pc EXCEPT ![p] = "truncate"])
    <3>1. found' \in [Proc -> Seq(Name)] /\ cursor' \in [Proc -> 0..Names]
      BY <1>0, <2>3, <2>4, <2>7 DEF Turn, TypeOK
    <3>2. /\ pc' \in [Proc -> {"idle", "open", "page", "truncate", "fill"}]
          /\ \A q \in Proc : pc'[q] # "idle" => pc[q] # "idle"
      BY <1>0, <2>1, <2>7 DEF TypeOK
    <3>. QED
      BY <1>0, <2>5, <2>7, <3>1, <3>2 DEF Turn, TypeOK
  <2>8. CASE Leave(p) /\ Report(p, Gathered(p, names), FALSE)
    <3>1. \A q \in Proc : answer'[q] = None \/ answer'[q] \in Answer
      BY <1>0, <2>1, <2>4, <2>8, GatheredType, ReportType
    <3>. QED
      BY <1>0, <2>5, <2>8, <3>1, LeaveType DEF LocalsOK, TypeOK
  <2>. QED
    BY <2>6, <2>7, <2>8
<1>6. ASSUME NEW p \in Proc, PageUnread(p) \/ PageFailed(p)
      PROVE  TypeInv'
  BY <1>0, <1>6, LeaveType DEF PageUnread, PageFailed, LocalsOK, TypeOK
<1>7. ASSUME NEW p \in Proc, PageEmpty(p)
      PROVE  TypeInv'
  <2>1. <<>> \in Seq(Name)
    OBVIOUS
  <2>2. \A q \in Proc : answer'[q] = None \/ answer'[q] \in Answer
    BY <1>0, <1>7, <2>1, GatheredType, ReportType DEF PageEmpty
  <2>. QED
    BY <1>0, <1>7, <2>2, LeaveType DEF PageEmpty, LocalsOK, TypeOK
<1>8. ASSUME NEW p \in Proc, Truncate(p)
      PROVE  TypeInv'
  BY <1>0, <1>8 DEF Truncate, TypeOK, Files
<1>9. ASSUME NEW p \in Proc, Fill(p)
      PROVE  TypeInv'
  <2>1. Kept(p) \in Listing
    <3>1. Gathered(p, found[p]) \in Listing
      BY <1>0, <1>9, GatheredType DEF Fill, TypeOK
    <3>. QED
      BY <1>0, <3>1 DEF TypeOK, Kept, Listing
  <2>2. Report(p, Kept(p), FALSE) /\ (cache' = Kept(p) \/ cache' = Torn)
    BY <1>9 DEF Fill
  <2>3. \A q \in Proc : answer'[q] = None \/ answer'[q] \in Answer
    BY <1>0, <2>1, <2>2, ReportType
  <2>4. cache' \in Files \/ cache' \in Listing
    BY <2>1, <2>2 DEF Files
  <2>. QED
    BY <1>0, <1>9, <2>3, <2>4, LeaveType DEF Fill, LocalsOK, TypeOK
<1>10. ASSUME NEW p \in Proc, UpdateFailed(p)
       PROVE  TypeInv'
  <2>1. Gathered(p, found[p]) \in Listing
    BY <1>0, <1>10, GatheredType DEF UpdateFailed, TypeOK
  <2>2. \A q \in Proc : answer'[q] = None \/ answer'[q] \in Answer
    BY <1>0, <1>10, <2>1, ReportType DEF UpdateFailed
  <2>3. cache' \in Files \/ cache' \in Listing
    BY <1>0, <1>10 DEF UpdateFailed, TypeOK, Files
  <2>. QED
    BY <1>0, <1>10, <2>2, <2>3, LeaveType DEF UpdateFailed, LocalsOK, TypeOK
<1>11. ASSUME NEW p \in Proc, Crash(p)
       PROVE  TypeInv'
  <2>1. cache' \in Files \/ cache' \in Listing
    BY <1>0, <1>11 DEF Crash, TypeOK, Files
  <2>. QED
    BY <1>0, <1>11, <2>1, LeaveType DEF Crash, LocalsOK, TypeOK
<1>12. CASE UNCHANGED vars
  BY <1>0, <1>12 DEF vars, listing, TypeOK
<1>. QED
  BY <1>1, <1>2, <1>3, <1>4, <1>5, <1>6, <1>7, <1>8, <1>9, <1>10, <1>11, <1>12
     DEF Next, Step

(* Whatever the server answers and whenever a process stops, the variables *)
(* keep their types: the cursor of a page is a name or empty, and what the *)
(* pages hold is a list of names.                                          *)
THEOREM NameListTypeCorrect == Spec => []TypeOK
<1>1. Init => TypeInv
  BY NameListAssumption DEF Init, TypeInv, TypeOK, Files
<1>2. TypeInv => TypeOK
  BY DEF TypeInv
<1>. QED
  BY <1>1, <1>2, TypeStep, PTL DEF Spec

-----------------------------------------------------------------------------
(* The lists are sound.                                                    *)

LEMMA ConsistentIsSound ==
    ASSUME NEW l
    PROVE  Consistent(l) <=> Sound(l.names, l.steady, l.seen)
BY DEF Consistent, Named, Sound, NamesOf

LEMMA EmptyNames == Increasing(<<>>) /\ NamesOf(<<>>) = {} /\ <<>> \in Seq(Name)
BY DEF Increasing, NamesOf

(* What a process gathered is its own affair.                              *)
LEMMA OthersGather ==
    ASSUME NEW q \in Proc, Gathering(q),
           UNCHANGED <<server, pc[q], job[q], cursor[q], found[q], steady[q], seen[q]>>
    PROVE  Gathering(q)'
BY DEF Gathering

(* A process that stops has nothing to answer for.                         *)
LEMMA IdleGathers ==
    ASSUME NEW p \in Proc, pc'[p] = "idle"
    PROVE  Gathering(p)'
BY DEF Gathering

(* A report is about its listing.                                          *)
LEMMA ReportAnswers ==
    ASSUME AnswerInv, NEW p \in Proc, NEW l, NEW cached \in BOOLEAN, Report(p, l, cached),
           cached => clock - l.stamp < TTL,
           cached \/ "empty" \notin Shapes => Consistent(l)
    PROVE  AnswerInv'
<1>. DEFINE a == [listing |-> l, cached |-> cached, at |-> clock]
<1>1. Answered(a)
  BY DEF Answered
<1>2. \A q \in Proc : answer'[q] = answer[q] \/ answer'[q] = a
  BY DEF Report
<1>. HIDE DEF a
<1>. SUFFICES ASSUME NEW q \in Proc, answer'[q] # None
     PROVE  Answered(answer'[q])
  BY DEF AnswerInv, Answered
<1>. QED
  BY <1>1, <1>2 DEF AnswerInv

LEMMA AnswersStay == AnswerInv /\ UNCHANGED answer => AnswerInv'
BY DEF AnswerInv, Answered

LEMMA CacheStays == CacheInv /\ UNCHANGED cache => CacheInv'
BY DEF CacheInv, Readable, Consistent, Named

(* A page taken in: with a next cursor the listing goes on as before, with *)
(* none it is sound, even though workflows came and went between the pages.*)
LEMMA PageTaken ==
    ASSUME NEW S \in SUBSET Name, NEW c \in 0..Names, NEW f \in Seq(Name),
           NEW st \in SUBSET S, NEW se \in SUBSET Name, S \subseteq se,
           Increasing(f),
           \A n \in NamesOf(f) : n <= c /\ n \in se,
           \A n \in st : n <= c => n \in NamesOf(f)
    PROVE  LET names == f \o InOrder(OnPage(S, c))
               next  == NextCursor(S, c)
           IN  /\ Increasing(names)
               /\ \A n \in NamesOf(names) : n \in se
               /\ next # 0 => /\ \A n \in NamesOf(names) : n <= next
                              /\ \A n \in st : n <= next => n \in NamesOf(names)
               /\ next = 0 => Sound(names, st, se)
<1>. DEFINE P     == OnPage(S, c)
            names == f \o InOrder(P)
            next  == NextCursor(S, c)
<1>1. /\ P \in SUBSET Name
      /\ P \subseteq After(S, c)
      /\ next \in 0..Names
      /\ next = 0 => P = After(S, c)
      /\ next # 0 => /\ next \in P
                     /\ \A n \in P : n <= next
                     /\ \A n \in After(S, c) : n <= next => n \in P
  BY PageIs
<1>. HIDE DEF P, next
<1>2. InOrder(P) \in Seq(Name) /\ Increasing(InOrder(P)) /\ NamesOf(InOrder(P)) = P
  BY <1>1, InOrderIs
<1>3. \A n \in After(S, c) : n \in S /\ n \in Nat /\ c < n
  BY NamesAreNumbers DEF After
<1>4. \A n \in S : n \in Nat /\ (~(n <= c) => n \in After(S, c))
  BY NamesAreNumbers DEF After
<1>5. NamesOf(f) \in SUBSET Name
  BY LenProperties DEF NamesOf
<1>6. \A m \in NamesOf(f), n \in P : m < n
  BY <1>1, <1>3, <1>5, NamesAreNumbers
<1>7. names \in Seq(Name) /\ NamesOf(names) = NamesOf(f) \cup P /\ Increasing(names)
  BY <1>2, <1>6, Appended
<1>. HIDE DEF names
<1>8. \A n \in NamesOf(names) : n \in se
  BY <1>1, <1>3, <1>7
<1>9. ASSUME next # 0
      PROVE  /\ \A n \in NamesOf(names) : n <= next
             /\ \A n \in st : n <= next => n \in NamesOf(names)
  <2>1. c <= next
    BY <1>1, <1>3, <1>9
  <2>2. \A n \in NamesOf(f) : n <= next
    BY <2>1, <1>1, <1>5, NamesAreNumbers
  <2>. QED
    BY <2>2, <1>1, <1>4, <1>7, <1>9
<1>10. ASSUME next = 0
       PROVE  Sound(names, st, se)
  <2>1. st \subseteq NamesOf(names)
    BY <1>1, <1>4, <1>7, <1>10
  <2>2. Cardinality(NamesOf(names)) = Len(names)
    BY <1>7, Distinct
  <2>. QED
    BY <1>8, <2>1, <2>2 DEF Sound
<1>. QED
  BY <1>7, <1>8, <1>9, <1>10 DEF names, next, P

LEMMA ListStep == ListInv /\ [Next]_vars => ListInv'
<1> SUFFICES ASSUME ListInv, [Next]_vars PROVE ListInv'
  OBVIOUS
<1>0. TypeOK /\ TypeInv /\ TypeInv' /\ CacheInv /\ AnswerInv /\ \A q \in Proc : Gathering(q)
  BY TypeStep DEF ListInv, TypeInv
\* What one process leaves alone and what is left to show of it.
<1>1. ASSUME NEW p \in Proc, UNCHANGED <<server, job>>,
             \A q \in Proc \ {p} : UNCHANGED <<pc[q], cursor[q], found[q], steady[q], seen[q]>>,
             Gathering(p)', CacheInv', AnswerInv'
      PROVE  ListInv'
  <2>1. ASSUME NEW q \in Proc, q # p
        PROVE  Gathering(q)'
    <3>1. UNCHANGED <<pc[q], cursor[q], found[q], steady[q], seen[q]>>
      BY <1>1, <2>1
    <3>. QED
      BY <1>0, <1>1, <3>1, OthersGather
  <2>. QED
    BY <1>0, <1>1, <2>1 DEF ListInv
<1>2. ASSUME NEW p \in Proc, UNCHANGED <<registry, clock, job>>, Leave(p),
             CacheInv', AnswerInv'
      PROVE  ListInv'
  <2>1. /\ pc'[p] = "idle"
        /\ \A q \in Proc \ {p} : UNCHANGED <<pc[q], cursor[q], found[q], steady[q], seen[q]>>
    BY <1>0, <1>2, LeaveType
  <2>2. Gathering(p)'
    BY <2>1, IdleGathers
  <2>. QED
    BY <1>1, <1>2, <2>1, <2>2 DEF registry
<1>3. CASE Tick
  <2>1. \A q \in Proc : Gathering(q)'
    BY <1>0, <1>3, OthersGather DEF Tick, registry
  <2>. QED
    BY <1>0, <1>3, <2>1, CacheStays, AnswersStay DEF Tick, ListInv
<1>4. ASSUME NEW a \in Account, NEW n \in Name, Change(a, n)
      PROVE  ListInv'
  <2>1. \A b \in Account : b # a => server'[b] = server[b]
    BY <1>0, <1>4 DEF Change, TypeOK
  <2>2. ASSUME NEW q \in Proc
        PROVE  Gathering(q)'
    <3>1. CASE Listens(q, a)
      <4>1. /\ steady'[q] = steady[q] \cap server'[a]
            /\ seen'[q] = seen[q] \cup server'[a]
        BY <1>4, <3>1 DEF Change
      <4>2. UNCHANGED <<pc, job, cursor, found>> /\ pc[q] = "page" /\ job[q].account = a
        BY <1>4, <3>1 DEF Change, Listens
      <4>. QED
        BY <1>0, <4>1, <4>2 DEF Gathering
    <3>2. CASE ~Listens(q, a)
      <4>1. UNCHANGED <<pc, job, cursor, found>> /\ steady'[q] = steady[q] /\ seen'[q] = seen[q]
        BY <1>4, <3>2 DEF Change
      <4>2. CASE pc[q] = "page"
        <5>1. job[q].account \in Account /\ job[q].account # a
          BY <1>0, <4>2, <3>2 DEF TypeInv, Job, Listens
        <5>2. UNCHANGED server[job[q].account]
          BY <2>1, <5>1, <4>1
        <5>. QED
          BY <1>0, <4>1, <4>2, <5>2 DEF Gathering
      <4>3. CASE pc[q] # "page"
        BY <1>0, <4>1, <4>3 DEF Gathering
      <4>. QED
        BY <4>2, <4>3
    <3>. QED
      BY <3>1, <3>2
  <2>. QED
    BY <1>0, <1>4, <2>2, CacheStays, AnswersStay DEF Change, ListInv
<1>5. ASSUME NEW p \in Proc, NEW cmd \in Commands, NEW a \in Account, Start(p, cmd, a)
      PROVE  ListInv'
  <2>1. AnswerInv'
    <3>1. \A q \in Proc : answer'[q] = None \/ answer'[q] = answer[q]
      BY <1>0, <1>5 DEF Start, TypeOK
    <3>. QED
      BY <1>0, <3>1 DEF AnswerInv, Answered
  <2>2. ASSUME NEW q \in Proc, q # p
        PROVE  Gathering(q)'
    <3>1. UNCHANGED <<server, pc[q], job[q], cursor[q], found[q], steady[q], seen[q]>>
      BY <1>5, <2>2 DEF Start, Begin, Goto, registry
    <3>. QED
      BY <1>0, <3>1, OthersGather
  <2>3. Gathering(p)'
    <3>1. /\ pc'[p] \in {"open", "page"} /\ cursor'[p] = 0 /\ found'[p] = <<>>
          /\ job'[p] = [cmd |-> cmd, account |-> a] /\ server' = server
          /\ steady'[p] = server[a] /\ seen'[p] = server[a]
      BY <1>0, <1>5 DEF Start, Begin, Goto, registry, TypeOK
    <3>2. job'[p].account = a
      BY <3>1
    <3>3. \A n \in server[a] : ~(n <= 0)
      <4>1. server[a] \in SUBSET Name
        BY <1>0 DEF TypeOK
      <4>. QED
        BY <4>1, NamesAreNumbers
    <3>. QED
      BY <3>1, <3>2, <3>3, EmptyNames DEF Gathering
  <2>. QED
    BY <1>0, <1>5, <2>1, <2>2, <2>3, CacheStays DEF Start, ListInv
<1>6. ASSUME NEW p \in Proc, Open(p)
      PROVE  ListInv'
  <2>1. job[p] \in Job /\ pc[p] = "open" /\ cursor[p] = 0 /\ found[p] = <<>>
    BY <1>0, <1>6 DEF Open, TypeInv, Gathering
  <2>2. CASE Fresh
    <3>1. Report(p, cache, TRUE) /\ Leave(p) /\ UNCHANGED <<registry, clock, job, cache>>
      BY <1>6, <2>2 DEF Open
    <3>2. Consistent(cache) /\ clock - cache.stamp < TTL
      BY <1>0, <2>2 DEF Fresh, CacheInv
    <3>3. AnswerInv'
      BY <1>0, <3>1, <3>2, ReportAnswers
    <3>. QED
      BY <1>0, <1>2, <3>1, <3>3, CacheStays
  <2>3. CASE ~Fresh
    <3>. DEFINE S == server[job[p].account]
    <3>1. /\ Goto(p, "page") /\ UNCHANGED <<server, job, cursor, found, cache, answer>>
          /\ steady' = [steady EXCEPT ![p] = S] /\ seen' = [seen EXCEPT ![p] = S]
      BY <1>6, <2>3 DEF Open, Begin, registry
    <3>2. S \in SUBSET Name
      BY <1>0, <2>1 DEF TypeOK, Job
    <3>3. \A n \in S : ~(n <= 0)
      BY <3>2, NamesAreNumbers
    <3>4. pc'[p] = "page" /\ steady'[p] = S /\ seen'[p] = S
      BY <1>0, <3>1 DEF Goto, TypeOK
    <3>5. Gathering(p)'
      BY <2>1, <3>1, <3>3, <3>4, EmptyNames DEF Gathering
    <3>6. \A q \in Proc \ {p} : UNCHANGED <<pc[q], cursor[q], found[q], steady[q], seen[q]>>
      BY <1>0, <3>1 DEF Goto, TypeOK
    <3>. QED
      BY <1>0, <1>1, <3>1, <3>5, <3>6, CacheStays, AnswersStay
  <2>. QED
    BY <2>2, <2>3
<1>7. ASSUME NEW p \in Proc, Page(p)
      PROVE  ListInv'
  <2>. DEFINE S     == server[job[p].account]
              names == found[p] \o InOrder(OnPage(S, cursor[p]))
              next  == NextCursor(S, cursor[p])
  <2>1. job[p] \in Job /\ pc[p] = "page"
    BY <1>0, <1>7 DEF Page, TypeInv
  <2>2. S \in SUBSET Name /\ cursor[p] \in 0..Names /\ found[p] \in Seq(Name)
        /\ steady[p] \in SUBSET Name /\ seen[p] \in SUBSET Name
    BY <1>0, <2>1 DEF TypeOK, Job
  <2>3. /\ steady[p] \subseteq S
        /\ S \subseteq seen[p]
        /\ Increasing(found[p])
        /\ \A n \in NamesOf(found[p]) : n <= cursor[p] /\ n \in seen[p]
        /\ \A n \in steady[p] : n <= cursor[p] => n \in NamesOf(found[p])
    BY <1>0, <2>1 DEF Gathering
  <2>4. /\ Increasing(names)
        /\ \A n \in NamesOf(names) : n \in seen[p]
        /\ next # 0 => /\ \A n \in NamesOf(names) : n <= next
                       /\ \A n \in steady[p] : n <= next => n \in NamesOf(names)
        /\ next = 0 => Sound(names, steady[p], seen[p])
    BY <2>2, <2>3, PageTaken
  <2>5. UNCHANGED <<registry, clock, cache, job>>
    BY <1>7 DEF Page
  <2>6. \/ next # 0 /\ Turn(p, names, next) /\ UNCHANGED <<pc, answer>>
        \/ next = 0 /\ Turn(p, names, next) /\ Goto(p, "truncate") /\ UNCHANGED answer
        \/ next = 0 /\ Leave(p) /\ Report(p, Gathered(p, names), FALSE)
    BY <1>7 DEF Page, Gather
  <2>. HIDE DEF S, names, next
  <2>7. ASSUME Turn(p, names, next)
        PROVE  /\ found'[p] = names /\ cursor'[p] = next /\ UNCHANGED <<steady, seen>>
               /\ \A q \in Proc \ {p} : UNCHANGED <<cursor[q], found[q], steady[q], seen[q]>>
    BY <1>0, <2>7 DEF Turn, TypeOK
  <2>8. CASE next # 0 /\ Turn(p, names, next) /\ UNCHANGED <<pc, answer>>
    <3>1. server'[job'[p].account] = S
      BY <2>5 DEF S, registry
    <3>2. Gathering(p)'
      BY <2>1, <2>3, <2>4, <2>5, <2>7, <2>8, <3>1 DEF Gathering
    <3>. QED
      BY <1>0, <1>1, <2>5, <2>7, <2>8, <3>2, CacheStays, AnswersStay DEF registry
  <2>9. CASE next = 0 /\ Turn(p, names, next) /\ Goto(p, "truncate") /\ UNCHANGED answer
    <3>1. pc'[p] = "truncate" /\ \A q \in Proc \ {p} : UNCHANGED pc[q]
      BY <1>0, <2>9 DEF Goto, TypeOK
    <3>2. Sound(found'[p], steady'[p], seen'[p])
      BY <2>4, <2>7, <2>9
    <3>3. Gathering(p)'
      BY <3>1, <3>2 DEF Gathering, Sound
    <3>. QED
      BY <1>0, <1>1, <2>5, <2>7, <2>9, <3>1, <3>3, CacheStays, AnswersStay DEF registry
  <2>10. CASE next = 0 /\ Leave(p) /\ Report(p, Gathered(p, names), FALSE)
    <3>1. Consistent(Gathered(p, names))
      BY <2>4, <2>10, ConsistentIsSound DEF Gathered
    <3>2. AnswerInv'
      BY <1>0, <2>10, <3>1, ReportAnswers
    <3>. QED
      BY <1>0, <1>2, <2>5, <2>10, <3>2, CacheStays
  <2>. QED
    BY <2>6, <2>8, <2>9, <2>10
<1>8. ASSUME NEW p \in Proc, PageUnread(p) \/ PageFailed(p)
      PROVE  ListInv'
  BY <1>0, <1>2, <1>8, CacheStays, AnswersStay DEF PageUnread, PageFailed
<1>9. ASSUME NEW p \in Proc, PageEmpty(p)
      PROVE  ListInv'
  <2>1. AnswerInv'
    BY <1>0, <1>9, ReportAnswers DEF PageEmpty
  <2>. QED
    BY <1>0, <1>2, <1>9, <2>1, CacheStays DEF PageEmpty
<1>10. ASSUME NEW p \in Proc, Truncate(p)
       PROVE  ListInv'
  <2>1. CacheInv'
    BY <1>10 DEF Truncate, CacheInv, Readable, Files
  <2>2. pc[p] = "truncate" /\ pc'[p] = "fill" /\ UNCHANGED <<server, job, found, steady, seen>>
    BY <1>0, <1>10 DEF Truncate, Goto, registry, TypeOK
  <2>3. Gathering(p)'
    BY <1>0, <2>2 DEF Gathering, Sound
  <2>4. \A q \in Proc \ {p} : UNCHANGED <<pc[q], cursor[q], found[q], steady[q], seen[q]>>
    BY <1>0, <1>10 DEF Truncate, Goto, TypeOK
  <2>. QED
    BY <1>0, <1>1, <1>10, <2>1, <2>3, <2>4, AnswersStay DEF Truncate, registry
<1>11. ASSUME NEW p \in Proc, Fill(p)
       PROVE  ListInv'
  <2>. DEFINE l == Kept(p)
  <2>1. Sound(found[p], steady[p], seen[p])
    BY <1>0, <1>11 DEF Fill, Gathering
  <2>2. l.names = found[p] /\ l.steady = steady[p] /\ l.seen = seen[p]
    BY DEF Kept, Gathered
  <2>3. /\ Report(p, l, FALSE) /\ (cache' = l \/ cache' = Torn)
        /\ Leave(p) /\ UNCHANGED <<registry, clock, job>>
    BY <1>11 DEF Fill
  <2>. HIDE DEF l
  <2>4. Consistent(l)
    BY <2>1, <2>2, ConsistentIsSound
  <2>5. AnswerInv'
    BY <1>0, <2>3, <2>4, ReportAnswers
  <2>6. CacheInv'
    <3>1. CASE cache' = l
      BY <2>4, <3>1 DEF CacheInv, Consistent, Named
    <3>2. CASE cache' = Torn
      BY <3>2 DEF CacheInv, Readable, Files
    <3>. QED
      BY <2>3, <3>1, <3>2
  <2>. QED
    BY <1>2, <2>3, <2>5, <2>6
<1>12. ASSUME NEW p \in Proc, UNCHANGED cache \/ cache' = Torn
       PROVE  CacheInv'
  <2>1. CASE cache' = Torn
    BY <2>1 DEF CacheInv, Readable, Files
  <2>. QED
    BY <1>0, <1>12, <2>1, CacheStays
<1>13. ASSUME NEW p \in Proc, UpdateFailed(p)
       PROVE  ListInv'
  <2>1. Sound(found[p], steady[p], seen[p])
    BY <1>0, <1>13 DEF UpdateFailed, Gathering
  <2>2. Consistent(Gathered(p, found[p]))
    BY <2>1, ConsistentIsSound DEF Gathered
  <2>3. AnswerInv'
    BY <1>0, <1>13, <2>2, ReportAnswers DEF UpdateFailed
  <2>. QED
    BY <1>2, <1>12, <1>13, <2>3 DEF UpdateFailed
<1>14. ASSUME NEW p \in Proc, Crash(p)
       PROVE  ListInv'
  BY <1>0, <1>2, <1>12, <1>14, AnswersStay DEF Crash
<1>15. CASE UNCHANGED vars
  <2>1. \A q \in Proc : Gathering(q)'
    BY <1>0, <1>15, OthersGather DEF vars, registry, listing
  <2>. QED
    BY <1>0, <1>15, <2>1, CacheStays, AnswersStay DEF vars, ListInv
<1>. QED
  BY <1>3, <1>4, <1>5, <1>6, <1>7, <1>8, <1>9, <1>10, <1>11, <1>13, <1>14, <1>15 DEF Next, Step

LEMMA ListInit == Init => ListInv
<1>1. Init => TypeInv
  BY NameListAssumption DEF Init, TypeInv, TypeOK, Files
<1>. QED
  BY <1>1 DEF Init, ListInv, Gathering, CacheInv, Readable, Files, AnswerInv

(* A list put together from pages that were asked for one after the other, *)
(* while workflows came and went, holds each workflow that was there all   *)
(* the time, none that never was, and none twice: List and                 *)
(* fetchServerWorkflowNames with a cursor.  The exception is the server    *)
(* that answers a page with an empty body.                                 *)
THEOREM ListingCorrect ==
    ASSUME "empty" \notin Shapes
    PROVE  Spec => []ListingIsConsistent
<1>1. ListInv => ListingIsConsistent
  BY DEF ListInv, AnswerInv, Answered, ListingIsConsistent
<1>. QED
  BY <1>1, ListInit, ListStep, PTL DEF Spec

-----------------------------------------------------------------------------
(* How far a cached answer is behind the server.                           *)

(* Where a listing with these histories is wrong of what is on the server  *)
(* now, the server has changed after t - k.                                *)
Recent(sv, si, a, st, se, t, k) ==
    \A n \in Name : \/ n \in sv[a] /\ n \notin st
                    \/ n \in se /\ n \notin sv[a]
                    => si[a][n] \in Nat /\ t <= si[a][n] + k

(* So it is of every process that lists, of the file and of every answer   *)
(* from it, counted from the timestamp once that is taken.                 *)
RecentListing(sv, si, now, l) ==
    /\ l.stamp <= now
    /\ Recent(sv, si, l.account, l.steady, l.seen, l.stamp, l.took)

Lagging(p) ==
    /\ pc[p] \in {"page", "truncate"} =>
         Recent(server, since, job[p].account, steady[p], seen[p], clock, took[p])
    /\ pc[p] = "fill" =>
         /\ stamp[p] <= clock
         /\ Recent(server, since, job[p].account, steady[p], seen[p], stamp[p], took[p])

CacheLag == Readable => RecentListing(server, since, clock, cache)

AnswerLag ==
    \A p \in Proc : answer[p] # None /\ answer[p].cached =>
        RecentListing(server, since, clock, answer[p].listing)

LagInv == (\A p \in Proc : Lagging(p)) /\ CacheLag /\ AnswerLag

LEMMA RecentAfterTick ==
    ASSUME NEW sv, NEW si, NEW a, NEW st, NEW se, NEW t \in Nat, NEW k \in Nat,
           Recent(sv, si, a, st, se, t, k)
    PROVE  Recent(sv, si, a, st, se, t + 1, k + 1)
BY DEF Recent

(* What comes or goes now came or went after every timestamp, whether or   *)
(* not a listing notes it.                                                 *)
LEMMA RecentAfterChange ==
    ASSUME TypeOK, NEW a \in Account, NEW n \in Name, Change(a, n),
           NEW b \in Account, NEW st, NEW se, NEW t \in Nat, t <= clock, NEW k \in Nat,
           Recent(server, since, b, st, se, t, k)
    PROVE  /\ Recent(server', since', b, st, se, t, k)
           /\ Recent(server', since', b, st \cap server'[b], se \cup server'[b], t, k)
<1>1. clock \in Nat
  BY NameListAssumption DEF TypeOK
<1>2. ASSUME NEW m \in Name
      PROVE  \/ since'[b][m] \in Nat /\ t <= since'[b][m] + k
             \/ since'[b][m] = since[b][m] /\ (m \in server'[b] <=> m \in server[b])
  <2>1. CASE b = a /\ m = n
    BY <1>1, <2>1 DEF Change, TypeOK
  <2>2. CASE b = a /\ m # n
    BY <2>2 DEF Change, TypeOK
  <2>3. CASE b # a
    BY <2>3 DEF Change, TypeOK
  <2>. QED
    BY <2>1, <2>2, <2>3
<1>3. ASSUME NEW m \in Name,
             \/ m \in server'[b] /\ m \notin st
             \/ m \in se /\ m \notin server'[b]
      PROVE  since'[b][m] \in Nat /\ t <= since'[b][m] + k
  BY <1>2, <1>3 DEF Recent
<1>. QED
  BY <1>3 DEF Recent

LEMMA LagStep == ListInv /\ LagInv /\ [Next]_vars => LagInv'
<1> SUFFICES ASSUME ListInv, LagInv, [Next]_vars PROVE LagInv'
  OBVIOUS
<1>0. TypeOK /\ TypeInv /\ clock \in Nat /\ \A q \in Proc : took[q] \in Nat /\ stamp[q] \in Nat
  BY NameListAssumption DEF ListInv, TypeInv, TypeOK
<1>1. Readable => cache \in Listing
  BY <1>0 DEF TypeOK, Readable
<1>2. \A q \in Proc : answer[q] # None => answer[q].listing \in Listing
  BY <1>0 DEF TypeOK, Answer
<1>3. \A l \in Listing : l.account \in Account /\ l.stamp \in Nat /\ l.took \in Nat
  BY NameListAssumption DEF Listing
<1>. DEFINE AnswersFollow == \A q \in Proc : \/ answer'[q] = answer[q]
                                         \/ answer'[q] = None
                                         \/ ~answer'[q].cached
                                         \/ RecentListing(server, since, clock, answer'[q].listing)
\* A step of one process: the clock and the server stand still.
<1>4. ASSUME NEW p \in Proc, UNCHANGED <<registry, clock>>,
             \A q \in Proc \ {p} : UNCHANGED <<pc[q], job[q], stamp[q], took[q], steady[q], seen[q]>>,
             Lagging(p)', CacheLag', AnswersFollow
      PROVE  LagInv'
  <2>1. ASSUME NEW q \in Proc PROVE Lagging(q)'
    BY <1>4, <2>1 DEF LagInv, Lagging, registry
  <2>2. ASSUME NEW q \in Proc, answer'[q] # None, answer'[q].cached
        PROVE  RecentListing(server', since', clock', answer'[q].listing)
    BY <1>4, <2>2 DEF LagInv, AnswerLag, registry
  <2>3. AnswerLag'
    BY <2>2 DEF AnswerLag
  <2>. QED
    BY <1>4, <2>1, <2>3 DEF LagInv
<1>5. ASSUME NEW p \in Proc, Leave(p), UNCHANGED <<registry, clock, job>>, CacheLag', AnswersFollow
      PROVE  LagInv'
  <2>1. /\ pc'[p] = "idle"
        /\ \A q \in Proc \ {p} : UNCHANGED <<pc[q], stamp[q], took[q], steady[q], seen[q]>>
    BY <1>0, <1>5 DEF Leave, Goto, TypeOK
  <2>2. Lagging(p)'
    BY <2>1 DEF Lagging
  <2>. QED
    BY <1>4, <1>5, <2>1, <2>2
<1>6. ASSUME UNCHANGED <<registry, clock>>, UNCHANGED cache \/ cache' \in Files
      PROVE  CacheLag'
  BY <1>6 DEF LagInv, CacheLag, Readable, registry
<1>7. ASSUME NEW p \in Proc, NEW l, Report(p, l, FALSE)
      PROVE  AnswersFollow
  <2>1. \A q \in Proc : answer'[q] = answer[q]
                         \/ answer'[q] = [listing |-> l, cached |-> FALSE, at |-> clock]
    BY <1>7 DEF Report
  <2>. QED
    BY <2>1
<1>8. UNCHANGED answer => AnswersFollow
  OBVIOUS
<1>. HIDE DEF AnswersFollow
<1>9. CASE Tick
  <2>1. clock' = clock + 1 /\ UNCHANGED <<registry, cache, pc, job, stamp, steady, seen, answer>>
    BY <1>9 DEF Tick
  <2>2. ASSUME NEW l, RecentListing(server, since, clock, l), l.stamp \in Nat
        PROVE  RecentListing(server', since', clock', l)
    BY <1>0, <2>1, <2>2 DEF RecentListing, Recent, registry
  <2>3. ASSUME NEW q \in Proc
        PROVE  Lagging(q)'
    <3>1. CASE pc[q] \in {"page", "truncate"}
      <4>1. took'[q] = took[q] + 1
        BY <1>9, <3>1 DEF Tick
      <4>2. Recent(server, since, job[q].account, steady[q], seen[q], clock + 1, took[q] + 1)
        BY <1>0, <3>1, RecentAfterTick DEF LagInv, Lagging
      <4>. QED
        BY <2>1, <3>1, <4>1, <4>2 DEF Lagging, registry
    <3>2. CASE pc[q] \notin {"page", "truncate"}
      <4>1. took'[q] = took[q]
        BY <1>9, <3>2 DEF Tick
      <4>. QED
        BY <1>0, <2>1, <3>2, <4>1 DEF LagInv, Lagging, registry
    <3>. QED
      BY <3>1, <3>2
  <2>4. CacheLag'
    <3>1. Readable => RecentListing(server', since', clock', cache)
      BY <1>1, <1>3, <2>2 DEF LagInv, CacheLag
    <3>. QED
      BY <2>1, <3>1 DEF CacheLag, Readable
  <2>5. AnswerLag'
    <3>1. \A q \in Proc : answer[q] # None /\ answer[q].cached =>
            RecentListing(server', since', clock', answer[q].listing)
      BY <1>2, <1>3, <2>2 DEF LagInv, AnswerLag
    <3>. QED
      BY <2>1, <3>1 DEF AnswerLag
  <2>. QED
    BY <2>3, <2>4, <2>5 DEF LagInv
<1>10. ASSUME NEW a \in Account, NEW n \in Name, Change(a, n)
       PROVE  LagInv'
  <2>1. UNCHANGED <<clock, cache, pc, job, stamp, took, answer>>
    BY <1>10 DEF Change
  <2>2. ASSUME NEW l \in Listing, RecentListing(server, since, clock, l)
        PROVE  RecentListing(server', since', clock', l)
    BY <1>0, <1>3, <1>10, <2>1, <2>2, RecentAfterChange DEF RecentListing
  <2>3. ASSUME NEW q \in Proc
        PROVE  Lagging(q)'
    <3>1. CASE pc[q] \in {"page", "truncate"}
      <4>1. job[q].account \in Account
        BY <1>0, <3>1 DEF TypeInv, Job
      <4>2. Recent(server, since, job[q].account, steady[q], seen[q], clock, took[q])
        BY <3>1 DEF LagInv, Lagging
      <4>3. clock <= clock
        BY <1>0
      <4>. DEFINE S == server'[job[q].account]
      <4>4. /\ Recent(server', since', job[q].account, steady[q], seen[q], clock, took[q])
            /\ Recent(server', since', job[q].account, steady[q] \cap S, seen[q] \cup S,
                      clock, took[q])
        BY <1>0, <1>10, <4>1, <4>2, <4>3, RecentAfterChange
      <4>5. \/ steady'[q] = steady[q] /\ seen'[q] = seen[q]
            \/ steady'[q] = steady[q] \cap S /\ seen'[q] = seen[q] \cup S
        BY <1>10 DEF Change, Listens
      <4>. QED
        BY <2>1, <3>1, <4>4, <4>5 DEF Lagging
    <3>2. CASE pc[q] = "fill"
      <4>1. job[q].account \in Account
        BY <1>0, <3>2 DEF TypeInv, Job
      <4>2. stamp[q] <= clock /\
            Recent(server, since, job[q].account, steady[q], seen[q], stamp[q], took[q])
        BY <3>2 DEF LagInv, Lagging
      <4>3. Recent(server', since', job[q].account, steady[q], seen[q], stamp[q], took[q])
        BY <1>0, <1>10, <4>1, <4>2, RecentAfterChange
      <4>4. steady'[q] = steady[q] /\ seen'[q] = seen[q]
        BY <1>10, <3>2 DEF Change, Listens
      <4>. QED
        BY <2>1, <3>2, <4>2, <4>3, <4>4 DEF Lagging
    <3>. QED
      BY <2>1, <3>1, <3>2 DEF Lagging
  <2>4. CacheLag'
    BY <1>1, <2>1, <2>2 DEF LagInv, CacheLag, Readable
  <2>5. AnswerLag'
    BY <1>2, <2>1, <2>2 DEF LagInv, AnswerLag
  <2>. QED
    BY <2>3, <2>4, <2>5 DEF LagInv
\* A listing that begins has missed nothing.
<1>11. ASSUME NEW p \in Proc, NEW a \in Account, Begin(p, a), job'[p].account = a,
              UNCHANGED <<registry, clock>>
       PROVE  Lagging(p)' \/ pc'[p] = "fill"
  <2>1. steady'[p] = server'[a] /\ seen'[p] = server'[a]
    BY <1>0, <1>11 DEF Begin, registry, TypeOK
  <2>2. Recent(server', since', job'[p].account, steady'[p], seen'[p], clock', took'[p])
    BY <1>11, <2>1 DEF Recent
  <2>. QED
    BY <2>2 DEF Lagging
<1>12. ASSUME NEW p \in Proc, NEW cmd \in Commands, NEW a \in Account, Start(p, cmd, a)
       PROVE  LagInv'
  <2>1. /\ Begin(p, a) /\ UNCHANGED <<registry, clock, cache, stamp>>
        /\ pc'[p] # "fill" /\ job'[p] = [cmd |-> cmd, account |-> a]
        /\ \A q \in Proc \ {p} : UNCHANGED <<pc[q], job[q], took[q], steady[q], seen[q]>>
    BY <1>0, <1>12 DEF Start, Begin, Goto, TypeOK
  <2>2. \A q \in Proc : answer'[q] = answer[q] \/ answer'[q] = None
    BY <1>12 DEF Start
  <2>3. AnswersFollow
    BY <2>2 DEF AnswersFollow
  <2>4. Lagging(p)'
    BY <1>11, <2>1
  <2>. QED
    BY <1>4, <1>6, <2>1, <2>3, <2>4
<1>13. ASSUME NEW p \in Proc, Open(p)
       PROVE  LagInv'
  <2>1. job[p] \in Job /\ UNCHANGED <<registry, clock, cache, job>>
    BY <1>0, <1>13 DEF Open, TypeInv
  <2>2. CASE Fresh
    <3>1. Report(p, cache, TRUE) /\ Leave(p)
      BY <1>13, <2>2 DEF Open
    <3>2. RecentListing(server, since, clock, cache)
      BY <2>2 DEF Fresh, LagInv, CacheLag
    <3>3. \A q \in Proc : answer'[q] = answer[q]
                           \/ answer'[q] = [listing |-> cache, cached |-> TRUE, at |-> clock]
      BY <3>1 DEF Report
    <3>4. AnswersFollow
      BY <3>2, <3>3 DEF AnswersFollow
    <3>. QED
      BY <1>5, <1>6, <2>1, <3>1, <3>4
  <2>3. CASE ~Fresh
    <3>1. Goto(p, "page") /\ Begin(p, job[p].account) /\ UNCHANGED <<stamp, answer>>
      BY <1>13, <2>3 DEF Open
    <3>2. /\ pc'[p] = "page"
          /\ \A q \in Proc \ {p} : UNCHANGED <<pc[q], took[q], steady[q], seen[q]>>
      BY <1>0, <3>1 DEF Begin, Goto, TypeOK
    <3>3. job[p].account \in Account
      BY <2>1 DEF Job
    <3>4. Lagging(p)'
      BY <1>11, <2>1, <3>1, <3>2, <3>3
    <3>. QED
      BY <1>4, <1>6, <1>8, <2>1, <3>1, <3>2, <3>4
  <2>. QED
    BY <2>2, <2>3
<1>14. ASSUME NEW p \in Proc, Page(p)
       PROVE  LagInv'
  <2>. DEFINE S     == server[job[p].account]
              names == Gather(p, InOrder(OnPage(S, cursor[p])))
              next  == NextCursor(S, cursor[p])
  <2>1. pc[p] = "page" /\ UNCHANGED <<registry, clock, cache, job>>
    BY <1>14 DEF Page
  <2>2. \/ Turn(p, names, next) /\ UNCHANGED <<pc, answer>>
        \/ Turn(p, names, next) /\ Goto(p, "truncate") /\ UNCHANGED answer
        \/ Leave(p) /\ Report(p, Gathered(p, names), FALSE)
    BY <1>14 DEF Page
  <2>. HIDE DEF names, next
  <2>3. CASE Turn(p, names, next) /\ (UNCHANGED pc \/ Goto(p, "truncate")) /\ UNCHANGED answer
    <3>1. /\ UNCHANGED <<stamp, took, steady, seen>>
          /\ pc'[p] \in {"page", "truncate"} /\ \A q \in Proc \ {p} : UNCHANGED pc[q]
      BY <1>0, <2>1, <2>3 DEF Turn, Goto, TypeOK
    <3>2. Lagging(p)'
      BY <2>1, <3>1 DEF LagInv, Lagging, registry
    <3>. QED
      BY <1>4, <1>6, <1>8, <2>1, <2>3, <3>1, <3>2
  <2>4. CASE Leave(p) /\ Report(p, Gathered(p, names), FALSE)
    BY <1>5, <1>6, <1>7, <2>1, <2>4
  <2>. QED
    BY <2>2, <2>3, <2>4
<1>15. ASSUME NEW p \in Proc, PageUnread(p) \/ PageEmpty(p) \/ PageFailed(p)
       PROVE  LagInv'
  BY <1>5, <1>6, <1>7, <1>8, <1>15 DEF PageUnread, PageEmpty, PageFailed
<1>16. ASSUME NEW p \in Proc, Truncate(p)
       PROVE  LagInv'
  <2>1. /\ pc[p] = "truncate" /\ stamp'[p] = clock /\ pc'[p] = "fill"
        /\ \A q \in Proc \ {p} : UNCHANGED <<pc[q], stamp[q]>>
        /\ UNCHANGED <<registry, clock, job, took, steady, seen, answer>>
        /\ cache' \in Files
    BY <1>0, <1>16 DEF Truncate, Goto, TypeOK, Files
  <2>2. Lagging(p)'
    BY <1>0, <2>1 DEF LagInv, Lagging, registry
  <2>. QED
    BY <1>4, <1>6, <1>8, <2>1, <2>2
<1>17. ASSUME NEW p \in Proc, Fill(p)
       PROVE  LagInv'
  <2>1. /\ pc[p] = "fill" /\ Report(p, Kept(p), FALSE) /\ Leave(p)
        /\ cache' = Kept(p) \/ cache' = Torn
        /\ UNCHANGED <<registry, clock, job>>
    BY <1>17 DEF Fill
  <2>2. /\ Kept(p).stamp = stamp[p] /\ Kept(p).took = took[p]
        /\ Kept(p).account = job[p].account
        /\ Kept(p).steady = steady[p] /\ Kept(p).seen = seen[p]
    BY DEF Kept, Gathered
  <2>3. RecentListing(server, since, clock, Kept(p))
    BY <2>1, <2>2 DEF LagInv, Lagging, RecentListing
  <2>4. CacheLag'
    BY <1>6, <2>1, <2>3 DEF CacheLag, registry, Files
  <2>. QED
    BY <1>5, <1>7, <2>1, <2>4
<1>18. ASSUME NEW p \in Proc, UpdateFailed(p) \/ Crash(p)
       PROVE  LagInv'
  <2>1. Leave(p) /\ UNCHANGED <<registry, clock, job>> /\ (UNCHANGED cache \/ cache' \in Files)
    BY <1>18 DEF UpdateFailed, Crash, Files
  <2>2. AnswersFollow
    BY <1>7, <1>8, <1>18 DEF UpdateFailed, Crash
  <2>. QED
    BY <1>5, <1>6, <2>1, <2>2
<1>19. CASE UNCHANGED vars
  BY <1>19 DEF vars, registry, listing, LagInv, Lagging, CacheLag, Readable, AnswerLag
<1>. QED
  BY <1>9, <1>10, <1>12, <1>13, <1>14, <1>15, <1>16, <1>17, <1>18, <1>19 DEF Next, Step

LEMMA LagInit == Init => LagInv
BY DEF Init, LagInv, Lagging, CacheLag, Readable, Files, AnswerLag

(* A list that `kue list` takes from its cache is wrong only of workflows  *)
(* that came or went less than the lifetime of the cache ago, and the time *)
(* the listing took that the file was written from (List): whatever the    *)
(* server did during that listing and since, whoever wrote the file and    *)
(* who else truncated or tore it.                                          *)
THEOREM CacheLagCorrect == Spec => []CacheLagIsBounded
<1>1. ListInv /\ LagInv => CacheLagIsBounded
  <2>. SUFFICES ASSUME ListInv, LagInv,
                       NEW p \in Proc, answer[p] # None, answer[p].cached,
                       NEW n \in Name,
                       LET l == answer[p].listing IN
                         (n \in Named(l)) # (n \in server[l.account])
       PROVE  LET l == answer[p].listing IN
                /\ since[l.account][n] \in Nat
                /\ answer[p].at < since[l.account][n] + TTL + l.took
    BY DEF CacheLagIsBounded
  <2>. DEFINE l == answer[p].listing
              b == l.account
  <2>1. answer[p] \in Answer /\ l \in Listing
    BY DEF ListInv, TypeInv, TypeOK, Answer
  <2>2. l.stamp \in Nat /\ l.took \in Nat /\ answer[p].at \in Nat /\ b \in Account
    BY <2>1, NameListAssumption DEF Answer, Listing
  <2>3. Consistent(l) /\ answer[p].at - l.stamp < TTL
    BY DEF ListInv, AnswerInv, Answered
  <2>4. Recent(server, since, b, l.steady, l.seen, l.stamp, l.took)
    BY DEF LagInv, AnswerLag, RecentListing
  <2>5. (n \in server[b] /\ n \notin l.steady) \/ (n \in l.seen /\ n \notin server[b])
    <3>1. CASE n \in server[b]
      <4>1. n \notin Named(l)
        BY <3>1
      <4>. QED
        BY <2>3, <3>1, <4>1 DEF Consistent
    <3>2. CASE n \notin server[b]
      <4>1. n \in Named(l)
        BY <3>2 DEF Named
      <4>. QED
        BY <2>3, <3>2, <4>1 DEF Consistent
    <3>. QED
      BY <3>1, <3>2
  <2>6. since[b][n] \in Nat /\ l.stamp <= since[b][n] + l.took
    BY <2>4, <2>5 DEF Recent
  <2>7. answer[p].at < since[b][n] + TTL + l.took
    BY <2>2, <2>3, <2>6, NameListAssumption
  <2>. QED
    BY <2>6, <2>7
<1>. QED
  BY <1>1, ListInit, ListStep, LagInit, LagStep, PTL DEF Spec

=============================================================================
