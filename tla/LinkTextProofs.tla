---------------------------- MODULE LinkTextProofs ----------------------------
(***************************************************************************)
(* Proofs about LinkText, for texts of any length over any characters: the *)
(* parser's indices, its agreement with LinkFormat, attributes as queries, *)
(* and the size of a printed link.                                         *)
(***************************************************************************)
EXTENDS LinkText, FiniteSetTheorems, SequenceTheorems, WellFoundedInduction, TLAPS

-------------------------------------------------------------------------------
(* Induction over the natural numbers, with the predicate as a set.        *)
LEMMA Induction ==
    ASSUME NEW S \in SUBSET Nat, 0 \in S, \A n \in S : n + 1 \in S
    PROVE  S = Nat
<1>. SUFFICES ASSUME Nat \ S # {}  PROVE FALSE
  OBVIOUS
<1>1. IsWellFoundedOn(OpToRel(<, Nat), Nat)
  BY NatLessThanWellFounded
<1>2. PICK x \in Nat \ S : \A y \in Nat \ S : ~(<<y, x>> \in OpToRel(<, Nat))
  BY <1>1, WFMin
<1>3. \A y \in Nat \ S : ~(y < x)
  BY <1>2 DEF OpToRel
<1>4. x \in Nat /\ x \notin S /\ x # 0
  OBVIOUS
<1>5. x - 1 \in Nat /\ x - 1 < x /\ (x - 1) + 1 = x
  BY <1>4
<1>6. x - 1 \in S
  BY <1>3, <1>5
<1>. QED
  BY <1>4, <1>5, <1>6

(* A function defined by recursion over 0 .. N exists.                     *)
Recursive(f, N, base, step) ==
    f = [n \in 0 .. N |-> IF n = 0 THEN base ELSE step[n][f[n - 1]]]

LEMMA Recursion ==
    ASSUME NEW N \in Nat, NEW T, NEW base \in T, NEW step \in [1 .. N -> [T -> T]]
    PROVE  \E f \in [0 .. N -> T] : Recursive(f, N, base, step)
<1>. DEFINE Upto(f, k) == f[0] = base /\ \A n \in 1 .. k : f[n] = step[n][f[n - 1]]
            S == {k \in Nat : k <= N => \E f \in [0 .. k -> T] : Upto(f, k)}
<1>1. 0 \in S
  <2>. DEFINE f == [n \in 0 .. 0 |-> base]
  <2>1. f \in [0 .. 0 -> T] /\ f[0] = base
    OBVIOUS
  <2>2. Upto(f, 0)
    BY <2>1
  <2>. HIDE DEF f
  <2>. QED
    BY <2>1, <2>2
<1>2. ASSUME NEW k \in S  PROVE k + 1 \in S
  <2>. SUFFICES ASSUME k + 1 <= N  PROVE \E f \in [0 .. k + 1 -> T] : Upto(f, k + 1)
    OBVIOUS
  <2>1. PICK f \in [0 .. k -> T] : Upto(f, k)
    OBVIOUS
  <2>. DEFINE g == [n \in 0 .. k + 1 |-> IF n = k + 1 THEN step[k + 1][f[k]] ELSE f[n]]
  <2>2. step[k + 1][f[k]] \in T
    <3>1. k + 1 \in 1 .. N /\ f[k] \in T
      OBVIOUS
    <3>2. step[k + 1] \in [T -> T]
      BY <3>1
    <3>. QED
      BY <3>1, <3>2
  <2>3. g \in [0 .. k + 1 -> T]
    BY <2>2
  <2>4. \A n \in 0 .. k : g[n] = f[n]
    OBVIOUS
  <2>5. g[k + 1] = step[k + 1][g[k]]
    BY <2>4
  <2>6. ASSUME NEW n \in 1 .. k + 1  PROVE g[n] = step[n][g[n - 1]]
    <3>1. CASE n = k + 1
      BY <2>5, <3>1
    <3>2. CASE n # k + 1
      <4>1. n \in 1 .. k /\ n \in 0 .. k /\ n - 1 \in 0 .. k
        BY <3>2
      <4>. QED
        BY <2>1, <2>4, <4>1
    <3>. QED
      BY <3>1, <3>2
  <2>7. g[0] = base
    BY <2>1, <2>4
  <2>. HIDE DEF g
  <2>. QED
    BY <2>3, <2>6, <2>7
<1>3. S = Nat
  <2>. HIDE DEF S
  <2>1. S \in SUBSET Nat
    BY DEF S
  <2>. QED
    BY <1>1, <1>2, <2>1, Induction
<1>4. PICK f \in [0 .. N -> T] : Upto(f, N)
  BY <1>3
<1>5. \A n \in 0 .. N : f[n] = IF n = 0 THEN base ELSE step[n][f[n - 1]]
  BY <1>4
<1>6. f = [n \in 0 .. N |-> f[n]]
  BY <1>4
<1>7. f = [n \in 0 .. N |-> IF n = 0 THEN base ELSE step[n][f[n - 1]]]
  BY <1>5, <1>6
<1>. QED
  BY <1>4, <1>7 DEF Recursive

LEMMA LeastElement ==
    ASSUME NEW E \in SUBSET Nat, E # {}
    PROVE  \E x \in E : \A y \in E : x <= y
<1>1. IsWellFoundedOn(OpToRel(<, Nat), Nat)
  BY NatLessThanWellFounded
<1>2. PICK x \in E : \A y \in E : ~(<<y, x>> \in OpToRel(<, Nat))
  BY <1>1, WFMin
<1>3. \A y \in E : ~(y < x)
  BY <1>2 DEF OpToRel
<1>. QED
  BY <1>3
-------------------------------------------------------------------------------
(* The elements of a finite set E of numbers in their order: Rank(E, e) is *)
(* how many are below e.                                                   *)
Rank(E, e) == Cardinality({d \in E : d < e})

(* e comes next after d.                                                   *)
Follows(E, d, e) == d \in E /\ e \in E /\ d < e /\ \A x \in E : x <= d \/ e <= x

LEMMA RankType ==
    ASSUME NEW E \in SUBSET Nat, IsFiniteSet(E), NEW e \in Nat
    PROVE  Rank(E, e) \in Nat /\ IsFiniteSet({d \in E : d < e})
<1>1. IsFiniteSet({d \in E : d < e})
  BY FS_Subset
<1>. QED
  BY <1>1, FS_CardinalityType DEF Rank

LEMMA RankOfNext ==
    ASSUME NEW E \in SUBSET Nat, IsFiniteSet(E), NEW d, NEW e, Follows(E, d, e)
    PROVE  Rank(E, e) = Rank(E, d) + 1
<1>. DEFINE B == {x \in E : x < d}
<1>1. d \in Nat /\ e \in Nat /\ d \notin B
  BY DEF Follows
<1>2. {x \in E : x < e} = B \cup {d}
  <2>1. \A x \in E : x \in Nat /\ (x < e <=> x < d \/ x = d)
    BY <1>1 DEF Follows
  <2>. QED
    BY <2>1 DEF Follows
<1>3. IsFiniteSet(B)
  BY <1>1, RankType
<1>. HIDE DEF B
<1>4. Cardinality(B \cup {d}) = Cardinality(B) + 1
  BY <1>1, <1>3, FS_AddElement
<1>. QED
  BY <1>2, <1>4 DEF Rank, B

LEMMA RankGrows ==
    ASSUME NEW E \in SUBSET Nat, IsFiniteSet(E), NEW d \in E, NEW e \in E, d < e
    PROVE  Rank(E, d) < Rank(E, e)
<1>. DEFINE B == {x \in E : x < d}
            C == {x \in E : x < e}
<1>1. IsFiniteSet(B) /\ IsFiniteSet(C)
  BY RankType
<1>2. d \notin B /\ B \cup {d} \subseteq C
  <2>1. \A x \in E : x \in Nat /\ (x < d \/ x = d => x < e)
    OBVIOUS
  <2>2. d \in Nat /\ ~ (d < d)
    OBVIOUS
  <2>. QED
    BY <2>1, <2>2
<1>. HIDE DEF B, C
<1>3. Cardinality(B \cup {d}) = Cardinality(B) + 1 /\ Cardinality(B) \in Nat
  BY <1>1, <1>2, FS_AddElement, FS_CardinalityType
<1>4. Cardinality(B \cup {d}) <= Cardinality(C) /\ Cardinality(C) \in Nat
  BY <1>1, <1>2, FS_Subset, FS_CardinalityType
<1>. QED
  BY <1>3, <1>4 DEF Rank, B, C

LEMMA RankInjective ==
    ASSUME NEW E \in SUBSET Nat, IsFiniteSet(E), NEW d \in E, NEW e \in E,
           Rank(E, d) = Rank(E, e)
    PROVE  d = e
<1>1. Rank(E, d) \in Nat /\ Rank(E, e) \in Nat
  BY RankType
<1>2. d < e \/ e < d \/ d = e
  OBVIOUS
<1>. QED
  BY <1>1, <1>2, RankGrows

(* The k-th element as ChunkTexts cuts there.                              *)
LEMMA ElementOfRank ==
    ASSUME NEW E \in SUBSET Nat, IsFiniteSet(E), NEW e \in E
    PROVE  (CHOOSE x \in E : Cardinality({d \in E : d < x}) = Rank(E, e)) = e
<1>1. \A x \in E : Cardinality({d \in E : d < x}) = Rank(E, e) => x = e
  <2>. TAKE x \in E
  <2>. QED
    BY RankInjective DEF Rank
<1>2. Cardinality({d \in E : d < e}) = Rank(E, e)
  BY DEF Rank
<1>. QED
  BY <1>1, <1>2

(* What comes next, if anything is above d.                                *)
LEMMA NextExists ==
    ASSUME NEW E \in SUBSET Nat, NEW d \in E, NEW x \in E, d < x
    PROVE  \E e \in E : Follows(E, d, e)
<1>. DEFINE A == {y \in E : d < y}
<1>1. A \in SUBSET Nat /\ A # {}
  OBVIOUS
<1>. HIDE DEF A
<1>2. PICK e \in A : \A y \in A : e <= y
  BY <1>1, LeastElement
<1>. QED
  BY <1>2 DEF A, Follows

(* Every rank below the greatest has an element, which has a next one.     *)
LEMMA RankOnto ==
    ASSUME NEW E \in SUBSET Nat, IsFiniteSet(E), NEW least \in E, NEW last \in E,
           \A x \in E : least <= x /\ x <= last
    PROVE  /\ Rank(E, least) = 0 /\ Rank(E, last) = Cardinality(E) - 1
           /\ \A k \in 1 .. Cardinality(E) - 1 :
                 \E d, e \in E : Follows(E, d, e) /\ Rank(E, d) = k - 1 /\ Rank(E, e) = k
<1>. DEFINE N == Cardinality(E) - 1
<1>1. {x \in E : x < least} = {}
  <2>1. \A x \in E : ~ (x < least)
    OBVIOUS
  <2>. QED
    BY <2>1
<1>2. Rank(E, least) = 0
  BY <1>1, FS_EmptySet DEF Rank
<1>3. Rank(E, last) = N
  <2>0. \A x \in E : x < last <=> x # last
    OBVIOUS
  <2>1. {x \in E : x < last} = E \ {last}
    BY <2>0
  <2>. QED
    BY <2>1, FS_RemoveElement DEF Rank
<1>4. N \in Nat
  BY <1>3, RankType
<1>. DEFINE S == {k \in Nat : k < N => \E d, e \in E : Follows(E, d, e) /\ Rank(E, d) = k}
<1>5. 0 \in S
  <2>. SUFFICES ASSUME 0 < N  PROVE \E d, e \in E : Follows(E, d, e) /\ Rank(E, d) = 0
    OBVIOUS
  <2>1. least # last
    BY <1>2, <1>3
  <2>2. least < last
    BY <2>1
  <2>. QED
    BY <1>2, <2>2, NextExists
<1>6. ASSUME NEW k \in S  PROVE k + 1 \in S
  <2>. SUFFICES ASSUME k + 1 < N  PROVE \E d, e \in E : Follows(E, d, e) /\ Rank(E, d) = k + 1
    OBVIOUS
  <2>0. k \in Nat /\ k < N
    BY <1>4
  <2>1. PICK c, d \in E : Follows(E, c, d) /\ Rank(E, c) = k
    BY <2>0
  <2>2. Rank(E, d) = k + 1
    BY <2>1, RankOfNext
  <2>3. d # last
    BY <1>3, <1>4, <2>2
  <2>4. d < last
    BY <2>3
  <2>. QED
    BY <2>2, <2>4, NextExists
<1>7. S = Nat
  <2>. HIDE DEF S, N
  <2>1. S \in SUBSET Nat
    BY DEF S
  <2>. QED
    BY <1>5, <1>6, <2>1, Induction
<1>8. ASSUME NEW k \in 1 .. N
      PROVE  \E d, e \in E : Follows(E, d, e) /\ Rank(E, d) = k - 1 /\ Rank(E, e) = k
  <2>1. k - 1 \in Nat /\ k - 1 < N /\ (k - 1) + 1 = k
    BY <1>4
  <2>2. PICK d, e \in E : Follows(E, d, e) /\ Rank(E, d) = k - 1
    BY <1>7, <2>1
  <2>. QED
    BY <2>1, <2>2, RankOfNext
<1>. QED
  BY <1>2, <1>3, <1>8
-------------------------------------------------------------------------------
(* The semicolons of a text, its beginning and its end.                    *)
Ends(s) == {0, Len(s) + 1} \cup {i \in DOMAIN s : s[i] = Semicolon}
Count(s) == Cardinality(Ends(s)) - 1

LEMMA EndsFacts ==
    ASSUME NEW s \in Seq(STRING)
    PROVE  /\ Len(s) \in Nat /\ DOMAIN s = 1 .. Len(s)
           /\ Ends(s) \in SUBSET Nat /\ IsFiniteSet(Ends(s))
           /\ 0 \in Ends(s) /\ Len(s) + 1 \in Ends(s)
           /\ \A x \in Ends(s) : 0 <= x /\ x <= Len(s) + 1
           /\ \A x \in Ends(s) : x # 0 /\ x # Len(s) + 1 => x \in 1 .. Len(s) /\ s[x] = Semicolon
           /\ \A x \in 1 .. Len(s) : s[x] = Semicolon => x \in Ends(s)
           /\ Count(s) \in Nat /\ Count(s) >= 1
<1>1. Len(s) \in Nat /\ DOMAIN s = 1 .. Len(s)
  OBVIOUS
<1>2. /\ \A x \in Ends(s) : 0 <= x /\ x <= Len(s) + 1
      /\ Ends(s) \in SUBSET Nat
      /\ 0 \in Ends(s) /\ Len(s) + 1 \in Ends(s)
      /\ \A x \in Ends(s) : x # 0 /\ x # Len(s) + 1 => x \in 1 .. Len(s) /\ s[x] = Semicolon
      /\ \A x \in 1 .. Len(s) : s[x] = Semicolon => x \in Ends(s)
  <2>1. \A x : x \in Ends(s) <=> x = 0 \/ x = Len(s) + 1 \/ (x \in 1 .. Len(s) /\ s[x] = Semicolon)
    BY <1>1 DEF Ends
  <2>2. \A x \in Ends(s) : x \in Nat /\ 0 <= x /\ x <= Len(s) + 1
    BY <1>1, <2>1
  <2>. QED
    BY <1>1, <2>1, <2>2
<1>3. IsFiniteSet(Ends(s))
  <2>1. Len(s) + 1 \in Nat
    BY <1>1
  <2>. QED
    BY <1>2, <2>1, FS_BoundedSetOfNaturals
<1>4. Rank(Ends(s), 0) = 0 /\ Rank(Ends(s), Len(s) + 1) = Count(s)
  BY <1>1, <1>2, <1>3, RankOnto DEF Count
<1>5. Rank(Ends(s), 0) < Rank(Ends(s), Len(s) + 1)
  <2>1. 0 < Len(s) + 1
    BY <1>1
  <2>. QED
    BY <1>2, <1>3, <2>1, RankGrows
<1>6. Rank(Ends(s), Len(s) + 1) \in Nat
  BY <1>1, <1>2, <1>3, RankType
<1>7. Count(s) \in Nat /\ Count(s) >= 1
  BY <1>4, <1>5, <1>6
<1>. QED
  BY <1>1, <1>2, <1>3, <1>7

(* ChunkTexts cuts a text at its semicolons.                               *)
LEMMA ChunksAreCut ==
    ASSUME NEW s \in Seq(STRING)
    PROVE  /\ DOMAIN ChunkTexts(s) = 1 .. Count(s)
           /\ ChunkTexts(s) = [k \in 1 .. Count(s) |-> ChunkTexts(s)[k]]
           /\ \A d, e : Follows(Ends(s), d, e) =>
                 /\ Rank(Ends(s), e) \in 1 .. Count(s)
                 /\ Rank(Ends(s), e) = Rank(Ends(s), d) + 1
                 /\ ChunkTexts(s)[Rank(Ends(s), e)] = SubSeq(s, d + 1, e - 1)
           /\ \A k \in 1 .. Count(s) :
                 \E d, e : Follows(Ends(s), d, e) /\ Rank(Ends(s), d) = k - 1
                                                  /\ Rank(Ends(s), e) = k
<1>. DEFINE E == Ends(s)
            Cut(i) == CHOOSE e \in E : Cardinality({d \in E : d < e}) = i
<1>1. ChunkTexts(s) = [i \in 1 .. Count(s) |-> SubSeq(s, Cut(i - 1) + 1, Cut(i) - 1)]
  BY DEF ChunkTexts, Ends, Count
<1>2. E \in SUBSET Nat /\ IsFiniteSet(E) /\ 0 \in E /\ Len(s) + 1 \in E
      /\ (\A x \in E : 0 <= x /\ x <= Len(s) + 1) /\ Count(s) \in Nat
  BY EndsFacts
<1>3. \A e \in E : Cut(Rank(E, e)) = e
  <2>. HIDE DEF E
  <2>. QED
    BY <1>2, ElementOfRank
<1>. HIDE DEF E, Cut
<1>4. ASSUME NEW d, NEW e, Follows(E, d, e)
      PROVE  /\ Rank(E, e) \in 1 .. Count(s) /\ Rank(E, e) = Rank(E, d) + 1
             /\ ChunkTexts(s)[Rank(E, e)] = SubSeq(s, d + 1, e - 1)
  <2>1. d \in E /\ e \in E /\ d \in Nat /\ e \in Nat
    BY <1>2, <1>4 DEF Follows
  <2>2. Rank(E, e) = Rank(E, d) + 1 /\ Rank(E, d) \in Nat /\ Rank(E, e) \in Nat
    BY <1>2, <1>4, <2>1, RankOfNext, RankType
  <2>3. Rank(E, Len(s) + 1) = Count(s)
    BY <1>2, RankOnto DEF Count, E
  <2>4. Rank(E, e) <= Count(s)
    <3>1. CASE e = Len(s) + 1
      BY <2>3, <3>1, <1>2
    <3>2. CASE e # Len(s) + 1
      <4>1. e < Len(s) + 1
        <5>1. e <= Len(s) + 1 /\ Len(s) \in Nat
          BY <1>2, <2>1
        <5>. QED
          BY <2>1, <3>2, <5>1
      <4>. QED
        BY <1>2, <2>1, <2>2, <2>3, <4>1, RankGrows
    <3>. QED
      BY <3>1, <3>2
  <2>5. Rank(E, e) \in 1 .. Count(s) /\ Rank(E, e) - 1 = Rank(E, d)
    BY <1>2, <2>2, <2>4
  <2>. QED
    BY <1>1, <1>3, <2>1, <2>2, <2>5
<1>5. \A k \in 1 .. Count(s) :
         \E d, e : Follows(E, d, e) /\ Rank(E, d) = k - 1 /\ Rank(E, e) = k
  BY <1>2, RankOnto DEF Count, E
<1>6. /\ DOMAIN ChunkTexts(s) = 1 .. Count(s)
      /\ ChunkTexts(s) = [k \in 1 .. Count(s) |-> ChunkTexts(s)[k]]
  BY <1>1
<1>. QED
  BY <1>4, <1>5, <1>6 DEF E

(* The place of a chunk in the text.                                      *)
LEMMA ChunkPlace ==
    ASSUME NEW s \in Seq(STRING), NEW d, NEW e, Follows(Ends(s), d, e)
    PROVE  /\ d \in Nat /\ e \in Nat /\ d < e /\ e <= Len(s) + 1 /\ Len(s) \in Nat
           /\ SubSeq(s, d + 1, e - 1) \in Seq(STRING)
           /\ Len(SubSeq(s, d + 1, e - 1)) = e - d - 1
           /\ \A i \in 1 .. e - d - 1 :
                 SubSeq(s, d + 1, e - 1)[i] = s[d + i] /\ d + i \in 1 .. Len(s)
<1>1. d \in Ends(s) /\ e \in Ends(s) /\ d < e
  BY DEF Follows
<1>2. Ends(s) \in SUBSET Nat /\ (\A x \in Ends(s) : 0 <= x /\ x <= Len(s) + 1) /\ Len(s) \in Nat
  BY EndsFacts
<1>3. d \in Nat /\ e \in Nat /\ d < e /\ e <= Len(s) + 1 /\ Len(s) \in Nat
  BY <1>1, <1>2
<1>4. /\ SubSeq(s, d + 1, e - 1) \in Seq(STRING)
      /\ Len(SubSeq(s, d + 1, e - 1)) = e - d - 1
      /\ \A i \in 1 .. e - d - 1 : SubSeq(s, d + 1, e - 1)[i] = s[d + i]
  BY <1>3
<1>5. \A i \in 1 .. e - d - 1 : d + i \in 1 .. Len(s)
  BY <1>3
<1>. QED
  BY <1>3, <1>4, <1>5

(* The chunks are texts, and have all characters but the semicolons.       *)
LEMMA ChunkTypes ==
    ASSUME NEW s \in Seq(STRING), NEW k \in 1 .. Count(s)
    PROVE  /\ ChunkTexts(s)[k] \in Seq(STRING)
           /\ \A i \in DOMAIN ChunkTexts(s)[k] : \E j \in DOMAIN s : ChunkTexts(s)[k][i] = s[j]
<1>1. PICK d, e : Follows(Ends(s), d, e) /\ Rank(Ends(s), e) = k
  BY ChunksAreCut
<1>2. ChunkTexts(s)[k] = SubSeq(s, d + 1, e - 1)
  BY <1>1, ChunksAreCut
<1>3. /\ SubSeq(s, d + 1, e - 1) \in Seq(STRING)
      /\ Len(SubSeq(s, d + 1, e - 1)) = e - d - 1
      /\ \A i \in 1 .. e - d - 1 :
            SubSeq(s, d + 1, e - 1)[i] = s[d + i] /\ d + i \in 1 .. Len(s)
  BY <1>1, ChunkPlace
<1>. DEFINE c == ChunkTexts(s)[k]
<1>4. c \in Seq(STRING) /\ Len(c) = e - d - 1 /\ DOMAIN c = 1 .. Len(c) /\ DOMAIN s = 1 .. Len(s)
  BY <1>2, <1>3
<1>5. \A i \in 1 .. e - d - 1 : c[i] = s[d + i] /\ d + i \in 1 .. Len(s)
  BY <1>2, <1>3
<1>. HIDE DEF c
<1>6. \A i \in DOMAIN c : \E j \in DOMAIN s : c[i] = s[j]
  BY <1>4, <1>5
<1>. QED
  BY <1>4, <1>6 DEF c

LEMMA ChunkOfPlace ==
    ASSUME NEW s \in Seq(STRING), NEW p \in 1 .. Len(s), s[p] # Semicolon
    PROVE  \E k \in 1 .. Count(s) : \E i \in DOMAIN ChunkTexts(s)[k] : ChunkTexts(s)[k][i] = s[p]
<1>. DEFINE E == Ends(s)
            A == {x \in E : p <= x}
<1>0. /\ Len(s) \in Nat /\ p \in Nat /\ p >= 1 /\ p <= Len(s) /\ p # 0 /\ p # Len(s) + 1
      /\ p <= Len(s) + 1
  <2>1. Len(s) \in Nat
    OBVIOUS
  <2>. QED
    BY <2>1
<1>1. /\ E \in SUBSET Nat /\ IsFiniteSet(E) /\ 0 \in E /\ Len(s) + 1 \in E
      /\ \A x \in E : x # 0 /\ x # Len(s) + 1 => s[x] = Semicolon
  BY EndsFacts
<1>. HIDE DEF E
<1>2. p \notin E
  BY <1>0, <1>1
<1>3. A \in SUBSET Nat /\ A # {}
  BY <1>0, <1>1
<1>4. PICK e \in A : \A y \in A : e <= y
  <2>. HIDE DEF A
  <2>. QED
    BY <1>3, LeastElement
<1>5. e \in E /\ e \in Nat /\ p < e
  BY <1>0, <1>1, <1>2, <1>4
<1>6. \A x \in E : x < e => x < p
  BY <1>0, <1>1, <1>4, <1>5
(* The last end before p.                                                  *)
<1>. DEFINE B == {x \in E : x < e}
<1>7. PICK d \in E : Follows(E, d, e)
  <2>1. Rank(E, 0) = 0 /\ Rank(E, Len(s) + 1) = Count(s)
    <3>1. \A x \in E : 0 <= x /\ x <= Len(s) + 1
      BY EndsFacts DEF E
    <3>. QED
      BY <1>1, <3>1, RankOnto DEF Count, E
  <2>2. Rank(E, e) \in Nat /\ Count(s) \in Nat
    BY <1>1, <1>5, RankType, EndsFacts
  <2>3. Rank(E, 0) < Rank(E, e)
    <3>1. 0 < e
      BY <1>0, <1>5
    <3>. QED
      BY <1>1, <1>5, <3>1, RankGrows
  <2>4. Rank(E, e) <= Count(s)
    <3>1. e = Len(s) + 1 \/ e < Len(s) + 1
      BY <1>5, EndsFacts DEF E
    <3>2. CASE e < Len(s) + 1
      <4>1. Rank(E, e) < Rank(E, Len(s) + 1)
        BY <1>1, <1>5, <3>2, RankGrows
      <4>. QED
        BY <2>1, <2>2, <4>1
    <3>. QED
      BY <2>1, <2>2, <3>1, <3>2
  <2>5. Rank(E, e) \in 1 .. Count(s)
    BY <2>1, <2>2, <2>3, <2>4
  <2>6. PICK d, x : Follows(E, d, x) /\ Rank(E, x) = Rank(E, e)
    BY <2>5, ChunksAreCut DEF E
  <2>7. x = e
    BY <1>1, <1>5, <2>6, RankInjective DEF Follows
  <2>. QED
    BY <2>6, <2>7 DEF Follows
<1>8. d < p /\ d \in Nat
  BY <1>1, <1>6, <1>7 DEF Follows
<1>9. /\ Rank(E, e) \in 1 .. Count(s)
      /\ ChunkTexts(s)[Rank(E, e)] = SubSeq(s, d + 1, e - 1)
  BY <1>7, ChunksAreCut DEF E
<1>10. /\ SubSeq(s, d + 1, e - 1) \in Seq(STRING)
       /\ Len(SubSeq(s, d + 1, e - 1)) = e - d - 1
       /\ \A i \in 1 .. e - d - 1 : SubSeq(s, d + 1, e - 1)[i] = s[d + i]
  <2>1. Follows(Ends(s), d, e)
    BY <1>7 DEF E
  <2>. QED
    BY <2>1, ChunkPlace
<1>11. p - d \in 1 .. e - d - 1 /\ d + (p - d) = p
  BY <1>0, <1>5, <1>8
<1>. DEFINE c == ChunkTexts(s)[Rank(E, e)]
<1>12. c \in Seq(STRING) /\ Len(c) = e - d - 1 /\ DOMAIN c = 1 .. Len(c) /\ c[p - d] = s[p]
  BY <1>9, <1>10, <1>11
<1>. QED
  BY <1>9, <1>11, <1>12
-------------------------------------------------------------------------------
(* strchr finds the first place, or nothing.                               *)
LEMMA StrChrFinds ==
    ASSUME NEW s \in Seq(STRING), NEW c, NEW i \in Nat \ {0}
    PROVE  \/ StrChr(s, c, i) = 0 /\ \A j \in i .. Len(s) : s[j] # c
           \/ /\ StrChr(s, c, i) \in i .. Len(s) /\ s[StrChr(s, c, i)] = c
              /\ \A j \in i .. Len(s) : s[j] = c => StrChr(s, c, i) <= j
<1>. DEFINE found == {j \in i .. Len(s) : s[j] = c}
<1>0. Len(s) \in Nat
  OBVIOUS
<1>1. found \in SUBSET Nat
  BY <1>0
<1>2. StrChr(s, c, i) =
        IF found = {} THEN 0 ELSE CHOOSE j \in found : \A k \in found : j <= k
  BY DEF StrChr
<1>3. CASE found = {}
  BY <1>2, <1>3
<1>4. CASE found # {}
  <2>. HIDE DEF found
  <2>1. \E x \in found : \A y \in found : x <= y
    BY <1>1, <1>4, LeastElement
  <2>. DEFINE r == CHOOSE j \in found : \A k \in found : j <= k
  <2>2. r \in found /\ \A k \in found : r <= k
    BY <2>1
  <2>3. StrChr(s, c, i) = r
    BY <1>2, <1>4
  <2>. HIDE DEF r
  <2>. QED
    BY <2>2, <2>3 DEF found
<1>. QED
  BY <1>3, <1>4

(* An option that can be split has one equals sign, within it.             *)
LEMMA OptionSplits ==
    ASSUME NEW s \in Seq(STRING), OptionValidation(s) = 1
    PROVE  LET eq == StrChr(s, "=", 1)
           IN  /\ eq \in Nat /\ 1 < eq /\ eq < Len(s) /\ Len(s) \in Nat /\ s[eq] = "="
               /\ \A j \in 1 .. Len(s) : s[j] = "=" => j = eq
<1>. DEFINE eq == StrChr(s, "=", 1)
            E == {i \in DOMAIN s : s[i] = "="}
<1>1. Len(s) \in Nat /\ DOMAIN s = 1 .. Len(s)
  OBVIOUS
<1>2. Len(s) >= 3 /\ s[1] # "=" /\ s[Len(s)] # "=" /\ Cardinality(E) = 1
  BY <1>1 DEF OptionValidation
<1>3. IsFiniteSet(E)
  <2>1. E \in SUBSET Nat /\ \A x \in E : x <= Len(s)
    BY <1>1
  <2>. HIDE DEF E
  <2>. QED
    BY <1>1, <2>1, FS_BoundedSetOfNaturals
<1>4. PICK e : E = {e}
  BY <1>2, <1>3, FS_Singleton
<1>5. e \in 1 .. Len(s) /\ s[e] = "=" /\ \A j \in 1 .. Len(s) : s[j] = "=" => j = e
  BY <1>1, <1>4
<1>6. eq = e
  <2>1. \/ eq = 0 /\ \A j \in 1 .. Len(s) : s[j] # "="
        \/ eq \in 1 .. Len(s) /\ s[eq] = "="
    BY StrChrFinds
  <2>. HIDE DEF eq
  <2>. QED
    BY <1>5, <2>1
<1>7. e # 1 /\ e # Len(s)
  BY <1>2, <1>5
<1>8. e \in Nat /\ 1 < e /\ e < Len(s)
  <2>1. e \in Nat /\ 1 <= e /\ e <= Len(s)
    BY <1>1, <1>5
  <2>2. \A a, b \in Nat : a <= b /\ a # b => a < b
    OBVIOUS
  <2>3. 1 \in Nat /\ Len(s) \in Nat
    BY <1>1
  <2>. QED
    BY <1>7, <2>1, <2>2, <2>3
<1>. QED
  BY <1>1, <1>5, <1>6, <1>8

(* Where the value of an option begins and ends: without the quotes.       *)
ValueFirst(s, eq) == IF s[eq + 1] = Quote THEN eq + 2 ELSE eq + 1
ValueLast(s, eq) ==
    IF s[Len(s)] = Quote /\ ValueFirst(s, eq) <= Len(s) THEN Len(s) - 1 ELSE Len(s)

LEMMA SubSeqIs ==
    ASSUME NEW s \in Seq(STRING), NEW m \in Nat \ {0}, NEW n \in Nat, n <= Len(s), m <= n + 1
    PROVE  /\ SubSeq(s, m, n) \in Seq(STRING)
           /\ Len(SubSeq(s, m, n)) = n - m + 1
           /\ \A i \in 1 .. n - m + 1 : SubSeq(s, m, n)[i] = s[m + i - 1]
OBVIOUS

LEMMA SameText ==
    ASSUME NEW S, NEW a \in Seq(S), NEW b \in Seq(S), Len(a) = Len(b),
           \A i \in 1 .. Len(a) : a[i] = b[i]
    PROVE  a = b
OBVIOUS

(* The value as parseOption copies it.                                     *)
Raw(s, eq) == SubSeq(s, eq + 1, Len(s))
Opened(s, eq) == IF Raw(s, eq)[1] = Quote THEN Tail(Raw(s, eq)) ELSE Raw(s, eq)
Copied(s, eq) ==
    IF Raw(s, eq)[Len(Raw(s, eq))] = Quote /\ Opened(s, eq) # <<>>
    THEN Front(Opened(s, eq)) ELSE Opened(s, eq)

LEMMA RawIs ==
    ASSUME NEW s \in Seq(STRING), NEW eq \in Nat, 1 < eq, eq < Len(s)
    PROVE  /\ Raw(s, eq) \in Seq(STRING) /\ Len(Raw(s, eq)) = Len(s) - eq
           /\ \A i \in 1 .. Len(s) - eq : Raw(s, eq)[i] = s[eq + i]
           /\ Raw(s, eq)[1] = s[eq + 1] /\ Raw(s, eq)[Len(Raw(s, eq))] = s[Len(s)]
<1>0. Len(s) \in Nat /\ eq + 1 \in Nat \ {0} /\ eq + 1 <= Len(s) + 1
  OBVIOUS
<1>1. /\ Raw(s, eq) \in Seq(STRING) /\ Len(Raw(s, eq)) = Len(s) - (eq + 1) + 1
      /\ \A i \in 1 .. Len(s) - (eq + 1) + 1 : Raw(s, eq)[i] = s[(eq + 1) + i - 1]
  BY <1>0, SubSeqIs DEF Raw
<1>2. Len(s) - (eq + 1) + 1 = Len(s) - eq
  BY <1>0
<1>3. \A i \in 1 .. Len(s) - eq : Raw(s, eq)[i] = s[eq + i]
  <2>. TAKE i \in 1 .. Len(s) - eq
  <2>1. (eq + 1) + i - 1 = eq + i
    BY <1>0
  <2>. QED
    BY <1>1, <1>2, <2>1
<1>4. 1 \in 1 .. Len(s) - eq /\ Len(s) - eq \in 1 .. Len(s) - eq /\ eq + (Len(s) - eq) = Len(s)
  BY <1>0
<1>5. Raw(s, eq)[1] = s[eq + 1]
  BY <1>3, <1>4
<1>6. Raw(s, eq)[Len(s) - eq] = s[eq + (Len(s) - eq)]
  BY <1>3, <1>4
<1>. QED
  BY <1>1, <1>2, <1>3, <1>4, <1>5, <1>6

LEMMA OpenedIs ==
    ASSUME NEW s \in Seq(STRING), NEW eq \in Nat, 1 < eq, eq < Len(s)
    PROVE  LET first == ValueFirst(s, eq)
           IN  /\ first \in eq + 1 .. eq + 2 /\ first \in Nat /\ first <= Len(s) + 1
               /\ Opened(s, eq) \in Seq(STRING) /\ Len(Opened(s, eq)) = Len(s) - first + 1
               /\ \A i \in 1 .. Len(s) - first + 1 : Opened(s, eq)[i] = s[first + i - 1]
<1>. DEFINE raw == Raw(s, eq)
            first == ValueFirst(s, eq)
            n == Len(s) - first + 1
<1>0. Len(s) \in Nat
  OBVIOUS
<1>1. /\ raw \in Seq(STRING) /\ Len(raw) = Len(s) - eq
      /\ \A i \in 1 .. Len(s) - eq : raw[i] = s[eq + i]
      /\ raw[1] = s[eq + 1]
  BY RawIs
<1>. HIDE DEF raw
<1>2. CASE s[eq + 1] = Quote
  <2>1. Opened(s, eq) = Tail(raw) /\ first = eq + 2
    BY <1>1, <1>2 DEF ValueFirst, Opened, raw
  <2>. HIDE DEF first
  <2>2. n = Len(s) - eq - 1 /\ n \in Nat /\ first \in Nat
    BY <1>0, <2>1
  <2>3. raw # <<>>
    BY <1>0, <1>1
  <2>4. /\ Tail(raw) \in Seq(STRING) /\ Len(Tail(raw)) = n
        /\ \A i \in 1 .. n : Tail(raw)[i] = raw[i + 1]
    <3>1. Len(raw) = n + 1
      BY <1>0, <1>1, <2>2
    <3>2. Tail(raw) \in Seq(STRING) /\ Len(Tail(raw)) = Len(raw) - 1
          /\ \A i \in 1 .. Len(Tail(raw)) : Tail(raw)[i] = raw[i + 1]
      BY <1>1, <2>3, HeadTailProperties
    <3>. QED
      BY <2>2, <3>1, <3>2
  <2>5. ASSUME NEW i \in 1 .. n  PROVE Tail(raw)[i] = s[first + i - 1]
    <3>1. i + 1 \in 1 .. Len(s) - eq /\ eq + (i + 1) = first + i - 1
      BY <1>0, <2>1, <2>2
    <3>2. raw[i + 1] = s[eq + (i + 1)]
      BY <1>1, <3>1
    <3>. QED
      BY <2>4, <3>1, <3>2
  <2>6. first \in eq + 1 .. eq + 2 /\ first <= Len(s) + 1
    BY <1>0, <2>1
  <2>. QED
    BY <2>1, <2>2, <2>4, <2>5, <2>6 DEF first
<1>3. CASE s[eq + 1] # Quote
  <2>1. Opened(s, eq) = raw /\ first = eq + 1
    BY <1>1, <1>3 DEF ValueFirst, Opened, raw
  <2>. HIDE DEF first
  <2>2. n = Len(s) - eq /\ n \in Nat /\ first \in Nat
    BY <1>0, <2>1
  <2>3. ASSUME NEW i \in 1 .. n  PROVE raw[i] = s[first + i - 1]
    <3>1. eq + i = first + i - 1
      BY <1>0, <2>1, <2>2
    <3>. QED
      BY <1>1, <2>2, <3>1
  <2>4. first \in eq + 1 .. eq + 2 /\ first <= Len(s) + 1
    BY <1>0, <2>1
  <2>. QED
    BY <1>1, <2>1, <2>2, <2>3, <2>4 DEF first
<1>. QED
  BY <1>2, <1>3

LEMMA FrontIs ==
    ASSUME NEW s \in Seq(STRING), s # <<>>
    PROVE  /\ Front(s) \in Seq(STRING) /\ Len(Front(s)) = Len(s) - 1
           /\ \A i \in 1 .. Len(s) - 1 : Front(s)[i] = s[i]
<1>1. Len(s) \in Nat /\ Len(s) # 0
  BY EmptySeq
<1>2. Front(s) = SubSeq(s, 1, Len(s) - 1)
  BY DEF Front
<1>3. /\ SubSeq(s, 1, Len(s) - 1) \in Seq(STRING)
      /\ Len(SubSeq(s, 1, Len(s) - 1)) = (Len(s) - 1) - 1 + 1
      /\ \A i \in 1 .. (Len(s) - 1) - 1 + 1 : SubSeq(s, 1, Len(s) - 1)[i] = s[1 + i - 1]
  <2>1. 1 \in Nat \ {0} /\ Len(s) - 1 \in Nat /\ Len(s) - 1 <= Len(s) /\ 1 <= (Len(s) - 1) + 1
    BY <1>1
  <2>. QED
    BY <2>1, SubSeqIs
<1>4. (Len(s) - 1) - 1 + 1 = Len(s) - 1 /\ \A i \in 1 .. Len(s) - 1 : 1 + i - 1 = i
  BY <1>1
<1>. QED
  BY <1>2, <1>3, <1>4

LEMMA CopiedIs ==
    ASSUME NEW s \in Seq(STRING), NEW eq \in Nat, 1 < eq, eq < Len(s)
    PROVE  LET first == ValueFirst(s, eq)
               last == ValueLast(s, eq)
           IN  /\ last \in Len(s) - 1 .. Len(s) /\ first <= last + 1
               /\ Copied(s, eq) = SubSeq(s, first, last)
<1>. DEFINE first == ValueFirst(s, eq)
            last == ValueLast(s, eq)
            opened == Opened(s, eq)
            data == Copied(s, eq)
<1>0. Len(s) \in Nat /\ Raw(s, eq)[Len(Raw(s, eq))] = s[Len(s)]
  BY RawIs
<1>1. /\ first \in eq + 1 .. eq + 2 /\ first \in Nat /\ first <= Len(s) + 1
      /\ opened \in Seq(STRING) /\ Len(opened) = Len(s) - first + 1
      /\ \A i \in 1 .. Len(s) - first + 1 : opened[i] = s[first + i - 1]
  BY OpenedIs
<1>. HIDE DEF opened
<1>2. opened # <<>> <=> first <= Len(s)
  <2>1. opened = <<>> <=> Len(opened) = 0
    BY <1>1, EmptySeq
  <2>. HIDE DEF first
  <2>. QED
    BY <1>0, <1>1, <2>1
<1>3. /\ last \in Len(s) - 1 .. Len(s) /\ first <= last + 1
      /\ data \in Seq(STRING) /\ Len(data) = last - first + 1
      /\ \A i \in 1 .. last - first + 1 : data[i] = s[first + i - 1]
  <2>1. CASE s[Len(s)] = Quote /\ first <= Len(s)
    <3>1. last = Len(s) - 1 /\ data = Front(opened)
      BY <1>0, <1>2, <2>1 DEF ValueLast, Copied, opened
    <3>. HIDE DEF first, last, data
    <3>2. last - first + 1 = Len(opened) - 1 /\ last \in Len(s) - 1 .. Len(s) /\ first <= last + 1
      BY <1>0, <1>1, <2>1, <3>1
    <3>3. /\ data \in Seq(STRING) /\ Len(data) = Len(opened) - 1
          /\ \A i \in 1 .. Len(opened) - 1 : data[i] = opened[i]
      BY <1>1, <1>2, <2>1, <3>1, FrontIs
    <3>4. \A i \in 1 .. Len(opened) - 1 : opened[i] = s[first + i - 1]
      <4>1. \A i \in 1 .. Len(opened) - 1 : i \in 1 .. Len(s) - first + 1
        BY <1>0, <1>1
      <4>. QED
        BY <1>1, <4>1
    <3>. QED
      BY <3>2, <3>3, <3>4
  <2>2. CASE ~ (s[Len(s)] = Quote /\ first <= Len(s))
    <3>1. last = Len(s) /\ data = opened
      BY <1>0, <1>2, <2>2 DEF ValueLast, Copied, opened
    <3>. HIDE DEF first, last, data
    <3>2. last \in Len(s) - 1 .. Len(s) /\ first <= last + 1
      BY <1>0, <1>1, <3>1
    <3>. QED
      BY <1>1, <3>1, <3>2
  <2>. QED
    BY <2>1, <2>2
<1>4. /\ SubSeq(s, first, last) \in Seq(STRING) /\ Len(SubSeq(s, first, last)) = last - first + 1
      /\ \A i \in 1 .. last - first + 1 : SubSeq(s, first, last)[i] = s[first + i - 1]
  <2>. HIDE DEF first, last
  <2>1. first \in Nat \ {0} /\ last \in Nat /\ last <= Len(s) /\ first <= last + 1
    BY <1>0, <1>1, <1>3
  <2>. QED
    BY <2>1, SubSeqIs
<1>5. data = SubSeq(s, first, last)
  <2>. HIDE DEF first, last, data
  <2>. QED
    BY <1>3, <1>4, SameText
<1>. QED
  BY <1>3, <1>5

(* What parseOption finds.                                                 *)
LEMMA ParseOptionFinds ==
    ASSUME NEW s \in Seq(STRING)
    PROVE  LET eq == StrChr(s, "=", 1)
               type == SubSeq(s, 1, eq - 1)
               data == SubSeq(s, ValueFirst(s, eq), ValueLast(s, eq))
           IN  /\ ParseOption(s).ok <=> /\ OptionValidation(s) = 1
                                        /\ RestrictedTo(type, Word) /\ RestrictedTo(data, Word)
               /\ ParseOption(s).ok => ParseOption(s).name = type /\ ParseOption(s).value = data
<1>. DEFINE eq == StrChr(s, "=", 1)
            type == SubSeq(s, 1, eq - 1)
            data == Copied(s, eq)
            wrote == Raw(s, eq)[Len(Raw(s, eq))] = Quote /\ Opened(s, eq) = <<>>
            part == SubSeq(s, ValueFirst(s, eq), ValueLast(s, eq))
<1>1. ParseOption(s) =
        IF OptionValidation(s) # 1 THEN [ok |-> FALSE, early |-> FALSE]
        ELSE IF ~ RestrictedTo(type, Word) THEN [ok |-> FALSE, early |-> FALSE]
        ELSE [ok |-> RestrictedTo(data, Word), early |-> wrote, name |-> type, value |-> data]
  BY Zenon DEF ParseOption, Copied, Opened, Raw
<1>2. CASE OptionValidation(s) = 1
  <2>1. eq \in Nat /\ 1 < eq /\ eq < Len(s)
    BY <1>2, OptionSplits
  <2>2. data = part
    <3>. HIDE DEF eq
    <3>. QED
      BY <2>1, CopiedIs
  <2>. HIDE DEF eq, type, data, part, wrote
  <2>3. /\ ParseOption(s).ok <=> RestrictedTo(type, Word) /\ RestrictedTo(data, Word)
        /\ ParseOption(s).ok => ParseOption(s).name = type /\ ParseOption(s).value = data
    BY <1>1, <1>2
  <2>. QED
    BY <1>2, <2>2, <2>3 DEF eq, type, part
<1>3. CASE OptionValidation(s) # 1
  <2>1. ParseOption(s) = [ok |-> FALSE, early |-> FALSE]
    BY <1>1, <1>3
  <2>. QED
    BY <1>3, <2>1
<1>. QED
  BY <1>2, <1>3
-------------------------------------------------------------------------------
LEMMA WordHasNone == "=" \notin Word /\ Quote \notin Word /\ "<" \notin Word /\ "=" # Quote
BY DEF Word, Letters, Digits, Quote

LEMMA ConcatAt ==
    ASSUME NEW S, NEW x \in Seq(S), NEW y \in Seq(S)
    PROVE  /\ x \o y \in Seq(S) /\ Len(x \o y) = Len(x) + Len(y)
           /\ \A i \in 1 .. Len(x) : (x \o y)[i] = x[i]
           /\ \A i \in 1 .. Len(y) : (x \o y)[Len(x) + i] = y[i]
<1>1. Len(x) \in Nat /\ Len(y) \in Nat
  OBVIOUS
<1>2. /\ x \o y \in Seq(S) /\ Len(x \o y) = Len(x) + Len(y)
      /\ \A i \in 1 .. Len(x) + Len(y) :
            (x \o y)[i] = IF i <= Len(x) THEN x[i] ELSE y[i - Len(x)]
  BY ConcatProperties
<1>3. ASSUME NEW i \in 1 .. Len(x)  PROVE (x \o y)[i] = x[i]
  <2>1. i \in 1 .. Len(x) + Len(y) /\ i <= Len(x)
    BY <1>1
  <2>. QED
    BY <1>2, <2>1
<1>4. ASSUME NEW i \in 1 .. Len(y)  PROVE (x \o y)[Len(x) + i] = y[i]
  <2>1. Len(x) + i \in 1 .. Len(x) + Len(y) /\ ~ (Len(x) + i <= Len(x)) /\ (Len(x) + i) - Len(x) = i
    BY <1>1
  <2>. QED
    BY <1>2, <2>1
<1>. QED
  BY <1>2, <1>3, <1>4

(* An attribute put together from its pieces: the name a, the quotes o and *)
(* c, the value v.                                                         *)
Joined(a, o, v, c) == a \o <<"=">> \o o \o v \o c

(* t has the pieces in their places.                                       *)
Pieces(t, a, o, v, c, e) ==
    /\ e = Len(a) + 1 /\ Len(t) = e + Len(o) + Len(v) + Len(c)
    /\ \A i \in 1 .. Len(a) : t[i] = a[i]
    /\ t[e] = "="
    /\ \A i \in 1 .. Len(o) : t[e + i] = o[i]
    /\ \A i \in 1 .. Len(v) : t[e + Len(o) + i] = v[i]
    /\ \A i \in 1 .. Len(c) : t[e + Len(o) + Len(v) + i] = c[i]

LEMMA JoinedPieces ==
    ASSUME NEW S, "=" \in S,
           NEW a \in Seq(S), NEW o \in Seq(S), NEW v \in Seq(S), NEW c \in Seq(S),
           NEW e, e = Len(a) + 1
    PROVE  Joined(a, o, v, c) \in Seq(S) /\ Pieces(Joined(a, o, v, c), a, o, v, c, e)
<1>. DEFINE t1 == a \o <<"=">>
            t2 == t1 \o o
            t3 == t2 \o v
            t4 == t3 \o c
<1>0. /\ Len(a) \in Nat /\ Len(o) \in Nat /\ Len(v) \in Nat /\ Len(c) \in Nat
      /\ <<"=">> \in Seq(S) /\ Len(<<"=">>) = 1 /\ <<"=">>[1] = "="
      /\ e \in Nat
  <2>1. Len(a) \in Nat /\ Len(o) \in Nat /\ Len(v) \in Nat /\ Len(c) \in Nat
    OBVIOUS
  <2>2. <<"=">> \in Seq(S)
    OBVIOUS
  <2>3. Len(<<"=">>) = 1 /\ <<"=">>[1] = "="
    OBVIOUS
  <2>. QED
    BY <2>1, <2>2, <2>3
<1>1. /\ t1 \in Seq(S) /\ Len(t1) = e
      /\ \A i \in 1 .. Len(a) : t1[i] = a[i]
      /\ t1[e] = "="
  <2>1. /\ t1 \in Seq(S) /\ Len(t1) = Len(a) + Len(<<"=">>)
        /\ \A i \in 1 .. Len(a) : t1[i] = a[i]
        /\ \A i \in 1 .. Len(<<"=">>) : t1[Len(a) + i] = <<"=">>[i]
    BY <1>0, ConcatAt
  <2>. HIDE DEF t1
  <2>2. 1 \in 1 .. Len(<<"=">>)
    BY <1>0
  <2>. QED
    BY <1>0, <2>1, <2>2
<1>. HIDE DEF t1
<1>2. /\ t2 \in Seq(S) /\ Len(t2) = e + Len(o)
      /\ \A i \in 1 .. e : t2[i] = t1[i]
      /\ \A i \in 1 .. Len(o) : t2[e + i] = o[i]
  <2>1. /\ t2 \in Seq(S) /\ Len(t2) = Len(t1) + Len(o)
        /\ \A i \in 1 .. Len(t1) : t2[i] = t1[i]
        /\ \A i \in 1 .. Len(o) : t2[Len(t1) + i] = o[i]
    <3>1. t1 \in Seq(S)
      BY <1>1
    <3>. QED
      BY <3>1, ConcatAt
  <2>. HIDE DEF t2
  <2>. QED
    BY <1>1, <2>1
<1>. HIDE DEF t2
<1>3. /\ t3 \in Seq(S) /\ Len(t3) = e + Len(o) + Len(v)
      /\ \A i \in 1 .. e + Len(o) : t3[i] = t2[i]
      /\ \A i \in 1 .. Len(v) : t3[e + Len(o) + i] = v[i]
  <2>1. /\ t3 \in Seq(S) /\ Len(t3) = Len(t2) + Len(v)
        /\ \A i \in 1 .. Len(t2) : t3[i] = t2[i]
        /\ \A i \in 1 .. Len(v) : t3[Len(t2) + i] = v[i]
    <3>1. t2 \in Seq(S)
      BY <1>2
    <3>. QED
      BY <3>1, ConcatAt
  <2>. HIDE DEF t3
  <2>. QED
    BY <1>2, <2>1
<1>. HIDE DEF t3
<1>4. /\ t4 \in Seq(S) /\ Len(t4) = e + Len(o) + Len(v) + Len(c)
      /\ \A i \in 1 .. e + Len(o) + Len(v) : t4[i] = t3[i]
      /\ \A i \in 1 .. Len(c) : t4[e + Len(o) + Len(v) + i] = c[i]
  <2>1. /\ t4 \in Seq(S) /\ Len(t4) = Len(t3) + Len(c)
        /\ \A i \in 1 .. Len(t3) : t4[i] = t3[i]
        /\ \A i \in 1 .. Len(c) : t4[Len(t3) + i] = c[i]
    <3>1. t3 \in Seq(S)
      BY <1>3
    <3>. QED
      BY <3>1, ConcatAt
  <2>. HIDE DEF t4
  <2>. QED
    BY <1>3, <2>1
<1>5. Joined(a, o, v, c) = t4
  BY DEF Joined, t1, t2, t3
<1>. HIDE DEF t4
<1>6. ASSUME NEW i \in 1 .. e  PROVE t4[i] = t1[i]
  <2>1. i \in 1 .. e + Len(o) /\ i \in 1 .. e + Len(o) + Len(v)
    BY <1>0
  <2>. QED
    BY <1>2, <1>3, <1>4, <2>1
<1>7. \A i \in 1 .. Len(a) : i \in 1 .. e
  BY <1>0
<1>8. e \in 1 .. e
  BY <1>0
<1>9. ASSUME NEW i \in 1 .. Len(o)  PROVE t4[e + i] = o[i]
  <2>1. e + i \in 1 .. e + Len(o) /\ e + i \in 1 .. e + Len(o) + Len(v)
    BY <1>0
  <2>. QED
    BY <1>2, <1>3, <1>4, <2>1
<1>10. ASSUME NEW i \in 1 .. Len(v)  PROVE t4[e + Len(o) + i] = v[i]
  <2>1. e + Len(o) + i \in 1 .. e + Len(o) + Len(v)
    BY <1>0
  <2>. QED
    BY <1>3, <1>4, <2>1
<1>11. (\A i \in 1 .. Len(a) : t4[i] = a[i]) /\ t4[e] = "="
  <2>. QED
    BY <1>1, <1>6, <1>7, <1>8
<1>. QED
  BY <1>4, <1>5, <1>9, <1>10, <1>11 DEF Pieces

LEMMA JoinedIs ==
    ASSUME NEW S, "=" \in S,
           NEW a \in Seq(S), NEW o \in Seq(S), NEW v \in Seq(S), NEW c \in Seq(S),
           NEW s \in Seq(S), NEW e, Pieces(s, a, o, v, c, e)
    PROVE  s = Joined(a, o, v, c)
<1>. DEFINE t == Joined(a, o, v, c)
<1>0. /\ Len(a) \in Nat /\ Len(o) \in Nat /\ Len(v) \in Nat /\ Len(c) \in Nat
      /\ e \in Nat /\ e = Len(a) + 1 /\ Len(s) = e + Len(o) + Len(v) + Len(c)
  BY DEF Pieces
<1>1. t \in Seq(S) /\ Pieces(t, a, o, v, c, e)
  BY <1>0, JoinedPieces
<1>. HIDE DEF t
<1>2. ASSUME NEW i \in 1 .. Len(s)  PROVE s[i] = t[i]
  <2>1. \/ i \in 1 .. Len(a)
        \/ i = e
        \/ i - e \in 1 .. Len(o) /\ e + (i - e) = i
        \/ i - e - Len(o) \in 1 .. Len(v) /\ e + Len(o) + (i - e - Len(o)) = i
        \/ /\ i - e - Len(o) - Len(v) \in 1 .. Len(c)
           /\ e + Len(o) + Len(v) + (i - e - Len(o) - Len(v)) = i
    BY <1>0
  <2>2. CASE i \in 1 .. Len(a)
    BY <1>1, <2>2 DEF Pieces
  <2>3. CASE i = e
    BY <1>1, <2>3 DEF Pieces
  <2>4. CASE i - e \in 1 .. Len(o) /\ e + (i - e) = i
    <3>1. s[e + (i - e)] = o[i - e] /\ t[e + (i - e)] = o[i - e]
      BY <1>1, <2>4 DEF Pieces
    <3>. QED
      BY <2>4, <3>1
  <2>5. CASE i - e - Len(o) \in 1 .. Len(v) /\ e + Len(o) + (i - e - Len(o)) = i
    <3>. DEFINE k == i - e - Len(o)
    <3>1. s[e + Len(o) + k] = v[k] /\ t[e + Len(o) + k] = v[k]
      BY <1>1, <2>5 DEF Pieces
    <3>. QED
      BY <2>5, <3>1
  <2>6. CASE /\ i - e - Len(o) - Len(v) \in 1 .. Len(c)
             /\ e + Len(o) + Len(v) + (i - e - Len(o) - Len(v)) = i
    <3>. DEFINE k == i - e - Len(o) - Len(v)
    <3>1. s[e + Len(o) + Len(v) + k] = c[k] /\ t[e + Len(o) + Len(v) + k] = c[k]
      BY <1>1, <2>6 DEF Pieces
    <3>. QED
      BY <2>6, <3>1
  <2>. QED
    BY <2>1, <2>2, <2>3, <2>4, <2>5, <2>6
<1>3. Len(s) = Len(t)
  BY <1>0, <1>1 DEF Pieces
<1>. QED
  BY <1>1, <1>2, <1>3, SameText DEF t
-------------------------------------------------------------------------------
(* The characters of a text, and those that the parser looks for.          *)
Chars == STRING \cup {"=", "/", "<", ">", "o", "b", "s", Quote, Semicolon}

LEMMA TextsOfChars ==
    /\ STRING \subseteq Chars /\ "=" \in Chars /\ Quote \in Chars /\ Semicolon \in Chars
    /\ \A s \in Seq(STRING) : s \in Seq(Chars)
<1>1. STRING \subseteq Chars /\ "=" \in Chars /\ Quote \in Chars /\ Semicolon \in Chars
  BY DEF Chars
<1>2. ASSUME NEW s \in Seq(STRING)  PROVE s \in Seq(Chars)
  <2>1. Len(s) \in Nat /\ DOMAIN s = 1 .. Len(s) /\ s = [i \in 1 .. Len(s) |-> s[i]]
    OBVIOUS
  <2>2. \A i \in 1 .. Len(s) : s[i] \in Chars
    <3>1. \A i \in 1 .. Len(s) : s[i] \in STRING
      BY ElementOfSeq
    <3>. QED
      BY <1>1, <3>1
  <2>. QED
    BY <2>1, <2>2
<1>. QED
  BY <1>1, <1>2

LEMMA RestrictedConcat ==
    ASSUME NEW S, NEW x \in Seq(S), NEW y \in Seq(S), NEW chars
    PROVE  RestrictedTo(x \o y, chars) <=> RestrictedTo(x, chars) /\ RestrictedTo(y, chars)
<1>1. Len(x) \in Nat /\ Len(y) \in Nat /\ DOMAIN x = 1 .. Len(x) /\ DOMAIN y = 1 .. Len(y)
  OBVIOUS
<1>2. /\ x \o y \in Seq(S) /\ Len(x \o y) = Len(x) + Len(y)
      /\ \A i \in 1 .. Len(x) : (x \o y)[i] = x[i]
      /\ \A i \in 1 .. Len(y) : (x \o y)[Len(x) + i] = y[i]
  BY ConcatAt
<1>. DEFINE z == x \o y
<1>3. DOMAIN z = 1 .. Len(x) + Len(y)
  BY <1>2
<1>. HIDE DEF z
<1>4. ASSUME RestrictedTo(z, chars)  PROVE RestrictedTo(x, chars) /\ RestrictedTo(y, chars)
  <2>1. ASSUME NEW i \in 1 .. Len(x)  PROVE x[i] \in chars
    <3>1. i \in 1 .. Len(x) + Len(y)
      BY <1>1
    <3>. QED
      BY <1>2, <1>3, <1>4, <3>1 DEF RestrictedTo, z
  <2>2. ASSUME NEW i \in 1 .. Len(y)  PROVE y[i] \in chars
    <3>1. Len(x) + i \in 1 .. Len(x) + Len(y)
      BY <1>1
    <3>. QED
      BY <1>2, <1>3, <1>4, <3>1 DEF RestrictedTo, z
  <2>. QED
    BY <1>1, <2>1, <2>2 DEF RestrictedTo
<1>5. ASSUME RestrictedTo(x, chars), RestrictedTo(y, chars)  PROVE RestrictedTo(z, chars)
  <2>1. ASSUME NEW i \in 1 .. Len(x) + Len(y)  PROVE z[i] \in chars
    <3>1. CASE i \in 1 .. Len(x)
      BY <1>1, <1>2, <1>5, <3>1 DEF RestrictedTo, z
    <3>2. CASE i \notin 1 .. Len(x)
      <4>1. i - Len(x) \in 1 .. Len(y) /\ Len(x) + (i - Len(x)) = i
        BY <1>1, <3>2
      <4>2. z[Len(x) + (i - Len(x))] = y[i - Len(x)]
        BY <1>2, <4>1 DEF z
      <4>. QED
        BY <1>1, <1>5, <4>1, <4>2 DEF RestrictedTo
    <3>. QED
      BY <3>1, <3>2
  <2>. QED
    BY <1>3, <2>1 DEF RestrictedTo
<1>. QED
  BY <1>4, <1>5 DEF z

(* The quotes around the value of an option.                               *)
QuoteBefore(s, eq) == IF ValueFirst(s, eq) = eq + 2 THEN <<Quote>> ELSE <<>>
QuoteAfter(s, eq) == IF ValueLast(s, eq) = Len(s) - 1 THEN <<Quote>> ELSE <<>>

LEMMA OptionPieces ==
    ASSUME NEW s \in Seq(STRING), NEW eq \in Nat, 1 < eq, eq < Len(s), s[eq] = "="
    PROVE  LET first == ValueFirst(s, eq)
               last == ValueLast(s, eq)
               name == SubSeq(s, 1, eq - 1)
               value == SubSeq(s, first, last)
           IN  /\ name \in Seq(STRING) /\ Len(name) = eq - 1
               /\ value \in Seq(STRING) /\ Len(value) = last - first + 1
               /\ first \in eq + 1 .. eq + 2 /\ last \in Len(s) - 1 .. Len(s) /\ first <= last + 1
               /\ Pieces(s, name, QuoteBefore(s, eq), value, QuoteAfter(s, eq), eq)
<1>. DEFINE first == ValueFirst(s, eq)
            last == ValueLast(s, eq)
            name == SubSeq(s, 1, eq - 1)
            value == SubSeq(s, first, last)
            before == QuoteBefore(s, eq)
            after == QuoteAfter(s, eq)
<1>0. Len(s) \in Nat
  OBVIOUS
<1>1. /\ first \in eq + 1 .. eq + 2 /\ first <= Len(s) + 1
      /\ last \in Len(s) - 1 .. Len(s) /\ first <= last + 1
  BY OpenedIs, CopiedIs
<1>2. /\ first = eq + 2 => s[eq + 1] = Quote
      /\ last = Len(s) - 1 => s[Len(s)] = Quote
  BY <1>0 DEF ValueFirst, ValueLast
<1>. HIDE DEF first, last
<1>3. /\ name \in Seq(STRING) /\ Len(name) = eq - 1
      /\ \A i \in 1 .. eq - 1 : name[i] = s[i]
  <2>1. /\ 1 \in Nat \ {0} /\ eq - 1 \in Nat /\ eq - 1 <= Len(s) /\ 1 <= (eq - 1) + 1
        /\ (eq - 1) - 1 + 1 = eq - 1
    BY <1>0
  <2>2. /\ name \in Seq(STRING) /\ Len(name) = (eq - 1) - 1 + 1
        /\ \A i \in 1 .. (eq - 1) - 1 + 1 : name[i] = s[1 + i - 1]
    BY <2>1, SubSeqIs
  <2>3. \A i \in 1 .. eq - 1 : 1 + i - 1 = i
    OBVIOUS
  <2>. HIDE DEF name
  <2>. QED
    BY <2>1, <2>2, <2>3
<1>4. /\ value \in Seq(STRING) /\ Len(value) = last - first + 1
      /\ \A i \in 1 .. last - first + 1 : value[i] = s[first + i - 1]
  <2>1. first \in Nat \ {0} /\ last \in Nat /\ last <= Len(s) /\ first <= last + 1
    BY <1>0, <1>1
  <2>. QED
    BY <2>1, SubSeqIs
<1>5. /\ Len(before) = first - eq - 1
      /\ \A i \in 1 .. first - eq - 1 : before[i] = s[eq + i]
  <2>1. CASE first = eq + 2
    <3>1. before = <<Quote>>
      BY <2>1 DEF QuoteBefore, first
    <3>2. first - eq - 1 = 1 /\ \A i \in 1 .. 1 : i = 1
      BY <2>1
    <3>. HIDE DEF before
    <3>. QED
      BY <1>2, <2>1, <3>1, <3>2
  <2>2. CASE first # eq + 2
    <3>1. before = <<>>
      BY <2>2 DEF QuoteBefore, first
    <3>2. first - eq - 1 = 0
      BY <1>1, <2>2
    <3>. HIDE DEF before
    <3>. QED
      BY <3>1, <3>2
  <2>. QED
    BY <2>1, <2>2
<1>6. /\ Len(after) = Len(s) - last
      /\ \A i \in 1 .. Len(s) - last : after[i] = s[last + i]
  <2>1. CASE last = Len(s) - 1
    <3>1. after = <<Quote>>
      BY <2>1 DEF QuoteAfter, last
    <3>2. Len(s) - last = 1 /\ (\A i \in 1 .. 1 : i = 1) /\ last + 1 = Len(s)
      BY <1>0, <2>1
    <3>. HIDE DEF after
    <3>. QED
      BY <1>2, <2>1, <3>1, <3>2
  <2>2. CASE last # Len(s) - 1
    <3>1. after = <<>>
      BY <2>2 DEF QuoteAfter, last
    <3>2. Len(s) - last = 0
      BY <1>0, <1>1, <2>2
    <3>. HIDE DEF after
    <3>. QED
      BY <3>1, <3>2
  <2>. QED
    BY <2>1, <2>2
<1>. HIDE DEF name, value, before, after
<1>7. Pieces(s, name, before, value, after, eq)
  <2>1. eq = Len(name) + 1 /\ Len(s) = eq + Len(before) + Len(value) + Len(after)
    BY <1>0, <1>1, <1>3, <1>4, <1>5, <1>6
  <2>2. ASSUME NEW i \in 1 .. Len(value)  PROVE s[eq + Len(before) + i] = value[i]
    <3>1. eq + Len(before) + i = first + i - 1 /\ i \in 1 .. last - first + 1
      BY <1>1, <1>4, <1>5
    <3>. QED
      BY <1>4, <3>1
  <2>3. ASSUME NEW i \in 1 .. Len(after)  PROVE s[eq + Len(before) + Len(value) + i] = after[i]
    <3>1. eq + Len(before) + Len(value) + i = last + i /\ i \in 1 .. Len(s) - last
      BY <1>0, <1>1, <1>4, <1>5, <1>6
    <3>. QED
      BY <1>6, <3>1
  <2>. QED
    BY <1>3, <1>5, <2>1, <2>2, <2>3 DEF Pieces
<1>. QED
  BY <1>1, <1>3, <1>4, <1>7 DEF first, last, name, value, before, after

(* What parseOption accepts is an attribute of the grammar.                *)
LEMMA AttributeOfOption ==
    ASSUME NEW s \in Seq(STRING), ParseOption(s).ok
    PROVE  /\ [name |-> ParseOption(s).name, value |-> ParseOption(s).value] \in Attributes(s)
           /\ ParseOption(s).name \in Seq(STRING) /\ ParseOption(s).value \in Seq(STRING)
           /\ ParseOption(s).name # <<>>
           /\ RestrictedTo(ParseOption(s).name, Word) /\ RestrictedTo(ParseOption(s).value, Word)
           /\ ParseOption(s).name = SubSeq(s, 1, StrChr(s, "=", 1) - 1)
<1>. DEFINE eq == StrChr(s, "=", 1)
            first == ValueFirst(s, eq)
            last == ValueLast(s, eq)
            name == SubSeq(s, 1, eq - 1)
            value == SubSeq(s, first, last)
            before == QuoteBefore(s, eq)
            after == QuoteAfter(s, eq)
            a == [name |-> name, value |-> value]
<1>1. /\ OptionValidation(s) = 1 /\ RestrictedTo(name, Word) /\ RestrictedTo(value, Word)
      /\ ParseOption(s).name = name /\ ParseOption(s).value = value
  BY ParseOptionFinds
<1>2. eq \in Nat /\ 1 < eq /\ eq < Len(s) /\ Len(s) \in Nat /\ s[eq] = "="
  BY <1>1, OptionSplits
<1>. HIDE DEF eq
<1>3. /\ name \in Seq(STRING) /\ Len(name) = eq - 1
      /\ value \in Seq(STRING) /\ Len(value) = last - first + 1
      /\ first \in eq + 1 .. eq + 2 /\ last \in Len(s) - 1 .. Len(s) /\ first <= last + 1
      /\ Pieces(s, name, before, value, after, eq)
  BY <1>2, OptionPieces
<1>4. before \in Quotes /\ after \in Quotes
  BY DEF Quotes, QuoteBefore, QuoteAfter
<1>5. before \in Seq(Chars) /\ after \in Seq(Chars) /\ name \in Seq(Chars) /\ value \in Seq(Chars)
      /\ s \in Seq(Chars)
  <2>1. <<Quote>> \in Seq(Chars) /\ <<>> \in Seq(Chars)
    <3>1. \A x \in Chars : <<x>> \in Seq(Chars)
      OBVIOUS
    <3>. QED
      BY <3>1, TextsOfChars
  <2>2. before \in Seq(Chars) /\ after \in Seq(Chars)
    BY <1>4, <2>1 DEF Quotes
  <2>. QED
    BY <1>3, <2>2, TextsOfChars
<1>6. s = Joined(name, before, value, after)
  <2>. HIDE DEF first, last, name, value, before, after
  <2>. QED
    BY <1>3, <1>5, TextsOfChars, JoinedIs
<1>7. before \o value \o after # <<>>
  <2>. HIDE DEF first, last, name, value, before, after
  <2>1. Len(before) + Len(value) + Len(after) # 0
    <3>1. eq = Len(name) + 1 /\ Len(s) = eq + Len(before) + Len(value) + Len(after)
      BY <1>3 DEF Pieces
    <3>2. Len(before) \in Nat /\ Len(value) \in Nat /\ Len(after) \in Nat
      BY <1>5
    <3>. QED
      BY <1>2, <3>1, <3>2
  <2>2. /\ before \o value \in Seq(Chars) /\ Len(before \o value) = Len(before) + Len(value)
    BY <1>5, ConcatAt
  <2>3. Len(before \o value \o after) = Len(before \o value) + Len(after)
    BY <1>5, <2>2, ConcatAt
  <2>4. Len(<<>>) = 0
    OBVIOUS
  <2>. QED
    BY <2>1, <2>2, <2>3, <2>4
<1>8. name # <<>>
  <2>. HIDE DEF name
  <2>1. Len(name) # 0
    BY <1>2, <1>3
  <2>. QED
    BY <2>1, EmptySeq
<1>9. RestrictedTo(name \o value, Word)
  <2>. HIDE DEF first, last, name, value
  <2>. QED
    BY <1>1, <1>3, RestrictedConcat
<1>10. \E i, j, k \in DOMAIN s : a = CutAt(s, i, j, k)
  <2>. HIDE DEF first, last
  <2>0. eq \in DOMAIN s /\ 1 \in DOMAIN s /\ 2 \in DOMAIN s
    BY <1>2
  <2>1. CASE first <= last
    <3>0. a = CutAt(s, eq, first, last)
      BY DEF CutAt
    <3>. HIDE DEF a
    <3>1. first \in DOMAIN s /\ last \in DOMAIN s
      <4>1. first \in Nat /\ last \in Nat /\ 1 <= first /\ last <= Len(s) /\ DOMAIN s = 1 .. Len(s)
        BY <1>2, <1>3
      <4>. QED
        BY <2>1, <4>1, <1>2
    <3>. QED
      BY <2>0, <3>0, <3>1
  <2>2. CASE first > last
    <3>1. Len(value) = 0
      BY <1>2, <1>3, <2>2
    <3>2. value = <<>>
      <4>. HIDE DEF value
      <4>. QED
        BY <1>3, <3>1, EmptySeq
    <3>3. SubSeq(s, 2, 1) = <<>>
      <4>1. /\ 2 \in Nat \ {0} /\ 1 \in Nat /\ 1 <= Len(s) /\ 2 <= 1 + 1
        BY <1>2
      <4>2. SubSeq(s, 2, 1) \in Seq(STRING) /\ Len(SubSeq(s, 2, 1)) = 1 - 2 + 1
        BY <4>1, SubSeqIs
      <4>. QED
        BY <4>2, EmptySeq
    <3>4. a = CutAt(s, eq, 2, 1)
      BY <3>2, <3>3 DEF CutAt
    <3>. HIDE DEF a
    <3>. QED
      BY <2>0, <3>4
  <2>3. first <= last \/ first > last
    BY <1>2, <1>3
  <2>. QED
    BY <2>1, <2>2, <2>3
<1>11. s = a.name \o <<"=">> \o before \o a.value \o after
  <2>. HIDE DEF first, last, name, value, before, after
  <2>. QED
    BY <1>6 DEF Joined
<1>12. a \in Attributes(s)
  <2>. HIDE DEF first, last, name, value, before, after
  <2>1. a.name = name /\ a.value = value
    OBVIOUS
  <2>. HIDE DEF a
  <2>2. a \in {CutAt(s, i, j, k) : i \in DOMAIN s, j \in DOMAIN s, k \in DOMAIN s}
    BY <1>10
  <2>3. \E open, close \in Quotes :
           /\ s = a.name \o <<"=">> \o open \o a.value \o close
           /\ open \o a.value \o close # <<>>
    BY <1>4, <1>7, <1>11, <2>1, Zenon
  <2>4. a.name # <<>> /\ RestrictedTo(a.name \o a.value, Word)
    BY <1>8, <1>9, <2>1, Zenon
  <2>. QED
    <3>1. Spells(s, a)
      BY <2>3, <2>4, Zenon DEF Spells
    <3>. QED
      BY <2>2, <3>1 DEF Attributes
<1>. QED
  BY <1>1, <1>3, <1>8, <1>12 DEF eq

(* An attribute's pieces.                                                  *)
LEMMA SpelledPieces ==
    ASSUME NEW s \in Seq(STRING), NEW a \in Attributes(s)
    PROVE  /\ a.name \in Seq(STRING) /\ a.value \in Seq(STRING)
           /\ a = [name |-> a.name, value |-> a.value]
           /\ a.name # <<>> /\ RestrictedTo(a.name, Word) /\ RestrictedTo(a.value, Word)
           /\ \E open, close \in Quotes :
                 /\ Pieces(s, a.name, open, a.value, close, Len(a.name) + 1)
                 /\ Len(open) + Len(a.value) + Len(close) # 0
<1>1. PICK i, j, k \in DOMAIN s : a = CutAt(s, i, j, k)
  BY DEF Attributes
<1>2. Spells(s, a)
  BY DEF Attributes
<1>3. Len(s) \in Nat /\ DOMAIN s = 1 .. Len(s)
  OBVIOUS
<1>4. \A m, n \in 1 .. Len(s) : SubSeq(s, m, n) \in Seq(STRING)
  <2>. TAKE m, n \in 1 .. Len(s)
  <2>1. CASE m <= n + 1
    <3>1. m \in Nat \ {0} /\ n \in Nat /\ n <= Len(s)
      BY <1>3
    <3>. QED
      BY <2>1, <3>1, SubSeqIs
  <2>2. CASE m > n
    <3>1. SubSeq(s, m, n) = <<>>
      BY <2>2, SubSeqEmpty
    <3>. QED
      BY <3>1
  <2>3. m <= n + 1 \/ m > n
    BY <1>3
  <2>. QED
    BY <2>1, <2>2, <2>3
<1>5. SubSeq(s, 1, i - 1) \in Seq(STRING)
  <2>1. 1 \in Nat \ {0} /\ i - 1 \in Nat /\ i - 1 <= Len(s) /\ 1 <= (i - 1) + 1
    BY <1>3
  <2>. QED
    BY <2>1, SubSeqIs
<1>6. /\ a.name \in Seq(STRING) /\ a.value \in Seq(STRING)
      /\ a = [name |-> a.name, value |-> a.value]
  <2>1. a = [name |-> SubSeq(s, 1, i - 1), value |-> SubSeq(s, j, k)]
    BY <1>1 DEF CutAt
  <2>2. SubSeq(s, j, k) \in Seq(STRING)
    BY <1>3, <1>4
  <2>. QED
    BY <1>5, <2>1, <2>2
<1>. DEFINE name == a.name
            value == a.value
<1>. HIDE DEF name, value
<1>7. name \in Seq(STRING) /\ value \in Seq(STRING) /\ name \in Seq(Chars) /\ value \in Seq(Chars)
  BY <1>6, TextsOfChars DEF name, value
<1>8. PICK open, close \in Quotes : /\ s = name \o <<"=">> \o open \o value \o close
                                    /\ open \o value \o close # <<>>
  BY <1>2, Zenon DEF Spells, name, value
<1>9. name # <<>> /\ RestrictedTo(name, Word) /\ RestrictedTo(value, Word)
  <2>1. name # <<>> /\ RestrictedTo(name \o value, Word)
    BY <1>2, Zenon DEF Spells, name, value
  <2>. QED
    BY <1>7, <2>1, RestrictedConcat
<1>10. open \in Seq(Chars) /\ close \in Seq(Chars)
  <2>1. <<Quote>> \in Seq(Chars) /\ <<>> \in Seq(Chars)
    <3>1. \A x \in Chars : <<x>> \in Seq(Chars)
      OBVIOUS
    <3>. QED
      BY <3>1, TextsOfChars
  <2>. QED
    BY <2>1 DEF Quotes
<1>11. Pieces(s, name, open, value, close, Len(name) + 1)
  <2>1. s = Joined(name, open, value, close)
    BY <1>8, Zenon DEF Joined
  <2>. DEFINE e == Len(name) + 1
  <2>. HIDE DEF e
  <2>2. Pieces(Joined(name, open, value, close), name, open, value, close, e)
    <3>1. e = Len(name) + 1
      BY DEF e
    <3>. QED
      BY <1>7, <1>10, <3>1, TextsOfChars, JoinedPieces
  <2>. QED
    BY <2>1, <2>2 DEF e
<1>12. Len(open) + Len(value) + Len(close) # 0
  <2>1. open \o value \in Seq(Chars) /\ Len(open \o value) = Len(open) + Len(value)
    BY <1>7, <1>10, ConcatAt
  <2>2. /\ open \o value \o close \in Seq(Chars)
        /\ Len(open \o value \o close) = Len(open \o value) + Len(close)
    BY <1>10, <2>1, ConcatAt
  <2>3. Len(open \o value \o close) # 0
    BY <1>8, <2>2, EmptySeq
  <2>. QED
    BY <2>1, <2>2, <2>3
<1>. QED
  BY <1>6, <1>9, <1>11, <1>12 DEF name, value

LEMMA QuotesAre ==
    ASSUME NEW q \in Quotes
    PROVE  Len(q) \in {0, 1} /\ \A i \in 1 .. Len(q) : q[i] = Quote
<1>1. CASE q = <<>>
  BY <1>1
<1>2. CASE q = <<Quote>>
  <2>1. Len(<<Quote>>) = 1 /\ <<Quote>>[1] = Quote
    OBVIOUS
  <2>2. \A i \in 1 .. 1 : i = 1
    OBVIOUS
  <2>. QED
    BY <1>2, <2>1, <2>2
<1>. QED
  BY <1>1, <1>2 DEF Quotes

(* What the grammar calls an attribute is what parseOption accepts and     *)
(* finds, quoted or not: there is one at most.                             *)
LEMMA OptionOfAttribute ==
    ASSUME NEW s \in Seq(STRING), NEW a \in Attributes(s)
    PROVE  /\ ParseOption(s).ok
           /\ a = [name |-> ParseOption(s).name, value |-> ParseOption(s).value]
<1>. DEFINE name == a.name
            value == a.value
            e == Len(name) + 1
<1>1. /\ name \in Seq(STRING) /\ value \in Seq(STRING)
      /\ a = [name |-> name, value |-> value]
      /\ name # <<>> /\ RestrictedTo(name, Word) /\ RestrictedTo(value, Word)
  BY SpelledPieces
<1>2. PICK open, close \in Quotes :
         /\ Pieces(s, name, open, value, close, e)
         /\ Len(open) + Len(value) + Len(close) # 0
  BY SpelledPieces
<1>. HIDE DEF name, value
<1>3. /\ Len(name) \in Nat /\ Len(name) >= 1 /\ Len(value) \in Nat /\ Len(s) \in Nat
      /\ DOMAIN s = 1 .. Len(s) /\ e \in Nat /\ e > 1
  <2>1. Len(name) \in Nat /\ Len(name) # 0 /\ Len(value) \in Nat /\ Len(s) \in Nat
        /\ DOMAIN s = 1 .. Len(s)
    BY <1>1, EmptySeq
  <2>. QED
    BY <2>1
<1>4. /\ Len(open) \in {0, 1} /\ Len(close) \in {0, 1}
      /\ \A i \in 1 .. Len(open) : open[i] = Quote
      /\ \A i \in 1 .. Len(close) : close[i] = Quote
  BY QuotesAre
<1>5. /\ \A i \in 1 .. Len(name) : name[i] \in Word
      /\ \A i \in 1 .. Len(value) : value[i] \in Word
  BY <1>1 DEF RestrictedTo
<1>. HIDE DEF e
<1>6. /\ Len(s) = e + Len(open) + Len(value) + Len(close) /\ e = Len(name) + 1
      /\ s[e] = "="
      /\ \A i \in 1 .. Len(name) : s[i] = name[i]
      /\ \A i \in 1 .. Len(open) : s[e + i] = Quote
      /\ \A i \in 1 .. Len(value) : s[e + Len(open) + i] = value[i]
      /\ \A i \in 1 .. Len(close) : s[e + Len(open) + Len(value) + i] = Quote
  BY <1>2, <1>4 DEF Pieces
<1>6a. /\ Len(open) \in 0 .. 1 /\ Len(close) \in 0 .. 1 /\ Len(value) \in Nat
       /\ e \in Nat /\ e > 1 /\ Len(s) \in Nat
       /\ Len(s) = e + Len(open) + Len(value) + Len(close)
       /\ Len(open) + Len(value) + Len(close) # 0
  BY <1>2, <1>3, <1>4, <1>6
<1>6b. (Len(open) = 0 \/ Len(open) = 1) /\ (Len(close) = 0 \/ Len(close) = 1)
  BY <1>4
<1>7. e \in 1 .. Len(s) /\ e # 1 /\ e # Len(s) /\ Len(s) >= 3 /\ e < Len(s)
  BY <1>2, <1>3, <1>4, <1>6
<1>8. ASSUME NEW i \in 1 .. Len(s), s[i] = "="  PROVE i = e
  <2>1. \/ i \in 1 .. Len(name)
        \/ i = e
        \/ i - e \in 1 .. Len(open) /\ e + (i - e) = i
        \/ i - e - Len(open) \in 1 .. Len(value) /\ e + Len(open) + (i - e - Len(open)) = i
        \/ /\ i - e - Len(open) - Len(value) \in 1 .. Len(close)
           /\ e + Len(open) + Len(value) + (i - e - Len(open) - Len(value)) = i
    BY <1>3, <1>4, <1>6
  <2>2. CASE i \in 1 .. Len(name)
    BY <1>5, <1>6, <1>8, <2>2, WordHasNone
  <2>3. CASE i - e \in 1 .. Len(open) /\ e + (i - e) = i
    <3>1. s[e + (i - e)] = Quote
      BY <1>6, <2>3
    <3>. QED
      BY <1>8, <2>3, <3>1, WordHasNone
  <2>4. CASE i - e - Len(open) \in 1 .. Len(value) /\ e + Len(open) + (i - e - Len(open)) = i
    <3>. DEFINE k == i - e - Len(open)
    <3>1. s[e + Len(open) + k] = value[k] /\ value[k] \in Word
      BY <1>5, <1>6, <2>4
    <3>. QED
      BY <1>8, <2>4, <3>1, WordHasNone
  <2>5. CASE /\ i - e - Len(open) - Len(value) \in 1 .. Len(close)
             /\ e + Len(open) + Len(value) + (i - e - Len(open) - Len(value)) = i
    <3>. DEFINE k == i - e - Len(open) - Len(value)
    <3>1. s[e + Len(open) + Len(value) + k] = Quote
      BY <1>6, <2>5
    <3>. QED
      BY <1>8, <2>5, <3>1, WordHasNone
  <2>. QED
    BY <2>1, <2>2, <2>3, <2>4, <2>5
<1>9. OptionValidation(s) = 1
  <2>1. {i \in DOMAIN s : s[i] = "="} = {e}
    BY <1>3, <1>6, <1>7, <1>8
  <2>2. Cardinality({e}) = 1
    BY FS_Singleton
  <2>3. s[1] # "=" /\ s[Len(s)] # "=" /\ ~ (Len(s) < 3)
    <3>1. 1 \in 1 .. Len(s) /\ Len(s) \in 1 .. Len(s)
      BY <1>6a, <1>7
    <3>2. ~ (Len(s) < 3)
      BY <1>6a, <1>7
    <3>3. s[1] # "=" /\ s[Len(s)] # "="
      BY <1>7, <1>8, <3>1
    <3>. QED
      BY <3>2, <3>3
  <2>. QED
    BY <2>1, <2>2, <2>3 DEF OptionValidation
<1>10. StrChr(s, "=", 1) = e
  BY <1>6, <1>7, <1>9, OptionSplits
<1>. DEFINE first == ValueFirst(s, e)
            last == ValueLast(s, e)
<1>11. last - first + 1 = Len(value) /\ (Len(value) >= 1 => first = e + 1 + Len(open))
  <2>0. first = IF s[e + 1] = Quote THEN e + 2 ELSE e + 1
    BY DEF ValueFirst
  <2>00. last = IF s[Len(s)] = Quote /\ first <= Len(s) THEN Len(s) - 1 ELSE Len(s)
    BY DEF ValueLast
  <2>. HIDE DEF first, last
  <2>1. CASE Len(value) >= 1
    <3>1. s[e + 1] = Quote <=> Len(open) = 1
      <4>1. CASE Len(open) = 1
        BY <1>6, <4>1
      <4>2. CASE Len(open) = 0
        <5>1. e + 1 = e + Len(open) + 1 /\ 1 \in 1 .. Len(value)
          BY <1>3, <2>1, <4>2
        <5>2. s[e + Len(open) + 1] = value[1] /\ value[1] \in Word
          BY <1>5, <1>6, <5>1
        <5>. QED
          BY <4>2, <5>1, <5>2, WordHasNone
      <4>. QED
        BY <1>4, <4>1, <4>2
    <3>2. first = e + 1 + Len(open) /\ first <= Len(s)
      <4>1. first = e + 1 + Len(open)
        <5>1. CASE Len(open) = 0
          <6>1. first = e + 1
            BY <2>0, <3>1, <5>1
          <6>. QED
            BY <1>6a, <5>1, <6>1
        <5>2. CASE Len(open) = 1
          <6>1. first = e + 2
            BY <2>0, <3>1, <5>2
          <6>. QED
            BY <1>6a, <5>2, <6>1
        <5>. QED
          BY <1>6b, <5>1, <5>2
      <4>. QED
        BY <1>6a, <2>1, <4>1
    <3>3. s[Len(s)] = Quote <=> Len(close) = 1
      <4>1. CASE Len(close) = 1
        <5>1. Len(s) = e + Len(open) + Len(value) + 1
          BY <1>6, <4>1
        <5>2. 1 \in 1 .. Len(close)
          BY <4>1
        <5>. QED
          BY <1>6, <4>1, <5>1, <5>2
      <4>2. CASE Len(close) = 0
        <5>1. Len(s) = e + Len(open) + Len(value) /\ Len(value) \in 1 .. Len(value)
          BY <1>3, <1>4, <1>6, <2>1, <4>2
        <5>2. s[e + Len(open) + Len(value)] = value[Len(value)] /\ value[Len(value)] \in Word
          BY <1>5, <1>6, <5>1
        <5>. QED
          BY <4>2, <5>1, <5>2, WordHasNone
      <4>. QED
        BY <1>4, <4>1, <4>2
    <3>4. last = Len(s) - Len(close)
      <4>1. CASE Len(close) = 0
        <5>1. last = Len(s)
          BY <2>00, <3>3, <4>1
        <5>. QED
          BY <1>6a, <4>1, <5>1
      <4>2. CASE Len(close) = 1
        <5>1. last = Len(s) - 1
          BY <2>00, <3>2, <3>3, <4>2
        <5>. QED
          BY <1>6a, <4>2, <5>1
      <4>. QED
        BY <1>6b, <4>1, <4>2
    <3>. QED
      BY <1>6a, <3>2, <3>4
  <2>2. CASE Len(value) = 0
    <3>1. s[e + 1] = Quote
      <4>1. CASE Len(open) = 1
        BY <1>6, <4>1
      <4>2. CASE Len(open) = 0
        <5>1. Len(close) = 1 /\ e + Len(open) + Len(value) + 1 = e + 1
          BY <1>2, <1>3, <1>4, <2>2, <4>2
        <5>2. 1 \in 1 .. Len(close)
          BY <5>1
        <5>3. s[e + Len(open) + Len(value) + 1] = Quote
          BY <1>6, <5>2
        <5>. QED
          BY <5>1, <5>3
      <4>. QED
        BY <1>4, <4>1, <4>2
    <3>2. first = e + 2
      BY <2>0, <3>1
    <3>3. CASE Len(open) + Len(close) = 1
      <4>1. Len(s) = e + 1
        BY <1>3, <1>4, <1>6, <2>2, <3>3
      <4>2. last = Len(s)
        BY <1>3, <2>00, <3>2, <4>1
      <4>. QED
        BY <1>3, <2>2, <3>2, <4>1, <4>2
    <3>4. CASE Len(open) + Len(close) = 2
      <4>1. Len(close) = 1 /\ Len(s) = e + 2 /\ Len(s) = e + Len(open) + Len(value) + 1
        BY <1>3, <1>4, <1>6, <2>2, <3>4
      <4>2. 1 \in 1 .. Len(close)
        BY <4>1
      <4>3. s[e + Len(open) + Len(value) + 1] = Quote
        BY <1>6, <4>2
      <4>4. last = Len(s) - 1
        BY <1>3, <2>00, <3>2, <4>1, <4>3
      <4>. QED
        <5>1. last - first + 1 = 0
          BY <1>6a, <3>2, <4>1, <4>4
        <5>. QED
          BY <2>2, <5>1
    <3>5. Len(open) + Len(close) = 1 \/ Len(open) + Len(close) = 2
      <4>1. CASE Len(open) = 0
        <5>1. Len(close) # 0
          BY <1>6a, <2>2, <4>1
        <5>. QED
          BY <1>6b, <4>1, <5>1
      <4>2. CASE Len(open) = 1
        <5>1. Len(close) = 0 => Len(open) + Len(close) = 1
          BY <4>2
        <5>2. Len(close) = 1 => Len(open) + Len(close) = 2
          BY <4>2
        <5>. QED
          BY <1>6b, <5>1, <5>2
      <4>. QED
        BY <1>6b, <4>1, <4>2
    <3>. QED
      BY <2>2, <3>3, <3>4, <3>5
  <2>. QED
    BY <1>3, <2>1, <2>2
<1>12. /\ SubSeq(s, 1, e - 1) \in Seq(STRING) /\ Len(SubSeq(s, 1, e - 1)) = e - 1
       /\ SubSeq(s, first, last) \in Seq(STRING)
       /\ Len(SubSeq(s, first, last)) = last - first + 1
       /\ first \in Nat /\ first <= Len(s) + 1 /\ last \in Nat
  <2>1. s[e] = "=" /\ e \in Nat /\ 1 < e /\ e < Len(s)
    BY <1>6, <1>6a, <1>7
  <2>2. /\ SubSeq(s, 1, e - 1) \in Seq(STRING) /\ Len(SubSeq(s, 1, e - 1)) = e - 1
        /\ SubSeq(s, first, last) \in Seq(STRING)
        /\ Len(SubSeq(s, first, last)) = last - first + 1
        /\ last \in Len(s) - 1 .. Len(s)
    BY <2>1, OptionPieces
  <2>3. first \in Nat /\ first <= Len(s) + 1
    BY <2>1, OpenedIs
  <2>. HIDE DEF first, last
  <2>4. last \in Nat
    BY <2>1, <2>2, <1>6a
  <2>. QED
    BY <2>2, <2>3, <2>4
<1>13. SubSeq(s, 1, e - 1) = name
  <2>1. Len(name) = e - 1
    BY <1>3, <1>6
  <2>2. ASSUME NEW i \in 1 .. Len(name)  PROVE SubSeq(s, 1, e - 1)[i] = name[i]
    <3>1. /\ 1 \in Nat \ {0} /\ e - 1 \in Nat /\ e - 1 <= Len(s) /\ 1 <= (e - 1) + 1
          /\ i \in 1 .. (e - 1) - 1 + 1 /\ 1 + i - 1 = i
      BY <1>6a, <1>7, <2>1
    <3>2. SubSeq(s, 1, e - 1)[i] = s[1 + i - 1]
      BY <3>1, SubSeqIs
    <3>. QED
      BY <1>6, <3>1, <3>2
  <2>. QED
    BY <1>1, <1>12, <2>1, <2>2, SameText
<1>14. SubSeq(s, first, last) = value
  <2>. HIDE DEF first, last
  <2>1. ASSUME NEW i \in 1 .. Len(value)  PROVE SubSeq(s, first, last)[i] = value[i]
    <3>1. Len(value) >= 1 /\ first = e + 1 + Len(open)
      BY <1>3, <1>11
    <3>2. /\ first \in Nat \ {0} /\ last \in Nat /\ last <= Len(s) /\ first <= last + 1
          /\ i \in 1 .. last - first + 1
      <4>1. last = first + Len(value) - 1
        BY <1>3, <1>11, <1>12
      <4>. QED
        BY <1>3, <1>4, <1>6, <3>1, <4>1
    <3>3. SubSeq(s, first, last)[i] = s[first + i - 1]
      BY <3>2, SubSeqIs
    <3>4. first + i - 1 = e + Len(open) + i
      BY <1>3, <1>4, <3>1
    <3>. QED
      BY <1>6, <3>3, <3>4
  <2>. QED
    BY <1>1, <1>11, <1>12, <2>1, SameText
<1>. QED
  BY <1>1, <1>9, <1>10, <1>13, <1>14, ParseOptionFinds

LEMMA AttributeOrNone ==
    ASSUME NEW s \in Seq(STRING)
    PROVE  /\ ParseOption(s).ok <=> Attributes(s) # {}
           /\ ParseOption(s).ok =>
                 (CHOOSE a \in Attributes(s) : TRUE)
                     = [name |-> ParseOption(s).name, value |-> ParseOption(s).value]
<1>1. ASSUME ParseOption(s).ok  PROVE Attributes(s) # {}
  BY <1>1, AttributeOfOption
<1>2. ASSUME Attributes(s) # {}
      PROVE  /\ ParseOption(s).ok
             /\ (CHOOSE a \in Attributes(s) : TRUE)
                    = [name |-> ParseOption(s).name, value |-> ParseOption(s).value]
  <2>. DEFINE a == CHOOSE a \in Attributes(s) : TRUE
  <2>1. a \in Attributes(s)
    BY <1>2
  <2>. HIDE DEF a
  <2>2. ParseOption(s).ok /\ a = [name |-> ParseOption(s).name, value |-> ParseOption(s).value]
    BY <2>1, OptionOfAttribute
  <2>. QED
    BY <2>2 DEF a
<1>. QED
  BY <1>1, <1>2
-------------------------------------------------------------------------------
LEMMA BracketsAt ==
    ASSUME NEW w \in Seq(Chars)
    PROVE  LET z == <<"<">> \o w \o <<">">>
           IN  /\ z \in Seq(Chars) /\ Len(z) = Len(w) + 2
               /\ z[1] = "<" /\ z[Len(w) + 2] = ">"
               /\ \A i \in 1 .. Len(w) : z[i + 1] = w[i]
<1>. DEFINE x == <<"<">>
            c == <<">">>
            y == x \o w
            z == y \o c
<1>0. Len(w) \in Nat
  OBVIOUS
<1>1. x \in Seq(Chars) /\ c \in Seq(Chars)
  <2>1. "<" \in Chars /\ ">" \in Chars
    BY DEF Chars
  <2>2. \A k \in Chars : <<k>> \in Seq(Chars)
    OBVIOUS
  <2>. QED
    BY <2>1, <2>2
<1>2. Len(x) = 1 /\ x[1] = "<"
  OBVIOUS
<1>3. Len(c) = 1 /\ c[1] = ">"
  OBVIOUS
<1>. HIDE DEF x, c
<1>4. /\ y \in Seq(Chars) /\ Len(y) = Len(x) + Len(w)
      /\ \A i \in 1 .. Len(x) : y[i] = x[i]
      /\ \A i \in 1 .. Len(w) : y[Len(x) + i] = w[i]
  BY <1>1, ConcatAt
<1>. HIDE DEF y
<1>5. /\ z \in Seq(Chars) /\ Len(z) = Len(y) + Len(c)
      /\ \A i \in 1 .. Len(y) : z[i] = y[i]
      /\ \A i \in 1 .. Len(c) : z[Len(y) + i] = c[i]
  <2>1. y \in Seq(Chars) /\ c \in Seq(Chars)
    BY <1>1, <1>4
  <2>. QED
    BY <2>1, ConcatAt
<1>. HIDE DEF z
<1>6. Len(y) = 1 + Len(w) /\ Len(z) = Len(w) + 2
  BY <1>0, <1>2, <1>3, <1>4, <1>5
<1>7. z[1] = "<"
  <2>1. 1 \in 1 .. Len(y) /\ 1 \in 1 .. Len(x)
    BY <1>0, <1>2, <1>6
  <2>. QED
    BY <1>2, <1>4, <1>5, <2>1
<1>8. z[Len(w) + 2] = ">"
  <2>1. 1 \in 1 .. Len(c) /\ Len(y) + 1 = Len(w) + 2
    BY <1>0, <1>3, <1>6
  <2>. QED
    BY <1>3, <1>5, <2>1
<1>9. ASSUME NEW i \in 1 .. Len(w)  PROVE z[i + 1] = w[i]
  <2>1. i + 1 \in 1 .. Len(y) /\ Len(x) + i = i + 1
    BY <1>0, <1>2, <1>6
  <2>. QED
    BY <1>4, <1>5, <2>1
<1>. QED
  BY <1>5, <1>6, <1>7, <1>8, <1>9 DEF z, y, x, c

(* What the grammar calls a path is what parsePath accepts.                *)
LEMMA PathIs ==
    ASSUME NEW s \in Seq(STRING)
    PROVE  IsPath(s) <=> ParsePath(s)
<1>. DEFINE w == SubSeq(s, 2, Len(s) - 1)
            z == <<"<">> \o w \o <<">">>
<1>0. Len(s) \in Nat
  OBVIOUS
<1>1. CASE Len(s) > 2
  <2>1. /\ w \in Seq(STRING) /\ Len(w) = Len(s) - 2
        /\ \A i \in 1 .. Len(s) - 2 : w[i] = s[i + 1]
    <3>1. /\ 2 \in Nat \ {0} /\ Len(s) - 1 \in Nat /\ Len(s) - 1 <= Len(s)
          /\ 2 <= (Len(s) - 1) + 1 /\ (Len(s) - 1) - 2 + 1 = Len(s) - 2
      BY <1>0, <1>1
    <3>2. /\ w \in Seq(STRING) /\ Len(w) = (Len(s) - 1) - 2 + 1
          /\ \A i \in 1 .. (Len(s) - 1) - 2 + 1 : w[i] = s[2 + i - 1]
      BY <3>1, SubSeqIs
    <3>3. \A i \in 1 .. Len(s) - 2 : 2 + i - 1 = i + 1
      BY <1>0
    <3>. HIDE DEF w
    <3>. QED
      BY <3>1, <3>2, <3>3
  <2>. HIDE DEF w
  <2>2. w \in Seq(Chars) /\ s \in Seq(Chars)
    BY <2>1, TextsOfChars
  <2>3. /\ z \in Seq(Chars) /\ Len(z) = Len(w) + 2
        /\ z[1] = "<" /\ z[Len(w) + 2] = ">"
        /\ \A i \in 1 .. Len(w) : z[i + 1] = w[i]
    BY <2>2, BracketsAt
  <2>. HIDE DEF z
  <2>4. s = z <=> s[1] = "<" /\ s[Len(s)] = ">"
    <3>1. Len(z) = Len(s) /\ Len(w) + 2 = Len(s)
      BY <1>0, <2>1, <2>3
    <3>2. ASSUME s[1] = "<", s[Len(s)] = ">"  PROVE s = z
      <4>1. ASSUME NEW i \in 1 .. Len(s)  PROVE s[i] = z[i]
        <5>1. i = 1 \/ i = Len(s) \/ (i - 1 \in 1 .. Len(s) - 2 /\ (i - 1) + 1 = i)
          BY <1>0
        <5>2. CASE i - 1 \in 1 .. Len(s) - 2 /\ (i - 1) + 1 = i
          <6>1. w[i - 1] = s[(i - 1) + 1] /\ z[(i - 1) + 1] = w[i - 1]
            BY <2>1, <2>3, <5>2
          <6>. QED
            BY <5>2, <6>1
        <5>. QED
          BY <2>3, <3>1, <3>2, <5>1, <5>2
      <4>. QED
        BY <2>2, <2>3, <3>1, <4>1, SameText
    <3>. QED
      BY <2>3, <3>1, <3>2
  <2>5. w # <<>> /\ w[1] = s[2] /\ w[Len(w)] = s[Len(s) - 1]
    <3>1. 1 \in 1 .. Len(s) - 2 /\ Len(s) - 2 \in 1 .. Len(s) - 2 /\ (Len(s) - 2) + 1 = Len(s) - 1
          /\ 1 + 1 = 2
      BY <1>0, <1>1
    <3>2. w[1] = s[1 + 1] /\ w[Len(s) - 2] = s[(Len(s) - 2) + 1]
      BY <2>1, <3>1
    <3>3. Len(w) # 0
      BY <1>0, <1>1, <2>1
    <3>. QED
      BY <2>1, <3>1, <3>2, <3>3, EmptySeq
  <2>6. Last(w) = w[Len(w)]
    BY DEF Last
  <2>7. IsPath(s) <=> /\ s = z /\ w # <<>> /\ w[1] # "/" /\ Last(w) # "/"
                      /\ RestrictedTo(w, Word \cup {"/"})
    BY DEF IsPath, w, z
  <2>8. ParsePath(s) <=> /\ s[1] = "<" /\ s[2] # "/" /\ s[Len(s) - 1] # "/" /\ s[Len(s)] = ">"
                         /\ RestrictedTo(w, Word \cup {"/"})
    <3>1. Len(s) - 2 > 0
      BY <1>0, <1>1
    <3>. QED
      BY <1>1, <3>1 DEF ParsePath, CalPathSize, w
  <2>. QED
    BY <2>4, <2>5, <2>6, <2>7, <2>8
<1>2. CASE ~ (Len(s) > 2)
  <2>1. ~ ParsePath(s)
    BY <1>2 DEF ParsePath, CalPathSize
  <2>2. w = <<>>
    <3>1. CASE Len(s) - 1 < 2
      <4>1. 2 \in Int /\ Len(s) - 1 \in Int
        BY <1>0
      <4>. QED
        BY <3>1, <4>1, SubSeqEmpty
    <3>. QED
      BY <1>0, <1>2, <3>1
  <2>. QED
    BY <2>1, <2>2 DEF IsPath
<1>. QED
  BY <1>1, <1>2

(* An option begins with a character of its name, a path with a bracket.   *)
LEMMA OptionIsNoPath ==
    ASSUME NEW s \in Seq(STRING), ParseOption(s).ok
    PROVE  ~ ParsePath(s)
<1>. DEFINE eq == StrChr(s, "=", 1)
            name == SubSeq(s, 1, eq - 1)
<1>1. OptionValidation(s) = 1 /\ RestrictedTo(name, Word)
  BY ParseOptionFinds
<1>2. eq \in Nat /\ 1 < eq /\ eq < Len(s) /\ Len(s) \in Nat
  BY <1>1, OptionSplits
<1>. HIDE DEF eq
<1>3. 1 \in DOMAIN name /\ name[1] = s[1]
  <2>1. /\ 1 \in Nat \ {0} /\ eq - 1 \in Nat /\ eq - 1 <= Len(s) /\ 1 <= (eq - 1) + 1
        /\ (eq - 1) - 1 + 1 = eq - 1 /\ 1 \in 1 .. eq - 1 /\ 1 + 1 - 1 = 1
    BY <1>2
  <2>2. /\ name \in Seq(STRING) /\ Len(name) = (eq - 1) - 1 + 1
        /\ \A i \in 1 .. (eq - 1) - 1 + 1 : name[i] = s[1 + i - 1]
    BY <2>1, SubSeqIs
  <2>. HIDE DEF name
  <2>3. name[1] = s[1 + 1 - 1]
    BY <2>1, <2>2
  <2>. QED
    BY <2>1, <2>2, <2>3
<1>4. s[1] \in Word
  BY <1>1, <1>3 DEF RestrictedTo
<1>. QED
  BY <1>4, WordHasNone DEF ParsePath, CalPathSize
-------------------------------------------------------------------------------
(* The invariant of the loop.                                              *)

(* The resource has the name and the value that parseOption finds.         *)
OptionOf(chunk) == [name |-> ParseOption(chunk).name, value |-> ParseOption(chunk).value]
Attribute == {a \in [name : Seq(STRING), value : Seq(STRING)] :
                 a.name # <<>> /\ RestrictedTo(a.name, Word) /\ RestrictedTo(a.value, Word)}

TypeInv ==
    /\ str \in Seq(STRING)
    /\ at \in {"check", "element", "next", "returned", "aborted"}
    /\ last_counter \in Nat /\ counter \in Nat /\ last_counter <= counter /\ counter <= Len(str)
    /\ resource \in [is : {"null", "made", "freed"}, uri : Seq(Chars), link_attr : Seq(Attribute)]
    /\ status \in {0, 1} /\ early \in BOOLEAN

NoComma == \A i \in DOMAIN str : str[i] # Comma
Chunk(i) == ChunkTexts(str)[i]

(* The resource is made of the first n chunks: its uri of the path, and    *)
(* its attributes of the others, the last one first.                       *)
Registered(n) ==
    /\ resource.is = "made"
    /\ ParsePath(Chunk(1))
    /\ resource.uri = Parent \o <<"/">> \o SubSeq(Chunk(1), 2, Len(Chunk(1)) - 1)
    /\ Len(resource.link_attr) = n - 1
    /\ \A i \in 2 .. n : /\ ParseOption(Chunk(i)).ok
                         /\ resource.link_attr[n + 1 - i] = OptionOf(Chunk(i))

AtCheck ==
    at = "check" => last_counter = 0 /\ counter = 0 /\ resource = NoResource

(* Between two semicolons that follow each other.                          *)
AtElement ==
    at = "element" =>
        /\ NoComma /\ Follows(Ends(str), last_counter, counter)
        /\ last_counter = 0 => resource = NoResource
        /\ last_counter # 0 => Registered(Rank(Ends(str), last_counter))

(* What stands in front of a semicolon is registered.                      *)
AtNext ==
    at = "next" =>
        /\ NoComma /\ counter \in Ends(str) /\ counter # 0
        /\ Registered(Rank(Ends(str), counter))

(* NULL, freed or made, and why.                                           *)
AtReturned ==
    at = "returned" =>
        \/ /\ status = 0 /\ resource.is = "null"
           /\ ~ NoComma \/ Count(str) < 2 \/ ~ ParsePath(Chunk(1))
        \/ /\ status = 0 /\ resource.is = "freed"
           /\ NoComma /\ ParsePath(Chunk(1))
           /\ \E i \in 2 .. Count(str) : ~ ParseOption(Chunk(i)).ok
        \/ /\ status = 1
           /\ NoComma /\ Count(str) >= 2 /\ Registered(Count(str))

LoopInv == TypeInv /\ AtCheck /\ AtElement /\ AtNext /\ AtReturned

LEMMA InitInv == Init => LoopInv
<1>. SUFFICES ASSUME Init  PROVE LoopInv
  OBVIOUS
<1>1. str \in Seq(STRING)
  <2>1. PICK f \in Frames, text \in UNION {[1 .. n -> Alphabet] : n \in 0 .. MaxLength} :
           str = Framed(f, text)
    BY DEF Init, Texts
  <2>2. text \in Seq(STRING)
    <3>1. PICK n \in 0 .. MaxLength : text \in [1 .. n -> Alphabet]
      OBVIOUS
    <3>2. n \in Nat
      BY LinkTextAssumption
    <3>3. text \in [1 .. n -> STRING]
      BY <3>1, LinkTextAssumption
    <3>. QED
      BY <3>2, <3>3
  <2>3. f.head \in Seq(STRING) /\ f.end \in Seq(STRING)
    BY LinkTextAssumption
  <2>. QED
    <3>1. f.head \o text \in Seq(STRING)
      BY <2>2, <2>3, ConcatAt
    <3>2. f.head \o text \o f.end \in Seq(STRING)
      BY <2>3, <3>1, ConcatAt
    <3>. QED
      BY <2>1, <3>2 DEF Framed
<1>2. NoResource \in [is : {"null", "made", "freed"}, uri : Seq(Chars), link_attr : Seq(Attribute)]
  <2>1. <<>> \in Seq(Chars) /\ <<>> \in Seq(Attribute)
    OBVIOUS
  <2>. QED
    BY <2>1 DEF NoResource
<1>3. Len(str) \in Nat
  BY <1>1
<1>4. TypeInv
  <2>1. /\ at = "check" /\ last_counter = 0 /\ counter = 0 /\ resource = NoResource
        /\ status = 0 /\ early = FALSE
    BY DEF Init
  <2>2. counter <= Len(str) /\ last_counter <= counter
    BY <1>3, <2>1
  <2>. QED
    BY <1>1, <1>2, <2>1, <2>2 DEF TypeInv
<1>5. AtCheck /\ AtElement /\ AtNext /\ AtReturned
  BY DEF Init, AtCheck, AtElement, AtNext, AtReturned
<1>. QED
  BY <1>4, <1>5 DEF LoopInv

LEMMA AttributeTyped ==
    ASSUME NEW s \in Seq(STRING), ParseOption(s).ok
    PROVE  OptionOf(s) \in Attribute
<1>1. /\ ParseOption(s).name \in Seq(STRING) /\ ParseOption(s).value \in Seq(STRING)
      /\ ParseOption(s).name # <<>>
      /\ RestrictedTo(ParseOption(s).name, Word) /\ RestrictedTo(ParseOption(s).value, Word)
  BY AttributeOfOption
<1>. DEFINE a == OptionOf(s)
<1>2. a.name = ParseOption(s).name /\ a.value = ParseOption(s).value
      /\ a \in [name : Seq(STRING), value : Seq(STRING)]
  BY <1>1 DEF OptionOf
<1>. HIDE DEF a
<1>. QED
  BY <1>1, <1>2 DEF Attribute, a

(* What optionRegister makes of a resource.                                *)
LEMMA RegisterOption ==
    ASSUME TypeInv, NEW n \in 2 .. Count(str), Registered(n - 1),
           OptionRegister(Chunk(n)), UNCHANGED str
    PROVE  /\ resource' \in [is : {"null", "made", "freed"}, uri : Seq(Chars),
                             link_attr : Seq(Attribute)]
           /\ early' \in BOOLEAN
           /\ ParseOption(Chunk(n)).ok => Registered(n)'
           /\ ~ ParseOption(Chunk(n)).ok => resource'.is = "freed"
<1>. DEFINE c == Chunk(n)
            new == OptionOf(c)
            attrs == resource.link_attr
<1>0. Count(str) \in Nat /\ n \in Nat /\ n >= 2 /\ n \in 1 .. Count(str)
  BY EndsFacts DEF TypeInv
<1>1. c \in Seq(STRING)
  BY <1>0, ChunkTypes DEF TypeInv, Chunk
<1>. HIDE DEF c
<1>2. early' \in BOOLEAN
  BY DEF OptionRegister
<1>3. attrs \in Seq(Attribute)
      /\ resource \in [is : {"null", "made", "freed"}, uri : Seq(Chars), link_attr : Seq(Attribute)]
  BY DEF TypeInv
<1>4. CASE ParseOption(c).ok
  <2>1. resource' = [resource EXCEPT !.link_attr = <<new>> \o @]
    BY <1>4 DEF OptionRegister, OptionOf, c
  <2>2. new \in Attribute
    BY <1>1, <1>4, AttributeTyped
  <2>. HIDE DEF new
  <2>3. <<new>> \in Seq(Attribute) /\ Len(<<new>>) = 1 /\ <<new>>[1] = new
    BY <2>2
  <2>4. /\ <<new>> \o attrs \in Seq(Attribute)
        /\ Len(<<new>> \o attrs) = Len(<<new>>) + Len(attrs)
        /\ \A i \in 1 .. Len(<<new>>) : (<<new>> \o attrs)[i] = <<new>>[i]
        /\ \A i \in 1 .. Len(attrs) : (<<new>> \o attrs)[Len(<<new>>) + i] = attrs[i]
    BY <1>3, <2>3, ConcatAt
  <2>. DEFINE longer == <<new>> \o attrs
  <2>5. resource' = [resource EXCEPT !.link_attr = longer]
    BY <2>1
  <2>6. /\ longer \in Seq(Attribute) /\ Len(longer) = Len(attrs) + 1 /\ longer[1] = new
        /\ \A i \in 1 .. Len(attrs) : longer[i + 1] = attrs[i]
    <3>. HIDE DEF longer
    <3>1. Len(attrs) \in Nat /\ 1 \in 1 .. Len(<<new>>)
      BY <1>3, <2>3
    <3>2. Len(longer) = Len(attrs) + 1 /\ longer[1] = new
      BY <2>3, <2>4, <3>1 DEF longer
    <3>3. ASSUME NEW i \in 1 .. Len(attrs)  PROVE longer[i + 1] = attrs[i]
      <4>1. Len(<<new>>) + i = i + 1
        BY <2>3, <3>1
      <4>. QED
        BY <2>4, <4>1 DEF longer
    <3>. QED
      BY <2>4, <3>2, <3>3 DEF longer
  <2>. HIDE DEF longer
  <2>7. /\ resource'.link_attr = longer /\ resource'.is = resource.is
        /\ resource'.uri = resource.uri
        /\ resource' \in [is : {"null", "made", "freed"}, uri : Seq(Chars),
                          link_attr : Seq(Attribute)]
    BY <1>3, <2>5, <2>6
  <2>8. Len(longer) = n - 1
    <3>1. Len(attrs) = (n - 1) - 1
      BY DEF Registered
    <3>. QED
      BY <1>0, <2>6, <3>1
  <2>9. ASSUME NEW i \in 2 .. n
        PROVE  ParseOption(Chunk(i)).ok /\ longer[n + 1 - i] = OptionOf(Chunk(i))
    <3>1. CASE i = n
      <4>1. n + 1 - i = 1
        BY <1>0, <3>1
      <4>. QED
        BY <1>4, <2>6, <3>1, <4>1 DEF c, new
    <3>2. CASE i # n
      <4>1. i \in 2 .. n - 1 /\ (n - 1) + 1 - i \in 1 .. (n - 1) - 1
            /\ ((n - 1) + 1 - i) + 1 = n + 1 - i
        BY <1>0, <3>2
      <4>2. ParseOption(Chunk(i)).ok /\ attrs[(n - 1) + 1 - i] = OptionOf(Chunk(i))
            /\ Len(attrs) = (n - 1) - 1
        BY <4>1 DEF Registered
      <4>3. longer[((n - 1) + 1 - i) + 1] = attrs[(n - 1) + 1 - i]
        BY <2>6, <4>1, <4>2
      <4>. QED
        BY <4>1, <4>2, <4>3
    <3>. QED
      BY <3>1, <3>2
  <2>10. Registered(n)'
    BY <2>7, <2>8, <2>9 DEF Registered, Chunk
  <2>. QED
    BY <1>2, <1>4, <2>7, <2>10 DEF c
<1>5. CASE ~ ParseOption(c).ok
  <2>1. resource' = [resource EXCEPT !.is = "freed"]
    BY <1>5 DEF OptionRegister, c
  <2>. QED
    BY <1>2, <1>3, <1>5, <2>1 DEF c
<1>. QED
  BY <1>4, <1>5

(* The loop's strchr finds the next end, if it is a semicolon.             *)
LEMMA NextSemicolon ==
    ASSUME NEW s \in Seq(STRING), NEW d \in Ends(s), d <= Len(s)
    PROVE  LET e == StrChr(s, Semicolon, d + 1)
           IN  /\ e # 0 => Follows(Ends(s), d, e) /\ e \in Nat /\ d < e /\ e <= Len(s)
               /\ e = 0 => Follows(Ends(s), d, Len(s) + 1)
<1>. DEFINE e == StrChr(s, Semicolon, d + 1)
            E == Ends(s)
<1>1. /\ Len(s) \in Nat /\ E \in SUBSET Nat /\ Len(s) + 1 \in E
      /\ \A x \in E : 0 <= x /\ x <= Len(s) + 1
      /\ \A x \in E : x # 0 /\ x # Len(s) + 1 => x \in 1 .. Len(s) /\ s[x] = Semicolon
      /\ \A x \in 1 .. Len(s) : s[x] = Semicolon => x \in E
  BY EndsFacts
<1>2. d \in Nat /\ d + 1 \in Nat \ {0} /\ d \in E
  BY <1>1
<1>3. \/ e = 0 /\ \A j \in d + 1 .. Len(s) : s[j] # Semicolon
      \/ /\ e \in d + 1 .. Len(s) /\ s[e] = Semicolon
         /\ \A j \in d + 1 .. Len(s) : s[j] = Semicolon => e <= j
  BY <1>2, StrChrFinds
<1>. HIDE DEF e, E
<1>4. ASSUME e # 0  PROVE Follows(E, d, e) /\ e \in Nat /\ d < e /\ e <= Len(s)
  <2>1. e \in d + 1 .. Len(s) /\ s[e] = Semicolon
        /\ \A j \in d + 1 .. Len(s) : s[j] = Semicolon => e <= j
    BY <1>3, <1>4
  <2>2. e \in Nat /\ d < e /\ e <= Len(s) /\ e \in 1 .. Len(s)
    BY <1>1, <1>2, <2>1
  <2>3. ASSUME NEW x \in E, ~ (x <= d)  PROVE e <= x
    <3>1. x \in Nat /\ x # 0 /\ x <= Len(s) + 1 /\ x \in d + 1 .. Len(s) + 1
      BY <1>1, <1>2, <2>3
    <3>2. CASE x = Len(s) + 1
      BY <1>1, <2>2, <3>2
    <3>3. CASE x # Len(s) + 1
      <4>1. x \in d + 1 .. Len(s)
        BY <1>1, <1>2, <3>1, <3>3
      <4>2. s[x] = Semicolon
        BY <1>1, <3>1, <3>3
      <4>. QED
        BY <2>1, <4>1, <4>2
    <3>. QED
      BY <3>2, <3>3
  <2>. QED
    BY <1>1, <1>2, <2>1, <2>2, <2>3 DEF Follows
<1>5. ASSUME e = 0  PROVE Follows(E, d, Len(s) + 1)
  <2>1. \A j \in d + 1 .. Len(s) : s[j] # Semicolon
    BY <1>2, <1>3, <1>5
  <2>2. ASSUME NEW x \in E, ~ (x <= d)  PROVE Len(s) + 1 <= x
    <3>1. x \in Nat /\ x # 0 /\ x <= Len(s) + 1 /\ d < x
      BY <1>1, <1>2, <2>2
    <3>2. CASE x # Len(s) + 1
      <4>1. s[x] = Semicolon
        BY <1>1, <3>1, <3>2
      <4>2. x \in d + 1 .. Len(s)
        BY <1>1, <1>2, <3>1, <3>2
      <4>. QED
        BY <2>1, <4>1, <4>2
    <3>. QED
      BY <1>1, <3>2
  <2>3. d < Len(s) + 1
    BY <1>1, <1>2
  <2>. QED
    BY <1>1, <1>2, <2>2, <2>3 DEF Follows
<1>. QED
  BY <1>4, <1>5 DEF e, E

(* The chunk that ends at e.                                               *)
LEMMA ChunkBetween ==
    ASSUME TypeInv, NEW d, NEW e, Follows(Ends(str), d, e)
    PROVE  /\ SubSeq(str, d + 1, e - 1) = Chunk(Rank(Ends(str), e))
           /\ Rank(Ends(str), e) \in 1 .. Count(str) /\ Count(str) \in Nat
           /\ Rank(Ends(str), e) = Rank(Ends(str), d) + 1
           /\ d = 0 => Rank(Ends(str), e) = 1
           /\ d # 0 => Rank(Ends(str), e) \in 2 .. Count(str)
           /\ e = Len(str) + 1 => Rank(Ends(str), e) = Count(str)
<1>. DEFINE E == Ends(str)
<1>0. str \in Seq(STRING)
  BY DEF TypeInv
<1>1. /\ E \in SUBSET Nat /\ IsFiniteSet(E) /\ 0 \in E /\ Len(str) + 1 \in E /\ Count(str) \in Nat
      /\ \A x \in E : 0 <= x /\ x <= Len(str) + 1
  BY <1>0, EndsFacts
<1>2. d \in E /\ e \in E /\ d < e /\ d \in Nat
  BY <1>1 DEF Follows
<1>3. /\ SubSeq(str, d + 1, e - 1) = Chunk(Rank(E, e))
      /\ Rank(E, e) \in 1 .. Count(str) /\ Rank(E, e) = Rank(E, d) + 1
  BY <1>0, ChunksAreCut DEF Chunk
<1>4. Rank(E, 0) = 0 /\ Rank(E, Len(str) + 1) = Count(str)
  BY <1>1, RankOnto DEF Count
<1>. HIDE DEF E
<1>5. ASSUME d # 0  PROVE Rank(E, e) \in 2 .. Count(str)
  <2>1. 0 < d
    BY <1>2, <1>5
  <2>2. Rank(E, 0) < Rank(E, d) /\ Rank(E, d) \in Nat
    BY <1>1, <1>2, <2>1, RankGrows, RankType
  <2>. QED
    BY <1>1, <1>3, <1>4, <2>2
<1>6. d = 0 => Rank(E, e) = 1
  BY <1>3, <1>4
<1>. QED
  BY <1>1, <1>3, <1>4, <1>5, <1>6 DEF E

LEMMA CommaFound ==
    ASSUME TypeInv
    PROVE  StrChr(str, Comma, 1) = 0 <=> NoComma
<1>1. str \in Seq(STRING) /\ DOMAIN str = 1 .. Len(str) /\ 1 \in Nat \ {0} /\ Len(str) \in Nat
  BY DEF TypeInv
<1>2. \/ StrChr(str, Comma, 1) = 0 /\ \A j \in 1 .. Len(str) : str[j] # Comma
      \/ StrChr(str, Comma, 1) \in 1 .. Len(str) /\ str[StrChr(str, Comma, 1)] = Comma
  BY <1>1, StrChrFinds
<1>3. \A j \in 1 .. Len(str) : j # 0
  BY <1>1
<1>. QED
  BY <1>1, <1>2, <1>3 DEF NoComma

LEMMA CheckKeeps ==
    ASSUME LoopInv, Check
    PROVE  LoopInv'
<1>. DEFINE e == StrChr(str, Semicolon, 1)
<1>0. /\ TypeInv /\ str \in Seq(STRING) /\ Len(str) \in Nat
      /\ at = "check" /\ last_counter = 0 /\ counter = 0 /\ resource = NoResource
      /\ str' = str /\ last_counter' = last_counter /\ resource' = resource /\ early' = early
  BY DEF LoopInv, TypeInv, AtCheck, Check
<1>1. /\ e # 0 => Follows(Ends(str), 0, e) /\ e \in Nat /\ 0 < e /\ e <= Len(str)
      /\ e = 0 => Follows(Ends(str), 0, Len(str) + 1)
  <2>1. 0 \in Ends(str) /\ 0 <= Len(str) /\ 0 + 1 = 1
    BY <1>0, EndsFacts
  <2>. QED
    BY <1>0, <2>1, NextSemicolon
<1>2. CASE StrChr(str, Comma, 1) # 0 \/ e \in {0, 1}
  <2>1. at' = "returned" /\ status' = 0 /\ counter' = counter
    BY <1>2 DEF Check, Return, e
  <2>2. TypeInv'
    BY <1>0, <2>1 DEF TypeInv
  <2>3. ~ NoComma \/ Count(str) < 2 \/ ~ ParsePath(Chunk(1))
    <3>1. CASE StrChr(str, Comma, 1) # 0
      BY <1>0, <3>1, CommaFound
    <3>2. CASE e = 0
      <4>1. Rank(Ends(str), Len(str) + 1) = Count(str) /\ Rank(Ends(str), Len(str) + 1) = 1
        BY <1>0, <1>1, <3>2, ChunkBetween
      <4>. QED
        BY <4>1
    <3>3. CASE e = 1
      <4>1. SubSeq(str, 0 + 1, 1 - 1) = Chunk(1)
        BY <1>0, <1>1, <3>3, ChunkBetween
      <4>2. SubSeq(str, 0 + 1, 1 - 1) = <<>>
        BY SubSeqEmpty
      <4>3. ~ (Len(<<>>) > 2)
        OBVIOUS
      <4>. QED
        BY <4>1, <4>2, <4>3 DEF ParsePath, CalPathSize
    <3>. QED
      BY <1>2, <3>1, <3>2, <3>3
  <2>4. (~ NoComma \/ Count(str) < 2 \/ ~ ParsePath(Chunk(1)))'
    BY <1>0, <2>3 DEF NoComma, Chunk
  <2>5. (resource.is = "null")'
    BY <1>0 DEF NoResource
  <2>. QED
    BY <2>1, <2>2, <2>4, <2>5 DEF LoopInv, AtCheck, AtElement, AtNext, AtReturned
<1>3. CASE ~ (StrChr(str, Comma, 1) # 0 \/ e \in {0, 1})
  <2>1. at' = "element" /\ counter' = e /\ status' = status
    BY <1>3 DEF Check, e
  <2>2. NoComma /\ Follows(Ends(str), 0, e) /\ e \in Nat /\ 0 < e /\ e <= Len(str)
    BY <1>0, <1>1, <1>3, CommaFound
  <2>. HIDE DEF e
  <2>3. TypeInv'
    BY <1>0, <2>1, <2>2 DEF TypeInv
  <2>4. NoComma' /\ Follows(Ends(str), 0, e)'
    BY <1>0, <2>2 DEF NoComma, e
  <2>5. AtElement'
    BY <1>0, <2>1, <2>2, <2>4 DEF AtElement, NoComma
  <2>. QED
    BY <2>1, <2>3, <2>5 DEF LoopInv, AtCheck, AtNext, AtReturned
<1>. QED
  BY <1>2, <1>3

LEMMA FirstElementKeeps ==
    ASSUME LoopInv, FirstElement
    PROVE  LoopInv'
<1>. DEFINE c == SubSeq(str, 1, counter - 1)
            path == SubSeq(c, 2, Len(c) - 1)
            uri == Parent \o <<"/">> \o path
            E == Ends(str)
<1>0. /\ TypeInv /\ str \in Seq(STRING) /\ Len(str) \in Nat
      /\ at = "element" /\ last_counter = 0 /\ resource = NoResource /\ NoComma
      /\ Follows(E, 0, counter) /\ counter \in Nat /\ counter <= Len(str) /\ 0 < counter
      /\ str' = str /\ last_counter' = last_counter /\ counter' = counter /\ early' = early
  BY DEF LoopInv, TypeInv, AtElement, FirstElement, Counters, Follows
<1>1. /\ c = Chunk(1) /\ Rank(E, counter) = 1 /\ 1 \in 1 .. Count(str)
  <2>1. SubSeq(str, 0 + 1, counter - 1) = Chunk(1) /\ Rank(E, counter) = 1 /\ 1 \in 1 .. Count(str)
    BY <1>0, ChunkBetween
  <2>2. 0 + 1 = 1
    OBVIOUS
  <2>. QED
    BY <2>1, <2>2
<1>. HIDE DEF E, c
<1>2. CASE ParsePath(c)
  <2>1. resource' = [is |-> "made", link_attr |-> <<>>, uri |-> uri] /\ at' = "next"
        /\ status' = status
    BY <1>2 DEF FirstElement, c
  <2>2. uri \in Seq(Chars)
    <3>1. c \in Seq(STRING)
      BY <1>0, <1>1, ChunkTypes DEF Chunk
    <3>2. path \in Seq(STRING)
      <4>1. Len(c) > 2 /\ Len(c) \in Nat
        BY <1>2, <3>1 DEF ParsePath, CalPathSize
      <4>2. 2 \in Nat \ {0} /\ Len(c) - 1 \in Nat /\ Len(c) - 1 <= Len(c) /\ 2 <= (Len(c) - 1) + 1
        BY <4>1
      <4>. QED
        BY <3>1, <4>2, SubSeqIs
    <3>. HIDE DEF path
    <3>3. path \in Seq(Chars) /\ Parent \in Seq(Chars)
      BY <3>2, TextsOfChars, LinkTextAssumption
    <3>4. <<"/">> \in Seq(Chars)
      <4>1. "/" \in Chars
        BY DEF Chars
      <4>2. \A k \in Chars : <<k>> \in Seq(Chars)
        OBVIOUS
      <4>. QED
        BY <4>1, <4>2
    <3>5. Parent \o <<"/">> \in Seq(Chars)
      BY <3>3, <3>4, ConcatAt
    <3>. QED
      BY <3>3, <3>5, ConcatAt
  <2>. HIDE DEF uri
  <2>3. resource' \in [is : {"null", "made", "freed"}, uri : Seq(Chars), link_attr : Seq(Attribute)]
    <3>1. <<>> \in Seq(Attribute)
      OBVIOUS
    <3>. QED
      BY <2>1, <2>2, <3>1
  <2>4. TypeInv'
    BY <1>0, <2>1, <2>3 DEF TypeInv
  <2>5. Registered(1)'
    <3>1. /\ resource'.is = "made" /\ resource'.uri = uri /\ resource'.link_attr = <<>>
      BY <2>1
    <3>2. Len(<<>>) = 1 - 1 /\ \A i \in 2 .. 1 : FALSE
      OBVIOUS
    <3>3. uri = Parent \o <<"/">> \o SubSeq(Chunk(1), 2, Len(Chunk(1)) - 1)
      BY <1>1, Zenon DEF uri
    <3>. QED
      BY <1>0, <1>1, <1>2, <3>1, <3>2, <3>3 DEF Registered, Chunk
  <2>6. AtNext'
    <3>1. counter \in E /\ counter # 0
      BY <1>0 DEF Follows
    <3>2. (Rank(Ends(str), counter) = 1)' /\ NoComma' /\ (counter \in Ends(str) /\ counter # 0)'
      BY <1>0, <1>1, <3>1 DEF NoComma, E
    <3>. QED
      BY <2>5, <3>2 DEF AtNext
  <2>. QED
    BY <2>1, <2>4, <2>6 DEF LoopInv, AtCheck, AtElement, AtReturned
<1>3. CASE ~ ParsePath(c)
  <2>1. at' = "returned" /\ status' = 0 /\ resource' = resource
    BY <1>3 DEF FirstElement, Return, c
  <2>2. TypeInv'
    BY <1>0, <2>1 DEF TypeInv
  <2>3. (resource.is = "null")' /\ ~ ParsePath(Chunk(1))'
    BY <1>0, <1>1, <1>3, <2>1 DEF NoResource, Chunk
  <2>. QED
    BY <2>1, <2>2, <2>3 DEF LoopInv, AtCheck, AtElement, AtNext, AtReturned
<1>. QED
  BY <1>2, <1>3

LEMMA BetweenElementKeeps ==
    ASSUME LoopInv, BetweenElement
    PROVE  LoopInv'
<1>. DEFINE E == Ends(str)
            c == SubSeq(str, last_counter + 1, counter - 1)
<1>0. /\ TypeInv /\ at = "element" /\ last_counter # 0 /\ NoComma
      /\ Follows(E, last_counter, counter) /\ Registered(Rank(E, last_counter))
      /\ OptionRegister(c)
      /\ str' = str /\ last_counter' = last_counter /\ counter' = counter
      /\ IF ParseOption(c).ok THEN at' = "next" /\ status' = status
                              ELSE at' = "returned" /\ status' = 0
  BY DEF LoopInv, AtElement, BetweenElement, Counters, Return
<1>. PICK n : n = Rank(E, counter)
  OBVIOUS
<1>1. c = Chunk(n) /\ n \in 2 .. Count(str) /\ n = Rank(E, last_counter) + 1
      /\ Rank(E, last_counter) \in Nat /\ Count(str) \in Nat
  <2>1. c = Chunk(n) /\ n \in 2 .. Count(str) /\ n = Rank(E, last_counter) + 1 /\ Count(str) \in Nat
    BY <1>0, ChunkBetween
  <2>2. Rank(E, last_counter) \in Nat
    <3>1. E \in SUBSET Nat /\ IsFiniteSet(E) /\ last_counter \in Nat
      BY <1>0, EndsFacts DEF TypeInv
    <3>. QED
      BY <3>1, RankType
  <2>. QED
    BY <2>1, <2>2
<1>2. counter \in E /\ counter # 0 /\ counter \in Nat
  BY <1>0 DEF Follows, TypeInv
<1>. HIDE DEF c, E
<1>3. Registered(n - 1) /\ OptionRegister(Chunk(n))
  <2>1. n - 1 = Rank(E, last_counter)
    BY <1>1
  <2>. QED
    BY <1>0, <1>1, <2>1
<1>4. /\ resource' \in [is : {"null", "made", "freed"}, uri : Seq(Chars),
                        link_attr : Seq(Attribute)]
      /\ early' \in BOOLEAN
      /\ ParseOption(c).ok => Registered(n)'
      /\ ~ ParseOption(c).ok => resource'.is = "freed"
  BY <1>0, <1>1, <1>3, RegisterOption
<1>5. TypeInv'
  BY <1>0, <1>4 DEF TypeInv
<1>6. CASE ParseOption(c).ok
  <2>1. (Rank(Ends(str), counter))' = n /\ NoComma' /\ (counter \in Ends(str) /\ counter # 0)'
    BY <1>0, <1>2 DEF NoComma, E
  <2>2. Registered(Rank(Ends(str), counter))'
    BY <1>4, <1>6, <2>1
  <2>. QED
    BY <1>0, <1>5, <1>6, <2>1, <2>2 DEF LoopInv, AtCheck, AtElement, AtNext, AtReturned
<1>7. CASE ~ ParseOption(c).ok
  <2>1. NoComma' /\ ParsePath(Chunk(1))' /\ Count(str)' = Count(str)
    BY <1>0 DEF NoComma, Registered, Chunk
  <2>2. (\E i \in 2 .. Count(str) : ~ ParseOption(Chunk(i)).ok)'
    BY <1>0, <1>1, <1>7, <2>1 DEF Chunk
  <2>. QED
    BY <1>0, <1>4, <1>5, <1>7, <2>1, <2>2 DEF LoopInv, AtCheck, AtElement, AtNext, AtReturned
<1>. QED
  BY <1>6, <1>7

LEMMA NextElementKeeps ==
    ASSUME LoopInv, NextElement
    PROVE  LoopInv'
<1>. DEFINE e == StrChr(str, Semicolon, counter + 1)
<1>0. /\ TypeInv /\ at = "next" /\ NoComma /\ counter \in Ends(str) /\ counter # 0
      /\ Registered(Rank(Ends(str), counter))
      /\ e # 0 /\ last_counter' = counter /\ counter' = e /\ at' = "element"
      /\ str' = str /\ resource' = resource /\ status' = status /\ early' = early
  BY DEF LoopInv, AtNext, NextElement
<1>1. Follows(Ends(str), counter, e) /\ e \in Nat /\ counter < e /\ e <= Len(str)
  <2>1. str \in Seq(STRING) /\ counter <= Len(str)
    BY <1>0 DEF TypeInv
  <2>. QED
    BY <1>0, <2>1, NextSemicolon
<1>. HIDE DEF e
<1>2. TypeInv'
  BY <1>0, <1>1 DEF TypeInv
<1>3. /\ NoComma' /\ Follows(Ends(str), last_counter, counter)'
      /\ Registered(Rank(Ends(str), last_counter))' /\ (last_counter # 0)'
  BY <1>0, <1>1 DEF NoComma, Registered, Chunk
<1>. QED
  BY <1>0, <1>2, <1>3 DEF LoopInv, AtCheck, AtElement, AtNext, AtReturned

LEMMA LastElementKeeps ==
    ASSUME LoopInv, LastElement
    PROVE  LoopInv'
<1>. DEFINE E == Ends(str)
            c == SubSeq(str, counter + 1, Len(str))
<1>0. /\ TypeInv /\ str \in Seq(STRING) /\ Len(str) \in Nat /\ at = "next" /\ NoComma
      /\ counter \in E /\ counter # 0 /\ counter <= Len(str) /\ Registered(Rank(E, counter))
      /\ StrChr(str, Semicolon, counter + 1) = 0
      /\ OptionRegister(c)
      /\ str' = str /\ last_counter' = last_counter /\ counter' = counter
      /\ at' = "returned" /\ status' = IF ParseOption(c).ok THEN 1 ELSE 0
  BY DEF LoopInv, AtNext, TypeInv, LastElement, Counters, Return
<1>1. Follows(E, counter, Len(str) + 1)
  BY <1>0, NextSemicolon
<1>. PICK n : n = Count(str)
  OBVIOUS
<1>2. c = Chunk(n) /\ n \in 2 .. n /\ n = Rank(E, counter) + 1
      /\ Rank(E, counter) \in Nat /\ n \in Nat
  <2>1. SubSeq(str, counter + 1, (Len(str) + 1) - 1) = Chunk(Rank(E, Len(str) + 1))
        /\ Rank(E, Len(str) + 1) \in 2 .. n /\ Rank(E, Len(str) + 1) = Rank(E, counter) + 1
        /\ Rank(E, Len(str) + 1) = n /\ n \in Nat
    BY <1>0, <1>1, ChunkBetween
  <2>2. (Len(str) + 1) - 1 = Len(str)
    BY <1>0
  <2>3. Rank(E, counter) \in Nat
    <3>1. E \in SUBSET Nat /\ IsFiniteSet(E) /\ counter \in Nat
      BY <1>0, EndsFacts
    <3>. QED
      BY <3>1, RankType
  <2>. QED
    BY <2>1, <2>2, <2>3
<1>. HIDE DEF c, E
<1>3. Registered(n - 1) /\ OptionRegister(Chunk(n))
  <2>1. n - 1 = Rank(E, counter)
    BY <1>2
  <2>. QED
    BY <1>0, <1>2, <2>1
<1>4. /\ resource' \in [is : {"null", "made", "freed"}, uri : Seq(Chars),
                        link_attr : Seq(Attribute)]
      /\ early' \in BOOLEAN
      /\ ParseOption(c).ok => Registered(n)'
      /\ ~ ParseOption(c).ok => resource'.is = "freed"
  <2>1. n \in 2 .. Count(str)
    BY <1>2
  <2>. QED
    BY <1>0, <1>2, <1>3, <2>1, RegisterOption
<1>5. TypeInv'
  BY <1>0, <1>4 DEF TypeInv
<1>6. NoComma' /\ Count(str)' = n
  BY <1>0 DEF NoComma
<1>7. CASE ParseOption(c).ok
  <2>1. status' = 1 /\ Registered(Count(str))' /\ n >= 2
    BY <1>0, <1>2, <1>4, <1>6, <1>7
  <2>. QED
    BY <1>0, <1>5, <1>6, <2>1 DEF LoopInv, AtCheck, AtElement, AtNext, AtReturned
<1>8. CASE ~ ParseOption(c).ok
  <2>1. status' = 0 /\ ParsePath(Chunk(1))' /\ resource'.is = "freed"
    BY <1>0, <1>4, <1>8 DEF Registered, Chunk
  <2>2. (\E i \in 2 .. Count(str) : ~ ParseOption(Chunk(i)).ok)'
    BY <1>0, <1>2, <1>6, <1>8 DEF Chunk
  <2>. QED
    BY <1>0, <1>5, <1>6, <2>1, <2>2 DEF LoopInv, AtCheck, AtElement, AtNext, AtReturned
<1>. QED
  BY <1>7, <1>8

LEMMA StutterKeeps ==
    ASSUME LoopInv, Abort \/ Finished \/ UNCHANGED vars
    PROVE  LoopInv'
<1>1. CASE Abort
  BY <1>1 DEF Abort, Counters, LoopInv, TypeInv, AtCheck, AtElement, AtNext, AtReturned
<1>2. CASE UNCHANGED vars
  <2>1. UNCHANGED <<str, at, last_counter, counter, resource, status, early>>
    BY <1>2 DEF vars
  <2>. QED
    BY <2>1 DEF LoopInv, TypeInv, AtCheck, AtElement, AtNext, AtReturned,
               NoComma, Registered, Chunk
<1>. QED
  BY <1>1, <1>2 DEF Finished

LEMMA LoopInvariant == Spec => []LoopInv
<1>1. Init => LoopInv
  BY InitInv
<1>2. LoopInv /\ [Next]_vars => LoopInv'
  <2>. SUFFICES ASSUME LoopInv, [Next]_vars  PROVE LoopInv'
    OBVIOUS
  <2>. QED
    BY CheckKeeps, FirstElementKeeps, BetweenElementKeeps, NextElementKeeps, LastElementKeeps,
       StutterKeeps DEF Next
<1>. QED
  BY <1>1, <1>2, PTL DEF Spec
-------------------------------------------------------------------------------
(* The two semicolons stay in the text and in order, and every attribute   *)
(* that coap_add_attr takes over has a name and is a word, however long    *)
(* the payload of the POST is.                                             *)
THEOREM LinkTextTypes == Spec => []TypeOK
<1>1. LoopInv => TypeOK
  <2>. SUFFICES ASSUME TypeInv  PROVE TypeOK
    BY DEF LoopInv
  <2>1. resource \in [is : {"null", "made", "freed"}, uri : Seq(Chars), link_attr : Seq(Attribute)]
    BY DEF TypeInv
  <2>. DEFINE attrs == resource.link_attr
  <2>2. attrs \in Seq(Attribute)
    BY <2>1
  <2>. HIDE DEF attrs
  <2>3. ASSUME NEW i \in DOMAIN attrs
        PROVE  attrs[i].name # <<>> /\ RestrictedTo(attrs[i].name \o attrs[i].value, Word)
    <3>1. attrs[i] \in Attribute
      BY <2>2
    <3>2. /\ attrs[i].name \in Seq(STRING) /\ attrs[i].value \in Seq(STRING)
          /\ attrs[i].name # <<>>
          /\ RestrictedTo(attrs[i].name, Word) /\ RestrictedTo(attrs[i].value, Word)
      BY <3>1 DEF Attribute
    <3>. QED
      BY <3>2, RestrictedConcat
  <2>4. resource.is \in {"null", "made", "freed"} /\ 0 <= last_counter
    BY <2>1 DEF TypeInv
  <2>. QED
    BY <2>3, <2>4 DEF TypeInv, TypeOK, attrs
<1>. QED
  BY <1>1, LoopInvariant, PTL
-------------------------------------------------------------------------------
LEMMA ObsIs == Obs \in Seq(Chars) /\ Len(Obs) \in Nat
<1>1. "o" \in Chars /\ "b" \in Chars /\ "s" \in Chars /\ Semicolon \in Chars
  BY DEF Chars
<1>2. \A w, x, y, z \in Chars : <<w, x, y, z>> \in Seq(Chars)
  OBVIOUS
<1>3. <<Semicolon, "o", "b", "s">> \in Seq(Chars)
  BY <1>1, <1>2
<1>4. Obs \in Seq(Chars)
  BY <1>3 DEF Obs
<1>. QED
  BY <1>4

(* The size of an attribute in a link, and its text.                       *)
SizeWith(x, a) == x + Len(a.name) + Len(a.value) + 2
TextWith(x, a) == x \o <<Semicolon>> \o a.name \o <<"=">> \o a.value

LEMMA LenOfConcat ==
    ASSUME NEW S, NEW x \in Seq(S), NEW y \in Seq(S)
    PROVE  x \o y \in Seq(S) /\ Len(x \o y) = Len(x) + Len(y)
BY ConcatAt

LEMMA TextHasSize ==
    ASSUME NEW x \in Seq(Chars), NEW a \in Attribute
    PROVE  /\ TextWith(x, a) \in Seq(Chars)
           /\ Len(TextWith(x, a)) = SizeWith(Len(x), a)
           /\ SizeWith(Len(x), a) \in Nat
<1>. DEFINE name == a.name
            value == a.value
            semi == <<Semicolon>>
            sign == <<"=">>
<1>1. name \in Seq(STRING) /\ value \in Seq(STRING)
  BY DEF Attribute
<1>. HIDE DEF name, value
<1>2. name \in Seq(Chars) /\ value \in Seq(Chars)
  BY <1>1, TextsOfChars
<1>3. /\ semi \in Seq(Chars) /\ Len(semi) = 1
      /\ sign \in Seq(Chars) /\ Len(sign) = 1
  <2>1. \A k \in Chars : <<k>> \in Seq(Chars) /\ Len(<<k>>) = 1
    OBVIOUS
  <2>2. Semicolon \in Chars /\ "=" \in Chars
    BY TextsOfChars
  <2>. QED
    BY <2>1, <2>2
<1>. HIDE DEF semi, sign
<1>4. x \o semi \in Seq(Chars) /\ Len(x \o semi) = Len(x) + 1
  BY <1>3, LenOfConcat
<1>5. /\ x \o semi \o name \in Seq(Chars)
      /\ Len(x \o semi \o name) = Len(x) + 1 + Len(name)
  BY <1>2, <1>4, LenOfConcat
<1>6. /\ x \o semi \o name \o sign \in Seq(Chars)
      /\ Len(x \o semi \o name \o sign) = Len(x) + 1 + Len(name) + 1
  BY <1>3, <1>5, LenOfConcat
<1>7. /\ x \o semi \o name \o sign \o value \in Seq(Chars)
      /\ Len(x \o semi \o name \o sign \o value) = Len(x) + 1 + Len(name) + 1 + Len(value)
  BY <1>2, <1>6, LenOfConcat
<1>8. TextWith(x, a) = x \o semi \o name \o sign \o value
  BY Zenon DEF TextWith, semi, sign, name, value
<1>9. SizeWith(Len(x), a) = Len(x) + Len(name) + Len(value) + 2
  BY DEF SizeWith, name, value
<1>10. Len(x) \in Nat /\ Len(name) \in Nat /\ Len(value) \in Nat
  BY <1>2
<1>. QED
  BY <1>7, <1>8, <1>9, <1>10


(* The functions that add them up.                                         *)
SumsUp(size, attrs, base) ==
    size = [n \in 0 .. Len(attrs) |-> IF n = 0 THEN base ELSE SizeWith(size[n - 1], attrs[n])]
PutsTogether(text, attrs, first) ==
    text = [n \in 0 .. Len(attrs) |-> IF n = 0 THEN first ELSE TextWith(text[n - 1], attrs[n])]

(* Functions that add up the attributes' sizes and texts agree.            *)
LEMMA TextsHaveSizes ==
    ASSUME NEW attrs \in Seq(Attribute), NEW first \in Seq(Chars), NEW size, NEW text,
           SumsUp(size, attrs, Len(first)), PutsTogether(text, attrs, first)
    PROVE  /\ text[Len(attrs)] \in Seq(Chars)
           /\ Len(text[Len(attrs)]) = size[Len(attrs)]
<1>. DEFINE N == Len(attrs)
            S == {n \in Nat : n <= N => text[n] \in Seq(Chars) /\ Len(text[n]) = size[n]}
<1>0. N \in Nat /\ \A n \in 1 .. N : attrs[n] \in Attribute
  OBVIOUS
<1>1. /\ size[0] = Len(first) /\ text[0] = first
      /\ \A n \in 1 .. N : /\ size[n] = SizeWith(size[n - 1], attrs[n])
                           /\ text[n] = TextWith(text[n - 1], attrs[n])
  <2>1. 0 \in 0 .. N /\ \A n \in 1 .. N : n \in 0 .. N /\ n # 0
    BY <1>0
  <2>. QED
    BY <2>1 DEF SumsUp, PutsTogether
<1>. HIDE DEF N
<1>2. 0 \in S
  BY <1>1
<1>3. ASSUME NEW n \in S  PROVE n + 1 \in S
  <2>. SUFFICES ASSUME n + 1 <= N
                PROVE  text[n + 1] \in Seq(Chars) /\ Len(text[n + 1]) = size[n + 1]
    OBVIOUS
  <2>1. n \in Nat /\ n <= N /\ n + 1 \in 1 .. N /\ (n + 1) - 1 = n
    BY <1>0
  <2>2. text[n] \in Seq(Chars) /\ Len(text[n]) = size[n]
    BY <2>1
  <2>3. /\ size[n + 1] = SizeWith(size[n], attrs[n + 1])
        /\ text[n + 1] = TextWith(text[n], attrs[n + 1])
    BY <1>1, <2>1
  <2>4. attrs[n + 1] \in Attribute
    BY <1>0, <2>1
  <2>5. /\ TextWith(text[n], attrs[n + 1]) \in Seq(Chars)
        /\ Len(TextWith(text[n], attrs[n + 1])) = SizeWith(Len(text[n]), attrs[n + 1])
    BY <2>2, <2>4, TextHasSize
  <2>. QED
    BY <2>2, <2>3, <2>5
<1>4. S = Nat
  <2>. HIDE DEF S
  <2>1. S \in SUBSET Nat
    BY DEF S
  <2>. QED
    BY <1>2, <1>3, <2>1, Induction
<1>5. N \in S
  BY <1>0, <1>4
<1>. QED
  BY <1>0, <1>5 DEF N

LEMMA SizesExist ==
    ASSUME NEW attrs \in Seq(Attribute), NEW base \in Nat
    PROVE  \E size : SumsUp(size, attrs, base)
<1>. DEFINE N == Len(attrs)
            step == [n \in 1 .. N |-> [x \in Nat |-> SizeWith(x, attrs[n])]]
<1>1. N \in Nat /\ \A n \in 1 .. N : attrs[n] \in Attribute
  OBVIOUS
<1>2. ASSUME NEW x \in Nat, NEW a \in Attribute  PROVE SizeWith(x, a) \in Nat
  <2>1. a.name \in Seq(STRING) /\ a.value \in Seq(STRING)
    BY DEF Attribute
  <2>2. Len(a.name) \in Nat /\ Len(a.value) \in Nat
    BY <2>1
  <2>3. \A p, q \in Nat : x + p + q + 2 \in Nat
    OBVIOUS
  <2>4. x + Len(a.name) + Len(a.value) + 2 \in Nat
    BY <2>2, <2>3
  <2>. QED
    BY <2>4 DEF SizeWith
<1>3. step \in [1 .. N -> [Nat -> Nat]]
  BY <1>1, <1>2
<1>4. PICK f \in [0 .. N -> Nat] : Recursive(f, N, base, step)
  <2>. HIDE DEF step, N
  <2>. QED
    BY <1>1, <1>3, Recursion
<1>5. ASSUME NEW n \in 0 .. N, n # 0  PROVE step[n][f[n - 1]] = SizeWith(f[n - 1], attrs[n])
  <2>1. n \in 1 .. N /\ n - 1 \in 0 .. N
    BY <1>1, <1>5
  <2>2. f[n - 1] \in Nat
    BY <2>1
  <2>. QED
    BY <2>1, <2>2
<1>6. f = [n \in 0 .. N |-> IF n = 0 THEN base ELSE SizeWith(f[n - 1], attrs[n])]
  <2>. HIDE DEF step, N
  <2>. QED
    BY <1>4, <1>5 DEF Recursive
<1>. QED
  BY <1>6 DEF SumsUp

LEMMA TextsExist ==
    ASSUME NEW attrs \in Seq(Attribute), NEW base \in Seq(Chars)
    PROVE  \E text : PutsTogether(text, attrs, base)
<1>. DEFINE N == Len(attrs)
            T == Seq(Chars)
            step == [n \in 1 .. N |-> [x \in T |-> TextWith(x, attrs[n])]]
<1>1. N \in Nat /\ \A n \in 1 .. N : attrs[n] \in Attribute
  OBVIOUS
<1>2. \A x \in T, a \in Attribute : TextWith(x, a) \in T
  BY TextHasSize
<1>. HIDE DEF T
<1>3. step \in [1 .. N -> [T -> T]]
  BY <1>1, <1>2
<1>4. PICK f \in [0 .. N -> T] : Recursive(f, N, base, step)
  <2>1. base \in T
    BY DEF T
  <2>. HIDE DEF step, N
  <2>. QED
    BY <1>1, <1>3, <2>1, Recursion
<1>5. ASSUME NEW n \in 0 .. N, n # 0  PROVE step[n][f[n - 1]] = TextWith(f[n - 1], attrs[n])
  <2>1. n \in 1 .. N /\ n - 1 \in 0 .. N
    BY <1>1, <1>5
  <2>2. f[n - 1] \in T
    BY <2>1
  <2>. QED
    BY <2>1, <2>2
<1>6. f = [n \in 0 .. N |-> IF n = 0 THEN base ELSE TextWith(f[n - 1], attrs[n])]
  <2>. HIDE DEF step, N
  <2>. QED
    BY <1>4, <1>5 DEF Recursive
<1>. QED
  BY <1>6 DEF PutsTogether

(* The buffer that hnd_get_broker allocates has the size of the link that  *)
(* coap_print_link writes, for every uri and any number of attributes.     *)
THEOREM LinkFits == Spec => []LinkFillsBuffer
<1>. DEFINE attrs == resource.link_attr
            N == Len(attrs)
            first == <<"<", "/">> \o resource.uri \o <<">">>
            size == CHOOSE f : f = [n \in 0 .. N |->
                        IF n = 0 THEN Len(resource.uri) + 3
                        ELSE f[n - 1] + Len(attrs[n].name) + Len(attrs[n].value) + 2]
            text == CHOOSE f : f = [n \in 0 .. N |->
                        IF n = 0 THEN <<"<", "/">> \o resource.uri \o <<">">>
                        ELSE f[n - 1] \o <<Semicolon>> \o attrs[n].name \o <<"=">>
                                \o attrs[n].value]
            named == CHOOSE f : SumsUp(f, attrs, Len(first))
            spelled == CHOOSE f : PutsTogether(f, attrs, first)
<1>1. LoopInv => LinkFillsBuffer
  <2>. SUFFICES ASSUME TypeInv  PROVE Len(PrintLink) = CalculateResourceLF
    BY DEF LoopInv, LinkFillsBuffer
  <2>1. resource.uri \in Seq(Chars) /\ attrs \in Seq(Attribute)
    BY DEF TypeInv
  <2>2. first \in Seq(Chars) /\ Len(first) = Len(resource.uri) + 3
    <3>. DEFINE left == <<"<", "/">>
                right == <<">">>
                uri == resource.uri
    <3>1. left \in Seq(Chars) /\ Len(left) = 2
      <4>1. "<" \in Chars /\ "/" \in Chars
        BY DEF Chars
      <4>2. \A x, y \in Chars : <<x, y>> \in Seq(Chars) /\ Len(<<x, y>>) = 2
        OBVIOUS
      <4>. QED
        BY <4>1, <4>2
    <3>2. right \in Seq(Chars) /\ Len(right) = 1
      <4>1. ">" \in Chars
        BY DEF Chars
      <4>2. \A x \in Chars : <<x>> \in Seq(Chars) /\ Len(<<x>>) = 1
        OBVIOUS
      <4>. QED
        BY <4>1, <4>2
    <3>3. uri \in Seq(Chars) /\ Len(uri) \in Nat
      BY <2>1
    <3>. HIDE DEF left, right, uri
    <3>4. left \o uri \in Seq(Chars) /\ Len(left \o uri) = Len(left) + Len(uri)
      BY <3>1, <3>3, LenOfConcat
    <3>5. /\ left \o uri \o right \in Seq(Chars)
          /\ Len(left \o uri \o right) = Len(left \o uri) + Len(right)
      BY <3>2, <3>4, LenOfConcat
    <3>6. first = left \o uri \o right
      BY Zenon DEF left, uri, right
    <3>. HIDE DEF first
    <3>7. Len(first) = Len(uri) + 3
      BY <3>1, <3>2, <3>3, <3>4, <3>5, <3>6
    <3>. QED
      BY <3>5, <3>6, <3>7 DEF uri
  <2>3. CalculateResourceLF = size[N] + Len(Obs)
    BY DEF CalculateResourceLF
  <2>4. PrintLink = text[N] \o Obs
    BY DEF PrintLink
  <2>5. size = named
    <3>. HIDE DEF first
    <3>. QED
      BY <2>2 DEF SizeWith, SumsUp
  <2>6. text = spelled
    BY Zenon DEF TextWith, PutsTogether
  <2>. HIDE DEF first, attrs, size, text
  <2>7. SumsUp(named, attrs, Len(first))
    <3>1. \E f : SumsUp(f, attrs, Len(first))
      BY <2>1, <2>2, SizesExist
    <3>. QED
      BY <3>1, Zenon
  <2>8. PutsTogether(spelled, attrs, first)
    <3>1. \E f : PutsTogether(f, attrs, first)
      BY <2>1, <2>2, TextsExist
    <3>. QED
      BY <3>1, Zenon
  <2>. HIDE DEF named, spelled
  <2>9. spelled[N] \in Seq(Chars) /\ Len(spelled[N]) = named[N]
    BY <2>1, <2>2, <2>7, <2>8, TextsHaveSizes
  <2>10. Len(spelled[N] \o Obs) = Len(spelled[N]) + Len(Obs)
    BY <2>9, ObsIs, LenOfConcat
  <2>. QED
    BY <2>3, <2>4, <2>5, <2>6, <2>9, <2>10
<1>. QED
  BY <1>1, LoopInvariant, PTL
-------------------------------------------------------------------------------
(* coap_find_attr finds the first attribute of a name, or none.            *)
LEMMA FindAttrFinds ==
    ASSUME TypeInv, NEW name
    PROVE  LET attrs == resource.link_attr
           IN  \/ FindAttr(name) = 0 /\ \A i \in 1 .. Len(attrs) : attrs[i].name # name
               \/ /\ FindAttr(name) \in 1 .. Len(attrs) /\ attrs[FindAttr(name)].name = name
                  /\ \A i \in 1 .. Len(attrs) : attrs[i].name = name => FindAttr(name) <= i
<1>. DEFINE attrs == resource.link_attr
            found == {i \in DOMAIN attrs : attrs[i].name = name}
<1>0. attrs \in Seq(Attribute)
  BY DEF TypeInv
<1>1. FindAttr(name) = IF found = {} THEN 0 ELSE CHOOSE i \in found : \A j \in found : i <= j
  BY DEF FindAttr
<1>. HIDE DEF attrs
<1>2. Len(attrs) \in Nat /\ DOMAIN attrs = 1 .. Len(attrs)
  BY <1>0
<1>3. found \in SUBSET Nat
  BY <1>2
<1>4. CASE found = {}
  BY <1>1, <1>2, <1>4 DEF attrs
<1>5. CASE found # {}
  <2>. HIDE DEF found
  <2>1. \E x \in found : \A y \in found : x <= y
    BY <1>3, <1>5, LeastElement
  <2>. DEFINE r == CHOOSE i \in found : \A j \in found : i <= j
  <2>2. r \in found /\ \A j \in found : r <= j
    BY <2>1
  <2>3. FindAttr(name) = r
    BY <1>1, <1>5
  <2>. HIDE DEF r
  <2>. QED
    BY <1>2, <2>2, <2>3 DEF found, attrs
<1>. QED
  BY <1>4, <1>5

(* Options of the same name have the same text up to the equals sign.      *)
LEMMA NameWithSign ==
    ASSUME NEW a \in Seq(STRING), NEW b \in Seq(STRING), ParseOption(a).ok, ParseOption(b).ok,
           ParseOption(a).name = ParseOption(b).name
    PROVE  SubSeq(a, 1, StrChr(a, "=", 1)) = SubSeq(b, 1, StrChr(b, "=", 1))
<1>1. ASSUME NEW s \in Seq(STRING), ParseOption(s).ok
      PROVE  LET eq == StrChr(s, "=", 1)
                 name == ParseOption(s).name
             IN  /\ eq \in Nat /\ eq >= 1 /\ s[eq] = "="
                 /\ name \in Seq(STRING) /\ Len(name) = eq - 1
                 /\ SubSeq(s, 1, eq) \in Seq(STRING) /\ Len(SubSeq(s, 1, eq)) = eq
                 /\ \A i \in 1 .. eq : SubSeq(s, 1, eq)[i] = s[i]
                 /\ \A i \in 1 .. eq - 1 : name[i] = s[i]
  <2>. DEFINE eq == StrChr(s, "=", 1)
              name == ParseOption(s).name
  <2>1. OptionValidation(s) = 1 /\ name = SubSeq(s, 1, eq - 1)
    BY <1>1, ParseOptionFinds
  <2>2. eq \in Nat /\ 1 < eq /\ eq < Len(s) /\ Len(s) \in Nat /\ s[eq] = "="
    BY <2>1, OptionSplits
  <2>. HIDE DEF eq, name
  <2>3. /\ 1 \in Nat \ {0} /\ eq <= Len(s) /\ 1 <= eq + 1 /\ eq - 1 + 1 = eq
        /\ eq - 1 \in Nat /\ eq - 1 <= Len(s) /\ 1 <= (eq - 1) + 1 /\ (eq - 1) - 1 + 1 = eq - 1
    BY <2>2
  <2>4. /\ SubSeq(s, 1, eq) \in Seq(STRING) /\ Len(SubSeq(s, 1, eq)) = eq - 1 + 1
        /\ \A i \in 1 .. eq - 1 + 1 : SubSeq(s, 1, eq)[i] = s[1 + i - 1]
    BY <2>2, <2>3, SubSeqIs
  <2>5. /\ SubSeq(s, 1, eq - 1) \in Seq(STRING) /\ Len(SubSeq(s, 1, eq - 1)) = (eq - 1) - 1 + 1
        /\ \A i \in 1 .. (eq - 1) - 1 + 1 : SubSeq(s, 1, eq - 1)[i] = s[1 + i - 1]
    BY <2>2, <2>3, SubSeqIs
  <2>6. \A i \in Nat : 1 + i - 1 = i
    OBVIOUS
  <2>7. \A i \in 1 .. eq : SubSeq(s, 1, eq)[i] = s[i]
    BY <2>2, <2>3, <2>4, <2>6
  <2>8. \A i \in 1 .. eq - 1 : name[i] = s[i]
    BY <2>1, <2>2, <2>3, <2>5, <2>6
  <2>. QED
    BY <2>1, <2>2, <2>3, <2>4, <2>5, <2>7, <2>8 DEF eq, name
<1>. DEFINE e == StrChr(a, "=", 1)
            d == StrChr(b, "=", 1)
            name == ParseOption(a).name
<1>2. /\ e \in Nat /\ e >= 1 /\ a[e] = "=" /\ Len(name) = e - 1
      /\ SubSeq(a, 1, e) \in Seq(STRING) /\ Len(SubSeq(a, 1, e)) = e
      /\ \A i \in 1 .. e : SubSeq(a, 1, e)[i] = a[i]
      /\ \A i \in 1 .. e - 1 : name[i] = a[i]
  BY <1>1
<1>3. /\ d \in Nat /\ d >= 1 /\ b[d] = "=" /\ Len(name) = d - 1
      /\ SubSeq(b, 1, d) \in Seq(STRING) /\ Len(SubSeq(b, 1, d)) = d
      /\ \A i \in 1 .. d : SubSeq(b, 1, d)[i] = b[i]
      /\ \A i \in 1 .. d - 1 : name[i] = b[i]
  BY <1>1
<1>. HIDE DEF e, d, name
<1>4. e = d
  BY <1>2, <1>3
<1>5. ASSUME NEW i \in 1 .. e  PROVE SubSeq(a, 1, e)[i] = SubSeq(b, 1, d)[i]
  <2>1. i = e \/ i \in 1 .. e - 1
    BY <1>2
  <2>2. CASE i = e
    BY <1>2, <1>3, <1>4, <2>2
  <2>3. CASE i \in 1 .. e - 1
    BY <1>2, <1>3, <1>4, <2>3
  <2>. QED
    BY <2>1, <2>2, <2>3
<1>. QED
  BY <1>2, <1>3, <1>4, <1>5, SameText DEF e, d

LEMMA ChunksLen ==
    ASSUME NEW s \in Seq(STRING)
    PROVE  ChunkTexts(s) \in Seq(Seq(STRING)) /\ Len(ChunkTexts(s)) = Count(s)
<1>. DEFINE c == ChunkTexts(s)
<1>1. Count(s) \in Nat /\ DOMAIN c = 1 .. Count(s) /\ \A k \in 1 .. Count(s) : c[k] \in Seq(STRING)
  BY EndsFacts, ChunksAreCut, ChunkTypes
<1>2. c = [k \in 1 .. Count(s) |-> c[k]]
  BY ChunksAreCut
<1>. HIDE DEF c
<1>3. c \in [1 .. Count(s) -> Seq(STRING)]
  BY <1>1, <1>2
<1>. QED
  BY <1>1, <1>3 DEF c

(* Each attribute of a new topic is a query that finds the topic, in the   *)
(* very text it had in the payload (with its quotes or without), unless a  *)
(* later attribute has its name: parseOptionURIQuery, coap_find_attr and   *)
(* coap_add_attr agree with what parseLinkFormat made of the text.         *)
THEOREM FindableByText == Spec => []FoundByItsText
<1>1. LoopInv => FoundByItsText
  <2>. DEFINE chunks == ChunkTexts(str)
              Name(i) == SubSeq(chunks[i], 1, StrChr(chunks[i], "=", 1))
              N == Count(str)
              attrs == resource.link_attr
  <2>. SUFFICES ASSUME LoopInv, at = "returned", status = 1,
                       NEW i \in 2 .. Len(chunks),
                       \A j \in i + 1 .. Len(chunks) : Name(j) # Name(i)
                PROVE  FoundBy(chunks[i])
    BY DEF FoundByItsText
  <2>1. /\ TypeInv /\ str \in Seq(STRING) /\ Registered(N) /\ N >= 2
    BY DEF LoopInv, TypeInv, AtReturned
  <2>2. /\ chunks \in Seq(Seq(STRING)) /\ Len(chunks) = N /\ N \in Nat
    BY <2>1, ChunksLen, EndsFacts
  <2>3. /\ Len(attrs) = N - 1
        /\ \A j \in 2 .. N : ParseOption(chunks[j]).ok /\ attrs[N + 1 - j] = OptionOf(chunks[j])
    BY <2>1 DEF Registered, Chunk
  <2>. HIDE DEF N
  <2>4. \A j \in 2 .. N : chunks[j] \in Seq(STRING)
    <3>1. \A j \in 2 .. N : j \in 1 .. Len(chunks)
      BY <2>2
    <3>. QED
      BY <2>2, <3>1, ElementOfSeq
  <2>5. i \in 2 .. N /\ i \in Nat /\ \A j \in i + 1 .. N : Name(j) # Name(i)
    <3>1. i \in 2 .. N /\ i \in Nat
      BY <2>2
    <3>. HIDE DEF Name
    <3>. QED
      BY <2>2, <3>1
  <2>. HIDE DEF chunks, attrs
  <2>. DEFINE option == ParseOption(chunks[i])
              k == FindAttr(option.name)
  <2>6. N + 1 - i \in 1 .. Len(attrs) /\ attrs[N + 1 - i].name = option.name
        /\ attrs[N + 1 - i].value = option.value
    <3>1. N + 1 - i \in 1 .. Len(attrs)
      BY <2>2, <2>3, <2>5
    <3>2. attrs[N + 1 - i] = OptionOf(chunks[i])
      BY <2>3, <2>5
    <3>. QED
      BY <3>1, <3>2 DEF OptionOf
  <2>7. /\ k \in 1 .. Len(attrs) /\ attrs[k].name = option.name
        /\ k <= N + 1 - i
    BY <2>1, <2>6, FindAttrFinds DEF attrs
  <2>. HIDE DEF k
  <2>8. k = N + 1 - i
    <3>. SUFFICES ASSUME k # N + 1 - i  PROVE FALSE
      OBVIOUS
    <3>. DEFINE j == N + 1 - k
    <3>1. j \in i + 1 .. N /\ j \in 2 .. N /\ N + 1 - j = k
      <4>1. k \in Nat /\ k >= 1 /\ k <= N - 1 /\ k < N + 1 - i /\ N \in Nat /\ i \in Nat /\ i >= 2
        BY <2>2, <2>3, <2>5, <2>7
      <4>. QED
        BY <4>1
    <3>. HIDE DEF j
    <3>2. ParseOption(chunks[j]).ok /\ ParseOption(chunks[j]).name = option.name
      <4>1. ParseOption(chunks[j]).ok /\ attrs[N + 1 - j] = OptionOf(chunks[j])
        BY <2>3, <3>1
      <4>2. attrs[k].name = ParseOption(chunks[j]).name
        BY <3>1, <4>1 DEF OptionOf
      <4>. QED
        BY <2>7, <4>1, <4>2
    <3>3. ParseOption(chunks[i]).ok /\ chunks[i] \in Seq(STRING) /\ chunks[j] \in Seq(STRING)
      BY <2>3, <2>4, <2>5, <3>1
    <3>4. Name(j) = Name(i)
      BY <3>2, <3>3, NameWithSign
    <3>. HIDE DEF Name
    <3>. QED
      BY <2>5, <3>1, <3>4
  <2>9. ParseOptionURIQuery(chunks[i]) = 1
    <3>1. ParseOption(chunks[i]).ok /\ OptionValidation(chunks[i]) = 1
      BY <2>3, <2>4, <2>5, ParseOptionFinds
    <3>. QED
      BY <3>1 DEF ParseOptionURIQuery
  <2>10. k # 0 /\ attrs[k].value = option.value
    BY <2>6, <2>7, <2>8
  <2>. QED
    BY <2>9, <2>10 DEF FoundBy, k, attrs
<1>. QED
  BY <1>1, LoopInvariant, PTL
-------------------------------------------------------------------------------
(* A number of Digits has a decimal value.                                 *)
LEMMA DecimalIsNat ==
    ASSUME NEW s \in Seq(STRING), RestrictedTo(s, Digits)
    PROVE  Decimal(s) \in Nat
<1>. DEFINE N == Len(s)
            step == [n \in 1 .. N |-> [x \in Nat |-> 10 * x + Value[s[n]]]]
            Adds(f) == f = [n \in 0 .. N |-> IF n = 0 THEN 0 ELSE 10 * f[n - 1] + Value[s[n]]]
            number == CHOOSE f : Adds(f)
            S == {n \in Nat : n <= N => number[n] \in Nat}
<1>0. N \in Nat /\ DOMAIN s = 1 .. N
  OBVIOUS
<1>1. ASSUME NEW n \in 1 .. N  PROVE Value[s[n]] \in Nat
  <2>1. s[n] \in Digits
    BY <1>0 DEF RestrictedTo
  <2>2. Value["0"] = 0 /\ Value["1"] = 1 /\ Value["9"] = 9
    BY DEF Value, Digits
  <2>. QED
    BY <2>1, <2>2 DEF Digits
<1>2. step \in [1 .. N -> [Nat -> Nat]]
  BY <1>1
<1>3. \E f : Adds(f)
  <2>1. PICK f \in [0 .. N -> Nat] : Recursive(f, N, 0, step)
    <3>. HIDE DEF step, N
    <3>. QED
      BY <1>0, <1>2, Recursion
  <2>2. ASSUME NEW n \in 0 .. N, n # 0
        PROVE  step[n][f[n - 1]] = 10 * f[n - 1] + Value[s[n]]
    <3>1. n \in 1 .. N /\ n - 1 \in 0 .. N
      BY <1>0, <2>2
    <3>2. f[n - 1] \in Nat
      BY <3>1
    <3>. QED
      BY <3>1, <3>2
  <2>3. Adds(f)
    <3>. HIDE DEF step, N
    <3>. QED
      BY <2>1, <2>2 DEF Recursive
  <2>. QED
    BY <2>3
<1>4. Adds(number)
  <2>. HIDE DEF Adds
  <2>. QED
    BY <1>3
<1>5. Decimal(s) = number[N]
  BY DEF Decimal
<1>. HIDE DEF number, N
<1>6. number[0] = 0 /\ \A n \in 1 .. N : number[n] = 10 * number[n - 1] + Value[s[n]]
  <2>1. 0 \in 0 .. N /\ \A n \in 1 .. N : n \in 0 .. N /\ n # 0
    BY <1>0
  <2>. QED
    BY <1>4, <2>1
<1>7. 0 \in S
  BY <1>6
<1>8. ASSUME NEW n \in S  PROVE n + 1 \in S
  <2>. SUFFICES ASSUME n + 1 <= N  PROVE number[n + 1] \in Nat
    OBVIOUS
  <2>1. n \in Nat /\ n <= N /\ n + 1 \in 1 .. N /\ (n + 1) - 1 = n
    BY <1>0
  <2>2. number[n] \in Nat /\ Value[s[n + 1]] \in Nat
    BY <1>1, <2>1
  <2>3. number[n + 1] = 10 * number[n] + Value[s[n + 1]]
    BY <1>6, <2>1
  <2>. QED
    BY <2>2, <2>3
<1>9. S = Nat
  <2>. HIDE DEF S
  <2>1. S \in SUBSET Nat
    BY DEF S
  <2>. QED
    BY <1>7, <1>8, <2>1, Induction
<1>. QED
  BY <1>0, <1>5, <1>9

(* atoi does not wrap a number that an int can hold.                       *)
LEMMA AtoiOfSmall ==
    ASSUME NEW s, Decimal(s) \in Nat, Decimal(s) < IntMod \div 2
    PROVE  Atoi(s) = Decimal(s)
<1>. DEFINE d == Decimal(s)
<1>. HIDE DEF d
<1>1. d \in Nat /\ IntMod \in Nat \ {0} /\ d < IntMod \div 2
  BY LinkTextAssumption DEF d
<1>2. 2 * d < IntMod /\ d < IntMod
  BY <1>1
<1>3. d % IntMod = d
  BY <1>1, <1>2
<1>4. Atoi(s) = LET low == d % IntMod
                IN  IF 2 * low >= IntMod THEN low - IntMod ELSE low
  BY DEF Atoi, d
<1>5. ~ (2 * d >= IntMod)
  BY <1>1, <1>2
<1>. QED
  BY <1>3, <1>4, <1>5 DEF d

(* The kinds of chunks, and what the parser does with each.                *)
LEMMA KindIs ==
    ASSUME NEW s \in Seq(STRING)
    PROVE  LET c == ChunkOf(s)
           IN  /\ c.kind = "comma" <=> \E i \in DOMAIN s : s[i] = Comma
               /\ c.kind # "comma" =>
                     /\ c.kind = "path" <=> ParsePath(s)
                     /\ ParsePath(s) => c.path = SubSeq(s, 2, Len(s) - 1)
                     /\ c.kind \in {"ct", "attribute"} <=> ParseOption(s).ok
                     /\ ParseOption(s).ok =>
                           /\ c.kind = "ct" <=> ParseOption(s).name = <<"c", "t">>
                           /\ c.kind = "ct" => c.ct = NumberOrBad(ParseOption(s).value)
<1>. DEFINE c == ChunkOf(s)
<1>1. CASE \E i \in DOMAIN s : s[i] = Comma
  <2>1. c = [kind |-> "comma", path |-> <<>>, ct |-> NoCt]
    BY <1>1, Zenon DEF ChunkOf
  <2>. HIDE DEF c
  <2>2. c.kind = "comma"
    BY <2>1
  <2>. QED
    BY <1>1, <2>2 DEF c
<1>2. CASE ~ \E i \in DOMAIN s : s[i] = Comma
  <2>1. CASE ParsePath(s)
    <3>1. IsPath(s) /\ ~ ParseOption(s).ok
      BY <2>1, PathIs, OptionIsNoPath
    <3>2. c = [kind |-> "path", path |-> SubSeq(s, 2, Len(s) - 1), ct |-> NoCt]
      BY <1>2, <3>1, Zenon DEF ChunkOf
    <3>. HIDE DEF c
    <3>3. c.kind = "path" /\ c.path = SubSeq(s, 2, Len(s) - 1)
      BY <3>2
    <3>. QED
      BY <1>2, <2>1, <3>1, <3>3 DEF c
  <2>2. CASE ~ ParsePath(s) /\ ~ ParseOption(s).ok
    <3>1. ~ IsPath(s) /\ Attributes(s) = {}
      BY <2>2, PathIs, AttributeOrNone
    <3>2. c = [kind |-> "malformed", path |-> <<>>, ct |-> NoCt]
      BY <1>2, <3>1, Zenon DEF ChunkOf
    <3>. HIDE DEF c
    <3>3. c.kind = "malformed"
      BY <3>2
    <3>. QED
      BY <1>2, <2>2, <3>3 DEF c
  <2>3. CASE ~ ParsePath(s) /\ ParseOption(s).ok
    <3>. DEFINE a == CHOOSE x \in Attributes(s) : TRUE
                option == ParseOption(s)
    <3>1. ~ IsPath(s) /\ Attributes(s) # {}
      BY <2>3, PathIs, AttributeOrNone
    <3>2. c = IF a.name = <<"c", "t">>
              THEN [kind |-> "ct", path |-> <<>>, ct |-> NumberOrBad(a.value)]
              ELSE [kind |-> "attribute", path |-> <<>>, ct |-> NoCt]
      BY <1>2, <3>1, Zenon DEF ChunkOf
    <3>3. a = [name |-> option.name, value |-> option.value]
      BY <2>3, AttributeOrNone
    <3>. HIDE DEF a, c
    <3>4. a.name = option.name /\ a.value = option.value
      BY <3>3
    <3>5. CASE option.name = <<"c", "t">>
      <4>1. c = [kind |-> "ct", path |-> <<>>, ct |-> NumberOrBad(option.value)]
        BY <3>2, <3>4, <3>5
      <4>2. c.kind = "ct" /\ c.ct = NumberOrBad(option.value)
        BY <4>1
      <4>. QED
        BY <1>2, <2>3, <3>5, <4>2 DEF c
    <3>6. CASE option.name # <<"c", "t">>
      <4>1. c = [kind |-> "attribute", path |-> <<>>, ct |-> NoCt]
        BY <3>2, <3>4, <3>6
      <4>2. c.kind = "attribute"
        BY <4>1
      <4>. QED
        BY <1>2, <2>3, <3>6, <4>2 DEF c
    <3>. QED
      BY <3>5, <3>6
  <2>. QED
    BY <2>1, <2>2, <2>3
<1>. QED
  BY <1>1, <1>2

LEMMA LinkIs ==
    ASSUME NEW s \in Seq(STRING)
    PROVE  /\ Count(s) \in Nat /\ Len(LinkOf(s)) = Count(s) /\ DOMAIN LinkOf(s) = 1 .. Count(s)
           /\ \A i \in 1 .. Count(s) : /\ ChunkTexts(s)[i] \in Seq(STRING)
                                       /\ LinkOf(s)[i] = ChunkOf(ChunkTexts(s)[i])
<1>. DEFINE N == Count(s)
            T == {ChunkOf(c) : c \in Seq(STRING)}
            link == LinkOf(s)
<1>1. N \in Nat /\ DOMAIN ChunkTexts(s) = 1 .. N
  BY EndsFacts, ChunksAreCut
<1>2. \A i \in 1 .. N : ChunkTexts(s)[i] \in Seq(STRING)
  BY ChunkTypes
<1>3. link = [i \in 1 .. N |-> ChunkOf(ChunkTexts(s)[i])]
  BY <1>1 DEF LinkOf
<1>. HIDE DEF N, link
<1>4. link \in [1 .. N -> T]
  BY <1>2, <1>3
<1>. HIDE DEF T
<1>5. Len(link) = N /\ DOMAIN link = 1 .. N
  BY <1>1, <1>4
<1>. QED
  BY <1>1, <1>2, <1>3, <1>5 DEF N, link

LEMMA CommaIsNoSemicolon == Comma # Semicolon
BY Zenon DEF Comma, Semicolon

(* A text has a comma exactly when a chunk has one.                        *)
LEMMA CommaOfChunks ==
    ASSUME TypeInv
    PROVE  NoComma <=> \A k \in 1 .. Count(str) : ~ \E i \in DOMAIN Chunk(k) : Chunk(k)[i] = Comma
<1>1. str \in Seq(STRING) /\ DOMAIN str = 1 .. Len(str)
  BY DEF TypeInv
<1>2. ASSUME NoComma, NEW k \in 1 .. Count(str), NEW i \in DOMAIN Chunk(k), Chunk(k)[i] = Comma
      PROVE  FALSE
  <2>1. \E j \in DOMAIN str : Chunk(k)[i] = str[j]
    BY <1>1, ChunkTypes DEF Chunk
  <2>. QED
    BY <1>2, <2>1 DEF NoComma
<1>3. ASSUME ~ NoComma
      PROVE  \E k \in 1 .. Count(str) : \E i \in DOMAIN Chunk(k) : Chunk(k)[i] = Comma
  <2>1. PICK p \in 1 .. Len(str) : str[p] = Comma
    BY <1>1, <1>3 DEF NoComma
  <2>2. str[p] # Semicolon
    BY <2>1, CommaIsNoSemicolon
  <2>. QED
    BY <1>1, <2>1, <2>2, ChunkOfPlace DEF Chunk
<1>. QED
  BY <1>2, <1>3

(* What LinkFormat says of the chunks, by what the parser does with them.  *)
LEMMA GrammarSays ==
    ASSUME TypeInv
    PROVE  LET outcome == ParseLinkFormat(LinkOf(str))
               N == Count(str)
           IN  /\ ~ NoComma \/ N < 2 \/ ~ ParsePath(Chunk(1)) => outcome = "null"
               /\ NoComma /\ N >= 2 /\ ParsePath(Chunk(1)) =>
                     outcome = IF \A i \in 2 .. N : ParseOption(Chunk(i)).ok
                               THEN "made" ELSE "freed"
<1>. DEFINE link == LinkOf(str)
            N == Count(str)
<1>1. /\ N \in Nat /\ Len(link) = N /\ DOMAIN link = 1 .. N
      /\ \A i \in 1 .. N : Chunk(i) \in Seq(STRING) /\ link[i] = ChunkOf(Chunk(i))
  BY LinkIs DEF TypeInv, Chunk
<1>. HIDE DEF link
<1>2. NoComma <=> \A i \in 1 .. N : link[i].kind # "comma"
  <2>1. \A i \in 1 .. N : link[i].kind = "comma" <=> \E j \in DOMAIN Chunk(i) : Chunk(i)[j] = Comma
    BY <1>1, KindIs
  <2>. QED
    BY <2>1, CommaOfChunks
<1>3. ASSUME NEW i \in 1 .. N, NoComma
      PROVE  /\ link[i].kind = "path" <=> ParsePath(Chunk(i))
             /\ link[i].kind \in {"ct", "attribute"} <=> ParseOption(Chunk(i)).ok
  <2>1. link[i].kind # "comma"
    BY <1>2, <1>3
  <2>. QED
    BY <1>1, <2>1, KindIs
<1>. HIDE DEF N
<1>4. ASSUME ~ NoComma \/ N < 2 \/ ~ ParsePath(Chunk(1))
      PROVE  ParseLinkFormat(link) = "null"
  <2>1. CASE ~ NoComma
    <3>1. \E i \in DOMAIN link : link[i].kind = "comma"
      BY <1>1, <1>2, <2>1
    <3>. QED
      BY <3>1 DEF ParseLinkFormat
  <2>2. CASE N < 2
    BY <1>1, <2>2 DEF ParseLinkFormat
  <2>3. CASE NoComma /\ ~ (N < 2) /\ ~ ParsePath(Chunk(1))
    <3>1. 1 \in 1 .. N
      BY <1>1, <2>3
    <3>2. link[1].kind # "path"
      BY <1>3, <2>3, <3>1
    <3>. QED
      BY <3>2 DEF ParseLinkFormat
  <2>. QED
    BY <1>4, <2>1, <2>2, <2>3
<1>5. ASSUME NoComma, N >= 2, ParsePath(Chunk(1))
      PROVE  ParseLinkFormat(link) = IF \A i \in 2 .. N : ParseOption(Chunk(i)).ok
                                     THEN "made" ELSE "freed"
  <2>0. 1 \in 1 .. N /\ ~ (Len(link) < 2) /\ \A i \in 2 .. N : i \in 1 .. N
    BY <1>1, <1>5
  <2>1. ~ \E i \in DOMAIN link : link[i].kind = "comma"
    BY <1>1, <1>2, <1>5
  <2>2. ~ (link[1].kind # "path")
    BY <1>3, <1>5, <2>0
  <2>3. \A i \in 2 .. N : link[i].kind \notin {"ct", "attribute"} <=> ~ ParseOption(Chunk(i)).ok
    BY <1>3, <1>5, <2>0
  <2>4. ParseLinkFormat(link) =
           IF \E i \in 2 .. Len(link) : link[i].kind \notin {"ct", "attribute"}
           THEN "freed" ELSE "made"
    BY <2>0, <2>1, <2>2 DEF ParseLinkFormat
  <2>. QED
    BY <1>1, <2>3, <2>4
<1>. QED
  BY <1>4, <1>5 DEF N, link

(* CHOOSE picks the greatest element.                                      *)
LEMMA GreatestIs ==
    ASSUME NEW N \in Nat, NEW E \in SUBSET (1 .. N), NEW x \in E, \A y \in E : y <= x
    PROVE  (CHOOSE i \in E : \A j \in E : j <= i) = x
<1>1. \A i \in E : (\A j \in E : j <= i) => i = x
  <2>. TAKE i \in E
  <2>. HAVE \A j \in E : j <= i
  <2>1. x <= i /\ i <= x /\ i \in Nat /\ x \in Nat
    OBVIOUS
  <2>. QED
    BY <2>1
<1>. QED
  BY <1>1

(* What hnd_post_broker makes of the text of a ct.                         *)
LEMMA CtOfText ==
    ASSUME NEW value \in Seq(STRING),
           RestrictedTo(value, Digits) => Decimal(value) < IntMod \div 2
    PROVE  NumberOrBad(value) =
             IF RestrictedTo(value, Digits) /\ Atoi(value) \in 0 .. CtMax THEN Atoi(value)
             ELSE BadCt
<1>1. CASE RestrictedTo(value, Digits)
  <2>1. Decimal(value) \in Nat /\ Atoi(value) = Decimal(value)
    BY <1>1, DecimalIsNat, AtoiOfSmall
  <2>2. CtMax \in Nat
    BY LinkTextAssumption
  <2>. HIDE DEF Decimal, Atoi
  <2>3. Atoi(value) \in 0 .. CtMax <=> Decimal(value) <= CtMax
    BY <2>1, <2>2
  <2>. QED
    BY <1>1, <2>1, <2>3 DEF NumberOrBad
<1>2. CASE ~ RestrictedTo(value, Digits)
  BY <1>2 DEF NumberOrBad
<1>. QED
  BY <1>1, <1>2

(* The ct that the broker reads is the one that LinkFormat says.           *)
LEMMA CtOf ==
    ASSUME TypeInv, NoComma, Count(str) >= 2, Registered(Count(str)), CtFits
    PROVE  CtOfResource = CtAttribute(LinkOf(str))
<1>. DEFINE link == LinkOf(str)
            N == Count(str)
            attrs == resource.link_attr
            ct == <<"c", "t">>
            k == FindAttr(ct)
            cts == {i \in DOMAIN link : link[i].kind = "ct"}
            pick == CHOOSE i \in cts : \A j \in cts : j <= i
<1>1. /\ N \in Nat /\ N >= 2 /\ Len(link) = N /\ DOMAIN link = 1 .. N
      /\ \A i \in 1 .. N : Chunk(i) \in Seq(STRING) /\ link[i] = ChunkOf(Chunk(i))
  BY LinkIs DEF TypeInv, Chunk
<1>2. /\ ParsePath(Chunk(1)) /\ Len(attrs) = N - 1
      /\ \A i \in 2 .. N : ParseOption(Chunk(i)).ok /\ attrs[N + 1 - i] = OptionOf(Chunk(i))
  BY DEF Registered
<1>3. CtAttribute(link) = IF cts = {} THEN NoCt ELSE link[pick].ct
  BY DEF CtAttribute
<1>4. CtOfResource =
        IF k = 0 THEN NoCt
        ELSE IF RestrictedTo(attrs[k].value, Digits) /\ Atoi(attrs[k].value) \in 0 .. CtMax
             THEN Atoi(attrs[k].value) ELSE BadCt
  BY DEF CtOfResource
<1>5. k # 0 /\ RestrictedTo(attrs[k].value, Digits) => Decimal(attrs[k].value) < IntMod \div 2
  BY DEF CtFits
<1>6. \/ k = 0 /\ \A i \in 1 .. Len(attrs) : attrs[i].name # ct
      \/ /\ k \in 1 .. Len(attrs) /\ attrs[k].name = ct
         /\ \A i \in 1 .. Len(attrs) : attrs[i].name = ct => k <= i
  BY FindAttrFinds
<1>. HIDE DEF link, N, k, attrs
<1>7. \A i \in 1 .. N : link[i].kind # "comma"
  <2>1. \A i \in 1 .. N : ~ \E j \in DOMAIN Chunk(i) : Chunk(i)[j] = Comma
    BY CommaOfChunks DEF N
  <2>. QED
    BY <1>1, <2>1, KindIs
<1>. HIDE DEF ct
<1>8. 1 \in 1 .. N /\ link[1].kind # "ct"
  <2>1. 1 \in 1 .. N
    BY <1>1
  <2>2. link[1].kind = "path"
    BY <1>1, <1>2, <1>7, <2>1, KindIs
  <2>. QED
    BY <2>1, <2>2
<1>9. ASSUME NEW i \in 2 .. N
      PROVE  /\ i \in 1 .. N /\ N + 1 - i \in 1 .. Len(attrs)
             /\ link[i].kind = "ct" <=> attrs[N + 1 - i].name = ct
             /\ link[i].kind = "ct" => link[i].ct = NumberOrBad(attrs[N + 1 - i].value)
             /\ attrs[N + 1 - i].value \in Seq(STRING)
  <2>1. i \in 1 .. N /\ N + 1 - i \in 1 .. Len(attrs)
    BY <1>1, <1>2
  <2>2. /\ ParseOption(Chunk(i)).ok /\ attrs[N + 1 - i] = OptionOf(Chunk(i))
        /\ Chunk(i) \in Seq(STRING) /\ link[i] = ChunkOf(Chunk(i)) /\ link[i].kind # "comma"
    BY <1>1, <1>2, <1>7, <2>1
  <2>3. /\ attrs[N + 1 - i].name = ParseOption(Chunk(i)).name
        /\ attrs[N + 1 - i].value = ParseOption(Chunk(i)).value
    BY <2>2 DEF OptionOf
  <2>4. /\ link[i].kind = "ct" <=> ParseOption(Chunk(i)).name = ct
        /\ link[i].kind = "ct" => link[i].ct = NumberOrBad(ParseOption(Chunk(i)).value)
    BY <2>2, KindIs DEF ct
  <2>5. ParseOption(Chunk(i)).value \in Seq(STRING)
    BY <2>2, AttributeOfOption
  <2>. QED
    BY <2>1, <2>3, <2>4, <2>5
<1>10. CASE k = 0
  <2>1. \A i \in 1 .. Len(attrs) : attrs[i].name # ct
    BY <1>1, <1>2, <1>6, <1>10
  <2>2. \A i \in 1 .. N : i = 1 \/ i \in 2 .. N
    BY <1>1
  <2>3. cts = {}
    BY <1>1, <1>8, <1>9, <2>1, <2>2
  <2>. QED
    BY <1>3, <1>4, <1>10, <2>3 DEF link
<1>11. CASE k # 0
  <2>. DEFINE m == N + 1 - k
  <2>1. /\ k \in 1 .. Len(attrs) /\ attrs[k].name = ct
        /\ \A i \in 1 .. Len(attrs) : attrs[i].name = ct => k <= i
    BY <1>6, <1>11
  <2>2. m \in 2 .. N /\ m \in 1 .. N /\ N + 1 - m = k /\ k \in Nat
    BY <1>1, <1>2, <2>1
  <2>. HIDE DEF m
  <2>3. /\ link[m].kind = "ct" /\ link[m].ct = NumberOrBad(attrs[k].value)
        /\ attrs[k].value \in Seq(STRING)
    BY <1>9, <2>1, <2>2
  <2>4. m \in cts /\ cts \in SUBSET (1 .. N)
    BY <1>1, <2>2, <2>3
  <2>5. ASSUME NEW i \in cts  PROVE i <= m
    <3>1. i \in 1 .. N /\ i # 1 /\ link[i].kind = "ct"
      BY <1>1, <1>8
    <3>2. i \in 2 .. N /\ i \in Nat
      BY <1>1, <3>1
    <3>3. N + 1 - i \in 1 .. Len(attrs) /\ attrs[N + 1 - i].name = ct
      BY <1>9, <3>1, <3>2
    <3>4. k <= N + 1 - i
      BY <2>1, <3>3
    <3>. QED
      BY <1>1, <2>2, <3>2, <3>4
  <2>6. pick = m /\ cts # {}
    <3>. HIDE DEF cts
    <3>. QED
      BY <1>1, <2>4, <2>5, GreatestIs
  <2>7. CtAttribute(link) = NumberOrBad(attrs[k].value)
    BY <1>3, <2>3, <2>6
  <2>8. CtOfResource = NumberOrBad(attrs[k].value)
    BY <1>4, <1>5, <1>11, <2>3, CtOfText
  <2>. QED
    BY <2>7, <2>8 DEF link
<1>. QED
  BY <1>10, <1>11

(* parseLinkFormat accepts, makes, frees and registers what LinkFormat     *)
(* says of the chunks of the text: for every text, whatever its length and *)
(* its characters, the broker may work with the grammar instead of the     *)
(* loop over semicolons.                                                   *)
THEOREM ParserMatchesGrammar == Spec => []MatchesGrammar
<1>1. LoopInv => MatchesGrammar
  <2>. DEFINE link == LinkOf(str)
              N == Count(str)
  <2>. SUFFICES ASSUME LoopInv, at = "returned"
                PROVE  /\ resource.is = ParseLinkFormat(link)
                       /\ status = (IF ParseLinkFormat(link) = "made" THEN 1 ELSE 0)
                       /\ status = 1 =>
                             /\ resource.uri = Parent \o <<"/">> \o link[1].path
                             /\ CtFits => CtOfResource = CtAttribute(link)
    BY DEF MatchesGrammar
  <2>1. TypeInv
    BY DEF LoopInv
  <2>2. /\ ~ NoComma \/ N < 2 \/ ~ ParsePath(Chunk(1)) => ParseLinkFormat(link) = "null"
        /\ NoComma /\ N >= 2 /\ ParsePath(Chunk(1)) =>
              ParseLinkFormat(link) = IF \A i \in 2 .. N : ParseOption(Chunk(i)).ok
                                      THEN "made" ELSE "freed"
    BY <2>1, GrammarSays
  <2>3. /\ N \in Nat /\ DOMAIN link = 1 .. N
        /\ \A i \in 1 .. N : Chunk(i) \in Seq(STRING) /\ link[i] = ChunkOf(Chunk(i))
    BY <2>1, LinkIs DEF TypeInv, Chunk
  <2>. DEFINE null == /\ status = 0 /\ resource.is = "null"
                      /\ ~ NoComma \/ N < 2 \/ ~ ParsePath(Chunk(1))
              freed == /\ status = 0 /\ resource.is = "freed"
                       /\ NoComma /\ ParsePath(Chunk(1))
                       /\ \E i \in 2 .. N : ~ ParseOption(Chunk(i)).ok
              made == status = 1 /\ NoComma /\ N >= 2 /\ Registered(N)
  <2>4. null \/ freed \/ made
    BY DEF LoopInv, AtReturned
  <2>. HIDE DEF link, N
  <2>5. CASE null
    BY <2>2, <2>5
  <2>6. CASE freed
    <3>1. N >= 2
      BY <2>3, <2>6
    <3>2. ParseLinkFormat(link) = "freed"
      BY <2>2, <2>6, <3>1
    <3>. QED
      BY <2>6, <3>2
  <2>7. CASE made
    <3>1. /\ resource.is = "made" /\ ParsePath(Chunk(1))
          /\ resource.uri = Parent \o <<"/">> \o SubSeq(Chunk(1), 2, Len(Chunk(1)) - 1)
          /\ \A i \in 2 .. N : ParseOption(Chunk(i)).ok
      BY <2>7 DEF Registered
    <3>2. ParseLinkFormat(link) = "made"
      BY <2>2, <2>7, <3>1
    <3>3. link[1].path = SubSeq(Chunk(1), 2, Len(Chunk(1)) - 1)
      <4>1. 1 \in 1 .. N
        BY <2>3, <2>7
      <4>2. ~ \E j \in DOMAIN Chunk(1) : Chunk(1)[j] = Comma
        BY <2>1, <2>7, <4>1, CommaOfChunks DEF N
      <4>. QED
        BY <2>3, <3>1, <4>1, <4>2, KindIs
    <3>4. CtFits => CtOfResource = CtAttribute(link)
      BY <2>1, <2>7, CtOf DEF link, N
    <3>. QED
      BY <2>7, <3>1, <3>2, <3>3, <3>4
  <2>. QED
    BY <2>4, <2>5, <2>6, <2>7
<1>. QED
  BY <1>1, LoopInvariant, PTL
===============================================================================
