--------------------------- MODULE TopicListProofs ---------------------------
(***************************************************************************)
(* Proofs about TopicList, for any number of topics and of nodes: the      *)
(* types, that the list stays intact, that locks are given back, that main *)
(* never uses a freed node, that walks find what stays, and that the steps *)
(* on the list are the operations of TopicDB.                              *)
(***************************************************************************)
EXTENDS TopicList, FiniteSetTheorems, TLAPS

(* The list h of the nodes f has the nodes L: they can be numbered so that *)
(* the first is h, each points to the next one and the last points to Null.*)
IsList(L, h, f) ==
    \E n \in 0 .. Cardinality(Cells) : \E s \in [1 .. n -> Cells] :
        /\ L = {s[i] : i \in 1 .. n}
        /\ h = IF n = 0 THEN Null ELSE s[1]
        /\ \A i \in 1 .. n : f[s[i]] # Null /\ f[s[i]].next = IF i = n THEN Null ELSE s[i + 1]
        /\ \A i, j \in 1 .. n : s[i] = s[j] => i = j

(* Every node of f is in the list or is about to be freed by main, whose   *)
(* registers are r; no two nodes have one path, and none points to a node  *)
(* outside the list.                                                       *)
Nodes(L, h, f, r) ==
    /\ IsList(L, h, f)
    /\ \A c \in Cells \ L : f[c] # Null => r.pc = "free" /\ r.cur = c
    /\ \A c, d \in Cells : f[c] # Null /\ f[d] # Null /\ f[c].path = f[d].path => c = d
    /\ \A c \in Cells : f[c] # Null => f[c].next \in L \cup {Null}

Monitors == {"data_monitor", "topic_monitor"}

(* Where thread t can be in which call and walk.                           *)
Role(t, r) ==
    /\ r.pc \in WalkPcs => r.goal # "none"
    /\ r.pc \in {"clone", "copy"} => r.goal = "clone"
    /\ r.pc = "read" => r.goal \in {"info", "topic"}
    /\ r.pc = "pass" => r.goal = "info"
    /\ r.pc \in {"rlock", "dlock", "free_data", "assign"} => r.goal \in {"set", "drop"}
    /\ r.pc = "wlock_prev" => r.goal \in {"delete", "last"}
    /\ r.pc \in {"wlock_cur", "unlink", "free"} => r.goal = "delete"
    /\ r.pc = "link" => r.goal = "last"
    /\ r.pc \in {"mlock", "mdlock", "look"} => r.goal = "none" /\ r.call \in Monitors
    /\ r.pc \notin {"idle", "mlock", "mdlock", "look"} => r.path \in Topics
    /\ r.goal \in {"exists", "last", "info"} => r.call \in {"add", "renew"}
    /\ r.goal = "topic" => r.call = "put"
    /\ r.goal = "set" => r.call \in {"put", "add", "renew"}
    /\ r.pc \in {"enter", "head"} => r.prev = Null /\ r.cur = Null
    /\ r.pc \in {"pass", "assign"} => r.data \in Data /\ r.from = Null
    /\ t = Mqtt => /\ r.goal \in {"none", "clone", "topic", "set"}
                   /\ r.pc \notin {"mlock", "mdlock", "look"}
                   /\ r.next = Null

(* A thread's node exists, and is the one that its walk has found.         *)
Landed == {"clone", "copy", "read", "pass", "rlock", "dlock", "free_data", "assign", "wlock_cur",
           "unlink", "free"}
Stands(r, f) ==
    r.cur \in Cells =>
        /\ f[r.cur] # Null
        /\ r.pc \in Landed \/ (r.pc = "wlock_prev" /\ r.goal = "delete") => f[r.cur].path = r.path

(* Main's place: its node is in the list, prev is the one before it.       *)
IsPrev(prev, c, L, h, f) == IF prev = Null THEN c = h ELSE prev \in L /\ f[prev].next = c
MainAt(r, L, h, f) ==
    /\ r.pc = "head" => h # Null
    /\ r.pc \in UsesNode \cup {"wlock_cur", "unlink"} => r.cur \in L
    /\ r.pc = "wlock_prev" => r.prev # Null /\ (r.goal = "delete" => r.cur \in L)
    /\ r.goal \in {"delete", "last"} /\
       r.pc \in {"lock", "test", "wlock_prev", "wlock_cur", "link", "unlink"} =>
            IsPrev(r.prev, r.cur, L, h, f)
    /\ r.pc \in {"lock", "test"} /\ r.prev = Null => r.cur = h
    /\ r.goal = "last" => \A c \in L : f[c].path # r.path
    /\ r.goal = "last" /\ r.pc \in {"wlock_prev", "link"} => r.cur = Null
    /\ r.pc = "free" => r.cur \in Cells \ L
    /\ r.pc \in {"mdlock", "look"} => r.next = f[r.cur].next
    /\ r.next \in L \cup {Null}
    /\ r.goal = "delete" /\ r.pc # "free" /\ r.next # Null => f[r.next].path # r.path

(* What a walk has seen (sn).                                              *)
Listed(L, f, p) == \E c \in L : f[c].path = p
Closed(T, f) == \A c \in T : f[c] # Null /\ f[c].next \in Cells => f[c].next \in T
Ahead(c, p, f) ==
    \A T \in SUBSET Cells :
        c \in T /\ Closed(T, f) => \E d \in T : f[d] # Null /\ f[d].path = p
Sees(t, r, sn, L, f) ==
    r.pc \in WalkPcs =>
        /\ IF Listed(L, f, r.path) THEN TRUE \in sn ELSE FALSE \in sn
        /\ t = Main => IF Listed(L, f, r.path) THEN FALSE \notin sn ELSE TRUE \notin sn
        /\ r.pc \in {"lock", "test"} /\ r.cur \in Cells =>
             /\ f[r.cur].path = r.path => TRUE \in sn
             /\ FALSE \notin sn => Ahead(r.cur, r.path, f)

(* Who holds a lock of node c.                                             *)
ReadsNode(r, c) ==
    /\ r.cur = c
    /\ r.pc \in {"test", "clone", "copy", "dlock", "free_data", "assign", "mdlock", "look"}
WritesNode(t, r, c) ==
    /\ t = Main
    /\ \/ r.prev = c /\ r.pc \in {"wlock_cur", "unlink", "link"}
       \/ r.cur = c /\ r.pc = "unlink"
ReadsData(r, c) == r.cur = c /\ r.pc = "look"
WritesData(r, c) == r.cur = c /\ r.pc \in {"free_data", "assign"}
Holds(nl, dl, rs) ==
    \A c \in Cells, t \in Threads :
        /\ t \in nl[c].readers => ReadsNode(rs[t], c)
        /\ t \in nl[c].writers => WritesNode(t, rs[t], c)
        /\ t \in dl[c].readers => ReadsData(rs[t], c)
        /\ t \in dl[c].writers => WritesData(rs[t], c)

(* What an update has read is what the node still has.                     *)
FreshIn(r, n) ==
    /\ r.pc = "pass" => r.data = n.data
    /\ r.goal = "set" => IF r.call = "put" THEN r.topic_ma = n.topic_ma
                         ELSE r.data_ma = n.data_ma /\ r.data \in {n.data, Dangling}
Fresh(r, L, f) == ~r.raced => \A c \in L : f[c].path = r.path => FreshIn(r, f[c])

NodesInv == Nodes(Linked(head, cell), head, cell, reg[Main])
RoleInv == \A t \in Threads : Role(t, reg[t])
StandsInv == \A t \in Threads : Stands(reg[t], cell)
MainInv == MainAt(reg[Main], Linked(head, cell), head, cell)
SeesInv == \A t \in Threads : Sees(t, reg[t], seen[t], Linked(head, cell), cell)
LockInv == Holds(nodeLock, dataLock, reg)
FreshInv == \A t \in Threads : Fresh(reg[t], Linked(head, cell), cell)

TopicInv ==
    TypeOK /\ NodesInv /\ RoleInv /\ StandsInv /\ MainInv /\ SeesInv
-------------------------------------------------------------------------------
(* Lists.                                                                  *)

LEMMA LeastElement ==
    ASSUME NEW E \in SUBSET Nat, E # {}
    PROVE  \E x \in E : \A y \in E : x <= y
<1>1. IsWellFoundedOn(OpToRel(<, Nat), Nat)
  BY NatLessThanWellFounded
<1>2. PICK x \in E : \A y \in E : ~(<<y, x>> \in OpToRel(<, Nat))
  BY <1>1, WFMin
<1>3. \A y \in E : ~(y < x)
  BY <1>2 DEF OpToRel
<1> QED
  BY <1>3

IsChain(g, h, f) ==
    g = [i \in 0 .. Cardinality(Cells) |->
            IF i = 0 THEN h
            ELSE IF g[i - 1] = Null THEN Null
            ELSE IF f[g[i - 1]] = Null THEN Null
            ELSE f[g[i - 1]].next]

LEMMA ChainIsChosen ==
    ASSUME NEW h, NEW f, NEW g, IsChain(g, h, f)
    PROVE  IsChain(Chain(h, f), h, f)
<1>1. Chain(h, f) = CHOOSE x : IsChain(x, h, f)
  BY Zenon DEF Chain, IsChain
<1> QED
  BY <1>1, Zenon

LEMMA CellsFinite == Cardinality(Cells) \in Nat
BY ListAssumption, FS_CardinalityType

LEMMA ChainUnique ==
    ASSUME NEW h, NEW f, NEW g, NEW g2, IsChain(g, h, f), IsChain(g2, h, f)
    PROVE  g = g2
<1> DEFINE N == Cardinality(Cells)
           E == {i \in 0 .. N : g[i] # g2[i]}
<1>1. N \in Nat
  BY CellsFinite
<1>2. CASE E = {}
  <2>1. \A i \in 0 .. N : g[i] = g2[i]
    BY <1>2
  <2>2. g = [i \in 0 .. N |-> g[i]] /\ g2 = [i \in 0 .. N |-> g2[i]]
    BY DEF IsChain
  <2> QED
    BY <2>1, <2>2
<1>3. CASE E # {}
  <2>0. E \in SUBSET Nat
    BY <1>1
  <2> HIDE DEF E
  <2>1. PICK i \in E : \A j \in E : i <= j
    BY <1>3, <2>0, LeastElement
  <2> USE DEF E
  <2>2. CASE i = 0
    BY <1>1, <2>1, <2>2 DEF IsChain
  <2>3. CASE i # 0
    <3>1. i - 1 \in 0 .. N /\ i - 1 \notin E
      BY <1>1, <2>1, <2>3
    <3>2. g[i - 1] = g2[i - 1]
      BY <3>1
    <3>3. g[i] = g2[i]
      BY <1>1, <2>1, <2>3, <3>2 DEF IsChain
    <3> QED
      BY <2>1, <3>3
  <2> QED
    BY <2>2, <2>3
<1> QED
  BY <1>2, <1>3

(* The numbering s of the n nodes of a list.                               *)
Numbers(n, s, L, h, f) ==
    /\ n \in 0 .. Cardinality(Cells) /\ s \in [1 .. n -> Cells]
    /\ L = {s[i] : i \in 1 .. n}
    /\ h = IF n = 0 THEN Null ELSE s[1]
    /\ \A i \in 1 .. n : f[s[i]] # Null /\ f[s[i]].next = IF i = n THEN Null ELSE s[i + 1]
    /\ \A i, j \in 1 .. n : s[i] = s[j] => i = j

LEMMA ListNumbers ==
    ASSUME NEW L, NEW h, NEW f
    PROVE  IsList(L, h, f) <=> \E n, s : Numbers(n, s, L, h, f)
BY DEF IsList, Numbers

(* The chain of a list runs through all its nodes to Null.                 *)
LEMMA ListChain ==
    ASSUME NEW L, NEW h, NEW f, IsList(L, h, f)
    PROVE  /\ Linked(h, f) = L
           /\ Chain(h, f)[Cardinality(Cells)] = Null
<1> DEFINE N == Cardinality(Cells)
<1>0. N \in Nat /\ Null \notin Cells
  BY CellsFinite, ListAssumption
<1>1. PICK n, s : Numbers(n, s, L, h, f)
  BY ListNumbers
<1> DEFINE g == [i \in 0 .. N |-> IF i < n THEN s[i + 1] ELSE Null]
<1>2. n \in Nat /\ n <= N /\ \A i \in 1 .. n : s[i] \in Cells
  BY <1>0, <1>1 DEF Numbers
<1>3. ASSUME NEW i \in 0 .. N
      PROVE  g[i] = IF i = 0 THEN h
                    ELSE IF g[i - 1] = Null THEN Null
                    ELSE IF f[g[i - 1]] = Null THEN Null
                    ELSE f[g[i - 1]].next
  <2>1. CASE i = 0
    BY <1>0, <1>1, <1>2, <2>1 DEF Numbers
  <2>2. CASE i # 0 /\ i <= n
    <3>1. i \in 1 .. n /\ i - 1 \in 0 .. N /\ i - 1 < n /\ (i - 1) + 1 = i
      BY <1>0, <1>2, <2>2
    <3>2. g[i - 1] = s[i]
      BY <3>1
    <3>3. f[s[i]] # Null /\ f[s[i]].next = IF i = n THEN Null ELSE s[i + 1]
      BY <1>1, <3>1 DEF Numbers
    <3>4. g[i] = IF i < n THEN s[i + 1] ELSE Null
      OBVIOUS
    <3>5. i < n <=> i # n
      BY <1>2, <2>2
    <3> QED
      BY <1>0, <1>2, <2>2, <3>1, <3>2, <3>3, <3>4, <3>5
  <2>3. CASE ~(i <= n)
    <3>1. i - 1 \in 0 .. N /\ ~(i - 1 < n) /\ ~(i < n) /\ i # 0
      BY <1>0, <1>2, <2>3
    <3> QED
      BY <3>1
  <2> QED
    BY <2>1, <2>2, <2>3
<1>4. IsChain(g, h, f)
  <2> DEFINE g2 == [i \in 0 .. N |->
                      IF i = 0 THEN h
                      ELSE IF g[i - 1] = Null THEN Null
                      ELSE IF f[g[i - 1]] = Null THEN Null
                      ELSE f[g[i - 1]].next]
  <2>1. g = g2
    BY <1>3
  <2> QED
    BY <2>1 DEF IsChain
<1>5. Chain(h, f) = g
  BY <1>4, ChainIsChosen, ChainUnique
<1>6. {g[i] : i \in 0 .. N} \ {Null} = L
  <2>1. ASSUME NEW c \in L
        PROVE  c \in {g[i] : i \in 0 .. N} \ {Null}
    <3>1. PICK i \in 1 .. n : c = s[i]
      BY <1>1 DEF Numbers
    <3>2. i - 1 \in 0 .. N /\ g[i - 1] = s[i]
      BY <1>0, <1>2
    <3> QED
      BY <1>0, <1>2, <3>1, <3>2
  <2>2. ASSUME NEW i \in 0 .. N, g[i] # Null
        PROVE  g[i] \in L
    <3>1. i < n /\ g[i] = s[i + 1] /\ i + 1 \in 1 .. n
      BY <1>2, <2>2
    <3> QED
      BY <1>1, <3>1 DEF Numbers
  <2> QED
    BY <2>1, <2>2
<1>7. g[N] = Null
  BY <1>0, <1>2
<1>8. DOMAIN g = 0 .. N
  OBVIOUS
<1> QED
  BY <1>5, <1>6, <1>7, <1>8 DEF Linked

(* What a list says of its nodes.                                          *)
LEMMA ListFacts ==
    ASSUME NEW L, NEW h, NEW f, IsList(L, h, f)
    PROVE  /\ L \subseteq Cells
           /\ h = Null <=> L = {}
           /\ h # Null => h \in L
           /\ \A c \in L : f[c] # Null /\ f[c].next \in L \cup {Null}
           /\ \A c, d \in L : f[c].next = f[d].next => c = d
           /\ \A c \in L : f[c].next # c /\ (h # Null => f[c].next # h)
<1>0. Null \notin Cells
  BY ListAssumption
<1>1. PICK n, s : Numbers(n, s, L, h, f)
  BY ListNumbers
<1>2. n \in Nat /\ \A i \in 1 .. n : s[i] \in Cells /\ s[i] # Null
  BY <1>0, <1>1, CellsFinite DEF Numbers
<1>3. L = {s[i] : i \in 1 .. n} /\ \A i \in 1 .. n : s[i] \in L
  BY <1>1 DEF Numbers
<1>4. h = IF n = 0 THEN Null ELSE s[1]
  BY <1>1 DEF Numbers
<1>5. \A i \in 1 .. n : f[s[i]] # Null /\ f[s[i]].next = IF i = n THEN Null ELSE s[i + 1]
  BY <1>1 DEF Numbers
<1>6. \A i, j \in 1 .. n : s[i] = s[j] => i = j
  BY <1>1 DEF Numbers
<1>7. L \subseteq Cells
  BY <1>2, <1>3
<1>8. (h = Null <=> L = {}) /\ (h # Null => h \in L)
  <2>1. CASE n = 0
    BY <1>3, <1>4, <2>1
  <2>2. CASE n # 0
    <3>1. 1 \in 1 .. n
      BY <1>2, <2>2
    <3> QED
      BY <1>2, <1>3, <1>4, <2>2, <3>1
  <2> QED
    BY <2>1, <2>2
<1>9. ASSUME NEW i \in 1 .. n
      PROVE  /\ f[s[i]] # Null /\ f[s[i]].next \in L \cup {Null}
             /\ f[s[i]].next # s[i] /\ (h # Null => f[s[i]].next # h)
  <2>1. CASE i = n
    BY <1>2, <1>5, <2>1
  <2>2. CASE i # n
    <3>1. i + 1 \in 1 .. n /\ i + 1 # i /\ i + 1 # 1 /\ 1 \in 1 .. n /\ n # 0
      BY <1>2, <2>2
    <3>2. f[s[i]].next = s[i + 1] /\ s[i + 1] # s[i] /\ s[i + 1] # s[1]
      BY <1>5, <1>6, <2>2, <3>1
    <3> QED
      BY <1>3, <1>4, <1>5, <3>1, <3>2
  <2> QED
    BY <2>1, <2>2
<1>10. ASSUME NEW i \in 1 .. n, NEW j \in 1 .. n, f[s[i]].next = f[s[j]].next
       PROVE  s[i] = s[j]
  <2>1. CASE i = n \/ j = n
    <3>1. i = n /\ j = n
      <4>1. CASE i = n /\ j # n
        <5>1. j + 1 \in 1 .. n
          BY <1>2, <4>1
        <5> QED
          BY <1>2, <1>5, <1>10, <4>1, <5>1
      <4>2. CASE i # n /\ j = n
        <5>1. i + 1 \in 1 .. n
          BY <1>2, <4>2
        <5> QED
          BY <1>2, <1>5, <1>10, <4>2, <5>1
      <4> QED
        BY <2>1, <4>1, <4>2
    <3> QED
      BY <3>1
  <2>2. CASE i # n /\ j # n
    <3>1. i + 1 \in 1 .. n /\ j + 1 \in 1 .. n
      BY <1>2, <2>2
    <3>2. i + 1 = j + 1
      BY <1>5, <1>6, <1>10, <2>2, <3>1
    <3> QED
      BY <1>2, <3>2
  <2> QED
    BY <2>1, <2>2
<1>11. ASSUME NEW c \in L
       PROVE  /\ f[c] # Null /\ f[c].next \in L \cup {Null}
              /\ f[c].next # c /\ (h # Null => f[c].next # h)
  <2>1. PICK i \in 1 .. n : c = s[i]
    BY <1>3
  <2> QED
    BY <1>9, <2>1
<1>12. ASSUME NEW c \in L, NEW d \in L, f[c].next = f[d].next
       PROVE  c = d
  <2>1. PICK i \in 1 .. n, j \in 1 .. n : c = s[i] /\ d = s[j]
    BY <1>3
  <2> QED
    BY <1>10, <1>12, <2>1
<1> QED
  BY <1>7, <1>8, <1>11, <1>12

(* Whoever goes on from the head meets every node of the list.             *)
LEMMA ListReached ==
    ASSUME NEW L, NEW h, NEW f, IsList(L, h, f),
           NEW T \in SUBSET Cells, h \in T, Closed(T, f)
    PROVE  L \subseteq T
<1>0. Null \notin Cells
  BY ListAssumption
<1>1. PICK n, s : Numbers(n, s, L, h, f)
  BY ListNumbers
<1>2. n \in Nat /\ \A i \in 1 .. n : s[i] \in Cells
  BY <1>1, CellsFinite DEF Numbers
<1>3. L = {s[i] : i \in 1 .. n} /\ h = IF n = 0 THEN Null ELSE s[1]
  BY <1>1 DEF Numbers
<1>4. \A i \in 1 .. n : f[s[i]] # Null /\ f[s[i]].next = IF i = n THEN Null ELSE s[i + 1]
  BY <1>1 DEF Numbers
<1> DEFINE E == {i \in 1 .. n : s[i] \notin T}
<1>5. CASE E = {}
  BY <1>3, <1>5
<1>6. CASE E # {}
  <2>1. E \in SUBSET Nat
    BY <1>2
  <2> HIDE DEF E
  <2>2. PICK i \in E : \A j \in E : i <= j
    BY <1>6, <2>1, LeastElement
  <2> USE DEF E
  <2>3. i \in 1 .. n /\ s[i] \notin T
    BY <2>2
  <2>4. i # 1
    BY <1>0, <1>2, <1>3, <2>3
  <2>5. i - 1 \in 1 .. n /\ i - 1 # n /\ (i - 1) + 1 = i /\ ~(i <= i - 1)
    BY <1>2, <2>3, <2>4
  <2>6. s[i - 1] \in T
    BY <2>2, <2>5
  <2>7. f[s[i - 1]] # Null /\ f[s[i - 1]].next = s[i]
    BY <1>4, <2>5
  <2>8. s[i] \in T
    BY <1>2, <2>3, <2>6, <2>7 DEF Closed
  <2> QED
    BY <2>3, <2>8
<1> QED
  BY <1>5, <1>6

(* The links of the nodes alone make the list.                             *)
LEMMA ListSame ==
    ASSUME NEW L, NEW h, NEW f, IsList(L, h, f),
           NEW f2, \A c \in L : f2[c] # Null /\ f2[c].next = f[c].next
    PROVE  IsList(L, h, f2)
<1>1. PICK n, s : Numbers(n, s, L, h, f)
  BY ListNumbers
<1>2. Numbers(n, s, L, h, f2)
  BY <1>1 DEF Numbers
<1> QED
  BY <1>2, ListNumbers

(* The list h2 of f2 differs from h of f in what comes after prev only.    *)
Relinked(prev, c, L, h, f, h2, f2) ==
    /\ h2 = IF prev = Null THEN c ELSE h
    /\ prev # Null => f2[prev] # Null /\ f2[prev].next = c
    /\ \A d \in L : d # prev => f2[d] = f[d]

LEMMA ListAppend ==
    ASSUME NEW L, NEW h, NEW f, IsList(L, h, f),
           NEW prev, IsPrev(prev, Null, L, h, f),
           NEW c \in Cells, c \notin L,
           NEW h2, NEW f2, Relinked(prev, c, L, h, f, h2, f2),
           f2[c] # Null, f2[c].next = Null
    PROVE  IsList(L \cup {c}, h2, f2)
<1>0. Null \notin Cells
  BY ListAssumption
<1>1. PICK n, s : Numbers(n, s, L, h, f)
  BY ListNumbers
<1>2. n \in Nat /\ n <= Cardinality(Cells) /\ \A i \in 1 .. n : s[i] \in Cells /\ s[i] # Null
  BY <1>0, <1>1, CellsFinite DEF Numbers
<1>3. L = {s[i] : i \in 1 .. n} /\ h = IF n = 0 THEN Null ELSE s[1]
  BY <1>1 DEF Numbers
<1>4. \A i \in 1 .. n : f[s[i]] # Null /\ f[s[i]].next = IF i = n THEN Null ELSE s[i + 1]
  BY <1>1 DEF Numbers
<1>5. \A i, j \in 1 .. n : s[i] = s[j] => i = j
  BY <1>1 DEF Numbers
<1> DEFINE m == n + 1
           z == [i \in 1 .. m |-> IF i = m THEN c ELSE s[i]]
<1>6. m \in Nat /\ m # 0 /\ m \in 1 .. m /\ \A i \in 1 .. m : i = m \/ (i \in 1 .. n /\ i # m)
  BY <1>2
<1>7. z[m] = c /\ \A i \in 1 .. n : z[i] = s[i] /\ i \in 1 .. m /\ i # m
  BY <1>2
<1>8. z \in [1 .. m -> Cells]
  BY <1>2, <1>6
<1>9. L \cup {c} = {z[i] : i \in 1 .. m}
  BY <1>3, <1>6, <1>7
<1>10. \A i, j \in 1 .. m : z[i] = z[j] => i = j
  BY <1>3, <1>5, <1>6, <1>7
<1>11. m <= Cardinality(Cells)
  <2>1. SUFFICES ASSUME ~(m <= Cardinality(Cells)) PROVE FALSE
    OBVIOUS
  <2>2. IsFiniteSet(1 .. m) /\ Cardinality(1 .. m) = m
    <3>1. Cardinality(1 .. m) = IF 1 > m THEN 0 ELSE m - 1 + 1
      BY <1>6, FS_Interval
    <3>2. IsFiniteSet(1 .. m)
      BY <1>6, FS_Interval
    <3> QED
      BY <1>2, <3>1, <3>2
  <2>3. Cardinality(Cells) < Cardinality(1 .. m)
    BY <1>6, <2>1, <2>2, CellsFinite
  <2> DEFINE S == 1 .. m
  <2>5. IsFiniteSet(Cells) /\ IsFiniteSet(S) /\ Cardinality(Cells) < Cardinality(S)
        /\ z \in [S -> Cells]
    BY <1>8, <2>2, <2>3, ListAssumption
  <2> HIDE DEF m, z, S
  <2>6. \E i, j \in S : i # j /\ z[i] = z[j]
    BY <2>5, FS_PigeonHole
  <2>4. \E i, j \in 1 .. m : i # j /\ z[i] = z[j]
    BY <2>6 DEF S
  <2> QED
    BY <1>10, <2>4
<1>12. h2 = z[1]
  <2>1. CASE n = 0
    <3>1. h = Null /\ prev = Null
      BY <1>3, <2>1 DEF IsPrev
    <3>2. h2 = c /\ m = 1
      BY <2>1, <3>1 DEF Relinked
    <3> QED
      BY <1>7, <3>2
  <2>2. CASE n # 0
    <3>1. 1 \in 1 .. n /\ h = s[1]
      BY <1>2, <1>3, <2>2
    <3>2. prev # Null
      BY <1>2, <3>1 DEF IsPrev
    <3> QED
      BY <1>7, <3>1, <3>2 DEF Relinked
  <2> QED
    BY <2>1, <2>2
<1>13. ASSUME NEW i \in 1 .. m
       PROVE  f2[z[i]] # Null /\ f2[z[i]].next = IF i = m THEN Null ELSE z[i + 1]
  <2>1. CASE i = m
    BY <1>7, <2>1
  <2>2. CASE i = n /\ i \in 1 .. n
    <3>1. z[i] = s[n] /\ i # m /\ z[i + 1] = c /\ s[n] \in L /\ n # 0
      BY <1>2, <1>3, <1>7, <2>2
    <3>2. f[s[n]].next = Null
      BY <1>4, <2>2
    <3>3. prev # Null
      <4>1. 1 \in 1 .. n /\ h = s[1]
        BY <1>2, <1>3, <3>1
      <4> QED
        BY <1>2, <4>1 DEF IsPrev
    <3>4. prev \in L /\ f[prev].next = Null
      BY <3>3 DEF IsPrev
    <3>5. prev = s[n]
      BY <3>1, <3>2, <3>4, ListFacts
    <3> QED
      BY <3>1, <3>3, <3>5 DEF Relinked
  <2>3. CASE i \in 1 .. n /\ i # n
    <3>1. i + 1 \in 1 .. n
      BY <1>2, <2>3
    <3>2. z[i] = s[i] /\ i # m /\ z[i + 1] = s[i + 1] /\ s[i] \in L /\ s[i + 1] # Null
      BY <1>2, <1>3, <1>7, <2>3, <3>1
    <3>3. f[s[i]] # Null /\ f[s[i]].next = s[i + 1]
      BY <1>4, <2>3
    <3>4. prev # s[i]
      BY <1>2, <2>3, <3>2, <3>3 DEF IsPrev
    <3> QED
      BY <3>2, <3>3, <3>4 DEF Relinked
  <2> QED
    BY <1>6, <2>1, <2>2, <2>3
<1>14. m \in 0 .. Cardinality(Cells)
  BY <1>6, <1>11, CellsFinite
<1>15. h2 = IF m = 0 THEN Null ELSE z[1]
  BY <1>6, <1>12
<1> HIDE DEF m, z
<1>16. Numbers(m, z, L \cup {c}, h2, f2)
  BY <1>8, <1>9, <1>10, <1>13, <1>14, <1>15 DEF Numbers
<1> QED
  BY <1>16, ListNumbers

LEMMA ListRemove ==
    ASSUME NEW L, NEW h, NEW f, IsList(L, h, f),
           NEW prev, NEW c \in L, IsPrev(prev, c, L, h, f),
           NEW h2, NEW f2, Relinked(prev, f[c].next, L, h, f, h2, f2)
    PROVE  IsList(L \ {c}, h2, f2)
<1>0. Null \notin Cells
  BY ListAssumption
<1>1. PICK n, s : Numbers(n, s, L, h, f)
  BY ListNumbers
<1>2. n \in Nat /\ n <= Cardinality(Cells) /\ \A i \in 1 .. n : s[i] \in Cells /\ s[i] # Null
  BY <1>0, <1>1, CellsFinite DEF Numbers
<1>3. L = {s[i] : i \in 1 .. n} /\ h = IF n = 0 THEN Null ELSE s[1]
  BY <1>1 DEF Numbers
<1>4. \A i \in 1 .. n : f[s[i]] # Null /\ f[s[i]].next = IF i = n THEN Null ELSE s[i + 1]
  BY <1>1 DEF Numbers
<1>5. \A i, j \in 1 .. n : s[i] = s[j] => i = j
  BY <1>1 DEF Numbers
<1>6. PICK k \in 1 .. n : c = s[k]
  BY <1>3
<1> DEFINE m == n - 1
           z == [i \in 1 .. m |-> IF i < k THEN s[i] ELSE s[i + 1]]
<1>7. n # 0 /\ k \in Nat /\ m \in 0 .. Cardinality(Cells) /\ k <= n /\ 1 <= k
  BY <1>2, <1>6, CellsFinite
<1>8. \A i \in 1 .. m : i \in 1 .. n /\ i + 1 \in 1 .. n /\ z[i] = IF i < k THEN s[i] ELSE s[i + 1]
  BY <1>2
<1>9. z \in [1 .. m -> Cells]
  BY <1>2, <1>8
<1>10. L \ {c} = {z[i] : i \in 1 .. m}
  <2>1. ASSUME NEW d \in L \ {c}
        PROVE  \E i \in 1 .. m : d = z[i]
    <3>1. PICK i \in 1 .. n : d = s[i] /\ i # k
      BY <1>3, <1>6
    <3>2. CASE i < k
      <4>1. i \in 1 .. m
        BY <1>2, <1>7, <3>2
      <4> QED
        BY <1>8, <3>1, <3>2, <4>1
    <3>3. CASE ~(i < k)
      <4>1. i - 1 \in 1 .. m /\ ~(i - 1 < k) /\ (i - 1) + 1 = i
        BY <1>2, <1>7, <3>1, <3>3
      <4>2. z[i - 1] = s[i]
        BY <1>8, <4>1
      <4> QED
        BY <3>1, <4>1, <4>2
    <3> QED
      BY <3>2, <3>3
  <2>2. ASSUME NEW i \in 1 .. m
        PROVE  z[i] \in L \ {c}
    <3>1. i < k => i # k
      BY <1>2, <1>7
    <3>2. ~(i < k) => i + 1 # k
      BY <1>2, <1>7
    <3> QED
      BY <1>3, <1>5, <1>6, <1>8, <3>1, <3>2
  <2> QED
    BY <2>1, <2>2
<1>11. ASSUME NEW i \in 1 .. m, NEW j \in 1 .. m, z[i] = z[j]
       PROVE  i = j
  <2> DEFINE a == IF i < k THEN i ELSE i + 1
             b == IF j < k THEN j ELSE j + 1
  <2>1. a \in 1 .. n /\ b \in 1 .. n /\ z[i] = s[a] /\ z[j] = s[b]
    BY <1>8
  <2>2. a = b
    BY <1>5, <1>11, <2>1
  <2> QED
    BY <1>2, <1>7, <2>2
<1>12. \A i \in 1 .. n : i # k => (IsPrev(prev, c, L, h, f) => (s[i] = prev <=> i + 1 = k))
  <2>1. SUFFICES ASSUME NEW i \in 1 .. n, i # k
                 PROVE  s[i] = prev <=> i + 1 = k
    OBVIOUS
  <2>2. ASSUME s[i] = prev
        PROVE  i + 1 = k
    <3>1. f[s[i]].next = s[k] /\ s[k] # Null
      BY <1>2, <1>6, <2>2 DEF IsPrev
    <3>2. i # n /\ s[i + 1] = s[k]
      BY <1>4, <3>1
    <3>3. i + 1 \in 1 .. n
      BY <1>2, <3>2
    <3> QED
      BY <1>5, <3>2, <3>3
  <2>3. ASSUME i + 1 = k
        PROVE  s[i] = prev
    <3>1. i # n /\ k # 1 /\ 1 \in 1 .. n
      BY <1>2, <1>7, <2>3
    <3>2. f[s[i]].next = c /\ s[i] \in L
      BY <1>3, <1>4, <1>6, <2>3, <3>1
    <3>3. h = s[1] /\ s[1] # s[k]
      BY <1>3, <1>5, <1>7, <3>1
    <3>4. prev \in L /\ f[prev].next = c
      BY <1>6, <3>3 DEF IsPrev
    <3> QED
      BY <3>2, <3>4, ListFacts
  <2> QED
    BY <2>2, <2>3
<1>13. ASSUME NEW i \in 1 .. n, i # k
       PROVE  /\ f2[s[i]] # Null
              /\ f2[s[i]].next = IF i + 1 = k THEN f[c].next ELSE f[s[i]].next
  <2>1. s[i] = prev <=> i + 1 = k
    BY <1>12, <1>13
  <2>2. s[i] \in L /\ s[i] # Null
    BY <1>2, <1>3
  <2>3. CASE i + 1 = k
    BY <2>1, <2>2, <2>3 DEF Relinked
  <2>4. CASE i + 1 # k
    BY <1>4, <2>1, <2>2, <2>4 DEF Relinked
  <2> QED
    BY <2>3, <2>4
<1>14. f[c].next = IF k = n THEN Null ELSE s[k + 1]
  BY <1>4, <1>6
<1>15. h2 = IF m = 0 THEN Null ELSE z[1]
  <2>1. CASE k = 1
    <3>1. h = c /\ prev = Null
      <4>1. h = c
        BY <1>3, <1>6, <1>7, <2>1
      <4>2. \A d \in L : f[d].next # h
        BY <1>0, <4>1, ListFacts
      <4> QED
        BY <4>1, <4>2 DEF IsPrev
    <3>2. h2 = IF 1 = n THEN Null ELSE s[2]
      BY <1>14, <2>1, <3>1 DEF Relinked
    <3>3. m = 0 <=> 1 = n
      BY <1>2
    <3>4. m # 0 => 1 \in 1 .. m /\ ~(1 < k)
      BY <1>2, <1>7, <2>1
    <3> QED
      BY <1>8, <3>2, <3>3, <3>4
  <2>2. CASE k # 1
    <3>1. m # 0 /\ 1 \in 1 .. m /\ 1 < k /\ 1 \in 1 .. n
      BY <1>2, <1>7, <2>2
    <3>2. z[1] = s[1] /\ h = s[1] /\ s[1] # c
      BY <1>3, <1>5, <1>6, <1>7, <1>8, <2>2, <3>1
    <3> QED
      BY <3>1, <3>2 DEF IsPrev, Relinked
  <2> QED
    BY <2>1, <2>2
<1>16. ASSUME NEW i \in 1 .. m
       PROVE  f2[z[i]] # Null /\ f2[z[i]].next = IF i = m THEN Null ELSE z[i + 1]
  <2>1. i \in Nat /\ i <= m /\ (i # m => i + 1 \in 1 .. m) /\ (i = m <=> i + 1 = n)
    BY <1>2
  <2>2. CASE i + 1 = k
    <3>1. i < k /\ i # k /\ i + 1 \in 1 .. n
      BY <1>2, <1>7, <2>2
    <3>2. z[i] = s[i] /\ f2[s[i]] # Null /\ f2[s[i]].next = f[c].next
      BY <1>8, <1>13, <2>2, <3>1
    <3>3. i # m => z[i + 1] = s[k + 1]
      <4>1. i # m => ~(i + 1 < k) /\ z[i + 1] = s[(i + 1) + 1]
        BY <1>7, <1>8, <2>1, <2>2
      <4> QED
        BY <2>2, <4>1
    <3> QED
      BY <1>14, <2>1, <2>2, <3>2, <3>3
  <2>3. CASE i + 1 < k
    <3>1. i < k /\ i # k /\ i + 1 # k /\ i # n /\ i # m
      BY <1>2, <1>7, <2>3
    <3>2. z[i] = s[i] /\ f2[s[i]] # Null /\ f2[s[i]].next = s[i + 1]
      BY <1>4, <1>8, <1>13, <3>1
    <3>3. z[i + 1] = s[i + 1]
      BY <1>8, <2>1, <2>3, <3>1
    <3> QED
      BY <3>1, <3>2, <3>3
  <2>4. CASE ~(i < k)
    <3>1. i + 1 \in 1 .. n /\ i + 1 # k /\ (i + 1) + 1 # k /\ ~(i + 1 < k)
      BY <1>2, <1>7, <2>4
    <3>2. z[i] = s[i + 1] /\ f2[s[i + 1]] # Null /\ f2[s[i + 1]].next = f[s[i + 1]].next
      BY <1>8, <1>13, <2>4, <3>1
    <3>3. f[s[i + 1]].next = IF i + 1 = n THEN Null ELSE s[(i + 1) + 1]
      BY <1>4, <3>1
    <3>4. i # m => z[i + 1] = s[(i + 1) + 1]
      BY <1>8, <2>1, <3>1
    <3> QED
      BY <2>1, <3>2, <3>3, <3>4
  <2> QED
    BY <1>2, <1>7, <2>2, <2>3, <2>4
<1> HIDE DEF m, z
<1>17. Numbers(m, z, L \ {c}, h2, f2)
  BY <1>7, <1>9, <1>10, <1>11, <1>15, <1>16 DEF Numbers
<1> QED
  BY <1>17, ListNumbers

-------------------------------------------------------------------------------
(* Nodes and the map they are.                                             *)

(* A node as TopicDB has it.                                               *)
AsNode(n) == [data |-> n.data, topic_ma |-> n.topic_ma, data_ma |-> n.data_ma]
NodeOf(L, f, p) == AsNode(f[CHOOSE c \in L : f[c].path = p])

LEMMA MapAt ==
    ASSUME NEW L, NEW h, NEW f, NEW r, Nodes(L, h, f, r)
    PROVE  MapOf(h, f) = [p \in Topics |-> IF Listed(L, f, p) THEN NodeOf(L, f, p) ELSE NoTopic]
<1>1. Linked(h, f) = L /\ \A c \in L : f[c] # Null
  BY ListChain, ListFacts DEF Nodes
<1>2. {c \in Linked(h, f) : f[c] # Null} = L
  BY <1>1
<1>3. MapOf(h, f) = [p \in Topics |->
           IF \A c \in L : f[c].path # p THEN NoTopic ELSE NodeOf(L, f, p)]
  BY <1>2 DEF MapOf, NodeOf, AsNode
<1> QED
  BY <1>3 DEF Listed

LEMMA ExistsListed ==
    ASSUME NEW L, NEW h, NEW f \in [Cells -> Cell \cup {Null}], NEW r, Nodes(L, h, f, r),
           NEW p \in Topics
    PROVE  TopicExist(MapOf(h, f), p) <=> Listed(L, f, p)
<1>0. MapOf(h, f)[p] = IF Listed(L, f, p) THEN NodeOf(L, f, p) ELSE NoTopic
  BY MapAt
<1>1. CASE Listed(L, f, p)
  <2> DEFINE n == f[CHOOSE c \in L : f[c].path = p]
  <2>1. PICK c \in L : f[c].path = p
    BY <1>1 DEF Listed
  <2>2. L \subseteq Cells /\ \A d \in L : f[d] # Null
    BY ListFacts DEF Nodes
  <2>3. n \in Cell
    BY <2>1, <2>2
  <2>4. NodeOf(L, f, p) = AsNode(n)
    BY DEF NodeOf
  <2> HIDE DEF n
  <2>5. NodeOf(L, f, p) \in Node
    BY <2>3, <2>4 DEF Cell, Node, AsNode
  <2> QED
    BY <1>0, <1>1, <2>5, NoTopicAssumption DEF TopicExist
<1>2. CASE ~Listed(L, f, p)
  BY <1>0, <1>2 DEF TopicExist
<1> QED
  BY <1>1, <1>2

(* What Remember adds.                                                     *)
Noticed(r, sn, sn2, L, f) ==
    r.pc \in WalkPcs =>
        /\ TRUE \in sn2 <=> (r.pc # "enter" /\ TRUE \in sn) \/ Listed(L, f, r.path)
        /\ FALSE \in sn2 <=> (r.pc # "enter" /\ FALSE \in sn) \/ ~Listed(L, f, r.path)

LEMMA Notices ==
    ASSUME NEW t \in Threads, Remember, seen \in [Threads -> SUBSET BOOLEAN],
           cell' \in [Cells -> Cell \cup {Null}],
           NEW L, NEW r, Nodes(L, head', cell', r),
           reg'[t].pc \in WalkPcs => reg'[t].path \in Topics
    PROVE  /\ Noticed(reg'[t], seen[t], seen'[t], L, cell')
           /\ seen' \in [Threads -> SUBSET BOOLEAN]
<1> DEFINE x(u) == TopicExist(MapOf(head', cell'), reg'[u].path)
<1>1. seen' = [u \in Threads |-> IF reg'[u].pc \notin WalkPcs THEN {}
                                 ELSE (IF reg'[u].pc = "enter" THEN {} ELSE seen[u]) \cup {x(u)}]
  BY DEF Remember
<1>2. \A u : x(u) \in BOOLEAN
  BY DEF TopicExist
<1>3. reg'[t].pc \in WalkPcs => (x(t) <=> Listed(L, cell', reg'[t].path))
  BY ExistsListed
<1> HIDE DEF x
<1>4. seen' \in [Threads -> SUBSET BOOLEAN]
  BY <1>1, <1>2
<1>5. reg'[t].pc \in WalkPcs =>
        seen'[t] = (IF reg'[t].pc = "enter" THEN {} ELSE seen[t]) \cup {x(t)}
  BY <1>1
<1>6. Noticed(reg'[t], seen[t], seen'[t], L, cell')
  BY <1>2, <1>3, <1>5 DEF Noticed
<1> QED
  BY <1>4, <1>6

-------------------------------------------------------------------------------
(* The registers after a step.                                             *)

Keeps(w, r) ==
    /\ w.call = r.call /\ w.path = r.path /\ w.data = r.data /\ w.topic_ma = r.topic_ma
    /\ w.data_ma = r.data_ma /\ w.next = r.next /\ w.from = r.from /\ w.raced = r.raced

Moved(w, r, goal, pc, prev, cur, found) ==
    /\ w \in Reg /\ Keeps(w, r)
    /\ w.goal = goal /\ w.pc = pc /\ w.prev = prev /\ w.cur = cur /\ w.found = found

LEMMA WalkMoves ==
    ASSUME NEW r \in Reg, NEW g \in Goals
    PROVE  Moved(Walk(r, g), r, g, "enter", Null, Null, FALSE)
<1> DEFINE w == [r EXCEPT !.goal = g, !.pc = "enter"]
           z == [w EXCEPT !.prev = Null, !.cur = Null, !.found = FALSE]
<1>1. Moved(w, r, g, "enter", r.prev, r.cur, r.found)
  BY DEF Moved, Keeps, Reg, Pcs, WalkPcs
<1>2. Walk(r, g) = z
  BY DEF Walk
<1> HIDE DEF w
<1>3. w \in Reg /\ Null \in Ref
  BY <1>1 DEF Moved, Ref
<1>4. Moved(z, w, w.goal, w.pc, Null, Null, FALSE)
  BY <1>3 DEF Moved, Keeps, Reg
<1> HIDE DEF z
<1> QED
  BY <1>1, <1>2, <1>4 DEF Moved, Keeps

LEMMA PcMoves ==
    ASSUME NEW r \in Reg, NEW x \in Pcs
    PROVE  /\ Moved([r EXCEPT !.pc = x], r, r.goal, x, r.prev, r.cur, r.found)
           /\ \A y \in BOOLEAN :
                Moved([r EXCEPT !.pc = x, !.found = y], r, r.goal, x, r.prev, r.cur, y)
BY DEF Moved, Keeps, Reg

LEMMA HeadMoves ==
    ASSUME NEW r \in Reg, NEW c \in Cells
    PROVE  Moved([r EXCEPT !.cur = c, !.pc = "lock"], r, r.goal, "lock", r.prev, c, r.found)
BY DEF Moved, Keeps, Reg, Pcs, WalkPcs, Ref

LEMMA PastMoves ==
    ASSUME NEW r \in Reg, cell[r.cur].next \in Cells \cup {Null}
    PROVE  Moved(Past(r), r, r.goal, "lock",
                 IF r.goal \in {"delete", "last"} THEN r.cur ELSE Dangling,
                 cell[r.cur].next, r.found)
<1> DEFINE x == cell[r.cur].next
           y == IF r.goal \in {"delete", "last"} THEN r.cur ELSE Dangling
<1>1. x \in Ref /\ y \in Ref
  BY DEF Ref, Reg
<1>2. Past(r) = [r EXCEPT !.pc = "lock", !.cur = x, !.prev = y]
  BY DEF Past
<1> HIDE DEF x, y
<1>3. Moved(Past(r), r, r.goal, "lock", y, x, r.found)
  BY <1>1, <1>2 DEF Moved, Keeps, Reg, Pcs, WalkPcs
<1> QED
  BY <1>3 DEF x, y

(* The call is over, or the monitor goes on.                               *)
Over(w, r) ==
    /\ w \in Reg /\ w.goal = "none" /\ w.path = Null /\ w.data = NoData /\ w.prev = Null
    /\ w.next = Null /\ w.from = Null /\ ~w.raced /\ w.found = r.found
    /\ IF r.call \in Monitors /\ r.next # Null
       THEN w.call = r.call /\ w.pc = "mlock" /\ w.cur = r.next
       ELSE w.call = "none" /\ w.pc = "idle" /\ w.cur = Null

LEMMA IdleTyped == Idle \in Reg
BY DBAssumption DEF Idle, Reg, Calls, Goals, Pcs, Data, TimeT, Ref

LEMMA DoneMoves ==
    ASSUME NEW r \in Reg
    PROVE  Over(Done(r), r)
<1>1. CASE r.call \in Monitors /\ r.next # Null
  <2>1. Done(r) = [Idle EXCEPT !.call = r.call, !.pc = "mlock", !.cur = r.next, !.found = r.found]
    BY <1>1 DEF Done, Monitors
  <2>2. Done(r) = [call |-> r.call, goal |-> "none", pc |-> "mlock", path |-> Null, data |-> NoData,
                   topic_ma |-> 0, data_ma |-> 0, prev |-> Null, cur |-> r.next, next |-> Null,
                   from |-> Null, raced |-> FALSE, found |-> r.found]
    BY <2>1 DEF Idle
  <2>3. 0 \in TimeT
    BY DBAssumption DEF TimeT
  <2> QED
    BY <1>1, <2>2, <2>3 DEF Over, Reg, Goals, Pcs, Data, Ref
<1>2. CASE ~(r.call \in Monitors /\ r.next # Null)
  <2>1. Done(r) = [Idle EXCEPT !.found = r.found]
    BY <1>2 DEF Done, Monitors
  <2>2. Done(r) = [call |-> "none", goal |-> "none", pc |-> "idle", path |-> Null, data |-> NoData,
                   topic_ma |-> 0, data_ma |-> 0, prev |-> Null, cur |-> Null, next |-> Null,
                   from |-> Null, raced |-> FALSE, found |-> r.found]
    BY <2>1 DEF Idle
  <2>3. 0 \in TimeT
    BY DBAssumption DEF TimeT
  <2> QED
    BY <1>2, <2>2, <2>3 DEF Over, Reg, Calls, Goals, Pcs, Data, Ref
<1> QED
  BY <1>1, <1>2

(* All that the invariant says of one thread but what it has seen.         *)
Good(t, r, L, h, f) ==
    /\ r \in Reg
    /\ r.pc \in UsesNode => r.cur # Null
    /\ Role(t, r)
    /\ Stands(r, f)
    /\ t = Main => MainAt(r, L, h, f)

LEMMA GoodThreads ==
    ASSUME TopicInv, NEW t \in Threads
    PROVE  /\ Good(t, reg[t], Linked(head, cell), head, cell)
           /\ Sees(t, reg[t], seen[t], Linked(head, cell), cell)
           /\ Nodes(Linked(head, cell), head, cell, reg[Main])
           /\ Main \in Threads /\ Mqtt \in Threads /\ (t = Main \/ t = Mqtt)
           /\ cell \in [Cells -> Cell \cup {Null}]
BY DEF TopicInv, TypeOK, Good, NodesInv, RoleInv, StandsInv, MainInv, SeesInv, Threads

(* A step of the system, put together from what it does to each thread.    *)
LEMMA StepKeepsInv ==
    ASSUME TopicInv,
           nodeLock' \in [Cells -> Lock], dataLock' \in [Cells -> Lock],
           cell' \in [Cells -> Cell \cup {Null}], head' \in Cells \cup {Null},
           fault' = fault, Remember,
           reg' \in [Threads -> Reg],
           NEW L, Nodes(L, head', cell', reg'[Main]),
           \A t \in Threads : Good(t, reg'[t], L, head', cell'),
           \A t \in Threads : \A sn :
                Noticed(reg'[t], seen[t], sn, L, cell') => Sees(t, reg'[t], sn, L, cell')
    PROVE  TopicInv'
<1>1. L = Linked(head', cell')
  BY ListChain DEF Nodes
<1>2. ASSUME NEW t \in Threads
      PROVE  /\ Sees(t, reg'[t], seen'[t], L, cell')
             /\ seen' \in [Threads -> SUBSET BOOLEAN]
  <2>1. reg'[t].pc \in WalkPcs => reg'[t].path \in Topics
    BY DEF Good, Role, WalkPcs
  <2>2. seen \in [Threads -> SUBSET BOOLEAN]
    BY DEF TopicInv, TypeOK
  <2> QED
    BY <2>1, <2>2, Notices
<1>3. TypeOK'
  BY <1>2 DEF TopicInv, TypeOK, Good, Threads
<1>4. NodesInv' /\ RoleInv' /\ StandsInv' /\ MainInv' /\ SeesInv'
  BY <1>1, <1>2 DEF NodesInv, RoleInv, StandsInv, MainInv, SeesInv, Good, Threads
<1> QED
  BY <1>3, <1>4 DEF TopicInv

(* A step that moves thread t and leaves the list alone.                   *)
Locals(t, r2) ==
    /\ reg' = [reg EXCEPT ![t] = r2]
    /\ UNCHANGED <<head, cell, fault>> /\ Remember
    /\ nodeLock' \in [Cells -> Lock] /\ dataLock' \in [Cells -> Lock]

LEMMA QuietStep ==
    ASSUME TopicInv, NEW t \in Threads, NEW r2, Locals(t, r2),
           t = Main => reg[t].pc # "free",
           Good(t, r2, Linked(head, cell), head, cell),
           r2.pc \in WalkPcs \ {"enter"} =>
               \A sn : Noticed(r2, seen[t], sn, Linked(head, cell), cell) =>
                           Sees(t, r2, sn, Linked(head, cell), cell)
    PROVE  TopicInv'
<1> DEFINE L == Linked(head, cell)
<1>1. /\ reg \in [Threads -> Reg] /\ r2 \in Reg /\ head \in Cells \cup {Null}
      /\ cell \in [Cells -> Cell \cup {Null}]
  BY DEF TopicInv, TypeOK, Good
<1>2. reg' \in [Threads -> Reg] /\ reg'[t] = r2 /\ \A u \in Threads : u # t => reg'[u] = reg[u]
  BY <1>1 DEF Locals
<1>3. Nodes(L, head, cell, reg'[Main])
  <2>1. Nodes(L, head, cell, reg[Main])
    BY GoodThreads
  <2>2. CASE t = Main
    BY <2>1, <2>2 DEF Nodes
  <2>3. CASE t # Main
    BY <1>2, <2>1, <2>3, GoodThreads
  <2> QED
    BY <2>2, <2>3
<1>4. ASSUME NEW u \in Threads
      PROVE  /\ Good(u, reg'[u], L, head, cell)
             /\ \A sn : Noticed(reg'[u], seen[u], sn, L, cell) => Sees(u, reg'[u], sn, L, cell)
  <2>1. CASE u = t
    <3>1. CASE r2.pc \in WalkPcs \ {"enter"}
      BY <1>2, <2>1, <3>1
    <3>2. CASE r2.pc \notin WalkPcs \ {"enter"}
      BY <1>2, <2>1, <3>2 DEF Noticed, Sees
    <3> QED
      BY <3>1, <3>2
  <2>2. CASE u # t
    <3>1. reg'[u] = reg[u] /\ Good(u, reg[u], L, head, cell) /\ Sees(u, reg[u], seen[u], L, cell)
      BY <1>2, <2>2, GoodThreads
    <3>2. \A sn : Noticed(reg[u], seen[u], sn, L, cell) => Sees(u, reg[u], sn, L, cell)
      BY <3>1 DEF Noticed, Sees
    <3> QED
      BY <3>1, <3>2
  <2> QED
    BY <2>1, <2>2
<1>5. head' = head /\ cell' = cell /\ fault' = fault /\ Remember
      /\ nodeLock' \in [Cells -> Lock] /\ dataLock' \in [Cells -> Lock]
  BY DEF Locals
<1> HIDE DEF L
<1> QED
  BY <1>1, <1>2, <1>3, <1>4, <1>5, StepKeepsInv

(* Where thread t may begin to walk, and where its call may end.           *)
MayWalk(t, r, g, L, f) ==
    /\ r \in Reg /\ r.path \in Topics /\ g \in Goals \ {"none"}
    /\ g \in {"exists", "last", "info"} => r.call \in {"add", "renew"}
    /\ g = "topic" => r.call = "put"
    /\ g = "set" => r.call \in {"put", "add", "renew"}
    /\ g = "last" => \A c \in L : f[c].path # r.path
    /\ g = "delete" /\ r.next # Null => f[r.next].path # r.path
    /\ t = Main => r.next \in L \cup {Null}
    /\ t = Mqtt => g \in {"clone", "topic", "set"} /\ r.next = Null

LEMMA WalkIsGood ==
    ASSUME NEW t \in Threads, NEW r, NEW g, NEW L, NEW h, NEW f, MayWalk(t, r, g, L, f)
    PROVE  Good(t, Walk(r, g), L, h, f) /\ Walk(r, g).pc = "enter"
<1>1. Moved(Walk(r, g), r, g, "enter", Null, Null, FALSE)
  BY WalkMoves DEF MayWalk
<1> DEFINE w == Walk(r, g)
<1> HIDE DEF w
<1>2. /\ w \in Reg /\ w.pc = "enter" /\ w.goal = g /\ w.path = r.path /\ w.call = r.call
      /\ w.next = r.next /\ w.prev = Null /\ w.cur = Null
  BY <1>1 DEF Moved, Keeps, w
<1>3. Role(t, w)
  BY <1>2 DEF Role, MayWalk, WalkPcs, Goals
<1>4. Stands(w, f)
  BY <1>2, ListAssumption DEF Stands
<1>5. t = Main => MainAt(w, L, h, f)
  BY <1>2 DEF MainAt, MayWalk, UsesNode
<1> QED
  BY <1>2, <1>3, <1>4, <1>5 DEF Good, UsesNode, w

LEMMA DoneIsGood ==
    ASSUME NEW t \in Threads, NEW r \in Reg, NEW L, NEW h, NEW f,
           L \subseteq Cells, \A c \in L : f[c] # Null,
           t = Main => r.next \in L \cup {Null}, t = Mqtt => r.next = Null
    PROVE  Good(t, Done(r), L, h, f) /\ Done(r).pc \in {"idle", "mlock"}
<1> DEFINE w == Done(r)
<1>1. Over(w, r)
  BY DoneMoves
<1> HIDE DEF w
<1>2. w.pc \in {"idle", "mlock"} /\ w.goal = "none" /\ w.next = Null /\ w \in Reg
  BY <1>1 DEF Over
<1>3. Role(t, w)
  BY <1>1, <1>2 DEF Over, Role, WalkPcs
<1>4. w.pc = "mlock" => w.cur \in L /\ w.cur # Null
  BY <1>1, ListAssumption DEF Over, Threads
<1>5. w.pc = "idle" => w.cur = Null
  BY <1>1 DEF Over
<1>6. Stands(w, f)
  BY <1>2, <1>4, <1>5, ListAssumption DEF Stands, Landed
<1>7. t = Main => MainAt(w, L, h, f)
  BY <1>2, <1>4 DEF MainAt, UsesNode
<1> QED
  BY <1>2, <1>3, <1>4, <1>6, <1>7 DEF Good, UsesNode, w

-------------------------------------------------------------------------------
(* The steps that leave the list alone.                                    *)

LEMMA LockTypes ==
    ASSUME NEW k \in Lock, NEW t \in Threads
    PROVE  RLocked(k, t) \in Lock /\ WLocked(k, t) \in Lock /\ Released(k, t) \in Lock
BY DEF Lock, RLocked, WLocked, Released

Called(call, p, data, topic_ma, data_ma) ==
    [Idle EXCEPT !.call = call, !.path = p, !.data = data, !.topic_ma = topic_ma,
                 !.data_ma = data_ma]

LEMMA CallTyped ==
    ASSUME NEW call \in Calls, NEW p \in Topics, NEW data \in Data,
           NEW topic_ma \in TimeT, NEW data_ma \in TimeT,
           NEW w, w = Called(call, p, data, topic_ma, data_ma)
    PROVE  w \in Reg /\ w.path = p /\ w.next = Null /\ w.call = call
<1>0. PICK r \in Reg : r = Idle /\ r.next = Null
  BY IdleTyped DEF Idle
<1> DEFINE x == [r EXCEPT !.call = call, !.path = p]
           y == [x EXCEPT !.data = data, !.topic_ma = topic_ma, !.data_ma = data_ma]
<1>1. x \in Reg /\ x.path = p /\ x.next = r.next /\ x.call = call
  BY DEF Reg
<1>2. w = y
  BY <1>0, Zenon DEF Called
<1> HIDE DEF x
<1>3. y \in Reg /\ y.path = x.path /\ y.next = x.next /\ y.call = x.call
  BY <1>1 DEF Reg
<1> HIDE DEF y
<1> QED
  BY <1>0, <1>1, <1>2, <1>3

LEMMA BeginStep ==
    ASSUME TopicInv, BeginCall
    PROVE  TopicInv'
<1>1. /\ NoData \in Data /\ Payloads \subseteq Data /\ 0 \in TimeT /\ Deadlines \subseteq TimeT
      /\ Main # Mqtt
  BY DBAssumption, ListAssumption DEF Data, TimeT
<1> DEFINE L == Linked(head, cell)
<1>2. ASSUME NEW t \in Threads, NEW call \in Calls, NEW g \in Goals, NEW p \in Topics,
             NEW data \in Data, NEW topic_ma \in TimeT, NEW data_ma \in TimeT,
             Begin(t, call, g, p, data, topic_ma, data_ma),
             \/ t = Main /\ <<call, g>> \in {<<"put", "topic">>, <<"add", "exists">>,
                                             <<"renew", "info">>, <<"delete", "delete">>}
             \/ <<call, g>> \in {<<"clone", "clone">>, <<"put", "topic">>}
      PROVE  TopicInv'
  <2> DEFINE r == Called(call, p, data, topic_ma, data_ma)
  <2>2. r \in Reg /\ r.path \in Topics /\ r.next = Null /\ r.call = call
    BY CallTyped
  <2>3. MayWalk(t, r, g, L, cell)
    <3> HIDE DEF r
    <3> QED
      BY <1>1, <1>2, <2>2 DEF MayWalk
  <2>4. Good(t, Walk(r, g), L, head, cell) /\ Walk(r, g).pc = "enter"
    BY <2>3, WalkIsGood
  <2>5. Locals(t, Walk(r, g)) /\ reg[t].pc # "free"
    BY <1>2 DEF Begin, At, Become, Same, Locals, Locks, TopicInv, TypeOK, Called
  <2> HIDE DEF L
  <2> QED
    BY <2>4, <2>5, QuietStep DEF L
<1>3. PICK p \in Topics :
        \/ \E t \in Threads : Begin(t, "clone", "clone", p, NoData, 0, 0)
        \/ \E v \in Payloads : Begin(Mqtt, "put", "topic", p, v, 0, 0)
        \/ \E v \in Data, ma \in Deadlines : Begin(Main, "put", "topic", p, v, 0, ma)
        \/ \E ma \in Deadlines : Begin(Main, "add", "exists", p, NoData, ma, 0)
        \/ \E ma \in Deadlines : Begin(Main, "renew", "info", p, NoData, ma, 0)
        \/ Begin(Main, "delete", "delete", p, NoData, 0, 0)
  BY DEF BeginCall
<1>4. /\ Main \in Threads /\ Mqtt \in Threads
      /\ {"clone", "put", "add", "renew", "delete"} \subseteq Calls
      /\ {"clone", "topic", "exists", "info", "delete"} \subseteq Goals
  BY DEF Threads, Calls, Goals
<1>5. CASE \E t \in Threads : Begin(t, "clone", "clone", p, NoData, 0, 0)
  BY <1>1, <1>2, <1>4, <1>5
<1>6. CASE \E v \in Payloads : Begin(Mqtt, "put", "topic", p, v, 0, 0)
  BY <1>1, <1>2, <1>4, <1>6
<1>7. CASE \E v \in Data, ma \in Deadlines : Begin(Main, "put", "topic", p, v, 0, ma)
  BY <1>1, <1>2, <1>4, <1>7
<1>8. CASE \E ma \in Deadlines : Begin(Main, "add", "exists", p, NoData, ma, 0)
  BY <1>1, <1>2, <1>4, <1>8
<1>9. CASE \E ma \in Deadlines : Begin(Main, "renew", "info", p, NoData, ma, 0)
  BY <1>1, <1>2, <1>4, <1>9
<1>10. CASE Begin(Main, "delete", "delete", p, NoData, 0, 0)
  BY <1>1, <1>2, <1>4, <1>10
<1> QED
  BY <1>3, <1>5, <1>6, <1>7, <1>8, <1>9, <1>10

(* Where a walk may end without its node, and what it did not find.        *)
MayMiss(t, r, L, h, f) ==
    /\ r \in Reg /\ r.path \in Topics /\ r.goal # "none"
    /\ r.goal \in {"exists", "last", "info"} => r.call \in {"add", "renew"}
    /\ r.goal \in {"exists", "last"} => \A c \in L : f[c].path # r.path
    /\ r.goal = "last" => r.cur = Null /\ IsPrev(r.prev, Null, L, h, f)
    /\ t = Main => r.next \in L \cup {Null}
    /\ t = Mqtt => r.goal \notin {"exists", "last"} /\ r.next = Null

LEMMA MissingIsGood ==
    ASSUME NEW t \in Threads, NEW r, NEW L, NEW h, NEW f,
           L \subseteq Cells, \A c \in L : f[c] # Null,
           MayMiss(t, r, L, h, f)
    PROVE  /\ Good(t, Missing(r), L, h, f)
           /\ Missing(r).pc \in {"enter", "link", "wlock_prev", "idle", "mlock"}
<1>1. CASE r.goal = "exists"
  <2>1. Missing(r) = Walk(r, "last")
    BY <1>1 DEF Missing
  <2>2. MayWalk(t, r, "last", L, f)
    BY <1>1 DEF MayMiss, MayWalk, Goals
  <2> QED
    BY <2>1, <2>2, WalkIsGood
<1>2. CASE r.goal = "last"
  <2> DEFINE x == IF r.prev = Null THEN "link" ELSE "wlock_prev"
             w == [r EXCEPT !.pc = x]
  <2>1. Missing(r) = w
    BY <1>2 DEF Missing
  <2>2. x \in Pcs /\ x \in {"link", "wlock_prev"}
    BY DEF Pcs
  <2>3. Moved(w, r, r.goal, x, r.prev, r.cur, r.found)
    <3> HIDE DEF x
    <3> QED
      BY <2>2, PcMoves DEF MayMiss
  <2> HIDE DEF w
  <2>4. w \in Reg /\ w.pc = x /\ w.goal = "last" /\ w.path = r.path /\ w.call = r.call
        /\ w.prev = r.prev /\ w.cur = Null /\ w.next = r.next
    BY <1>2, <2>3 DEF Moved, Keeps, MayMiss
  <2>5. Role(t, w)
    BY <1>2, <2>2, <2>4 DEF Role, MayMiss, WalkPcs
  <2>6. Stands(w, f)
    BY <2>4, ListAssumption DEF Stands
  <2>7. t = Main => MainAt(w, L, h, f)
    BY <1>2, <2>4 DEF MainAt, MayMiss, UsesNode
  <2> QED
    BY <2>1, <2>2, <2>4, <2>5, <2>6, <2>7 DEF Good, UsesNode
<1>3. CASE r.goal \notin {"exists", "last"}
  <2> DEFINE w == [r EXCEPT !.found = FALSE]
  <2>1. Missing(r) = Done(w)
    BY <1>3 DEF Missing
  <2>2. w \in Reg /\ w.next = r.next
    BY DEF MayMiss, Reg
  <2> HIDE DEF w
  <2>3. Good(t, Done(w), L, h, f) /\ Done(w).pc \in {"idle", "mlock"}
    BY <2>2, DoneIsGood DEF MayMiss
  <2> QED
    BY <2>1, <2>3
<1> QED
  BY <1>1, <1>2, <1>3

LEMMA HitIsGood ==
    ASSUME NEW t \in Threads, NEW r, NEW L, NEW h, NEW f, Good(t, r, L, h, f),
           r.pc = "test", r.cur \in Cells, f[r.cur].path = r.path, r.goal # "last"
    PROVE  /\ Good(t, Hit(r), L, h, f)
           /\ Hit(r).pc \notin WalkPcs \ {"enter"}
<1>1. /\ r \in Reg /\ r.path \in Topics /\ r.goal \in Goals \ {"none", "last"}
      /\ r.goal \in {"exists", "info"} => r.call \in {"add", "renew"}
      /\ r.goal = "topic" => r.call = "put"
      /\ r.goal = "set" => r.call \in {"put", "add", "renew"}
      /\ f[r.cur] # Null /\ r.cur # Null
      /\ t = Mqtt => r.goal \in {"clone", "topic", "set"} /\ r.next = Null
      /\ t = Main => /\ r.cur \in L /\ r.next \in L \cup {Null}
                     /\ r.goal = "delete" => IsPrev(r.prev, r.cur, L, h, f)
                     /\ r.goal = "delete" /\ r.next # Null => f[r.next].path # r.path
  BY ListAssumption DEF Good, Role, Stands, MainAt, WalkPcs, UsesNode, Reg
<1>2. CASE r.goal = "exists"
  <2>1. Hit(r) = Walk(r, "info")
    BY <1>2 DEF Hit
  <2>2. MayWalk(t, r, "info", L, f)
    BY <1>1, <1>2 DEF MayWalk, Goals
  <2> QED
    BY <2>1, <2>2, WalkIsGood
<1>3. CASE r.goal # "exists"
  <2> DEFINE x == CASE r.goal = "clone"             -> "clone"
                    [] r.goal \in {"info", "topic"} -> "read"
                    [] r.goal \in {"set", "drop"}   -> "rlock"
                    [] r.goal = "delete"            -> IF r.prev = Null THEN "wlock_cur"
                                                       ELSE "wlock_prev"
             w == [r EXCEPT !.pc = x, !.found = TRUE]
  <2>1. r.goal \in {"clone", "info", "topic", "set", "drop", "delete"}
    BY <1>1, <1>3 DEF Goals
  <2>2. Hit(r) = w
    BY <1>3, <2>1 DEF Hit
  <2>3. /\ x \in {"clone", "read", "rlock", "wlock_cur", "wlock_prev"}
        /\ x = "clone" <=> r.goal = "clone"
        /\ x = "read" <=> r.goal \in {"info", "topic"}
        /\ x = "rlock" <=> r.goal \in {"set", "drop"}
        /\ x \in {"wlock_cur", "wlock_prev"} <=> r.goal = "delete"
        /\ x = "wlock_prev" => r.prev # Null
    BY <2>1
  <2> HIDE DEF x
  <2>4. x \in Pcs /\ TRUE \in BOOLEAN
    BY <2>3 DEF Pcs
  <2>5. Moved(w, r, r.goal, x, r.prev, r.cur, TRUE)
    BY <1>1, <2>4, PcMoves
  <2> HIDE DEF w
  <2>6. w \in Reg /\ w.pc = x /\ w.goal = r.goal /\ w.path = r.path /\ w.call = r.call
        /\ w.prev = r.prev /\ w.cur = r.cur /\ w.next = r.next
    BY <2>5 DEF Moved, Keeps
  <2>7. Role(t, w)
    BY <1>1, <2>3, <2>6 DEF Role, WalkPcs
  <2>8. Stands(w, f)
    BY <1>1, <2>6 DEF Stands
  <2>9. t = Main => MainAt(w, L, h, f)
    BY <1>1, <2>3, <2>6 DEF MainAt, UsesNode
  <2> QED
    BY <1>1, <2>2, <2>3, <2>6, <2>7, <2>8, <2>9 DEF Good, WalkPcs
<1> QED
  BY <1>2, <1>3

(* A walk that goes on sees on.                                            *)
LEMMA SeesOn ==
    ASSUME NEW t, NEW r, NEW w, NEW sn, NEW sn2, NEW L, NEW f,
           Sees(t, r, sn, L, f), Noticed(w, sn, sn2, L, f),
           r.pc \in WalkPcs, w.pc \in WalkPcs \ {"enter"}, w.path = r.path,
           w.pc \in {"lock", "test"} /\ w.cur \in Cells =>
             /\ f[w.cur].path = w.path => Listed(L, f, w.path) \/ TRUE \in sn
             /\ Listed(L, f, w.path) /\ FALSE \notin sn => Ahead(w.cur, w.path, f)
    PROVE  Sees(t, w, sn2, L, f)
<1>1. /\ TRUE \in sn2 <=> TRUE \in sn \/ Listed(L, f, w.path)
      /\ FALSE \in sn2 <=> FALSE \in sn \/ ~Listed(L, f, w.path)
  BY DEF Noticed
<1>2. t = Main => IF Listed(L, f, w.path) THEN FALSE \notin sn ELSE TRUE \notin sn
  BY DEF Sees
<1> QED
  BY <1>1, <1>2 DEF Sees

LEMMA EnterStep ==
    ASSUME TopicInv, NEW t \in Threads, Enter(t)
    PROVE  TopicInv'
<1> DEFINE L == Linked(head, cell)
           r == reg[t]
<1>1. /\ Good(t, r, L, head, cell) /\ Sees(t, r, seen[t], L, cell)
      /\ IsList(L, head, cell) /\ r.pc = "enter"
  BY GoodThreads DEF Enter, At, Nodes
<1>2. L \subseteq Cells /\ \A c \in L : cell[c] # Null
  BY <1>1, ListFacts
<1>3. /\ reg' = [reg EXCEPT ![t] = IF head = Null THEN Missing(r) ELSE [r EXCEPT !.pc = "head"]]
      /\ UNCHANGED <<head, cell, fault, nodeLock, dataLock>> /\ Remember
      /\ nodeLock \in [Cells -> Lock] /\ dataLock \in [Cells -> Lock]
  BY DEF Enter, Become, Same, Locks, TopicInv, TypeOK
<1> HIDE DEF L, r
<1>4. /\ r \in Reg /\ r.path \in Topics /\ r.goal # "none" /\ r.prev = Null /\ r.cur = Null
      /\ Role(t, r) /\ (t = Main => r.next \in L \cup {Null})
  BY <1>1 DEF Good, Role, MainAt, WalkPcs
<1>5. CASE head = Null
  <2>1. L = {}
    BY <1>1, <1>5, ListFacts
  <2>2. MayMiss(t, r, L, head, cell)
    BY <1>4, <1>5, <2>1 DEF MayMiss, IsPrev, Role
  <2>3. Good(t, Missing(r), L, head, cell) /\ Missing(r).pc \notin WalkPcs \ {"enter"}
    BY <1>2, <2>2, MissingIsGood DEF WalkPcs
  <2>4. Locals(t, Missing(r))
    BY <1>3, <1>5 DEF Locals
  <2>5. reg[t].pc # "free"
    BY <1>1 DEF r
  <2> HIDE DEF L
  <2> QED
    BY <2>3, <2>4, <2>5, QuietStep DEF L
<1>6. CASE head # Null
  <2> DEFINE w == [r EXCEPT !.pc = "head"]
  <2>1. Locals(t, w)
    BY <1>3, <1>6 DEF Locals
  <2>2. Moved(w, r, r.goal, "head", r.prev, r.cur, r.found)
    BY <1>4, PcMoves DEF Pcs, WalkPcs
  <2> HIDE DEF w
  <2>3. w \in Reg /\ w.pc = "head" /\ w.goal = r.goal /\ w.path = r.path /\ w.call = r.call
        /\ w.prev = Null /\ w.cur = Null /\ w.next = r.next
    BY <1>4, <2>2 DEF Moved, Keeps
  <2>4. Role(t, w) /\ Stands(w, cell)
    BY <1>1, <1>4, <2>3, ListAssumption DEF Good, Role, Stands, WalkPcs
  <2>5. t = Main => MainAt(w, L, head, cell)
    BY <1>1, <1>6, <2>3 DEF Good, MainAt, UsesNode
  <2>6. Good(t, w, L, head, cell)
    BY <2>3, <2>4, <2>5 DEF Good, UsesNode
  <2>7. ASSUME NEW sn, Noticed(w, seen[t], sn, L, cell)
        PROVE  Sees(t, w, sn, L, cell)
    BY <1>1, <2>3, <2>7, SeesOn DEF WalkPcs
  <2>8. reg[t].pc # "free"
    BY <1>1 DEF r
  <2> QED
    BY <2>1, <2>6, <2>7, <2>8, QuietStep DEF L
<1> QED
  BY <1>5, <1>6

LEMMA HeadStep ==
    ASSUME TopicInv, NEW t \in Threads, Head(t)
    PROVE  TopicInv'
<1> DEFINE L == Linked(head, cell)
           r == reg[t]
           w == [r EXCEPT !.cur = head, !.pc = "lock"]
<1>1. /\ Good(t, r, L, head, cell) /\ Sees(t, r, seen[t], L, cell)
      /\ IsList(L, head, cell) /\ r.pc = "head" /\ head # Null
  BY GoodThreads DEF Head, At, Nodes
<1>2. L \subseteq Cells /\ (\A c \in L : cell[c] # Null) /\ head \in L
  BY <1>1, ListFacts
<1>3. Locals(t, w)
  BY DEF Head, Become, Same, Locks, Locals, TopicInv, TypeOK
<1>4. reg[t].pc # "free"
  BY <1>1
<1> HIDE DEF L, r
<1>5. Moved(w, r, r.goal, "lock", r.prev, head, r.found)
  BY <1>1, <1>2, HeadMoves DEF Good
<1> HIDE DEF w
<1>6. w \in Reg /\ w.pc = "lock" /\ w.goal = r.goal /\ w.path = r.path /\ w.call = r.call
      /\ w.prev = Null /\ w.cur = head /\ w.next = r.next
  BY <1>1, <1>5 DEF Moved, Keeps, Good, Role
<1>7. Role(t, w) /\ Stands(w, cell)
  BY <1>1, <1>2, <1>6 DEF Good, Role, Stands, WalkPcs, Landed
<1>8. t = Main => MainAt(w, L, head, cell)
  BY <1>1, <1>2, <1>6 DEF Good, MainAt, UsesNode, IsPrev
<1>9. Good(t, w, L, head, cell)
  BY <1>1, <1>6, <1>7, <1>8 DEF Good, UsesNode
<1>10. cell[head].path = w.path => Listed(L, cell, w.path)
  BY <1>2 DEF Listed
<1>11. ASSUME Listed(L, cell, w.path)
       PROVE  Ahead(head, w.path, cell)
  <2>1. SUFFICES ASSUME NEW T \in SUBSET Cells, head \in T, Closed(T, cell)
                 PROVE  \E d \in T : cell[d] # Null /\ cell[d].path = w.path
    BY DEF Ahead
  <2>2. L \subseteq T
    BY <1>1, <2>1, ListReached
  <2> QED
    BY <1>2, <1>11, <2>2 DEF Listed
<1>12. ASSUME NEW sn, Noticed(w, seen[t], sn, L, cell)
       PROVE  Sees(t, w, sn, L, cell)
  BY <1>1, <1>6, <1>10, <1>11, <1>12, SeesOn DEF WalkPcs
<1> QED
  BY <1>3, <1>4, <1>9, <1>12, QuietStep DEF L

LEMMA LockNodeStep ==
    ASSUME TopicInv, NEW t \in Threads, LockNode(t)
    PROVE  TopicInv'
<1> DEFINE L == Linked(head, cell)
           r == reg[t]
           w == [r EXCEPT !.pc = "test"]
<1>1. /\ Good(t, r, L, head, cell) /\ Sees(t, r, seen[t], L, cell)
      /\ r.pc = "lock" /\ r.cur \in Cells
  BY GoodThreads DEF LockNode, At, Alive
<1>2. Locals(t, w)
  <2>1. RLocked(nodeLock[r.cur], t) \in Lock /\ nodeLock \in [Cells -> Lock]
        /\ dataLock \in [Cells -> Lock]
    BY <1>1, LockTypes DEF TopicInv, TypeOK
  <2> QED
    BY <1>1, <2>1 DEF LockNode, Become, Same, Locals
<1>3. reg[t].pc # "free"
  BY <1>1
<1> HIDE DEF L, r
<1>4. Moved(w, r, r.goal, "test", r.prev, r.cur, r.found)
  BY <1>1, PcMoves DEF Good, Pcs, WalkPcs
<1> HIDE DEF w
<1>5. w \in Reg /\ w.pc = "test" /\ w.goal = r.goal /\ w.path = r.path /\ w.call = r.call
      /\ w.prev = r.prev /\ w.cur = r.cur /\ w.next = r.next
  BY <1>4 DEF Moved, Keeps
<1>6. Role(t, w) /\ Stands(w, cell)
  BY <1>1, <1>5 DEF Good, Role, Stands, WalkPcs, Landed
<1>7. t = Main => MainAt(w, L, head, cell)
  BY <1>1, <1>5 DEF Good, MainAt, UsesNode
<1>8. Good(t, w, L, head, cell)
  BY <1>1, <1>5, <1>6, <1>7 DEF Good, UsesNode
<1>9. /\ cell[w.cur].path = w.path => TRUE \in seen[t]
      /\ FALSE \notin seen[t] => Ahead(w.cur, w.path, cell)
  BY <1>1, <1>5 DEF Sees, WalkPcs
<1>10. ASSUME NEW sn, Noticed(w, seen[t], sn, L, cell)
       PROVE  Sees(t, w, sn, L, cell)
  BY <1>1, <1>5, <1>9, <1>10, SeesOn DEF WalkPcs
<1> QED
  BY <1>2, <1>3, <1>8, <1>10, QuietStep DEF L

(* A node with no match and no successor ends a walk that has seen the     *)
(* path missing; one with a successor has what is ahead of it ahead.       *)
LEMMA NothingAhead ==
    ASSUME NEW c \in Cells, NEW p, NEW f, Ahead(c, p, f), f[c].next = Null, f[c].path # p
    PROVE  FALSE
<1>1. Closed({c}, f)
  BY ListAssumption DEF Closed
<1> QED
  BY <1>1 DEF Ahead

LEMMA AheadOfNext ==
    ASSUME NEW c \in Cells, NEW p, NEW f, Ahead(c, p, f), f[c].path # p
    PROVE  Ahead(f[c].next, p, f)
<1>1. SUFFICES ASSUME NEW T \in SUBSET Cells, f[c].next \in T, Closed(T, f)
               PROVE  \E d \in T : f[d] # Null /\ f[d].path = p
  BY DEF Ahead
<1> DEFINE T2 == T \cup {c}
<1>2. T2 \in SUBSET Cells /\ c \in T2 /\ Closed(T2, f)
  BY <1>1 DEF Closed
<1>3. PICK d \in T2 : f[d] # Null /\ f[d].path = p
  BY <1>2 DEF Ahead
<1> QED
  BY <1>3

LEMMA TestStep ==
    ASSUME TopicInv, NEW t \in Threads, Test(t)
    PROVE  TopicInv'
<1> DEFINE L == Linked(head, cell)
           r == reg[t]
<1>1. /\ Good(t, r, L, head, cell) /\ Sees(t, r, seen[t], L, cell)
      /\ Nodes(L, head, cell, reg[Main]) /\ IsList(L, head, cell)
      /\ r.pc = "test" /\ r.cur \in Cells
  BY GoodThreads DEF Test, At, Alive, Nodes
<1>2. L \subseteq Cells /\ (\A c \in L : cell[c] # Null)
  BY <1>1, ListFacts
<1>3. Locals(t, AfterTest(r))
  <2>1. Released(nodeLock[r.cur], t) \in Lock /\ nodeLock \in [Cells -> Lock]
        /\ dataLock \in [Cells -> Lock]
    BY <1>1, LockTypes DEF TopicInv, TypeOK
  <2>2. nodeLock' \in [Cells -> Lock]
    BY <1>1, <2>1 DEF Test
  <2> QED
    BY <1>1, <2>1, <2>2 DEF Test, Become, Same, Locals
<1>4. reg[t].pc # "free" /\ t \in {Main, Mqtt}
  BY <1>1 DEF Threads
<1> HIDE DEF L, r
<1>5. /\ r \in Reg /\ r.path \in Topics /\ r.goal # "none" /\ Role(t, r)
      /\ cell[r.cur] # Null /\ cell[r.cur].next \in L \cup {Null}
      /\ t = Main => /\ r.cur \in L /\ r.next \in L \cup {Null}
                     /\ r.goal = "last" => cell[r.cur].path # r.path
      /\ t = Mqtt => r.goal \notin {"delete", "exists", "last"} /\ r.next = Null
  BY <1>1 DEF Good, Role, MainAt, Stands, WalkPcs, UsesNode, Nodes
<1>6. CASE Matches(r)
  <2>1. AfterTest(r) = Hit(r) /\ r.goal # "last" /\ cell[r.cur].path = r.path
    BY <1>6 DEF AfterTest, Matches
  <2>2. Good(t, Hit(r), L, head, cell) /\ Hit(r).pc \notin WalkPcs \ {"enter"}
    BY <1>1, <2>1, HitIsGood
  <2> QED
    BY <1>3, <1>4, <2>1, <2>2, QuietStep DEF L
<1>7. CASE ~Matches(r)
  <2> DEFINE x == Past(r)
             prev == IF r.goal \in {"delete", "last"} THEN r.cur ELSE Dangling
             c == cell[r.cur].next
  <2>1. cell[r.cur].path # r.path
    BY <1>4, <1>5, <1>7 DEF Matches, Role
  <2>2. Moved(x, r, r.goal, "lock", prev, c, r.found)
    BY <1>2, <1>5, PastMoves
  <2>3. AfterTest(r) = IF c = Null THEN Missing(x) ELSE x
    BY <1>7 DEF AfterTest
  <2>4. /\ c \in L \cup {Null}
        /\ t = Main /\ r.goal \in {"delete", "last"} => IsPrev(prev, c, L, head, cell)
        /\ prev # Null
    BY <1>1, <1>2, <1>5, ListAssumption DEF IsPrev
  <2> HIDE DEF x
  <2>5. x \in Reg /\ x.pc = "lock" /\ x.goal = r.goal /\ x.path = r.path /\ x.call = r.call
        /\ x.prev = prev /\ x.cur = c /\ x.next = r.next
    BY <2>2 DEF Moved, Keeps
  <2> HIDE DEF prev
  <2>6. CASE c = Null
    <3>1. Listed(L, cell, r.path) => FALSE \in seen[t]
      BY <1>1, <2>1, <2>6, NothingAhead DEF Sees, WalkPcs
    <3>2. t = Main => ~Listed(L, cell, r.path)
      BY <1>1, <3>1 DEF Sees, WalkPcs
    <3>3. r.goal = "last" => t = Main /\ \A d \in L : cell[d].path # r.path
      BY <1>1, <1>4, <1>5 DEF Good, MainAt
    <3>4. MayMiss(t, x, L, head, cell)
      BY <1>4, <1>5, <2>4, <2>5, <2>6, <3>2, <3>3 DEF MayMiss, Role, Listed
    <3>5. Good(t, Missing(x), L, head, cell) /\ Missing(x).pc \notin WalkPcs \ {"enter"}
      BY <1>2, <3>4, MissingIsGood DEF WalkPcs
    <3> QED
      BY <1>3, <1>4, <2>3, <2>6, <3>5, QuietStep DEF L
  <2>7. CASE c # Null
    <3>1. c \in L /\ c \in Cells /\ cell[c] # Null
      BY <1>2, <2>4, <2>7
    <3> HIDE DEF c
    <3>2. Role(t, x) /\ Stands(x, cell)
      BY <1>1, <1>5, <2>5, <3>1 DEF Role, Stands, WalkPcs, Landed
    <3>3. t = Main => MainAt(x, L, head, cell)
      BY <1>1, <2>4, <2>5, <3>1 DEF Good, MainAt, UsesNode
    <3>4. Good(t, x, L, head, cell)
      BY <2>5, <2>7, <3>2, <3>3 DEF Good
    <3>5. cell[c].path = x.path => Listed(L, cell, x.path)
      BY <3>1 DEF Listed
    <3>6. FALSE \notin seen[t] => Ahead(c, x.path, cell)
      BY <1>1, <2>1, <2>5, AheadOfNext DEF Sees, WalkPcs, c
    <3>7. ASSUME NEW sn, Noticed(x, seen[t], sn, L, cell)
          PROVE  Sees(t, x, sn, L, cell)
      BY <1>1, <2>5, <3>5, <3>6, <3>7, SeesOn DEF WalkPcs
    <3> QED
      BY <1>3, <1>4, <2>3, <2>7, <3>4, <3>7, QuietStep DEF L
  <2> QED
    BY <2>6, <2>7
<1> QED
  BY <1>6, <1>7

(* The steps of a thread that stays at its node.                           *)
Onward ==
    {<<"clone", "copy">>, <<"read", "pass">>, <<"rlock", "dlock">>, <<"dlock", "free_data">>,
     <<"wlock_prev", "wlock_cur">>, <<"wlock_prev", "link">>, <<"wlock_cur", "unlink">>,
     <<"mdlock", "look">>}

LEMMA OnwardIsGood ==
    ASSUME TopicInv, NEW t \in Threads, NEW w \in Reg,
           <<reg[t].pc, w.pc>> \in Onward, Locals(t, w),
           w.goal = reg[t].goal, w.path = reg[t].path, w.call = reg[t].call,
           w.prev = reg[t].prev, w.cur = reg[t].cur, w.next = reg[t].next,
           w.pc = "pass" => w.goal = "info" /\ w.data \in Data /\ w.from = Null,
           w.pc = "link" => w.goal = "last",
           w.pc = "wlock_cur" => w.goal = "delete"
    PROVE  TopicInv'
<1> DEFINE L == Linked(head, cell)
           r == reg[t]
<1>1. Good(t, r, L, head, cell)
  BY GoodThreads
<1> HIDE DEF L
<1>2. /\ <<r.pc, w.pc>> \in Onward /\ w.goal = r.goal /\ w.path = r.path /\ w.call = r.call
      /\ w.prev = r.prev /\ w.cur = r.cur /\ w.next = r.next
      /\ w.pc = "pass" => w.goal = "info" /\ w.data \in Data /\ w.from = Null
      /\ w.pc = "link" => w.goal = "last"
      /\ w.pc = "wlock_cur" => w.goal = "delete"
  OBVIOUS
<1>3. r.pc # "free" /\ w.pc \notin WalkPcs
  BY <1>2 DEF Onward, WalkPcs
<1> HIDE DEF r
<1>4. Role(t, w)
  BY <1>1, <1>2 DEF Good, Role, WalkPcs, Onward
<1>5. Stands(w, cell)
  BY <1>1, <1>2 DEF Good, Stands, Landed, Onward
<1>6. w.pc \in UsesNode => w.cur # Null
  BY <1>1, <1>2 DEF Good, UsesNode, Onward
<1>7. t = Main => MainAt(w, L, head, cell)
  <2>1. SUFFICES ASSUME t = Main PROVE MainAt(w, L, head, cell)
    OBVIOUS
  <2>2. MainAt(r, L, head, cell) /\ Role(t, r)
    BY <1>1, <2>1 DEF Good
  <2>3. w.pc \in UsesNode \cup {"wlock_cur", "unlink"} => w.cur \in L
    BY <1>2, <2>2 DEF MainAt, UsesNode, Onward
  <2>4. w.goal \in {"delete", "last"} /\
        w.pc \in {"lock", "test", "wlock_prev", "wlock_cur", "link", "unlink"} =>
            IsPrev(w.prev, w.cur, L, head, cell)
    BY <1>2, <2>2 DEF MainAt, Onward
  <2>5. w.goal = "last" /\ w.pc \in {"wlock_prev", "link"} => w.cur = Null
    BY <1>2, <2>2 DEF MainAt, Onward
  <2>6. w.pc \in {"mdlock", "look"} => w.next = cell[w.cur].next
    BY <1>2, <2>2 DEF MainAt, Onward
  <2>7. w.pc \notin {"head", "lock", "test", "wlock_prev", "free"} /\ r.pc # "free"
    BY <1>2 DEF Onward
  <2> QED
    BY <1>2, <2>2, <2>3, <2>4, <2>5, <2>6, <2>7 DEF MainAt
<1>8. Good(t, w, L, head, cell)
  BY <1>4, <1>5, <1>6, <1>7 DEF Good
<1> QED
  BY <1>3, <1>8, QuietStep DEF L, r

LEMMA CloneStep ==
    ASSUME TopicInv, NEW t \in Threads, Clone(t)
    PROVE  TopicInv'
<1>1. reg[t].pc = "clone" /\ reg[t].cur \in Cells /\ reg[t] \in Reg
  BY GoodThreads DEF Clone, At, Alive, Good
<1>2. PICK r \in Reg : r = reg[t]
  BY <1>1
<1>3. cell[r.cur] \in Cell
  BY <1>1, <1>2, GoodThreads DEF Good, Stands
<1> DEFINE d == DataOf(r.cur)
           c == From(r.cur)
           w == [r EXCEPT !.pc = "copy", !.data = d, !.from = c]
<1>4. d \in Data \cup {Dangling} /\ c \in Cells \cup {Null}
  BY <1>1, <1>2, <1>3 DEF DataOf, From, Cell
<1>5. reg' = [reg EXCEPT ![t] = w] /\ Locals(t, w)
  BY <1>2 DEF Clone, Become, Same, Locals, Locks, TopicInv, TypeOK
<1> HIDE DEF d, c
<1>6. /\ w \in Reg /\ w.pc = "copy" /\ w.goal = r.goal /\ w.path = r.path /\ w.call = r.call
      /\ w.prev = r.prev /\ w.cur = r.cur /\ w.next = r.next
  BY <1>4 DEF Reg, Pcs, WalkPcs
<1>7. <<r.pc, w.pc>> \in Onward
  BY <1>1, <1>2, <1>6 DEF Onward
<1> HIDE DEF w
<1> QED
  BY <1>2, <1>5, <1>6, <1>7, OnwardIsGood

LEMMA PcStep ==
    ASSUME TopicInv, NEW t \in Threads, NEW x \in Pcs,
           <<reg[t].pc, x>> \in Onward, x # "pass", Locals(t, [reg[t] EXCEPT !.pc = x]),
           x = "link" => reg[t].goal = "last",
           x = "wlock_cur" => reg[t].goal = "delete"
    PROVE  TopicInv'
<1>1. PICK r \in Reg : r = reg[t]
  BY GoodThreads DEF Good
<1> DEFINE w == [r EXCEPT !.pc = x]
<1>2. Moved(w, r, r.goal, x, r.prev, r.cur, r.found)
  BY PcMoves
<1>3. Locals(t, w)
  BY <1>1
<1> HIDE DEF w
<1> QED
  BY <1>1, <1>2, <1>3, OnwardIsGood DEF Moved, Keeps

LEMMA LockIsLocal ==
    ASSUME TopicInv, NEW t \in Threads, NEW w, Become(t, w), NEW c \in Cells,
           \/ /\ \/ nodeLock' = [nodeLock EXCEPT ![c] = RLocked(@, t)]
                 \/ nodeLock' = [nodeLock EXCEPT ![c] = WLocked(@, t)]
                 \/ nodeLock' = [nodeLock EXCEPT ![c] = Released(@, t)]
              /\ Same(<<head, cell, dataLock>>)
           \/ /\ \/ dataLock' = [dataLock EXCEPT ![c] = RLocked(@, t)]
                 \/ dataLock' = [dataLock EXCEPT ![c] = WLocked(@, t)]
              /\ Same(<<head, cell, nodeLock>>)
           \/ /\ nodeLock' = [nodeLock EXCEPT ![c] = Released(@, t)]
              /\ dataLock' = [dataLock EXCEPT ![c] = Released(@, t)]
              /\ Same(<<head, cell>>)
    PROVE  Locals(t, w)
<1>1. nodeLock \in [Cells -> Lock] /\ dataLock \in [Cells -> Lock]
  BY DEF TopicInv, TypeOK
<1>2. \A k \in Lock : RLocked(k, t) \in Lock /\ WLocked(k, t) \in Lock /\ Released(k, t) \in Lock
  BY LockTypes
<1>3. nodeLock[c] \in Lock /\ dataLock[c] \in Lock
  BY <1>1
<1>4. nodeLock' \in [Cells -> Lock] /\ dataLock' \in [Cells -> Lock]
  BY <1>1, <1>2, <1>3 DEF Same
<1> QED
  BY <1>4 DEF Become, Same, Locals

LEMMA LockSteps ==
    ASSUME TopicInv, NEW t \in Threads,
           RLock(t) \/ DLock(t) \/ WLockPrev(t) \/ WLockCur(t) \/ MonitorDataLock(t)
    PROVE  TopicInv'
<1>0. Good(t, reg[t], Linked(head, cell), head, cell) /\ t \in {Main, Mqtt}
  BY GoodThreads DEF Threads
<1>1. CASE RLock(t)
  <2>1. reg[t].pc = "rlock" /\ reg[t].cur \in Cells
    BY <1>1 DEF RLock, At, Alive
  <2>2. Locals(t, [reg[t] EXCEPT !.pc = "dlock"])
    BY <1>1, <2>1, LockIsLocal DEF RLock
  <2> QED
    BY <2>1, <2>2, PcStep DEF Onward, Pcs
<1>2. CASE DLock(t)
  <2>1. reg[t].pc = "dlock" /\ reg[t].cur \in Cells
    BY <1>2 DEF DLock, At, Alive
  <2>2. Locals(t, [reg[t] EXCEPT !.pc = "free_data"])
    BY <1>2, <2>1, LockIsLocal DEF DLock
  <2> QED
    BY <2>1, <2>2, PcStep DEF Onward, Pcs
<1>3. CASE MonitorDataLock(t)
  <2>1. reg[t].pc = "mdlock" /\ reg[t].cur \in Cells
    BY <1>3 DEF MonitorDataLock, At, Alive
  <2>2. Locals(t, [reg[t] EXCEPT !.pc = "look"])
    BY <1>3, <2>1, LockIsLocal DEF MonitorDataLock
  <2> QED
    BY <2>1, <2>2, PcStep DEF Onward, Pcs
<1>4. CASE WLockPrev(t)
  <2>1. reg[t].pc = "wlock_prev" /\ reg[t].goal \in {"delete", "last"} /\ t = Main
    BY <1>0, <1>4 DEF WLockPrev, At, Good, Role
  <2>2. reg[t].prev \in Cells
    <3>1. reg[t].prev \in Linked(head, cell)
      BY <1>0, <2>1 DEF Good, MainAt, IsPrev
    <3> QED
      BY <3>1, GoodThreads, ListFacts DEF Nodes
  <2>3. Locals(t, [reg[t] EXCEPT !.pc = IF reg[t].goal = "last" THEN "link" ELSE "wlock_cur"])
    BY <1>4, <2>2, LockIsLocal DEF WLockPrev
  <2>4. CASE reg[t].goal = "last"
    <3>1. Locals(t, [reg[t] EXCEPT !.pc = "link"])
      BY <2>3, <2>4
    <3> QED
      BY <2>1, <2>4, <3>1, PcStep DEF Onward, Pcs
  <2>5. CASE reg[t].goal = "delete"
    <3>1. Locals(t, [reg[t] EXCEPT !.pc = "wlock_cur"])
      BY <2>3, <2>5
    <3> QED
      BY <2>1, <2>5, <3>1, PcStep DEF Onward, Pcs
  <2> QED
    BY <2>1, <2>4, <2>5
<1>5. CASE WLockCur(t)
  <2>1. reg[t].pc = "wlock_cur" /\ reg[t].goal = "delete" /\ t = Main
    BY <1>0, <1>5 DEF WLockCur, At, Good, Role
  <2>2. reg[t].cur \in Cells
    <3>1. reg[t].cur \in Linked(head, cell)
      BY <1>0, <2>1 DEF Good, MainAt
    <3> QED
      BY <3>1, GoodThreads, ListFacts DEF Nodes
  <2>3. Locals(t, [reg[t] EXCEPT !.pc = "unlink"])
    BY <1>5, <2>2, LockIsLocal DEF WLockCur
  <2> QED
    BY <2>1, <2>3, PcStep DEF Onward, Pcs
<1> QED
  BY <1>1, <1>2, <1>3, <1>4, <1>5

(* A step after which no walk has just begun.                              *)
LEMMA SettledStep ==
    ASSUME TopicInv, NEW t \in Threads, NEW w, Locals(t, w), reg[t].pc # "free",
           Good(t, w, Linked(head, cell), head, cell), w.pc \notin WalkPcs \ {"enter"}
    PROVE  TopicInv'
BY QuietStep

LEMMA CopyStep ==
    ASSUME TopicInv, NEW t \in Threads, Copy(t)
    PROVE  TopicInv'
<1> DEFINE L == Linked(head, cell)
           r == reg[t]
<1>1. /\ Good(t, r, L, head, cell) /\ IsList(L, head, cell)
      /\ r.pc = "copy" /\ r.cur \in Cells
  BY GoodThreads DEF Copy, At, Alive, Nodes
<1>2. Locals(t, Done(r))
  BY <1>1, LockIsLocal DEF Copy
<1> HIDE DEF L
<1>3. reg[t].pc # "free"
  BY <1>1
<1> HIDE DEF r
<1>4. /\ r \in Reg /\ L \subseteq Cells /\ \A c \in L : cell[c] # Null
      /\ t = Main => r.next \in L \cup {Null}
      /\ t = Mqtt => r.next = Null
  BY <1>1, ListFacts DEF Good, MainAt, Role
<1>5. Good(t, Done(r), L, head, cell) /\ Done(r).pc \in {"idle", "mlock"}
  BY <1>4, DoneIsGood
<1> QED
  BY <1>2, <1>3, <1>5, SettledStep DEF L, WalkPcs

LEMMA CloneNoMemoryStep ==
    ASSUME TopicInv, NEW t \in Threads, CloneNoMemory(t)
    PROVE  TopicInv'
<1> DEFINE L == Linked(head, cell)
           r == reg[t]
           w == [r EXCEPT !.found = FALSE]
<1>1. /\ Good(t, r, L, head, cell) /\ IsList(L, head, cell)
      /\ r.pc = "clone" /\ r.cur \in Cells
  BY GoodThreads DEF CloneNoMemory, At, Alive, Nodes
<1>2. Locals(t, Done(w))
  BY <1>1, LockIsLocal DEF CloneNoMemory
<1> HIDE DEF L
<1>3. reg[t].pc # "free"
  BY <1>1
<1> HIDE DEF r
<1>4. /\ r \in Reg /\ L \subseteq Cells /\ \A c \in L : cell[c] # Null
      /\ t = Main => r.next \in L \cup {Null}
      /\ t = Mqtt => r.next = Null
  BY <1>1, ListFacts DEF Good, MainAt, Role
<1>5. w \in Reg /\ w.next = r.next
  BY <1>4 DEF Reg
<1> HIDE DEF w
<1>6. Good(t, Done(w), L, head, cell) /\ Done(w).pc \in {"idle", "mlock"}
  BY <1>4, <1>5, DoneIsGood
<1> QED
  BY <1>2, <1>3, <1>6, SettledStep DEF L, WalkPcs

LEMMA AddNoMemoryStep ==
    ASSUME TopicInv, NEW t \in Threads, AddNoMemory(t)
    PROVE  TopicInv'
<1> DEFINE L == Linked(head, cell)
           r == reg[t]
           w == [r EXCEPT !.found = FALSE]
<1>1. Good(t, r, L, head, cell) /\ IsList(L, head, cell) /\ r.pc = "enter"
  BY GoodThreads DEF AddNoMemory, At, Nodes
<1>2. Locals(t, Done(w))
  BY DEF AddNoMemory, Become, Same, Locals, Locks, TopicInv, TypeOK
<1> HIDE DEF L
<1>3. reg[t].pc # "free"
  BY <1>1
<1> HIDE DEF r
<1>4. /\ r \in Reg /\ L \subseteq Cells /\ \A c \in L : cell[c] # Null
      /\ t = Main => r.next \in L \cup {Null}
      /\ t = Mqtt => r.next = Null
  BY <1>1, ListFacts DEF Good, MainAt, Role
<1>5. w \in Reg /\ w.next = r.next
  BY <1>4 DEF Reg
<1> HIDE DEF w
<1>6. Good(t, Done(w), L, head, cell) /\ Done(w).pc \in {"idle", "mlock"}
  BY <1>4, <1>5, DoneIsGood
<1> QED
  BY <1>2, <1>3, <1>6, SettledStep DEF L, WalkPcs

(* The registers with what Read and Pass read.                             *)
TakenAs(r, n) == [Taken(r, n) EXCEPT !.raced = FALSE]

LEMMA TakenTyped ==
    ASSUME NEW r \in Reg, NEW n \in Cell, NEW w, w = TakenAs(r, n)
    PROVE  /\ w \in Reg /\ w.goal = r.goal /\ w.path = r.path /\ w.call = r.call
           /\ w.next = r.next /\ ~w.raced /\ w.topic_ma = n.topic_ma
<1>1. n.topic_ma \in TimeT
  BY DEF Cell
<1>2. w = [r EXCEPT !.topic_ma = n.topic_ma, !.raced = FALSE]
  BY DEF Taken, TakenAs
<1> QED
  BY <1>1, <1>2 DEF Reg

LEMMA PassedTyped ==
    ASSUME NEW r \in Reg, NEW n \in Cell, NEW v \in Data \cup {Dangling}, r.cur \in Cells,
           NEW w, w = Passed(r, n, v)
    PROVE  /\ w \in Reg /\ w.goal = r.goal /\ w.path = r.path /\ w.call = r.call
           /\ w.next = r.next /\ w.raced = r.raced /\ w.data = v /\ w.data_ma = n.data_ma
<1> DEFINE fr == IF v = NoData THEN Null ELSE r.cur
<1>1. fr \in Cells \cup {Null} /\ n.data_ma \in TimeT
  BY DEF Cell
<1>2. w = [r EXCEPT !.data = v, !.data_ma = n.data_ma, !.from = fr]
  BY DEF Passed
<1> HIDE DEF fr
<1> QED
  BY <1>1, <1>2 DEF Reg

LEMMA CopiedIs ==
    ASSUME NEW measured \in Data, NEW c \in Cells, cell[c] \in Cell,
           NEW v \in Copied(measured, DataOf(c))
    PROVE  /\ v \in Data \cup {Dangling}
           /\ measured = cell[c].data => v \in {cell[c].data, Dangling}
BY ListAssumption DEF Copied, DataOf, Cell, Data

LEMMA ReadStep ==
    ASSUME TopicInv, NEW t \in Threads, Read(t)
    PROVE  TopicInv'
<1> DEFINE L == Linked(head, cell)
           r == reg[t]
           n == cell[r.cur]
           w == [Taken(r, n) EXCEPT !.raced = FALSE]
<1>1. /\ Good(t, r, L, head, cell) /\ cell \in [Cells -> Cell \cup {Null}]
      /\ r.pc = "read" /\ r.cur \in Cells /\ r.goal = "topic"
  BY GoodThreads DEF Read, At, Alive
<1>2. Locals(t, Walk(w, "set"))
  BY DEF Read, Become, Same, Locals, Locks, TopicInv, TypeOK
<1> HIDE DEF L
<1>3. r \in Reg /\ n \in Cell
  BY <1>1 DEF Good, Stands
<1>4. w \in Reg /\ w.goal = r.goal /\ w.path = r.path /\ w.call = r.call /\ w.next = r.next
  <2>1. w = TakenAs(r, n)
    BY DEF TakenAs
  <2> HIDE DEF r, n, w
  <2> QED
    BY <1>3, <2>1, TakenTyped
<1> HIDE DEF w
<1>5. MayWalk(t, w, "set", L, cell)
  BY <1>1, <1>4 DEF MayWalk, Good, Role, MainAt, Goals
<1>6. Good(t, Walk(w, "set"), L, head, cell) /\ Walk(w, "set").pc = "enter"
  BY <1>5, WalkIsGood
<1> QED
  BY <1>1, <1>2, <1>6, SettledStep DEF L, WalkPcs

LEMMA MeasureStep ==
    ASSUME TopicInv, NEW t \in Threads, Measure(t)
    PROVE  TopicInv'
<1>1. reg[t].pc = "read" /\ reg[t].goal = "info" /\ reg[t].cur \in Cells /\ reg[t] \in Reg
  BY GoodThreads DEF Measure, At, Alive, Good
<1>2. PICK r \in Reg : r = reg[t]
  BY <1>1
<1>3. cell[r.cur] \in Cell
  BY <1>1, <1>2, GoodThreads DEF Good, Stands
<1> DEFINE v == DataOf(r.cur)
           w == [r EXCEPT !.pc = "pass", !.data = v, !.from = Null, !.raced = FALSE]
<1>4. v \in Data
  BY <1>2, <1>3 DEF Measure, DataOf, Cell
<1>5. Locals(t, w)
  BY <1>2 DEF Measure, Become, Same, Locals, Locks, TopicInv, TypeOK
<1>6. w = [r EXCEPT !.pc = "pass", !.data = v, !.from = Null, !.raced = FALSE]
  OBVIOUS
<1> HIDE DEF v, w
<1>8. /\ w \in Reg /\ w.pc = "pass" /\ w.goal = r.goal /\ w.path = r.path /\ w.call = r.call
      /\ w.prev = r.prev /\ w.cur = r.cur /\ w.next = r.next /\ w.data = v /\ w.from = Null
  BY <1>4, <1>6 DEF Reg, Pcs
<1>7. <<r.pc, w.pc>> \in Onward
  BY <1>1, <1>2, <1>8 DEF Onward
<1> QED
  BY <1>1, <1>2, <1>4, <1>5, <1>8, <1>7, OnwardIsGood

LEMMA PassStep ==
    ASSUME TopicInv, NEW t \in Threads, Pass(t)
    PROVE  TopicInv'
<1> DEFINE L == Linked(head, cell)
<1>1. PICK r \in Reg : r = reg[t]
  BY GoodThreads DEF Good
<1>2. /\ Good(t, r, L, head, cell) /\ cell \in [Cells -> Cell \cup {Null}]
      /\ r.pc = "pass" /\ r.cur \in Cells /\ r.goal = "info" /\ r.data \in Data
  BY <1>1, GoodThreads DEF Pass, At, Alive, Good, Role
<1>3. cell[r.cur] \in Cell
  BY <1>2 DEF Good, Stands
<1>4. PICK v \in Copied(r.data, DataOf(r.cur)) : Become(t, Walk(Passed(r, cell[r.cur], v), "set"))
  BY <1>1 DEF Pass
<1> DEFINE w == Passed(r, cell[r.cur], v)
<1>5. Locals(t, Walk(w, "set"))
  BY <1>4 DEF Pass, Become, Same, Locals, Locks, TopicInv, TypeOK
<1>6. v \in Data \cup {Dangling}
  BY <1>2, <1>3, CopiedIs
<1>7. w \in Reg /\ w.goal = r.goal /\ w.path = r.path /\ w.call = r.call /\ w.next = r.next
  BY <1>2, <1>3, <1>6, PassedTyped
<1> HIDE DEF w, L
<1>8. MayWalk(t, w, "set", L, cell)
  BY <1>2, <1>7 DEF MayWalk, Good, Role, MainAt, Goals
<1>9. Good(t, Walk(w, "set"), L, head, cell) /\ Walk(w, "set").pc = "enter"
  BY <1>8, WalkIsGood
<1> QED
  BY <1>1, <1>2, <1>5, <1>9, SettledStep DEF L, WalkPcs

LEMMA BeginMonitorStep ==
    ASSUME TopicInv, NEW call \in Monitors, BeginMonitor(call)
    PROVE  TopicInv'
<1> DEFINE L == Linked(head, cell)
           w == [Idle EXCEPT !.call = call, !.pc = "mlock", !.cur = head]
<1>1. IsList(L, head, cell) /\ head # Null /\ reg[Main].pc = "idle" /\ Main \in Threads
  BY GoodThreads DEF BeginMonitor, At, Nodes, Threads
<1>2. head \in L /\ L \subseteq Cells /\ \A c \in L : cell[c] # Null
  BY <1>1, ListFacts
<1>3. Locals(Main, w)
  BY DEF BeginMonitor, Become, Same, Locals, Locks, TopicInv, TypeOK
<1> HIDE DEF L
<1>4. PICK r \in Reg : r = Idle /\ r.goal = "none" /\ r.next = Null
  BY IdleTyped DEF Idle
<1>5. w \in Reg /\ w.goal = "none" /\ w.next = Null /\ w.call = call /\ w.pc = "mlock"
      /\ w.cur = head
  <2> DEFINE z == [r EXCEPT !.call = call, !.pc = "mlock", !.cur = head]
  <2>1. w = z
    BY <1>4
  <2>2. call \in Calls /\ "mlock" \in Pcs /\ head \in Ref
    BY <1>2 DEF Monitors, Calls, Pcs, Ref
  <2>3. z \in Reg /\ z.goal = "none" /\ z.next = Null /\ z.call = call /\ z.pc = "mlock"
        /\ z.cur = head
    BY <1>4, <2>2 DEF Reg
  <2> HIDE DEF z, w
  <2> QED
    BY <2>1, <2>3
<1> HIDE DEF w
<1>6. Role(Main, w) /\ Stands(w, cell)
  BY <1>2, <1>5, ListAssumption DEF Role, Stands, WalkPcs, Landed
<1>7. MainAt(w, L, head, cell)
  BY <1>2, <1>5 DEF MainAt, UsesNode
<1>8. Good(Main, w, L, head, cell)
  BY <1>1, <1>5, <1>6, <1>7 DEF Good
<1> QED
  BY <1>1, <1>3, <1>5, <1>8, SettledStep DEF L, WalkPcs

LEMMA MonitorLockStep ==
    ASSUME TopicInv, NEW t \in Threads, MonitorLock(t)
    PROVE  TopicInv'
<1> DEFINE L == Linked(head, cell)
           r == reg[t]
           n == cell[r.cur].next
           w == [r EXCEPT !.pc = "mdlock", !.next = n]
<1>1. /\ Good(t, r, L, head, cell) /\ IsList(L, head, cell)
      /\ r.pc = "mlock" /\ r.cur \in Cells /\ t \in {Main, Mqtt}
  BY GoodThreads DEF MonitorLock, At, Alive, Nodes, Threads
<1>2. Locals(t, w)
  BY <1>1, LockIsLocal DEF MonitorLock
<1>3. reg[t].pc # "free"
  BY <1>1
<1> HIDE DEF L, r
<1>4. r \in Reg /\ Role(t, r) /\ t = Main /\ MainAt(r, L, head, cell) /\ Stands(r, cell)
  BY <1>1 DEF Good, Role
<1>5. r.cur \in L /\ n \in L \cup {Null}
  BY <1>1, <1>4, ListFacts DEF MainAt, UsesNode
<1>6. n \in Ref
  BY <1>1, <1>5, ListFacts DEF Ref
<1> HIDE DEF n
<1>7. /\ w \in Reg /\ w.pc = "mdlock" /\ w.goal = r.goal /\ w.path = r.path /\ w.call = r.call
      /\ w.prev = r.prev /\ w.cur = r.cur /\ w.next = n
  BY <1>4, <1>6 DEF Reg, Pcs
<1> HIDE DEF w
<1>8. Role(t, w) /\ Stands(w, cell)
  BY <1>1, <1>4, <1>7, ListAssumption DEF Role, Stands, WalkPcs, Landed
<1>9. MainAt(w, L, head, cell)
  BY <1>1, <1>4, <1>5, <1>7 DEF MainAt, UsesNode, n, Role
<1>10. Good(t, w, L, head, cell)
  BY <1>1, <1>5, <1>7, <1>8, <1>9, ListAssumption DEF Good
<1> QED
  BY <1>2, <1>3, <1>7, <1>10, SettledStep DEF L, WalkPcs

LEMMA LookStep ==
    ASSUME TopicInv, NEW t \in Threads, NEW expired \in BOOLEAN, Look(t, expired)
    PROVE  TopicInv'
<1> DEFINE L == Linked(head, cell)
           r == reg[t]
           p == cell[r.cur].path
           g == IF r.call = "data_monitor" THEN "drop" ELSE "delete"
           w == [r EXCEPT !.path = p]
<1>1. /\ Good(t, r, L, head, cell) /\ Nodes(L, head, cell, reg[Main]) /\ IsList(L, head, cell)
      /\ r.pc = "look" /\ r.cur \in Cells /\ cell \in [Cells -> Cell \cup {Null}]
      /\ t \in {Main, Mqtt}
  BY GoodThreads DEF Look, At, Alive, Nodes, Threads
<1>2. Locals(t, IF expired THEN Walk(w, g) ELSE Done(r))
  BY <1>1, LockIsLocal DEF Look
<1>3. reg[t].pc # "free"
  BY <1>1
<1> HIDE DEF L, r
<1>4. r \in Reg /\ t = Main /\ t # Mqtt /\ MainAt(r, L, head, cell)
  BY <1>1, ListAssumption DEF Good, Role
<1>5. /\ r.cur \in L /\ r.next = cell[r.cur].next /\ r.next \in L \cup {Null}
      /\ L \subseteq Cells /\ \A c \in L : cell[c] # Null /\ cell[c].next # c
  BY <1>1, <1>4, ListFacts DEF MainAt, UsesNode
<1>6. CASE expired
  <2>1. p \in Topics
    BY <1>1, <1>5 DEF Cell
  <2>2. r.next # Null => cell[r.next].path # p
    BY <1>1, <1>5 DEF Nodes
  <2> HIDE DEF p
  <2>3. w \in Reg /\ w.path = p /\ w.next = r.next
    BY <1>4, <2>1 DEF Reg
  <2> HIDE DEF w
  <2>4. MayWalk(t, w, g, L, cell)
    BY <1>4, <1>5, <2>1, <2>2, <2>3 DEF MayWalk, Goals
  <2>5. Good(t, Walk(w, g), L, head, cell) /\ Walk(w, g).pc = "enter"
    BY <2>4, WalkIsGood
  <2> QED
    BY <1>2, <1>3, <1>6, <2>5, SettledStep DEF L, WalkPcs
<1>7. CASE ~expired
  <2>1. Good(t, Done(r), L, head, cell) /\ Done(r).pc \in {"idle", "mlock"}
    BY <1>4, <1>5, DoneIsGood
  <2> QED
    BY <1>2, <1>3, <1>7, <2>1, SettledStep DEF L, WalkPcs
<1> QED
  BY <1>6, <1>7

LEMMA FaultStep ==
    ASSUME TopicInv, NEW t \in Threads, Fault(t)
    PROVE  TopicInv'
<1>1. /\ UNCHANGED <<head, cell, nodeLock, dataLock, reg, seen>>
      /\ fault' \in [thread : Threads \cup {Null}, kind : {"none", "null", "node", "lock", "data"}]
  BY DEF Fault, Locks
<1> QED
  BY <1>1 DEF TopicInv, TypeOK, NodesInv, RoleInv, StandsInv, MainInv, SeesInv

-------------------------------------------------------------------------------
(* The steps that write to nodes and links.                                *)

(* The registers of a thread whose place stays the same.                   *)
Like(w, r) ==
    /\ w \in Reg
    /\ w.call = r.call /\ w.goal = r.goal /\ w.pc = r.pc /\ w.path = r.path
    /\ w.prev = r.prev /\ w.cur = r.cur /\ w.next = r.next
    /\ r.pc \in {"pass", "assign"} => w.data \in Data /\ w.from = Null

LEMMA RacedIsLike ==
    ASSUME NEW r \in Reg, r.pc \in {"pass", "assign"} => r.data \in Data /\ r.from = Null
    PROVE  Like([r EXCEPT !.raced = TRUE], r)
BY DEF Like, Reg

LEMMA DataGoneIs ==
    ASSUME NEW r \in Reg, NEW c \in Cells, NEW w, w = DataGone(r, c)
    PROVE  /\ w \in Reg /\ w.call = r.call /\ w.goal = r.goal /\ w.pc = r.pc /\ w.path = r.path
           /\ w.topic_ma = r.topic_ma /\ w.data_ma = r.data_ma /\ w.raced = r.raced
           /\ w.prev = r.prev /\ w.cur = r.cur /\ w.next = r.next /\ w.found = r.found
           /\ w.data = IF r.from = c THEN Dangling ELSE r.data
           /\ w.from = IF r.from = c THEN Null ELSE r.from
<1>1. CASE r.from = c
  <2>1. w = [r EXCEPT !.data = Dangling, !.from = Null]
    BY <1>1 DEF DataGone
  <2> QED
    BY <1>1, <2>1 DEF Reg
<1>2. CASE r.from # c
  BY <1>2 DEF DataGone
<1> QED
  BY <1>1, <1>2

LEMMA DataGoneIsLike ==
    ASSUME NEW r \in Reg, NEW c \in Cells, r.pc \in {"pass", "assign"} =>
           r.data \in Data /\ r.from = Null
    PROVE  Like(DataGone(r, c), r)
<1> DEFINE w == DataGone(r, c)
<1>1. w = DataGone(r, c)
  OBVIOUS
<1> HIDE DEF w
<1> QED
  BY <1>1, DataGoneIs, ListAssumption DEF Like

LEMMA GoneIs ==
    ASSUME NEW r \in Reg, NEW c \in Cells, NEW w, w = Gone(r, c)
    PROVE  /\ w \in Reg /\ w.call = r.call /\ w.goal = r.goal /\ w.pc = r.pc /\ w.path = r.path
           /\ w.topic_ma = r.topic_ma /\ w.data_ma = r.data_ma /\ w.raced = r.raced
           /\ w.prev = r.prev /\ w.found = r.found
           /\ w.cur = IF r.cur = c THEN Dangling ELSE r.cur
           /\ w.next = IF r.next = c THEN Dangling ELSE r.next
           /\ w.data = IF r.from = c THEN Dangling ELSE r.data
           /\ w.from = IF r.from = c THEN Null ELSE r.from
<1> DEFINE r2 == DataGone(r, c)
           x == IF r2.cur = c THEN Dangling ELSE r2.cur
           y == IF r2.next = c THEN Dangling ELSE r2.next
           z == [r2 EXCEPT !.cur = x, !.next = y]
<1>1. r2 = DataGone(r, c)
  OBVIOUS
<1>2. w = z
  BY DEF Gone
<1> HIDE DEF r2
<1>3. /\ r2 \in Reg /\ r2.call = r.call /\ r2.goal = r.goal /\ r2.pc = r.pc /\ r2.path = r.path
      /\ r2.topic_ma = r.topic_ma /\ r2.data_ma = r.data_ma /\ r2.raced = r.raced
      /\ r2.prev = r.prev /\ r2.cur = r.cur /\ r2.next = r.next /\ r2.found = r.found
      /\ r2.data = IF r.from = c THEN Dangling ELSE r.data
      /\ r2.from = IF r.from = c THEN Null ELSE r.from
  BY <1>1, DataGoneIs
<1>4. x \in Ref /\ y \in Ref
  BY <1>3 DEF Reg, Ref
<1>5. x = (IF r.cur = c THEN Dangling ELSE r.cur) /\ y = (IF r.next = c THEN Dangling ELSE r.next)
  BY <1>3
<1> HIDE DEF x, y
<1>6. /\ z \in Reg /\ z.call = r2.call /\ z.goal = r2.goal /\ z.pc = r2.pc /\ z.path = r2.path
      /\ z.topic_ma = r2.topic_ma /\ z.data_ma = r2.data_ma /\ z.raced = r2.raced
      /\ z.prev = r2.prev /\ z.found = r2.found /\ z.data = r2.data /\ z.from = r2.from
      /\ z.cur = x /\ z.next = y
  BY <1>3, <1>4 DEF Reg
<1> HIDE DEF z
<1> QED
  BY <1>2, <1>3, <1>5, <1>6

(* The nodes f2 differ from f in their data only.                          *)
SameNodes(f, f2) ==
    /\ f2 \in [Cells -> Cell \cup {Null}]
    /\ \A c \in Cells : f2[c] # Null <=> f[c] # Null
    /\ \A c \in Cells : f[c] # Null => f2[c].path = f[c].path /\ f2[c].next = f[c].next

LEMMA LikeIsGood ==
    ASSUME NEW t \in Threads, NEW r, NEW w, NEW L, NEW h, NEW f, NEW f2,
           L \subseteq Cells, \A c \in L : f[c] # Null,
           Good(t, r, L, h, f), Like(w, r), SameNodes(f, f2)
    PROVE  Good(t, w, L, h, f2)
<1>1. Role(t, w)
  BY DEF Good, Like, Role
<1>2. Stands(w, f2)
  BY DEF Good, Like, Stands, SameNodes
<1>3. t = Main => MainAt(w, L, h, f2)
  <2>1. SUFFICES ASSUME t = Main PROVE MainAt(w, L, h, f2)
    OBVIOUS
  <2>2. MainAt(r, L, h, f)
    BY <2>1 DEF Good
  <2>3. \A c \in L : f2[c] # Null /\ f2[c].path = f[c].path /\ f2[c].next = f[c].next
    BY DEF SameNodes
  <2>4. IsPrev(w.prev, w.cur, L, h, f2) <=> IsPrev(r.prev, r.cur, L, h, f)
    BY <2>3 DEF IsPrev, Like
  <2>5. w.pc \in {"mdlock", "look"} => w.next = f2[w.cur].next
    BY <2>2, <2>3 DEF MainAt, Like, UsesNode
  <2>6. w.goal = "delete" /\ w.pc # "free" /\ w.next # Null => f2[w.next].path # w.path
    BY <2>2, <2>3 DEF MainAt, Like
  <2> QED
    BY <2>2, <2>3, <2>4, <2>5, <2>6 DEF MainAt, Like
<1> QED
  BY <1>1, <1>2, <1>3 DEF Good, Like

LEMMA LikeSees ==
    ASSUME NEW t \in Threads, NEW r, NEW w, NEW sn, NEW sn2, NEW L, NEW L2, NEW f, NEW f2,
           Sees(t, r, sn, L, f), Noticed(w, sn, sn2, L2, f2), Like(w, r),
           t = Main => (Listed(L2, f2, r.path) <=> Listed(L, f, r.path)),
           r.pc \in {"lock", "test"} /\ r.cur \in Cells =>
             /\ f2[r.cur].path = f[r.cur].path
             /\ Listed(L2, f2, r.path) /\ Ahead(r.cur, r.path, f) => Ahead(r.cur, r.path, f2)
    PROVE  Sees(t, w, sn2, L2, f2)
<1>1. SUFFICES ASSUME r.pc \in WalkPcs PROVE Sees(t, w, sn2, L2, f2)
  BY DEF Sees, Like
<1>2. w.pc = r.pc /\ w.path = r.path /\ w.cur = r.cur
  BY DEF Like
<1>3. /\ TRUE \in sn2 <=> (r.pc # "enter" /\ TRUE \in sn) \/ Listed(L2, f2, r.path)
      /\ FALSE \in sn2 <=> (r.pc # "enter" /\ FALSE \in sn) \/ ~Listed(L2, f2, r.path)
  BY <1>1, <1>2 DEF Noticed
<1>4. /\ t = Main => IF Listed(L, f, r.path) THEN FALSE \notin sn ELSE TRUE \notin sn
      /\ r.pc \in {"lock", "test"} /\ r.cur \in Cells =>
           /\ f[r.cur].path = r.path => TRUE \in sn
           /\ FALSE \notin sn => Ahead(r.cur, r.path, f)
  BY <1>1 DEF Sees
<1> QED
  BY <1>2, <1>3, <1>4 DEF Sees

LEMMA SameNodesSees ==
    ASSUME NEW L, NEW f, NEW f2, L \subseteq Cells, \A c \in L : f[c] # Null, SameNodes(f, f2)
    PROVE  /\ \A p : Listed(L, f2, p) <=> Listed(L, f, p)
           /\ \A c, p : Ahead(c, p, f) => Ahead(c, p, f2)
<1>1. ASSUME NEW T \in SUBSET Cells, Closed(T, f2)
      PROVE  Closed(T, f)
  BY <1>1 DEF Closed, SameNodes
<1> QED
  BY <1>1 DEF Listed, Ahead, SameNodes

LEMMA SameNodesNodes ==
    ASSUME NEW L, NEW h, NEW f, NEW f2, NEW r, NEW w, Nodes(L, h, f, r), SameNodes(f, f2),
           r.pc = "free" => w.pc = "free" /\ w.cur = r.cur
    PROVE  Nodes(L, h, f2, w)
<1>1. IsList(L, h, f) /\ L \subseteq Cells /\ \A c \in L : f[c] # Null
  BY ListFacts DEF Nodes
<1>2. IsList(L, h, f2)
  BY <1>1, ListSame DEF SameNodes
<1> QED
  BY <1>1, <1>2 DEF Nodes, SameNodes

(* A node that a step leaves its path and its data.                        *)
SameNode(d) == cell'[d].path = cell[d].path /\ AsNode(cell'[d]) = AsNode(cell[d])

LEMMA DataStep ==
    ASSUME TopicInv, NEW t \in Threads, NEW w,
           SameNodes(cell, cell'), head' = head, fault' = fault, Remember,
           nodeLock' \in [Cells -> Lock], dataLock' \in [Cells -> Lock],
           DOMAIN reg' = Threads, reg' = [u \in Threads |-> reg'[u]], reg'[t] = w,
           reg[t].pc # "free", w.pc \notin WalkPcs \ {"enter"},
           Good(t, w, Linked(head, cell), head, cell'),
           \A u \in Threads : u # t => Like(reg'[u], reg[u])
    PROVE  TopicInv' /\ Linked(head', cell') = Linked(head, cell)
<1> DEFINE L == Linked(head, cell)
<1>1. IsList(L, head, cell) /\ Nodes(L, head, cell, reg[Main]) /\ Main \in Threads
  BY GoodThreads DEF Nodes
<1>2. L \subseteq Cells /\ \A c \in L : cell[c] # Null
  BY <1>1, ListFacts
<1>3. \A u \in Threads : reg'[u] \in Reg
  BY DEF Like, Good
<1>4. reg' \in [Threads -> Reg]
  BY <1>3
<1>5. cell' \in [Cells -> Cell \cup {Null}] /\ head' \in Cells \cup {Null}
  BY DEF SameNodes, TopicInv, TypeOK
<1> HIDE DEF L
<1>6. Nodes(L, head, cell', reg'[Main])
  <2>1. reg[Main].pc = "free" => reg'[Main].pc = "free" /\ reg'[Main].cur = reg[Main].cur
    BY <1>1 DEF Like
  <2> QED
    BY <1>1, <2>1, SameNodesNodes
<1>7. ASSUME NEW u \in Threads
      PROVE  /\ Good(u, reg'[u], L, head', cell')
             /\ \A sn : Noticed(reg'[u], seen[u], sn, L, cell') => Sees(u, reg'[u], sn, L, cell')
  <2>1. CASE u = t
    <3>1. Good(u, reg'[u], L, head', cell')
      BY <2>1 DEF L
    <3>2. \A sn : Noticed(w, seen[u], sn, L, cell') => Sees(u, w, sn, L, cell')
      BY DEF Noticed, Sees
    <3> QED
      BY <2>1, <3>1, <3>2
  <2>2. CASE u # t
    <3>1. Good(u, reg[u], L, head, cell) /\ Sees(u, reg[u], seen[u], L, cell)
      BY GoodThreads DEF L
    <3>2. Like(reg'[u], reg[u])
      BY <2>2
    <3>3. Good(u, reg'[u], L, head', cell')
      BY <1>2, <3>1, <3>2, LikeIsGood
    <3>4. /\ \A p : Listed(L, cell', p) <=> Listed(L, cell, p)
          /\ \A c, p : Ahead(c, p, cell) => Ahead(c, p, cell')
      BY <1>2, SameNodesSees
    <3>5. reg[u].cur \in Cells => cell'[reg[u].cur].path = cell[reg[u].cur].path
      BY <3>1 DEF Good, Stands, SameNodes
    <3>6. ASSUME NEW sn, Noticed(reg'[u], seen[u], sn, L, cell')
          PROVE  Sees(u, reg'[u], sn, L, cell')
      BY <3>1, <3>2, <3>4, <3>5, <3>6, LikeSees
    <3> QED
      BY <3>3, <3>6
  <2> QED
    BY <2>1, <2>2
<1>8. head' = head
  OBVIOUS
<1>9. Linked(head', cell') = L
  BY <1>6, <1>8, ListChain DEF Nodes
<1> QED
  BY <1>4, <1>5, <1>6, <1>7, <1>9, StepKeepsInv DEF L

LEMMA FreeDataStep ==
    ASSUME TopicInv, NEW t \in Threads, FreeData(t)
    PROVE  /\ TopicInv' /\ Linked(head', cell') = Linked(head, cell)
           /\ \A d \in Linked(head, cell) : SameNode(d)
<1> DEFINE L == Linked(head, cell)
           r == reg[t]
           c == r.cur
           n == cell[c]
           fr == (r.goal = "set" => r.data # NoData) /\ cell[r.cur].data # NoData
           w == [r EXCEPT !.pc = "assign", !.from = Null]
<1>1. /\ Good(t, r, L, head, cell) /\ IsList(L, head, cell)
      /\ cell \in [Cells -> Cell \cup {Null}]
      /\ r.pc = "free_data" /\ c \in Cells /\ r.data # Dangling /\ r \in Reg
  BY GoodThreads DEF FreeData, At, Alive, Nodes, Good
<1>2. /\ cell' = [cell EXCEPT ![c] = [n EXCEPT !.freed = fr]]
      /\ reg' = [u \in Threads |-> IF u = t THEN w ELSE IF fr THEN DataGone(reg[u], c) ELSE reg[u]]
      /\ UNCHANGED <<head, nodeLock, dataLock, fault>> /\ Remember
  BY DEF FreeData, Same, Locks
<1>3. fr \in BOOLEAN
  OBVIOUS
<1>4. nodeLock \in [Cells -> Lock] /\ dataLock \in [Cells -> Lock]
  BY DEF TopicInv, TypeOK
<1>5. \A u \in Threads : /\ reg[u] \in Reg
                         /\ reg[u].pc \in {"pass", "assign"} =>
                                reg[u].data \in Data /\ reg[u].from = Null
  BY GoodThreads DEF Good, Role
<1>6. n \in Cell
  BY <1>1 DEF Good, Stands
<1>7. reg[t].pc # "free"
  BY <1>1
<1> HIDE DEF fr, n, c, L
<1>8. /\ [n EXCEPT !.freed = fr] \in Cell /\ [n EXCEPT !.freed = fr].path = n.path
      /\ [n EXCEPT !.freed = fr].next = n.next
      /\ AsNode([n EXCEPT !.freed = fr]) = AsNode(n)
  BY <1>3, <1>6 DEF Cell, AsNode
<1>9. SameNodes(cell, cell')
  BY <1>1, <1>2, <1>6, <1>8, NullAssumption DEF SameNodes, n
<1>10. /\ w \in Reg /\ w.pc = "assign" /\ w.from = Null /\ w.data \in Data
       /\ w.call = r.call /\ w.goal = r.goal /\ w.path = r.path
       /\ w.prev = r.prev /\ w.cur = r.cur /\ w.next = r.next
  <2>1. PICK r0 \in Reg : r0 = r
    BY <1>1
  <2>2. [r0 EXCEPT !.pc = "assign", !.from = Null] \in Reg
    BY DEF Reg, Pcs
  <2>3. r0.data \in Data
    BY <1>1, <2>1 DEF Reg
  <2> HIDE DEF r
  <2> QED
    BY <2>1, <2>2, <2>3 DEF Reg
<1>11. Good(t, w, L, head, cell')
  <2> DEFINE w0 == w
  <2> HIDE DEF w0
  <2>1. /\ w0 \in Reg /\ w0.pc = "assign" /\ w0.from = Null /\ w0.data \in Data
        /\ w0.call = r.call /\ w0.goal = r.goal /\ w0.path = r.path
        /\ w0.prev = r.prev /\ w0.cur = r.cur /\ w0.next = r.next
    BY <1>10 DEF w0
  <2> HIDE DEF r
  <2>2. L \subseteq Cells /\ \A d \in L : cell[d] # Null
    BY <1>1, ListFacts
  <2>3. Role(t, w0)
    BY <1>1, <2>1 DEF Good, Role, WalkPcs
  <2>4. Stands(w0, cell')
    BY <1>1, <1>9, <2>1 DEF Good, Stands, Landed, SameNodes
  <2>5. t = Main => MainAt(w0, L, head, cell')
    BY <1>1, <1>9, <2>1, <2>2 DEF Good, MainAt, UsesNode, SameNodes, Role
  <2>6. Good(t, w0, L, head, cell')
    BY <1>1, <2>1, <2>3, <2>4, <2>5 DEF Good, UsesNode
  <2> QED
    BY <2>6 DEF w0
<1>12. ASSUME NEW u \in Threads, u # t
       PROVE  Like(reg'[u], reg[u])
  <2>1. Like(DataGone(reg[u], c), reg[u]) /\ Like(reg[u], reg[u])
    BY <1>1, <1>5, DataGoneIsLike DEF Like
  <2>2. reg'[u] = IF fr THEN DataGone(reg[u], c) ELSE reg[u]
    BY <1>2, <1>12
  <2> QED
    BY <2>1, <2>2
<1>13. reg'[t] = w /\ DOMAIN reg' = Threads /\ reg' = [u \in Threads |-> reg'[u]]
  BY <1>2
<1>14. w.pc \notin WalkPcs
  BY <1>10 DEF WalkPcs
<1>15. ASSUME NEW d \in Cells PROVE SameNode(d)
  <2>1. d # c => cell'[d] = cell[d]
    BY <1>1, <1>2
  <2>2. cell'[c] = [n EXCEPT !.freed = fr]
    BY <1>1, <1>2
  <2> QED
    BY <1>8, <2>1, <2>2 DEF SameNode, n
<1>16. L \subseteq Cells
  BY <1>1, ListFacts
<1> HIDE DEF w
<1> QED
  BY <1>2, <1>4, <1>7, <1>9, <1>11, <1>12, <1>13, <1>14, <1>15, <1>16, DataStep DEF L

(* What BecomeAndRace makes of the other threads.                          *)
LEMMA RacedOthers ==
    ASSUME TopicInv, NEW t \in Threads, NEW w, BecomeAndRace(t, w)
    PROVE  /\ DOMAIN reg' = Threads /\ reg' = [u \in Threads |-> reg'[u]] /\ reg'[t] = w
           /\ \A u \in Threads : u # t => Like(reg'[u], reg[u])
<1>1. reg' = [u \in Threads |-> IF u = t THEN w
                                ELSE IF reg[u].path = reg[t].path
                                THEN [reg[u] EXCEPT !.raced = TRUE]
                                ELSE reg[u]]
  BY DEF BecomeAndRace
<1>2. ASSUME NEW u \in Threads, u # t
      PROVE  Like(reg'[u], reg[u])
  <2>1. PICK r \in Reg : r = reg[u]
                    /\ (r.pc \in {"pass", "assign"} => r.data \in Data /\ r.from = Null)
    BY GoodThreads DEF Good, Role
  <2>2. Like([r EXCEPT !.raced = TRUE], r) /\ Like(r, r)
    BY <2>1, RacedIsLike DEF Like
  <2>3. reg'[u] = IF r.path = reg[t].path THEN [r EXCEPT !.raced = TRUE] ELSE r
    BY <1>1, <1>2, <2>1
  <2> QED
    BY <2>1, <2>2, <2>3
<1> QED
  BY <1>1, <1>2

LEMMA AssignedIs ==
    ASSUME NEW n \in Cell, NEW r \in Reg, r.goal # "drop" => r.data \in Data
    PROVE  /\ Assigned(n, r) \in Cell /\ Assigned(n, r).path = n.path
           /\ Assigned(n, r).next = n.next
           /\ r.goal = "drop" => AsNode(Assigned(n, r)) =
                [data |-> NoData, topic_ma |-> n.topic_ma, data_ma |-> 0]
           /\ r.goal # "drop" => AsNode(Assigned(n, r)) =
                [data |-> r.data, topic_ma |-> r.topic_ma, data_ma |-> r.data_ma]
<1>1. 0 \in TimeT /\ NoData \in Data
  BY DBAssumption DEF TimeT, Data
<1>2. r.topic_ma \in TimeT /\ r.data_ma \in TimeT
  BY DEF Reg
<1>3. CASE r.goal = "drop"
  <2> DEFINE a == [n EXCEPT !.data = NoData, !.data_ma = 0, !.freed = FALSE]
  <2>1. Assigned(n, r) = a
    BY <1>3 DEF Assigned
  <2>2. /\ a \in Cell /\ a.path = n.path /\ a.next = n.next
        /\ a.data = NoData /\ a.topic_ma = n.topic_ma /\ a.data_ma = 0
    BY <1>1 DEF Cell
  <2> HIDE DEF a
  <2> QED
    BY <1>3, <2>1, <2>2 DEF AsNode
<1>4. CASE r.goal # "drop"
  <2> DEFINE x == r.data
             y == r.topic_ma
             z == r.data_ma
             a == [n EXCEPT !.data = x, !.topic_ma = y, !.data_ma = z, !.freed = FALSE]
  <2>1. Assigned(n, r) = a
    BY <1>4 DEF Assigned
  <2>2. x \in Data /\ y \in TimeT /\ z \in TimeT
    BY <1>2, <1>4
  <2> HIDE DEF x, y, z
  <2>3. /\ a \in Cell /\ a.path = n.path /\ a.next = n.next
        /\ a.data = x /\ a.topic_ma = y /\ a.data_ma = z
    BY <2>2 DEF Cell
  <2> HIDE DEF a
  <2>4. AsNode(a) = [data |-> x, topic_ma |-> y, data_ma |-> z]
    BY <2>3 DEF AsNode
  <2> QED
    BY <1>4, <2>1, <2>3, <2>4 DEF x, y, z
<1> QED
  BY <1>3, <1>4

LEMMA AssignStep ==
    ASSUME TopicInv, NEW t \in Threads, Assign(t)
    PROVE  /\ TopicInv' /\ Linked(head', cell') = Linked(head, cell)
           /\ \A d \in Linked(head, cell) : d # reg[t].cur => SameNode(d)
           /\ cell[reg[t].cur] \in Cell
           /\ cell'[reg[t].cur] = Assigned(cell[reg[t].cur], reg[t])
<1> DEFINE L == Linked(head, cell)
           r == reg[t]
           c == r.cur
           n == cell[c]
<1>1. /\ Good(t, r, L, head, cell) /\ IsList(L, head, cell)
      /\ cell \in [Cells -> Cell \cup {Null}]
      /\ r.pc = "assign" /\ c \in Cells /\ r \in Reg
  BY GoodThreads DEF Assign, At, Alive, Nodes, Good
<1>2. /\ cell' = [cell EXCEPT ![c] = Assigned(n, r)]
      /\ nodeLock' = [nodeLock EXCEPT ![c] = Released(nodeLock[c], t)]
      /\ dataLock' = [dataLock EXCEPT ![c] = Released(dataLock[c], t)]
      /\ BecomeAndRace(t, Done(r)) /\ head' = head /\ fault' = fault /\ Remember
  BY DEF Assign, Same
<1>3. nodeLock' \in [Cells -> Lock] /\ dataLock' \in [Cells -> Lock]
  <2>1. nodeLock \in [Cells -> Lock] /\ dataLock \in [Cells -> Lock]
    BY DEF TopicInv, TypeOK
  <2>2. Released(nodeLock[c], t) \in Lock /\ Released(dataLock[c], t) \in Lock
    BY <1>1, <2>1, LockTypes
  <2> QED
    BY <1>2, <2>1, <2>2
<1>4. n \in Cell
  BY <1>1 DEF Good, Stands
<1>5. reg[t].pc # "free"
  BY <1>1
<1>6. /\ DOMAIN reg' = Threads /\ reg' = [u \in Threads |-> reg'[u]] /\ reg'[t] = Done(r)
      /\ \A u \in Threads : u # t => Like(reg'[u], reg[u])
  BY <1>2, RacedOthers
<1> HIDE DEF L, r, n
<1>7. r.data \in Data
  BY <1>1 DEF Good, Role
<1>8. /\ Assigned(n, r) \in Cell /\ Assigned(n, r).path = n.path
      /\ Assigned(n, r).next = n.next
  BY <1>1, <1>4, <1>7, AssignedIs
<1>9. SameNodes(cell, cell')
  <2> HIDE DEF c
  <2> QED
    BY <1>1, <1>2, <1>4, <1>8, NullAssumption DEF SameNodes, n
<1>10. L \subseteq Cells /\ \A d \in L : cell[d] # Null /\ cell'[d] # Null
  BY <1>1, <1>9, ListFacts DEF SameNodes
<1>11. (t = Main => r.next \in L \cup {Null}) /\ (t = Mqtt => r.next = Null)
  BY <1>1 DEF Good, MainAt, Role
<1>12. Good(t, Done(r), L, head, cell') /\ Done(r).pc \in {"idle", "mlock"}
  BY <1>1, <1>10, <1>11, DoneIsGood
<1>13. Done(r).pc \notin WalkPcs
  BY <1>12 DEF WalkPcs
<1>14. TopicInv' /\ Linked(head', cell') = L
  BY <1>2, <1>3, <1>5, <1>6, <1>9, <1>12, <1>13, DataStep DEF L
<1>15. /\ \A d \in Cells : d # c => cell'[d] = cell[d]
       /\ cell'[c] = Assigned(n, r)
  BY <1>1, <1>2
<1> QED
  BY <1>4, <1>10, <1>14, <1>15 DEF L, r, n, SameNode

(* Links change under a walk: what is ahead of it stays ahead.             *)
LEMMA AheadAppend ==
    ASSUME NEW L, NEW h, NEW f, NEW r, Nodes(L, h, f, r),
           NEW c \in Cells, f[c] = Null, NEW f2,
           \A d \in Cells : d # c /\ f[d] # Null =>
                /\ f2[d] # Null /\ f2[d].path = f[d].path
                /\ f[d].next # Null => f2[d].next = f[d].next,
           NEW b \in Cells, b # c, NEW p, Ahead(b, p, f)
    PROVE  Ahead(b, p, f2)
<1>1. SUFFICES ASSUME NEW T \in SUBSET Cells, b \in T, Closed(T, f2)
               PROVE  \E d \in T : f2[d] # Null /\ f2[d].path = p
  BY DEF Ahead
<1> DEFINE T2 == {d \in T : d # c /\ f[d] # Null}
<1>2. \A d \in Cells : f[d] # Null /\ f[d].next \in Cells => f[f[d].next] # Null
  BY ListFacts, ListAssumption DEF Nodes
<1>3. CASE f[b] # Null
  <2>1. T2 \in SUBSET Cells /\ b \in T2
    BY <1>1, <1>3
  <2>2. ASSUME NEW d \in T2, f[d].next \in Cells
        PROVE  f[d].next \in T2
    <3>1. d \in T /\ d # c /\ f[d] # Null /\ f[d].next # Null
      BY <2>2, ListAssumption
    <3>2. f2[d] # Null /\ f2[d].next = f[d].next
      BY <3>1
    <3>3. f[d].next \in T
      BY <1>1, <2>2, <3>1, <3>2 DEF Closed
    <3>4. f[f[d].next] # Null
      BY <1>2, <2>2, <3>1
    <3> QED
      BY <3>3, <3>4
  <2>3. Closed(T2, f)
    BY <2>2 DEF Closed
  <2>4. PICK d \in T2 : f[d] # Null /\ f[d].path = p
    BY <2>1, <2>3 DEF Ahead
  <2> QED
    BY <2>4
<1>4. CASE f[b] = Null
  <2>1. {b} \in SUBSET Cells /\ Closed({b}, f)
    BY <1>4 DEF Closed
  <2> QED
    BY <1>4, <2>1 DEF Ahead
<1> QED
  BY <1>3, <1>4

(* The nodes f2 are f with node c taken out, prev before it if there is one. *)
Without(c, prev, f, f2) ==
    /\ c \in Cells /\ f[c] # Null
    /\ prev \in Cells => f[prev] # Null /\ f[prev].next = c
    /\ \A d \in Cells : f[d] # Null =>
         /\ f2[d] # Null /\ f2[d].path = f[d].path
         /\ d = prev => f2[d].next = f[c].next
         /\ d # prev => f2[d].next = f[d].next

LEMMA AheadRemove ==
    ASSUME NEW c, NEW prev, NEW f, NEW f2, Without(c, prev, f, f2),
           NEW p, f[c].path # p, NEW b, Ahead(b, p, f)
    PROVE  Ahead(b, p, f2)
<1>0. /\ c \in Cells /\ f[c] # Null
      /\ prev \in Cells => f[prev] # Null /\ f[prev].next = c
      /\ \A d \in Cells : f[d] # Null =>
           /\ f2[d] # Null /\ f2[d].path = f[d].path
           /\ d = prev => f2[d].next = f[c].next
           /\ d # prev => f2[d].next = f[d].next
  BY DEF Without
<1>1. SUFFICES ASSUME NEW T \in SUBSET Cells, b \in T, Closed(T, f2)
               PROVE  \E d \in T : f2[d] # Null /\ f2[d].path = p
  BY DEF Ahead
<1> DEFINE T2 == IF prev \in T THEN T \cup {c} ELSE T
<1>2. T2 \in SUBSET Cells /\ b \in T2
  BY <1>0, <1>1
<1>3. ASSUME NEW d \in T2, f[d] # Null, f[d].next \in Cells
      PROVE  f[d].next \in T2
  <2>1. CASE d = prev
    <3>1. d \in T \/ d = c
      OBVIOUS
    <3>2. f[d].next = c
      BY <1>0, <1>2, <2>1
    <3> QED
      BY <1>0, <1>2, <2>1, <3>1, <3>2
  <2>2. CASE d # prev /\ d \in T
    <3>1. f2[d] # Null /\ f2[d].next = f[d].next
      BY <1>0, <1>1, <1>3, <2>2
    <3> QED
      BY <1>1, <1>3, <2>2, <3>1 DEF Closed
  <2>3. CASE d = c /\ prev \in T
    <3>1. f[prev] # Null
      BY <1>0, <1>1, <2>3
    <3>2. f2[prev] # Null /\ f2[prev].next = f[c].next
      BY <1>0, <1>1, <2>3, <3>1
    <3> QED
      BY <1>1, <1>3, <2>3, <3>2 DEF Closed
  <2> QED
    BY <2>1, <2>2, <2>3
<1>4. Closed(T2, f)
  BY <1>3 DEF Closed
<1> HIDE DEF T2
<1>5. PICK d \in T2 : f[d] # Null /\ f[d].path = p
  BY <1>2, <1>4 DEF Ahead
<1>6. d \in T
  BY <1>5 DEF T2
<1> QED
  BY <1>0, <1>1, <1>5, <1>6

LEMMA AheadFree ==
    ASSUME NEW c \in Cells, NEW f, NEW f2,
           \A d \in Cells : d # c => f2[d] = f[d],
           \A d \in Cells : f[d] # Null => f[d].next # c,
           NEW b, b # c, NEW p, Ahead(b, p, f)
    PROVE  Ahead(b, p, f2)
<1>1. SUFFICES ASSUME NEW T \in SUBSET Cells, b \in T, Closed(T, f2)
               PROVE  \E d \in T : f2[d] # Null /\ f2[d].path = p
  BY DEF Ahead
<1> DEFINE T2 == T \ {c}
<1>2. T2 \in SUBSET Cells /\ b \in T2
  BY <1>1
<1>3. Closed(T2, f)
  BY <1>1 DEF Closed
<1>4. PICK d \in T2 : f[d] # Null /\ f[d].path = p
  BY <1>2, <1>3 DEF Ahead
<1> QED
  BY <1>4

(* A step of main on the links.                                            *)
LEMMA ShapeStep ==
    ASSUME TopicInv, NEW w, NEW L2,
           nodeLock' \in [Cells -> Lock], dataLock' \in [Cells -> Lock],
           fault' = fault, Remember,
           cell' \in [Cells -> Cell \cup {Null}], head' \in Cells \cup {Null},
           DOMAIN reg' = Threads, reg' = [u \in Threads |-> reg'[u]], reg'[Main] = w,
           w.pc \notin WalkPcs \ {"enter"},
           Nodes(L2, head', cell', w),
           Good(Main, w, L2, head', cell'),
           Good(Mqtt, reg'[Mqtt], L2, head', cell'),
           \A sn : Noticed(reg'[Mqtt], seen[Mqtt], sn, L2, cell') =>
                       Sees(Mqtt, reg'[Mqtt], sn, L2, cell')
    PROVE  TopicInv'
<1>1. reg' \in [Threads -> Reg] /\ reg'[Main] = w
  BY DEF Good, Threads
<1>2. \A sn : Noticed(reg'[Main], seen[Main], sn, L2, cell') =>
                Sees(Main, reg'[Main], sn, L2, cell')
  BY <1>1 DEF Noticed, Sees
<1>3. ASSUME NEW u \in Threads
      PROVE  /\ Good(u, reg'[u], L2, head', cell')
             /\ \A sn : Noticed(reg'[u], seen[u], sn, L2, cell') => Sees(u, reg'[u], sn, L2, cell')
  BY <1>1, <1>2 DEF Threads
<1>4. Nodes(L2, head', cell', reg'[Main])
  BY <1>1
<1> QED
  BY <1>1, <1>3, <1>4, StepKeepsInv

(* The MQTT thread, when main changes links but frees nothing.             *)
LEMMA MqttStands ==
    ASSUME NEW r, NEW w, NEW L, NEW h, NEW f, NEW L2, NEW h2, NEW f2,
           Good(Mqtt, r, L, h, f), Like(w, r),
           \A d \in Cells : f[d] # Null => f2[d] # Null /\ f2[d].path = f[d].path
    PROVE  Good(Mqtt, w, L2, h2, f2)
<1>1. Role(Mqtt, w)
  BY DEF Good, Like, Role
<1>2. Stands(w, f2)
  BY DEF Good, Like, Stands
<1> QED
  BY <1>1, <1>2, ListAssumption DEF Good, Like

NewNode(r) == [path |-> r.path, next |-> Null, data |-> NoData, topic_ma |-> r.topic_ma,
               data_ma |-> 0, freed |-> FALSE]

LEMMA NewTyped ==
    ASSUME NEW r \in Reg, r.path \in Topics
    PROVE  NewNode(r) \in Cell /\ NewNode(r).path = r.path /\ NewNode(r).next = Null
BY DBAssumption DEF NewNode, Cell, Reg, TimeT, Data

LEMMA LinkStep ==
    ASSUME TopicInv, NEW t \in Threads, Link(t)
    PROVE  /\ TopicInv'
           /\ \E c \in Cells :
                /\ c \notin Linked(head, cell) /\ Linked(head', cell') = Linked(head, cell) \cup {c}
                /\ cell'[c] = NewNode(reg[t])
           /\ \A d \in Linked(head, cell) : SameNode(d)
           /\ \A d \in Linked(head, cell) : cell[d].path # reg[t].path
<1> DEFINE L == Linked(head, cell)
<1>1. PICK r \in Reg : r = reg[t]
  BY GoodThreads DEF Good
<1>2. /\ r.pc = "link" /\ r.goal = "last" /\ r.path \in Topics /\ t = Main
      /\ Nodes(L, head, cell, r) /\ MainAt(r, L, head, cell)
      /\ cell \in [Cells -> Cell \cup {Null}]
  BY <1>1, GoodThreads DEF Link, At, Good, Role
<1>3. /\ IsList(L, head, cell) /\ L \subseteq Cells /\ \A d \in L : cell[d] # Null
      /\ \A d \in Cells : cell[d] # Null => d \in L
      /\ \A d \in L : cell[d].path # r.path
      /\ IsPrev(r.prev, Null, L, head, cell) /\ r.next \in L \cup {Null}
  BY <1>2, ListFacts DEF Nodes, MainAt
<1> HIDE DEF L
<1>4. PICK c \in Cells :
        /\ cell[c] = Null
        /\ IF r.prev = Null
           THEN head' = c /\ cell' = [cell EXCEPT ![c] = NewNode(r)] /\ nodeLock' = nodeLock
           ELSE /\ cell' = [[cell EXCEPT ![c] = NewNode(r)] EXCEPT ![r.prev].next = c]
                /\ nodeLock' = [nodeLock EXCEPT ![r.prev] = Released(nodeLock[r.prev], t)]
                /\ head' = head
  BY <1>1 DEF Link, NewNode
<1>5. BecomeAndRace(Main, Done(r)) /\ dataLock' = dataLock /\ fault' = fault /\ Remember
  BY <1>1, <1>2 DEF Link, Same
<1>6. NewNode(r) \in Cell /\ NewNode(r).path = r.path /\ NewNode(r).next = Null
  BY <1>2, NewTyped
<1>7. c \notin L /\ Null \notin Cells /\ NewNode(r) # Null
  BY <1>3, <1>4, <1>6, ListAssumption, NullAssumption
<1>8. r.prev # Null => /\ r.prev \in L /\ r.prev \in Cells /\ r.prev # c
                       /\ cell[r.prev] \in Cell /\ cell[r.prev].next = Null
  BY <1>2, <1>3, <1>7 DEF IsPrev
<1> DEFINE new == NewNode(r)
           old == cell[r.prev]
<1>9. /\ cell' \in [Cells -> Cell \cup {Null}]
      /\ cell'[c] = new
      /\ \A d \in Cells : d # c /\ d # r.prev => cell'[d] = cell[d]
      /\ r.prev # Null => /\ cell'[r.prev] # Null /\ cell'[r.prev].next = c
                          /\ cell'[r.prev].path = cell[r.prev].path
                          /\ AsNode(cell'[r.prev]) = AsNode(cell[r.prev])
  <2>1. CASE r.prev = Null
    BY <1>2, <1>4, <1>6, <2>1
  <2>2. CASE r.prev # Null
    <3>1. cell' = [[cell EXCEPT ![c] = new] EXCEPT ![r.prev] = [old EXCEPT !.next = c]]
      <4>1. [cell EXCEPT ![c] = new][r.prev] = old
        BY <1>2, <1>8, <2>2
      <4> QED
        BY <1>4, <2>2, <4>1
    <3>2. /\ [old EXCEPT !.next = c] \in Cell /\ [old EXCEPT !.next = c].next = c
          /\ [old EXCEPT !.next = c].path = old.path
          /\ AsNode([old EXCEPT !.next = c]) = AsNode(old)
      BY <1>8, <2>2 DEF Cell, AsNode
    <3> HIDE DEF new
    <3>3. /\ cell' \in [Cells -> Cell \cup {Null}] /\ cell'[c] = new
          /\ \A d \in Cells : d # c /\ d # r.prev => cell'[d] = cell[d]
          /\ cell'[r.prev] = [old EXCEPT !.next = c]
      BY <1>2, <1>6, <1>8, <2>2, <3>1, <3>2 DEF new
    <3> QED
      BY <3>2, <3>3, NullAssumption
  <2> QED
    BY <2>1, <2>2
<1> HIDE DEF new, old
<1>10. head' = (IF r.prev = Null THEN c ELSE head) /\ head' \in Cells \cup {Null}
  BY <1>4 DEF TopicInv, TypeOK
<1>11. nodeLock' \in [Cells -> Lock] /\ dataLock' \in [Cells -> Lock]
  <2>1. nodeLock \in [Cells -> Lock] /\ dataLock \in [Cells -> Lock]
    BY DEF TopicInv, TypeOK
  <2>2. r.prev # Null => Released(nodeLock[r.prev], t) \in Lock
    BY <1>8, <2>1, LockTypes
  <2> QED
    BY <1>4, <1>5, <2>1, <2>2
<1> DEFINE L2 == L \cup {c}
<1>12. cell'[c] # Null /\ cell'[c].next = Null /\ cell'[c].path = r.path
  BY <1>6, <1>7, <1>9 DEF new
<1>13. IsList(L2, head', cell')
  <2>1. Relinked(r.prev, c, L, head, cell, head', cell')
    BY <1>3, <1>7, <1>9, <1>10 DEF Relinked
  <2> QED
    BY <1>3, <1>7, <1>12, <2>1, ListAppend
<1>14. \A d \in L : /\ cell'[d] # Null /\ cell'[d].path = cell[d].path
                    /\ cell[d].next # Null => cell'[d].next = cell[d].next
                    /\ cell'[d].next \in L2 \cup {Null}
  BY <1>3, <1>7, <1>8, <1>9, ListFacts
<1>15. \A d \in Cells : cell'[d] # Null => d \in L2
  BY <1>3, <1>7, <1>8, <1>9
<1>16. Nodes(L2, head', cell', Done(r))
  <2>1. ASSUME NEW a \in L2, NEW b \in L2, cell'[a].path = cell'[b].path
        PROVE  a = b
    BY <1>2, <1>3, <1>12, <1>14, <2>1 DEF Nodes
  <2> QED
    BY <1>12, <1>13, <1>14, <1>15, <2>1 DEF Nodes
<1>17. Good(Main, Done(r), L2, head', cell') /\ Done(r).pc \in {"idle", "mlock"}
  <2>1. L2 \subseteq Cells /\ (\A d \in L2 : cell'[d] # Null) /\ r.next \in L2 \cup {Null}
    BY <1>3, <1>12, <1>14
  <2> QED
    BY <2>1, DoneIsGood, ListAssumption DEF Threads
<1>18. /\ DOMAIN reg' = Threads /\ reg' = [u \in Threads |-> reg'[u]] /\ reg'[Main] = Done(r)
       /\ Like(reg'[Mqtt], reg[Mqtt]) /\ Mqtt \in Threads
  BY <1>5, RacedOthers, ListAssumption DEF Threads
<1>19. Good(Mqtt, reg[Mqtt], L, head, cell) /\ Sees(Mqtt, reg[Mqtt], seen[Mqtt], L, cell)
  BY <1>18, GoodThreads DEF L
<1>20. \A d \in Cells : cell[d] # Null => cell'[d] # Null /\ cell'[d].path = cell[d].path
  BY <1>3, <1>14
<1>21. Good(Mqtt, reg'[Mqtt], L2, head', cell')
  BY <1>18, <1>19, <1>20, MqttStands
<1>22. ASSUME reg[Mqtt].cur \in Cells
       PROVE  /\ cell'[reg[Mqtt].cur].path = cell[reg[Mqtt].cur].path
              /\ \A p : Ahead(reg[Mqtt].cur, p, cell) => Ahead(reg[Mqtt].cur, p, cell')
  <2>1. cell[reg[Mqtt].cur] # Null /\ reg[Mqtt].cur # c
    BY <1>4, <1>19, <1>22 DEF Good, Stands
  <2>2. \A d \in Cells : d # c /\ cell[d] # Null =>
            /\ cell'[d] # Null /\ cell'[d].path = cell[d].path
            /\ cell[d].next # Null => cell'[d].next = cell[d].next
    BY <1>3, <1>14
  <2>3. ASSUME NEW p, Ahead(reg[Mqtt].cur, p, cell)
        PROVE  Ahead(reg[Mqtt].cur, p, cell')
    BY <1>2, <1>4, <1>22, <2>1, <2>2, <2>3, AheadAppend
  <2> QED
    BY <1>20, <1>22, <2>1, <2>3
<1>23. ASSUME NEW sn, Noticed(reg'[Mqtt], seen[Mqtt], sn, L2, cell')
       PROVE  Sees(Mqtt, reg'[Mqtt], sn, L2, cell')
  BY <1>18, <1>19, <1>22, <1>23, LikeSees, ListAssumption
<1> DEFINE w == Done(r)
<1>24. w.pc \notin WalkPcs \ {"enter"}
  BY <1>17 DEF WalkPcs
<1>25. Linked(head', cell') = L2
  BY <1>13, ListChain
<1>26. \A d \in L : SameNode(d)
  BY <1>3, <1>7, <1>9 DEF SameNode
<1>27. c \in Cells /\ c \notin L /\ Linked(head', cell') = L \cup {c} /\ cell'[c] = NewNode(reg[t])
  BY <1>1, <1>7, <1>9, <1>25 DEF new
<1> HIDE DEF w, L2
<1>28. TopicInv'
  BY <1>5, <1>9, <1>10, <1>11, <1>16, <1>17, <1>18, <1>21, <1>23, <1>24, ShapeStep DEF w
<1> QED
  BY <1>1, <1>3, <1>26, <1>27, <1>28 DEF L

LEMMA UnlinkStep ==
    ASSUME TopicInv, NEW t \in Threads, Unlink(t)
    PROVE  /\ TopicInv' /\ Linked(head', cell') = Linked(head, cell) \ {reg[t].cur}
           /\ reg[t].cur \in Linked(head, cell) /\ cell[reg[t].cur].path = reg[t].path
           /\ \A d \in Linked(head, cell) : SameNode(d)
<1> DEFINE L == Linked(head, cell)
<1>1. PICK r \in Reg : r = reg[t]
  BY GoodThreads DEF Good
<1>2. /\ r.pc = "unlink" /\ r.goal = "delete" /\ t = Main /\ Role(t, r) /\ Stands(r, cell)
      /\ Nodes(L, head, cell, r) /\ MainAt(r, L, head, cell)
      /\ cell \in [Cells -> Cell \cup {Null}]
  BY <1>1, GoodThreads DEF Unlink, At, Good, Role
<1> HIDE DEF L
<1>3. /\ IsList(L, head, cell) /\ L \subseteq Cells /\ \A d \in L : cell[d] # Null
      /\ \A d \in Cells : cell[d] # Null => d \in L
      /\ \A d \in L : cell[d].next \in L \cup {Null} /\ cell[d].next # d
      /\ \A d, e \in L : cell[d].next = cell[e].next => d = e
      /\ \A d, e \in L : cell[d].path = cell[e].path => d = e
      /\ head # Null => head \in L /\ \A d \in L : cell[d].next # head
  BY <1>2, ListFacts DEF Nodes
<1> DEFINE c == r.cur
           n == cell[c].next
           old == cell[r.prev]
<1>4. /\ c \in L /\ c \in Cells /\ cell[c].path = r.path
      /\ IsPrev(r.prev, c, L, head, cell) /\ r.next \in L \cup {Null} /\ r.next # c
      /\ n \in L \cup {Null} /\ n # c /\ Null \notin Cells
  BY <1>2, <1>3, ListAssumption DEF MainAt, Stands, UsesNode, Landed
<1>5. /\ IF r.prev = Null THEN head' = n /\ cell' = cell
         ELSE cell' = [cell EXCEPT ![r.prev].next = n] /\ head' = head
      /\ nodeLock' = [k \in Cells |-> IF k \in {r.prev, c} THEN Released(nodeLock[k], t)
                                      ELSE nodeLock[k]]
      /\ BecomeAndRace(Main, [r EXCEPT !.pc = "free"])
      /\ dataLock' = dataLock /\ fault' = fault /\ Remember
  BY <1>1, <1>2 DEF Unlink, Same
<1> HIDE DEF c, n
<1>6. r.prev # Null => /\ r.prev \in L /\ r.prev \in Cells /\ r.prev # c
                       /\ cell[r.prev] \in Cell /\ cell[r.prev].next = c
  BY <1>2, <1>3, <1>4, NullAssumption DEF IsPrev
<1>7. /\ cell' \in [Cells -> Cell \cup {Null}]
      /\ \A d \in Cells : d # r.prev => cell'[d] = cell[d]
      /\ r.prev # Null => /\ cell'[r.prev] # Null /\ cell'[r.prev].next = n
                          /\ cell'[r.prev].path = cell[r.prev].path
                          /\ AsNode(cell'[r.prev]) = AsNode(cell[r.prev])
  <2>1. CASE r.prev = Null
    BY <1>2, <1>5, <2>1
  <2>2. CASE r.prev # Null
    <3>1. /\ [old EXCEPT !.next = n] \in Cell /\ [old EXCEPT !.next = n].next = n
          /\ [old EXCEPT !.next = n].path = old.path
          /\ AsNode([old EXCEPT !.next = n]) = AsNode(old)
      BY <1>3, <1>4, <1>6, <2>2 DEF Cell, AsNode
    <3>2. cell' = [cell EXCEPT ![r.prev] = [old EXCEPT !.next = n]]
      BY <1>5, <2>2
    <3> QED
      BY <1>2, <1>6, <2>2, <3>1, <3>2, NullAssumption
  <2> QED
    BY <2>1, <2>2
<1> HIDE DEF old
<1>8. head' = (IF r.prev = Null THEN n ELSE head) /\ head' \in Cells \cup {Null}
  BY <1>3, <1>4, <1>5 DEF TopicInv, TypeOK
<1>9. nodeLock' \in [Cells -> Lock] /\ dataLock' \in [Cells -> Lock]
  <2>1. nodeLock \in [Cells -> Lock] /\ dataLock \in [Cells -> Lock]
    BY DEF TopicInv, TypeOK
  <2>2. \A k \in Cells : Released(nodeLock[k], t) \in Lock
    BY <2>1, LockTypes
  <2> QED
    BY <1>5, <2>1, <2>2
<1> DEFINE L2 == L \ {c}
           w == [r EXCEPT !.pc = "free"]
<1>10. /\ w \in Reg /\ w.pc = "free" /\ w.goal = r.goal /\ w.path = r.path /\ w.call = r.call
       /\ w.prev = r.prev /\ w.cur = c /\ w.next = r.next
  BY DEF Reg, Pcs, c
<1>11. /\ DOMAIN reg' = Threads /\ reg' = [u \in Threads |-> reg'[u]] /\ reg'[Main] = w
       /\ Like(reg'[Mqtt], reg[Mqtt]) /\ Mqtt \in Threads
  BY <1>5, RacedOthers, ListAssumption DEF Threads
<1> HIDE DEF w
<1>12. IsList(L2, head', cell')
  <2>1. Relinked(r.prev, n, L, head, cell, head', cell')
    BY <1>3, <1>7, <1>8 DEF Relinked
  <2> QED
    BY <1>3, <1>4, <2>1, ListRemove DEF n
<1>13. \A d \in L : /\ cell'[d] # Null /\ cell'[d].path = cell[d].path
                    /\ cell'[d].next = IF d = r.prev THEN n ELSE cell[d].next
  BY <1>3, <1>4, <1>6, <1>7
<1>14. \A d \in L : cell'[d].next \in L2 \cup {Null}
  <2>1. ASSUME NEW d \in L, d # r.prev PROVE cell[d].next # c
    BY <1>3, <1>4, <1>6, <2>1 DEF IsPrev
  <2> QED
    BY <1>3, <1>4, <1>13, <2>1
<1>15. \A d \in Cells : cell'[d] # Null => d \in L
  BY <1>3, <1>4, <1>6, <1>7
<1>16. Nodes(L2, head', cell', w)
  <2>1. ASSUME NEW a \in L, NEW b \in L, cell'[a].path = cell'[b].path
        PROVE  a = b
    BY <1>3, <1>13, <2>1
  <2> QED
    BY <1>10, <1>12, <1>14, <1>15, <2>1 DEF Nodes
<1>17. Good(Main, w, L2, head', cell')
  <2>1. Role(Main, w)
    BY <1>2, <1>10 DEF Role, WalkPcs
  <2>2. Stands(w, cell')
    BY <1>4, <1>10, <1>13 DEF Stands
  <2>3. MainAt(w, L2, head', cell')
    BY <1>2, <1>4, <1>10 DEF MainAt, UsesNode
  <2> QED
    BY <1>10, <2>1, <2>2, <2>3 DEF Good, UsesNode
<1>18. Good(Mqtt, reg[Mqtt], L, head, cell) /\ Sees(Mqtt, reg[Mqtt], seen[Mqtt], L, cell)
  BY <1>11, GoodThreads DEF L
<1>19. \A d \in Cells : cell[d] # Null => cell'[d] # Null /\ cell'[d].path = cell[d].path
  BY <1>3, <1>13
<1>20. Good(Mqtt, reg'[Mqtt], L2, head', cell')
  BY <1>11, <1>18, <1>19, MqttStands
<1>21. ASSUME NEW p, Listed(L2, cell', p), Ahead(reg[Mqtt].cur, p, cell)
       PROVE  Ahead(reg[Mqtt].cur, p, cell')
  <2>1. cell[c].path # p
    BY <1>3, <1>4, <1>13, <1>21 DEF Listed
  <2>2. Without(c, r.prev, cell, cell')
    BY <1>3, <1>4, <1>6, <1>13 DEF Without, n
  <2> QED
    BY <1>21, <2>1, <2>2, AheadRemove
<1>22. reg[Mqtt].cur \in Cells => cell'[reg[Mqtt].cur].path = cell[reg[Mqtt].cur].path
  BY <1>18, <1>19 DEF Good, Stands
<1>23. ASSUME NEW sn, Noticed(reg'[Mqtt], seen[Mqtt], sn, L2, cell')
       PROVE  Sees(Mqtt, reg'[Mqtt], sn, L2, cell')
  <2> HIDE DEF L2
  <2> QED
    BY <1>11, <1>18, <1>21, <1>22, <1>23, LikeSees, ListAssumption
<1>24. w.pc \notin WalkPcs \ {"enter"}
  BY <1>10 DEF WalkPcs
<1>25. Linked(head', cell') = L \ {c}
  BY <1>12, ListChain
<1>26. \A d \in L : SameNode(d)
  BY <1>3, <1>4, <1>7 DEF SameNode
<1> HIDE DEF L2
<1>27. TopicInv'
  BY <1>5, <1>7, <1>8, <1>9, <1>11, <1>16, <1>17, <1>20, <1>23, <1>24, ShapeStep
<1> QED
  BY <1>1, <1>4, <1>25, <1>26, <1>27 DEF L, c

LEMMA FreeStep ==
    ASSUME TopicInv, NEW t \in Threads, Free(t)
    PROVE  /\ TopicInv' /\ Linked(head', cell') = Linked(head, cell)
           /\ \A d \in Linked(head, cell) : SameNode(d)
<1> DEFINE L == Linked(head, cell)
<1>1. PICK r \in Reg : r = reg[t]
  BY GoodThreads DEF Good
<1>2. /\ r.pc = "free" /\ t = Main /\ Nodes(L, head, cell, r) /\ MainAt(r, L, head, cell)
      /\ cell \in [Cells -> Cell \cup {Null}]
  BY <1>1, GoodThreads DEF Free, At, Good, Role
<1> HIDE DEF L
<1>3. /\ IsList(L, head, cell) /\ L \subseteq Cells /\ \A d \in L : cell[d] # Null
      /\ r.cur \in Cells /\ r.cur \notin L /\ r.next \in L \cup {Null}
      /\ \A d \in Cells : cell[d] # Null /\ d # r.cur => d \in L
      /\ Null \notin Cells /\ Dangling # Null /\ Dangling \notin Cells
  BY <1>2, ListFacts, ListAssumption DEF Nodes, MainAt
<1> DEFINE c == r.cur
           x == Gone(Done(r), c)
           m == reg[Mqtt]
           y == Gone(m, c)
<1>4. /\ cell' = [cell EXCEPT ![c] = Null]
      /\ nodeLock' = [nodeLock EXCEPT ![c] = Unlocked]
      /\ dataLock' = [dataLock EXCEPT ![c] = Unlocked]
      /\ reg' = [u \in Threads |-> IF u = t THEN Gone(Done(r), c) ELSE Gone(reg[u], c)]
      /\ head' = head /\ fault' = fault /\ Remember
  BY <1>1 DEF Free, Same
<1>5. /\ DOMAIN reg' = Threads /\ reg' = [u \in Threads |-> reg'[u]]
      /\ reg'[Main] = x /\ reg'[Mqtt] = y /\ Mqtt \in Threads
  BY <1>2, <1>4, ListAssumption DEF Threads
<1> HIDE DEF c
<1>6. /\ cell' \in [Cells -> Cell \cup {Null}] /\ cell'[c] = Null
      /\ \A d \in Cells : d # c => cell'[d] = cell[d]
      /\ \A d \in L : cell'[d] = cell[d] /\ d # c
      /\ c \in Cells
  BY <1>2, <1>3, <1>4 DEF c
<1>7. nodeLock' \in [Cells -> Lock] /\ dataLock' \in [Cells -> Lock]
  BY <1>4 DEF TopicInv, TypeOK, Lock, Unlocked
<1>8. head' \in Cells \cup {Null}
  BY <1>4 DEF TopicInv, TypeOK
<1>9. Nodes(L, head, cell', x)
  <2>1. IsList(L, head, cell')
    BY <1>3, <1>6, ListSame
  <2>2. \A d \in Cells : cell'[d] # Null => d \in L /\ cell'[d] = cell[d]
    BY <1>3, <1>6 DEF c
  <2>3. \A d \in Cells : cell[d] # Null => cell[d].next \in L \cup {Null}
    BY <1>2 DEF Nodes
  <2>4. \A d, e \in Cells : cell[d] # Null /\ cell[e] # Null /\ cell[d].path = cell[e].path => d = e
    BY <1>2 DEF Nodes
  <2> QED
    BY <2>1, <2>2, <2>3, <2>4 DEF Nodes
<1>10. Good(Main, x, L, head, cell') /\ x.pc \in {"idle", "mlock"}
  <2> DEFINE d == Done(r)
  <2>1. Good(Main, d, L, head, cell') /\ d.pc \in {"idle", "mlock"}
    BY <1>3, <1>6, DoneIsGood, ListAssumption DEF Threads
  <2>2. Over(d, r)
    BY DoneMoves
  <2> HIDE DEF d
  <2>3. d \in Reg /\ d.from # c /\ d.cur # c /\ d.next # c
    BY <1>3, <2>2 DEF Over, c
  <2> DEFINE z == x
  <2>4. z = Gone(d, c)
    BY DEF d
  <2> HIDE DEF z, x
  <2>5. Like(z, d)
    BY <1>6, <2>1, <2>3, <2>4, GoneIs DEF Like
  <2>6. SameNodes(cell', cell')
    BY <1>6 DEF SameNodes
  <2>7. Good(Main, z, L, head, cell')
    <3>1. L \subseteq Cells /\ (\A e \in L : cell'[e] # Null) /\ Main \in Threads
      BY <1>3, <1>6 DEF Threads
    <3> QED
      BY <2>1, <2>5, <2>6, <3>1, LikeIsGood
  <2> QED
    BY <2>1, <2>5, <2>7 DEF Like, z
<1>11. Good(Mqtt, m, L, head, cell) /\ Sees(Mqtt, m, seen[Mqtt], L, cell)
  BY <1>5, GoodThreads DEF L
<1> HIDE DEF x, m
<1>12. y = Gone(m, c) /\ m \in Reg
  BY <1>11 DEF Good
<1> HIDE DEF y
<1>13. /\ y \in Reg /\ y.call = m.call /\ y.goal = m.goal /\ y.pc = m.pc /\ y.path = m.path
       /\ y.prev = m.prev
       /\ y.cur = (IF m.cur = c THEN Dangling ELSE m.cur)
       /\ y.next = (IF m.next = c THEN Dangling ELSE m.next)
       /\ y.data = (IF m.from = c THEN Dangling ELSE m.data)
       /\ y.from = (IF m.from = c THEN Null ELSE m.from)
  BY <1>6, <1>12, GoneIs
<1>14. Good(Mqtt, y, L, head, cell')
  <2>1. Role(Mqtt, m) /\ m.next = Null
    BY <1>11 DEF Good, Role
  <2>2. Role(Mqtt, y)
    BY <1>3, <1>6, <1>13, <2>1 DEF Role
  <2>3. Stands(y, cell')
    BY <1>3, <1>6, <1>11, <1>13 DEF Good, Stands
  <2>4. y.pc \in UsesNode => y.cur # Null
    BY <1>3, <1>11, <1>13 DEF Good
  <2> QED
    BY <1>13, <2>2, <2>3, <2>4, ListAssumption DEF Good
<1>15. ASSUME NEW sn, Noticed(y, seen[Mqtt], sn, L, cell')
       PROVE  Sees(Mqtt, y, sn, L, cell')
  <2>1. \A p : Listed(L, cell', p) <=> Listed(L, cell, p)
    BY <1>6 DEF Listed
  <2>2. ASSUME NEW p, m.cur # c, Ahead(m.cur, p, cell)
        PROVE  Ahead(m.cur, p, cell')
    <3>1. \A d \in Cells : cell[d] # Null => cell[d].next # c
      BY <1>2, <1>3 DEF Nodes, c
    <3> QED
      BY <1>6, <2>2, <3>1, AheadFree
  <2>3. y.cur \in Cells => y.cur = m.cur /\ m.cur # c /\ cell'[m.cur] = cell[m.cur]
    BY <1>3, <1>6, <1>13
  <2>4. SUFFICES ASSUME y.pc \in WalkPcs PROVE Sees(Mqtt, y, sn, L, cell')
    BY DEF Sees
  <2>5. /\ TRUE \in sn <=> (m.pc # "enter" /\ TRUE \in seen[Mqtt]) \/ Listed(L, cell', m.path)
        /\ FALSE \in sn <=> (m.pc # "enter" /\ FALSE \in seen[Mqtt]) \/ ~Listed(L, cell', m.path)
    BY <1>13, <1>15, <2>4 DEF Noticed
  <2>6. m.pc \in {"lock", "test"} /\ m.cur \in Cells =>
          /\ cell[m.cur].path = m.path => TRUE \in seen[Mqtt]
          /\ FALSE \notin seen[Mqtt] => Ahead(m.cur, m.path, cell)
    BY <1>11, <1>13, <2>4 DEF Sees
  <2> QED
    BY <1>13, <2>2, <2>3, <2>5, <2>6, ListAssumption DEF Sees
<1>16. x.pc \notin WalkPcs \ {"enter"}
  BY <1>10 DEF WalkPcs
<1>17. \A sn : Noticed(reg'[Mqtt], seen[Mqtt], sn, L, cell') => Sees(Mqtt, reg'[Mqtt], sn, L, cell')
  BY <1>5, <1>15
<1>18. /\ Nodes(L, head', cell', x) /\ Good(Main, x, L, head', cell')
       /\ Good(Mqtt, reg'[Mqtt], L, head', cell')
  BY <1>4, <1>5, <1>9, <1>10, <1>14
<1>19. Linked(head', cell') = L
  BY <1>4, <1>9, ListChain DEF Nodes
<1>20. \A d \in L : SameNode(d)
  BY <1>6 DEF SameNode
<1>21. TopicInv'
  BY <1>4, <1>5, <1>6, <1>7, <1>8, <1>16, <1>17, <1>18, ShapeStep
<1> QED
  BY <1>19, <1>20, <1>21 DEF L

-------------------------------------------------------------------------------
(* The invariant.                                                          *)

LEMMA InitHolds == Init => TopicInv
<1> SUFFICES ASSUME Init PROVE TopicInv
  OBVIOUS
<1>1. head = Null /\ cell = [c \in Cells |-> Null] /\ \A t \in Threads : reg[t] = Idle
  BY DEF Init
<1>2. IsList({}, head, cell)
  <2>1. Numbers(0, <<>>, {}, head, cell)
    <3>1. 0 \in 0 .. Cardinality(Cells) /\ 1 .. 0 = {}
      BY CellsFinite
    <3>2. <<>> \in [1 .. 0 -> Cells]
      BY <3>1
    <3> QED
      BY <1>1, <3>1, <3>2 DEF Numbers
  <2> QED
    BY <2>1, ListNumbers
<1>3. Linked(head, cell) = {}
  BY <1>2, ListChain
<1>4. /\ Idle \in Reg /\ Idle.pc = "idle" /\ Idle.goal = "none" /\ Idle.cur = Null
      /\ Idle.next = Null
  BY IdleTyped DEF Idle
<1>5. Nodes({}, head, cell, reg[Main])
  BY <1>1, <1>2 DEF Nodes
<1>6. TypeOK
  BY <1>1, <1>4 DEF Init, TypeOK, Lock, Unlocked, UsesNode, NoFault
<1>7. RoleInv
  BY <1>1, <1>4 DEF RoleInv, Role, WalkPcs
<1>8. StandsInv
  BY <1>1, <1>4, ListAssumption DEF StandsInv, Stands
<1>9. MainInv
  BY <1>1, <1>3, <1>4 DEF MainInv, MainAt, UsesNode, Threads
<1>10. SeesInv
  BY <1>1, <1>4 DEF SeesInv, Sees, WalkPcs
<1> QED
  BY <1>3, <1>5, <1>6, <1>7, <1>8, <1>9, <1>10 DEF TopicInv, NodesInv

LEMMA NextHolds ==
    ASSUME TopicInv, [Next]_vars
    PROVE  TopicInv'
<1>1. CASE UNCHANGED vars
  BY <1>1 DEF vars, TopicInv, TypeOK, NodesInv, RoleInv, StandsInv, MainInv, SeesInv
<1>2. ASSUME NEW t \in Threads, Step(t)
      PROVE  TopicInv'
  BY <1>2, EnterStep, HeadStep, LockNodeStep, TestStep, CloneStep, CopyStep, CloneNoMemoryStep,
     ReadStep, MeasureStep, PassStep, LockSteps, AddNoMemoryStep,
     FreeDataStep, AssignStep, LinkStep, UnlinkStep, FreeStep, MonitorLockStep, LookStep, FaultStep
     DEF Step
<1>3. CASE BeginCall
  BY <1>3, BeginStep
<1>4. ASSUME NEW call \in {"data_monitor", "topic_monitor"}, BeginMonitor(call)
      PROVE  TopicInv'
  BY <1>4, BeginMonitorStep DEF Monitors
<1>5. CASE Faulted
  BY <1>1, <1>5 DEF Faulted
<1> QED
  BY <1>1, <1>2, <1>3, <1>4, <1>5 DEF Next

LEMMA AlwaysTopicInv == Spec => []TopicInv
<1>1. Init => TopicInv
  BY InitHolds
<1>2. TopicInv /\ [Next]_vars => TopicInv'
  BY NextHolds
<1> QED
  BY <1>1, <1>2, PTL DEF Spec

(* TypeOK: the registers, nodes and locks have their types, and a thread   *)
(* that is about to use a node (lock, read or write it) has not run off    *)
(* the list's end.                                                         *)
THEOREM ListTypes == Spec => []TypeOK
<1>1. TopicInv => TypeOK
  BY DEF TopicInv
<1> QED
  BY <1>1, AlwaysTopicInv, PTL

(* ListIntact: addTopic and deleteTopic keep the list whole, with one node *)
(* per path and none lost but the one that deleteTopic is about to free.   *)
THEOREM ListStaysIntact == Spec => []ListIntact
<1>1. TopicInv => ListIntact
  <2> SUFFICES ASSUME TopicInv PROVE ListIntact
    OBVIOUS
  <2> DEFINE L == Linked(head, cell)
  <2>1. Nodes(L, head, cell, reg[Main])
    BY DEF TopicInv, NodesInv
  <2> HIDE DEF L
  <2>2. L \subseteq Cells /\ \A c \in L : cell[c] # Null
    BY <2>1, ListFacts DEF Nodes
  <2>3. Chain(head, cell)[Cardinality(Cells)] = Null
    BY <2>1, ListChain DEF Nodes
  <2> QED
    BY <2>1, <2>2, <2>3 DEF Nodes, ListIntact, L
<1> QED
  BY <1>1, AlwaysTopicInv, PTL

LEMMA FaultKeeps ==
    ASSUME TopicInv, [Next]_vars, MainKeepsNodes
    PROVE  MainKeepsNodes'
<1>1. ASSUME NEW t \in Threads, Fault(t)
      PROVE  MainKeepsNodes'
  <2>1. fault'.thread = t
    BY <1>1 DEF Fault
  <2>2. CASE t = Main
    <3>1. MainAt(reg[t], Linked(head, cell), head, cell)
      BY <2>2, GoodThreads DEF Good
    <3>2. Linked(head, cell) \subseteq Cells
      BY GoodThreads, ListFacts DEF Nodes
    <3>3. reg[t].pc # "head" /\ (reg[t].pc \in UsesNode => Alive(t))
      BY <1>1, <3>1, <3>2 DEF Fault, MainAt, Alive, UsesNode
    <3>4. ~(reg[t].pc = "test" /\ HeadMoved(reg[t]))
      BY <3>1 DEF MainAt, HeadMoved, ByHead
    <3>5. Alive(t) /\ reg[t].pc \notin {"head", "test"}
      BY <1>1, <3>3, <3>4 DEF Fault, UsesNode
    <3> QED
      BY <1>1, <3>5 DEF Fault, MainKeepsNodes
  <2>3. CASE t # Main
    BY <2>1, <2>3 DEF MainKeepsNodes
  <2> QED
    BY <2>2, <2>3
<1>2. CASE fault' = fault
  BY <1>2 DEF MainKeepsNodes
<1>3. ASSUME NEW t \in Threads, Step(t)
      PROVE  Fault(t) \/ fault' = fault
  BY <1>3 DEF Step, Enter, Head, LockNode, Test, Clone, Copy, CloneNoMemory, Read, Measure, Pass,
     RLock, DLock, FreeData, Assign, AddNoMemory, WLockPrev, WLockCur, Link, Unlink,
     Free, MonitorLock, MonitorDataLock, Look, Same
<1>4. BeginCall \/ (\E call \in {"data_monitor", "topic_monitor"} : BeginMonitor(call)) \/ Faulted
      => fault' = fault
  BY DEF BeginCall, Begin, BeginMonitor, Faulted, Same, vars
<1> QED
  BY <1>1, <1>2, <1>3, <1>4 DEF Next, vars

(* MainKeepsNodes: deleteTopic and topicMAMonitor free nodes in the main   *)
(* loop only, and what the main loop holds is in the list, so it never     *)
(* uses a freed node or a NULL head; it can still copy freed data.         *)
THEOREM MainNeverLosesANode == Spec => []MainKeepsNodes
<1>1. Init => MainKeepsNodes
  BY ListAssumption DEF Init, MainKeepsNodes, NoFault
<1>2. TopicInv /\ MainKeepsNodes /\ [Next]_vars => MainKeepsNodes'
  BY FaultKeeps
<1> QED
  BY <1>1, <1>2, AlwaysTopicInv, PTL DEF Spec

-------------------------------------------------------------------------------
(* Locks and walks.                                                        *)

(* What a step of thread t leaves of the other thread.                     *)
LEMMA OthersStay ==
    ASSUME TopicInv, NEW t \in Threads, Step(t), NEW u \in Threads, u # t
    PROVE  /\ reg'[u].pc = reg[u].pc /\ reg'[u].goal = reg[u].goal /\ reg'[u].path = reg[u].path
           /\ reg'[u].call = reg[u].call /\ reg'[u].prev = reg[u].prev
           /\ IF Free(t) /\ reg[u].cur = reg[t].cur THEN reg'[u].cur = Dangling
              ELSE reg'[u].cur = reg[u].cur
           /\ reg'[u].found = reg[u].found
           /\ reg'[u].topic_ma = reg[u].topic_ma /\ reg'[u].data_ma = reg[u].data_ma
           /\ reg'[u].data \in {reg[u].data, Dangling}
           /\ reg[u].raced => reg'[u].raced
<1>1. PICK r \in Reg : r = reg[u]
  BY GoodThreads DEF Good
<1>2. ASSUME NEW w, Become(t, w)
      PROVE  reg'[u] = reg[u]
  BY <1>2 DEF Become, TopicInv, TypeOK
<1>3. ASSUME NEW w, BecomeAndRace(t, w)
      PROVE  reg'[u] = r \/ reg'[u] = [r EXCEPT !.raced = TRUE]
  BY <1>1, <1>3 DEF BecomeAndRace
<1>4. \A w : w = [r EXCEPT !.raced = TRUE] =>
        /\ w.call = r.call /\ w.goal = r.goal /\ w.pc = r.pc /\ w.path = r.path
        /\ w.data = r.data /\ w.topic_ma = r.topic_ma /\ w.data_ma = r.data_ma
        /\ w.prev = r.prev /\ w.cur = r.cur /\ w.found = r.found /\ w.raced
  BY DEF Reg
<1>5. CASE FreeData(t)
  <2>1. reg[t].cur \in Cells
    BY <1>5 DEF FreeData, Alive
  <2>2. reg'[u] = DataGone(r, reg[t].cur) \/ reg'[u] = r
    BY <1>1, <1>5 DEF FreeData
  <2>3. ~Free(t)
    BY <1>5 DEF FreeData, Free, At
  <2> QED
    BY <1>1, <2>1, <2>2, <2>3, DataGoneIs
<1>6. CASE Free(t)
  <2>1. reg[t].cur \in Cells
    BY <1>6, GoodThreads DEF Free, At, Good, Role, MainAt
  <2>2. reg'[u] = Gone(r, reg[t].cur)
    BY <1>1, <1>6 DEF Free
  <2> QED
    BY <1>1, <1>6, <2>1, <2>2, GoneIs
<1>7. CASE Assign(t) \/ Link(t) \/ Unlink(t)
  <2>1. reg'[u] = r \/ reg'[u] = [r EXCEPT !.raced = TRUE]
    BY <1>3, <1>7 DEF Assign, Link, Unlink
  <2>2. ~Free(t)
    BY <1>7 DEF Assign, Link, Unlink, Free, At
  <2> QED
    BY <1>1, <1>4, <2>1, <2>2
<1>8. CASE Fault(t) \/ ~(FreeData(t) \/ Free(t) \/ Assign(t) \/ Link(t) \/ Unlink(t))
  <2>1. reg'[u] = reg[u]
    BY <1>2, <1>8 DEF Fault, Step, Enter, Head, LockNode, Test, Clone, Copy, CloneNoMemory, Read,
       Measure, Pass, RLock, DLock, AddNoMemory, WLockPrev, WLockCur,
       MonitorLock, MonitorDataLock, Look
  <2>2. CASE ~Free(t)
    BY <2>1, <2>2
  <2>3. CASE Free(t)
    BY <1>6, <2>3
  <2> QED
    BY <2>2, <2>3
<1> QED
  BY <1>5, <1>6, <1>7, <1>8

(* What a walk says when it ends.                                          *)
LEMMA MissingEnds ==
    ASSUME NEW r \in Reg, r.goal # "last"
    PROVE  Missing(r).found = FALSE /\ Missing(r).goal # "info"
<1>1. CASE r.goal = "exists"
  <2>1. /\ Missing(r) = Walk(r, "last")
        /\ Moved(Walk(r, "last"), r, "last", "enter", Null, Null, FALSE)
    BY <1>1, WalkMoves DEF Missing, Goals
  <2> QED
    BY <2>1 DEF Moved
<1>2. CASE r.goal # "exists"
  <2> DEFINE w == [r EXCEPT !.found = FALSE]
  <2>1. Missing(r) = Done(w)
    BY <1>2 DEF Missing
  <2>2. w \in Reg /\ w.found = FALSE
    BY DEF Reg
  <2> HIDE DEF w
  <2>3. Over(Done(w), w)
    BY <2>2, DoneMoves
  <2> QED
    BY <2>1, <2>2, <2>3 DEF Over
<1> QED
  BY <1>1, <1>2

LEMMA HitEnds ==
    ASSUME NEW r \in Reg, r.goal \notin {"none", "last"}
    PROVE  Hit(r).found = TRUE \/ Hit(r).goal = "info"
<1>1. CASE r.goal = "exists"
  <2>1. Hit(r) = Walk(r, "info") /\ Moved(Walk(r, "info"), r, "info", "enter", Null, Null, FALSE)
    BY <1>1, WalkMoves DEF Hit, Goals
  <2> QED
    BY <2>1 DEF Moved
<1>2. CASE r.goal # "exists"
  <2>1. r.goal \in {"clone", "info", "topic", "set", "drop", "delete"}
    BY <1>2 DEF Reg, Goals
  <2>2. \A x : [r EXCEPT !.pc = x, !.found = TRUE].found = TRUE
    BY DEF Reg
  <2> QED
    BY <1>2, <2>1, <2>2 DEF Hit
<1> QED
  BY <1>1, <1>2

WalkEnds(t) ==
    LET ends == /\ reg[t].pc \in WalkPcs /\ reg[t].goal # "last"
                /\ (reg'[t].pc \notin WalkPcs \/ reg'[t].goal # reg[t].goal)
        hit == reg'[t].found \/ reg'[t].goal = "info"
    IN  ends => hit \in seen[t]

LEMMA WalkStep ==
    ASSUME TopicInv, NEW t \in Threads, Step(t)
    PROVE  WalkEnds(t)
<1> DEFINE L == Linked(head, cell)
<1>1. PICK r \in Reg : r = reg[t]
  BY GoodThreads DEF Good
<1>2. Good(t, r, L, head, cell) /\ Sees(t, r, seen[t], L, cell) /\ IsList(L, head, cell)
  BY <1>1, GoodThreads DEF Nodes
<1>3. \A w : Become(t, w) => reg'[t] = w
  BY DEF Become, TopicInv, TypeOK
<1> HIDE DEF L
<1>4. SUFFICES ASSUME r.pc \in WalkPcs, r.goal # "last" PROVE WalkEnds(t)
  BY <1>1 DEF WalkEnds
<1>5. r.goal # "none" /\ r.path \in Topics
  BY <1>2, <1>4 DEF Good, Role, WalkPcs
<1>6. \A x \in WalkPcs : \A c \in Ref :
         /\ [r EXCEPT !.pc = x].pc \in WalkPcs /\ [r EXCEPT !.pc = x].goal = r.goal
         /\ [r EXCEPT !.cur = c, !.pc = x].pc \in WalkPcs
         /\ [r EXCEPT !.cur = c, !.pc = x].goal = r.goal
  BY DEF Reg
<1>7. ASSUME reg'[t].pc \in WalkPcs, reg'[t].goal = r.goal
      PROVE  WalkEnds(t)
  BY <1>1, <1>7 DEF WalkEnds
<1>8. ASSUME reg'[t].found = TRUE \/ reg'[t].goal = "info", TRUE \in seen[t]
      PROVE  WalkEnds(t)
  <2>1. (reg'[t].found \/ reg'[t].goal = "info") = TRUE
    BY <1>8
  <2> QED
    BY <1>8, <2>1, Zenon DEF WalkEnds
<1>9. ASSUME reg'[t].found = FALSE, reg'[t].goal # "info", FALSE \in seen[t]
      PROVE  WalkEnds(t)
  <2>1. (reg'[t].found \/ reg'[t].goal = "info") = FALSE
    BY <1>9
  <2> QED
    BY <1>9, <2>1, Zenon DEF WalkEnds
<1>10. CASE Enter(t)
  <2>1. reg'[t] = IF head = Null THEN Missing(r) ELSE [r EXCEPT !.pc = "head"]
    BY <1>1, <1>3, <1>10 DEF Enter
  <2>2. CASE head = Null
    <3>1. ~Listed(L, cell, r.path)
      BY <1>2, <2>2, ListFacts DEF Listed
    <3>2. FALSE \in seen[t]
      BY <1>2, <1>4, <3>1 DEF Sees
    <3> QED
      BY <1>4, <1>9, <2>1, <2>2, <3>2, MissingEnds
  <2>3. CASE head # Null
    BY <1>6, <1>7, <2>1, <2>3, Null \in Ref DEF WalkPcs, Ref
  <2> QED
    BY <2>2, <2>3
<1>11. CASE Head(t)
  <2>1. reg'[t] = [r EXCEPT !.cur = head, !.pc = "lock"] /\ head \in Ref
    BY <1>1, <1>3, <1>11 DEF Head, TopicInv, TypeOK, Ref
  <2> QED
    BY <1>6, <1>7, <2>1 DEF WalkPcs
<1>12. CASE LockNode(t)
  <2>1. reg'[t] = [r EXCEPT !.pc = "test"]
    BY <1>1, <1>3, <1>12 DEF LockNode
  <2> QED
    BY <1>6, <1>7, <2>1 DEF WalkPcs, Ref
<1>13. CASE Test(t)
  <2>1. reg'[t] = AfterTest(r) /\ r.pc = "test" /\ r.cur \in Cells
    BY <1>1, <1>3, <1>13 DEF Test, At, Alive
  <2>2. /\ cell[r.cur].path = r.path => TRUE \in seen[t]
        /\ FALSE \notin seen[t] => Ahead(r.cur, r.path, cell)
    BY <1>2, <1>4, <2>1 DEF Sees
  <2>3. cell[r.cur].next \in Cells \cup {Null}
    BY <1>2, <2>1, GoodThreads DEF Good, Stands, Cell
  <2>4. CASE Matches(r)
    <3>1. reg'[t] = Hit(r) /\ TRUE \in seen[t]
      BY <2>1, <2>2, <2>4 DEF AfterTest, Matches
    <3> QED
      BY <1>4, <1>5, <1>8, <3>1, HitEnds
  <2>5. CASE ~Matches(r)
    <3> DEFINE w == Past(r)
               prev == IF r.goal \in {"delete", "last"} THEN r.cur ELSE Dangling
    <3>1. Moved(w, r, r.goal, "lock", prev, cell[r.cur].next, r.found)
      BY <2>3, PastMoves
    <3>2. reg'[t] = IF cell[r.cur].next = Null THEN Missing(w) ELSE w
      BY <2>1, <2>5 DEF AfterTest
    <3> HIDE DEF w, prev
    <3>3. w \in Reg /\ w.goal = r.goal /\ w.pc = "lock"
      BY <3>1 DEF Moved
    <3>4. CASE cell[r.cur].next = Null
      <4>1. cell[r.cur].path # r.path
        BY <1>4, <2>5 DEF Matches
      <4>2. FALSE \in seen[t]
        BY <2>1, <2>2, <3>4, <4>1, NothingAhead
      <4> QED
        BY <1>4, <1>9, <3>2, <3>3, <3>4, <4>2, MissingEnds
    <3>5. CASE cell[r.cur].next # Null
      BY <1>7, <3>2, <3>3, <3>5 DEF WalkPcs
    <3> QED
      BY <3>4, <3>5
  <2> QED
    BY <2>4, <2>5
<1>14. CASE Fault(t)
  BY <1>1, <1>4, <1>7, <1>14 DEF Fault
<1>15. Enter(t) \/ Head(t) \/ LockNode(t) \/ Test(t) \/ Fault(t)
  BY <1>1, <1>4 DEF Step, Clone, Copy, CloneNoMemory, Read, Measure, Pass, RLock, DLock, FreeData,
     Assign, AddNoMemory, WLockPrev, WLockCur, Link, Unlink, Free,
     MonitorLock, MonitorDataLock, Look, At, WalkPcs
<1> QED
  BY <1>10, <1>11, <1>12, <1>13, <1>14, <1>15

LEMMA OtherWalks ==
    ASSUME TopicInv, [Next]_vars, NEW t \in Threads
    PROVE  WalkEnds(t)
<1>1. CASE Step(t)
  BY <1>1, WalkStep
<1>2. ASSUME NEW u \in Threads, u # t, Step(u)
      PROVE  WalkEnds(t)
  BY <1>2, OthersStay DEF WalkEnds
<1>3. ASSUME NEW u \in Threads, NEW w, Become(u, w), reg[u].pc = "idle"
      PROVE  WalkEnds(t)
  <2>1. t # u => reg'[t] = reg[t]
    BY <1>3 DEF Become, TopicInv, TypeOK
  <2> QED
    BY <1>3, <2>1 DEF WalkEnds, WalkPcs
<1>4. BeginCall => WalkEnds(t)
  BY <1>3, ListAssumption DEF BeginCall, Begin, At, Threads
<1>5. (\E call \in {"data_monitor", "topic_monitor"} : BeginMonitor(call)) => WalkEnds(t)
  BY <1>3 DEF BeginMonitor, At, Threads
<1>6. Faulted \/ UNCHANGED vars => WalkEnds(t)
  BY DEF Faulted, vars, WalkEnds
<1> QED
  BY <1>1, <1>2, <1>4, <1>5, <1>6 DEF Next

(* FindsWhatStays: whatever addTopic and deleteTopic of the other thread   *)
(* do to the links under a walk (getTopic, setTopic, deleteTopic,          *)
(* cloneTopic, topicExist), the walk finds its path if the path was in the *)
(* list all the time, and only if it was there at some time.               *)
THEOREM WalksFindWhatStays == Spec => FindsWhatStays
<1>1. TopicInv /\ [Next]_vars => \A t \in Threads : WalkEnds(t)
  BY OtherWalks
<1>2. TopicInv /\ [Next]_vars => [\A t \in Threads : WalkEnds(t)]_vars
  BY <1>1
<1>3. Spec => [][\A t \in Threads : WalkEnds(t)]_vars
  BY <1>2, AlwaysTopicInv, PTL DEF Spec
<1> QED
  BY <1>3 DEF FindsWhatStays, WalkEnds

-------------------------------------------------------------------------------
(* Locks: who holds one is where its call needs it.                        *)

(* What thread t holds, and that it holds nothing.                         *)
Holding(nl, dl, t, r) ==
    \A c \in Cells :
        /\ t \in nl[c].readers => ReadsNode(r, c)
        /\ t \in nl[c].writers => WritesNode(t, r, c)
        /\ t \in dl[c].readers => ReadsData(r, c)
        /\ t \in dl[c].writers => WritesData(r, c)
Bare(nl, dl, t) ==
    \A c \in Cells : /\ t \notin nl[c].readers /\ t \notin nl[c].writers
                     /\ t \notin dl[c].readers /\ t \notin dl[c].writers
NoNew(k, k2, t) ==
    \A c \in Cells : /\ t \in k2[c].readers => t \in k[c].readers
                     /\ t \in k2[c].writers => t \in k[c].writers

LEMMA TakenIs ==
    ASSUME NEW k \in [Cells -> Lock], NEW c \in Cells, NEW t \in Threads, NEW k2,
           k2 = [k EXCEPT ![c] = RLocked(k[c], t)]
    PROVE  \A d \in Cells, u \in Threads :
               /\ u \in k2[d].readers <=> u \in k[d].readers \/ (u = t /\ d = c)
               /\ u \in k2[d].writers <=> u \in k[d].writers
<1>1. PICK a \in Lock : a = k[c]
  OBVIOUS
<1>2. k2[c] = RLocked(a, t) /\ \A d \in Cells : d # c => k2[d] = k[d]
  BY <1>1
<1>3. RLocked(a, t).readers = a.readers \cup {t} /\ RLocked(a, t).writers = a.writers
  BY DEF RLocked, Lock
<1> QED
  BY <1>1, <1>2, <1>3

LEMMA WTakenIs ==
    ASSUME NEW k \in [Cells -> Lock], NEW c \in Cells, NEW t \in Threads, NEW k2,
           k2 = [k EXCEPT ![c] = WLocked(k[c], t)]
    PROVE  \A d \in Cells, u \in Threads :
               /\ u \in k2[d].writers <=> u \in k[d].writers \/ (u = t /\ d = c)
               /\ u \in k2[d].readers <=> u \in k[d].readers
<1>1. PICK a \in Lock : a = k[c]
  OBVIOUS
<1>2. k2[c] = WLocked(a, t) /\ \A d \in Cells : d # c => k2[d] = k[d]
  BY <1>1
<1>3. WLocked(a, t).writers = a.writers \cup {t} /\ WLocked(a, t).readers = a.readers
  BY DEF WLocked, Lock
<1> QED
  BY <1>1, <1>2, <1>3

LEMMA ReleasedIs ==
    ASSUME NEW k \in [Cells -> Lock], NEW c \in Cells, NEW t \in Threads, NEW k2,
           k2 = [k EXCEPT ![c] = Released(k[c], t)]
    PROVE  \A d \in Cells, u \in Threads :
               /\ u \in k2[d].readers <=> u \in k[d].readers /\ ~(u = t /\ d = c)
               /\ u \in k2[d].writers <=> u \in k[d].writers /\ ~(u = t /\ d = c)
<1>1. k2[c] = Released(k[c], t) /\ \A d \in Cells : d # c => k2[d] = k[d]
  OBVIOUS
<1>2. /\ Released(k[c], t).readers = k[c].readers \ {t}
      /\ Released(k[c], t).writers = k[c].writers \ {t}
  BY DEF Released
<1> QED
  BY <1>1, <1>2

LEMMA LockStep ==
    ASSUME TopicInv, LockInv, NEW t \in Threads, Step(t), ~Free(t),
           \A u \in Threads : u # t =>
                NoNew(nodeLock, nodeLock', u) /\ NoNew(dataLock, dataLock', u),
           Holding(nodeLock', dataLock', t, reg'[t])
    PROVE  LockInv'
<1>1. ASSUME NEW u \in Threads, u # t
      PROVE  Holding(nodeLock', dataLock', u, reg'[u])
  <2>1. reg'[u].pc = reg[u].pc /\ reg'[u].prev = reg[u].prev /\ reg'[u].cur = reg[u].cur
    BY <1>1, OthersStay
  <2>2. Holding(nodeLock, dataLock, u, reg[u])
    BY DEF LockInv, Holds, Holding
  <2> QED
    BY <1>1, <2>1, <2>2 DEF Holding, NoNew, ReadsNode, WritesNode, ReadsData, WritesData
<1>2. \A u \in Threads : Holding(nodeLock', dataLock', u, reg'[u])
  BY <1>1
<1> QED
  BY <1>2 DEF LockInv, Holds, Holding

(* Where a call holds nothing.                                             *)
LEMMA BareHands ==
    ASSUME TopicInv, LockInv, NEW t \in Threads,
           \/ reg[t].pc \in {"idle", "enter", "head", "lock", "read", "pass", "rlock", "wlock_prev",
                             "mlock", "free"}
           \/ reg[t].pc \in {"wlock_cur", "link"} /\ reg[t].prev = Null
    PROVE  Bare(nodeLock, dataLock, t)
BY ListAssumption DEF LockInv, Holds, Bare, ReadsNode, WritesNode, ReadsData, WritesData

LEMMA BareHolds ==
    ASSUME NEW nl, NEW dl, NEW t, NEW r, Bare(nl, dl, t)
    PROVE  Holding(nl, dl, t, r)
BY DEF Bare, Holding

(* Steps that take no lock and give none back.                             *)
LEMMA IdleLocks ==
    ASSUME TopicInv, LockInv, NEW t \in Threads, Step(t), ~Free(t),
           UNCHANGED nodeLock, UNCHANGED dataLock, Holding(nodeLock, dataLock, t, reg'[t])
    PROVE  LockInv'
<1>1. \A u \in Threads : NoNew(nodeLock, nodeLock', u) /\ NoNew(dataLock, dataLock', u)
  BY DEF NoNew
<1>2. Holding(nodeLock', dataLock', t, reg'[t])
  BY DEF Holding
<1> QED
  BY <1>1, <1>2, LockStep

LEMMA FreeLocks ==
    ASSUME TopicInv, LockInv, NEW t \in Threads, Free(t)
    PROVE  LockInv'
<1> DEFINE c == reg[t].cur
<1>0. Step(t)
  BY DEF Step
<1>1. nodeLock \in [Cells -> Lock] /\ dataLock \in [Cells -> Lock]
  BY DEF TopicInv, TypeOK
<1>2. c \in Cells /\ t = Main /\ reg[t].pc = "free"
  BY GoodThreads DEF Free, At, Good, Role, MainAt
<1>3. /\ nodeLock'[c] = Unlocked /\ dataLock'[c] = Unlocked
      /\ \A d \in Cells : d # c => nodeLock'[d] = nodeLock[d] /\ dataLock'[d] = dataLock[d]
  BY <1>1, <1>2 DEF Free
<1>4. ASSUME NEW u \in Threads, u # t
      PROVE  Holding(nodeLock', dataLock', u, reg'[u])
  <2>1. /\ reg'[u].pc = reg[u].pc /\ reg'[u].prev = reg[u].prev
        /\ reg[u].cur # c => reg'[u].cur = reg[u].cur
    BY <1>0, <1>4, OthersStay
  <2>2. Holding(nodeLock, dataLock, u, reg[u])
    BY DEF LockInv, Holds, Holding
  <2> HIDE DEF c
  <2> QED
    BY <1>2, <1>3, <1>4, <2>1, <2>2
       DEF Holding, ReadsNode, WritesNode, ReadsData, WritesData, Unlocked
<1>5. Bare(nodeLock, dataLock, t)
  BY <1>2, BareHands
<1>6. Bare(nodeLock', dataLock', t)
  <2> HIDE DEF c
  <2> QED
    BY <1>3, <1>5 DEF Bare, Unlocked
<1>7. \A u \in Threads : Holding(nodeLock', dataLock', u, reg'[u])
  BY <1>4, <1>6, BareHolds
<1> QED
  BY <1>7 DEF LockInv, Holds, Holding

LEMMA StayingLocks ==
    ASSUME TopicInv, LockInv, NEW t \in Threads,
           \/ Enter(t) \/ Head(t) \/ Read(t) \/ Measure(t) \/ Pass(t) \/ AddNoMemory(t)
           \/ Clone(t) \/ FreeData(t) \/ Fault(t)
    PROVE  LockInv'
<1>1. PICK r \in Reg : r = reg[t]
  BY GoodThreads DEF Good
<1>2. Step(t) /\ ~Free(t) /\ UNCHANGED nodeLock /\ UNCHANGED dataLock
  BY DEF Step, Enter, Head, Read, Measure, Pass, AddNoMemory, Clone, FreeData, Fault, Free, At,
         Same, Locks, UsesNode
<1>3. Holding(nodeLock, dataLock, t, r)
  BY <1>1 DEF LockInv, Holds, Holding
<1>4. CASE Enter(t) \/ Head(t) \/ Read(t) \/ Measure(t) \/ Pass(t) \/ AddNoMemory(t)
  <2>1. Bare(nodeLock, dataLock, t)
    BY <1>4, BareHands DEF Enter, Head, Read, Measure, Pass, AddNoMemory, At
  <2> QED
    BY <1>2, <2>1, BareHolds, IdleLocks
<1>5. CASE Clone(t) \/ FreeData(t)
  <2>1. ASSUME Clone(t)
        PROVE  reg'[t].cur = r.cur /\ r.pc = "clone" /\ reg'[t].pc = "copy"
    <3> DEFINE d == DataOf(r.cur)
               c == From(r.cur)
    <3>1. r.pc = "clone" /\ reg'[t] = [r EXCEPT !.pc = "copy", !.data = d, !.from = c]
      BY <1>1, <2>1 DEF Clone, Become, At, TopicInv, TypeOK
    <3> HIDE DEF d, c
    <3> QED
      BY <3>1 DEF Reg
  <2>2. ASSUME FreeData(t)
        PROVE  reg'[t].cur = r.cur /\ r.pc = "free_data" /\ reg'[t].pc = "assign"
    <3>1. r.pc = "free_data" /\ reg'[t] = [r EXCEPT !.pc = "assign", !.from = Null]
      BY <1>1, <2>2 DEF FreeData, At
    <3> QED
      BY <3>1 DEF Reg
  <2>3. /\ reg'[t].cur = r.cur
        /\ <<r.pc, reg'[t].pc>> \in {<<"clone", "copy">>, <<"free_data", "assign">>}
    BY <1>5, <2>1, <2>2
  <2>4. Holding(nodeLock, dataLock, t, reg'[t])
    BY <1>3, <2>3 DEF Holding, ReadsNode, WritesNode, ReadsData, WritesData
  <2> QED
    BY <1>2, <2>4, IdleLocks
<1>6. CASE Fault(t)
  <2>1. reg'[t] = r
    BY <1>1, <1>6 DEF Fault
  <2> QED
    BY <1>2, <1>3, <2>1, IdleLocks
<1> QED
  BY <1>4, <1>5, <1>6

(* Steps that take a lock.                                                 *)
LEMMA TakingLocks ==
    ASSUME TopicInv, LockInv, NEW t \in Threads,
           LockNode(t) \/ RLock(t) \/ DLock(t) \/ MonitorLock(t) \/ MonitorDataLock(t)
           \/ WLockPrev(t) \/ WLockCur(t)
    PROVE  LockInv'
<1> DEFINE L == Linked(head, cell)
<1>1. PICK r \in Reg : r = reg[t]
  BY GoodThreads DEF Good
<1>2. Step(t) /\ ~Free(t)
  BY DEF Step, LockNode, RLock, DLock, MonitorLock, MonitorDataLock, WLockPrev, WLockCur, Free, At
<1>3. nodeLock \in [Cells -> Lock] /\ dataLock \in [Cells -> Lock] /\ DOMAIN reg = Threads
  BY DEF TopicInv, TypeOK
<1>4. Holding(nodeLock, dataLock, t, r)
  BY <1>1 DEF LockInv, Holds, Holding
<1>5. \A w : Become(t, w) => reg'[t] = w
  BY <1>3 DEF Become
<1>6. CASE LockNode(t) \/ RLock(t) \/ MonitorLock(t)
  <2>1. /\ r.cur \in Cells /\ nodeLock' = [nodeLock EXCEPT ![r.cur] = RLocked(nodeLock[r.cur], t)]
        /\ dataLock' = dataLock
        /\ r.pc \in {"lock", "rlock", "mlock"}
    BY <1>1, <1>6 DEF LockNode, RLock, MonitorLock, At, Alive, Same
  <2>6. reg'[t].pc \in {"test", "dlock", "mdlock"} /\ reg'[t].cur = r.cur
    <3> DEFINE n == cell[r.cur].next
    <3>1. \/ reg'[t] = [r EXCEPT !.pc = "test"]
          \/ reg'[t] = [r EXCEPT !.pc = "dlock"]
          \/ reg'[t] = [r EXCEPT !.pc = "mdlock", !.next = n]
      BY <1>1, <1>5, <1>6 DEF LockNode, RLock, MonitorLock
    <3> HIDE DEF n
    <3> QED
      BY <3>1 DEF Reg
  <2>2. Bare(nodeLock, dataLock, t)
    BY <1>1, <2>1, BareHands
  <2>3. \A d \in Cells, u \in Threads :
            /\ u \in nodeLock'[d].readers <=> u \in nodeLock[d].readers \/ (u = t /\ d = r.cur)
            /\ u \in nodeLock'[d].writers <=> u \in nodeLock[d].writers
    BY <1>3, <2>1, TakenIs
  <2>4. \A u \in Threads : u # t => NoNew(nodeLock, nodeLock', u) /\ NoNew(dataLock, dataLock', u)
    BY <2>1, <2>3 DEF NoNew
  <2>5. Holding(nodeLock', dataLock', t, reg'[t])
    BY <2>1, <2>2, <2>3, <2>6 DEF Holding, Bare, ReadsNode
  <2> QED
    BY <1>2, <2>4, <2>5, LockStep
<1>7. CASE DLock(t)
  <2>1. /\ r.cur \in Cells /\ dataLock' = [dataLock EXCEPT ![r.cur] = WLocked(dataLock[r.cur], t)]
        /\ nodeLock' = nodeLock
        /\ r.pc = "dlock"
    BY <1>1, <1>7 DEF DLock, At, Alive, Same
  <2>5. reg'[t].pc = "free_data" /\ reg'[t].cur = r.cur
    <3>1. reg'[t] = [r EXCEPT !.pc = "free_data"]
      BY <1>1, <1>5, <1>7 DEF DLock
    <3> QED
      BY <3>1 DEF Reg
  <2>2. \A d \in Cells, u \in Threads :
            /\ u \in dataLock'[d].writers <=> u \in dataLock[d].writers \/ (u = t /\ d = r.cur)
            /\ u \in dataLock'[d].readers <=> u \in dataLock[d].readers
    BY <1>3, <2>1, WTakenIs
  <2>3. \A u \in Threads : u # t => NoNew(nodeLock, nodeLock', u) /\ NoNew(dataLock, dataLock', u)
    BY <2>1, <2>2 DEF NoNew
  <2>4. Holding(nodeLock', dataLock', t, reg'[t])
    BY <1>4, <2>1, <2>2, <2>5 DEF Holding, ReadsNode, WritesNode, ReadsData, WritesData
  <2> QED
    BY <1>2, <2>3, <2>4, LockStep
<1>8. CASE MonitorDataLock(t)
  <2>1. /\ r.cur \in Cells /\ dataLock' = [dataLock EXCEPT ![r.cur] = RLocked(dataLock[r.cur], t)]
        /\ nodeLock' = nodeLock
        /\ r.pc = "mdlock"
    BY <1>1, <1>8 DEF MonitorDataLock, At, Alive, Same
  <2>5. reg'[t].pc = "look" /\ reg'[t].cur = r.cur
    <3>1. reg'[t] = [r EXCEPT !.pc = "look"]
      BY <1>1, <1>5, <1>8 DEF MonitorDataLock
    <3> QED
      BY <3>1 DEF Reg
  <2>2. \A d \in Cells, u \in Threads :
            /\ u \in dataLock'[d].readers <=> u \in dataLock[d].readers \/ (u = t /\ d = r.cur)
            /\ u \in dataLock'[d].writers <=> u \in dataLock[d].writers
    BY <1>3, <2>1, TakenIs
  <2>3. \A u \in Threads : u # t => NoNew(nodeLock, nodeLock', u) /\ NoNew(dataLock, dataLock', u)
    BY <2>1, <2>2 DEF NoNew
  <2>4. Holding(nodeLock', dataLock', t, reg'[t])
    BY <1>4, <2>1, <2>2, <2>5 DEF Holding, ReadsNode, WritesNode, ReadsData, WritesData
  <2> QED
    BY <1>2, <2>3, <2>4, LockStep
<1>9. CASE WLockPrev(t) \/ WLockCur(t)
  <2>1. Good(t, r, L, head, cell) /\ L \subseteq Cells /\ Null \notin Cells
    BY <1>1, GoodThreads, ListFacts, ListAssumption DEF Nodes
  <2>2. PICK c \in Cells :
           /\ nodeLock' = [nodeLock EXCEPT ![c] = WLocked(nodeLock[c], t)]
           /\ dataLock' = dataLock /\ t = Main
           /\ reg'[t].cur = r.cur /\ reg'[t].prev = r.prev
           /\ \/ r.pc = "wlock_prev" /\ reg'[t].pc \in {"link", "wlock_cur"} /\ c = r.prev
              \/ r.pc = "wlock_cur" /\ reg'[t].pc = "unlink" /\ c = r.cur
    <3>1. CASE WLockPrev(t)
      <4>1. r.pc = "wlock_prev" /\ r.goal \in {"delete", "last"} /\ t = Main /\ r.prev \in Cells
        BY <1>1, <2>1, <3>1 DEF WLockPrev, At, Good, Role, MainAt, IsPrev, Threads
      <4>2. reg'[t] = [r EXCEPT !.pc = IF r.goal = "last" THEN "link" ELSE "wlock_cur"]
        BY <1>1, <1>5, <3>1 DEF WLockPrev
      <4>3. /\ nodeLock' = [nodeLock EXCEPT ![r.prev] = WLocked(nodeLock[r.prev], t)]
            /\ dataLock' = dataLock
        BY <1>1, <3>1 DEF WLockPrev, Same
      <4>4. /\ reg'[t].pc = IF r.goal = "last" THEN "link" ELSE "wlock_cur"
            /\ reg'[t].cur = r.cur /\ reg'[t].prev = r.prev
        BY <4>2 DEF Reg
      <4> QED
        BY <4>1, <4>3, <4>4
    <3>2. CASE WLockCur(t)
      <4>1. r.pc = "wlock_cur" /\ t = Main /\ r.cur \in Cells
        BY <1>1, <2>1, <3>2 DEF WLockCur, At, Good, Role, MainAt, Threads
      <4>2. reg'[t] = [r EXCEPT !.pc = "unlink"]
        BY <1>1, <1>5, <3>2 DEF WLockCur
      <4>3. /\ nodeLock' = [nodeLock EXCEPT ![r.cur] = WLocked(nodeLock[r.cur], t)]
            /\ dataLock' = dataLock
        BY <1>1, <3>2 DEF WLockCur, Same
      <4>4. reg'[t].pc = "unlink" /\ reg'[t].cur = r.cur /\ reg'[t].prev = r.prev
        BY <4>2 DEF Reg
      <4> QED
        BY <4>1, <4>3, <4>4
    <3> QED
      BY <1>9, <3>1, <3>2
  <2>3. \A d \in Cells, u \in Threads :
            /\ u \in nodeLock'[d].writers <=> u \in nodeLock[d].writers \/ (u = t /\ d = c)
            /\ u \in nodeLock'[d].readers <=> u \in nodeLock[d].readers
    <3>1. nodeLock' = [nodeLock EXCEPT ![c] = WLocked(nodeLock[c], t)]
      BY <2>2
    <3> QED
      BY <1>3, <3>1, WTakenIs
  <2>4. \A u \in Threads : u # t => NoNew(nodeLock, nodeLock', u) /\ NoNew(dataLock, dataLock', u)
    BY <2>2, <2>3 DEF NoNew
  <2>5. Holding(nodeLock', dataLock', t, reg'[t])
    BY <1>4, <2>2, <2>3 DEF Holding, ReadsNode, WritesNode, ReadsData, WritesData
  <2> QED
    BY <1>2, <2>4, <2>5, LockStep
<1> QED
  BY <1>6, <1>7, <1>8, <1>9

(* Steps that give locks back: afterwards the thread holds none.           *)
LEMMA GivingBack ==
    ASSUME TopicInv, LockInv, NEW t \in Threads, Step(t), ~Free(t),
           \A d \in Cells, u \in Threads :
               /\ u \in nodeLock'[d].readers => u \in nodeLock[d].readers
               /\ u \in nodeLock'[d].writers => u \in nodeLock[d].writers
               /\ u \in dataLock'[d].readers => u \in dataLock[d].readers
               /\ u \in dataLock'[d].writers => u \in dataLock[d].writers,
           Bare(nodeLock', dataLock', t)
    PROVE  LockInv'
<1>1. \A u \in Threads : NoNew(nodeLock, nodeLock', u) /\ NoNew(dataLock, dataLock', u)
  BY DEF NoNew
<1> QED
  BY <1>1, BareHolds, LockStep

LEMMA GivingLocks ==
    ASSUME TopicInv, LockInv, NEW t \in Threads,
           Copy(t) \/ CloneNoMemory(t) \/ Assign(t) \/ (\E x \in BOOLEAN : Look(t, x))
    PROVE  LockInv'
<1> DEFINE c == reg[t].cur
<1>1. Step(t) /\ ~Free(t) /\ c \in Cells /\ reg[t].pc \in {"clone", "copy", "assign", "look"}
  BY DEF Step, Copy, CloneNoMemory, Assign, Look, Free, At, Alive
<1>2. nodeLock \in [Cells -> Lock] /\ dataLock \in [Cells -> Lock]
  BY DEF TopicInv, TypeOK
<1>3. Holding(nodeLock, dataLock, t, reg[t])
  BY DEF LockInv, Holds, Holding
<1>4. nodeLock' = [nodeLock EXCEPT ![c] = Released(nodeLock[c], t)]
  BY DEF Copy, CloneNoMemory, Assign, Look
<1>5. \/ dataLock' = [dataLock EXCEPT ![c] = Released(dataLock[c], t)]
      \/ dataLock' = dataLock /\ reg[t].pc \in {"clone", "copy"}
  BY DEF Copy, CloneNoMemory, Assign, Look, Same, At
<1> HIDE DEF c
<1>6. \A d \in Cells, u \in Threads :
          /\ u \in nodeLock'[d].readers <=> u \in nodeLock[d].readers /\ ~(u = t /\ d = c)
          /\ u \in nodeLock'[d].writers <=> u \in nodeLock[d].writers /\ ~(u = t /\ d = c)
  BY <1>1, <1>2, <1>4, ReleasedIs
<1>7. \A d \in Cells : /\ t \notin nodeLock'[d].readers /\ t \notin nodeLock'[d].writers
                       /\ d # c => t \notin dataLock[d].readers /\ t \notin dataLock[d].writers
                       /\ reg[t].pc \in {"clone", "copy"} =>
                            t \notin dataLock[d].readers /\ t \notin dataLock[d].writers
  BY <1>1, <1>3, <1>6 DEF Holding, ReadsNode, WritesNode, ReadsData, WritesData, c
<1>8. CASE dataLock' = [dataLock EXCEPT ![c] = Released(dataLock[c], t)]
  <2>1. \A d \in Cells, u \in Threads :
            /\ u \in dataLock'[d].readers <=> u \in dataLock[d].readers /\ ~(u = t /\ d = c)
            /\ u \in dataLock'[d].writers <=> u \in dataLock[d].writers /\ ~(u = t /\ d = c)
    BY <1>1, <1>2, <1>8, ReleasedIs
  <2>2. Bare(nodeLock', dataLock', t)
    BY <1>7, <2>1 DEF Bare
  <2> QED
    BY <1>1, <1>6, <2>1, <2>2, GivingBack
<1>9. CASE dataLock' = dataLock /\ reg[t].pc \in {"clone", "copy"}
  <2>1. Bare(nodeLock', dataLock', t)
    BY <1>7, <1>9 DEF Bare
  <2> QED
    BY <1>1, <1>6, <1>9, <2>1, GivingBack
<1> QED
  BY <1>5, <1>8, <1>9

LEMMA TestLocks ==
    ASSUME TopicInv, LockInv, NEW t \in Threads, Test(t)
    PROVE  LockInv'
<1>1. PICK r \in Reg : r = reg[t]
  BY GoodThreads DEF Good
<1>2. Step(t) /\ ~Free(t) /\ r.cur \in Cells /\ r.pc = "test" /\ dataLock' = dataLock
  BY <1>1 DEF Step, Test, Free, At, Alive, Same
<1>3. nodeLock \in [Cells -> Lock] /\ Holding(nodeLock, dataLock, t, r)
  BY <1>1 DEF LockInv, Holds, Holding, TopicInv, TypeOK
<1>4. CASE KeepsLock(r)
  <2>1. nodeLock' = nodeLock
    BY <1>1, <1>4 DEF Test
  <2>2. reg'[t] = Hit(r)
    BY <1>1, <1>4 DEF Test, KeepsLock, AfterTest, Become, TopicInv, TypeOK
  <2>3. Hit(r) = [r EXCEPT !.pc = "clone", !.found = TRUE]
    BY <1>4 DEF KeepsLock, Hit
  <2>4. reg'[t].pc = "clone" /\ reg'[t].cur = r.cur
    <3>1. reg'[t] = [r EXCEPT !.pc = "clone", !.found = TRUE]
      BY <2>2, <2>3
    <3> QED
      BY <3>1 DEF Reg
  <2>5. Holding(nodeLock, dataLock, t, reg'[t])
    BY <1>2, <1>3, <2>4 DEF Holding, ReadsNode, WritesNode, ReadsData, WritesData
  <2> QED
    BY <1>2, <2>1, <2>5, IdleLocks
<1>5. CASE ~KeepsLock(r)
  <2> DEFINE c == r.cur
  <2>1. nodeLock' = [nodeLock EXCEPT ![c] = Released(nodeLock[c], t)]
    BY <1>1, <1>5 DEF Test
  <2> HIDE DEF c
  <2>2. \A d \in Cells, u \in Threads :
            /\ u \in nodeLock'[d].readers <=> u \in nodeLock[d].readers /\ ~(u = t /\ d = c)
            /\ u \in nodeLock'[d].writers <=> u \in nodeLock[d].writers /\ ~(u = t /\ d = c)
    BY <1>2, <1>3, <2>1, ReleasedIs DEF c
  <2>3. Bare(nodeLock', dataLock', t)
    BY <1>2, <1>3, <2>2 DEF Holding, ReadsNode, WritesNode, ReadsData, WritesData, Bare, c
  <2> QED
    BY <1>2, <2>2, <2>3, GivingBack
<1> QED
  BY <1>4, <1>5

LEMMA LinkLocks ==
    ASSUME TopicInv, LockInv, NEW t \in Threads, Link(t) \/ Unlink(t)
    PROVE  LockInv'
<1> DEFINE r == reg[t]
<1>1. Step(t) /\ ~Free(t) /\ r.pc \in {"link", "unlink"} /\ dataLock' = dataLock
  BY DEF Step, Link, Unlink, Free, At, Same
<1>2. nodeLock \in [Cells -> Lock] /\ Holding(nodeLock, dataLock, t, r) /\ Null \notin Cells
  BY ListAssumption DEF LockInv, Holds, Holding, TopicInv, TypeOK
<1>3. CASE r.pc = "link" /\ r.prev = Null
  <2>1. UNCHANGED nodeLock
    BY <1>3 DEF Link, Unlink, At
  <2>2. Bare(nodeLock, dataLock, t)
    BY <1>3, BareHands
  <2> QED
    BY <1>1, <2>1, <2>2, BareHolds, IdleLocks
<1>4. CASE r.pc = "link" /\ r.prev # Null
  <2> DEFINE c == r.prev
  <2>1. nodeLock' = [nodeLock EXCEPT ![c] = Released(nodeLock[c], t)]
    BY <1>4 DEF Link, Unlink, At
  <2>2. c \in Cells
    <3>1. Linked(head, cell) \subseteq Cells
      BY GoodThreads, ListFacts DEF Nodes
    <3> QED
      BY <1>4, <3>1, GoodThreads DEF Good, Role, MainAt, IsPrev
  <2> HIDE DEF r
  <2>3. \A d \in Cells, u \in Threads :
            /\ u \in nodeLock'[d].readers <=> u \in nodeLock[d].readers /\ ~(u = t /\ d = c)
            /\ u \in nodeLock'[d].writers <=> u \in nodeLock[d].writers /\ ~(u = t /\ d = c)
    BY <1>2, <2>1, <2>2, ReleasedIs
  <2>4. Bare(nodeLock', dataLock', t)
    BY <1>1, <1>2, <1>4, <2>3 DEF Holding, ReadsNode, WritesNode, ReadsData, WritesData, Bare
  <2> QED
    BY <1>1, <2>3, <2>4, GivingBack
<1>5. CASE r.pc = "unlink"
  <2>1. nodeLock' = [d \in Cells |-> IF d \in {r.prev, r.cur} THEN Released(nodeLock[d], t)
                                     ELSE nodeLock[d]]
    BY <1>5 DEF Link, Unlink, At
  <2> HIDE DEF r
  <2>2. \A d \in Cells : \/ nodeLock'[d] = nodeLock[d] /\ d \notin {r.prev, r.cur}
                         \/ /\ nodeLock'[d].readers = nodeLock[d].readers \ {t}
                            /\ nodeLock'[d].writers = nodeLock[d].writers \ {t}
    BY <2>1 DEF Released
  <2>3. \A d \in Cells, u \in Threads :
            /\ u \in nodeLock'[d].readers => u \in nodeLock[d].readers
            /\ u \in nodeLock'[d].writers => u \in nodeLock[d].writers
    BY <2>2
  <2>4. Bare(nodeLock', dataLock', t)
    BY <1>1, <1>2, <1>5, <2>2 DEF Holding, ReadsNode, WritesNode, ReadsData, WritesData, Bare
  <2> QED
    BY <1>1, <2>3, <2>4, GivingBack
<1> QED
  BY <1>1, <1>3, <1>4, <1>5

LEMMA LocksKeep ==
    ASSUME TopicInv, LockInv, [Next]_vars
    PROVE  LockInv'
<1>1. ASSUME NEW t \in Threads, Step(t)
      PROVE  LockInv'
  BY <1>1, StayingLocks, TakingLocks, GivingLocks, TestLocks, LinkLocks, FreeLocks DEF Step
<1>2. ASSUME NEW t \in Threads, NEW w, Become(t, w), reg[t].pc = "idle",
             UNCHANGED <<nodeLock, dataLock>>
      PROVE  LockInv'
  <2>1. Bare(nodeLock, dataLock, t)
    BY <1>2, BareHands
  <2>2. \A u \in Threads : u # t => reg'[u] = reg[u]
    BY <1>2 DEF Become, TopicInv, TypeOK
  <2> QED
    BY <1>2, <2>1, <2>2 DEF LockInv, Holds, Bare
<1>3. CASE BeginCall
  BY <1>2, <1>3 DEF BeginCall, Begin, At, Same, Locks, Threads
<1>4. CASE \E call \in {"data_monitor", "topic_monitor"} : BeginMonitor(call)
  BY <1>2, <1>4 DEF BeginMonitor, At, Same, Locks, Threads
<1>5. CASE Faulted \/ UNCHANGED vars
  BY <1>5 DEF Faulted, vars, LockInv
<1> QED
  BY <1>1, <1>3, <1>4, <1>5 DEF Next

(* LocksReturned: every rwlock that a function of LinkedListDB.c or a      *)
(* monitor takes is given back on each of its ways out, and only addTopic  *)
(* and deleteTopic of the main loop write-lock a node.                     *)
THEOREM LocksAreReturned == Spec => []LocksReturned
<1>1. Init => LockInv
  BY DEF Init, LockInv, Holds, Unlocked
<1>2. TopicInv /\ LockInv /\ [Next]_vars => LockInv'
  BY LocksKeep
<1>3. LockInv => LocksReturned
  BY DEF LockInv, Holds, LocksReturned, ReadsNode, WritesNode, ReadsData, WritesData
<1> QED
  BY <1>1, <1>2, <1>3, AlwaysTopicInv, PTL DEF Spec

-------------------------------------------------------------------------------
(* What an update has read stays true until another thread races it.       *)

(* A thread that still goes to set a node, or to read it once more, has    *)
(* what it had.                                                            *)
SetKept(w, r) ==
    /\ w.goal = "set" => r.goal = "set"
    /\ w.pc = "pass" => r.pc = "pass"
    /\ w.goal = "set" \/ w.pc = "pass" =>
        /\ w.call = r.call /\ w.path = r.path /\ w.topic_ma = r.topic_ma
        /\ w.data_ma = r.data_ma /\ w.data = r.data /\ w.raced = r.raced

LEMMA SetMoves ==
    ASSUME NEW r \in Reg
    PROVE  /\ SetKept(Done(r), r)
           /\ SetKept(Missing(r), r)
           /\ r.goal \notin {"none", "last"} => SetKept(Hit(r), r)
           /\ cell[r.cur].next \in Cells \cup {Null} => SetKept(Past(r), r)
<1>1. SetKept(Done(r), r)
  BY DoneMoves DEF Over, SetKept
<1>2. SetKept(Missing(r), r)
  <2>1. CASE r.goal = "exists"
    BY <2>1, WalkMoves DEF Missing, Moved, SetKept, Goals
  <2>2. CASE r.goal = "last"
    <3> DEFINE x == IF r.prev = Null THEN "link" ELSE "wlock_prev"
    <3>1. Missing(r) = [r EXCEPT !.pc = x]
      BY <2>2 DEF Missing
    <3>2. x # "pass"
      OBVIOUS
    <3> HIDE DEF x
    <3>3. [r EXCEPT !.pc = x].goal = r.goal /\ [r EXCEPT !.pc = x].pc = x
      BY DEF Reg
    <3> QED
      BY <2>2, <3>1, <3>2, <3>3 DEF SetKept
  <2>3. CASE r.goal \notin {"exists", "last"}
    <3> DEFINE w == [r EXCEPT !.found = FALSE]
    <3>1. Missing(r) = Done(w)
      BY <2>3 DEF Missing
    <3>2. w \in Reg
      BY DEF Reg
    <3> HIDE DEF w
    <3> QED
      BY <3>1, <3>2, DoneMoves DEF Over, SetKept
  <2> QED
    BY <2>1, <2>2, <2>3
<1>3. ASSUME r.goal \notin {"none", "last"}
      PROVE  SetKept(Hit(r), r)
  <2>1. CASE r.goal = "set"
    <3>1. Hit(r) = [r EXCEPT !.pc = "rlock", !.found = TRUE]
      BY <2>1 DEF Hit
    <3>2. Moved(Hit(r), r, r.goal, "rlock", r.prev, r.cur, TRUE)
      BY <3>1, PcMoves DEF Pcs
    <3> QED
      BY <2>1, <3>2 DEF Moved, Keeps, SetKept
  <2>2. CASE r.goal = "exists"
    BY <2>2, WalkMoves DEF Hit, Moved, SetKept, Goals
  <2>3. CASE r.goal \notin {"set", "exists"}
    <3> DEFINE x == CASE r.goal = "clone"             -> "clone"
                      [] r.goal \in {"info", "topic"} -> "read"
                      [] r.goal \in {"set", "drop"}   -> "rlock"
                      [] r.goal = "delete"            -> IF r.prev = Null THEN "wlock_cur"
                                                         ELSE "wlock_prev"
    <3>1. r.goal \in {"clone", "info", "topic", "drop", "delete"}
      BY <1>3, <2>3 DEF Reg, Goals
    <3>2. Hit(r) = [r EXCEPT !.pc = x, !.found = TRUE] /\ x # "pass"
      BY <3>1 DEF Hit
    <3> HIDE DEF x
    <3>3. [r EXCEPT !.pc = x, !.found = TRUE].goal = r.goal
          /\ [r EXCEPT !.pc = x, !.found = TRUE].pc = x
      BY DEF Reg
    <3> QED
      BY <2>3, <3>2, <3>3 DEF SetKept
  <2> QED
    BY <2>1, <2>2, <2>3
<1>4. cell[r.cur].next \in Cells \cup {Null} => SetKept(Past(r), r)
  BY PastMoves DEF Moved, Keeps, SetKept
<1> QED
  BY <1>1, <1>2, <1>3, <1>4

LEMMA SetStays ==
    ASSUME TopicInv, NEW t \in Threads, Step(t), ~(Read(t) \/ Measure(t) \/ Pass(t))
    PROVE  SetKept(reg'[t], reg[t])
<1> DEFINE L == Linked(head, cell)
<1>1. PICK r \in Reg : r = reg[t]
  BY GoodThreads DEF Good
<1>2. Good(t, r, L, head, cell)
  BY <1>1, GoodThreads
<1>3. \A w : Become(t, w) \/ BecomeAndRace(t, w) => reg'[t] = w
  BY DEF Become, BecomeAndRace, TopicInv, TypeOK
<1> HIDE DEF L
<1>4. CASE Enter(t)
  <2>1. r.pc = "enter" /\ (reg'[t] = Missing(r) \/ reg'[t] = [r EXCEPT !.pc = "head"])
    BY <1>1, <1>3, <1>4 DEF Enter, At
  <2>2. Moved([r EXCEPT !.pc = "head"], r, r.goal, "head", r.prev, r.cur, r.found)
    BY PcMoves DEF Pcs, WalkPcs
  <2>3. SetKept([r EXCEPT !.pc = "head"], r)
    BY <2>2 DEF Moved, Keeps, SetKept
  <2> QED
    BY <1>1, <2>1, <2>3, SetMoves
<1>5. CASE Head(t)
  <2>1. head \in Cells /\ reg'[t] = [r EXCEPT !.cur = head, !.pc = "lock"]
    BY <1>1, <1>3, <1>5 DEF Head, TopicInv, TypeOK
  <2>2. Moved([r EXCEPT !.cur = head, !.pc = "lock"], r, r.goal, "lock", r.prev, head, r.found)
    BY <2>1, HeadMoves
  <2> QED
    BY <1>1, <2>1, <2>2 DEF Moved, Keeps, SetKept
<1>6. CASE Test(t)
  <2>1. reg'[t] = AfterTest(r) /\ r.pc = "test" /\ r.cur \in Cells
    BY <1>1, <1>3, <1>6 DEF Test, At, Alive
  <2>2. r.goal # "none" /\ cell[r.cur].next \in Cells \cup {Null}
    BY <1>2, <2>1, GoodThreads DEF Good, Role, Stands, WalkPcs, Cell
  <2>3. CASE Matches(r)
    BY <1>1, <2>1, <2>2, <2>3, SetMoves DEF AfterTest, Matches
  <2>4. CASE ~Matches(r)
    <3> DEFINE w == Past(r)
               prev == IF r.goal \in {"delete", "last"} THEN r.cur ELSE Dangling
    <3>1. Moved(w, r, r.goal, "lock", prev, cell[r.cur].next, r.found)
      BY <2>2, PastMoves
    <3>2. reg'[t] = Missing(w) \/ reg'[t] = w
      BY <2>1, <2>4 DEF AfterTest
    <3> HIDE DEF w, prev
    <3>3. SetKept(w, r) /\ w \in Reg
      BY <3>1 DEF Moved, Keeps, SetKept
    <3>4. SetKept(Missing(w), w)
      BY <3>3, SetMoves
    <3> QED
      BY <1>1, <3>2, <3>3, <3>4 DEF SetKept
  <2> QED
    BY <2>3, <2>4
<1>7. CASE Clone(t) \/ MonitorLock(t) \/ Unlink(t)
  <2>1. r.goal # "set"
    BY <1>1, <1>2, <1>7 DEF Clone, MonitorLock, Unlink, At, Good, Role
  <2>2. \/ reg'[t] = [r EXCEPT !.pc = "copy", !.data = DataOf(r.cur), !.from = From(r.cur)]
        \/ reg'[t] = [r EXCEPT !.pc = "mdlock", !.next = cell[r.cur].next]
        \/ reg'[t] = [r EXCEPT !.pc = "free"]
    BY <1>1, <1>3, <1>7 DEF Clone, MonitorLock, Unlink
  <2>3. reg'[t].goal = r.goal /\ reg'[t].pc # "pass"
    <3> DEFINE x == DataOf(r.cur)
               y == From(r.cur)
               z == cell[r.cur].next
    <3>1. \/ reg'[t] = [r EXCEPT !.pc = "copy", !.data = x, !.from = y]
          \/ reg'[t] = [r EXCEPT !.pc = "mdlock", !.next = z]
          \/ reg'[t] = [r EXCEPT !.pc = "free"]
      BY <2>2
    <3> HIDE DEF x, y, z
    <3> QED
      BY <3>1 DEF Reg
  <2> QED
    BY <1>1, <2>1, <2>3 DEF SetKept
<1>8. CASE Copy(t) \/ Assign(t) \/ Link(t)
  BY <1>1, <1>3, <1>8, SetMoves DEF Copy, Assign, Link
<1>14. CASE CloneNoMemory(t) \/ AddNoMemory(t)
  <2> DEFINE w == [r EXCEPT !.found = FALSE]
  <2>1. reg'[t] = Done(w)
    BY <1>1, <1>3, <1>14 DEF CloneNoMemory, AddNoMemory
  <2>2. w \in Reg
    BY DEF Reg
  <2> HIDE DEF w
  <2>3. Over(Done(w), w)
    BY <2>2, DoneMoves
  <2> QED
    BY <2>1, <2>3 DEF Over, SetKept
<1>9. CASE LockNode(t) \/ RLock(t) \/ DLock(t) \/ MonitorDataLock(t) \/ WLockPrev(t) \/ WLockCur(t)
  <2>1. PICK x \in {"test", "dlock", "free_data", "look", "link", "wlock_cur", "unlink"} :
            reg'[t] = [r EXCEPT !.pc = x]
    BY <1>1, <1>3, <1>9 DEF LockNode, RLock, DLock, MonitorDataLock, WLockPrev, WLockCur
  <2>2. Moved([r EXCEPT !.pc = x], r, r.goal, x, r.prev, r.cur, r.found)
    BY PcMoves DEF Pcs, WalkPcs
  <2> QED
    BY <1>1, <2>1, <2>2 DEF Moved, Keeps, SetKept
<1>10. CASE FreeData(t)
  <2>1. reg'[t] = [r EXCEPT !.pc = "assign", !.from = Null]
    BY <1>1, <1>10 DEF FreeData
  <2>2. /\ reg'[t].pc = "assign" /\ reg'[t].goal = r.goal
        /\ reg'[t].call = r.call /\ reg'[t].path = r.path
        /\ reg'[t].topic_ma = r.topic_ma /\ reg'[t].data_ma = r.data_ma
        /\ reg'[t].data = r.data /\ reg'[t].raced = r.raced
    BY <2>1 DEF Reg
  <2> QED
    BY <1>1, <2>2 DEF SetKept
<1>11. CASE Free(t)
  <2> DEFINE c == r.cur
             d == Done(r)
  <2>1. reg'[t] = Gone(d, c)
    BY <1>1, <1>11 DEF Free
  <2>2. d \in Reg /\ d.goal = "none" /\ d.pc # "pass"
    BY DoneMoves DEF Over
  <2>3. c \in Cells
    BY <1>1, <1>11, GoodThreads DEF Free, At, Good, Role, MainAt
  <2> HIDE DEF c, d
  <2>4. reg'[t].goal = "none" /\ reg'[t].pc # "pass"
    BY <2>1, <2>2, <2>3, GoneIs
  <2> QED
    BY <2>4 DEF SetKept
<1>12. CASE \E x \in BOOLEAN : Look(t, x)
  <2> DEFINE p == cell[r.cur].path
             g == IF r.call = "data_monitor" THEN "drop" ELSE "delete"
             w == [r EXCEPT !.path = p]
  <2>1. reg'[t] = Walk(w, g) \/ reg'[t] = Done(r)
    BY <1>1, <1>3, <1>12 DEF Look
  <2>2. p \in Topics
    <3>1. r.cur \in Cells
      BY <1>1, <1>12 DEF Look, Alive
    <3> QED
      BY <1>2, <3>1, GoodThreads DEF Good, Stands, Cell
  <2> HIDE DEF p
  <2>3. w \in Reg
    BY <2>2 DEF Reg
  <2> HIDE DEF w
  <2>4. Moved(Walk(w, g), w, g, "enter", Null, Null, FALSE)
    BY <2>3, WalkMoves DEF Goals
  <2>5. SetKept(Walk(w, g), r)
    BY <2>4 DEF Moved, SetKept
  <2> QED
    BY <1>1, <2>1, <2>5, SetMoves
<1>13. CASE Fault(t)
  BY <1>13 DEF Fault, SetKept
<1> QED
  BY <1>4, <1>5, <1>6, <1>7, <1>8, <1>9, <1>10, <1>11, <1>12, <1>13, <1>14 DEF Step

LEMMA FreshCarries ==
    ASSUME NEW w, NEW r, NEW L, NEW f, NEW L2, NEW f2, Fresh(r, L, f),
           ~w.raced /\ w.goal = "set" => r.goal = "set" /\ w.data \in {r.data, Dangling},
           ~w.raced /\ w.pc = "pass" => r.pc = "pass" /\ w.data = r.data,
           ~w.raced /\ (w.goal = "set" \/ w.pc = "pass") =>
               /\ ~r.raced /\ w.call = r.call /\ w.path = r.path
               /\ w.topic_ma = r.topic_ma /\ w.data_ma = r.data_ma
               /\ \A c \in L2 : f2[c].path = w.path =>
                    c \in L /\ f2[c].path = f[c].path /\ AsNode(f2[c]) = AsNode(f[c])
    PROVE  Fresh(w, L2, f2)
<1> SUFFICES ASSUME ~w.raced, w.goal = "set" \/ w.pc = "pass", NEW c \in L2, f2[c].path = w.path
             PROVE  FreshIn(w, f2[c])
  BY DEF Fresh, FreshIn
<1>1. /\ c \in L /\ f[c].path = r.path /\ AsNode(f2[c]) = AsNode(f[c])
      /\ ~r.raced /\ w.call = r.call
  OBVIOUS
<1>2. /\ f2[c].data = f[c].data /\ f2[c].topic_ma = f[c].topic_ma /\ f2[c].data_ma = f[c].data_ma
  BY <1>1 DEF AsNode
<1>3. FreshIn(r, f[c])
  BY <1>1 DEF Fresh
<1> QED
  BY <1>1, <1>2, <1>3 DEF FreshIn

LEMMA RacedPath ==
    ASSUME TopicInv, NEW t \in Threads, NEW w, BecomeAndRace(t, w), NEW u \in Threads, u # t,
           reg[u].path = reg[t].path
    PROVE  reg'[u].raced
<1>1. PICK r \in Reg : r = reg[u]
  BY GoodThreads DEF Good
<1>2. reg'[u] = [r EXCEPT !.raced = TRUE]
  BY <1>1 DEF BecomeAndRace
<1> QED
  BY <1>2 DEF Reg

(* The steps that leave the nodes of the list as they are.                 *)
LEMMA NodesStay ==
    ASSUME TopicInv, NEW t \in Threads, Step(t), ~(Assign(t) \/ Link(t) \/ Unlink(t))
    PROVE  Linked(head', cell') = Linked(head, cell) /\ \A d \in Linked(head, cell) : SameNode(d)
<1>1. CASE FreeData(t) \/ Free(t)
  BY <1>1, FreeDataStep, FreeStep
<1>2. CASE ~(FreeData(t) \/ Free(t))
  <2>1. head' = head /\ cell' = cell
    BY <1>2 DEF Fault, Step, Enter, Head, LockNode, Test, Clone, Copy, CloneNoMemory, Read,
       Measure, Pass, RLock, DLock, AddNoMemory, WLockPrev, WLockCur,
       MonitorLock, MonitorDataLock, Look, Same
  <2> QED
    BY <2>1 DEF SameNode
<1> QED
  BY <1>1, <1>2

LEMMA OthersFresh ==
    ASSUME TopicInv, FreshInv, NEW t \in Threads, Step(t), NEW u \in Threads, u # t
    PROVE  Fresh(reg'[u], Linked(head', cell'), cell')
<1> DEFINE L == Linked(head, cell)
           L2 == Linked(head', cell')
<1>1. Fresh(reg[u], L, cell) /\ Good(t, reg[t], L, head, cell)
  BY GoodThreads DEF FreshInv
<1>2. /\ reg'[u].goal = reg[u].goal /\ reg'[u].path = reg[u].path /\ reg'[u].call = reg[u].call
      /\ reg'[u].topic_ma = reg[u].topic_ma /\ reg'[u].data_ma = reg[u].data_ma
      /\ reg'[u].data \in {reg[u].data, Dangling} /\ (reg[u].raced => reg'[u].raced)
  BY OthersStay
<1>3. Assign(t) \/ Link(t) \/ Unlink(t) => \E w : BecomeAndRace(t, w)
  BY DEF Assign, Link, Unlink
<1>4. Assign(t) \/ Link(t) \/ Unlink(t) => (~reg'[u].raced => reg[u].path # reg[t].path)
  BY <1>3, RacedPath
<1>5. ASSUME ~reg'[u].raced, NEW c \in L2, cell'[c].path = reg[u].path
      PROVE  c \in L /\ SameNode(c)
  <2>1. CASE Assign(t)
    <3>1. L2 = L /\ (c # reg[t].cur => SameNode(c))
      BY <2>1, <1>5, AssignStep
    <3>2. reg[t].path = cell[reg[t].cur].path /\ reg[t] \in Reg
      BY <1>1, <2>1 DEF Assign, At, Alive, Good, Stands, Landed
    <3>3. cell'[reg[t].cur].path = cell[reg[t].cur].path
      <4>1. reg[t].goal # "drop" => reg[t].data \in Data
        BY <1>1, <2>1 DEF Assign, At, Good, Role
      <4>2. /\ cell[reg[t].cur] \in Cell
            /\ cell'[reg[t].cur] = Assigned(cell[reg[t].cur], reg[t])
        BY <2>1, AssignStep
      <4> QED
        BY <3>2, <4>1, <4>2, AssignedIs
    <3> QED
      BY <1>4, <1>5, <2>1, <3>1, <3>2, <3>3
  <2>2. CASE Link(t)
    <3>1. PICK d \in Cells : L2 = L \cup {d} /\ cell'[d] = NewNode(reg[t])
      BY <2>2, LinkStep
    <3>2. cell'[d].path = reg[t].path
      BY <3>1 DEF NewNode
    <3>3. c # d
      BY <1>4, <1>5, <2>2, <3>2
    <3>4. \A e \in L : SameNode(e)
      BY <2>2, LinkStep
    <3> QED
      BY <1>5, <3>1, <3>3, <3>4
  <2>3. CASE Unlink(t)
    BY <1>5, <2>3, UnlinkStep
  <2>4. CASE ~(Assign(t) \/ Link(t) \/ Unlink(t))
    BY <1>5, <2>4, NodesStay
  <2> QED
    BY <2>1, <2>2, <2>3, <2>4
<1> HIDE DEF L, L2
<1>7. reg'[u].pc = reg[u].pc /\ (reg'[u].pc = "pass" => reg'[u].data = reg[u].data)
  <2>1. TopicInv'
    BY NextHolds DEF Next
  <2>2. reg'[u].pc = reg[u].pc
    BY OthersStay
  <2> QED
    BY <1>2, <2>1, <2>2, ListAssumption DEF TopicInv, RoleInv, Role
<1>6. Fresh(reg'[u], L2, cell')
  BY <1>1, <1>2, <1>5, <1>7, FreshCarries DEF SameNode
<1> QED
  BY <1>6 DEF L2

(* The thread that reads what it will write back.                          *)
LEMMA OnlyNode ==
    ASSUME TopicInv, NEW c \in Cells, cell[c] # Null, NEW d \in Linked(head, cell),
           cell[d].path = cell[c].path
    PROVE  d = c
<1> DEFINE L == Linked(head, cell)
<1>1. Nodes(L, head, cell, reg[Main])
  BY DEF TopicInv, NodesInv
<1> HIDE DEF L
<1>2. L \subseteq Cells /\ \A e \in L : cell[e] # Null
  BY <1>1, ListFacts DEF Nodes
<1> QED
  BY <1>1, <1>2 DEF Nodes, L

LEMMA ReadFresh ==
    ASSUME TopicInv, NEW t \in Threads, Read(t)
    PROVE  Fresh(reg'[t], Linked(head', cell'), cell')
<1> DEFINE L == Linked(head, cell)
           c == reg[t].cur
           n == cell[c]
<1>1. PICK r \in Reg : r = reg[t]
  BY GoodThreads DEF Good
<1>2. /\ Good(t, r, L, head, cell) /\ cell \in [Cells -> Cell \cup {Null}]
      /\ r.pc = "read" /\ c \in Cells /\ r.goal = "topic"
  BY <1>1, GoodThreads DEF Read, At, Alive
<1>3. n \in Cell /\ n # Null /\ n.path = r.path /\ r.call = "put"
  BY <1>1, <1>2 DEF Good, Stands, Landed, Role
<1> DEFINE w == TakenAs(r, n)
           z == Walk(w, "set")
<1>4. reg'[t] = z /\ head' = head /\ cell' = cell
  BY <1>1 DEF Read, Become, Same, TopicInv, TypeOK, TakenAs
<1>5. w \in Reg /\ w.path = r.path /\ w.call = r.call /\ w.topic_ma = n.topic_ma
  BY <1>3, TakenTyped
<1> HIDE DEF w
<1>6. Moved(z, w, "set", "enter", Null, Null, FALSE)
  BY <1>5, WalkMoves DEF Goals
<1> HIDE DEF z
<1>7. z.path = r.path /\ z.call = "put" /\ z.pc = "enter" /\ z.topic_ma = n.topic_ma
  BY <1>3, <1>5, <1>6 DEF Moved, Keeps
<1>8. \A d \in L : cell[d].path = z.path => d = c
  BY <1>2, <1>3, <1>7, OnlyNode
<1> HIDE DEF L
<1>9. Fresh(z, L, cell)
  BY <1>7, <1>8 DEF Fresh, FreshIn
<1> QED
  BY <1>4, <1>9 DEF L

LEMMA MeasureFresh ==
    ASSUME TopicInv, NEW t \in Threads, Measure(t)
    PROVE  Fresh(reg'[t], Linked(head', cell'), cell')
<1> DEFINE L == Linked(head, cell)
           c == reg[t].cur
           n == cell[c]
           v == DataOf(c)
<1>1. PICK r \in Reg : r = reg[t]
  BY GoodThreads DEF Good
<1>2. /\ Good(t, r, L, head, cell) /\ cell \in [Cells -> Cell \cup {Null}]
      /\ r.pc = "read" /\ c \in Cells /\ r.goal = "info" /\ v # Dangling
  BY <1>1, GoodThreads DEF Measure, At, Alive
<1>3. n \in Cell /\ n # Null /\ n.path = r.path
  BY <1>1, <1>2 DEF Good, Stands, Landed
<1>4. v = n.data /\ v \in Data
  BY <1>2, <1>3 DEF DataOf, Cell
<1> DEFINE w == [r EXCEPT !.pc = "pass", !.data = v, !.from = Null, !.raced = FALSE]
<1>5. reg'[t] = w /\ head' = head /\ cell' = cell
  BY <1>1 DEF Measure, Become, Same, TopicInv, TypeOK
<1>9. w = [r EXCEPT !.pc = "pass", !.data = v, !.from = Null, !.raced = FALSE]
  OBVIOUS
<1> HIDE DEF v, w
<1>6. w.path = r.path /\ w.goal = "info" /\ w.data = v
  BY <1>2, <1>4, <1>9 DEF Reg
<1>7. \A d \in L : cell[d].path = w.path => d = c
  BY <1>2, <1>3, <1>6, OnlyNode
<1> HIDE DEF L
<1>8. Fresh(w, L, cell)
  BY <1>4, <1>6, <1>7 DEF Fresh, FreshIn
<1> QED
  BY <1>5, <1>8 DEF L

LEMMA PassFresh ==
    ASSUME TopicInv, FreshInv, NEW t \in Threads, Pass(t)
    PROVE  Fresh(reg'[t], Linked(head', cell'), cell')
<1> DEFINE L == Linked(head, cell)
           c == reg[t].cur
           n == cell[c]
<1>1. PICK r \in Reg : r = reg[t]
  BY GoodThreads DEF Good
<1>2. /\ Good(t, r, L, head, cell) /\ cell \in [Cells -> Cell \cup {Null}]
      /\ r.pc = "pass" /\ c \in Cells /\ c = r.cur /\ r.goal = "info" /\ r.data \in Data
      /\ r.call # "put" /\ Fresh(r, L, cell)
  BY <1>1, GoodThreads DEF Pass, At, Alive, Good, Role, FreshInv
<1>3. n \in Cell /\ n # Null /\ n.path = r.path
  BY <1>1, <1>2 DEF Good, Stands, Landed
<1>4. PICK v \in Copied(r.data, DataOf(c)) : Become(t, Walk(Passed(r, n, v), "set"))
  BY <1>1, <1>2 DEF Pass
<1> DEFINE w == Passed(r, n, v)
           z == Walk(w, "set")
<1>5. reg'[t] = z /\ head' = head /\ cell' = cell
  BY <1>4 DEF Pass, Become, Same, TopicInv, TypeOK
<1>6. v \in Data \cup {Dangling} /\ (r.data = n.data => v \in {n.data, Dangling})
  BY <1>2, <1>3, CopiedIs
<1>7. /\ w \in Reg /\ w.path = r.path /\ w.call = r.call /\ w.raced = r.raced
      /\ w.data = v /\ w.data_ma = n.data_ma
  BY <1>2, <1>3, <1>6, PassedTyped
<1> HIDE DEF w
<1>8. Moved(z, w, "set", "enter", Null, Null, FALSE)
  BY <1>7, WalkMoves DEF Goals
<1> HIDE DEF z
<1>9. /\ z.path = r.path /\ z.call # "put" /\ z.pc = "enter" /\ z.raced = r.raced
      /\ z.data = v /\ z.data_ma = n.data_ma
  BY <1>2, <1>7, <1>8 DEF Moved, Keeps
<1>10. \A d \in L : cell[d].path = z.path => d = c
  BY <1>2, <1>3, <1>9, OnlyNode
<1> HIDE DEF L
<1>11. ASSUME ~z.raced, NEW d \in L, cell[d].path = z.path
       PROVE  FreshIn(z, cell[d])
  <2>1. d = c /\ FreshIn(r, n)
    BY <1>2, <1>9, <1>10, <1>11 DEF Fresh
  <2>2. r.data = n.data
    BY <1>2, <2>1 DEF FreshIn
  <2> QED
    BY <1>6, <1>9, <2>1, <2>2 DEF FreshIn
<1>12. Fresh(z, L, cell)
  BY <1>11 DEF Fresh
<1> QED
  BY <1>5, <1>12 DEF L

LEMMA OwnFresh ==
    ASSUME TopicInv, FreshInv, NEW t \in Threads, Step(t)
    PROVE  Fresh(reg'[t], Linked(head', cell'), cell')
<1> DEFINE L == Linked(head, cell)
           L2 == Linked(head', cell')
<1> DEFINE reads == Read(t) \/ Measure(t) \/ Pass(t)
<1>1. CASE reads
  BY <1>1, ReadFresh, MeasureFresh, PassFresh
<1>2. CASE ~reads /\ (Assign(t) \/ Link(t) \/ Unlink(t))
  <2>1. reg'[t].goal # "set" /\ reg'[t].pc # "pass"
    <3>1. CASE Assign(t) \/ Link(t)
      <4>1. PICK r \in Reg : r = reg[t]
        BY GoodThreads DEF Good
      <4>2. reg'[t] = Done(r)
        BY <3>1, <4>1 DEF Assign, Link, BecomeAndRace
      <4> QED
        BY <4>2, DoneMoves DEF Over
    <3>2. CASE Unlink(t)
      BY <1>2, <3>2, SetStays, GoodThreads DEF SetKept, Unlink, At, Good, Role
    <3> QED
      BY <1>2, <3>1, <3>2
  <2> QED
    BY <2>1 DEF Fresh, FreshIn
<1>3. CASE ~reads /\ ~(Assign(t) \/ Link(t) \/ Unlink(t))
  <2>1. SetKept(reg'[t], reg[t]) /\ Fresh(reg[t], L, cell)
    BY <1>3, SetStays DEF FreshInv
  <2>2. L2 = L /\ \A d \in L : SameNode(d)
    BY <1>3, NodesStay
  <2> HIDE DEF L, L2
  <2>3. Fresh(reg'[t], L2, cell')
    BY <2>1, <2>2, FreshCarries DEF SetKept, SameNode
  <2> QED
    BY <2>3 DEF L2
<1> QED
  BY <1>1, <1>2, <1>3

LEMMA FreshKeeps ==
    ASSUME TopicInv, FreshInv, [Next]_vars
    PROVE  FreshInv'
<1>1. ASSUME NEW t \in Threads, Step(t)
      PROVE  FreshInv'
  BY <1>1, OthersFresh, OwnFresh DEF FreshInv
<1>2. ASSUME NEW t \in Threads, NEW w, Become(t, w), w.goal # "set", w.pc # "pass",
             UNCHANGED <<head, cell>>
      PROVE  FreshInv'
  <2>1. reg'[t] = w /\ \A u \in Threads : u # t => reg'[u] = reg[u]
    BY <1>2 DEF Become, TopicInv, TypeOK
  <2>2. Linked(head', cell') = Linked(head, cell)
    BY <1>2
  <2>3. ASSUME NEW u \in Threads
        PROVE  Fresh(reg'[u], Linked(head, cell), cell)
    <3>1. CASE u = t
      BY <1>2, <2>1, <3>1 DEF Fresh, FreshIn
    <3>2. CASE u # t
      BY <2>1, <3>2 DEF FreshInv
    <3> QED
      BY <3>1, <3>2
  <2> QED
    BY <1>2, <2>2, <2>3 DEF FreshInv
<1>3. ASSUME BeginCall
      PROVE  FreshInv'
  <2>1. PICK t \in Threads, call \in Calls, g \in Goals \ {"set"}, p \in Topics, data \in Data,
             topic_ma \in TimeT, data_ma \in TimeT :
               Begin(t, call, g, p, data, topic_ma, data_ma)
    <3>1. /\ NoData \in Data /\ Payloads \subseteq Data /\ 0 \in TimeT /\ Deadlines \subseteq TimeT
          /\ Main \in Threads /\ Mqtt \in Threads
          /\ {"clone", "put", "add", "renew", "delete"} \subseteq Calls
          /\ {"clone", "topic", "exists", "info", "delete"} \subseteq Goals \ {"set"}
      BY DBAssumption, ListAssumption DEF Data, TimeT, Threads, Calls, Goals
    <3>2. PICK p \in Topics :
        \/ \E t \in Threads : Begin(t, "clone", "clone", p, NoData, 0, 0)
        \/ \E v \in Payloads : Begin(Mqtt, "put", "topic", p, v, 0, 0)
        \/ \E v \in Data, ma \in Deadlines : Begin(Main, "put", "topic", p, v, 0, ma)
        \/ \E ma \in Deadlines : Begin(Main, "add", "exists", p, NoData, ma, 0)
        \/ \E ma \in Deadlines : Begin(Main, "renew", "info", p, NoData, ma, 0)
        \/ Begin(Main, "delete", "delete", p, NoData, 0, 0)
      BY <1>3 DEF BeginCall
    <3> QED
      BY <3>1, <3>2
  <2> DEFINE r == Called(call, p, data, topic_ma, data_ma)
  <2>2. r \in Reg
    BY CallTyped
  <2>3. Become(t, Walk(r, g)) /\ head' = head /\ cell' = cell
    BY <2>1 DEF Begin, Same, Called
  <2> HIDE DEF r
  <2>4. Walk(r, g).goal # "set" /\ Walk(r, g).pc # "pass"
    <3>1. Moved(Walk(r, g), r, g, "enter", Null, Null, FALSE)
      BY <2>2, WalkMoves
    <3> QED
      BY <3>1 DEF Moved
  <2> QED
    BY <1>2, <2>3, <2>4
<1>4. ASSUME NEW call \in {"data_monitor", "topic_monitor"}, BeginMonitor(call)
      PROVE  FreshInv'
  <2> DEFINE w == [Idle EXCEPT !.call = call, !.pc = "mlock", !.cur = head]
  <2>1. w.goal = "none" /\ w.pc = "mlock"
    BY DEF Idle
  <2>2. Become(Main, w) /\ head' = head /\ cell' = cell /\ Main \in Threads
    BY <1>4 DEF BeginMonitor, Same, Threads
  <2> HIDE DEF w
  <2> QED
    BY <1>2, <2>1, <2>2
<1>5. CASE Faulted \/ UNCHANGED vars
  BY <1>5 DEF Faulted, vars, FreshInv
<1> QED
  BY <1>1, <1>3, <1>4, <1>5 DEF Next

-------------------------------------------------------------------------------
(* The steps as operations of TopicDB.                                     *)

(* The map m is that of the nodes L of f.                                  *)
Shows(m, L, f) ==
    /\ m = [p \in Topics |-> m[p]]
    /\ \A c \in L : f[c].path \in Topics /\ m[f[c].path] = AsNode(f[c]) /\ TopicExist(m, f[c].path)
    /\ \A p \in Topics : (\A c \in L : f[c].path # p) => m[p] = NoTopic

LEMMA MapIs ==
    ASSUME NEW L, NEW h, NEW f \in [Cells -> Cell \cup {Null}], NEW r, Nodes(L, h, f, r)
    PROVE  Shows(MapOf(h, f), L, f)
<1> DEFINE m == MapOf(h, f)
<1>1. m = [p \in Topics |-> IF Listed(L, f, p) THEN NodeOf(L, f, p) ELSE NoTopic]
  BY MapAt
<1> HIDE DEF m
<1>2. ASSUME NEW c \in L
      PROVE  /\ f[c].path \in Topics /\ m[f[c].path] = AsNode(f[c])
             /\ TopicExist(m, f[c].path)
  <2> DEFINE p == f[c].path
             e == CHOOSE d \in L : f[d].path = p
  <2>1. L \subseteq Cells /\ \A d \in L : f[d] # Null
    BY ListFacts DEF Nodes
  <2>2. f[c] \in Cell /\ p \in Topics
    <3>1. f[c] \in Cell
      BY <2>1
    <3> QED
      BY <3>1 DEF Cell
  <2>3. e \in L /\ f[e].path = p
    OBVIOUS
  <2>4. NodeOf(L, f, p) = AsNode(f[e])
    BY DEF NodeOf
  <2> HIDE DEF e
  <2>5. e = c
    BY <2>1, <2>3 DEF Nodes
  <2>6. Listed(L, f, p)
    BY DEF Listed
  <2> HIDE DEF p
  <2>7. m[p] = AsNode(f[c])
    BY <1>1, <2>2, <2>4, <2>5, <2>6
  <2>8. TopicExist(m, p)
    BY <2>2, <2>6, ExistsListed DEF m
  <2> QED
    BY <2>2, <2>7, <2>8 DEF p
<1>3. ASSUME NEW p \in Topics, \A c \in L : f[c].path # p
      PROVE  m[p] = NoTopic
  BY <1>1, <1>3 DEF Listed
<1>4. m = [p \in Topics |-> m[p]]
  BY <1>1
<1> QED
  BY <1>2, <1>3, <1>4 DEF m, Shows

(* Two maps that agree on every path are one.                              *)
LEMMA SameMap ==
    ASSUME NEW m, NEW m2, m = [p \in Topics |-> m[p]], m2 = [p \in Topics |-> m2[p]],
           \A p \in Topics : m2[p] = m[p]
    PROVE  m2 = m
OBVIOUS

(* What a step does to the map is what it does to the nodes of the list.   *)
LEMMA MapsOfStep ==
    ASSUME TopicInv, TopicInv'
    PROVE  /\ Nodes(Linked(head', cell'), head', cell', reg'[Main])
           /\ cell' \in [Cells -> Cell \cup {Null}]
BY DEF TopicInv, NodesInv, TypeOK

LEMMA MapStays ==
    ASSUME TopicInv, TopicInv', Linked(head', cell') = Linked(head, cell),
           \A d \in Linked(head, cell) : SameNode(d)
    PROVE  MapOf(head', cell') = Map
<1> DEFINE L == Linked(head, cell)
           m == MapOf(head, cell)
           m2 == MapOf(head', cell')
<1>1. Nodes(L, head, cell, reg[Main]) /\ cell \in [Cells -> Cell \cup {Null}]
  BY GoodThreads DEF Threads
<1>2. Nodes(L, head', cell', reg'[Main]) /\ cell' \in [Cells -> Cell \cup {Null}]
  BY MapsOfStep
<1> HIDE DEF L
<1>3. Shows(m, L, cell) /\ Shows(m2, L, cell')
  BY <1>1, <1>2, MapIs
<1>5. \A c \in L : cell'[c].path = cell[c].path /\ AsNode(cell'[c]) = AsNode(cell[c])
  BY DEF SameNode, L
<1> HIDE DEF m, m2
<1>6. ASSUME NEW p \in Topics
      PROVE  m2[p] = m[p]
  <2>1. CASE \E c \in L : cell[c].path = p
    BY <1>3, <1>5, <2>1 DEF Shows
  <2>2. CASE \A c \in L : cell[c].path # p
    BY <1>3, <1>5, <2>2 DEF Shows
  <2> QED
    BY <2>1, <2>2
<1>7. m2 = m
  BY <1>3, <1>6, SameMap DEF Shows
<1> QED
  BY <1>7 DEF m, m2, Map

LEMMA LinkMap ==
    ASSUME TopicInv, TopicInv', NEW t \in Threads, Link(t)
    PROVE  MapOf(head', cell') = AddTopic(Map, reg[t].path, reg[t].topic_ma)
<1> DEFINE L == Linked(head, cell)
           L2 == Linked(head', cell')
           m == MapOf(head, cell)
           m2 == MapOf(head', cell')
           r == reg[t]
           new == [data |-> NoData, topic_ma |-> r.topic_ma, data_ma |-> 0]
<1>1. Nodes(L, head, cell, reg[Main]) /\ cell \in [Cells -> Cell \cup {Null}]
      /\ r.path \in Topics
  BY GoodThreads DEF Link, At, Good, Role
<1>2. Nodes(L2, head', cell', reg'[Main]) /\ cell' \in [Cells -> Cell \cup {Null}]
  BY MapsOfStep
<1>3. PICK c \in Cells : L2 = L \cup {c} /\ cell'[c] = NewNode(r)
  BY LinkStep
<1>4. \A d \in L : /\ cell'[d].path = cell[d].path /\ AsNode(cell'[d]) = AsNode(cell[d])
                   /\ cell[d].path # r.path
  BY LinkStep DEF SameNode
<1>5. cell'[c].path = r.path /\ AsNode(cell'[c]) = new
  BY <1>3 DEF NewNode, AsNode
<1> HIDE DEF L, L2, new, r
<1>6. Shows(m, L, cell) /\ Shows(m2, L2, cell')
  BY <1>1, <1>2, MapIs
<1> HIDE DEF m, m2
<1>8. m2[r.path] = new
  BY <1>3, <1>5, <1>6 DEF Shows
<1>9. ASSUME NEW p \in Topics, p # r.path
      PROVE  m2[p] = m[p]
  <2>1. CASE \E d \in L : cell[d].path = p
    <3>1. PICK d \in L : cell[d].path = p
      BY <2>1
    <3>2. cell'[d].path = p /\ AsNode(cell'[d]) = AsNode(cell[d]) /\ d \in L2
      BY <1>3, <1>4, <3>1
    <3>3. m[p] = AsNode(cell[d]) /\ m2[p] = AsNode(cell'[d])
      BY <1>6, <3>1, <3>2 DEF Shows
    <3> QED
      BY <3>2, <3>3
  <2>2. CASE \A d \in L : cell[d].path # p
    BY <1>3, <1>4, <1>5, <1>6, <1>9, <2>2 DEF Shows
  <2> QED
    BY <2>1, <2>2
<1> DEFINE a == [m EXCEPT ![r.path] = new]
<1>10. a = [p \in Topics |-> a[p]] /\ \A p \in Topics : m2[p] = a[p]
  BY <1>1, <1>6, <1>8, <1>9 DEF Shows
<1> HIDE DEF a
<1>11. m2 = a
  BY <1>6, <1>10, SameMap DEF Shows
<1> QED
  BY <1>11 DEF a, m, m2, Map, AddTopic, new, r

LEMMA UnlinkMap ==
    ASSUME TopicInv, TopicInv', NEW t \in Threads, Unlink(t)
    PROVE  MapOf(head', cell') = DeleteTopics(Map, {reg[t].path})
<1> DEFINE L == Linked(head, cell)
           L2 == Linked(head', cell')
           m == MapOf(head, cell)
           m2 == MapOf(head', cell')
           r == reg[t]
           c == r.cur
           a == DeleteTopics(m, {r.path})
<1>1. Nodes(L, head, cell, reg[Main]) /\ cell \in [Cells -> Cell \cup {Null}]
  BY GoodThreads
<1>2. Nodes(L2, head', cell', reg'[Main]) /\ cell' \in [Cells -> Cell \cup {Null}]
  BY MapsOfStep
<1>3. L2 = L \ {c} /\ c \in L /\ cell[c].path = r.path
  BY UnlinkStep
<1>4. \A d \in L : cell'[d].path = cell[d].path /\ AsNode(cell'[d]) = AsNode(cell[d])
  BY UnlinkStep DEF SameNode
<1>5. \A d \in L : d # c => cell[d].path # r.path
  <2>1. L \subseteq Cells /\ \A d \in L : cell[d] # Null
    BY <1>1, ListFacts DEF Nodes
  <2> HIDE DEF L, c
  <2> QED
    BY <1>1, <1>3, <2>1 DEF Nodes
<1> HIDE DEF L, L2, r, c
<1>6. Shows(m, L, cell) /\ Shows(m2, L2, cell')
  BY <1>1, <1>2, MapIs
<1> HIDE DEF m, m2
<1>8. ASSUME NEW p \in Topics
      PROVE  m2[p] = IF p = r.path THEN NoTopic ELSE m[p]
  <2>1. CASE p = r.path
    BY <1>3, <1>4, <1>5, <1>6, <2>1 DEF Shows
  <2>2. CASE p # r.path
    <3>1. CASE \E d \in L : cell[d].path = p
      BY <1>3, <1>4, <1>6, <2>2, <3>1 DEF Shows
    <3>2. CASE \A d \in L : cell[d].path # p
      BY <1>3, <1>4, <1>6, <2>2, <3>2 DEF Shows
    <3> QED
      BY <2>2, <3>1, <3>2
  <2> QED
    BY <2>1, <2>2
<1>9. a = [p \in Topics |-> a[p]] /\ \A p \in Topics : m2[p] = a[p]
  BY <1>8 DEF DeleteTopics
<1> HIDE DEF a
<1>10. m2 = a
  BY <1>6, <1>9, SameMap DEF Shows
<1> QED
  BY <1>10 DEF a, m, m2, Map, r

(* What setTopic and deleteTopicData write, as an operation of TopicDB.    *)
Stored(m, r) ==
    CASE r.goal = "drop" -> DeleteTopicsData(m, {r.path})
      [] r.goal = "set" /\ r.raced -> SetTopic(m, r.path, r.data, r.topic_ma, r.data_ma)
      [] r.goal = "set" /\ ~r.raced /\ r.call = "put" ->
           UpdateTopicData(m, r.path, r.data_ma, r.data)
      [] OTHER -> UpdateTopicInfo(m, r.path, r.topic_ma)

LEMMA StoredIs ==
    ASSUME NEW m, m = [p \in Topics |-> m[p]], NEW r \in Reg, NEW n \in Cell, r.path \in Topics,
           m[r.path] = AsNode(n), TopicExist(m, r.path),
           r.goal \in {"set", "drop"},
           r.goal = "set" /\ ~r.raced =>
               IF r.call = "put" THEN r.topic_ma = n.topic_ma
               ELSE r.data_ma = n.data_ma /\ r.data = n.data
    PROVE  Stored(m, r) =
             [m EXCEPT ![r.path] =
                IF r.goal = "drop" THEN [data |-> NoData, topic_ma |-> n.topic_ma, data_ma |-> 0]
                ELSE [data |-> r.data, topic_ma |-> r.topic_ma, data_ma |-> r.data_ma]]
<1> DEFINE p == r.path
           x == [data |-> NoData, topic_ma |-> n.topic_ma, data_ma |-> 0]
           y == [data |-> r.data, topic_ma |-> r.topic_ma, data_ma |-> r.data_ma]
<1>1. m[p].data = n.data /\ m[p].topic_ma = n.topic_ma /\ m[p].data_ma = n.data_ma
  BY DEF AsNode
<1>2. [m[p] EXCEPT !.data = NoData, !.data_ma = 0] = x
  <2>1. PICK z \in Node : z = m[p]
    BY DEF AsNode, Cell, Node
  <2>2. [z EXCEPT !.data = NoData, !.data_ma = 0] =
          [data |-> NoData, topic_ma |-> z.topic_ma, data_ma |-> 0]
    <3> DEFINE w == [z EXCEPT !.data = NoData, !.data_ma = 0]
    <3>1. NoData \in Data /\ 0 \in TimeT
      BY DBAssumption DEF Data, TimeT
    <3>2. w \in Node /\ w.data = NoData /\ w.topic_ma = z.topic_ma /\ w.data_ma = 0
      BY <3>1 DEF Node
    <3> HIDE DEF w
    <3>3. w = [data |-> NoData, topic_ma |-> z.topic_ma, data_ma |-> 0]
      BY <3>2 DEF Node
    <3> QED
      BY <3>3 DEF w
  <2> QED
    BY <1>1, <2>1, <2>2
<1>3. CASE r.goal = "drop"
  <2>1. Stored(m, r) = DeleteTopicsData(m, {p})
    BY <1>3 DEF Stored
  <2> HIDE DEF p, x
  <2>2. DeleteTopicsData(m, {p}) = [q \in Topics |-> IF q = p THEN x ELSE m[q]]
    <3>1. TopicExist(m, p)
      BY DEF p
    <3>2. \A q \in Topics :
            (IF q \in {p} /\ TopicExist(m, q) THEN [m[q] EXCEPT !.data = NoData, !.data_ma = 0]
             ELSE m[q]) = IF q = p THEN x ELSE m[q]
      BY <1>2, <3>1
    <3> QED
      BY <3>2 DEF DeleteTopicsData
  <2>3. [m EXCEPT ![p] = x] = [q \in Topics |-> IF q = p THEN x ELSE m[q]]
    <3> DEFINE a == [m EXCEPT ![p] = x]
               b == [q \in Topics |-> IF q = p THEN x ELSE m[q]]
    <3>1. a = [q \in Topics |-> a[q]] /\ \A q \in Topics : b[q] = a[q]
      OBVIOUS
    <3>2. b = [q \in Topics |-> b[q]]
      OBVIOUS
    <3> HIDE DEF a, b
    <3>3. a = b
      BY <3>1, <3>2, SameMap
    <3> QED
      BY <3>3 DEF a, b
  <2> QED
    BY <1>3, <2>1, <2>2, <2>3 DEF p, x
<1>4. CASE r.goal = "set" /\ r.raced
  BY <1>4 DEF Stored, SetTopic
<1>5. CASE r.goal = "set" /\ ~r.raced /\ r.call = "put"
  <2>1. Stored(m, r) = UpdateTopicData(m, p, r.data_ma, r.data)
    BY <1>5 DEF Stored
  <2>2. r.topic_ma = m[p].topic_ma
    BY <1>1, <1>5
  <2>3. UpdateTopicData(m, p, r.data_ma, r.data) = [m EXCEPT ![p] = y]
    BY <2>2 DEF UpdateTopicData, SetTopic
  <2> QED
    BY <1>5, <2>1, <2>3
<1>6. CASE r.goal = "set" /\ ~r.raced /\ r.call # "put"
  <2>1. Stored(m, r) = UpdateTopicInfo(m, p, r.topic_ma)
    BY <1>6 DEF Stored
  <2>2. r.data = m[p].data /\ r.data_ma = m[p].data_ma
    BY <1>1, <1>6
  <2>3. UpdateTopicInfo(m, p, r.topic_ma) = [m EXCEPT ![p] = y]
    BY <2>2 DEF UpdateTopicInfo, SetTopic
  <2> QED
    BY <1>6, <2>1, <2>3
<1> QED
  BY <1>3, <1>4, <1>5, <1>6

LEMMA AssignMap ==
    ASSUME TopicInv, TopicInv', FreshInv, NEW t \in Threads, Assign(t), MapOf(head', cell') # Map
    PROVE  MapOf(head', cell') = Stored(Map, reg[t])
<1> DEFINE L == Linked(head, cell)
           m == MapOf(head, cell)
           m2 == MapOf(head', cell')
<1>0. PICK r \in Reg : r = reg[t]
  BY GoodThreads DEF Good
<1> DEFINE c == r.cur
           n == cell[c]
           x == IF r.goal = "drop" THEN [data |-> NoData, topic_ma |-> n.topic_ma, data_ma |-> 0]
                ELSE [data |-> r.data, topic_ma |-> r.topic_ma, data_ma |-> r.data_ma]
<1>1. /\ Nodes(L, head, cell, reg[Main]) /\ cell \in [Cells -> Cell \cup {Null}]
      /\ c \in Cells /\ n.path = r.path /\ r.path \in Topics
      /\ r.goal \in {"set", "drop"} /\ r.data \in Data
  BY <1>0, GoodThreads DEF Assign, At, Alive, Good, Role, Stands, Landed
<1>2. L = Linked(head', cell') /\ n \in Cell /\ cell'[c] = Assigned(n, r)
      /\ \A d \in L : d # c => SameNode(d)
  BY <1>0, AssignStep
<1>3. Nodes(L, head', cell', reg'[Main]) /\ cell' \in [Cells -> Cell \cup {Null}]
  BY <1>2, MapsOfStep
<1>4. c \in L
  <2>1. c \notin L => \A d \in L : SameNode(d)
    BY <1>2
  <2> QED
    BY <1>2, <2>1, MapStays
<1>5. cell'[c].path = r.path /\ AsNode(cell'[c]) = x
  <2> HIDE DEF n, c
  <2> QED
    BY <1>1, <1>2, AssignedIs
<1>6. \A d \in L : d # c => cell'[d].path = cell[d].path /\ AsNode(cell'[d]) = AsNode(cell[d])
  BY <1>2 DEF SameNode
<1>7. Fresh(r, L, cell)
  BY <1>0 DEF FreshInv
<1> HIDE DEF L, x
<1>8. Shows(m, L, cell)
  BY <1>1, MapIs
<1>9. Shows(m2, L, cell')
  BY <1>3, MapIs
<1> HIDE DEF m, m2
<1>10. m2[r.path] = x
  BY <1>4, <1>5, <1>9 DEF Shows
<1>11. ASSUME NEW p \in Topics, p # r.path
       PROVE  m2[p] = m[p]
  <2>1. CASE \E d \in L : cell[d].path = p
    BY <1>1, <1>4, <1>6, <1>8, <1>9, <1>11, <2>1 DEF Shows
  <2>2. CASE \A d \in L : cell[d].path # p
    BY <1>4, <1>5, <1>6, <1>8, <1>9, <1>11, <2>2 DEF Shows
  <2> QED
    BY <2>1, <2>2
<1> DEFINE a == [m EXCEPT ![r.path] = x]
<1>12. a = [p \in Topics |-> a[p]] /\ \A p \in Topics : m2[p] = a[p]
  BY <1>1, <1>8, <1>10, <1>11 DEF Shows
<1> HIDE DEF a
<1>13. m2 = a
  BY <1>8, <1>9, <1>12, SameMap DEF Shows
<1>14. m[r.path] = AsNode(n) /\ TopicExist(m, r.path)
  BY <1>1, <1>4, <1>8 DEF Shows
<1>15. r.goal = "set" /\ ~r.raced =>
         IF r.call = "put" THEN r.topic_ma = n.topic_ma
         ELSE r.data_ma = n.data_ma /\ r.data = n.data
  BY <1>1, <1>4, <1>7, ListAssumption DEF Fresh, FreshIn
<1>16. Stored(m, r) = a
  <2> HIDE DEF n
  <2> QED
    BY <1>1, <1>2, <1>8, <1>14, <1>15, StoredIs DEF a, x, Shows
<1> QED
  BY <1>0, <1>13, <1>16 DEF m, m2, Map

OneOperation ==
    LET m == Map
        m2 == MapOf(head', cell')
    IN  m2 # m =>
          \E t \in Threads :
            LET r == reg[t]
            IN  \/ r.pc = "link" /\ m2 = AddTopic(m, r.path, r.topic_ma)
                \/ r.pc = "unlink" /\ m2 = DeleteTopics(m, {r.path})
                \/ r.pc = "assign" /\ m2 = Stored(m, r)

LEMMA StepIsOperation ==
    ASSUME TopicInv, FreshInv, [Next]_vars
    PROVE  OneOperation
<1>1. TopicInv'
  BY NextHolds
<1>2. ASSUME NEW t \in Threads, Step(t)
      PROVE  OneOperation
  <2>1. CASE Link(t)
    BY <1>1, <2>1, LinkMap DEF OneOperation, Link, At
  <2>2. CASE Unlink(t)
    BY <1>1, <2>2, UnlinkMap DEF OneOperation, Unlink, At
  <2>3. CASE Assign(t)
    BY <1>1, <2>3, AssignMap DEF OneOperation, Assign, At
  <2>4. CASE ~(Assign(t) \/ Link(t) \/ Unlink(t))
    BY <1>1, <1>2, <2>4, NodesStay, MapStays DEF OneOperation
  <2> QED
    BY <2>1, <2>2, <2>3, <2>4
<1>3. ASSUME head' = head, cell' = cell
      PROVE  OneOperation
  BY <1>3 DEF OneOperation, Map
<1>4. BeginCall \/ (\E call \in {"data_monitor", "topic_monitor"} : BeginMonitor(call)) \/ Faulted
      => head' = head /\ cell' = cell
  BY DEF BeginCall, Begin, BeginMonitor, Faulted, Same, vars
<1> QED
  BY <1>2, <1>3, <1>4 DEF Next, vars

(* ImplementsDB: every change that addTopic, deleteTopic, setTopic or      *)
(* deleteTopicData makes to the list in one of its steps is the operation  *)
(* of TopicDB on the whole map, at the moment of that step; and so is an   *)
(* updateTopicInfo or updateTopicData whose node no other thread changed   *)
(* between its getTopic and its setTopic.                                  *)
THEOREM ListImplementsDB == Spec => ImplementsDB
<1>1. Init => FreshInv
  BY DEF Init, FreshInv, Fresh, FreshIn, Idle
<1>2. TopicInv /\ FreshInv /\ [Next]_vars => FreshInv'
  BY FreshKeeps
<1>3. TopicInv /\ FreshInv /\ [Next]_vars => [OneOperation]_vars
  BY StepIsOperation
<1>4. Spec => [][OneOperation]_vars
  BY <1>1, <1>2, <1>3, AlwaysTopicInv, PTL DEF Spec
<1> QED
  BY <1>4 DEF ImplementsDB, OneOperation, Stored
==============================================================================
