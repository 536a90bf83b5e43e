---------------------------- MODULE CppBrokerProofs ----------------------------
(***************************************************************************)
(* Proofs about CppBroker: the list of the C++ port and libcoap's table of *)
(* resources hold the same topics, and length_ counts the nodes.           *)
(***************************************************************************)
EXTENDS CppBroker, FiniteSetTheorems, TLAPS

(* No path has two nodes.                                                  *)
PathsDistinct ==
    \A i, j \in DOMAIN topic_db : topic_db[i].path = topic_db[j].path => i = j

(* As long as the broker runs, the topics with a resource are the paths of *)
(* the list.                                                               *)
LiveHasNode ==
    pc \in {"select", "loop"} => \A p \in Topics : p \in Live <=> Index(p) # {}

IInv == TypeOK /\ length_ = Len(topic_db) /\ PathsDistinct /\ LiveHasNode

Running == pc \in {"select", "loop"}
-------------------------------------------------------------------------------
(* Bounds on deadlines, for every value of the option.                     *)
LEMMA DeadlineTypes ==
    ASSUME TypeOK, NEW age \in OptAges
    PROVE  AbsTopicMA(age) \in TimeT /\ AbsDataMA(age) \in TimeT
<1>1. /\ clock \in 1 .. MaxClock /\ IntMax \in 0 .. LongMax /\ MaxClock \in 1 .. LongMax
      /\ LongMax \in Nat
  BY CppAssumption DEF TypeOK
<1>2. 0 \in TimeT
  BY <1>1 DEF TimeT
<1>3. CASE age = NoAge
  BY <1>2, <1>3 DEF AbsTopicMA, AbsDataMA
<1>4. CASE age # NoAge
  <2>1. age \in 0 .. 2 * IntMax + 1
    BY <1>4, CppAssumption DEF OptAges
  <2>2. Decoded(age) \in (-IntMax - 1) .. IntMax
    BY <1>1, <2>1 DEF Decoded
  <2>3. \A n \in (-LongMax) .. 2 * LongMax : ToTimeT(n) \in TimeT
    BY <1>1 DEF ToTimeT, TimeT
  <2>. QED
    BY <1>1, <1>2, <1>4, <2>2, <2>3 DEF AbsTopicMA, AbsDataMA
<1>. QED
  BY <1>3, <1>4

(* The lookups find the one node of a path.                                *)
LEMMA AtOf ==
    ASSUME IInv, NEW p, Index(p) # {}
    PROVE  /\ At(p) \in DOMAIN topic_db
           /\ topic_db[At(p)].path = p
           /\ Index(p) = {At(p)}
           /\ topic_db[At(p)] \in TopicData
<1>1. PICK i \in DOMAIN topic_db : topic_db[i].path = p
  BY DEF Index
<1>2. Index(p) = {i}
  BY <1>1 DEF Index, IInv, PathsDistinct
<1>3. i \in Int
  BY <1>1 DEF IInv, TypeOK
<1>4. Min({i}) = i
  BY <1>3 DEF Min
<1>5. At(p) = i
  BY <1>2, <1>4 DEF At
<1>. QED
  BY <1>1, <1>2, <1>5 DEF IInv, TypeOK

(* What every step has to do with the list and the table.                  *)
LEMMA StoreStep ==
    ASSUME TypeOK', length_' = Len(topic_db'), PathsDistinct',
           pc' \in {"select", "loop"} => \A p \in Topics : p \in Live' <=> Index(p)' # {}
    PROVE  IInv'
BY DEF IInv, LiveHasNode

(* A step that leaves the list and the table alone.                        *)
LEMMA ReadOnly ==
    ASSUME IInv, StoreUnchanged,
           clock' \in 1 .. MaxClock, quit' \in BOOLEAN,
           pc' \in {"select", "loop", "exited", "failed"},
           pc' \in {"select", "loop"} => Running
    PROVE  IInv'
BY DEF IInv, TypeOK, StoreUnchanged, PathsDistinct, LiveHasNode, Live, Index, Running

(* A node that is written over keeps its path.                             *)
LEMMA UpdateOK ==
    ASSUME IInv, NEW p \in Topics, Index(p) # {},
           NEW n \in TopicData, n.path = p,
           topic_db' = [topic_db EXCEPT ![At(p)] = n]
    PROVE  /\ topic_db' \in Seq(TopicData)
           /\ Len(topic_db') = Len(topic_db)
           /\ PathsDistinct'
           /\ \A q \in Topics : Index(q)' = Index(q)
           /\ Get(p)' = n
           /\ \A q \in Topics \ {p} : Index(q) # {} => Get(q)' = Get(q)
<1>1. topic_db \in Seq(TopicData)
  BY DEF IInv, TypeOK
<1>2. At(p) \in DOMAIN topic_db /\ topic_db[At(p)].path = p
  BY AtOf
<1>3. topic_db' \in Seq(TopicData) /\ Len(topic_db') = Len(topic_db)
      /\ DOMAIN topic_db' = DOMAIN topic_db
  BY <1>1, <1>2
<1>4. \A i \in DOMAIN topic_db : topic_db'[i].path = topic_db[i].path
  BY <1>1, <1>2
<1>5. PathsDistinct'
  BY <1>3, <1>4 DEF IInv, PathsDistinct
<1>6. \A q : Index(q)' = Index(q)
  BY <1>3, <1>4 DEF Index
<1>7. \A q : At(q)' = At(q)
  BY <1>6 DEF At
<1>8. Get(p)' = n
  BY <1>2, <1>7 DEF Get
<1>9. ASSUME NEW q \in Topics \ {p}, Index(q) # {}  PROVE Get(q)' = Get(q)
  <2>1. At(q) \in DOMAIN topic_db /\ topic_db[At(q)].path = q
    BY <1>9, AtOf
  <2>2. At(q) # At(p)
    BY <1>2, <1>9, <2>1
  <2>. QED
    BY <1>7, <2>1, <2>2 DEF Get
<1>. QED
  BY <1>3, <1>5, <1>6, <1>8, <1>9

(* A node for a path that had none.                                        *)
LEMMA AppendOK ==
    ASSUME IInv, NEW p \in Topics, Index(p) = {},
           NEW n \in TopicData, n.path = p,
           topic_db' = Append(topic_db, n)
    PROVE  /\ topic_db' \in Seq(TopicData)
           /\ Len(topic_db') = Len(topic_db) + 1
           /\ PathsDistinct'
           /\ Index(p)' = {Len(topic_db) + 1}
           /\ \A q \in Topics \ {p} : Index(q)' = Index(q)
           /\ Get(p)' = n
           /\ \A q \in Topics \ {p} : Index(q) # {} => Get(q)' = Get(q)
<1>. DEFINE m == Len(topic_db) + 1
<1>1. topic_db \in Seq(TopicData)
  BY DEF IInv, TypeOK
<1>2. /\ topic_db' \in Seq(TopicData) /\ Len(topic_db') = m
      /\ DOMAIN topic_db' = DOMAIN topic_db \cup {m} /\ m \notin DOMAIN topic_db
      /\ topic_db'[m] = n /\ m \in Int
      /\ \A i \in DOMAIN topic_db : topic_db'[i] = topic_db[i]
  BY <1>1
<1>3. \A i \in DOMAIN topic_db : topic_db[i].path # p
  BY DEF Index
<1>4. PathsDistinct'
  BY <1>2, <1>3 DEF IInv, PathsDistinct
<1>5. Index(p)' = {m}
  BY <1>2, <1>3 DEF Index
<1>6. \A q \in Topics \ {p} : Index(q)' = Index(q)
  BY <1>2 DEF Index
<1>7. Min({m}) = m
  BY <1>2 DEF Min
<1>8. Get(p)' = n
  BY <1>2, <1>5, <1>7 DEF Get, At
<1>9. ASSUME NEW q \in Topics \ {p}, Index(q) # {}  PROVE Get(q)' = Get(q)
  <2>1. At(q) \in DOMAIN topic_db
    BY <1>9, AtOf
  <2>. QED
    BY <1>2, <1>6, <2>1 DEF Get, At
<1>. QED
  BY <1>2, <1>4, <1>5, <1>6, <1>8, <1>9
-------------------------------------------------------------------------------
(* Sets of positions in a list of n nodes.                                 *)
LEMMA PositionsCounted ==
    ASSUME NEW n \in Nat, NEW K \in SUBSET (1 .. n)
    PROVE  /\ IsFiniteSet(K) /\ Cardinality(K) \in Nat
           /\ IsFiniteSet((1 .. n) \ K)
           /\ Cardinality((1 .. n) \ K) = n - Cardinality(K)
<1>. DEFINE S == 1 .. n
<1>1. IsFiniteSet(S) /\ Cardinality(S) = n
  BY FS_Interval
<1>. HIDE DEF S
<1>2. K \in SUBSET S
  BY DEF S
<1>3. IsFiniteSet(K)
  BY <1>1, <1>2, FS_Subset
<1>4. Cardinality(K) \in Nat
  BY <1>3, FS_CardinalityType
<1>5. S \cap K = K
  BY <1>2
<1>6. IsFiniteSet(S \ K) /\ Cardinality(S \ K) = Cardinality(S) - Cardinality(S \cap K)
  BY <1>1, FS_Difference
<1>. QED
  BY <1>1, <1>3, <1>4, <1>5, <1>6 DEF S

(* The enumeration of the nodes that stay reaches all of them.             *)
LEMMA KeptEnumerated ==
    ASSUME IInv, NEW P \in SUBSET Topics,
           NEW f \in [1 .. Cardinality(Kept(P)) -> Kept(P)],
           \A i, j \in DOMAIN f : i < j => f[i] < f[j]
    PROVE  /\ IsFiniteSet(Kept(P)) /\ Cardinality(Kept(P)) \in Nat
           /\ f \in Injection(1 .. Cardinality(Kept(P)), Kept(P))
           /\ f \in Surjection(1 .. Cardinality(Kept(P)), Kept(P))
<1>. DEFINE k == Cardinality(Kept(P))
<1>1. Kept(P) \subseteq 1 .. Len(topic_db) /\ Len(topic_db) \in Nat
  BY DEF Kept, IInv, TypeOK
<1>2. IsFiniteSet(Kept(P)) /\ k \in Nat
  BY <1>1, PositionsCounted
<1>3. \A i, j \in 1 .. k : i # j => f[i] # f[j]
  <2>. SUFFICES ASSUME NEW i \in 1 .. k, NEW j \in 1 .. k, i # j  PROVE f[i] # f[j]
    OBVIOUS
  <2>1. f[i] \in Int /\ f[j] \in Int
    BY <1>1
  <2>2. i < j \/ j < i
    BY <1>2
  <2>. QED
    BY <2>1, <2>2
<1>4. f \in Injection(1 .. k, Kept(P))
  BY <1>3 DEF Injection, IsInjective
<1>5. Cardinality(1 .. k) = k
  BY <1>2, FS_Interval
<1>6. f \in Surjection(1 .. k, Kept(P))
  <2>. HIDE DEF k
  <2>. QED
    BY <1>2, <1>4, <1>5, FS_Injection DEF k
<1>. QED
  BY <1>2, <1>4, <1>6

(* As many nodes go as there are paths in P that have one.                 *)
LEMMA GoneCounted ==
    ASSUME IInv, NEW P \in SUBSET Topics
    PROVE  Cardinality({p \in P : Index(p) # {}}) = Len(topic_db) - Cardinality(Kept(P))
<1>. DEFINE D == DOMAIN topic_db
            gone == D \ Kept(P)
            paths == {p \in P : Index(p) # {}}
            g == [i \in gone |-> topic_db[i].path]
<1>1. D = 1 .. Len(topic_db) /\ Len(topic_db) \in Nat
  BY DEF IInv, TypeOK
<1>2. Kept(P) \in SUBSET (1 .. Len(topic_db))
  BY <1>1 DEF Kept
<1>3. /\ IsFiniteSet((1 .. Len(topic_db)) \ Kept(P))
      /\ Cardinality((1 .. Len(topic_db)) \ Kept(P)) = Len(topic_db) - Cardinality(Kept(P))
  BY <1>1, <1>2, PositionsCounted
<1>4. IsFiniteSet(gone) /\ Cardinality(gone) = Len(topic_db) - Cardinality(Kept(P))
  BY <1>1, <1>3
<1>5. \A i \in gone : topic_db[i].path \in paths
  BY DEF Kept, Index
<1>6. \A p \in paths : \E i \in gone : topic_db[i].path = p
  BY DEF Kept, Index
<1>7. \A i, j \in gone : topic_db[i].path = topic_db[j].path => i = j
  BY DEF IInv, PathsDistinct
<1>8. g \in Bijection(gone, paths)
  BY <1>5, <1>6, <1>7 DEF Bijection, Injection, Surjection, IsInjective
<1>9. ExistsBijection(gone, paths)
  BY <1>8 DEF ExistsBijection
<1>10. Cardinality(paths) = Cardinality(gone)
  BY <1>4, <1>9, FS_Bijection
<1>. QED
  BY <1>4, <1>10

(* DeleteTopics takes out the nodes of P and no other.                     *)
LEMMA DeleteOK ==
    ASSUME IInv, NEW P \in SUBSET Topics, DeleteTopics(P)
    PROVE  /\ topic_db' \in Seq(TopicData)
           /\ length_' = Len(topic_db')
           /\ PathsDistinct'
           /\ \A q \in Topics : Index(q)' # {} <=> q \notin P /\ Index(q) # {}
           /\ \A q \in Topics \ P : Index(q) # {} => Get(q)' = Get(q)
<1>. DEFINE k == Cardinality(Kept(P))
<1>1. PICK f \in [1 .. k -> Kept(P)] :
        /\ \A i, j \in DOMAIN f : i < j => f[i] < f[j]
        /\ topic_db' = [i \in DOMAIN f |-> topic_db[f[i]]]
  BY DEF DeleteTopics
<1>2. /\ k \in Nat
      /\ \A i, j \in 1 .. k : f[i] = f[j] => i = j
      /\ \A n \in Kept(P) : \E i \in 1 .. k : f[i] = n
  BY <1>1, KeptEnumerated DEF Injection, IsInjective, Surjection
<1>3. \A i \in 1 .. k : f[i] \in DOMAIN topic_db /\ topic_db[f[i]].path \notin P
  BY DEF Kept
<1>4. topic_db' = [i \in 1 .. k |-> topic_db[f[i]]]
  BY <1>1
<1>. HIDE DEF k
<1>5. \A i \in 1 .. k : topic_db[f[i]] \in TopicData
  BY <1>3 DEF IInv, TypeOK
<1>6. topic_db' \in Seq(TopicData) /\ Len(topic_db') = k /\ DOMAIN topic_db' = 1 .. k
  BY <1>2, <1>4, <1>5
<1>7. length_' = Len(topic_db')
  <2>1. Cardinality({p \in P : Index(p) # {}}) = Len(topic_db) - k
    BY GoneCounted DEF k
  <2>2. length_' = length_ - (Len(topic_db) - k)
    BY <2>1 DEF DeleteTopics
  <2>3. length_ = Len(topic_db) /\ Len(topic_db) \in Nat
    BY DEF IInv, TypeOK
  <2>. QED
    BY <1>2, <1>6, <2>2, <2>3
<1>8. PathsDistinct'
  BY <1>2, <1>3, <1>4, <1>6 DEF PathsDistinct, IInv
<1>9. ASSUME NEW q \in Topics  PROVE Index(q)' # {} <=> q \notin P /\ Index(q) # {}
  <2>1. ASSUME NEW i \in Index(q)'  PROVE q \notin P /\ Index(q) # {}
    BY <1>3, <1>4, <1>6, <2>1 DEF Index
  <2>2. ASSUME q \notin P, NEW n \in Index(q)  PROVE Index(q)' # {}
    <3>1. n \in Kept(P)
      BY <2>2 DEF Kept, Index
    <3>2. PICK i \in 1 .. k : f[i] = n
      BY <1>2, <3>1
    <3>3. i \in DOMAIN topic_db' /\ topic_db'[i].path = q
      BY <1>4, <1>6, <2>2, <3>2 DEF Index
    <3>. QED
      BY <3>3 DEF Index
  <2>. QED
    BY <2>1, <2>2
<1>10. ASSUME NEW q \in Topics \ P, Index(q) # {}  PROVE Get(q)' = Get(q)
  <2>1. At(q) \in Kept(P) /\ Index(q) = {At(q)}
    BY <1>10, AtOf DEF Kept
  <2>2. PICK i \in 1 .. k : f[i] = At(q)
    BY <1>2, <2>1
  <2>3. Index(q)' = {i}
    <3>1. i \in Index(q)'
      BY <1>4, <1>6, <1>10, <2>2, AtOf DEF Index
    <3>2. \A j \in Index(q)' : j = i
      BY <1>6, <1>8, <3>1 DEF PathsDistinct, Index
    <3>. QED
      BY <3>1, <3>2
  <2>4. Min({i}) = i
    BY <1>2 DEF Min
  <2>5. At(q)' = i
    BY <2>3, <2>4 DEF At
  <2>. QED
    BY <1>4, <2>2, <2>5 DEF Get
<1>. QED
  BY <1>6, <1>7, <1>8, <1>9, <1>10
-------------------------------------------------------------------------------
(* The two ways in which a node is written over.                           *)
LEMMA LeaseOK ==
    ASSUME IInv, NEW p \in Topics, Index(p) # {}, NEW topic_ma \in TimeT,
           topic_db' = UpdateLease(p, topic_ma)
    PROVE  /\ topic_db' \in Seq(TopicData)
           /\ Len(topic_db') = Len(topic_db)
           /\ PathsDistinct'
           /\ \A q \in Topics : Index(q)' = Index(q)
           /\ Get(p)' = [Get(p) EXCEPT !.topic_ma = topic_ma]
           /\ \A q \in Topics \ {p} : Index(q) # {} => Get(q)' = Get(q)
<1>. DEFINE n == [Get(p) EXCEPT !.topic_ma = topic_ma]
<1>1. Get(p) \in TopicData /\ Get(p).path = p
  BY AtOf DEF Get
<1>2. n \in TopicData /\ n.path = p
  BY <1>1 DEF TopicData
<1>3. topic_db' = [topic_db EXCEPT ![At(p)] = n]
  BY DEF UpdateLease, Get
<1>. HIDE DEF n
<1>4. /\ topic_db' \in Seq(TopicData) /\ Len(topic_db') = Len(topic_db) /\ PathsDistinct'
      /\ \A q \in Topics : Index(q)' = Index(q)
      /\ Get(p)' = n
      /\ \A q \in Topics \ {p} : Index(q) # {} => Get(q)' = Get(q)
  BY <1>2, <1>3, UpdateOK
<1>. QED
  BY <1>4 DEF n

LEMMA DataOK ==
    ASSUME IInv, NEW p \in Topics, Index(p) # {}, NEW data \in Data, NEW data_ma \in TimeT,
           topic_db' = UpdateData(p, data, data_ma)
    PROVE  /\ topic_db' \in Seq(TopicData)
           /\ Len(topic_db') = Len(topic_db)
           /\ PathsDistinct'
           /\ \A q \in Topics : Index(q)' = Index(q)
           /\ Get(p)' = [path |-> p, data |-> data,
                         topic_ma |-> Get(p).topic_ma, data_ma |-> data_ma]
           /\ \A q \in Topics \ {p} : Index(q) # {} => Get(q)' = Get(q)
<1>. DEFINE n == [path |-> p, data |-> data, topic_ma |-> Get(p).topic_ma, data_ma |-> data_ma]
<1>1. Get(p) \in TopicData /\ Get(p).path = p /\ At(p) \in DOMAIN topic_db
  BY AtOf DEF Get
<1>2. n \in TopicData /\ n.path = p
  BY <1>1 DEF TopicData
<1>3. topic_db' = [topic_db EXCEPT ![At(p)] = n]
  BY <1>1 DEF UpdateData, Get
<1>. HIDE DEF n
<1>4. /\ topic_db' \in Seq(TopicData) /\ Len(topic_db') = Len(topic_db) /\ PathsDistinct'
      /\ \A q \in Topics : Index(q)' = Index(q)
      /\ Get(p)' = n
      /\ \A q \in Topics \ {p} : Index(q) # {} => Get(q)' = Get(q)
  BY <1>2, <1>3, UpdateOK
<1>. QED
  BY <1>4 DEF n
-------------------------------------------------------------------------------
(* Init and the actions.                                                   *)
LEMMA InitOK == Init => IInv
<1>. SUFFICES ASSUME Init  PROVE IInv
  OBVIOUS
<1>1. topic_db = <<>> /\ <<>> \in Seq(TopicData) /\ Len(<<>>) = 0 /\ DOMAIN <<>> = {}
  BY DEF Init
<1>2. TypeOK
  <2>1. resources \in [Topics -> AllCts \cup {NoTopic}]
    BY DEF Init
  <2>2. topic_db \in Seq(TopicData)
    BY <1>1
  <2>3. clock \in 1 .. MaxClock
    BY CppAssumption DEF Init
  <2>. QED
    BY <2>1, <2>2, <2>3 DEF Init, TypeOK
<1>3. \A p \in Topics : Index(p) = {} /\ p \notin Live
  BY <1>1 DEF Index, Live, Init
<1>. QED
  BY <1>1, <1>2, <1>3 DEF Init, IInv, PathsDistinct, LiveHasNode

LEMMA PostExistingOK ==
    ASSUME IInv, NEW p \in Paths, NEW new \in Topics, NEW age \in OptAges,
           PostExisting(p, new, age)
    PROVE  IInv'
<1>1. Index(new) # {} /\ Running
  BY DEF PostExisting, Respond, IInv, LiveHasNode, Running
<1>2. AbsTopicMA(age) \in TimeT
  BY DeadlineTypes DEF IInv
<1>3. /\ topic_db' \in Seq(TopicData) /\ Len(topic_db') = Len(topic_db) /\ PathsDistinct'
      /\ \A q \in Topics : Index(q)' = Index(q)
  BY <1>1, <1>2, LeaseOK DEF PostExisting
<1>4. Live' = Live
  BY DEF PostExisting, Live
<1>5. TypeOK'
  BY <1>3 DEF PostExisting, TypeOK, IInv, Respond, Unmoved
<1>6. length_' = Len(topic_db')
  BY <1>3 DEF PostExisting, IInv
<1>. QED
  BY <1>1, <1>3, <1>4, <1>5, <1>6, StoreStep DEF IInv, LiveHasNode, Running

LEMMA PostCreateOK ==
    ASSUME IInv, NEW p \in Paths, NEW new \in Topics, NEW ct \in AllCts,
           NEW age \in OptAges, PostCreate(p, new, ct, age)
    PROVE  IInv'
<1>. DEFINE n == [path |-> new, data |-> NoData, topic_ma |-> AbsTopicMA(age), data_ma |-> 0]
<1>1. Index(new) = {} /\ Running
  BY DEF PostCreate, Respond, IInv, LiveHasNode, Running
<1>2. n \in TopicData
  <2>1. AbsTopicMA(age) \in TimeT /\ 0 \in TimeT
    BY DeadlineTypes, CppAssumption DEF IInv, TimeT
  <2>. QED
    BY <2>1 DEF TopicData, Data
<1>3. topic_db' = Append(topic_db, n) /\ length_' = length_ + 1
  BY <1>1 DEF PostCreate, AddTopic
<1>4. n.path = new
  OBVIOUS
<1>. HIDE DEF n
<1>5. /\ topic_db' \in Seq(TopicData) /\ Len(topic_db') = Len(topic_db) + 1 /\ PathsDistinct'
      /\ Index(new)' = {Len(topic_db) + 1}
      /\ \A q \in Topics \ {new} : Index(q)' = Index(q)
  BY <1>1, <1>2, <1>3, <1>4, AppendOK
<1>6. Live' = Live \cup {new}
  BY CppAssumption DEF PostCreate, Live, IInv, TypeOK, AllCts
<1>7. TypeOK'
  BY <1>3, <1>5 DEF PostCreate, TypeOK, IInv, Respond, Unmoved
<1>8. length_' = Len(topic_db')
  BY <1>3, <1>5 DEF IInv
<1>. QED
  BY <1>1, <1>5, <1>6, <1>7, <1>8, StoreStep DEF IInv, LiveHasNode, Running

LEMMA PutTopicOK ==
    ASSUME IInv, NEW p \in Topics, NEW ct \in OptCts, NEW age \in OptAges, NEW data \in Data,
           PutTopic(p, ct, age, data)
    PROVE  IInv'
<1>1. Index(p) # {} /\ Running
  BY DEF PutTopic, Served, IInv, LiveHasNode, Running
<1>2. AbsDataMA(age) \in TimeT
  BY DeadlineTypes DEF IInv
<1>3. /\ topic_db' \in Seq(TopicData) /\ Len(topic_db') = Len(topic_db) /\ PathsDistinct'
      /\ \A q \in Topics : Index(q)' = Index(q)
  BY <1>1, <1>2, DataOK DEF PutTopic
<1>4. Live' = Live
  BY DEF PutTopic, Live
<1>5. TypeOK'
  BY <1>3 DEF PutTopic, TypeOK, IInv, Respond, Unmoved
<1>6. length_' = Len(topic_db')
  BY <1>3 DEF PutTopic, IInv
<1>. QED
  BY <1>1, <1>3, <1>4, <1>5, <1>6, StoreStep DEF IInv, LiveHasNode, Running

(* The topic and the resources whose URI contains it.                      *)
DeletedWith(p) ==
    IF Index(p) = {} THEN {}
    ELSE {p} \cup {q \in Live \ {p} : Contains(q, p) /\ Index(q) # {}}

LEMMA DeleteTopicOK ==
    ASSUME IInv, NEW p \in Topics, DeleteTopic(p)
    PROVE  IInv'
<1>. DEFINE D == DeletedWith(p)
<1>1. D \in SUBSET Topics /\ Running
  BY DEF DeletedWith, DeleteTopic, Served, Live, Running
<1>2. DeleteTopics(D) /\ resources' = [q \in Topics |-> IF q \in D THEN NoTopic ELSE resources[q]]
      /\ UNCHANGED <<clock, quit>> /\ pc' = "loop"
  BY DEF DeleteTopic, DeletedWith, Respond, Unmoved
<1>. HIDE DEF D
<1>3. /\ topic_db' \in Seq(TopicData) /\ length_' = Len(topic_db') /\ PathsDistinct'
      /\ \A q \in Topics : Index(q)' # {} <=> q \notin D /\ Index(q) # {}
  BY <1>1, <1>2, DeleteOK
<1>4. Live' = Live \ D
  BY <1>2 DEF Live
<1>5. Len(topic_db') \in Nat
  BY <1>3
<1>6. TypeOK'
  BY <1>2, <1>3, <1>5 DEF TypeOK, IInv
<1>7. \A q \in Topics : q \in Live' <=> Index(q)' # {}
  BY <1>1, <1>3, <1>4 DEF IInv, LiveHasNode, Running
<1>. QED
  BY <1>3, <1>6, <1>7, StoreStep

LEMMA LoopOK ==
    ASSUME IInv, Loop
    PROVE  IInv'
<1>1. CASE quit
  BY <1>1 DEF Loop, IInv, TypeOK, PathsDistinct, LiveHasNode, Unmoved
<1>2. CASE ~quit
  BY <1>2, ReadOnly DEF Loop, IInv, TypeOK, StoreUnchanged, Unmoved, Running
<1>. QED
  BY <1>1, <1>2

(* The requests that leave the topics alone, the signal and the clock.     *)
LEMMA RestOK ==
    ASSUME IInv, OtherPacket \/ BrokerRequest \/ HandleSIGINT \/ Tick \/ Ended \/ UNCHANGED vars
    PROVE  IInv'
<1>1. CASE OtherPacket \/ BrokerRequest
  BY <1>1, ReadOnly DEF OtherPacket, BrokerRequest, GetBroker, GetBrokerGarbled,
     GetBrokerMalformed, Failed, MethodNotAllowed, NotFound, Respond, Unmoved, Running, IInv, TypeOK
<1>2. CASE HandleSIGINT
  BY <1>2, ReadOnly DEF HandleSIGINT, Running, IInv, TypeOK
<1>4. CASE Tick
  <2>1. clock' \in 1 .. MaxClock
    BY <1>4, CppAssumption DEF Tick, IInv, TypeOK
  <2>. QED
    BY <1>4, <2>1, ReadOnly DEF Tick, Running, IInv, TypeOK
<1>3. CASE Ended \/ UNCHANGED vars
  BY <1>3, ReadOnly DEF Ended, vars, StoreUnchanged, Running, IInv, TypeOK
<1>. QED
  BY <1>1, <1>2, <1>3, <1>4

LEMMA IInvInductive == IInv /\ [Next]_vars => IInv'
<1>. SUFFICES ASSUME IInv, [Next]_vars  PROVE IInv'
  OBVIOUS
<1>1. ASSUME NEW p \in Paths, NEW code \in {400, 406}, PostRefused(p, code)  PROVE IInv'
  BY <1>1, ReadOnly DEF PostRefused, Respond, Unmoved, Running, IInv, TypeOK
<1>2. ASSUME NEW p \in Paths, PostUncaught(p)  PROVE IInv'
  BY <1>2, ReadOnly DEF PostUncaught, Failed, Unmoved, Running, IInv, TypeOK
<1>3. ASSUME NEW p \in Topics, NEW ct \in OptCts, GetTopic(p, ct) \/ PutRefused(p, ct)  PROVE IInv'
  BY <1>3, ReadOnly DEF GetTopic, PutRefused, Served, Respond, Unmoved, Running, IInv, TypeOK
<1>4. ASSUME NEW p \in Topics, CtUncaught(p)  PROVE IInv'
  BY <1>4, ReadOnly DEF CtUncaught, Failed, Unmoved, Running, IInv, TypeOK
<1>. QED
  BY <1>1, <1>2, <1>3, <1>4, RestOK, PostExistingOK, PostCreateOK, PutTopicOK, DeleteTopicOK, LoopOK
     DEF Next, PostRequest, TopicRequest

LEMMA IInvAlways == Spec => []IInv
BY InitOK, IInvInductive, PTL DEF Spec
-------------------------------------------------------------------------------
(* Deadlines stay in the range of time_t and the nodes in the form of      *)
(* TopicData, whatever a client's Max-Age is: a Max-Age that an int cannot *)
(* hold and a sum that a time_t cannot hold both wrap around.              *)
THEOREM CppTypes == Spec => []TypeOK
<1>1. IInv => TypeOK
  BY DEF IInv
<1>. QED
  BY <1>1, IInvAlways, PTL

(* Resource table, list and length_ agree between the packets.             *)
THEOREM CppResourcesMatchDB == Spec => []ResourcesMatchDB
<1>1. IInv => ResourcesMatchDB
  <2>. SUFFICES ASSUME IInv, Running  PROVE ResourcesMatchDB
    BY DEF ResourcesMatchDB, Running
  <2>1. ASSUME NEW p \in Topics, p \in Live  PROVE Cardinality(Index(p)) = 1
    BY <2>1, AtOf, FS_Singleton DEF IInv, LiveHasNode, Running
  <2>2. ASSUME NEW p \in Topics, p \notin Live  PROVE Cardinality(Index(p)) = 0
    BY <2>2, FS_EmptySet DEF IInv, LiveHasNode, Running
  <2>. QED
    BY <2>1, <2>2 DEF ResourcesMatchDB, IInv
<1>. QED
  BY <1>1, IInvAlways, PTL
-------------------------------------------------------------------------------
(* The refinement of TopicStore.  It speaks of topics none of which has    *)
(* the URI of another inside its own other than at the beginning: for      *)
(* those has_substr finds the subtopics and nothing else.                  *)
NoUriInside == \A p, q \in Topics : Contains(q, p) => CanCreate(p, q)

LEMMA ContainsSubtopics ==
    ASSUME NoUriInside, NEW p \in Topics, NEW q \in Topics
    PROVE  Contains(q, p) <=> q \in Store!SubtopicsOf(p)
<1>1. ASSUME q \in Store!SubtopicsOf(p)  PROVE Contains(q, p)
  <2>1. /\ p \in Seq(STRING) /\ q \in Seq(STRING) /\ Len(p) > 1 /\ Len(q) > Len(p)
        /\ SubSeq(q, 1, Len(p)) = p /\ q[1] = "ps" /\ Len(p) \in Nat /\ Len(q) \in Nat
    BY <1>1, CppAssumption DEF Store!SubtopicsOf
  <2>2. SubSeq(q, 2, Len(p)) = Tail(p)
    <3>1. /\ Tail(p) \in Seq(STRING) /\ Len(Tail(p)) = Len(p) - 1
          /\ \A i \in 1 .. Len(p) - 1 : Tail(p)[i] = p[i + 1]
      BY <2>1
    <3>2. /\ SubSeq(q, 2, Len(p)) \in Seq(STRING) /\ Len(SubSeq(q, 2, Len(p))) = Len(p) - 1
          /\ \A i \in 1 .. Len(p) - 1 : SubSeq(q, 2, Len(p))[i] = q[i + 1]
      BY <2>1
    <3>3. \A i \in 1 .. Len(p) : q[i] = p[i]
      <4>1. \A i \in 1 .. Len(p) : SubSeq(q, 1, Len(p))[i] = q[i]
        BY <2>1
      <4>. QED
        BY <2>1, <4>1
    <3>4. \A i \in 1 .. Len(p) - 1 : i + 1 \in 1 .. Len(p)
      BY <2>1
    <3>. QED
      BY <2>1, <3>1, <3>2, <3>3, <3>4
  <2>3. 0 \in 0 .. Len(q) - Len(p) - 1 /\ q[0 + 1] \in PsEnding
        /\ SubSeq(q, 0 + 2, 0 + Len(p)) = Tail(p)
    BY <2>1, <2>2, CppAssumption
  <2>. QED
    BY <2>3 DEF Contains
<1>2. ASSUME Contains(q, p)  PROVE q \in Store!SubtopicsOf(p)
  BY <1>2 DEF NoUriInside, CanCreate, Store!SubtopicsOf
<1>. QED
  BY <1>1, <1>2

LEMMA NoTopicIsBroker == \A p \in Topics : p # Broker
<1>. SUFFICES ASSUME NEW p \in Topics, p = Broker  PROVE FALSE
  OBVIOUS
<1>1. Len(p) > 1
  BY CppAssumption
<1>2. Len(p) = 1
  BY DEF Broker
<1>. QED
  BY <1>1, <1>2

(* What the deadlines are to a client.                                     *)
LEMMA DeadlineEnds ==
    ASSUME TypeOK, NEW age \in OptAges
    PROVE  LET ma   == AbsDataMA(age)
               gone == ma > 0 /\ ExpiredAt(ma, clock)
           IN  /\ End(AbsTopicMA(age)) \in Store!LeaseEnds(age)
               /\ gone => age # NoAge /\ age > Longest
               /\ ~gone => End(ma) \in Store!Ends(age)
<1>1. /\ clock \in 1 .. MaxClock /\ MaxClock \in 1 .. LongMax /\ LongMax \in Nat
      /\ IntMax \in 0 .. LongMax /\ NoAge \notin Nat
  BY CppAssumption DEF TypeOK
<1>2. CASE age = NoAge
  BY <1>1, <1>2 DEF AbsTopicMA, AbsDataMA, Store!Ends, Store!LeaseEnds, ExpiredAt, End
<1>3. CASE age # NoAge
  <2>1. age \in 0 .. 2 * IntMax + 1
    BY <1>3, CppAssumption DEF OptAges
  <2>2. Longest \in Int /\ Longest <= IntMax /\ Longest <= LongMax - MaxClock
    BY <1>1 DEF Longest
  <2>3. CASE age <= Longest
    <3>1. /\ AbsDataMA(age) = clock + age
          /\ AbsTopicMA(age) = IF age = 0 THEN 0 ELSE clock + age
      BY <1>1, <1>3, <2>1, <2>2, <2>3 DEF AbsTopicMA, AbsDataMA, ToTimeT, Decoded
    <3>. QED
      BY <1>1, <1>3, <2>1, <2>3, <3>1 DEF Store!Ends, Store!LeaseEnds, ExpiredAt, End
  <2>4. CASE age > Longest
    <3>1. (Decoded(age) = age /\ age <= IntMax) \/ Decoded(age) < 0
      BY <1>1, <2>1 DEF Decoded
    <3>2. Decoded(age) \in Int
      BY <1>1, <2>1 DEF Decoded
    <3>3. /\ AbsTopicMA(age) \in {0, clock + age} \/ AbsTopicMA(age) < 0
          /\ age = 0 => AbsTopicMA(age) = 0
      <4>1. CASE Decoded(age) < 1
        BY <1>3, <3>1, <4>1 DEF AbsTopicMA
      <4>2. CASE ~(Decoded(age) < 1)
        <5>1. Decoded(age) = age /\ age # 0 /\ age <= IntMax
          BY <2>1, <3>1, <3>2, <4>2
        <5>2. AbsTopicMA(age) = ToTimeT(clock + age)
          BY <1>3, <4>2, <5>1 DEF AbsTopicMA
        <5>3. CASE clock + age > LongMax
          BY <1>1, <2>1, <5>1, <5>2, <5>3 DEF ToTimeT
        <5>4. CASE ~(clock + age > LongMax)
          BY <5>1, <5>2, <5>4 DEF ToTimeT
        <5>. QED
          BY <5>3, <5>4
      <4>. QED
        BY <4>1, <4>2
    <3>4. End(AbsTopicMA(age)) \in {0, clock + age, Unsure}
          /\ (age = 0 => End(AbsTopicMA(age)) = 0)
      BY <1>1, <2>1, <3>3 DEF End
    <3>5. /\ AbsDataMA(age) \in Int
          /\ AbsDataMA(age) = clock + age \/ AbsDataMA(age) < clock
      BY <1>1, <1>3, <2>1, <3>1, <3>2 DEF AbsDataMA, ToTimeT
    <3>6. ~(AbsDataMA(age) > 0 /\ ExpiredAt(AbsDataMA(age), clock)) =>
            End(AbsDataMA(age)) \in {0, clock + age, Unsure}
      BY <1>1, <2>1, <3>5 DEF End, ExpiredAt
    <3>7. Store!Ends(age) = {0, clock + age, Unsure}
      BY <1>1, <1>3, <2>1, <2>2, <2>4 DEF Store!Ends
    <3>. QED
      BY <1>3, <2>4, <3>4, <3>6, <3>7 DEF Store!LeaseEnds
  <2>. QED
    BY <1>1, <2>1, <2>2, <2>3, <2>4
<1>. QED
  BY <1>2, <1>3

(* A value that clients no longer see although the node has it.            *)
Hidden(n) == n.data = NoData \/ (n.data_ma > 0 /\ ExpiredAt(n.data_ma, clock))

LEMMA VisibleNode ==
    ASSUME NEW p \in Topics, Running, p \in Live
    PROVE  LET n == Get(p)
           IN  Visible(p) = IF Hidden(n) THEN Store!Topic(NoData, 0, End(n.topic_ma))
                            ELSE Store!Topic(n.data, End(n.data_ma), End(n.topic_ma))
BY DEF Visible, Running, Hidden, Store!Topic

(* The topics that a client can see.                                       *)
LEMMA VisibleOf ==
    ASSUME IInv, NEW p \in Topics
    PROVE  /\ Visible(p) = NoTopic <=> ~(Running /\ p \in Live)
           /\ Running /\ p \in Live =>
                 /\ Get(p) \in TopicData
                 /\ Visible(p).lease = End(Get(p).topic_ma)
                 /\ Visible(p).until = IF Hidden(Get(p)) THEN 0 ELSE End(Get(p).data_ma)
                 /\ ~Store!Over(Visible(p).until, clock)
<1>1. CASE ~(Running /\ p \in Live)
  BY <1>1 DEF Visible, Running, IInv, TypeOK
<1>2. CASE Running /\ p \in Live
  <2>. DEFINE n == Get(p)
  <2>1. n \in TopicData
    BY <1>2, AtOf DEF Get, IInv, LiveHasNode, Running
  <2>2. n.data_ma \in TimeT /\ n.topic_ma \in TimeT /\ n.data \in Data
    BY <2>1 DEF TopicData
  <2>3. 0 \in TimeT /\ NoData \in Data
    BY CppAssumption DEF TimeT, Data
  <2>4. Visible(p) = IF Hidden(n) THEN Store!Topic(NoData, 0, End(n.topic_ma))
                     ELSE Store!Topic(n.data, End(n.data_ma), End(n.topic_ma))
    BY <1>2, VisibleNode
  <2>5. End(n.topic_ma) \in TimeT \cup {Unsure} /\ End(n.data_ma) \in TimeT \cup {Unsure}
    BY <2>2 DEF End
  <2>. HIDE DEF n
  <2>6. Visible(p) \in [value : Data, until : TimeT \cup {Unsure}, lease : TimeT \cup {Unsure}]
    BY <2>2, <2>3, <2>4, <2>5 DEF Store!Topic
  <2>7. Visible(p).lease = End(n.topic_ma)
        /\ Visible(p).until = IF Hidden(n) THEN 0 ELSE End(n.data_ma)
    BY <2>4 DEF Store!Topic, Hidden
  <2>8. ~Store!Over(Visible(p).until, clock)
    <3>1. n.data_ma \in Int /\ clock \in Int
      BY <2>2, CppAssumption DEF IInv, TypeOK, TimeT
    <3>. QED
      BY <2>7, <3>1 DEF Store!Over, Hidden, End, ExpiredAt
  <2>. QED
    BY <1>2, <2>1, <2>6, <2>7, <2>8, VisibleAssumption DEF n
<1>. QED
  BY <1>1, <1>2

LEMMA PresentIsLive ==
    ASSUME IInv, Running
    PROVE  Store!Named = Live /\ Store!Present = Live
BY VisibleOf DEF Store!Named, Store!Present, Live
-------------------------------------------------------------------------------
(* The store as TopicStore sees it.                                        *)
Seen == [p \in Topics |-> Visible(p)]

(* A step that only answers: the store and the clock stay.                 *)
LEMMA SeenSame ==
    ASSUME IInv, StoreUnchanged, UNCHANGED clock, Running, Running'
    PROVE  Seen' = Seen
<1>1. \A p \in Topics : Visible(p)' = Visible(p)
  <2>1. Live' = Live /\ \A p \in Topics : Get(p)' = Get(p)
    BY DEF StoreUnchanged, Live, Get, At, Index
  <2>. QED
    BY <2>1 DEF Visible, Running
<1>. QED
  BY <1>1 DEF Seen

(* The clock may move, and the nodes are left alone: the values that are   *)
(* over are no longer seen.                                                *)
LEMMA PassStep ==
    ASSUME IInv, StoreUnchanged, clock' \in {clock, clock + 1}, Running, Running',
           response' \in {response, NoResponse}
    PROVE  Store!Pass
<1>. DEFINE V == {p \in Live : Store!Over(Visible(p).until, clock')}
<1>1. Told' \in {Told, Store!Silence}
  BY DEF Told, NoResponse, Reply, Store!Silence, Store!Plain, Store!Answer
<1>2. Store!Present = Live /\ Live' = Live
  BY PresentIsLive DEF StoreUnchanged, Live
<1>3. ASSUME NEW p \in Topics
      PROVE  Visible(p)' = IF p \in {} THEN NoTopic
                           ELSE IF p \in V THEN Store!Topic(NoData, 0, Visible(p).lease)
                           ELSE Visible(p)
  <2>1. CASE p \notin Live
    BY <1>2, <2>1 DEF Visible
  <2>2. CASE p \in Live
    <3>. DEFINE n == Get(p)
    <3>1. /\ n \in TopicData /\ Get(p)' = n
          /\ Visible(p).lease = End(n.topic_ma)
          /\ Visible(p).until = IF Hidden(n) THEN 0 ELSE End(n.data_ma)
      BY <2>2, VisibleOf DEF StoreUnchanged, Get, At, Index
    <3>2. n.data_ma \in Int /\ clock \in Int
      BY <3>1, CppAssumption DEF TopicData, TimeT, IInv, TypeOK
    <3>3. Hidden(n)' <=> n.data = NoData \/ (n.data_ma > 0 /\ ExpiredAt(n.data_ma, clock'))
      BY <3>1 DEF Hidden
    <3>4. Hidden(n) => Hidden(n)' /\ ~Store!Over(Visible(p).until, clock')
      BY <3>1, <3>2, <3>3 DEF Hidden, ExpiredAt, Store!Over
    <3>5. ~Hidden(n) => (Hidden(n)' <=> Store!Over(Visible(p).until, clock'))
      BY <3>1, <3>2, <3>3, VisibleAssumption DEF Hidden, ExpiredAt, Store!Over, End
    <3>6. Visible(p)' = IF Hidden(n)' THEN Store!Topic(NoData, 0, End(n.topic_ma))
                        ELSE Store!Topic(n.data, End(n.data_ma), End(n.topic_ma))
      BY <1>2, <2>2, <3>1, <3>3 DEF Visible, Running, Store!Topic, Hidden
    <3>7. Visible(p) = IF Hidden(n) THEN Store!Topic(NoData, 0, End(n.topic_ma))
                       ELSE Store!Topic(n.data, End(n.data_ma), End(n.topic_ma))
      BY <2>2, VisibleNode
    <3>8. p \in V <=> Store!Over(Visible(p).until, clock')
      BY <2>2
    <3>. HIDE DEF n, V
    <3>. QED
      BY <3>1, <3>4, <3>5, <3>6, <3>7, <3>8
  <2>. QED
    BY <2>1, <2>2
<1>4. /\ V \in SUBSET {p \in Store!Present : Store!MayBeOver(Seen[p].until, clock')}
      /\ \A p \in Store!Present : Store!Over(Seen[p].until, clock') => p \in V
      /\ {} \in SUBSET {p \in Store!Present : Store!MayBeOver(Seen[p].lease, clock')}
  BY <1>2 DEF Seen, Store!MayBeOver, Live
<1>. HIDE DEF V
<1>5. Seen' = [p \in Topics |->
                IF p \in {} THEN NoTopic
                ELSE IF p \in V THEN Store!Topic(NoData, 0, Seen[p].lease)
                ELSE Seen[p]]
  BY <1>3 DEF Seen
<1>. QED
  BY <1>1, <1>4, <1>5 DEF Store!Pass, Seen

LEMMA CloseStep ==
    ASSUME IInv, pc' \in {"exited", "failed"}, UNCHANGED <<clock, response>>
    PROVE  Store!Close
<1>1. \A p \in Topics : Visible(p)' = NoTopic
  BY DEF Visible
<1>2. Told' = Told
  BY DEF Told
<1>. QED
  BY <1>1, <1>2 DEF Store!Close

LEMMA RefuseStep ==
    ASSUME IInv, StoreUnchanged, UNCHANGED clock, Running, Running',
           NEW m \in {"GET", "PUT", "POST", "DELETE"}, NEW p \in Paths,
           NEW code \in {400, 404, 405, 406, 415}, response' = Reply(m, p, code)
    PROVE  Store!Refuse
<1>1. Seen' = Seen
  BY SeenSame
<1>2. Told' = Store!Plain("refused")
  BY DEF Told, Reply, Store!Plain, Store!Answer
<1>. QED
  BY <1>1, <1>2 DEF Store!Refuse, Seen

LEMMA ListStep ==
    ASSUME IInv, NEW query \in AllCts \cup {NoCt}, NEW beyond \in BOOLEAN,
           GetBroker(query, beyond)
    PROVE  Store!Refuse \/ \E L \in SUBSET Topics : Store!List(L)
<1>. DEFINE links == Links(query)
<1>1. Running /\ Running' /\ StoreUnchanged /\ UNCHANGED clock
  BY DEF GetBroker, Respond, Unmoved, Running
<1>2. CASE links = {} \/ beyond
  <2>1. response' = Reply("GET", Broker, 404) \/ response' = Reply("GET", Broker, 400)
    BY <1>2 DEF GetBroker, Respond
  <2>. QED
    BY <1>1, <2>1, RefuseStep DEF Paths
<1>3. CASE ~(links = {} \/ beyond)
  <2>1. response' = [Reply("GET", Broker, 205) EXCEPT !.links = links]
    BY <1>3 DEF GetBroker, Respond
  <2>2. response'.method = "GET" /\ response'.code = 205 /\ response'.uri = Broker
        /\ response'.links = links /\ response'.age = NoAge
    BY <2>1 DEF Reply
  <2>3. Told' = Store!Answer("list", links, NoData, NoAge, 0)
    BY <1>3, <2>2 DEF Told, Store!Answer
  <2>4. Seen' = Seen /\ Store!Named = Live
    BY <1>1, SeenSame, PresentIsLive
  <2>5. links \in SUBSET Topics /\ links \subseteq Live
    BY DEF Links, Live
  <2>. HIDE DEF links
  <2>. QED
    BY <1>1, <2>3, <2>4, <2>5 DEF Store!List, Seen
<1>. QED
  BY <1>2, <1>3

LEMMA SameCardinality == ASSUME NEW S PROVE Store!Cardinality(S) = Cardinality(S)
BY Zenon DEF Store!Cardinality, Cardinality

(* A list of which nothing is known, or the end of the process.            *)
LEMMA GarbledStep ==
    ASSUME IInv, NEW query \in AllCts \cup {NoCt}, GetBrokerGarbled(query)
    PROVE  Store!Garble \/ Store!Close
<1>1. StoreUnchanged /\ UNCHANGED clock /\ Cardinality(Links(query)) > 1
  BY DEF GetBrokerGarbled, Unmoved
<1>2. CASE Failed
  <2>1. pc' \in {"exited", "failed"} /\ UNCHANGED <<clock, response>>
    BY <1>1, <1>2 DEF Failed
  <2>. QED
    BY <2>1, CloseStep
<1>3. CASE Respond(Reply("GET", Broker, 205))
  <2>1. Running /\ Running' /\ response' = Reply("GET", Broker, 205)
    BY <1>3 DEF Respond, Running
  <2>2. Seen' = Seen /\ Store!Named = Live
    BY <1>1, <2>1, SeenSame, PresentIsLive
  <2>3. response'.method = "GET" /\ response'.code = 205 /\ response'.uri = Broker
        /\ response'.links = {} /\ response'.age = NoAge
    BY <2>1 DEF Reply
  <2>4. Told' = Store!Plain("garbled")
    BY <2>3 DEF Told, Store!Plain, Store!Answer
  <2>5. Links(query) \subseteq Live /\ IsFiniteSet(Live)
    <3>1. Live \subseteq Topics /\ Links(query) \subseteq Live
      BY DEF Live, Links
    <3>. QED
      BY <3>1, FS_Subset, CppAssumption
  <2>6. Store!Cardinality(Store!Named) > 1
    <3>1. /\ Cardinality(Links(query)) <= Cardinality(Live)
          /\ Cardinality(Links(query)) \in Nat /\ Cardinality(Live) \in Nat
      BY <2>5, FS_Subset, FS_CardinalityType
    <3>2. Store!Cardinality(Store!Named) = Cardinality(Live)
      BY <2>2, SameCardinality
    <3>. QED
      BY <1>1, <3>1, <3>2
  <2>. QED
    BY <1>1, <2>2, <2>4, <2>6 DEF Store!Garble, Seen
<1>. QED
  BY <1>2, <1>3 DEF GetBrokerGarbled
-------------------------------------------------------------------------------
(* The steps that change or read a topic.                                  *)
LEMMA CreateStep ==
    ASSUME IInv, IInv', NEW p \in Paths, NEW new \in Topics, NEW ct \in AllCts,
           NEW age \in OptAges, PostCreate(p, new, ct, age)
    PROVE  Store!Create(new, age)
<1>. DEFINE n == [path |-> new, data |-> NoData, topic_ma |-> AbsTopicMA(age), data_ma |-> 0]
<1>1. Index(new) = {} /\ Running /\ Running' /\ clock' = clock
  BY DEF PostCreate, Respond, IInv, LiveHasNode, Running, Unmoved
<1>2. n \in TopicData /\ n.path = new
  <2>1. AbsTopicMA(age) \in TimeT /\ 0 \in TimeT
    BY DeadlineTypes, CppAssumption DEF IInv, TimeT
  <2>. QED
    BY <2>1 DEF TopicData, Data
<1>3. topic_db' = Append(topic_db, n)
  BY <1>1 DEF PostCreate, AddTopic
<1>4. /\ Get(new)' = n
      /\ \A q \in Topics \ {new} : Index(q) # {} => Get(q)' = Get(q)
  <2>. HIDE DEF n
  <2>. QED
    BY <1>1, <1>2, <1>3, AppendOK
<1>5. new \notin Live /\ Live' = Live \cup {new}
  BY CppAssumption DEF PostCreate, Live, IInv, TypeOK, AllCts
<1>6. Visible(new)' = Store!Topic(NoData, 0, End(AbsTopicMA(age)))
  <2>1. Get(new)'.data = NoData /\ Get(new)'.topic_ma = AbsTopicMA(age)
    BY <1>4
  <2>. QED
    BY <1>1, <1>5, <2>1 DEF Visible, Running, Store!Topic
<1>7. \A q \in Topics \ {new} : Visible(q)' = Visible(q)
  BY <1>1, <1>4, <1>5 DEF Visible, Running, IInv, LiveHasNode
<1>8. Seen' = [Seen EXCEPT ![new] = Store!Topic(NoData, 0, End(AbsTopicMA(age)))]
  BY <1>6, <1>7 DEF Seen
<1>9. Told' = Store!Answer("created", <<>>, NoData, age, 0)
  BY DEF PostCreate, Respond, Told, Reply, Store!Answer
<1>10. Store!Named = Live /\ End(AbsTopicMA(age)) \in Store!LeaseEnds(age)
  BY <1>1, PresentIsLive, DeadlineEnds DEF IInv
<1>. QED
  BY <1>1, <1>5, <1>8, <1>9, <1>10 DEF Store!Create, Seen

LEMMA RenewStep ==
    ASSUME IInv, IInv', NEW p \in Paths, NEW new \in Topics, NEW age \in OptAges,
           PostExisting(p, new, age)
    PROVE  Store!Renew(new, age)
<1>1. Index(new) # {} /\ Running /\ Running' /\ clock' = clock /\ new \in Live /\ Live' = Live
  BY DEF PostExisting, Respond, IInv, LiveHasNode, Running, Unmoved, Live
<1>2. AbsTopicMA(age) \in TimeT
  BY DeadlineTypes DEF IInv
<1>3. /\ Get(new)' = [Get(new) EXCEPT !.topic_ma = AbsTopicMA(age)]
      /\ \A q \in Topics \ {new} : Index(q) # {} => Get(q)' = Get(q)
  BY <1>1, <1>2, LeaseOK DEF PostExisting
<1>4. Get(new) \in TopicData
  BY <1>1, AtOf DEF Get
<1>5. Visible(new)' = [Visible(new) EXCEPT !.lease = End(AbsTopicMA(age))]
  <2>1. /\ Get(new)'.data = Get(new).data /\ Get(new)'.data_ma = Get(new).data_ma
        /\ Get(new)'.topic_ma = AbsTopicMA(age)
    BY <1>3, <1>4 DEF TopicData
  <2>. QED
    BY <1>1, <2>1 DEF Visible, Running
<1>6. \A q \in Topics \ {new} : Visible(q)' = Visible(q)
  BY <1>1, <1>3 DEF Visible, Running, IInv, LiveHasNode
<1>7. Seen' = [Seen EXCEPT ![new].lease = End(AbsTopicMA(age))]
  BY <1>5, <1>6 DEF Seen
<1>8. Told' = Store!Answer("exists", <<>>, NoData, age, 0)
  BY DEF PostExisting, Respond, Told, Reply, Store!Answer
<1>9. /\ Store!Present = Live /\ Store!Named = Live
      /\ End(AbsTopicMA(age)) \in Store!LeaseEnds(age)
  BY <1>1, PresentIsLive, DeadlineEnds DEF IInv
<1>. QED
  BY <1>1, <1>7, <1>8, <1>9 DEF Store!Renew, Seen

LEMMA PublishStep ==
    ASSUME IInv, IInv', NEW p \in Topics, NEW ct \in OptCts, NEW age \in OptAges, NEW data \in Data,
           PutTopic(p, ct, age, data)
    PROVE  Store!Publish(p, data, age)
<1>. DEFINE data_ma == AbsDataMA(age)
            gone == data_ma > 0 /\ ExpiredAt(data_ma, clock)
<1>1. Index(p) # {} /\ Running /\ Running' /\ clock' = clock /\ p \in Live /\ Live' = Live
  BY DEF PutTopic, Served, Respond, IInv, LiveHasNode, Running, Unmoved, Live
<1>2. data_ma \in TimeT
  BY DeadlineTypes DEF IInv
<1>3. /\ Get(p)' = [path |-> p, data |-> data, topic_ma |-> Get(p).topic_ma, data_ma |-> data_ma]
      /\ \A q \in Topics \ {p} : Index(q) # {} => Get(q)' = Get(q)
  BY <1>1, <1>2, DataOK DEF PutTopic
<1>4. Visible(p).lease = End(Get(p).topic_ma)
  BY <1>1, VisibleOf
<1>5. Visible(p)' = IF data = NoData \/ gone
                    THEN Store!Topic(NoData, 0, Visible(p).lease)
                    ELSE Store!Topic(data, End(data_ma), Visible(p).lease)
  <2>1. /\ Get(p)'.data = data /\ Get(p)'.data_ma = data_ma
        /\ Get(p)'.topic_ma = Get(p).topic_ma
    BY <1>3
  <2>. QED
    BY <1>1, <1>4, <2>1 DEF Visible, Running, Store!Topic
<1>6. \A q \in Topics \ {p} : Visible(q)' = Visible(q)
  BY <1>1, <1>3 DEF Visible, Running, IInv, LiveHasNode
<1>7. /\ gone => age # NoAge /\ age > Longest
      /\ ~gone => End(data_ma) \in Store!Ends(age)
  BY DeadlineEnds DEF IInv
<1>8. Told' = Store!Answer("stored", p, data, age, 0)
  BY DEF PutTopic, Respond, Told, Reply, Store!Answer
<1>9. p \in Store!Present
  BY <1>1, PresentIsLive
<1>10. CASE gone
  <2>1. Seen' = [Seen EXCEPT ![p] = Store!Topic(NoData, 0, @.lease)]
    BY <1>5, <1>6, <1>10 DEF Seen
  <2>. QED
    BY <1>1, <1>7, <1>8, <1>9, <1>10, <2>1 DEF Store!Publish, Seen
<1>11. CASE ~gone
  <2>1. Visible(p)' = Store!Topic(data, End(data_ma), Visible(p).lease)
    BY <1>5, <1>11 DEF Store!Topic
  <2>. HIDE DEF gone, data_ma
  <2>2. Seen' = [Seen EXCEPT ![p] = Store!Topic(data, End(data_ma), @.lease)]
    BY <1>6, <2>1 DEF Seen
  <2>. QED
    BY <1>1, <1>7, <1>8, <1>9, <1>11, <2>2 DEF Store!Publish, Seen
<1>. QED
  BY <1>10, <1>11

LEMMA ReadStep ==
    ASSUME IInv, NEW p \in Topics, NEW ct \in OptCts, GetTopic(p, ct)
    PROVE  (\E v \in Payloads \cup {NoData} : Store!Read(p, v)) \/ Store!Refuse
<1>. PICK code \in GetCodes(p, ct) :
            response' = [Reply("GET", p, code) EXCEPT
                            !.data = IF code = 205 THEN Get(p).data ELSE NoData]
  BY DEF GetTopic, Respond
<1>. DEFINE data == IF code = 205 THEN Get(p).data ELSE NoData
<1>1. Running /\ Running' /\ StoreUnchanged /\ clock' = clock /\ p \in Live
  BY DEF GetTopic, Served, Respond, Unmoved, Running
<1>2. Seen' = Seen /\ Store!Present = Live
  BY <1>1, SeenSame, PresentIsLive
<1>3. response' = [Reply("GET", p, code) EXCEPT !.data = data]
  OBVIOUS
<1>4. code \in {204, 205, 400, 404, 415}
  BY DEF GetCodes
<1>5. CASE code \in {204, 205}
  <2>1. response'.method = "GET" /\ response'.code = code /\ response'.uri = p
        /\ response'.data = data /\ response'.age = NoAge
    BY <1>3 DEF Reply
  <2>. DEFINE n == Get(p)
  <2>2. \/ TooLongAgo(n.data_ma)
        \/ code = 204 /\ ExpiredAt(n.data_ma, clock)
        \/ code = 205 /\ ~ExpiredAt(n.data_ma, clock)
    BY <1>5 DEF GetCodes
  <2>3. /\ n.data_ma \in Int /\ n.data \in Data
        /\ clock \in 1 .. LongMax /\ LongMax \in Nat
    BY <1>1, VisibleOf, CppAssumption DEF TopicData, TimeT, IInv, TypeOK
  <2>4. TooLongAgo(n.data_ma) => n.data_ma < 0
    BY <2>3 DEF TooLongAgo
  <2>5. Visible(p).until = IF Hidden(n) THEN 0 ELSE End(n.data_ma)
    BY <1>1, VisibleOf
  <2>6. Visible(p).value = IF Hidden(n) THEN NoData ELSE n.data
    BY <1>1, VisibleNode DEF Store!Topic
  <2>7. ASSUME code = 205  PROVE n.data = NoData \/ ~Hidden(n)
    BY <2>2, <2>3, <2>4, <2>7 DEF Hidden
  <2>8. ASSUME code = 204  PROVE Hidden(n) \/ Visible(p).until = Unsure
    <3>1. n.data_ma < 0 \/ ExpiredAt(n.data_ma, clock)
      BY <2>2, <2>4, <2>8
    <3>. QED
      BY <2>3, <2>5, <3>1 DEF Hidden, ExpiredAt, End
  <2>9. data \in Payloads \cup {NoData}
    BY <2>3 DEF Data
  <2>10. data = Visible(p).value \/ (data = NoData /\ Visible(p).until = Unsure)
    BY <1>5, <2>6, <2>7, <2>8
  <2>. HIDE DEF data, n
  <2>11. Told' = Store!Answer("value", p, data, NoAge, 0)
    BY <1>5, <2>1, NoTopicIsBroker DEF Told, Store!Answer
  <2>12. Store!Read(p, data)
    BY <1>1, <1>2, <2>10, <2>11 DEF Store!Read, Seen
  <2>. QED
    BY <2>9, <2>12
<1>6. CASE code \notin {204, 205}
  <2>1. code \in {400, 404, 415}
    BY <1>4, <1>6
  <2>2. response' = Reply("GET", p, code)
    BY <1>3, <1>6 DEF Reply
  <2>. QED
    BY <1>1, <2>1, <2>2, RefuseStep DEF Paths
<1>. QED
  BY <1>5, <1>6

LEMMA DeleteStep ==
    ASSUME NoUriInside, IInv, IInv', NEW p \in Topics, DeleteTopic(p)
    PROVE  Store!Delete(p)
<1>. DEFINE D == DeletedWith(p)
<1>1. /\ D \in SUBSET Topics /\ Running /\ Running' /\ clock' = clock /\ p \in Live
      /\ Index(p) # {}
  BY DEF DeletedWith, DeleteTopic, Served, Live, Running, Respond, Unmoved, IInv, LiveHasNode
<1>2. Store!Present = Live
  BY <1>1, PresentIsLive
<1>3. D = {p} \cup (Store!SubtopicsOf(p) \cap Store!Present)
  <2>1. Live \subseteq Topics /\ \A q \in Live : Index(q) # {}
    BY <1>1 DEF Live, IInv, LiveHasNode, Running
  <2>2. \A q \in Topics : Contains(q, p) <=> q \in Store!SubtopicsOf(p)
    BY ContainsSubtopics
  <2>. QED
    BY <1>1, <1>2, <2>1, <2>2 DEF DeletedWith
<1>4. /\ DeleteTopics(D)
      /\ resources' = [q \in Topics |-> IF q \in D THEN NoTopic ELSE resources[q]]
      /\ response' = [Reply("DELETE", p, IF D = {} THEN 404 ELSE 202)
                        EXCEPT !.count = Cardinality(D)]
  BY DEF DeleteTopic, DeletedWith, Respond
<1>5. D # {}
  BY <1>3
<1>. HIDE DEF D
<1>6. Live' = Live \ D
  BY <1>4 DEF Live
<1>7. \A q \in Topics \ D : Index(q) # {} => Get(q)' = Get(q)
  BY <1>1, <1>4, DeleteOK
<1>8. \A q \in Topics : Visible(q)' = IF q \in D THEN NoTopic ELSE Visible(q)
  BY <1>1, <1>6, <1>7 DEF Visible, Running, IInv, LiveHasNode
<1>9. Seen' = [q \in Topics |-> IF q \in D THEN NoTopic ELSE Seen[q]]
  BY <1>8 DEF Seen
<1>10. Told' = Store!Answer("deleted", p, NoData, NoAge, Cardinality(D))
  <2>1. response'.method = "DELETE" /\ response'.code = 202 /\ response'.uri = p
        /\ response'.count = Cardinality(D) /\ response'.age = NoAge
    BY <1>4, <1>5 DEF Reply
  <2>. QED
    BY <2>1 DEF Told, Store!Answer
<1>. DEFINE E == {p} \cup (Store!SubtopicsOf(p) \cap Store!Present)
<1>11. Told' = Store!Answer("deleted", p, NoData, NoAge, Store!Cardinality(E))
  BY <1>3, <1>10, SameCardinality
<1>12. Seen' = [q \in Topics |-> IF q \in E THEN NoTopic ELSE Seen[q]]
  BY <1>3, <1>9
<1>13. p \in Store!Present
  BY <1>1, <1>2
<1>. QED
  BY <1>1, <1>11, <1>12, <1>13 DEF Store!Delete, Seen
-------------------------------------------------------------------------------
LEMMA StoreInit == Init => Store!Init
<1>. SUFFICES ASSUME Init  PROVE Store!Init
  OBVIOUS
<1>1. \A p \in Topics : Visible(p) = NoTopic
  BY DEF Init, Visible, Live
<1>2. Told = Store!Silence
  BY DEF Init, Told, NoResponse, Reply, Store!Silence, Store!Plain, Store!Answer
<1>. QED
  BY <1>1, <1>2 DEF Store!Init, Init

LEMMA StoreNext ==
    ASSUME NoUriInside, IInv, IInv', [Next]_vars
    PROVE  [Store!Next]_(Store!vars)
<1>1. CASE OtherPacket
  <2>1. StoreUnchanged /\ UNCHANGED clock /\ Running /\ Running' /\ response' = NoResponse
    BY <1>1 DEF OtherPacket, Respond, Unmoved, Running
  <2>. QED
    BY <2>1, PassStep DEF Store!Next
<1>2. CASE BrokerRequest
  <2>1. ASSUME NEW query \in AllCts \cup {NoCt}, NEW beyond \in BOOLEAN,
               GetBroker(query, beyond)
        PROVE  Store!Next
    BY <2>1, ListStep DEF Store!Next
  <2>5. ASSUME NEW query \in AllCts \cup {NoCt}, GetBrokerGarbled(query)  PROVE Store!Next
    BY <2>5, GarbledStep DEF Store!Next
  <2>2. CASE GetBrokerMalformed
    <3>1. CASE pc' = "failed"
      <4>1. UNCHANGED <<clock, response>>
        BY <2>2, <3>1 DEF GetBrokerMalformed, Respond, Failed, Unmoved
      <4>. QED
        BY <3>1, <4>1, CloseStep DEF Store!Next
    <3>2. CASE pc' # "failed"
      <4>1. /\ StoreUnchanged /\ UNCHANGED clock /\ Running /\ Running'
            /\ \E code \in {400, 404} : response' = Reply("GET", Broker, code)
        BY <2>2, <3>2 DEF GetBrokerMalformed, Respond, Failed, Unmoved, Running
      <4>. QED
        BY <4>1, RefuseStep DEF Store!Next, Paths
    <3>. QED
      BY <3>1, <3>2
  <2>3. ASSUME NEW m \in {"PUT", "DELETE"}, MethodNotAllowed(m)  PROVE Store!Next
    <3>1. /\ StoreUnchanged /\ UNCHANGED clock /\ Running /\ Running'
          /\ response' = Reply(m, Broker, 405)
      BY <2>3 DEF MethodNotAllowed, Respond, Unmoved, Running
    <3>. QED
      BY <3>1, RefuseStep DEF Store!Next, Paths
  <2>4. ASSUME NEW m \in {"GET", "PUT", "POST", "DELETE"}, NEW p \in Topics, NotFound(m, p)
        PROVE  Store!Next
    <3>1. /\ StoreUnchanged /\ UNCHANGED clock /\ Running /\ Running'
          /\ response' = Reply(m, p, 404)
      BY <2>4 DEF NotFound, Respond, Unmoved, Running
    <3>. QED
      BY <3>1, RefuseStep DEF Store!Next, Paths
  <2>. QED
    BY <1>2, <2>1, <2>2, <2>3, <2>4, <2>5 DEF BrokerRequest
<1>3. CASE PostRequest
  <2>. PICK p \in Paths :
          \/ \E code \in {400, 406} : PostRefused(p, code)
          \/ PostUncaught(p)
          \/ \E new \in Topics, age \in OptAges : PostExisting(p, new, age)
          \/ \E new \in Topics, ct \in AllCts, age \in OptAges : PostCreate(p, new, ct, age)
    BY <1>3 DEF PostRequest
  <2>1. ASSUME NEW code \in {400, 406}, PostRefused(p, code)  PROVE Store!Next
    <3>1. /\ StoreUnchanged /\ UNCHANGED clock /\ Running /\ Running'
          /\ response' = Reply("POST", p, code)
      BY <2>1 DEF PostRefused, Respond, Unmoved, Running
    <3>. QED
      BY <3>1, RefuseStep DEF Store!Next
  <2>2. ASSUME PostUncaught(p)  PROVE Store!Next
    <3>1. pc' = "failed" /\ UNCHANGED <<clock, response>>
      BY <2>2 DEF PostUncaught, Failed, Unmoved
    <3>. QED
      BY <3>1, CloseStep DEF Store!Next
  <2>3. ASSUME NEW new \in Topics, NEW age \in OptAges, PostExisting(p, new, age)
        PROVE  Store!Next
    BY <2>3, RenewStep DEF Store!Next, OptAges
  <2>4. ASSUME NEW new \in Topics, NEW ct \in AllCts, NEW age \in OptAges,
               PostCreate(p, new, ct, age)
        PROVE  Store!Next
    BY <2>4, CreateStep DEF Store!Next, OptAges
  <2>. QED
    BY <2>1, <2>2, <2>3, <2>4
<1>4. CASE TopicRequest
  <2>. PICK p \in Topics :
          \/ \E ct \in OptCts : GetTopic(p, ct) \/ PutRefused(p, ct)
          \/ \E ct \in OptCts, age \in OptAges, data \in Data : PutTopic(p, ct, age, data)
          \/ CtUncaught(p)
          \/ DeleteTopic(p)
    BY <1>4 DEF TopicRequest
  <2>1. ASSUME NEW ct \in OptCts, GetTopic(p, ct)  PROVE Store!Next
    BY <2>1, ReadStep DEF Store!Next
  <2>2. ASSUME NEW ct \in OptCts, PutRefused(p, ct)  PROVE Store!Next
    <3>1. /\ StoreUnchanged /\ UNCHANGED clock /\ Running /\ Running'
          /\ \E code \in {400, 404, 415} : response' = Reply("PUT", p, code)
      BY <2>2 DEF PutRefused, PutCode, Served, Respond, Unmoved, Running
    <3>. QED
      BY <3>1, RefuseStep DEF Store!Next, Paths
  <2>3. ASSUME NEW ct \in OptCts, NEW age \in OptAges, NEW data \in Data,
               PutTopic(p, ct, age, data)
        PROVE  Store!Next
    BY <2>3, PublishStep DEF Store!Next, Data, OptAges
  <2>4. ASSUME DeleteTopic(p)  PROVE Store!Next
    BY <2>4, DeleteStep DEF Store!Next
  <2>5. ASSUME CtUncaught(p)  PROVE Store!Next
    <3>1. pc' = "failed" /\ UNCHANGED <<clock, response>>
      BY <2>5 DEF CtUncaught, Failed, Unmoved
    <3>. QED
      BY <3>1, CloseStep DEF Store!Next
  <2>. QED
    BY <2>1, <2>2, <2>3, <2>4, <2>5
<1>5. CASE Loop
  <2>1. CASE quit
    <3>1. pc' = "exited" /\ UNCHANGED <<clock, response>>
      BY <1>5, <2>1 DEF Loop, Unmoved
    <3>. QED
      BY <3>1, CloseStep DEF Store!Next
  <2>2. CASE ~quit
    <3>1. StoreUnchanged /\ UNCHANGED clock /\ Running /\ Running' /\ response' = NoResponse
      BY <1>5, <2>2 DEF Loop, StoreUnchanged, Unmoved, Running
    <3>. QED
      BY <3>1, PassStep DEF Store!Next
  <2>. QED
    BY <2>1, <2>2
<1>6. CASE HandleSIGINT
  <2>1. CASE pc' = "failed"
    <3>1. UNCHANGED <<clock, response>>
      BY <1>6 DEF HandleSIGINT
    <3>. QED
      BY <2>1, <3>1, CloseStep DEF Store!Next
  <2>2. CASE pc' # "failed"
    <3>1. StoreUnchanged /\ UNCHANGED <<clock, response>> /\ Running /\ Running'
      BY <1>6, <2>2 DEF HandleSIGINT, Running
    <3>2. Seen' = Seen
      BY <3>1, SeenSame
    <3>3. Told' = Told
      BY <3>1 DEF Told
    <3>. QED
      BY <3>1, <3>2, <3>3 DEF Store!vars, Seen
  <2>. QED
    BY <2>1, <2>2
<1>7. CASE Tick
  <2>1. StoreUnchanged /\ Running /\ Running' /\ clock' = clock + 1 /\ response' = response
    BY <1>7 DEF Tick, Running
  <2>. QED
    BY <2>1, PassStep DEF Store!Next
<1>8. CASE Ended \/ UNCHANGED vars
  <2>1. UNCHANGED vars
    BY <1>8 DEF Ended
  <2>2. Seen' = Seen
    BY <2>1 DEF vars, Seen, Visible, Live, Get, At, Index
  <2>3. Told' = Told
    BY <2>1 DEF vars, Told
  <2>. QED
    BY <2>1, <2>2, <2>3 DEF Store!vars, vars, Seen
<1>. QED
  BY <1>1, <1>2, <1>3, <1>4, <1>5, <1>6, <1>7, <1>8 DEF Next

(* The port is a TopicStore: every request, tick, signal and failure is a  *)
(* step of the store that the clients see, or changes nothing of it.       *)
THEOREM CppImplementsStore ==
    ASSUME NoUriInside
    PROVE  Spec => ImplementsStore
<1>1. IInv /\ IInv' /\ [Next]_vars => [Store!Next]_(Store!vars)
  BY StoreNext
<1>. QED
  BY <1>1, StoreInit, IInvAlways, PTL DEF Spec, ImplementsStore, Store!Spec
===============================================================================
