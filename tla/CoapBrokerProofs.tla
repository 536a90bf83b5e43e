--------------------------- MODULE CoapBrokerProofs ---------------------------
(***************************************************************************)
(* Invariants of the broker process, for every set of topics, every hash   *)
(* function, every width of time_t and every bound on the clock; and that  *)
(* it implements TopicStore.                                               *)
(***************************************************************************)
EXTENDS CoapBroker, FiniteSetTheorems, TLAPS

(* Every operation of the topic database yields a topic database.          *)
LEMMA UpdateTopicInfoType ==
    ASSUME NEW db \in DB, NEW p \in Topics, NEW ma \in TimeT
    PROVE  UpdateTopicInfo(db, p, ma) \in DB
BY NoTopicAssumption DEF UpdateTopicInfo, SetTopic, TopicExist, DB, Node

LEMMA UpdateTopicDataType ==
    ASSUME NEW db \in DB, NEW p \in Topics, NEW ma \in TimeT, NEW d \in Data
    PROVE  UpdateTopicData(db, p, ma, d) \in DB
BY NoTopicAssumption DEF UpdateTopicData, SetTopic, TopicExist, DB, Node

LEMMA AddTopicWECType ==
    ASSUME NEW db \in DB, NEW p \in Topics, NEW ma \in TimeT
    PROVE  AddTopicWEC(db, p, ma) \in DB
<1>1. 0 \in TimeT
  BY DBAssumption DEF TimeT
<1>2. AddTopic(db, p, ma) \in DB
  BY <1>1 DEF AddTopic, DB, Node, Data
<1>. QED
  BY <1>2, UpdateTopicInfoType DEF AddTopicWEC

LEMMA DeleteTopicsType ==
    ASSUME NEW db \in DB, NEW P
    PROVE  DeleteTopics(db, P) \in DB
BY DEF DeleteTopics, DB

LEMMA DeleteTopicsDataType ==
    ASSUME NEW db \in DB, NEW P
    PROVE  DeleteTopicsData(db, P) \in DB
<1>1. 0 \in TimeT /\ NoData \in Data
  BY DBAssumption DEF TimeT, Data
<1>2. ASSUME NEW n \in Node
      PROVE  [n EXCEPT !.data = NoData, !.data_ma = 0] \in Node
  BY <1>1, <1>2 DEF Node
<1>. QED
  BY <1>2 DEF DeleteTopicsData, DB, TopicExist

(* Deadlines are values of time_t whatever the width of time_t.            *)
LEMMA DeadlineType ==
    ASSUME clock \in 1 .. MaxClock, NEW age \in OptAges
    PROVE  AbsTopicMA(age) \in TimeT /\ AbsDataMA(age) \in TimeT
BY DBAssumption, BrokerAssumption
   DEF AbsTopicMA, AbsDataMA, ToTimeT, TimeT, OptAges

LEMMA EarlierType ==
    ASSUME NEW ma \in TimeT, NEW e \in TimeT
    PROVE  Earlier(ma, e) \in TimeT
BY DEF Earlier

LEMMA ReplyType ==
    ASSUME NEW m \in Methods, NEW p \in Paths, NEW r \in Paths, NEW c \in Codes
    PROVE  /\ Reply(m, p, r, c) \in Responses
           /\ \A d \in Data : [Reply(m, p, r, c) EXCEPT !.data = d] \in Responses
           /\ \A n \in Nat : [Reply(m, p, r, c) EXCEPT !.count = n] \in Responses
           /\ \A L \in SUBSET Topics : [Reply(m, p, r, c) EXCEPT !.links = L] \in Responses
BY DEF Reply, Responses, Data

LEMMA ReplyAgeType ==
    ASSUME NEW m \in Methods, NEW p \in Paths, NEW r \in Paths, NEW c \in Codes,
           NEW age \in OptAges
    PROVE  [Reply(m, p, r, c) EXCEPT !.age = age] \in Responses
BY DEF Reply, Responses, Data, OptAges

LEMMA ReplyPutType ==
    ASSUME NEW p \in Paths, NEW r \in Paths, NEW d \in Data, NEW age \in OptAges
    PROVE  [Reply("PUT", p, r, 204) EXCEPT !.data = d, !.age = age] \in Responses
<1>1. "PUT" \in Methods /\ 204 \in Codes
  BY DEF Methods, Codes
<1>. QED
  BY <1>1 DEF Reply, Responses, OptAges

LEMMA NoResponseType == NoResponse \in Responses
BY ReplyType DEF NoResponse, Methods, Paths, Codes

LEMMA LookupType == ASSUME NEW p PROVE Lookup(p) \subseteq Paths
BY DEF Lookup, Live, Paths

(* Constants that the handlers store.                                      *)
LEMMA NumberTypes == 0 \in TimeT /\ LongMax \in TimeT
BY DBAssumption DEF TimeT
-------------------------------------------------------------------------------
LEMMA InitType == Init => TypeOK
<1>. SUFFICES ASSUME Init PROVE TypeOK
  OBVIOUS
<1>1. topicDB \in DB
  BY DEF Init, EmptyDB, DB
<1>2. clock \in 1 .. MaxClock
  BY BrokerAssumption DEF Init
<1>. QED
  BY <1>1, <1>2, NumberTypes, NoResponseType DEF Init, TypeOK, PCs, Faults

(* Steps that leave the topics alone.                                      *)
LEMMA QuietType ==
    ASSUME TypeOK, StoreUnchanged, clock' \in 1 .. MaxClock, quit' \in BOOLEAN,
           pc' \in PCs, response' \in Responses, fault' \in Faults
    PROVE  TypeOK'
BY DEF TypeOK, StoreUnchanged

LEMMA BrokerRequestType ==
    ASSUME TypeOK, OtherPacket \/ BrokerRequest
    PROVE  TypeOK'
<1>. USE DEF Respond, Unmoved, PCs, Faults
<1>1. CASE OtherPacket
  BY <1>1, QuietType, NoResponseType DEF OtherPacket, TypeOK
<1>2. ASSUME NEW p \in Paths, NEW query \in OptCts, NEW beyond \in BOOLEAN,
             GetBroker(p, query, beyond)
      PROVE  TypeOK'
  <2>. DEFINE links == {t \in Live : query \in {NoCt, resources[t]}}
  <2>1. links \in SUBSET Topics
    BY DEF Live
  <2>2. Broker \in Paths
    BY DEF Paths
  <2>3. \A c \in {205, 400, 404} : c \in Codes
    BY DEF Codes
  <2>4. "GET" \in Methods
    BY DEF Methods
  <2>. HIDE DEF links
  <2>5. /\ Reply("GET", p, Broker, 404) \in Responses
        /\ Reply("GET", p, Broker, 400) \in Responses
        /\ [Reply("GET", p, Broker, 205) EXCEPT !.links = links] \in Responses
    BY <2>1, <2>2, <2>3, <2>4, ReplyType
  <2>6. response' \in Responses
    <3>1. response' = IF links = {} THEN Reply("GET", p, Broker, 404)
                      ELSE IF beyond THEN Reply("GET", p, Broker, 400)
                      ELSE [Reply("GET", p, Broker, 205) EXCEPT !.links = links]
      BY <1>2 DEF GetBroker, links
    <3>. QED
      BY <3>1, <2>5
  <2>. QED
    BY <1>2, <2>6, QuietType DEF GetBroker, TypeOK
<1>3. ASSUME NEW p \in Paths, GetBrokerMalformed(p)
      PROVE  TypeOK'
  <2>1. /\ Reply("GET", p, Broker, 404) \in Responses
        /\ Reply("GET", p, Broker, 400) \in Responses
    BY ReplyType DEF Methods, Codes, Paths
  <2>. QED
    BY <1>3, <2>1, QuietType DEF GetBrokerMalformed, TypeOK
<1>4. ASSUME NEW p \in Paths, DeleteBroker(p)
      PROVE  TypeOK'
  <2>1. Reply("DELETE", p, Broker, 0) \in Responses
    BY ReplyType DEF Methods, Codes, Paths
  <2>. QED
    BY <1>4, <2>1, QuietType DEF DeleteBroker, TypeOK
<1>5. ASSUME NEW p \in Paths, MethodNotAllowed(p)
      PROVE  TypeOK'
  <2>1. Reply("PUT", p, Broker, 405) \in Responses
    BY ReplyType DEF Methods, Codes, Paths
  <2>. QED
    BY <1>5, <2>1, QuietType DEF MethodNotAllowed, TypeOK
<1>6. ASSUME NEW p \in Paths, NEW m \in Methods, NotFound(m, p)
      PROVE  TypeOK'
  <2>1. Reply(m, p, p, 404) \in Responses
    BY ReplyType DEF Codes
  <2>. QED
    BY <1>6, <2>1, QuietType DEF NotFound, TypeOK
<1>. QED
  BY <1>1, <1>2, <1>3, <1>4, <1>5, <1>6 DEF BrokerRequest

LEMMA PostRequestType ==
    ASSUME TypeOK, PostRequest
    PROVE  TypeOK'
<1>. USE DEF Respond, Unmoved, Dispatch
<1>. PICK p \in Paths, r \in Paths :
        \/ \E link \in Links, format \in BOOLEAN : PostMalformed(p, r, link, format)
        \/ \E link \in Links : PostMalformedNotLinkFormat(p, r, link)
        \/ \E link \in Links : PostUnsupported(p, r, link)
        \/ \E new \in Topics, age \in OptAges : PostExisting(p, r, new, age)
        \/ \E new \in Topics, ct \in Cts, age \in OptAges : PostCreate(p, r, new, ct, age)
  BY LookupType DEF PostRequest
<1>1. \A c \in {201, 400, 403, 406} : Reply("POST", p, r, c) \in Responses
  BY ReplyType DEF Methods, Codes
<1>0. ASSUME NEW age \in OptAges, NEW c \in {201, 403}
      PROVE  [Reply("POST", p, r, c) EXCEPT !.age = age] \in Responses
  <2>1. "POST" \in Methods /\ c \in Codes
    BY DEF Methods, Codes
  <2>. QED
    BY <2>1, ReplyAgeType, Zenon
<1>2. ASSUME NEW link \in Links, NEW format \in BOOLEAN, PostMalformed(p, r, link, format)
      PROVE  TypeOK'
  BY <1>1, <1>2, QuietType DEF PostMalformed, TypeOK, PCs
<1>3. ASSUME NEW link \in Links, PostMalformedNotLinkFormat(p, r, link) PROVE TypeOK'
  BY <1>1, <1>3, QuietType DEF PostMalformedNotLinkFormat, TypeOK, PCs, Faults
<1>4. ASSUME NEW link \in Links, PostUnsupported(p, r, link) PROVE TypeOK'
  BY <1>1, <1>4, QuietType DEF PostUnsupported, TypeOK, PCs
<1>5. ASSUME NEW new \in Topics, NEW age \in OptAges, PostExisting(p, r, new, age)
      PROVE  TypeOK'
  <2>1. AbsTopicMA(age) \in TimeT
    BY DeadlineType DEF TypeOK
  <2>2. topicDB' \in DB
    BY <1>5, <2>1, UpdateTopicInfoType DEF PostExisting, TypeOK
  <2>3. earliest_topic_max_age' \in TimeT
    BY <1>5, <2>1, EarlierType DEF PostExisting, TypeOK
  <2>. QED
    BY <1>0, <1>5, <2>2, <2>3 DEF PostExisting, TypeOK, PCs
<1>6. ASSUME NEW new \in Topics, NEW ct \in Cts, NEW age \in OptAges,
             PostCreate(p, r, new, ct, age)
      PROVE  TypeOK'
  <2>1. AbsTopicMA(age) \in TimeT
    BY DeadlineType DEF TypeOK
  <2>2. topicDB' \in DB
    <3>1. AddTopicWEC(topicDB, new, AbsTopicMA(age)) \in DB /\ topicDB \in DB
      BY <2>1, AddTopicWECType DEF TypeOK
    <3>. QED
      BY <1>6, <3>1 DEF PostCreate
  <2>3. earliest_topic_max_age' \in TimeT
    BY <1>6, <2>1, EarlierType DEF PostCreate, TypeOK
  <2>4. resources' \in [Topics -> Cts \cup {NoTopic}]
    BY <1>6 DEF PostCreate, TypeOK
  <2>. QED
    BY <1>0, <1>6, <2>2, <2>3, <2>4 DEF PostCreate, TypeOK, PCs
<1>. QED
  BY <1>2, <1>3, <1>4, <1>5, <1>6

LEMMA TopicRequestType ==
    ASSUME TypeOK, TopicRequest
    PROVE  TypeOK'
<1>. USE DEF Respond, Unmoved, Dispatch
<1>. PICK p \in Paths, r \in Paths :
        \/ \E ct \in OptCts : GetTopic(p, r, ct)
        \/ \E ct \in OptCts : PutRefused(p, r, ct)
        \/ \E ct \in OptCts, age \in OptAges, data \in Data : PutTopic(p, r, ct, age, data)
        \/ DeleteTopic(p, r)
  BY LookupType DEF TopicRequest
<1>1. r \in Paths
  OBVIOUS
<1>2. ASSUME r # Broker PROVE r \in Topics
  BY <1>1, <1>2 DEF Paths
<1>3. ASSUME NEW ct \in OptCts, GetTopic(p, r, ct)
      PROVE  TypeOK'
  <2>. PICK code \in GetCodes(r, ct) :
              response' = [Reply("GET", p, r, code) EXCEPT
                              !.data = IF code = 205 THEN topicDB[r].data ELSE NoData]
    BY <1>3 DEF GetTopic
  <2>. DEFINE data == IF code = 205 THEN topicDB[r].data ELSE NoData
  <2>1. code \in {204, 205, 400, 404, 415}
    BY DEF GetCodes
  <2>2. r \in Topics
    BY <1>2, <1>3 DEF GetTopic
  <2>3. ASSUME code = 205 PROVE topicDB[r] \in Node
    BY <1>3, <2>2, <2>3, NoTopicAssumption DEF GetCodes, TopicExist, TypeOK, DB
  <2>4. data \in Data
    BY <2>3 DEF Node, Data
  <2>5. response' = [Reply("GET", p, r, code) EXCEPT !.data = data]
    OBVIOUS
  <2>. HIDE DEF data
  <2>6. response' \in Responses
    <3>1. code \in Codes /\ "GET" \in Methods
      BY <2>1 DEF Codes, Methods
    <3>. QED
      BY <1>1, <2>4, <2>5, <3>1, ReplyType
  <2>. QED
    BY <1>3, <2>6, QuietType DEF GetTopic, TypeOK, PCs
<1>4. ASSUME NEW ct \in OptCts, PutRefused(p, r, ct)
      PROVE  TypeOK'
  <2>1. PutCode(r, ct) \in Codes
    BY DEF PutCode, Codes
  <2>2. Reply("PUT", p, r, PutCode(r, ct)) \in Responses
    BY <1>1, <2>1, ReplyType DEF Methods
  <2>. QED
    BY <1>4, <2>2, QuietType DEF PutRefused, TypeOK, PCs
<1>5. ASSUME NEW ct \in OptCts, NEW age \in OptAges, NEW data \in Data,
             PutTopic(p, r, ct, age, data)
      PROVE  TypeOK'
  <2>1. AbsDataMA(age) \in TimeT
    BY DeadlineType DEF TypeOK
  <2>2. r \in Topics
    BY <1>2, <1>5 DEF PutTopic
  <2>3. topicDB' \in DB
    BY <1>5, <2>1, <2>2, UpdateTopicDataType DEF PutTopic, TypeOK
  <2>4. earliest_data_max_age' \in TimeT
    BY <1>5, <2>1, EarlierType DEF PutTopic, TypeOK
  <2>5. response' \in Responses
    <3>1. response' = [Reply("PUT", p, r, 204) EXCEPT !.data = data, !.age = age]
      BY <1>5 DEF PutTopic
    <3>. QED
      BY <1>1, <3>1, ReplyPutType
  <2>. QED
    BY <1>5, <2>3, <2>4, <2>5 DEF PutTopic, TypeOK, PCs
<1>6. ASSUME DeleteTopic(p, r)
      PROVE  TypeOK'
  <2>. DEFINE D == IF TopicExist(topicDB, r) THEN Doomed(r) ELSE {}
              code == IF D = {} THEN 404 ELSE 202
  <2>1. r \in Topics
    BY <1>2, <1>6 DEF DeleteTopic
  <2>2. D \subseteq Topics
    BY <2>1 DEF Doomed, Live
  <2>3. Cardinality(D) \in Nat
    <3>1. IsFiniteSet(D)
      BY <2>2, BrokerAssumption, FS_Subset
    <3>. QED
      BY <3>1, FS_CardinalityType
  <2>4. response' = [Reply("DELETE", p, r, code) EXCEPT !.count = Cardinality(D)]
    BY <1>6 DEF DeleteTopic
  <2>5. topicDB' = DeleteTopics(topicDB, D) /\ resources' = DeleteResources(D)
    BY <1>6 DEF DeleteTopic
  <2>6. code \in Codes /\ "DELETE" \in Methods
    BY DEF Codes, Methods
  <2>. HIDE DEF D, code
  <2>7. response' \in Responses
    BY <1>1, <2>3, <2>4, <2>6, ReplyType
  <2>8. topicDB' \in DB /\ resources' \in [Topics -> Cts \cup {NoTopic}]
    BY <2>5, DeleteTopicsType DEF DeleteResources, TypeOK
  <2>. QED
    BY <1>6, <2>7, <2>8 DEF DeleteTopic, TypeOK, PCs
<1>. QED
  BY <1>3, <1>4, <1>5, <1>6

LEMMA MonitorsType ==
    ASSUME TypeOK, Monitors
    PROVE  TypeOK'
<1>1. CASE DataMAMonitorIdle
  BY <1>1, QuietType, NoResponseType DEF DataMAMonitorIdle, Unmoved, TypeOK, PCs, Faults
<1>2. CASE TopicMAMonitorIdle
  BY <1>2, QuietType DEF TopicMAMonitorIdle, Loop, Unmoved, TypeOK, PCs
<1>3. ASSUME NEW now \in {clock, clock + 1}, NEW late \in SUBSET Topics,
             TopicDataMAMonitor(now, late)
      PROVE  TypeOK'
  <2>1. DataDeadlines \subseteq TimeT
    BY NoTopicAssumption DEF DataDeadlines, TopicExist, TypeOK, DB, Node
  <2>2. earliest_data_max_age' \in TimeT
    BY <1>3, <2>1, NumberTypes DEF TopicDataMAMonitor
  <2>3. topicDB' \in DB
    BY <1>3, DeleteTopicsDataType DEF TopicDataMAMonitor, TypeOK
  <2>4. clock' \in 1 .. MaxClock
    BY <1>3, BrokerAssumption DEF TopicDataMAMonitor, Walk, TypeOK
  <2>. QED
    BY <1>3, <2>2, <2>3, <2>4, NoResponseType DEF TopicDataMAMonitor, TypeOK, PCs, Faults
<1>4. ASSUME NEW now \in {clock, clock + 1}, NEW late \in SUBSET Topics,
             TopicMAMonitor(now, late)
      PROVE  TypeOK'
  <2>1. TopicDeadlines \subseteq TimeT
    BY NoTopicAssumption DEF TopicDeadlines, TopicExist, TypeOK, DB, Node
  <2>2. earliest_topic_max_age' \in TimeT
    BY <1>4, <2>1, NumberTypes DEF TopicMAMonitor
  <2>3. topicDB' \in DB /\ resources' \in [Topics -> Cts \cup {NoTopic}]
    BY <1>4, DeleteTopicsType DEF TopicMAMonitor, DeleteResources, TypeOK
  <2>4. clock' \in 1 .. MaxClock
    BY <1>4, BrokerAssumption DEF TopicMAMonitor, Walk, TypeOK
  <2>. QED
    BY <1>4, <2>2, <2>3, <2>4 DEF TopicMAMonitor, Loop, TypeOK, PCs
<1>. QED
  BY <1>1, <1>2, <1>3, <1>4 DEF Monitors

LEMMA EndType ==
    ASSUME TypeOK, Cleanup \/ HandleSIGINT
    PROVE  TypeOK'
<1>1. topicDB' \in DB
  BY DeleteTopicsType DEF Cleanup, HandleSIGINT, DeleteAll, TypeOK
<1>. QED
  BY <1>1 DEF Cleanup, HandleSIGINT, DeleteAll, TypeOK, PCs

LEMMA StepType == TypeOK /\ [Next]_vars => TypeOK'
<1>. SUFFICES ASSUME TypeOK, [Next]_vars PROVE TypeOK'
  OBVIOUS
<1>1. CASE Tick
  BY <1>1, BrokerAssumption DEF Tick, TypeOK
<1>2. CASE UNCHANGED vars
  BY <1>2 DEF vars, TypeOK
<1>. QED
  BY <1>1, <1>2, BrokerRequestType, PostRequestType, TopicRequestType, MonitorsType,
     EndType DEF Next, Ended

(* The database, the resources, the bounds and the clock always hold       *)
(* values of their types; in particular no deadline that hnd_post_broker   *)
(* or hnd_put_topic computes leaves time_t.                                *)
THEOREM TypeCorrect == Spec => []TypeOK
BY InitType, StepType, PTL DEF Spec
-------------------------------------------------------------------------------
(* The inductive invariant.  The bounds are kept only together with the    *)
(* fact that every node has a resource: topicMAMonitor drops from the      *)
(* bound every deadline that has passed, but deletes only nodes that have  *)
(* a resource.                                                             *)
IInv == TypeOK /\ NodesHaveResources /\ BoundsAreLower

LEMMA LongMaxIsLast == \A ma \in TimeT : ma \in Int /\ ma <= LongMax
BY DBAssumption DEF TimeT

LEMMA NodeTypes ==
    ASSUME TypeOK, NEW p \in Topics, TopicExist(topicDB, p)
    PROVE  /\ topicDB[p] \in Node
           /\ topicDB[p].data_ma \in TimeT
           /\ topicDB[p].topic_ma \in TimeT
BY DEF TypeOK, DB, TopicExist, Node

LEMMA EarlierLower ==
    ASSUME NEW ma \in TimeT, NEW e \in TimeT
    PROVE  Earlier(ma, e) <= e /\ (ma # 0 => Earlier(ma, e) <= ma)
BY LongMaxIsLast DEF Earlier

(* Steps that neither touch the topics nor the bounds.                     *)
LEMMA QuietInv ==
    ASSUME NodesHaveResources, BoundsAreLower, StoreUnchanged
    PROVE  NodesHaveResources' /\ BoundsAreLower'
BY DEF StoreUnchanged, NodesHaveResources, BoundsAreLower, Live

LEMMA PostInv ==
    ASSUME IInv, PostRequest
    PROVE  NodesHaveResources' /\ BoundsAreLower'
<1>. PICK p \in Paths, r \in Paths :
        \/ \E link \in Links, format \in BOOLEAN : PostMalformed(p, r, link, format)
        \/ \E link \in Links : PostMalformedNotLinkFormat(p, r, link)
        \/ \E link \in Links : PostUnsupported(p, r, link)
        \/ \E new \in Topics, age \in OptAges : PostExisting(p, r, new, age)
        \/ \E new \in Topics, ct \in Cts, age \in OptAges : PostCreate(p, r, new, ct, age)
  BY LookupType DEF PostRequest
<1>1. ASSUME NEW link \in Links, NEW format \in BOOLEAN,
             \/ PostMalformed(p, r, link, format)
             \/ PostMalformedNotLinkFormat(p, r, link)
             \/ PostUnsupported(p, r, link)
      PROVE  NodesHaveResources' /\ BoundsAreLower'
  BY <1>1, QuietInv DEF IInv, PostMalformed, PostMalformedNotLinkFormat, PostUnsupported
<1>2. ASSUME NEW new \in Topics, NEW age \in OptAges, PostExisting(p, r, new, age)
      PROVE  NodesHaveResources' /\ BoundsAreLower'
  <2>. DEFINE ma == AbsTopicMA(age)
  <2>1. ma \in TimeT
    BY DeadlineType DEF IInv, TypeOK
  <2>0. CASE ~TopicExist(topicDB, new)
    <3>1. /\ topicDB' = topicDB /\ resources' = resources
          /\ earliest_data_max_age' = earliest_data_max_age
          /\ earliest_topic_max_age' = Earlier(ma, earliest_topic_max_age)
      BY <1>2, <2>0 DEF PostExisting, UpdateTopicInfo
    <3>2. /\ earliest_topic_max_age' <= earliest_topic_max_age
          /\ earliest_topic_max_age' \in TimeT
      BY <2>1, <3>1, EarlierLower, EarlierType DEF IInv, TypeOK
    <3>. HIDE DEF ma
    <3>3. NodesHaveResources'
      BY <3>1 DEF IInv, NodesHaveResources, Live
    <3>4. ASSUME NEW q \in Topics, TopicExist(topicDB, q), topicDB[q].topic_ma # 0
          PROVE  earliest_topic_max_age' <= topicDB[q].topic_ma
      BY <3>2, <3>4, NodeTypes, LongMaxIsLast DEF IInv, BoundsAreLower, TypeOK
    <3>. QED
      BY <3>1, <3>3, <3>4 DEF IInv, BoundsAreLower
  <2>. SUFFICES ASSUME TopicExist(topicDB, new)
                PROVE  NodesHaveResources' /\ BoundsAreLower'
    BY <2>0
  <2>2. TopicExist(topicDB, new) /\ topicDB[new] \in Node
    BY <1>2, NodeTypes DEF PostExisting, NodesHaveResources, IInv
  <2>3. /\ earliest_topic_max_age' = Earlier(ma, earliest_topic_max_age)
        /\ topicDB' = [topicDB EXCEPT ![new] = [data |-> topicDB[new].data, topic_ma |-> ma,
                                                data_ma |-> topicDB[new].data_ma]]
        /\ UNCHANGED <<resources, earliest_data_max_age>>
    BY <1>2, <2>2 DEF PostExisting, UpdateTopicInfo, SetTopic
  <2>. HIDE DEF ma
  <2>4. NodesHaveResources'
    BY <2>2, <2>3, NoTopicAssumption, <2>1
       DEF NodesHaveResources, Live, TopicExist, IInv, TypeOK, DB, Node
  <2>5. earliest_topic_max_age' <= earliest_topic_max_age
        /\ (ma # 0 => earliest_topic_max_age' <= ma)
    BY <2>1, <2>3, EarlierLower DEF IInv, TypeOK
  <2>6. earliest_topic_max_age' \in TimeT
    BY <2>1, <2>3, EarlierType DEF IInv, TypeOK
  <2>7. ASSUME NEW q \in Topics, TopicExist(topicDB', q)
        PROVE  /\ topicDB'[q].topic_ma # 0 => earliest_topic_max_age' <= topicDB'[q].topic_ma
               /\ topicDB'[q].data_ma # 0 => earliest_data_max_age' <= topicDB'[q].data_ma
    <3>1. CASE q = new
      BY <2>1, <2>2, <2>3, <2>5, <3>1 DEF IInv, TypeOK, DB, BoundsAreLower
    <3>2. CASE q # new
      <4>1. topicDB'[q] = topicDB[q] /\ TopicExist(topicDB, q)
        BY <2>3, <2>7, <3>2 DEF TopicExist, IInv, TypeOK, DB
      <4>. QED
        BY <2>3, <2>5, <2>6, <4>1, NodeTypes, LongMaxIsLast DEF IInv, BoundsAreLower, TypeOK
    <3>. QED
      BY <3>1, <3>2
  <2>. QED
    BY <2>4, <2>7 DEF BoundsAreLower
<1>3. ASSUME NEW new \in Topics, NEW ct \in Cts, NEW age \in OptAges,
             PostCreate(p, r, new, ct, age)
      PROVE  NodesHaveResources' /\ BoundsAreLower'
  <2>. DEFINE ma == AbsTopicMA(age)
              n == [data |-> NoData, topic_ma |-> ma, data_ma |-> 0]
  <2>1. ma \in TimeT
    BY DeadlineType DEF IInv, TypeOK
  <2>2. ~TopicExist(topicDB, new)
    BY <1>3 DEF PostCreate, NodesHaveResources, IInv
  <2>3. /\ earliest_topic_max_age' = Earlier(ma, earliest_topic_max_age)
        /\ topicDB' = [topicDB EXCEPT ![new] = n] \/ topicDB' = topicDB
        /\ resources' = [resources EXCEPT ![new] = ct]
        /\ UNCHANGED earliest_data_max_age
    BY <1>3, <2>2 DEF PostCreate, AddTopicWEC, AddTopic
  <2>4. n \in Node /\ ct # NoTopic
    BY <2>1, NumberTypes, BrokerAssumption DEF Node, Data
  <2>5. earliest_topic_max_age' <= earliest_topic_max_age
        /\ (ma # 0 => earliest_topic_max_age' <= ma)
    BY <2>1, <2>3, EarlierLower DEF IInv, TypeOK
  <2>6. earliest_topic_max_age' \in TimeT
    BY <2>1, <2>3, EarlierType DEF IInv, TypeOK
  <2>7. n.topic_ma = ma /\ n.data_ma = 0
    OBVIOUS
  <2>. HIDE DEF ma, n
  <2>8. NodesHaveResources'
    BY <2>3, <2>4, NoTopicAssumption DEF NodesHaveResources, Live, TopicExist, IInv, TypeOK, DB
  <2>9. ASSUME NEW q \in Topics, TopicExist(topicDB', q)
        PROVE  /\ topicDB'[q].topic_ma # 0 => earliest_topic_max_age' <= topicDB'[q].topic_ma
               /\ topicDB'[q].data_ma # 0 => earliest_data_max_age' <= topicDB'[q].data_ma
    <3>1. CASE q = new
      <4>1. topicDB'[q] = n
        BY <2>2, <2>3, <2>9, <3>1 DEF TopicExist, IInv, TypeOK, DB
      <4>. QED
        BY <2>3, <2>5, <2>7, <4>1
    <3>2. CASE q # new
      <4>1. topicDB'[q] = topicDB[q] /\ TopicExist(topicDB, q)
        BY <2>3, <2>9, <3>2 DEF TopicExist, IInv, TypeOK, DB
      <4>. QED
        BY <2>3, <2>5, <2>6, <4>1, NodeTypes, LongMaxIsLast DEF IInv, BoundsAreLower, TypeOK
    <3>. QED
      BY <3>1, <3>2
  <2>. QED
    BY <2>8, <2>9 DEF BoundsAreLower
<1>. QED
  BY <1>1, <1>2, <1>3

(* Deleting the same paths from both places keeps the invariant.           *)
LEMMA DeleteInv ==
    ASSUME IInv, NEW D,
           topicDB' = DeleteTopics(topicDB, D),
           resources' = DeleteResources(D)
    PROVE  /\ NodesHaveResources'
           /\ \A q \in Topics : TopicExist(topicDB', q) =>
                 q \notin D /\ topicDB'[q] = topicDB[q] /\ TopicExist(topicDB, q)
BY DEF IInv, TypeOK, DB, NodesHaveResources, Live, TopicExist, DeleteTopics, DeleteResources

LEMMA TopicRequestInv ==
    ASSUME IInv, TopicRequest
    PROVE  NodesHaveResources' /\ BoundsAreLower'
<1>. PICK p \in Paths, r \in Paths :
        \/ \E ct \in OptCts : GetTopic(p, r, ct)
        \/ \E ct \in OptCts : PutRefused(p, r, ct)
        \/ \E ct \in OptCts, age \in OptAges, data \in Data : PutTopic(p, r, ct, age, data)
        \/ DeleteTopic(p, r)
  BY LookupType DEF TopicRequest
<1>1. ASSUME NEW ct \in OptCts, GetTopic(p, r, ct) \/ PutRefused(p, r, ct)
      PROVE  NodesHaveResources' /\ BoundsAreLower'
  BY <1>1, QuietInv DEF IInv, GetTopic, PutRefused
<1>2. ASSUME NEW ct \in OptCts, NEW age \in OptAges, NEW data \in Data,
             PutTopic(p, r, ct, age, data)
      PROVE  NodesHaveResources' /\ BoundsAreLower'
  <2>. DEFINE ma == AbsDataMA(age)
  <2>1. ma \in TimeT
    BY DeadlineType DEF IInv, TypeOK
  <2>2. r \in Topics /\ TopicExist(topicDB, r) /\ topicDB[r] \in Node
    <3>1. r \in Topics /\ PutCode(r, ct) = 204
      BY <1>2 DEF PutTopic, Paths
    <3>2. TopicExist(topicDB, r)
      BY <3>1 DEF PutCode
    <3>. QED
      BY <3>1, <3>2, NodeTypes DEF IInv
  <2>3. /\ earliest_data_max_age' = Earlier(ma, earliest_data_max_age)
        /\ topicDB' = [topicDB EXCEPT ![r] = [data |-> data, topic_ma |-> topicDB[r].topic_ma,
                                              data_ma |-> ma]]
        /\ UNCHANGED <<resources, earliest_topic_max_age>>
    BY <1>2, <2>2 DEF PutTopic, UpdateTopicData, SetTopic
  <2>. HIDE DEF ma
  <2>4. NodesHaveResources'
    BY <2>1, <2>2, <2>3, NoTopicAssumption
       DEF NodesHaveResources, Live, TopicExist, IInv, TypeOK, DB, Node
  <2>5. earliest_data_max_age' <= earliest_data_max_age
        /\ (ma # 0 => earliest_data_max_age' <= ma)
    BY <2>1, <2>3, EarlierLower DEF IInv, TypeOK
  <2>6. earliest_data_max_age' \in TimeT
    BY <2>1, <2>3, EarlierType DEF IInv, TypeOK
  <2>7. ASSUME NEW q \in Topics, TopicExist(topicDB', q)
        PROVE  /\ topicDB'[q].topic_ma # 0 => earliest_topic_max_age' <= topicDB'[q].topic_ma
               /\ topicDB'[q].data_ma # 0 => earliest_data_max_age' <= topicDB'[q].data_ma
    <3>1. CASE q = r
      BY <2>1, <2>2, <2>3, <2>5, <3>1 DEF IInv, TypeOK, DB, BoundsAreLower
    <3>2. CASE q # r
      <4>1. topicDB'[q] = topicDB[q] /\ TopicExist(topicDB, q)
        BY <2>3, <2>7, <3>2 DEF TopicExist, IInv, TypeOK, DB
      <4>. QED
        BY <2>3, <2>5, <2>6, <4>1, NodeTypes, LongMaxIsLast DEF IInv, BoundsAreLower, TypeOK
    <3>. QED
      BY <3>1, <3>2
  <2>. QED
    BY <2>4, <2>7 DEF BoundsAreLower
<1>3. ASSUME DeleteTopic(p, r)
      PROVE  NodesHaveResources' /\ BoundsAreLower'
  <2>. DEFINE D == IF TopicExist(topicDB, r) THEN Doomed(r) ELSE {}
  <2>1. /\ topicDB' = DeleteTopics(topicDB, D)
        /\ resources' = DeleteResources(D)
        /\ UNCHANGED <<earliest_topic_max_age, earliest_data_max_age>>
    BY <1>3 DEF DeleteTopic
  <2>. HIDE DEF D
  <2>. QED
    BY <2>1, DeleteInv DEF IInv, BoundsAreLower
<1>. QED
  BY <1>1, <1>2, <1>3

(* A walk lowers the bound to what it met and does not delete.             *)
LEMMA DataMonitorInv ==
    ASSUME IInv, NEW now \in {clock, clock + 1}, NEW late \in SUBSET Topics,
           TopicDataMAMonitor(now, late)
    PROVE  /\ NodesHaveResources' /\ BoundsAreLower'
           /\ \A q \in Topics : TopicExist(topicDB', q) =>
                 ~ExpiredAt(topicDB'[q].data_ma, clock)
<1>. DEFINE E == DataExpired(now, late)
<1>1. /\ topicDB' = DeleteTopicsData(topicDB, E)
      /\ earliest_data_max_age < clock
      /\ UNCHANGED <<resources, earliest_topic_max_age>>
      /\ earliest_data_max_age' \in DataDeadlines \cup {LongMax}
      /\ IsNextEarliest(earliest_data_max_age', DataDeadlines, earliest_data_max_age)
  BY DEF TopicDataMAMonitor
<1>2. clock \in Int /\ earliest_data_max_age \in Int
  BY LongMaxIsLast DEF IInv, TypeOK
<1>3. ASSUME NEW q \in Topics
      PROVE  TopicExist(topicDB', q) <=> TopicExist(topicDB, q)
  <2>1. ASSUME TopicExist(topicDB, q)
        PROVE  [topicDB[q] EXCEPT !.data = NoData, !.data_ma = 0] \in Node
    BY <2>1, NodeTypes, NumberTypes DEF IInv, Node, Data
  <2>. QED
    BY <1>1, <2>1, NoTopicAssumption DEF TopicExist, DeleteTopicsData
<1>4. ASSUME NEW q \in Topics, TopicExist(topicDB', q)
      PROVE  /\ topicDB'[q].topic_ma # 0 => earliest_topic_max_age' <= topicDB'[q].topic_ma
             /\ topicDB'[q].data_ma # 0 => earliest_data_max_age' <= topicDB'[q].data_ma
             /\ ~ExpiredAt(topicDB'[q].data_ma, clock)
  <2>1. TopicExist(topicDB, q) /\ topicDB[q] \in Node
    BY <1>3, <1>4, NodeTypes DEF IInv
  <2>2. topicDB[q].data_ma \in Int /\ topicDB[q].data_ma \in DataDeadlines
    BY <2>1, NodeTypes, LongMaxIsLast DEF DataDeadlines, IInv
  <2>3. CASE q \in E
    <3>1. topicDB'[q] = [topicDB[q] EXCEPT !.data = NoData, !.data_ma = 0]
      BY <1>1, <2>1, <2>3 DEF DeleteTopicsData
    <3>2. topicDB'[q].topic_ma = topicDB[q].topic_ma /\ topicDB'[q].data_ma = 0
      BY <2>1, <3>1 DEF Node
    <3>. QED
      BY <1>1, <2>1, <3>2 DEF IInv, BoundsAreLower, ExpiredAt
  <2>4. CASE q \notin E
    <3>1. topicDB'[q] = topicDB[q]
      BY <1>1, <2>4 DEF DeleteTopicsData
    <3>2. ~ExpiredAt(topicDB[q].data_ma, clock)
      BY <1>2, <2>1, <2>2, <2>4 DEF DataExpired, ExpiredAt
    <3>3. ASSUME topicDB[q].data_ma # 0
          PROVE  earliest_data_max_age' <= topicDB[q].data_ma
      BY <1>1, <1>2, <2>2, <3>2, <3>3 DEF IsNextEarliest, ExpiredAt
    <3>. QED
      BY <1>1, <2>1, <3>1, <3>2, <3>3 DEF IInv, BoundsAreLower
  <2>. QED
    BY <2>3, <2>4
<1>5. NodesHaveResources'
  BY <1>1, <1>3 DEF IInv, NodesHaveResources, Live
<1>. QED
  BY <1>4, <1>5 DEF BoundsAreLower

LEMMA TopicMonitorInv ==
    ASSUME IInv, NEW now \in {clock, clock + 1}, NEW late \in SUBSET Topics,
           TopicMAMonitor(now, late)
    PROVE  /\ NodesHaveResources' /\ BoundsAreLower'
           /\ \A q \in Topics : TopicExist(topicDB', q) =>
                 ~ExpiredAt(topicDB'[q].topic_ma, clock)
<1>. DEFINE D == TopicExpired(now, late) \cap Live
<1>1. /\ topicDB' = DeleteTopics(topicDB, D)
      /\ resources' = DeleteResources(D)
      /\ earliest_topic_max_age < clock
      /\ UNCHANGED earliest_data_max_age
      /\ earliest_topic_max_age' \in TopicDeadlines \cup {LongMax}
      /\ IsNextEarliest(earliest_topic_max_age', TopicDeadlines, earliest_topic_max_age)
  BY DEF TopicMAMonitor
<1>2. clock \in Int /\ earliest_topic_max_age \in Int
  BY LongMaxIsLast DEF IInv, TypeOK
<1>3. /\ NodesHaveResources'
      /\ \A q \in Topics : TopicExist(topicDB', q) =>
            q \notin D /\ topicDB'[q] = topicDB[q] /\ TopicExist(topicDB, q)
  BY <1>1, DeleteInv
<1>4. ASSUME NEW q \in Topics, TopicExist(topicDB', q)
      PROVE  /\ topicDB'[q].topic_ma # 0 => earliest_topic_max_age' <= topicDB'[q].topic_ma
             /\ topicDB'[q].data_ma # 0 => earliest_data_max_age' <= topicDB'[q].data_ma
             /\ ~ExpiredAt(topicDB'[q].topic_ma, clock)
  <2>1. q \notin D /\ topicDB'[q] = topicDB[q] /\ TopicExist(topicDB, q) /\ q \in Live
    BY <1>3, <1>4 DEF IInv, NodesHaveResources
  <2>2. topicDB[q].topic_ma \in Int /\ topicDB[q].topic_ma \in TopicDeadlines
    BY <2>1, NodeTypes, LongMaxIsLast DEF TopicDeadlines, IInv
  <2>3. ~ExpiredAt(topicDB[q].topic_ma, clock)
    BY <1>2, <2>1, <2>2 DEF TopicExpired, ExpiredAt
  <2>4. ASSUME topicDB[q].topic_ma # 0
        PROVE  earliest_topic_max_age' <= topicDB[q].topic_ma
    BY <1>1, <1>2, <2>2, <2>3, <2>4 DEF IsNextEarliest, ExpiredAt
  <2>. QED
    BY <1>1, <2>1, <2>3, <2>4 DEF IInv, BoundsAreLower
<1>. QED
  BY <1>3, <1>4 DEF BoundsAreLower

LEMMA EndInv ==
    ASSUME IInv, Cleanup \/ HandleSIGINT
    PROVE  NodesHaveResources' /\ BoundsAreLower'
BY DEF Cleanup, HandleSIGINT, DeleteAll, DeleteTopics, IInv, TypeOK, DB, NodesHaveResources,
       BoundsAreLower, Live, TopicExist

LEMMA InitInv == Init => IInv
<1>. SUFFICES ASSUME Init PROVE NodesHaveResources /\ BoundsAreLower
  BY InitType DEF IInv
<1>. QED
  BY DEF Init, EmptyDB, NodesHaveResources, BoundsAreLower, Live, TopicExist

LEMMA IInvInductive == IInv /\ [Next]_vars => IInv'
<1>. SUFFICES ASSUME IInv, [Next]_vars PROVE NodesHaveResources' /\ BoundsAreLower'
  <2>1. TypeOK /\ [Next]_vars => TypeOK'
    BY StepType
  <2>. QED
    BY <2>1 DEF IInv
<1>1. CASE OtherPacket \/ BrokerRequest
  BY <1>1, QuietInv DEF IInv, OtherPacket, BrokerRequest, GetBroker, GetBrokerMalformed,
     DeleteBroker, MethodNotAllowed, NotFound
<1>2. CASE DataMAMonitorIdle \/ TopicMAMonitorIdle
  BY <1>2, QuietInv DEF IInv, DataMAMonitorIdle, TopicMAMonitorIdle
<1>3. CASE Tick \/ UNCHANGED vars
  BY <1>3, QuietInv DEF IInv, Tick, vars, StoreUnchanged
<1>. QED
  BY <1>1, <1>2, <1>3, PostInv, TopicRequestInv, DataMonitorInv, TopicMonitorInv, EndInv
     DEF Next, Monitors, Ended

(* A node has a resource, so topicMAMonitor can delete it.                 *)
THEOREM NodesAlwaysHaveResources == Spec => []NodesHaveResources
<1>1. IInv => NodesHaveResources
  BY DEF IInv
<1>. QED
  BY <1>1, InitInv, IInvInductive, PTL DEF Spec

(* What a step does to the pair of a resource and its node.                *)
StillPaired(p) ==
    p \in Live' /\ ~TopicExist(topicDB', p) =>
        \/ p \in Live /\ ~TopicExist(topicDB, p)
        \/ /\ p \notin Live /\ ~TopicExist(topicDB, p)
           /\ response'.method = "POST" /\ response'.code = 201

(* Steps that create no resource and keep the nodes.                       *)
LEMMA NodesStayPaired ==
    ASSUME resources' = resources, NEW p \in Topics,
           TopicExist(topicDB, p) => TopicExist(topicDB', p)
    PROVE  StillPaired(p)
BY DEF StillPaired, Live

LEMMA RequestPairs ==
    ASSUME IInv, PostRequest \/ TopicRequest, NEW p \in Topics
    PROVE  StillPaired(p)
<1>1. ASSUME StoreUnchanged  PROVE StillPaired(p)
  BY <1>1, NodesStayPaired DEF StoreUnchanged
<1>2. ASSUME NEW u \in Paths, NEW r \in Paths, NEW new \in Topics, NEW age \in OptAges,
             PostExisting(u, r, new, age)
      PROVE  StillPaired(p)
  <2>1. AbsTopicMA(age) \in TimeT /\ (TopicExist(topicDB, p) => topicDB[p] \in Node)
    BY DeadlineType, NodeTypes DEF IInv, TypeOK
  <2>2. TopicExist(topicDB, p) => TopicExist(topicDB', p)
    BY <1>2, <2>1, NoTopicAssumption
       DEF PostExisting, UpdateTopicInfo, SetTopic, TopicExist, IInv, TypeOK, DB, Node
  <2>. QED
    BY <1>2, <2>2, NodesStayPaired DEF PostExisting
<1>3. ASSUME NEW u \in Paths, NEW r \in Paths, NEW new \in Topics, NEW ct \in Cts,
             NEW age \in OptAges, PostCreate(u, r, new, ct, age)
      PROVE  StillPaired(p)
  <2>1. ~TopicExist(topicDB, new) /\ new \notin Live
    BY <1>3 DEF PostCreate, IInv, NodesHaveResources
  <2>2. response'.method = "POST" /\ response'.code = 201
    BY <1>3 DEF PostCreate, Respond, Reply
  <2>3. CASE p = new
    BY <2>1, <2>2, <2>3 DEF StillPaired
  <2>4. CASE p # new
    <3>1. topicDB'[p] = topicDB[p] /\ resources'[p] = resources[p]
      BY <1>3, <2>1, <2>4 DEF PostCreate, AddTopicWEC, AddTopic, IInv, TypeOK, DB
    <3>. QED
      BY <3>1 DEF StillPaired, Live, TopicExist
  <2>. QED
    BY <2>3, <2>4
<1>4. ASSUME NEW u \in Paths, NEW r \in Paths, NEW ct \in OptCts, NEW age \in OptAges,
             NEW data \in Data, PutTopic(u, r, ct, age, data)
      PROVE  StillPaired(p)
  <2>1. AbsDataMA(age) \in TimeT /\ (TopicExist(topicDB, p) => topicDB[p] \in Node)
    BY DeadlineType, NodeTypes DEF IInv, TypeOK
  <2>2. r \in Topics
    BY <1>4 DEF PutTopic, Paths
  <2>3. TopicExist(topicDB, p) => TopicExist(topicDB', p)
    BY <1>4, <2>1, <2>2, NoTopicAssumption
       DEF PutTopic, UpdateTopicData, SetTopic, TopicExist, IInv, TypeOK, DB, Node
  <2>. QED
    BY <1>4, <2>3, NodesStayPaired DEF PutTopic
<1>5. ASSUME NEW u \in Paths, NEW r \in Paths, DeleteTopic(u, r)
      PROVE  StillPaired(p)
  <2>. DEFINE D == IF TopicExist(topicDB, r) THEN Doomed(r) ELSE {}
  <2>1. topicDB' = DeleteTopics(topicDB, D) /\ resources' = DeleteResources(D)
    BY <1>5 DEF DeleteTopic
  <2>. HIDE DEF D
  <2>. QED
    BY <2>1 DEF StillPaired, DeleteTopics, DeleteResources, Live, TopicExist
<1>6. CASE PostRequest
  <2>. PICK u \in Paths, r \in Paths :
        \/ \E link \in Links, format \in BOOLEAN : PostMalformed(u, r, link, format)
        \/ \E link \in Links : PostMalformedNotLinkFormat(u, r, link)
        \/ \E link \in Links : PostUnsupported(u, r, link)
        \/ \E new \in Topics, age \in OptAges : PostExisting(u, r, new, age)
        \/ \E new \in Topics, ct \in Cts, age \in OptAges : PostCreate(u, r, new, ct, age)
    BY <1>6, LookupType DEF PostRequest
  <2>. QED
    BY <1>1, <1>2, <1>3 DEF PostMalformed, PostMalformedNotLinkFormat, PostUnsupported
<1>7. CASE TopicRequest
  <2>. PICK u \in Paths, r \in Paths :
        \/ \E ct \in OptCts : GetTopic(u, r, ct)
        \/ \E ct \in OptCts : PutRefused(u, r, ct)
        \/ \E ct \in OptCts, age \in OptAges, data \in Data : PutTopic(u, r, ct, age, data)
        \/ DeleteTopic(u, r)
    BY <1>7, LookupType DEF TopicRequest
  <2>. QED
    BY <1>1, <1>4, <1>5 DEF GetTopic, PutRefused
<1>. QED
  BY <1>6, <1>7

LEMMA PairStep ==
    ASSUME IInv, [Next]_vars, NEW p \in Topics
    PROVE  StillPaired(p)
<1>1. CASE StoreUnchanged
  BY <1>1, NodesStayPaired DEF StoreUnchanged
<1>2. ASSUME NEW now \in {clock, clock + 1}, NEW late \in SUBSET Topics,
             TopicDataMAMonitor(now, late)
      PROVE  StillPaired(p)
  <2>1. TopicExist(topicDB, p) => topicDB[p] \in Node
    BY NodeTypes DEF IInv
  <2>2. TopicExist(topicDB, p) => [topicDB[p] EXCEPT !.data = NoData, !.data_ma = 0] \in Node
    BY <2>1, NumberTypes DEF Node, Data
  <2>3. TopicExist(topicDB, p) => TopicExist(topicDB', p)
    BY <1>2, <2>1, <2>2, NoTopicAssumption DEF TopicDataMAMonitor, DeleteTopicsData, TopicExist
  <2>. QED
    BY <1>2, <2>3, NodesStayPaired DEF TopicDataMAMonitor
<1>3. ASSUME NEW now \in {clock, clock + 1}, NEW late \in SUBSET Topics,
             TopicMAMonitor(now, late)
      PROVE  StillPaired(p)
  <2>. DEFINE D == TopicExpired(now, late) \cap Live
  <2>1. topicDB' = DeleteTopics(topicDB, D) /\ resources' = DeleteResources(D)
    BY <1>3 DEF TopicMAMonitor
  <2>. HIDE DEF D
  <2>. QED
    BY <2>1 DEF StillPaired, DeleteTopics, DeleteResources, Live, TopicExist
<1>4. CASE Cleanup \/ HandleSIGINT
  BY <1>4 DEF Cleanup, HandleSIGINT, DeleteAll, StillPaired, Live
<1>5. OtherPacket \/ BrokerRequest => StoreUnchanged
  BY DEF OtherPacket, BrokerRequest, GetBroker, GetBrokerMalformed, DeleteBroker,
     MethodNotAllowed, NotFound
<1>6. DataMAMonitorIdle \/ TopicMAMonitorIdle \/ Tick \/ Ended \/ UNCHANGED vars
         => StoreUnchanged
  BY DEF DataMAMonitorIdle, TopicMAMonitorIdle, Tick, Ended, vars, StoreUnchanged
<1>. QED
  BY <1>1, <1>2, <1>3, <1>4, <1>5, <1>6, RequestPairs DEF Next, Monitors

(* A node always has its resource, and a resource is without a node only   *)
(* from a POST whose node had no memory: no deletion and no monitor parts  *)
(* a resource from its node.                                               *)
THEOREM OnlyMemoryPartsHolds == Spec => OnlyMemoryParts
<1>1. Spec => []IInv
  BY InitInv, IInvInductive, PTL DEF Spec
<1>2. IInv /\ [Next]_vars =>
        /\ NodesHaveResources'
        /\ \A p \in Topics : p \in Live' /\ ~TopicExist(topicDB', p) =>
              \/ p \in Live /\ ~TopicExist(topicDB, p)
              \/ /\ p \notin Live /\ ~TopicExist(topicDB, p)
                 /\ response'.method = "POST" /\ response'.code = 201
  BY PairStep, IInvInductive DEF StillPaired, IInv
<1>. QED
  BY <1>1, <1>2, PTL DEF Spec, OnlyMemoryParts

(* earliest_topic_max_age and earliest_data_max_age never overtake a       *)
(* deadline that is in the list.                                           *)
THEOREM BoundsAlwaysLower == Spec => []BoundsAreLower
<1>1. IInv => BoundsAreLower
  BY DEF IInv
<1>. QED
  BY <1>1, InitInv, IInvInductive, PTL DEF Spec
-------------------------------------------------------------------------------
(* The fast path of the monitors loses nothing: a monitor that does not    *)
(* walk the list has nothing to delete, and one that does deletes all.     *)
LEMMA MissNothingStep ==
    ASSUME IInv, [Next]_vars
    PROVE  /\ pc = "data_monitor" /\ pc' = "topic_monitor" =>
                 \A p \in Topics : TopicExist(topicDB', p) =>
                     ~ExpiredAt(topicDB'[p].data_ma, clock)
           /\ pc = "topic_monitor" /\ pc' \in {"select", "cleanup"} =>
                 \A p \in Topics : TopicExist(topicDB', p) =>
                     ~ExpiredAt(topicDB'[p].topic_ma, clock)
<1>1. CASE DataMAMonitorIdle
  <2>1. \A p \in Topics : TopicExist(topicDB, p) => ~ExpiredAt(topicDB[p].data_ma, clock)
    BY <1>1, NodeTypes, LongMaxIsLast
       DEF DataMAMonitorIdle, DBEmpty, ExpiredAt, IInv, TypeOK, BoundsAreLower
  <2>. QED
    BY <1>1, <2>1 DEF DataMAMonitorIdle, StoreUnchanged
<1>2. CASE TopicMAMonitorIdle
  <2>1. \A p \in Topics : TopicExist(topicDB, p) => ~ExpiredAt(topicDB[p].topic_ma, clock)
    BY <1>2, NodeTypes, LongMaxIsLast
       DEF TopicMAMonitorIdle, DBEmpty, ExpiredAt, IInv, TypeOK, BoundsAreLower
  <2>. QED
    BY <1>2, <2>1 DEF TopicMAMonitorIdle, StoreUnchanged
<1>3. ASSUME NEW now \in {clock, clock + 1}, NEW late \in SUBSET Topics,
             TopicDataMAMonitor(now, late)
      PROVE  /\ pc = "data_monitor"
             /\ \A p \in Topics : TopicExist(topicDB', p) =>
                   ~ExpiredAt(topicDB'[p].data_ma, clock)
  BY <1>3, DataMonitorInv DEF TopicDataMAMonitor
<1>4. ASSUME NEW now \in {clock, clock + 1}, NEW late \in SUBSET Topics,
             TopicMAMonitor(now, late)
      PROVE  /\ pc = "topic_monitor"
             /\ \A p \in Topics : TopicExist(topicDB', p) =>
                   ~ExpiredAt(topicDB'[p].topic_ma, clock)
  BY <1>4, TopicMonitorInv DEF TopicMAMonitor
<1>5. CASE OtherPacket \/ BrokerRequest \/ PostRequest \/ TopicRequest
  <2>1. OtherPacket \/ BrokerRequest => pc = "select"
    BY DEF OtherPacket, BrokerRequest, GetBroker, GetBrokerMalformed, DeleteBroker,
       MethodNotAllowed, NotFound, Dispatch
  <2>2. PostRequest => pc = "select"
    <3>1. ASSUME NEW p, NEW r, NEW link, NEW format, NEW new, NEW ct, NEW age,
                 \/ PostMalformed(p, r, link, format)
                 \/ PostMalformedNotLinkFormat(p, r, link)
                 \/ PostUnsupported(p, r, link)
                 \/ PostExisting(p, r, new, age)
                 \/ PostCreate(p, r, new, ct, age)
          PROVE  pc = "select"
      BY <3>1 DEF PostMalformed, PostMalformedNotLinkFormat, PostUnsupported, PostExisting,
                  PostCreate, Dispatch
    <3>. QED
      BY <3>1 DEF PostRequest
  <2>3. ASSUME NEW p, NEW r, NEW ct  PROVE GetTopic(p, r, ct) => pc = "select"
    BY DEF GetTopic, Dispatch
  <2>4. ASSUME NEW p, NEW r, NEW ct  PROVE PutRefused(p, r, ct) => pc = "select"
    BY DEF PutRefused, Dispatch
  <2>5. ASSUME NEW p, NEW r, NEW ct, NEW age, NEW data
        PROVE  PutTopic(p, r, ct, age, data) => pc = "select"
    BY DEF PutTopic, Dispatch
  <2>6. ASSUME NEW p, NEW r  PROVE DeleteTopic(p, r) => pc = "select"
    BY DEF DeleteTopic, Dispatch
  <2>7. TopicRequest => pc = "select"
    BY <2>3, <2>4, <2>5, <2>6 DEF TopicRequest
  <2>. QED
    BY <1>5, <2>1, <2>2, <2>7
<1>6. CASE Cleanup \/ HandleSIGINT
  BY <1>6 DEF Cleanup, HandleSIGINT, DeleteAll
<1>7. CASE Tick \/ UNCHANGED vars
  BY <1>7 DEF Tick, vars
<1>. QED
  BY <1>1, <1>2, <1>3, <1>4, <1>5, <1>6, <1>7 DEF Next, Monitors, Ended

(* Whatever had expired when a monitor was called is gone when it returns. *)
THEOREM MonitorsMissNothingHolds == Spec => MonitorsMissNothing
<1>1. Spec => []IInv
  BY InitInv, IInvInductive, PTL DEF Spec
<1>. QED
  BY <1>1, MissNothingStep, PTL DEF Spec, MonitorsMissNothing
-------------------------------------------------------------------------------
(* What a step may do to the node of a topic.                              *)
KeptOrAccounted(p) ==
    \/ ~TopicExist(topicDB', p) /\ ExpiredAt(topicDB[p].topic_ma, clock')
    \/ ~TopicExist(topicDB', p) /\ response'.method = "DELETE" /\ response'.code = 202
    \/ /\ TopicExist(topicDB', p)
       /\ \/ topicDB'[p].data = topicDB[p].data
          \/ ExpiredAt(topicDB[p].data_ma, clock')
          \/ /\ response'.method = "PUT" /\ response'.code = 204 /\ response'.resource = p
             /\ response'.data = topicDB'[p].data

LEMMA RequestKeeps ==
    ASSUME IInv, PostRequest \/ TopicRequest, NEW p \in Topics, TopicExist(topicDB, p)
    PROVE  KeptOrAccounted(p)
<1>1. ASSUME StoreUnchanged  PROVE KeptOrAccounted(p)
  BY <1>1 DEF KeptOrAccounted, StoreUnchanged, TopicExist
<1>2. ASSUME NEW u \in Paths, NEW r \in Paths, NEW new \in Topics, NEW age \in OptAges,
             PostExisting(u, r, new, age)
      PROVE  KeptOrAccounted(p)
  <2>1. topicDB[p] \in Node
    BY NodeTypes DEF IInv
  <2>2. AbsTopicMA(age) \in TimeT
    BY DeadlineType DEF IInv, TypeOK
  <2>3. topicDB' \in DB /\ topicDB'[p].data = topicDB[p].data /\ TopicExist(topicDB', p)
    BY <1>2, <2>1, <2>2, UpdateTopicInfoType, NoTopicAssumption
       DEF PostExisting, UpdateTopicInfo, SetTopic, TopicExist, IInv, TypeOK, DB, Node
  <2>. QED
    BY <2>3 DEF KeptOrAccounted
<1>3. ASSUME NEW u \in Paths, NEW r \in Paths, NEW new \in Topics, NEW ct \in Cts,
             NEW age \in OptAges, PostCreate(u, r, new, ct, age)
      PROVE  KeptOrAccounted(p)
  <2>1. ~TopicExist(topicDB, new)
    BY <1>3 DEF PostCreate, IInv, NodesHaveResources
  <2>2. topicDB'[p] = topicDB[p]
    BY <1>3, <2>1 DEF PostCreate, AddTopicWEC, AddTopic, IInv, TypeOK, DB
  <2>. QED
    BY <2>2 DEF KeptOrAccounted, TopicExist
<1>4. ASSUME NEW u \in Paths, NEW r \in Paths, NEW ct \in OptCts, NEW age \in OptAges,
             NEW data \in Data, PutTopic(u, r, ct, age, data)
      PROVE  KeptOrAccounted(p)
  <2>1. r \in Topics
    BY <1>4 DEF PutTopic, Paths
  <2>2. topicDB' \in DB
    BY <1>4, <2>1, UpdateTopicDataType, DeadlineType DEF PutTopic, IInv, TypeOK
  <2>3. CASE p = r
    <3>1. response'.method = "PUT" /\ response'.code = 204 /\ response'.resource = p
          /\ response'.data = data
      BY <1>4, <2>3 DEF PutTopic, Respond, Reply
    <3>2. topicDB'[p] = [data |-> data, topic_ma |-> topicDB[p].topic_ma,
                         data_ma |-> AbsDataMA(age)]
      BY <1>4, <2>1, <2>3 DEF PutTopic, UpdateTopicData, SetTopic, IInv, TypeOK, DB
    <3>3. AbsDataMA(age) \in TimeT /\ topicDB[p].topic_ma \in TimeT
      BY DeadlineType, NodeTypes DEF IInv, TypeOK
    <3>4. TopicExist(topicDB', p)
      BY <3>2, <3>3, NoTopicAssumption DEF TopicExist, Node
    <3>. QED
      BY <3>1, <3>2, <3>4 DEF KeptOrAccounted
  <2>4. CASE p # r
    <3>1. topicDB'[p] = topicDB[p]
      BY <1>4, <2>1, <2>4 DEF PutTopic, UpdateTopicData, SetTopic, IInv, TypeOK, DB
    <3>. QED
      BY <3>1 DEF KeptOrAccounted, TopicExist
  <2>. QED
    BY <2>3, <2>4
<1>5. ASSUME NEW u \in Paths, NEW r \in Paths, DeleteTopic(u, r)
      PROVE  KeptOrAccounted(p)
  <2>. DEFINE D == IF TopicExist(topicDB, r) THEN Doomed(r) ELSE {}
  <2>1. /\ topicDB' = DeleteTopics(topicDB, D)
        /\ response' = [Reply("DELETE", u, r, IF D = {} THEN 404 ELSE 202)
                          EXCEPT !.count = Cardinality(D)]
    BY <1>5 DEF DeleteTopic, Respond
  <2>. HIDE DEF D
  <2>2. CASE p \in D
    <3>1. response'.method = "DELETE" /\ response'.code = 202
      BY <2>1, <2>2 DEF Reply
    <3>2. ~TopicExist(topicDB', p)
      BY <2>1, <2>2 DEF DeleteTopics, TopicExist
    <3>. QED
      BY <3>1, <3>2 DEF KeptOrAccounted
  <2>3. CASE p \notin D
    BY <2>1, <2>3 DEF DeleteTopics, KeptOrAccounted, TopicExist
  <2>. QED
    BY <2>2, <2>3
<1>6. CASE PostRequest
  <2>. PICK u \in Paths, r \in Paths :
        \/ \E link \in Links, format \in BOOLEAN : PostMalformed(u, r, link, format)
        \/ \E link \in Links : PostMalformedNotLinkFormat(u, r, link)
        \/ \E link \in Links : PostUnsupported(u, r, link)
        \/ \E new \in Topics, age \in OptAges : PostExisting(u, r, new, age)
        \/ \E new \in Topics, ct \in Cts, age \in OptAges : PostCreate(u, r, new, ct, age)
    BY <1>6, LookupType DEF PostRequest
  <2>. QED
    BY <1>1, <1>2, <1>3 DEF PostMalformed, PostMalformedNotLinkFormat, PostUnsupported
<1>7. CASE TopicRequest
  <2>. PICK u \in Paths, r \in Paths :
        \/ \E ct \in OptCts : GetTopic(u, r, ct)
        \/ \E ct \in OptCts : PutRefused(u, r, ct)
        \/ \E ct \in OptCts, age \in OptAges, data \in Data : PutTopic(u, r, ct, age, data)
        \/ DeleteTopic(u, r)
    BY <1>7, LookupType DEF TopicRequest
  <2>. QED
    BY <1>1, <1>4, <1>5 DEF GetTopic, PutRefused
<1>. QED
  BY <1>6, <1>7

LEMMA MonitorKeeps ==
    ASSUME IInv, Monitors, NEW p \in Topics, TopicExist(topicDB, p)
    PROVE  KeptOrAccounted(p)
<1>1. topicDB[p] \in Node /\ clock \in Int
  BY NodeTypes DEF IInv, TypeOK
<1>2. topicDB[p].data_ma \in Int /\ topicDB[p].topic_ma \in Int
  BY NodeTypes, LongMaxIsLast DEF IInv
<1>3. CASE DataMAMonitorIdle \/ TopicMAMonitorIdle
  BY <1>3 DEF DataMAMonitorIdle, TopicMAMonitorIdle, KeptOrAccounted, StoreUnchanged, TopicExist
<1>4. ASSUME NEW now \in {clock, clock + 1}, NEW late \in SUBSET Topics,
             TopicDataMAMonitor(now, late)
      PROVE  KeptOrAccounted(p)
  <2>1. topicDB' = DeleteTopicsData(topicDB, DataExpired(now, late)) /\ clock' = now
    BY <1>4 DEF TopicDataMAMonitor
  <2>2. CASE p \in DataExpired(now, late)
    <3>1. ExpiredAt(topicDB[p].data_ma, clock')
      BY <1>1, <1>2, <2>1, <2>2 DEF DataExpired, ExpiredAt
    <3>2. topicDB'[p] = [topicDB[p] EXCEPT !.data = NoData, !.data_ma = 0]
      BY <2>1, <2>2 DEF DeleteTopicsData
    <3>3. topicDB'[p] \in Node
      BY <1>1, <3>2, NumberTypes DEF Node, Data
    <3>. QED
      BY <3>1, <3>3, NoTopicAssumption DEF KeptOrAccounted, TopicExist
  <2>3. CASE p \notin DataExpired(now, late)
    BY <2>1, <2>3 DEF DeleteTopicsData, KeptOrAccounted, TopicExist
  <2>. QED
    BY <2>2, <2>3
<1>5. ASSUME NEW now \in {clock, clock + 1}, NEW late \in SUBSET Topics,
             TopicMAMonitor(now, late)
      PROVE  KeptOrAccounted(p)
  <2>. DEFINE D == TopicExpired(now, late) \cap Live
  <2>1. topicDB' = DeleteTopics(topicDB, D) /\ clock' = now
    BY <1>5 DEF TopicMAMonitor
  <2>2. CASE p \in D
    <3>1. ExpiredAt(topicDB[p].topic_ma, clock')
      BY <1>1, <1>2, <2>1, <2>2 DEF TopicExpired, ExpiredAt
    <3>. QED
      BY <2>1, <2>2, <3>1 DEF DeleteTopics, KeptOrAccounted, TopicExist
  <2>3. CASE p \notin D
    BY <2>1, <2>3 DEF DeleteTopics, KeptOrAccounted, TopicExist
  <2>. QED
    BY <2>2, <2>3
<1>. QED
  BY <1>3, <1>4, <1>5 DEF Monitors

LEMMA NothingLostStep ==
    ASSUME IInv, [Next]_vars, NEW p \in Topics, TopicExist(topicDB, p), pc' # "exited"
    PROVE  KeptOrAccounted(p)
<1>1. CASE OtherPacket \/ BrokerRequest \/ Tick \/ UNCHANGED vars
  <2>1. topicDB' = topicDB
    BY <1>1 DEF OtherPacket, BrokerRequest, GetBroker, GetBrokerMalformed, DeleteBroker,
       MethodNotAllowed, NotFound, StoreUnchanged, Tick, vars
  <2>. QED
    BY <2>1 DEF KeptOrAccounted, TopicExist
<1>2. CASE Cleanup \/ HandleSIGINT
  BY <1>2 DEF Cleanup, HandleSIGINT, DeleteAll
<1>. QED
  BY <1>1, <1>2, RequestKeeps, MonitorKeeps DEF Next, Ended

(* A value leaves its topic only because hnd_put_topic replaced it, a      *)
(* DELETE removed it or it had expired, or because the topic was deleted   *)
(* or had expired: no monitor and no POST loses one.                       *)
THEOREM NothingLostEarlyHolds == Spec => NothingLostEarly
<1>1. Spec => []IInv
  BY InitInv, IInvInductive, PTL DEF Spec
<1>2. ASSUME IInv, [Next]_vars
      PROVE  \A p \in Topics :
                (TopicExist(topicDB, p) /\ pc' # "exited") =>
                    \/ ~TopicExist(topicDB', p) /\ ExpiredAt(topicDB[p].topic_ma, clock')
                    \/ ~TopicExist(topicDB', p) /\ response'.method = "DELETE"
                                                /\ response'.code = 202
                    \/ /\ TopicExist(topicDB', p)
                       /\ \/ topicDB'[p].data = topicDB[p].data
                          \/ ExpiredAt(topicDB[p].data_ma, clock')
                          \/ /\ response'.method = "PUT" /\ response'.code = 204
                             /\ response'.resource = p
                             /\ response'.data = topicDB'[p].data
  BY <1>2, NothingLostStep DEF KeptOrAccounted
<1>. QED
  BY <1>1, <1>2, PTL DEF Spec, NothingLostEarly
-------------------------------------------------------------------------------
(* The broker process implements TopicStore: every handler, every pass of  *)
(* a monitor, the clean-up and the clock do to the topics, as a client can *)
(* see them, what a step of TopicStore does, or nothing.  The code does    *)
(* not keep that promise for all topics, so the theorem is stated for      *)
(* those for which it can be kept.                                         *)

(* No URI stands inside another but at its beginning, where strstr is to   *)
(* find it.                                                                *)
NoUriInside ==
    \A p, q \in Topics :
        Contains(q, p) => Len(q) > Len(p) /\ SubSeq(q, 1, Len(p)) = p

(* A request finds the resource of its URI and no other.                   *)
KeysDistinct == \A p, q \in Paths : KeyOf[p] = KeyOf[q] => p = q

(* The store as TopicStore sees it, and what the resource that served the  *)
(* request says.                                                           *)
Seen == [p \in Topics |-> Visible(p)]
Answered == ToldOf(response.resource)
-------------------------------------------------------------------------------
(* strstr finds the subtopics of a topic and nothing else.                 *)
LEMMA ContainsSubtopics ==
    ASSUME NoUriInside, NEW p \in Topics, NEW q \in Topics
    PROVE  Contains(q, p) <=> q \in Served!SubtopicsOf(p)
<1>1. ASSUME q \in Served!SubtopicsOf(p)  PROVE Contains(q, p)
  <2>1. /\ p \in Seq(STRING) /\ q \in Seq(STRING) /\ Len(p) > 1 /\ Len(q) > Len(p)
        /\ SubSeq(q, 1, Len(p)) = p /\ q[1] = "ps" /\ Len(p) \in Nat /\ Len(q) \in Nat
    BY <1>1, BrokerAssumption DEF Served!SubtopicsOf
  <2>2. SubSeq(q, 2, Len(p)) = Tail(p)
    <3>1. /\ Tail(p) \in Seq(STRING) /\ Len(Tail(p)) = Len(p) - 1
          /\ \A i \in 1 .. Len(p) - 1 : Tail(p)[i] = p[i + 1]
      BY <2>1
    <3>2. /\ SubSeq(q, 2, Len(p)) \in Seq(STRING) /\ Len(SubSeq(q, 2, Len(p))) = Len(p) - 1
          /\ \A i \in 1 .. Len(p) - 1 : SubSeq(q, 2, Len(p))[i] = q[i + 1]
      BY <2>1
    <3>3. \A i \in 1 .. Len(p) : q[i] = p[i]
      <4>1. \A i \in 1 .. Len(p) : SubSeq(q, 1, Len(p))[i] = q[i]
        BY <2>1
      <4>. QED
        BY <2>1, <4>1
    <3>4. \A i \in 1 .. Len(p) - 1 : i + 1 \in 1 .. Len(p)
      BY <2>1
    <3>. QED
      BY <2>1, <3>1, <3>2, <3>3, <3>4
  <2>3. 0 \in 0 .. Len(q) - Len(p) - 1 /\ q[0 + 1] \in PsEnding
        /\ SubSeq(q, 0 + 2, 0 + Len(p)) = Tail(p)
    BY <2>1, <2>2, BrokerAssumption
  <2>. QED
    BY <2>3 DEF Contains
<1>2. ASSUME Contains(q, p)  PROVE q \in Served!SubtopicsOf(p)
  BY <1>2 DEF NoUriInside, Served!SubtopicsOf
<1>. QED
  BY <1>1, <1>2

(* What the deadlines are to a client.                                     *)
LEMMA DeadlineEnds ==
    ASSUME TypeOK, NEW age \in OptAges
    PROVE  LET ma   == AbsDataMA(age)
               gone == ma > 0 /\ ExpiredAt(ma, clock)
           IN  /\ End(AbsTopicMA(age)) \in Served!LeaseEnds(age)
               /\ gone => age # NoAge /\ age > LongMax - MaxClock
               /\ ~gone => End(ma) \in Served!Ends(age)
<1>1. /\ clock \in 1 .. MaxClock /\ MaxClock \in 1 .. LongMax /\ LongMax \in Nat
      /\ NoAge \notin Nat
  BY BrokerAssumption, DBAssumption DEF TypeOK
<1>2. CASE age = NoAge
  BY <1>1, <1>2 DEF AbsTopicMA, AbsDataMA, Served!Ends, Served!LeaseEnds, ExpiredAt, End
<1>3. CASE age # NoAge
  <2>1. age \in 0 .. 2 * LongMax + 1
    BY <1>3, BrokerAssumption DEF OptAges
  <2>2. CASE age <= LongMax - MaxClock
    <3>1. /\ AbsDataMA(age) = clock + age
          /\ AbsTopicMA(age) = IF age = 0 THEN 0 ELSE clock + age
      BY <1>1, <1>3, <2>1, <2>2 DEF AbsTopicMA, AbsDataMA, ToTimeT
    <3>. QED
      BY <1>1, <1>3, <2>1, <2>2, <3>1 DEF Served!Ends, Served!LeaseEnds, ExpiredAt, End
  <2>3. CASE age > LongMax - MaxClock
    <3>1. /\ AbsTopicMA(age) \in {0, clock + age} \/ AbsTopicMA(age) < 0
          /\ age = 0 => AbsTopicMA(age) = 0
      BY <1>1, <1>3, <2>1 DEF AbsTopicMA, ToTimeT
    <3>2. End(AbsTopicMA(age)) \in {0, clock + age, Unsure}
          /\ (age = 0 => End(AbsTopicMA(age)) = 0)
      BY <1>1, <2>1, <3>1 DEF End
    <3>3. /\ AbsDataMA(age) \in Int
          /\ AbsDataMA(age) = clock + age \/ AbsDataMA(age) < clock
      BY <1>1, <1>3, <2>1 DEF AbsDataMA, ToTimeT
    <3>4. ~(AbsDataMA(age) > 0 /\ ExpiredAt(AbsDataMA(age), clock)) =>
            End(AbsDataMA(age)) \in {0, clock + age, Unsure}
      BY <1>1, <2>1, <3>3 DEF End, ExpiredAt
    <3>5. Served!Ends(age) = {0, clock + age, Unsure}
      BY <1>1, <1>3, <2>1, <2>3 DEF Served!Ends
    <3>. QED
      BY <1>3, <2>3, <3>2, <3>4, <3>5 DEF Served!LeaseEnds
  <2>. QED
    BY <1>1, <2>1, <2>2, <2>3
<1>. QED
  BY <1>2, <1>3

(* A value that clients no longer see although the node has it.            *)
Hidden(n) == n.data = NoData \/ (n.data_ma > 0 /\ ExpiredAt(n.data_ma, clock))

LEMMA VisibleNode ==
    ASSUME NEW p \in Topics, TopicExist(topicDB, p)
    PROVE  LET n == topicDB[p]
           IN  Visible(p) = IF Hidden(n) THEN Served!Topic(NoData, 0, End(n.topic_ma))
                            ELSE Served!Topic(n.data, End(n.data_ma), End(n.topic_ma))
BY DEF Visible, TopicExist, Hidden, Served!Topic

(* What a client sees of a node.                                           *)
LEMMA VisibleOf ==
    ASSUME IInv, NEW p \in Topics
    PROVE  /\ Visible(p) = NoTopic <=> p \notin Live
           /\ Visible(p) = InName <=> (p \in Live /\ ~TopicExist(topicDB, p))
           /\ TopicExist(topicDB, p) =>
                 /\ Visible(p).lease = End(topicDB[p].topic_ma)
                 /\ Visible(p).until = IF Hidden(topicDB[p]) THEN 0 ELSE End(topicDB[p].data_ma)
                 /\ ~Served!Over(Visible(p).until, clock)
<1>1. CASE ~TopicExist(topicDB, p)
  BY <1>1, VisibleAssumption DEF Visible, TopicExist
<1>2. CASE TopicExist(topicDB, p)
  <2>. DEFINE n == topicDB[p]
  <2>1. n \in Node /\ n.data_ma \in TimeT /\ n.topic_ma \in TimeT /\ n.data \in Data
    BY <1>2, NodeTypes DEF IInv, Node
  <2>2. 0 \in TimeT /\ NoData \in Data
    BY NumberTypes DEF Data
  <2>3. Visible(p) = IF Hidden(n) THEN Served!Topic(NoData, 0, End(n.topic_ma))
                     ELSE Served!Topic(n.data, End(n.data_ma), End(n.topic_ma))
    BY <1>2, VisibleNode
  <2>4. End(n.topic_ma) \in TimeT \cup {Unsure} /\ End(n.data_ma) \in TimeT \cup {Unsure}
    BY <2>1 DEF End
  <2>. HIDE DEF n
  <2>5. Visible(p) \in [value : Data, until : TimeT \cup {Unsure}, lease : TimeT \cup {Unsure}]
    BY <2>1, <2>2, <2>3, <2>4 DEF Served!Topic
  <2>6. Visible(p).lease = End(n.topic_ma)
        /\ Visible(p).until = IF Hidden(n) THEN 0 ELSE End(n.data_ma)
    BY <2>3 DEF Served!Topic, Hidden
  <2>7. p \in Live
    BY <1>2 DEF IInv, NodesHaveResources
  <2>8. ~Served!Over(Visible(p).until, clock)
    <3>1. n.data_ma \in Int /\ clock \in Int
      BY <2>1, LongMaxIsLast DEF IInv, TypeOK
    <3>. QED
      BY <2>6, <3>1 DEF Served!Over, Hidden, End, ExpiredAt
  <2>. QED
    BY <1>2, <2>5, <2>6, <2>7, <2>8, VisibleAssumption DEF n
<1>. QED
  BY <1>1, <1>2

LEMMA NamedIsLive ==
    ASSUME IInv
    PROVE  /\ Served!Named = Live
           /\ Served!Present = {p \in Topics : TopicExist(topicDB, p)}
           /\ Served!Present \subseteq Live
<1>1. Served!Named = Live
  BY VisibleOf DEF Served!Named, Live
<1>2. \A p \in Topics : TopicExist(topicDB, p) => p \in Live
  BY DEF IInv, NodesHaveResources
<1>3. \A p \in Topics : p \in Served!Present <=> TopicExist(topicDB, p)
  BY <1>1, <1>2, VisibleOf DEF Served!Present
<1>. QED
  BY <1>1, <1>2, <1>3 DEF Served!Present, Served!Named
-------------------------------------------------------------------------------
(* Steps that leave the topics alone.                                      *)
LEMMA SeenSame ==
    ASSUME topicDB' = topicDB, resources' = resources, clock' = clock
    PROVE  Seen' = Seen
BY DEF Seen, Visible, Live

LEMMA RefuseStep ==
    ASSUME StoreUnchanged, UNCHANGED clock,
           NEW m \in Methods \ {"none"}, NEW p \in Paths, NEW r \in Paths,
           NEW code \in {0, 400, 404, 405, 406, 415}, response' = Reply(m, p, r, code)
    PROVE  Served!Refuse
<1>1. Seen' = Seen
  BY SeenSame DEF StoreUnchanged
<1>2. Answered' = Served!Plain("refused")
  BY DEF Answered, ToldOf, Reply, Served!Plain, Served!Answer, Methods
<1>. QED
  BY <1>1, <1>2 DEF Served!Refuse, Seen, Answered

(* A monitor or the clock: the values of V are gone, among them every one  *)
(* that is over, and the topics of E, whose lease has ended.               *)
Seem(p, E, V) ==
    IF p \in E THEN NoTopic
    ELSE IF p \in V THEN Served!Topic(NoData, 0, Visible(p).lease)
    ELSE Visible(p)

OverBy(now) == {p \in Topics : TopicExist(topicDB, p) /\ Served!Over(Visible(p).until, now)}
UnsureOf(X) == {p \in X : TopicExist(topicDB, p) /\ Visible(p).until = Unsure}

LEMMA PassStep ==
    ASSUME IInv, clock' \in {clock, clock + 1}, NEW E \in SUBSET Topics, NEW X \in SUBSET Topics,
           \A p \in E : TopicExist(topicDB, p) /\ ExpiredAt(topicDB[p].topic_ma, clock'),
           \A p \in Topics : Visible(p)' = Seem(p, E, OverBy(clock') \cup UnsureOf(X)),
           response' \in {response, NoResponse}
    PROVE  Served!Pass
<1>. DEFINE V == OverBy(clock') \cup UnsureOf(X)
<1>1. Answered' \in {Answered, Served!Silence}
  BY DEF Answered, ToldOf, NoResponse, Reply, Served!Silence, Served!Plain, Served!Answer
<1>2. Served!Present = {p \in Topics : TopicExist(topicDB, p)}
  BY NamedIsLive
<1>3. E \in SUBSET {p \in Served!Present : Served!MayBeOver(Seen[p].lease, clock')}
  <2>1. \A p \in E : Visible(p).lease = End(topicDB[p].topic_ma)
    BY VisibleOf
  <2>2. \A p \in E : topicDB[p].topic_ma \in Int
    BY NodeTypes, LongMaxIsLast DEF IInv
  <2>3. \A p \in E : Served!MayBeOver(Visible(p).lease, clock')
    BY <2>1, <2>2, VisibleAssumption DEF Served!MayBeOver, Served!Over, ExpiredAt, End
  <2>. QED
    BY <1>2, <2>3 DEF Seen
<1>4. V \in SUBSET {p \in Served!Present : Served!MayBeOver(Seen[p].until, clock')}
  BY <1>2 DEF OverBy, UnsureOf, Seen, Served!MayBeOver
<1>5. \A p \in Served!Present : Served!Over(Seen[p].until, clock') => p \in V
  BY <1>2 DEF OverBy, Seen
<1>. HIDE DEF V
<1>6. Seen' = [p \in Topics |->
                IF p \in E THEN NoTopic
                ELSE IF p \in V THEN Served!Topic(NoData, 0, Seen[p].lease)
                ELSE Seen[p]]
  BY DEF Seen, Seem, V
<1>. QED
  BY <1>1, <1>3, <1>4, <1>5, <1>6 DEF Served!Pass, Seen, Answered

LEMMA SilentStep ==
    ASSUME IInv, StoreUnchanged, UNCHANGED clock, response' = NoResponse
    PROVE  Served!Pass
<1>1. \A p \in Topics : Visible(p)' = Visible(p)
  BY DEF Visible, StoreUnchanged, Live
<1>2. OverBy(clock') = {} /\ UnsureOf({}) = {}
  BY VisibleOf DEF OverBy, UnsureOf
<1>3. \A p \in Topics : Visible(p)' = Seem(p, {}, OverBy(clock') \cup UnsureOf({}))
  BY <1>1, <1>2 DEF Seem
<1>4. /\ {} \in SUBSET Topics /\ clock' \in {clock, clock + 1}
      /\ \A p \in {} : TopicExist(topicDB, p) /\ ExpiredAt(topicDB[p].topic_ma, clock')
      /\ response' \in {response, NoResponse}
  OBVIOUS
<1>. QED
  BY <1>3, <1>4, PassStep

(* The clock moves, and the node of p is left alone.                       *)
LEMMA NodeLater ==
    ASSUME IInv, clock' \in {clock, clock + 1}, NEW p \in Topics,
           topicDB'[p] = topicDB[p], p \in Live' <=> p \in Live
    PROVE  Visible(p)' = Seem(p, {}, OverBy(clock'))
<1>1. CASE ~TopicExist(topicDB, p)
  BY <1>1 DEF Visible, TopicExist, Seem, OverBy
<1>2. CASE TopicExist(topicDB, p)
  <2>. DEFINE n == topicDB[p]
  <2>1. n.data_ma \in Int /\ clock \in Int
    BY <1>2, NodeTypes, LongMaxIsLast DEF IInv, TypeOK
  <2>2. /\ Visible(p).lease = End(n.topic_ma)
        /\ Visible(p).until = IF Hidden(n) THEN 0 ELSE End(n.data_ma)
    BY <1>2, VisibleOf
  <2>3. Hidden(n)' <=> n.data = NoData \/ (n.data_ma > 0 /\ ExpiredAt(n.data_ma, clock'))
    BY DEF Hidden
  <2>4. Hidden(n) => Hidden(n)'
    BY <2>1, <2>3 DEF Hidden, ExpiredAt
  <2>5. ~Hidden(n) => (Hidden(n)' <=> Served!Over(Visible(p).until, clock'))
    BY <2>1, <2>2, <2>3, VisibleAssumption DEF Hidden, ExpiredAt, Served!Over, End
  <2>6. Hidden(n) => ~Served!Over(Visible(p).until, clock')
    BY <2>2 DEF Served!Over
  <2>7. Visible(p)' = IF Hidden(n)' THEN Served!Topic(NoData, 0, End(n.topic_ma))
                      ELSE Served!Topic(n.data, End(n.data_ma), End(n.topic_ma))
    BY <1>2, <2>3 DEF Visible, TopicExist, Served!Topic, Hidden
  <2>8. Visible(p) = IF Hidden(n) THEN Served!Topic(NoData, 0, End(n.topic_ma))
                     ELSE Served!Topic(n.data, End(n.data_ma), End(n.topic_ma))
    BY <1>2, VisibleNode
  <2>9. p \in OverBy(clock') <=> Served!Over(Visible(p).until, clock')
    BY <1>2 DEF OverBy
  <2>. HIDE DEF n
  <2>. QED
    BY <2>2, <2>4, <2>5, <2>6, <2>7, <2>8, <2>9 DEF Seem
<1>. QED
  BY <1>1, <1>2

LEMMA TickStep ==
    ASSUME IInv, Tick
    PROVE  Served!Pass
<1>1. clock' = clock + 1 /\ topicDB' = topicDB /\ response' = response /\ Live' = Live
  BY DEF Tick, Live
<1>2. UnsureOf({}) = {} /\ {} \in SUBSET Topics
  BY DEF UnsureOf
<1>3. \A p \in Topics : Visible(p)' = Seem(p, {}, OverBy(clock') \cup UnsureOf({}))
  BY <1>1, <1>2, NodeLater
<1>4. \A p \in {} : TopicExist(topicDB, p) /\ ExpiredAt(topicDB[p].topic_ma, clock')
  OBVIOUS
<1>. QED
  BY <1>1, <1>2, <1>3, <1>4, PassStep

LEMMA CloseStep ==
    ASSUME IInv, Cleanup \/ HandleSIGINT
    PROVE  Served!Close
<1>1. DeleteAll
  BY DEF Cleanup, HandleSIGINT
<1>2. \A p \in Topics : topicDB'[p] = NoTopic
  BY <1>1 DEF DeleteAll, DeleteTopics, IInv, NodesHaveResources, TopicExist
<1>3. \A p \in Topics : Visible(p)' = NoTopic
  BY <1>1, <1>2 DEF Visible, DeleteAll, Live
<1>4. Answered' = Answered /\ clock' = clock
  BY <1>1 DEF DeleteAll, Answered, ToldOf
<1>. QED
  BY <1>3, <1>4 DEF Served!Close, Answered
-------------------------------------------------------------------------------
(* Passes of the monitors.                                                 *)
LEMMA DataMonitorStep ==
    ASSUME IInv, NEW now \in {clock, clock + 1}, NEW late \in SUBSET Topics,
           TopicDataMAMonitor(now, late)
    PROVE  Served!Pass
<1>. DEFINE X == DataExpired(now, late)
<1>1. /\ topicDB' = DeleteTopicsData(topicDB, X)
      /\ clock' = now /\ clock \in Nat /\ response' = NoResponse /\ Live' = Live
  BY DEF TopicDataMAMonitor, IInv, TypeOK, Live
<1>2. ASSUME NEW p \in Topics
      PROVE  Visible(p)' = Seem(p, {}, OverBy(clock') \cup UnsureOf(X))
  <2>1. CASE p \notin X
    <3>1. topicDB'[p] = topicDB[p]
      BY <1>1, <2>1 DEF DeleteTopicsData, IInv, TypeOK, DB
    <3>2. p \in OverBy(clock') \cup UnsureOf(X) <=> p \in OverBy(clock')
      BY <2>1 DEF UnsureOf
    <3>. QED
      BY <1>1, <3>1, <3>2, NodeLater DEF Seem
  <2>2. CASE p \in X
    <3>. DEFINE o == topicDB[p]
                n == [o EXCEPT !.data = NoData, !.data_ma = 0]
    <3>1. TopicExist(topicDB, p) /\ o \in Node /\ o.data_ma \in Int
      BY <2>2, NodeTypes, LongMaxIsLast DEF IInv, DataExpired
    <3>2. n \in Node
      BY <3>1, NumberTypes DEF Node, Data
    <3>3. topicDB'[p] = n /\ n.data = NoData /\ n.topic_ma = o.topic_ma
      BY <1>1, <2>2, <3>1 DEF DeleteTopicsData, Node
    <3>4. topicDB'[p] # NoTopic
      BY <3>2, <3>3, NoTopicAssumption
    <3>5. ExpiredAt(o.data_ma, clock')
      BY <1>1, <2>2, <3>1 DEF DataExpired, ExpiredAt
    <3>6. /\ Visible(p).lease = End(o.topic_ma)
          /\ Visible(p).until = IF Hidden(o) THEN 0 ELSE End(o.data_ma)
      BY <3>1, VisibleOf
    <3>7. Hidden(o) => Visible(p) = Served!Topic(NoData, 0, End(o.topic_ma))
      BY <3>1, VisibleNode
    <3>8. ~Hidden(o) => p \in OverBy(clock') \cup UnsureOf(X)
      <4>1. ~Hidden(o) => Visible(p).until = Unsure \/ Served!Over(Visible(p).until, clock')
        BY <3>1, <3>5, <3>6, VisibleAssumption DEF End, ExpiredAt, Served!Over
      <4>. QED
        BY <2>2, <3>1, <4>1 DEF OverBy, UnsureOf
    <3>. HIDE DEF o, n, X
    <3>9. Visible(p)' = Served!Topic(NoData, 0, End(o.topic_ma))
      BY <3>3, <3>4 DEF Visible, Served!Topic
    <3>. QED
      BY <3>6, <3>7, <3>8, <3>9 DEF Seem
  <2>. QED
    BY <2>1, <2>2
<1>3. \A p \in {} : TopicExist(topicDB, p) /\ ExpiredAt(topicDB[p].topic_ma, clock')
  OBVIOUS
<1>4. /\ {} \in SUBSET Topics /\ X \in SUBSET Topics /\ clock' \in {clock, clock + 1}
      /\ response' \in {response, NoResponse}
  BY <1>1 DEF DataExpired
<1>. HIDE DEF X
<1>. QED
  BY <1>2, <1>3, <1>4, PassStep

LEMMA TopicMonitorStep ==
    ASSUME IInv, NEW now \in {clock, clock + 1}, NEW late \in SUBSET Topics,
           TopicMAMonitor(now, late)
    PROVE  Served!Pass
<1>. DEFINE E == TopicExpired(now, late) \cap Live
<1>1. /\ topicDB' = DeleteTopics(topicDB, E) /\ resources' = DeleteResources(E)
      /\ clock' = now /\ clock \in Nat /\ response' = response
  BY DEF TopicMAMonitor, IInv, TypeOK
<1>5. UnsureOf({}) = {} /\ {} \in SUBSET Topics
  BY DEF UnsureOf
<1>2. ASSUME NEW p \in Topics
      PROVE  Visible(p)' = Seem(p, E, OverBy(clock') \cup UnsureOf({}))
  <2>. HIDE DEF E
  <2>1. CASE p \in E
    BY <1>1, <2>1 DEF Visible, Live, DeleteTopics, DeleteResources, Seem
  <2>2. CASE p \notin E
    <3>1. topicDB'[p] = topicDB[p] /\ resources'[p] = resources[p]
      BY <1>1, <2>2 DEF DeleteTopics, DeleteResources
    <3>2. Visible(p)' = Seem(p, {}, OverBy(clock'))
      BY <1>1, <3>1, NodeLater DEF Live
    <3>. QED
      BY <1>5, <2>2, <3>2 DEF Seem
  <2>. QED
    BY <2>1, <2>2
<1>3. \A p \in E : TopicExist(topicDB, p) /\ ExpiredAt(topicDB[p].topic_ma, clock')
  <2>. SUFFICES ASSUME NEW p \in E
                PROVE  TopicExist(topicDB, p) /\ ExpiredAt(topicDB[p].topic_ma, clock')
    OBVIOUS
  <2>1. p \in Topics /\ TopicExist(topicDB, p)
    BY DEF TopicExpired
  <2>2. topicDB[p].topic_ma \in Int
    BY <2>1, NodeTypes, LongMaxIsLast DEF IInv
  <2>. QED
    BY <1>1, <2>1, <2>2 DEF TopicExpired, ExpiredAt
<1>4. E \in SUBSET Topics /\ clock' \in {clock, clock + 1} /\ response' \in {response, NoResponse}
  BY <1>1 DEF Live
<1>. HIDE DEF E
<1>. QED
  BY <1>2, <1>3, <1>4, <1>5, PassStep
-------------------------------------------------------------------------------
(* Requests.                                                               *)
LEMMA CreateStep ==
    ASSUME NoUriInside, IInv, NEW p \in Paths, NEW r \in Paths, NEW new \in Topics,
           NEW ct \in Cts, NEW age \in OptAges, PostCreate(p, r, new, ct, age)
    PROVE  Served!Create(new, age) \/ Served!CreateInName(new, age)
<1>. DEFINE n == [data |-> NoData, topic_ma |-> AbsTopicMA(age), data_ma |-> 0]
<1>1. ~TopicExist(topicDB, new) /\ new \notin Live /\ clock' = clock
  BY DEF PostCreate, IInv, NodesHaveResources, Unmoved
<1>0. resources' = [resources EXCEPT ![new] = ct] /\ ct # NoTopic
  BY BrokerAssumption DEF PostCreate
<1>10. Answered' = Served!Answer("created", <<>>, NoData, age, 0)
  BY DEF PostCreate, Respond, Answered, ToldOf, Reply, Served!Answer
<1>11. CASE topicDB' = topicDB
  <2>1. new \in Live' /\ \A q \in Topics \ {new} : q \in Live' <=> q \in Live
    BY <1>0 DEF Live, IInv, TypeOK
  <2>2. Visible(new)' = InName /\ \A q \in Topics \ {new} : Visible(q)' = Visible(q)
    BY <1>1, <1>11, <2>1 DEF Visible, TopicExist
  <2>3. Seen' = [Seen EXCEPT ![new] = InName]
    BY <2>2 DEF Seen
  <2>4. new \notin Served!Named
    BY <1>1, NamedIsLive
  <2>. QED
    BY <1>1, <1>10, <2>3, <2>4 DEF Served!CreateInName, Seen, Answered
<1>. SUFFICES ASSUME topicDB' # topicDB
              PROVE  Served!Create(new, age)
  BY <1>11
<1>2. topicDB' = [topicDB EXCEPT ![new] = n]
  BY <1>1 DEF PostCreate, AddTopicWEC, AddTopic
<1>3. n \in Node /\ n.data = NoData /\ n.topic_ma = AbsTopicMA(age)
  <2>1. AbsTopicMA(age) \in TimeT
    BY DeadlineType DEF IInv, TypeOK
  <2>. QED
    BY <2>1, NumberTypes DEF Node, Data
<1>. HIDE DEF n
<1>4. topicDB'[new] = n /\ \A q \in Topics \ {new} : topicDB'[q] = topicDB[q]
  BY <1>2 DEF IInv, TypeOK, DB
<1>5. Visible(new)' = Served!Topic(NoData, 0, End(AbsTopicMA(age)))
  BY <1>3, <1>4, NoTopicAssumption DEF Visible, Served!Topic
<1>6. \A q \in Topics \ {new} : Visible(q)' = Visible(q)
  <2>1. \A q \in Topics \ {new} : q \in Live' <=> q \in Live
    BY <1>0 DEF Live, IInv, TypeOK
  <2>. QED
    BY <1>1, <1>4, <2>1 DEF Visible
<1>7. Seen' = [Seen EXCEPT ![new] = Served!Topic(NoData, 0, End(AbsTopicMA(age)))]
  BY <1>5, <1>6 DEF Seen
<1>8. Served!Named = Live /\ End(AbsTopicMA(age)) \in Served!LeaseEnds(age)
  BY NamedIsLive, DeadlineEnds DEF IInv
<1>. QED
  BY <1>1, <1>7, <1>8, <1>10 DEF Served!Create, Seen, Answered

LEMMA RenewStep ==
    ASSUME NoUriInside, IInv, NEW p \in Paths, NEW r \in Paths, NEW new \in Topics,
           NEW age \in OptAges, PostExisting(p, r, new, age)
    PROVE  Served!Renew(new, age)
<1>. DEFINE n == [data |-> topicDB[new].data, topic_ma |-> AbsTopicMA(age),
                  data_ma |-> topicDB[new].data_ma]
<1>0. /\ new \in Live /\ clock' = clock /\ resources' = resources
      /\ Answered' = Served!Answer("exists", <<>>, NoData, age, 0)
  BY DEF PostExisting, Unmoved, Respond, Answered, ToldOf, Reply, Served!Answer
<1>11. CASE ~TopicExist(topicDB, new)
  <2>1. Seen' = Seen
    BY <1>0, <1>11, SeenSame DEF PostExisting, UpdateTopicInfo
  <2>2. new \in Served!Named /\ new \notin Served!Present
    BY <1>0, <1>11, NamedIsLive
  <2>3. End(AbsTopicMA(age)) \in Served!LeaseEnds(age)
    BY DeadlineEnds DEF IInv
  <2>. QED
    BY <1>0, <2>1, <2>2, <2>3 DEF Served!Renew, Seen, Answered
<1>. SUFFICES ASSUME TopicExist(topicDB, new)
              PROVE  Served!Renew(new, age)
  BY <1>11
<1>1. TopicExist(topicDB, new) /\ new \in Live /\ clock' = clock /\ Live' = Live
  BY <1>0 DEF Live
<1>2. topicDB' = [topicDB EXCEPT ![new] = n]
  BY <1>1 DEF PostExisting, UpdateTopicInfo, SetTopic
<1>3. n \in Node
  <2>1. AbsTopicMA(age) \in TimeT /\ topicDB[new] \in Node
    BY <1>1, DeadlineType, NodeTypes DEF IInv, TypeOK
  <2>. QED
    BY <2>1 DEF Node
<1>4. n.data = topicDB[new].data /\ n.data_ma = topicDB[new].data_ma
      /\ n.topic_ma = AbsTopicMA(age)
  OBVIOUS
<1>. HIDE DEF n
<1>5. topicDB'[new] = n /\ \A q \in Topics \ {new} : topicDB'[q] = topicDB[q]
  BY <1>2 DEF IInv, TypeOK, DB
<1>6. Visible(new)' = [Visible(new) EXCEPT !.lease = End(AbsTopicMA(age))]
  BY <1>1, <1>3, <1>4, <1>5, NoTopicAssumption DEF Visible, TopicExist
<1>7. \A q \in Topics \ {new} : Visible(q)' = Visible(q)
  BY <1>1, <1>5 DEF Visible
<1>8. Seen' = [Seen EXCEPT ![new].lease = End(AbsTopicMA(age))]
  BY <1>6, <1>7 DEF Seen
<1>10. /\ new \in Served!Named /\ new \in Served!Present
       /\ End(AbsTopicMA(age)) \in Served!LeaseEnds(age)
  BY <1>1, NamedIsLive, DeadlineEnds DEF IInv
<1>. QED
  BY <1>0, <1>8, <1>10 DEF Served!Renew, Seen, Answered

LEMMA PublishStep ==
    ASSUME NoUriInside, IInv, NEW uri \in Paths, NEW p \in Topics, NEW ct \in OptCts,
           NEW age \in OptAges, NEW data \in Data, PutTopic(uri, p, ct, age, data)
    PROVE  Served!Publish(p, data, age)
<1>. DEFINE data_ma == AbsDataMA(age)
            gone == data_ma > 0 /\ ExpiredAt(data_ma, clock)
            n == [data |-> data, topic_ma |-> topicDB[p].topic_ma, data_ma |-> data_ma]
<1>1. TopicExist(topicDB, p) /\ p \in Live /\ clock' = clock /\ Live' = Live
  BY DEF PutTopic, PutCode, IInv, NodesHaveResources, Unmoved, Live
<1>2. topicDB' = [topicDB EXCEPT ![p] = n]
  BY <1>1 DEF PutTopic, UpdateTopicData, SetTopic
<1>3. n \in Node
  <2>1. data_ma \in TimeT /\ topicDB[p] \in Node
    BY <1>1, DeadlineType, NodeTypes DEF IInv, TypeOK
  <2>. QED
    BY <2>1 DEF Node
<1>4. n.data = data /\ n.data_ma = data_ma /\ n.topic_ma = topicDB[p].topic_ma
  OBVIOUS
<1>. HIDE DEF n
<1>5. topicDB'[p] = n /\ \A q \in Topics \ {p} : topicDB'[q] = topicDB[q]
  BY <1>2 DEF IInv, TypeOK, DB
<1>6. Visible(p).lease = End(topicDB[p].topic_ma)
  BY <1>1, VisibleOf
<1>7. Visible(p)' = IF data = NoData \/ gone
                    THEN Served!Topic(NoData, 0, Visible(p).lease)
                    ELSE Served!Topic(data, End(data_ma), Visible(p).lease)
  BY <1>1, <1>3, <1>4, <1>5, <1>6, NoTopicAssumption DEF Visible, Served!Topic
<1>8. \A q \in Topics \ {p} : Visible(q)' = Visible(q)
  BY <1>1, <1>5 DEF Visible
<1>9. /\ gone => age # NoAge /\ age > LongMax - MaxClock
      /\ ~gone => End(data_ma) \in Served!Ends(age)
  BY DeadlineEnds DEF IInv
<1>10. Answered' = Served!Answer("stored", p, data, age, 0)
  BY DEF PutTopic, Respond, Answered, ToldOf, Reply, Served!Answer
<1>11. p \in Served!Present
  BY <1>1, NamedIsLive
<1>12. CASE gone
  <2>1. Seen' = [Seen EXCEPT ![p] = Served!Topic(NoData, 0, @.lease)]
    BY <1>7, <1>8, <1>12 DEF Seen
  <2>. QED
    BY <1>1, <1>9, <1>10, <1>11, <1>12, <2>1 DEF Served!Publish, Seen, Answered
<1>13. CASE ~gone
  <2>1. Visible(p)' = Served!Topic(data, End(data_ma), Visible(p).lease)
    BY <1>7, <1>13 DEF Served!Topic
  <2>. HIDE DEF gone, data_ma
  <2>2. Seen' = [Seen EXCEPT ![p] = Served!Topic(data, End(data_ma), @.lease)]
    BY <1>8, <2>1 DEF Seen
  <2>. QED
    BY <1>1, <1>9, <1>10, <1>11, <1>13, <2>2 DEF Served!Publish, Seen, Answered
<1>. QED
  BY <1>12, <1>13

LEMMA ReadStep ==
    ASSUME IInv, NEW uri \in Paths, NEW p \in Topics, NEW ct \in OptCts,
           GetTopic(uri, p, ct)
    PROVE  (\E v \in Payloads \cup {NoData} : Served!Read(p, v)) \/ Served!Refuse
<1>. PICK code \in GetCodes(p, ct) :
            response' = [Reply("GET", uri, p, code) EXCEPT
                            !.data = IF code = 205 THEN topicDB[p].data ELSE NoData]
  BY DEF GetTopic, Respond
<1>. DEFINE data == IF code = 205 THEN topicDB[p].data ELSE NoData
<1>1. StoreUnchanged /\ clock' = clock /\ p # Broker /\ p \in Paths
  BY DEF GetTopic, Unmoved, Paths
<1>2. Seen' = Seen /\ Served!Present = {q \in Topics : TopicExist(topicDB, q)}
  BY <1>1, SeenSame, NamedIsLive DEF StoreUnchanged
<1>3. response' = [Reply("GET", uri, p, code) EXCEPT !.data = data]
  OBVIOUS
<1>4. code \in {204, 205, 400, 404, 415}
  BY DEF GetCodes
<1>5. CASE code \in {204, 205}
  <2>1. response'.method = "GET" /\ response'.code = code /\ response'.resource = p
        /\ response'.data = data /\ response'.age = NoAge
    BY <1>3 DEF Reply
  <2>. DEFINE n == topicDB[p]
  <2>2. /\ TopicExist(topicDB, p)
        /\ \/ n.data = NoData /\ code = 204
           \/ n.data # NoData /\ TooLongAgo(n.data_ma)
           \/ n.data # NoData /\ code = 204 /\ ExpiredAt(n.data_ma, clock)
           \/ n.data # NoData /\ code = 205 /\ ~ExpiredAt(n.data_ma, clock)
    BY <1>5 DEF GetCodes
  <2>3. n.data_ma \in Int /\ n.data \in Data /\ clock \in 1 .. LongMax
    BY <2>2, NodeTypes, LongMaxIsLast, BrokerAssumption, DBAssumption DEF IInv, Node, TypeOK
  <2>13. TooLongAgo(n.data_ma) => n.data_ma < 0
    BY <2>3, DBAssumption DEF TooLongAgo
  <2>4. Visible(p).until = IF Hidden(n) THEN 0 ELSE End(n.data_ma)
    BY <2>2, VisibleOf
  <2>5. Visible(p).value = IF Hidden(n) THEN NoData ELSE n.data
    BY <2>2, VisibleNode DEF Served!Topic
  <2>6. ASSUME code = 205  PROVE ~Hidden(n)
    BY <2>2, <2>3, <2>6, <2>13 DEF Hidden
  <2>7. ASSUME code = 204  PROVE Hidden(n) \/ Visible(p).until = Unsure
    <3>1. n.data = NoData \/ n.data_ma < 0 \/ ExpiredAt(n.data_ma, clock)
      BY <2>2, <2>7, <2>13
    <3>. QED
      BY <2>3, <2>4, <3>1 DEF Hidden, ExpiredAt, End
  <2>8. data \in Payloads \cup {NoData}
    BY <2>3 DEF Data
  <2>9. data = Visible(p).value \/ (data = NoData /\ Visible(p).until = Unsure)
    BY <1>5, <2>5, <2>6, <2>7
  <2>. HIDE DEF data, n
  <2>10. Answered' = Served!Answer("value", p, data, NoAge, 0)
    BY <1>1, <1>5, <2>1 DEF Answered, ToldOf, Served!Answer
  <2>11. p \in Served!Present
    BY <1>2, <2>2
  <2>12. Served!Read(p, data)
    BY <1>1, <1>2, <2>9, <2>10, <2>11 DEF Served!Read, Seen, Answered
  <2>. QED
    BY <2>8, <2>12
<1>6. CASE code \notin {204, 205}
  <2>1. response' = Reply("GET", uri, p, code)
    BY <1>3, <1>6 DEF Reply
  <2>2. code \in {400, 404, 415} /\ "GET" \in Methods \ {"none"}
    BY <1>4, <1>6 DEF Methods
  <2>. QED
    BY <1>1, <2>1, <2>2, RefuseStep
<1>. QED
  BY <1>5, <1>6

LEMMA SameCardinality == ASSUME NEW S PROVE Served!Cardinality(S) = Cardinality(S)
BY Zenon DEF Served!Cardinality, Cardinality

LEMMA DeleteStep ==
    ASSUME NoUriInside, IInv, NEW uri \in Paths, NEW p \in Topics, p \in Live,
           DeleteTopic(uri, p)
    PROVE  Served!Delete(p) \/ Served!Refuse
<1>. DEFINE D == Doomed(p)
            E == {p} \cup (Served!SubtopicsOf(p) \cap Served!Present)
<1>10. CASE ~TopicExist(topicDB, p)
  <2>1. /\ topicDB' = DeleteTopics(topicDB, {}) /\ resources' = DeleteResources({})
        /\ response' = [Reply("DELETE", uri, p, 404) EXCEPT !.count = Cardinality({})]
        /\ UNCHANGED <<clock, earliest_topic_max_age, earliest_data_max_age>>
    BY <1>10 DEF DeleteTopic, Respond, Unmoved
  <2>2. topicDB' = topicDB /\ resources' = resources
    BY <2>1 DEF DeleteTopics, DeleteResources, IInv, TypeOK, DB
  <2>3. response' = Reply("DELETE", uri, p, 404)
    BY <2>1, FS_EmptySet DEF Reply
  <2>4. "DELETE" \in Methods \ {"none"} /\ p \in Paths
    BY DEF Methods, Paths
  <2>. QED
    BY <2>1, <2>2, <2>3, <2>4, RefuseStep DEF StoreUnchanged
<1>. SUFFICES ASSUME TopicExist(topicDB, p)
              PROVE  Served!Delete(p)
  BY <1>10
<1>1. TopicExist(topicDB, p) /\ clock' = clock
  BY DEF DeleteTopic, Unmoved
<1>2. Served!Present = {q \in Topics : TopicExist(topicDB, q)}
  BY NamedIsLive
<1>3. D = E
  <2>1. Live \subseteq Topics /\ \A q \in Topics : TopicExist(topicDB, q) => q \in Live
    BY DEF Live, IInv, NodesHaveResources
  <2>2. \A q \in Topics : Contains(q, p) <=> q \in Served!SubtopicsOf(p)
    BY ContainsSubtopics
  <2>. QED
    BY <1>2, <2>1, <2>2 DEF Doomed
<1>4. D # {}
  BY DEF Doomed
<1>5. /\ topicDB' = DeleteTopics(topicDB, D) /\ resources' = DeleteResources(D)
      /\ response' = [Reply("DELETE", uri, p, 202) EXCEPT !.count = Cardinality(D)]
  BY <1>1, <1>4 DEF DeleteTopic, Respond
<1>. HIDE DEF D
<1>6. \A q \in Topics : Visible(q)' = IF q \in D THEN NoTopic ELSE Visible(q)
  <2>1. ASSUME NEW q \in Topics, q \in D  PROVE Visible(q)' = NoTopic
    BY <1>5, <2>1 DEF Visible, DeleteTopics, DeleteResources, Live
  <2>2. ASSUME NEW q \in Topics, q \notin D  PROVE Visible(q)' = Visible(q)
    <3>1. topicDB'[q] = topicDB[q] /\ resources'[q] = resources[q]
      BY <1>5, <2>2 DEF DeleteTopics, DeleteResources
    <3>. QED
      BY <1>1, <3>1 DEF Visible, Live
  <2>. QED
    BY <2>1, <2>2
<1>7. Seen' = [q \in Topics |-> IF q \in E THEN NoTopic ELSE Seen[q]]
  BY <1>3, <1>6 DEF Seen
<1>8. Answered' = Served!Answer("deleted", p, NoData, NoAge, Served!Cardinality(E))
  <2>1. response'.method = "DELETE" /\ response'.code = 202 /\ response'.resource = p
        /\ response'.count = Served!Cardinality(E) /\ response'.age = NoAge
    BY <1>3, <1>5, SameCardinality DEF Reply
  <2>. QED
    BY <2>1 DEF Answered, ToldOf, Served!Answer
<1>9. p \in Served!Present
  BY <1>1, <1>2
<1>. QED
  BY <1>1, <1>7, <1>8, <1>9 DEF Served!Delete, Seen, Answered

LEMMA ListStep ==
    ASSUME IInv, NEW p \in Paths, NEW query \in OptCts, NEW beyond \in BOOLEAN,
           GetBroker(p, query, beyond)
    PROVE  Served!Refuse \/ \E L \in SUBSET Topics : Served!List(L)
<1>. DEFINE links == {t \in Live : query \in {NoCt, resources[t]}}
<1>1. StoreUnchanged /\ clock' = clock /\ Broker \in Paths
  BY DEF GetBroker, Unmoved, Paths
<1>2. CASE links = {} \/ beyond
  <2>1. /\ \E code \in {400, 404} : response' = Reply("GET", p, Broker, code)
        /\ "GET" \in Methods \ {"none"}
    BY <1>2 DEF GetBroker, Respond, Methods
  <2>. QED
    BY <1>1, <2>1, RefuseStep
<1>3. CASE ~(links = {} \/ beyond)
  <2>1. response' = [Reply("GET", p, Broker, 205) EXCEPT !.links = links]
    BY <1>3 DEF GetBroker, Respond
  <2>2. response'.method = "GET" /\ response'.code = 205 /\ response'.resource = Broker
        /\ response'.links = links /\ response'.age = NoAge
    BY <1>1, <2>1 DEF Reply
  <2>3. Answered' = Served!Answer("list", links, NoData, NoAge, 0)
    BY <2>2 DEF Answered, ToldOf, Served!Answer
  <2>4. Seen' = Seen /\ Served!Named = Live
    BY <1>1, SeenSame, NamedIsLive DEF StoreUnchanged
  <2>5. links \in SUBSET Topics /\ links \subseteq Live
    BY DEF Live
  <2>. HIDE DEF links
  <2>. QED
    BY <1>1, <2>3, <2>4, <2>5 DEF Served!List, Seen, Answered
<1>. QED
  BY <1>2, <1>3

(* A step that neither the topics nor the answer show.                     *)
LEMMA StutterStep ==
    ASSUME topicDB' = topicDB, resources' = resources, clock' = clock, response' = response
    PROVE  UNCHANGED Served!vars
<1>1. Seen' = Seen /\ Answered' = Answered
  BY SeenSame DEF Answered, ToldOf
<1>. QED
  BY <1>1 DEF Served!vars, Seen, Answered

LEMMA BrokerRequestStep ==
    ASSUME NoUriInside, IInv, BrokerRequest
    PROVE  [Served!Next]_(Served!vars)
<1>. PICK p \in Paths :
        \/ \E query \in OptCts, beyond \in BOOLEAN : GetBroker(p, query, beyond)
        \/ GetBrokerMalformed(p)
        \/ DeleteBroker(p)
        \/ MethodNotAllowed(p)
        \/ \E m \in Methods \ {"none"} : NotFound(m, p)
  BY DEF BrokerRequest
<1>0. Broker \in Paths /\ \A m \in {"GET", "PUT", "DELETE"} : m \in Methods \ {"none"}
  BY DEF Paths, Methods
<1>1. ASSUME NEW query \in OptCts, NEW beyond \in BOOLEAN, GetBroker(p, query, beyond)
      PROVE  Served!Next
  BY <1>1, ListStep DEF Served!Next
<1>2. ASSUME GetBrokerMalformed(p)
      PROVE  [Served!Next]_(Served!vars)
  <2>1. CASE UNCHANGED response
    BY <1>2, <2>1, StutterStep DEF GetBrokerMalformed, StoreUnchanged, Unmoved
  <2>2. CASE \E code \in {400, 404} : response' = Reply("GET", p, Broker, code)
    BY <1>0, <1>2, <2>2, RefuseStep DEF GetBrokerMalformed, Unmoved, Served!Next
  <2>. QED
    BY <1>2, <2>1, <2>2 DEF GetBrokerMalformed, Respond
<1>3. ASSUME DeleteBroker(p)
      PROVE  Served!Next
  BY <1>0, <1>3, RefuseStep DEF DeleteBroker, Respond, Served!Next
<1>4. ASSUME MethodNotAllowed(p)
      PROVE  Served!Next
  BY <1>0, <1>4, RefuseStep DEF MethodNotAllowed, Respond, Unmoved, Served!Next
<1>5. ASSUME NEW m \in Methods \ {"none"}, NotFound(m, p)
      PROVE  Served!Next
  BY <1>5, RefuseStep DEF NotFound, Respond, Unmoved, Served!Next
<1>. QED
  BY <1>1, <1>2, <1>3, <1>4, <1>5

LEMMA PostRequestStep ==
    ASSUME NoUriInside, IInv, PostRequest
    PROVE  [Served!Next]_(Served!vars)
<1>. PICK p \in Paths, r \in Paths :
        \/ \E link \in Links, format \in BOOLEAN : PostMalformed(p, r, link, format)
        \/ \E link \in Links : PostMalformedNotLinkFormat(p, r, link)
        \/ \E link \in Links : PostUnsupported(p, r, link)
        \/ \E new \in Topics, age \in OptAges : PostExisting(p, r, new, age)
        \/ \E new \in Topics, ct \in Cts, age \in OptAges : PostCreate(p, r, new, ct, age)
  BY LookupType DEF PostRequest
<1>0. "POST" \in Methods \ {"none"}
  BY DEF Methods
<1>1. ASSUME NEW link \in Links, NEW format \in BOOLEAN, PostMalformed(p, r, link, format)
      PROVE  Served!Next
  <2>1. StoreUnchanged /\ clock' = clock /\ response' = Reply("POST", p, r, 400)
    BY <1>1 DEF PostMalformed, Respond, Unmoved
  <2>. QED
    BY <1>0, <2>1, RefuseStep DEF Served!Next
<1>2. ASSUME NEW link \in Links, PostMalformedNotLinkFormat(p, r, link)
      PROVE  [Served!Next]_(Served!vars)
  <2>1. /\ StoreUnchanged /\ clock' = clock
        /\ UNCHANGED response \/ response' = Reply("POST", p, r, 400)
    BY <1>2 DEF PostMalformedNotLinkFormat, Respond, Unmoved
  <2>. QED
    BY <1>0, <2>1, RefuseStep, StutterStep DEF Served!Next, StoreUnchanged
<1>3. ASSUME NEW link \in Links, PostUnsupported(p, r, link)
      PROVE  Served!Next
  <2>1. StoreUnchanged /\ clock' = clock /\ response' = Reply("POST", p, r, 406)
    BY <1>3 DEF PostUnsupported, Respond, Unmoved
  <2>. QED
    BY <1>0, <2>1, RefuseStep DEF Served!Next
<1>4. ASSUME NEW new \in Topics, NEW age \in OptAges, PostExisting(p, r, new, age)
      PROVE  Served!Next
  BY <1>4, RenewStep DEF Served!Next, OptAges
<1>5. ASSUME NEW new \in Topics, NEW ct \in Cts, NEW age \in OptAges,
             PostCreate(p, r, new, ct, age)
      PROVE  Served!Next
  BY <1>5, CreateStep DEF Served!Next, OptAges
<1>. QED
  BY <1>1, <1>2, <1>3, <1>4, <1>5

LEMMA TopicRequestStep ==
    ASSUME NoUriInside, IInv, TopicRequest
    PROVE  Served!Next
<1>. PICK p \in Paths : \E r \in Lookup(p) :
        \/ \E ct \in OptCts : GetTopic(p, r, ct)
        \/ \E ct \in OptCts : PutRefused(p, r, ct)
        \/ \E ct \in OptCts, age \in OptAges, data \in Data : PutTopic(p, r, ct, age, data)
        \/ DeleteTopic(p, r)
  BY DEF TopicRequest
<1>. PICK r \in Lookup(p) :
        \/ \E ct \in OptCts : GetTopic(p, r, ct)
        \/ \E ct \in OptCts : PutRefused(p, r, ct)
        \/ \E ct \in OptCts, age \in OptAges, data \in Data : PutTopic(p, r, ct, age, data)
        \/ DeleteTopic(p, r)
  OBVIOUS
<1>1. r # Broker /\ r \in Live
  BY DEF Lookup, GetTopic, PutRefused, PutTopic, DeleteTopic
<1>2. r \in Topics /\ r \in Paths
  BY <1>1 DEF Live, Paths
<1>3. ASSUME NEW ct \in OptCts, GetTopic(p, r, ct)
      PROVE  Served!Next
  BY <1>1, <1>2, <1>3, ReadStep DEF Served!Next
<1>4. ASSUME NEW ct \in OptCts, PutRefused(p, r, ct)
      PROVE  Served!Next
  <2>1. StoreUnchanged /\ clock' = clock /\ response' = Reply("PUT", p, r, PutCode(r, ct))
    BY <1>4 DEF PutRefused, Respond, Unmoved
  <2>2. PutCode(r, ct) \in {400, 404, 415} /\ "PUT" \in Methods \ {"none"}
    BY <1>4 DEF PutRefused, PutCode, Methods
  <2>. QED
    BY <1>2, <2>1, <2>2, RefuseStep DEF Served!Next
<1>5. ASSUME NEW ct \in OptCts, NEW age \in OptAges, NEW data \in Data,
             PutTopic(p, r, ct, age, data)
      PROVE  Served!Next
  <2>1. Served!Publish(r, data, age)
    BY <1>1, <1>2, <1>5, PublishStep
  <2>2. data \in Payloads \cup {NoData} /\ age \in Ages \cup {NoAge}
    BY DEF Data, OptAges
  <2>. QED
    BY <1>2, <2>1, <2>2 DEF Served!Next
<1>6. ASSUME DeleteTopic(p, r)
      PROVE  Served!Next
  BY <1>1, <1>2, <1>6, DeleteStep DEF Served!Next
<1>. QED
  BY <1>3, <1>4, <1>5, <1>6
-------------------------------------------------------------------------------
LEMMA StoreInit == Init => Served!Init
<1>. SUFFICES ASSUME Init  PROVE Served!Init
  OBVIOUS
<1>1. \A p \in Topics : Visible(p) = NoTopic
  BY DEF Init, Visible, EmptyDB, Live
<1>2. Answered = Served!Silence
  BY DEF Init, Answered, ToldOf, NoResponse, Reply, Served!Silence, Served!Plain, Served!Answer
<1>. QED
  BY <1>1, <1>2 DEF Served!Init, Init, Answered

LEMMA StoreNext ==
    ASSUME NoUriInside, IInv, [Next]_vars
    PROVE  [Served!Next]_(Served!vars)
<1>1. CASE OtherPacket \/ DataMAMonitorIdle
  <2>1. StoreUnchanged /\ UNCHANGED clock /\ response' = NoResponse
    BY <1>1 DEF OtherPacket, DataMAMonitorIdle, Respond, Unmoved
  <2>. QED
    BY <2>1, SilentStep DEF Served!Next
<1>2. CASE TopicMAMonitorIdle
  BY <1>2, StutterStep DEF TopicMAMonitorIdle, StoreUnchanged, Unmoved
<1>3. ASSUME NEW now \in {clock, clock + 1}, NEW late \in SUBSET Topics,
             TopicDataMAMonitor(now, late) \/ TopicMAMonitor(now, late)
      PROVE  Served!Next
  BY <1>3, DataMonitorStep, TopicMonitorStep DEF Served!Next
<1>4. CASE Cleanup \/ HandleSIGINT
  BY <1>4, CloseStep DEF Served!Next
<1>5. CASE Tick
  BY <1>5, TickStep DEF Served!Next
<1>6. CASE Ended \/ UNCHANGED vars
  BY <1>6, StutterStep DEF Ended, vars
<1>. QED
  BY <1>1, <1>2, <1>3, <1>4, <1>5, <1>6, BrokerRequestStep, PostRequestStep, TopicRequestStep
     DEF Next, Monitors

(* A request is served by a resource that has the key of its URI.          *)
ServedByKey == KeyOf[response.resource] = KeyOf[response.uri]

LEMMA RequestsByKey ==
    ASSUME BrokerRequest \/ PostRequest \/ TopicRequest, ServedByKey
    PROVE  ServedByKey'
<1>1. ASSUME NEW p \in Paths, NEW r, Dispatch(p, r)
      PROVE  KeyOf[r] = KeyOf[p]
  BY <1>1 DEF Dispatch, Lookup
<1>2. CASE BrokerRequest
  <2>1. PICK p \in Paths :
          \/ \E query \in OptCts, beyond \in BOOLEAN : GetBroker(p, query, beyond)
          \/ GetBrokerMalformed(p)
          \/ DeleteBroker(p)
          \/ MethodNotAllowed(p)
          \/ \E m \in Methods \ {"none"} : NotFound(m, p)
    BY <1>2 DEF BrokerRequest
  <2>2. \/ response' = response
        \/ response'.uri = p /\ response'.resource = p
        \/ response'.uri = p /\ response'.resource = Broker /\ Dispatch(p, Broker)
    BY <2>1 DEF GetBroker, GetBrokerMalformed, DeleteBroker, MethodNotAllowed, NotFound,
                Respond, Reply
  <2>. QED
    BY <1>1, <2>2 DEF ServedByKey
<1>3. CASE PostRequest
  <2>1. PICK p \in Paths, r \in Paths :
          \/ \E link \in Links, format \in BOOLEAN : PostMalformed(p, r, link, format)
          \/ \E link \in Links : PostMalformedNotLinkFormat(p, r, link)
          \/ \E link \in Links : PostUnsupported(p, r, link)
          \/ \E new \in Topics, age \in OptAges : PostExisting(p, r, new, age)
          \/ \E new \in Topics, ct \in Cts, age \in OptAges : PostCreate(p, r, new, ct, age)
    BY <1>3, LookupType DEF PostRequest
  <2>2. \/ response' = response
        \/ response'.uri = p /\ response'.resource = r /\ Dispatch(p, r)
    BY <2>1 DEF PostMalformed, PostMalformedNotLinkFormat, PostUnsupported, PostExisting,
                PostCreate, Respond, Reply
  <2>. QED
    BY <1>1, <2>2 DEF ServedByKey
<1>4. CASE TopicRequest
  <2>1. PICK p \in Paths, r \in Paths :
          \/ \E ct \in OptCts : GetTopic(p, r, ct)
          \/ \E ct \in OptCts : PutRefused(p, r, ct)
          \/ \E ct \in OptCts, age \in OptAges, data \in Data : PutTopic(p, r, ct, age, data)
          \/ DeleteTopic(p, r)
    BY <1>4, LookupType DEF TopicRequest
  <2>2. Dispatch(p, r)
    BY <2>1 DEF GetTopic, PutRefused, PutTopic, DeleteTopic
  <2>3. response'.uri = p /\ response'.resource = r
    <3>1. ASSUME NEW ct, GetTopic(p, r, ct)
          PROVE  response'.uri = p /\ response'.resource = r
      BY <3>1 DEF GetTopic, Respond, Reply
    <3>2. ASSUME DeleteTopic(p, r)
          PROVE  response'.uri = p /\ response'.resource = r
      BY <3>2 DEF DeleteTopic, Respond, Reply
    <3>3. ASSUME NEW ct, PutRefused(p, r, ct)
          PROVE  response'.uri = p /\ response'.resource = r
      BY <3>3 DEF PutRefused, Respond, Reply
    <3>4. ASSUME NEW ct, NEW age, NEW data, PutTopic(p, r, ct, age, data)
          PROVE  response'.uri = p /\ response'.resource = r
      BY <3>4 DEF PutTopic, Respond, Reply
    <3>. QED
      BY <2>1, <3>1, <3>2, <3>3, <3>4
  <2>. QED
    BY <1>1, <2>2, <2>3 DEF ServedByKey
<1>. QED
  BY <1>2, <1>3, <1>4

LEMMA StepsByKey == ASSUME [Next]_vars, ServedByKey PROVE ServedByKey'
<1>1. CASE BrokerRequest \/ PostRequest \/ TopicRequest
  BY <1>1, RequestsByKey
<1>2. CASE OtherPacket \/ Monitors \/ Cleanup \/ HandleSIGINT \/ Tick \/ Ended \/ UNCHANGED vars
  <2>1. response' \in {response, NoResponse}
    BY <1>2 DEF OtherPacket, Respond, Monitors, DataMAMonitorIdle, TopicDataMAMonitor,
                TopicMAMonitorIdle, TopicMAMonitor, Cleanup, HandleSIGINT, DeleteAll, Tick,
                Ended, vars
  <2>. QED
    BY <2>1 DEF ServedByKey, NoResponse, Reply
<1>. QED
  BY <1>1, <1>2 DEF Next

LEMMA KeyHolds == Spec => []ServedByKey
<1>1. Init => ServedByKey
  BY DEF Init, ServedByKey, NoResponse, Reply
<1>. QED
  BY <1>1, StepsByKey, PTL DEF Spec

(* The resources of the broker are a TopicStore, whatever the hash keys of *)
(* URIs are: the resource that serves a request, which is one with the key *)
(* of the URI, does for its topic, and for the subtopics of a deleted one, *)
(* what TopicStore says, and for no other topic anything.                  *)
THEOREM ResourcesServeStore ==
    ASSUME NoUriInside
    PROVE  Spec => ResourcesImplementStore /\ []ServedByKey
<1>1. Spec => []IInv
  BY InitInv, IInvInductive, PTL DEF Spec
<1>2. IInv /\ [Next]_vars => [Served!Next]_(Served!vars)
  BY StoreNext
<1>. QED
  BY <1>1, <1>2, StoreInit, KeyHolds, PTL DEF Spec, ResourcesImplementStore, Served!Spec
-------------------------------------------------------------------------------
(* Where keys are distinct, the resource is the one of the URI, and the    *)
(* two stores say the same of a step.                                      *)
LEMMA KeyIsUri ==
    ASSUME KeysDistinct, TypeOK, ServedByKey
    PROVE  ToldOf(response.uri) = Answered
BY DEF KeysDistinct, TypeOK, Responses, ServedByKey, Answered

LEMMA SameStep ==
    ASSUME ToldOf(response.uri) = Answered, ToldOf(response.uri)' = Answered',
           [Served!Next]_(Served!vars)
    PROVE  [Store!Next]_(Store!vars)
<1>0. /\ Store!Present = Served!Present /\ Store!Named = Served!Named
      /\ Store!Silence = Served!Silence
      /\ \A k : Store!Plain(k) = Served!Plain(k)
      /\ \A k, q, v, l, n : Store!Answer(k, q, v, l, n) = Served!Answer(k, q, v, l, n)
      /\ \A v, u, l : Store!Topic(v, u, l) = Served!Topic(v, u, l)
      /\ \A l : Store!Ends(l) = Served!Ends(l) /\ Store!LeaseEnds(l) = Served!LeaseEnds(l)
      /\ \A e, t : Store!Over(e, t) = Served!Over(e, t)
                   /\ Store!MayBeOver(e, t) = Served!MayBeOver(e, t)
  BY DEF Store!Present, Served!Present, Store!Named, Served!Named, Store!Silence,
         Served!Silence, Store!Plain, Served!Plain, Store!Answer, Served!Answer, Store!Topic,
         Served!Topic, Store!Ends, Served!Ends, Store!LeaseEnds, Served!LeaseEnds,
         Store!Over, Served!Over, Store!MayBeOver, Served!MayBeOver
<1>1. ASSUME NEW p \in Topics, NEW l, Served!Create(p, l)  PROVE Store!Create(p, l)
  BY <1>0, <1>1 DEF Served!Create, Store!Create, Answered
<1>2. ASSUME NEW p \in Topics, NEW l, Served!Renew(p, l)  PROVE Store!Renew(p, l)
  BY <1>0, <1>2 DEF Served!Renew, Store!Renew, Answered
<1>3. ASSUME NEW p \in Topics, NEW v, Served!Read(p, v)  PROVE Store!Read(p, v)
  BY <1>0, <1>3 DEF Served!Read, Store!Read, Answered
<1>4. ASSUME NEW p \in Topics, Served!Delete(p)  PROVE Store!Delete(p)
  <2>1. \A S : Store!Cardinality(S) = Served!Cardinality(S)
    BY Zenon DEF Store!Cardinality, Served!Cardinality
  <2>2. Store!SubtopicsOf(p) = Served!SubtopicsOf(p)
    BY DEF Store!SubtopicsOf, Served!SubtopicsOf
  <2>. QED
    BY <1>0, <1>4, <2>1, <2>2 DEF Served!Delete, Store!Delete, Answered
<1>5. ASSUME NEW p \in Topics, NEW v, NEW l, Served!Publish(p, v, l)
      PROVE  Store!Publish(p, v, l)
  BY <1>0, <1>5 DEF Served!Publish, Store!Publish, Answered
<1>11. ASSUME NEW p \in Topics, NEW l, Served!CreateInName(p, l)  PROVE Store!CreateInName(p, l)
  BY <1>0, <1>11 DEF Served!CreateInName, Store!CreateInName, Answered
<1>12. ~Served!Garble
  BY DEF Served!Garble
<1>6. ASSUME NEW L, Served!List(L)  PROVE Store!List(L)
  BY <1>0, <1>6 DEF Served!List, Store!List, Answered
<1>7. CASE Served!Refuse
  BY <1>0, <1>7 DEF Served!Refuse, Store!Refuse, Answered, Store!Next
<1>8. CASE Served!Pass
  <2>1. PICK S \in SUBSET {p \in Served!Present : Served!MayBeOver(Seen[p].lease, clock')},
             V \in SUBSET {p \in Served!Present : Served!MayBeOver(Seen[p].until, clock')} :
               /\ \A p \in Served!Present : Served!Over(Seen[p].until, clock') => p \in V
               /\ Seen' = [p \in Topics |->
                             IF p \in S THEN NoTopic
                             ELSE IF p \in V THEN Served!Topic(NoData, 0, Seen[p].lease)
                             ELSE Seen[p]]
    BY <1>8 DEF Served!Pass, Seen
  <2>2. /\ S \in SUBSET {p \in Store!Present : Store!MayBeOver(Seen[p].lease, clock')}
        /\ V \in SUBSET {p \in Store!Present : Store!MayBeOver(Seen[p].until, clock')}
        /\ \A p \in Store!Present : Store!Over(Seen[p].until, clock') => p \in V
        /\ Seen' = [p \in Topics |->
                      IF p \in S THEN NoTopic
                      ELSE IF p \in V THEN Store!Topic(NoData, 0, Seen[p].lease)
                      ELSE Seen[p]]
    BY <1>0, <2>1, Zenon
  <2>3. /\ ToldOf(response.uri)' \in {ToldOf(response.uri), Store!Silence}
        /\ clock' \in {clock, clock + 1}
    BY <1>0, <1>8 DEF Served!Pass, Answered
  <2>. QED
    BY <2>2, <2>3 DEF Store!Pass, Seen, Store!Next
<1>9. CASE Served!Close
  BY <1>9 DEF Served!Close, Store!Close, Answered, Store!Next
<1>10. CASE UNCHANGED Served!vars
  BY <1>10 DEF Served!vars, Store!vars, Answered
<1>. QED
  BY <1>1, <1>2, <1>3, <1>4, <1>5, <1>6, <1>7, <1>8, <1>9, <1>10, <1>11, <1>12
     DEF Served!Next, Store!Next

(* The broker is a TopicStore: a published value can be read until it is   *)
(* replaced or its deadline has passed, deleting a topic deletes its       *)
(* subtopics and no other, and no response says anything else.             *)
THEOREM BrokerImplementsStore ==
    ASSUME NoUriInside, KeysDistinct
    PROVE  Spec => ImplementsStore
<1>. DEFINE Same == ToldOf(response.uri) = Answered
<1>1. Spec => []IInv
  BY InitInv, IInvInductive, PTL DEF Spec
<1>2. IInv /\ ServedByKey => Same
  BY KeyIsUri DEF IInv
<1>3. Init => Store!Init
  <2>. SUFFICES ASSUME Init  PROVE Store!Init
    OBVIOUS
  <2>1. Served!Init /\ ToldOf(response.uri) = Answered
    BY StoreInit DEF Init, Answered, NoResponse, Reply
  <2>. QED
    BY <2>1 DEF Served!Init, Store!Init, Answered, Store!Silence, Served!Silence,
                Store!Plain, Served!Plain, Store!Answer, Served!Answer
<1>4. IInv /\ Same /\ Same' /\ [Next]_vars => [Store!Next]_(Store!vars)
  BY StoreNext, SameStep
<1>. HIDE DEF Same
<1>. QED
  BY <1>1, <1>2, <1>3, <1>4, KeyHolds, PTL DEF Spec, ImplementsStore, Store!Spec
===============================================================================
