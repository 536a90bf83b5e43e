------------------------------ MODULE CoapBroker ------------------------------
(***************************************************************************)
(* The broker process of coap-broker.c without the MQTT bridge: one thread *)
(* that loops over                                                         *)
(*                                                                         *)
(*     select; coap_read; topicDataMAMonitor; topicMAMonitor               *)
(*                                                                         *)
(* A topic lives in two places: as a CoAP resource in ctx->resources,      *)
(* where requests find it, and as a node of topicDB, where its data and    *)
(* its deadlines are.  Two globals hold a lower bound of the deadlines so  *)
(* that the monitors need not walk the list on every packet.               *)
(*                                                                         *)
(* Time is the value of time(NULL).  It may advance between any two steps  *)
(* and, since a monitor reads it once per node, within a monitor's walk.   *)
(***************************************************************************)
EXTENDS TopicDB, LinkFormat, FiniteSets

CONSTANTS
    Links,      \* payloads of a POST
    Ages,       \* values of a Max-Age option (an unsigned int)
    NoAge,      \* no Max-Age option
    InName,     \* what clients see of a topic whose node had no memory
    Unsure,     \* and of a deadline that time_t could not hold
    PsEnding,   \* path segments whose last two characters are "ps"
    KeyOf,      \* the hash key of a URI (coap_hash_path)
    MaxClock    \* bound: the last value of time(NULL) that is explored

(* URIs are sequences of path segments.  The broker's own resource is "ps" *)
(* and a topic's URI is "ps/" followed by at least one segment.            *)
Broker == <<"ps">>
Paths  == Topics \cup {Broker}

ASSUME BrokerAssumption ==
    /\ IsFiniteSet(Topics)
    /\ \A p \in Topics : p \in Seq(STRING) /\ Len(p) > 1 /\ p[1] = "ps"
    /\ "ps" \in PsEnding
    /\ \A link \in Links : link # <<>> /\ link \in Seq(Chunks)
    /\ NoTopic \notin Cts
    /\ Ages \subseteq 0 .. 2 * LongMax + 1
    /\ NoAge \notin Nat
    /\ MaxClock \in 1 .. LongMax
    /\ DOMAIN KeyOf = Paths

VARIABLES
    resources,              \* ctx->resources: ct attribute of each topic resource, or NoTopic
    topicDB,                \* the topic database
    earliest_topic_max_age,
    earliest_data_max_age,
    clock,                  \* time(NULL)
    pc,                     \* where the main thread is in its loop
    quit,
    response,               \* the response of the current loop iteration
    fault                   \* a free() of this iteration that has no owner

vars == <<resources, topicDB, earliest_topic_max_age, earliest_data_max_age,
          clock, pc, quit, response, fault>>
-------------------------------------------------------------------------------
Methods == {"none", "GET", "POST", "PUT", "DELETE"}
Codes   == {0, 201, 202, 204, 205, 400, 403, 404, 405, 406, 415}

(* uri is what the client asked for and resource is what served it.  data  *)
(* is the payload of a topic's 2.05, or the one that was sent with a PUT   *)
(* that is answered, and age the Max-Age that was sent with it or with a   *)
(* POST; count is the payload of a DELETE's response and links are the     *)
(* topics that a GET of the broker lists.                                  *)
Responses == [method : Methods, uri : Paths, resource : Paths, code : Codes,
              data : Data, age : Ages \cup {NoAge}, count : Nat, links : SUBSET Topics]

Reply(m, p, r, c) ==
    [method |-> m, uri |-> p, resource |-> r, code |-> c,
     data |-> NoData, age |-> NoAge, count |-> 0, links |-> {}]

NoResponse == Reply("none", Broker, Broker, 0)

PCs == {"select", "data_monitor", "topic_monitor", "cleanup", "exited", "aborted"}

Faults == {"none", "null_free", "double_free", "wild_free"}

TypeOK ==
    /\ resources \in [Topics -> Cts \cup {NoTopic}]
    /\ topicDB \in DB
    /\ earliest_topic_max_age \in TimeT
    /\ earliest_data_max_age \in TimeT
    /\ clock \in 1 .. MaxClock
    /\ pc \in PCs
    /\ quit \in BOOLEAN
    /\ response \in Responses
    /\ fault \in Faults

Init ==
    /\ resources = [p \in Topics |-> NoTopic]
    /\ topicDB = EmptyDB
    /\ earliest_topic_max_age = LongMax
    /\ earliest_data_max_age = LongMax
    /\ clock = 1
    /\ pc = "select"
    /\ quit = FALSE
    /\ response = NoResponse
    /\ fault = "none"
-------------------------------------------------------------------------------
(* The topic resources that are in ctx->resources.                         *)
Live == {p \in Topics : resources[p] # NoTopic}

(* coap_get_resource_from_key: the resources whose key is the key of the   *)
(* request's URI.  Which of several is found depends on the order of the   *)
(* bucket's chain.                                                         *)
Lookup(p) == {r \in Live \cup {Broker} : KeyOf[r] = KeyOf[p]}

(* strstr(q, p "/") # NULL: q contains the text of p followed by a slash.  *)
(* p's first segment is "ps", so the text may start inside a segment.      *)
Contains(q, p) ==
    \E i \in 0 .. Len(q) - Len(p) - 1 :
        /\ q[i + 1] \in PsEnding
        /\ SubSeq(q, i + 2, i + Len(p)) = Tail(p)

(* Conversion of an integer to time_t, which wraps around.                 *)
ToTimeT(n) == IF n > LongMax THEN n - 2 * (LongMax + 1) ELSE n

(* The absolute deadline of a topic and of its data, from the option.      *)
AbsTopicMA(age) ==
    IF age = NoAge \/ ToTimeT(age) < 1 THEN 0 ELSE ToTimeT(clock + ToTimeT(age))

(* A variant of AbsDataMA that adds before it converts.                    *)
AbsDataMAWide(age) == IF age = NoAge THEN 0 ELSE age + clock + 1

AbsDataMA(age) == IF age = NoAge THEN 0 ELSE ToTimeT(age + clock)

(* A variant of Earlier that takes the last deadline for the earliest.     *)
EarlierIsLast(ma, earliest) == IF ma # 0 THEN ma ELSE earliest

(* if (ma < earliest && ma != 0) earliest = ma;                            *)
Earlier(ma, earliest) == IF ma < earliest /\ ma # 0 THEN ma ELSE earliest

ExpiredAt(ma, now) == ma < now /\ ma # 0
-------------------------------------------------------------------------------
(* coap_read.  A request is handled by the resource r that its key finds;  *)
(* the loop then runs both monitors.                                       *)
Dispatch(p, r) == pc = "select" /\ r \in Lookup(p)

Respond(reply) == response' = reply /\ pc' = "data_monitor"

Unmoved == UNCHANGED <<clock, quit>>

StoreUnchanged ==
    UNCHANGED <<resources, topicDB, earliest_topic_max_age, earliest_data_max_age>>

(* A packet that runs no handler of the broker: an acknowledgement, a      *)
(* reset, or a datagram that is not a CoAP message.                        *)
OtherPacket ==
    /\ pc = "select"
    /\ Respond(NoResponse)
    /\ StoreUnchanged /\ Unmoved /\ UNCHANGED fault

(* handle_request: no resource has the key of the URI.                     *)
NotFound(m, p) ==
    /\ pc = "select"
    /\ Lookup(p) = {}
    /\ Respond(Reply(m, p, p, 404))
    /\ StoreUnchanged /\ Unmoved /\ UNCHANGED fault

(* handle_request: the broker's resource has no PUT handler.               *)
MethodNotAllowed(p) ==
    /\ Dispatch(p, Broker)
    /\ Respond(Reply("PUT", p, Broker, 405))
    /\ StoreUnchanged /\ Unmoved /\ UNCHANGED fault
-------------------------------------------------------------------------------
(* hnd_get_broker.  The Uri-Query is absent (NoCt), asks for a ct, or is   *)
(* malformed.  beyond: the Block2 option asks for a block past the end.    *)
GetBroker(p, query, beyond) ==
    LET links == {t \in Live : query \in {NoCt, resources[t]}}
    IN  /\ Dispatch(p, Broker)
        /\ Respond(IF links = {} THEN Reply("GET", p, Broker, 404)
                   ELSE IF beyond THEN Reply("GET", p, Broker, 400)
                   ELSE [Reply("GET", p, Broker, 205) EXCEPT !.links = links])
        /\ StoreUnchanged /\ Unmoved /\ UNCHANGED fault

(* hnd_get_broker with a malformed query.  The query is looked at once per *)
(* topic, so without topics it goes unnoticed.  When the query cannot be   *)
(* split, query_name and query_value are freed uninitialized: the process  *)
(* may stop or go on.                                                      *)
GetBrokerMalformed(p) ==
    /\ Dispatch(p, Broker)
    /\ \/ /\ Live = {}
          /\ Respond(Reply("GET", p, Broker, 404))
          /\ UNCHANGED fault
       \/ /\ Live # {}
          /\ Respond(Reply("GET", p, Broker, 400))
          /\ fault' \in {fault, "wild_free"}
       \/ /\ Live # {}
          /\ pc' = "aborted"
          /\ fault' = "wild_free"
          /\ UNCHANGED response
    /\ StoreUnchanged /\ Unmoved

(* hnd_delete_broker: the response keeps the code 0.                       *)
DeleteBroker(p) ==
    /\ Dispatch(p, Broker)
    /\ quit' = TRUE
    /\ Respond(Reply("DELETE", p, Broker, 0))
    /\ StoreUnchanged /\ UNCHANGED <<clock, fault>>
-------------------------------------------------------------------------------
(* hnd_post_broker and hnd_post_topic are the same code.                   *)

(* 4.00: the payload does not parse, or it parses but the Content-Format   *)
(* is not link-format or the new resource has no ct attribute.             *)
PostMalformed(p, r, link, format) ==
    /\ Dispatch(p, r)
    /\ IF ParseLinkFormat(link) = "made" THEN ~format \/ CtAttribute(link) = NoCt ELSE format
    /\ Respond(Reply("POST", p, r, 400))
    /\ StoreUnchanged /\ Unmoved /\ UNCHANGED fault

(* The payload does not parse and the Content-Format is not link-format.   *)
(* coapFreeResource(new_resource) is called all the same, which its        *)
(* assertion stops when new_resource is NULL.                              *)
PostMalformedNotLinkFormat(p, r, link) ==
    /\ Dispatch(p, r)
    /\ \/ /\ ParseLinkFormat(link) = "null"
          /\ fault' = "null_free"
          /\ pc' = "aborted"
          /\ UNCHANGED response
       \/ /\ ParseLinkFormat(link) = "freed"
          /\ fault' = "double_free"
          /\ \/ pc' = "aborted" /\ UNCHANGED response
             \/ Respond(Reply("POST", p, r, 400))
    /\ StoreUnchanged /\ Unmoved

(* 4.06: the ct attribute is not a number of 16 bits.                      *)
PostUnsupported(p, r, link) ==
    /\ Dispatch(p, r)
    /\ ParseLinkFormat(link) = "made" /\ CtAttribute(link) = BadCt
    /\ Respond(Reply("POST", p, r, 406))
    /\ StoreUnchanged /\ Unmoved /\ UNCHANGED fault

(* 4.03: the topic exists; its deadline is replaced all the same.          *)
PostExisting(p, r, new, age) ==
    /\ Dispatch(p, r)
    /\ new \in Live
    /\ earliest_topic_max_age' = Earlier(AbsTopicMA(age), earliest_topic_max_age)
    /\ topicDB' = UpdateTopicInfo(topicDB, new, AbsTopicMA(age))
    /\ Respond([Reply("POST", p, r, 403) EXCEPT !.age = age])
    /\ UNCHANGED <<resources, earliest_data_max_age, fault>> /\ Unmoved

(* 2.01: the topic is created.  The result of addTopicWEC is not looked    *)
(* at: when addTopic has no memory, the topic is a resource and no node.   *)
PostCreate(p, r, new, ct, age) ==
    /\ Dispatch(p, r)
    /\ new \notin Live
    /\ earliest_topic_max_age' = Earlier(AbsTopicMA(age), earliest_topic_max_age)
    /\ resources' = [resources EXCEPT ![new] = ct]
    /\ topicDB' \in {AddTopicWEC(topicDB, new, AbsTopicMA(age)), topicDB}
    /\ Respond([Reply("POST", p, r, 201) EXCEPT !.age = age])
    /\ UNCHANGED <<earliest_data_max_age, fault>> /\ Unmoved
-------------------------------------------------------------------------------
(* The handlers look whether data_ma - time(NULL) < 0: a difference that   *)
(* time_t cannot hold may come out as positive.                            *)
TooLongAgo(ma) == ma - clock < -LongMax - 1

(* A variant of GetCodes that leaves expired data to the monitor.          *)
GetCodesExpired(r, ct) ==
    IF ct = NoCt THEN {400}
    ELSE IF ct # resources[r] THEN {415}
    ELSE IF ~TopicExist(topicDB, r) THEN {404}
    ELSE IF topicDB[r].data = NoData THEN {204}
    ELSE {205}

(* hnd_get_topic for a request.  The Content-Format option is mandatory.   *)
GetCodes(r, ct) ==
    IF ct = NoCt THEN {400}
    ELSE IF ct # resources[r] THEN {415}
    ELSE IF ~TopicExist(topicDB, r) THEN {404}
    ELSE IF topicDB[r].data = NoData THEN {204}
    ELSE IF TooLongAgo(topicDB[r].data_ma) THEN {204, 205}
    ELSE IF ExpiredAt(topicDB[r].data_ma, clock) THEN {204}
    ELSE {205}

GetTopic(p, r, ct) ==
    /\ Dispatch(p, r) /\ r # Broker
    /\ \E code \in GetCodes(r, ct) :
          Respond([Reply("GET", p, r, code) EXCEPT
                      !.data = IF code = 205 THEN topicDB[r].data ELSE NoData])
    /\ StoreUnchanged /\ Unmoved /\ UNCHANGED fault

(* hnd_put_topic.  data is NoData when the request has no payload.         *)
PutCode(r, ct) ==
    CASE ct = NoCt                -> 400
      [] ct # NoCt /\ ct # resources[r] -> 415
      [] OTHER -> IF TopicExist(topicDB, r) THEN 204 ELSE 404

PutRefused(p, r, ct) ==
    /\ Dispatch(p, r) /\ r # Broker
    /\ PutCode(r, ct) # 204
    /\ Respond(Reply("PUT", p, r, PutCode(r, ct)))
    /\ StoreUnchanged /\ Unmoved /\ UNCHANGED fault

PutTopic(p, r, ct, age, data) ==
    /\ Dispatch(p, r) /\ r # Broker
    /\ PutCode(r, ct) = 204
    /\ topicDB' = UpdateTopicData(topicDB, r, AbsDataMA(age), data)
    /\ earliest_data_max_age' = Earlier(AbsDataMA(age), earliest_data_max_age)
    /\ Respond([Reply("PUT", p, r, 204) EXCEPT !.data = data, !.age = age])
    /\ UNCHANGED <<resources, earliest_topic_max_age, fault>> /\ Unmoved

(* A variant of DeleteResources that stops after the first.                *)
DeleteResourcesFirst(P) ==
    [q \in Topics |-> IF q \in P /\ q = CHOOSE p \in P : TRUE THEN NoTopic
                      ELSE resources[q]]

(* RESOURCES_DELETE and coapFreeResource for every resource of P.          *)
DeleteResources(P) == [q \in Topics |-> IF q \in P THEN NoTopic ELSE resources[q]]

(* hnd_delete_topic: the topic and every resource whose URI contains the   *)
(* topic's URI and a slash, if it has a node in the database.              *)
Doomed(r) ==
    {r} \cup {q \in Live \ {r} : Contains(q, r) /\ TopicExist(topicDB, q)}

DeleteTopic(p, r) ==
    /\ Dispatch(p, r) /\ r # Broker
    /\ LET D == IF TopicExist(topicDB, r) THEN Doomed(r) ELSE {}
       IN  /\ topicDB' = DeleteTopics(topicDB, D)
           /\ resources' = DeleteResources(D)
           /\ Respond([Reply("DELETE", p, r, IF D = {} THEN 404 ELSE 202)
                       EXCEPT !.count = Cardinality(D)])
    /\ UNCHANGED <<earliest_topic_max_age, earliest_data_max_age, fault>> /\ Unmoved
-------------------------------------------------------------------------------
(* The monitors.  A walk over the list reads time(NULL) at each node; the  *)
(* nodes in late are read after a second has passed.                       *)
Walk(now, late) ==
    /\ now \in {clock, clock + 1}
    /\ now <= MaxClock
    /\ now = clock => late = {}

(* A variant of IsNextEarliest that compares the wrong way round.          *)
IsNextEarliestGreatest(next, deadlines, earliest) ==
    LET met == {ma \in deadlines : ma # 0 /\ ma # earliest} \cup {LongMax}
    IN  next \in met /\ \A ma \in met : next >= ma

(* next is the least deadline met in the walk, skipping infinite ones and  *)
(* those equal to the bound that has just passed.                          *)
IsNextEarliest(next, deadlines, earliest) ==
    LET met == {ma \in deadlines : ma # 0 /\ ma # earliest} \cup {LongMax}
    IN  next \in met /\ \A ma \in met : next <= ma

DataDeadlines  == {topicDB[p].data_ma  : p \in {q \in Topics : TopicExist(topicDB, q)}}
TopicDeadlines == {topicDB[p].topic_ma : p \in {q \in Topics : TopicExist(topicDB, q)}}

DataExpired(now, late) ==
    {p \in Topics : /\ TopicExist(topicDB, p)
                    /\ ExpiredAt(topicDB[p].data_ma, IF p \in late THEN now ELSE clock)}

TopicExpired(now, late) ==
    {p \in Topics : /\ TopicExist(topicDB, p)
                    /\ ExpiredAt(topicDB[p].topic_ma, IF p \in late THEN now ELSE clock)}

DataMAMonitorIdle ==
    /\ pc = "data_monitor"
    /\ DBEmpty(topicDB) \/ earliest_data_max_age >= clock
    /\ pc' = "topic_monitor"
    /\ response' = NoResponse /\ fault' = "none"
    /\ StoreUnchanged /\ Unmoved

TopicDataMAMonitor(now, late) ==
    /\ pc = "data_monitor"
    /\ ~DBEmpty(topicDB) /\ earliest_data_max_age < clock
    /\ Walk(now, late)
    /\ \E next \in DataDeadlines \cup {LongMax} :
         /\ IsNextEarliest(next, DataDeadlines, earliest_data_max_age)
         /\ earliest_data_max_age' = next
    /\ topicDB' = DeleteTopicsData(topicDB, DataExpired(now, late))
    /\ clock' = now
    /\ pc' = "topic_monitor"
    /\ response' = NoResponse /\ fault' = "none"
    /\ UNCHANGED <<resources, earliest_topic_max_age, quit>>

Loop == pc' = IF quit THEN "cleanup" ELSE "select"

TopicMAMonitorIdle ==
    /\ pc = "topic_monitor"
    /\ DBEmpty(topicDB) \/ earliest_topic_max_age >= clock
    /\ Loop
    /\ StoreUnchanged /\ Unmoved /\ UNCHANGED <<response, fault>>

(* The node is deleted if it has a resource, together with the resource.   *)
TopicMAMonitor(now, late) ==
    /\ pc = "topic_monitor"
    /\ ~DBEmpty(topicDB) /\ earliest_topic_max_age < clock
    /\ Walk(now, late)
    /\ \E next \in TopicDeadlines \cup {LongMax} :
         /\ IsNextEarliest(next, TopicDeadlines, earliest_topic_max_age)
         /\ earliest_topic_max_age' = next
    /\ LET D == TopicExpired(now, late) \cap Live
       IN  /\ topicDB' = DeleteTopics(topicDB, D)
           /\ resources' = DeleteResources(D)
    /\ clock' = now
    /\ Loop
    /\ UNCHANGED <<earliest_data_max_age, quit, response, fault>>
-------------------------------------------------------------------------------
(* The end of main and handleSIGINT: every topic is deleted.               *)
DeleteAll ==
    /\ topicDB' = DeleteTopics(topicDB, Live)
    /\ resources' = [q \in Topics |-> NoTopic]
    /\ pc' = "exited"
    /\ UNCHANGED <<earliest_topic_max_age, earliest_data_max_age, clock, response, fault>>

Cleanup == pc = "cleanup" /\ DeleteAll /\ UNCHANGED quit

HandleSIGINT == pc \notin {"exited", "aborted"} /\ DeleteAll /\ quit' = TRUE

Tick ==
    /\ pc \notin {"exited", "aborted"}
    /\ clock < MaxClock
    /\ clock' = clock + 1
    /\ UNCHANGED <<resources, topicDB, earliest_topic_max_age, earliest_data_max_age,
                   pc, quit, response, fault>>

(* The process has ended.                                                  *)
Ended == pc \in {"exited", "aborted"} /\ UNCHANGED vars
-------------------------------------------------------------------------------
OptAges == Ages \cup {NoAge}
OptCts  == Cts \cup {NoCt}

BrokerRequest ==
    \E p \in Paths :
        \/ \E query \in OptCts, beyond \in BOOLEAN : GetBroker(p, query, beyond)
        \/ GetBrokerMalformed(p)
        \/ DeleteBroker(p)
        \/ MethodNotAllowed(p)
        \/ \E m \in Methods \ {"none"} : NotFound(m, p)

PostRequest ==
    \E p \in Paths, link \in Links : \E r \in Lookup(p) :
        \/ \E format \in BOOLEAN : PostMalformed(p, r, link, format)
        \/ PostMalformedNotLinkFormat(p, r, link)
        \/ PostUnsupported(p, r, link)
        \/ \E new \in Topics, ct \in Cts :
              /\ Describes(link, r, new, ct)
              /\ \E age \in OptAges : PostExisting(p, r, new, age) \/ PostCreate(p, r, new, ct, age)

TopicRequest ==
    \E p \in Paths : \E r \in Lookup(p) :
        \/ \E ct \in OptCts : GetTopic(p, r, ct)
        \/ \E ct \in OptCts : PutRefused(p, r, ct)
        \/ \E ct \in OptCts, age \in OptAges, data \in Data : PutTopic(p, r, ct, age, data)
        \/ DeleteTopic(p, r)

Monitors ==
    \/ DataMAMonitorIdle
    \/ TopicMAMonitorIdle
    \/ \E now \in {clock, clock + 1}, late \in SUBSET Topics :
          \/ TopicDataMAMonitor(now, late)
          \/ TopicMAMonitor(now, late)

Next ==
    \/ OtherPacket \/ BrokerRequest \/ PostRequest \/ TopicRequest
    \/ Monitors \/ Cleanup \/ HandleSIGINT \/ Tick \/ Ended

Spec == Init /\ [][Next]_vars

(* The main thread keeps running: once a packet has been read, both        *)
(* monitors run.  Nothing makes packets arrive.                            *)
FairSpec == Spec /\ WF_vars(Monitors \/ Cleanup)
-------------------------------------------------------------------------------
Running == pc \notin {"exited", "aborted"}

(* A node of the database has a resource: topicMAMonitor would never       *)
(* delete an expired node without one, would keep its locks, and would     *)
(* drop its deadline from the bound.                                       *)
NodesHaveResources == \A p \in Topics : TopicExist(topicDB, p) => p \in Live

(* The handlers answer 4.04 for a resource without a node ("It should      *)
(* never have this condition, ever. Just in Case.").  It is there when     *)
(* addTopic had no memory for the node of a POST that was answered 2.01;   *)
(* no other step, whatever was deleted or has expired, parts the two, and  *)
(* none leaves a node without its resource.                                *)
OnlyMemoryParts ==
    [][ /\ NodesHaveResources'
        /\ \A p \in Topics : p \in Live' /\ ~TopicExist(topicDB', p) =>
              \/ p \in Live /\ ~TopicExist(topicDB, p)
              \/ /\ p \notin Live /\ ~TopicExist(topicDB, p)
                 /\ response'.method = "POST" /\ response'.code = 201 ]_vars

(* The monitors skip the walk unless the bound has passed, so no deadline  *)
(* may be earlier than its bound, whatever was posted, put, deleted or     *)
(* purged before.                                                          *)
BoundsAreLower ==
    \A p \in Topics : TopicExist(topicDB, p) =>
        /\ topicDB[p].topic_ma # 0 => earliest_topic_max_age <= topicDB[p].topic_ma
        /\ topicDB[p].data_ma # 0 => earliest_data_max_age <= topicDB[p].data_ma

(* What had expired when the loop reached a monitor is gone when the       *)
(* monitor is done, even when the monitor did not look at the list.        *)
MonitorsMissNothing ==
    [][ /\ pc = "data_monitor" /\ pc' = "topic_monitor" =>
             \A p \in Topics : TopicExist(topicDB', p) =>
                 ~ExpiredAt(topicDB'[p].data_ma, clock)
        /\ pc = "topic_monitor" /\ pc' \in {"select", "cleanup"} =>
             \A p \in Topics : TopicExist(topicDB', p) =>
                 ~ExpiredAt(topicDB'[p].topic_ma, clock) ]_vars

(* A stored value is lost or replaced only by a PUT that this topic's      *)
(* handler accepted, which then leaves its own value, by its own deadline, *)
(* by the topic's deadline, by a DELETE, or at the end of the process.     *)
NothingLostEarly ==
    [][ \A p \in Topics :
          (TopicExist(topicDB, p) /\ pc' # "exited") =>
              \/ ~TopicExist(topicDB', p) /\ ExpiredAt(topicDB[p].topic_ma, clock')
              \/ ~TopicExist(topicDB', p) /\ response'.method = "DELETE"
                                          /\ response'.code = 202
              \/ /\ TopicExist(topicDB', p)
                 /\ \/ topicDB'[p].data = topicDB[p].data
                    \/ ExpiredAt(topicDB[p].data_ma, clock')
                    \/ /\ response'.method = "PUT" /\ response'.code = 204
                       /\ response'.resource = p
                       /\ response'.data = topicDB'[p].data ]_vars

(* If packets keep arriving, no topic and no data stays expired.           *)
ExpiredTopicsGo ==
    \A p \in Topics :
        []<>(pc = "data_monitor") =>
            /\ (TopicExist(topicDB, p) /\ ExpiredAt(topicDB[p].topic_ma, clock))
                  ~> ~(TopicExist(topicDB, p) /\ ExpiredAt(topicDB[p].topic_ma, clock))
            /\ (TopicExist(topicDB, p) /\ ExpiredAt(topicDB[p].data_ma, clock))
                  ~> ~(TopicExist(topicDB, p) /\ ExpiredAt(topicDB[p].data_ma, clock))
-------------------------------------------------------------------------------
(* "don't need to free new_resource. Any error will be handle and freed in *)
(* parseLinkFormat()" (coap-broker.c:548): a resource that a POST parsed   *)
(* is freed once.                                                          *)
NewResourceFreedOnce == fault \notin {"null_free", "double_free"}
-------------------------------------------------------------------------------
(* The broker implements TopicStore.  A value past its deadline is not     *)
(* visible to clients although the node still holds it.  A deadline that   *)
(* is negative is a sum that time_t could not hold.  A resource without a  *)
(* node is a topic in name only.                                           *)
End(ma) == IF ma < 0 THEN Unsure ELSE ma

Visible(p) ==
    LET n == topicDB[p]
    IN  IF n = NoTopic THEN IF p \in Live THEN InName ELSE NoTopic
        ELSE IF n.data = NoData \/ (n.data_ma > 0 /\ ExpiredAt(n.data_ma, clock))
             THEN [value |-> NoData, until |-> 0, lease |-> End(n.topic_ma)]
             ELSE [value |-> n.data, until |-> End(n.data_ma), lease |-> End(n.topic_ma)]

ASSUME VisibleAssumption ==
    /\ NoTopic # InName
    /\ Unsure \notin Int
    /\ {NoTopic, InName} \cap
         [value : Data, until : TimeT \cup {Unsure}, lease : TimeT \cup {Unsure}] = {}

(* What the response tells the client about the topic p.                   *)
ToldOf(p) ==
    LET tell(k, q, v, n) ==
            [kind |-> k, topic |-> q, value |-> v, life |-> response.age, count |-> n]
        r == response
    IN  CASE r.method = "none" -> tell("none", <<>>, NoData, 0)
          [] r.method = "POST" /\ r.code = 201 -> tell("created", <<>>, NoData, 0)
          [] r.method = "POST" /\ r.code = 403 -> tell("exists", <<>>, NoData, 0)
          [] r.method = "PUT" /\ r.code = 204 -> tell("stored", p, r.data, 0)
          [] r.method = "GET" /\ p # Broker /\ r.code \in {204, 205} ->
                tell("value", p, r.data, 0)
          [] r.method = "GET" /\ p = Broker /\ r.code = 205 ->
                tell("list", r.links, NoData, 0)
          [] r.method = "DELETE" /\ r.code = 202 -> tell("deleted", p, NoData, r.count)
          [] OTHER -> tell("refused", <<>>, NoData, 0)

(* The store of the URIs that clients ask for, and the store of the        *)
(* resources that serve them: coap_get_resource_from_key may find another  *)
(* resource than the one of the URI (resource.c:382-396).  Not promised: a *)
(* topic whose node had no memory, and deadlines that time_t cannot hold.  *)
Store == INSTANCE TopicStore WITH
             store <- [p \in Topics |-> Visible(p)],
             now <- clock,
             answer <- ToldOf(response.uri),
             Lifetimes <- Ages, NoLife <- NoAge, Longest <- LongMax - MaxClock,
             Exceptions <- {"memory"}

Served == INSTANCE TopicStore WITH
              store <- [p \in Topics |-> Visible(p)],
              now <- clock,
              answer <- ToldOf(response.resource),
              Lifetimes <- Ages, NoLife <- NoAge, Longest <- LongMax - MaxClock,
              Exceptions <- {"memory"}

(* Every step of the broker is a step of TopicStore or changes nothing     *)
(* that a client sees.                                                     *)
ImplementsStore == Store!Spec

(* The same where the keys of URIs collide: whichever of the resources     *)
(* with its key serves a request, it does for its own topic what           *)
(* TopicStore says, and leaves every other topic alone.                    *)
ResourcesImplementStore == Served!Spec
==============================================================================
