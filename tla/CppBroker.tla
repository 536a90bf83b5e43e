------------------------------ MODULE CppBroker ------------------------------
(***************************************************************************)
(* The C++ port of the broker (src/cpp), the program that CMakeLists.txt   *)
(* builds.  It has one thread and no MQTT bridge; its monitors are         *)
(* commented out in main, so nothing is ever purged: an expired value is   *)
(* only hidden from GET, and an expired topic stays.  The bounds on the    *)
(* next deadline, which only those monitors read, are left out.            *)
(*                                                                         *)
(* topic_db is the list of LinkedListDB.cpp, in its order, with the length *)
(* that TopicDB keeps beside it and that its lookups trust.  Requests are  *)
(* found by libcoap as in CoapBroker; here every URI has a key of its own. *)
(***************************************************************************)
EXTENDS Integers, Sequences, FiniteSets, FiniteSetsExt

CONSTANTS
    Topics,     \* URIs: <<"ps">> followed by at least one segment
    Payloads, NoData,   \* NoData: the empty string
    NoTopic,
    Cts, NoCt,
    BadCt,      \* a ct attribute that std::stoi cannot convert
    Ages, NoAge,        \* values of a Max-Age option
    Unsure,     \* what clients see of a deadline that time_t could not hold
    PsEnding,   \* path segments whose last two characters are "ps"
    IntMax,     \* INT_MAX: Option::decode_value returns an int
    LongMax,    \* the largest value of time_t
    MaxClock    \* bound: the last value of time(NULL) that is explored

Broker == <<"ps">>
Paths  == Topics \cup {Broker}

ASSUME CppAssumption ==
    /\ IsFiniteSet(Topics)
    /\ \A p \in Topics : p \in Seq(STRING) /\ Len(p) > 1 /\ p[1] = "ps"
    /\ "ps" \in PsEnding
    /\ NoData \notin Payloads /\ NoCt \notin Cts /\ NoTopic \notin Cts
    /\ BadCt \notin Cts \cup {NoCt, NoTopic}
    /\ LongMax \in Nat /\ IntMax \in 0 .. LongMax /\ MaxClock \in 1 .. LongMax
    /\ Ages \subseteq 0 .. 2 * IntMax + 1
    /\ NoAge \notin Nat

VARIABLES
    resources,  \* ct attribute of each topic's CoAP resource, or NoTopic
    topic_db,   \* the list
    length_,
    clock,
    pc, quit,
    response    \* what the last packet was answered, until the loop goes on

vars == <<resources, topic_db, length_, clock, pc, quit, response>>

Data == Payloads \cup {NoData}
TimeT == (-LongMax - 1) .. LongMax

TopicData == [path : Topics, data : Data, topic_ma : TimeT, data_ma : TimeT]

Live == {p \in Topics : resources[p] # NoTopic}

(* data and age are what was sent with a PUT or a POST that is answered, or *)
(* the payload of a 2.05.                                                  *)
Reply(m, p, c) ==
    [method |-> m, uri |-> p, code |-> c, data |-> NoData, age |-> NoAge, count |-> 0,
     links |-> {}]
NoResponse == Reply("none", Broker, 0)

Init ==
    /\ resources = [p \in Topics |-> NoTopic]
    /\ topic_db = <<>> /\ length_ = 0
    /\ clock = 1
    /\ pc = "select" /\ quit = FALSE
    /\ response = NoResponse
-------------------------------------------------------------------------------
(* LinkedListDB.cpp.  get_topic and copy_topic: the first node of the path *)
(* if length_ says that there is one to look at.                           *)
Index(p) == {i \in DOMAIN topic_db : topic_db[i].path = p}
Exists(p) == length_ # 0 /\ Index(p) # {}
At(p) == Min(Index(p))
Get(p) == topic_db[At(p)]

(* The two update_topic of a node.                                         *)
UpdateLease(p, topic_ma) == [topic_db EXCEPT ![At(p)].topic_ma = topic_ma]

(* A variant of UpdateData that publishes with the lease of the data.      *)
UpdateDataLease(p, data, data_ma) ==
    [topic_db EXCEPT ![At(p)] =
        [path |-> @.path, data |-> data, topic_ma |-> data_ma, data_ma |-> data_ma]]

UpdateData(p, data, data_ma) ==
    [topic_db EXCEPT ![At(p)] =
        [path |-> @.path, data |-> data, topic_ma |-> @.topic_ma, data_ma |-> data_ma]]

(* A variant of AddTopic that does not count the first node.               *)
AddTopicNotCounted(p, topic_ma) ==
    /\ topic_db' = Append(topic_db, [path |-> p, data |-> NoData,
                                      topic_ma |-> topic_ma, data_ma |-> 0])
    /\ length_' = IF topic_db = <<>> THEN length_ ELSE length_ + 1

(* add_topic: the last node, unless the path has a node already.           *)
AddTopic(p, topic_ma) ==
    IF Index(p) = {}
    THEN /\ topic_db' = Append(topic_db, [path |-> p, data |-> NoData,
                                          topic_ma |-> topic_ma, data_ma |-> 0])
         /\ length_' = length_ + 1
    ELSE topic_db' = UpdateLease(p, topic_ma) /\ UNCHANGED length_

(* delete_topic for every path in P: the nodes that stay keep their order. *)
Kept(P) == {i \in DOMAIN topic_db : topic_db[i].path \notin P}

DeleteTopics(P) ==
    /\ \E f \in [1 .. Cardinality(Kept(P)) -> Kept(P)] :
          /\ \A i, j \in DOMAIN f : i < j => f[i] < f[j]
          /\ topic_db' = [i \in DOMAIN f |-> topic_db[f[i]]]
    /\ length_' = length_ - Cardinality({p \in P : Index(p) # {}})
-------------------------------------------------------------------------------
(* Option::decode_value: an unsigned integer of four bytes as an int.      *)
Decoded(age) == IF age > IntMax THEN age - 2 * (IntMax + 1) ELSE age

(* A sum that time_t cannot hold wraps around.                             *)
ToTimeT(n) == IF n > LongMax THEN n - 2 * (LongMax + 1) ELSE n

AbsTopicMA(age) ==
    IF age = NoAge \/ Decoded(age) < 1 THEN 0 ELSE ToTimeT(clock + Decoded(age))

(* A variant of AbsDataMA that keeps the sum in a wider integer.           *)
AbsDataMAWide(age) == IF age = NoAge THEN 0 ELSE Decoded(age) + clock

AbsDataMA(age) == IF age = NoAge THEN 0 ELSE ToTimeT(Decoded(age) + clock)

ExpiredAt(ma, now) == ma < now /\ ma # 0

(* has_substr(uri + "/").                                                  *)
Contains(q, p) ==
    \E i \in 0 .. Len(q) - Len(p) - 1 :
        /\ q[i + 1] \in PsEnding
        /\ SubSeq(q, i + 2, i + Len(p)) = Tail(p)

CanCreate(r, p) == Len(p) > Len(r) /\ SubSeq(p, 1, Len(r)) = r
-------------------------------------------------------------------------------
(* Server::run reads one packet; main then looks at quit.                  *)
Respond(reply) == pc = "select" /\ response' = reply /\ pc' = "loop"
Served(p) == pc = "select" /\ p \in Live
StoreUnchanged ==
    UNCHANGED <<resources, topic_db, length_>>
Unmoved == UNCHANGED <<clock, quit>>

OtherPacket == Respond(NoResponse) /\ StoreUnchanged /\ Unmoved

(* handle_request: no resource, or no handler for the method.              *)
NotFound(m, p) ==
    /\ p \in Topics \ Live
    /\ Respond(Reply(m, p, 404))
    /\ StoreUnchanged /\ Unmoved

MethodNotAllowed(m) ==
    Respond(Reply(m, Broker, 405)) /\ StoreUnchanged /\ Unmoved

Failed == pc = "select" /\ pc' = "failed" /\ UNCHANGED response

(* The topics that match a query, which is absent (NoCt) or asks for a ct. *)
Links(query) == {t \in Live : query \in {NoCt, resources[t]}}

(* hnd_get_broker.                                                         *)
GetBroker(query, beyond) ==
    /\ Respond(IF Links(query) = {} THEN Reply("GET", Broker, 404)
               ELSE IF beyond THEN Reply("GET", Broker, 400)
               ELSE [Reply("GET", Broker, 205) EXCEPT !.links = Links(query)])
    /\ StoreUnchanged /\ Unmoved

(* The comma between two links is appended as a string, from a char that   *)
(* no '\0' follows: the list is right only if the next byte is 0.  It may  *)
(* say anything (a 2.05 without links here), or the process ends.          *)
GetBrokerGarbled(query) ==
    /\ Cardinality(Links(query)) > 1
    /\ Respond(Reply("GET", Broker, 205)) \/ Failed
    /\ StoreUnchanged /\ Unmoved

(* With a query that cannot be split the handler frees two pointers that   *)
(* it may not have set: it answers 4.00 or stops.                          *)
GetBrokerMalformed ==
    /\ IF Live = {} THEN Respond(Reply("GET", Broker, 404))
       ELSE \/ Respond(Reply("GET", Broker, 400))
            \/ Failed
    /\ StoreUnchanged /\ Unmoved

(* hnd_post_broker, and hnd_post_topic, which calls it.  4.00: no          *)
(* link-format, or no ct attribute.  4.06: ct is no number of 16 bits.     *)
PostRefused(p, code) ==
    /\ p = Broker \/ p \in Live
    /\ code \in {400, 406}
    /\ Respond(Reply("POST", p, code))
    /\ StoreUnchanged /\ Unmoved

(* A ct of digits that no int can hold: std::stoi throws, nobody catches.  *)
PostUncaught(p) ==
    /\ p = Broker \/ p \in Live
    /\ Failed
    /\ StoreUnchanged /\ Unmoved

(* 4.03: the topic exists; its lease is replaced all the same.             *)
PostExisting(p, new, age) ==
    /\ p = Broker \/ p \in Live
    /\ CanCreate(p, new)
    /\ new \in Live
    /\ topic_db' = UpdateLease(new, AbsTopicMA(age))
    /\ Respond([Reply("POST", p, 403) EXCEPT !.age = age])
    /\ UNCHANGED <<resources, length_>> /\ Unmoved

(* 2.01: s_handler adds the resource and the node.  is_uscf has looked at  *)
(* the first ct attribute of the link; the last is the one that the topic  *)
(* is found to have.                                                       *)
PostCreate(p, new, ct, age) ==
    /\ p = Broker \/ p \in Live
    /\ CanCreate(p, new)
    /\ new \notin Live
    /\ resources' = [resources EXCEPT ![new] = ct]
    /\ AddTopic(new, AbsTopicMA(age))
    /\ Respond([Reply("POST", p, 201) EXCEPT !.age = age])
    /\ Unmoved

(* A GET of a topic whose ct is no number, or a PUT to it that has a       *)
(* Content-Format: std::stoi throws, nobody catches.                       *)
CtUncaught(p) ==
    /\ p \in Live /\ resources[p] = BadCt
    /\ Failed
    /\ StoreUnchanged /\ Unmoved

(* data_ma - time(NULL) may be less than time_t can hold, and then come    *)
(* out as positive.                                                        *)
TooLongAgo(ma) == ma - clock < -LongMax - 1

(* hnd_get_topic for a request.                                            *)
GetCodes(p, ct) ==
    IF ct = NoCt THEN {400}
    ELSE IF ct # resources[p] THEN {415}
    ELSE IF ~Exists(p) THEN {404}
    ELSE IF TooLongAgo(Get(p).data_ma) THEN {204, 205}
    ELSE IF ExpiredAt(Get(p).data_ma, clock) THEN {204}
    ELSE {205}

GetTopic(p, ct) ==
    /\ Served(p) /\ resources[p] # BadCt
    /\ \E code \in GetCodes(p, ct) :
          Respond([Reply("GET", p, code) EXCEPT
                      !.data = IF code = 205 THEN Get(p).data ELSE NoData])
    /\ StoreUnchanged /\ Unmoved

PutCode(p, ct) ==
    IF ct = NoCt THEN 400
    ELSE IF ct # resources[p] THEN 415
    ELSE IF Exists(p) THEN 204 ELSE 404

PutRefused(p, ct) ==
    /\ Served(p) /\ PutCode(p, ct) # 204
    /\ ct = NoCt \/ resources[p] # BadCt
    /\ Respond(Reply("PUT", p, PutCode(p, ct)))
    /\ StoreUnchanged /\ Unmoved

PutTopic(p, ct, age, data) ==
    /\ Served(p) /\ PutCode(p, ct) = 204
    /\ topic_db' = UpdateData(p, data, AbsDataMA(age))
    /\ Respond([Reply("PUT", p, 204) EXCEPT !.data = data, !.age = age])
    /\ UNCHANGED <<resources, length_>> /\ Unmoved

(* hnd_delete_topic: the topic, and every resource that contains its URI   *)
(* and a slash and has a node.                                             *)
DeleteTopic(p) ==
    /\ Served(p)
    /\ LET D == IF Index(p) = {} THEN {}
                ELSE {p} \cup {q \in Live \ {p} : Contains(q, p) /\ Index(q) # {}}
       IN  /\ DeleteTopics(D)
           /\ resources' = [q \in Topics |-> IF q \in D THEN NoTopic ELSE resources[q]]
           /\ Respond([Reply("DELETE", p, IF D = {} THEN 404 ELSE 202)
                       EXCEPT !.count = Cardinality(D)])
    /\ Unmoved
-------------------------------------------------------------------------------
(* while (!quit).  end_server deletes all resources.                       *)
Loop ==
    /\ pc = "loop"
    /\ IF quit
       THEN pc' = "exited" /\ resources' = [p \in Topics |-> NoTopic] /\ UNCHANGED response
       ELSE pc' = "select" /\ response' = NoResponse /\ UNCHANGED resources
    /\ UNCHANGED <<topic_db, length_>> /\ Unmoved

(* SIGINT sets quit.  It ends a select that waits, and the process with it *)
(* (exit(EXIT_FAILURE)); before the select it is seen after the next       *)
(* packet only.                                                            *)
HandleSIGINT ==
    /\ pc \in {"select", "loop"}
    /\ quit' = TRUE
    /\ pc' \in IF pc = "select" THEN {"select", "failed"} ELSE {"loop"}
    /\ StoreUnchanged /\ UNCHANGED <<clock, response>>

Tick ==
    /\ pc \in {"select", "loop"}
    /\ clock < MaxClock
    /\ clock' = clock + 1
    /\ StoreUnchanged /\ UNCHANGED <<pc, quit, response>>

Ended == pc \in {"exited", "failed"} /\ UNCHANGED vars
-------------------------------------------------------------------------------
OptAges == Ages \cup {NoAge}
OptCts  == Cts \cup {NoCt}
AllCts  == Cts \cup {BadCt}

BrokerRequest ==
    \/ \E query \in AllCts \cup {NoCt} :
          \/ \E beyond \in BOOLEAN : GetBroker(query, beyond)
          \/ GetBrokerGarbled(query)
    \/ GetBrokerMalformed
    \/ \E m \in {"PUT", "DELETE"} : MethodNotAllowed(m)
    \/ \E m \in {"GET", "PUT", "POST", "DELETE"}, p \in Topics : NotFound(m, p)

PostRequest ==
    \E p \in Paths :
        \/ \E code \in {400, 406} : PostRefused(p, code)
        \/ PostUncaught(p)
        \/ \E new \in Topics, age \in OptAges : PostExisting(p, new, age)
        \/ \E new \in Topics, ct \in AllCts, age \in OptAges : PostCreate(p, new, ct, age)

TopicRequest ==
    \E p \in Topics :
        \/ \E ct \in OptCts : GetTopic(p, ct) \/ PutRefused(p, ct)
        \/ \E ct \in OptCts, age \in OptAges, data \in Data : PutTopic(p, ct, age, data)
        \/ CtUncaught(p)
        \/ DeleteTopic(p)

Next ==
    \/ OtherPacket \/ BrokerRequest \/ PostRequest \/ TopicRequest
    \/ Loop \/ HandleSIGINT \/ Tick \/ Ended

Spec == Init /\ [][Next]_vars
-------------------------------------------------------------------------------
(* Deadlines are values of time_t, whatever a client's Max-Age is.         *)
TypeOK ==
    /\ resources \in [Topics -> AllCts \cup {NoTopic}]
    /\ topic_db \in Seq(TopicData)
    /\ length_ \in Nat
    /\ clock \in 1 .. MaxClock
    /\ pc \in {"select", "loop", "exited", "failed"}
    /\ quit \in BOOLEAN

(* A topic is a resource exactly when the list has one node for it, and    *)
(* length_ is the number of nodes: copy_topic and get_topic dereference    *)
(* the head when length_ is not 0, and the handlers dereference what       *)
(* get_topic returns for a resource without a test.                        *)
ResourcesMatchDB ==
    pc \in {"select", "loop"} =>
        /\ \A p \in Topics : Cardinality(Index(p)) = IF p \in Live THEN 1 ELSE 0
        /\ length_ = Len(topic_db)

(* What a client can see of a topic, and what it was told, as TopicStore   *)
(* has them.  A deadline that is negative comes from a Max-Age that an int *)
(* or a sum that time_t could not hold.                                    *)
End(ma) == IF ma < 0 THEN Unsure ELSE ma

Visible(p) ==
    IF p \notin Live \/ pc \in {"exited", "failed"} THEN NoTopic
    ELSE LET n == Get(p)
         IN  IF n.data = NoData \/ (n.data_ma > 0 /\ ExpiredAt(n.data_ma, clock))
             THEN [value |-> NoData, until |-> 0, lease |-> End(n.topic_ma)]
             ELSE [value |-> n.data, until |-> End(n.data_ma), lease |-> End(n.topic_ma)]

ASSUME VisibleAssumption ==
    /\ Unsure \notin Int
    /\ NoTopic \notin [value : Data, until : TimeT \cup {Unsure}, lease : TimeT \cup {Unsure}]

Told ==
    LET r == response
        tell(k, p, v, n) ==
            [kind |-> k, topic |-> p, value |-> v, life |-> r.age, count |-> n]
        asked == <<r.method, r.code>>
    IN  CASE r.method = "none"           -> tell("none", <<>>, NoData, 0)
          [] asked = <<"POST", 201>>     -> tell("created", <<>>, NoData, 0)
          [] asked = <<"POST", 403>>     -> tell("exists", <<>>, NoData, 0)
          [] asked = <<"PUT", 204>>      -> tell("stored", r.uri, r.data, 0)
          [] asked = <<"DELETE", 202>>   -> tell("deleted", r.uri, NoData, r.count)
          [] asked = <<"GET", 205>> /\ r.uri = Broker /\ r.links # {} ->
                tell("list", r.links, NoData, 0)
          [] asked = <<"GET", 205>> /\ r.uri = Broker /\ r.links = {} ->
                tell("garbled", <<>>, NoData, 0)
          [] r.method = "GET" /\ r.code \in {204, 205} /\ r.uri # Broker ->
                tell("value", r.uri, r.data, 0)
          [] OTHER -> tell("refused", <<>>, NoData, 0)

(* The longest Max-Age whose deadline an int and a time_t can hold.        *)
Longest == IF IntMax < LongMax - MaxClock THEN IntMax ELSE LongMax - MaxClock

Store == INSTANCE TopicStore WITH
             store <- [p \in Topics |-> Visible(p)],
             now <- clock,
             answer <- Told,
             Lifetimes <- Ages, NoLife <- NoAge,
             InName <- NoTopic,
             Exceptions <- {"list"}

(* The port keeps the promises of TopicStore to its clients, like the C    *)
(* broker: without monitors, with a list of its own and with an int for    *)
(* Max-Age, until it exits or fails.  It creates no topic in name only,    *)
(* but what it lists cannot be relied on.                                  *)
ImplementsStore == Store!Spec
==============================================================================
