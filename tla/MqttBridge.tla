------------------------------ MODULE MqttBridge ------------------------------
(***************************************************************************)
(* The broker with its bridge to MQTT: the main thread, which handles CoAP *)
(* requests and runs the data monitor, and the thread of the MQTT client   *)
(* library, which calls msgarrvd for every message.  Both use the resource *)
(* table without a lock and the topic database with its own locks; here an *)
(* operation of the database is one step.                                  *)
(*                                                                         *)
(* The MQTT server sends every message on a topic to its subscribers, the  *)
(* broker included, in the order in which it got them.  So each PUT comes  *)
(* back to the broker as a message.                                        *)
(*                                                                         *)
(* One client observes each topic from its creation on.                    *)
(***************************************************************************)
EXTENDS Integers, Sequences, FiniteSets

CONSTANTS
    Topics,     \* topics, also those of MQTT
    Payloads,   \* payloads of PUTs and of MQTT messages, of a byte at least
    NoData,     \* a NULL data pointer
    NoTopic,    \* no topic
    MaxPublish  \* bound: PUTs and remote messages that are explored

ASSUME BridgeAssumption ==
    /\ NoData \notin Payloads
    /\ NoTopic \notin Topics
    /\ MaxPublish \in Nat

VARIABLES
    resources,  \* topics with a resource in ctx->resources
    nodes,      \* topics with a node in topicDB
    data,       \* a node's data
    data_ma,    \* its deadline: none, in the future, or passed
    dirty,      \* resources whose dirty flag is set
    thread,     \* what each thread is doing
    told,       \* what the observers of each topic were last told
    connected,  \* to the MQTT server
    subscribed, \* topics the server sends us
    outbox,     \* published, and not yet with the server
    inbox,      \* sent by the server; the head stays while msgarrvd runs
    last,       \* the last message on each topic that the server sent us
    published,  \* number of PUTs and remote messages
    fault       \* use of memory that has been freed, or of a NULL pointer

vars == <<resources, nodes, data, data_ma, dirty, thread, told, connected, subscribed,
          outbox, inbox, last, published, fault>>

db      == <<nodes, data, data_ma>>
network == <<connected, subscribed, outbox, inbox, last, published>>
-------------------------------------------------------------------------------
Threads == {"main", "mqtt"}

Content == Payloads \cup {NoData}

Deadlines == {"never", "later", "passed"}

Steps == {"idle", "publish", "add", "node", "rewrite", "astray", "unsubscribe", "free",
          "purge", "disconnect", "ended", "clone", "update", "mark", "notify", "read", "send",
          "reset", "done"}

(* topic, payload and ma are what the step is about.  In                   *)
(* coap_check_notify, now is the resource whose observers are notified,    *)
(* payload what they are about to be told, after the resource that the     *)
(* iteration has already fetched, and todo are the others.                 *)
ThreadStates == [at : Steps, topic : Topics \cup {NoTopic}, payload : Content,
                 ma : Deadlines, now : Topics \cup {NoTopic},
                 after : Topics \cup {NoTopic}, todo : SUBSET Topics]

Idle == [at |-> "idle", topic |-> NoTopic, payload |-> NoData, ma |-> "never",
         now |-> NoTopic, after |-> NoTopic, todo |-> {}]

MQTTMessages == [topic : Topics, payload : Payloads]

Faults == {"none", "freed_resource", "freed_message", "freed_data", "null"}

TypeOK ==
    /\ resources \subseteq Topics
    /\ nodes \subseteq Topics
    /\ data \in [Topics -> Content]
    /\ data_ma \in [Topics -> Deadlines]
    /\ dirty \subseteq resources
    /\ thread \in [Threads -> ThreadStates]
    /\ told \in [Topics -> Content]
    /\ connected \in BOOLEAN
    /\ subscribed \subseteq Topics
    /\ outbox \in Seq(MQTTMessages)
    /\ inbox \in Seq(MQTTMessages)
    /\ last \in [Topics -> Content]
    /\ published \in 0 .. MaxPublish
    /\ fault \in Faults

Init ==
    /\ resources = {}
    /\ nodes = {}
    /\ data = [t \in Topics |-> NoData]
    /\ data_ma = [t \in Topics |-> "never"]
    /\ dirty = {}
    /\ thread = [p \in Threads |-> Idle]
    /\ told = [t \in Topics |-> NoData]
    /\ connected = TRUE
    /\ subscribed = {}
    /\ outbox = <<>>
    /\ inbox = <<>>
    /\ last = [t \in Topics |-> NoData]
    /\ published = 0
    /\ fault = "none"
-------------------------------------------------------------------------------
(* A step of thread p at a place; after a fault there is no telling.       *)
At(p, step) == fault = "none" /\ thread[p].at = step

Goto(p, step) == thread' = [thread EXCEPT ![p].at = step]

Begin(p, step, t, v) ==
    thread' = [thread EXCEPT ![p] = [Idle EXCEPT !.at = step, !.topic = t, !.payload = v]]

End(p) == thread' = [thread EXCEPT ![p] = Idle]

Crash(f) ==
    /\ fault' = f
    /\ UNCHANGED <<resources, nodes, data, data_ma, dirty, thread, told>>
    /\ UNCHANGED network

SetTopic(t, v, ma) ==
    /\ data' = [data EXCEPT ![t] = v]
    /\ data_ma' = [data_ma EXCEPT ![t] = ma]
-------------------------------------------------------------------------------
(* MQTTClient_subscribe and MQTTClient_unsubscribe may fail, and fail when *)
(* the connection is lost; the broker does not look at the result.         *)
Called(topics) == IF connected THEN {topics, subscribed} ELSE {subscribed}

(* A POST of a new topic: subscribe, add the resource, add the node.       *)
Post(t) ==
    /\ At("main", "idle")
    /\ t \notin resources
    /\ subscribed' \in Called(subscribed \cup {t})
    /\ Begin("main", "add", t, NoData)
    /\ UNCHANGED <<resources, dirty, told, connected, outbox, inbox, last, published, fault>>
    /\ UNCHANGED db

(* New resources come last in the table: an iteration of the other thread  *)
(* that has not fetched the end will reach them.                           *)
AddResource ==
    LET t == thread["main"].topic
    IN  /\ At("main", "add")
        /\ resources' = resources \cup {t}
        /\ thread' = [thread EXCEPT !["main"].at = "node",
                          !["mqtt"].todo = IF thread["mqtt"].after = NoTopic THEN @ ELSE @ \cup {t}]
        /\ UNCHANGED <<dirty, told, fault>> /\ UNCHANGED db /\ UNCHANGED network

(* Without memory addTopic adds nothing, and its result is not looked at.  *)
AddNode ==
    LET t == thread["main"].topic
    IN  /\ At("main", "node")
        /\ \/ nodes' = nodes \cup {t} /\ SetTopic(t, NoData, "never")
           \/ UNCHANGED db
        /\ End("main")
        /\ UNCHANGED <<resources, dirty, told, fault>> /\ UNCHANGED network

(* A POST of a topic that there is gives it a new lifetime.  For that      *)
(* updateTopicInfo reads the data and their deadline, without a lock, and  *)
(* has setTopic write them back.  If msgarrvd stores a payload in between, *)
(* setTopic copies from freed memory, or a payload up to the length of     *)
(* another; but a NULL pointer is written back as it was read.             *)
PostAgain(t) ==
    /\ At("main", "idle")
    /\ t \in resources \cap nodes
    /\ thread' = [thread EXCEPT !["main"] =
                     [Idle EXCEPT !.at = "rewrite", !.topic = t,
                                  !.payload = data[t], !.ma = data_ma[t]]]
    /\ UNCHANGED <<resources, dirty, told, fault>> /\ UNCHANGED db /\ UNCHANGED network

Rewrite ==
    /\ At("main", "rewrite")
    /\ SetTopic(thread["main"].topic, thread["main"].payload, thread["main"].ma)
    /\ End("main")
    /\ UNCHANGED <<resources, nodes, dirty, told, fault>> /\ UNCHANGED network

RewriteAstray ==
    /\ At("main", "astray")
    /\ \/ Crash("freed_data")
       \/ /\ \E v \in Payloads, ma \in {thread["main"].ma, "never"} :
                 SetTopic(thread["main"].topic, v, ma)
          /\ End("main")
          /\ UNCHANGED <<resources, nodes, dirty, told, fault>> /\ UNCHANGED network

(* A DELETE, or a topic that topicMAMonitor finds expired: delete the      *)
(* node, unsubscribe, take the resource out of the table and free it.      *)
Delete(t) ==
    /\ At("main", "idle")
    /\ t \in resources
    /\ nodes' = nodes \ {t}
    /\ SetTopic(t, NoData, "never")
    /\ Begin("main", "unsubscribe", t, NoData)
    /\ UNCHANGED <<resources, dirty, told, fault>> /\ UNCHANGED network

Unsubscribe ==
    /\ At("main", "unsubscribe")
    /\ subscribed' \in Called(subscribed \ {thread["main"].topic})
    /\ Goto("main", "free")
    /\ UNCHANGED <<resources, dirty, told, connected, outbox, inbox, last, published, fault>>
    /\ UNCHANGED db

(* A variant of FreeResource that leaves the flag set.                     *)
FreeResourceKeepFlag ==
    LET t == thread["main"].topic
    IN  /\ At("main", "free")
        /\ resources' = resources \ {t}
        /\ told' = [told EXCEPT ![t] = NoData]
        /\ thread' = [thread EXCEPT !["main"] = Idle, !["mqtt"].todo = @ \ {t}]
        /\ UNCHANGED <<dirty, fault>> /\ UNCHANGED db /\ UNCHANGED network

(* The observers go with it.  The other thread keeps a pointer to it if it *)
(* has fetched it.                                                         *)
FreeResource ==
    LET t == thread["main"].topic
    IN  /\ At("main", "free")
        /\ resources' = resources \ {t}
        /\ dirty' = dirty \ {t}
        /\ told' = [told EXCEPT ![t] = NoData]
        /\ thread' = [thread EXCEPT !["main"] = Idle, !["mqtt"].todo = @ \ {t}]
        /\ UNCHANGED fault /\ UNCHANGED db /\ UNCHANGED network

(* A PUT with or without Max-Age: store, publish, notify.                  *)
Put(t, v, ma) ==
    /\ At("main", "idle")
    /\ t \in resources \cap nodes
    /\ published < MaxPublish
    /\ SetTopic(t, v, ma)
    /\ Begin("main", "publish", t, v)
    /\ published' = published + 1
    /\ UNCHANGED <<resources, nodes, dirty, told, connected, subscribed, outbox, inbox, last,
                   fault>>

(* Nor does it look at the result of MQTTClient_publishMessage, which may  *)
(* fail as well.                                                           *)
Publish ==
    LET m == [topic |-> thread["main"].topic, payload |-> thread["main"].payload]
    IN  /\ At("main", "publish")
        /\ outbox' \in IF connected THEN {Append(outbox, m), outbox} ELSE {outbox}
        /\ Goto("main", "mark")
        /\ UNCHANGED <<resources, dirty, told, connected, subscribed, inbox, last, published,
                       fault>>
        /\ UNCHANGED db

(* A variant of DataExpired that purges data before its time.              *)
DataExpiredEarly(t) == t \in nodes /\ data_ma[t] # "never"

DataExpired(t) == t \in nodes /\ data_ma[t] = "passed"

(* topicDataMAMonitor looks at a node, releases its locks, and then        *)
(* deletes the data without looking again.                                 *)
MonitorLooks(t) ==
    /\ At("main", "idle")
    /\ DataExpired(t)
    /\ Begin("main", "purge", t, NoData)
    /\ UNCHANGED <<resources, dirty, told, fault>> /\ UNCHANGED db /\ UNCHANGED network

DeleteTopicData ==
    /\ At("main", "purge")
    /\ SetTopic(thread["main"].topic, NoData, "never")
    /\ End("main")
    /\ UNCHANGED <<resources, nodes, dirty, told, fault>> /\ UNCHANGED network

(* The end of main, when quit is set, and handleSIGINT.  They first delete *)
(* every topic as Delete does, then free the context, and then disconnect: *)
(* until then msgarrvd may still be called.                                *)
FreeContext ==
    /\ At("main", "idle")
    /\ resources = {}
    /\ Begin("main", "disconnect", NoTopic, NoData)
    /\ UNCHANGED <<resources, dirty, told, fault>> /\ UNCHANGED db /\ UNCHANGED network

Disconnect ==
    /\ At("main", "disconnect")
    /\ thread["mqtt"].at = "idle"
    /\ Goto("main", "ended")
    /\ connected' = FALSE
    /\ subscribed' = {} /\ outbox' = <<>> /\ inbox' = <<>>
    /\ UNCHANGED <<resources, dirty, told, last, published, fault>> /\ UNCHANGED db
-------------------------------------------------------------------------------
(* msgarrvd looks for the resource of the message's topic.  If there is    *)
(* none it frees the message and returns 0, and the library will call it   *)
(* with the freed message again.                                           *)
Receive ==
    /\ At("mqtt", "idle")
    /\ inbox # <<>>
    /\ LET m == Head(inbox)
       IN  IF thread["main"].at = "disconnect" THEN Crash("freed_resource")
           ELSE IF m.topic \in resources
           THEN /\ Begin("mqtt", "clone", m.topic, m.payload)
                /\ UNCHANGED <<resources, dirty, told, fault>>
                /\ UNCHANGED db /\ UNCHANGED network
           ELSE Crash("freed_message")

(* A variant of Differs that takes any data for good.                      *)
DiffersFromNothing(stored, payload) == stored = NoData

(* compareString(temp_data->data, temp_payload), which says that NULL is   *)
(* different from every payload.                                           *)
Differs(stored, payload) == stored # payload

(* It clones the topic by the URI of the resource and compares the data.   *)
(* The clone is NULL if there is no node or no memory for it, and is not   *)
(* tested.                                                                 *)
Clone ==
    LET t == thread["mqtt"].topic
    IN  /\ At("mqtt", "clone")
        /\ IF t \notin resources THEN Crash("freed_resource")
           ELSE \/ Crash("null")
                \/ /\ t \in nodes
                   /\ Goto("mqtt", IF Differs(data[t], thread["mqtt"].payload)
                                   THEN "update" ELSE "done")
                   /\ UNCHANGED <<resources, dirty, told, fault>>
                   /\ UNCHANGED db /\ UNCHANGED network

(* msgarrvd goes on to a step; if it has freed the data that a POST has    *)
(* read, main has their address.                                           *)
Replaced(step) ==
    LET main == thread["main"]
    IN  thread' = [thread EXCEPT
            !["mqtt"].at = step,
            !["main"].at = IF /\ main.at = "rewrite" /\ main.payload # NoData
                              /\ main.topic = thread["mqtt"].topic
                           THEN "astray" ELSE @]

(* A variant of Update that leaves the flag as it is.                      *)
UpdateSilent ==
    LET t == thread["mqtt"].topic
    IN  /\ At("mqtt", "update")
        /\ IF t \in nodes THEN SetTopic(t, thread["mqtt"].payload, "never")
           ELSE UNCHANGED <<data, data_ma>>
        /\ Replaced("done")
        /\ UNCHANGED <<resources, nodes, dirty, told, fault>> /\ UNCHANGED network

(* It stores what has changed, with no lifetime.  Nothing happens if the   *)
(* node has gone.                                                          *)
Update ==
    LET t == thread["mqtt"].topic
    IN  /\ At("mqtt", "update")
        /\ IF t \in nodes THEN SetTopic(t, thread["mqtt"].payload, "never")
           ELSE UNCHANGED <<data, data_ma>>
        /\ Replaced("mark")
        /\ UNCHANGED <<resources, nodes, dirty, told, fault>> /\ UNCHANGED network

(* It returns 1, and the library drops the message.                        *)
Return ==
    /\ At("mqtt", "done")
    /\ inbox' = Tail(inbox)
    /\ End("mqtt")
    /\ UNCHANGED <<resources, dirty, told, connected, subscribed, outbox, last, published, fault>>
    /\ UNCHANGED db
-------------------------------------------------------------------------------
(* Both threads: r->dirty = 1; coap_check_notify(ctx).  The iteration goes *)
(* over the table, whose order is left open, one resource ahead.           *)
Iterate(p, step, now, after, todo) ==
    thread' = [thread EXCEPT ![p] = [Idle EXCEPT !.at = step, !.now = now,
                                                 !.after = after, !.todo = todo]]

Fetch(todo) == IF todo = {} THEN {NoTopic} ELSE todo

MarkDirty(p) ==
    LET t == thread[p].topic
    IN  /\ At(p, "mark")
        /\ IF t \notin resources THEN Crash("freed_resource")
           ELSE /\ dirty' = dirty \cup {t}
                /\ \E r \in resources : Iterate(p, "notify", NoTopic, r, resources \ {r})
                /\ UNCHANGED <<resources, told, fault>>
                /\ UNCHANGED db /\ UNCHANGED network

(* coap_notify_observers tests the flag.                                   *)
TestFlag(p) ==
    LET r == thread[p].after
    IN  /\ At(p, "notify")
        /\ r # NoTopic
        /\ IF r \notin resources THEN Crash("freed_resource")
           ELSE /\ \E next \in Fetch(thread[p].todo) :
                       Iterate(p, IF r \in dirty THEN "read" ELSE "reset",
                               r, next, thread[p].todo \ {next})
                /\ UNCHANGED <<resources, dirty, told, fault>>
                /\ UNCHANGED db /\ UNCHANGED network

(* What a GET answers: nothing if the data have expired.                   *)
Answer(t) == IF t \in nodes /\ data_ma[t] # "passed" THEN data[t] ELSE NoData

(* The GET handler fills the notification, ...                             *)
Fill(p) ==
    LET r == thread[p].now
    IN  /\ At(p, "read")
        /\ IF r \notin resources THEN Crash("freed_resource")
           ELSE /\ thread' = [thread EXCEPT ![p].at = "send", ![p].payload = Answer(r)]
                /\ UNCHANGED <<resources, dirty, told, fault>>
                /\ UNCHANGED db /\ UNCHANGED network

(* ... which is then sent.                                                 *)
Send(p) ==
    LET r == thread[p].now
    IN  /\ At(p, "send")
        /\ IF r \notin resources THEN Crash("freed_resource")
           ELSE /\ told' = [told EXCEPT ![r] = thread[p].payload]
                /\ Goto(p, "reset")
                /\ UNCHANGED <<resources, dirty, fault>>
                /\ UNCHANGED db /\ UNCHANGED network

(* It ends with r->dirty = 0, also if the flag was not set.                *)
ResetDirty(p) ==
    LET r == thread[p].now
    IN  /\ At(p, "reset")
        /\ IF r \notin resources THEN Crash("freed_resource")
           ELSE /\ dirty' = dirty \ {r}
                /\ Iterate(p, "notify", NoTopic, thread[p].after, thread[p].todo)
                /\ UNCHANGED <<resources, told, fault>>
                /\ UNCHANGED db /\ UNCHANGED network

Notified(p) ==
    /\ At(p, "notify")
    /\ thread[p].after = NoTopic
    /\ thread' = [thread EXCEPT ![p] = IF p = "main" THEN Idle
                                       ELSE [Idle EXCEPT !.at = "done"]]
    /\ UNCHANGED <<resources, dirty, told, fault>> /\ UNCHANGED db /\ UNCHANGED network
-------------------------------------------------------------------------------
(* The MQTT server takes what the broker has published.                    *)
Arrive(m) ==
    /\ inbox' = IF m.topic \in subscribed THEN Append(inbox, m) ELSE inbox
    /\ last' = IF m.topic \in subscribed THEN [last EXCEPT ![m.topic] = m.payload] ELSE last

Environment ==
    /\ fault = "none"
    /\ UNCHANGED <<resources, nodes, data, dirty, told, fault>>

ServerTakes ==
    /\ Environment
    /\ connected
    /\ outbox # <<>>
    /\ Arrive(Head(outbox))
    /\ outbox' = Tail(outbox)
    /\ UNCHANGED <<data_ma, thread, connected, subscribed, published>>

(* Another client of the MQTT server publishes.                            *)
RemotePublish(m) ==
    /\ Environment
    /\ connected
    /\ published < MaxPublish
    /\ m.topic \in subscribed
    /\ Arrive(m)
    /\ published' = published + 1
    /\ UNCHANGED <<data_ma, thread, connected, subscribed, outbox>>

(* The connection is lost: what has not arrived never will.  connlost only *)
(* logs, so the broker stays unconnected.                                  *)
LoseConnection ==
    /\ Environment
    /\ connected
    /\ connected' = FALSE
    /\ subscribed' = {}
    /\ outbox' = <<>>
    /\ \E n \in 0 .. Len(inbox) :
           /\ thread["mqtt"].at # "idle" => n > 0
           /\ inbox' = SubSeq(inbox, 1, n)
    /\ UNCHANGED <<data_ma, thread, last, published>>

Past(ma) == IF ma = "later" THEN "passed" ELSE ma

(* Time passes the deadline of a topic's data, also where a POST has read  *)
(* it and msgarrvd has since replaced it.                                  *)
Lapse(t) ==
    LET held == thread["main"].topic = t /\ thread["main"].ma = "later"
    IN  /\ Environment
        /\ data_ma[t] = "later" \/ held
        /\ data_ma' = [data_ma EXCEPT ![t] = Past(@)]
        /\ thread' = [thread EXCEPT !["main"].ma = IF held THEN "passed" ELSE @]
        /\ UNCHANGED network

Main ==
    \/ \E t \in Topics : Post(t) \/ PostAgain(t) \/ Delete(t) \/ MonitorLooks(t)
    \/ \E t \in Topics, v \in Payloads, ma \in {"never", "later"} : Put(t, v, ma)
    \/ AddResource \/ AddNode \/ Rewrite \/ RewriteAstray \/ Unsubscribe \/ FreeResource
    \/ Publish \/ DeleteTopicData \/ FreeContext \/ Disconnect

MQTT == Receive \/ Clone \/ Update \/ Return

CheckNotify(p) ==
    MarkDirty(p) \/ TestFlag(p) \/ Fill(p) \/ Send(p) \/ ResetDirty(p) \/ Notified(p)

World ==
    \/ ServerTakes \/ LoseConnection
    \/ \E m \in MQTTMessages : RemotePublish(m)
    \/ \E t \in Topics : Lapse(t)

Next == Main \/ MQTT \/ World \/ \E p \in Threads : CheckNotify(p)

Spec == Init /\ [][Next]_vars
-------------------------------------------------------------------------------
Quiet ==
    /\ fault = "none"
    /\ \A p \in Threads : thread[p].at = "idle"
    /\ outbox = <<>> /\ inbox = <<>>

(* A message on t has still to be sent, or to be handled by msgarrvd.      *)
Pending(t) ==
    \/ thread["main"].at = "publish" /\ thread["main"].topic = t
    \/ \E i \in DOMAIN outbox : outbox[i].topic = t
    \/ \E i \in DOMAIN inbox :
          inbox[i].topic = t /\ (i > 1 \/ thread["mqtt"].at \in {"idle", "clone", "update"})

(* The broker has the value of t that the MQTT server sent last, or none,  *)
(* or a message will still tell it, or the server.                         *)
Together(t) == data[t] \in {last[t], NoData} \/ Pending(t)

(* A PUT is not published.                                                 *)
PublishFails(t) ==
    /\ thread["main"].at = "publish" /\ thread["main"].topic = t
    /\ thread'["main"].at = "mark" /\ outbox' = outbox

(* A POST writes data back that msgarrvd has replaced.                     *)
WritesAstray(t) ==
    /\ thread["main"].at = "astray" /\ thread["main"].topic = t
    /\ thread'["main"].at = "idle"

(* While the connection lasts, a subscribed topic's values at the broker   *)
(* and at the MQTT server come apart in two ways only.  Late echoes,       *)
(* compares that race with a PUT, the monitor and a POST that reads NULL   *)
(* do not do it (msgarrvd, coap-broker.c:1192-1220).                       *)
OnlyTheseDivide ==
    [][\A t \in nodes \cap nodes' \cap subscribed' :
          connected' /\ Together(t) /\ ~ Together(t)' => PublishFails(t) \/ WritesAstray(t)]_vars

(* The monitor never deletes data whose deadline is in the future, though  *)
(* it looks and deletes under separate locks (coap-broker.c:1060-1063).    *)
PurgeSparesTheLiving ==
    [][\A t \in nodes \cap nodes' :
          data[t] # NoData /\ data'[t] = NoData => data_ma[t] # "later"]_vars

(* resource.h:76: dirty is "set to 1 if resource has changed", so a        *)
(* change that no observer has been told of shows in the flag, unless it   *)
(* has expired.                                                            *)
ChangeToldOrDirty ==
    Quiet => \A t \in resources : Answer(t) \in {told[t], NoData} \/ t \in dirty

(* Thread p has answered the observers of t for itself, and has yet to     *)
(* send that, or to reset the flag.                                        *)
PastReading(p, t) == thread[p].at \in {"send", "reset"} /\ thread[p].now = t

(* It is about to send something else than the data.                       *)
HoldsOld(p, t) ==
    thread[p].at = "send" /\ thread[p].now = t /\ thread[p].payload # data[t]

(* The observers of t know its data or will, if it has any to tell: a      *)
(* thread has changed it and will set the flag; or the flag is set, and    *)
(* nobody will reset it without reading; or they have been told, or are    *)
(* about to be, and nobody is about to send something older.               *)
Covered(t) ==
    \/ data[t] = NoData \/ data_ma[t] = "passed"
    \/ \E p \in Threads : thread[p].at \in {"publish", "mark"} /\ thread[p].topic = t
    \/ t \in dirty /\ ~ \E p \in Threads : PastReading(p, t)
    \/ /\ \/ told[t] = data[t]
          \/ \E p \in Threads : thread[p].at \in {"read", "send"} /\ thread[p].now = t
       /\ ~ \E p \in Threads : HoldsOld(p, t)

(* A thread sets the flag of a resource while the other one is between     *)
(* reading its content and resetting its flag: the other may then send     *)
(* older content last, or take the flag away before it is tested.          *)
FlagSetBeforeReset(t) ==
    \E p, q \in Threads :
        /\ thread[p].at = "mark" /\ thread[p].topic = t /\ thread'[p].at = "notify"
        /\ PastReading(q, t)

(* ChangeToldOrDirty fails in two ways only: by that race, and by a POST   *)
(* that changes the data and sets no flag.  No other step of coap_notify,  *)
(* the handlers, msgarrvd or the clean-up loses a notification             *)
(* (resource.c:632-685, coap-broker.c:510-521 and 1204-1206).              *)
OnlyTheseLose ==
    [][\A t \in nodes \cap nodes' :
          Covered(t) /\ ~ Covered(t)' => FlagSetBeforeReset(t) \/ WritesAstray(t)]_vars
==============================================================================
