--------------------------- MODULE MqttBridgeProofs ---------------------------
(***************************************************************************)
(* Proofs about MqttBridge: the types, the only ways in which the values   *)
(* of the broker and of the MQTT server come apart, that the data monitor  *)
(* deletes no data whose deadline is in the future, and the only ways in   *)
(* which a notification is lost.                                           *)
(***************************************************************************)
EXTENDS MqttBridge, SequenceTheorems, TLAPS

main == thread["main"]
mqtt == thread["mqtt"]

Notifying == {"mark", "notify", "read", "send", "reset"}

(* Where each thread may be, and what it holds there.  The message that    *)
(* msgarrvd handles is the head of the inbox.                              *)
Places ==
    /\ main.at \in {"idle", "publish", "add", "node", "rewrite", "astray", "unsubscribe",
                    "free", "purge", "disconnect", "ended"} \cup Notifying
    /\ mqtt.at \in {"idle", "clone", "update", "done"} \cup Notifying
    /\ main.at \in {"publish", "add", "node", "rewrite", "astray", "unsubscribe", "free",
                    "purge", "mark"} => main.topic \in Topics
    /\ main.at = "publish" => main.payload \in Payloads
    /\ mqtt.at \in {"clone", "update", "mark"} => mqtt.topic \in Topics
    /\ mqtt.at # "idle" => inbox # <<>>
    /\ mqtt.at \in {"clone", "update"} =>
          mqtt.payload \in Payloads /\
          Head(inbox) = [topic |-> mqtt.topic, payload |-> mqtt.payload]

(* A topic is created as resource first and deleted as node first; what    *)
(* the monitor is about to purge has no deadline ahead, nor has a NULL     *)
(* pointer; and what a POST is about to write back is what is there, or a  *)
(* NULL pointer that msgarrvd has replaced.                                *)
MainHolds ==
    /\ nodes \subseteq resources
    /\ main.at = "add" => main.topic \notin resources
    /\ main.at = "node" => main.topic \in resources
    /\ main.at \in {"node", "unsubscribe", "free"} => main.topic \notin nodes
    /\ main.at = "purge" => data_ma[main.topic] # "later"
    /\ \A t \in Topics : data[t] = NoData => data_ma[t] # "later"
    /\ main.at = "rewrite" =>
          IF main.payload = NoData
          THEN data_ma[main.topic] # "later" /\ main.ma # "later"
          ELSE data[main.topic] = main.payload /\ data_ma[main.topic] = main.ma

(* last has the payload of the newest message on its topic.                *)
InboxEndsInLast ==
    connected =>
        \A i \in DOMAIN inbox :
            (\A j \in DOMAIN inbox : j > i => inbox[j].topic # inbox[i].topic) =>
                last[inbox[i].topic] = inbox[i].payload

(* Together, for the topics in U.                                          *)
AgreesOrPending(U) ==
    connected =>
        \A t \in nodes \cap subscribed \cap U : data[t] \in {last[t], NoData} \/ Pending(t)

IInv(U) == TypeOK /\ Places /\ MainHolds /\ InboxEndsInLast /\ AgreesOrPending(U)
-------------------------------------------------------------------------------
USE DEF main, mqtt

(* What the ways to move a thread do: the thread stands at step and has    *)
(* what it was given or held, the other one stays where it is.             *)
LEMMA BeginMoves ==
    ASSUME TypeOK, NEW p \in Threads, NEW step \in Steps,
           NEW t \in Topics \cup {NoTopic}, NEW v \in Content, Begin(p, step, t, v)
    PROVE  /\ thread' \in [Threads -> ThreadStates]
           /\ thread'[p].at = step /\ thread'[p].topic = t /\ thread'[p].payload = v
           /\ \A q \in Threads : q # p => thread'[q] = thread[q]
<1> DEFINE s == [Idle EXCEPT !.at = step, !.topic = t, !.payload = v]
<1>1. s \in ThreadStates
  BY DEF ThreadStates, Idle, Deadlines
<1>2. thread \in [Threads -> ThreadStates] /\ thread' = [thread EXCEPT ![p] = s]
  BY DEF TypeOK, Begin
<1>3. s.at = step /\ s.topic = t /\ s.payload = v
  BY DEF Idle
<1> HIDE DEF s
<1> QED
  BY <1>1, <1>2, <1>3

LEMMA GotoMoves ==
    ASSUME TypeOK, NEW p \in Threads, NEW step \in Steps, Goto(p, step)
    PROVE  /\ thread' \in [Threads -> ThreadStates]
           /\ thread'[p].at = step /\ thread'[p].topic = thread[p].topic
           /\ thread'[p].payload = thread[p].payload /\ thread'[p].now = thread[p].now
           /\ \A q \in Threads : q # p => thread'[q] = thread[q]
<1> DEFINE s == [thread[p] EXCEPT !.at = step]
<1>1. thread \in [Threads -> ThreadStates] /\ thread[p] \in ThreadStates
  BY DEF TypeOK
<1>2. s \in ThreadStates
  BY <1>1 DEF ThreadStates
<1>3. s.at = step /\ s.topic = thread[p].topic /\ s.payload = thread[p].payload
      /\ s.now = thread[p].now
  BY <1>1 DEF ThreadStates
<1>4. thread' = [thread EXCEPT ![p] = s]
  BY DEF Goto
<1> HIDE DEF s
<1> QED
  BY <1>1, <1>2, <1>3, <1>4

LEMMA IdleState ==
    /\ Idle \in ThreadStates /\ Idle.at = "idle"
BY DEF Idle, ThreadStates, Steps, Content, Deadlines

LEMMA EndMoves ==
    ASSUME TypeOK, NEW p \in Threads, End(p)
    PROVE  /\ thread' \in [Threads -> ThreadStates]
           /\ thread'[p].at = "idle"
           /\ \A q \in Threads : q # p => thread'[q] = thread[q]
BY IdleState DEF TypeOK, End

LEMMA IterateMoves ==
    ASSUME TypeOK, NEW p \in Threads, NEW step \in Steps,
           NEW now \in Topics \cup {NoTopic},
           NEW after \in Topics \cup {NoTopic}, NEW todo \in SUBSET Topics,
           Iterate(p, step, now, after, todo)
    PROVE  /\ thread' \in [Threads -> ThreadStates]
           /\ thread'[p].at = step /\ thread'[p].now = now
           /\ \A q \in Threads : q # p => thread'[q] = thread[q]
<1> DEFINE s == [Idle EXCEPT !.at = step, !.now = now, !.after = after, !.todo = todo]
<1>1. thread \in [Threads -> ThreadStates]
  BY DEF TypeOK
<1>2. s \in ThreadStates /\ s.at = step /\ s.now = now
  BY DEF ThreadStates, Idle, Content, Deadlines
<1>3. thread' = [thread EXCEPT ![p] = s]
  BY DEF Iterate
<1> HIDE DEF s
<1> QED
  BY <1>1, <1>2, <1>3

LEMMA TwoThreads == "main" \in Threads /\ "mqtt" \in Threads /\ "main" # "mqtt"
BY DEF Threads

(* A step that neither moves a message nor gives a topic other data than   *)
(* none leaves what is pending pending.                                    *)
LEMMA MessagesStay ==
    ASSUME NEW U, IInv(U), UNCHANGED <<connected, outbox, inbox, last>>,
           main.at = "publish" => main'.at = "publish" /\ main'.topic = main.topic,
           mqtt.at \in {"idle", "clone", "update"} => mqtt'.at \in {"idle", "clone", "update"},
           \A t \in nodes' \cap subscribed' \cap U :
               data'[t] = NoData \/ (t \in nodes \cap subscribed \cap U /\ data'[t] = data[t])
    PROVE  InboxEndsInLast' /\ AgreesOrPending(U)'
<1>1. InboxEndsInLast /\ AgreesOrPending(U)
  BY DEF IInv
<1>2. \A t : Pending(t) => Pending(t)'
  BY DEF Pending
<1> QED
  BY <1>1, <1>2 DEF InboxEndsInLast, AgreesOrPending

(* A fault stops the world: only fault changes.                            *)
LEMMA CrashOK ==
    ASSUME NEW U, IInv(U), NEW f \in Faults, Crash(f)
    PROVE  IInv(U)'
BY DEF IInv, Crash, TypeOK, Places, MainHolds, InboxEndsInLast, AgreesOrPending, Pending,
       network
-------------------------------------------------------------------------------
(* The main thread's steps, one for each call that another thread can see. *)
LEMMA PostOK ==
    ASSUME NEW U, IInv(U), NEW t \in Topics, Post(t)
    PROVE  IInv(U)'
<1>1. TypeOK /\ Places /\ MainHolds
  BY DEF IInv
<1>2. /\ Begin("main", "add", t, NoData) /\ t \notin resources /\ main.at = "idle"
      /\ UNCHANGED <<resources, nodes, data, data_ma, dirty, told, connected, outbox, inbox,
                     last, published, fault>>
  BY DEF Post, At, db
<1>3. subscribed' \subseteq subscribed \cup {t}
  BY DEF Post, Called
<1>4. /\ thread' \in [Threads -> ThreadStates] /\ main'.at = "add" /\ main'.topic = t
      /\ mqtt' = mqtt
  <2>1. "add" \in Steps /\ NoData \in Content
    BY DEF Steps, Content
  <2> QED
    BY <1>1, <1>2, <2>1, BeginMoves, TwoThreads
<1>5. TypeOK'
  BY <1>1, <1>2, <1>3, <1>4 DEF TypeOK
<1>6. Places'
  BY <1>1, <1>2, <1>4 DEF Places
<1>7. MainHolds'
  BY <1>1, <1>2, <1>4 DEF MainHolds
<1>8. InboxEndsInLast' /\ AgreesOrPending(U)'
  <2>1. t \notin nodes
    BY <1>1, <1>2 DEF MainHolds
  <2> QED
    BY <1>2, <1>3, <1>4, <2>1, MessagesStay
<1> QED
  BY <1>5, <1>6, <1>7, <1>8 DEF IInv

(* AddResource and FreeResource also change what the other thread has      *)
(* still to visit.                                                         *)
LEMMA BothMove ==
    ASSUME TypeOK, NEW s \in ThreadStates, NEW todo \in SUBSET Topics,
           thread' = [thread EXCEPT !["main"] = s, !["mqtt"].todo = todo]
    PROVE  /\ thread' \in [Threads -> ThreadStates]
           /\ main' = s
           /\ mqtt'.at = mqtt.at /\ mqtt'.topic = mqtt.topic /\ mqtt'.payload = mqtt.payload
           /\ mqtt'.now = mqtt.now
<1> DEFINE m == [thread["mqtt"] EXCEPT !.todo = todo]
           f == [thread EXCEPT !["main"] = s]
<1>1. thread \in [Threads -> ThreadStates] /\ thread["mqtt"] \in ThreadStates
  BY TwoThreads DEF TypeOK
<1>2. m \in ThreadStates
  BY <1>1 DEF ThreadStates
<1>3. m.at = mqtt.at /\ m.topic = mqtt.topic /\ m.payload = mqtt.payload /\ m.now = mqtt.now
  BY <1>1 DEF ThreadStates
<1>4. f \in [Threads -> ThreadStates] /\ f["mqtt"] = thread["mqtt"] /\ f["main"] = s
  BY <1>1, TwoThreads
<1>5. thread' = [f EXCEPT !["mqtt"].todo = todo]
  BY Zenon
<1>6. thread' = [f EXCEPT !["mqtt"] = m]
  BY <1>4, <1>5
<1> HIDE DEF m, f
<1> QED
  BY <1>2, <1>3, <1>4, <1>6, TwoThreads

LEMMA AddResourceOK ==
    ASSUME NEW U, IInv(U), AddResource
    PROVE  IInv(U)'
<1> DEFINE t == main.topic
           s == [main EXCEPT !.at = "node"]
           todo == IF mqtt.after = NoTopic THEN mqtt.todo ELSE mqtt.todo \cup {t}
<1>1. TypeOK /\ Places /\ MainHolds
  BY DEF IInv
<1>2. /\ main.at = "add" /\ resources' = resources \cup {t}
      /\ UNCHANGED <<nodes, data, data_ma, dirty, told, connected, subscribed, outbox,
                     inbox, last, published, fault>>
  BY DEF AddResource, At, db, network
<1>3. main \in ThreadStates /\ mqtt \in ThreadStates /\ t \in Topics
  BY <1>1, <1>2, TwoThreads DEF TypeOK, Places
<1>4. s \in ThreadStates /\ s.at = "node" /\ s.topic = t
  BY <1>3 DEF ThreadStates, Steps
<1>5. todo \in SUBSET Topics
  BY <1>3 DEF ThreadStates
<1>6. thread' = [thread EXCEPT !["main"] = s, !["mqtt"].todo = todo]
  BY Zenon DEF AddResource
<1> HIDE DEF s, todo
<1>7. /\ thread' \in [Threads -> ThreadStates]
      /\ main' = s
      /\ mqtt'.at = mqtt.at /\ mqtt'.topic = mqtt.topic /\ mqtt'.payload = mqtt.payload
  BY <1>1, <1>4, <1>5, <1>6, BothMove
<1>8. TypeOK'
  BY <1>1, <1>2, <1>3, <1>7 DEF TypeOK, Content
<1>9. Places'
  BY <1>1, <1>2, <1>3, <1>4, <1>7 DEF Places
<1>10. MainHolds'
  BY <1>1, <1>2, <1>3, <1>4, <1>7 DEF MainHolds
<1>11. InboxEndsInLast' /\ AgreesOrPending(U)'
  BY <1>2, <1>4, <1>7, MessagesStay
<1> QED
  BY <1>8, <1>9, <1>10, <1>11 DEF IInv

LEMMA AddNodeOK ==
    ASSUME NEW U, IInv(U), AddNode
    PROVE  IInv(U)'
<1> DEFINE t == main.topic
<1>1. TypeOK /\ Places /\ MainHolds
  BY DEF IInv
<1>2. /\ main.at = "node" /\ End("main")
      /\ \/ /\ nodes' = nodes \cup {t}
            /\ data' = [data EXCEPT ![t] = NoData]
            /\ data_ma' = [data_ma EXCEPT ![t] = "never"]
         \/ UNCHANGED <<nodes, data, data_ma>>
      /\ UNCHANGED <<resources, dirty, told, connected, subscribed, outbox, inbox,
                     last, published, fault>>
  BY DEF AddNode, At, db, network, SetTopic
<1>3. t \in Topics /\ t \in resources /\ t \notin nodes
  BY <1>1, <1>2 DEF Places, MainHolds
<1>4. thread' \in [Threads -> ThreadStates] /\ main'.at = "idle" /\ mqtt' = mqtt
  BY <1>1, <1>2, EndMoves, TwoThreads
<1>5. TypeOK'
  BY <1>1, <1>2, <1>3, <1>4 DEF TypeOK, Content, Deadlines
<1>6. Places'
  BY <1>1, <1>2, <1>4 DEF Places
<1>7. MainHolds'
  BY <1>1, <1>2, <1>3, <1>4 DEF MainHolds, TypeOK
<1>8. InboxEndsInLast' /\ AgreesOrPending(U)'
  <2>1. \A u \in nodes' \cap subscribed' \cap U :
            data'[u] = NoData \/ (u \in nodes \cap subscribed \cap U /\ data'[u] = data[u])
    BY <1>1, <1>2 DEF TypeOK
  <2> QED
    BY <1>2, <1>4, <2>1, MessagesStay
<1> QED
  BY <1>5, <1>6, <1>7, <1>8 DEF IInv

(* A POST of a topic that there is holds the data that it has read.        *)
LEMMA PostAgainOK ==
    ASSUME NEW U, IInv(U), NEW t \in Topics, PostAgain(t)
    PROVE  IInv(U)'
<1> DEFINE s == [Idle EXCEPT !.at = "rewrite", !.topic = t, !.payload = data[t],
                             !.ma = data_ma[t]]
<1>1. TypeOK /\ Places /\ MainHolds
  BY DEF IInv
<1>2. /\ main.at = "idle" /\ thread' = [thread EXCEPT !["main"] = s]
      /\ UNCHANGED <<resources, nodes, data, data_ma, dirty, told, connected, subscribed,
                     outbox, inbox, last, published, fault>>
  BY DEF PostAgain, At, db, network
<1>3. data[t] \in Content /\ data_ma[t] \in Deadlines
  BY <1>1 DEF TypeOK
<1>4. /\ s \in ThreadStates /\ s.at = "rewrite" /\ s.topic = t /\ s.payload = data[t]
      /\ s.ma = data_ma[t]
  BY <1>3 DEF ThreadStates, Idle, Steps
<1> HIDE DEF s
<1>5. thread' \in [Threads -> ThreadStates] /\ main' = s /\ mqtt' = mqtt
  BY <1>1, <1>2, <1>4, TwoThreads DEF TypeOK
<1>6. TypeOK'
  BY <1>1, <1>2, <1>5 DEF TypeOK
<1>7. Places'
  BY <1>1, <1>2, <1>4, <1>5 DEF Places
<1>8. MainHolds'
  BY <1>1, <1>2, <1>4, <1>5 DEF MainHolds
<1>9. InboxEndsInLast' /\ AgreesOrPending(U)'
  BY <1>2, <1>5, MessagesStay
<1> QED
  BY <1>6, <1>7, <1>8, <1>9 DEF IInv

LEMMA RewriteOK ==
    ASSUME NEW U, IInv(U), Rewrite
    PROVE  IInv(U)'
<1> DEFINE t == main.topic
<1>1. TypeOK /\ Places /\ MainHolds
  BY DEF IInv
<1>2. /\ main.at = "rewrite" /\ End("main")
      /\ data' = [data EXCEPT ![t] = main.payload]
      /\ data_ma' = [data_ma EXCEPT ![t] = main.ma]
      /\ UNCHANGED <<resources, nodes, dirty, told, connected, subscribed, outbox, inbox,
                     last, published, fault>>
  BY DEF Rewrite, At, network, SetTopic
<1>3. /\ thread' \in [Threads -> ThreadStates] /\ main'.at = "idle" /\ mqtt' = mqtt
      /\ main.payload \in Content /\ main.ma \in Deadlines
  BY <1>1, <1>2, EndMoves, TwoThreads DEF TypeOK, ThreadStates
<1>4. t \in Topics /\ (main.payload = NoData \/ data[t] = main.payload)
  BY <1>1, <1>2 DEF Places, MainHolds
<1>5. TypeOK'
  BY <1>1, <1>2, <1>3 DEF TypeOK
<1>6. Places'
  BY <1>1, <1>2, <1>3 DEF Places
<1>7. MainHolds'
  BY <1>1, <1>2, <1>3, <1>4 DEF MainHolds, TypeOK
<1>8. InboxEndsInLast' /\ AgreesOrPending(U)'
  <2>1. \A u \in nodes' \cap subscribed' \cap U :
            data'[u] = NoData \/ (u \in nodes \cap subscribed \cap U /\ data'[u] = data[u])
    BY <1>1, <1>2, <1>4 DEF TypeOK
  <2> QED
    BY <1>2, <1>3, <2>1, MessagesStay
<1> QED
  BY <1>5, <1>6, <1>7, <1>8 DEF IInv

(* If msgarrvd has replaced the data, there is no telling what is written. *)
LEMMA RewriteAstrayOK ==
    ASSUME NEW U, IInv(U), RewriteAstray, \A u \in U : ~ WritesAstray(u)
    PROVE  IInv(U)'
<1> DEFINE t == main.topic
<1>1. CASE Crash("freed_data")
  BY <1>1, CrashOK DEF Faults
<1>2. CASE ~ Crash("freed_data")
  <2>1. TypeOK /\ Places /\ MainHolds
    BY DEF IInv
  <2>2. /\ main.at = "astray" /\ End("main")
        /\ UNCHANGED <<resources, nodes, dirty, told, connected, subscribed, outbox, inbox,
                       last, published, fault>>
    BY <1>2 DEF RewriteAstray, At, network
  <2>3. PICK v \in Payloads, ma \in {main.ma, "never"} :
            data' = [data EXCEPT ![t] = v] /\ data_ma' = [data_ma EXCEPT ![t] = ma]
    BY <1>2 DEF RewriteAstray, SetTopic
  <2>4. /\ thread' \in [Threads -> ThreadStates] /\ main'.at = "idle" /\ mqtt' = mqtt
        /\ main.ma \in Deadlines /\ "never" \in Deadlines
    BY <2>1, <2>2, EndMoves, TwoThreads DEF TypeOK, ThreadStates, Deadlines
  <2>5. TypeOK'
    BY <2>1, <2>2, <2>3, <2>4 DEF TypeOK, Content
  <2>6. Places'
    BY <2>1, <2>2, <2>4 DEF Places
  <2>7. MainHolds'
    BY <2>1, <2>2, <2>3, <2>4, BridgeAssumption DEF MainHolds, TypeOK
  <2>8. InboxEndsInLast' /\ AgreesOrPending(U)'
    <3>1. t \notin U
      BY <2>2, <2>4 DEF WritesAstray
    <3>2. \A u \in nodes' \cap subscribed' \cap U :
              u \in nodes \cap subscribed \cap U /\ data'[u] = data[u]
      BY <2>1, <2>2, <2>3, <3>1 DEF TypeOK
    <3> QED
      BY <2>2, <2>4, <3>2, MessagesStay
  <2> QED
    BY <2>5, <2>6, <2>7, <2>8 DEF IInv
<1> QED
  BY <1>1, <1>2

LEMMA DeleteOK ==
    ASSUME NEW U, IInv(U), NEW t \in Topics, Delete(t)
    PROVE  IInv(U)'
<1>1. TypeOK /\ Places /\ MainHolds
  BY DEF IInv
<1>2. /\ Begin("main", "unsubscribe", t, NoData) /\ nodes' = nodes \ {t} /\ main.at = "idle"
      /\ data' = [data EXCEPT ![t] = NoData] /\ data_ma' = [data_ma EXCEPT ![t] = "never"]
      /\ UNCHANGED <<resources, dirty, told, connected, subscribed, outbox, inbox, last,
                     published, fault>>
  BY DEF Delete, At, network, SetTopic
<1>3. /\ thread' \in [Threads -> ThreadStates]
      /\ main'.at = "unsubscribe" /\ main'.topic = t /\ mqtt' = mqtt
  <2>1. "unsubscribe" \in Steps /\ NoData \in Content
    BY DEF Steps, Content
  <2> QED
    BY <1>1, <1>2, <2>1, BeginMoves, TwoThreads
<1>4. TypeOK'
  BY <1>1, <1>2, <1>3 DEF TypeOK, Content, Deadlines
<1>5. Places'
  BY <1>1, <1>2, <1>3 DEF Places
<1>6. MainHolds'
  BY <1>1, <1>2, <1>3 DEF MainHolds, TypeOK
<1>7. InboxEndsInLast' /\ AgreesOrPending(U)'
  <2>1. \A u \in nodes' \cap subscribed' \cap U :
            u \in nodes \cap subscribed \cap U /\ data'[u] = data[u]
    BY <1>1, <1>2 DEF TypeOK
  <2> QED
    BY <1>2, <1>3, <2>1, MessagesStay
<1> QED
  BY <1>4, <1>5, <1>6, <1>7 DEF IInv

LEMMA UnsubscribeOK ==
    ASSUME NEW U, IInv(U), Unsubscribe
    PROVE  IInv(U)'
<1>1. TypeOK /\ Places /\ MainHolds
  BY DEF IInv
<1>2. /\ main.at = "unsubscribe" /\ Goto("main", "free")
      /\ UNCHANGED <<resources, nodes, data, data_ma, dirty, told, connected, outbox, inbox,
                     last, published, fault>>
  BY DEF Unsubscribe, At, db
<1>3. subscribed' \subseteq subscribed
  BY DEF Unsubscribe, Called
<1>4. /\ thread' \in [Threads -> ThreadStates]
      /\ main'.at = "free" /\ main'.topic = main.topic /\ mqtt' = mqtt
  <2>1. "free" \in Steps
    BY DEF Steps
  <2> QED
    BY <1>1, <1>2, <2>1, GotoMoves, TwoThreads
<1>5. TypeOK'
  BY <1>1, <1>2, <1>3, <1>4 DEF TypeOK
<1>6. Places'
  BY <1>1, <1>2, <1>4 DEF Places
<1>7. MainHolds'
  BY <1>1, <1>2, <1>4 DEF MainHolds
<1>8. InboxEndsInLast' /\ AgreesOrPending(U)'
  BY <1>2, <1>3, <1>4, MessagesStay
<1> QED
  BY <1>5, <1>6, <1>7, <1>8 DEF IInv

LEMMA FreeResourceOK ==
    ASSUME NEW U, IInv(U), FreeResource
    PROVE  IInv(U)'
<1> DEFINE t == main.topic
           todo == mqtt.todo \ {t}
<1>1. TypeOK /\ Places /\ MainHolds
  BY DEF IInv
<1>2. /\ main.at = "free" /\ resources' = resources \ {t} /\ dirty' = dirty \ {t}
      /\ told' = [told EXCEPT ![t] = NoData]
      /\ UNCHANGED <<nodes, data, data_ma, connected, subscribed, outbox, inbox, last,
                     published, fault>>
  BY DEF FreeResource, At, db, network
<1>3. mqtt \in ThreadStates /\ t \in Topics /\ t \notin nodes
  BY <1>1, <1>2, TwoThreads DEF TypeOK, Places, MainHolds
<1>4. todo \in SUBSET Topics
  BY <1>3 DEF ThreadStates
<1>5. thread' = [thread EXCEPT !["main"] = Idle, !["mqtt"].todo = todo]
  BY Zenon DEF FreeResource
<1> HIDE DEF todo
<1>6. /\ thread' \in [Threads -> ThreadStates] /\ main'.at = "idle"
      /\ mqtt'.at = mqtt.at /\ mqtt'.topic = mqtt.topic /\ mqtt'.payload = mqtt.payload
  BY <1>1, <1>4, <1>5, BothMove, IdleState
<1>7. TypeOK'
  BY <1>1, <1>2, <1>6 DEF TypeOK, Content
<1>8. Places'
  BY <1>1, <1>2, <1>6 DEF Places
<1>9. MainHolds'
  BY <1>1, <1>2, <1>3, <1>6 DEF MainHolds
<1>10. InboxEndsInLast' /\ AgreesOrPending(U)'
  BY <1>2, <1>6, MessagesStay
<1> QED
  BY <1>7, <1>8, <1>9, <1>10 DEF IInv

(* A PUT's own message is pending until it has come back.                  *)
LEMMA PutOK ==
    ASSUME NEW U, IInv(U), NEW t \in Topics, NEW v \in Payloads, NEW ma \in {"never", "later"},
           Put(t, v, ma)
    PROVE  IInv(U)'
<1>1. TypeOK /\ Places /\ MainHolds /\ InboxEndsInLast /\ AgreesOrPending(U)
  BY DEF IInv
<1>2. /\ main.at = "idle" /\ Begin("main", "publish", t, v)
      /\ data' = [data EXCEPT ![t] = v] /\ data_ma' = [data_ma EXCEPT ![t] = ma]
      /\ published < MaxPublish /\ published' = published + 1
      /\ UNCHANGED <<resources, nodes, dirty, told, connected, subscribed, outbox, inbox,
                     last, fault>>
  BY DEF Put, At, SetTopic
<1>3. /\ thread' \in [Threads -> ThreadStates]
      /\ main'.at = "publish" /\ main'.topic = t /\ main'.payload = v /\ mqtt' = mqtt
  <2>1. "publish" \in Steps /\ v \in Content
    BY DEF Steps, Content
  <2> QED
    BY <1>1, <1>2, <2>1, BeginMoves, TwoThreads
<1>4. TypeOK'
  <2>1. published' \in 0 .. MaxPublish
    BY <1>1, <1>2, BridgeAssumption DEF TypeOK
  <2> QED
    BY <1>1, <1>2, <1>3, <2>1 DEF TypeOK, Content, Deadlines
<1>5. Places'
  BY <1>1, <1>2, <1>3 DEF Places
<1>6. MainHolds'
  BY <1>1, <1>2, <1>3, BridgeAssumption DEF MainHolds, TypeOK
<1>7. InboxEndsInLast'
  BY <1>1, <1>2 DEF InboxEndsInLast
<1>8. AgreesOrPending(U)'
  <2>1. SUFFICES ASSUME connected, NEW u \in nodes \cap subscribed \cap U
                 PROVE  data'[u] \in {last[u], NoData} \/ Pending(u)'
    BY <1>2 DEF AgreesOrPending
  <2>2. CASE u = t
    BY <1>3, <2>2 DEF Pending
  <2>3. CASE u # t
    <3>1. data'[u] = data[u]
      BY <1>1, <1>2, <2>3 DEF TypeOK
    <3>2. Pending(u) => Pending(u)'
      BY <1>2, <1>3 DEF Pending
    <3> QED
      BY <1>1, <2>1, <3>1, <3>2 DEF AgreesOrPending
  <2> QED
    BY <2>2, <2>3
<1> QED
  BY <1>4, <1>5, <1>6, <1>7, <1>8 DEF IInv

(* Without a connection the message is not sent, and nothing is promised.  *)
LEMMA PublishOK ==
    ASSUME NEW U, IInv(U), Publish, \A u \in U : ~ PublishFails(u)
    PROVE  IInv(U)'
<1> DEFINE m == [topic |-> main.topic, payload |-> main.payload]
<1>1. TypeOK /\ Places /\ MainHolds /\ InboxEndsInLast /\ AgreesOrPending(U)
  BY DEF IInv
<1>2. /\ main.at = "publish" /\ Goto("main", "mark")
      /\ outbox' \in IF connected THEN {Append(outbox, m), outbox} ELSE {outbox}
      /\ UNCHANGED <<resources, nodes, data, data_ma, dirty, told, connected, subscribed,
                     inbox, last, published, fault>>
  BY DEF Publish, At, db
<1>3. /\ thread' \in [Threads -> ThreadStates]
      /\ main'.at = "mark" /\ main'.topic = main.topic /\ mqtt' = mqtt
  <2>1. "mark" \in Steps
    BY DEF Steps
  <2> QED
    BY <1>1, <1>2, <2>1, GotoMoves, TwoThreads
<1>4. m \in MQTTMessages /\ outbox \in Seq(MQTTMessages)
  BY <1>1, <1>2 DEF Places, MQTTMessages, TypeOK
<1>5. TypeOK'
  <2>1. outbox' \in Seq(MQTTMessages)
    BY <1>2, <1>4
  <2> QED
    BY <1>1, <1>2, <1>3, <2>1 DEF TypeOK
<1>6. Places'
  BY <1>1, <1>2, <1>3 DEF Places, Notifying
<1>7. MainHolds'
  BY <1>1, <1>2, <1>3 DEF MainHolds
<1>8. InboxEndsInLast'
  BY <1>1, <1>2 DEF InboxEndsInLast
<1>9. AgreesOrPending(U)'
  <2>1. SUFFICES ASSUME connected, NEW u \in nodes \cap subscribed \cap U, Pending(u)
                 PROVE  Pending(u)'
    BY <1>1, <1>2 DEF AgreesOrPending
  <2>2. outbox' = Append(outbox, m) =>
            /\ \A i \in DOMAIN outbox : i \in DOMAIN outbox' /\ outbox'[i] = outbox[i]
            /\ Len(outbox) + 1 \in DOMAIN outbox' /\ outbox'[Len(outbox) + 1] = m
    BY <1>4, AppendProperties
  <2>3. CASE main.topic = u
    <3>1. outbox' = Append(outbox, m)
      BY <1>2, <1>3, <2>1, <2>3 DEF PublishFails
    <3>2. outbox'[Len(outbox) + 1].topic = u
      BY <2>2, <2>3, <3>1
    <3> QED
      BY <2>2, <3>1, <3>2 DEF Pending
  <2>4. CASE main.topic # u
    BY <1>2, <1>3, <2>1, <2>2, <2>4 DEF Pending
  <2> QED
    BY <2>3, <2>4
<1> QED
  BY <1>5, <1>6, <1>7, <1>8, <1>9 DEF IInv

(* The monitor: the node it has looked at may change until it deletes the  *)
(* data, but not to a deadline ahead, which only a PUT sets.               *)
LEMMA MonitorLooksOK ==
    ASSUME NEW U, IInv(U), NEW t \in Topics, MonitorLooks(t)
    PROVE  IInv(U)'
<1>1. TypeOK /\ Places /\ MainHolds
  BY DEF IInv
<1>2. /\ Begin("main", "purge", t, NoData) /\ main.at = "idle" /\ data_ma[t] = "passed"
      /\ UNCHANGED <<resources, nodes, data, data_ma, dirty, told, connected, subscribed,
                     outbox, inbox, last, published, fault>>
  BY DEF MonitorLooks, At, db, network, DataExpired
<1>3. /\ thread' \in [Threads -> ThreadStates]
      /\ main'.at = "purge" /\ main'.topic = t /\ mqtt' = mqtt
  <2>1. "purge" \in Steps /\ NoData \in Content
    BY DEF Steps, Content
  <2> QED
    BY <1>1, <1>2, <2>1, BeginMoves, TwoThreads
<1>4. TypeOK'
  BY <1>1, <1>2, <1>3 DEF TypeOK
<1>5. Places'
  BY <1>1, <1>2, <1>3 DEF Places
<1>6. MainHolds'
  BY <1>1, <1>2, <1>3 DEF MainHolds
<1>7. InboxEndsInLast' /\ AgreesOrPending(U)'
  BY <1>2, <1>3, MessagesStay
<1> QED
  BY <1>4, <1>5, <1>6, <1>7 DEF IInv

LEMMA DeleteTopicDataOK ==
    ASSUME NEW U, IInv(U), DeleteTopicData
    PROVE  IInv(U)'
<1> DEFINE t == main.topic
<1>1. TypeOK /\ Places /\ MainHolds
  BY DEF IInv
<1>2. /\ main.at = "purge" /\ End("main")
      /\ data' = [data EXCEPT ![t] = NoData] /\ data_ma' = [data_ma EXCEPT ![t] = "never"]
      /\ UNCHANGED <<resources, nodes, dirty, told, connected, subscribed, outbox, inbox,
                     last, published, fault>>
  BY DEF DeleteTopicData, At, network, SetTopic
<1>3. thread' \in [Threads -> ThreadStates] /\ main'.at = "idle" /\ mqtt' = mqtt
  BY <1>1, <1>2, EndMoves, TwoThreads
<1>4. TypeOK'
  BY <1>1, <1>2, <1>3 DEF TypeOK, Content, Deadlines
<1>5. Places'
  BY <1>1, <1>2, <1>3 DEF Places
<1>6. MainHolds'
  BY <1>1, <1>2, <1>3 DEF MainHolds
<1>7. InboxEndsInLast' /\ AgreesOrPending(U)'
  <2>1. \A u \in nodes' \cap subscribed' \cap U :
            data'[u] = NoData \/ (u \in nodes \cap subscribed \cap U /\ data'[u] = data[u])
    BY <1>1, <1>2 DEF TypeOK
  <2> QED
    BY <1>2, <1>3, <2>1, MessagesStay
<1> QED
  BY <1>4, <1>5, <1>6, <1>7 DEF IInv

LEMMA FreeContextOK ==
    ASSUME NEW U, IInv(U), FreeContext
    PROVE  IInv(U)'
<1>1. TypeOK /\ Places /\ MainHolds
  BY DEF IInv
<1>2. /\ Begin("main", "disconnect", NoTopic, NoData) /\ main.at = "idle"
      /\ UNCHANGED <<resources, nodes, data, data_ma, dirty, told, connected, subscribed,
                     outbox, inbox, last, published, fault>>
  BY DEF FreeContext, At, db, network
<1>3. /\ thread' \in [Threads -> ThreadStates] /\ main'.at = "disconnect" /\ mqtt' = mqtt
  <2>1. "disconnect" \in Steps /\ NoData \in Content
    BY DEF Steps, Content
  <2> QED
    BY <1>1, <1>2, <2>1, BeginMoves, TwoThreads
<1>4. TypeOK' /\ Places' /\ MainHolds'
  BY <1>1, <1>2, <1>3 DEF TypeOK, Places, MainHolds
<1>5. InboxEndsInLast' /\ AgreesOrPending(U)'
  BY <1>2, <1>3, MessagesStay
<1> QED
  BY <1>4, <1>5 DEF IInv

LEMMA DisconnectOK ==
    ASSUME NEW U, IInv(U), Disconnect
    PROVE  IInv(U)'
<1>1. TypeOK /\ Places /\ MainHolds
  BY DEF IInv
<1>2. /\ Goto("main", "ended") /\ main.at = "disconnect" /\ mqtt.at = "idle"
      /\ connected' = FALSE /\ subscribed' = {} /\ outbox' = <<>> /\ inbox' = <<>>
      /\ UNCHANGED <<resources, nodes, data, data_ma, dirty, told, last, published, fault>>
  BY DEF Disconnect, At, db
<1>3. /\ thread' \in [Threads -> ThreadStates] /\ main'.at = "ended" /\ mqtt' = mqtt
  <2>1. "ended" \in Steps
    BY DEF Steps
  <2> QED
    BY <1>1, <1>2, <2>1, GotoMoves, TwoThreads
<1>4. TypeOK' /\ Places' /\ MainHolds'
  <2>1. outbox' \in Seq(MQTTMessages) /\ inbox' \in Seq(MQTTMessages)
    BY <1>2
  <2>2. TypeOK'
    BY <1>1, <1>2, <1>3, <2>1 DEF TypeOK
  <2>3. Places'
    BY <1>1, <1>2, <1>3 DEF Places
  <2> QED
    BY <1>1, <1>2, <1>3, <2>2, <2>3 DEF MainHolds
<1>5. InboxEndsInLast' /\ AgreesOrPending(U)'
  BY <1>2 DEF InboxEndsInLast, AgreesOrPending
<1> QED
  BY <1>4, <1>5 DEF IInv
-------------------------------------------------------------------------------
(* msgarrvd: the head of the inbox is pending until its payload has been   *)
(* compared with the data, or stored.                                      *)
LEMMA ReceiveOK ==
    ASSUME NEW U, IInv(U), Receive
    PROVE  IInv(U)'
<1> DEFINE m == Head(inbox)
<1>1. TypeOK /\ Places /\ MainHolds
  BY DEF IInv
<1>2. mqtt.at = "idle" /\ inbox # <<>>
  BY DEF Receive, At
<1>3. CASE Crash("freed_resource") \/ Crash("freed_message")
  BY <1>3, CrashOK DEF Faults
<1>4. CASE ~(Crash("freed_resource") \/ Crash("freed_message"))
  <2>1. /\ Begin("mqtt", "clone", m.topic, m.payload)
        /\ UNCHANGED <<resources, nodes, data, data_ma, dirty, told, connected, subscribed,
                       outbox, inbox, last, published, fault>>
    BY <1>4 DEF Receive, db, network
  <2>2. m \in MQTTMessages
    BY <1>1, <1>2, HeadTailProperties DEF TypeOK
  <2>3. m.topic \in Topics /\ m.payload \in Payloads
        /\ m = [topic |-> m.topic, payload |-> m.payload]
    BY <2>2 DEF MQTTMessages
  <2>4. /\ thread' \in [Threads -> ThreadStates]
        /\ mqtt'.at = "clone" /\ mqtt'.topic = m.topic /\ mqtt'.payload = m.payload
        /\ main' = main
    <3>1. "clone" \in Steps /\ m.payload \in Content
      BY <2>3 DEF Steps, Content
    <3> QED
      BY <1>1, <2>1, <2>3, <3>1, BeginMoves, TwoThreads
  <2>5. TypeOK'
    BY <1>1, <2>1, <2>4 DEF TypeOK
  <2>6. Places'
    <3>1. Head(inbox') = [topic |-> mqtt'.topic, payload |-> mqtt'.payload]
      BY <2>1, <2>3, <2>4
    <3> QED
      BY <1>1, <1>2, <2>1, <2>3, <2>4, <3>1 DEF Places
  <2>7. MainHolds'
    BY <1>1, <2>1, <2>4 DEF MainHolds
  <2>8. InboxEndsInLast' /\ AgreesOrPending(U)'
    BY <2>1, <2>4, MessagesStay
  <2> QED
    BY <2>5, <2>6, <2>7, <2>8 DEF IInv
<1> QED
  BY <1>3, <1>4

(* What is pending besides the head of the inbox stays pending, and if     *)
(* nothing else on its topic is, the head is the newest message.           *)
LEMMA HeadHandled ==
    ASSUME NEW U, IInv(U), connected, mqtt.at \in {"clone", "update"},
           NEW t, t = mqtt.topic,
           UNCHANGED <<connected, outbox, inbox, last>>,
           main.at = "publish" => main'.at = "publish" /\ main'.topic = main.topic
    PROVE  /\ \A u : u # t /\ Pending(u) => Pending(u)'
           /\ last[t] = mqtt.payload \/ Pending(t)'
<1>1. /\ inbox \in Seq(MQTTMessages) /\ inbox # <<>> /\ InboxEndsInLast
      /\ Head(inbox) = [topic |-> t, payload |-> mqtt.payload]
  BY DEF IInv, TypeOK, Places
<1>2. /\ inbox[1].topic = t /\ inbox[1].payload = mqtt.payload /\ 1 \in DOMAIN inbox
      /\ \A i \in DOMAIN inbox : i # 1 => i > 1
  BY <1>1, HeadTailProperties
<1>3. ASSUME NEW u, u # t, Pending(u)
      PROVE  Pending(u)'
  BY <1>2, <1>3 DEF Pending
<1>4. last[t] = mqtt.payload \/ Pending(t)'
  <2>1. CASE \E i \in DOMAIN inbox : i > 1 /\ inbox[i].topic = t
    <3>1. \E i \in DOMAIN inbox' : i > 1 /\ inbox'[i].topic = t
      BY <2>1
    <3> QED
      BY <3>1 DEF Pending
  <2>2. CASE ~\E i \in DOMAIN inbox : i > 1 /\ inbox[i].topic = t
    <3>1. \A j \in DOMAIN inbox : j > 1 => inbox[j].topic # inbox[1].topic
      BY <1>2, <2>2
    <3>2. last[inbox[1].topic] = inbox[1].payload
      BY <1>1, <1>2, <3>1 DEF InboxEndsInLast
    <3> QED
      BY <1>2, <3>2
  <2> QED
    BY <2>1, <2>2
<1> QED
  BY <1>3, <1>4

LEMMA CloneOK ==
    ASSUME NEW U, IInv(U), Clone
    PROVE  IInv(U)'
<1>0. PICK t : t = mqtt.topic
  OBVIOUS
<1>1. TypeOK /\ Places /\ MainHolds /\ InboxEndsInLast /\ AgreesOrPending(U)
  BY DEF IInv
<1>2. mqtt.at = "clone" /\ t \in Topics
  BY <1>0, <1>1 DEF Clone, At, Places
<1>3. CASE Crash("freed_resource") \/ Crash("null")
  BY <1>3, CrashOK DEF Faults
<1>4. CASE ~(Crash("freed_resource") \/ Crash("null"))
  <2>1. /\ Goto("mqtt", IF Differs(data[t], mqtt.payload) THEN "update" ELSE "done")
        /\ UNCHANGED <<resources, nodes, data, data_ma, dirty, told, connected, subscribed,
                       outbox, inbox, last, published, fault>>
    BY <1>0, <1>4 DEF Clone, db, network
  <2>2. /\ thread' \in [Threads -> ThreadStates] /\ mqtt'.at \in {"update", "done"}
        /\ data[t] = mqtt.payload \/ mqtt'.at = "update"
        /\ mqtt'.topic = t /\ mqtt'.payload = mqtt.payload /\ main' = main
    <3>1. "update" \in Steps /\ "done" \in Steps
      BY DEF Steps
    <3>2. CASE Differs(data[t], mqtt.payload)
      BY <1>0, <1>1, <2>1, <3>1, <3>2, GotoMoves, TwoThreads
    <3>3. CASE ~Differs(data[t], mqtt.payload)
      BY <1>0, <1>1, <2>1, <3>1, <3>3, GotoMoves, TwoThreads DEF Differs
    <3> QED
      BY <3>2, <3>3
  <2>3. TypeOK'
    BY <1>1, <2>1, <2>2 DEF TypeOK
  <2>4. Places'
    BY <1>0, <1>1, <1>2, <2>1, <2>2 DEF Places
  <2>5. MainHolds'
    BY <1>1, <2>1, <2>2 DEF MainHolds
  <2>6. CASE mqtt'.at = "update"
    <3>1. InboxEndsInLast' /\ AgreesOrPending(U)'
      BY <2>1, <2>2, <2>6, MessagesStay
    <3> QED
      BY <2>3, <2>4, <2>5, <3>1 DEF IInv
  <2>7. CASE data[t] = mqtt.payload
    <3>1. InboxEndsInLast'
      BY <1>1, <2>1 DEF InboxEndsInLast
    <3>2. AgreesOrPending(U)'
      <4>1. SUFFICES ASSUME connected, NEW u \in nodes \cap subscribed \cap U
                     PROVE  data[u] \in {last[u], NoData} \/ Pending(u)'
        BY <2>1 DEF AgreesOrPending
      <4>2. /\ u # t /\ Pending(u) => Pending(u)'
            /\ last[t] = mqtt.payload \/ Pending(t)'
        BY <1>0, <1>1, <1>2, <2>1, <2>2, <4>1, HeadHandled DEF TypeOK
      <4> QED
        BY <1>1, <2>7, <4>1, <4>2 DEF AgreesOrPending
    <3> QED
      BY <2>3, <2>4, <2>5, <3>1, <3>2 DEF IInv
  <2> QED
    BY <2>2, <2>6, <2>7
<1> QED
  BY <1>3, <1>4

LEMMA ReplacedMoves ==
    ASSUME TypeOK, Replaced("mark")
    PROVE  /\ thread' \in [Threads -> ThreadStates]
           /\ mqtt'.at = "mark" /\ mqtt'.topic = mqtt.topic
           /\ main'.topic = main.topic /\ main'.payload = main.payload /\ main'.ma = main.ma
           /\ main'.now = main.now
           /\ main'.at = IF main.at = "rewrite" /\ main.payload # NoData
                            /\ main.topic = mqtt.topic
                         THEN "astray" ELSE main.at
<1> DEFINE where == IF main.at = "rewrite" /\ main.payload # NoData /\ main.topic = mqtt.topic
                    THEN "astray" ELSE main.at
           m == [main EXCEPT !.at = where]
           q == [mqtt EXCEPT !.at = "mark"]
           f == [thread EXCEPT !["mqtt"] = q]
<1>1. main \in ThreadStates /\ mqtt \in ThreadStates /\ thread \in [Threads -> ThreadStates]
  BY TwoThreads DEF TypeOK
<1>2. where \in Steps
  BY <1>1 DEF ThreadStates, Steps
<1>3. /\ m \in ThreadStates /\ m.at = where /\ m.topic = main.topic
      /\ m.payload = main.payload /\ m.ma = main.ma /\ m.now = main.now
  BY <1>1, <1>2 DEF ThreadStates
<1>4. q \in ThreadStates /\ q.at = "mark" /\ q.topic = mqtt.topic
  BY <1>1 DEF ThreadStates, Steps
<1>5. thread' = [thread EXCEPT !["mqtt"].at = "mark", !["main"].at = where]
  BY Zenon DEF Replaced
<1>6. thread' = [f EXCEPT !["main"] = m]
  BY <1>1, <1>5, TwoThreads
<1> HIDE DEF m, q, where
<1> QED
  BY <1>1, <1>3, <1>4, <1>6, TwoThreads DEF where

LEMMA UpdateOK ==
    ASSUME NEW U, IInv(U), Update
    PROVE  IInv(U)'
<1>0. PICK t, v : t = mqtt.topic /\ v = mqtt.payload
  OBVIOUS
<1>1. TypeOK /\ Places /\ MainHolds /\ InboxEndsInLast /\ AgreesOrPending(U)
  BY DEF IInv
<1>2. /\ mqtt.at = "update" /\ Replaced("mark")
      /\ UNCHANGED <<resources, nodes, dirty, told, connected, subscribed, outbox, inbox,
                     last, published, fault>>
  BY DEF Update, At, network
<1>3. IF t \in nodes
      THEN /\ data' = [data EXCEPT ![t] = v]
           /\ data_ma' = [data_ma EXCEPT ![t] = "never"]
      ELSE UNCHANGED <<data, data_ma>>
  BY <1>0 DEF Update, SetTopic
<1>4. t \in Topics /\ v \in Payloads
  BY <1>0, <1>1, <1>2 DEF Places
<1>5. /\ thread' \in [Threads -> ThreadStates] /\ mqtt'.at = "mark" /\ mqtt'.topic = t
      /\ main'.topic = main.topic /\ main'.payload = main.payload /\ main'.ma = main.ma
      /\ main'.at = IF main.at = "rewrite" /\ main.payload # NoData /\ main.topic = t
                    THEN "astray" ELSE main.at
  BY <1>0, <1>1, <1>2, ReplacedMoves
<1>6. /\ data' \in [Topics -> Content] /\ data_ma' \in [Topics -> Deadlines]
      /\ \A u \in Topics : u # t => data'[u] = data[u] /\ data_ma'[u] = data_ma[u]
      /\ t \in nodes => data'[t] = v
      /\ data_ma'[t] \in {"never", data_ma[t]}
  <2>1. data \in [Topics -> Content] /\ data_ma \in [Topics -> Deadlines]
    BY <1>1 DEF TypeOK
  <2>2. CASE t \in nodes
    BY <1>3, <1>4, <2>1, <2>2 DEF Content, Deadlines
  <2>3. CASE t \notin nodes
    BY <1>3, <1>4, <2>1, <2>3
  <2> QED
    BY <2>2, <2>3
<1>7. TypeOK'
  BY <1>1, <1>2, <1>5, <1>6 DEF TypeOK
<1>8. Places'
  BY <1>0, <1>1, <1>2, <1>4, <1>5 DEF Places, Notifying
<1>9. MainHolds'
  <2>1. main.at = "purge" => data_ma'[main.topic] # "later"
    <3> SUFFICES ASSUME main.at = "purge" PROVE data_ma'[main.topic] # "later"
      OBVIOUS
    <3>1. main.topic \in Topics /\ data_ma[main.topic] # "later"
      BY <1>0, <1>1 DEF Places, MainHolds
    <3> QED
      BY <1>0, <1>6, <3>1
  <2>2. \A u \in Topics : data'[u] = NoData => data_ma'[u] # "later"
    BY <1>1, <1>3, <1>4, BridgeAssumption DEF MainHolds, TypeOK
  <2>3. main'.at = "rewrite" =>
          IF main'.payload = NoData
          THEN data_ma'[main'.topic] # "later" /\ main'.ma # "later"
          ELSE data'[main'.topic] = main'.payload /\ data_ma'[main'.topic] = main'.ma
    <3> SUFFICES ASSUME main'.at = "rewrite"
                 PROVE  IF main.payload = NoData
                        THEN data_ma'[main.topic] # "later" /\ main.ma # "later"
                        ELSE data'[main.topic] = main.payload /\ data_ma'[main.topic] = main.ma
      BY <1>5
    <3>1. main.at = "rewrite" /\ (main.payload = NoData \/ main.topic # t)
      BY <1>5
    <3>2. main.topic \in Topics
      BY <1>1, <3>1 DEF Places
    <3> QED
      BY <1>1, <1>6, <3>1, <3>2 DEF MainHolds
  <2>4. main'.at \in {"add", "node", "unsubscribe", "free", "purge"} => main'.at = main.at
    BY <1>5
  <2> QED
    BY <1>1, <1>2, <1>5, <2>1, <2>2, <2>3, <2>4 DEF MainHolds
<1>10. InboxEndsInLast'
  BY <1>1, <1>2 DEF InboxEndsInLast
<1>11. AgreesOrPending(U)'
  <2>1. SUFFICES ASSUME connected, NEW u \in nodes \cap subscribed \cap U
                 PROVE  data'[u] \in {last[u], NoData} \/ Pending(u)'
    BY <1>2 DEF AgreesOrPending
  <2>2. u \in Topics
    BY <1>1 DEF TypeOK
  <2>3. /\ u # t /\ Pending(u) => Pending(u)'
        /\ last[t] = v \/ Pending(t)'
    BY <1>0, <1>2, <1>5, <2>1, <2>2, HeadHandled
  <2> QED
    BY <1>1, <1>6, <2>1, <2>2, <2>3 DEF AgreesOrPending
<1> QED
  BY <1>7, <1>8, <1>9, <1>10, <1>11 DEF IInv

LEMMA ReturnOK ==
    ASSUME NEW U, IInv(U), Return
    PROVE  IInv(U)'
<1>1. TypeOK /\ Places /\ MainHolds /\ InboxEndsInLast /\ AgreesOrPending(U)
  BY DEF IInv
<1>2. /\ mqtt.at = "done" /\ inbox' = Tail(inbox) /\ End("mqtt")
      /\ UNCHANGED <<resources, nodes, data, data_ma, dirty, told, connected, subscribed,
                     outbox, last, published, fault>>
  BY DEF Return, At, db
<1>3. inbox \in Seq(MQTTMessages) /\ inbox # <<>>
  BY <1>1, <1>2 DEF TypeOK, Places
<1>4. /\ inbox' \in Seq(MQTTMessages) /\ Len(inbox') = Len(inbox) - 1
      /\ \A i \in 1 .. Len(inbox) - 1 : inbox'[i] = inbox[i + 1]
      /\ DOMAIN inbox = 1 .. Len(inbox) /\ DOMAIN inbox' = 1 .. Len(inbox) - 1
      /\ Len(inbox) \in Nat
  BY <1>2, <1>3, HeadTailProperties, LenProperties
<1>5. thread' \in [Threads -> ThreadStates] /\ mqtt'.at = "idle" /\ main' = main
  BY <1>1, <1>2, EndMoves, TwoThreads
<1>6. TypeOK'
  BY <1>1, <1>2, <1>4, <1>5 DEF TypeOK
<1>7. Places'
  BY <1>1, <1>2, <1>5 DEF Places
<1>8. MainHolds'
  BY <1>1, <1>2, <1>5 DEF MainHolds
<1>9. InboxEndsInLast'
  <2>1. SUFFICES ASSUME connected, NEW i \in DOMAIN inbox',
                        \A j \in DOMAIN inbox' : j > i => inbox'[j].topic # inbox'[i].topic
                 PROVE  last[inbox'[i].topic] = inbox'[i].payload
    BY <1>2 DEF InboxEndsInLast
  <2>2. i + 1 \in DOMAIN inbox /\ inbox'[i] = inbox[i + 1]
    BY <1>4
  <2>3. ASSUME NEW j \in DOMAIN inbox, j > i + 1
        PROVE  inbox[j].topic # inbox[i + 1].topic
    <3>1. j - 1 \in DOMAIN inbox' /\ j - 1 > i /\ inbox'[j - 1] = inbox[j]
      BY <1>4, <2>3
    <3> QED
      BY <2>1, <2>2, <3>1
  <2> QED
    BY <1>1, <2>1, <2>2, <2>3 DEF InboxEndsInLast
<1>10. AgreesOrPending(U)'
  <2>1. SUFFICES ASSUME NEW u, Pending(u)
                 PROVE  Pending(u)'
    BY <1>1, <1>2 DEF AgreesOrPending
  <2>2. CASE \E i \in DOMAIN inbox : inbox[i].topic = u /\ i > 1
    <3>1. PICK i \in DOMAIN inbox : inbox[i].topic = u /\ i > 1
      BY <2>2
    <3>2. i - 1 \in DOMAIN inbox' /\ inbox'[i - 1].topic = u
      BY <1>4, <3>1
    <3> QED
      BY <1>5, <3>2 DEF Pending
  <2>3. CASE ~\E i \in DOMAIN inbox : inbox[i].topic = u /\ i > 1
    BY <1>2, <1>5, <2>1, <2>3 DEF Pending
  <2> QED
    BY <2>2, <2>3
<1> QED
  BY <1>6, <1>7, <1>8, <1>9, <1>10 DEF IInv
-------------------------------------------------------------------------------
(* coap_check_notify of either thread tells observers; it touches neither  *)
(* the database nor the messages.                                          *)
LEMMA NotifyingOK ==
    ASSUME NEW U, IInv(U), NEW p \in Threads,
           UNCHANGED <<resources, nodes, data, data_ma, connected, subscribed, outbox, inbox,
                       last, published, fault>>,
           dirty' \subseteq resources, told' \in [Topics -> Content],
           thread' \in [Threads -> ThreadStates],
           \A q \in Threads : q # p => thread'[q] = thread[q],
           thread[p].at \in Notifying,
           \/ thread'[p].at \in Notifying \ {"mark"}
           \/ thread'[p].at = IF p = "main" THEN "idle" ELSE "done"
    PROVE  IInv(U)'
<1>1. TypeOK /\ Places /\ MainHolds
  BY DEF IInv
<1>2. TypeOK'
  BY <1>1 DEF TypeOK
<1>3. CASE p = "main"
  <2>1. /\ mqtt' = mqtt /\ main.at \in Notifying
        /\ main'.at \in Notifying \ {"mark"} \/ main'.at = "idle"
    BY <1>3, TwoThreads
  <2>2. Places' /\ MainHolds'
    BY <1>1, <2>1 DEF Places, MainHolds, Notifying
  <2>3. InboxEndsInLast' /\ AgreesOrPending(U)'
    BY <2>1, MessagesStay DEF Notifying
  <2> QED
    BY <1>2, <2>2, <2>3 DEF IInv
<1>4. CASE p = "mqtt"
  <2>1. /\ main' = main /\ mqtt.at \in Notifying
        /\ mqtt'.at \in Notifying \ {"mark"} \/ mqtt'.at = "done"
    BY <1>4, TwoThreads
  <2>2. Places' /\ MainHolds'
    BY <1>1, <2>1 DEF Places, MainHolds, Notifying
  <2>3. InboxEndsInLast' /\ AgreesOrPending(U)'
    BY <2>1, MessagesStay DEF Notifying
  <2> QED
    BY <1>2, <2>2, <2>3 DEF IInv
<1> QED
  BY <1>3, <1>4 DEF Threads

LEMMA MarkDirtyOK ==
    ASSUME NEW U, IInv(U), NEW p \in Threads, MarkDirty(p)
    PROVE  IInv(U)'
<1>1. TypeOK
  BY DEF IInv
<1>2. CASE Crash("freed_resource")
  BY <1>2, CrashOK DEF Faults
<1>3. CASE ~Crash("freed_resource")
  <2>1. /\ thread[p].at = "mark" /\ thread[p].topic \in resources
        /\ dirty' = dirty \cup {thread[p].topic}
        /\ UNCHANGED <<resources, nodes, data, data_ma, told, connected, subscribed, outbox,
                       inbox, last, published, fault>>
    BY <1>3 DEF MarkDirty, At, db, network
  <2>2. PICK r \in resources : Iterate(p, "notify", NoTopic, r, resources \ {r})
    BY <1>3 DEF MarkDirty
  <2>3. r \in Topics /\ resources \ {r} \in SUBSET Topics /\ "notify" \in Steps
    BY <1>1 DEF TypeOK, Steps
  <2>4. /\ thread' \in [Threads -> ThreadStates] /\ thread'[p].at = "notify"
        /\ \A q \in Threads : q # p => thread'[q] = thread[q]
    BY <1>1, <2>2, <2>3, IterateMoves
  <2> QED
    BY <1>1, <2>1, <2>4, NotifyingOK DEF TypeOK, Notifying
<1> QED
  BY <1>2, <1>3

LEMMA TestFlagOK ==
    ASSUME NEW U, IInv(U), NEW p \in Threads, TestFlag(p)
    PROVE  IInv(U)'
<1> DEFINE r == thread[p].after
           step == IF r \in dirty THEN "read" ELSE "reset"
<1>1. TypeOK /\ thread[p] \in ThreadStates
  BY DEF IInv, TypeOK
<1>2. CASE Crash("freed_resource")
  BY <1>2, CrashOK DEF Faults
<1>3. CASE ~Crash("freed_resource")
  <2>1. /\ thread[p].at = "notify"
        /\ UNCHANGED <<resources, nodes, data, data_ma, dirty, told, connected, subscribed,
                       outbox, inbox, last, published, fault>>
    BY <1>3 DEF TestFlag, At, db, network
  <2>2. PICK next \in Fetch(thread[p].todo) :
            Iterate(p, step, r, next, thread[p].todo \ {next})
    BY <1>3 DEF TestFlag
  <2>3. /\ r \in Topics \cup {NoTopic} /\ next \in Topics \cup {NoTopic}
        /\ thread[p].todo \ {next} \in SUBSET Topics /\ step \in Steps
    BY <1>1, <2>2 DEF ThreadStates, Fetch, Steps
  <2>4. /\ thread' \in [Threads -> ThreadStates] /\ thread'[p].at \in {"read", "reset"}
        /\ \A q \in Threads : q # p => thread'[q] = thread[q]
    BY <1>1, <2>2, <2>3, IterateMoves
  <2> QED
    BY <1>1, <2>1, <2>4, NotifyingOK DEF TypeOK, Notifying
<1> QED
  BY <1>2, <1>3

LEMMA FillMoves ==
    ASSUME TypeOK, NEW p \in Threads, NEW v \in Content,
           thread' = [thread EXCEPT ![p].at = "send", ![p].payload = v]
    PROVE  /\ thread' \in [Threads -> ThreadStates]
           /\ thread'[p].at = "send" /\ thread'[p].now = thread[p].now
           /\ thread'[p].payload = v
           /\ \A q \in Threads : q # p => thread'[q] = thread[q]
<1> DEFINE s == [thread[p] EXCEPT !.at = "send", !.payload = v]
<1>1. thread \in [Threads -> ThreadStates] /\ thread[p] \in ThreadStates
  BY DEF TypeOK
<1>2. s \in ThreadStates /\ s.at = "send" /\ s.now = thread[p].now /\ s.payload = v
  BY <1>1 DEF ThreadStates, Steps
<1>3. thread' = [thread EXCEPT ![p] = s]
  BY <1>1
<1> HIDE DEF s
<1> QED
  BY <1>1, <1>2, <1>3

LEMMA AnswerIsContent == ASSUME TypeOK, NEW t \in Topics PROVE Answer(t) \in Content
BY DEF TypeOK, Answer, Content

LEMMA FillOK ==
    ASSUME NEW U, IInv(U), NEW p \in Threads, Fill(p)
    PROVE  IInv(U)'
<1> DEFINE r == thread[p].now
<1>1. TypeOK
  BY DEF IInv
<1>2. CASE Crash("freed_resource")
  BY <1>2, CrashOK DEF Faults
<1>3. CASE ~Crash("freed_resource")
  <2>1. /\ thread[p].at = "read" /\ r \in resources
        /\ thread' = [thread EXCEPT ![p].at = "send", ![p].payload = Answer(r)]
        /\ UNCHANGED <<resources, nodes, data, data_ma, dirty, told, connected, subscribed,
                       outbox, inbox, last, published, fault>>
    BY <1>3 DEF Fill, At, db, network
  <2>2. Answer(r) \in Content
    BY <1>1, <2>1, AnswerIsContent DEF TypeOK
  <2>3. /\ thread' \in [Threads -> ThreadStates] /\ thread'[p].at = "send"
        /\ \A q \in Threads : q # p => thread'[q] = thread[q]
    BY <1>1, <2>1, <2>2, FillMoves
  <2> QED
    BY <1>1, <2>1, <2>3, NotifyingOK DEF TypeOK, Notifying
<1> QED
  BY <1>2, <1>3

LEMMA SendOK ==
    ASSUME NEW U, IInv(U), NEW p \in Threads, Send(p)
    PROVE  IInv(U)'
<1> DEFINE r == thread[p].now
<1>1. TypeOK
  BY DEF IInv
<1>2. CASE Crash("freed_resource")
  BY <1>2, CrashOK DEF Faults
<1>3. CASE ~Crash("freed_resource")
  <2>1. /\ thread[p].at = "send" /\ told' = [told EXCEPT ![r] = thread[p].payload]
        /\ Goto(p, "reset")
        /\ UNCHANGED <<resources, nodes, data, data_ma, dirty, connected, subscribed, outbox,
                       inbox, last, published, fault>>
    BY <1>3 DEF Send, At, db, network
  <2>2. told' \in [Topics -> Content]
    BY <1>1, <2>1 DEF TypeOK, ThreadStates
  <2>3. /\ thread' \in [Threads -> ThreadStates] /\ thread'[p].at = "reset"
        /\ \A q \in Threads : q # p => thread'[q] = thread[q]
    <3>1. "reset" \in Steps
      BY DEF Steps
    <3> QED
      BY <1>1, <2>1, <3>1, GotoMoves
  <2> QED
    BY <1>1, <2>1, <2>2, <2>3, NotifyingOK DEF TypeOK, Notifying
<1> QED
  BY <1>2, <1>3

LEMMA ResetDirtyOK ==
    ASSUME NEW U, IInv(U), NEW p \in Threads, ResetDirty(p)
    PROVE  IInv(U)'
<1>1. TypeOK /\ thread[p] \in ThreadStates
  BY DEF IInv, TypeOK
<1>2. CASE Crash("freed_resource")
  BY <1>2, CrashOK DEF Faults
<1>3. CASE ~Crash("freed_resource")
  <2>1. /\ thread[p].at = "reset" /\ dirty' = dirty \ {thread[p].now}
        /\ Iterate(p, "notify", NoTopic, thread[p].after, thread[p].todo)
        /\ UNCHANGED <<resources, nodes, data, data_ma, told, connected, subscribed, outbox,
                       inbox, last, published, fault>>
    BY <1>3 DEF ResetDirty, At, db, network
  <2>2. "notify" \in Steps /\ thread[p].after \in Topics \cup {NoTopic}
        /\ thread[p].todo \in SUBSET Topics
    BY <1>1 DEF ThreadStates, Steps
  <2>3. /\ thread' \in [Threads -> ThreadStates] /\ thread'[p].at = "notify"
        /\ \A q \in Threads : q # p => thread'[q] = thread[q]
    BY <1>1, <2>1, <2>2, IterateMoves
  <2> QED
    BY <1>1, <2>1, <2>3, NotifyingOK DEF TypeOK, Notifying
<1> QED
  BY <1>2, <1>3

LEMMA NotifiedMoves ==
    ASSUME TypeOK, NEW p \in Threads, Notified(p)
    PROVE  /\ thread' \in [Threads -> ThreadStates]
           /\ thread'[p].at = IF p = "main" THEN "idle" ELSE "done"
           /\ \A q \in Threads : q # p => thread'[q] = thread[q]
<1> DEFINE s == IF p = "main" THEN Idle ELSE [Idle EXCEPT !.at = "done"]
<1>1. s \in ThreadStates /\ s.at = IF p = "main" THEN "idle" ELSE "done"
  BY DEF Idle, ThreadStates, Steps, Content, Deadlines
<1>2. thread \in [Threads -> ThreadStates] /\ thread' = [thread EXCEPT ![p] = s]
  BY DEF TypeOK, Notified
<1> HIDE DEF s
<1> QED
  BY <1>1, <1>2

LEMMA NotifiedOK ==
    ASSUME NEW U, IInv(U), NEW p \in Threads, Notified(p)
    PROVE  IInv(U)'
<1>1. TypeOK
  BY DEF IInv
<1>2. /\ thread[p].at = "notify"
      /\ UNCHANGED <<resources, nodes, data, data_ma, dirty, told, connected, subscribed,
                     outbox, inbox, last, published, fault>>
  BY DEF Notified, At, db, network
<1>3. /\ thread' \in [Threads -> ThreadStates]
      /\ thread'[p].at = IF p = "main" THEN "idle" ELSE "done"
      /\ \A q \in Threads : q # p => thread'[q] = thread[q]
  BY <1>1, NotifiedMoves
<1> QED
  BY <1>1, <1>2, <1>3, NotifyingOK DEF TypeOK, Notifying
-------------------------------------------------------------------------------
(* A message that the server has taken is pending in the inbox, or its     *)
(* topic is not subscribed and nothing is promised about it.               *)
LEMMA ArriveOK ==
    ASSUME NEW U, IInv(U), connected, NEW m \in MQTTMessages, Arrive(m),
           UNCHANGED <<nodes, data, thread, subscribed, connected>>,
           \A i \in DOMAIN outbox :
               outbox[i].topic = m.topic
                   \/ \E j \in DOMAIN outbox' : outbox'[j].topic = outbox[i].topic
    PROVE  /\ inbox' \in Seq(MQTTMessages) /\ last' \in [Topics -> Content]
           /\ inbox # <<>> => inbox' # <<>> /\ Head(inbox') = Head(inbox)
           /\ InboxEndsInLast' /\ AgreesOrPending(U)'
<1>1. /\ inbox \in Seq(MQTTMessages) /\ last \in [Topics -> Content] /\ nodes \subseteq Topics
      /\ InboxEndsInLast /\ AgreesOrPending(U)
      /\ m.topic \in Topics /\ m.payload \in Content
      /\ inbox = <<>> => mqtt.at = "idle"
  BY DEF IInv, TypeOK, Places, MQTTMessages, Content
<1>2. CASE m.topic \notin subscribed
  <2>1. inbox' = inbox /\ last' = last
    BY <1>2 DEF Arrive
  <2>2. InboxEndsInLast'
    BY <1>1, <2>1 DEF InboxEndsInLast
  <2>3. ASSUME NEW u \in nodes \cap subscribed \cap U, Pending(u)
        PROVE  Pending(u)'
    <3>1. \A i \in DOMAIN outbox : outbox[i].topic = u =>
              \E j \in DOMAIN outbox' : outbox'[j].topic = u
      BY <1>2, <2>3
    <3> QED
      BY <2>1, <2>3, <3>1 DEF Pending
  <2> QED
    BY <1>1, <2>1, <2>2, <2>3 DEF AgreesOrPending
<1>3. CASE m.topic \in subscribed
  <2>1. inbox' = Append(inbox, m) /\ last' = [last EXCEPT ![m.topic] = m.payload]
    BY <1>3 DEF Arrive
  <2>2. /\ inbox' \in Seq(MQTTMessages) /\ Len(inbox') = Len(inbox) + 1 /\ inbox' # <<>>
        /\ inbox'[Len(inbox) + 1] = m
        /\ \A i \in DOMAIN inbox : i \in DOMAIN inbox' /\ inbox'[i] = inbox[i]
        /\ DOMAIN inbox = 1 .. Len(inbox) /\ DOMAIN inbox' = 1 .. Len(inbox) + 1
        /\ Len(inbox) \in Nat
    BY <1>1, <2>1, AppendProperties, LenProperties
  <2>3. inbox # <<>> => Head(inbox') = Head(inbox)
    BY <1>1, <2>2, HeadTailProperties
  <2>4. /\ last' \in [Topics -> Content] /\ last'[m.topic] = m.payload
        /\ \A u \in Topics : u # m.topic => last'[u] = last[u]
    BY <1>1, <2>1
  <2>5. InboxEndsInLast'
    <3>1. SUFFICES ASSUME NEW i \in DOMAIN inbox',
                          \A j \in DOMAIN inbox' : j > i => inbox'[j].topic # inbox'[i].topic
                   PROVE  last'[inbox'[i].topic] = inbox'[i].payload
      BY DEF InboxEndsInLast
    <3>2. CASE i = Len(inbox) + 1
      BY <2>2, <2>4, <3>2
    <3>3. CASE i # Len(inbox) + 1
      <4>1. i \in DOMAIN inbox /\ Len(inbox) + 1 > i /\ Len(inbox) + 1 \in DOMAIN inbox'
        BY <2>2, <3>3
      <4>2. inbox[i].topic # m.topic /\ inbox'[i] = inbox[i] /\ inbox[i] \in MQTTMessages
        BY <1>1, <2>2, <3>1, <4>1, ElementOfSeq
      <4>3. last[inbox[i].topic] = inbox[i].payload
        BY <1>1, <2>2, <3>1, <4>1 DEF InboxEndsInLast
      <4> QED
        BY <2>4, <4>2, <4>3 DEF MQTTMessages
    <3> QED
      BY <3>2, <3>3
  <2>6. AgreesOrPending(U)'
    <3>1. SUFFICES ASSUME NEW u \in nodes \cap subscribed \cap U
                   PROVE  data[u] \in {last'[u], NoData} \/ Pending(u)'
      BY DEF AgreesOrPending
    <3>2. CASE u = m.topic
      <4>1. Len(inbox) + 1 > 1 \/ mqtt.at = "idle"
        BY <1>1, <2>2, EmptySeq
      <4>2. Len(inbox) + 1 \in DOMAIN inbox' /\ inbox'[Len(inbox) + 1].topic = u
        BY <2>2, <3>2
      <4> QED
        BY <4>1, <4>2 DEF Pending
    <3>3. CASE u # m.topic
      <4>1. Pending(u) => Pending(u)'
        BY <2>2, <3>3 DEF Pending
      <4> QED
        BY <1>1, <2>4, <3>1, <3>3, <4>1 DEF AgreesOrPending
    <3> QED
      BY <3>2, <3>3
  <2> QED
    BY <2>2, <2>3, <2>4, <2>5, <2>6
<1> QED
  BY <1>2, <1>3

LEMMA ServerTakesOK ==
    ASSUME NEW U, IInv(U), ServerTakes
    PROVE  IInv(U)'
<1> DEFINE m == Head(outbox)
<1>1. TypeOK /\ Places /\ MainHolds
  BY DEF IInv
<1>2. /\ connected /\ outbox # <<>> /\ Arrive(m) /\ outbox' = Tail(outbox)
      /\ UNCHANGED <<resources, nodes, data, dirty, thread, told, fault, data_ma, connected,
                     subscribed, published>>
  BY DEF ServerTakes, Environment
<1>3. outbox \in Seq(MQTTMessages)
  BY <1>1 DEF TypeOK
<1>4. m \in MQTTMessages /\ m = outbox[1] /\ outbox' \in Seq(MQTTMessages)
      /\ Len(outbox') = Len(outbox) - 1
      /\ \A i \in 1 .. Len(outbox) - 1 : outbox'[i] = outbox[i + 1]
  BY <1>2, <1>3, HeadTailProperties
<1>5. ASSUME NEW i \in DOMAIN outbox, outbox[i].topic # m.topic
      PROVE  \E j \in DOMAIN outbox' : outbox'[j].topic = outbox[i].topic
  <2>1. i \in 1 .. Len(outbox) /\ Len(outbox) \in Nat /\ i # 1
    BY <1>3, <1>4, <1>5, LenProperties
  <2>2. i - 1 \in 1 .. Len(outbox) - 1 /\ (i - 1) + 1 = i
    BY <2>1
  <2>3. i - 1 \in DOMAIN outbox' /\ outbox'[i - 1] = outbox[i]
    BY <1>4, <2>2, LenProperties
  <2> QED
    BY <2>3
<1>6. /\ inbox' \in Seq(MQTTMessages) /\ last' \in [Topics -> Content]
      /\ inbox # <<>> => inbox' # <<>> /\ Head(inbox') = Head(inbox)
      /\ InboxEndsInLast' /\ AgreesOrPending(U)'
  BY <1>2, <1>4, <1>5, ArriveOK
<1>7. TypeOK'
  BY <1>1, <1>2, <1>4, <1>6 DEF TypeOK
<1>8. Places' /\ MainHolds'
  BY <1>1, <1>2, <1>6 DEF Places, MainHolds
<1> QED
  BY <1>6, <1>7, <1>8 DEF IInv

LEMMA RemotePublishOK ==
    ASSUME NEW U, IInv(U), NEW m \in MQTTMessages, RemotePublish(m)
    PROVE  IInv(U)'
<1>1. TypeOK /\ Places /\ MainHolds
  BY DEF IInv
<1>2. /\ connected /\ Arrive(m) /\ published < MaxPublish /\ published' = published + 1
      /\ UNCHANGED <<resources, nodes, data, dirty, thread, told, fault, data_ma, connected,
                     subscribed, outbox>>
  BY DEF RemotePublish, Environment
<1>3. /\ inbox' \in Seq(MQTTMessages) /\ last' \in [Topics -> Content]
      /\ inbox # <<>> => inbox' # <<>> /\ Head(inbox') = Head(inbox)
      /\ InboxEndsInLast' /\ AgreesOrPending(U)'
  BY <1>2, ArriveOK
<1>4. TypeOK'
  <2>1. published' \in 0 .. MaxPublish
    BY <1>1, <1>2, BridgeAssumption DEF TypeOK
  <2> QED
    BY <1>1, <1>2, <1>3, <2>1 DEF TypeOK
<1>5. Places' /\ MainHolds'
  BY <1>1, <1>2, <1>3 DEF Places, MainHolds
<1> QED
  BY <1>3, <1>4, <1>5 DEF IInv

(* What is lost with the connection is never promised again; the message   *)
(* that msgarrvd handles is not lost.                                      *)
LEMMA LoseConnectionOK ==
    ASSUME NEW U, IInv(U), LoseConnection
    PROVE  IInv(U)'
<1>1. TypeOK /\ Places /\ MainHolds
  BY DEF IInv
<1>2. /\ connected' = FALSE /\ subscribed' = {} /\ outbox' = <<>>
      /\ UNCHANGED <<resources, nodes, data, dirty, thread, told, fault, data_ma, last,
                     published>>
  BY DEF LoseConnection, Environment
<1>3. PICK n \in 0 .. Len(inbox) :
          (mqtt.at # "idle" => n > 0) /\ inbox' = SubSeq(inbox, 1, n)
  BY DEF LoseConnection
<1>4. inbox \in Seq(MQTTMessages)
  BY <1>1 DEF TypeOK
<1>5. inbox' \in Seq(MQTTMessages) /\ Len(inbox') = n
      /\ \A i \in 1 .. n : inbox'[i] = inbox[i]
  BY <1>3, <1>4, SubSeqProperties, LenProperties
<1>6. n > 0 => inbox' # <<>> /\ Head(inbox') = Head(inbox)
  BY <1>3, <1>4, <1>5, HeadTailProperties, LenProperties
<1>7. TypeOK'
  <2>1. outbox' \in Seq(MQTTMessages)
    BY <1>2
  <2> QED
    BY <1>1, <1>2, <1>5, <2>1 DEF TypeOK
<1>8. Places' /\ MainHolds'
  BY <1>1, <1>2, <1>3, <1>6 DEF Places, MainHolds
<1>9. InboxEndsInLast' /\ AgreesOrPending(U)'
  BY <1>2 DEF InboxEndsInLast, AgreesOrPending
<1> QED
  BY <1>7, <1>8, <1>9 DEF IInv

(* Time passes a deadline that is written in the node and, if a POST has   *)
(* read it, in what the POST holds.                                        *)
LEMMA LapseMoves ==
    ASSUME TypeOK, NEW t \in Topics, Lapse(t)
    PROVE  /\ thread' \in [Threads -> ThreadStates] /\ mqtt' = mqtt
           /\ main'.at = main.at /\ main'.topic = main.topic
           /\ main'.payload = main.payload /\ main'.now = main.now
           /\ main'.ma = IF main.topic = t THEN Past(main.ma) ELSE main.ma
           /\ data_ma' \in [Topics -> Deadlines]
           /\ data_ma'[t] = Past(data_ma[t])
           /\ \A u \in Topics : u # t => data_ma'[u] = data_ma[u]
           /\ UNCHANGED <<resources, nodes, data, dirty, told, connected, subscribed, outbox,
                          inbox, last, published, fault>>
<1> DEFINE ma == IF main.topic = t /\ main.ma = "later" THEN "passed" ELSE main.ma
           s == [main EXCEPT !.ma = ma]
<1>1. main \in ThreadStates /\ thread \in [Threads -> ThreadStates]
  BY TwoThreads DEF TypeOK
<1>2. /\ s \in ThreadStates /\ s.at = main.at /\ s.topic = main.topic
      /\ s.payload = main.payload /\ s.now = main.now /\ s.ma = ma
  BY <1>1 DEF ThreadStates, Deadlines
<1>3. ma = IF main.topic = t THEN Past(main.ma) ELSE main.ma
  BY DEF Past
<1>4. thread' = [thread EXCEPT !["main"].ma = ma]
  BY Zenon DEF Lapse
<1>5. thread' = [thread EXCEPT !["main"] = s]
  BY <1>1, <1>4, TwoThreads
<1>6. /\ data_ma' = [data_ma EXCEPT ![t] = Past(data_ma[t])]
      /\ UNCHANGED <<resources, nodes, data, dirty, told, connected, subscribed, outbox,
                     inbox, last, published, fault>>
  BY DEF Lapse, Environment, network
<1>7. data_ma \in [Topics -> Deadlines] /\ Past(data_ma[t]) \in Deadlines
  BY DEF TypeOK, Past, Deadlines
<1> HIDE DEF s, ma
<1>8. thread' \in [Threads -> ThreadStates] /\ main' = s /\ mqtt' = mqtt
  BY <1>1, <1>2, <1>5, TwoThreads
<1> QED
  BY <1>2, <1>3, <1>6, <1>7, <1>8

LEMMA LapseOK ==
    ASSUME NEW U, IInv(U), NEW t \in Topics, Lapse(t)
    PROVE  IInv(U)'
<1>1. TypeOK /\ Places /\ MainHolds
  BY DEF IInv
<1>2. /\ thread' \in [Threads -> ThreadStates] /\ mqtt' = mqtt
      /\ main'.at = main.at /\ main'.topic = main.topic
      /\ main'.payload = main.payload
      /\ main'.ma = IF main.topic = t THEN Past(main.ma) ELSE main.ma
      /\ data_ma' \in [Topics -> Deadlines]
      /\ data_ma'[t] = Past(data_ma[t])
      /\ \A u \in Topics : u # t => data_ma'[u] = data_ma[u]
      /\ UNCHANGED <<resources, nodes, data, dirty, told, connected, subscribed, outbox,
                     inbox, last, published, fault>>
  BY <1>1, LapseMoves
<1>3. TypeOK'
  BY <1>1, <1>2 DEF TypeOK
<1>4. Places'
  BY <1>1, <1>2 DEF Places
<1>5. MainHolds'
  <2>1. \A u \in Topics : data_ma[u] # "later" => data_ma'[u] = data_ma[u]
    BY <1>2 DEF Past
  <2>2. main.at \in {"purge", "rewrite"} => main.topic \in Topics
    BY <1>1 DEF Places
  <2>3. main.at = "rewrite" =>
          IF main.payload = NoData
          THEN data_ma'[main.topic] # "later" /\ main'.ma # "later"
          ELSE data[main.topic] = main.payload /\ data_ma'[main.topic] = main'.ma
    BY <1>1, <1>2, <2>1, <2>2 DEF MainHolds, Past
  <2> QED
    BY <1>1, <1>2, <2>1, <2>2, <2>3 DEF MainHolds
<1>6. InboxEndsInLast' /\ AgreesOrPending(U)'
  BY <1>2, MessagesStay DEF IInv, TypeOK
<1> QED
  BY <1>3, <1>4, <1>5, <1>6 DEF IInv
-------------------------------------------------------------------------------
LEMMA Initially == ASSUME NEW U, Init PROVE IInv(U)
<1>1. main = Idle /\ mqtt = Idle
  BY TwoThreads DEF Init
<1>2. TypeOK
  BY IdleState, BridgeAssumption DEF Init, TypeOK, Content, Deadlines, Faults
<1>3. Places /\ MainHolds
  BY <1>1, IdleState DEF Init, Places, MainHolds
<1>4. InboxEndsInLast /\ AgreesOrPending(U)
  BY DEF Init, InboxEndsInLast, AgreesOrPending
<1> QED
  BY <1>2, <1>3, <1>4 DEF IInv

LEMMA Inductive ==
    ASSUME NEW U, IInv(U), [Next]_vars,
           \A u \in U : ~ PublishFails(u) /\ ~ WritesAstray(u)
    PROVE  IInv(U)'
<1>1. CASE Main
  <2>1. ASSUME NEW t \in Topics, Post(t) \/ PostAgain(t) \/ Delete(t) \/ MonitorLooks(t)
        PROVE  IInv(U)'
    BY <2>1, PostOK, PostAgainOK, DeleteOK, MonitorLooksOK
  <2>2. ASSUME NEW t \in Topics, NEW v \in Payloads, NEW ma \in {"never", "later"},
               Put(t, v, ma)
        PROVE  IInv(U)'
    BY <2>2, PutOK
  <2> QED
    BY <1>1, <2>1, <2>2, AddResourceOK, AddNodeOK, RewriteOK, RewriteAstrayOK, UnsubscribeOK,
       FreeResourceOK, PublishOK, DeleteTopicDataOK, FreeContextOK, DisconnectOK
    DEF Main
<1>2. CASE MQTT
  BY <1>2, ReceiveOK, CloneOK, UpdateOK, ReturnOK DEF MQTT
<1>3. CASE World
  BY <1>3, ServerTakesOK, LoseConnectionOK, RemotePublishOK, LapseOK DEF World
<1>4. ASSUME NEW p \in Threads, CheckNotify(p) PROVE IInv(U)'
  BY <1>4, MarkDirtyOK, TestFlagOK, FillOK, SendOK, ResetDirtyOK, NotifiedOK DEF CheckNotify
<1>5. CASE UNCHANGED vars
  BY <1>5 DEF vars, IInv, TypeOK, Places, MainHolds, InboxEndsInLast, AgreesOrPending,
              Pending
<1> QED
  BY <1>1, <1>2, <1>3, <1>4, <1>5 DEF Next

Steady == IInv({})

LEMMA Invariant == Spec => []Steady
<1>1. Init => Steady
  BY Initially DEF Steady
<1>2. Steady /\ [Next]_vars => Steady'
  BY Inductive DEF Steady
<1> QED
  BY <1>1, <1>2, PTL DEF Spec

(* The types of the two threads, the database and the messages.            *)
THEOREM BridgeTypes == Spec => []TypeOK
<1>1. Steady => TypeOK
  BY DEF Steady, IInv
<1> QED
  BY <1>1, Invariant, PTL

(* A PUT that is not published and a POST that writes astray are the only  *)
(* ways in which the values of a topic at the broker and at the MQTT       *)
(* server come apart, for any number of topics, payloads and messages.     *)
THEOREM OnlyTwoWaysApart == Spec => OnlyTheseDivide
<1> DEFINE Divided(t) ==
        connected' /\ Together(t) /\ ~ Together(t)' => PublishFails(t) \/ WritesAstray(t)
<1>1. ASSUME Steady, Next, NEW t \in nodes \cap nodes' \cap subscribed',
             connected', Together(t), ~ PublishFails(t), ~ WritesAstray(t)
      PROVE  Together(t)'
  <2>1. IInv({t})
    BY <1>1 DEF Steady, IInv, AgreesOrPending, Together
  <2>2. IInv({t})'
    BY <1>1, <2>1, Inductive
  <2> QED
    BY <1>1, <2>2 DEF IInv, AgreesOrPending, Together
<1>2. Steady /\ [Next]_vars => [\A t \in nodes \cap nodes' \cap subscribed' : Divided(t)]_vars
  BY <1>1
<1> QED
  BY <1>2, Invariant, PTL DEF Spec, OnlyTheseDivide

(* So if neither happens, the two have the same value of every subscribed  *)
(* topic, or the broker has none, once every message has been handled.     *)
SidesAgree ==
    Quiet /\ connected => \A t \in nodes \cap subscribed : data[t] \in {last[t], NoData}

Undivided == \A t \in Topics : ~ PublishFails(t) /\ ~ WritesAstray(t)

(* What the two exceptions are worth: without them the two sides agree at  *)
(* rest, late echoes and racing compares notwithstanding.                  *)
THEOREM SidesAgreeAtRest == Init /\ [][Next /\ Undivided]_vars => []SidesAgree
<1>1. Init => IInv(Topics)
  BY Initially
<1>2. IInv(Topics) /\ [Next /\ Undivided]_vars => IInv(Topics)'
  <2>1. CASE Next /\ Undivided
    BY <2>1, Inductive DEF Undivided
  <2>2. CASE UNCHANGED vars
    BY <2>2 DEF vars, IInv, TypeOK, Places, MainHolds, InboxEndsInLast, AgreesOrPending,
                Pending
  <2> QED
    BY <2>1, <2>2
<1>3. ASSUME IInv(Topics), Quiet, connected, NEW t \in nodes \cap subscribed
      PROVE  data[t] \in {last[t], NoData}
  <2>1. main.at = "idle" /\ outbox = <<>> /\ inbox = <<>> /\ t \in Topics
    BY <1>3, TwoThreads DEF Quiet, IInv, TypeOK
  <2>2. ~Pending(t)
    BY <2>1 DEF Pending
  <2> QED
    BY <1>3, <2>1, <2>2 DEF IInv, AgreesOrPending
<1>4. IInv(Topics) => SidesAgree
  BY <1>3 DEF SidesAgree
<1> QED
  BY <1>1, <1>2, <1>4, PTL

(* topicDataMAMonitor deletes no data whose deadline is in the future,     *)
(* though another thread may write between its look and its deletion.      *)
THEOREM MonitorSparesTheLiving == Spec => PurgeSparesTheLiving
<1> DEFINE A(t) == data[t] # NoData /\ data'[t] = NoData => data_ma[t] # "later"
<1>1. ASSUME Steady, Next, NEW t \in nodes \cap nodes', data[t] # NoData, data'[t] = NoData
      PROVE  data_ma[t] # "later"
  <2>1. TypeOK /\ Places /\ MainHolds
    BY <1>1 DEF Steady, IInv
  <2>2. t \in Topics /\ data \in [Topics -> Content]
    BY <1>1, <2>1 DEF TypeOK
  <2>3. data' # data
    BY <1>1
  <2>4. CASE AddNode
    <3>1. /\ main.topic \notin nodes
          /\ data' = data \/ data' = [data EXCEPT ![main.topic] = NoData]
      BY <2>1, <2>4 DEF AddNode, SetTopic, At, MainHolds, db
    <3> QED
      BY <1>1, <2>2, <3>1
  <2>5. CASE DeleteTopicData
    <3>1. /\ data' = [data EXCEPT ![main.topic] = NoData]
          /\ data_ma[main.topic] # "later"
      BY <2>1, <2>5 DEF DeleteTopicData, SetTopic, At, MainHolds
    <3> QED
      BY <1>1, <2>2, <3>1
  <2>6. CASE \E u \in Topics, v \in Payloads, ma \in {"never", "later"} : Put(u, v, ma)
    <3>1. PICK u \in Topics, v \in Payloads : data' = [data EXCEPT ![u] = v]
      BY <2>6 DEF Put, SetTopic
    <3> QED
      BY <1>1, <2>2, <3>1, BridgeAssumption
  <2>7. CASE Update
    <3>1. data' = data \/ data' = [data EXCEPT ![mqtt.topic] = mqtt.payload]
      BY <2>7 DEF Update, SetTopic
    <3>2. mqtt.payload \in Payloads
      BY <2>1, <2>7 DEF Update, At, Places
    <3> QED
      BY <1>1, <2>2, <2>3, <3>1, <3>2, BridgeAssumption
  <2>8. CASE \E u \in Topics : Delete(u)
    <3>1. PICK u \in Topics : nodes' = nodes \ {u} /\ data' = [data EXCEPT ![u] = NoData]
      BY <2>8 DEF Delete, SetTopic
    <3> QED
      BY <1>1, <2>2, <3>1
  <2>9. CASE Rewrite
    <3>1. /\ main.at = "rewrite" /\ data' = [data EXCEPT ![main.topic] = main.payload]
      BY <2>9 DEF Rewrite, SetTopic, At
    <3> QED
      BY <1>1, <2>1, <2>2, <3>1 DEF MainHolds
  <2>10. CASE RewriteAstray
    <3>1. \/ data' = data
          \/ \E v \in Payloads : data' = [data EXCEPT ![main.topic] = v]
      BY <2>10 DEF RewriteAstray, SetTopic, Crash
    <3> QED
      BY <1>1, <2>2, <2>3, <3>1, BridgeAssumption
  <2> QED
    BY <1>1, <2>3, <2>4, <2>5, <2>6, <2>7, <2>8, <2>9, <2>10
    DEF Next, Main, MQTT, World, CheckNotify, Post, PostAgain, AddResource, Unsubscribe,
        FreeResource, Publish, MonitorLooks, FreeContext, Disconnect, Receive, Clone, Return,
        MarkDirty, TestFlag, Fill, Send, ResetDirty, Notified, ServerTakes, LoseConnection,
        RemotePublish, Lapse, Environment, Crash, db
<1>2. Steady /\ [Next]_vars => [\A t \in nodes \cap nodes' : A(t)]_vars
  BY <1>1
<1> QED
  BY <1>2, Invariant, PTL DEF Spec, PurgeSparesTheLiving
-------------------------------------------------------------------------------
(* A step that leaves data, flag and what was told as they are, and does   *)
(* not take a thread past the reading of t's content or away from it.      *)
LEMMA NothingLost ==
    ASSUME NEW t, Covered(t), data'[t] = data[t], told'[t] = told[t],
           data_ma[t] = "passed" => data_ma'[t] = "passed", t \in dirty => t \in dirty',
           \A p \in Threads : thread[p].at \in {"publish", "mark"} /\ thread[p].topic = t =>
               thread'[p].at \in {"publish", "mark"} /\ thread'[p].topic = t,
           \A p \in Threads : thread[p].at \in {"read", "send"} /\ thread[p].now = t =>
               thread'[p].at \in {"read", "send"} /\ thread'[p].now = t,
           \A p \in Threads : thread'[p].at = "send" /\ thread'[p].now = t =>
               /\ thread[p].at = "send" /\ thread[p].now = t
               /\ thread'[p].payload = thread[p].payload,
           \A p \in Threads : thread'[p].at = "reset" /\ thread'[p].now = t =>
               (thread[p].at = "reset" /\ thread[p].now = t) \/ t \notin dirty
    PROVE  Covered(t)'
<1>1. CASE data[t] = NoData \/ data_ma[t] = "passed"
  BY <1>1 DEF Covered
<1>2. CASE \E p \in Threads : thread[p].at \in {"publish", "mark"} /\ thread[p].topic = t
  BY <1>2 DEF Covered
<1>3. CASE t \in dirty /\ ~ \E p \in Threads : PastReading(p, t)
  BY <1>3 DEF Covered, PastReading
<1>4. CASE /\ \/ told[t] = data[t]
              \/ \E p \in Threads : thread[p].at \in {"read", "send"} /\ thread[p].now = t
           /\ ~ \E p \in Threads : HoldsOld(p, t)
  <2>1. ~ \E p \in Threads : HoldsOld(p, t)'
    BY <1>4 DEF HoldsOld
  <2>2. \/ told'[t] = data'[t]
        \/ \E p \in Threads : thread'[p].at \in {"read", "send"} /\ thread'[p].now = t
    BY <1>4
  <2> QED
    BY <2>1, <2>2 DEF Covered
<1> QED
  BY <1>1, <1>2, <1>3, <1>4 DEF Covered

(* No data, no news.                                                       *)
LEMMA NothingToTell ==
    ASSUME NEW t, data'[t] = NoData
    PROVE  Covered(t)'
BY DEF Covered

(* A thread that neither marks nor notifies, nor begins to notify.         *)
LEMMA OneElsewhere ==
    ASSUME NEW p \in Threads,
           thread[p].at \notin {"publish", "mark", "read", "send"},
           thread'[p].at \notin {"send", "reset"},
           \A q \in Threads : q # p =>
               \/ /\ thread'[q].at = thread[q].at /\ thread'[q].topic = thread[q].topic
                  /\ thread'[q].now = thread[q].now
                  /\ thread'[q].payload = thread[q].payload
               \/ thread[q].at = "rewrite" /\ thread'[q].at = "astray",
           NEW t, Covered(t), data'[t] = data[t], told'[t] = told[t],
           data_ma[t] = "passed" => data_ma'[t] = "passed", t \in dirty => t \in dirty'
    PROVE  Covered(t)'
<1>1. \A q \in Threads : thread[q].at \in {"publish", "mark"} /\ thread[q].topic = t =>
          thread'[q].at \in {"publish", "mark"} /\ thread'[q].topic = t
  OBVIOUS
<1>2. \A q \in Threads : thread[q].at \in {"read", "send"} /\ thread[q].now = t =>
          thread'[q].at \in {"read", "send"} /\ thread'[q].now = t
  OBVIOUS
<1>3. \A q \in Threads : thread'[q].at \in {"send", "reset"} /\ thread'[q].now = t =>
          /\ thread'[q].at = thread[q].at /\ thread[q].now = t
          /\ thread'[q].payload = thread[q].payload
  OBVIOUS
<1> QED
  BY <1>1, <1>2, <1>3, NothingLost

LEMMA CrashKeepsCovered ==
    ASSUME NEW f, NEW t, Covered(t), Crash(f)
    PROVE  Covered(t)'
BY DEF Crash, Covered, PastReading, HoldsOld

Calm == TypeOK /\ Places /\ MainHolds

(* The main thread, before it publishes.                                   *)
LEMMA MainBegins ==
    ASSUME TypeOK, NEW step \in {"add", "unsubscribe", "purge", "disconnect"},
           NEW u \in Topics \cup {NoTopic}, Begin("main", step, u, NoData), main.at = "idle",
           NEW t, Covered(t), data'[t] = data[t], data_ma'[t] = data_ma[t],
           UNCHANGED <<told, dirty>>
    PROVE  Covered(t)'
<1>1. step \in Steps /\ NoData \in Content
  BY DEF Steps, Content
<1>2. main'.at = step /\ mqtt' = mqtt
  BY <1>1, BeginMoves, TwoThreads
<1>3. \A q \in Threads : q # "main" => thread'[q] = thread[q]
  BY <1>2, TwoThreads DEF Threads
<1> QED
  BY <1>2, <1>3, OneElsewhere, TwoThreads

LEMMA PostCovers ==
    ASSUME Calm, NEW u \in Topics, Post(u), NEW t, Covered(t) PROVE Covered(t)'
BY MainBegins DEF Calm, Post, At, db

LEMMA DeleteCovers ==
    ASSUME Calm, NEW u \in Topics, Delete(u), NEW t \in nodes', Covered(t) PROVE Covered(t)'
<1>1. /\ Begin("main", "unsubscribe", u, NoData) /\ main.at = "idle" /\ TypeOK
      /\ UNCHANGED <<told, dirty>>
  BY DEF Calm, Delete, At
<1>2. data'[t] = data[t] /\ data_ma'[t] = data_ma[t]
  BY DEF Calm, TypeOK, Delete, SetTopic
<1> QED
  BY <1>1, <1>2, MainBegins

LEMMA MonitorLooksCovers ==
    ASSUME Calm, NEW u \in Topics, MonitorLooks(u), NEW t, Covered(t) PROVE Covered(t)'
BY MainBegins DEF Calm, MonitorLooks, At, db

LEMMA FreeContextCovers ==
    ASSUME Calm, FreeContext, NEW t, Covered(t) PROVE Covered(t)'
BY MainBegins DEF Calm, FreeContext, At, db

LEMMA AddResourceCovers ==
    ASSUME Calm, AddResource, NEW t, Covered(t)
    PROVE  Covered(t)'
<1> DEFINE u == main.topic
           s == [main EXCEPT !.at = "node"]
           todo == IF mqtt.after = NoTopic THEN mqtt.todo ELSE mqtt.todo \cup {u}
<1>1. TypeOK /\ main.at = "add" /\ UNCHANGED <<data, data_ma, dirty, told>> /\ u \in Topics
  BY DEF Calm, AddResource, At, db, Places
<1>2. main \in ThreadStates /\ mqtt \in ThreadStates
  BY <1>1, TwoThreads DEF TypeOK
<1>3. s \in ThreadStates /\ s.at = "node"
  BY <1>2 DEF ThreadStates, Steps
<1>4. todo \in SUBSET Topics
  BY <1>1, <1>2 DEF ThreadStates
<1>5. thread' = [thread EXCEPT !["main"] = s, !["mqtt"].todo = todo]
  BY Zenon DEF AddResource
<1> HIDE DEF s, todo
<1>6. /\ main' = s
      /\ mqtt'.at = mqtt.at /\ mqtt'.topic = mqtt.topic /\ mqtt'.payload = mqtt.payload
      /\ mqtt'.now = mqtt.now
  BY <1>1, <1>3, <1>4, <1>5, BothMove
<1>7. \A q \in Threads : q # "main" => q = "mqtt"
  BY DEF Threads
<1> QED
  BY <1>1, <1>3, <1>6, <1>7, OneElsewhere, TwoThreads

LEMMA AddNodeCovers ==
    ASSUME Calm, AddNode, NEW t \in Topics, Covered(t)
    PROVE  Covered(t)'
<1>1. /\ TypeOK /\ main.at = "node" /\ End("main") /\ UNCHANGED <<dirty, told>>
      /\ \/ UNCHANGED <<data, data_ma>>
         \/ /\ data' = [data EXCEPT ![main.topic] = NoData]
            /\ data_ma' = [data_ma EXCEPT ![main.topic] = "never"]
      /\ main.topic \in Topics
  BY DEF Calm, AddNode, At, db, SetTopic, Places
<1>2. main'.at = "idle" /\ \A q \in Threads : q # "main" => thread'[q] = thread[q]
  BY <1>1, EndMoves, TwoThreads
<1>3. data \in [Topics -> Content] /\ data_ma \in [Topics -> Deadlines]
  BY <1>1 DEF TypeOK
<1>4. CASE UNCHANGED <<data, data_ma>>
  BY <1>1, <1>2, <1>4, OneElsewhere, TwoThreads
<1>5. CASE t = main.topic /\ data' = [data EXCEPT ![main.topic] = NoData]
  BY <1>1, <1>2, <1>3, <1>5, NothingToTell, OneElsewhere, TwoThreads
<1>6. CASE /\ t # main.topic
           /\ data' = [data EXCEPT ![main.topic] = NoData]
           /\ data_ma' = [data_ma EXCEPT ![main.topic] = "never"]
  <2>1. data'[t] = data[t] /\ data_ma'[t] = data_ma[t]
    BY <1>3, <1>6
  <2> QED
    BY <1>1, <1>2, <2>1, OneElsewhere, TwoThreads
<1> QED
  BY <1>1, <1>4, <1>5, <1>6

LEMMA PostAgainCovers ==
    ASSUME Calm, NEW u \in Topics, PostAgain(u), NEW t, Covered(t)
    PROVE  Covered(t)'
<1> DEFINE s == [Idle EXCEPT !.at = "rewrite", !.topic = u, !.payload = data[u],
                             !.ma = data_ma[u]]
<1>1. /\ main.at = "idle" /\ thread' = [thread EXCEPT !["main"] = s]
      /\ UNCHANGED <<data, data_ma, dirty, told>> /\ thread \in [Threads -> ThreadStates]
  BY DEF Calm, TypeOK, PostAgain, At, db
<1>2. s.at = "rewrite"
  BY DEF Idle
<1> HIDE DEF s
<1>3. main' = s /\ \A q \in Threads : q # "main" => thread'[q] = thread[q]
  BY <1>1, TwoThreads
<1> QED
  BY <1>1, <1>2, <1>3, OneElsewhere, TwoThreads

(* A POST writes back what is there, or a NULL pointer.                    *)
LEMMA RewriteCovers ==
    ASSUME Calm, Rewrite, NEW t \in Topics, Covered(t)
    PROVE  Covered(t)'
<1>1. /\ TypeOK /\ main.at = "rewrite" /\ End("main") /\ UNCHANGED <<dirty, told>>
      /\ data' = [data EXCEPT ![main.topic] = main.payload]
      /\ data_ma' = [data_ma EXCEPT ![main.topic] = main.ma]
      /\ main.topic \in Topics
      /\ \/ main.payload = NoData
         \/ data[main.topic] = main.payload /\ data_ma[main.topic] = main.ma
  BY DEF Calm, Rewrite, At, SetTopic, Places, MainHolds
<1>2. main'.at = "idle" /\ \A q \in Threads : q # "main" => thread'[q] = thread[q]
  BY <1>1, EndMoves, TwoThreads
<1>3. data \in [Topics -> Content] /\ data_ma \in [Topics -> Deadlines]
  BY <1>1 DEF TypeOK
<1>4. CASE t = main.topic
  <2>1. data'[t] = main.payload /\ data_ma'[t] = main.ma
    BY <1>1, <1>3, <1>4
  <2> QED
    BY <1>1, <1>2, <1>4, <2>1, NothingToTell, OneElsewhere, TwoThreads
<1>5. CASE t # main.topic
  <2>1. data'[t] = data[t] /\ data_ma'[t] = data_ma[t]
    BY <1>1, <1>3, <1>5
  <2> QED
    BY <1>1, <1>2, <2>1, OneElsewhere, TwoThreads
<1> QED
  BY <1>4, <1>5

LEMMA RewriteAstrayCovers ==
    ASSUME Calm, RewriteAstray, NEW t, Covered(t), ~ WritesAstray(t)
    PROVE  Covered(t)'
<1>1. CASE Crash("freed_data")
  BY <1>1, CrashKeepsCovered
<1>2. CASE ~ Crash("freed_data")
  <2>1. TypeOK /\ main.at = "astray" /\ End("main") /\ UNCHANGED <<dirty, told>>
    BY <1>2 DEF Calm, RewriteAstray, At
  <2>2. PICK v \in Payloads, ma \in {main.ma, "never"} :
            /\ data' = [data EXCEPT ![main.topic] = v]
            /\ data_ma' = [data_ma EXCEPT ![main.topic] = ma]
    BY <1>2 DEF RewriteAstray, SetTopic
  <2>3. main'.at = "idle" /\ \A q \in Threads : q # "main" => thread'[q] = thread[q]
    BY <2>1, EndMoves, TwoThreads
  <2>4. t # main.topic
    BY <2>1, <2>3 DEF WritesAstray
  <2>5. data'[t] = data[t] /\ data_ma'[t] = data_ma[t]
    BY <2>1, <2>2, <2>4 DEF TypeOK
  <2> QED
    BY <2>1, <2>3, <2>5, OneElsewhere, TwoThreads
<1> QED
  BY <1>1, <1>2

LEMMA UnsubscribeCovers ==
    ASSUME Calm, Unsubscribe, NEW t, Covered(t)
    PROVE  Covered(t)'
<1>1. /\ TypeOK /\ main.at = "unsubscribe" /\ Goto("main", "free") /\ "free" \in Steps
      /\ UNCHANGED <<data, data_ma, dirty, told>>
  BY DEF Calm, Unsubscribe, At, db, Steps
<1>2. main'.at = "free" /\ \A q \in Threads : q # "main" => thread'[q] = thread[q]
  BY <1>1, GotoMoves, TwoThreads
<1> QED
  BY <1>1, <1>2, OneElsewhere, TwoThreads

LEMMA FreeResourceCovers ==
    ASSUME Calm, FreeResource, NEW t \in nodes, Covered(t)
    PROVE  Covered(t)'
<1> DEFINE todo == mqtt.todo \ {main.topic}
<1>1. /\ TypeOK /\ main.at = "free" /\ UNCHANGED <<data, data_ma>> /\ main.topic # t
      /\ dirty' = dirty \ {main.topic} /\ told' = [told EXCEPT ![main.topic] = NoData]
  BY DEF Calm, FreeResource, At, db, MainHolds
<1>2. mqtt \in ThreadStates
  BY <1>1, TwoThreads DEF TypeOK
<1>3. todo \in SUBSET Topics
  BY <1>2 DEF ThreadStates
<1>4. thread' = [thread EXCEPT !["main"] = Idle, !["mqtt"].todo = todo]
  BY Zenon DEF FreeResource
<1> HIDE DEF todo
<1>5. /\ main' = Idle
      /\ mqtt'.at = mqtt.at /\ mqtt'.topic = mqtt.topic /\ mqtt'.payload = mqtt.payload
      /\ mqtt'.now = mqtt.now
  BY <1>1, <1>3, <1>4, IdleState, BothMove
<1>6. \A q \in Threads : q # "main" => q = "mqtt"
  BY DEF Threads
<1>7. told'[t] = told[t] /\ (t \in dirty => t \in dirty')
  BY <1>1 DEF TypeOK
<1> QED
  BY <1>1, <1>5, <1>6, <1>7, IdleState, OneElsewhere, TwoThreads

LEMMA DeleteTopicDataCovers ==
    ASSUME Calm, DeleteTopicData, NEW t, Covered(t)
    PROVE  Covered(t)'
<1>1. /\ TypeOK /\ main.at = "purge" /\ End("main") /\ UNCHANGED <<dirty, told>>
      /\ data' = [data EXCEPT ![main.topic] = NoData]
      /\ data_ma' = [data_ma EXCEPT ![main.topic] = "never"]
      /\ main.topic \in Topics
  BY DEF Calm, DeleteTopicData, At, SetTopic, Places
<1>2. main'.at = "idle" /\ \A q \in Threads : q # "main" => thread'[q] = thread[q]
  BY <1>1, EndMoves, TwoThreads
<1>3. data'[t] = NoData \/ (data'[t] = data[t] /\ data_ma'[t] = data_ma[t])
  BY <1>1 DEF TypeOK
<1> QED
  BY <1>1, <1>2, <1>3, NothingToTell, OneElsewhere, TwoThreads

LEMMA DisconnectCovers ==
    ASSUME Calm, Disconnect, NEW t, Covered(t)
    PROVE  Covered(t)'
<1>1. /\ TypeOK /\ main.at = "disconnect" /\ Goto("main", "ended") /\ "ended" \in Steps
      /\ UNCHANGED <<data, data_ma, dirty, told>>
  BY DEF Calm, Disconnect, At, db, Steps
<1>2. main'.at = "ended" /\ \A q \in Threads : q # "main" => thread'[q] = thread[q]
  BY <1>1, GotoMoves, TwoThreads
<1> QED
  BY <1>1, <1>2, OneElsewhere, TwoThreads

(* A PUT stores, and will mark the resource; so does a publication.        *)
LEMMA PutCovers ==
    ASSUME Calm, NEW u \in Topics, NEW v \in Payloads, NEW ma \in {"never", "later"},
           Put(u, v, ma), NEW t, Covered(t)
    PROVE  Covered(t)'
<1>1. /\ TypeOK /\ main.at = "idle" /\ Begin("main", "publish", u, v)
      /\ data' = [data EXCEPT ![u] = v] /\ data_ma' = [data_ma EXCEPT ![u] = ma]
      /\ UNCHANGED <<dirty, told>> /\ "publish" \in Steps /\ v \in Content
  BY DEF Calm, Put, At, SetTopic, Steps, Content
<1>2. /\ main'.at = "publish" /\ main'.topic = u
      /\ \A q \in Threads : q # "main" => thread'[q] = thread[q]
  BY <1>1, BeginMoves, TwoThreads
<1>3. CASE t = u
  BY <1>2, <1>3, TwoThreads DEF Covered
<1>4. CASE t # u
  <2>1. data'[t] = data[t] /\ data_ma'[t] = data_ma[t]
    BY <1>1, <1>4 DEF TypeOK
  <2> QED
    BY <1>1, <1>2, <2>1, OneElsewhere, TwoThreads
<1> QED
  BY <1>3, <1>4

LEMMA PublishCovers ==
    ASSUME Calm, Publish, NEW t, Covered(t)
    PROVE  Covered(t)'
<1>1. /\ TypeOK /\ main.at = "publish" /\ Goto("main", "mark") /\ "mark" \in Steps
      /\ UNCHANGED <<data, data_ma, dirty, told>>
  BY DEF Calm, Publish, At, db, Steps
<1>2. /\ main'.at = "mark" /\ main'.topic = main.topic
      /\ \A q \in Threads : q # "main" => thread'[q] = thread[q]
  BY <1>1, GotoMoves, TwoThreads
<1> QED
  BY <1>1, <1>2, NothingLost
-------------------------------------------------------------------------------
(* msgarrvd, up to the mark.                                               *)
LEMMA ReceiveCovers ==
    ASSUME Calm, Receive, NEW t, Covered(t)
    PROVE  Covered(t)'
<1> DEFINE m == Head(inbox)
<1>1. mqtt.at = "idle" /\ inbox # <<>> /\ TypeOK
  BY DEF Calm, Receive, At
<1>2. \/ \E f \in Faults : Crash(f)
      \/ Begin("mqtt", "clone", m.topic, m.payload) /\ UNCHANGED <<data, data_ma, dirty, told>>
  BY DEF Receive, db, Faults
<1>3. CASE Begin("mqtt", "clone", m.topic, m.payload) /\ UNCHANGED <<data, data_ma, dirty, told>>
  <2>1. m \in MQTTMessages
    BY <1>1, HeadTailProperties DEF TypeOK
  <2>2. m.topic \in Topics \cup {NoTopic} /\ m.payload \in Content /\ "clone" \in Steps
    BY <2>1 DEF MQTTMessages, Content, Steps
  <2>3. mqtt'.at = "clone" /\ \A q \in Threads : q # "mqtt" => thread'[q] = thread[q]
    BY <1>1, <1>3, <2>2, BeginMoves, TwoThreads
  <2> QED
    BY <1>1, <1>3, <2>3, OneElsewhere, TwoThreads
<1> QED
  BY <1>2, <1>3, CrashKeepsCovered

LEMMA CloneCovers ==
    ASSUME Calm, Clone, NEW t, Covered(t)
    PROVE  Covered(t)'
<1>1. mqtt.at = "clone" /\ TypeOK
  BY DEF Calm, Clone, At
<1>2. \/ \E f \in Faults : Crash(f)
      \/ /\ \E step \in {"update", "done"} : Goto("mqtt", step)
         /\ UNCHANGED <<data, data_ma, dirty, told>>
  BY DEF Clone, db, Faults
<1>3. ASSUME NEW step \in {"update", "done"}, Goto("mqtt", step),
             UNCHANGED <<data, data_ma, dirty, told>>
      PROVE  Covered(t)'
  <2>1. step \in Steps
    BY DEF Steps
  <2>2. mqtt'.at = step /\ \A q \in Threads : q # "mqtt" => thread'[q] = thread[q]
    BY <1>1, <1>3, <2>1, GotoMoves, TwoThreads
  <2> QED
    BY <1>1, <1>3, <2>2, OneElsewhere, TwoThreads
<1> QED
  BY <1>2, <1>3, CrashKeepsCovered

LEMMA UpdateCovers ==
    ASSUME Calm, Update, NEW t \in Topics, Covered(t)
    PROVE  Covered(t)'
<1>1. /\ mqtt.at = "update" /\ TypeOK /\ Replaced("mark") /\ UNCHANGED <<dirty, told>>
      /\ \/ UNCHANGED <<data, data_ma>>
         \/ /\ data' = [data EXCEPT ![mqtt.topic] = mqtt.payload]
            /\ data_ma' = [data_ma EXCEPT ![mqtt.topic] = "never"]
  BY DEF Calm, Update, At, SetTopic
<1>2. /\ mqtt'.at = "mark" /\ mqtt'.topic = mqtt.topic
      /\ main'.topic = main.topic /\ main'.payload = main.payload /\ main'.now = main.now
      /\ main'.at = main.at \/ (main.at = "rewrite" /\ main'.at = "astray")
  BY <1>1, ReplacedMoves
<1>3. CASE t = mqtt.topic
  BY <1>2, <1>3, TwoThreads DEF Covered
<1>4. CASE t # mqtt.topic
  <2>0. data \in [Topics -> Content] /\ data_ma \in [Topics -> Deadlines]
    BY <1>1 DEF TypeOK
  <2>1. data'[t] = data[t] /\ data_ma'[t] = data_ma[t]
    BY <1>1, <1>4, <2>0
  <2>2. \A q \in Threads : q # "mqtt" => q = "main"
    BY DEF Threads
  <2> QED
    BY <1>1, <1>2, <2>1, <2>2, OneElsewhere, TwoThreads
<1> QED
  BY <1>3, <1>4

LEMMA ReturnCovers ==
    ASSUME Calm, Return, NEW t, Covered(t)
    PROVE  Covered(t)'
<1>1. mqtt.at = "done" /\ TypeOK /\ End("mqtt") /\ UNCHANGED <<data, data_ma, dirty, told>>
  BY DEF Calm, Return, At, db
<1>2. mqtt'.at = "idle" /\ \A q \in Threads : q # "mqtt" => thread'[q] = thread[q]
  BY <1>1, EndMoves, TwoThreads
<1> QED
  BY <1>1, <1>2, OneElsewhere, TwoThreads
-------------------------------------------------------------------------------
(* Whoever marks gives the resource its flag; it will be seen, unless the  *)
(* other one has read the content already.                                 *)
LEMMA MarkDirtyCovers ==
    ASSUME Calm, NEW p \in Threads, MarkDirty(p), NEW t, Covered(t), ~ FlagSetBeforeReset(t)
    PROVE  Covered(t)'
<1>1. CASE Crash("freed_resource")
  BY <1>1, CrashKeepsCovered
<1>2. CASE ~ Crash("freed_resource")
  <2>1. /\ TypeOK /\ thread[p].at = "mark" /\ dirty' = dirty \cup {thread[p].topic}
        /\ UNCHANGED <<data, data_ma, told>>
    BY <1>2 DEF Calm, MarkDirty, At, db
  <2>2. PICK r \in resources : Iterate(p, "notify", NoTopic, r, resources \ {r})
    BY <1>2 DEF MarkDirty
  <2>3. r \in Topics /\ resources \ {r} \in SUBSET Topics /\ "notify" \in Steps
    BY <2>1 DEF TypeOK, Steps
  <2>4. /\ thread'[p].at = "notify"
        /\ \A q \in Threads : q # p => thread'[q] = thread[q]
    BY <2>1, <2>2, <2>3, IterateMoves
  <2>5. CASE thread[p].topic = t
    <3>1. t \in dirty' /\ \A q \in Threads : ~ PastReading(q, t)
      BY <2>1, <2>4, <2>5 DEF FlagSetBeforeReset
    <3>2. \A q \in Threads : ~ PastReading(q, t)'
      BY <2>4, <3>1 DEF PastReading
    <3> QED
      BY <3>1, <3>2 DEF Covered
  <2>6. CASE thread[p].topic # t
    <3>1. \A q \in Threads : thread[q].at \in {"publish", "mark"} /\ thread[q].topic = t =>
              thread'[q].at \in {"publish", "mark"} /\ thread'[q].topic = t
      BY <2>4, <2>6
    <3>2. \A q \in Threads : thread[q].at \in {"read", "send"} /\ thread[q].now = t =>
              thread'[q].at \in {"read", "send"} /\ thread'[q].now = t
      BY <2>1, <2>4
    <3>3. \A q \in Threads : thread'[q].at \in {"send", "reset"} => thread'[q] = thread[q]
      BY <2>4
    <3> QED
      BY <2>1, <3>1, <3>2, <3>3, NothingLost
  <2> QED
    BY <2>5, <2>6
<1> QED
  BY <1>1, <1>2

(* Only a flag that is not set is passed by.                               *)
LEMMA TestFlagCovers ==
    ASSUME Calm, NEW p \in Threads, TestFlag(p), NEW t, Covered(t)
    PROVE  Covered(t)'
<1> DEFINE r == thread[p].after
           step == IF r \in dirty THEN "read" ELSE "reset"
<1>1. CASE Crash("freed_resource")
  BY <1>1, CrashKeepsCovered
<1>2. CASE ~ Crash("freed_resource")
  <2>1. /\ TypeOK /\ thread[p].at = "notify" /\ thread[p] \in ThreadStates
        /\ UNCHANGED <<data, data_ma, dirty, told>>
    BY <1>2 DEF Calm, TestFlag, At, db, TypeOK
  <2>2. PICK next \in Fetch(thread[p].todo) :
            Iterate(p, step, r, next, thread[p].todo \ {next})
    BY <1>2 DEF TestFlag
  <2>3. /\ r \in Topics \cup {NoTopic} /\ next \in Topics \cup {NoTopic}
        /\ thread[p].todo \ {next} \in SUBSET Topics /\ step \in Steps
    BY <2>1, <2>2 DEF ThreadStates, Fetch, Steps
  <2>4. /\ thread'[p].at = step /\ thread'[p].now = r
        /\ \A q \in Threads : q # p => thread'[q] = thread[q]
    BY <2>1, <2>2, <2>3, IterateMoves
  <2>5. \A q \in Threads : thread[q].at \in {"publish", "mark", "read", "send"} =>
            thread'[q] = thread[q]
    BY <2>1, <2>4
  <2>6. \A q \in Threads : thread'[q].at = "send" => thread'[q] = thread[q]
    BY <2>4
  <2>7. \A q \in Threads : thread'[q].at = "reset" /\ thread'[q].now = t =>
            (thread[q].at = "reset" /\ thread[q].now = t) \/ t \notin dirty
    BY <2>4
  <2> QED
    BY <2>1, <2>5, <2>6, <2>7, NothingLost
<1> QED
  BY <1>1, <1>2

(* What is read is what there is.                                          *)
LEMMA FillCovers ==
    ASSUME Calm, NEW p \in Threads, Fill(p), NEW t \in nodes, Covered(t)
    PROVE  Covered(t)'
<1> DEFINE r == thread[p].now
<1>1. CASE Crash("freed_resource")
  BY <1>1, CrashKeepsCovered
<1>2. CASE ~ Crash("freed_resource")
  <2>1. /\ TypeOK /\ thread[p].at = "read" /\ r \in resources
        /\ thread' = [thread EXCEPT ![p].at = "send", ![p].payload = Answer(r)]
        /\ UNCHANGED <<data, data_ma, dirty, told>>
    BY <1>2 DEF Calm, Fill, At, db
  <2>2. Answer(r) \in Content
    BY <2>1, AnswerIsContent DEF TypeOK
  <2>3. /\ thread'[p].at = "send" /\ thread'[p].now = r /\ thread'[p].payload = Answer(r)
        /\ \A q \in Threads : q # p => thread'[q] = thread[q]
    BY <2>1, <2>2, FillMoves
  <2>4. \A q \in Threads : thread[q].at \in {"publish", "mark"} => thread'[q] = thread[q]
    BY <2>1, <2>3
  <2>5. CASE r = t
    <3>1. CASE data[t] = NoData \/ data_ma[t] = "passed"
      BY <2>1, <3>1 DEF Covered
    <3>2. CASE \E q \in Threads : thread[q].at \in {"publish", "mark"} /\ thread[q].topic = t
      BY <2>4, <3>2 DEF Covered
    <3>3. CASE /\ data_ma[t] # "passed"
               /\ \A q \in Threads : ~ HoldsOld(q, t) \/ ~ PastReading(q, t)
      <4>1. thread'[p].payload = data[t]
        BY <2>3, <2>5, <3>3 DEF Answer
      <4>2. \A q \in Threads : ~ HoldsOld(q, t)'
        BY <2>1, <2>3, <3>3, <4>1 DEF HoldsOld, PastReading
      <4> QED
        BY <2>3, <2>5, <4>2 DEF Covered
    <3> QED
      BY <3>1, <3>2, <3>3 DEF Covered
  <2>6. CASE r # t
    <3>1. \A q \in Threads : thread[q].at \in {"read", "send"} /\ thread[q].now = t =>
              thread'[q] = thread[q]
      BY <2>3, <2>6
    <3>2. \A q \in Threads : thread'[q].at \in {"send", "reset"} /\ thread'[q].now = t =>
              thread'[q] = thread[q]
      BY <2>3, <2>6
    <3> QED
      BY <2>1, <2>4, <3>1, <3>2, NothingLost
  <2> QED
    BY <2>5, <2>6
<1> QED
  BY <1>1, <1>2

(* What is sent is what there is, unless somebody held something older.    *)
LEMMA SendCovers ==
    ASSUME Calm, NEW p \in Threads, Send(p), NEW t, Covered(t)
    PROVE  Covered(t)'
<1> DEFINE r == thread[p].now
<1>1. CASE Crash("freed_resource")
  BY <1>1, CrashKeepsCovered
<1>2. CASE ~ Crash("freed_resource")
  <2>1. /\ TypeOK /\ thread[p].at = "send" /\ r \in Topics
        /\ told' = [told EXCEPT ![r] = thread[p].payload]
        /\ Goto(p, "reset") /\ "reset" \in Steps
        /\ UNCHANGED <<data, data_ma, dirty>>
    BY <1>2 DEF Calm, TypeOK, Send, At, db, Steps
  <2>2. /\ thread'[p].at = "reset" /\ thread'[p].now = r
        /\ \A q \in Threads : q # p => thread'[q] = thread[q]
    BY <2>1, GotoMoves
  <2>3. \A q \in Threads : thread[q].at \in {"publish", "mark"} => thread'[q] = thread[q]
    BY <2>1, <2>2
  <2>4. CASE r = t
    <3>1. CASE data[t] = NoData \/ data_ma[t] = "passed"
      BY <2>1, <3>1 DEF Covered
    <3>2. CASE \E q \in Threads : thread[q].at \in {"publish", "mark"} /\ thread[q].topic = t
      BY <2>3, <3>2 DEF Covered
    <3>3. CASE \A q \in Threads : ~ HoldsOld(q, t)
      <4>1. thread[p].payload = data[t]
        BY <2>1, <2>4, <3>3 DEF HoldsOld
      <4>2. told'[t] = data'[t]
        BY <2>1, <2>4, <4>1 DEF TypeOK
      <4>3. \A q \in Threads : ~ HoldsOld(q, t)'
        BY <2>1, <2>2, <3>3 DEF HoldsOld
      <4> QED
        BY <4>2, <4>3 DEF Covered
    <3>4. PastReading(p, t)
      BY <2>1, <2>4 DEF PastReading
    <3> QED
      BY <3>1, <3>2, <3>3, <3>4 DEF Covered
  <2>5. CASE r # t
    <3>1. told'[t] = told[t]
      BY <2>1, <2>5 DEF TypeOK
    <3>2. \A q \in Threads : thread[q].at \in {"read", "send"} /\ thread[q].now = t =>
              thread'[q] = thread[q]
      BY <2>2, <2>5
    <3>3. \A q \in Threads : thread'[q].at \in {"send", "reset"} /\ thread'[q].now = t =>
              thread'[q] = thread[q]
      BY <2>2, <2>5
    <3> QED
      BY <2>1, <2>3, <3>1, <3>2, <3>3, NothingLost
  <2> QED
    BY <2>4, <2>5
<1> QED
  BY <1>1, <1>2

(* The flag that is reset is not needed.                                   *)
LEMMA ResetDirtyCovers ==
    ASSUME Calm, NEW p \in Threads, ResetDirty(p), NEW t, Covered(t)
    PROVE  Covered(t)'
<1> DEFINE r == thread[p].now
<1>1. CASE Crash("freed_resource")
  BY <1>1, CrashKeepsCovered
<1>2. CASE ~ Crash("freed_resource")
  <2>1. /\ TypeOK /\ thread[p].at = "reset" /\ dirty' = dirty \ {r}
        /\ Iterate(p, "notify", NoTopic, thread[p].after, thread[p].todo)
        /\ UNCHANGED <<data, data_ma, told>>
    BY <1>2 DEF Calm, ResetDirty, At, db
  <2>2. "notify" \in Steps /\ thread[p].after \in Topics \cup {NoTopic}
        /\ thread[p].todo \in SUBSET Topics
    BY <2>1 DEF TypeOK, ThreadStates, Steps
  <2>3. /\ thread'[p].at = "notify"
        /\ \A q \in Threads : q # p => thread'[q] = thread[q]
    BY <2>1, <2>2, IterateMoves
  <2>4. \A q \in Threads : thread[q].at \in {"publish", "mark", "read", "send"} =>
            thread'[q] = thread[q]
    BY <2>1, <2>3
  <2>5. \A q \in Threads : thread'[q].at \in {"send", "reset"} => thread'[q] = thread[q]
    BY <2>3
  <2>6. CASE r # t
    <3>1. t \in dirty => t \in dirty'
      BY <2>1, <2>6
    <3> QED
      BY <2>1, <2>4, <2>5, <3>1, NothingLost
  <2>7. CASE r = t
    <3>1. PastReading(p, t)
      BY <2>1, <2>7 DEF PastReading
    <3>2. \A q \in Threads : HoldsOld(q, t)' => HoldsOld(q, t)
      BY <2>1, <2>5 DEF HoldsOld
    <3> QED
      BY <2>1, <2>4, <3>1, <3>2 DEF Covered
  <2> QED
    BY <2>6, <2>7
<1> QED
  BY <1>1, <1>2

LEMMA NotifiedCovers ==
    ASSUME Calm, NEW p \in Threads, Notified(p), NEW t, Covered(t)
    PROVE  Covered(t)'
<1>1. TypeOK /\ thread[p].at = "notify" /\ UNCHANGED <<data, data_ma, dirty, told>>
  BY DEF Calm, Notified, At, db
<1>2. /\ thread'[p].at \in {"idle", "done"}
      /\ \A q \in Threads : q # p => thread'[q] = thread[q]
  BY <1>1, NotifiedMoves
<1> QED
  BY <1>1, <1>2, OneElsewhere

LEMMA WorldCovers ==
    ASSUME Calm, World, NEW t \in Topics, Covered(t)
    PROVE  Covered(t)'
<1>1. CASE \E u \in Topics : Lapse(u)
  <2>1. PICK u \in Topics : Lapse(u)
    BY <1>1
  <2>2. /\ mqtt' = mqtt /\ main'.at = main.at /\ main'.topic = main.topic
        /\ main'.payload = main.payload /\ main'.now = main.now
        /\ data_ma'[u] = Past(data_ma[u])
        /\ \A w \in Topics : w # u => data_ma'[w] = data_ma[w]
        /\ UNCHANGED <<data, dirty, told>>
    BY <2>1, LapseMoves DEF Calm
  <2>3. data_ma[t] = "passed" => data_ma'[t] = "passed"
    BY <2>2 DEF Past
  <2>4. \A q \in Threads :
            /\ thread'[q].at = thread[q].at /\ thread'[q].topic = thread[q].topic
            /\ thread'[q].now = thread[q].now /\ thread'[q].payload = thread[q].payload
    BY <2>2 DEF Threads
  <2> QED
    BY <2>2, <2>3, <2>4, NothingLost
<1>2. CASE ~ \E u \in Topics : Lapse(u)
  <2>1. UNCHANGED <<data, data_ma, dirty, thread, told>>
    BY <1>2 DEF World, ServerTakes, LoseConnection, RemotePublish, Environment
  <2> QED
    BY <2>1 DEF Covered, PastReading, HoldsOld
<1> QED
  BY <1>1, <1>2

LEMMA StaysCovered ==
    ASSUME Steady, [Next]_vars, NEW t \in nodes \cap nodes', Covered(t),
           ~ FlagSetBeforeReset(t), ~ WritesAstray(t)
    PROVE  Covered(t)'
<1>0. Calm /\ t \in Topics
  BY DEF Steady, IInv, Calm, TypeOK
<1>1. CASE Main
  <2>1. ASSUME NEW u \in Topics, Post(u) \/ PostAgain(u) \/ Delete(u) \/ MonitorLooks(u)
        PROVE  Covered(t)'
    BY <1>0, <2>1, PostCovers, PostAgainCovers, DeleteCovers, MonitorLooksCovers
  <2>2. ASSUME NEW u \in Topics, NEW v \in Payloads, NEW ma \in {"never", "later"},
               Put(u, v, ma)
        PROVE  Covered(t)'
    BY <1>0, <2>2, PutCovers
  <2>3. CASE AddResource \/ AddNode \/ Rewrite \/ RewriteAstray \/ Unsubscribe
    BY <1>0, <2>3, AddResourceCovers, AddNodeCovers, RewriteCovers, RewriteAstrayCovers,
       UnsubscribeCovers
  <2>4. CASE FreeResource \/ Publish \/ DeleteTopicData \/ FreeContext \/ Disconnect
    BY <1>0, <2>4, FreeResourceCovers, PublishCovers, DeleteTopicDataCovers,
       FreeContextCovers, DisconnectCovers
  <2> QED
    BY <1>1, <2>1, <2>2, <2>3, <2>4 DEF Main
<1>2. CASE MQTT
  BY <1>0, <1>2, ReceiveCovers, CloneCovers, UpdateCovers, ReturnCovers DEF MQTT
<1>3. CASE World
  BY <1>0, <1>3, WorldCovers
<1>4. ASSUME NEW p \in Threads, CheckNotify(p) PROVE Covered(t)'
  BY <1>0, <1>4, MarkDirtyCovers, TestFlagCovers, FillCovers, SendCovers, ResetDirtyCovers,
     NotifiedCovers DEF CheckNotify
<1>5. CASE UNCHANGED vars
  BY <1>5 DEF vars, Covered, PastReading, HoldsOld
<1> QED
  BY <1>1, <1>2, <1>3, <1>4, <1>5 DEF Next

(* What the property is for: as long as all observers are covered, at rest *)
(* they have been told of every change.                                    *)
LEMMA CoveredAtRest ==
    ASSUME Steady, \A t \in nodes : Covered(t)
    PROVE  ChangeToldOrDirty
<1> SUFFICES ASSUME Quiet, NEW t \in resources, t \notin dirty, Answer(t) # NoData
             PROVE  Answer(t) = told[t]
  BY DEF ChangeToldOrDirty
<1>1. \A p \in Threads : thread[p].at = "idle"
  BY DEF Quiet
<1>2. t \in nodes /\ data_ma[t] # "passed" /\ Answer(t) = data[t] /\ data[t] # NoData
  BY DEF Answer
<1> QED
  BY <1>1, <1>2 DEF Covered

(* The race between a flag and a round that has read the content, and a    *)
(* POST that writes astray, are the only ways to lose a notification: a    *)
(* topic whose observers know its data or will, stays such a topic in      *)
(* every other step, whatever the threads, the connection and the messages *)
(* do.                                                                     *)
THEOREM OnlyTwoWaysLose == Spec => OnlyTheseLose
<1> DEFINE Lost(t) == Covered(t) /\ ~ Covered(t)' => FlagSetBeforeReset(t) \/ WritesAstray(t)
<1>1. Steady /\ [Next]_vars => [\A t \in nodes \cap nodes' : Lost(t)]_vars
  BY StaysCovered
<1> QED
  BY <1>1, Invariant, PTL DEF Spec, OnlyTheseLose
==============================================================================
