------------------------------- MODULE Observe -------------------------------
(***************************************************************************)
(* Subscriptions and notifications: the Observe option in handle_request   *)
(* (net.c), coap_check_notify (resource.c) that hnd_put_topic calls, and   *)
(* the acknowledgements and resets that coap_dispatch receives.            *)
(*                                                                         *)
(* Everything here happens in the main thread, one packet at a time.  The  *)
(* database is reduced to the data that a GET would answer with: a topic's *)
(* lease and the monitors are in CoapBroker, and appear here as topics     *)
(* that go and data that expires.  A message in the queue of unconfirmed   *)
(* messages is identified by its receiver, topic and Observe number, which *)
(* stand for its message id.  The main loop has no timer and never calls   *)
(* coap_retransmit: a message whose ACK is lost stays in the queue.        *)
(***************************************************************************)
EXTENDS Integers, Sequences, FiniteSets

CONSTANTS
    Topics,             \* the topics that may have a resource
    Observers,          \* pairs of a client's address and a token
    Payloads,           \* payloads of a PUT
    NoData,             \* the content of a topic without data (2.04)
    COAP_OBS_MAX_NON,   \* NON notifications in a row (5 unless configured)
    MaxObserve          \* bound: the last Observe number that is explored

ASSUME ObserveAssumption ==
    /\ IsFiniteSet(Topics)
    /\ NoData \notin Payloads
    /\ COAP_OBS_MAX_NON \in 1 .. 15
    /\ MaxObserve \in Nat

VARIABLES
    live,           \* the topics that have a resource
    data,           \* what a GET of each topic answers with
    observers,      \* r->subscribers of each topic's resource
    partiallydirty, \* the resources whose partiallydirty flag is set
    observe,        \* ctx->observe
    sendqueue,      \* ctx->sendqueue: notifications that wait for an ACK
    rejected,       \* history: who has reset a notification of a topic since it subscribed
    put             \* history: the data of each topic's last accepted PUT

vars == <<live, data, observers, partiallydirty, observe, sendqueue,
          rejected, put>>
-------------------------------------------------------------------------------
Content == Payloads \cup {NoData}

Kinds == {"none", "response", "NON", "CON"}

(* The last message about a topic that left for an observer.               *)
Messages == [kind : Kinds, num : 0 .. MaxObserve, data : Content]

Nothing == [kind |-> "none", num |-> 0, data |-> NoData]

(* coap_subscription_t; told is a history variable.                        *)
Subscriptions == [who : Observers, non_cnt : 0 .. COAP_OBS_MAX_NON,
                  dirty : BOOLEAN, told : Messages]

(* Why a notification does not leave: coap_pdu_init fails ("unmade"), or   *)
(* sending it fails ("unsent").                                            *)
Outcomes == {"sent", "unsent", "unmade"}

Notes == [topic : Topics, who : Observers, num : 0 .. MaxObserve]

TypeOK ==
    /\ live \subseteq Topics
    /\ data \in [Topics -> Content]
    /\ observers \in [Topics -> Seq(Subscriptions)]
    /\ partiallydirty \subseteq live
    /\ observe \in 0 .. MaxObserve
    /\ sendqueue \subseteq Notes
    /\ rejected \subseteq [topic : Topics, who : Observers, queued : BOOLEAN]
    /\ put \in [Topics -> Content]

Init ==
    /\ live = {}
    /\ data = [t \in Topics |-> NoData]
    /\ observers = [t \in Topics |-> <<>>]
    /\ partiallydirty = {}
    /\ observe = 0
    /\ sendqueue = {}
    /\ rejected = {}
    /\ put = [t \in Topics |-> NoData]
-------------------------------------------------------------------------------
(* coap_find_observer                                                      *)
FindObserver(s, w) == \E i \in DOMAIN s : s[i].who = w

(* A variant of AddObserver that does not look first.                      *)
AddObserverBlindly(s, w) ==
    <<[who |-> w, non_cnt |-> 0, dirty |-> FALSE, told |-> Nothing]>> \o s

(* coap_add_observer                                                       *)
AddObserver(s, w) ==
    IF FindObserver(s, w) THEN s
    ELSE <<[who |-> w, non_cnt |-> 0, dirty |-> FALSE, told |-> Nothing]>> \o s

(* coap_delete_observer: the first subscription of w.                      *)
DeleteObserver(s, w) ==
    IF FindObserver(s, w)
    THEN LET i == CHOOSE i \in DOMAIN s :
                      s[i].who = w /\ \A j \in 1 .. i - 1 : s[j].who # w
         IN  SubSeq(s, 1, i - 1) \o SubSeq(s, i + 1, Len(s))
    ELSE s

(* The observers of t once handle_request has looked at the Observe option *)
(* of a request from w, and before it calls the handler.                   *)
Options == {"none", "register", "cancel"}

WithOption(t, w, opt) ==
    [observers EXCEPT ![t] = CASE opt = "register" -> AddObserver(@, w)
                               [] opt = "cancel"   -> DeleteObserver(@, w)
                               [] OTHER            -> @]

(* A client that registers takes back that it has rejected notifications.  *)
WithoutRejection(t, w, opt) ==
    IF opt = "register" THEN {r \in rejected : r.topic # t \/ r.who # w} ELSE rejected
-------------------------------------------------------------------------------
(* coap_notify_observers.  A subscription gets a notification when the     *)
(* whole resource is dirty, or when its own last one did not leave.        *)
IsDue(s, i, dirty) == dirty \/ s[i].dirty

NotificationType(sub) == IF sub.non_cnt < COAP_OBS_MAX_NON THEN "NON" ELSE "CON"

Told(sub, out, num, content) ==
    IF out = "sent"
    THEN [kind |-> NotificationType(sub), num |-> num, data |-> content]
    ELSE sub.told

(* Variants of Attempted: one forgets a notification that was not made,    *)
(* one never starts the count anew.                                        *)
AttemptedOnce(sub, out, num, content) ==
    [sub EXCEPT !.dirty = (out = "unsent"),
                !.non_cnt = IF @ < COAP_OBS_MAX_NON THEN @ + 1 ELSE 0,
                !.told = Told(sub, out, num, content)]

AttemptedEndless(sub, out, num, content) ==
    [sub EXCEPT !.dirty = (out # "sent"),
                !.non_cnt = @ + 1,
                !.told = Told(sub, out, num, content)]

(* The subscription after the attempt to notify it: non_cnt counts also    *)
(* what could not be sent, but not what could not be made.                 *)
Attempted(sub, out, num, content) ==
    [sub EXCEPT !.dirty = (out # "sent"),
                !.non_cnt = IF out = "unmade" THEN @
                            ELSE IF @ < COAP_OBS_MAX_NON THEN @ + 1 ELSE 0,
                !.told = Told(sub, out, num, content)]

(* The subscribers s of a resource after its round of notifications.       *)
Notified(s, dirty, out, num, content) ==
    [i \in DOMAIN s |-> IF IsDue(s, i, dirty)
                        THEN Attempted(s[i], out[s[i].who], num, content)
                        ELSE s[i]]

Confirmable(t, s, dirty, out, num) ==
    {[topic |-> t, who |-> s[i].who, num |-> num] :
        i \in {j \in DOMAIN s : /\ IsDue(s, j, dirty)
                                /\ out[s[j].who] = "sent"
                                /\ NotificationType(s[j]) = "CON"}}

(* A variant of Failed that looks at what could not be sent only.          *)
FailedUnsent(s, dirty, out) ==
    \E i \in DOMAIN s : IsDue(s, i, dirty) /\ out[s[i].who] = "unsent"

(* The resource stays partially dirty.                                     *)
Failed(s, dirty, out) ==
    \E i \in DOMAIN s : IsDue(s, i, dirty) /\ out[s[i].who] # "sent"

(* A variant of Advance that counts the dirty resource only.               *)
AdvanceDirty(R, T) == Cardinality(R \cap T)

(* context->observe++ for every resource that had a round.                 *)
Advance(R, T) == Cardinality(R)

(* coap_check_notify with the resource of t dirty and the subscribers S:   *)
(* every resource that is dirty or partially dirty has its round.  The     *)
(* Observe number is raised after each, in the order of the resource table.*)
CheckNotify(t, S) ==
    LET due   == partiallydirty \cup {t}
        whos  == {w \in Observers : \E r \in due : FindObserver(S[r], w)}
    IN  /\ observe + Cardinality(due) <= MaxObserve
        /\ observe' = observe + Advance(due, {t})
        /\ \E num \in [due -> observe .. observe + Cardinality(due) - 1],
              out \in [due -> [whos -> Outcomes]] :
              /\ \A p, q \in due : num[p] = num[q] => p = q
              /\ observers' = [r \in Topics |->
                     IF r \in due
                     THEN Notified(S[r], r = t, out[r], num[r], data'[r])
                     ELSE S[r]]
              /\ partiallydirty' = {r \in due : Failed(S[r], r = t, out[r])}
              /\ sendqueue' = sendqueue \cup
                     UNION {Confirmable(r, S[r], r = t, out[r], num[r]) : r \in due}
-------------------------------------------------------------------------------
(* hnd_put_topic with a payload that is accepted.  The response 2.04 comes *)
(* after the notifications.                                                *)
PutTopic(t, w, opt, v) ==
    /\ t \in live
    /\ data' = [data EXCEPT ![t] = v]
    /\ put' = [put EXCEPT ![t] = v]
    /\ CheckNotify(t, WithOption(t, w, opt))
    /\ rejected' = WithoutRejection(t, w, opt)
    /\ UNCHANGED live

(* hnd_get_topic with the topic's Content-Format.  The response carries    *)
(* ctx->observe if (w, token) is an observer; it is not sent when the      *)
(* No-Response option or a failure of coap_send stops it.                  *)
GetTopic(t, w, opt, sent) ==
    LET S == WithOption(t, w, opt)
    IN  /\ t \in live
        /\ observers' =
             [S EXCEPT ![t] = [i \in DOMAIN @ |->
                 IF @[i].who = w /\ sent
                 THEN [@[i] EXCEPT !.told = [kind |-> "response", num |-> observe,
                                             data |-> data[t]]]
                 ELSE @[i]]]
        /\ rejected' = WithoutRejection(t, w, opt)
        /\ UNCHANGED <<live, data, partiallydirty, observe, sendqueue, put>>

(* A GET, PUT or POST that its handler answers with 4.xx.  Unless the      *)
(* No-Response option drops the response, a request with an Observe option *)
(* then ends the subscription, also one that existed before.               *)
Refused(t, w, opt, dropped) ==
    LET S == WithOption(t, w, opt)
    IN  /\ t \in live
        /\ observers' = IF opt = "none" \/ dropped THEN S
                        ELSE [S EXCEPT ![t] = DeleteObserver(@, w)]
        /\ rejected' = WithoutRejection(t, w, opt)
        /\ UNCHANGED <<live, data, partiallydirty, observe, sendqueue, put>>

NewResource(new) ==
    /\ new \notin live
    /\ live' = live \cup {new}
    /\ UNCHANGED <<data, put>>

(* hnd_post_broker creates a topic; the broker's resource is not           *)
(* observable.                                                             *)
PostBroker(new) ==
    /\ NewResource(new)
    /\ UNCHANGED <<observers, partiallydirty, observe, sendqueue, rejected>>

(* hnd_post_topic creates a topic below t.                                 *)
PostTopic(t, w, opt, new) ==
    /\ t \in live
    /\ NewResource(new)
    /\ observers' = WithOption(t, w, opt)
    /\ rejected' = WithoutRejection(t, w, opt)
    /\ UNCHANGED <<partiallydirty, observe, sendqueue>>

(* hnd_delete_topic or topicMAMonitor: the resources T are freed with      *)
(* their subscribers, who are not told.  What is in the sendqueue stays.   *)
DeleteTopics(T) ==
    /\ T # {} /\ T \subseteq live
    /\ live' = live \ T
    /\ data' = [t \in Topics |-> IF t \in T THEN NoData ELSE data[t]]
    /\ put' = [t \in Topics |-> IF t \in T THEN NoData ELSE put[t]]
    /\ observers' = [t \in Topics |-> IF t \in T THEN <<>> ELSE observers[t]]
    /\ partiallydirty' = partiallydirty \ T
    /\ rejected' = {r \in rejected : r.topic \notin T}
    /\ UNCHANGED <<observe, sendqueue>>

(* The data of t expires: a GET answers 2.04, whether topicDataMAMonitor   *)
(* has run or not.  Nobody is notified.                                    *)
DataExpires(t) ==
    /\ data[t] # NoData
    /\ data' = [data EXCEPT ![t] = NoData]
    /\ UNCHANGED <<live, observers, partiallydirty, observe, sendqueue,
                   rejected, put>>
-------------------------------------------------------------------------------
(* A variant of ResetQueued that looks at the topic of m only.             *)
ResetQueuedOne(m) ==
    /\ m \in sendqueue
    /\ observers' = [observers EXCEPT ![m.topic] = DeleteObserver(@, m.who)]
    /\ sendqueue' = {n \in sendqueue : n.who # m.who}
    /\ rejected' = rejected \cup [topic : live, who : {m.who}, queued : {TRUE}]
    /\ UNCHANGED <<live, data, partiallydirty, observe, put>>

(* A client loses interest, or has restarted, and answers the last         *)
(* notification m of t with a reset.  coap_dispatch looks for m in the     *)
(* sendqueue; coap_cancel then removes w from every resource and drops all *)
(* that waits for w.  A reset of anything else has no effect.              *)
ResetQueued(m) ==
    /\ m \in sendqueue
    /\ observers' = [t \in Topics |->
           IF t \in live THEN DeleteObserver(observers[t], m.who) ELSE observers[t]]
    /\ sendqueue' = {n \in sendqueue : n.who # m.who}
    /\ rejected' = rejected \cup [topic : live, who : {m.who}, queued : {TRUE}]
    /\ UNCHANGED <<live, data, partiallydirty, observe, put>>

ResetOther(t, w) ==
    /\ \E i \in DOMAIN observers[t] :
           /\ observers[t][i].who = w
           /\ observers[t][i].told.kind \in {"NON", "CON"}
           /\ [topic |-> t, who |-> w, num |-> observers[t][i].told.num] \notin sendqueue
    /\ rejected' = rejected \cup {[topic |-> t, who |-> w, queued |-> FALSE]}
    /\ UNCHANGED <<live, data, observers, partiallydirty, observe, sendqueue,
                   put>>

(* An empty ACK of m.                                                      *)
Acknowledge(m) ==
    /\ m \in sendqueue
    /\ sendqueue' = sendqueue \ {m}
    /\ UNCHANGED <<live, data, observers, partiallydirty, observe, rejected, put>>

(* handle_response: a response from w, to a request the broker never made, *)
(* cancels what is waiting for w's address and token.                      *)
ResponseFrom(w) ==
    /\ \E m \in sendqueue : m.who = w
    /\ sendqueue' = {n \in sendqueue : n.who # w}
    /\ UNCHANGED <<live, data, observers, partiallydirty, observe, rejected, put>>

-------------------------------------------------------------------------------
Request ==
    \E t \in Topics, w \in Observers, opt \in Options :
        \/ \E v \in Payloads : PutTopic(t, w, opt, v)
        \/ \E sent \in BOOLEAN : GetTopic(t, w, opt, sent)
        \/ \E dropped \in BOOLEAN : Refused(t, w, opt, dropped)
        \/ \E new \in Topics : PostTopic(t, w, opt, new)

Answer ==
    \/ \E m \in sendqueue : ResetQueued(m) \/ Acknowledge(m)
    \/ \E t \in Topics, w \in Observers : ResetOther(t, w)
    \/ \E w \in Observers : ResponseFrom(w)

Next ==
    \/ Request
    \/ Answer
    \/ \E new \in Topics : PostBroker(new)
    \/ \E T \in SUBSET live : DeleteTopics(T)
    \/ \E t \in Topics : DataExpires(t)

Spec == Init /\ [][Next]_vars
-------------------------------------------------------------------------------
Has(t, w) == FindObserver(observers[t], w)

(* A client has one subscription per topic, and none without a resource.   *)
(* A second one would double its notifications and outlive its             *)
(* cancellation, which deletes the first (resource.c:523-606).             *)
ObserversDistinct ==
    \A t \in Topics :
        /\ \A i, j \in DOMAIN observers[t] :
               observers[t][i].who = observers[t][j].who => i = j
        /\ t \notin live => observers[t] = <<>>

(* A notification that could not be sent is not forgotten: the resource's  *)
(* flag is set too, which makes the next coap_check_notify try again       *)
(* (subscribe.h:61-63).                                                    *)
DirtyFlagged ==
    \A t \in Topics : \A i \in DOMAIN observers[t] :
        observers[t][i].dirty => t \in partiallydirty

(* Each observer was last told what the last PUT stored, or that the data  *)
(* has expired since, or waits for a retry; a new observer whose           *)
(* registration got no response has been told nothing.  Retries for one    *)
(* observer, requests of others and expiry do not disturb this             *)
(* (resource.c:608-686).                                                   *)
Informed ==
    \A t \in Topics : \A i \in DOMAIN observers[t] :
        LET sub == observers[t][i]
        IN  \/ sub.dirty
            \/ sub.told.kind = "none"
            \/ sub.told.data = put[t]
            \/ sub.told.data = NoData /\ data[t] = NoData

(* The last messages of two states about t to the same observer.           *)
ToldChange(t, i, j) ==
    /\ i \in DOMAIN observers[t] /\ j \in DOMAIN observers'[t]
    /\ observers[t][i].who = observers'[t][j].who
    /\ observers[t][i].told # observers'[t][j].told
    /\ observers'[t][j].told.kind \in {"NON", "CON"}

(* Of two notifications about a topic the later has the greater Observe    *)
(* number, also when the number counts for all topics and the later one is *)
(* a retry (context->observe++ in resource.c:683).                         *)
NumbersIncrease ==
    [][\A t \in Topics : \A i \in 1 .. Len(observers[t]), j \in 1 .. Len(observers'[t]) :
          ToldChange(t, i, j) =>
              IF observers[t][i].told.kind \in {"NON", "CON"}
              THEN observers'[t][j].told.num > observers[t][i].told.num
              ELSE observers'[t][j].told.num >= observers[t][i].told.num]_vars

(* A client that resets a notification that waits for its ACK is an        *)
(* observer of no topic until it registers again (coap_cancel,             *)
(* net.c:1277-1296).                                                       *)
QueuedResetEnds ==
    \A r \in rejected : r.queued => ~Has(r.topic, r.who)
==============================================================================
