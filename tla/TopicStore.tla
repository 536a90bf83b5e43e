------------------------------ MODULE TopicStore ------------------------------
(***************************************************************************)
(* What the broker promises its clients: a store of topics in which a      *)
(* published value can be read until its lifetime ends or it is replaced,  *)
(* a topic stays until it is deleted or its lease has ended, and deleting  *)
(* a topic deletes its subtopics.  There are no resources, no list, no     *)
(* bounds on deadlines, no monitors and no loop here.                      *)
(*                                                                         *)
(* Exceptions are what an implementation does not promise: with "memory" a *)
(* topic may be created in name only, and with "list" the answer to a      *)
(* client that asks for the topics may say anything.  Lifetimes that are   *)
(* longer than Longest may not be kept.                                    *)
(***************************************************************************)
EXTENDS Integers, Sequences, FiniteSets

CONSTANTS
    Topics, Payloads, NoTopic, NoData,
    Lifetimes,  \* that a client may ask for, in seconds
    NoLife,     \* the client asks for no lifetime
    Longest,    \* the longest lifetime that is promised
    Unsure,     \* the end of a lifetime that may be over at any time
    InName,     \* a topic that was created in name only
    Exceptions  \* a subset of {"memory", "list"}

VARIABLES
    store,      \* store[p]: the topic p as a client can see it, or NoTopic
    now,
    answer      \* what the last step told a client

vars == <<store, now, answer>>

Named   == {p \in Topics : store[p] # NoTopic}
Present == {p \in Named : store[p] # InName}

(* A topic with a value that is readable until the end of time `until' (0: *)
(* forever).                                                               *)
Topic(value, until, lease) ==
    [value |-> value, until |-> IF value = NoData THEN 0 ELSE until, lease |-> lease]

Over(end, t) == end \notin {0, Unsure} /\ end < t
MayBeOver(end, t) == end = Unsure \/ Over(end, t)

SubtopicsOf(p) ==
    {q \in Topics : Len(q) > Len(p) /\ SubSeq(q, 1, Len(p)) = p}

Answer(k, p, v, l, n) ==
    [kind |-> k, topic |-> p, value |-> v, life |-> l, count |-> n]
Plain(k) == Answer(k, <<>>, NoData, NoLife, 0)
Silence == Plain("none")

(* The end of a lifetime that starts now; 0 is a lifetime without end.     *)
Ends(l) ==
    IF l = NoLife THEN {0} ELSE IF l <= Longest THEN {now + l} ELSE {0, now + l, Unsure}

(* A lease of 0 seconds has no end either.                                 *)
LeaseEnds(l) == IF l = 0 THEN {0} ELSE Ends(l)

Init ==
    /\ store = [p \in Topics |-> NoTopic]
    /\ now = 1
    /\ answer = Silence

Create(p, l) ==
    /\ answer' = Answer("created", <<>>, NoData, l, 0)
    /\ p \notin Named
    /\ \E lease \in LeaseEnds(l) : store' = [store EXCEPT ![p] = Topic(NoData, 0, lease)]
    /\ UNCHANGED now

(* The client is told that the topic was created, but nothing can be       *)
(* published to it: it has a name that is listed and cannot be had again.  *)
CreateInName(p, l) ==
    /\ "memory" \in Exceptions
    /\ answer' = Answer("created", <<>>, NoData, l, 0)
    /\ p \notin Named
    /\ store' = [store EXCEPT ![p] = InName]
    /\ UNCHANGED now

Renew(p, l) ==
    /\ answer' = Answer("exists", <<>>, NoData, l, 0)
    /\ p \in Named
    /\ \E lease \in LeaseEnds(l) :
         store' = IF p \in Present THEN [store EXCEPT ![p].lease = lease] ELSE store
    /\ UNCHANGED now

(* The value v that the client sent is stored, for the lifetime l that it  *)
(* asked for.  A lifetime that is too long may be taken for one that is    *)
(* over.                                                                   *)
Publish(p, v, l) ==
    /\ answer' = Answer("stored", p, v, l, 0)
    /\ p \in Present
    /\ \/ \E until \in Ends(l) : store' = [store EXCEPT ![p] = Topic(v, until, @.lease)]
       \/ l # NoLife /\ l > Longest /\ store' = [store EXCEPT ![p] = Topic(NoData, 0, @.lease)]
    /\ UNCHANGED now

Read(p, v) ==
    /\ p \in Present
    /\ v = store[p].value \/ (v = NoData /\ store[p].until = Unsure)
    /\ answer' = Answer("value", p, v, NoLife, 0)
    /\ UNCHANGED <<store, now>>

Delete(p) ==
    LET D == {p} \cup (SubtopicsOf(p) \cap Present)
    IN  /\ answer' = Answer("deleted", p, NoData, NoLife, Cardinality(D))
        /\ p \in Present
        /\ store' = [q \in Topics |-> IF q \in D THEN NoTopic ELSE store[q]]
        /\ UNCHANGED now

(* The list of topics that a client asks the broker for.                   *)
List(L) ==
    /\ answer' = Answer("list", L, NoData, NoLife, 0)
    /\ L \subseteq Named
    /\ UNCHANGED <<store, now>>

(* A list of more than one topic that cannot be relied on.                 *)
Garble ==
    /\ "list" \in Exceptions
    /\ answer' = Plain("garbled")
    /\ Cardinality(Named) > 1
    /\ UNCHANGED <<store, now>>

Refuse ==
    /\ answer' = Plain("refused")
    /\ UNCHANGED <<store, now>>

(* A second may pass.  Values whose lifetime is over can no longer be      *)
(* read; topics whose lease is over may be dropped.                        *)
Pass ==
    /\ answer' \in {answer, Silence}
    /\ now' \in {now, now + 1}
    /\ \E S \in SUBSET {p \in Present : MayBeOver(store[p].lease, now')},
          V \in SUBSET {p \in Present : MayBeOver(store[p].until, now')} :
         /\ \A p \in Present : Over(store[p].until, now') => p \in V
         /\ store' = [p \in Topics |->
                        IF p \in S THEN NoTopic
                        ELSE IF p \in V THEN Topic(NoData, 0, store[p].lease)
                        ELSE store[p]]

Close ==
    /\ store' = [p \in Topics |-> NoTopic]
    /\ UNCHANGED <<now, answer>>

Next ==
    \/ \E p \in Topics :
          \/ Delete(p)
          \/ \E l \in Lifetimes \cup {NoLife} : Create(p, l) \/ CreateInName(p, l) \/ Renew(p, l)
          \/ \E v \in Payloads \cup {NoData} : Read(p, v)
          \/ \E v \in Payloads \cup {NoData}, l \in Lifetimes \cup {NoLife} : Publish(p, v, l)
    \/ \E L \in SUBSET Topics : List(L)
    \/ Garble \/ Refuse \/ Pass \/ Close

Spec == Init /\ [][Next]_vars
==============================================================================
