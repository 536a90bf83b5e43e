------------------------------- MODULE TopicDB -------------------------------
(***************************************************************************)
(* The topic database of the broker (LinkedListDB.c): a singly linked list *)
(* of nodes keyed by path.  Every operation of LinkedListDB.c looks a node *)
(* up by its path and addTopicWEC never inserts a second node for a path,  *)
(* so the list is modelled here by the map it represents: topicDB[p] is    *)
(* the node of path p, or NoTopic.                                         *)
(*                                                                         *)
(* The operators are the C functions.  The int that a function returns is  *)
(* 1 exactly when TopicExist holds before the call; addTopic, which runs   *)
(* where it does not hold, returns 1 too.  addTopic may have no memory for *)
(* the node: it then returns 0 and leaves the list alone, which its        *)
(* callers' actions state as their other outcome.                          *)
(***************************************************************************)
EXTENDS Integers

CONSTANTS
    Topics,     \* the topic URIs that the clients use
    Payloads,   \* non-empty payloads
    NoTopic,    \* no node (a NULL TopicDataPtr)
    NoData,     \* a NULL data pointer, or an empty payload in a request
    LongMax     \* LONG_MAX: the largest time_t

ASSUME DBAssumption ==
    /\ NoData \notin Payloads
    /\ LongMax \in Nat

(* Values of time_t.  0 means that the topic or the data never expires.    *)
TimeT == (-LongMax - 1) .. LongMax

Data == Payloads \cup {NoData}

Node == [data : Data, topic_ma : TimeT, data_ma : TimeT]

(* The node that addTopic builds is a function of its deadline only; it    *)
(* differs from every Node only by being no node at all.                   *)
ASSUME NoTopicAssumption == NoTopic \notin Node

DB == [Topics -> Node \cup {NoTopic}]

TopicExist(db, p) == db[p] # NoTopic

EmptyDB == [p \in Topics |-> NoTopic]

(* DBEmpty: the head pointer is NULL.                                      *)
DBEmpty(db) == \A p \in Topics : ~TopicExist(db, p)

AddTopic(db, p, topic_ma) ==
    [db EXCEPT ![p] = [data |-> NoData, topic_ma |-> topic_ma, data_ma |-> 0]]

SetTopic(db, p, data, topic_ma, data_ma) ==
    IF TopicExist(db, p)
    THEN [db EXCEPT ![p] = [data |-> data, topic_ma |-> topic_ma, data_ma |-> data_ma]]
    ELSE db

(* A variant of UpdateTopicInfo that builds the node anew.                 *)
UpdateTopicInfoAnew(db, p, topic_ma) ==
    IF TopicExist(db, p) THEN AddTopic(db, p, topic_ma) ELSE db

UpdateTopicInfo(db, p, topic_ma) ==
    IF TopicExist(db, p)
    THEN SetTopic(db, p, db[p].data, topic_ma, db[p].data_ma)
    ELSE db

UpdateTopicData(db, p, data_ma, data) ==
    IF TopicExist(db, p)
    THEN SetTopic(db, p, data, db[p].topic_ma, data_ma)
    ELSE db

AddTopicWEC(db, p, topic_ma) ==
    IF TopicExist(db, p)
    THEN UpdateTopicInfo(db, p, topic_ma)
    ELSE AddTopic(db, p, topic_ma)

(* A loop that calls deleteTopic for every path in P.                      *)
DeleteTopics(db, P) ==
    [p \in Topics |-> IF p \in P THEN NoTopic ELSE db[p]]

(* A loop that calls deleteTopicData for every path in P.                  *)
DeleteTopicsData(db, P) ==
    [p \in Topics |-> IF p \in P /\ TopicExist(db, p)
                      THEN [db[p] EXCEPT !.data = NoData, !.data_ma = 0]
                      ELSE db[p]]
==============================================================================
