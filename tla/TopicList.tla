------------------------------ MODULE TopicList ------------------------------
(***************************************************************************)
(* The linked list of LinkedListDB.c with its reader-writer locks, as two  *)
(* threads use it: the broker's main loop (the handlers and the monitors)  *)
(* and the MQTT client's thread (msgarrvd: cloneTopic, updateTopicData).   *)
(* TopicDB describes what the operations do to the map from paths to       *)
(* nodes when they run alone; this module has their steps.                 *)
(*                                                                         *)
(* A step is what a thread does between two points where the other can     *)
(* notice: taking a lock, reading a shared pointer, writing one, free().   *)
(* A thread whose node or data is freed by the other is left with a        *)
(* Dangling pointer (also if malloc hands the address out again); to use   *)
(* it is a fault, after which nothing is specified.  Deadlines are values  *)
(* that are told apart; a node with a deadline may have expired any time.  *)
(*                                                                         *)
(* The functions read the head pointer once to find the node to lock and   *)
(* again, without a lock of its own, for each use of the node and to       *)
(* unlock it.  While a thread holds the lock of the head's node, no other  *)
(* can unlink that node, and the readings agree; if main has unlinked it   *)
(* while the thread waited for the lock, the thread goes on with another   *)
(* node (or NULL) and ends with the unlock of a lock that it does not      *)
(* hold.  That too is a fault: nothing is specified from then on.          *)
(***************************************************************************)
EXTENDS TopicDB, FiniteSets

CONSTANTS
    Main, Mqtt,     \* the threads
    Cells,          \* the addresses malloc returns for nodes
    Deadlines,      \* the topic_ma and data_ma of requests
    MainCalls,      \* what main calls (a bound: all in one instance)
    Null, Dangling

ASSUME ListAssumption ==
    /\ IsFiniteSet(Cells) /\ IsFiniteSet(Topics)
    /\ Cardinality(Cells) >= Cardinality(Topics)
    /\ Deadlines \subseteq 0 .. LongMax
    /\ Main # Mqtt
    /\ Null \notin Cells \cup {Main, Mqtt}
    /\ Dangling \notin Cells \cup Data \cup {Null}

VARIABLES
    head,       \* topicDB in coap-broker.c
    cell,       \* cell[c]: the node at address c, or Null if it is free
    nodeLock,   \* node_lock and data_lock: who reads, who writes
    dataLock,
    reg,        \* the local variables of the threads
    seen,       \* whether the path a thread looks for was in the list so far
    fault

vars == <<head, cell, nodeLock, dataLock, reg, seen, fault>>

Threads == {Main, Mqtt}
Ref == Cells \cup {Null, Dangling}

(* freed: data has been given to free() and not yet been replaced.         *)
Cell == [path : Topics, next : Cells \cup {Null}, data : Data, topic_ma : TimeT,
         data_ma : TimeT, freed : BOOLEAN]

ASSUME NullAssumption == Null \notin Cell

Lock == [readers : SUBSET Threads, writers : SUBSET Threads]
Unlocked == [readers |-> {}, writers |-> {}]

(* The local variables.  call is the function of LinkedListDB.c or the     *)
(* monitor that runs, goal the walk it is in, from the node that the data  *)
(* pointer was read from, next the monitor's nextPtr, raced whether the    *)
(* other thread has changed the path's node since this one read it.        *)
Calls == {"none", "clone", "add", "renew", "put", "delete", "data_monitor", "topic_monitor"}
Goals == {"none", "clone", "exists", "info", "topic", "set", "drop", "delete", "last"}
WalkPcs == {"enter", "head", "lock", "test"}
Pcs == WalkPcs \cup {"idle", "clone", "copy", "read", "pass", "rlock", "dlock", "free_data",
                     "assign", "wlock_prev", "wlock_cur", "unlink", "free", "link", "mlock",
                     "mdlock", "look"}

Reg == [call : Calls, goal : Goals, pc : Pcs, path : Topics \cup {Null},
        data : Data \cup {Dangling}, topic_ma : TimeT, data_ma : TimeT,
        prev : Ref, cur : Ref, next : Ref, from : Cells \cup {Null}, raced : BOOLEAN,
        found : BOOLEAN]

Idle == [call |-> "none", goal |-> "none", pc |-> "idle", path |-> Null, data |-> NoData,
         topic_ma |-> 0, data_ma |-> 0, prev |-> Null, cur |-> Null, next |-> Null,
         from |-> Null, raced |-> FALSE, found |-> FALSE]

NoFault == [thread |-> Null, kind |-> "none"]

(* The nodes that a list with head h and nodes f reaches, from the first.   *)
Chain(h, f) ==
    LET chain[i \in 0 .. Cardinality(Cells)] ==
            IF i = 0 THEN h
            ELSE IF chain[i - 1] = Null THEN Null
            ELSE IF f[chain[i - 1]] = Null THEN Null
            ELSE f[chain[i - 1]].next
    IN  chain
Linked(h, f) == LET chain == Chain(h, f) IN {chain[i] : i \in DOMAIN chain} \ {Null}

(* The list as a map, as TopicDB has it.                                   *)
MapOf(h, f) ==
    LET linked == {c \in Linked(h, f) : f[c] # Null}
    IN  [p \in Topics |->
           IF \A c \in linked : f[c].path # p THEN NoTopic
           ELSE LET n == f[CHOOSE c \in linked : f[c].path = p]
                IN  [data |-> n.data, topic_ma |-> n.topic_ma, data_ma |-> n.data_ma]]
Map == MapOf(head, cell)

Init ==
    /\ head = Null
    /\ cell = [c \in Cells |-> Null]
    /\ nodeLock = [c \in Cells |-> Unlocked]
    /\ dataLock = [c \in Cells |-> Unlocked]
    /\ reg = [t \in Threads |-> Idle]
    /\ seen = [t \in Threads |-> {}]
    /\ fault = NoFault
-------------------------------------------------------------------------------
(* Locks.  A reader waits for a writer, a writer for everybody.            *)
CanRead(lock)  == lock.writers = {}
CanWrite(lock) == lock.writers = {} /\ lock.readers = {}
RLocked(lock, t) == [lock EXCEPT !.readers = @ \cup {t}]
WLocked(lock, t) == [lock EXCEPT !.writers = @ \cup {t}]
Released(lock, t) == [readers |-> lock.readers \ {t}, writers |-> lock.writers \ {t}]

At(t, pc) == fault = NoFault /\ reg[t].pc = pc

(* The thread's node, if it still exists.                                  *)
Alive(t) == reg[t].cur \in Cells

Become(t, r) == reg' = [reg EXCEPT ![t] = r]

(* A change of the path's node, as the other thread's raced records it.    *)
BecomeAndRace(t, r) ==
    reg' = [u \in Threads |->
              IF u = t THEN r
              ELSE IF reg[u].path = reg[t].path THEN [reg[u] EXCEPT !.raced = TRUE]
              ELSE reg[u]]

(* Walk from the head of the list.                                         *)
Walk(r, goal) == [r EXCEPT !.goal = goal, !.pc = "enter", !.prev = Null, !.cur = Null,
                           !.found = FALSE]

(* A variant of Done: the monitor goes on from a node it has deleted.      *)
DoneFromCur(r) ==
    IF r.call = "topic_monitor" /\ r.next # Null
    THEN [Idle EXCEPT !.call = r.call, !.pc = "mlock", !.found = r.found,
                      !.cur = IF r.goal = "delete" THEN r.cur ELSE r.next]
    ELSE [Idle EXCEPT !.found = r.found]

(* The end of a call: back to the monitor's loop, or to the caller.        *)
Done(r) ==
    IF r.call \in {"data_monitor", "topic_monitor"} /\ r.next # Null
    THEN [Idle EXCEPT !.call = r.call, !.pc = "mlock", !.cur = r.next, !.found = r.found]
    ELSE [Idle EXCEPT !.found = r.found]

Remember ==
    seen' = [t \in Threads |->
               IF reg'[t].pc \notin WalkPcs THEN {}
               ELSE (IF reg'[t].pc = "enter" THEN {} ELSE seen[t])
                        \cup {TopicExist(MapOf(head', cell'), reg'[t].path)}]

Same(v) == UNCHANGED <<v, fault>> /\ Remember
Locks == <<nodeLock, dataLock>>
-------------------------------------------------------------------------------
(* A call.  The MQTT thread reads a copy and stores a message.             *)
Begin(t, call, goal, p, data, topic_ma, data_ma) ==
    /\ At(t, "idle")
    /\ t = Main => call \in MainCalls
    /\ Become(t, Walk([Idle EXCEPT !.call = call, !.path = p, !.data = data,
                                   !.topic_ma = topic_ma, !.data_ma = data_ma], goal))
    /\ Same(<<head, cell, Locks>>)

BeginCall ==
    \E p \in Topics :
        \/ \E t \in Threads : Begin(t, "clone", "clone", p, NoData, 0, 0)
        \/ \E v \in Payloads : Begin(Mqtt, "put", "topic", p, v, 0, 0)
        \/ \E v \in Data, ma \in Deadlines : Begin(Main, "put", "topic", p, v, 0, ma)
        \/ \E ma \in Deadlines : Begin(Main, "add", "exists", p, NoData, ma, 0)
        \/ \E ma \in Deadlines : Begin(Main, "renew", "info", p, NoData, ma, 0)
        \/ Begin(Main, "delete", "delete", p, NoData, 0, 0)

(* DBEmpty: where a walk over an empty list ends.  addTopicWEC looks first *)
(* (exists) and then walks to the last node (last).                        *)
Missing(r) ==
    CASE r.goal = "exists" -> Walk(r, "last")
      [] r.goal = "last"   -> [r EXCEPT !.pc = IF r.prev = Null THEN "link" ELSE "wlock_prev"]
      [] OTHER             -> Done([r EXCEPT !.found = FALSE])

(* A variant of Hit: addTopicWEC adds the topic in any case.               *)
HitAddAnyway(r) ==
    CASE r.goal = "clone"             -> [r EXCEPT !.pc = "clone", !.found = TRUE]
      [] r.goal = "exists"            -> Walk(r, "last")
      [] r.goal \in {"info", "topic"} -> [r EXCEPT !.pc = "read", !.found = TRUE]
      [] r.goal \in {"set", "drop"}   -> [r EXCEPT !.pc = "rlock", !.found = TRUE]
      [] r.goal = "delete"            -> [r EXCEPT !.pc = IF r.prev = Null THEN "wlock_cur"
                                                          ELSE "wlock_prev", !.found = TRUE]

(* Where a walk ends that has found the path's node at cur.                *)
Hit(r) ==
    CASE r.goal = "clone"             -> [r EXCEPT !.pc = "clone", !.found = TRUE]
      [] r.goal = "exists"            -> Walk(r, "info")
      [] r.goal \in {"info", "topic"} -> [r EXCEPT !.pc = "read", !.found = TRUE]
      [] r.goal \in {"set", "drop"}   -> [r EXCEPT !.pc = "rlock", !.found = TRUE]
      [] r.goal = "delete"            -> [r EXCEPT !.pc = IF r.prev = Null THEN "wlock_cur"
                                                          ELSE "wlock_prev", !.found = TRUE]

Enter(t) ==
    /\ At(t, "enter")
    /\ Become(t, IF head = Null THEN Missing(reg[t]) ELSE [reg[t] EXCEPT !.pc = "head"])
    /\ Same(<<head, cell, Locks>>)

(* The head pointer is read again to lock its node.                        *)
Head(t) ==
    /\ At(t, "head")
    /\ head # Null
    /\ Become(t, [reg[t] EXCEPT !.cur = head, !.pc = "lock"])
    /\ Same(<<head, cell, Locks>>)

LockNode(t) ==
    /\ At(t, "lock") /\ Alive(t)
    /\ CanRead(nodeLock[reg[t].cur])
    /\ nodeLock' = [nodeLock EXCEPT ![reg[t].cur] = RLocked(@, t)]
    /\ Become(t, [reg[t] EXCEPT !.pc = "test"])
    /\ Same(<<head, cell, dataLock>>)

(* addTopic walks to the end and compares nothing.                         *)
Matches(r) == r.goal # "last" /\ cell[r.cur].path = r.path

(* Of previousPtr, the walks that do not use it need not know the node.    *)
Past(r) == [r EXCEPT !.pc = "lock", !.cur = cell[r.cur].next,
                     !.prev = IF r.goal \in {"delete", "last"} THEN r.cur ELSE Dangling]

(* Variants of AfterTest: a loop that stops at the last node, and one that *)
(* does not stop.                                                          *)
AfterTestNotLast(r) ==
    IF cell[r.cur].next = Null THEN Missing(Past(r))
    ELSE IF Matches(r) THEN Hit(r)
    ELSE Past(r)

AfterTestNoEnd(r) == IF Matches(r) THEN Hit(r) ELSE Past(r)

(* The body of the loop: found, at the end, or on to the next node.        *)
AfterTest(r) ==
    IF Matches(r) THEN Hit(r)
    ELSE IF cell[r.cur].next = Null THEN Missing(Past(r))
    ELSE Past(r)

(* A variant of KeepsLock: the break out of the loop forgets the lock.     *)
KeepsLockFound(r) == Matches(r)

(* cloneTopic copies under the lock; all others release it.                *)
KeepsLock(r) == r.goal = "clone" /\ Matches(r)

(* The first node is named by the head pointer, which is read again for    *)
(* the comparison, the result, the next node and the unlock; addTopic      *)
(* reads it once.                                                          *)
ByHead(r) == r.prev = Null /\ r.goal # "last"
HeadMoved(r) == ByHead(r) /\ head # r.cur

Test(t) ==
    LET r == reg[t]
    IN  /\ At(t, "test") /\ Alive(t)
        /\ ~HeadMoved(r)
        /\ nodeLock' = IF KeepsLock(r) THEN nodeLock
                       ELSE [nodeLock EXCEPT ![r.cur] = Released(@, t)]
        /\ Become(t, AfterTest(r))
        /\ Same(<<head, cell, dataLock>>)
-------------------------------------------------------------------------------
(* The data pointer of a node, as a thread gets it.                        *)
DataOf(c) == IF cell[c].freed THEN Dangling ELSE cell[c].data
From(c) == IF cell[c].data = NoData THEN Null ELSE c

(* cloneTopic copies the data without the data lock.                       *)
Clone(t) ==
    LET r == reg[t]
    IN  /\ At(t, "clone") /\ Alive(t)
        /\ Become(t, [r EXCEPT !.pc = "copy", !.data = DataOf(r.cur), !.from = From(r.cur)])
        /\ Same(<<head, cell, Locks>>)

Copy(t) ==
    LET r == reg[t]
    IN  /\ At(t, "copy") /\ Alive(t)
        /\ r.data # Dangling
        /\ nodeLock' = [nodeLock EXCEPT ![r.cur] = Released(@, t)]
        /\ Become(t, Done(r))
        /\ Same(<<head, cell, dataLock>>)

(* cloneTopic without memory for the copy.                                 *)
CloneNoMemory(t) ==
    LET r == reg[t]
    IN  /\ At(t, "clone") /\ Alive(t)
        /\ nodeLock' = [nodeLock EXCEPT ![r.cur] = Released(@, t)]
        /\ Become(t, Done([r EXCEPT !.found = FALSE]))
        /\ Same(<<head, cell, dataLock>>)

(* A variant of Taken: updateTopicData passes no lease on.                 *)
TakenNoLease(r, n) == r

(* updateTopicData reads the node that getTopic found, without a lock, and *)
(* passes what it reads to setTopic.                                       *)
Taken(r, n) == [r EXCEPT !.topic_ma = n.topic_ma]

Read(t) ==
    LET r == reg[t]
    IN  /\ At(t, "read") /\ Alive(t) /\ r.goal = "topic"
        /\ Become(t, Walk([Taken(r, cell[r.cur]) EXCEPT !.raced = FALSE], "set"))
        /\ Same(<<head, cell, Locks>>)

(* So does updateTopicInfo, in two steps: first it measures the data, then *)
(* it reads their pointer again and their deadline.                        *)
Measure(t) ==
    LET r == reg[t]
    IN  /\ At(t, "read") /\ Alive(t) /\ r.goal = "info"
        /\ DataOf(r.cur) # Dangling
        /\ Become(t, [r EXCEPT !.pc = "pass", !.data = DataOf(r.cur), !.from = Null,
                               !.raced = FALSE])
        /\ Same(<<head, cell, Locks>>)

(* What is copied of the data now, by the length of those measured: other  *)
(* data may be cut to that length.                                         *)
Copied(measured, now) ==
    IF NoData \in {measured, now} THEN {NoData}
    ELSE IF now \in {measured, Dangling} THEN {now} ELSE Payloads

Passed(r, n, v) ==
    [r EXCEPT !.data = v, !.data_ma = n.data_ma, !.from = IF v = NoData THEN Null ELSE r.cur]

Pass(t) ==
    LET r == reg[t]
    IN  /\ At(t, "pass") /\ Alive(t)
        /\ \E v \in Copied(r.data, DataOf(r.cur)) :
               Become(t, Walk(Passed(r, cell[r.cur], v), "set"))
        /\ Same(<<head, cell, Locks>>)

(* setTopic and deleteTopicData: the node is locked again, for reading,    *)
(* and its data for writing.                                               *)
RLock(t) ==
    LET r == reg[t]
    IN  /\ At(t, "rlock") /\ Alive(t)
        /\ CanRead(nodeLock[r.cur])
        /\ nodeLock' = [nodeLock EXCEPT ![r.cur] = RLocked(@, t)]
        /\ Become(t, [r EXCEPT !.pc = "dlock"])
        /\ Same(<<head, cell, dataLock>>)

DLock(t) ==
    LET r == reg[t]
    IN  /\ At(t, "dlock") /\ Alive(t)
        /\ CanWrite(dataLock[r.cur])
        /\ dataLock' = [dataLock EXCEPT ![r.cur] = WLocked(@, t)]
        /\ Become(t, [r EXCEPT !.pc = "free_data"])
        /\ Same(<<head, cell, nodeLock>>)

(* What other threads hold of the data of node c when it is freed.         *)
DataGone(r, c) ==
    IF r.from = c THEN [r EXCEPT !.data = Dangling, !.from = Null] ELSE r

(* The new data are copied, then the old are freed; setTopic without data  *)
(* frees nothing.                                                          *)
FreeData(t) ==
    LET r == reg[t]
        frees == (r.goal = "set" => r.data # NoData) /\ cell[r.cur].data # NoData
        mine == [r EXCEPT !.pc = "assign", !.from = Null]
    IN  /\ At(t, "free_data") /\ Alive(t)
        /\ r.data # Dangling
        /\ cell' = [cell EXCEPT ![r.cur].freed = frees]
        /\ reg' = [u \in Threads |-> IF u = t THEN mine
                                     ELSE IF frees THEN DataGone(reg[u], r.cur) ELSE reg[u]]
        /\ Same(<<head, Locks>>)

(* Node n as thread r writes it.                                           *)
Assigned(n, r) ==
    IF r.goal = "drop"
    THEN [n EXCEPT !.data = NoData, !.data_ma = 0, !.freed = FALSE]
    ELSE [n EXCEPT !.data = r.data, !.topic_ma = r.topic_ma, !.data_ma = r.data_ma,
                   !.freed = FALSE]

Assign(t) ==
    LET r == reg[t]
    IN  /\ At(t, "assign") /\ Alive(t)
        /\ cell' = [cell EXCEPT ![r.cur] = Assigned(@, r)]
        /\ nodeLock' = [nodeLock EXCEPT ![r.cur] = Released(@, t)]
        /\ dataLock' = [dataLock EXCEPT ![r.cur] = Released(@, t)]
        /\ BecomeAndRace(t, Done(r))
        /\ Same(head)
-------------------------------------------------------------------------------
(* addTopic and deleteTopic: main only.  addTopic asks for the node's      *)
(* memory before it walks.                                                 *)
AddNoMemory(t) ==
    /\ At(t, "enter") /\ reg[t].goal = "last"
    /\ Become(t, Done([reg[t] EXCEPT !.found = FALSE]))
    /\ Same(<<head, cell, Locks>>)

WLockPrev(t) ==
    LET r == reg[t]
    IN  /\ At(t, "wlock_prev")
        /\ CanWrite(nodeLock[r.prev])
        /\ nodeLock' = [nodeLock EXCEPT ![r.prev] = WLocked(@, t)]
        /\ Become(t, [r EXCEPT !.pc = IF r.goal = "last" THEN "link" ELSE "wlock_cur"])
        /\ Same(<<head, cell, dataLock>>)

WLockCur(t) ==
    LET r == reg[t]
    IN  /\ At(t, "wlock_cur")
        /\ CanWrite(nodeLock[r.cur])
        /\ nodeLock' = [nodeLock EXCEPT ![r.cur] = WLocked(@, t)]
        /\ Become(t, [r EXCEPT !.pc = "unlink"])
        /\ Same(<<head, cell, dataLock>>)

(* The new node becomes the last one.                                      *)
Link(t) ==
    LET r == reg[t]
    IN  /\ At(t, "link")
        /\ \E c \in {d \in Cells : cell[d] = Null} :
             LET new == [path |-> r.path, next |-> Null, data |-> NoData,
                         topic_ma |-> r.topic_ma, data_ma |-> 0, freed |-> FALSE]
                 with == [cell EXCEPT ![c] = new]
             IN  IF r.prev = Null
                 THEN head' = c /\ cell' = with /\ UNCHANGED nodeLock
                 ELSE /\ cell' = [with EXCEPT ![r.prev].next = c]
                      /\ nodeLock' = [nodeLock EXCEPT ![r.prev] = Released(@, t)]
                      /\ UNCHANGED head
        /\ BecomeAndRace(t, Done(r))
        /\ Same(dataLock)

Unlink(t) ==
    LET r == reg[t]
        next == cell[r.cur].next
    IN  /\ At(t, "unlink")
        /\ IF r.prev = Null
           THEN head' = next /\ UNCHANGED cell
           ELSE cell' = [cell EXCEPT ![r.prev].next = next] /\ UNCHANGED head
        /\ nodeLock' = [c \in Cells |-> IF c \in {r.prev, r.cur} THEN Released(nodeLock[c], t)
                                        ELSE nodeLock[c]]
        /\ BecomeAndRace(t, [r EXCEPT !.pc = "free"])
        /\ Same(dataLock)

(* The node, its data and its locks are gone, whoever uses them.           *)
Gone(r, c) ==
    LET r2 == DataGone(r, c)
    IN  [r2 EXCEPT !.cur = IF @ = c THEN Dangling ELSE @,
                   !.next = IF @ = c THEN Dangling ELSE @]

Free(t) ==
    LET r == reg[t]
    IN  /\ At(t, "free")
        /\ cell' = [cell EXCEPT ![r.cur] = Null]
        /\ nodeLock' = [nodeLock EXCEPT ![r.cur] = Unlocked]
        /\ dataLock' = [dataLock EXCEPT ![r.cur] = Unlocked]
        /\ reg' = [u \in Threads |-> IF u = t THEN Gone(Done(r), r.cur)
                                     ELSE Gone(reg[u], r.cur)]
        /\ Same(head)
-------------------------------------------------------------------------------
(* The walks of topicDataMAMonitor and topicMAMonitor over the list.       *)
BeginMonitor(call) ==
    /\ At(Main, "idle")
    /\ call \in MainCalls
    /\ head # Null
    /\ Become(Main, [Idle EXCEPT !.call = call, !.pc = "mlock", !.cur = head])
    /\ Same(<<head, cell, Locks>>)

MonitorLock(t) ==
    LET r == reg[t]
    IN  /\ At(t, "mlock") /\ Alive(t)
        /\ CanRead(nodeLock[r.cur])
        /\ nodeLock' = [nodeLock EXCEPT ![r.cur] = RLocked(@, t)]
        /\ Become(t, [r EXCEPT !.pc = "mdlock", !.next = cell[r.cur].next])
        /\ Same(<<head, cell, dataLock>>)

MonitorDataLock(t) ==
    LET r == reg[t]
    IN  /\ At(t, "mdlock") /\ Alive(t)
        /\ CanRead(dataLock[r.cur])
        /\ dataLock' = [dataLock EXCEPT ![r.cur] = RLocked(@, t)]
        /\ Become(t, [r EXCEPT !.pc = "look"])
        /\ Same(<<head, cell, nodeLock>>)

(* Data or a topic with a deadline may have expired; both locks are        *)
(* released before it is deleted by its path.                              *)
Look(t, expired) ==
    LET r == reg[t]
        n == cell[r.cur]
        ma == IF r.call = "data_monitor" THEN n.data_ma ELSE n.topic_ma
    IN  /\ At(t, "look") /\ Alive(t)
        /\ expired => ma # 0
        /\ nodeLock' = [nodeLock EXCEPT ![r.cur] = Released(@, t)]
        /\ dataLock' = [dataLock EXCEPT ![r.cur] = Released(@, t)]
        /\ Become(t, IF expired
                     THEN Walk([r EXCEPT !.path = n.path],
                               IF r.call = "data_monitor" THEN "drop" ELSE "delete")
                     ELSE Done(r))
        /\ Same(<<head, cell>>)
-------------------------------------------------------------------------------
(* A step that uses freed memory or the NULL head, or that goes on with    *)
(* another head than the one whose lock it has.                            *)
UsesNode == {"lock", "test", "clone", "copy", "read", "pass", "rlock", "dlock", "free_data",
             "assign", "mlock", "mdlock", "look"}

Fault(t) ==
    LET r == reg[t]
        kind == IF r.pc # "head" /\ ~Alive(t) THEN "node"
                ELSE IF r.pc \notin {"head", "test"} THEN "data"
                ELSE IF head = Null THEN "null" ELSE "lock"
    IN  /\ fault = NoFault
        /\ \/ r.pc = "head" /\ head = Null
           \/ r.pc \in UsesNode /\ ~Alive(t)
           \/ r.pc = "test" /\ HeadMoved(r)
           \/ r.pc \in {"copy", "free_data"} /\ r.data = Dangling
           \/ r.pc = "read" /\ r.goal = "info" /\ Alive(t) /\ DataOf(r.cur) = Dangling
        /\ fault' = [thread |-> t, kind |-> kind]
        /\ UNCHANGED <<head, cell, Locks, reg, seen>>

Faulted == fault # NoFault /\ UNCHANGED vars

Step(t) ==
    \/ Enter(t) \/ Head(t) \/ LockNode(t) \/ Test(t)
    \/ Clone(t) \/ Copy(t) \/ CloneNoMemory(t) \/ Read(t) \/ Measure(t) \/ Pass(t)
    \/ RLock(t) \/ DLock(t) \/ FreeData(t) \/ Assign(t)
    \/ AddNoMemory(t) \/ WLockPrev(t) \/ WLockCur(t) \/ Link(t) \/ Unlink(t) \/ Free(t)
    \/ MonitorLock(t) \/ MonitorDataLock(t)
    \/ \E expired \in BOOLEAN : Look(t, expired)
    \/ Fault(t)

Next ==
    \/ \E t \in Threads : Step(t)
    \/ BeginCall
    \/ \E call \in {"data_monitor", "topic_monitor"} : BeginMonitor(call)
    \/ Faulted

Spec == Init /\ [][Next]_vars

(* Threads run, and a thread that waits for a lock gets it if the lock is  *)
(* released again and again: only one other thread ever competes for it.   *)
FairSpec == Spec /\ \A t \in Threads : SF_vars(Step(t))
-------------------------------------------------------------------------------
TypeOK ==
    /\ head \in Cells \cup {Null}
    /\ cell \in [Cells -> Cell \cup {Null}]
    /\ nodeLock \in [Cells -> Lock]
    /\ dataLock \in [Cells -> Lock]
    /\ reg \in [Threads -> Reg]
    /\ \A t \in Threads : reg[t].pc \in UsesNode => reg[t].cur # Null
    /\ seen \in [Threads -> SUBSET BOOLEAN]
    /\ fault \in [thread : Threads \cup {Null}, kind : {"none", "null", "node", "lock", "data"}]

(* The list is finite, has one node per path and no freed node, and no     *)
(* node is lost: what is not linked is the node that main is about to free.*)
ListIntact ==
    LET linked == Linked(head, cell)
    IN  /\ Chain(head, cell)[Cardinality(Cells)] = Null
        /\ \A c \in linked : cell[c] # Null
        /\ \A c, d \in linked : cell[c].path = cell[d].path => c = d
        /\ \A c \in Cells \ linked : cell[c] # Null => reg[Main].pc = "free" /\ reg[Main].cur = c

(* Locks are held only in the middle of a call: a thread that returns from *)
(* the list has given all its locks back, and only main ever writes to the *)
(* nodes' links.  The MQTT thread may keep a lock for good, and release    *)
(* another, only by a fault: main has unlinked the head it waited for.     *)
LocksReturned ==
    \A c \in Cells, t \in Threads :
        /\ t \in nodeLock[c].readers \cup nodeLock[c].writers \cup
                 dataLock[c].readers \cup dataLock[c].writers =>
             reg[t].pc \notin {"idle", "enter", "head"}
        /\ t \in nodeLock[c].writers => t = Main

(* The main thread may lose the data it is copying to the MQTT thread, but *)
(* never a node or a lock: no step of main, in a monitor that deletes      *)
(* nodes while it walks either, uses a node that has been freed or gives   *)
(* back a lock it does not hold.                                           *)
MainKeepsNodes == fault.thread = Main => fault.kind = "data"

(* A walk finds its path if the path was in the list all the time, and     *)
(* only if it was there at some time, whatever main links and unlinks      *)
(* (short of the head's node while the thread waits for its lock: a fault, *)
(* and the end of what can be said).                                       *)
FindsWhatStays ==
    [][ \A t \in Threads :
          LET ends == /\ reg[t].pc \in WalkPcs /\ reg[t].goal # "last"
                      /\ (reg'[t].pc \notin WalkPcs \/ reg'[t].goal # reg[t].goal)
              hit == reg'[t].found \/ reg'[t].goal = "info"
          IN  ends => hit \in seen[t] ]_vars

(* Each change of the map is made by one step, the operation of TopicDB;   *)
(* an update that reads a node and writes it back later is that operation  *)
(* too unless the other thread has changed the node in between.  Then the  *)
(* node gets what the update has read, whatever it is by now.              *)
ImplementsDB ==
    [][ LET m == Map
            m2 == MapOf(head', cell')
        IN  m2 # m =>
              \E t \in Threads :
                LET r == reg[t]
                IN  \/ r.pc = "link" /\ m2 = AddTopic(m, r.path, r.topic_ma)
                    \/ r.pc = "unlink" /\ m2 = DeleteTopics(m, {r.path})
                    \/ r.pc = "assign" /\ m2 =
                         CASE r.goal = "drop" -> DeleteTopicsData(m, {r.path})
                           [] r.goal = "set" /\ r.raced ->
                                SetTopic(m, r.path, r.data, r.topic_ma, r.data_ma)
                           [] r.goal = "set" /\ ~r.raced /\ r.call = "put" ->
                                UpdateTopicData(m, r.path, r.data_ma, r.data)
                           [] OTHER -> UpdateTopicInfo(m, r.path, r.topic_ma) ]_vars

(* Every call of the main thread ends, whatever the MQTT thread does; a    *)
(* call of the MQTT thread ends unless main goes on to move topics from    *)
(* the front of the list to its end.                                       *)
CallsEnd ==
    /\ (reg[Main].pc # "idle") ~> (reg[Main].pc = "idle" \/ fault # NoFault)
    /\ <>[](reg[Main].pc = "idle") =>
          ((reg[Mqtt].pc # "idle") ~> (reg[Mqtt].pc = "idle" \/ fault # NoFault))
==============================================================================
