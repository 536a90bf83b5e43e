-------------------------- MODULE RoomControlProofs --------------------------
(***************************************************************************)
(* Proofs about RoomControl: the types, that what brokerCheck and the      *)
(* sensor created is there, and that a task acts on a stale answer once.   *)
(***************************************************************************)
EXTENDS RoomControl, FiniteSetTheorems, TLAPS

Values == {NoData} \cup Readings \cup Outputs \cup Types

(* What the clients and the user send.                                     *)
Requests ==
    {Post(t) : t \in Topics} \cup {Put("lux", r) : r \in Readings} \cup UserMessages

Sensors == [at : {"ping", "create", "read", "publish", "exited"}, step : 1 .. 2,
            reading : Readings \cup {NoData}]

USE DEF Sensors

(* The types in full: the messages on their way, and what each client      *)
(* holds between two steps.                                                *)
ClientTypes ==
    /\ late \subseteq Requests /\ IsFiniteSet(late)
    /\ sensor \in Sensors
    /\ sensor.at = "publish" => sensor.reading \in Readings
    /\ sensor.at # "create" => sensor.step = 1
    /\ note \in [Types -> Values \cup {NoNote}]
    /\ task \in [Types -> [at : {"start", "listening", "asking", "told", "ended"},
                           held : Values \cup {NoNote}, mode : Types \cup {NoData}]]

(* What is created while the broker does not restart stays created.        *)
CreatedSoFar ==
    restarts = 0 =>
        /\ sensor.at = "create" /\ sensor.step = 2 => topic["room"] # NoTopic
        /\ sensor.at \in {"read", "publish"} =>
              topic["room"] # NoTopic /\ topic["lux"] # NoTopic
        /\ control \in 2 .. 4 => topic["channel"] # NoTopic
        /\ control \in 3 .. 4 => topic["relay"] # NoTopic
        /\ control = 4 => topic["channel"] \in Types

(* An answer that names the task was true when it was given: from then on  *)
(* the task has not acted, so the history counts from 0.                   *)
StaleCounted ==
    \A h \in Types :
        /\ topic["channel"] = h => stale[h] = 0
        /\ task[h].at = "told" /\ task[h].mode = h => stale[h] = 0
        /\ stale[h] <= 1

IInv == TypeOK /\ ClientTypes /\ CreatedSoFar /\ StaleCounted
-------------------------------------------------------------------------------
(* The clients' scripts.                                                   *)
LEMMA Scripts ==
    /\ Len(Script) = 3 /\ DOMAIN Script = 1 .. 3
    /\ Script[1] = Post("channel") /\ Script[2] = Post("relay")
    /\ Script[3] = Put("channel", internal)
    /\ Len(SensorTopics) = 2 /\ DOMAIN SensorTopics = 1 .. 2
    /\ SensorTopics[1] = "room" /\ SensorTopics[2] = "lux"
BY DEF Script, SensorTopics

(* What the scripts, the sensor and the user send.                         *)
LEMMA RequestsSent ==
    /\ \A i \in DOMAIN Script : Script[i] \in Requests
    /\ \A i \in DOMAIN SensorTopics : Post(SensorTopics[i]) \in Requests
    /\ \A r \in Readings : Put("lux", r) \in Requests
    /\ UserMessages \subseteq Requests
<1>1. \A t \in Topics : Post(t) \in Requests
  BY DEF Requests
<1>2. Put("channel", internal) \in Requests
  BY DEF Requests, UserMessages, Types
<1>3. {"room", "lux", "channel", "relay"} = Topics
  BY DEF Topics
<1> QED
  BY <1>1, <1>2, <1>3, Scripts DEF Requests

(* The fields of a request.                                                *)
LEMMA RequestFields ==
    ASSUME NEW m \in Requests
    PROVE  /\ m.method \in {"POST", "PUT"} /\ m.topic \in Topics /\ m.value \in Values
           /\ m.method = "POST" => m.value = NoData
           /\ m.method = "PUT" /\ m.topic = "channel" => m.value \in Types
BY DEF Requests, UserMessages, Post, Put, Topics, Values

(* What a request does to the broker's topics: it removes none, the        *)
(* channel stays a mode once it is one, and the history of a task starts   *)
(* anew when the channel names it.                                         *)
LEMMA Handled ==
    ASSUME TypeOK, ClientTypes, StaleCounted,
           NEW m \in Requests, NEW lost \in BOOLEAN, Handle(m, lost)
    PROVE  /\ topic' \in [Topics -> {NoTopic} \cup Values]
           /\ \A t \in Topics : topic[t] # NoTopic => topic'[t] # NoTopic
           /\ topic["channel"] \in Types => topic'["channel"] \in Types
           /\ m.method = "POST" => topic'[m.topic] # NoTopic
           /\ m.method = "PUT" /\ topic[m.topic] # NoTopic => topic'[m.topic] = m.value
           /\ note' \in [Types -> Values \cup {NoNote}]
           /\ stale' \in [Types -> Nat]
           /\ \A h \in Types : topic'["channel"] = h => stale'[h] = 0
           /\ \A h \in Types : stale'[h] \in {0, stale[h]}
           /\ UNCHANGED <<watching, io, restarts>>
<1>1. /\ topic \in [Topics -> {NoTopic} \cup Values]
      /\ note \in [Types -> Values \cup {NoNote}] /\ stale \in [Types -> Nat]
  BY DEF TypeOK, ClientTypes, Values
<1>2. NoTopic \notin Values /\ "channel" \in Topics
  BY RoomControlAssumption DEF Values, Topics
<1>3. /\ m.method \in {"POST", "PUT"} /\ m.topic \in Topics /\ m.value \in Values
      /\ m.method = "PUT" /\ m.topic = "channel" => m.value \in Types
  BY RequestFields
<1>4. topic' = After(m)
  BY DEF Handle
<1>5. /\ topic' \in [Topics -> {NoTopic} \cup Values]
      /\ \A t \in Topics : topic[t] # NoTopic => topic'[t] # NoTopic
      /\ topic["channel"] \in Types => topic'["channel"] \in Types
      /\ m.method = "POST" => topic'[m.topic] # NoTopic
      /\ m.method = "PUT" /\ topic[m.topic] # NoTopic => topic'[m.topic] = m.value
  <2>1. CASE (m.method = "POST") = (topic[m.topic] = NoTopic)
    <3>1. topic' = [topic EXCEPT ![m.topic] = m.value]
      BY <1>4, <2>1 DEF After
    <3>2. /\ topic' \in [Topics -> {NoTopic} \cup Values] /\ topic'[m.topic] = m.value
          /\ \A t \in Topics : t # m.topic => topic'[t] = topic[t]
      BY <3>1, <1>1, <1>3
    <3>3. topic["channel"] \in Types => topic'["channel"] \in Types
      BY <3>2, <1>2, <1>3, <2>1, RoomControlAssumption
    <3> QED
      BY <3>2, <3>3, <1>2, <1>3
  <2>2. CASE (m.method = "POST") # (topic[m.topic] = NoTopic)
    <3>1. topic' = topic
      BY <1>4, <2>2 DEF After
    <3> QED
      BY <3>1, <2>2, <1>1, <1>3
  <2> QED
    BY <2>1, <2>2
<1>6. note' \in [Types -> Values \cup {NoNote}]
  <2>1. note' = [h \in Types |-> IF h \in Told(m) /\ ~lost THEN m.value ELSE note[h]]
    BY DEF Handle
  <2> QED
    BY <2>1, <1>1, <1>3
<1>7. stale' = [h \in Types |-> IF topic'["channel"] = h THEN 0 ELSE stale[h]]
  BY DEF Handle
<1>8. /\ stale' \in [Types -> Nat]
      /\ \A h \in Types : topic'["channel"] = h => stale'[h] = 0
      /\ \A h \in Types : stale'[h] \in {0, stale[h]}
  BY <1>7, <1>1
<1>9. UNCHANGED <<watching, io, restarts>>
  BY DEF Handle
<1> QED
  BY <1>5, <1>6, <1>8, <1>9

(* A request that is given up may still be on its way.                     *)
LEMMA LeftOK ==
    ASSUME TypeOK, ClientTypes, NEW m \in Requests, late' \in Left(m)
    PROVE  late' \subseteq Requests /\ IsFiniteSet(late') /\ Cardinality(late') <= MaxLate
<1>1. late' \in {late, late \cup {m}} /\ Cardinality(late') <= MaxLate
  BY DEF Left, TypeOK
<1>2. IsFiniteSet(late) /\ IsFiniteSet(late \cup {m}) /\ late \subseteq Requests
  BY FS_AddElement DEF ClientTypes
<1> QED
  BY <1>1, <1>2

(* The invariant's parts about the broker alone.                           *)
LEMMA BrokerPart ==
    ASSUME IInv, NEW m \in Requests, NEW lost \in BOOLEAN, Handle(m, lost)
    PROVE  /\ topic' \in [Topics -> {NoTopic, NoData} \cup Readings \cup Outputs \cup Types]
           /\ watching' \subseteq Types
           /\ io' \in IF Pwm THEN 0 .. 100 ELSE {0, 1}
           /\ stale' \in [Types -> Nat]
           /\ restarts' \in 0 .. MaxRestarts
           /\ note' \in [Types -> Values \cup {NoNote}]
           /\ task' = task => StaleCounted'
<1>1. TypeOK /\ ClientTypes /\ StaleCounted
  BY DEF IInv
<1>2. /\ topic' \in [Topics -> {NoTopic, NoData} \cup Readings \cup Outputs \cup Types]
      /\ stale' \in [Types -> Nat] /\ note' \in [Types -> Values \cup {NoNote}]
      /\ UNCHANGED <<watching, io, restarts>>
      /\ \A h \in Types : topic'["channel"] = h => stale'[h] = 0
      /\ \A h \in Types : stale'[h] \in {0, stale[h]}
  <2>1. {NoTopic} \cup Values = {NoTopic, NoData} \cup Readings \cup Outputs \cup Types
    BY DEF Values
  <2> QED
    BY <1>1, <2>1, Handled
<1>3. task' = task => StaleCounted'
  BY <1>1, <1>2 DEF StaleCounted, TypeOK
<1> QED
  BY <1>1, <1>2, <1>3 DEF TypeOK
-------------------------------------------------------------------------------
(* Requests that arrive unawaited, and those of the user.                  *)
LEMMA RequestSteps ==
    ASSUME IInv, NEW m \in Requests, NEW lost \in BOOLEAN,
           Handle(m, lost), UNCHANGED <<sensor, control, task>>,
           late' \subseteq Requests, IsFiniteSet(late'), Cardinality(late') <= MaxLate
    PROVE  IInv'
<1>1. TypeOK /\ ClientTypes /\ CreatedSoFar /\ StaleCounted
  BY DEF IInv
<1>2. TypeOK' /\ ClientTypes' /\ StaleCounted'
  BY <1>1, BrokerPart DEF TypeOK, ClientTypes
<1>3. CreatedSoFar'
  BY <1>1, Handled DEF CreatedSoFar, Topics
<1> QED
  BY <1>2, <1>3 DEF IInv

LEMMA ArriveOK ==
    ASSUME IInv, NEW m \in late, NEW lost \in BOOLEAN, Arrive(m, lost)
    PROVE  IInv'
<1>1. /\ late \subseteq Requests /\ IsFiniteSet(late)
      /\ Cardinality(late) <= MaxLate /\ MaxLate \in Nat
  BY RoomControlAssumption DEF IInv, ClientTypes, TypeOK
<1>2. late' = late \ {m} /\ Handle(m, lost) /\ UNCHANGED <<sensor, control, task>>
  BY DEF Arrive
<1>3. /\ IsFiniteSet(late') /\ Cardinality(late') = Cardinality(late) - 1
      /\ Cardinality(late) \in Nat
  BY <1>1, <1>2, FS_RemoveElement, FS_CardinalityType
<1>4. late' \subseteq Requests /\ Cardinality(late') <= MaxLate
  BY <1>1, <1>2, <1>3
<1> QED
  BY <1>1, <1>2, <1>3, <1>4, RequestSteps

LEMMA UserPutOK ==
    ASSUME IInv, NEW m \in UserMessages, NEW lost \in BOOLEAN, UserPut(m, lost)
    PROVE  IInv'
<1>1. m \in Requests
  BY RequestsSent
<1>2. late' \subseteq Requests /\ IsFiniteSet(late') /\ Cardinality(late') <= MaxLate
  BY DEF UserPut, IInv, ClientTypes, TypeOK
<1> QED
  BY <1>1, <1>2, RequestSteps DEF UserPut

(* A restart empties the broker: what was created is gone, and the channel *)
(* names no task.                                                          *)
LEMMA RestartOK ==
    ASSUME IInv, Restart
    PROVE  IInv'
<1>1. restarts' > 0 /\ restarts' \in 0 .. MaxRestarts
  BY RoomControlAssumption DEF Restart, IInv, TypeOK
<1>2. TypeOK'
  BY <1>1 DEF Restart, IInv, TypeOK
<1>3. ClientTypes'
  BY DEF Restart, IInv, ClientTypes
<1>4. CreatedSoFar'
  BY <1>1 DEF CreatedSoFar
<1>5. StaleCounted'
  BY RoomControlAssumption DEF Restart, IInv, StaleCounted, Topics
<1> QED
  BY <1>2, <1>3, <1>4, <1>5 DEF IInv
-------------------------------------------------------------------------------
(* The sensor client: it goes from one creation to the next only when the  *)
(* broker has answered.                                                    *)
LEMMA CreateOK ==
    ASSUME IInv, NEW lost \in BOOLEAN, Create(lost)
    PROVE  IInv'
<1> DEFINE m == Post(SensorTopics[sensor.step])
<1>1. TypeOK /\ ClientTypes /\ CreatedSoFar /\ StaleCounted
  BY DEF IInv
<1>2. /\ sensor.at = "create" /\ sensor.step \in 1 .. 2
      /\ sensor \in Sensors
      /\ UNCHANGED <<control, task>>
  BY <1>1 DEF Create, ClientTypes
<1>3. m \in Requests /\ m.method = "POST" /\ m.topic = SensorTopics[sensor.step]
  BY <1>2, RequestsSent, Scripts DEF Post
<1>4. late' \subseteq Requests /\ IsFiniteSet(late') /\ Cardinality(late') <= MaxLate
  <2>1. late' \in Left(m)
    BY DEF Create
  <2> QED
    BY <1>1, <1>3, <2>1, LeftOK
<1>5. /\ sensor' \in Sensors
      /\ sensor'.at \in {"create", "read"}
      /\ sensor'.at # "create" => sensor'.step = 1
  <2>1. \/ sensor' = [sensor EXCEPT !.step = 1]
        \/ sensor.step < 2 /\ sensor' = [sensor EXCEPT !.step = @ + 1]
        \/ sensor' = ToRead
    BY Scripts DEF Create, CreationFailed
  <2>2. CASE sensor' = [sensor EXCEPT !.step = 1]
    BY <1>2, <2>2
  <2>3. CASE sensor.step < 2 /\ sensor' = [sensor EXCEPT !.step = @ + 1]
    <3>1. sensor.step + 1 = 2
      BY <1>2, <2>3
    <3> QED
      BY <1>2, <2>3, <3>1
  <2>4. CASE sensor' = ToRead
    BY <1>2, <2>4 DEF ToRead
  <2> QED
    BY <2>1, <2>2, <2>3, <2>4
<1>6. CASE lost
  <2>1. UNCHANGED <<topic, watching, note, io, stale, restarts>> /\ sensor' = CreationFailed
    BY <1>6 DEF Create, GiveUp
  <2>2. TypeOK' /\ ClientTypes' /\ StaleCounted'
    BY <1>1, <1>2, <1>4, <1>5, <2>1, Scripts DEF TypeOK, ClientTypes, StaleCounted
  <2>3. CreatedSoFar'
    BY <1>1, <1>2, <2>1 DEF CreatedSoFar, CreationFailed
  <2> QED
    BY <2>2, <2>3 DEF IInv
<1>7. CASE ~lost
  <2>1. /\ Handle(m, FALSE)
        /\ sensor' = IF sensor.step < Len(SensorTopics)
                     THEN [sensor EXCEPT !.step = @ + 1]
                     ELSE ToRead
    BY <1>7 DEF Create
  <2>2. TypeOK' /\ ClientTypes' /\ StaleCounted'
    <3>1. sensor'.at \in {"create", "read"} /\ sensor'.step \in DOMAIN SensorTopics
      BY <1>5, Scripts
    <3> QED
      BY <1>1, <1>2, <1>3, <1>4, <1>5, <2>1, <3>1, BrokerPart DEF TypeOK, ClientTypes
  <2>3. /\ \A t \in Topics : topic[t] # NoTopic => topic'[t] # NoTopic
        /\ topic["channel"] \in Types => topic'["channel"] \in Types
        /\ topic'[SensorTopics[sensor.step]] # NoTopic
        /\ restarts' = restarts
    BY <1>1, <1>3, <2>1, Handled
  <2>4. CreatedSoFar'
    <3>1. /\ sensor.step = 1 => sensor'.at = "create" /\ topic'["room"] # NoTopic
          /\ sensor.step = 2 => topic'["lux"] # NoTopic
          /\ sensor.step = 2 => sensor'.at = "read" /\ sensor'.step = 1
      <4>1. /\ sensor.step = 1 => sensor' = [sensor EXCEPT !.step = sensor.step + 1]
            /\ sensor.step = 2 => sensor' = ToRead
        BY <1>2, <2>1, Scripts
      <4>2. ToRead.at = "read" /\ ToRead.step = 1
        BY DEF ToRead
      <4> QED
        BY <1>2, <2>3, <4>1, <4>2, Scripts
    <3>2. restarts' = 0 /\ sensor.step = 2 => topic'["room"] # NoTopic
      BY <1>1, <1>2, <2>3 DEF CreatedSoFar, Topics
    <3>3. sensor'.at # "publish"
      BY <1>5
    <3> QED
      BY <1>1, <1>2, <2>3, <3>1, <3>2, <3>3 DEF CreatedSoFar, Topics
  <2> QED
    BY <2>2, <2>4 DEF IInv
<1> QED
  BY <1>6, <1>7

LEMMA PublishOK ==
    ASSUME IInv, NEW lost \in BOOLEAN, NEW unseen \in BOOLEAN, Publish(lost, unseen)
    PROVE  IInv'
<1> DEFINE m == Put("lux", sensor.reading)
<1>1. TypeOK /\ ClientTypes /\ CreatedSoFar /\ StaleCounted
  BY DEF IInv
<1>2. sensor.at = "publish" /\ m \in Requests /\ UNCHANGED <<control, task>>
  BY <1>1, RequestsSent DEF Publish, ClientTypes
<1>3. late' \subseteq Requests /\ IsFiniteSet(late') /\ Cardinality(late') <= MaxLate
  <2>1. late' \in Left(m)
    BY DEF Publish
  <2> QED
    BY <1>1, <1>2, <2>1, LeftOK
<1>4. /\ sensor' \in Sensors
      /\ sensor'.at = "read" /\ sensor'.step = 1 /\ 1 \in DOMAIN SensorTopics
  BY <1>1, Scripts DEF Publish, ToRead, ClientTypes
<1>5. CASE lost
  <2>1. UNCHANGED <<topic, watching, note, io, stale, restarts>>
    BY <1>5 DEF Publish, GiveUp
  <2> QED
    BY <1>1, <1>2, <1>3, <1>4, <2>1
    DEF IInv, TypeOK, ClientTypes, CreatedSoFar, StaleCounted
<1>6. CASE ~lost
  <2>1. Handle(m, unseen)
    BY <1>6 DEF Publish
  <2>2. TypeOK' /\ ClientTypes' /\ StaleCounted'
    BY <1>1, <1>2, <1>3, <1>4, <2>1, BrokerPart DEF TypeOK, ClientTypes
  <2>3. CreatedSoFar'
    BY <1>1, <1>2, <1>4, <2>1, Handled DEF CreatedSoFar, Topics
  <2> QED
    BY <2>2, <2>3 DEF IInv
<1> QED
  BY <1>5, <1>6

LEMMA SensorAloneOK ==
    ASSUME IInv,
           BrokerAlive \/ SensorInterrupt \/ (\E reading \in Readings : Read(reading))
    PROVE  IInv'
<1>1. TypeOK /\ ClientTypes /\ CreatedSoFar /\ StaleCounted
  BY DEF IInv
<1>2. UNCHANGED <<topic, watching, late, control, task, note, io, stale, restarts>>
  BY DEF BrokerAlive, SensorInterrupt, Read
<1>3. /\ sensor' \in Sensors
      /\ sensor'.at = "publish" => sensor'.reading \in Readings
      /\ sensor'.at \in {"read", "publish"} => sensor.at \in {"read", "publish"}
      /\ sensor'.step = 1
  <2>1. /\ sensor \in Sensors
        /\ sensor.at # "create" => sensor.step = 1
    BY <1>1 DEF ClientTypes
  <2>2. CASE BrokerAlive
    BY <2>1, <2>2 DEF BrokerAlive
  <2>3. CASE SensorInterrupt
    <3>1. \/ sensor' = [at |-> "exited", step |-> 1, reading |-> NoData]
          \/ sensor.at = "create" /\ sensor' = CreationFailed
          \/ sensor.at = "publish" /\ sensor' = ToRead
      <4>1. sensor.at \in {"ping", "create", "publish"}
        BY <2>3 DEF SensorInterrupt
      <4>2. CASE sensor.at = "ping"
        BY <2>3, <4>2 DEF SensorInterrupt
      <4>3. CASE sensor.at = "create"
        BY <2>3, <4>3 DEF SensorInterrupt
      <4>4. CASE sensor.at = "publish"
        BY <2>3, <4>4 DEF SensorInterrupt
      <4> QED
        BY <4>1, <4>2, <4>3, <4>4
    <3> QED
      BY <2>1, <3>1 DEF CreationFailed, ToRead
  <2>4. CASE \E reading \in Readings : Read(reading)
    BY <2>1, <2>4 DEF Read
  <2> QED
    BY <2>2, <2>3, <2>4
<1>4. TypeOK' /\ ClientTypes' /\ StaleCounted'
  BY <1>1, <1>2, <1>3, Scripts DEF TypeOK, ClientTypes, StaleCounted
<1> QED
  BY <1>1, <1>2, <1>3, <1>4 DEF IInv, CreatedSoFar
-------------------------------------------------------------------------------
(* The controller: brokerCheck goes on only when the broker has answered.  *)
LEMMA CheckOK ==
    ASSUME IInv, NEW lost \in BOOLEAN, Check(lost)
    PROVE  IInv'
<1> DEFINE m == Script[control]
<1>1. TypeOK /\ ClientTypes /\ CreatedSoFar /\ StaleCounted
  BY DEF IInv
<1>2. control \in 1 .. 3 /\ m \in Requests /\ UNCHANGED <<sensor, task>>
  BY Scripts, RequestsSent DEF Check
<1>3. late' \subseteq Requests /\ IsFiniteSet(late') /\ Cardinality(late') <= MaxLate
  <2>1. late' \in Left(m)
    BY DEF Check
  <2> QED
    BY <1>1, <1>2, <2>1, LeftOK
<1>4. CASE lost
  <2>1. UNCHANGED <<topic, watching, note, io, stale, restarts>> /\ control' = 1
    BY <1>4 DEF Check, GiveUp, CheckFailed
  <2>2. control' \in 0 .. Len(Script) + 2
    BY <2>1, Scripts
  <2>3. TypeOK' /\ ClientTypes' /\ StaleCounted'
    BY <1>1, <1>2, <1>3, <2>1, <2>2 DEF TypeOK, ClientTypes, StaleCounted
  <2>4. CreatedSoFar'
    BY <1>1, <1>2, <2>1 DEF CreatedSoFar
  <2> QED
    BY <2>3, <2>4 DEF IInv
<1>5. CASE ~lost
  <2>1. Handle(m, FALSE) /\ control' = control + 1
    BY <1>5 DEF Check
  <2>2. control' \in 0 .. Len(Script) + 2
    BY <1>2, <2>1, Scripts
  <2>3. TypeOK' /\ ClientTypes' /\ StaleCounted'
    BY <1>1, <1>2, <1>3, <2>1, <2>2, BrokerPart DEF TypeOK, ClientTypes
  <2>4. /\ \A t \in Topics : topic[t] # NoTopic => topic'[t] # NoTopic
        /\ topic["channel"] \in Types => topic'["channel"] \in Types
        /\ m.method = "POST" => topic'[m.topic] # NoTopic
        /\ m.method = "PUT" /\ topic[m.topic] # NoTopic => topic'[m.topic] = m.value
        /\ restarts' = restarts
    BY <1>1, <1>2, <2>1, Handled
  <2>5. CASE control = 1
    <3>1. control' = 2 /\ topic'["channel"] # NoTopic
      BY <2>1, <2>4, <2>5, Scripts DEF Post
    <3> QED
      BY <1>1, <1>2, <2>3, <2>4, <3>1 DEF CreatedSoFar, Topics, IInv
  <2>6. CASE control = 2
    <3>1. control' = 3 /\ topic'["relay"] # NoTopic
      BY <2>1, <2>4, <2>6, Scripts DEF Post
    <3> QED
      BY <1>1, <1>2, <2>3, <2>4, <2>6, <3>1 DEF CreatedSoFar, Topics, IInv
  <2>7. CASE control = 3
    <3>1. control' = 4 /\ (topic["channel"] # NoTopic => topic'["channel"] = internal)
      BY <2>1, <2>4, <2>7, Scripts DEF Put
    <3> QED
      BY <1>1, <1>2, <2>3, <2>4, <2>7, <3>1 DEF CreatedSoFar, Topics, IInv, Types
  <2> QED
    BY <1>2, <2>5, <2>6, <2>7
<1> QED
  BY <1>4, <1>5

LEMMA ControlAloneOK ==
    ASSUME IInv, Ping \/ ControlInterrupt
    PROVE  IInv'
<1>1. TypeOK /\ ClientTypes /\ CreatedSoFar /\ StaleCounted
  BY DEF IInv
<1>2. UNCHANGED <<topic, watching, late, sensor, note, io, stale, restarts>>
  BY DEF Ping, ControlInterrupt
<1>3. control' \in {1, 5} /\ control' \in 0 .. Len(Script) + 2
  BY Scripts DEF Ping, ControlInterrupt, CheckFailed
<1>4. /\ task' \in [Types -> [at : {"start", "listening", "asking", "told", "ended"},
                              held : Values \cup {NoNote}, mode : Types \cup {NoData}]]
      /\ \A h \in Types : task'[h].at = "told" => task'[h] = task[h]
  <2>1. CASE Ping
    BY <1>1, <2>1 DEF Ping, ClientTypes
  <2>2. CASE ControlInterrupt
    <3>1. task' = [h \in Types |-> IF Checked THEN [Idle EXCEPT !.at = "ended"] ELSE task[h]]
      BY <2>2 DEF ControlInterrupt
    <3> QED
      BY <1>1, <3>1 DEF ClientTypes, Idle
  <2> QED
    BY <2>1, <2>2
<1>5. TypeOK' /\ ClientTypes' /\ StaleCounted'
  BY <1>1, <1>2, <1>3, <1>4 DEF TypeOK, ClientTypes, StaleCounted
<1> QED
  BY <1>1, <1>2, <1>3, <1>5 DEF IInv, CreatedSoFar
-------------------------------------------------------------------------------
(* The two tasks: what a step that leaves the actuator alone keeps.        *)
LEMMA TaskAloneOK ==
    ASSUME IInv, NEW h \in Types,
           NEW state \in [at : {"start", "listening", "asking", "told", "ended"},
                          held : Values \cup {NoNote}, mode : Types \cup {NoData}],
           TaskStep(h, state), UNCHANGED <<io, stale>>,
           state.at = "told" /\ state.mode = h => topic["channel"] = h,
           watching' \subseteq Types, note' \in [Types -> Values \cup {NoNote}]
    PROVE  IInv'
<1>1. TypeOK /\ ClientTypes /\ CreatedSoFar /\ StaleCounted
  BY DEF IInv
<1>2. /\ UNCHANGED <<topic, late, sensor, control, restarts>>
      /\ task' = [task EXCEPT ![h] = state]
  BY DEF TaskStep
<1>3. TypeOK' /\ ClientTypes'
  BY <1>1, <1>2 DEF TypeOK, ClientTypes
<1>4. StaleCounted'
  BY <1>1, <1>2 DEF StaleCounted, ClientTypes
<1> QED
  BY <1>1, <1>2, <1>3, <1>4 DEF IInv, CreatedSoFar

LEMMA ListenOK ==
    ASSUME IInv, NEW h \in Types,
           Observe(h) \/ CannotObserve(h) \/ Take(h) \/ Ask(h) \/ AskFails(h)
    PROVE  IInv'
<1> DEFINE States == [at : {"start", "listening", "asking", "told", "ended"},
                      held : Values \cup {NoNote}, mode : Types \cup {NoData}]
<1>1. /\ task \in [Types -> States] /\ note \in [Types -> Values \cup {NoNote}]
      /\ watching \subseteq Types
  BY DEF IInv, TypeOK, ClientTypes
<1>2. UNCHANGED <<io, stale>>
  BY DEF Observe, CannotObserve, Take, Ask, AskFails, End
<1>3. watching' \subseteq Types /\ note' \in [Types -> Values \cup {NoNote}]
  BY <1>1 DEF Observe, CannotObserve, Take, Ask, AskFails, End
<1>4. \E state \in States :
         TaskStep(h, state) /\ (state.at = "told" /\ state.mode = h => topic["channel"] = h)
  <2>1. Idle \in States /\ Idle.at # "told"
    BY DEF Idle
  <2>2. [Idle EXCEPT !.at = "ended"] \in States /\ [Idle EXCEPT !.at = "ended"].at # "told"
    BY DEF Idle
  <2>3. CASE Observe(h)
    BY <2>1, <2>3 DEF Observe
  <2>4. CASE CannotObserve(h) \/ AskFails(h)
    BY <2>2, <2>4 DEF CannotObserve, AskFails, End
  <2>5. CASE Take(h)
    <3> DEFINE state == [at |-> "asking", held |-> note[h], mode |-> NoData]
    <3>1. state \in States /\ state.at # "told"
      BY <1>1
    <3> QED
      BY <2>5, <3>1 DEF Take
  <2>6. CASE Ask(h)
    <3> DEFINE state == [at |-> "told", held |-> task[h].held, mode |-> Mode(h)]
    <3>1. Mode(h) \in Types \cup {NoData} /\ (Mode(h) = h => topic["channel"] = h)
      BY RoomControlAssumption DEF Mode
    <3>2. state \in States
      BY <1>1, <3>1
    <3> QED
      BY <2>6, <3>1, <3>2 DEF Ask
  <2> QED
    BY <2>3, <2>4, <2>5, <2>6
<1> QED
  BY <1>2, <1>3, <1>4, TaskAloneOK

(* What a task writes to the actuator is a level of the pin, or a duty.    *)
LEMMA Output ==
    ASSUME NEW h \in Types, NEW value, io \in IF Pwm THEN 0 .. 100 ELSE {0, 1}
    PROVE  SensorHandler(h, value) \in IF Pwm THEN 0 .. 100 ELSE {0, 1}
BY DEF SensorHandler, Driven

(* A task acts on a stale answer only while the channel names another      *)
(* mode, and then listens again: the next answer is not stale.             *)
LEMMA ActOK ==
    ASSUME IInv, NEW h \in Types, Act(h)
    PROVE  IInv'
<1>1. TypeOK /\ ClientTypes /\ CreatedSoFar /\ StaleCounted
  BY DEF IInv
<1>2. /\ UNCHANGED <<topic, late, sensor, control, restarts, watching, note>>
      /\ task' = [task EXCEPT ![h] = Idle] /\ task[h].at = "told"
  BY DEF Act, TaskStep
<1>3. io' \in IF Pwm THEN 0 .. 100 ELSE {0, 1}
  <2>1. io' \in {io, SensorHandler(h, task[h].held)}
    BY DEF Act
  <2> QED
    BY <1>1, <2>1, Output DEF TypeOK
<1>4. /\ stale' \in [Types -> Nat]
      /\ \A g \in Types :
            \/ stale'[g] = stale[g]
            \/ g = h /\ topic["channel"] # h /\ stale[h] = 0 /\ stale'[h] = 1
  <2>1. stale \in [Types -> Nat]
    BY <1>1 DEF TypeOK
  <2>2. IF task[h].mode = h
        THEN stale' = IF topic["channel"] = h THEN stale ELSE [stale EXCEPT ![h] = stale[h] + 1]
        ELSE stale' = stale
    BY DEF Act
  <2>3. CASE task[h].mode = h /\ topic["channel"] # h
    <3>1. stale' = [stale EXCEPT ![h] = stale[h] + 1] /\ stale[h] = 0
      BY <1>1, <1>2, <2>2, <2>3 DEF StaleCounted
    <3> QED
      BY <2>1, <2>3, <3>1
  <2>4. CASE task[h].mode # h
    BY <2>1, <2>2, <2>4
  <2>5. CASE task[h].mode = h /\ topic["channel"] = h
    BY <2>1, <2>2, <2>5
  <2> QED
    BY <2>3, <2>4, <2>5
<1>5. Idle \in [at : {"start", "listening", "asking", "told", "ended"},
                held : Values \cup {NoNote}, mode : Types \cup {NoData}]
      /\ Idle.at = "listening"
  BY DEF Idle
<1>6. TypeOK' /\ ClientTypes'
  BY <1>1, <1>2, <1>3, <1>4, <1>5 DEF TypeOK, ClientTypes
<1>7. StaleCounted'
  BY <1>1, <1>2, <1>4, <1>5 DEF StaleCounted, ClientTypes, TypeOK
<1> QED
  BY <1>1, <1>2, <1>6, <1>7 DEF IInv, CreatedSoFar
-------------------------------------------------------------------------------
LEMMA Initially == Init => IInv
<1> SUFFICES ASSUME Init PROVE IInv
  OBVIOUS
<1>1. TypeOK
  BY RoomControlAssumption, Scripts, FS_EmptySet DEF Init, TypeOK, Idle
<1>2. ClientTypes
  BY FS_EmptySet DEF Init, ClientTypes, Idle
<1>3. CreatedSoFar /\ StaleCounted
  BY RoomControlAssumption DEF Init, CreatedSoFar, StaleCounted, Idle, Topics
<1> QED
  BY <1>1, <1>2, <1>3 DEF IInv

LEMMA Inductive == IInv /\ [Next]_vars => IInv'
<1> SUFFICES ASSUME IInv, [Next]_vars PROVE IInv'
  OBVIOUS
<1>1. ASSUME NEW m \in late, NEW lost \in BOOLEAN, Arrive(m, lost) PROVE IInv'
  BY <1>1, ArriveOK
<1>2. ASSUME NEW m \in UserMessages, NEW lost \in BOOLEAN, UserPut(m, lost) PROVE IInv'
  BY <1>2, UserPutOK
<1>3. CASE Restart
  BY <1>3, RestartOK
<1>4. CASE BrokerAlive \/ SensorInterrupt \/ (\E reading \in Readings : Read(reading))
  BY <1>4, SensorAloneOK
<1>5. ASSUME NEW lost \in BOOLEAN, Create(lost) \/ Check(lost) PROVE IInv'
  BY <1>5, CreateOK, CheckOK
<1>6. ASSUME NEW lost \in BOOLEAN, NEW unseen \in BOOLEAN, Publish(lost, unseen) PROVE IInv'
  BY <1>6, PublishOK
<1>7. CASE Ping \/ ControlInterrupt
  BY <1>7, ControlAloneOK
<1>8. ASSUME NEW h \in Types,
             Observe(h) \/ CannotObserve(h) \/ Take(h) \/ Ask(h) \/ AskFails(h) \/ Act(h)
      PROVE  IInv'
  BY <1>8, ListenOK, ActOK
<1>9. CASE UNCHANGED vars
  BY <1>9 DEF vars, IInv, TypeOK, ClientTypes, CreatedSoFar, StaleCounted
<1> QED
  BY <1>1, <1>2, <1>3, <1>4, <1>5, <1>6, <1>7, <1>8, <1>9 DEF Next

LEMMA Invariant == Spec => []IInv
BY Initially, Inductive, PTL DEF Spec

(* The types of the clients and of the broker they share, with the bounds  *)
(* that the guards keep.                                                   *)
THEOREM RoomTypes == Spec => []TypeOK
<1>1. IInv => TypeOK
  BY DEF IInv
<1> QED
  BY <1>1, Invariant, PTL

(* What main of the sensor client and brokerCheck report as created is     *)
(* there until the broker restarts, whatever was lost, interrupted, tried  *)
(* again or arrives late.                                                  *)
THEOREM SetUpHolds == Spec => []SetUpIsComplete
<1>1. IInv => SetUpIsComplete
  BY Scripts DEF IInv, CreatedSoFar, SetUpIsComplete, Checked
<1> QED
  BY <1>1, Invariant, PTL

(* After the channel has left a task's mode, actuatorHandler drives the    *)
(* actuator for that task at most once more.                               *)
THEOREM ActsStaleOnce == Spec => []StaleOnce
<1>1. IInv => StaleOnce
  BY DEF IInv, StaleCounted, StaleOnce
<1> QED
  BY <1>1, Invariant, PTL
==============================================================================
