----------------------------- MODULE RoomControl -----------------------------
(***************************************************************************)
(* The Python clients of the broker in one room: a sensor that creates its *)
(* topics and publishes readings, and a controller that creates a channel  *)
(* and an actuator topic and drives one actuator from two tasks.  The task *)
(* "internal" acts on readings, the task "external" on what a user         *)
(* publishes for the actuator; each looks at the channel, which holds the  *)
(* mode, before it acts.                                                   *)
(*                                                                         *)
(* The broker is reduced to its topics and what it sends to observers.  A  *)
(* client that gets no answer goes on after an exception; a request that   *)
(* nobody waits for any more, or a copy of one, may still arrive.          *)
(***************************************************************************)
EXTENDS Integers, Sequences, FiniteSets

CONSTANTS
    Readings, Threshold, ThresholdType, \* "on" or "off"
    Pwm,            \* the actuator is a PWM output, not a pin
    Outputs,        \* values that the user publishes for the actuator
    internal, external,     \* the tasks, and the values of the channel
    NoTopic, NoData, NoNote,
    MaxLate,        \* bound: requests that are on their way unawaited
    MaxRestarts     \* bound: restarts of the broker

Types == {internal, external}

ASSUME RoomControlAssumption ==
    /\ Readings \subseteq Nat /\ Threshold \in Int /\ Outputs \subseteq Nat
    /\ ThresholdType \in {"on", "off"} /\ Pwm \in BOOLEAN
    /\ MaxLate \in Nat /\ MaxRestarts \in Nat
    /\ NoData \notin Types
    /\ NoTopic \notin {NoData} \cup Readings \cup Outputs \cup Types

VARIABLES
    topic,      \* the broker's topics
    watching,   \* tasks that the broker has an observer for
    late,       \* requests nobody waits for any more
    sensor,     \* where main of the sensor client is, with the next reading
    control,    \* the step of brokerCheck that comes next
    task,       \* the two actuatorHandler tasks
    note,       \* note[h]: the newest notification that h has not taken
    io,         \* the level of the pin, or the duty cycle
    stale,      \* stale[h] (history): acts of h since the channel left it
    restarts

vars == <<topic, watching, late, sensor, control, task, note, io, stale, restarts>>
-------------------------------------------------------------------------------
(* What the clients send.                                                  *)
Post(t)   == [method |-> "POST", topic |-> t, value |-> NoData]
Put(t, v) == [method |-> "PUT", topic |-> t, value |-> v]

SensorTopics == <<"room", "lux">>
Script == <<Post("channel"), Post("relay"), Put("channel", internal)>>
Topics == {"room", "lux", "channel", "relay"}

Observed == [h \in Types |-> IF h = internal THEN "lux" ELSE "relay"]

Idle == [at |-> "listening", held |-> NoNote, mode |-> NoData]

Init ==
    /\ topic = [t \in Topics |-> NoTopic]
    /\ watching = {} /\ late = {}
    /\ sensor = [at |-> "ping", step |-> 1, reading |-> NoData]
    /\ control = 0
    /\ task = [h \in Types |-> [Idle EXCEPT !.at = "start"]]
    /\ note = [h \in Types |-> NoNote]
    /\ io = IF Pwm THEN 0 ELSE 1
    /\ stale = [h \in Types |-> 0]
    /\ restarts = 0

(* The broker's handlers: a POST leaves an existing topic as it is, a PUT  *)
(* to a topic that is missing is answered with 4.04.  Of two notifications *)
(* that an observer has not taken it sees the newer one; each may be lost. *)
After(m) ==
    IF (m.method = "POST") = (topic[m.topic] = NoTopic)
    THEN [topic EXCEPT ![m.topic] = m.value] ELSE topic

Told(m) ==
    IF m.method = "POST" \/ topic[m.topic] = NoTopic THEN {}
    ELSE {h \in watching : Observed[h] = m.topic}

Handle(m, lost) ==
    /\ topic' = After(m)
    /\ note' = [h \in Types |-> IF h \in Told(m) /\ ~lost THEN m.value ELSE note[h]]
    /\ stale' = [h \in Types |-> IF topic'["channel"] = h THEN 0 ELSE stale[h]]
    /\ UNCHANGED <<watching, io, restarts>>

(* A request may fail at its client, answered or not, and a copy of it may *)
(* be on its way all the same.                                             *)
Left(m) == {late} \cup {l \in {late \cup {m}} : Cardinality(l) <= MaxLate}

GiveUp == UNCHANGED <<topic, watching, note, io, stale, restarts>>

Arrive(m, lost) ==
    /\ m \in late
    /\ Handle(m, lost)
    /\ late' = late \ {m}
    /\ UNCHANGED <<sensor, control, task>>

UserPut(m, lost) ==
    /\ Handle(m, lost)
    /\ UNCHANGED <<late, sensor, control, task>>

(* The broker keeps nothing.                                               *)
Restart ==
    /\ restarts < MaxRestarts
    /\ restarts' = restarts + 1
    /\ topic' = [t \in Topics |-> NoTopic]
    /\ watching' = {}
    /\ UNCHANGED <<late, sensor, control, task, note, io, stale>>
-------------------------------------------------------------------------------
(* The sensor client's main.                                               *)
BrokerAlive ==
    /\ sensor.at = "ping"
    /\ sensor' = [sensor EXCEPT !.at = "create"]
    /\ UNCHANGED <<topic, watching, late, control, task, note, io, stale, restarts>>

ToRead == [at |-> "read", step |-> 1, reading |-> NoData]

(* A variant of CreationFailed that goes on with the next topic.           *)
CreationFailedNext ==
    IF sensor.step < Len(SensorTopics) THEN [sensor EXCEPT !.step = @ + 1]
    ELSE ToRead

(* except: all topics are created anew.                                    *)
CreationFailed == [sensor EXCEPT !.step = 1]

Create(lost) ==
    LET m == Post(SensorTopics[sensor.step])
    IN  /\ sensor.at = "create"
        /\ late' \in Left(m)
        /\ IF lost THEN GiveUp /\ sensor' = CreationFailed
           ELSE /\ Handle(m, FALSE)
                /\ sensor' = IF sensor.step < Len(SensorTopics)
                             THEN [sensor EXCEPT !.step = @ + 1]
                             ELSE ToRead
        /\ UNCHANGED <<control, task>>

Read(reading) ==
    /\ sensor.at = "read"
    /\ sensor' = [sensor EXCEPT !.at = "publish", !.reading = reading]
    /\ UNCHANGED <<topic, watching, late, control, task, note, io, stale, restarts>>

Publish(lost, unseen) ==
    LET m == Put("lux", sensor.reading)
    IN  /\ sensor.at = "publish"
        /\ late' \in Left(m)
        /\ IF lost THEN GiveUp ELSE Handle(m, unseen)
        /\ sensor' = ToRead
        /\ UNCHANGED <<control, task>>

(* signal_handler raises SystemExit, which a bare except catches too: only *)
(* outside the try statements the client is sure to end.                   *)
SensorInterrupt ==
    /\ sensor.at \in {"ping", "create", "publish"}
    /\ sensor' \in
          {[at |-> "exited", step |-> 1, reading |-> NoData]}
             \cup (CASE sensor.at = "ping"    -> {}
                     [] sensor.at = "create"  -> {CreationFailed}
                     [] sensor.at = "publish" -> {ToRead})
    /\ UNCHANGED <<topic, watching, late, control, task, note, io, stale, restarts>>
-------------------------------------------------------------------------------
(* The controller: brokerCheck, then the two tasks.                        *)
Checked     == control = Len(Script) + 1
Interrupted == control = Len(Script) + 2

Ping ==
    /\ control = 0
    /\ control' = 1
    /\ UNCHANGED <<topic, watching, late, sensor, task, note, io, stale, restarts>>

(* A variant of CheckFailed that ends the program.                         *)
CheckFailedOnce == Len(Script) + 3

(* except: brokerCheck begins anew.                                        *)
CheckFailed == 1

Check(lost) ==
    /\ control \in DOMAIN Script
    /\ late' \in Left(Script[control])
    /\ IF lost THEN GiveUp /\ control' = CheckFailed
       ELSE Handle(Script[control], FALSE) /\ control' = control + 1
    /\ UNCHANGED <<sensor, task>>

TaskStep(h, state) ==
    /\ Checked
    /\ task' = [task EXCEPT ![h] = state]
    /\ UNCHANGED <<topic, late, sensor, control, restarts>>

End(h) ==
    TaskStep(h, [Idle EXCEPT !.at = "ended"]) /\ UNCHANGED <<watching, note, io, stale>>

(* pr.response: the task does not act on the first response.  Without the  *)
(* topic the iteration over pr.observation ends with an exception.         *)
Observe(h) ==
    /\ task[h].at = "start"
    /\ topic[Observed[h]] # NoTopic
    /\ TaskStep(h, Idle)
    /\ watching' = watching \cup {h}
    /\ UNCHANGED <<note, io, stale>>

CannotObserve(h) == task[h].at = "start" /\ End(h)

(* async for: the newest notification.                                     *)
Take(h) ==
    /\ task[h].at = "listening" /\ note[h] # NoNote
    /\ TaskStep(h, [at |-> "asking", held |-> note[h], mode |-> NoData])
    /\ note' = [note EXCEPT ![h] = NoNote]
    /\ UNCHANGED <<watching, io, stale>>

(* A variant of Mode for a task that trusts the notification alone.        *)
ModeTrusted(h) == h

(* The payload of the channel when the broker answers.                     *)
Mode(h) == IF topic["channel"] \in Types THEN topic["channel"] ELSE NoData

Ask(h) ==
    /\ task[h].at = "asking"
    /\ TaskStep(h, [at |-> "told", held |-> task[h].held, mode |-> Mode(h)])
    /\ UNCHANGED <<watching, note, io, stale>>

(* getTopicData returns 'error', which is not a pair.                      *)
AskFails(h) == task[h].at = "asking" /\ End(h)

(* A variant of Wanted that turns the actuator on at the threshold too.    *)
WantedAtThreshold(reading) ==
    IF ThresholdType = "on" THEN reading >= Threshold ELSE reading <= Threshold

(* sensorHandler and controlActuator.  A pin is on when it is low.         *)
Wanted(reading) ==
    IF ThresholdType = "on" THEN reading > Threshold ELSE reading < Threshold

Level(on) == IF Pwm THEN (IF on THEN 100 ELSE 0) ELSE (IF on THEN 0 ELSE 1)

Driven(output) == IF output \in (IF Pwm THEN 0 .. 100 ELSE {0, 1}) THEN output ELSE io

SensorHandler(h, value) ==
    IF h = external THEN Driven(value)
    ELSE Driven(Level(Wanted(value)))

Act(h) ==
    /\ task[h].at = "told"
    /\ TaskStep(h, Idle)
    /\ IF task[h].mode = h
       THEN /\ io' = SensorHandler(h, task[h].held)
            /\ stale' = IF topic["channel"] = h THEN stale ELSE [stale EXCEPT ![h] = @ + 1]
       ELSE UNCHANGED <<io, stale>>
    /\ UNCHANGED <<watching, note>>

(* signal_handler: brokerCheck may catch SystemExit, the tasks cannot.     *)
ControlInterrupt ==
    /\ ~Interrupted
    /\ control' \in IF control \in DOMAIN Script THEN {Len(Script) + 2, CheckFailed}
                    ELSE {Len(Script) + 2}
    /\ task' = [h \in Types |-> IF Checked THEN [Idle EXCEPT !.at = "ended"] ELSE task[h]]
    /\ UNCHANGED <<topic, watching, late, sensor, note, io, stale, restarts>>
-------------------------------------------------------------------------------
UserMessages ==
    {Put("channel", mode) : mode \in Types} \cup {Put("relay", v) : v \in Outputs}

Next ==
    \/ \E m \in late, lost \in BOOLEAN : Arrive(m, lost)
    \/ \E m \in UserMessages, lost \in BOOLEAN : UserPut(m, lost)
    \/ Restart
    \/ BrokerAlive \/ SensorInterrupt
    \/ \E lost \in BOOLEAN : Create(lost) \/ Check(lost)
    \/ \E reading \in Readings : Read(reading)
    \/ \E lost, unseen \in BOOLEAN : Publish(lost, unseen)
    \/ Ping \/ ControlInterrupt
    \/ \E h \in Types :
          Observe(h) \/ CannotObserve(h) \/ Take(h) \/ Ask(h) \/ AskFails(h) \/ Act(h)

(* Every client goes on, and what it tries again and again succeeds.       *)
Fairness ==
    /\ WF_vars(BrokerAlive) /\ WF_vars(Ping)
    /\ WF_vars(\E reading \in Readings : Read(reading))
    /\ SF_vars(sensor.step = 1 /\ Create(FALSE))
    /\ SF_vars(sensor.step = 2 /\ Create(FALSE))
    /\ SF_vars(Publish(FALSE, FALSE))
    /\ \A i \in DOMAIN Script : SF_vars(control = i /\ Check(FALSE))
    /\ \A h \in Types : WF_vars(Observe(h)) /\ WF_vars(Take(h))
                        /\ WF_vars(Ask(h)) /\ WF_vars(Act(h))

Spec == Init /\ [][Next]_vars /\ Fairness
-------------------------------------------------------------------------------
TypeOK ==
    /\ topic \in [Topics -> {NoTopic, NoData} \cup Readings \cup Outputs \cup Types]
    /\ watching \subseteq Types
    /\ Cardinality(late) <= MaxLate
    /\ sensor.at \in {"ping", "create", "read", "publish", "exited"}
    /\ sensor.step \in DOMAIN SensorTopics
    /\ control \in 0 .. Len(Script) + 2
    /\ \A h \in Types : task[h].at \in {"start", "listening", "asking", "told", "ended"}
    /\ io \in IF Pwm THEN 0 .. 100 ELSE {0, 1}
    /\ stale \in [Types -> Nat]
    /\ restarts \in 0 .. MaxRestarts

(* "create topic success" is true, however often the creation was tried    *)
(* and interrupted, as long as the broker has not restarted: the sensor's  *)
(* readings and the controller's questions find their topics.              *)
SetUpIsComplete ==
    restarts = 0 =>
        /\ sensor.at \in {"read", "publish"} =>
              \A i \in DOMAIN SensorTopics : topic[SensorTopics[i]] # NoTopic
        /\ Checked => topic["relay"] # NoTopic /\ topic["channel"] \in Types

(* Both tasks drive the same actuator, and a task that holds an answer     *)
(* about the channel may act on it after the mode has changed: once.       *)
StaleOnce == \A h \in Types : stale[h] <= 1

(* brokerCheck ends, however often it begins anew.                         *)
SetUpEnds == <>(Checked \/ Interrupted)

(* While the mode stays internal and the sensor reports the same value,    *)
(* the actuator gets to the state this value asks for and stays there,     *)
(* unless the task that listens to the sensor has ended or the broker has  *)
(* forgotten it.                                                           *)
ActuatorFollowsSensor ==
    \A v \in Readings :
        LET asked == /\ topic["channel"] = internal /\ topic["lux"] = v
                     /\ internal \in watching
                     /\ task[internal].at \notin {"start", "ended"}
                     /\ sensor.at # "exited"
            on == IF ThresholdType = "on" THEN v > Threshold ELSE v < Threshold
        IN  <>[]asked => <>[](io = Level(on))
==============================================================================
