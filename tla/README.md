# A TLA+ verification of coap-broker

coap-broker is a publish/subscribe broker over CoAP
(draft-ietf-core-coap-pubsub-01) with an optional bridge to MQTT.  Clients
create topics with POST, publish with PUT, read with GET, remove with DELETE;
topics and published values have lifetimes.  This directory specifies the broker
in TLA+, model-checks it with TLC and proves its invariants, its action properties and
its refinements with TLAPS, as far as the provers reach.

All paths below are relative to the repository.

## 1. Inventory

| part | code | state | operations | modelled in |
|---|---|---|---|---|
| broker process | `src/c/main/coap-broker.c` | `quit`, the two bounds `earliest_topic_max_age` and `earliest_data_max_age` | main loop, nine handlers, two monitors, clean-up, SIGINT | `CoapBroker` |
| topic database | `src/c/LinkedListDB.c` | linked list of nodes (path, data, two deadlines), two rwlocks per node | add, set, update, delete, clone, walk | `TopicDB`, `TopicList` |
| CoAP resources | libcoap `resource.c`, `net.c` | hash table of resources with attributes and observers | dispatch by key, add, delete, notify | `CoapBroker` (dispatch) |
| link-format parser | `src/c/LinkFormatParser.c` | none | POST payload to path and attributes | `LinkFormat`, `LinkText` |
| observers | libcoap `resource.c`, `net.c` | subscription lists, failure counts | register, notify, acknowledge, reset, remove | `Observe` |
| MQTT bridge | `coap-broker.c:1186-1225` and its calls in the handlers | subscriptions at the MQTT broker | `msgarrvd` on the library's own thread, publish, subscribe | `MqttBridge` |
| resource directory | `src/c/CoAPRD.c` | hash table of registrations | register, get, delete | `ResourceDirectory` |
| C++ broker | `src/cpp` | as the C broker | a port with differences of its own | `CppBroker` |
| sensor and actuator clients | `src/sensors/*.py` | actuator mode and outputs | create with retry, publish, observe | `RoomControl` |

How they interact.  The main thread loops over `select`, `coap_read`,
`topicDataMAMonitor`, `topicMAMonitor`.  `coap_read` finds the resource by the
hash key of the request's URI and calls its handler; handlers change the resource
table, the list and the two bounds.  The monitors purge what has expired, but walk
the list only if a bound has passed, and recompute the bound in the walk.
SIGINT deletes everything from a signal handler.  With `-e mqtt`, the MQTT client
library calls `msgarrvd` on its own thread, which walks the resource table and
changes the list.

What is hard here:

* a topic is in two places (resource and node) that five statements keep in step;
* a deadline is in two places (node and bound), and a bound that is too late hides
  an expired topic for good;
* time passes between and within the steps, and the monitors run only after a packet;
* the lifetime arithmetic mixes `unsigned int` and `time_t`;
* requests are dispatched by a 4-byte hash of the URI;
* with the bridge, two threads share the list and the table, each node under two
  locks that are released between finding a node and using it;
* the resource directory ties two tables together by a key that is not unique;
* the clients repeat their set-up until it has worked, over a network that loses,
  delays and repeats requests, and act on answers that may be out of date.

## 2. Modules

* `TopicDB` - the operations of `LinkedListDB.c` as operators on the map from
  paths to nodes.  They have the names of the C functions.
* `TopicList` (extends `TopicDB`) - the same operations as the steps of two threads on
  the linked list, with its locks; the property `ImplementsDB` ties it to `TopicDB`.
* `LinkFormat` - what `LinkFormatParser.c` makes of the payload of a POST.
* `LinkText` (extends `LinkFormat`) - `LinkFormatParser.c` on characters: the loop of
  `parseLinkFormat` as a state machine, and what the handlers do with the text of an
  attribute (the range of `ct`, queries, the printed link).  `MatchesGrammar` compares it
  with `LinkFormat` on the chunks of the text, so `CoapBroker` may rely on the latter.
* `CoapBroker` (extends `TopicDB` and `LinkFormat`) - the broker process.  One action for each
  outcome of a handler and each pass of a monitor; `pc` is the place in the main
  loop, `response` the last response, `fault` a `free` without an owner.
* `TopicStore` - the abstract specification: a store of topics with values,
  lifetimes and leases, without resources, list, bounds or loop.  Its `Exceptions` are
  what a broker does not keep: `"memory"`, for the C broker, lets a topic be created in
  name only (`InName`: it is listed, a POST of it is refused, and nothing else finds it);
  `"list"`, for the C++ port, lets the answer to a client that asks for the topics say
  anything.  `Unsure` is a lifetime longer than `Longest`, which may be over at any time.
  `CoapBroker!ImplementsStore` is its specification under the mapping `Visible`
  (what a client can see of a topic) and `ToldOf` the requested URI (what the response
  says of it).  `ResourcesImplementStore` is the same with `ToldOf` the resource that
  served the request, which is another topic where hash keys collide.
* `MCCoapBroker`, `MCLinkText`, `MCTopicList`, `MCMqttBridge`, `MCCppBroker`,
  `MCResourceDirectory` - constants (and for the list and the bridge a symmetry) for TLC.
* `Observe` - subscriptions and notifications: what `handle_request` does with the
  Observe option around a handler, `coap_check_notify` called by `hnd_put_topic`, and
  acknowledgements, resets and responses in `coap_dispatch`.  It is separate from
  `CoapBroker`: of the store it needs only which topics are live and what a GET of
  them answers, and lets topics go and data expire at any time, which includes what
  the monitors do.
* `MqttBridge` - the bridge: two threads (`main` and the MQTT client's) that share the
  resource table, the topic database and `coap_check_notify`, and the MQTT server with
  its queues.  The handlers are here in steps as small as the other thread can see.
* `CppBroker` - the C++ port, with its list as a sequence and the length it keeps beside
  it.  `CppBroker!ImplementsStore` is `TopicStore` again: both brokers promise the same.
* `ResourceDirectory` - the registrations of `CoAPRD.c` in its two tables;
  `Directory` - the abstract specification, a row of registrations for each location: a
  stack, until there are as many registrations as a bucket of the hash table holds.
* `RoomControl` - the Python clients around one actuator, with the broker reduced to its
  topics, its restarts and what it sends to observers.
* `CoapBrokerProofs`, `CppBrokerProofs`, `LinkTextProofs`, `ObserveProofs`,
  `TopicListProofs`, `MqttBridgeProofs`, `ResourceDirectoryProofs`, `RoomControlProofs` -
  theorems about the modules they are named for.

State and code:

| variable | code |
|---|---|
| `resources[p]` | the `ct` attribute of the resource with URI `p` in `ctx->resources`, or `NoTopic` |
| `topicDB[p]` | the list node with path `p` (`data`, `topic_ma`, `data_ma`), or `NoTopic` |
| `earliest_topic_max_age`, `earliest_data_max_age` | the globals of that name |
| `clock` | the value of `time(NULL)` |
| `pc` | `select`, the two monitors, the clean-up; `exited`, and `aborted` after an assertion or a fault of the heap |
| `quit` | the global |
| `response`, `fault` | the response of this iteration of the loop and what it freed wrongly; both are reset by the data monitor |

Actions and code: `GetBroker`, `GetBrokerMalformed`, `DeleteBroker`,
`MethodNotAllowed`, `NotFound` (requests to `ps` and to no resource);
`PostMalformed`, `PostMalformedNotLinkFormat`, `PostUnsupported`, `PostExisting`,
`PostCreate` (`hnd_post_broker` and its copy `hnd_post_topic`); `GetTopic`,
`PutRefused`, `PutTopic`, `DeleteTopic`; `DataMAMonitorIdle`,
`TopicDataMAMonitor`, `TopicMAMonitorIdle`, `TopicMAMonitor`; `Cleanup`,
`HandleSIGINT`, `Tick`.

Choices in the model:

* A URI is a sequence of path segments.  `KeyOf` gives its hash key; which of two
  resources with one key is found is left open, as it depends on the order of the
  bucket's chain.
* `Contains` is `strstr(uri, deleted_uri "/")`: the text may start inside a segment
  that ends in `ps` (`PsEnding`).
* `ToTimeT` wraps a number to the width of `time_t` (`LongMax`).  Signed overflow is
  undefined in C; the model takes the wrap-around that the machine does.  The difference
  that a GET takes of a deadline and the clock may wrap as well (`TooLongAgo`).
* A POST of a new topic adds the resource first, and answers 2.01 also if `addTopic` then
  has no memory for the node (`LinkedListDB.c:394-397`, `coap-broker.c:538-541`):
  `PostCreate` adds the node or leaves it out.  Other allocations (a path, data, a
  resource), whose failure the code does not look at either, are taken to succeed.
* A monitor reads the clock once per node.  The order of the list decides which
  nodes are read before and which after a tick; the model lets any set of nodes
  (`late`) be read after it.
* A query that cannot be split makes `hnd_get_broker` free two uninitialized
  pointers.  The process stops, or goes on as if nothing had happened: a heap that
  was corrupted without a crash is not followed any further.
* SIGINT is handled between two steps of the loop, not within a handler.
* Payloads are texts without NUL bytes.
* The payload of a POST is a sequence of chunks (`Chunks`), as the semicolons divide it.
  A chunk is a path, a `ct`, another attribute or malformed; `PostMalformed` and
  `PostUnsupported` take it from the set `Links`, the others from any link that
  `Describes` the new topic.

In `Observe`:

| variable | code |
|---|---|
| `live` | the topics with a resource |
| `data[t]` | what `hnd_get_topic` answers with: 2.05 and the data, or `NoData` for 2.04 |
| `observers[t]` | the list `r->subscribers`, newest first: `non_cnt`, `dirty`, and as history the last message that left for this observer (`told`) |
| `partiallydirty` | the resources with that flag; `dirty` is set and cleared within a PUT |
| `observe` | `ctx->observe` |
| `sendqueue` | confirmable notifications without an ACK |
| `rejected`, `put` | history: who has reset a notification since it registered, the last PUT |

`PutTopic`, `GetTopic`, `PostTopic`, `PostBroker` and `DeleteTopics` are the handlers,
`Refused` any request that is answered with 4.xx; each comes with what the Observe
option does before the handler (`WithOption`) and after it.  An observer is a pair of
an address and a token.  Each notification of a round is sent, cannot be sent, or
cannot be made (no memory).  `fail_cnt` is left out: only `coap_retransmit` raises it
and nothing in the broker calls that.  Sixteen-bit message ids are abstracted to the
triple of receiver, topic and Observe number.  `COAP_OBS_MAX_NON` is a constant, as
the `#ifndef` in `subscribe.h` makes it.

In `MqttBridge`:

| variable | code |
|---|---|
| `resources`, `nodes`, `data`, `data_ma` | the topics with a resource and with a node; the node's data and deadline, of which only "none", "in the future" and "passed" matter |
| `dirty` | resources whose `dirty` flag is set |
| `thread[p]` | where thread `p` is (`at`), the topic, payload and deadline it is about, and in `coap_check_notify` the resource being notified (`now`), the content it is about to be sent (`payload`), the resource that `HASH_ITER` has fetched ahead (`after`) and the rest (`todo`) |
| `told` | what the observers of a topic were last told |
| `connected`, `subscribed`, `outbox`, `inbox`, `last` | the connection, the subscriptions, messages under way, and the last one that the server sent on a topic |
| `fault` | a use of freed memory or of a NULL pointer, after which nothing is modelled |

The main thread's actions are `Post`, `AddResource`, `AddNode` (a POST: subscribe, add
the resource, add the node, for which there may be no memory), `PostAgain`, `Rewrite`,
`RewriteAstray` (a POST of an existing topic: `updateTopicInfo` reads the data and their
deadline without a lock and writes them back; if the MQTT thread has freed those data in
between, what is written is arbitrary, or the process ends), `Delete`, `Unsubscribe`,
`FreeResource` (a DELETE or an expired topic), `Put`, `Publish`, and `MonitorLooks`,
`DeleteTopicData` (the data monitor looks and deletes under separate locks), `FreeContext`,
`Disconnect` (the clean-up; a message that arrives in between meets freed resources).
Subscribing, unsubscribing and publishing may fail while connected, and nobody looks at
the result (`Called`, `Publish`).  `Receive`, `Clone`, `Update`, `Return` are `msgarrvd`; the
clone is NULL without a node or memory, and is used without a test.  `MarkDirty`,
`TestFlag`, `Fill`, `Send`, `ResetDirty`, `Notified` are `coap_check_notify` in both threads:
test a resource's flag, have its GET handler fill the notification, send it, reset the
flag, go on.  Data that have expired are answered as none (`Answer`).
Reading or storing a topic is one step, but what reads and then writes is two;
`TopicList` has the steps in between.  Payloads have at least one byte.  The order
of the resource table is left open.  A topic that is deleted and created again is not
told apart from the old one by a thread that still has the old pointer: the heap may give
out the same address.  The server echoes each publication to the broker, which is
subscribed to all its topics.  A lost connection stays lost, since `connlost` only logs.

In `TopicList`:

| variable | code |
|---|---|
| `head`, `cell` | `topicDB` and the nodes at the addresses of the heap; `freed` is set between `free(data)` and the assignment that follows |
| `nodeLock`, `dataLock` | the two rwlocks of each node |
| `reg[t]` | the local variables of thread `t`: the call it is in, the walk (`goal`), where it is (`pc`), `currentPtr`, `previousPtr`, the monitor's `nextPtr`, the data pointer it has read (`data`, `from`) |
| `raced`, `seen` | history: the other thread has changed the path's node since this one read it; whether the path was in the list during the walk |
| `fault` | a use of a freed node (`node`), of freed data (`data`), of the NULL head (`null`), or of a node whose lock the thread does not hold (`lock`); nothing is modelled after it |

`Enter`, `Head`, `LockNode`, `Test` are the walk that all functions share; `Clone`, `Copy`
end `cloneTopic` (`CloneNoMemory` without memory for the copy); `Read` is what
`updateTopicData` reads from the node before it calls `setTopic`, `Measure` and `Pass` what
`updateTopicInfo` reads, the data's length first and their pointer and deadline later;
`RLock`, `DLock`, `FreeData`, `Assign` are `setTopic` and `deleteTopicData`; `WLockPrev`,
`WLockCur`, `Link`, `Unlink`, `Free` are `addTopic` and `deleteTopic`, `AddNoMemory` an
`addTopic` without memory; `MonitorLock`, `MonitorDataLock`, `Look` the loop of the
monitors.  The main thread calls all of them, the MQTT thread only what `msgarrvd` calls.
An address that is freed and allocated again is told apart: who had the old pointer holds
`Dangling`.

The functions read the head pointer `*sPtr` once to lock its node, and again, without a
lock of their own, to compare the path, to return the node or step on, and to unlock
(`LinkedListDB.c:20-32` and its siblings).  While a thread holds the lock of the head's
node nobody can unlink that node, so the readings agree (`Test` with `ByHead`), unless main
has unlinked it while the MQTT thread waited for that lock.  Then the code tests, returns
and unlocks a node whose lock it does not hold, keeps the lock that it has taken, and a
write may go to a topic that nobody asked for.  The model sees this happen (`HeadMoved`)
and calls it a fault of kind `lock`, or `null` when the list is empty: the unlock of a lock
that is not held is undefined, and nothing is said of what follows.

In `LinkText`, `str`, `counter`, `last_counter` are the local variables of that name (the
index of the first character is 1, and 0 stands before it); `at` is the place in the loop,
`resource` is `new_resource` with its list of attributes, newest first; `early` is a byte
written in front of a buffer, which may end the process (`Abort`).  `Check`,
`FirstElement`, `BetweenElement`, `NextElement`, `LastElement` are the parts of the loop.

In `CppBroker` the variables are those of `CoapBroker`, with `topic_db` as a sequence of
nodes and `length_`; `pc` ends as `exited` or `failed` (an uncaught exception, a `select`
that a signal ends, a heap or a string that was overrun).  The monitors are commented out
in `main`, so nothing is purged; the bounds, which only they read, are left out.
`GetBrokerGarbled` is the answer to a client that asks for the topics when two or more
match: the comma is appended from the address of one `char` (`BrokerResource.cpp:335-336`),
so that the list is the exact one, any text, or the end of the process.  A topic may be
made with a last `ct` attribute that is no number (`BadCt`), since `is_uscf` looks at the
first; the `std::stoi` of a later GET or PUT then ends the process (`CtUncaught`).
`IntMax` and `LongMax` are the widths of `int` and of `time_t`, to which `Decoded` and
`ToTimeT` wrap.

In `ResourceDirectory`, `rds[l]` are the entries of location `l` in the order of their
chain in the hash table of `CoAPRD.c`, and `served[l]` counts the CoAP resources of the
location.  `HASH_ADD` puts an entry at the head of its chain; when a chain has `Capacity`
entries (10 in `uthash.h`) it expands the table, which turns every chain round
(`HashAdd`, `Expanded`).  Which locations share a chain is left to their keys, so an
expansion may happen as soon as there are that many entries in all.  `PostRd` without
memory for the description makes the resource only, `PostFatal` is a POST that ends the
process.  Names are sequences of parts and a query is a sequence of parameters, since
`parse_param` may pass from one to the next.

In `RoomControl`:

| variable | code |
|---|---|
| `topic`, `watching`, `restarts` | the broker: its topics with the last value, the tasks it has observers for |
| `late` | requests and copies of requests that nobody waits for any more |
| `sensor` | where `main` of the sensor client is, and its reading |
| `control` | which request of `brokerCheck` comes next |
| `task[h]`, `note[h]` | the two `actuatorHandler` tasks of one actuator and the newest notification each has not taken |
| `io` | the pin or the duty cycle |
| `stale[h]` | history: acts of `h` since the channel left it |

A request fails at its client (`lost`), carried out or not, and a copy of it may arrive at
any later time (`Arrive`).  One sensor topic stands for the several that a sensor
publishes, and one actuator for the three.

## 3. Runs

Topics `ps/a` and its subtopic `ps/a/b`, one payload, one content format, Max-Age
absent, 0, 1 or 4, and a clock that runs from 1 to 3, unless stated otherwise.  Two
topics are what the properties relate (a topic and its subtopic, an expired node and
a survivor that must give the next bound); three readings of the clock let a
deadline be set, be reached and pass, with a monitor's pass at each.

| run | shows |
|---|---|
| `broker` | `TypeOK`, `BoundsAreLower`, `OnlyMemoryParts` (a node has its resource, and a resource lacks its node only since a POST that had no memory), `MonitorsMissNothing`, `NothingLostEarly`; `ImplementsStore`: every step is a step of `TopicStore` or invisible; `ExpiredTopicsGo` under fairness |
| `post_frees_twice` | finding: `NewResourceFreedOnce` does not hold |
| `observe` | two topics, one client: `TypeOK`, `Informed`, `QueuedResetEnds`, `ObserversDistinct`, `DirtyFlagged`, `NumbersIncrease` |
| `mqtt_bridge` | two topics, two payloads, two PUTs or messages: `TypeOK`, `OnlyTheseDivide`, `PurgeSparesTheLiving`, `OnlyTheseLose` |
| `lost_notification` | finding: `ChangeToldOrDirty` does not hold |
| `topic_list` | two topics, two cells, both threads in all calls, up to the first fault: `TypeOK`, `ListIntact`, `LocksReturned`, `MainKeepsNodes`, `FindsWhatStays`, `ImplementsDB` |
| `topic_list_ends` | main adds, deletes and runs the data monitor: `CallsEnd` under fairness: calls end, or there is a fault |
| `link_text` | all texts of up to four characters in five frames: `TypeOK`, `MatchesGrammar`, `FoundByItsText`, `LinkFillsBuffer` |
| `cpp_broker` | `TypeOK`, `ResourcesMatchDB`, `ImplementsStore` with Max-Age 0, 2 and 5 where an int ends at 2, `time_t` at 3 and the clock at 2 |
| `resource_directory` | five queries, two descriptions, three registrations, two readings of the clock, a table that expands at three entries: `TypeOK`, `NoOrphanDescription`, `NamesKept`, `ImplementsDirectory` |
| `room_control` | one unawaited request at a time, one restart of the broker: `TypeOK`, `SetUpIsComplete`, `StaleOnce` |
| `room_follows` | without late copies and restarts: `SetUpEnds`, `ActuatorFollowsSensor` under fairness |

`LongMax` is 4 in `broker` and 3 in `cpp_broker`: the longest Max-Age makes sums that wrap
to the past, and the next one sums that do not.  That deadlines of any width keep the
bounds right is proved (section 5).

The runs are small instances; all their safety properties are proved for every value of
the constants (`ImplementsStore` under hypotheses about URIs and keys, section 5), so no
bound below is a bound of what is known about them.  It matters for liveness and for the
findings.

`observe` takes every second notification as confirmable (`COAP_OBS_MAX_NON = 1`) and
stops at Observe number 3 (`MaxObserve`): enough for a notification that fails, one
that retries it, and one that is confirmable.  That a second client changes nothing in
the five invariants and in `NumbersIncrease` is proved (section 5).

Two messages are what a race needs in `MqttBridge` (a PUT and a message on the same
topic, or a PUT and its late echo after another PUT, `MaxPublish = 2`); the second topic
is the one whose flag or memory the other thread's iteration meets.  Topics are symmetric,
and so are payloads.  Its runs set `CHECK_DEADLOCK FALSE`: after a fault the program is over.
`lost_notification` has one topic, which is enough for the race.

Two nodes are what the list needs: a node with a predecessor and the head are the two
cases of deletion, and a walk of the MQTT thread may be on either while main unlinks it.
The list's order is covered by adding in either order; one payload and no data are enough
for an update that writes back what is no longer there.  Cells and topics are symmetric.
`topic_list_ends` is without symmetry and keeps the calls that take write locks or that
lock a node twice.  Two of the five queries of
`resource_directory` name one location in different ways (a node `a-b`, and an instance
`b` of a node `a`), one has neither, one has an instance only, and one has a parameter
without a value; three registrations let a location be registered again while another
is there, and fill the chain of one location up to `Capacity`, which is 3 instead of the
code's 10: the table expands in the run, and the proof is for any capacity.

`link_text` takes eleven characters: two letters (`ct` is a name), two digits, each character
that the parser looks for, and none that it treats like another.  A frame is the beginning
and the end of a text: nothing, a path to be filled in before an attribute, one attribute
after a path, the rest of a `ct`, and a second attribute after a `ct`.  Four characters
complete each of these in all ways, right and wrong.  `CtMax` and `IntMod` stand for
65535 and 2^32: 15 and an int of six bits, so that numbers below, between and above occur.
Above, `CtOfResource` wraps, and `MatchesGrammar` says nothing of the ct.

The named bounds are the sets of the configurations, `MaxClock` (the last reading of the
clock), `MaxObserve`, `MaxPublish`, `MainCalls` (what main calls), `MaxRegistrations`,
`MaxTicks`, `MaxLength`, `MaxLate` and `MaxRestarts`.

Fairness.

* `CoapBroker!FairSpec` assumes weak fairness of the monitors and the clean-up: the
  main thread, once it has read a packet, goes on.  Nothing makes packets arrive
  (`select` has no timeout), so `ExpiredTopicsGo` assumes that the loop comes around
  again and again (`[]<>(pc = "data_monitor")`).  That is the most the code promises:
  without traffic an expired topic stays.
* `TopicList!FairSpec` assumes strong fairness of each thread's steps: a thread that
  waits for a lock that is free again and again gets it.  Only one other thread ever
  competes, and a release wakes who waits.  It does not assume that calls begin.  Nothing is
  promised after a fault: a lock that the MQTT thread keeps by one (section 4) may well make
  main wait for ever.  The MQTT thread's part of `CallsEnd` needs main to stop: a walk may
  chase topics that main deletes at the front and adds at the end for ever.
* `RoomControl!Spec` assumes that the clients go on (weak fairness of what needs no
  network) and strong fairness of each request of the set-up and of a publication whose
  notification is delivered: what is tried for ever succeeds at last.  `aiocoap`
  retransmits a confirmable request, and the loops repeat the whole.  Neither the failing
  GET of a task nor an interrupt is excluded; the properties name these ends.

## 4. Findings

1. A POST whose payload does not parse and whose Content-Format is not link-format
   frees `new_resource` again (`coap-broker.c:445`, comment at 548).
2. Two threads in `coap_check_notify` lose a notification: one clears the `dirty` flag
   that the other has just set (`resource.c:685`, `resource.h:76`).  The same race, a flag
   that is set while the other thread is between reading the content and resetting the
   flag, may also let the older content be sent last.  One other step leaves observers with
   an old value: a POST of an existing topic that writes freed data back and sets no flag.
   No step but these does (`OnlyTheseLose`).

Other behaviours of the code that the models have, without a run of their own:

* `ma_opt_val_integer >= 0` is always true (`coap-broker.c:739`): Max-Age 0 is accepted
  by PUT and means "expires with this second", whereas POST takes 0 for "never".
* A POST whose `addTopic` has no memory is answered 2.01 and leaves a resource without a
  node (`coap-broker.c:538-541`), for which later requests find the branches that "should
  never" be reached (comments at 642 and 763): the topic is listed, GET and PUT of it answer
  4.04, DELETE removes nothing, and a POST of it is refused until a restart
  (`OnlyMemoryParts`, `TopicStore!InName`).
* The resource key ignores where segments end (`resource.c:382-396`): `ps/x/yz` and
  `ps/xy/z` are served by one resource (`Lookup`).  No topic is corrupted by this
  (`ResourcesImplementStore`, proved).
* A reset of a non-confirmable notification does not end the subscription
  (`net.c:1612`, comment at 1600-1602; `ResetOther`), and nothing counts notifications
  that are never acknowledged: the loop never retransmits (`coap-broker.c:192`).
* DELETE removes every topic whose URI contains the deleted one anywhere; an expiring
  topic leaves its subtopics behind; a POST that is refused with 4.03 replaces the lease.
* A topic that is deleted or expires takes its observers along without a last
  notification, and starts without observers when it is created again.
* With a 32-bit `time_t` a lease close to 2^31 seconds wraps to the past, and so does a
  value's lifetime (`ToTimeT`; `TopicStore!Unsure`).
* The first notification repeats the Observe number of the response to the registration.
* The data monitor may delete a value without a deadline that the MQTT thread has just
  stored; a message that was compared before a PUT of the same value takes that PUT's
  lifetime away.
* A POST of an existing topic writes the topic's value back that it has read without a
  lock: a NULL over a message that has just been stored, or a copy from freed memory
  (`Rewrite`, `RewriteAstray`).  A PUT whose publication fails while the connection lasts is
  answered as any other and stays unknown to MQTT.  These are the ways in which the two
  sides may differ at rest (`OnlyTheseDivide`); a value that is lost altogether, by a NULL or
  by the monitor, is not counted.
* The MQTT thread may use a list node or data that main has freed, and may read the head
  of a list that main has just emptied (`TopicList`: `fault`); when both threads update
  one node, an update that read the node first writes the old lease or value back
  (`raced`).
* The walks read the head pointer again after they have waited for its node's lock
  (`LinkedListDB.c:20-33`): if main has unlinked that node meanwhile, the MQTT thread tests,
  returns and unlocks another node, and keeps the lock of the first (fault `lock`).  Main
  itself is never in that place (`MainKeepsNodes`).
* `msgarrvd` frees a message that it then refuses, and the client library delivers it
  again (`coap-broker.c:1217-1219`, `MQTTClient.h:321-324`; `MqttBridge`: `freed_message`).
* A `ct` attribute is tested for its range after `atoi`, which takes it modulo 2^32 where a
  `long` has 64 bits: `ct=4294967336` makes a topic with `ct` 40 (`coap-broker.c:476`).
* An option whose value is a single quote is accepted with an empty value, after a byte in
  front of the buffer was overwritten (`LinkText`: `early`); a value may have a quote on
  one side only; `ct=""` is the content format 0.
* In the C++ port a Max-Age from 2^31 on is a negative int: a lease without an end, data
  that are never served; a `ct` attribute of many digits ends the process (`PostUncaught`),
  and so does a GET or PUT of a topic whose last `ct` is no number (`CtUncaught`); the list of
  two or more topics is joined through an unterminated `char` (`GetBrokerGarbled`); a SIGINT
  that arrives before `select` is noticed after the next packet only.
* The clean-up's test for `ps/` passes over a URI only if none of its first three
  characters fits, so registrations `rd/...` are freed by `coapFreeResource` too, which
  frees attribute names that are literals (`Skipped`, `CleanUp`).
* A registration without memory for its description is acknowledged all the same; a
  query parameter without a value takes the value of a later one (`ParseParam`).
* Of registrations with one location the newest is found, but an expansion of the hash
  table, which ten registrations may bring about, turns their order round
  (`uthash.h:632, 695-713`).
* An actuator task whose GET fails ends for good, and one that has observed nothing yet
  ends when the sensor's topic does not exist; after a restart of the broker neither the
  sensor nor the controller creates its topics again, and both go on unaware.
* A bare `except` also catches the `SystemExit` that a SIGINT raises, so the sensor client
  may go on (`SensorInterrupt`).

## 5. Proofs

A theorem holds for every value of the constants that the named assumptions allow: any
number of topics, cells, clients, payloads and ages, any width of an integer, any bound
on the clock or on a counter.  The bounds are constants of the models, so a theorem for
every bound is one about all behaviours.  Each proof has one lemma for each action, and a step lemma
that joins them.  Before it was proved each inductive invariant was checked by TLC on the
constants of its run.

| module | theorems (of `Spec`) |
|---|---|
| `CoapBrokerProofs` | `TypeCorrect`, `NodesAlwaysHaveResources`, `OnlyMemoryPartsHolds`, `BoundsAlwaysLower`, `MonitorsMissNothingHolds`, `NothingLostEarlyHolds`, `ResourcesServeStore`, `BrokerImplementsStore` |
| `LinkTextProofs` | `LinkTextTypes`, `ParserMatchesGrammar`, `FindableByText`, `LinkFits` |
| `ObserveProofs` | `ObserveTypes`, `SubscribedOnce`, `FailuresFlagged`, `ObserversInformed`, `QueuedResetsEnd`, `NumbersGrow` |
| `TopicListProofs` | `ListTypes`, `ListStaysIntact`, `MainNeverLosesANode`, `LocksAreReturned`, `WalksFindWhatStays`, `ListImplementsDB` |
| `MqttBridgeProofs` | `BridgeTypes`, `OnlyTwoWaysApart`, `SidesAgreeAtRest`, `MonitorSparesTheLiving`, `OnlyTwoWaysLose` |
| `CppBrokerProofs` | `CppTypes`, `CppResourcesMatchDB`, `CppImplementsStore` |
| `ResourceDirectoryProofs` | `DirectoryTypes`, `DescriptionsHaveResources`, `NamesAreKept`, `DirectoryImplemented` |
| `RoomControlProofs` | `RoomTypes`, `SetUpHolds`, `ActsStaleOnce` |

### The broker process

From `DBAssumption`, `NoTopicAssumption`, `LinkFormatAssumption` and `BrokerAssumption`.
The inductive invariant is `IInv == TypeOK /\ NodesHaveResources /\ BoundsAreLower`.
The bounds need the resources: a monitor removes an expired node only if the node has a
resource, and the new bound leaves out nodes that are equal to the old bound, which is
sound only because those are removed in the same pass.  Both monitors rest on the same
argument: the old bound has passed, so a deadline equal to it has passed; the new bound
is the least of the others.  `MonitorsMissNothing` and `NothingLostEarly` are action
properties and follow from `IInv` for a single step.  For the first: an idle monitor has
a bound that has not passed, hence no deadline has.  For the second, each action keeps
the data of every topic or has one of the reasons that the property names.  So does
`OnlyMemoryParts`: each action keeps every topic's resource and node together, or is the
POST whose `addTopic` had no memory (`StillPaired`).

`BrokerImplementsStore` has two hypotheses, because the code breaks
the promise of `TopicStore` without them (section 4); the run `broker` satisfies them.

* `NoUriInside`: no URI of a topic stands inside another except as its beginning, where
  `strstr` is meant to find it.  Otherwise a DELETE takes unrelated topics along.
* `KeysDistinct`: the 4-byte hash keys of the topics differ.  Otherwise a request is
  served by another topic's resource.

A lease or a lifetime that ends beyond the width of `time_t` is no hypothesis: it is mapped
to the store's `Unsure`, and a topic without a node to `InName`.

`ResourcesServeStore` needs the first only.  It is the theorem
that the steps are proved for: the topic of a step is the resource that served the
request.  That this resource has the key of the URI is invariant (`ServedByKey`); with
distinct keys it is the resource of the URI, and the two stores say the same of each step
(`SameStep`), which gives `BrokerImplementsStore`.  No run checks
`ResourcesImplementStore`: with the keys of the run `broker` it is `ImplementsStore`.

The proof names, for each action, the step of the store that it is: `SubtopicsOf` is what
`Contains` finds, and a monitor's pass is the store's expiry of what has passed at the
reading of the clock each node met.
`VisibleAssumption` says that the model values `NoTopic`, `InName` and `Unsure` are not taken
for visible records or times.

### The parser

From `LinkTextAssumption` and `LinkFormatAssumption`: for texts of any length over any set
of characters, any `CtMax` and any width of an int.  The inductive invariant is
`LoopInv == TypeInv /\ AtCheck /\ AtElement /\ AtNext /\ AtReturned`, one part for each place
in the loop.  `Registered(n)` is what they share: the resource is made of the first `n`
chunks of the text, its uri of the first, and its attribute at `n + 1 - i` of chunk `i`.

The code counts no chunks; it has two semicolons.  So the proof needs to know that the
semicolons that follow each other cut the text where `ChunkTexts` cuts it: the number of a
chunk is the `Rank` of the semicolon that ends it (`ChunksAreCut`, `ChunkBetween`,
`NextSemicolon`).  What a chunk is comes from the other half:

* `ParseOptionFinds`: `ParseOption`, which works on lengths, a skipped quote and an
  overwritten one, takes the part of the text between two positions;
* `OptionOfAttribute`, `AttributeOfOption`: a text that `Attributes` spells has exactly one
  way to be spelled, and it is the one that `parseOption` finds; and the converse.  The
  value of an attribute has no quotes and no equals sign in it, hence nothing is ambiguous;
* `PathIs`, `OptionIsNoPath`: the same for paths, and no text is both;
* `KindIs`, `GrammarSays`, `CtOf`: hence the chunk has the kind that `LinkFormat` gives it,
  `ParseLinkFormat` says of the chunks what the loop did, and the last `ct` is the first one
  that `coap_find_attr` meets.

`AtReturned` and these give `MatchesGrammar`.  It keeps its condition on the ct (`CtFits`):
`atoi` wraps a number that an int cannot hold (section 4).  `FoundByItsText` follows from
`AtReturned` and `NameWithSign`, `LinkFillsBuffer` from the type invariant and `TextHasSize`.

The library's theorems for induction and for recursive functions take a predicate or a
step as an operator, which the provers cannot instantiate.  `Induction` and `Recursion` are
the same facts with a set and a function in that place, proved from the well-foundedness
of the natural numbers and from each other; `DecimalIsNat`, `SizesExist`, `TextsExist` and
`TextHasSize`, about the recursive functions of `LinkText`, use them.

### Observers

From `ObserveAssumption`.  The five invariants are inductive together with `DataIsPut`
(what a GET answers is the last PUT's data, or it has expired), which a retry needs: it
sends the data of the moment.  Distinctness makes the deletion of the first match a
deletion of all.  The lemmas are about lists: adding, deleting, one round of
notifications.

`NumbersGrow` needs `Numbered`: what an observer was told has a number of at most
`ctx->observe`, and a notification's number is below it.  A step keeps what an observer
was told, answers with the present number, or takes numbers from `ctx->observe` on
(`Counting`, `Heard`).

### The list under two threads

From `ListAssumption`, `NullAssumption`, `DBAssumption` and `NoTopicAssumption`.
`ListIntact` follows from `TopicInv`, a conjunction of

* `NodesInv`: the linked nodes are those of an injective sequence of cells that begins at
  `head`, each pointing to the next (`IsList`); a node outside is the one that main is
  about to free.  The sequence is the witness that the property, which is about the set
  reached from `head`, has in every state;
* `RoleInv`: the MQTT thread is only where its calls are, so only main changes links;
* `StandsInv`, `MainInv`: where each thread stands.  Main's node is in the list and its
  previous pointer points to it, since nobody else changes links, and the head it has read
  is still the head; of the MQTT thread's pointer only that it is a cell, a dangling
  pointer or none is known;
* `SeesInv`: what a walk has seen.  If the path was in the list all the time, every set of
  cells that is closed under `next` and holds the walk's node holds the path (`Ahead`).
  This also holds for a node that main has unlinked, which still points into the list.

`MainKeepsNodes` and `FindsWhatStays` follow from `TopicInv`: the second is the case of
`SeesInv` in which the walk ends.  `LocksReturned` adds `LockInv`: whoever holds a lock
of a node is at a place in its call that gives the lock back.  All these speak of the
program up to its first fault; that the fault is one of the MQTT thread, or of main's copy
of data that the MQTT thread has freed, is `MainKeepsNodes`.
`ImplementsDB` adds `FreshInv`: what an update has read from a node without being
raced is still what the node has, so the assignment at its end is the whole operation of
`TopicDB`.  `updateTopicInfo` reads twice, so this is said of what it has measured as well.

### The MQTT bridge

From `BridgeAssumption`.  The inductive invariant is
`IInv(U) == TypeOK /\ Places /\ MainHolds /\ InboxEndsInLast /\ AgreesOrPending(U)`: the places
of the two threads and what they hold there; a node has a resource; what the monitor
is about to purge has no deadline ahead, and what a POST is about to write back is what
the node has, or a NULL; the last message in the inbox on a topic carries what the server
sent last; and, for a subscribed topic in `U` that has a node, the broker's data and the
server's last value agree, or the broker has none, or a message on the topic is on its way
to one of them (`Together`).  A step keeps it unless it is `PublishFails` or `WritesAstray`
for a topic in `U`.  With no topic (`Steady`) it is an invariant of `Spec`; with one topic it
is `OnlyTwoWaysApart`; with all topics it is an invariant of the behaviours without these
two kinds of step, and at rest, where nothing is on its way, `SidesAgreeAtRest`.
`PurgeSparesTheLiving` needs from `MainHolds` that a deadline does not return to the future
between the monitor's look and its deletion; this holds since `msgarrvd` stores only values
without a deadline.

`OnlyTwoWaysLose` is about notifications.  A topic is `Covered` if it has nothing to tell,
or a thread has changed the data and will set the flag, or the flag is set and no thread
is about to reset it without reading the content, or its observers were told the data or are
about to be, and no thread is about to send them something older.  Each step keeps every
topic covered, by itself, unless it is `FlagSetBeforeReset` (finding 2) or `WritesAstray`.
The proof has one lemma for each action over `Calm == TypeOK /\ Places /\ MainHolds`.

### The C++ broker

From `CppAssumption` and `VisibleAssumption`.  The invariant is
`IInv == TypeOK /\ length_ = Len(topic_db) /\ PathsDistinct /\ LiveHasNode`.  Distinct paths
make the first node found the only one, so that deleting it leaves none behind; the
converse of `LiveHasNode` is in the property and comes with the resources being added
and removed in the same handlers.  `CppImplementsStore` has the hypothesis `NoUriInside`
(the port searches for the text in the same way); the model of the port gives every URI a
key of its own.  A Max-Age that an `int` cannot hold becomes a lease without an end or a
value that is never seen, and a sum that `time_t` cannot hold is `Unsure`: the mapping says
`Longest` for the longest lifetime that is kept.  `Exceptions` is `{"list"}`: nothing is
promised of the list of topics, since the code may answer anything when two match.  When the
process ends or fails, the store is closed.

### The resource directory

From `ResourceDirectoryAssumption`.  `IInv == TypeOK /\ NoOrphanDescription`.  The
refinement maps the entries of a location to its row, filled up with `NoDescription` to the
number of its resources (`Padded`).  A registration puts its entry in front, or an empty one
at the end without memory; an expansion of the table reverses the entries in front of the
empty ones, in every row (`Turned`).  That it happens only with `Capacity` registrations or
more carries over because there are at least as many registrations as entries.

### The clients

From `RoomControlAssumption`.  `IInv == TypeOK /\ ClientTypes /\ CreatedSoFar /\ StaleCounted`:
before the first restart, a client that has passed a request of its script has what the
request created (a late copy can create a topic again, which does not remove it); and a
task that has just been told the channel's mode is its own has not acted stale.

### Only model-checked

* Liveness: `ExpiredTopicsGo`, `CallsEnd`, `SetUpEnds`, `ActuatorFollowsSensor`.  Fairness and
  `ENABLED` are out of the provers' reach.
* The two findings.

## 6. Not modelled, and the plan

Not modelled:

* SIGINT in the middle of a handler or of a list operation: the signal handler would wait
  for a lock that its own thread holds.  It would double every step of `TopicList`.
* The inside of the MQTT client library: its own retries and its persistence.  A lost
  connection is the end of all messages under way, and a call may fail at any time.
* What follows an undefined behaviour of the two threads (`fault` in `TopicList` and
  `MqttBridge`): an unlock of a lock that is not held, a use of freed memory.
* Failing allocations of the C broker other than that of a node or of a clone (paths, data,
  resources, attributes), whose results the code uses without a test.
* libcoap's message layer (tokens, message ids, deduplication) beyond what `Observe`
  needs, and its encoding of options; buffers that are too small (`coap-broker.c:686`
  writes four bytes of a long lifetime into three, `CoAPRD.c:350` cuts a long location).
* Payloads with NUL bytes, characters outside ASCII.
* The observers and the wrappers of the C++ port, and its monitors, which nothing calls.
* The clients' sensor drivers; prototypes, test programs and vendored libraries.

Left to prove is only what section 5 lists as model-checked.  The next components worth
modelling are the C++ port's monitors, once something calls them, and a SIGINT inside a
list operation.
