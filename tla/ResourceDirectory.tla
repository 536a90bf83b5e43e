-------------------------- MODULE ResourceDirectory --------------------------
(***************************************************************************)
(* The resource directory of the broker (CoAPRD.c), which main starts on   *)
(* request.  A POST to rd makes a CoAP resource and, in a hash table of    *)
(* its own, an rd entry with the description that was posted; the two are  *)
(* tied together only by the key of the location.  A name is the sequence  *)
(* of its parts, a query the sequence of its parameters.  The location is  *)
(* assumed to fit its buffer, and different locations to have different    *)
(* keys.                                                                   *)
(***************************************************************************)
EXTENDS Integers, Sequences, SequencesExt, FiniteSetsExt

CONSTANTS
    Queries,        \* sequences of parameters [key, set, value]; set: with a '='
    Descriptions, NoDescription,    \* a payload and its ETag, or neither
    Ids,            \* message ids, as the text %x makes of them
    Capacity,       \* HASH_BKT_CAPACITY_THRESH of uthash.h: 10
    MaxRegistrations,   \* bound: registrations at a time
    MaxTicks            \* bound: the last value of coap_ticks

Ticks  == 1 .. MaxTicks
Posted == Descriptions \cup {NoDescription}

ASSUME ResourceDirectoryAssumption ==
    /\ Queries \subseteq Seq([key : STRING, set : BOOLEAN, value : Seq(STRING)])
    /\ \A q \in Queries : \A i \in DOMAIN q : ~q[i].set => q[i].value = <<>>
    /\ NoDescription \notin Descriptions
    /\ Capacity \in Nat \ {0}
    /\ MaxRegistrations \in Nat /\ MaxTicks \in Nat \ {0}

VARIABLES
    rds,        \* the hash table `resources' of CoAPRD.c: the entries of each
                \* location, in the order of their chain
    served,     \* served[l]: how many CoAP resources have the location l
    now,        \* coap_ticks
    pc,         \* "loop", or how the process ended
    response

vars == <<rds, served, now, pc, response>>
-------------------------------------------------------------------------------
Valued(query, from) == {j \in DOMAIN query : j >= from /\ query[j].set}

(* parse_param: from the parameter with this key it goes on to the next    *)
(* '=', also one of a later parameter.                                     *)
ParseParam(key, query) ==
    LET named  == {i \in DOMAIN query : query[i].key = key}
        valued == IF named = {} THEN {} ELSE Valued(query, Min(named))
    IN  IF valued = {} THEN <<>> ELSE query[Min(valued)].value

(* A variant of Location that forgets the instance of a named node.        *)
LocationOfNode(query, id, tick) ==
    LET h == ParseParam("h", query) IN IF h # <<>> THEN h ELSE <<id, "-", ToString(tick)>>

(* The location: the node's name, or the message id; then the instance,    *)
(* or for a node without both the time.                                    *)
Location(query, id, tick) ==
    LET h   == ParseParam("h", query)
        ins == ParseParam("ins", query)
    IN  IF h # <<>>
        THEN IF ins # <<>> THEN h \o <<"-">> \o ins ELSE h
        ELSE <<id, "-">> \o (IF ins # <<>> THEN ins ELSE <<ToString(tick)>>)

Locations == {Location(q, id, t) : q \in Queries, id \in Ids, t \in Ticks}

-------------------------------------------------------------------------------
Reply(method, query, l, code, d) ==
    [method |-> method, query |-> query, location |-> l, code |-> code, description |-> d]
Respond(method, l, code, d) == response' = Reply(method, <<>>, l, code, d)

Init ==
    /\ rds = [l \in Locations |-> <<>>]
    /\ served = [l \in Locations |-> 0]
    /\ now = 1
    /\ pc = "loop"
    /\ response = Reply("none", <<>>, <<>>, 0, NoDescription)

Total == FoldSet(LAMBDA l, n : served[l] + n, 0, Locations)

(* A variant of MakeRd that adds behind the entries of the location.       *)
MakeRdLast(l, d) == [rds EXCEPT ![l] = Append(@, d)]

(* make_rd and HASH_ADD: the new entry is the head of its chain.           *)
MakeRd(l, d) == [rds EXCEPT ![l] = <<d>> \o @]

(* HASH_EXPAND_BUCKETS: every chain is walked from its head, and each      *)
(* entry becomes the head of its new chain.                                *)
Expanded(table) == [l \in Locations |-> Reverse(table[l])]

(* HASH_ADD expands the table when the chain that it added to has Capacity *)
(* entries or a multiple of them, until expanding has twice been of no     *)
(* use.  Which locations share a chain is left to their keys: the table    *)
(* may be expanded when there are as many entries in all.                  *)
Items(table) == UNION {{l} \X DOMAIN table[l] : l \in Locations}

AtLeast(n, S) == \E f \in [1 .. n -> S] : \A i, j \in 1 .. n : f[i] = f[j] => i = j

HashAdd(l, d) ==
    LET added == MakeRd(l, d)
    IN  {added} \cup (IF AtLeast(Capacity, Items(added)) THEN {Expanded(added)} ELSE {})

(* hnd_post_rd.  When make_rd has no memory the resource is made all the   *)
(* same, and answered with 2.01; without memory for the location the       *)
(* answer is 5.00.                                                         *)
PostRd(query, id, d) ==
    LET l == Location(query, id, now)
    IN  /\ pc = "loop"
        /\ Total < MaxRegistrations
        /\ rds' \in HashAdd(l, d) \cup {rds}
        /\ served' = [served EXCEPT ![l] = @ + 1]
        /\ response' = Reply("POST", query, l, 201, NoDescription)
        /\ UNCHANGED <<now, pc>>

PostNoMemory ==
    /\ pc = "loop"
    /\ Respond("POST", <<>>, 500, NoDescription)
    /\ UNCHANGED <<rds, served, now, pc>>

(* Without memory for a hash table uthash exits; without memory for the    *)
(* resource a null pointer is dereferenced.                                *)
PostFatal ==
    /\ pc = "loop"
    /\ pc' = "failed"
    /\ UNCHANGED <<rds, served, now, response>>

(* handle_request: there is no resource at this location.                  *)
NotFound(method, l) ==
    /\ pc = "loop"
    /\ served[l] = 0
    /\ Respond(method, l, 404, NoDescription)
    /\ UNCHANGED <<rds, served, now, pc>>

(* hnd_get_resource: HASH_FIND returns the first entry of the location; an *)
(* empty 2.05 when there is none.                                          *)
GetResource(l) ==
    /\ pc = "loop"
    /\ served[l] > 0
    /\ Respond("GET", l, 205, IF rds[l] = <<>> THEN NoDescription ELSE Head(rds[l]))
    /\ UNCHANGED <<rds, served, now, pc>>

(* hnd_put_resource is not implemented.                                    *)
PutResource(l) ==
    /\ pc = "loop"
    /\ served[l] > 0
    /\ Respond("PUT", l, 501, NoDescription)
    /\ UNCHANGED <<rds, served, now, pc>>

(* A variant of Forget that leaves the entry to the next DELETE.           *)
ForgetNothing(l) == rds

(* HASH_DELETE and rd_delete of the entry that was found.                  *)
Forget(l) == IF rds[l] = <<>> THEN rds ELSE [rds EXCEPT ![l] = Tail(@)]

(* A variant of DeleteResource for any location.                           *)
DeleteResourceAnywhere(l) ==
    /\ pc = "loop"
    /\ rds' = Forget(l)
    /\ served' = [served EXCEPT ![l] = @ - 1]
    /\ Respond("DELETE", l, 202, NoDescription)
    /\ UNCHANGED <<now, pc>>

(* hnd_delete_resource: one entry and one resource.                        *)
DeleteResource(l) ==
    /\ pc = "loop"
    /\ served[l] > 0
    /\ rds' = Forget(l)
    /\ served' = [served EXCEPT ![l] = @ - 1]
    /\ Respond("DELETE", l, 202, NoDescription)
    /\ UNCHANGED <<now, pc>>

(* hnd_get_rd, and methods that the directory's root does not handle.      *)
RootRequest(method) ==
    /\ pc = "loop"
    /\ Respond(method, <<>>, IF method = "GET" THEN 205 ELSE 405, NoDescription)
    /\ UNCHANGED <<rds, served, now, pc>>

Tick ==
    /\ pc = "loop"
    /\ now < MaxTicks
    /\ now' = now + 1
    /\ UNCHANGED <<rds, served, pc, response>>

(* The filter of the clean-up looks at the first three characters, and     *)
(* passes over a URI only when none of them is that of "ps/".              *)
Skipped(uri) == uri[1] # "p" /\ uri[2] # "s" /\ uri[3] # "/"

(* handleSIGINT and the end of main: coapFreeResource frees the names of   *)
(* the attributes too, which are string literals here.                     *)
CleanUp ==
    /\ pc = "loop"
    /\ IF Skipped(<<"r", "d", "/">>)
       THEN pc' = "exited" /\ UNCHANGED served
       ELSE /\ served' = [l \in Locations |-> 0]
            /\ pc' \in IF Total = 0 THEN {"exited"} ELSE {"exited", "failed"}
    /\ UNCHANGED <<rds, now, response>>

Ended == pc # "loop" /\ UNCHANGED vars

Next ==
    \/ \E q \in Queries, id \in Ids, d \in Posted : PostRd(q, id, d)
    \/ PostNoMemory \/ PostFatal
    \/ \E l \in Locations :
          \/ \E m \in {"GET", "PUT", "DELETE"} : NotFound(m, l)
          \/ GetResource(l) \/ PutResource(l) \/ DeleteResource(l)
    \/ \E m \in {"GET", "PUT", "DELETE"} : RootRequest(m)
    \/ Tick \/ CleanUp \/ Ended

Spec == Init /\ [][Next]_vars
-------------------------------------------------------------------------------
TypeOK ==
    /\ rds \in [Locations -> Seq(Posted)]
    /\ served \in [Locations -> Nat]
    /\ now \in Ticks
    /\ pc \in {"loop", "exited", "failed"}

(* A description is kept only as long as a resource of its location is     *)
(* there to read and to delete it, whatever other locations were deleted   *)
(* and however often this one was registered.                              *)
NoOrphanDescription ==
    pc = "loop" => \A l \in Locations : Len(rds[l]) <= served[l]

(* A client that names its node and its instance is registered under       *)
(* exactly these two names, whatever else its query holds, if every        *)
(* parameter has a value.                                                  *)
NamesKept ==
    LET q == response.query
        Has(i, key) == /\ q[i].key = key /\ q[i].value # <<>>
                       /\ \A k \in DOMAIN q : q[k].key = key => k = i
    IN  (response.code = 201 /\ \A k \in DOMAIN q : q[k].set) =>
           \A i, j \in DOMAIN q :
              Has(i, "h") /\ Has(j, "ins") =>
                 response.location = q[i].value \o <<"-">> \o q[j].value

(* The locations as Directory has them: the resources without an entry     *)
(* come last.                                                              *)
At(l) ==
    IF pc # "loop" THEN <<>>
    ELSE [i \in 1 .. served[l] |-> IF i <= Len(rds[l]) THEN rds[l][i] ELSE NoDescription]

Told ==
    LET tell(kind) == [kind |-> kind, location |-> response.location,
                       description |-> response.description]
    IN  CASE response.code = 201 -> tell("created")
          [] response.code = 202 -> tell("deleted")
          [] response.code = 404 -> tell("missing")
          [] response.code = 205 /\ response.location # <<>> -> tell("description")
          [] OTHER -> [kind |-> "none", location |-> <<>>, description |-> NoDescription]

Promised == INSTANCE Directory WITH
                registered <- [l \in Locations |-> At(l)],
                answer <- Told,
                Descriptions <- Posted,
                Nothing <- NoDescription

(* Two tables without a common key check, filled and emptied by separate   *)
(* calls, behave like one row of registrations per location, which is a    *)
(* stack as long as there are fewer than Capacity of them.                 *)
ImplementsDirectory == Promised!Spec
==============================================================================
