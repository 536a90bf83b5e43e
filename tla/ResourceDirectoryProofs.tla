----------------------- MODULE ResourceDirectoryProofs -----------------------
(***************************************************************************)
(* Proofs about ResourceDirectory: the types, that no description outlives *)
(* the resources of its location, that clients get the names they ask for, *)
(* and that two tables without a common key implement one row of           *)
(* registrations per location, also when the hash table is expanded.       *)
(***************************************************************************)
EXTENDS ResourceDirectory, SequenceTheorems, WellFoundedInduction, TLAPS

IInv == TypeOK /\ NoOrphanDescription
-------------------------------------------------------------------------------
(* A nonempty set of natural numbers has a least one.                      *)
LEMMA LeastExists ==
    ASSUME NEW E \in SUBSET Nat, E # {}
    PROVE  Min(E) \in E /\ \A y \in E : Min(E) <= y
<1>1. \E x \in E : \A y \in E : x <= y
  <2>1. IsWellFoundedOn(OpToRel(<, Nat), Nat)
    BY NatLessThanWellFounded
  <2>2. PICK x \in E : \A y \in E : ~(<<y, x>> \in OpToRel(<, Nat))
    BY <2>1, WFMin
  <2>3. \A y \in E : ~(y < x)
    BY <2>2 DEF OpToRel
  <2> QED
    BY <2>3
<1> QED
  BY <1>1 DEF Min
-------------------------------------------------------------------------------
(* The invariant.                                                          *)
LEMMA LocationOK ==
    ASSUME now \in Ticks, NEW q \in Queries, NEW id \in Ids
    PROVE  Location(q, id, now) \in Locations
BY DEF Locations

(* Steps that leave the two tables alone.                                  *)
LEMMA SameTables ==
    ASSUME IInv, UNCHANGED <<rds, served>>, now' \in Ticks,
           pc' \in {"loop", "exited", "failed"}, pc' = "loop" => pc = "loop"
    PROVE  IInv'
BY DEF IInv, TypeOK, NoOrphanDescription

LEMMA ReverseOK ==
    ASSUME NEW S, NEW s \in Seq(S)
    PROVE  /\ Reverse(s) \in Seq(S) /\ Len(Reverse(s)) = Len(s)
           /\ \A i \in 1 .. Len(s) : Reverse(s)[i] = s[Len(s) + 1 - i]
<1>1. Len(s) \in Nat
  OBVIOUS
<1>2. ASSUME NEW i \in 1 .. Len(s)
      PROVE  (Len(s) - i) + 1 \in 1 .. Len(s) /\ (Len(s) - i) + 1 = Len(s) + 1 - i
  BY <1>1
<1>3. \A i \in 1 .. Len(s) : s[(Len(s) - i) + 1] \in S
  BY <1>2
<1> QED
  BY <1>1, <1>2, <1>3 DEF Reverse

(* What HASH_ADD makes of the table, before it may expand it and after.    *)
LEMMA MakeRdOK ==
    ASSUME NEW l \in Locations, NEW d \in Posted, rds \in [Locations -> Seq(Posted)]
    PROVE  /\ MakeRd(l, d) \in [Locations -> Seq(Posted)]
           /\ \A p \in Locations :
                 /\ MakeRd(l, d)[p] = IF p = l THEN <<d>> \o rds[p] ELSE rds[p]
                 /\ Len(MakeRd(l, d)[p]) = IF p = l THEN Len(rds[p]) + 1 ELSE Len(rds[p])
<1>1. <<d>> \o rds[l] \in Seq(Posted) /\ Len(<<d>> \o rds[l]) = Len(rds[l]) + 1
  BY ConcatProperties
<1>2. \A p \in Locations : rds[p] \in Seq(Posted) /\ Len(rds[p]) \in Nat
  OBVIOUS
<1> QED
  BY <1>1, <1>2 DEF MakeRd

LEMMA ExpandedOK ==
    ASSUME NEW t \in [Locations -> Seq(Posted)]
    PROVE  /\ Expanded(t) \in [Locations -> Seq(Posted)]
           /\ \A p \in Locations :
                 Expanded(t)[p] = Reverse(t[p]) /\ Len(Expanded(t)[p]) = Len(t[p])
<1>1. \A p \in Locations : /\ Reverse(t[p]) \in Seq(Posted)
                           /\ Len(Reverse(t[p])) = Len(t[p])
  BY ReverseOK
<1> QED
  BY <1>1 DEF Expanded

LEMMA PostRdOK ==
    ASSUME IInv, NEW q \in Queries, NEW id \in Ids, NEW d \in Posted, PostRd(q, id, d)
    PROVE  IInv'
<1> DEFINE l == Location(q, id, now)
<1>1. l \in Locations
  BY LocationOK DEF IInv, TypeOK
<1>2. /\ pc = "loop" /\ rds' \in {rds, MakeRd(l, d), Expanded(MakeRd(l, d))}
      /\ served' = [served EXCEPT ![l] = served[l] + 1]
      /\ UNCHANGED <<now, pc>>
  BY DEF PostRd, HashAdd
<1> HIDE DEF l
<1>3. rds \in [Locations -> Seq(Posted)] /\ served \in [Locations -> Nat]
  BY DEF IInv, TypeOK
<1>4. /\ rds' \in [Locations -> Seq(Posted)]
      /\ \A p \in Locations : /\ Len(rds[p]) \in Nat /\ Len(rds'[p]) \in Nat
                               /\ Len(rds'[p]) <= (IF p = l THEN Len(rds[p]) + 1 ELSE Len(rds[p]))
  <2>1. /\ MakeRd(l, d) \in [Locations -> Seq(Posted)]
        /\ \A p \in Locations :
              Len(MakeRd(l, d)[p]) = IF p = l THEN Len(rds[p]) + 1 ELSE Len(rds[p])
    BY <1>1, <1>3, MakeRdOK
  <2>2. /\ Expanded(MakeRd(l, d)) \in [Locations -> Seq(Posted)]
        /\ \A p \in Locations : Len(Expanded(MakeRd(l, d))[p]) = Len(MakeRd(l, d)[p])
    BY <2>1, ExpandedOK
  <2>3. \A p \in Locations : Len(rds[p]) \in Nat
    BY <1>3
  <2>4. CASE rds' = rds
    BY <1>3, <2>3, <2>4
  <2>5. CASE rds' = MakeRd(l, d)
    BY <2>1, <2>3, <2>5
  <2>6. CASE rds' = Expanded(MakeRd(l, d))
    BY <2>1, <2>2, <2>3, <2>6
  <2> QED
    BY <1>2, <2>4, <2>5, <2>6
<1>5. /\ served' \in [Locations -> Nat]
      /\ \A p \in Locations : served'[p] = IF p = l THEN served[p] + 1 ELSE served[p]
  BY <1>1, <1>2, <1>3
<1>6. \A p \in Locations : Len(rds'[p]) <= served'[p]
  BY <1>2, <1>3, <1>4, <1>5 DEF IInv, NoOrphanDescription
<1>7. TypeOK'
  BY <1>2, <1>4, <1>5 DEF IInv, TypeOK
<1> QED
  BY <1>6, <1>7 DEF IInv, NoOrphanDescription

(* hnd_delete_resource takes the first entry of the location, if any.      *)
LEMMA ForgetOK ==
    ASSUME NEW l \in Locations, rds \in [Locations -> Seq(Posted)]
    PROVE  /\ Forget(l) \in [Locations -> Seq(Posted)]
           /\ \A p \in Locations :
                 /\ p # l \/ rds[l] = <<>> => Forget(l)[p] = rds[p]
                 /\ p = l /\ rds[l] # <<>> =>
                       Forget(l)[p] = Tail(rds[p]) /\ Len(Forget(l)[p]) = Len(rds[p]) - 1
<1>1. rds[l] \in Seq(Posted)
  OBVIOUS
<1>2. rds[l] # <<>> => Tail(rds[l]) \in Seq(Posted) /\ Len(Tail(rds[l])) = Len(rds[l]) - 1
  BY <1>1, HeadTailProperties
<1> QED
  BY <1>1, <1>2 DEF Forget

LEMMA DeleteResourceOK ==
    ASSUME IInv, NEW l \in Locations, DeleteResource(l)
    PROVE  IInv'
<1>1. /\ pc = "loop" /\ rds' = Forget(l) /\ served[l] > 0
      /\ served' = [served EXCEPT ![l] = served[l] - 1]
      /\ UNCHANGED <<now, pc>>
  BY DEF DeleteResource
<1>2. rds \in [Locations -> Seq(Posted)] /\ served \in [Locations -> Nat]
  BY DEF IInv, TypeOK
<1>3. rds' \in [Locations -> Seq(Posted)]
  BY <1>1, <1>2, ForgetOK
<1>4. /\ served' \in [Locations -> Nat]
      /\ \A p \in Locations : served'[p] = IF p = l THEN served[p] - 1 ELSE served[p]
  BY <1>1, <1>2
<1>5. ASSUME NEW p \in Locations PROVE Len(rds'[p]) <= served'[p]
  <2>1. Len(rds[p]) <= served[p] /\ Len(rds[p]) \in Nat /\ served[p] \in Nat
    BY <1>1, <1>2 DEF IInv, NoOrphanDescription
  <2>2. CASE p = l /\ rds[l] # <<>>
    BY <1>1, <1>2, <1>4, <2>1, <2>2, ForgetOK
  <2>3. CASE p = l /\ rds[l] = <<>>
    <3>1. Len(rds'[p]) = 0
      BY <1>1, <1>2, <2>3, ForgetOK
    <3> QED
      BY <1>1, <1>4, <2>1, <2>3, <3>1
  <2>4. CASE p # l
    BY <1>1, <1>2, <1>4, <2>1, <2>4, ForgetOK
  <2> QED
    BY <2>2, <2>3, <2>4
<1>6. TypeOK'
  BY <1>1, <1>3, <1>4 DEF IInv, TypeOK
<1> QED
  BY <1>5, <1>6 DEF IInv, NoOrphanDescription

LEMMA CleanUpOK ==
    ASSUME IInv, CleanUp
    PROVE  IInv'
<1>1. UNCHANGED <<rds, now>> /\ pc' \in {"exited", "failed"}
  BY DEF CleanUp
<1>2. served' \in [Locations -> Nat]
  BY DEF CleanUp, IInv, TypeOK
<1> QED
  BY <1>1, <1>2 DEF IInv, TypeOK, NoOrphanDescription

LEMMA InitOK == Init => IInv
<1> SUFFICES ASSUME Init PROVE IInv
  OBVIOUS
<1>1. /\ served \in [Locations -> Nat] /\ pc = "loop" /\ now \in Ticks
      /\ rds \in [Locations -> Seq(Posted)]
  BY ResourceDirectoryAssumption DEF Init, Ticks
<1>2. \A l \in Locations : Len(rds[l]) = 0 /\ served[l] = 0
  BY DEF Init
<1> QED
  BY <1>1, <1>2 DEF IInv, TypeOK, NoOrphanDescription

LEMMA StepOK == IInv /\ [Next]_vars => IInv'
<1> SUFFICES ASSUME IInv, [Next]_vars PROVE IInv'
  OBVIOUS
<1>0. now \in Ticks /\ pc \in {"loop", "exited", "failed"}
  BY DEF IInv, TypeOK
<1>1. CASE \E q \in Queries, id \in Ids, d \in Posted : PostRd(q, id, d)
  BY <1>1, PostRdOK
<1>2. CASE \E l \in Locations : DeleteResource(l)
  BY <1>2, DeleteResourceOK
<1>3. CASE CleanUp
  BY <1>3, CleanUpOK
<1>4. CASE Tick
  <2>1. now' \in Ticks
    BY <1>0, <1>4, ResourceDirectoryAssumption DEF Tick, Ticks
  <2> QED
    BY <1>0, <1>4, <2>1, SameTables DEF Tick
<1>5. CASE UNCHANGED <<rds, served, now, pc>>
  BY <1>0, <1>5, SameTables
<1>6. CASE \E l \in Locations : \/ \E m \in {"GET", "PUT", "DELETE"} : NotFound(m, l)
                                \/ GetResource(l) \/ PutResource(l)
  BY <1>5, <1>6 DEF NotFound, GetResource, PutResource
<1>7. CASE PostNoMemory \/ Ended \/ UNCHANGED vars
  BY <1>5, <1>7 DEF PostNoMemory, Ended, vars
<1>8. CASE \E m \in {"GET", "PUT", "DELETE"} : RootRequest(m)
  BY <1>5, <1>8 DEF RootRequest
<1>9. CASE PostFatal
  BY <1>0, <1>9, SameTables DEF PostFatal
<1> QED
  BY <1>1, <1>2, <1>3, <1>4, <1>6, <1>7, <1>8, <1>9 DEF Next

LEMMA Invariance == Spec => []IInv
BY InitOK, StepOK, PTL DEF Spec

(* The tables and the clock keep their types; no location has a resource   *)
(* deleted more often than hnd_post_rd added one.                          *)
THEOREM DirectoryTypes == Spec => []TypeOK
BY Invariance, PTL DEF IInv

(* hnd_delete_resource and hnd_post_rd, also without memory for make_rd,   *)
(* never leave a location more descriptions than resources.                *)
THEOREM DescriptionsHaveResources == Spec => []NoOrphanDescription
BY Invariance, PTL DEF IInv
-------------------------------------------------------------------------------
(* NamesKept.  With a value for every parameter, parse_param finds the     *)
(* value of the first parameter with the key.                              *)
LEMMA MinIs ==
    ASSUME NEW E, NEW x \in Nat, x \in E, \A y \in E : y \in Nat /\ x <= y
    PROVE  Min(E) = x
<1>1. Min(E) \in E /\ \A y \in E : Min(E) <= y
  BY DEF Min
<1>2. Min(E) \in Nat /\ Min(E) <= x /\ x <= Min(E)
  BY <1>1
<1> QED
  BY <1>2

LEMMA ParamFound ==
    ASSUME NEW q \in Queries, \A k \in DOMAIN q : q[k].set,
           NEW key, NEW i \in DOMAIN q, q[i].key = key,
           \A k \in DOMAIN q : q[k].key = key => k = i
    PROVE  ParseParam(key, q) = q[i].value
<1> DEFINE named  == {k \in DOMAIN q : q[k].key = key}
           valued == Valued(q, i)
<1>0. DOMAIN q = 1 .. Len(q) /\ Len(q) \in Nat
  BY ResourceDirectoryAssumption
<1>1. i \in Nat /\ named = {i}
  BY <1>0
<1>2. Min(named) = i
  BY <1>1, MinIs
<1>3. i \in valued /\ \A y \in valued : y \in Nat /\ i <= y
  BY <1>0 DEF Valued
<1> HIDE DEF named, valued
<1>4. Min(valued) = i
  BY <1>1, <1>3, MinIs
<1>5. named # {} /\ valued # {} /\ valued = Valued(q, Min(named))
  BY <1>1, <1>2, <1>3 DEF valued
<1> QED
  BY <1>4, <1>5 DEF ParseParam, named

(* NamesKept of an arbitrary response.                                     *)
Named(q, i, key) == /\ q[i].key = key /\ q[i].value # <<>>
                    /\ \A k \in DOMAIN q : q[k].key = key => k = i

KeepsNames(code, q, l) ==
    (code = 201 /\ \A k \in DOMAIN q : q[k].set) =>
        \A i, j \in DOMAIN q :
            Named(q, i, "h") /\ Named(q, j, "ins") => l = q[i].value \o <<"-">> \o q[j].value

LEMMA NamesKeptOf ==
    /\ NamesKept <=> KeepsNames(response.code, response.query, response.location)
    /\ NamesKept' <=> KeepsNames(response'.code, response'.query, response'.location)
BY DEF NamesKept, KeepsNames, Named

LEMMA PostKeepsNames ==
    ASSUME NEW q \in Queries, NEW id \in Ids
    PROVE  KeepsNames(201, q, Location(q, id, now))
<1>1. ASSUME \A k \in DOMAIN q : q[k].set,
             NEW i \in DOMAIN q, NEW j \in DOMAIN q, Named(q, i, "h"), Named(q, j, "ins")
      PROVE  Location(q, id, now) = q[i].value \o <<"-">> \o q[j].value
  <2>1. ParseParam("h", q) = q[i].value
    BY <1>1, ParamFound DEF Named
  <2>2. ParseParam("ins", q) = q[j].value
    BY <1>1, ParamFound DEF Named
  <2>3. q[i].value # <<>> /\ q[j].value # <<>>
    BY <1>1 DEF Named
  <2> QED
    BY <2>1, <2>2, <2>3 DEF Location
<1> QED
  BY <1>1 DEF KeepsNames

LEMMA NamesStep == NamesKept /\ [Next]_vars => NamesKept'
<1> SUFFICES ASSUME NamesKept, [Next]_vars PROVE NamesKept'
  OBVIOUS
<1>1. CASE \E q \in Queries, id \in Ids, d \in Posted : PostRd(q, id, d)
  <2>1. PICK q \in Queries, id \in Ids, d \in Posted : PostRd(q, id, d)
    BY <1>1
  <2>2. response'.code = 201 /\ response'.query = q /\ response'.location = Location(q, id, now)
    BY <2>1 DEF PostRd, Reply
  <2> QED
    BY <2>2, PostKeepsNames, NamesKeptOf
<1>2. CASE UNCHANGED response
  BY <1>2, NamesKeptOf
<1>3. CASE response'.code # 201
  BY <1>3, NamesKeptOf DEF KeepsNames
<1>4. CASE \E l \in Locations : \/ \E m \in {"GET", "PUT", "DELETE"} : NotFound(m, l)
                                \/ GetResource(l) \/ PutResource(l) \/ DeleteResource(l)
  BY <1>3, <1>4 DEF NotFound, GetResource, PutResource, DeleteResource, Respond, Reply
<1>5. CASE PostNoMemory \/ \E m \in {"GET", "PUT", "DELETE"} : RootRequest(m)
  BY <1>3, <1>5 DEF PostNoMemory, RootRequest, Respond, Reply
<1>6. CASE Tick \/ PostFatal \/ CleanUp \/ Ended \/ UNCHANGED vars
  BY <1>2, <1>6 DEF Tick, PostFatal, CleanUp, Ended, vars
<1> QED
  BY <1>1, <1>4, <1>5, <1>6 DEF Next

(* Who names node and instance gets a location of just these names from    *)
(* hnd_post_rd, whatever other parameters parse_param has to pass over.    *)
THEOREM NamesAreKept == Spec => []NamesKept
<1>1. Init => NamesKept
  BY DEF Init, NamesKept, Reply
<1> QED
  BY <1>1, NamesStep, PTL DEF Spec
-------------------------------------------------------------------------------
(* The refinement.  A stack is a function on 1 .. n.                       *)
IsStack(g, n) == g = [i \in 1 .. n |-> g[i]]
Pushed(g, d, h) == g = <<d>> \o h
Appended(g, h, d) == g = h \o <<d>>

LEMMA StackPush ==
    ASSUME NEW n \in Nat, NEW g, NEW h, NEW d, IsStack(h, n), IsStack(g, n + 1),
           g[1] = d, \A i \in 1 .. n : g[i + 1] = h[i]
    PROVE  Pushed(g, d, h) /\ h = Tail(g)
<1> DEFINE S == {h[i] : i \in 1 .. n} \cup {d}
<1>1. h \in Seq(S) /\ Len(h) = n
  BY DEF IsStack
<1>2. \A i \in 1 .. n + 1 : g[i] = IF i = 1 THEN d ELSE h[i - 1]
  <2>1. ASSUME NEW i \in 1 .. n + 1, i # 1 PROVE g[i] = h[i - 1]
    <3>1. i - 1 \in 1 .. n /\ (i - 1) + 1 = i
      BY <2>1
    <3> QED
      BY <3>1
  <2> QED
    BY <2>1
<1>3. \A i \in 1 .. n + 1 : g[i] \in S
  <2>1. \A i \in 1 .. n : h[i] \in S
    OBVIOUS
  <2>2. \A i \in 1 .. n + 1 : i = 1 \/ i - 1 \in 1 .. n
    OBVIOUS
  <2> QED
    BY <1>2, <2>1, <2>2
<1> DEFINE one == <<d>>
<1>4. one \in Seq(S) /\ Len(one) = 1 /\ one[1] = d
  OBVIOUS
<1> HIDE DEF S
<1>5. g \in Seq(S) /\ Len(g) = n + 1
  BY <1>3 DEF IsStack
<1> HIDE DEF one
<1>6. /\ one \o h \in Seq(S) /\ Len(one \o h) = n + 1
      /\ \A i \in 1 .. n + 1 : (one \o h)[i] = IF i <= 1 THEN one[i] ELSE h[i - 1]
  <2>1. /\ one \o h \in Seq(S) /\ Len(one \o h) = Len(one) + Len(h)
        /\ \A i \in 1 .. Len(one) + Len(h) :
               (one \o h)[i] = IF i <= Len(one) THEN one[i] ELSE h[i - Len(one)]
    BY <1>1, <1>4, ConcatProperties
  <2>2. Len(one) + Len(h) = n + 1
    BY <1>1, <1>4
  <2> QED
    BY <1>4, <2>1, <2>2
<1>7. g = one \o h
  <2>1. ASSUME NEW i \in 1 .. n + 1 PROVE g[i] = (one \o h)[i]
    <3>1. i <= 1 <=> i = 1
      OBVIOUS
    <3> QED
      BY <1>2, <1>4, <1>6, <3>1
  <2> QED
    BY <1>5, <1>6, <2>1, SeqEqual
<1>8. g # <<>> /\ Head(g) = d
  BY <1>5
<1>9. /\ Tail(g) \in Seq(S) /\ Len(Tail(g)) = n /\ \A i \in 1 .. n : Tail(g)[i] = g[i + 1]
  BY <1>5, <1>8, HeadTailProperties
<1>10. h = Tail(g)
  BY <1>1, <1>9, SeqEqual
<1> QED
  BY <1>7, <1>10 DEF one, Pushed

LEMMA StackAppend ==
    ASSUME NEW n \in Nat, NEW g, NEW h, NEW d, IsStack(h, n), IsStack(g, n + 1),
           g[n + 1] = d, \A i \in 1 .. n : g[i] = h[i]
    PROVE  Appended(g, h, d)
<1> DEFINE S == {h[i] : i \in 1 .. n} \cup {d}
           one == <<d>>
<1>1. h \in Seq(S) /\ Len(h) = n
  BY DEF IsStack
<1>2. one \in Seq(S) /\ Len(one) = 1 /\ one[1] = d
  OBVIOUS
<1>3. \A i \in 1 .. n + 1 : i \in 1 .. n \/ i = n + 1
  OBVIOUS
<1>4. \A i \in 1 .. n + 1 : g[i] \in S
  BY <1>3
<1> HIDE DEF S, one
<1>5. g \in Seq(S) /\ Len(g) = n + 1
  BY <1>4 DEF IsStack
<1>6. /\ h \o one \in Seq(S) /\ Len(h \o one) = n + 1
      /\ \A i \in 1 .. n + 1 : (h \o one)[i] = IF i <= n THEN h[i] ELSE one[i - n]
  <2>1. /\ h \o one \in Seq(S) /\ Len(h \o one) = Len(h) + Len(one)
        /\ \A i \in 1 .. Len(h) + Len(one) :
               (h \o one)[i] = IF i <= Len(h) THEN h[i] ELSE one[i - Len(h)]
    BY <1>1, <1>2, ConcatProperties
  <2> QED
    BY <1>1, <1>2, <2>1
<1>7. \A i \in 1 .. n + 1 : g[i] = (h \o one)[i]
  <2>1. \A i \in 1 .. n : i \in 1 .. n + 1 /\ i <= n
    OBVIOUS
  <2>2. n + 1 \in 1 .. n + 1 /\ ~(n + 1 <= n) /\ (n + 1) - n = 1
    OBVIOUS
  <2> QED
    BY <1>2, <1>3, <1>6, <2>1, <2>2
<1>8. g = h \o one
  BY <1>5, <1>6, <1>7, SeqEqual
<1> QED
  BY <1>8 DEF one, Appended

(* The row of a location with n resources and the entries s.               *)
Padded(s, n) == [i \in 1 .. n |-> IF i <= Len(s) THEN s[i] ELSE NoDescription]

LEMMA AtIsPadded ==
    /\ \A l : At(l) = IF pc # "loop" THEN <<>> ELSE Padded(rds[l], served[l])
    /\ \A l : At(l)' = IF pc' # "loop" THEN <<>> ELSE Padded(rds'[l], served'[l])
BY DEF At, Padded

LEMMA PaddedPush ==
    ASSUME NEW S, NEW s \in Seq(S), NEW d \in S, NEW n \in Nat
    PROVE  Padded(<<d>> \o s, n + 1) = <<d>> \o Padded(s, n)
<1> DEFINE t == <<d>> \o s
           g == Padded(t, n + 1)
           h == Padded(s, n)
<1>1. Len(s) \in Nat /\ Len(t) = Len(s) + 1 /\ t[1] = d
  BY ConcatProperties
<1>2. \A i \in 1 .. Len(s) : t[i + 1] = s[i]
  <2> DEFINE one == <<d>>
  <2>1. one \in Seq(S) /\ Len(one) = 1
    OBVIOUS
  <2>2. \A i \in 1 .. Len(one) + Len(s) :
            (one \o s)[i] = IF i <= Len(one) THEN one[i] ELSE s[i - Len(one)]
    BY <2>1, ConcatProperties
  <2>3. t = one \o s
    OBVIOUS
  <2> HIDE DEF one, t
  <2> QED
    BY <1>1, <2>1, <2>2, <2>3
<1> HIDE DEF t
<1>3. IsStack(g, n + 1) /\ IsStack(h, n)
  BY DEF IsStack, Padded
<1>4. g[1] = d
  BY <1>1 DEF Padded
<1>5. ASSUME NEW i \in 1 .. n PROVE g[i + 1] = h[i]
  <2>1. /\ i + 1 \in 1 .. n + 1 /\ i \in Nat
        /\ (i + 1 <= Len(t)) = (i <= Len(s)) /\ (i <= Len(s) => i \in 1 .. Len(s))
    BY <1>1
  <2> QED
    BY <1>2, <2>1 DEF Padded
<1> HIDE DEF g, h
<1>6. Pushed(g, d, h)
  BY <1>3, <1>4, <1>5, StackPush
<1> QED
  BY <1>6 DEF g, h, t, Pushed

LEMMA PaddedMore ==
    ASSUME NEW S, NEW s \in Seq(S), NEW n \in Nat, Len(s) <= n
    PROVE  Padded(s, n + 1) = Padded(s, n) \o <<NoDescription>>
<1> DEFINE g == Padded(s, n + 1)
           h == Padded(s, n)
<1>1. IsStack(g, n + 1) /\ IsStack(h, n)
  BY DEF IsStack, Padded
<1>2. g[n + 1] = NoDescription
  BY DEF Padded
<1>3. \A i \in 1 .. n : g[i] = h[i]
  BY DEF Padded
<1> HIDE DEF g, h
<1>4. Appended(g, h, NoDescription)
  BY <1>1, <1>2, <1>3, StackAppend
<1> QED
  BY <1>4 DEF g, h, Appended

(* One resource less, and the first entry, if any.                         *)
LEMMA PaddedLess ==
    ASSUME NEW S, NEW s \in Seq(S), NEW n \in Nat,
           NEW t \in {s, Tail(s)}, IF s = <<>> THEN t = s ELSE t = Tail(s)
    PROVE  Padded(t, n) = Tail(Padded(s, n + 1))
<1> DEFINE g == Padded(s, n + 1)
           h == Padded(t, n)
<1>1. /\ t \in Seq(S) /\ Len(s) \in Nat
      /\ s # <<>> => Len(t) = Len(s) - 1 /\ \A i \in 1 .. Len(s) - 1 : t[i] = s[i + 1]
      /\ s = <<>> => Len(s) = 0 /\ Len(t) = 0
  <2>1. CASE s = <<>>
    BY <2>1
  <2>2. CASE s # <<>>
    BY <2>2, HeadTailProperties
  <2> QED
    BY <2>1, <2>2
<1>2. IsStack(g, n + 1) /\ IsStack(h, n)
  BY DEF IsStack, Padded
<1>3. ASSUME NEW i \in 1 .. n PROVE g[i + 1] = h[i]
  <2>1. i + 1 \in 1 .. n + 1 /\ i \in Nat /\ i > 0
    OBVIOUS
  <2>2. CASE s = <<>>
    BY <1>1, <2>1, <2>2 DEF Padded
  <2>3. CASE s # <<>>
    <3>1. (i + 1 <= Len(s)) = (i <= Len(t)) /\ (i + 1 <= Len(s) => t[i] = s[i + 1])
      BY <1>1, <2>1, <2>3
    <3> QED
      BY <2>1, <3>1 DEF Padded
  <2> QED
    BY <2>2, <2>3
<1> HIDE DEF g, h
<1>4. h = Tail(g)
  BY <1>2, <1>3, StackPush
<1> QED
  BY <1>4 DEF g, h

LEMMA PaddedHead ==
    ASSUME NEW S, NEW s \in Seq(S), NEW n \in Nat
    PROVE  /\ n > 0 => /\ Padded(s, n) # <<>>
                       /\ Head(Padded(s, n)) = IF s = <<>> THEN NoDescription ELSE Head(s)
           /\ n = 0 => Padded(s, n) = <<>>
<1>1. CASE n > 0
  <2> DEFINE g == Padded(s, n)
             R == {g[i] : i \in 1 .. n}
  <2>1. g \in Seq(R) /\ Len(g) = n
    BY DEF Padded
  <2>2. g[1] = IF s = <<>> THEN NoDescription ELSE Head(s)
    <3>1. s # <<>> => Len(s) >= 1 /\ s[1] = Head(s)
      OBVIOUS
    <3>2. s = <<>> => ~(1 <= Len(s))
      OBVIOUS
    <3>3. 1 \in 1 .. n
      BY <1>1
    <3> QED
      BY <3>1, <3>2, <3>3 DEF Padded
  <2> HIDE DEF g, R
  <2>3. g # <<>> /\ Head(g) = g[1]
    BY <1>1, <2>1
  <2> QED
    BY <1>1, <2>2, <2>3 DEF g
<1>2. CASE n = 0
  BY <1>2 DEF Padded
<1> QED
  BY <1>1, <1>2

(* A chain that was turned round.                                          *)
LEMMA PaddedTurned ==
    ASSUME NEW S, NEW s \in Seq(S), NEW n \in Nat, Len(s) <= n
    PROVE  Padded(Reverse(s), n) \in Promised!Turned(Padded(s, n))
<1> DEFINE k   == Len(s)
           row == Padded(s, n)
<1>1. k \in 0 .. n /\ Len(Reverse(s)) = k /\ \A i \in 1 .. k : Reverse(s)[i] = s[k + 1 - i]
  BY ReverseOK
<1>2. DOMAIN row = 1 .. n /\ Len(row) = n
  <2>1. row \in Seq({row[i] : i \in 1 .. n})
    BY DEF Padded
  <2> QED
    BY <2>1 DEF Padded
<1>3. \A i \in k + 1 .. n : row[i] = NoDescription
  BY <1>1 DEF Padded
<1>4. ASSUME NEW i \in 1 .. n
      PROVE  Padded(Reverse(s), n)[i] = IF i <= k THEN row[k + 1 - i] ELSE NoDescription
  <2>1. i <= k => i \in 1 .. k /\ k + 1 - i \in 1 .. n /\ k + 1 - i <= k
    BY <1>1
  <2> QED
    BY <1>1, <2>1 DEF Padded
<1>5. Padded(Reverse(s), n) = [i \in 1 .. n |-> IF i <= k THEN row[k + 1 - i] ELSE NoDescription]
  BY <1>4 DEF Padded
<1> HIDE DEF k, row
<1>6. k \in {j \in 0 .. Len(row) : \A i \in j + 1 .. Len(row) : row[i] = NoDescription}
  BY <1>1, <1>2, <1>3
<1>7. Padded(Reverse(s), n) \in Promised!Turned(row)
  BY <1>2, <1>5, <1>6 DEF Promised!Turned
<1> QED
  BY <1>7 DEF row

(* A location is never the path of the directory itself.                   *)
LEMMA ParamIsSeq ==
    ASSUME NEW q \in Queries, NEW key
    PROVE  ParseParam(key, q) \in Seq(STRING)
<1> DEFINE named  == {i \in DOMAIN q : q[i].key = key}
           valued == IF named = {} THEN {} ELSE Valued(q, Min(named))
<1>1. /\ DOMAIN q = 1 .. Len(q) /\ Len(q) \in Nat
      /\ \A i \in DOMAIN q : q[i].value \in Seq(STRING)
  <2> DEFINE V == Seq(STRING)
             P == [key : STRING, set : BOOLEAN, value : V]
  <2>1. q \in Seq(P)
    BY ResourceDirectoryAssumption
  <2>2. \A x \in P : x.value \in V
    OBVIOUS
  <2> HIDE DEF P, V
  <2>3. DOMAIN q = 1 .. Len(q) /\ Len(q) \in Nat /\ \A i \in DOMAIN q : q[i].value \in V
    BY <2>1, <2>2
  <2> QED
    BY <2>3 DEF V
<1>2. valued \in SUBSET Nat /\ valued \subseteq DOMAIN q
  BY <1>1 DEF Valued
<1>3. ParseParam(key, q) = IF valued = {} THEN <<>> ELSE q[Min(valued)].value
  BY DEF ParseParam
<1> HIDE DEF valued
<1>4. CASE valued = {}
  BY <1>3, <1>4
<1>5. CASE valued # {}
  <2>1. Min(valued) \in valued
    BY <1>2, <1>5, LeastExists
  <2> QED
    BY <1>1, <1>2, <1>3, <1>5, <2>1
<1> QED
  BY <1>4, <1>5

LEMMA ConcatNotEmpty ==
    ASSUME NEW S, NEW a \in Seq(S), NEW b \in Seq(S), Len(a) > 0
    PROVE  a \o b \in Seq(S) /\ Len(a \o b) > 0 /\ a \o b # <<>>
<1>1. a \o b \in Seq(S) /\ Len(a \o b) = Len(a) + Len(b) /\ Len(a) \in Nat /\ Len(b) \in Nat
  OBVIOUS
<1> QED
  BY <1>1

LEMMA LocationNotEmpty ==
    ASSUME NEW l \in Locations
    PROVE  l # <<>>
<1>1. PICK q \in Queries, id \in Ids, t \in Ticks : l = Location(q, id, t)
  BY DEF Locations
<1> DEFINE h    == ParseParam("h", q)
           ins  == ParseParam("ins", q)
           dash == "-"
           T    == STRING \cup {dash}
           time == ToString(t)
           S    == T \cup {id, time}
           a    == <<id, dash>>
           b    == IF ins # <<>> THEN ins ELSE <<time>>
           c    == <<dash>>
<1>2. l = IF h # <<>> THEN IF ins # <<>> THEN (h \o c) \o ins ELSE h ELSE a \o b
  BY <1>1 DEF Location
<1>3. h \in Seq(T) /\ ins \in Seq(T) /\ dash \in T
  <2> DEFINE U == STRING
  <2>1. h \in Seq(U) /\ ins \in Seq(U)
    BY ParamIsSeq
  <2>2. U \subseteq T /\ dash \in T
    OBVIOUS
  <2> HIDE DEF h, ins, T, U
  <2> QED
    BY <2>1, <2>2
<1> HIDE DEF h, ins, T, dash, time
<1>4. a \in Seq(S) /\ Len(a) > 0
  <2>1. id \in S /\ dash \in S
    BY <1>3
  <2> HIDE DEF S
  <2> QED
    BY <2>1
<1>5. b \in Seq(S)
  <2>1. time \in S /\ T \subseteq S
    OBVIOUS
  <2>2. ins \in Seq(S)
    BY <1>3, <2>1
  <2> HIDE DEF S
  <2> QED
    BY <2>1, <2>2
<1>6. c \in Seq(T)
  BY <1>3
<1> HIDE DEF a, b, c, S
<1>7. a \o b # <<>>
  BY <1>4, <1>5, ConcatNotEmpty
<1>8. h # <<>> => (h \o c) \o ins # <<>>
  <2>1. h # <<>> => Len(h) > 0
    BY <1>3
  <2>2. h # <<>> => h \o c \in Seq(T) /\ Len(h \o c) > 0
    BY <1>3, <1>6, <2>1, ConcatNotEmpty
  <2> QED
    BY <1>3, <2>2, ConcatNotEmpty
<1> QED
  BY <1>2, <1>7, <1>8
-------------------------------------------------------------------------------
(* What a step tells a client, as Directory says it.                       *)
LEMMA ToldAnswers ==
    /\ response'.code = 201 =>
           Told' = Promised!Answer("created", response'.location, response'.description)
    /\ response'.code = 202 =>
           Told' = Promised!Answer("deleted", response'.location, response'.description)
    /\ response'.code = 404 =>
           Told' = Promised!Answer("missing", response'.location, response'.description)
    /\ response'.code = 205 /\ response'.location # <<>> =>
           Told' = Promised!Answer("description", response'.location, response'.description)
    /\ response'.code \in {405, 500, 501} \/ (response'.code = 205 /\ response'.location = <<>>) =>
           Told' = Promised!Answer("none", <<>>, NoDescription)
BY DEF Told, Promised!Answer

Registered == [l \in Locations |-> At(l)]

LEMMA SameRegistered ==
    ASSUME UNCHANGED <<rds, served, pc>>
    PROVE  Registered' = Registered
BY DEF Registered, At

(* A registration that turned the chains round: there were enough of them. *)
LEMMA ExpandedStep ==
    ASSUME NEW rows \in [Locations -> Seq(Posted)], NEW t \in [Locations -> Seq(Posted)],
           NEW n \in [Locations -> Nat],
           \A p \in Locations : rows[p] = Padded(t[p], n[p]) /\ Len(t[p]) <= n[p],
           AtLeast(Capacity, Items(t))
    PROVE  Promised!Crowded(rows)
<1> DEFINE A == Items(t)
           B == UNION {{l} \X DOMAIN rows[l] : l \in Locations}
<1>1. \A p \in Locations : DOMAIN t[p] \subseteq DOMAIN rows[p]
  BY DEF Padded
<1>2. A \subseteq B
  BY <1>1 DEF Items
<1>3. PICK f \in [1 .. Capacity -> A] : \A i, j \in 1 .. Capacity : f[i] = f[j] => i = j
  BY DEF AtLeast
<1> HIDE DEF A
<1>4. f \in [1 .. Capacity -> B]
  BY <1>2, <1>3
<1> QED
  BY <1>3, <1>4 DEF Promised!Crowded

LEMMA PostRdStep ==
    ASSUME IInv, NEW q \in Queries, NEW id \in Ids, NEW d \in Posted, PostRd(q, id, d)
    PROVE  \E l \in Locations, e \in Posted : Promised!Register(l, e)
<1> DEFINE l     == Location(q, id, now)
           added == MakeRd(l, d)
<1>1. l \in Locations
  BY LocationOK DEF IInv, TypeOK
<1>2. Told' = Promised!Answer("created", l, NoDescription)
  <2>1. /\ response'.code = 201 /\ response'.location = l
        /\ response'.description = NoDescription
    BY DEF PostRd, Reply
  <2> QED
    BY <2>1, ToldAnswers
<1>3. /\ pc = "loop"
      /\ \/ rds' = added
         \/ rds' = rds
         \/ rds' = Expanded(added) /\ AtLeast(Capacity, Items(added))
      /\ served' = [served EXCEPT ![l] = served[l] + 1]
      /\ UNCHANGED <<now, pc>>
  BY DEF PostRd, HashAdd
<1> HIDE DEF l
<1>4. rds \in [Locations -> Seq(Posted)] /\ served \in [Locations -> Nat]
  BY DEF IInv, TypeOK
<1>5. ASSUME NEW p \in Locations
      PROVE  /\ At(p) = Padded(rds[p], served[p])
             /\ At(p)' = Padded(rds'[p], served'[p])
             /\ served[p] \in Nat /\ rds[p] \in Seq(Posted) /\ Len(rds[p]) <= served[p]
             /\ served'[p] = IF p = l THEN served[p] + 1 ELSE served[p]
  BY <1>1, <1>3, <1>4, AtIsPadded DEF IInv, NoOrphanDescription
<1>6. /\ added \in [Locations -> Seq(Posted)]
      /\ \A p \in Locations : added[p] = IF p = l THEN <<d>> \o rds[p] ELSE rds[p]
  BY <1>1, <1>4, MakeRdOK
<1> HIDE DEF added
<1>7. \A p \in Locations :
          Padded(added[p], served'[p]) = IF p = l THEN <<d>> \o At(p) ELSE At(p)
  <2>1. ASSUME NEW p \in Locations
        PROVE  Padded(<<d>> \o rds[p], served[p] + 1) = <<d>> \o At(p)
    <3>1. rds[p] \in Seq(Posted) /\ d \in Posted /\ served[p] \in Nat
      BY <1>5
    <3>2. Padded(<<d>> \o rds[p], served[p] + 1) = <<d>> \o Padded(rds[p], served[p])
      BY <3>1, PaddedPush
    <3> QED
      BY <1>5, <3>2
  <2> QED
    BY <1>5, <1>6, <2>1
<1>8. CASE rds' = added
  <2>1. \A p \in Locations : At(p)' = IF p = l THEN <<d>> \o At(p) ELSE At(p)
    BY <1>5, <1>7, <1>8
  <2>2. Registered' = [Registered EXCEPT ![l] = <<d>> \o Registered[l]]
    BY <1>1, <2>1 DEF Registered
  <2> QED
    BY <1>1, <1>2, <2>2 DEF Promised!Register, Promised!Answer, Registered
<1>9. CASE rds' = rds
  <2>1. \A p \in Locations : At(p)' = IF p = l THEN At(p) \o <<NoDescription>> ELSE At(p)
    BY <1>5, <1>9, PaddedMore
  <2>2. Registered' = [Registered EXCEPT ![l] = Registered[l] \o <<NoDescription>>]
    BY <1>1, <2>1 DEF Registered
  <2> QED
    BY <1>1, <1>2, <2>2 DEF Promised!Register, Promised!Answer, Registered
<1>10. CASE rds' = Expanded(added) /\ AtLeast(Capacity, Items(added))
  <2> DEFINE rows == [Registered EXCEPT ![l] = <<d>> \o Registered[l]]
  <2>1. rows = [p \in Locations |-> Padded(added[p], served'[p])]
    BY <1>1, <1>7 DEF Registered
  <2>2. ASSUME NEW p \in Locations PROVE Len(added[p]) <= served'[p] /\ served'[p] \in Nat
    <3>1. Len(added[p]) = IF p = l THEN Len(rds[p]) + 1 ELSE Len(rds[p])
      BY <1>1, <1>4, MakeRdOK DEF added
    <3>2. Len(rds[p]) \in Nat
      BY <1>5
    <3> QED
      BY <1>5, <3>1, <3>2
  <2>3. \A p \in Locations : rows[p] \in Seq(Posted)
    <3>1. ASSUME NEW p \in Locations, NEW i \in 1 .. served'[p]
          PROVE  (IF i <= Len(added[p]) THEN added[p][i] ELSE NoDescription) \in Posted
      BY <1>6 DEF Posted
    <3>2. ASSUME NEW p \in Locations
          PROVE  Padded(added[p], served'[p]) \in Seq(Posted)
      BY <2>2, <3>1 DEF Padded
    <3> QED
      BY <2>1, <3>2
  <2>4. \A p \in Locations : Registered'[p] = Padded(Reverse(added[p]), served'[p])
    BY <1>5, <1>6, <1>10, ExpandedOK DEF Registered
  <2>5. ASSUME NEW p \in Locations PROVE Registered'[p] \in Promised!Turned(rows[p])
    <3>1. /\ Len(added[p]) <= served'[p] /\ served'[p] \in Nat
          /\ added[p] \in Seq(Posted)
      BY <1>6, <2>2
    <3>2. Padded(Reverse(added[p]), served'[p])
              \in Promised!Turned(Padded(added[p], served'[p]))
      BY <3>1, PaddedTurned
    <3>3. rows[p] = Padded(added[p], served'[p])
      BY <2>1
    <3> QED
      BY <2>4, <3>2, <3>3
  <2>6. served' \in [Locations -> Nat]
    BY <1>1, <1>3, <1>4
  <2>7. rows \in [Locations -> Seq(Posted)]
    BY <2>1, <2>3
  <2>8. \A p \in Locations : rows[p] = Padded(added[p], served'[p])
    BY <2>1
  <2> HIDE DEF rows
  <2>9. Promised!Crowded(rows)
    BY <1>6, <1>10, <2>2, <2>6, <2>7, <2>8, ExpandedStep
  <2>10. Registered' = [p \in Locations |-> Registered'[p]]
    BY DEF Registered
  <2> QED
    BY <1>1, <1>2, <2>5, <2>9, <2>10 DEF Promised!Register, Promised!Answer, Registered, rows
<1> QED
  BY <1>3, <1>8, <1>9, <1>10

LEMMA GetStep ==
    ASSUME IInv, NEW l \in Locations, GetResource(l)
    PROVE  Promised!Read(l)
<1>1. /\ pc = "loop" /\ served[l] > 0 /\ UNCHANGED <<rds, served, pc>>
      /\ response'.code = 205 /\ response'.location = l
      /\ response'.description = IF rds[l] = <<>> THEN NoDescription ELSE Head(rds[l])
  BY DEF GetResource, Respond, Reply
<1>2. rds[l] \in Seq(Posted) /\ served[l] \in Nat
  BY DEF IInv, TypeOK
<1>3. Told' = Promised!Answer("description", l, response'.description)
  BY <1>1, ToldAnswers, LocationNotEmpty
<1>4. At(l) # <<>> /\ Head(At(l)) = response'.description
  BY <1>1, <1>2, AtIsPadded, PaddedHead
<1>5. Registered' = Registered
  BY <1>1, SameRegistered
<1>6. Registered[l] = At(l)
  BY DEF Registered
<1> QED
  BY <1>3, <1>4, <1>5, <1>6 DEF Promised!Read, Promised!Answer, Registered

LEMMA DeleteStep ==
    ASSUME IInv, NEW l \in Locations, DeleteResource(l)
    PROVE  Promised!Remove(l)
<1>1. /\ pc = "loop" /\ rds' = Forget(l) /\ served[l] > 0
      /\ served' = [served EXCEPT ![l] = served[l] - 1]
      /\ UNCHANGED <<now, pc>>
      /\ response'.code = 202 /\ response'.location = l /\ response'.description = NoDescription
  BY DEF DeleteResource, Respond, Reply
<1>2. rds \in [Locations -> Seq(Posted)] /\ served \in [Locations -> Nat]
  BY DEF IInv, TypeOK
<1>3. Told' = Promised!Answer("deleted", l, NoDescription)
  BY <1>1, ToldAnswers
<1>4. ASSUME NEW p \in Locations
      PROVE  /\ At(p) = Padded(rds[p], served[p])
             /\ At(p)' = Padded(rds'[p], served'[p])
             /\ served[p] \in Nat /\ served'[p] \in Nat /\ rds[p] \in Seq(Posted)
             /\ p = l => served[p] = served'[p] + 1
             /\ p # l => served'[p] = served[p]
  BY <1>1, <1>2, AtIsPadded
<1>5. At(l) # <<>>
  BY <1>1, <1>4, PaddedHead
<1>6. ASSUME NEW p \in Locations
      PROVE  At(p)' = IF p = l THEN Tail(At(p)) ELSE At(p)
  <2>1. CASE p = l
    <3>1. IF rds[p] = <<>> THEN rds'[p] = rds[p] ELSE rds'[p] = Tail(rds[p])
      BY <1>1, <1>2, <2>1, ForgetOK
    <3>2. Padded(rds'[p], served'[p]) = Tail(Padded(rds[p], served'[p] + 1))
      BY <1>4, <3>1, PaddedLess
    <3> QED
      BY <1>4, <2>1, <3>2
  <2>2. CASE p # l
    BY <1>1, <1>2, <1>4, <2>2, ForgetOK
  <2> QED
    BY <2>1, <2>2
<1>7. Registered' = [Registered EXCEPT ![l] = Tail(Registered[l])] /\ Registered[l] # <<>>
  BY <1>5, <1>6 DEF Registered
<1> QED
  BY <1>3, <1>7 DEF Promised!Remove, Promised!Answer, Registered

LEMMA NotFoundStep ==
    ASSUME IInv, NEW l \in Locations, NEW m, NotFound(m, l)
    PROVE  Promised!Missing(l)
<1>1. /\ pc = "loop" /\ served[l] = 0 /\ UNCHANGED <<rds, served, pc>>
      /\ response'.code = 404 /\ response'.location = l /\ response'.description = NoDescription
  BY DEF NotFound, Respond, Reply
<1>2. Told' = Promised!Answer("missing", l, NoDescription)
  BY <1>1, ToldAnswers
<1>3. At(l) = <<>>
  <2>1. rds[l] \in Seq(Posted)
    BY DEF IInv, TypeOK
  <2> QED
    BY <1>1, <2>1, AtIsPadded, PaddedHead
<1>4. Registered' = Registered
  BY <1>1, SameRegistered
<1>5. Registered[l] = <<>>
  BY <1>3 DEF Registered
<1> QED
  BY <1>2, <1>4, <1>5 DEF Promised!Missing, Promised!Answer, Registered

(* A request that the directory refuses.                                   *)
LEMMA RefuseStep ==
    ASSUME UNCHANGED <<rds, served, pc>>,
           \/ response'.code \in {405, 500, 501}
           \/ response'.code = 205 /\ response'.location = <<>>
    PROVE  Promised!Refuse
<1>1. Told' = Promised!Answer("none", <<>>, NoDescription)
  BY ToldAnswers
<1>2. Registered' = Registered
  BY SameRegistered
<1> QED
  BY <1>1, <1>2 DEF Promised!Refuse, Promised!Answer, Registered

(* The process ends.                                                       *)
LEMMA CloseStep ==
    ASSUME CleanUp \/ PostFatal
    PROVE  Promised!Close
<1>1. pc' # "loop" /\ UNCHANGED response
  BY DEF CleanUp, PostFatal
<1>2. \A l \in Locations : At(l)' = <<>>
  BY <1>1, AtIsPadded
<1>3. Registered' = [l \in Locations |-> <<>>]
  BY <1>2 DEF Registered
<1>4. UNCHANGED Told
  BY <1>1 DEF Told
<1> QED
  BY <1>3, <1>4 DEF Promised!Close, Registered

LEMMA StutterStep ==
    ASSUME UNCHANGED <<rds, served, pc, response>>
    PROVE  UNCHANGED Promised!vars
<1>1. Registered' = Registered
  BY SameRegistered
<1>2. UNCHANGED Told
  BY DEF Told
<1> QED
  BY <1>1, <1>2 DEF Promised!vars, Registered

LEMMA DirectoryStep == IInv /\ [Next]_vars => [Promised!Next]_(Promised!vars)
<1> SUFFICES ASSUME IInv, [Next]_vars
             PROVE  Promised!Next \/ UNCHANGED Promised!vars
  OBVIOUS
<1>1. CASE \E q \in Queries, id \in Ids, d \in Posted : PostRd(q, id, d)
  BY <1>1, PostRdStep DEF Promised!Next
<1>2. CASE \E l \in Locations : \E m \in {"GET", "PUT", "DELETE"} : NotFound(m, l)
  BY <1>2, NotFoundStep DEF Promised!Next
<1>3. CASE \E l \in Locations : GetResource(l)
  BY <1>3, GetStep DEF Promised!Next
<1>4. CASE \E l \in Locations : DeleteResource(l)
  BY <1>4, DeleteStep DEF Promised!Next
<1>5. CASE Promised!Refuse
  BY <1>5 DEF Promised!Next
<1>6. CASE \E l \in Locations : PutResource(l)
  BY <1>5, <1>6, RefuseStep DEF PutResource, Respond, Reply
<1>7. CASE PostNoMemory
  BY <1>5, <1>7, RefuseStep DEF PostNoMemory, Respond, Reply
<1>8. CASE \E m \in {"GET", "PUT", "DELETE"} : RootRequest(m)
  BY <1>5, <1>8, RefuseStep DEF RootRequest, Respond, Reply
<1>9. CASE CleanUp \/ PostFatal
  BY <1>9, CloseStep DEF Promised!Next
<1>10. CASE Tick \/ Ended \/ UNCHANGED vars
  BY <1>10, StutterStep DEF Tick, Ended, vars
<1> QED
  BY <1>1, <1>2, <1>3, <1>4, <1>6, <1>7, <1>8, <1>9, <1>10 DEF Next

LEMMA DirectoryInit == Init => Promised!Init
<1> SUFFICES ASSUME Init PROVE Promised!Init
  OBVIOUS
<1>1. \A l \in Locations : At(l) = <<>>
  BY AtIsPadded DEF Init, Padded
<1>2. Told = Promised!Answer("none", <<>>, NoDescription)
  BY DEF Init, Reply, Told, Promised!Answer
<1>3. Registered = [l \in Locations |-> <<>>]
  BY <1>1 DEF Registered
<1> QED
  BY <1>2, <1>3 DEF Promised!Init, Promised!Answer, Registered

(* The hash tables of CoAPRD.c and of libcoap, which delete by the key     *)
(* alone, behave like one row of registrations per location, of which the  *)
(* newest is found first until HASH_EXPAND_BUCKETS turns the rows round.   *)
THEOREM DirectoryImplemented == Spec => ImplementsDirectory
<1>1. Spec => [][Promised!Next]_(Promised!vars)
  BY Invariance, DirectoryStep, PTL DEF Spec
<1> QED
  BY <1>1, DirectoryInit, PTL DEF Spec, ImplementsDirectory, Promised!Spec
==============================================================================
