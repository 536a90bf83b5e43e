---------------------------- MODULE ObserveProofs ----------------------------
(***************************************************************************)
(* Proofs about Observe: the types, that a client has one subscription per *)
(* topic, that failed notifications are flagged, that observers know the   *)
(* last value, that a reset ends subscriptions and that numbers increase.  *)
(***************************************************************************)
EXTENDS Observe, FiniteSetTheorems, SequenceTheorems, TLAPS

Distinct(s) == \A i, j \in DOMAIN s : s[i].who = s[j].who => i = j

(* Each subscription of s2 is one of s, or has just been made.             *)
From(s, s2) ==
    \A i \in DOMAIN s2 :
        \/ \E j \in DOMAIN s : s2[i] = s[j]
        \/ ~s2[i].dirty /\ s2[i].told = Nothing

(* ObserversDistinct, DirtyFlagged and Informed are invariants of each     *)
(* step together: a retry sends what data holds, which is the last PUT's   *)
(* payload or has expired.                                                 *)
DataIsPut == \A t \in Topics : data[t] \in {put[t], NoData}

IInv == /\ TypeOK
        /\ ObserversDistinct
        /\ DirtyFlagged
        /\ DataIsPut
        /\ Informed
        /\ QueuedResetEnds
-------------------------------------------------------------------------------
(* A new subscription is a subscription.                                   *)
LEMMA NewSubscription ==
    ASSUME NEW w \in Observers
    PROVE  [who |-> w, non_cnt |-> 0, dirty |-> FALSE, told |-> Nothing] \in Subscriptions
BY ObserveAssumption DEF Subscriptions, Nothing, Messages, Kinds, Content

(* coap_add_observer keeps subscriptions distinct and adds w only.         *)
LEMMA AddObserverOK ==
    ASSUME NEW s \in Seq(Subscriptions), NEW w \in Observers, Distinct(s)
    PROVE  /\ AddObserver(s, w) \in Seq(Subscriptions)
           /\ Distinct(AddObserver(s, w))
           /\ From(s, AddObserver(s, w))
           /\ \A x \in Observers : FindObserver(AddObserver(s, w), x)
                                       => x = w \/ FindObserver(s, x)
<1> DEFINE n == [who |-> w, non_cnt |-> 0, dirty |-> FALSE, told |-> Nothing]
           r == <<n>> \o s
<1>1. CASE FindObserver(s, w)
  BY <1>1 DEF AddObserver, From
<1>2. CASE ~FindObserver(s, w)
  <2>1. AddObserver(s, w) = r
    BY <1>2 DEF AddObserver
  <2>2. n \in Subscriptions
    BY NewSubscription
  <2>3. r \in Seq(Subscriptions) /\ Len(r) = Len(s) + 1
    BY <2>2
  <2>4. r[1] = n
    BY <2>2
  <2>5. \A k \in 2 .. Len(r) : r[k] = s[k - 1] /\ k - 1 \in DOMAIN s
    BY <2>2, <2>3
  <2> HIDE DEF r
  <2>6. Distinct(r)
    <3>1. ASSUME NEW i \in DOMAIN r, NEW j \in DOMAIN r, r[i].who = r[j].who
          PROVE  i = j
      <4>1. i \in 1 .. Len(r) /\ j \in 1 .. Len(r)
        BY <2>3
      <4>2. r[1].who = w
        BY <2>4
      <4>3. \A k \in 2 .. Len(r) : r[k].who # w
        BY <1>2, <2>5 DEF FindObserver
      <4>4. CASE i = 1 \/ j = 1
        BY <2>3, <3>1, <4>1, <4>2, <4>3, <4>4
      <4>5. CASE i # 1 /\ j # 1
        <5>1. i \in 2 .. Len(r) /\ j \in 2 .. Len(r)
          BY <2>3, <4>1, <4>5
        <5>2. s[i - 1].who = s[j - 1].who /\ i - 1 \in DOMAIN s /\ j - 1 \in DOMAIN s
          BY <2>5, <3>1, <5>1
        <5>3. i - 1 = j - 1
          BY <5>2 DEF Distinct
        <5> QED
          BY <5>1, <5>3
      <4> QED
        BY <4>4, <4>5
    <3> QED
      BY <3>1 DEF Distinct
  <2>7. From(s, r)
    BY <2>3, <2>4, <2>5 DEF From
  <2>8. \A x \in Observers : FindObserver(r, x) => x = w \/ FindObserver(s, x)
    BY <2>3, <2>4, <2>5 DEF FindObserver
  <2> QED
    BY <2>1, <2>3, <2>6, <2>7, <2>8
<1> QED
  BY <1>1, <1>2

(* The sequence without its i-th element.                                  *)
LEMMA WithoutOne ==
    ASSUME NEW S, NEW s \in Seq(S), NEW i \in 1 .. Len(s),
           NEW r, r = SubSeq(s, 1, i - 1) \o SubSeq(s, i + 1, Len(s))
    PROVE  /\ r \in Seq(S) /\ Len(r) = Len(s) - 1
           /\ \A k \in 1 .. Len(s) - 1 : r[k] = IF k < i THEN s[k] ELSE s[k + 1]
<1> DEFINE a == SubSeq(s, 1, i - 1)
           b == SubSeq(s, i + 1, Len(s))
<1>0. Len(s) \in Nat
  OBVIOUS
<1>1. a \in Seq(S) /\ Len(a) = i - 1 /\ \A k \in 1 .. i - 1 : a[k] = s[k]
  BY <1>0, SubSeqProperties
<1>2. b \in Seq(S) /\ Len(b) = Len(s) - i /\ \A k \in 1 .. Len(s) - i : b[k] = s[i + k]
  BY <1>0, SubSeqProperties
<1>3. r = a \o b
  OBVIOUS
<1> HIDE DEF a, b
<1>4. /\ a \o b \in Seq(S) /\ Len(a \o b) = Len(a) + Len(b)
      /\ \A k \in 1 .. Len(a) + Len(b) : (a \o b)[k] = IF k <= Len(a) THEN a[k] ELSE b[k - Len(a)]
  BY <1>1, <1>2, ConcatProperties
<1>5. /\ r \in Seq(S) /\ Len(r) = (i - 1) + (Len(s) - i)
      /\ \A k \in 1 .. (i - 1) + (Len(s) - i) : r[k] = IF k <= i - 1 THEN a[k] ELSE b[k - (i - 1)]
  BY <1>1, <1>2, <1>3, <1>4
<1>6. (i - 1) + (Len(s) - i) = Len(s) - 1
  BY <1>0
<1>7. ASSUME NEW k \in 1 .. Len(s) - 1
      PROVE  r[k] = IF k < i THEN s[k] ELSE s[k + 1]
  <2>1. r[k] = IF k <= i - 1 THEN a[k] ELSE b[k - (i - 1)]
    BY <1>5, <1>6
  <2>2. CASE k < i
    <3>1. k \in 1 .. i - 1 /\ k <= i - 1
      BY <1>0, <2>2
    <3>2. a[k] = s[k]
      BY <1>1, <3>1
    <3> QED
      BY <2>1, <2>2, <3>1, <3>2
  <2>3. CASE ~(k < i)
    <3>1. k - (i - 1) \in 1 .. Len(s) - i /\ ~(k <= i - 1) /\ i + (k - (i - 1)) = k + 1
      BY <1>0, <2>3
    <3>2. b[k - (i - 1)] = s[i + (k - (i - 1))]
      BY <1>2, <3>1
    <3> QED
      BY <2>1, <2>3, <3>1, <3>2
  <2> QED
    BY <2>2, <2>3
<1> QED
  BY <1>5, <1>6, <1>7

(* coap_delete_observer keeps the others, and leaves no subscription of w. *)
LEMMA DeleteObserverOK ==
    ASSUME NEW s \in Seq(Subscriptions), NEW w \in Observers, Distinct(s)
    PROVE  /\ DeleteObserver(s, w) \in Seq(Subscriptions)
           /\ Distinct(DeleteObserver(s, w))
           /\ From(s, DeleteObserver(s, w))
           /\ ~FindObserver(DeleteObserver(s, w), w)
           /\ \A x \in Observers : FindObserver(DeleteObserver(s, w), x)
                                       => FindObserver(s, x)
<1>1. CASE ~FindObserver(s, w)
  BY <1>1 DEF DeleteObserver, From
<1>2. CASE FindObserver(s, w)
  <2> DEFINE First(i) == s[i].who = w /\ \A j \in 1 .. i - 1 : s[j].who # w
             i == CHOOSE i \in DOMAIN s : First(i)
             r == SubSeq(s, 1, i - 1) \o SubSeq(s, i + 1, Len(s))
  <2>1. DeleteObserver(s, w) = r
    BY <1>2 DEF DeleteObserver
  <2>2. \E k \in DOMAIN s : First(k)
    <3>1. PICK k \in DOMAIN s : s[k].who = w
      BY <1>2 DEF FindObserver
    <3>2. \A j \in 1 .. k - 1 : j \in DOMAIN s /\ j # k
      OBVIOUS
    <3> QED
      BY <3>1, <3>2 DEF Distinct
  <2>3. i \in DOMAIN s /\ s[i].who = w
    BY <2>2
  <2> HIDE DEF i
  <2>4. i \in 1 .. Len(s) /\ Len(s) \in Nat
    BY <2>3
  <2>6. /\ r \in Seq(Subscriptions) /\ Len(r) = Len(s) - 1
        /\ \A k \in 1 .. Len(s) - 1 : r[k] = IF k < i THEN s[k] ELSE s[k + 1]
    BY <2>4, WithoutOne
  <2> HIDE DEF r
  <2>8. \A k \in DOMAIN r : \E j \in DOMAIN s : /\ r[k] = s[j] /\ j # i
                                                /\ j = IF k < i THEN k ELSE k + 1
    BY <2>4, <2>6
  <2>9. Distinct(r)
    BY <2>4, <2>6, <2>8 DEF Distinct
  <2>10. From(s, r)
    BY <2>8 DEF From
  <2>11. ~FindObserver(r, w)
    BY <2>3, <2>8 DEF FindObserver, Distinct
  <2>12. \A x \in Observers : FindObserver(r, x) => FindObserver(s, x)
    BY <2>8 DEF FindObserver
  <2> QED
    BY <2>1, <2>6, <2>9, <2>10, <2>11, <2>12
<1> QED
  BY <1>1, <1>2
-------------------------------------------------------------------------------
(* The Observe option changes the observers of one topic only.             *)
LEMMA WithOptionOK ==
    ASSUME TypeOK, ObserversDistinct,
           NEW t \in Topics, NEW w \in Observers, NEW opt \in Options,
           NEW S, S = WithOption(t, w, opt)
    PROVE  /\ S \in [Topics -> Seq(Subscriptions)]
           /\ \A r \in Topics : Distinct(S[r]) /\ From(observers[r], S[r])
           /\ \A r \in Topics : r # t => S[r] = observers[r]
           /\ \A r \in Topics, x \in Observers :
                  FindObserver(S[r], x) =>
                      FindObserver(observers[r], x) \/ (r = t /\ x = w /\ opt = "register")
<1> DEFINE s == observers[t]
           s2 == CASE opt = "register" -> AddObserver(s, w)
                   [] opt = "cancel"   -> DeleteObserver(s, w)
                   [] OTHER            -> s
<1>1. observers \in [Topics -> Seq(Subscriptions)] /\ \A r \in Topics : Distinct(observers[r])
  BY DEF TypeOK, ObserversDistinct, Distinct
<1>2. S = [observers EXCEPT ![t] = s2]
  BY DEF WithOption
<1>3. s \in Seq(Subscriptions) /\ Distinct(s)
  BY <1>1
<1>4. /\ s2 \in Seq(Subscriptions) /\ Distinct(s2) /\ From(s, s2)
      /\ \A x \in Observers : FindObserver(s2, x) =>
             FindObserver(s, x) \/ (x = w /\ opt = "register")
  <2>1. CASE opt = "register"
    BY <1>3, <2>1, AddObserverOK
  <2>2. CASE opt = "cancel"
    BY <1>3, <2>2, DeleteObserverOK
  <2>3. CASE opt = "none"
    BY <1>3, <2>3 DEF From
  <2> QED
    BY <2>1, <2>2, <2>3 DEF Options
<1> HIDE DEF s2
<1>5. \A r \in Topics : From(observers[r], observers[r])
  BY DEF From
<1> QED
  BY <1>1, <1>2, <1>4, <1>5

(* What DirtyFlagged and Informed say of one subscription.                 *)
SubOK(sub, flagged, d, p) ==
    /\ sub.dirty => flagged
    /\ \/ sub.dirty
       \/ sub.told.kind = "none"
       \/ sub.told.data = p
       \/ sub.told.data = NoData /\ d = NoData

LEMMA SubscriptionsOK ==
    ASSUME DirtyFlagged, Informed
    PROVE  \A t \in Topics : \A i \in DOMAIN observers[t] :
               SubOK(observers[t][i], t \in partiallydirty, data[t], put[t])
BY DEF DirtyFlagged, Informed, SubOK

LEMMA FromOK ==
    ASSUME NEW s, NEW s2, From(s, s2), NEW f, NEW d, NEW p,
           \A i \in DOMAIN s : SubOK(s[i], f, d, p)
    PROVE  \A i \in DOMAIN s2 : SubOK(s2[i], f, d, p)
BY DEF From, SubOK, Nothing

(* A request takes back only the rejections of the client that registers.  *)
LEMMA RejectionsOK ==
    ASSUME IInv, NEW t \in Topics, NEW w \in Observers, NEW opt \in Options,
           NEW S2,
           \A r \in Topics, x \in Observers :
               FindObserver(S2[r], x) => FindObserver(WithOption(t, w, opt)[r], x)
    PROVE  /\ WithoutRejection(t, w, opt) \subseteq rejected
           /\ \A r \in WithoutRejection(t, w, opt) :
                  r.queued => ~FindObserver(S2[r.topic], r.who)
<1>1. WithoutRejection(t, w, opt) \subseteq rejected
  BY DEF WithoutRejection
<1>2. ASSUME NEW r \in WithoutRejection(t, w, opt), r.queued, FindObserver(S2[r.topic], r.who)
      PROVE  FALSE
  <2>1. r \in rejected /\ r.topic \in Topics /\ r.who \in Observers
    BY <1>1 DEF IInv, TypeOK
  <2>2. FindObserver(WithOption(t, w, opt)[r.topic], r.who)
    BY <1>2, <2>1
  <2>3. ~FindObserver(observers[r.topic], r.who)
    BY <1>2, <2>1 DEF IInv, QueuedResetEnds, Has
  <2>4. r.topic = t /\ r.who = w /\ opt = "register"
    BY <2>1, <2>2, <2>3, WithOptionOK DEF IInv
  <2> QED
    BY <2>4 DEF WithoutRejection
<1> QED
  BY <1>1, <1>2
-------------------------------------------------------------------------------
(* The count of NON notifications stays within its limit.                  *)
LEMMA CountOK ==
    ASSUME NEW c \in 0 .. COAP_OBS_MAX_NON
    PROVE  (IF c < COAP_OBS_MAX_NON THEN c + 1 ELSE 0) \in 0 .. COAP_OBS_MAX_NON
<1>1. COAP_OBS_MAX_NON \in Nat
  BY ObserveAssumption
<1>2. CASE c < COAP_OBS_MAX_NON
  BY <1>1, <1>2
<1>3. CASE ~(c < COAP_OBS_MAX_NON)
  BY <1>1, <1>3
<1> QED
  BY <1>2, <1>3

(* A round of notifications: those that were due were told the content or  *)
(* are dirty, and then the resource is flagged; the others are as before.  *)
LEMMA NotifiedOK ==
    ASSUME NEW s \in Seq(Subscriptions), NEW dirty \in BOOLEAN,
           NEW num \in 0 .. MaxObserve, NEW content \in Content, NEW out,
           \A i \in DOMAIN s : out[s[i].who] \in Outcomes,
           NEW n, n = Notified(s, dirty, out, num, content)
    PROVE  /\ n \in Seq(Subscriptions) /\ DOMAIN n = DOMAIN s
           /\ \A i \in DOMAIN s :
                  /\ n[i].who = s[i].who
                  /\ n[i].dirty => Failed(s, dirty, out)
                  /\ \/ n[i].dirty
                     \/ n[i].told.data = content
                     \/ ~dirty /\ n[i] = s[i]
<1>1. DOMAIN s = 1 .. Len(s) /\ Len(s) \in Nat /\ \A i \in DOMAIN s : s[i] \in Subscriptions
  OBVIOUS
<1>2. DOMAIN n = DOMAIN s
  BY DEF Notified
<1>3. ASSUME NEW i \in DOMAIN s
      PROVE  /\ n[i] \in Subscriptions
             /\ n[i].who = s[i].who
             /\ n[i].dirty => Failed(s, dirty, out)
             /\ n[i].dirty \/ n[i].told.data = content \/ (~dirty /\ n[i] = s[i])
  <2>0. s[i] \in Subscriptions /\ out[s[i].who] \in Outcomes
    BY <1>1
  <2>1. CASE IsDue(s, i, dirty)
    <3>1. n[i] = Attempted(s[i], out[s[i].who], num, content)
      BY <2>1 DEF Notified
    <3>2. Told(s[i], out[s[i].who], num, content) \in Messages
      BY <2>0 DEF Told, Messages, Subscriptions, Kinds, NotificationType
    <3>3. (IF out[s[i].who] = "unmade" THEN s[i].non_cnt
           ELSE IF s[i].non_cnt < COAP_OBS_MAX_NON THEN s[i].non_cnt + 1 ELSE 0)
              \in 0 .. COAP_OBS_MAX_NON
      <4>1. s[i].non_cnt \in 0 .. COAP_OBS_MAX_NON
        BY <2>0 DEF Subscriptions
      <4>2. CASE out[s[i].who] = "unmade"
        BY <4>1, <4>2
      <4>3. CASE out[s[i].who] # "unmade"
        BY <4>1, <4>3, CountOK
      <4> QED
        BY <4>2, <4>3
    <3>4. /\ n[i] \in Subscriptions
          /\ n[i].who = s[i].who
          /\ n[i].dirty = (out[s[i].who] # "sent")
          /\ n[i].told = Told(s[i], out[s[i].who], num, content)
      BY <2>0, <3>1, <3>2, <3>3 DEF Attempted, Subscriptions
    <3>5. n[i].dirty => Failed(s, dirty, out)
      BY <2>1, <3>4 DEF Failed
    <3>6. n[i].dirty \/ n[i].told.data = content
      <4>1. CASE out[s[i].who] = "sent"
        <5>1. Told(s[i], out[s[i].who], num, content)
                  = [kind |-> NotificationType(s[i]), num |-> num, data |-> content]
          BY <4>1 DEF Told
        <5> QED
          BY <3>4, <5>1
      <4>2. CASE out[s[i].who] # "sent"
        BY <3>4, <4>2
      <4> QED
        BY <4>1, <4>2
    <3> QED
      BY <3>4, <3>5, <3>6
  <2>2. CASE ~IsDue(s, i, dirty)
    BY <2>0, <2>2 DEF Notified, IsDue
  <2> QED
    BY <2>1, <2>2
<1>4. n \in Seq(Subscriptions)
  <2>1. n = [i \in 1 .. Len(s) |-> n[i]]
    BY <1>1, <1>2 DEF Notified
  <2> QED
    BY <1>1, <1>3, <2>1
<1> QED
  BY <1>2, <1>3, <1>4
-------------------------------------------------------------------------------
(* What has to be shown of a step.                                         *)
LEMMA Assemble ==
    ASSUME TypeOK', DataIsPut', QueuedResetEnds',
           \A r \in Topics : Distinct(observers'[r]) /\ (r \notin live' => observers'[r] = <<>>),
           \A r \in Topics : \A i \in DOMAIN observers'[r] :
               SubOK(observers'[r][i], r \in partiallydirty', data'[r], put'[r])
    PROVE  IInv'
<1>1. ObserversDistinct'
  BY DEF ObserversDistinct, Distinct
<1>2. DirtyFlagged'
  BY DEF DirtyFlagged, SubOK
<1>3. Informed'
  BY DEF Informed, SubOK
<1> QED
  BY <1>1, <1>2, <1>3 DEF IInv

(* The same for a request at t that only edits its subscriptions.          *)
LEMMA AssembleRequest ==
    ASSUME IInv, NEW t \in Topics, NEW w \in Observers, NEW opt \in Options,
           t \in live, live \subseteq live', live' \subseteq Topics,
           rejected' = WithoutRejection(t, w, opt),
           UNCHANGED <<data, partiallydirty, observe, sendqueue, put>>,
           observers' \in [Topics -> Seq(Subscriptions)],
           \A r \in Topics : Distinct(observers'[r]),
           \A r \in Topics : r # t => observers'[r] = observers[r],
           \A i \in DOMAIN observers'[t] :
               SubOK(observers'[t][i], t \in partiallydirty, data[t], put[t]),
           \A r \in Topics, x \in Observers :
               FindObserver(observers'[r], x) => FindObserver(WithOption(t, w, opt)[r], x)
    PROVE  IInv'
<1>1. /\ rejected' \subseteq rejected
      /\ \A r \in rejected' : r.queued => ~FindObserver(observers'[r.topic], r.who)
  BY RejectionsOK
<1>2. TypeOK'
  BY <1>1 DEF IInv, TypeOK
<1>3. QueuedResetEnds'
  BY <1>1 DEF QueuedResetEnds, Has
<1>4. DataIsPut'
  BY DEF IInv, DataIsPut
<1>5. \A r \in Topics : r \notin live' => observers'[r] = <<>>
  BY DEF IInv, ObserversDistinct
<1>6. \A r \in Topics : \A i \in DOMAIN observers'[r] :
          SubOK(observers'[r][i], r \in partiallydirty', data'[r], put'[r])
  BY SubscriptionsOK DEF IInv
<1> QED
  BY <1>2, <1>3, <1>4, <1>5, <1>6, Assemble

LEMMA GetTopicOK ==
    ASSUME IInv, NEW t \in Topics, NEW w \in Observers, NEW opt \in Options,
           NEW sent \in BOOLEAN, GetTopic(t, w, opt, sent)
    PROVE  IInv'
<1> DEFINE S == WithOption(t, w, opt)
           m == [kind |-> "response", num |-> observe, data |-> data[t]]
           Edit(sub) == IF sub.who = w /\ sent THEN [sub EXCEPT !.told = m] ELSE sub
           s2 == [i \in DOMAIN S[t] |-> Edit(S[t][i])]
<1>1. /\ S \in [Topics -> Seq(Subscriptions)]
      /\ \A r \in Topics : Distinct(S[r]) /\ From(observers[r], S[r])
      /\ \A r \in Topics : r # t => S[r] = observers[r]
  BY WithOptionOK DEF IInv
<1>2. observers' = [S EXCEPT ![t] = s2]
  BY <1>1 DEF GetTopic
<1> HIDE DEF S
<1>3. \A i \in DOMAIN S[t] : SubOK(S[t][i], t \in partiallydirty, data[t], put[t])
  BY <1>1, FromOK, SubscriptionsOK DEF IInv
<1>4. m \in Messages /\ data[t] \in {put[t], NoData}
  BY DEF Messages, Kinds, IInv, TypeOK, DataIsPut
<1>5. ASSUME NEW sub \in Subscriptions, SubOK(sub, t \in partiallydirty, data[t], put[t])
      PROVE  /\ Edit(sub) \in Subscriptions /\ Edit(sub).who = sub.who
             /\ SubOK(Edit(sub), t \in partiallydirty, data[t], put[t])
  <2>1. CASE sub.who = w /\ sent
    <3>1. Edit(sub) = [sub EXCEPT !.told = m]
      BY <2>1
    <3>2. /\ Edit(sub) \in Subscriptions /\ Edit(sub).who = sub.who
          /\ Edit(sub).dirty = sub.dirty /\ Edit(sub).told.data = data[t]
      BY <1>4, <3>1 DEF Subscriptions
    <3> QED
      BY <1>4, <1>5, <3>2 DEF SubOK
  <2>2. CASE ~(sub.who = w /\ sent)
    BY <1>5, <2>2
  <2> QED
    BY <2>1, <2>2
<1> HIDE DEF Edit
<1>6. S[t] \in Seq(Subscriptions) /\ DOMAIN S[t] = 1 .. Len(S[t])
      /\ \A i \in DOMAIN S[t] : S[t][i] \in Subscriptions
  BY <1>1
<1>7. \A i \in DOMAIN S[t] : s2[i] \in Subscriptions /\ s2[i].who = S[t][i].who
      /\ SubOK(s2[i], t \in partiallydirty, data[t], put[t])
  BY <1>3, <1>5, <1>6
<1>8. s2 \in Seq(Subscriptions) /\ DOMAIN s2 = DOMAIN S[t]
  <2>1. DOMAIN s2 = 1 .. Len(S[t]) /\ s2 = [i \in 1 .. Len(S[t]) |-> s2[i]]
    BY <1>6
  <2> HIDE DEF s2
  <2> QED
    BY <1>6, <1>7, <2>1
<1> HIDE DEF s2
<1>9. Distinct(s2) /\ \A x \in Observers : FindObserver(s2, x) => FindObserver(S[t], x)
  BY <1>1, <1>7, <1>8 DEF Distinct, FindObserver
<1>10. /\ observers' \in [Topics -> Seq(Subscriptions)]
       /\ observers'[t] = s2
       /\ \A r \in Topics : r # t => observers'[r] = S[r]
  BY <1>1, <1>2, <1>8
<1> QED
  BY <1>1, <1>7, <1>8, <1>9, <1>10, AssembleRequest DEF GetTopic, IInv, TypeOK, S

LEMMA RefusedOK ==
    ASSUME IInv, NEW t \in Topics, NEW w \in Observers, NEW opt \in Options,
           NEW dropped \in BOOLEAN, Refused(t, w, opt, dropped)
    PROVE  IInv'
<1> DEFINE S == WithOption(t, w, opt)
           s2 == DeleteObserver(S[t], w)
<1>1. /\ S \in [Topics -> Seq(Subscriptions)]
      /\ \A r \in Topics : Distinct(S[r]) /\ From(observers[r], S[r])
      /\ \A r \in Topics : r # t => S[r] = observers[r]
  BY WithOptionOK DEF IInv
<1>2. observers' = IF opt = "none" \/ dropped THEN S ELSE [S EXCEPT ![t] = s2]
  BY DEF Refused
<1> HIDE DEF S
<1>3. /\ s2 \in Seq(Subscriptions) /\ Distinct(s2) /\ From(S[t], s2)
      /\ \A x \in Observers : FindObserver(s2, x) => FindObserver(S[t], x)
  BY <1>1, DeleteObserverOK
<1> HIDE DEF s2
<1>4. \A i \in DOMAIN S[t] : SubOK(S[t][i], t \in partiallydirty, data[t], put[t])
  BY <1>1, FromOK, SubscriptionsOK DEF IInv
<1>5. \A i \in DOMAIN s2 : SubOK(s2[i], t \in partiallydirty, data[t], put[t])
  BY <1>3, <1>4, FromOK
<1>6. /\ observers' \in [Topics -> Seq(Subscriptions)]
      /\ observers'[t] \in {S[t], s2}
      /\ \A r \in Topics : r # t => observers'[r] = S[r]
  BY <1>1, <1>2, <1>3
<1>7. /\ \A r \in Topics : Distinct(observers'[r])
      /\ \A r \in Topics : r # t => observers'[r] = observers[r]
      /\ \A i \in DOMAIN observers'[t] :
             SubOK(observers'[t][i], t \in partiallydirty, data[t], put[t])
      /\ \A r \in Topics, x \in Observers :
             FindObserver(observers'[r], x) => FindObserver(S[r], x)
  BY <1>1, <1>3, <1>4, <1>5, <1>6
<1> QED
  BY <1>6, <1>7, AssembleRequest DEF Refused, IInv, TypeOK, S

LEMMA PostTopicOK ==
    ASSUME IInv, NEW t \in Topics, NEW w \in Observers, NEW opt \in Options,
           NEW new \in Topics, PostTopic(t, w, opt, new)
    PROVE  IInv'
<1> DEFINE S == WithOption(t, w, opt)
<1>1. /\ S \in [Topics -> Seq(Subscriptions)]
      /\ \A r \in Topics : Distinct(S[r]) /\ From(observers[r], S[r])
      /\ \A r \in Topics : r # t => S[r] = observers[r]
  BY WithOptionOK DEF IInv
<1>2. \A i \in DOMAIN S[t] : SubOK(S[t][i], t \in partiallydirty, data[t], put[t])
  BY <1>1, FromOK, SubscriptionsOK DEF IInv
<1>3. observers' = S /\ live' = live \cup {new} /\ t \in live
      /\ rejected' = WithoutRejection(t, w, opt)
      /\ UNCHANGED <<data, partiallydirty, observe, sendqueue, put>>
  BY DEF PostTopic, NewResource
<1>4. live \subseteq live' /\ live' \subseteq Topics
  BY <1>3 DEF IInv, TypeOK
<1> QED
  BY <1>1, <1>2, <1>3, <1>4, AssembleRequest
-------------------------------------------------------------------------------
(* The numbers of a round are Observe numbers.                             *)
LEMMA CheckNotifyNumbers ==
    ASSUME TypeOK, NEW due \in SUBSET Topics, observe + Cardinality(due) <= MaxObserve
    PROVE  /\ observe + Cardinality(due) \in 0 .. MaxObserve
           /\ observe .. observe + Cardinality(due) - 1 \subseteq 0 .. MaxObserve
<1>1. Cardinality(due) \in Nat
  BY ObserveAssumption, FS_Subset, FS_CardinalityType
<1> QED
  BY <1>1, ObserveAssumption DEF TypeOK

LEMMA PutTopicOK ==
    ASSUME IInv, NEW t \in Topics, NEW w \in Observers, NEW opt \in Options,
           NEW v \in Payloads, PutTopic(t, w, opt, v)
    PROVE  IInv'
<1> DEFINE S    == WithOption(t, w, opt)
           due  == partiallydirty \cup {t}
           whos == {x \in Observers : \E r \in due : FindObserver(S[r], x)}
<1>1. /\ S \in [Topics -> Seq(Subscriptions)]
      /\ \A r \in Topics : Distinct(S[r]) /\ From(observers[r], S[r])
      /\ \A r \in Topics : r # t => S[r] = observers[r]
  BY WithOptionOK DEF IInv
<1>2. due \subseteq live /\ live \subseteq Topics
  BY DEF PutTopic, IInv, TypeOK
<1>3. /\ observe + Cardinality(due) <= MaxObserve
      /\ observe' = observe + Cardinality(due)
  BY DEF PutTopic, CheckNotify, Advance
<1>4. PICK num \in [due -> observe .. observe + Cardinality(due) - 1],
           out \in [due -> [whos -> Outcomes]] :
        /\ observers' = [r \in Topics |->
               IF r \in due
               THEN Notified(S[r], r = t, out[r], num[r], data'[r])
               ELSE S[r]]
        /\ partiallydirty' = {r \in due : Failed(S[r], r = t, out[r])}
        /\ sendqueue' = sendqueue \cup
               UNION {Confirmable(r, S[r], r = t, out[r], num[r]) : r \in due}
  BY DEF PutTopic, CheckNotify
<1>5. /\ data' = [data EXCEPT ![t] = v] /\ put' = [put EXCEPT ![t] = v]
      /\ rejected' = WithoutRejection(t, w, opt)
      /\ UNCHANGED live /\ t \in live
  BY DEF PutTopic
<1>6. /\ data' \in [Topics -> Content] /\ put' \in [Topics -> Content]
      /\ DataIsPut' /\ data'[t] = v /\ put'[t] = v
      /\ \A r \in Topics : r # t => data'[r] = data[r] /\ put'[r] = put[r]
  BY <1>5 DEF IInv, TypeOK, DataIsPut, Content
<1>7. \A r \in Topics : \A i \in DOMAIN S[r] :
          SubOK(S[r][i], r \in partiallydirty, data[r], put[r])
  BY <1>1, FromOK, SubscriptionsOK DEF IInv
<1>8. /\ observe' \in 0 .. MaxObserve
      /\ \A r \in due : num[r] \in 0 .. MaxObserve
  BY <1>2, <1>3, CheckNotifyNumbers DEF IInv
<1> HIDE DEF S
<1>9. \A r \in due : \A i \in DOMAIN S[r] :
          S[r][i].who \in Observers /\ out[r][S[r][i].who] \in Outcomes
  <2>1. ASSUME NEW r \in due, NEW i \in DOMAIN S[r]
        PROVE  S[r][i].who \in whos
    <3>1. S[r][i] \in Subscriptions
      BY <1>1, <1>2
    <3> QED
      BY <3>1 DEF FindObserver, Subscriptions
  <2> QED
    BY <2>1
<1> HIDE DEF due, whos
<1>10. ASSUME NEW r \in Topics
       PROVE  /\ observers'[r] \in Seq(Subscriptions)
              /\ Distinct(observers'[r])
              /\ \A i \in DOMAIN observers'[r] :
                     SubOK(observers'[r][i], r \in partiallydirty', data'[r], put'[r])
              /\ \A x \in Observers : FindObserver(observers'[r], x) => FindObserver(S[r], x)
  <2>1. CASE r \in due
    <3> DEFINE n == Notified(S[r], r = t, out[r], num[r], data'[r])
    <3>1. observers'[r] = n
      BY <1>4, <2>1
    <3> HIDE DEF n
    <3>2. S[r] \in Seq(Subscriptions) /\ data'[r] \in Content /\ num[r] \in 0 .. MaxObserve
      BY <1>1, <1>6, <1>8, <2>1
    <3>3. /\ n \in Seq(Subscriptions) /\ DOMAIN n = DOMAIN S[r]
          /\ \A i \in DOMAIN S[r] :
                 /\ n[i].who = S[r][i].who
                 /\ n[i].dirty => Failed(S[r], r = t, out[r])
                 /\ \/ n[i].dirty
                    \/ n[i].told.data = data'[r]
                    \/ r # t /\ n[i] = S[r][i]
      <4> DEFINE d == r = t
                 o == out[r]
                 c == data'[r]
                 k == num[r]
      <4>1. d \in BOOLEAN /\ \A i \in DOMAIN S[r] : o[S[r][i].who] \in Outcomes
        BY <1>9, <2>1
      <4>2. n = Notified(S[r], d, o, k, c)
        BY DEF n
      <4>3. c \in Content /\ k \in 0 .. MaxObserve
        BY <3>2
      <4>4. d = (r = t) /\ o = out[r] /\ c = data'[r]
        OBVIOUS
      <4> HIDE DEF d, o, c, k
      <4>5. /\ n \in Seq(Subscriptions) /\ DOMAIN n = DOMAIN S[r]
            /\ \A i \in DOMAIN S[r] :
                   /\ n[i].who = S[r][i].who
                   /\ n[i].dirty => Failed(S[r], d, o)
                   /\ \/ n[i].dirty
                      \/ n[i].told.data = c
                      \/ ~d /\ n[i] = S[r][i]
        BY <3>2, <4>1, <4>2, <4>3, NotifiedOK
      <4> QED
        BY <4>4, <4>5
    <3>4. Distinct(n) /\ \A x \in Observers : FindObserver(n, x) => FindObserver(S[r], x)
      BY <1>1, <3>3 DEF Distinct, FindObserver
    <3>5. ASSUME NEW i \in DOMAIN n
          PROVE  SubOK(n[i], r \in partiallydirty', data'[r], put'[r])
      <4>1. n[i].dirty => r \in partiallydirty'
        BY <1>4, <2>1, <3>3
      <4>2. CASE n[i].dirty
        BY <4>1, <4>2 DEF SubOK
      <4>3. CASE n[i].told.data = data'[r]
        BY <1>6, <4>1, <4>3 DEF SubOK, DataIsPut
      <4>4. CASE r # t /\ n[i] = S[r][i]
        BY <1>6, <1>7, <3>3, <4>1, <4>4 DEF SubOK
      <4> QED
        BY <3>3, <4>2, <4>3, <4>4
    <3> QED
      BY <3>1, <3>3, <3>4, <3>5
  <2>2. CASE r \notin due
    <3>1. observers'[r] = S[r] /\ r # t /\ r \notin partiallydirty
      BY <1>4, <2>2 DEF due
    <3>2. \A i \in DOMAIN S[r] : SubOK(S[r][i], r \in partiallydirty', data'[r], put'[r])
      BY <1>6, <1>7, <3>1 DEF SubOK
    <3> QED
      BY <1>1, <3>1, <3>2
  <2> QED
    BY <2>1, <2>2
<1>11. observers' \in [Topics -> Seq(Subscriptions)]
  <2>1. observers' = [r \in Topics |-> observers'[r]]
    BY <1>4
  <2> QED
    BY <1>10, <2>1
<1>12. \A r \in Topics : r \notin live' => observers'[r] = <<>>
  <2>1. \A r \in Topics : r \notin live => r \notin due /\ r # t
    BY <1>2, <1>5
  <2> QED
    BY <1>1, <1>4, <1>5, <2>1 DEF IInv, ObserversDistinct
<1>13. /\ rejected' \subseteq rejected
       /\ \A r \in rejected' : r.queued => ~FindObserver(observers'[r.topic], r.who)
  BY <1>5, <1>10, RejectionsOK DEF S
<1>14. sendqueue' \subseteq Notes
  <2>1. ASSUME NEW r \in due PROVE Confirmable(r, S[r], r = t, out[r], num[r]) \subseteq Notes
    BY <1>2, <1>8, <1>9 DEF Confirmable, Notes
  <2> QED
    BY <1>4, <1>5, <2>1 DEF IInv, TypeOK
<1>15. TypeOK'
  BY <1>2, <1>4, <1>5, <1>6, <1>8, <1>11, <1>13, <1>14 DEF IInv, TypeOK
<1>16. QueuedResetEnds'
  BY <1>13 DEF QueuedResetEnds, Has
<1> QED
  BY <1>6, <1>10, <1>12, <1>15, <1>16, Assemble
-------------------------------------------------------------------------------
(* Steps that leave the subscriptions, the data and the flags alone.       *)
LEMMA AssembleSame ==
    ASSUME IInv, TypeOK', QueuedResetEnds', live \subseteq live',
           UNCHANGED <<data, observers, partiallydirty, put>>
    PROVE  IInv'
<1>1. DataIsPut'
  BY DEF IInv, DataIsPut
<1>2. \A r \in Topics : Distinct(observers'[r]) /\ (r \notin live' => observers'[r] = <<>>)
  BY DEF IInv, ObserversDistinct, Distinct
<1>3. \A r \in Topics : \A i \in DOMAIN observers'[r] :
          SubOK(observers'[r][i], r \in partiallydirty', data'[r], put'[r])
  BY SubscriptionsOK DEF IInv
<1> QED
  BY <1>1, <1>2, <1>3, Assemble

LEMMA PostBrokerOK ==
    ASSUME IInv, NEW new \in Topics, PostBroker(new)
    PROVE  IInv'
<1>1. TypeOK' /\ QueuedResetEnds'
  BY DEF IInv, TypeOK, QueuedResetEnds, Has, PostBroker, NewResource
<1> QED
  BY <1>1, AssembleSame DEF PostBroker, NewResource

LEMMA AcknowledgeOK ==
    ASSUME IInv, NEW m \in sendqueue, Acknowledge(m)
    PROVE  IInv'
<1>1. TypeOK' /\ QueuedResetEnds'
  BY DEF IInv, TypeOK, QueuedResetEnds, Has, Acknowledge
<1> QED
  BY <1>1, AssembleSame DEF Acknowledge

LEMMA ResponseFromOK ==
    ASSUME IInv, NEW w \in Observers, ResponseFrom(w)
    PROVE  IInv'
<1>1. TypeOK' /\ QueuedResetEnds'
  BY DEF IInv, TypeOK, QueuedResetEnds, Has, ResponseFrom
<1> QED
  BY <1>1, AssembleSame DEF ResponseFrom

LEMMA ResetOtherOK ==
    ASSUME IInv, NEW t \in Topics, NEW w \in Observers, ResetOther(t, w)
    PROVE  IInv'
<1> DEFINE n == [topic |-> t, who |-> w, queued |-> FALSE]
<1>1. /\ rejected' = rejected \cup {n}
      /\ UNCHANGED <<live, data, observers, partiallydirty, observe, sendqueue, put>>
  BY DEF ResetOther
<1>2. n \in [topic : Topics, who : Observers, queued : BOOLEAN] /\ ~n.queued
  OBVIOUS
<1> HIDE DEF n
<1>3. TypeOK'
  BY <1>1, <1>2 DEF IInv, TypeOK
<1>4. QueuedResetEnds'
  BY <1>1, <1>2 DEF IInv, QueuedResetEnds, Has
<1> QED
  BY <1>1, <1>3, <1>4, AssembleSame

(* Expired data is NoData, which is what a stale observer has to be told.  *)
LEMMA DataExpiresOK ==
    ASSUME IInv, NEW t \in Topics, DataExpires(t)
    PROVE  IInv'
<1>1. /\ data' \in [Topics -> Content]
      /\ \A r \in Topics : data'[r] = data[r] \/ data'[r] = NoData
      /\ UNCHANGED <<live, observers, partiallydirty, observe, sendqueue,
                      rejected, put>>
  BY DEF DataExpires, IInv, TypeOK, Content
<1>2. TypeOK' /\ QueuedResetEnds' /\ DataIsPut'
  BY <1>1 DEF IInv, TypeOK, QueuedResetEnds, Has, DataIsPut
<1>3. \A r \in Topics : Distinct(observers'[r]) /\ (r \notin live' => observers'[r] = <<>>)
  BY <1>1 DEF IInv, ObserversDistinct, Distinct
<1>4. \A r \in Topics : \A i \in DOMAIN observers'[r] :
          SubOK(observers'[r][i], r \in partiallydirty', data'[r], put'[r])
  BY <1>1, SubscriptionsOK DEF IInv, SubOK
<1> QED
  BY <1>2, <1>3, <1>4, Assemble

LEMMA DeleteTopicsOK ==
    ASSUME IInv, NEW T \in SUBSET live, DeleteTopics(T)
    PROVE  IInv'
<1>1. /\ observers' = [t \in Topics |-> IF t \in T THEN <<>> ELSE observers[t]]
      /\ data' = [t \in Topics |-> IF t \in T THEN NoData ELSE data[t]]
      /\ put' = [t \in Topics |-> IF t \in T THEN NoData ELSE put[t]]
      /\ live' = live \ T /\ partiallydirty' = partiallydirty \ T
      /\ rejected' = {r \in rejected : r.topic \notin T}
      /\ UNCHANGED <<observe, sendqueue>>
  BY DEF DeleteTopics
<1>2. TypeOK'
  BY <1>1 DEF IInv, TypeOK, Content
<1>3. DataIsPut'
  BY <1>1 DEF IInv, DataIsPut
<1>4. QueuedResetEnds'
  <2>1. ASSUME NEW r \in rejected', r.queued PROVE ~FindObserver(observers'[r.topic], r.who)
    <3>1. r \in rejected /\ r.topic \in Topics /\ r.topic \notin T
      BY <1>1 DEF IInv, TypeOK
    <3>2. observers'[r.topic] = observers[r.topic]
      BY <1>1, <3>1
    <3> QED
      BY <2>1, <3>1, <3>2 DEF IInv, QueuedResetEnds, Has
  <2> QED
    BY <2>1 DEF QueuedResetEnds, Has
<1>5. \A r \in Topics : Distinct(observers'[r]) /\ (r \notin live' => observers'[r] = <<>>)
  BY <1>1 DEF IInv, ObserversDistinct, Distinct
<1>6. \A r \in Topics : \A i \in DOMAIN observers'[r] :
          SubOK(observers'[r][i], r \in partiallydirty', data'[r], put'[r])
  BY <1>1, SubscriptionsOK DEF IInv, SubOK
<1> QED
  BY <1>2, <1>3, <1>4, <1>5, <1>6, Assemble

LEMMA ResetQueuedOK ==
    ASSUME IInv, NEW m \in sendqueue, ResetQueued(m)
    PROVE  IInv'
<1> DEFINE w == m.who
<1>1. w \in Observers /\ live \subseteq Topics
  BY DEF IInv, TypeOK, Notes
<1>2. observers' = [t \in Topics |->
           IF t \in live THEN DeleteObserver(observers[t], w) ELSE observers[t]]
  BY DEF ResetQueued
<1>3. ASSUME NEW r \in Topics
      PROVE  /\ observers'[r] \in Seq(Subscriptions)
             /\ Distinct(observers'[r]) /\ From(observers[r], observers'[r])
             /\ r \notin live' => observers'[r] = <<>>
             /\ r \in live => ~FindObserver(observers'[r], w)
             /\ \A x \in Observers : FindObserver(observers'[r], x) => FindObserver(observers[r], x)
  <2>1. observers[r] \in Seq(Subscriptions) /\ Distinct(observers[r])
    BY DEF IInv, TypeOK, ObserversDistinct, Distinct
  <2>2. CASE r \in live
    BY <1>1, <1>2, <2>1, <2>2, DeleteObserverOK DEF ResetQueued
  <2>3. CASE r \notin live
    BY <1>2, <2>1, <2>3 DEF From, IInv, ObserversDistinct
  <2> QED
    BY <2>2, <2>3
<1>4. observers' \in [Topics -> Seq(Subscriptions)]
  <2>1. observers' = [r \in Topics |-> observers'[r]]
    BY <1>2
  <2> QED
    BY <1>3, <2>1
<1>5. /\ sendqueue' \subseteq Notes
      /\ rejected' = rejected \cup [topic : live, who : {w}, queued : {TRUE}]
      /\ UNCHANGED <<live, data, partiallydirty, observe, put>>
  BY DEF IInv, TypeOK, ResetQueued
<1>6. TypeOK'
  BY <1>1, <1>4, <1>5 DEF IInv, TypeOK
<1>7. DataIsPut'
  BY <1>5 DEF IInv, DataIsPut
<1>8. QueuedResetEnds'
  <2>1. ASSUME NEW r \in rejected, r.queued PROVE ~FindObserver(observers'[r.topic], r.who)
    <3>1. r.topic \in Topics /\ r.who \in Observers
      BY DEF IInv, TypeOK
    <3> QED
      BY <1>3, <2>1, <3>1 DEF IInv, QueuedResetEnds, Has
  <2>2. ASSUME NEW r \in [topic : live, who : {w}, queued : {TRUE}]
        PROVE  ~FindObserver(observers'[r.topic], r.who)
    BY <1>1, <1>3
  <2> QED
    BY <1>5, <2>1, <2>2 DEF QueuedResetEnds, Has
<1>9. \A r \in Topics : \A i \in DOMAIN observers'[r] :
          SubOK(observers'[r][i], r \in partiallydirty', data'[r], put'[r])
  BY <1>3, <1>5, FromOK, SubscriptionsOK DEF IInv
<1> QED
  BY <1>3, <1>6, <1>7, <1>8, <1>9, Assemble
-------------------------------------------------------------------------------
LEMMA InitOK == Init => IInv
<1> SUFFICES ASSUME Init PROVE IInv
  OBVIOUS
<1>1. TypeOK
  BY ObserveAssumption DEF Init, TypeOK, Content
<1> QED
  BY <1>1 DEF Init, IInv, ObserversDistinct, DirtyFlagged, DataIsPut, Informed, QueuedResetEnds

LEMMA StepOK == IInv /\ [Next]_vars => IInv'
<1> SUFFICES ASSUME IInv, [Next]_vars PROVE IInv'
  OBVIOUS
<1>1. CASE Request
  BY <1>1, PutTopicOK, GetTopicOK, RefusedOK, PostTopicOK DEF Request
<1>2. CASE Answer
  BY <1>2, ResetQueuedOK, AcknowledgeOK, ResetOtherOK, ResponseFromOK DEF Answer
<1>3. CASE \E new \in Topics : PostBroker(new)
  BY <1>3, PostBrokerOK
<1>4. CASE \E T \in SUBSET live : DeleteTopics(T)
  BY <1>4, DeleteTopicsOK
<1>5. CASE \E t \in Topics : DataExpires(t)
  BY <1>5, DataExpiresOK
<1>7. CASE UNCHANGED vars
  BY <1>7 DEF vars, IInv, TypeOK, ObserversDistinct, DirtyFlagged, DataIsPut, Informed,
              QueuedResetEnds, Has
<1> QED
  BY <1>1, <1>2, <1>3, <1>4, <1>5, <1>7 DEF Next

LEMMA Invariance == Spec => []IInv
BY InitOK, StepOK, PTL DEF Spec

(* Every variable keeps its type: the subscribers of a resource stay       *)
(* subscriptions of topics that exist, and non_cnt, which                  *)
(* coap_notify_observers counts, stays in its range.                       *)
THEOREM ObserveTypes == Spec => []TypeOK
BY Invariance, PTL DEF IInv

(* A client is never subscribed twice to a topic, whatever mixture of      *)
(* registrations, refusals, suppressed responses and resets it sends.      *)
THEOREM SubscribedOnce == Spec => []ObserversDistinct
BY Invariance, PTL DEF IInv

(* A notification that coap_notify_observers could not send is flagged     *)
(* (partiallydirty) until a later round sends it.                          *)
THEOREM FailuresFlagged == Spec => []DirtyFlagged
BY Invariance, PTL DEF IInv

(* Observers know what the last PUT stored, or that it has expired, or     *)
(* coap_check_notify still has to retry what failed for them.              *)
THEOREM ObserversInformed == Spec => []Informed
BY Invariance, PTL DEF IInv

(* A reset of a notification that waits for its acknowledgement ends all   *)
(* subscriptions of its sender (coap_cancel).                              *)
THEOREM QueuedResetsEnd == Spec => []QueuedResetEnds
BY Invariance, PTL DEF IInv
-------------------------------------------------------------------------------
(* NumbersIncrease.  What an observer was last told carries a number that  *)
(* ctx->observe has reached, and one that a notification has taken is      *)
(* behind it; a step of a subscription either changes nothing, or answers  *)
(* with ctx->observe, or takes a number from it on.                        *)
Notification(m) == m.kind \in {"NON", "CON"}

Numbered ==
    \A t \in Topics : \A i \in DOMAIN observers[t] :
        LET m == observers[t][i].told
        IN  m.num <= observe /\ (Notification(m) => m.num < observe)

(* m is what the last step told w about r, or what w knew before it.       *)
Heard(r, w, m) ==
    \/ \E k \in DOMAIN observers[r] : observers[r][k].who = w /\ observers[r][k].told = m
    \/ m = Nothing
    \/ m.kind = "response" /\ m.num = observe
    \/ Notification(m) /\ observe <= m.num /\ m.num < observe'

HeardAll(r) ==
    \A i \in DOMAIN observers'[r] : Heard(r, observers'[r][i].who, observers'[r][i].told)

Counting == observe <= observe' /\ \A r \in Topics : HeardAll(r)

LEMMA FromHeard ==
    ASSUME NEW r \in Topics, NEW s, From(observers[r], s)
    PROVE  \A i \in DOMAIN s : Heard(r, s[i].who, s[i].told)
BY DEF From, Heard

LEMMA FromTrans ==
    ASSUME NEW a, NEW b, NEW c, From(a, b), From(b, c)
    PROVE  From(a, c)
BY DEF From

(* A step that only keeps, adds or deletes subscriptions.                  *)
LEMMA SameCounting ==
    ASSUME TypeOK, UNCHANGED observe,
           \A r \in Topics : From(observers[r], observers'[r])
    PROVE  Counting
<1>1. observe <= observe'
  BY ObserveAssumption DEF TypeOK
<1> QED
  BY <1>1, FromHeard DEF Counting, HeardAll

LEMMA OptionFrom ==
    ASSUME IInv, NEW t \in Topics, NEW w \in Observers, NEW opt \in Options,
           NEW S, S = WithOption(t, w, opt)
    PROVE  /\ S \in [Topics -> Seq(Subscriptions)]
           /\ \A r \in Topics : Distinct(S[r]) /\ From(observers[r], S[r])
BY WithOptionOK DEF IInv

LEMMA GetTopicCounting ==
    ASSUME IInv, NEW t \in Topics, NEW w \in Observers, NEW opt \in Options,
           NEW sent \in BOOLEAN, GetTopic(t, w, opt, sent)
    PROVE  Counting
<1> DEFINE S == WithOption(t, w, opt)
           m == [kind |-> "response", num |-> observe, data |-> data[t]]
           Edit(sub) == IF sub.who = w /\ sent THEN [sub EXCEPT !.told = m] ELSE sub
           s2 == [i \in DOMAIN S[t] |-> Edit(S[t][i])]
<1>1. S \in [Topics -> Seq(Subscriptions)] /\ \A r \in Topics : From(observers[r], S[r])
  BY OptionFrom
<1>2. observers' = [S EXCEPT ![t] = s2] /\ observe' = observe
  BY <1>1 DEF GetTopic
<1> HIDE DEF S
<1>3. m.kind = "response" /\ m.num = observe
  OBVIOUS
<1> HIDE DEF m
<1>4. ASSUME NEW sub \in Subscriptions, Heard(t, sub.who, sub.told)
      PROVE  Heard(t, Edit(sub).who, Edit(sub).told)
  <2>1. CASE sub.who = w /\ sent
    <3>1. Edit(sub).told = m
      BY <2>1 DEF Subscriptions
    <3> QED
      BY <1>3, <3>1 DEF Heard
  <2>2. CASE ~(sub.who = w /\ sent)
    BY <1>4, <2>2
  <2> QED
    BY <2>1, <2>2
<1>5. \A i \in DOMAIN S[t] : S[t][i] \in Subscriptions /\ Heard(t, S[t][i].who, S[t][i].told)
  BY <1>1, FromHeard
<1> HIDE DEF Edit
<1>6. HeardAll(t)
  BY <1>1, <1>2, <1>4, <1>5 DEF HeardAll
<1>7. ASSUME NEW r \in Topics, r # t PROVE HeardAll(r)
  <2>1. observers'[r] = S[r]
    BY <1>1, <1>2, <1>7
  <2> QED
    BY <1>1, <2>1, FromHeard DEF HeardAll
<1>8. observe <= observe'
  BY <1>2, ObserveAssumption DEF IInv, TypeOK
<1> QED
  BY <1>6, <1>7, <1>8 DEF Counting

LEMMA RefusedCounting ==
    ASSUME IInv, NEW t \in Topics, NEW w \in Observers, NEW opt \in Options,
           NEW dropped \in BOOLEAN, Refused(t, w, opt, dropped)
    PROVE  Counting
<1> DEFINE S == WithOption(t, w, opt)
           s2 == DeleteObserver(S[t], w)
<1>1. /\ S \in [Topics -> Seq(Subscriptions)]
      /\ \A r \in Topics : Distinct(S[r]) /\ From(observers[r], S[r])
  BY OptionFrom
<1>2. /\ observers' = IF opt = "none" \/ dropped THEN S ELSE [S EXCEPT ![t] = s2]
      /\ observe' = observe
  BY DEF Refused
<1> HIDE DEF S
<1>3. From(observers[t], s2)
  BY <1>1, DeleteObserverOK, FromTrans
<1> HIDE DEF s2
<1>4. ASSUME NEW r \in Topics PROVE From(observers[r], observers'[r])
  BY <1>1, <1>2, <1>3
<1> QED
  BY <1>2, <1>4, SameCounting DEF IInv

LEMMA PutTopicCounting ==
    ASSUME IInv, NEW t \in Topics, NEW w \in Observers, NEW opt \in Options,
           NEW v \in Payloads, PutTopic(t, w, opt, v)
    PROVE  Counting
<1> DEFINE S    == WithOption(t, w, opt)
           due  == partiallydirty \cup {t}
           whos == {x \in Observers : \E r \in due : FindObserver(S[r], x)}
<1>1. S \in [Topics -> Seq(Subscriptions)] /\ \A r \in Topics : From(observers[r], S[r])
  BY OptionFrom
<1>2. /\ observe + Cardinality(due) <= MaxObserve
      /\ observe' = observe + Cardinality(due)
  BY DEF PutTopic, CheckNotify, Advance
<1>3. PICK num \in [due -> observe .. observe + Cardinality(due) - 1],
           out \in [due -> [whos -> Outcomes]] :
        observers' = [r \in Topics |->
               IF r \in due
               THEN Notified(S[r], r = t, out[r], num[r], data'[r])
               ELSE S[r]]
  BY DEF PutTopic, CheckNotify
<1>4. due \in SUBSET Topics
  BY DEF IInv, TypeOK
<1>5. /\ observe \in Nat /\ observe' \in Nat /\ observe <= observe'
      /\ observe .. observe + Cardinality(due) - 1 = observe .. observe' - 1
  <2>1. Cardinality(due) \in Nat
    BY <1>4, ObserveAssumption, FS_Subset, FS_CardinalityType
  <2>2. observe \in Nat
    BY ObserveAssumption DEF IInv, TypeOK
  <2> QED
    BY <1>2, <2>1, <2>2
<1>6. \A r \in due : num[r] \in observe .. observe' - 1
  BY <1>5
<1> HIDE DEF S, due, whos
<1>7. ASSUME NEW r \in Topics, NEW i \in DOMAIN observers'[r]
      PROVE  Heard(r, observers'[r][i].who, observers'[r][i].told)
  <2>1. CASE r \notin due
    BY <1>1, <1>3, <2>1, FromHeard
  <2>2. CASE r \in due
    <3> DEFINE d == r = t
               o == out[r]
               c == data'[r]
               k == num[r]
               s == S[r]
    <3>1. observers'[r] = Notified(s, d, o, k, c)
      BY <1>3, <2>2
    <3>2. s \in Seq(Subscriptions) /\ From(observers[r], s)
      BY <1>1
    <3>3. k \in Int /\ observe <= k /\ k < observe'
      BY <1>5, <1>6, <2>2
    <3> HIDE DEF d, o, c, k, s
    <3>4. i \in DOMAIN s /\ s[i] \in Subscriptions
      BY <3>1, <3>2 DEF Notified
    <3>5. Heard(r, s[i].who, s[i].told)
      BY <3>2, <3>4, FromHeard
    <3>6. CASE ~IsDue(s, i, d)
      BY <3>1, <3>4, <3>5, <3>6 DEF Notified
    <3>7. CASE IsDue(s, i, d)
      <4>1. observers'[r][i] = Attempted(s[i], o[s[i].who], k, c)
        BY <3>1, <3>4, <3>7 DEF Notified
      <4>2. /\ observers'[r][i].who = s[i].who
            /\ observers'[r][i].told = Told(s[i], o[s[i].who], k, c)
        BY <3>4, <4>1 DEF Attempted, Subscriptions
      <4>3. CASE o[s[i].who] = "sent"
        <5>1. Told(s[i], o[s[i].who], k, c) =
                [kind |-> NotificationType(s[i]), num |-> k, data |-> c]
          BY <4>3 DEF Told
        <5>2. Notification(observers'[r][i].told) /\ observers'[r][i].told.num = k
          BY <4>2, <5>1 DEF Notification, NotificationType
        <5> QED
          BY <3>3, <5>2 DEF Heard
      <4>4. CASE o[s[i].who] # "sent"
        BY <3>5, <4>2, <4>4 DEF Told
      <4> QED
        BY <4>3, <4>4
    <3> QED
      BY <3>6, <3>7
  <2> QED
    BY <2>1, <2>2
<1> QED
  BY <1>5, <1>7 DEF Counting, HeardAll

LEMMA DeletingCounting ==
    ASSUME IInv, \/ \E T \in SUBSET live : DeleteTopics(T)
                 \/ \E m \in sendqueue : ResetQueued(m)
    PROVE  Counting
<1>1. CASE \E T \in SUBSET live : DeleteTopics(T)
  <2>1. PICK T \in SUBSET live : DeleteTopics(T)
    BY <1>1
  <2>2. \A r \in Topics : From(observers[r], observers'[r])
    BY <2>1 DEF DeleteTopics, From
  <2> QED
    BY <2>1, <2>2, SameCounting DEF DeleteTopics, IInv
<1>2. CASE \E m \in sendqueue : ResetQueued(m)
  <2>1. PICK m \in sendqueue : ResetQueued(m)
    BY <1>2
  <2>2. m.who \in Observers
    BY DEF IInv, TypeOK, Notes
  <2>3. ASSUME NEW r \in Topics PROVE From(observers[r], observers'[r])
    <3>1. From(observers[r], observers[r])
      BY DEF From
    <3>2. From(observers[r], DeleteObserver(observers[r], m.who))
      BY <2>2, DeleteObserverOK DEF IInv, TypeOK, ObserversDistinct, Distinct
    <3> QED
      BY <2>1, <3>1, <3>2 DEF ResetQueued
  <2> QED
    BY <2>1, <2>3, SameCounting DEF ResetQueued, IInv
<1> QED
  BY <1>1, <1>2

LEMMA StepCounting == IInv /\ [Next]_vars => Counting
<1> SUFFICES ASSUME IInv, [Next]_vars PROVE Counting
  OBVIOUS
<1>1. CASE Request
  <2>1. ASSUME NEW t \in Topics, NEW w \in Observers, NEW opt \in Options,
               NEW new \in Topics, PostTopic(t, w, opt, new)
        PROVE  Counting
    BY <2>1, OptionFrom, SameCounting DEF PostTopic, IInv
  <2> QED
    BY <1>1, <2>1, PutTopicCounting, GetTopicCounting, RefusedCounting DEF Request
<1>2. CASE (\E T \in SUBSET live : DeleteTopics(T)) \/ \E m \in sendqueue : ResetQueued(m)
  BY <1>2, DeletingCounting
<1>3. CASE UNCHANGED <<observers, observe>>
  <2>1. \A r \in Topics : From(observers[r], observers'[r])
    BY <1>3 DEF From
  <2> QED
    BY <1>3, <2>1, SameCounting DEF IInv
<1>4. CASE Answer
  BY <1>2, <1>3, <1>4 DEF Answer, Acknowledge, ResetOther, ResponseFrom
<1>5. CASE \/ \E new \in Topics : PostBroker(new)
           \/ \E t \in Topics : DataExpires(t)
           \/ UNCHANGED vars
  BY <1>3, <1>5 DEF PostBroker, DataExpires, vars
<1> QED
  BY <1>1, <1>2, <1>4, <1>5 DEF Next

LEMMA CountingNumbers ==
    ASSUME TypeOK, TypeOK', Numbered, Counting
    PROVE  Numbered'
<1>1. observe \in Nat /\ observe' \in Nat
  BY ObserveAssumption DEF TypeOK
<1>2. ASSUME NEW r \in Topics, NEW i \in DOMAIN observers'[r]
      PROVE  LET m == observers'[r][i].told
             IN  m.num <= observe' /\ (Notification(m) => m.num < observe')
  <2> DEFINE m == observers'[r][i].told
  <2>1. Heard(r, observers'[r][i].who, m) /\ observe <= observe'
    BY DEF Counting, HeardAll
  <2>2. m \in Messages
    <3>1. observers'[r][i] \in Subscriptions
      BY DEF TypeOK
    <3> QED
      BY <3>1 DEF Subscriptions
  <2>3. m.num \in Nat
    BY <2>2 DEF Messages
  <2>4. CASE \E k \in DOMAIN observers[r] : observers[r][k].told = m
    BY <1>1, <2>1, <2>3, <2>4 DEF Numbered
  <2>5. CASE m = Nothing
    BY <1>1, <2>5 DEF Nothing, Notification
  <2>6. CASE m.kind = "response" /\ m.num = observe
    BY <1>1, <2>1, <2>6 DEF Notification
  <2>7. CASE Notification(m) /\ observe <= m.num /\ m.num < observe'
    BY <1>1, <2>3, <2>7
  <2> QED
    BY <2>1, <2>4, <2>5, <2>6, <2>7 DEF Heard
<1> QED
  BY <1>2 DEF Numbered

(* The body of NumbersIncrease.                                            *)
Increase ==
    \A t \in Topics : \A i \in 1 .. Len(observers[t]), j \in 1 .. Len(observers'[t]) :
        ToldChange(t, i, j) =>
            IF observers[t][i].told.kind \in {"NON", "CON"}
            THEN observers'[t][j].told.num > observers[t][i].told.num
            ELSE observers'[t][j].told.num >= observers[t][i].told.num

LEMMA CountingIncreases ==
    ASSUME TypeOK, TypeOK', ObserversDistinct, Numbered, Counting
    PROVE  Increase
<1> SUFFICES ASSUME NEW t \in Topics, NEW i \in DOMAIN observers[t],
                    NEW j \in DOMAIN observers'[t], ToldChange(t, i, j)
             PROVE  IF observers[t][i].told.kind \in {"NON", "CON"}
                    THEN observers'[t][j].told.num > observers[t][i].told.num
                    ELSE observers'[t][j].told.num >= observers[t][i].told.num
  BY DEF Increase, ToldChange
<1> DEFINE a == observers[t][i].told
           m == observers'[t][j].told
<1>1. /\ observe \in Nat /\ observe' \in Nat
      /\ observers[t][i] \in Subscriptions /\ observers'[t][j] \in Subscriptions
  BY ObserveAssumption DEF TypeOK
<1>2. a.num \in Nat /\ m.num \in Nat
  BY <1>1 DEF Subscriptions, Messages
<1>3. a.num <= observe /\ (a.kind \in {"NON", "CON"} => a.num < observe)
  BY DEF Numbered, Notification
<1>4. Heard(t, observers'[t][j].who, m)
  BY DEF Counting, HeardAll
<1>5. a # m /\ m.kind \in {"NON", "CON"} /\ observers[t][i].who = observers'[t][j].who
  BY DEF ToldChange
<1>6. observe <= m.num
  <2>1. CASE \E k \in DOMAIN observers[t] : /\ observers[t][k].who = observers'[t][j].who
                                            /\ observers[t][k].told = m
    BY <1>5, <2>1 DEF ObserversDistinct
  <2>2. CASE m = Nothing \/ m.kind = "response"
    BY <1>5, <2>2 DEF Nothing
  <2> QED
    BY <1>4, <2>1, <2>2 DEF Heard
<1> QED
  BY <1>1, <1>2, <1>3, <1>6

(* Of two notifications about a topic the later has the greater number,    *)
(* though coap_check_notify counts in one context->observe for all.        *)
THEOREM NumbersGrow == Spec => NumbersIncrease
<1>1. Init => Numbered
  BY DEF Init, Numbered
<1>2. IInv /\ IInv' /\ Numbered /\ [Next]_vars => Numbered'
  BY StepCounting, CountingNumbers DEF IInv
<1>3. Spec => []Numbered
  BY <1>1, <1>2, Invariance, PTL DEF Spec
<1>4. IInv /\ IInv' /\ Numbered /\ [Next]_vars => [Increase]_vars
  BY StepCounting, CountingIncreases DEF IInv
<1>5. Spec => [][Increase]_vars
  BY <1>3, <1>4, Invariance, PTL DEF Spec
<1> QED
  BY <1>5 DEF NumbersIncrease, Increase
==============================================================================
