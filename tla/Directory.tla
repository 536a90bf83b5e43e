------------------------------ MODULE Directory ------------------------------
(***************************************************************************)
(* What the resource directory promises its clients: every registration    *)
(* has a location; several registrations may have the same one, and then   *)
(* the one that is read is the one that is deleted.  It is the newest as   *)
(* long as the directory has fewer than Capacity registrations; then a     *)
(* registration may turn the order of all others round.  A registration    *)
(* whose description could not be kept is the last of its location.        *)
(***************************************************************************)
EXTENDS Naturals, Sequences

CONSTANTS Locations, Descriptions, Nothing, Capacity

VARIABLES
    registered, \* registered[l]: the descriptions at l, the next first
    answer      \* what the last step told a client

vars == <<registered, answer>>

Answer(kind, l, d) == [kind |-> kind, location |-> l, description |-> d]

Init ==
    /\ registered = [l \in Locations |-> <<>>]
    /\ answer = Answer("none", <<>>, Nothing)

(* There are Capacity registrations or more.                               *)
Crowded(rows) ==
    \E f \in [1 .. Capacity -> UNION {{l} \X DOMAIN rows[l] : l \in Locations}] :
        \A i, j \in 1 .. Capacity : f[i] = f[j] => i = j

(* The descriptions of a row that were kept, say k, turned round.          *)
Turned(row) ==
    {[i \in DOMAIN row |-> IF i <= k THEN row[k + 1 - i] ELSE Nothing] :
        k \in {n \in 0 .. Len(row) : \A i \in n + 1 .. Len(row) : row[i] = Nothing}}

Register(l, d) ==
    LET rows == [registered EXCEPT ![l] = <<d>> \o @]
    IN  /\ answer' = Answer("created", l, Nothing)
        /\ \/ registered' = rows
           \/ registered' = [registered EXCEPT ![l] = @ \o <<Nothing>>]
           \/ /\ Crowded(rows)
              /\ registered' = [p \in Locations |-> registered'[p]]
              /\ \A p \in Locations : registered'[p] \in Turned(rows[p])

Read(l) ==
    /\ registered[l] # <<>>
    /\ answer' = Answer("description", l, Head(registered[l]))
    /\ UNCHANGED registered

Remove(l) ==
    /\ registered[l] # <<>>
    /\ answer' = Answer("deleted", l, Nothing)
    /\ registered' = [registered EXCEPT ![l] = Tail(@)]

Missing(l) ==
    /\ registered[l] = <<>>
    /\ answer' = Answer("missing", l, Nothing)
    /\ UNCHANGED registered

Refuse ==
    /\ answer' = Answer("none", <<>>, Nothing)
    /\ UNCHANGED registered

Close ==
    /\ registered' = [l \in Locations |-> <<>>]
    /\ UNCHANGED answer

Next ==
    \/ \E l \in Locations :
          \/ \E d \in Descriptions : Register(l, d)
          \/ Read(l) \/ Remove(l) \/ Missing(l)
    \/ Refuse \/ Close

Spec == Init /\ [][Next]_vars
==============================================================================
