------------------------------ MODULE LinkFormat ------------------------------
(***************************************************************************)
(* The link that a POST describes a new topic with, as LinkFormatParser.c  *)
(* takes it apart: a sequence of chunks with semicolons in between.  The   *)
(* resource that a POST addresses is the parent of the new topic.          *)
(***************************************************************************)
EXTENDS Integers, Sequences

CONSTANTS
    Cts,        \* values of a topic's ct attribute (0 .. 65535 in the code)
    NoCt,       \* no Content-Format option, no ct attribute
    BadCt       \* the value of a ct attribute that is no such number

ASSUME LinkFormatAssumption == NoCt \notin Cts /\ BadCt \notin Cts /\ NoCt # BadCt

(* A path in angle brackets, the attribute ct, another attribute with a    *)
(* value, what parsePath and parseOption refuse, or a chunk with a comma.  *)
Chunks == [kind : {"path", "ct", "attribute", "malformed", "comma"},
           path : Seq(STRING), ct : Cts \cup {NoCt, BadCt}]

(* new_resource after parseLinkFormat: NULL, freed after it was made, or   *)
(* made.  The path comes first and needs at least one attribute.           *)
ParseLinkFormat(link) ==
    IF \/ \E i \in DOMAIN link : link[i].kind = "comma"
       \/ Len(link) < 2
       \/ link[1].kind # "path"
    THEN "null"
    ELSE IF \E i \in 2 .. Len(link) : link[i].kind \notin {"ct", "attribute"} THEN "freed"
    ELSE "made"

(* coap_find_attr: attributes are prepended, so the last ct comes first.   *)
CtAttribute(link) ==
    LET cts == {i \in DOMAIN link : link[i].kind = "ct"}
    IN  IF cts = {} THEN NoCt
        ELSE link[CHOOSE i \in cts : \A j \in cts : j <= i].ct

(* The link describes the topic new, whose path is relative to r.          *)
Describes(link, r, new, ct) ==
    /\ ParseLinkFormat(link) = "made"
    /\ r \o link[1].path = new
    /\ CtAttribute(link) = ct
==============================================================================
