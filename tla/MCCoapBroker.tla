---------------------------- MODULE MCCoapBroker ----------------------------
(* Instances of CoapBroker for TLC.                                        *)
EXTENDS CoapBroker

A  == <<"ps", "a">>
AB == <<"ps", "a", "b">>

MCPsEnding == {"ps"}

MCOneTopic  == {A}
MCTwoTopics == {A, AB}

(* Links that describe the topics, the subtopic from ps and from its       *)
(* parent, and one for each way to be refused; "a" has its ct twice.       *)
Path(p)   == [kind |-> "path", path |-> p, ct |-> NoCt]
Ct(ct)    == [kind |-> "ct", path |-> <<>>, ct |-> ct]
Other(k)  == [kind |-> k, path |-> <<>>, ct |-> NoCt]

MCLinks ==
    {<<Path(<<"a">>), Ct(BadCt), Ct(0)>>, <<Path(<<"a", "b">>), Ct(0)>>,
     <<Path(<<"b">>), Other("attribute"), Ct(0)>>,
     <<Path(<<"a">>)>>, <<Path(<<"a">>), Other("attribute")>>,
     <<Path(<<"a">>), Ct(0), Ct(BadCt)>>, <<Path(<<"a">>), Ct(0), Other("malformed")>>,
     <<Path(<<"a">>), Other("comma")>>, <<Ct(0), Path(<<"a">>)>>}

(* Distinct URIs have distinct keys.                                       *)
MCDistinctKeys == [p \in Paths |-> p]
==============================================================================
