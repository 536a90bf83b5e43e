------------------------ MODULE MCResourceDirectory ------------------------
(* An instance of ResourceDirectory for TLC: queries that name a node with *)
(* and without an instance, two that name the same location in different   *)
(* ways, one without a node, one with a flag before the instance.          *)
EXTENDS ResourceDirectory

Param(key, value) == [key |-> key, set |-> TRUE, value |-> value]
Flag(key) == [key |-> key, set |-> FALSE, value |-> <<>>]

MCQueries ==
    {<<>>,
     <<Param("h", <<"a", "-", "b">>)>>,
     <<Param("ins", <<"b">>), Param("h", <<"a">>)>>,
     <<Param("rt", <<"c">>), Param("ins", <<"b">>)>>,
     <<Flag("h"), Param("ins", <<"b">>)>>}
==============================================================================
