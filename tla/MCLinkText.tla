------------------------------ MODULE MCLinkText ------------------------------
(* Instances of LinkText for TLC.                                          *)
EXTENDS LinkText

MCCts == 0 .. CtMax
MCParent == <<"p", "s">>

(* Nothing, the path, one attribute after a path, and two.                  *)
MCAlphabet == {"c", "t", "1", "9", "/", "<", ">", ";", "=", "q", ","}
MCPath == <<"<", "c", ">", ";">>
MCFrames == {[head |-> <<>>, end |-> <<>>],
             [head |-> <<"<">>, end |-> <<";", "c", "=", "t">>],
             [head |-> MCPath, end |-> <<>>],
             [head |-> MCPath \o <<"c", "t">>, end |-> <<>>],
             [head |-> MCPath \o <<"c", "t", "=", "9", ";", "c">>, end |-> <<>>]}
===============================================================================
