---------------------------- MODULE MCCppBroker ----------------------------
(* An instance of CppBroker for TLC: a topic and its subtopic.             *)
EXTENDS CppBroker

MCTopics   == {<<"ps", "a">>, <<"ps", "a", "b">>}
MCPsEnding == {"ps"}
==============================================================================
