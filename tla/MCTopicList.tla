----------------------------- MODULE MCTopicList -----------------------------
(* Instances of TopicList for TLC.                                         *)
EXTENDS TopicList, TLC

(* No step compares addresses or topics except for equality: the order of  *)
(* the list is that of its links.                                          *)
ListSymmetry == Permutations(Cells) \cup Permutations(Topics) \cup Permutations(Payloads)
==============================================================================
