----------------------------- MODULE MCInputImages ----------------------------
(* Instances of InputImages for TLC; the bounds are in the cfg files. *)
EXTENDS InputImages

CONSTANTS s1, s2   \* two chats

Photo(s) == [kind |-> "photo", scope |-> s]
Text(s) == [kind |-> "text", scope |-> s]

\* More photos than a message may carry, photos before a text, two chats.
MCSendings ==
  { <<Photo(s1), Photo(s1), Photo(s1)>>,
    <<Photo(s1), Photo(s1), Text(s1)>>,
    <<Photo(s1), Photo(s2), Text(s1)>> }
================================================================================
