-------------------------- MODULE MCChatPipeline ---------------------------
(* Instances of ChatPipeline for TLC: which session each message belongs to. *)
EXTENDS ChatPipeline, TLC

CONSTANTS m1, m2, s1

MCMsgs == {m1, m2}
MCSessions == {s1}
MCSessionOf == [m \in MCMsgs |-> s1]
=============================================================================
