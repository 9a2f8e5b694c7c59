--------------------------- MODULE MCEventBuffer ---------------------------
(* Instances of EventBuffer for TLC: where each task is started.             *)
EXTENDS EventBuffer, TLC

CONSTANTS t1, t2

MCTasks == {t1, t2}
MCHomeOf == (t1 :> "ws") @@ (t2 :> "api")
MCMaxEvents == (t1 :> 5) @@ (t2 :> 0)
=============================================================================
