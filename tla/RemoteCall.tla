----------------------------- MODULE RemoteCall -----------------------------
(***************************************************************************)
(* What the dispatch of a message to the other process promises: the task  *)
(* runs only if it was asked for, it has one outcome, and the caller       *)
(* learns that outcome or learns nothing ("unknown": a timeout, a lost     *)
(* message or a restart), never another one.                               *)
(***************************************************************************)
CONSTANT Calls

VARIABLES call, outcome

vars == <<call, outcome>>

Outcomes == {"resolved", "rejected"}
Init ==
  /\ call = [c \in Calls |-> "idle"]
  /\ outcome = [c \in Calls |-> "none"]

Ask(c)   == call[c] = "idle" /\ call'[c] = "waiting"
Learn(c) == call[c] = "waiting" /\ outcome[c] # "none" /\ call'[c] = outcome[c]
Lose(c)  == call[c] \in {"idle", "waiting"} /\ call'[c] = "unknown"
Run(c)   == call[c] # "idle" /\ outcome[c] = "none" /\ outcome'[c] \in Outcomes

\* Several callers may lose their calls in one step (a restart).
Next ==
  /\ call' \in [Calls -> {"idle", "waiting", "unknown"} \cup Outcomes]
  /\ outcome' \in [Calls -> {"none"} \cup Outcomes]
  /\ \A c \in Calls : call'[c] = call[c] \/ Ask(c) \/ Learn(c) \/ Lose(c)
  /\ \A c \in Calls : outcome'[c] = outcome[c] \/ Run(c)

Spec == Init /\ [][Next]_vars

=============================================================================
