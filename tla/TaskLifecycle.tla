--------------------------- MODULE TaskLifecycle ---------------------------
(***************************************************************************)
(* What sendTask promises its caller about one task, whatever happens to   *)
(* the worker: it is waiting, or with a worker, or waiting for the next    *)
(* worker; it reaches a worker at most MaxAttempts times; once resolved or *)
(* rejected it stays so and reaches no worker again; and it is resolved    *)
(* only by the worker that has it.  Several tasks may move in one step (an *)
(* exit or a restart takes the worker from all of them).                   *)
(***************************************************************************)
EXTENDS Naturals

CONSTANTS Tasks, MaxAttempts

VARIABLES phase, attempts

vars == <<phase, attempts>>

Phases == {"unsent", "waiting", "running", "retrying", "answered", "resolved", "rejected"}

\* "answered": the result has arrived, the promise is resolved a moment later.
Edges ==
  {"unsent"} \X {"waiting", "running", "rejected"} \cup
  {"waiting"} \X {"running", "rejected"} \cup
  {"running"} \X {"answered", "resolved", "rejected", "retrying"} \cup
  {"retrying"} \X {"running", "rejected"} \cup
  {<<"answered", "resolved">>}

Init ==
  /\ phase = [t \in Tasks |-> "unsent"]
  /\ attempts = [t \in Tasks |-> 0]

Starts(t) == phase[t] # "running" /\ phase'[t] = "running"

Move ==
  /\ \A t \in Tasks : phase'[t] = phase[t] \/ <<phase[t], phase'[t]>> \in Edges
  /\ \A t \in Tasks : Starts(t) => attempts[t] < MaxAttempts
  /\ attempts' = [t \in Tasks |-> IF Starts(t) THEN attempts[t] + 1 ELSE attempts[t]]

Next == phase' \in [Tasks -> Phases] /\ Move

Spec == Init /\ [][Next]_vars

=============================================================================
