------------------------------ MODULE MCDecision ------------------------------
(* Hooks that ask, alone, at the same time, or twice.                      *)
EXTENDS DecisionHost, TLC

CONSTANTS r1, r2, n1, n2

Ask(nonce, connection, hookName, object) ==
    [nonce |-> nonce, connection |-> connection, actionable |-> TRUE,
     source |-> "claudeCode", hook |-> hookName, versionKnown |-> TRUE,
     inputIsObject |-> object]

(* A request of an agent version whose answers are not verified.           *)
Observed(nonce, connection) ==
    [Ask(nonce, connection, "permissionRequest", TRUE) EXCEPT
        !.actionable = FALSE, !.versionKnown = FALSE]

(* A permission request, and a plan approval sent without its tool input.  *)
OneAsk == r1 :> Ask(n1, "a", "permissionRequest", TRUE)
OnePlan == r1 :> Ask(n1, "a", "exitPlanMode", FALSE)

(* One nonce sent twice by the same agent, once as a plan approval and once *)
(* as a request that cannot be answered.                                   *)
SameNonce == r1 :> Ask(n1, "a", "exitPlanMode", FALSE) @@ r2 :> Observed(n1, "a")
=============================================================================
