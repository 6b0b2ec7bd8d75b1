--------------------------- MODULE DecisionLifecycle ---------------------------
(***************************************************************************)
(* What the decision path promises, without its threads, timers and locks: *)
(* a decision is pending, then perhaps chosen, and ends in one way; the    *)
(* hook that asked prints once, and prints the choice only while the       *)
(* decision stands as chosen or delivered.  An expired or failed decision  *)
(* is one whose hook printed {} or nothing.                                *)
(***************************************************************************)
CONSTANTS Decisions, Answers, Empty

VARIABLES
    phase,      \* "none", or the state of the decision
    answer,     \* the accepted answer, or "none"
    output      \* what the hook printed, or "none"

lifecycleVars == <<phase, answer, output>>

Move(d, from, to) == phase[d] \in from /\ phase' = [phase EXCEPT ![d] = to]

PrintedChoice(d) == output[d] \in Answers

Register(d) == Move(d, {"none"}, "Pending") /\ UNCHANGED <<answer, output>>

Choose(d, a) ==
    /\ Move(d, {"Pending"}, "Chosen") /\ answer' = [answer EXCEPT ![d] = a]
    /\ UNCHANGED output

Deliver(d) == Move(d, {"Chosen"}, "Delivered") /\ UNCHANGED <<answer, output>>

Observe(d) == Move(d, {"Delivered"}, "EffectObserved") /\ UNCHANGED <<answer, output>>

GiveUp(d) ==
    /\ \E end \in {"Expired", "Failed"} : Move(d, {"Pending", "Chosen"}, end)
    /\ ~PrintedChoice(d) /\ UNCHANGED <<answer, output>>

PrintNeutral(d) ==
    /\ output[d] = "none" /\ output' = [output EXCEPT ![d] = Empty]
    /\ UNCHANGED <<phase, answer>>

PrintChoice(d) ==
    /\ output[d] = "none" /\ phase[d] \in {"Chosen", "Delivered", "EffectObserved"}
    /\ output' = [output EXCEPT ![d] = answer[d]]
    /\ UNCHANGED <<phase, answer>>

LifecycleInit ==
    /\ phase = [d \in Decisions |-> "none"]
    /\ answer = [d \in Decisions |-> "none"]
    /\ output = [d \in Decisions |-> "none"]

LifecycleNext ==
    \E d \in Decisions :
        \/ Register(d) \/ Deliver(d) \/ Observe(d) \/ GiveUp(d)
        \/ PrintNeutral(d) \/ PrintChoice(d)
        \/ \E a \in Answers : Choose(d, a)

LifecycleSpec == LifecycleInit /\ [][LifecycleNext]_lifecycleVars

=============================================================================
