----------------------------- MODULE MCSessionCore -----------------------------
(* Instances of SessionCore for model checking.                             *)
EXTENDS SessionCore, TLC

CONSTANTS
    Starts, Updates, Ends,  \* the statuses that the commands ask for
    Raised,                 \* the attentions they report
    Keyed,                  \* whether a start has an idempotency key
    Others                  \* the commands without such a choice

FirstLabel == CHOOSE l \in Labels : TRUE
Cmd(op, k, status, label, raised, keyed) ==
    [op |-> op, key |-> k, status |-> status, label |-> label, attention |-> raised, keyed |-> keyed]

MCCommands ==
    {Cmd("SessionStart", k, s, FirstLabel, "None", b) : k \in Keys, s \in Starts, b \in Keyed}
    \cup {Cmd("SessionUpdate", k, s, l, "None", FALSE) : k \in Keys, s \in Updates, l \in Labels}
    \cup {Cmd("SessionEnd", k, s, FirstLabel, "None", FALSE) : k \in Keys, s \in Ends}
    \cup {Cmd("Attention", k, "Running", FirstLabel, a, FALSE) : k \in Keys, a \in Raised}
    \cup {Cmd("SetVerifiedTerminal", k, "Running", l, "None", FALSE) :
              k \in Keys, l \in Labels \ {FirstLabel}}
    \cup {Cmd(op, k, "Running", FirstLabel, "None", FALSE) : op \in Others, k \in Keys}

KeySymmetry == Permutations(Keys)
===============================================================================
