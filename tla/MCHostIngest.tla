----------------------------- MODULE MCHostIngest -----------------------------
(* Instances of HostIngest for model checking: the IPC loop gets messages   *)
(* for the local sessions, the relay supervisor for the remote ones.        *)
EXTENDS HostIngest

CONSTANTS Local, Remote, Asked, Kinds, Rooted, Raised

Msg(kind, k, status, raised, root) ==
    [kind |-> kind, key |-> k, status |-> status, label |-> NoLabel,
     attention |-> raised, root |-> root]

MCMessages == [
    ipc |-> {Msg("upsert", k, s, a, r) : k \in Local, s \in Asked, a \in Raised, r \in Rooted}
            \cup {Msg(kind, k, "Running", "None", FALSE) : kind \in Kinds, k \in Local},
    relay |-> {Msg("relay", k, "Running", a, FALSE) : k \in Remote, a \in Raised},
    maintenance |-> {Msg("maintain", k, "Running", "None", FALSE) : k \in Local}]

(* The dashboard acknowledges the attention of a session.                   *)
MCCommands ==
    {[op |-> "AcknowledgeAttention", key |-> k, status |-> "Running", label |-> NoLabel,
      attention |-> "None", keyed |-> FALSE] : k \in Keys}
===============================================================================
