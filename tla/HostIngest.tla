------------------------------ MODULE HostIngest ------------------------------
(***************************************************************************)
(* What the desktop host does with a message for the session core: it      *)
(* looks the session up in a snapshot, derives the core commands from what *)
(* it found there, and sends them one by one.  The core's lock is free     *)
(* between two of them, so the other workers and the maintenance thread    *)
(* run in between.  An error ends the message; what was done stays done.   *)
(***************************************************************************)
EXTENDS SessionCore, Sequences
LOCAL INSTANCE SequencesExt

CONSTANTS
    Workers,    \* the IPC loop, the relay supervisor, "maintenance"
    Messages,   \* worker -> the messages it may get
    MaxJobs     \* bound on the messages handled

VARIABLES
    job,        \* worker -> the message in hand and the commands still to send
    jobs,       \* how many messages were taken
    reply       \* the answer to the last message

hostVars == <<job, jobs, reply>>
allVars == <<vars, hostVars>>

Cmd(op, m, status, label) ==
    [op |-> op, key |-> m.key, status |-> status, label |-> label,
     attention |-> m.attention, keyed |-> m.kind = "relay"]
Only(condition, cmd) == IF condition THEN <<cmd>> ELSE << >>

(***************************************************************************)
(* The commands of a message, from the status found in the snapshot        *)
(***************************************************************************)
StartStatus(status) == IF status \in {"Starting", "Running", "Failed"} THEN status ELSE "Running"
Ended == {"Completed", "Failed"}

(* Mutant: a new session does not get the status it cannot start with.     *)
StatusCommands_start_only(m, found) ==
    IF found = "Absent" THEN <<Cmd("SessionStart", m, StartStatus(m.status), m.label)>>
    ELSE IF m.status \notin Ended THEN <<Cmd("SessionUpdate", m, m.status, m.label)>>
    ELSE Only(found \notin Ended, Cmd("SessionEnd", m, m.status, NoLabel))

StatusCommands(m, found) ==
    IF found = "Absent"
    THEN <<Cmd("SessionStart", m, StartStatus(m.status), m.label)>>
         \o Only(m.status \in Ended, Cmd("SessionEnd", m, m.status, NoLabel))
         \o Only(m.status \in {"Waiting", "Paused", "Stale"},
                 Cmd("SessionUpdate", m, m.status, NoLabel))
    ELSE IF m.status \notin Ended
    THEN <<Cmd("SessionUpdate", m, m.status, m.label)>>
    ELSE IF found \in Ended THEN << >>
    ELSE Only(found = "Starting", Cmd("SessionUpdate", m, "Running", NoLabel))
         \o <<Cmd("SessionEnd", m, m.status, NoLabel)>>

ingest_session_upsert(m, found) ==
    StatusCommands(m, found)
    \o Only(m.root /\ ~is_terminal(m.status), Cmd("RegisterProcessRoot", m, m.status, NoLabel))
    \o Only(m.attention # "None", Cmd("Attention", m, m.status, NoLabel))
    \o Only(m.label # NoLabel, Cmd("SetVerifiedTerminal", m, m.status, m.label))

SessionEvent(m) ==
    Cmd(IF m.attention = "None" THEN "LifecycleEvent" ELSE "Attention", m, m.status, NoLabel)

ingest_relay_session_event(m, found) ==
    Only(found = "Absent", Cmd("SessionStart", m, "Running", m.label)) \o <<SessionEvent(m)>>

ingest_normalized(m, found) ==
    CASE m.kind = "upsert" -> ingest_session_upsert(m, found)
      [] m.kind = "relay" -> ingest_relay_session_event(m, found)
      [] m.kind = "event" -> <<SessionEvent(m)>>
      [] m.kind = "remove" -> <<Cmd("RemoveSession", m, m.status, NoLabel)>>
      [] m.kind = "maintain" -> << >>

(***************************************************************************)
(* The workers                                                             *)
(***************************************************************************)
NoMessage == [kind |-> "none"]
Idle == [msg |-> NoMessage, at |-> 0, plan |-> << >>, reconciled |-> FALSE]
Answers(m, outcome) ==
    reply' = [kind |-> m.kind, key |-> m.key, status |-> m.status, outcome |-> outcome]
NoReply == [kind |-> "none", key |-> "none", status |-> "none", outcome |-> "none"]

(* A process root that no live process matches is refused here; so is a    *)
(* message that needs a session and finds none.                            *)
Take(w) ==
    /\ job[w] = Idle /\ jobs < MaxJobs /\ jobs' = jobs + 1
    /\ \E m \in Messages[w] :
          LET found == sessions[m.key].status
              needed == m.kind \in {"event", "remove"}
          IN \/ /\ needed => found # "Absent"
                /\ job' = [job EXCEPT ![w] = [msg |-> m, at |-> clock, reconciled |-> FALSE,
                                              plan |-> ingest_normalized(m, found)]]
                /\ reply' = NoReply
             \/ /\ \/ m.root /\ ~is_terminal(m.status)
                   \/ needed /\ found = "Absent"
                /\ Answers(m, "error") /\ UNCHANGED job
    /\ UNCHANGED vars

(* The next command; its error is the message's.                           *)
Send(w) ==
    /\ job[w].plan # << >>
    /\ handle_ingest(Head(job[w].plan), job[w].at) /\ UNCHANGED <<purging, clock, jobs>>
    /\ \/ /\ result'.outcome = "error" /\ job' = [job EXCEPT ![w] = Idle]
          /\ Answers(job[w].msg, "error")
       \/ /\ result'.outcome # "error" /\ job' = [job EXCEPT ![w].plan = Tail(@)]
          /\ reply' = NoReply

(* After an upsert, and in each maintenance pass: sessions that have ended *)
(* give their process root back, and so do those whose process is gone.    *)
Reconciles(w) == job[w].msg.kind \in {"upsert", "maintain"} /\ ~job[w].reconciled
ClearRoot(m, k) == Cmd("ClearProcessRoot", [m EXCEPT !.key = k], m.status, NoLabel)

reconcile_metric_roots(w) ==
    /\ job[w].plan = << >> /\ Reconciles(w)
    /\ LET rooted == {k \in Keys : sessions[k].root}
           ended == {k \in rooted : is_terminal(sessions[k].status)}
       IN \E gone \in SUBSET rooted : \E order \in SetToSeqs(gone) :
            /\ ended \subseteq gone
            /\ job' = [job EXCEPT
                  ![w].reconciled = TRUE,
                  ![w].plan = [i \in 1..Len(order) |-> ClearRoot(job[w].msg, order[i])]]
    /\ reply' = NoReply /\ UNCHANGED <<vars, jobs>>

Acknowledge(w) ==
    /\ job[w] # Idle /\ job[w].plan = << >> /\ ~Reconciles(w)
    /\ job' = [job EXCEPT ![w] = Idle]
    /\ Answers(job[w].msg, "ack") /\ UNCHANGED <<vars, jobs>>

(***************************************************************************)
(* The specification.  Ticks, samples and reconciliation are steps of one  *)
(* thread.  A command of the dashboard goes straight to the core.          *)
(***************************************************************************)
HostInit ==
    /\ Init /\ job = [w \in Workers |-> Idle] /\ jobs = 0 /\ reply = NoReply

WorkerStep(w) == Take(w) \/ Send(w) \/ reconcile_metric_roots(w) \/ Acknowledge(w)
CoreStep ==
    /\ \/ Ingest \/ TimePasses
       \/ job["maintenance"] = Idle /\ Maintain
    /\ reply' = NoReply /\ UNCHANGED <<job, jobs>>
HostRestart ==
    /\ Restart /\ job' = [w \in Workers |-> Idle]
    /\ reply' = NoReply /\ UNCHANGED jobs

HostNext == (\E w \in Workers : WorkerStep(w)) \/ CoreStep \/ HostRestart
HostSpec == HostInit /\ [][HostNext]_allVars

(***************************************************************************)
(* Properties                                                              *)
(***************************************************************************)
(* An acknowledged upsert has taken effect: the session has the status the *)
(* message asked for, or has come to an end, or is no longer kept.         *)
AcknowledgedTookEffect ==
    (reply.outcome = "ack" /\ reply.kind = "upsert") =>
        sessions[reply.key].status \in Terminal \cup {"Absent", reply.status}

(* ACK is sent only after the host core accepts and persists an event      *)
(* (README.md): at the acknowledgement of an upsert the stored session has *)
(* the status that the registry has.                                       *)
AcknowledgedIsStored ==
    (reply.outcome = "ack" /\ reply.kind = "upsert") =>
        rows[reply.key].status = sessions[reply.key].status
===============================================================================
