------------------------------ MODULE SessionCore ------------------------------
(***************************************************************************)
(* The session core: the registry in memory, the SQLite repository behind  *)
(* it, the coalescer that feeds the stream and the attention alerts.  An   *)
(* operation holds the core's write lock from its first change to its      *)
(* flush, so it is one step; each statement it sends to the database may   *)
(* fail and end it there.  The purges write to the database before they    *)
(* take the lock, so they are two steps.                                   *)
(*                                                                         *)
(* A key stands for a source with an external session id; the internal id  *)
(* is a function of it.  label stands for what only describes a session:   *)
(* its label, its workspace label and its verified terminal.  root and     *)
(* metric say whether it has a process root and a latest metric.           *)
(***************************************************************************)
EXTENDS Integers, FiniteSets

CONSTANTS
    Keys,
    Labels,
    Commands,       \* the ingest commands, without their time
    MaxSessions,    \* MAX_SESSIONS
    MaxEvents,      \* MAX_EVENTS_PER_SESSION
    StaleAfter,     \* STALE_SESSION_MS
    MaxTime,        \* bound on the clock
    MaxSeq,         \* bound on the events of a session
    FailingWrites,  \* whether a statement of an ingest may fail
    FailingTicks,   \* whether a statement of a maintenance pass may fail
    Restarts,       \* whether the process may end and start again
    Purges,         \* the purges that may run, a subset of PurgeKinds
    Samples,        \* whether metrics are sampled
    AttentionCapability \* of the integrations: "Full", "Partial" or "None"

ASSUME BoundsAssumption ==
    /\ MaxSessions \in Nat \ {0} /\ MaxEvents \in Nat \ {0}
    /\ StaleAfter \in Nat /\ MaxTime \in Nat /\ MaxSeq \in Nat
ASSUME KeysAssumption == IsFiniteSet(Keys)
ASSUME LabelsAssumption == Labels # {}

VARIABLES
    sessions,       \* registry.sessions, with external_index
    events,         \* registry.events: the sequence numbers of each session
    idempotency,    \* registry.idempotency
    alerts,         \* AlertEvaluator: known_attention, sessions with an active alert
    pending,        \* StreamCoalescer: removals, then upserts
    view,           \* what a window shows that has applied every frame
    rows,           \* table sessions
    eventRows,      \* table session_events
    keyRows,        \* table idempotency_keys
    purging,        \* the purges between their two steps
    clock,
    result          \* what the last operation returned

memVars == <<sessions, events, idempotency, alerts, pending, view>>
dbVars == <<rows, eventRows, keyRows>>
vars == <<memVars, dbVars, purging, clock, result>>

Live == {"Starting", "Running", "Waiting", "Paused"}
Terminal == {"Completed", "Failed", "Stale"}
Statuses == Live \cup Terminal
Attentions == {"None", "Permission"}
Times == 0..MaxTime
Never == -1
Sessions == [status : Statuses \cup {"Absent"}, attention : Attentions, label : Labels,
             last : Times, ended : Times \cup {Never}, root : BOOLEAN, metric : BOOLEAN]
NoLabel == CHOOSE l \in Labels : TRUE
NoSession == [status |-> "Absent", attention |-> "None", label |-> NoLabel, last |-> 0,
              ended |-> Never, root |-> FALSE, metric |-> FALSE]
Present(table) == {k \in Keys : table[k].status # "Absent"}

is_terminal(status) == status \in Terminal

(* Mutant: a finished session may be continued.                            *)
is_valid_transition_reopen(from, to) ==
    from = to \/ from # "Starting" \/ to \in {"Running", "Failed", "Stale"}

is_valid_transition(from, to) ==
    \/ from = to
    \/ from = "Starting" /\ to \in {"Running", "Failed", "Stale"}
    \/ from \in Live \ {"Starting"} /\ to \in Statuses \ {"Starting"}
    \/ is_terminal(from) /\ to = "Stale"

(* A command asks for a status, a label and an attention; the operations   *)
(* that need no such thing ignore it.                                      *)
CommandTypes == [op : STRING, key : Keys, status : Statuses, label : Labels,
                 attention : Attentions, keyed : BOOLEAN]
ASSUME CommandsAssumption == Commands \subseteq CommandTypes

(***************************************************************************)
(* What an operation returns, and the frames it flushes                    *)
(***************************************************************************)
Outcomes == {"error", "replay", "stored", "published"}
NoResult == [key |-> "none", outcome |-> "none"]
Returns(k, outcome) == result' = [key |-> k, outcome |-> outcome]

Queue(removed, k, session) ==
    [removed |-> pending.removed \cup removed, upserts |-> [pending.upserts EXCEPT ![k] = session]]
NothingPending == [removed |-> {}, upserts |-> [k \in Keys |-> NoSession]]

(* StreamCoalescer::drain gives removals and other payloads first, the     *)
(* latest upsert of each session after them.                               *)
Drained(queue) ==
    [k \in Keys |-> IF queue.upserts[k] # NoSession THEN queue.upserts[k]
                    ELSE IF k \in queue.removed THEN NoSession ELSE view[k]]

flush_pending(queue) == view' = Drained(queue) /\ pending' = NothingPending

(* How many of n statements succeed before one fails.                      *)
Writes(n) == IF FailingWrites THEN 0..n ELSE {n}

Refuse(k) == Returns(k, "error") /\ UNCHANGED <<memVars, dbVars>>

(***************************************************************************)
(* Events                                                                  *)
(***************************************************************************)
(* Mutant: one event too many is kept.                                     *)
Newest_late(seqs) == {s \in seqs : Cardinality({t \in seqs : t > s}) <= MaxEvents}

Newest(seqs) == {s \in seqs : Cardinality({t \in seqs : t > s}) < MaxEvents}
LastSeq(seqs) == IF seqs = {} THEN 0 ELSE CHOOSE s \in seqs : \A t \in seqs : t <= s

(* Mutant: the number is the length of the list, which is trimmed.         *)
next_event_sequence_counted(k) == Cardinality(events[k]) + 1

next_event_sequence(k) == LastSeq(events[k]) + 1

(* Mutant: the row first, so that a refused number is tried again.         *)
append_event_row_first(k, before, n) ==
    LET s == next_event_sequence(k)
    IN /\ s <= MaxSeq
       /\ events' = IF n > before THEN [events EXCEPT ![k] = Newest(@ \cup {s})] ELSE events
       /\ eventRows' = [eventRows EXCEPT ![k] =
                           IF n <= before THEN @
                           ELSE IF n = before + 1 THEN @ \cup {s} ELSE Newest(@ \cup {s})]

(* append_event after "before" other statements, n of all having           *)
(* succeeded: first in memory, then the row, which must be a new one, then *)
(* the trim.                                                               *)
append_event(k, before, n) ==
    LET s == next_event_sequence(k)
    IN /\ s <= MaxSeq
       /\ events' = IF n >= before THEN [events EXCEPT ![k] = Newest(@ \cup {s})] ELSE events
       /\ eventRows' = [eventRows EXCEPT ![k] =
                           IF n <= before THEN @
                           ELSE IF n = before + 1 THEN @ \cup {s} ELSE Newest(@ \cup {s})]

(* The row is refused when the number is taken.                            *)
AppendWrites(k, before, total) ==
    IF next_event_sequence(k) \in eventRows[k]
    THEN {n \in 0..before : FailingWrites \/ n = before} ELSE Writes(total)

(* Mutant: a command that publishes no session does not store it either.   *)
Record_events_only(k, session, evaluated, publishes) ==
    \E n \in AppendWrites(k, 1, 3) :
        /\ sessions' = [sessions EXCEPT ![k] = session]
        /\ rows' = IF publishes /\ n >= 1 THEN [rows EXCEPT ![k] = session] ELSE rows
        /\ alerts' = IF n >= 1 THEN evaluated ELSE alerts
        /\ append_event(k, 1, n)
        /\ IF n < 3 THEN Returns(k, "error") /\ UNCHANGED <<pending, view>>
           ELSE IF publishes THEN flush_pending(Queue({}, k, session)) /\ Returns(k, "published")
           ELSE flush_pending(pending) /\ Returns(k, "stored")
        /\ UNCHANGED <<idempotency, keyRows>>

(* The end of every command on a known session that records an event: the  *)
(* session in memory, its row, the alerts, the event, and the frames.      *)
Record(k, session, evaluated, publishes) ==
    \E n \in AppendWrites(k, 1, 3) :
        /\ sessions' = [sessions EXCEPT ![k] = session]
        /\ rows' = IF n >= 1 THEN [rows EXCEPT ![k] = session] ELSE rows
        /\ alerts' = IF n >= 1 THEN evaluated ELSE alerts
        /\ append_event(k, 1, n)
        /\ IF n < 3 THEN Returns(k, "error") /\ UNCHANGED <<pending, view>>
           ELSE IF publishes THEN flush_pending(Queue({}, k, session)) /\ Returns(k, "published")
           ELSE flush_pending(pending) /\ Returns(k, "stored")
        /\ UNCHANGED <<idempotency, keyRows>>

(***************************************************************************)
(* session_start                                                           *)
(***************************************************************************)
SortKey(s) == IF s.ended = Never THEN s.last ELSE s.ended
Evictable == {k \in Present(sessions) : is_terminal(sessions[k].status)}
oldest_terminal_session_id ==
    {k \in Evictable : \A j \in Evictable : SortKey(sessions[k]) <= SortKey(sessions[j])}
Full == Cardinality(Present(sessions)) >= MaxSessions
Without(table, gone, empty) == [k \in Keys |-> IF k \in gone THEN empty ELSE table[k]]

(* The insertion, after what had to be evicted is gone: the row, the first *)
(* event with its trim, the row again.                                     *)
insert_new_session(k, session, evicted) ==
    \E n \in Writes(4) :
        /\ sessions' = [Without(sessions, evicted, NoSession) EXCEPT ![k] = session]
        /\ rows' = [Without(rows, evicted, NoSession) EXCEPT ![k] = IF n >= 1 THEN session ELSE @]
        /\ events' = [Without(events, evicted, {}) EXCEPT ![k] = IF n >= 1 THEN {1} ELSE @]
        /\ eventRows' = [Without(eventRows, evicted, {}) EXCEPT ![k] = IF n >= 2 THEN {1} ELSE @]
        /\ IF n < 4
           THEN /\ pending' = [pending EXCEPT !.removed = @ \cup evicted]
                /\ Returns(k, "error") /\ UNCHANGED view
           ELSE flush_pending(Queue(evicted, k, session)) /\ Returns(k, "published")

Create(k, session) ==
    \/ ~Full /\ insert_new_session(k, session, {})
    \/ \E old \in oldest_terminal_session_id : Full /\ insert_new_session(k, session, {old})
    \/ /\ Full /\ (Evictable = {} \/ FailingWrites)
       /\ Returns(k, "error") /\ UNCHANGED <<sessions, events, pending, view, rows, eventRows>>

(* A key that is already stored answers for a session that exists; without *)
(* the session the command goes on.                                        *)
session_start(cmd, t) ==
    LET k == cmd.key
        exists == k \in Present(sessions)
        valid == is_valid_transition("Starting", cmd.status)
        seen == cmd.keyed /\ exists /\ k \in idempotency \cup keyRows
        session == [NoSession EXCEPT !.status = cmd.status, !.label = cmd.label, !.last = t]
    IN \/ cmd.keyed /\ k \notin idempotency /\ FailingWrites /\ Refuse(k)
       \/ /\ keyRows' = IF cmd.keyed THEN keyRows \cup {k} ELSE keyRows
          /\ idempotency' = IF cmd.keyed /\ ~seen THEN idempotency \cup {k} ELSE idempotency
          /\ UNCHANGED alerts
          /\ \/ /\ seen \/ (exists /\ valid)
                /\ flush_pending(pending) /\ Returns(k, "replay")
                /\ UNCHANGED <<sessions, events, rows, eventRows>>
             \/ /\ ~seen /\ ~valid /\ Returns(k, "error")
                /\ UNCHANGED <<sessions, events, pending, view, rows, eventRows>>
             \/ ~exists /\ valid /\ Create(k, session)

(***************************************************************************)
(* The other ingest commands                                               *)
(***************************************************************************)
(* The label is changed before the transition is validated, and stays      *)
(* changed when it is refused.                                             *)
session_update(cmd, t) ==
    LET k == cmd.key
        labelled == [sessions[k] EXCEPT !.label = IF cmd.label = NoLabel THEN @ ELSE cmd.label]
    IN \/ /\ is_valid_transition(sessions[k].status, cmd.status)
          /\ Record(k, [labelled EXCEPT !.status = cmd.status, !.last = t], alerts, TRUE)
       \/ /\ ~is_valid_transition(sessions[k].status, cmd.status)
          /\ sessions' = [sessions EXCEPT ![k] = labelled] /\ Returns(k, "error")
          /\ UNCHANGED <<events, idempotency, alerts, pending, view, dbVars>>

(* Mutant: the end of a session is stored but not published.               *)
session_end_quiet(cmd, t) ==
    LET k == cmd.key
        allowed == /\ cmd.status \in {"Completed", "Failed"}
                   /\ is_valid_transition(sessions[k].status, cmd.status)
    IN \/ /\ allowed
          /\ Record(k, [sessions[k] EXCEPT !.status = cmd.status, !.ended = t, !.last = t,
                                           !.attention = "None", !.metric = FALSE],
                    alerts, FALSE)
       \/ ~allowed /\ Refuse(k)

session_end(cmd, t) ==
    LET k == cmd.key
        allowed == /\ cmd.status \in {"Completed", "Failed"}
                   /\ is_valid_transition(sessions[k].status, cmd.status)
    IN \/ /\ allowed
          /\ Record(k, [sessions[k] EXCEPT !.status = cmd.status, !.ended = t, !.last = t,
                                           !.attention = "None", !.metric = FALSE],
                    alerts, TRUE)
       \/ ~allowed /\ Refuse(k)

(* lifecycle_event and tool_event                                          *)
lifecycle_event(cmd, t) ==
    Record(cmd.key, [sessions[cmd.key] EXCEPT !.last = t], alerts, FALSE)

evaluate_attention(k, attention) ==
    IF attention = "None" THEN [alerts EXCEPT !.known = @ \ {k}]
    ELSE [known |-> alerts.known \cup {k},
          active |-> IF k \in alerts.known THEN alerts.active ELSE alerts.active \cup {k}]

ensure_attention_capability(attention) ==
    \/ AttentionCapability = "Full"
    \/ AttentionCapability = "Partial" /\ attention # "None"
    \/ AttentionCapability = "None" /\ attention = "None"

attention(cmd, t) ==
    LET k == cmd.key
    IN \/ /\ ensure_attention_capability(cmd.attention)
          /\ Record(k, [sessions[k] EXCEPT !.attention = cmd.attention, !.last = t],
                    evaluate_attention(k, cmd.attention), TRUE)
       \/ ~ensure_attention_capability(cmd.attention) /\ Refuse(k)

(* Refused while the integration does not attribute processes.             *)
register_process_root(cmd, t) ==
    \/ Record(cmd.key, [sessions[cmd.key] EXCEPT !.root = TRUE, !.last = t], alerts, TRUE)
    \/ Refuse(cmd.key)

(***************************************************************************)
(* Operations that store and publish a session without an event            *)
(***************************************************************************)
Store(k, session, evaluated) ==
    \E n \in Writes(1) :
        /\ sessions' = [sessions EXCEPT ![k] = session]
        /\ IF n = 0
           THEN Returns(k, "error") /\ UNCHANGED <<rows, alerts, pending, view>>
           ELSE /\ rows' = [rows EXCEPT ![k] = session] /\ alerts' = evaluated
                /\ flush_pending(Queue({}, k, session)) /\ Returns(k, "published")
        /\ UNCHANGED <<events, idempotency, eventRows, keyRows>>

(* Mutant: the session stays known.                                        *)
clear_local_acknowledgement_active(k) == [alerts EXCEPT !.active = @ \ {k}]

clear_local_acknowledgement(k) == [known |-> alerts.known \ {k}, active |-> alerts.active \ {k}]

acknowledge_attention(k, t) ==
    Store(k, [sessions[k] EXCEPT !.attention = "None", !.last = t], clear_local_acknowledgement(k))

clear_process_root(k) ==
    \/ sessions[k].root /\ Store(k, [sessions[k] EXCEPT !.root = FALSE, !.metric = FALSE], alerts)
    \/ ~sessions[k].root /\ Returns(k, "replay") /\ UNCHANGED <<memVars, dbVars>>

set_verified_terminal(k, label) == Store(k, [sessions[k] EXCEPT !.label = label], alerts)

(* Mutant: the registry first.                                             *)
remove_session_registry_first(k) ==
    /\ sessions' = Without(sessions, {k}, NoSession) /\ events' = Without(events, {k}, {})
    /\ \/ /\ FailingWrites /\ Returns(k, "error")
          /\ UNCHANGED <<idempotency, alerts, pending, view, dbVars>>
       \/ /\ rows' = Without(rows, {k}, NoSession) /\ eventRows' = Without(eventRows, {k}, {})
          /\ flush_pending([pending EXCEPT !.removed = @ \cup {k}])
          /\ result' = NoResult /\ UNCHANGED <<idempotency, alerts, keyRows>>

(* Mutant: the windows are not told.                                       *)
remove_session_quiet(k) ==
    \/ FailingWrites /\ Refuse(k)
    \/ /\ sessions' = Without(sessions, {k}, NoSession) /\ rows' = Without(rows, {k}, NoSession)
       /\ events' = Without(events, {k}, {}) /\ eventRows' = Without(eventRows, {k}, {})
       /\ flush_pending(pending)
       /\ result' = NoResult /\ UNCHANGED <<idempotency, alerts, keyRows>>

(* The row first, its events with it, then the registry.                   *)
remove_session(k) ==
    \/ FailingWrites /\ Refuse(k)
    \/ /\ sessions' = Without(sessions, {k}, NoSession) /\ rows' = Without(rows, {k}, NoSession)
       /\ events' = Without(events, {k}, {}) /\ eventRows' = Without(eventRows, {k}, {})
       /\ flush_pending([pending EXCEPT !.removed = @ \cup {k}])
       /\ result' = NoResult /\ UNCHANGED <<idempotency, alerts, keyRows>>

(* integration_health, heartbeat and update_settings change nothing that   *)
(* is modelled, and flush.                                                 *)
heartbeat ==
    flush_pending(pending) /\ result' = NoResult
    /\ UNCHANGED <<sessions, events, idempotency, alerts, dbVars>>

(* Every command but a start needs its session.                            *)
handle_ingest(cmd, t) ==
    \/ cmd.op = "SessionStart" /\ session_start(cmd, t)
    \/ /\ cmd.op # "SessionStart" /\ cmd.key \notin Present(sessions) /\ Refuse(cmd.key)
    \/ /\ cmd.key \in Present(sessions)
       /\ \/ cmd.op = "SessionUpdate" /\ session_update(cmd, t)
          \/ cmd.op = "SessionEnd" /\ session_end(cmd, t)
          \/ cmd.op = "LifecycleEvent" /\ lifecycle_event(cmd, t)
          \/ cmd.op = "Attention" /\ attention(cmd, t)
          \/ cmd.op = "RegisterProcessRoot" /\ register_process_root(cmd, t)
          \/ cmd.op = "AcknowledgeAttention" /\ acknowledge_attention(cmd.key, t)
          \/ cmd.op = "ClearProcessRoot" /\ clear_process_root(cmd.key)
          \/ cmd.op = "SetVerifiedTerminal" /\ set_verified_terminal(cmd.key, cmd.label)
          \/ cmd.op = "RemoveSession" /\ remove_session(cmd.key)

(***************************************************************************)
(* The maintenance thread.  A pass goes through the sessions in the order  *)
(* of a hash map; the session whose write fails is changed in memory only, *)
(* those after it are not reached, and nothing is flushed.                 *)
(***************************************************************************)
Changed(table, changed, which) == [k \in Keys |-> IF k \in which THEN changed[k] ELSE table[k]]

QueueAll(changed, which, publishes) ==
    IF publishes THEN [pending EXCEPT !.upserts = Changed(@, changed, which)] ELSE pending

SweepAll(targets, changed, publishes) ==
    /\ sessions' = Changed(sessions, changed, targets) /\ rows' = Changed(rows, changed, targets)
    /\ flush_pending(QueueAll(changed, targets, publishes)) /\ result' = NoResult

SweepFails(targets, changed, publishes) ==
    \E done \in SUBSET targets : \E k \in targets \ done :
        /\ FailingTicks
        /\ sessions' = Changed(sessions, changed, done \cup {k})
        /\ rows' = Changed(rows, changed, done)
        /\ pending' = QueueAll(changed, done, publishes)
        /\ Returns(k, "error") /\ UNCHANGED view

Sweep(targets, changed, publishes) ==
    /\ SweepAll(targets, changed, publishes) \/ SweepFails(targets, changed, publishes)
    /\ UNCHANGED <<events, idempotency, alerts, eventRows, keyRows>>

IsStale(s) == s.status \in Live /\ clock - s.last >= StaleAfter
mark_stale_sessions ==
    Sweep({k \in Keys : IsStale(sessions[k])},
          [k \in Keys |-> [sessions[k] EXCEPT !.status = "Stale", !.last = clock, !.metric = FALSE]],
          TRUE)

(* agents: the sessions the frame has a sample for.                        *)
Sampled(agents) ==
    [k \in Keys |-> [sessions[k] EXCEPT
                        !.metric = k \in agents /\ ~is_terminal(sessions[k].status)]]

(* Mutant: finished sessions are skipped.                                  *)
record_metrics_live(agents) ==
    Sweep({k \in Keys : sessions[k].status \in Live}, Sampled(agents), FALSE)

record_metrics(agents) == Sweep(Present(sessions), Sampled(agents), FALSE)

(***************************************************************************)
(* Purges: the database first, the registry under the lock afterwards      *)
(***************************************************************************)
PurgeKinds == {"events", "metrics", "retention"}
NoMetrics(table) == [k \in Keys |-> [table[k] EXCEPT !.metric = FALSE]]

(* A retention pass deletes event rows by the time their sender gave them, *)
(* so which numbers go is free; the registry keeps the events.  The latest *)
(* metrics go when it deleted a bucket.                                    *)
PurgeRows(kind) ==
    /\ kind \in Purges \ purging
    /\ \/ /\ kind = "events" /\ purging' = purging \cup {kind}
          /\ eventRows' = [k \in Keys |-> {}] /\ UNCHANGED rows
       \/ /\ kind = "metrics" /\ purging' = purging \cup {kind}
          /\ rows' = NoMetrics(rows) /\ UNCHANGED eventRows
       \/ /\ kind = "retention"
          /\ \E k \in Keys : \E old \in SUBSET eventRows[k] :
                eventRows' = [eventRows EXCEPT ![k] = @ \ old]
          /\ \/ UNCHANGED <<rows, purging>>
             \/ rows' = NoMetrics(rows) /\ purging' = purging \cup {kind}
    /\ result' = NoResult /\ UNCHANGED <<memVars, keyRows, clock>>

PurgeRegistry(kind) ==
    /\ kind \in purging /\ purging' = purging \ {kind}
    /\ \/ kind = "events" /\ events' = [k \in Keys |-> {}] /\ UNCHANGED sessions
       \/ kind # "events" /\ sessions' = NoMetrics(sessions) /\ UNCHANGED events
    /\ result' = NoResult /\ UNCHANGED <<idempotency, alerts, pending, view, dbVars, clock>>

(***************************************************************************)
(* A start of the process, after an exit or a crash: AppCore::new restores *)
(* the registry, and the windows bootstrap from it.                        *)
(***************************************************************************)
restore_priority(s) == IF s.status \in Live \/ s.attention # "None" THEN 0 ELSE 1
RestoredBefore(s, r) ==
    \/ restore_priority(s) < restore_priority(r)
    \/ restore_priority(s) = restore_priority(r) /\ s.last >= r.last
Restorable ==
    {kept \in SUBSET Present(rows) :
        /\ Cardinality(kept) <= MaxSessions
        /\ kept = Present(rows) \/ Cardinality(kept) = MaxSessions
        /\ \A k \in kept, j \in Present(rows) \ kept : RestoredBefore(rows[k], rows[j])}

Restart ==
    /\ Restarts
    /\ \E kept \in Restorable :
          /\ sessions' = Without(rows, Keys \ kept, NoSession)
          /\ events' = [k \in Keys |-> IF k \in kept THEN Newest(eventRows[k]) ELSE {}]
    /\ view' = sessions' /\ idempotency' = {} /\ pending' = NothingPending
    /\ alerts' = [known |-> {}, active |-> {}]
    /\ purging' = {} /\ result' = NoResult /\ UNCHANGED <<dbVars, clock>>

TimePasses ==
    /\ clock < MaxTime /\ clock' = clock + 1
    /\ result' = NoResult /\ UNCHANGED <<memVars, dbVars, purging>>

(***************************************************************************)
(* The specification                                                       *)
(***************************************************************************)
Init ==
    /\ sessions = [k \in Keys |-> NoSession] /\ events = [k \in Keys |-> {}]
    /\ idempotency = {} /\ alerts = [known |-> {}, active |-> {}]
    /\ pending = NothingPending /\ view = [k \in Keys |-> NoSession]
    /\ rows = [k \in Keys |-> NoSession] /\ eventRows = [k \in Keys |-> {}] /\ keyRows = {}
    /\ purging = {} /\ clock = 0 /\ result = NoResult

(* The time of a command is the sender's, at the latest now.               *)
Ingest == \E cmd \in Commands, t \in 0..clock : handle_ingest(cmd, t) /\ UNCHANGED <<purging, clock>>
Maintain ==
    /\ \/ heartbeat
       \/ mark_stale_sessions
       \/ Samples /\ \E agents \in SUBSET Keys : record_metrics(agents)
    /\ UNCHANGED <<purging, clock>>

Next ==
    \/ Ingest \/ Maintain \/ Restart \/ TimePasses
    \/ \E kind \in PurgeKinds : PurgeRows(kind) \/ PurgeRegistry(kind)

Spec == Init /\ [][Next]_vars

(* Sampling goes on, and the database does not refuse every pass.          *)
SamplePass ==
    /\ Samples
    /\ \E agents \in SUBSET Keys : record_metrics(agents) /\ result' = NoResult
    /\ UNCHANGED <<purging, clock>>
LiveSpec == Spec /\ WF_vars(SamplePass)

(***************************************************************************)
(* Properties                                                              *)
(***************************************************************************)
SeqSets == SUBSET (1..MaxSeq)
TypeOK ==
    /\ sessions \in [Keys -> Sessions] /\ rows \in [Keys -> Sessions] /\ view \in [Keys -> Sessions]
    /\ \A k \in Keys : Cardinality(events[k]) <= MaxEvents
    /\ events \in [Keys -> SeqSets] /\ eventRows \in [Keys -> SeqSets]
    /\ idempotency \in SUBSET Keys /\ keyRows \in SUBSET Keys
    /\ alerts \in [known : SUBSET Keys, active : SUBSET Keys]
    /\ pending \in [removed : SUBSET Keys, upserts : [Keys -> Sessions]]
    /\ purging \in SUBSET PurgeKinds /\ clock \in Times
    /\ result \in {NoResult} \cup [key : Keys, outcome : Outcomes]

(* Every stored session is in the registry and the registry is within its  *)
(* limit, whatever writes failed: a start of the process restores all of   *)
(* them, and load_sessions never has to leave one out.                     *)
NoSessionIsLeftOut ==
    /\ Present(rows) \subseteq Present(sessions)
    /\ Cardinality(Present(sessions)) <= MaxSessions

(* A session stored as finished is finished in the registry too: no later  *)
(* write, retry or restart brings it back to life.                         *)
StoredEndIsFinal ==
    \A k \in Keys : is_terminal(rows[k].status) => is_terminal(sessions[k].status)

(* A command that answers "stored" has its session in the database as it   *)
(* is in memory; one that publishes also shows it so in every window.  One *)
(* successful command repairs what failed writes had left apart.           *)
AnsweredIsStored ==
    /\ result.outcome \in {"stored", "published"} => rows[result.key] = sessions[result.key]
    /\ result.outcome = "published" => view[result.key] = sessions[result.key]

(* Once what is queued has been flushed, a window shows no session that    *)
(* the registry does not hold: a removal is never undone by an upsert that *)
(* was left in the queue.                                                  *)
NoGhosts == Present(Drained(pending)) \subseteq Present(sessions)

(* With working writes a window shows each session with the status and the *)
(* attention that it has.                                                  *)
ViewIsCurrent ==
    \A k \in Keys : /\ view[k].status = sessions[k].status
                    /\ view[k].attention = sessions[k].attention
                    /\ view[k].ended = sessions[k].ended

(* The next event of a session has a number that no stored event of it     *)
(* has, also after failed writes, retention passes and restarts.           *)
NextEventIsNew == \A k \in Keys : next_event_sequence(k) \notin eventRows[k]

(* An event whose number is taken in the database, as after a purge that   *)
(* an ingest overtook, uses the number up: the refusal is not repeated     *)
(* for ever and later events of the session are stored again.              *)
RefusedNumberIsSkipped ==
    [][\A k \in Keys :
          (/\ next_event_sequence(k) \in eventRows[k] /\ k \in Present(sessions)
           /\ \E cmd \in Commands, t \in 0..clock :
                 cmd.key = k /\ cmd.op = "LifecycleEvent" /\ lifecycle_event(cmd, t))
          => LastSeq(events'[k]) > LastSeq(events[k])]_vars

(* A session for which a further alert is suppressed has an alert that     *)
(* nobody has acknowledged.                                                *)
SuppressedHasAlert == alerts.known \subseteq alerts.active

(* A session that is finished in the registry is stored as finished sooner *)
(* or later, although the write of its end may have failed: each sample    *)
(* writes every session again.                                             *)
EndIsStoredEventually ==
    \A k \in Keys : is_terminal(sessions[k].status)
                      ~> (rows[k].status \in Terminal \cup {"Absent"})
===============================================================================
