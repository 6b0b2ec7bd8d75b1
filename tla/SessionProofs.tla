----------------------------- MODULE SessionProofs -----------------------------
(***************************************************************************)
(* What holds between the registry and the sessions table for any keys,    *)
(* limits, commands and failures.                                          *)
(***************************************************************************)
EXTENDS SessionCore, FiniteSetTheorems, TLAPS

(***************************************************************************)
(* The inductive invariant.  A stored session is in the registry, a        *)
(* session stored as finished is finished there, and the registry is       *)
(* within its limit.  The first part needs the last: a restart restores    *)
(* every row because the rows fit.                                         *)
(***************************************************************************)
Tables == sessions \in [Keys -> Sessions] /\ rows \in [Keys -> Sessions] /\ clock \in Times
Agree ==
    \A k \in Keys :
        /\ rows[k].status # "Absent" => sessions[k].status # "Absent"
        /\ rows[k].status \in Terminal => sessions[k].status \in Terminal
Within == Cardinality(Present(sessions)) <= MaxSessions
Safe == Tables /\ Agree /\ Within

(* A step that starts, ends and removes no session: no finished session is *)
(* continued, and a row keeps its status or takes the one of the registry. *)
Follows ==
    /\ sessions' \in [Keys -> Sessions] /\ rows' \in [Keys -> Sessions] /\ clock' \in Times
    /\ \A k \in Keys :
          /\ sessions[k].status # "Absent" <=> sessions'[k].status # "Absent"
          /\ sessions[k].status \in Terminal => sessions'[k].status \in Terminal
          /\ rows'[k].status \in {rows[k].status, sessions'[k].status}

(* No session is a session record that is absent.                          *)
LEMMA NoSessionFacts == NoSession \in Sessions /\ NoSession.status = "Absent"
<1>1. NoLabel \in Labels
  BY LabelsAssumption DEF NoLabel
<1>2. 0 \in Times
  BY BoundsAssumption DEF Times
<1> QED
  BY <1>1, <1>2 DEF NoSession, Sessions, Attentions, Never

(* The present sessions are finitely many.                                 *)
LEMMA PresentFinite ==
    /\ IsFiniteSet(Present(sessions)) /\ Cardinality(Present(sessions)) \in Nat
    /\ IsFiniteSet(Present(rows)) /\ Cardinality(Present(rows)) \in Nat
<1>1. Present(sessions) \subseteq Keys /\ Present(rows) \subseteq Keys
  BY DEF Present
<1> QED
  BY <1>1, KeysAssumption, FS_Subset, FS_CardinalityType

(* A step that follows keeps the invariant.                                *)
LEMMA FollowsSafe == Safe /\ Follows => Safe'
<1> SUFFICES ASSUME Safe, Follows PROVE Safe'
  OBVIOUS
<1>1. Tables'
  BY DEF Follows, Tables
<1>2. Agree'
  BY DEF Safe, Agree, Follows
<1>3. Present(sessions)' = Present(sessions)
  BY DEF Follows, Present
<1>4. Within'
  BY <1>3 DEF Safe, Within
<1> QED
  BY <1>1, <1>2, <1>4 DEF Safe

(* Replacing one session, and its row or not, follows.                     *)
LEMMA UpdateFollows ==
    ASSUME Safe, clock' = clock, NEW k \in Keys, NEW s \in Sessions,
           sessions[k].status # "Absent", s.status # "Absent",
           sessions[k].status \in Terminal => s.status \in Terminal,
           sessions' = [sessions EXCEPT ![k] = s],
           rows' = rows \/ rows' = [rows EXCEPT ![k] = s]
    PROVE  Follows
BY DEF Safe, Tables, Follows

(* A step that changes neither table follows.                              *)
LEMMA FrameFollows == Safe /\ sessions' = sessions /\ rows' = rows /\ clock' \in Times => Follows
BY DEF Safe, Tables, Follows

(* What a command may ask for.                                             *)
LEMMA CommandFacts ==
    ASSUME NEW cmd \in Commands
    PROVE  /\ cmd.key \in Keys /\ cmd.status \in Statuses /\ cmd.label \in Labels
           /\ cmd.attention \in Attentions
BY CommandsAssumption DEF CommandTypes

(***************************************************************************)
(* The operations on a session that exists                                 *)
(***************************************************************************)
(* Record and Store change one session, and its row or not.                *)
LEMMA RecordFollows ==
    ASSUME Safe, UNCHANGED clock, NEW k \in Keys, NEW s \in Sessions,
           NEW evaluated, NEW publishes,
           sessions[k].status # "Absent", s.status # "Absent",
           sessions[k].status \in Terminal => s.status \in Terminal,
           Record(k, s, evaluated, publishes) \/ Store(k, s, evaluated)
    PROVE  Follows
<1>1. sessions' = [sessions EXCEPT ![k] = s]
  BY DEF Record, Store
<1>2. rows' = rows \/ rows' = [rows EXCEPT ![k] = s]
  BY DEF Record, Store
<1> QED
  BY <1>1, <1>2, UpdateFollows

(* A refused operation changes nothing.                                    *)
LEMMA RefuseFollows == ASSUME Safe, UNCHANGED clock, NEW k, Refuse(k) PROVE Follows
BY FrameFollows DEF Refuse, memVars, dbVars, Safe, Tables

(* A transition that is allowed leads to a status, and from a finished one *)
(* to a finished one.                                                      *)
LEMMA TransitionFacts ==
    ASSUME NEW from, NEW to \in Statuses, is_valid_transition(from, to)
    PROVE  to # "Absent" /\ (from \in Terminal => to \in Terminal)
BY DEF is_valid_transition, is_terminal, Statuses, Live, Terminal

(* session_update, also when the transition is refused after the label.    *)
LEMMA UpdateSafe ==
    ASSUME Safe, UNCHANGED clock, NEW cmd \in Commands, NEW t \in Times,
           cmd.key \in Present(sessions), session_update(cmd, t)
    PROVE  Follows
<1> DEFINE k == cmd.key
           s == sessions[k]
           labelled == [s EXCEPT !.label = IF cmd.label = NoLabel THEN @ ELSE cmd.label]
           updated == [labelled EXCEPT !.status = cmd.status, !.last = t]
<1>1. k \in Keys /\ cmd.status \in Statuses /\ cmd.label \in Labels
  BY CommandFacts
<1>2. s \in Sessions /\ s.status # "Absent"
  BY <1>1 DEF Safe, Tables, Present
<1>3. labelled \in Sessions /\ labelled.status = s.status
  BY <1>1, <1>2 DEF Sessions
<1>4. updated \in Sessions /\ updated.status = cmd.status
  BY <1>1, <1>3 DEF Sessions
<1>5. CASE is_valid_transition(s.status, cmd.status)
  <2>1. Record(k, updated, alerts, TRUE)
    BY <1>5 DEF session_update
  <2>2. cmd.status # "Absent" /\ (s.status \in Terminal => cmd.status \in Terminal)
    BY <1>1, <1>5, TransitionFacts
  <2> HIDE DEF updated, labelled
  <2> QED
    BY <1>1, <1>2, <1>4, <2>1, <2>2, RecordFollows
<1>6. CASE ~is_valid_transition(s.status, cmd.status)
  <2>1. sessions' = [sessions EXCEPT ![k] = labelled] /\ rows' = rows
    BY <1>6 DEF session_update, dbVars
  <2> HIDE DEF labelled
  <2> QED
    BY <1>1, <1>2, <1>3, <2>1, UpdateFollows
<1> QED
  BY <1>5, <1>6

(* session_end.                                                            *)
LEMMA EndSafe ==
    ASSUME Safe, UNCHANGED clock, NEW cmd \in Commands, NEW t \in Times,
           cmd.key \in Present(sessions), session_end(cmd, t)
    PROVE  Follows
<1> DEFINE k == cmd.key
           s == sessions[k]
           ended == [s EXCEPT !.status = cmd.status, !.ended = t, !.last = t,
                              !.attention = "None", !.metric = FALSE]
<1>1. k \in Keys /\ cmd.status \in Statuses
  BY CommandFacts
<1>2. s \in Sessions /\ s.status # "Absent"
  BY <1>1 DEF Safe, Tables, Present
<1>3. ended \in Sessions /\ ended.status = cmd.status
  BY <1>1, <1>2 DEF Sessions, Attentions
<1>4. \/ is_valid_transition(s.status, cmd.status) /\ Record(k, ended, alerts, TRUE)
      \/ Refuse(k)
  BY DEF session_end
<1>5. CASE is_valid_transition(s.status, cmd.status) /\ Record(k, ended, alerts, TRUE)
  <2>1. cmd.status # "Absent" /\ (s.status \in Terminal => cmd.status \in Terminal)
    BY <1>1, <1>5, TransitionFacts
  <2> HIDE DEF ended
  <2> QED
    BY <1>1, <1>2, <1>3, <1>5, <2>1, RecordFollows
<1> QED
  BY <1>4, <1>5, RefuseFollows

(* The operations that keep the status.                                    *)
LEMMA SameStatusSafe ==
    ASSUME Safe, UNCHANGED clock, NEW cmd \in Commands, NEW t \in Times,
           cmd.key \in Present(sessions),
           \/ lifecycle_event(cmd, t) \/ attention(cmd, t) \/ register_process_root(cmd, t)
           \/ acknowledge_attention(cmd.key, t) \/ clear_process_root(cmd.key)
           \/ set_verified_terminal(cmd.key, cmd.label)
    PROVE  Follows
<1> DEFINE k == cmd.key
           s == sessions[k]
           Same(r) == r \in Sessions /\ r.status = s.status
<1>1. k \in Keys /\ cmd.label \in Labels /\ cmd.attention \in Attentions
  BY CommandFacts
<1>2. s \in Sessions /\ s.status # "Absent"
  BY <1>1 DEF Safe, Tables, Present
<1>3. ASSUME NEW r, NEW e, NEW p, Same(r), Record(k, r, e, p) \/ Store(k, r, e)
      PROVE  Follows
  BY <1>1, <1>2, <1>3, RecordFollows
<1>4. Same([s EXCEPT !.last = t])
  BY <1>2 DEF Sessions
<1>5. ASSUME NEW a \in Attentions PROVE Same([s EXCEPT !.attention = a, !.last = t])
  BY <1>2 DEF Sessions
<1>6. Same([s EXCEPT !.root = TRUE, !.last = t])
  BY <1>2 DEF Sessions
<1>7. Same([s EXCEPT !.root = FALSE, !.metric = FALSE])
  BY <1>2 DEF Sessions
<1>8. Same([s EXCEPT !.label = cmd.label])
  BY <1>1, <1>2 DEF Sessions
<1>9. "None" \in Attentions
  BY DEF Attentions
<1> HIDE DEF Same
<1>10. CASE lifecycle_event(cmd, t)
  BY <1>3, <1>4, <1>10 DEF lifecycle_event
<1>11. CASE attention(cmd, t)
  BY <1>1, <1>3, <1>5, <1>11, RefuseFollows DEF attention
<1>12. CASE register_process_root(cmd, t)
  BY <1>3, <1>6, <1>12, RefuseFollows DEF register_process_root
<1>13. CASE acknowledge_attention(cmd.key, t)
  BY <1>3, <1>5, <1>9, <1>13 DEF acknowledge_attention
<1>14. CASE clear_process_root(cmd.key)
  BY <1>3, <1>7, <1>14, FrameFollows DEF clear_process_root, memVars, dbVars, Safe, Tables
<1>15. CASE set_verified_terminal(cmd.key, cmd.label)
  BY <1>3, <1>8, <1>15 DEF set_verified_terminal
<1> QED
  BY <1>10, <1>11, <1>12, <1>13, <1>14, <1>15

(***************************************************************************)
(* The operations that remove and start a session                          *)
(***************************************************************************)
(* remove_session: gone from both tables, or refused.                      *)
LEMMA RemoveSafe ==
    ASSUME Safe, UNCHANGED clock, NEW k \in Keys, remove_session(k)
    PROVE  Safe'
<1>1. CASE Refuse(k)
  BY <1>1, RefuseFollows, FollowsSafe
<1>2. CASE /\ sessions' = Without(sessions, {k}, NoSession)
           /\ rows' = Without(rows, {k}, NoSession)
  <2>1. Tables'
    BY <1>2, NoSessionFacts DEF Safe, Tables, Without
  <2>2. Agree'
    BY <1>2, NoSessionFacts DEF Safe, Tables, Agree, Without, Terminal
  <2>3. Present(sessions)' = Present(sessions) \ {k}
    BY <1>2, NoSessionFacts DEF Present, Without
  <2>4. Cardinality(Present(sessions) \ {k}) <= Cardinality(Present(sessions))
    BY PresentFinite, FS_Subset
  <2>5. Cardinality(Present(sessions) \ {k}) \in Nat
    BY PresentFinite, FS_Subset, FS_CardinalityType
  <2>6. Within'
    BY <2>3, <2>4, <2>5, PresentFinite, BoundsAssumption DEF Safe, Within
  <2> QED
    BY <2>1, <2>2, <2>6 DEF Safe
<1> QED
  BY <1>1, <1>2 DEF remove_session

(* A new session takes a free place or the place of the evicted one.  The  *)
(* evicted session leaves both tables, and the new one has no row yet.     *)
LEMMA InsertSafe ==
    ASSUME Safe, UNCHANGED clock, NEW k \in Keys \ Present(sessions), NEW s \in Sessions,
           s.status # "Absent", NEW evicted \in SUBSET Present(sessions),
           insert_new_session(k, s, evicted),
           \/ ~Full /\ evicted = {}
           \/ \E old \in Present(sessions) : evicted = {old}
    PROVE  Safe'
<1>1. /\ sessions' = [Without(sessions, evicted, NoSession) EXCEPT ![k] = s]
      /\ \/ rows' = [Without(rows, evicted, NoSession) EXCEPT ![k] = s]
         \/ rows' = [Without(rows, evicted, NoSession) EXCEPT ![k] = @]
  BY DEF insert_new_session
<1>2. /\ Without(sessions, evicted, NoSession) \in [Keys -> Sessions]
      /\ Without(rows, evicted, NoSession) \in [Keys -> Sessions]
  BY NoSessionFacts DEF Safe, Tables, Without
<1>3. Tables'
  BY <1>1, <1>2 DEF Safe, Tables
<1>4. \A j \in Keys \ {k} :
         /\ sessions'[j] = IF j \in evicted THEN NoSession ELSE sessions[j]
         /\ rows'[j] = IF j \in evicted THEN NoSession ELSE rows[j]
  BY <1>1, <1>2 DEF Without
<1>5. sessions'[k] = s /\ (rows'[k] = s \/ rows'[k] = rows[k])
  BY <1>1, <1>2 DEF Without
<1>6. sessions[k].status = "Absent" /\ rows[k].status = "Absent"
  BY DEF Present, Safe, Agree
<1>7. Agree'
  <2> SUFFICES ASSUME NEW j \in Keys
               PROVE  /\ rows'[j].status # "Absent" => sessions'[j].status # "Absent"
                      /\ rows'[j].status \in Terminal => sessions'[j].status \in Terminal
    BY DEF Agree
  <2>1. CASE j = k
    BY <2>1, <1>5, <1>6 DEF Terminal
  <2>2. CASE j # k
    BY <2>2, <1>4, NoSessionFacts DEF Safe, Agree, Terminal
  <2> QED
    BY <2>1, <2>2
<1>8. Present(sessions)' = (Present(sessions) \ evicted) \cup {k}
  BY <1>4, <1>5, NoSessionFacts DEF Present
<1>9. k \notin Present(sessions) \ evicted /\ IsFiniteSet(Present(sessions) \ evicted)
  BY PresentFinite, FS_Subset
<1>10. Cardinality(Present(sessions)') = Cardinality(Present(sessions) \ evicted) + 1
  BY <1>8, <1>9, FS_AddElement
<1>11. CASE ~Full /\ evicted = {}
  <2>1. Present(sessions) \ evicted = Present(sessions)
    BY <1>11
  <2> QED
    BY <2>1, <1>3, <1>7, <1>10, <1>11, PresentFinite, BoundsAssumption DEF Safe, Within, Full
<1>12. CASE \E old \in Present(sessions) : evicted = {old}
  <2>1. PICK old \in Present(sessions) : evicted = {old}
    BY <1>12
  <2>2. Cardinality(Present(sessions) \ {old}) = Cardinality(Present(sessions)) - 1
    BY PresentFinite, FS_RemoveElement
  <2> QED
    BY <2>1, <2>2, <1>3, <1>7, <1>10, PresentFinite DEF Safe, Within
<1> QED
  BY <1>11, <1>12

(* session_start: answered, refused, or a new session.                     *)
LEMMA StartSafe ==
    ASSUME Safe, UNCHANGED clock, NEW cmd \in Commands, NEW t \in Times, session_start(cmd, t)
    PROVE  Safe'
<1> DEFINE k == cmd.key
           s == [NoSession EXCEPT !.status = cmd.status, !.label = cmd.label, !.last = t]
<1>1. k \in Keys /\ cmd.status \in Statuses /\ cmd.label \in Labels
  BY CommandFacts
<1>2. s \in Sessions /\ s.status = cmd.status
  BY <1>1, NoSessionFacts DEF Sessions
<1>3. s.status # "Absent"
  BY <1>1, <1>2 DEF Statuses, Live, Terminal
<1>4. \/ Refuse(k)
      \/ UNCHANGED <<sessions, rows>>
      \/ k \notin Present(sessions) /\ Create(k, s)
  BY DEF session_start
<1> HIDE DEF s
<1>5. CASE Refuse(k)
  BY <1>5, RefuseFollows, FollowsSafe
<1>6. CASE UNCHANGED <<sessions, rows>>
  BY <1>6, FrameFollows, FollowsSafe DEF Safe, Tables
<1>7. CASE k \notin Present(sessions) /\ Create(k, s)
  <2>1. CASE ~Full /\ insert_new_session(k, s, {})
    BY <2>1, <1>1, <1>2, <1>3, <1>7, InsertSafe
  <2>2. CASE \E old \in oldest_terminal_session_id : insert_new_session(k, s, {old})
    <3>1. PICK old \in oldest_terminal_session_id : insert_new_session(k, s, {old})
      BY <2>2
    <3>2. old \in Present(sessions)
      BY DEF oldest_terminal_session_id, Evictable
    <3> QED
      BY <3>1, <3>2, <1>1, <1>2, <1>3, <1>7, InsertSafe
  <2>3. CASE UNCHANGED <<sessions, rows>>
    BY <2>3, <1>6
  <2> QED
    BY <1>7, <2>1, <2>2, <2>3 DEF Create
<1> QED
  BY <1>4, <1>5, <1>6, <1>7

(* Every ingest command.                                                   *)
LEMMA IngestSafe == Safe /\ Ingest => Safe'
<1> SUFFICES ASSUME Safe, Ingest PROVE Safe'
  OBVIOUS
<1>1. PICK cmd \in Commands, t \in 0..clock : handle_ingest(cmd, t) /\ UNCHANGED <<purging, clock>>
  BY DEF Ingest
<1>2. t \in Times
  BY BoundsAssumption DEF Safe, Tables, Times
<1>3. UNCHANGED clock /\ cmd.key \in Keys
  BY <1>1, CommandFacts
<1>4. CASE session_start(cmd, t)
  BY <1>2, <1>3, <1>4, StartSafe
<1>5. CASE Refuse(cmd.key)
  BY <1>3, <1>5, RefuseFollows, FollowsSafe
<1>6. CASE cmd.key \in Present(sessions) /\ session_update(cmd, t)
  BY <1>2, <1>3, <1>6, UpdateSafe, FollowsSafe
<1>7. CASE cmd.key \in Present(sessions) /\ session_end(cmd, t)
  BY <1>2, <1>3, <1>7, EndSafe, FollowsSafe
<1>8. CASE /\ cmd.key \in Present(sessions)
           /\ \/ lifecycle_event(cmd, t) \/ attention(cmd, t) \/ register_process_root(cmd, t)
              \/ acknowledge_attention(cmd.key, t) \/ clear_process_root(cmd.key)
              \/ set_verified_terminal(cmd.key, cmd.label)
  BY <1>2, <1>3, <1>8, SameStatusSafe, FollowsSafe
<1>9. CASE remove_session(cmd.key)
  BY <1>3, <1>9, RemoveSafe
<1> QED
  BY <1>1, <1>4, <1>5, <1>6, <1>7, <1>8, <1>9 DEF handle_ingest

(***************************************************************************)
(* The maintenance thread, the purges and the restart                      *)
(***************************************************************************)
(* A pass over some sessions that makes none of them live follows, also    *)
(* when a write fails on the way: a row is then behind its session.        *)
LEMMA SweepFollows ==
    ASSUME Safe, UNCHANGED clock, NEW targets \in SUBSET Keys, NEW changed \in [Keys -> Sessions],
           NEW publishes, Sweep(targets, changed, publishes),
           \A k \in targets : /\ sessions[k].status # "Absent" /\ changed[k].status # "Absent"
                              /\ sessions[k].status \in Terminal => changed[k].status \in Terminal
    PROVE  Follows
<1>1. PICK inMemory \in SUBSET targets, stored \in SUBSET targets :
          /\ stored \subseteq inMemory
          /\ sessions' = Changed(sessions, changed, inMemory) /\ rows' = Changed(rows, changed, stored)
  <2>1. CASE SweepAll(targets, changed, publishes)
    BY <2>1 DEF SweepAll
  <2>2. CASE SweepFails(targets, changed, publishes)
    <3>1. PICK done \in SUBSET targets, k \in targets :
              /\ sessions' = Changed(sessions, changed, done \cup {k})
              /\ rows' = Changed(rows, changed, done)
      BY <2>2 DEF SweepFails
    <3>2. done \cup {k} \in SUBSET targets /\ done \subseteq done \cup {k}
      OBVIOUS
    <3> QED
      BY <3>1, <3>2
  <2> QED
    BY <2>1, <2>2 DEF Sweep
<1>2. sessions' \in [Keys -> Sessions] /\ rows' \in [Keys -> Sessions] /\ clock' \in Times
  BY <1>1 DEF Safe, Tables, Changed
<1>3. \A k \in Keys :
         /\ sessions'[k] = IF k \in inMemory THEN changed[k] ELSE sessions[k]
         /\ rows'[k] = IF k \in stored THEN changed[k] ELSE rows[k]
  BY <1>1 DEF Changed
<1>4. stored \subseteq inMemory /\ inMemory \subseteq targets
  BY <1>1
<1>5. \A k \in Keys :
         /\ sessions[k].status # "Absent" <=> sessions'[k].status # "Absent"
         /\ sessions[k].status \in Terminal => sessions'[k].status \in Terminal
         /\ rows'[k].status \in {rows[k].status, sessions'[k].status}
  BY <1>3, <1>4
<1> QED
  BY <1>2, <1>5 DEF Follows

(* The heartbeat, the stale sweep and the samples.                         *)
LEMMA MaintainFollows == Safe /\ Maintain => Follows
<1> SUFFICES ASSUME Safe, Maintain PROVE Follows
  OBVIOUS
<1>1. UNCHANGED clock
  BY DEF Maintain
<1>2. CASE heartbeat
  BY <1>1, <1>2, FrameFollows DEF heartbeat, dbVars, Safe, Tables
<1>3. CASE mark_stale_sessions
  <2> DEFINE targets == {k \in Keys : IsStale(sessions[k])}
             changed == [k \in Keys |-> [sessions[k] EXCEPT !.status = "Stale", !.last = clock,
                                                            !.metric = FALSE]]
  <2>1. "Stale" \in Statuses /\ "Stale" \in Terminal
    BY DEF Statuses, Terminal
  <2>2. ASSUME NEW k \in Keys
        PROVE  changed[k] \in Sessions /\ changed[k].status = "Stale"
    <3>1. sessions[k] \in Sessions /\ clock \in Times
      BY DEF Safe, Tables
    <3> QED
      BY <3>1, <2>1 DEF Sessions
  <2>3. changed \in [Keys -> Sessions]
    BY <2>2
  <2>4. \A k \in targets : sessions[k].status # "Absent"
    BY DEF IsStale, Live
  <2>5. Sweep(targets, changed, TRUE)
    BY <1>3 DEF mark_stale_sessions
  <2>6. targets \in SUBSET Keys
    OBVIOUS
  <2>7. \A k \in targets : /\ sessions[k].status # "Absent" /\ changed[k].status # "Absent"
                           /\ sessions[k].status \in Terminal => changed[k].status \in Terminal
    BY <2>1, <2>2, <2>4
  <2> HIDE DEF targets, changed
  <2> QED
    BY <1>1, <2>3, <2>5, <2>6, <2>7, SweepFollows
<1>4. CASE \E agents \in SUBSET Keys : record_metrics(agents)
  <2>1. PICK agents \in SUBSET Keys : record_metrics(agents)
    BY <1>4
  <2>2. ASSUME NEW k \in Keys
        PROVE  Sampled(agents)[k] \in Sessions /\ Sampled(agents)[k].status = sessions[k].status
    <3>1. sessions[k] \in Sessions
      BY DEF Safe, Tables
    <3>2. (k \in agents /\ ~is_terminal(sessions[k].status)) \in BOOLEAN
      OBVIOUS
    <3> QED
      BY <3>1, <3>2 DEF Sessions, Sampled
  <2>3. Sampled(agents) \in [Keys -> Sessions]
    BY <2>2 DEF Sampled
  <2>4. Sweep(Present(sessions), Sampled(agents), FALSE)
    BY <2>1 DEF record_metrics
  <2>5. Present(sessions) \in SUBSET Keys
    BY DEF Present
  <2>6. \A k \in Present(sessions) : sessions[k].status # "Absent"
    BY DEF Present
  <2> QED
    BY <1>1, <2>2, <2>3, <2>4, <2>5, <2>6, SweepFollows
<1> QED
  BY <1>2, <1>3, <1>4 DEF Maintain

(* Both steps of the purges keep every status.                             *)
LEMMA PurgeFollows ==
    ASSUME Safe, NEW kind \in PurgeKinds, PurgeRows(kind) \/ PurgeRegistry(kind)
    PROVE  Follows
<1>1. ASSUME NEW table \in [Keys -> Sessions]
      PROVE  /\ NoMetrics(table) \in [Keys -> Sessions]
             /\ \A k \in Keys : NoMetrics(table)[k].status = table[k].status
  BY <1>1 DEF NoMetrics, Sessions
<1>2. /\ sessions' \in {sessions, NoMetrics(sessions)}
      /\ rows' \in {rows, NoMetrics(rows)}
      /\ clock' = clock
  BY DEF PurgeRows, PurgeRegistry, memVars, dbVars
<1> QED
  BY <1>1, <1>2 DEF Safe, Tables, Follows

(* All rows fit, so a restart restores all of them.                        *)
LEMMA RestartSafe == Safe /\ Restart => Safe'
<1> SUFFICES ASSUME Safe, Restart PROVE Safe'
  OBVIOUS
<1>1. PICK kept \in Restorable : sessions' = Without(rows, Keys \ kept, NoSession)
  BY DEF Restart
<1>2. rows' = rows /\ clock' = clock
  BY DEF Restart, dbVars
<1>3. /\ kept \in SUBSET Present(rows)
      /\ kept = Present(rows) \/ Cardinality(kept) = MaxSessions
  BY DEF Restorable
<1>4. Cardinality(Present(rows)) <= MaxSessions
  <2>1. Present(rows) \in SUBSET Present(sessions)
    BY DEF Safe, Agree, Present
  <2>2. Cardinality(Present(rows)) <= Cardinality(Present(sessions))
    BY <2>1, PresentFinite, FS_Subset
  <2> QED
    BY <2>2, PresentFinite, BoundsAssumption DEF Safe, Within
<1>5. kept = Present(rows)
  <2>1. CASE Cardinality(kept) = MaxSessions
    <3>1. Cardinality(kept) <= Cardinality(Present(rows))
      BY <1>3, PresentFinite, FS_Subset
    <3>2. Cardinality(kept) = Cardinality(Present(rows))
      BY <2>1, <3>1, <1>4, PresentFinite, BoundsAssumption
    <3> QED
      BY <3>2, <1>3, PresentFinite, FS_Subset
  <2> QED
    BY <1>3, <2>1
<1>6. \A k \in Keys : sessions'[k] = IF k \in Present(rows) THEN rows[k] ELSE NoSession
  BY <1>1, <1>5 DEF Without
<1>7. Tables'
  BY <1>1, <1>2, NoSessionFacts DEF Safe, Tables, Without
<1>8. Agree'
  BY <1>2, <1>6 DEF Agree, Present, Terminal
<1>9. Present(sessions)' = Present(rows)
  BY <1>6, NoSessionFacts DEF Present
<1>10. Within'
  BY <1>4, <1>9 DEF Within
<1> QED
  BY <1>7, <1>8, <1>10 DEF Safe

(***************************************************************************)
(* The theorems                                                            *)
(***************************************************************************)
(* Both tables start empty.                                                *)
LEMMA InitSafe == Init => Safe
<1> SUFFICES ASSUME Init PROVE Safe
  OBVIOUS
<1>1. Tables
  BY NoSessionFacts, BoundsAssumption DEF Init, Tables, Times
<1>2. Agree
  BY NoSessionFacts DEF Init, Agree, Terminal
<1>3. Present(sessions) = {}
  BY NoSessionFacts DEF Init, Present
<1>4. Within
  BY <1>3, FS_EmptySet, BoundsAssumption DEF Within
<1> QED
  BY <1>1, <1>2, <1>4 DEF Safe

(* One case for each disjunct of Next.                                     *)
LEMMA NextSafe == Safe /\ [Next]_vars => Safe'
<1> SUFFICES ASSUME Safe, [Next]_vars PROVE Safe'
  OBVIOUS
<1>1. CASE Ingest
  BY <1>1, IngestSafe
<1>2. CASE Maintain
  BY <1>2, MaintainFollows, FollowsSafe
<1>3. CASE Restart
  BY <1>3, RestartSafe
<1>4. CASE TimePasses
  <2>1. clock' \in Times /\ sessions' = sessions /\ rows' = rows
    BY <1>4, BoundsAssumption DEF TimePasses, memVars, dbVars, Safe, Tables, Times
  <2> QED
    BY <2>1, FrameFollows, FollowsSafe
<1>5. CASE \E kind \in PurgeKinds : PurgeRows(kind) \/ PurgeRegistry(kind)
  BY <1>5, PurgeFollows, FollowsSafe
<1>6. CASE UNCHANGED vars
  BY <1>6, FrameFollows, FollowsSafe DEF vars, memVars, dbVars, Safe, Tables
<1> QED
  BY <1>1, <1>2, <1>3, <1>4, <1>5, <1>6 DEF Next

(* The inductive invariant holds in every reachable state.                 *)
LEMMA AlwaysSafe == Spec => []Safe
BY InitSafe, NextSafe, PTL DEF Spec

(* Whatever commands arrive, whatever statement of the database fails and  *)
(* whenever the process restarts, every stored session is in the registry, *)
(* and the registry holds at most MAX_SESSIONS: a start of the process     *)
(* restores every stored session.                                          *)
THEOREM AllRestored == Spec => []NoSessionIsLeftOut
<1>1. Safe => NoSessionIsLeftOut
  BY DEF Safe, Agree, Within, NoSessionIsLeftOut, Present
<1> QED
  BY <1>1, AlwaysSafe, PTL

(* Under the same conditions a session stored as finished stays finished   *)
(* in the registry: no later command, pass or restart revives it.          *)
THEOREM EndsAreFinal == Spec => []StoredEndIsFinal
<1>1. Safe => StoredEndIsFinal
  BY DEF Safe, Agree, StoredEndIsFinal, is_terminal
<1> QED
  BY <1>1, AlwaysSafe, PTL
================================================================================
