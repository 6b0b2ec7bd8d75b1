----------------------------- MODULE DecisionHost -----------------------------
(***************************************************************************)
(* The interactive decision path from end to end: the hook process that    *)
(* asks, the connection task of the IPC server that forwards its request   *)
(* and writes the answer, the host's IPC loop that runs the broker, the    *)
(* dashboard that polls and submits, and a crash of the host.              *)
(***************************************************************************)
EXTENDS DecisionBroker, Sequences

CONSTANTS
    ReadTimeout,    \* READ_TIMEOUT_MS of the framing layer, in clock ticks
    HostMayCrash    \* whether the host process may crash and start again

ASSUME ReadTimeoutAssumption == ReadTimeout \in Nat \ {0}

VARIABLES
    hook,       \* where each hook process is
    hookTimer,  \* ticks left until its client stops waiting for the reply
    out,        \* what it printed for the agent, or "none"
    conn,       \* where the connection task of each hook is
    connTimer,  \* ticks left until that task stops waiting for the broker
    chan,       \* the decision channel into the host's IPC loop
    mail,       \* the oneshot that carries the broker's reply, or "none"
    sock        \* the DecisionReply written to the hook's socket, or "none"

pathVars == <<hook, hookTimer, out, conn, connTimer, chan, mail, sock>>
vars == <<brokerVars, pathVars>>

HookPcs == {"off", "ingest", "ready", "waiting", "gaveup", "done"}
ConnPcs == {"none", "sent", "queued", "confirm", "confirmed", "fail", "failed", "done"}

Born == {r \in Requests : hook[r] # "off"}
Connected(r) == hook[r] \in {"waiting", "gaveup"}

(***************************************************************************)
(* The hook process                                                        *)
(***************************************************************************)
(* request_decision reads its reply under DECISION_FAIL_OPEN_TIMEOUT_MS,   *)
(* but the frame reader gives up on its own after READ_TIMEOUT_MS.         *)
HookWait == IF ReadTimeout < WaitTimeout THEN ReadTimeout ELSE WaitTimeout

(* The payload is stamped, then the attention event is sent ahead of it.   *)
HookPlan(r) ==
    /\ hook[r] = "off" /\ hook' = [hook EXCEPT ![r] = "ingest"]
    /\ UNCHANGED <<brokerVars, hookTimer, out, conn, connTimer, chan, mail, sock>>

(* The host accepts an ingest only between two decision waits.             *)
HookIngested(r) ==
    /\ hook[r] = "ingest" /\ conn[r] = "none" /\ WaitAt("idle")
    /\ hook' = [hook EXCEPT ![r] = "ready"]
    /\ UNCHANGED <<brokerVars, hookTimer, out, conn, connTimer, chan, mail, sock>>

HookNeutral(r, pc) ==
    /\ hook' = [hook EXCEPT ![r] = pc] /\ out' = [out EXCEPT ![r] = Neutral]
    /\ hookTimer' = [hookTimer EXCEPT ![r] = HookWait]
    /\ UNCHANGED <<brokerVars, conn, connTimer, chan, mail, sock>>

(* No descriptor, a refused or unacknowledged ingest, or a failed connect. *)
HookFailsEarly(r) == hook[r] \in {"ingest", "ready"} /\ HookNeutral(r, "done")

RequestDecision(r) ==
    /\ hook[r] = "ready" /\ conn[r] = "none"
    /\ hook' = [hook EXCEPT ![r] = "waiting"]
    /\ conn' = [conn EXCEPT ![r] = "sent"]
    /\ UNCHANGED <<brokerVars, hookTimer, out, connTimer, chan, mail, sock>>

HookReads(r) ==
    /\ hook[r] = "waiting" /\ sock[r] # "none"
    /\ hook' = [hook EXCEPT ![r] = "done"] /\ out' = [out EXCEPT ![r] = sock[r]]
    /\ hookTimer' = [hookTimer EXCEPT ![r] = HookWait]
    /\ UNCHANGED <<brokerVars, conn, connTimer, chan, mail, sock>>

(* The read times out; the socket closes only when the stream is dropped.  *)
HookTimesOut(r) ==
    hook[r] = "waiting" /\ hookTimer[r] = 0 /\ sock[r] = "none" /\ HookNeutral(r, "gaveup")

HookCloses(r) ==
    /\ hook[r] = "gaveup" /\ hook' = [hook EXCEPT ![r] = "done"]
    /\ UNCHANGED <<brokerVars, hookTimer, out, conn, connTimer, chan, mail, sock>>

HookDisconnected(r) ==
    hook[r] = "waiting" /\ conn[r] = "done" /\ sock[r] = "none" /\ HookNeutral(r, "done")

(***************************************************************************)
(* The connection task of the IPC server                                   *)
(***************************************************************************)
(* The frame is read even when its sender has gone.  The channel holds 64  *)
(* requests and at most 16 connections exist, so the send never waits.     *)
ServerQueues(r) ==
    /\ conn[r] = "sent" /\ conn' = [conn EXCEPT ![r] = "queued"]
    /\ chan' = Append(chan, r)
    /\ UNCHANGED <<brokerVars, hook, hookTimer, out, connTimer, mail, sock>>

(* The task stops waiting for the broker and goes on to pc.                *)
ServerLeaves(r, pc) ==
    /\ conn[r] = "queued" /\ conn' = [conn EXCEPT ![r] = pc]
    /\ connTimer' = [connTimer EXCEPT ![r] = WaitTimeout]
    /\ mail' = [mail EXCEPT ![r] = "none"]
    /\ UNCHANGED <<brokerVars, hook, hookTimer, out, chan>>

(* Mutant: the written reply is reported as a failed write.                *)
ServerWrites_misreported(r) ==
    /\ mail[r] # "none" /\ Connected(r) /\ ServerLeaves(r, "fail")
    /\ sock' = [sock EXCEPT ![r] = mail[r]]

ServerWrites(r) ==
    /\ mail[r] # "none" /\ Connected(r) /\ ServerLeaves(r, "confirm")
    /\ sock' = [sock EXCEPT ![r] = mail[r]]

(* Certain once the hook has closed its end, possible before.              *)
ServerWriteFails(r) ==
    mail[r] # "none" /\ ServerLeaves(r, "fail") /\ UNCHANGED sock

(* Mutant: the neutral reply after a timeout is confirmed like any other.  *)
ServerTimesOut_confirms(r) ==
    /\ mail[r] = "none" /\ connTimer[r] = 0 /\ ServerLeaves(r, "confirm")
    /\ sock' = IF Connected(r) THEN [sock EXCEPT ![r] = Neutral] ELSE sock

(* The broker is late: a neutral reply, and no word to the broker.         *)
ServerTimesOut(r) ==
    /\ mail[r] = "none" /\ connTimer[r] = 0 /\ ServerLeaves(r, "done")
    /\ sock' = IF Connected(r) THEN [sock EXCEPT ![r] = Neutral] ELSE sock

(* Mutant: a report the broker refuses is kept for another try.            *)
Report_retries(r, from, state, next) ==
    /\ conn[r] = from /\ Finalizable(NonceOf(r))
    /\ Finalize(NonceOf(r), state) /\ conn' = [conn EXCEPT ![r] = next]
    /\ UNCHANGED <<hook, hookTimer, out, connTimer, chan, mail, sock>>

(* The host ignores what confirm_delivery and fail_delivery return.        *)
Report(r, from, state, next) ==
    /\ conn[r] = from
    /\ IF Finalizable(NonceOf(r))
       THEN Finalize(NonceOf(r), state) /\ conn' = [conn EXCEPT ![r] = next]
       ELSE conn' = [conn EXCEPT ![r] = "done"] /\ UNCHANGED brokerVars
    /\ UNCHANGED <<hook, hookTimer, out, connTimer, chan, mail, sock>>

confirm_delivery(r) == Report(r, "confirm", "Delivered", "confirmed")

(* Mutant: the failure is written without a look at the decision's state.  *)
fail_delivery_unchecked(r) ==
    /\ conn[r] = "fail" /\ conn' = [conn EXCEPT ![r] = "done"]
    /\ update_delivery(NonceOf(r), "Failed", "none")
    /\ UNCHANGED <<active, waiters, wait, ui, left, accepted>>
    /\ UNCHANGED <<hook, hookTimer, out, connTimer, chan, mail, sock>>

fail_delivery(r) == Report(r, "fail", "Failed", "failed")

DeliveryRemoves(r) ==
    /\ conn[r] \in {"confirmed", "failed"} /\ conn' = [conn EXCEPT ![r] = "done"]
    /\ RemoveActive(NonceOf(r))
    /\ UNCHANGED <<hook, hookTimer, out, connTimer, chan, mail, sock>>

(***************************************************************************)
(* The host's IPC loop                                                     *)
(***************************************************************************)
LoopTakes ==
    /\ chan # << >> /\ HandleWait(Head(chan)) /\ chan' = Tail(chan)
    /\ UNCHANGED <<hook, hookTimer, out, conn, connTimer, mail, sock>>

(* The reply is lost when the connection task has stopped waiting for it.  *)
LoopReplies ==
    /\ WaitReturn
    /\ mail' = IF conn[wait.req] = "queued"
               THEN [mail EXCEPT ![wait.req] = wait.reply.stdout] ELSE mail
    /\ UNCHANGED <<hook, hookTimer, out, conn, connTimer, chan, sock>>

(***************************************************************************)
(* The dashboard                                                           *)
(***************************************************************************)
(* It polls the list; the user answers what a poll has shown, and the list *)
(* may have changed by the time the command runs.                          *)
UiSubmits(n, response) == n \in list_pending /\ Submit(n, response) /\ UNCHANGED pathVars

(***************************************************************************)
(* Time, and a crash of the host.  A timer that is not running holds its   *)
(* full duration.                                                          *)
(***************************************************************************)
Ticking ==
    \/ \E r \in Born : left[r] > 0
    \/ \E r \in Requests : hook[r] = "waiting" /\ hookTimer[r] > 0
    \/ \E r \in Requests : conn[r] = "queued" /\ connTimer[r] > 0
    \/ WaitAt("select") /\ wait.timer > 0

Tick ==
    /\ Ticking /\ BrokerTick(Born)
    /\ hookTimer' = [r \in Requests |->
         IF hook[r] = "waiting" THEN Countdown(hookTimer[r]) ELSE hookTimer[r]]
    /\ connTimer' = [r \in Requests |->
         IF conn[r] = "queued" THEN Countdown(connTimer[r]) ELSE connTimer[r]]
    /\ UNCHANGED <<hook, out, conn, chan, mail, sock>>

(* The sockets close with the process, and the descriptor a hook has read  *)
(* no longer names a server it could authenticate to.                      *)
HostRestarts ==
    /\ HostMayCrash
    /\ BrokerRestart
    /\ conn' = [r \in Requests |-> 
                IF hook[r] \in {"off", "ingest"} THEN conn[r] ELSE "done"]
    /\ chan' = << >> /\ mail' = [r \in Requests |-> "none"]
    /\ connTimer' = [r \in Requests |-> WaitTimeout]
    /\ UNCHANGED <<hook, hookTimer, out, sock>>

(***************************************************************************)
(* The specification                                                       *)
(***************************************************************************)
Init ==
    /\ BrokerInit
    /\ hook = [r \in Requests |-> "off"]
    /\ hookTimer = [r \in Requests |-> HookWait]
    /\ out = [r \in Requests |-> "none"]
    /\ conn = [r \in Requests |-> "none"]
    /\ connTimer = [r \in Requests |-> WaitTimeout]
    /\ chan = << >>
    /\ mail = [r \in Requests |-> "none"]
    /\ sock = [r \in Requests |-> "none"]

HookStep(r) ==
    \/ HookReads(r) \/ HookTimesOut(r) \/ HookCloses(r) \/ HookDisconnected(r)

ConnStep(r) ==
    \/ ServerQueues(r) \/ ServerWrites(r) \/ ServerWriteFails(r)
    \/ ServerTimesOut(r) \/ confirm_delivery(r) \/ fail_delivery(r)
    \/ DeliveryRemoves(r)

LoopStep == LoopTakes \/ LoopReplies \/ (WaitStep /\ UNCHANGED pathVars)

Next ==
    \/ \E r \in Requests :
          \/ HookPlan(r) \/ HookIngested(r) \/ HookFailsEarly(r) \/ RequestDecision(r)
          \/ HookStep(r) \/ ConnStep(r)
    \/ LoopStep
    \/ \E n \in Nonces, response \in Responses : UiSubmits(n, response)
    \/ SubmitStep /\ UNCHANGED pathVars
    \/ \E n \in Nonces : observe_effect(n) /\ UNCHANGED pathVars
    \/ Tick
    \/ HostRestarts

Spec == Init /\ [][Next]_vars

(* The tokio runtime polls every ready task, timers fire, and a process    *)
(* keeps running.  Nothing makes an agent ask, a user answer, or a host    *)
(* crash.                                                                  *)
Fairness ==
    /\ WF_vars(LoopStep) /\ WF_vars(SubmitStep /\ UNCHANGED pathVars) /\ WF_vars(Tick)
    /\ \A r \in Requests : WF_vars(HookStep(r)) /\ WF_vars(ConnStep(r))

FairSpec == Spec /\ Fairness

-----------------------------------------------------------------------------
(* Every variable holds what its Rust counterpart can hold.                *)
TypeOK ==
    /\ BrokerTypeOK
    /\ hook \in [Requests -> HookPcs] /\ conn \in [Requests -> ConnPcs]
    /\ hookTimer \in [Requests -> 0..WaitTimeout]
    /\ connTimer \in [Requests -> 0..WaitTimeout]
    /\ out \in [Requests -> Stdouts \cup {"none"}]
    /\ mail \in [Requests -> Stdouts \cup {"none"}]
    /\ sock \in [Requests -> Stdouts \cup {"none"}]
    /\ chan \in Seq(Requests)

(* A hook prints Allow or Deny only if the user chose it: whatever times   *)
(* out, fails, crashes or is overtaken, the output is that choice or {}.   *)
OutputIsTheChoice ==
    \A r \in Requests : out[r] \in Responses => out[r] \in accepted[NonceOf(r)]

(* The map never keeps an open decision that no handle_wait call is going  *)
(* to close: once the call that registered it is past its timeout, or the  *)
(* loop is idle, nobody can answer a decision nobody waits for.            *)
NoOrphanedDecision ==
    \A n \in Nonces : active[n].state = "Pending" =>
        /\ wait.pc \in {"arm", "select", "expire", "read", "retain", "remove"}
        /\ NonceOf(wait.req) = n

(* The audit table claims a delivery only for a choice that was really     *)
(* written to the socket of the hook that asked, never for a neutral reply *)
(* (the server confirms every reply it writes, whatever it says).          *)
DeliveredWasWritten ==
    \A n \in Nonces : audit[n].state \in {"Delivered", "EffectObserved"} =>
        \E r \in Requests : NonceOf(r) = n /\ sock[r] \in accepted[n]

(* A finished decision stays finished in the audit table: no late timer,   *)
(* late submission or late report rewrites how it ended.                   *)
AuditIsFinal ==
    [][\A n \in Nonces : is_terminal(audit[n].state) =>
          \/ audit'[n].state = audit[n].state
          \/ audit[n].state = "Delivered" /\ audit'[n].state = "EffectObserved"]_vars

(* One nonce, one answer: a decision is never put to the user again after  *)
(* an answer to it was accepted.                                           *)
OneAnswerPerNonce == \A n \in Nonces : Cardinality(accepted[n]) <= 1

(* A decision that can still be answered has a hook waiting for it.        *)
OpenDecisionHasHook ==
    \A n \in Nonces : active[n].state = "Pending" /\ left[active[n].req] > 0 =>
        hook[active[n].req] = "waiting"

(* The IPC loop always comes back from a decision wait, also when the wake *)
(* of the waiter was lost.                                                 *)
LoopComesBack == wait.pc # "idle" ~> wait.pc = "idle"

(* Every connection task ends, and gives its client permit back.           *)
ConnectionEnds == \A r \in Requests : conn[r] = "sent" ~> conn[r] = "done"

(* An accepted answer ends as delivered, failed or expired.                *)
AnswerIsSettled ==
    \A n \in Nonces : accepted[n] # {} ~> is_terminal(audit[n].state)

-----------------------------------------------------------------------------
(* The decision of request r, as the audit table and the accepted answers  *)
(* tell it.                                                                *)
PhaseOf(r) ==
    LET n == NonceOf(r)
    IN IF ~is_terminal(audit[n].state) /\ accepted[n] # {} THEN "Chosen"
       ELSE audit[n].state

AnswerOf(r) ==
    LET given == accepted[NonceOf(r)]
    IN IF given = {} THEN "none" ELSE CHOOSE a \in given : TRUE

Lifecycle == INSTANCE DecisionLifecycle WITH
    Decisions <- Requests, Answers <- Responses, Empty <- Neutral,
    phase <- [r \in Requests |-> PhaseOf(r)],
    answer <- [r \in Requests |-> AnswerOf(r)],
    output <- out

(* With a nonce per request and an audit table that keeps what is written  *)
(* to it, every step of the path is a step of the promised life cycle.     *)
ImplementsLifecycle == Lifecycle!LifecycleSpec

=============================================================================
