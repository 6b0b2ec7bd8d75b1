---------------------------- MODULE DecisionBroker ----------------------------
(***************************************************************************)
(* The interactive decision broker of crates/notch-decision: the map of    *)
(* active decisions, the map of waiters, the audit table, and the steps of *)
(* every operation on them.  A step is what the code does under one        *)
(* acquisition of one lock; between two steps any other thread may run.    *)
(*                                                                         *)
(* handle_wait is awaited inline by the host's IPC loop, so one call is in *)
(* progress at a time (`wait').  submit_decision is a synchronous Tauri    *)
(* command, run on the main thread, so one call is in progress at a time   *)
(* (`ui').  confirm_delivery and fail_delivery are called by the           *)
(* connection tasks; the steps of their callers are in DecisionHost.       *)
(***************************************************************************)
EXTENDS Naturals, FiniteSets

CONSTANTS
    Requests,       \* the decision waits that reach the host
    Nonces,         \* the request ids they carry
    Payload,        \* what each of them carries
    WaitTimeout,    \* DECISION_FAIL_OPEN_TIMEOUT_MS, in clock ticks
    StoreMayFail    \* whether a write to the audit table may be lost

Responses == {"Allow", "Deny"}
Neutral == "{}"
Stdouts == Responses \cup {Neutral}
Sources == {"claudeCode", "other"}
Hooks == {"permissionRequest", "exitPlanMode", "unknown", "absent"}

(* The part of DecisionWaitPayload that the broker's control depends on.   *)
Payloads == [nonce : Nonces, connection : {"a", "b"}, actionable : BOOLEAN,
             source : Sources, hook : Hooks, versionKnown : BOOLEAN,
             inputIsObject : BOOLEAN]

ASSUME PayloadAssumption == Payload \in [Requests -> Payloads]
ASSUME TimeoutAssumption == WaitTimeout \in Nat \ {0}
ASSUME StoreAssumption == StoreMayFail \in BOOLEAN

NonceOf(r) == Payload[r].nonce

VARIABLES
    active,     \* nonce -> ActiveDecision, or NoEntry
    waiters,    \* the nonces with a Notify in the waiters map
    audit,      \* nonce -> row of decision_audit, or NoRow
    wait,       \* the handle_wait call in progress
    ui,         \* the submit_decision call in progress
    left,       \* ticks left until each request's expires_at_ms
    accepted    \* nonce -> the responses for which submit_decision said Ok

brokerVars == <<active, waiters, audit, wait, ui, left, accepted>>

InternalStates ==
    {"Pending", "Chosen", "Delivered", "EffectObserved", "Expired", "Failed"}
WireStates == InternalStates \ {"Chosen"}

NoEntry == [state |-> "none"]
NoRow == [state |-> "none"]
ActiveDecisions == [state : InternalStates, req : Requests, stdout : Stdouts]
Rows == [state : WireStates, req : Requests, response : Responses \cup {"none"}]
Replies == [stdout : Stdouts, state : WireStates]

WaitIdle == [pc |-> "idle"]
UiIdle == [pc |-> "idle"]
WaitPcs == {"lookup", "audit", "notify", "insert", "arm", "select", "expire",
            "reinsert", "finalize", "read", "retain", "remove", "unwait",
            "return"}
WaitCalls == [pc : WaitPcs, req : Requests, woken : BOOLEAN, timer : 0..WaitTimeout,
              reply : Replies, entry : ActiveDecisions \cup {NoEntry}]
SubmitCalls == [pc : {"clock", "lock", "finalize", "remove", "wake"},
                nonce : Nonces, response : Responses, late : SUBSET Requests]

(***************************************************************************)
(* types.rs                                                                *)
(***************************************************************************)
(* Mutant: the internal state shown as it is.                              *)
wire_state_internal(s) == s

wire_state(s) == IF s = "Chosen" THEN "Pending" ELSE s

is_terminal(s) == s \in {"Delivered", "EffectObserved", "Expired", "Failed"}

(***************************************************************************)
(* The audit table.  Both statements keep a response already recorded; an  *)
(* update of a missing row changes nothing; the callers ignore errors.     *)
(***************************************************************************)
StoreWrite(table) == audit' = table \/ (StoreMayFail /\ audit' = audit)

upsert_active(r) ==
    LET n == NonceOf(r)
    IN StoreWrite([audit EXCEPT ![n] =
           IF @ = NoRow THEN [state |-> "Pending", req |-> r, response |-> "none"]
           ELSE [@ EXCEPT !.state = "Pending"]])

update_delivery(n, state, response) ==
    StoreWrite(IF audit[n] = NoRow THEN audit
               ELSE [audit EXCEPT ![n].state = state,
                        ![n].response = IF response = "none" THEN @ ELSE response])

(* What list_pending shows the user: rows still Pending, and active        *)
(* decisions still Pending, whose expiry has not passed.                   *)
list_pending ==
    {n \in Nonces :
        \/ audit[n] # NoRow /\ audit[n].state = "Pending" /\ left[audit[n].req] > 0
        \/ active[n] # NoEntry /\ active[n].state = "Pending" /\ left[active[n].req] > 0}

(***************************************************************************)
(* The vendor output for a response, or the kind of error that building it *)
(* reports.  An ExitPlanMode approval needs the tool input as an object.   *)
(***************************************************************************)
build_vendor_stdout(p, response) ==
    IF p.source # "claudeCode" \/ p.hook = "absent" THEN "CapabilityDisabled"
    ELSE IF p.hook = "unknown" THEN "UnsupportedHook"
    ELSE IF ~p.versionKnown THEN "CapabilityDisabled"
    ELSE IF p.hook = "exitPlanMode" /\ response = "Allow" /\ ~p.inputIsObject
         THEN "BuildFailed"
    ELSE response

(***************************************************************************)
(* Replies to the hook                                                     *)
(***************************************************************************)
neutral_reply(state) == [stdout |-> Neutral, state |-> state]

(* Mutant: a decision that has gone falls back to Allow.                   *)
reply_fallback_allow(e) ==
    IF e = NoEntry THEN [stdout |-> "Allow", state |-> "Expired"]
    ELSE IF e.state \in {"Chosen", "Delivered"}
         THEN [stdout |-> e.stdout, state |-> wire_state(e.state)]
    ELSE neutral_reply("Expired")

reply_for_active(e) ==
    IF e = NoEntry THEN neutral_reply("Expired")
    ELSE IF e.state \in {"Chosen", "Delivered"}
         THEN [stdout |-> e.stdout, state |-> wire_state(e.state)]
    ELSE IF e.state \in {"Failed", "EffectObserved"} THEN neutral_reply(e.state)
    ELSE neutral_reply("Expired")

replay_terminal(e) ==
    IF e.state = "Delivered" THEN [stdout |-> e.stdout, state |-> "Delivered"]
    ELSE IF e.state = "Failed" THEN neutral_reply("Failed")
    ELSE neutral_reply("Expired")

(* notify_waiters wakes only a Notified future that exists already.        *)
WakenBy(n) ==
    IF n \in waiters /\ wait.pc = "select" /\ NonceOf(wait.req) = n
    THEN [wait EXCEPT !.woken = TRUE] ELSE wait

wake_waiter(n) == waiters' = waiters \ {n} /\ wait' = WakenBy(n)

(***************************************************************************)
(* handle_wait, one action per lock acquisition                            *)
(***************************************************************************)
WaitAt(pc) == wait.pc = pc
WaitGoto(pc) == wait' = [wait EXCEPT !.pc = pc]
WaitNonce == NonceOf(wait.req)

HandleWait(r) ==
    /\ WaitAt("idle")
    /\ wait' = [pc |-> "lookup", req |-> r, woken |-> FALSE, timer |-> WaitTimeout,
                reply |-> neutral_reply("Expired"), entry |-> NoEntry]
    /\ UNCHANGED <<active, waiters, audit, ui, left, accepted>>

(* An entry bound to another connection fails open, a finished one is      *)
(* replayed; a Pending or Chosen one is about to be overwritten.           *)
WaitLookup ==
    /\ WaitAt("lookup")
    /\ LET e == active[WaitNonce]
       IN wait' =
            IF e = NoEntry THEN [wait EXCEPT !.pc = "audit"]
            ELSE IF Payload[e.req].connection # Payload[wait.req].connection
                 THEN [wait EXCEPT !.pc = "return", !.reply = neutral_reply("Failed")]
            ELSE IF is_terminal(e.state)
                 THEN [wait EXCEPT !.pc = "return", !.reply = replay_terminal(e)]
            ELSE [wait EXCEPT !.pc = "audit"]
    /\ UNCHANGED <<active, waiters, audit, ui, left, accepted>>

WaitAudit ==
    /\ WaitAt("audit") /\ WaitGoto("notify")
    /\ upsert_active(wait.req)
    /\ UNCHANGED <<active, waiters, ui, left, accepted>>

WaitNotify ==
    /\ WaitAt("notify") /\ WaitGoto("insert")
    /\ waiters' = waiters \cup {WaitNonce}
    /\ UNCHANGED <<active, audit, ui, left, accepted>>

WaitInsert ==
    /\ WaitAt("insert") /\ WaitGoto("arm")
    /\ active' = [active EXCEPT ![WaitNonce] =
                    [state |-> "Pending", req |-> wait.req, stdout |-> Neutral]]
    /\ UNCHANGED <<waiters, audit, ui, left, accepted>>

(* notified() and sleep(): from here on a wake-up is not lost.             *)
WaitArm ==
    /\ WaitAt("arm") /\ WaitGoto("select")
    /\ UNCHANGED <<active, waiters, audit, ui, left, accepted>>

LeaveSelect(pc) ==
    wait' = [wait EXCEPT !.pc = pc, !.woken = FALSE, !.timer = WaitTimeout]

WaitWoken ==
    /\ WaitAt("select") /\ wait.woken /\ LeaveSelect("read")
    /\ UNCHANGED <<active, waiters, audit, ui, left, accepted>>

(* Mutants: the timeout returns without expiring the decision; the select  *)
(* has no timeout arm.                                                     *)
WaitTimedOut_leaves ==
    /\ WaitAt("select") /\ wait.timer = 0 /\ LeaveSelect("unwait")
    /\ UNCHANGED <<active, waiters, audit, ui, left, accepted>>

WaitTimedOut_never ==
    /\ WaitAt("select") /\ wait.timer = 0 /\ wait.woken /\ LeaveSelect("expire")
    /\ UNCHANGED <<active, waiters, audit, ui, left, accepted>>

WaitTimedOut ==
    /\ WaitAt("select") /\ wait.timer = 0 /\ LeaveSelect("expire")
    /\ UNCHANGED <<active, waiters, audit, ui, left, accepted>>

(* expire_decision: the entry is taken out of the map first; a terminal    *)
(* one is put back under a second acquisition of the lock.                 *)
expire_decision ==
    /\ WaitAt("expire")
    /\ LET e == active[WaitNonce]
       IN wait' = IF e = NoEntry THEN [wait EXCEPT !.pc = "read"]
                  ELSE IF is_terminal(e.state)
                       THEN [wait EXCEPT !.pc = "reinsert", !.entry = e]
                  ELSE [wait EXCEPT !.pc = "finalize"]
    /\ active' = [active EXCEPT ![WaitNonce] = NoEntry]
    /\ UNCHANGED <<waiters, audit, ui, left, accepted>>

WaitReinsert ==
    /\ WaitAt("reinsert")
    /\ wait' = [wait EXCEPT !.pc = "read", !.entry = NoEntry]
    /\ active' = [active EXCEPT ![WaitNonce] = wait.entry]
    /\ UNCHANGED <<waiters, audit, ui, left, accepted>>

WaitFinalize ==
    /\ WaitAt("finalize") /\ WaitGoto("read")
    /\ update_delivery(WaitNonce, "Expired", "none")
    /\ UNCHANGED <<active, waiters, ui, left, accepted>>

WaitRead ==
    /\ WaitAt("read")
    /\ wait' = [wait EXCEPT !.pc = "retain",
                            !.reply = reply_for_active(active[WaitNonce])]
    /\ UNCHANGED <<active, waiters, audit, ui, left, accepted>>

WaitRetain ==
    /\ WaitAt("retain")
    /\ WaitGoto(IF active[WaitNonce].state = "Chosen" THEN "unwait" ELSE "remove")
    /\ UNCHANGED <<active, waiters, audit, ui, left, accepted>>

WaitRemove ==
    /\ WaitAt("remove") /\ WaitGoto("unwait")
    /\ active' = [active EXCEPT ![WaitNonce] = NoEntry]
    /\ UNCHANGED <<waiters, audit, ui, left, accepted>>

WaitUnwait ==
    /\ WaitAt("unwait") /\ WaitGoto("return")
    /\ waiters' = waiters \ {WaitNonce}
    /\ UNCHANGED <<active, audit, ui, left, accepted>>

WaitReturn ==
    /\ WaitAt("return") /\ wait' = WaitIdle
    /\ UNCHANGED <<active, waiters, audit, ui, left, accepted>>

WaitStep ==
    \/ WaitLookup \/ WaitAudit \/ WaitNotify \/ WaitInsert \/ WaitArm
    \/ WaitWoken \/ WaitTimedOut \/ expire_decision \/ WaitReinsert
    \/ WaitFinalize \/ WaitRead \/ WaitRetain \/ WaitRemove \/ WaitUnwait

(***************************************************************************)
(* submit_decision.  The clock is read before the lock is taken; the three *)
(* steps of a late submission run after the lock is dropped.               *)
(***************************************************************************)
Submit(n, response) ==
    /\ ui.pc = "idle"
    /\ ui' = [pc |-> "clock", nonce |-> n, response |-> response, late |-> {}]
    /\ UNCHANGED <<active, waiters, audit, wait, left, accepted>>

Submitting(pc) == ui.pc = pc

SubmitReadsClock ==
    /\ Submitting("clock")
    /\ ui' = [ui EXCEPT !.pc = "lock", 
                       !.late = {r \in Requests : NonceOf(r) = ui.nonce /\ left[r] = 0}]
    /\ UNCHANGED <<active, waiters, audit, wait, left, accepted>>

(* Mutant: a chosen decision may be chosen again.                          *)
Submittable_again(e) == e # NoEntry /\ e.state \in {"Pending", "Chosen"}

Submittable(e) == e # NoEntry /\ e.state = "Pending"

SubmitRejected ==
    /\ Submitting("lock")
    /\ LET e == active[ui.nonce]
       IN Submittable(e) => e.req \notin ui.late /\ ~Payload[e.req].actionable
    /\ ui' = UiIdle
    /\ UNCHANGED <<active, waiters, audit, wait, left, accepted>>

SubmitTooLate ==
    /\ Submitting("lock")
    /\ Submittable(active[ui.nonce]) /\ active[ui.nonce].req \in ui.late
    /\ ui' = [ui EXCEPT !.pc = "finalize"]
    /\ UNCHANGED <<active, waiters, audit, wait, left, accepted>>

SubmitFinalize ==
    /\ Submitting("finalize") /\ ui' = [ui EXCEPT !.pc = "remove"]
    /\ update_delivery(ui.nonce, "Expired", "none")
    /\ UNCHANGED <<active, waiters, wait, left, accepted>>

SubmitRemove ==
    /\ Submitting("remove") /\ ui' = [ui EXCEPT !.pc = "wake"]
    /\ active' = [active EXCEPT ![ui.nonce] = NoEntry]
    /\ UNCHANGED <<waiters, audit, wait, left, accepted>>

SubmitWake ==
    /\ Submitting("wake") /\ ui' = UiIdle
    /\ wake_waiter(ui.nonce)
    /\ UNCHANGED <<active, audit, left, accepted>>

(* The choice is recorded or, when no vendor output can be built for it,   *)
(* the decision fails; both wake the waiter before the lock is dropped.    *)
SubmitDecided ==
    /\ Submitting("lock") /\ ui' = UiIdle
    /\ LET n == ui.nonce
           e == active[n]
           built == build_vendor_stdout(Payload[e.req], ui.response)
           chosen == built \in Responses
       IN /\ Submittable(e) /\ e.req \notin ui.late /\ Payload[e.req].actionable
          /\ active' = [active EXCEPT ![n] =
                [state |-> IF chosen THEN "Chosen" ELSE "Failed", req |-> e.req,
                 stdout |-> IF chosen THEN built ELSE Neutral]]
          /\ IF chosen THEN update_delivery(n, "Pending", ui.response)
             ELSE update_delivery(n, "Failed",
                    IF built = "CapabilityDisabled" THEN ui.response ELSE "none")
          /\ accepted' = IF chosen THEN [accepted EXCEPT ![n] = @ \cup {ui.response}]
                         ELSE accepted
          /\ wake_waiter(n)
    /\ UNCHANGED left

SubmitStep ==
    \/ SubmitReadsClock \/ SubmitRejected \/ SubmitTooLate \/ SubmitFinalize \/ SubmitRemove
    \/ SubmitWake \/ SubmitDecided

(***************************************************************************)
(* confirm_delivery and fail_delivery: the state changes under one         *)
(* acquisition of the lock, the entry is removed under a second one.       *)
(***************************************************************************)
Finalizable(n) == active[n] # NoEntry /\ active[n].state = "Chosen"

Finalize(n, state) ==
    /\ Finalizable(n)
    /\ active' = [active EXCEPT ![n] = [@ EXCEPT !.state = state]]
    /\ update_delivery(n, state, "none")
    /\ UNCHANGED <<waiters, wait, ui, left, accepted>>

RemoveActive(n) ==
    /\ active' = [active EXCEPT ![n] = NoEntry]
    /\ UNCHANGED <<waiters, audit, wait, ui, left, accepted>>

observe_effect(n) ==
    /\ active[n] # NoEntry /\ active[n].state = "Delivered"
    /\ active' = [active EXCEPT ![n] = [@ EXCEPT !.state = "EffectObserved"]]
    /\ update_delivery(n, "EffectObserved", "none")
    /\ UNCHANGED <<waiters, wait, ui, left, accepted>>

(***************************************************************************)
(* Time.  Every deadline is a countdown that stops at zero; what waits for *)
(* it may act at any moment after that.                                    *)
(***************************************************************************)
Countdown(t) == IF t = 0 THEN 0 ELSE t - 1

BrokerTick(born) ==
    /\ left' = [r \in Requests |-> IF r \in born THEN Countdown(left[r]) ELSE left[r]]
    /\ wait' = IF WaitAt("select") THEN [wait EXCEPT !.timer = Countdown(@)] ELSE wait
    /\ UNCHANGED <<active, waiters, audit, ui, accepted>>

(* DecisionBroker::open: only the audit table outlives the process.        *)
BrokerRestart ==
    /\ active' = [n \in Nonces |-> NoEntry] /\ waiters' = {}
    /\ wait' = WaitIdle /\ ui' = UiIdle
    /\ UNCHANGED <<audit, left, accepted>>

BrokerInit ==
    /\ active = [n \in Nonces |-> NoEntry] /\ waiters = {}
    /\ audit = [n \in Nonces |-> NoRow]
    /\ wait = WaitIdle /\ ui = UiIdle
    /\ left = [r \in Requests |-> WaitTimeout]
    /\ accepted = [n \in Nonces |-> {}]

(* The broker's share of the type invariant of DecisionHost.               *)
BrokerTypeOK ==
    /\ active \in [Nonces -> ActiveDecisions \cup {NoEntry}]
    /\ waiters \subseteq Nonces
    /\ audit \in [Nonces -> Rows \cup {NoRow}]
    /\ wait \in WaitCalls \cup {WaitIdle}
    /\ ui \in SubmitCalls \cup {UiIdle}
    /\ left \in [Requests -> 0..WaitTimeout]
    /\ accepted \in [Nonces -> SUBSET Responses]

=============================================================================
