---------------------------- MODULE DecisionProofs ----------------------------
(***************************************************************************)
(* Proofs about the decision path, for any number of requests, nonces and  *)
(* clock ticks, any payloads, any failures of the audit table, and any     *)
(* crashes of the host.                                                    *)
(***************************************************************************)
EXTENDS DecisionHost, TLAPS

(* A call in progress has all its fields.                                  *)
LEMMA CallTypes ==
    ASSUME BrokerTypeOK
    PROVE  /\ wait.pc # "idle" => wait \in WaitCalls
           /\ ui.pc # "idle" => ui \in SubmitCalls
BY DEF BrokerTypeOK, WaitIdle, UiIdle

LEMMA NonceType == ASSUME NEW r \in Requests PROVE NonceOf(r) \in Nonces
BY PayloadAssumption DEF Payloads, NonceOf

LEMMA StoreWriteType ==
    ASSUME BrokerTypeOK, NEW n \in Nonces, NEW state \in WireStates,
           NEW response \in Responses \cup {"none"},
           update_delivery(n, state, response)
    PROVE  audit' \in [Nonces -> Rows \cup {NoRow}]
BY DEF BrokerTypeOK, update_delivery, StoreWrite, Rows, NoRow

(* What reply_for_active and replay_terminal build is a reply.             *)
LEMMA ReplyType ==
    ASSUME NEW e \in ActiveDecisions \cup {NoEntry}
    PROVE  /\ reply_for_active(e) \in Replies
           /\ e # NoEntry => replay_terminal(e) \in Replies
           /\ \A s \in WireStates : neutral_reply(s) \in Replies
<1>1. \A s \in WireStates : neutral_reply(s) \in Replies
  BY DEF neutral_reply, Replies, Stdouts
<1>2. {"Expired", "Failed", "EffectObserved", "Pending", "Delivered"} \subseteq WireStates
  BY DEF WireStates, InternalStates
<1>3. e # NoEntry => e.stdout \in Stdouts
  BY DEF ActiveDecisions
<1>4. reply_for_active(e) \in Replies
  <2>1. CASE e # NoEntry /\ e.state \in {"Chosen", "Delivered"}
    BY <1>2, <1>3, <2>1 DEF reply_for_active, wire_state, Replies
  <2>2. CASE e # NoEntry /\ e.state \in {"Failed", "EffectObserved"}
    BY <1>1, <1>2, <2>2 DEF reply_for_active
  <2>3. CASE e = NoEntry \/ e.state \notin {"Chosen", "Delivered", "Failed", "EffectObserved"}
    BY <1>1, <1>2, <2>3 DEF reply_for_active
  <2> QED BY <2>1, <2>2, <2>3
<1>5. e # NoEntry => replay_terminal(e) \in Replies
  BY <1>1, <1>2, <1>3 DEF replay_terminal, Replies
<1> QED BY <1>1, <1>4, <1>5

LEMMA WaitStepType == BrokerTypeOK /\ WaitStep => BrokerTypeOK'
<1> SUFFICES ASSUME BrokerTypeOK, WaitStep PROVE BrokerTypeOK'
  OBVIOUS
<1>a. wait \in WaitCalls
  BY CallTypes DEF WaitStep, WaitAt, WaitLookup, WaitAudit, WaitNotify, WaitInsert,
     WaitArm, WaitWoken, WaitTimedOut, expire_decision, WaitReinsert, WaitFinalize,
     WaitRead, WaitRetain, WaitRemove, WaitUnwait
<1>b. wait.req \in Requests /\ WaitNonce \in Nonces
  BY <1>a, NonceType DEF WaitCalls, WaitNonce
<1>c. \A pc \in WaitPcs : [wait EXCEPT !.pc = pc] \in WaitCalls
  BY <1>a DEF WaitCalls
<1>d. \A pc \in WaitPcs, reply \in Replies :
         [wait EXCEPT !.pc = pc, !.reply = reply] \in WaitCalls
  BY <1>a DEF WaitCalls
<1>e. \A pc \in WaitPcs, e \in ActiveDecisions \cup {NoEntry} :
         [wait EXCEPT !.pc = pc, !.entry = e] \in WaitCalls
  BY <1>a DEF WaitCalls
<1>f. \A pc \in WaitPcs :
         [wait EXCEPT !.pc = pc, !.woken = FALSE, !.timer = WaitTimeout] \in WaitCalls
  <2>1. WaitTimeout \in 0..WaitTimeout
    BY TimeoutAssumption
  <2> QED BY <1>a, <2>1, Zenon DEF WaitCalls
<1>g. active[WaitNonce] \in ActiveDecisions \cup {NoEntry}
  BY <1>b DEF BrokerTypeOK
<1>h. wait.entry \in ActiveDecisions \cup {NoEntry}
  BY <1>a DEF WaitCalls
<1> USE DEF WaitAt, WaitGoto, BrokerTypeOK, WaitPcs
<1>1. CASE WaitLookup
  <2>1. "Failed" \in WireStates
    BY DEF WireStates, InternalStates
  <2>2. wait' \in WaitCalls
    BY <1>1, <1>c, <1>d, <1>g, <2>1, ReplyType DEF WaitLookup
  <2> QED BY <1>1, <2>2 DEF WaitLookup
<1>2. CASE WaitAudit
  <2>1. [state |-> "Pending", req |-> wait.req, response |-> "none"] \in Rows
    BY <1>b DEF Rows, WireStates, InternalStates
  <2>2. \A row \in Rows : [row EXCEPT !.state = "Pending"] \in Rows
    BY DEF Rows, WireStates, InternalStates
  <2>3. audit' \in [Nonces -> Rows \cup {NoRow}]
    BY <1>2, <1>b, <2>1, <2>2 DEF WaitAudit, upsert_active, StoreWrite, WaitNonce
  <2> QED BY <1>2, <1>c, <2>3 DEF WaitAudit
<1>3. CASE WaitNotify
  BY <1>3, <1>b, <1>c DEF WaitNotify
<1>4. CASE WaitInsert
  <2>1. [state |-> "Pending", req |-> wait.req, stdout |-> Neutral] \in ActiveDecisions
    BY <1>b DEF ActiveDecisions, InternalStates, Stdouts
  <2> QED BY <1>4, <1>b, <1>c, <2>1 DEF WaitInsert
<1>5. CASE WaitArm
  BY <1>5, <1>c DEF WaitArm
<1>6. CASE WaitWoken
  BY <1>6, <1>f DEF WaitWoken, LeaveSelect
<1>7. CASE WaitTimedOut
  BY <1>7, <1>f DEF WaitTimedOut, LeaveSelect
<1>8. CASE expire_decision
  BY <1>8, <1>b, <1>c, <1>e, <1>g DEF expire_decision
<1>9. CASE WaitReinsert
  BY <1>9, <1>b, <1>e, <1>h DEF WaitReinsert
<1>10. CASE WaitFinalize
  <2>1. audit' \in [Nonces -> Rows \cup {NoRow}]
    BY <1>10, <1>b, StoreWriteType DEF WaitFinalize, WireStates, InternalStates
  <2> QED BY <1>10, <1>c, <2>1 DEF WaitFinalize
<1>11. CASE WaitRead
  BY <1>11, <1>d, <1>g, ReplyType DEF WaitRead
<1>12. CASE WaitRetain
  BY <1>12, <1>c DEF WaitRetain
<1>13. CASE WaitRemove
  BY <1>13, <1>b, <1>c DEF WaitRemove
<1>14. CASE WaitUnwait
  BY <1>14, <1>c DEF WaitUnwait
<1> QED
  BY <1>1, <1>2, <1>3, <1>4, <1>5, <1>6, <1>7, <1>8, <1>9, <1>10, <1>11, <1>12, <1>13, <1>14
     DEF WaitStep

LEMMA SubmitStepType == BrokerTypeOK /\ SubmitStep => BrokerTypeOK'
<1> SUFFICES ASSUME BrokerTypeOK, SubmitStep PROVE BrokerTypeOK'
  OBVIOUS
<1>a. ui \in SubmitCalls
  BY CallTypes DEF SubmitStep, Submitting, SubmitReadsClock, SubmitRejected,
     SubmitTooLate, SubmitFinalize, SubmitRemove, SubmitWake, SubmitDecided
<1>b. ui.nonce \in Nonces /\ ui.response \in Responses
  BY <1>a DEF SubmitCalls
<1>c. \A pc \in {"lock", "finalize", "remove", "wake"} : [ui EXCEPT !.pc = pc] \in SubmitCalls
  BY <1>a DEF SubmitCalls
<1>d. {"Expired", "Pending", "Failed"} \subseteq WireStates
  BY DEF WireStates, InternalStates
<1>e. \A n \in Nonces : wake_waiter(n) =>
         waiters' \subseteq Nonces /\ wait' \in WaitCalls \cup {WaitIdle}
  BY CallTypes DEF BrokerTypeOK, wake_waiter, WakenBy, WaitCalls
<1> USE DEF BrokerTypeOK, Submitting
<1>1. CASE SubmitReadsClock
  <2>1. [ui EXCEPT !.pc = "lock", 
           !.late = {r \in Requests : NonceOf(r) = ui.nonce /\ left[r] = 0}] \in SubmitCalls
    BY <1>a DEF SubmitCalls
  <2> QED BY <1>1, <2>1 DEF SubmitReadsClock
<1>2. CASE SubmitRejected
  BY <1>2 DEF SubmitRejected
<1>3. CASE SubmitTooLate
  BY <1>3, <1>c DEF SubmitTooLate
<1>4. CASE SubmitFinalize
  <2>1. audit' \in [Nonces -> Rows \cup {NoRow}]
    BY <1>4, <1>b, <1>d, StoreWriteType DEF SubmitFinalize
  <2> QED BY <1>4, <1>c, <2>1 DEF SubmitFinalize
<1>5. CASE SubmitRemove
  BY <1>5, <1>b, <1>c DEF SubmitRemove
<1>6. CASE SubmitWake
  BY <1>6, <1>b, <1>e DEF SubmitWake
<1>7. CASE SubmitDecided
  <2> DEFINE e == active[ui.nonce]
             built == build_vendor_stdout(Payload[e.req], ui.response)
  <2>1. e \in ActiveDecisions
    BY <1>7, <1>b DEF SubmitDecided, Submittable
  <2>2. \A s \in {"Chosen", "Failed"}, o \in Stdouts :
           [state |-> s, req |-> e.req, stdout |-> o] \in ActiveDecisions
    BY <2>1 DEF ActiveDecisions, InternalStates
  <2>3. active' \in [Nonces -> ActiveDecisions \cup {NoEntry}]
    BY <1>7, <1>b, <2>2 DEF SubmitDecided, Stdouts
  <2>4. audit' \in [Nonces -> Rows \cup {NoRow}]
    <3>1. CASE built \in Responses
      BY <1>7, <1>b, <1>d, <3>1, StoreWriteType DEF SubmitDecided
    <3>2. CASE built \notin Responses /\ built = "CapabilityDisabled"
      BY <1>7, <1>b, <1>d, <3>2, StoreWriteType DEF SubmitDecided
    <3>3. CASE built \notin Responses /\ built # "CapabilityDisabled"
      BY <1>7, <1>b, <1>d, <3>3, StoreWriteType DEF SubmitDecided
    <3> QED BY <3>1, <3>2, <3>3
  <2>5. accepted' \in [Nonces -> SUBSET Responses]
    BY <1>7, <1>b DEF SubmitDecided
  <2> QED BY <1>7, <1>b, <1>e, <2>3, <2>4, <2>5 DEF SubmitDecided
<1> QED
  BY <1>1, <1>2, <1>3, <1>4, <1>5, <1>6, <1>7 DEF SubmitStep

LEMMA FinalizeType ==
    ASSUME BrokerTypeOK, NEW n \in Nonces, NEW s \in {"Delivered", "Failed"}, Finalize(n, s)
    PROVE  BrokerTypeOK'
<1>1. s \in WireStates /\ s \in InternalStates
  BY DEF WireStates, InternalStates
<1>2. audit' \in [Nonces -> Rows \cup {NoRow}]
  BY <1>1, StoreWriteType DEF Finalize
<1>3. \A e \in ActiveDecisions : [e EXCEPT !.state = s] \in ActiveDecisions
  BY <1>1 DEF ActiveDecisions
<1> QED BY <1>2, <1>3 DEF Finalize, Finalizable, BrokerTypeOK

LEMMA ObserveType ==
    ASSUME BrokerTypeOK, NEW n \in Nonces, observe_effect(n)
    PROVE  BrokerTypeOK'
<1>1. "EffectObserved" \in WireStates /\ "EffectObserved" \in InternalStates
  BY DEF WireStates, InternalStates
<1>2. audit' \in [Nonces -> Rows \cup {NoRow}]
  BY <1>1, StoreWriteType DEF observe_effect
<1>3. \A e \in ActiveDecisions : [e EXCEPT !.state = "EffectObserved"] \in ActiveDecisions
  BY <1>1 DEF ActiveDecisions
<1> QED BY <1>2, <1>3 DEF observe_effect, BrokerTypeOK

LEMMA TickType ==
    ASSUME BrokerTypeOK, NEW born, BrokerTick(born)
    PROVE  BrokerTypeOK'
<1>1. \A t \in 0..WaitTimeout : Countdown(t) \in 0..WaitTimeout
  BY TimeoutAssumption DEF Countdown
<1>2. left' \in [Requests -> 0..WaitTimeout]
  BY <1>1 DEF BrokerTypeOK, BrokerTick
<1>3. wait' \in WaitCalls \cup {WaitIdle}
  BY <1>1, CallTypes DEF BrokerTypeOK, BrokerTick, WaitAt, WaitCalls
<1> QED BY <1>2, <1>3 DEF BrokerTypeOK, BrokerTick

-----------------------------------------------------------------------------
(* The types of the whole path.  The timer of a hook starts at the shorter *)
(* of two durations, and no timer is ever above the longer one.            *)
LEMMA TypeInit == Init => TypeOK
BY TimeoutAssumption, ReadTimeoutAssumption
   DEF Init, BrokerInit, TypeOK, BrokerTypeOK, HookWait, HookPcs, ConnPcs

LEMMA TypeNext == TypeOK /\ [Next]_vars => TypeOK'
<1> SUFFICES ASSUME TypeOK, [Next]_vars PROVE TypeOK'
  OBVIOUS
<1>a. HookWait \in 0..WaitTimeout /\ WaitTimeout \in 0..WaitTimeout
  BY TimeoutAssumption, ReadTimeoutAssumption DEF HookWait
<1>b. UNCHANGED brokerVars => BrokerTypeOK'
  BY DEF TypeOK, BrokerTypeOK, brokerVars
<1>c. ASSUME BrokerTypeOK', UNCHANGED pathVars PROVE TypeOK'
  BY <1>c DEF TypeOK, pathVars
<1>1. ASSUME NEW r \in Requests, HookPlan(r) \/ HookIngested(r) \/ RequestDecision(r)
      PROVE  TypeOK'
  BY <1>1, <1>b DEF HookPlan, HookIngested, RequestDecision, TypeOK, HookPcs, ConnPcs
<1>2. ASSUME NEW r \in Requests, HookFailsEarly(r) \/ HookStep(r) PROVE TypeOK'
  <2>1. \A pc \in HookPcs : HookNeutral(r, pc) => TypeOK'
    <3> SUFFICES ASSUME NEW pc \in HookPcs, HookNeutral(r, pc) PROVE TypeOK'
      OBVIOUS
    <3> QED BY <1>a, <1>b DEF HookNeutral, TypeOK, Stdouts
  <2>2. CASE HookFailsEarly(r) \/ HookTimesOut(r) \/ HookDisconnected(r)
    BY <2>1, <2>2 DEF HookFailsEarly, HookTimesOut, HookDisconnected, HookPcs
  <2>3. CASE HookReads(r)
    BY <1>a, <1>b, <2>3 DEF HookReads, TypeOK, HookPcs
  <2>4. CASE HookCloses(r)
    BY <1>b, <2>4 DEF HookCloses, TypeOK, HookPcs
  <2> QED BY <1>2, <2>2, <2>3, <2>4 DEF HookStep
<1>3. ASSUME NEW r \in Requests, ConnStep(r) PROVE TypeOK'
  <2>1. CASE ServerQueues(r)
    BY <1>b, <2>1 DEF ServerQueues, TypeOK, ConnPcs
  <2>2. CASE ServerWrites(r) \/ ServerWriteFails(r) \/ ServerTimesOut(r)
    <3>1. \A pc \in ConnPcs : ServerLeaves(r, pc) =>
             /\ BrokerTypeOK' /\ UNCHANGED <<hook, hookTimer, out, chan>>
             /\ conn' \in [Requests -> ConnPcs]
             /\ connTimer' \in [Requests -> 0..WaitTimeout]
             /\ mail' \in [Requests -> Stdouts \cup {"none"}]
      BY <1>a, <1>b DEF ServerLeaves, TypeOK
    <3>2. \E pc \in ConnPcs : ServerLeaves(r, pc)
      BY <2>2 DEF ServerWrites, ServerWriteFails, ServerTimesOut, ConnPcs
    <3>3. sock' \in [Requests -> Stdouts \cup {"none"}]
      BY <2>2 DEF ServerWrites, ServerWriteFails, ServerTimesOut, TypeOK, Stdouts
    <3> QED BY <3>1, <3>2, <3>3 DEF TypeOK
  <2>3. CASE confirm_delivery(r) \/ fail_delivery(r)
    BY <1>b, <2>3, FinalizeType, NonceType DEF confirm_delivery, fail_delivery, Report,
       TypeOK, ConnPcs
  <2>4. CASE DeliveryRemoves(r)
    BY <2>4, NonceType DEF DeliveryRemoves, RemoveActive, TypeOK, BrokerTypeOK, ConnPcs
  <2> QED BY <1>3, <2>1, <2>2, <2>3, <2>4 DEF ConnStep
<1>4. CASE LoopTakes
  <2>1. Head(chan) \in Requests /\ Tail(chan) \in Seq(Requests)
    BY <1>4 DEF LoopTakes, TypeOK
  <2>2. neutral_reply("Expired") \in Replies
    BY DEF neutral_reply, Replies, Stdouts, WireStates, InternalStates
  <2>3. wait' \in WaitCalls
    BY <1>4, <1>a, <2>1, <2>2 DEF LoopTakes, HandleWait, WaitCalls, WaitPcs
  <2> QED BY <1>4, <2>1, <2>3 DEF LoopTakes, HandleWait, TypeOK, BrokerTypeOK
<1>5. CASE LoopReplies
  <2>1. wait \in WaitCalls
    BY <1>5, CallTypes DEF LoopReplies, WaitReturn, WaitAt, TypeOK
  <2>2. wait.req \in Requests /\ wait.reply.stdout \in Stdouts
    BY <2>1 DEF WaitCalls, Replies
  <2> QED BY <1>5, <2>2 DEF LoopReplies, WaitReturn, TypeOK, BrokerTypeOK
<1>6. CASE WaitStep /\ UNCHANGED pathVars
  BY <1>6, <1>c, WaitStepType DEF TypeOK
<1>7. ASSUME NEW n \in Nonces, NEW response \in Responses, UiSubmits(n, response)
      PROVE  TypeOK'
  <2>1. ui' \in SubmitCalls
    BY <1>7 DEF UiSubmits, Submit, SubmitCalls
  <2>2. BrokerTypeOK'
    BY <1>7, <2>1 DEF UiSubmits, Submit, TypeOK, BrokerTypeOK
  <2> QED BY <1>7, <1>c, <2>2 DEF UiSubmits
<1>8. CASE SubmitStep /\ UNCHANGED pathVars
  BY <1>8, <1>c, SubmitStepType DEF TypeOK
<1>9. ASSUME NEW n \in Nonces, observe_effect(n), UNCHANGED pathVars PROVE TypeOK'
  BY <1>9, <1>c, ObserveType DEF TypeOK
<1>10. CASE Tick
  <2>1. BrokerTypeOK'
    BY <1>10, TickType DEF Tick, TypeOK
  <2>2. \A t \in 0..WaitTimeout : Countdown(t) \in 0..WaitTimeout
    BY TimeoutAssumption DEF Countdown
  <2> QED BY <1>10, <2>1, <2>2 DEF Tick, TypeOK
<1>11. CASE HostRestarts
  BY <1>11, <1>a DEF HostRestarts, BrokerRestart, TypeOK, BrokerTypeOK, ConnPcs
<1>12. CASE UNCHANGED vars
  BY <1>12, <1>b, <1>c DEF vars
<1> QED
  BY <1>1, <1>2, <1>3, <1>4, <1>5, <1>6, <1>7, <1>8, <1>9, <1>10, <1>11, <1>12
     DEF Next, LoopStep

(* Every variable of the path keeps its type, whatever crashes, fails or   *)
(* is late.                                                                *)
THEOREM TypeCorrect == Spec => []TypeOK
<1>1. Init => TypeOK
  BY TypeInit
<1>2. TypeOK /\ [Next]_vars => TypeOK'
  BY TypeNext
<1> QED BY <1>1, <1>2, PTL DEF Spec

-----------------------------------------------------------------------------
(* Nothing on its way to a hook, wherever it is kept, says more than the   *)
(* user did.  The output alone is not inductive: the choice travels from   *)
(* the map to the reply, the oneshot and the socket before it is printed.  *)
Backed(stdout, n) == stdout \in Responses => stdout \in accepted[n]

ChoiceInv ==
    /\ TypeOK
    /\ \A n \in Nonces : active[n] # NoEntry => Backed(active[n].stdout, n)
    /\ wait.pc # "idle" =>
         /\ Backed(wait.reply.stdout, WaitNonce)
         /\ wait.entry # NoEntry => Backed(wait.entry.stdout, WaitNonce)
    /\ \A r \in Requests : /\ Backed(mail[r], NonceOf(r))
                           /\ Backed(sock[r], NonceOf(r))
                           /\ Backed(out[r], NonceOf(r))

(* A decision left in the map by the timeout is a finished one.            *)
OrphanInv ==
    /\ TypeOK
    /\ NoOrphanedDecision
    /\ wait.pc = "reinsert" => is_terminal(wait.entry.state)

LEMMA ChoiceInit == Init => ChoiceInv
<1> SUFFICES ASSUME Init PROVE ChoiceInv
  OBVIOUS
<1> QED BY TypeInit DEF Init, BrokerInit, ChoiceInv, Backed, Responses, WaitIdle

(* A step that accepts no answer and leaves the map and the call alone.    *)
LEMMA ChoiceOnPath ==
    ASSUME ChoiceInv, TypeOK', UNCHANGED <<active, wait, accepted>>,
           \A r \in Requests : /\ Backed(mail'[r], NonceOf(r))
                               /\ Backed(sock'[r], NonceOf(r))
                               /\ Backed(out'[r], NonceOf(r))
    PROVE  ChoiceInv'
BY DEF ChoiceInv, Backed, WaitNonce

(* A step of the broker that accepts no answer.                            *)
LEMMA ChoiceInBroker ==
    ASSUME ChoiceInv, TypeOK', UNCHANGED <<accepted, mail, sock, out>>,
           \A n \in Nonces : active'[n] # NoEntry => Backed(active'[n].stdout, n),
           wait'.pc # "idle" =>
             /\ Backed(wait'.reply.stdout, WaitNonce')
             /\ wait'.entry # NoEntry => Backed(wait'.entry.stdout, WaitNonce')
    PROVE  ChoiceInv'
BY DEF ChoiceInv, Backed
(* A reply built from a backed entry is backed.                            *)
LEMMA ReplyBacked ==
    ASSUME NEW e, NEW n, e # NoEntry => Backed(e.stdout, n)
    PROVE  /\ Backed(reply_for_active(e).stdout, n)
           /\ e # NoEntry => Backed(replay_terminal(e).stdout, n)
           /\ \A s : Backed(neutral_reply(s).stdout, n)
BY DEF Backed, reply_for_active, replay_terminal, neutral_reply, Responses, Neutral

LEMMA ChoiceWaitStep ==
    ASSUME ChoiceInv, WaitStep, UNCHANGED pathVars, TypeOK'
    PROVE  ChoiceInv'
<1>a. wait \in WaitCalls
  BY CallTypes DEF ChoiceInv, TypeOK, WaitStep, WaitAt, WaitLookup, WaitAudit, WaitNotify,
     WaitInsert, WaitArm, WaitWoken, WaitTimedOut, expire_decision, WaitReinsert,
     WaitFinalize, WaitRead, WaitRetain, WaitRemove, WaitUnwait
<1>b. wait.pc # "idle" /\ WaitNonce \in Nonces
  BY <1>a, NonceType DEF WaitCalls, WaitPcs, WaitNonce
<1>c. UNCHANGED <<accepted, mail, sock, out>>
  BY DEF pathVars, WaitStep, WaitLookup, WaitAudit, WaitNotify,
     WaitInsert, WaitArm, WaitWoken, WaitTimedOut, expire_decision, WaitReinsert,
     WaitFinalize, WaitRead, WaitRetain, WaitRemove, WaitUnwait
<1>d. active \in [Nonces -> ActiveDecisions \cup {NoEntry}]
  BY DEF ChoiceInv, TypeOK, BrokerTypeOK
<1>e. /\ \A n \in Nonces : active[n] # NoEntry => Backed(active[n].stdout, n)
      /\ Backed(wait.reply.stdout, WaitNonce)
      /\ wait.entry # NoEntry => Backed(wait.entry.stdout, WaitNonce)
  BY <1>b DEF ChoiceInv
<1>f. wait'.req = wait.req
  BY <1>a DEF WaitCalls, LeaveSelect, WaitGoto, WaitStep, WaitLookup, WaitAudit, WaitNotify,
     WaitInsert, WaitArm, WaitWoken, WaitTimedOut, expire_decision, WaitReinsert,
     WaitFinalize, WaitRead, WaitRetain, WaitRemove, WaitUnwait
<1>g. WaitNonce' = WaitNonce
  BY <1>f DEF WaitNonce, NonceOf
<1>1. \A n \in Nonces : active'[n] # NoEntry => Backed(active'[n].stdout, n)
  <2>1. CASE UNCHANGED active
    BY <1>e, <2>1
  <2>2. CASE active' = [active EXCEPT ![WaitNonce] = NoEntry]
    BY <1>b, <1>d, <1>e, <2>2
  <2>3. CASE WaitInsert
    BY <1>b, <1>d, <1>e, <2>3 DEF WaitInsert, Backed, Responses, Neutral
  <2>4. CASE WaitReinsert
    BY <1>b, <1>d, <1>e, <2>4 DEF WaitReinsert
  <2> QED
    BY <2>1, <2>2, <2>3, <2>4 DEF WaitStep, WaitLookup, WaitAudit, WaitNotify, WaitArm,
       WaitWoken, WaitTimedOut, expire_decision, WaitFinalize, WaitRead, WaitRetain,
       WaitRemove, WaitUnwait
<1>2. Backed(wait'.reply.stdout, WaitNonce)
  <2>1. CASE wait'.reply = wait.reply
    BY <1>e, <2>1
  <2>2. CASE WaitLookup
    <3>1. \/ wait'.reply = wait.reply \/ wait'.reply = neutral_reply("Failed")
          \/ active[WaitNonce] # NoEntry /\ wait'.reply = replay_terminal(active[WaitNonce])
      BY <1>a, <2>2 DEF WaitLookup, WaitCalls
    <3> QED BY <3>1, <1>b, <1>e, ReplyBacked
  <2>3. CASE WaitRead
    <3>1. wait'.reply = reply_for_active(active[WaitNonce])
      BY <1>a, <2>3 DEF WaitRead, WaitCalls
    <3> QED BY <3>1, <1>b, <1>e, ReplyBacked
  <2> QED
    BY <1>a, <2>1, <2>2, <2>3 DEF WaitCalls, LeaveSelect, WaitGoto, WaitStep, WaitAudit,
       WaitNotify, WaitInsert, WaitArm, WaitWoken, WaitTimedOut, expire_decision,
       WaitReinsert, WaitFinalize, WaitRetain, WaitRemove, WaitUnwait
<1>3. wait'.entry # NoEntry => Backed(wait'.entry.stdout, WaitNonce)
  <2>1. \/ wait'.entry = wait.entry \/ wait'.entry = NoEntry
        \/ wait'.entry = active[WaitNonce]
    BY <1>a DEF WaitCalls, LeaveSelect, WaitGoto, WaitStep, WaitLookup, WaitAudit, WaitNotify,
       WaitInsert, WaitArm, WaitWoken, WaitTimedOut, expire_decision, WaitReinsert,
       WaitFinalize, WaitRead, WaitRetain, WaitRemove, WaitUnwait
  <2> QED BY <1>b, <1>e, <2>1
<1> QED BY <1>1, <1>2, <1>3, <1>c, <1>g, ChoiceInBroker

(* accepted only grows, so what is backed stays backed.                    *)
LEMMA ChoiceSubmitStep ==
    ASSUME ChoiceInv, SubmitStep, UNCHANGED pathVars, TypeOK'
    PROVE  ChoiceInv'
<1>a. ui \in SubmitCalls
  BY CallTypes DEF ChoiceInv, TypeOK, SubmitStep, Submitting, SubmitReadsClock,
     SubmitRejected, SubmitTooLate, SubmitFinalize, SubmitRemove, SubmitWake, SubmitDecided
<1>b. ui.nonce \in Nonces /\ ui.response \in Responses
  BY <1>a DEF SubmitCalls
<1>c. TypeOK /\ BrokerTypeOK
  BY DEF ChoiceInv, TypeOK
<1>d. UNCHANGED <<mail, sock, out>>
  BY DEF pathVars
<1>e. \A n \in Nonces : accepted[n] \subseteq accepted'[n]
  <2>1. UNCHANGED accepted
        \/ accepted' = [accepted EXCEPT ![ui.nonce] = @ \cup {ui.response}]
    <3>1. CASE SubmitDecided
      BY <3>1 DEF SubmitDecided
    <3> QED
      BY <3>1 DEF SubmitStep, SubmitReadsClock, SubmitRejected, SubmitTooLate,
         SubmitFinalize, SubmitRemove, SubmitWake
  <2> QED BY <1>b, <1>c, <2>1 DEF BrokerTypeOK
<1>f. \A n \in Nonces : active[n] # NoEntry =>
        (active[n].stdout \in Responses => active[n].stdout \in accepted'[n])
  BY <1>e DEF ChoiceInv, Backed
<1>g. wait'.pc # "idle" =>
        wait.pc # "idle" /\ wait'.req = wait.req
        /\ wait'.reply = wait.reply /\ wait'.entry = wait.entry
  <2>1. wait' = wait \/ \E n \in Nonces : wake_waiter(n)
    BY <1>b DEF SubmitStep, SubmitReadsClock, SubmitRejected, SubmitTooLate,
       SubmitFinalize, SubmitRemove, SubmitWake, SubmitDecided
  <2> QED BY <1>c, <2>1, CallTypes DEF wake_waiter, WakenBy, WaitCalls
<1>1. \A n \in Nonces : (active[n] # NoEntry => Backed(active[n].stdout, n))'
  <2>1. CASE UNCHANGED active
    BY <1>f, <2>1 DEF Backed
  <2>2. CASE SubmitRemove
    BY <1>b, <1>c, <1>f, <2>2 DEF SubmitRemove, Backed, BrokerTypeOK
  <2>3. CASE SubmitDecided
    <3> DEFINE n == ui.nonce
               e == active[n]
               built == build_vendor_stdout(Payload[e.req], ui.response)
               o == IF built \in Responses THEN built ELSE Neutral
    <3>1. built \in Responses => built = ui.response
      BY DEF build_vendor_stdout, Responses
    <3>2. built \in Responses => ui.response \in accepted'[n]
      BY <1>b, <1>c, <2>3 DEF SubmitDecided, BrokerTypeOK
    <3>3. o \in Responses => o \in accepted'[n]
      BY <3>1, <3>2 DEF Responses, Neutral
    <3>4. active'[n].stdout = o
      BY <1>b, <1>c, <2>3 DEF SubmitDecided, BrokerTypeOK
    <3>5. \A m \in Nonces \ {n} : active'[m] = active[m]
      BY <1>b, <1>c, <2>3 DEF SubmitDecided, BrokerTypeOK
    <3> HIDE DEF e, built, o
    <3> QED BY <1>f, <3>3, <3>4, <3>5 DEF Backed
  <2> QED
    BY <2>1, <2>2, <2>3 DEF SubmitStep, SubmitReadsClock, SubmitRejected, SubmitTooLate,
       SubmitFinalize, SubmitWake
<1>2. wait'.pc # "idle" =>
        /\ Backed(wait.reply.stdout, WaitNonce)'
        /\ wait'.entry # NoEntry => Backed(wait.entry.stdout, WaitNonce)'
  <2> SUFFICES ASSUME wait'.pc # "idle"
               PROVE  /\ Backed(wait.reply.stdout, WaitNonce)'
                      /\ wait'.entry # NoEntry => Backed(wait.entry.stdout, WaitNonce)'
    OBVIOUS
  <2>1. WaitNonce \in Nonces
    BY <1>c, <1>g, CallTypes, NonceType DEF WaitNonce, WaitCalls
  <2>2. WaitNonce' = WaitNonce
    BY <1>g DEF WaitNonce, NonceOf
  <2>3. /\ Backed(wait.reply.stdout, WaitNonce)
        /\ wait.entry # NoEntry => Backed(wait.entry.stdout, WaitNonce)
    BY <1>g DEF ChoiceInv
  <2> QED BY <1>g, <1>e, <2>1, <2>2, <2>3 DEF Backed
<1>3. \A r \in Requests : /\ Backed(mail[r], NonceOf(r))'
                          /\ Backed(sock[r], NonceOf(r))'
                          /\ Backed(out[r], NonceOf(r))'
  BY <1>d, <1>e, NonceType DEF ChoiceInv, Backed, NonceOf
<1> QED BY <1>1, <1>2, <1>3 DEF ChoiceInv

LEMMA ChoiceNext == ChoiceInv /\ [Next]_vars => ChoiceInv'
<1> SUFFICES ASSUME ChoiceInv, [Next]_vars PROVE ChoiceInv'
  OBVIOUS
<1>a. TypeOK /\ BrokerTypeOK /\ TypeOK'
  BY TypeNext DEF ChoiceInv, TypeOK
<1>b. \A r \in Requests : /\ Backed(mail[r], NonceOf(r))
                          /\ Backed(sock[r], NonceOf(r))
                          /\ Backed(out[r], NonceOf(r))
  BY DEF ChoiceInv
<1>c. \A n : Backed(Neutral, n) /\ Backed("none", n)
  BY DEF Backed, Responses, Neutral
<1>d. UNCHANGED brokerVars => UNCHANGED <<active, wait, accepted>>
  BY DEF brokerVars
<1>1. ASSUME NEW r \in Requests, HookPlan(r) \/ HookIngested(r) \/ RequestDecision(r)
      PROVE  ChoiceInv'
  BY <1>1, <1>a, <1>b, <1>d, ChoiceOnPath DEF HookPlan, HookIngested, RequestDecision
<1>2. ASSUME NEW r \in Requests, HookFailsEarly(r) \/ HookStep(r) PROVE ChoiceInv'
  <2>1. /\ UNCHANGED <<active, wait, accepted, mail, sock>>
        /\ \/ UNCHANGED out
           \/ out' = [out EXCEPT ![r] = Neutral]
           \/ out' = [out EXCEPT ![r] = sock[r]]
    <3>1. CASE HookFailsEarly(r) \/ HookTimesOut(r) \/ HookDisconnected(r)
      BY <1>d, <3>1 DEF HookFailsEarly, HookTimesOut, HookDisconnected, HookNeutral
    <3>2. CASE HookReads(r) \/ HookCloses(r)
      BY <1>d, <3>2 DEF HookReads, HookCloses
    <3> QED BY <1>2, <3>1, <3>2 DEF HookStep
  <2>2. \A q \in Requests : Backed(out'[q], NonceOf(q))
    <3> SUFFICES ASSUME NEW q \in Requests PROVE Backed(out'[q], NonceOf(q))
      OBVIOUS
    <3>1. out'[q] = out[q] \/ out'[q] = Neutral \/ out'[q] = sock[q]
      BY <1>a, <2>1 DEF TypeOK
    <3> QED BY <1>b, <1>c, <3>1
  <2> QED BY <1>a, <1>b, <2>1, <2>2, ChoiceOnPath
<1>3. ASSUME NEW r \in Requests, ConnStep(r) PROVE ChoiceInv'
  <2>1. CASE ServerQueues(r)
    BY <1>a, <1>b, <1>d, <2>1, ChoiceOnPath DEF ServerQueues
  <2>2. CASE ServerWrites(r) \/ ServerWriteFails(r) \/ ServerTimesOut(r)
    <3>1. /\ UNCHANGED <<active, wait, accepted, out>>
          /\ mail' = [mail EXCEPT ![r] = "none"]
          /\ \/ UNCHANGED sock
             \/ sock' = [sock EXCEPT ![r] = mail[r]]
             \/ sock' = [sock EXCEPT ![r] = Neutral]
      BY <2>2, <1>d DEF ServerWrites, ServerWriteFails, ServerTimesOut, ServerLeaves
    <3>2. ASSUME NEW q \in Requests
          PROVE  Backed(mail'[q], NonceOf(q)) /\ Backed(sock'[q], NonceOf(q))
      <4>1. mail'[q] = mail[q] \/ mail'[q] = "none"
        BY <1>a, <3>1 DEF TypeOK
      <4>2. sock'[q] = sock[q] \/ sock'[q] = mail[q] \/ sock'[q] = Neutral
        BY <1>a, <3>1 DEF TypeOK
      <4> QED BY <1>b, <1>c, <4>1, <4>2
    <3> QED BY <1>a, <1>b, <3>1, <3>2, ChoiceOnPath
  <2>3. CASE confirm_delivery(r) \/ fail_delivery(r) \/ DeliveryRemoves(r)
    <3>1. UNCHANGED <<accepted, wait, mail, sock, out>>
      BY <2>3, <1>d DEF confirm_delivery, fail_delivery, Report, Finalize, DeliveryRemoves,
         RemoveActive
    <3>2. \/ UNCHANGED active
          \/ active' = [active EXCEPT ![NonceOf(r)] = NoEntry]
          \/ /\ active[NonceOf(r)] # NoEntry
             /\ \E s : active' = [active EXCEPT ![NonceOf(r)] = [@ EXCEPT !.state = s]]
      BY <2>3, <1>d DEF confirm_delivery, fail_delivery, Report, Finalize, Finalizable,
         DeliveryRemoves, RemoveActive
    <3>3. \A n \in Nonces : active'[n] # NoEntry =>
             active[n] # NoEntry /\ active'[n].stdout = active[n].stdout
      BY <1>a, <3>2, NonceType DEF BrokerTypeOK, ActiveDecisions
    <3>4. \A n \in Nonces : active'[n] # NoEntry => Backed(active'[n].stdout, n)
      BY <3>3 DEF ChoiceInv
    <3>5. WaitNonce' = WaitNonce
      BY <3>1 DEF WaitNonce, NonceOf
    <3> QED BY <1>a, <3>1, <3>4, <3>5, ChoiceInBroker DEF ChoiceInv
  <2> QED BY <1>3, <2>1, <2>2, <2>3 DEF ConnStep
<1>4. CASE LoopTakes
  <2>1. /\ UNCHANGED <<accepted, active, mail, sock, out>>
        /\ wait'.reply.stdout = Neutral /\ wait'.entry = NoEntry
    BY <1>4 DEF LoopTakes, HandleWait, neutral_reply
  <2> QED BY <1>a, <1>c, <2>1, ChoiceInBroker DEF ChoiceInv
<1>5. CASE LoopReplies
  <2>1. /\ UNCHANGED <<accepted, active, sock, out>> /\ wait'.pc = "idle"
        /\ wait.pc # "idle"
        /\ \/ UNCHANGED mail
           \/ mail' = [mail EXCEPT ![wait.req] = wait.reply.stdout]
    BY <1>5 DEF LoopReplies, WaitReturn, WaitAt, WaitIdle
  <2>2. wait.req \in Requests /\ Backed(wait.reply.stdout, NonceOf(wait.req))
    BY <1>a, <2>1, CallTypes DEF ChoiceInv, WaitCalls, WaitNonce
  <2>3. \A q \in Requests : Backed(mail'[q], NonceOf(q))
    BY <1>a, <1>b, <2>1, <2>2 DEF TypeOK
  <2> QED BY <1>a, <2>1, <2>3 DEF ChoiceInv, Backed
<1>6. CASE WaitStep /\ UNCHANGED pathVars
  BY <1>6, <1>a, ChoiceWaitStep
<1>7. ASSUME NEW n \in Nonces, NEW response \in Responses, UiSubmits(n, response)
      PROVE  ChoiceInv'
  BY <1>7, <1>a, <1>b, ChoiceOnPath DEF UiSubmits, Submit, pathVars
<1>8. CASE SubmitStep /\ UNCHANGED pathVars
  BY <1>8, <1>a, ChoiceSubmitStep
<1>9. ASSUME NEW n \in Nonces, observe_effect(n), UNCHANGED pathVars PROVE ChoiceInv'
  <2>1. UNCHANGED <<accepted, wait, mail, sock, out>>
    BY <1>9 DEF observe_effect, pathVars
  <2>2. \A m \in Nonces : active'[m] # NoEntry =>
           active[m] # NoEntry /\ active'[m].stdout = active[m].stdout
    BY <1>9, <1>a DEF observe_effect, BrokerTypeOK, ActiveDecisions
  <2>3. \A m \in Nonces : active'[m] # NoEntry => Backed(active'[m].stdout, m)
    BY <2>2 DEF ChoiceInv
  <2>4. WaitNonce' = WaitNonce
    BY <2>1 DEF WaitNonce, NonceOf
  <2> QED BY <1>a, <2>1, <2>3, <2>4, ChoiceInBroker DEF ChoiceInv
<1>10. CASE Tick
  <2>1. UNCHANGED <<accepted, active, mail, sock, out>>
    BY <1>10 DEF Tick, BrokerTick
  <2>2. wait'.pc # "idle" =>
          /\ wait.pc # "idle" /\ wait'.req = wait.req
          /\ wait'.reply = wait.reply /\ wait'.entry = wait.entry
    BY <1>10, <1>a, CallTypes DEF Tick, BrokerTick, WaitAt, WaitCalls
  <2>3. wait'.pc # "idle" => WaitNonce' = WaitNonce
    BY <2>2 DEF WaitNonce, NonceOf
  <2> QED BY <1>a, <2>1, <2>2, <2>3, ChoiceInBroker DEF ChoiceInv
<1>11. CASE HostRestarts
  <2>1. /\ UNCHANGED <<accepted, sock, out>> /\ mail' = [r \in Requests |-> "none"]
        /\ wait'.pc = "idle" /\ active' = [n \in Nonces |-> NoEntry]
    BY <1>11 DEF HostRestarts, BrokerRestart, WaitIdle
  <2> QED BY <1>a, <1>b, <1>c, <2>1 DEF ChoiceInv, Backed
<1>12. CASE UNCHANGED vars
  BY <1>12, <1>a, <1>b, <1>d, ChoiceOnPath DEF vars, pathVars
<1> QED
  BY <1>1, <1>2, <1>3, <1>4, <1>5, <1>6, <1>7, <1>8, <1>9, <1>10, <1>11, <1>12
     DEF Next, LoopStep

(* A hook prints Allow or Deny only if the user chose it, for any number   *)
(* of hooks, nonces used once or many times, timeouts, lost audit writes   *)
(* and crashes.                                                            *)
THEOREM OutputCorrect == Spec => []OutputIsTheChoice
<1>1. Init => ChoiceInv
  BY ChoiceInit
<1>2. ChoiceInv /\ [Next]_vars => ChoiceInv'
  BY ChoiceNext
<1>3. ChoiceInv => OutputIsTheChoice
  BY DEF ChoiceInv, Backed, OutputIsTheChoice
<1> QED BY <1>1, <1>2, <1>3, PTL DEF Spec

-----------------------------------------------------------------------------
(* A step that adds no open decision, and leaves the call where it is.     *)
LEMMA OrphanKept ==
    ASSUME OrphanInv, TypeOK',
           \A n \in Nonces : active'[n].state = "Pending" => active[n].state = "Pending",
           wait'.pc = wait.pc, wait.pc # "idle" => wait'.req = wait.req,
           wait.pc = "reinsert" => wait'.entry = wait.entry
    PROVE  OrphanInv'
<1>1. NoOrphanedDecision'
  <2> SUFFICES ASSUME NEW n \in Nonces, active'[n].state = "Pending"
               PROVE  /\ wait'.pc \in {"arm", "select", "expire", "read", "retain", "remove"}
                      /\ NonceOf(wait'.req) = n
    BY DEF NoOrphanedDecision, NonceOf
  <2>1. /\ wait.pc \in {"arm", "select", "expire", "read", "retain", "remove"}
        /\ NonceOf(wait.req) = n
    BY DEF OrphanInv, NoOrphanedDecision
  <2> QED BY <2>1
<1>2. wait'.pc = "reinsert" => is_terminal(wait'.entry.state)
  BY DEF OrphanInv
<1> QED BY <1>1, <1>2 DEF OrphanInv, is_terminal

LEMMA OrphanWaitStep ==
    ASSUME OrphanInv, WaitStep, TypeOK'
    PROVE  OrphanInv'
<1>a. wait \in WaitCalls
  BY CallTypes DEF OrphanInv, TypeOK, WaitStep, WaitAt, WaitLookup, WaitAudit, WaitNotify,
     WaitInsert, WaitArm, WaitWoken, WaitTimedOut, expire_decision, WaitReinsert,
     WaitFinalize, WaitRead, WaitRetain, WaitRemove, WaitUnwait
<1>b. WaitNonce \in Nonces
  BY <1>a, NonceType DEF WaitCalls, WaitNonce
<1>c. active \in [Nonces -> ActiveDecisions \cup {NoEntry}]
  BY DEF OrphanInv, TypeOK, BrokerTypeOK
<1>d. \A n \in Nonces : active[n].state = "Pending" =>
        /\ wait.pc \in {"arm", "select", "expire", "read", "retain", "remove"}
        /\ WaitNonce = n
  BY DEF OrphanInv, NoOrphanedDecision, WaitNonce
<1>e. NoEntry.state # "Pending"
  BY DEF NoEntry
<1>f. wait'.req = wait.req
  BY <1>a DEF WaitCalls, LeaveSelect, WaitGoto, WaitStep, WaitLookup, WaitAudit, WaitNotify,
     WaitInsert, WaitArm, WaitWoken, WaitTimedOut, expire_decision, WaitReinsert,
     WaitFinalize, WaitRead, WaitRetain, WaitRemove, WaitUnwait
<1>g. WaitNonce' = WaitNonce
  BY <1>f DEF WaitNonce, NonceOf
<1> SUFFICES /\ \A n \in Nonces : active'[n].state = "Pending" =>
                  /\ wait'.pc \in {"arm", "select", "expire", "read", "retain", "remove"}
                  /\ WaitNonce = n
             /\ wait'.pc = "reinsert" => is_terminal(wait'.entry.state)
  BY <1>g DEF OrphanInv, NoOrphanedDecision, WaitNonce, is_terminal
<1> USE <1>a, <1>b, <1>c, <1>d, <1>e DEF WaitCalls, WaitAt, WaitGoto, LeaveSelect
<1>1. CASE WaitLookup \/ WaitAudit \/ WaitNotify
  BY <1>1 DEF WaitLookup, WaitAudit, WaitNotify
<1>2. CASE WaitInsert
  BY <1>2 DEF WaitInsert
<1>3. CASE WaitArm \/ WaitWoken \/ WaitTimedOut
  BY <1>3 DEF WaitArm, WaitWoken, WaitTimedOut
<1>4. CASE expire_decision
  BY <1>4 DEF expire_decision
<1>5. CASE WaitReinsert
  <2>1. wait.entry.state # "Pending"
    BY <1>5 DEF WaitReinsert, OrphanInv, is_terminal
  <2> QED BY <1>5, <2>1 DEF WaitReinsert
<1>6. CASE WaitFinalize \/ WaitRead
  BY <1>6 DEF WaitFinalize, WaitRead
<1>7. CASE WaitRetain
  BY <1>7 DEF WaitRetain
<1>8. CASE WaitRemove \/ WaitUnwait
  BY <1>8 DEF WaitRemove, WaitUnwait
<1> QED
  BY <1>1, <1>2, <1>3, <1>4, <1>5, <1>6, <1>7, <1>8 DEF WaitStep

LEMMA OrphanSubmitStep ==
    ASSUME OrphanInv, SubmitStep, TypeOK'
    PROVE  OrphanInv'
<1>a. TypeOK /\ BrokerTypeOK
  BY DEF OrphanInv, TypeOK
<1>b. ui \in SubmitCalls
  BY <1>a, CallTypes DEF SubmitStep, Submitting, SubmitReadsClock,
     SubmitRejected, SubmitTooLate, SubmitFinalize, SubmitRemove, SubmitWake, SubmitDecided
<1>c. ui.nonce \in Nonces
  BY <1>b DEF SubmitCalls
<1>1. wait'.pc = wait.pc /\ (wait.pc # "idle" => wait'.req = wait.req /\ wait'.entry = wait.entry)
  <2>1. wait' = wait \/ \E n \in Nonces : wake_waiter(n)
    BY <1>c DEF SubmitStep, SubmitReadsClock, SubmitRejected, SubmitTooLate,
       SubmitFinalize, SubmitRemove, SubmitWake, SubmitDecided
  <2> QED BY <1>a, <2>1, CallTypes DEF wake_waiter, WakenBy, WaitCalls
<1>2. \A n \in Nonces : active'[n].state = "Pending" => active[n].state = "Pending"
  <2>1. \/ UNCHANGED active
        \/ active' = [active EXCEPT ![ui.nonce] = NoEntry]
        \/ \E e : e.state # "Pending" /\ active' = [active EXCEPT ![ui.nonce] = e]
    <3>1. CASE SubmitDecided
      <4> DEFINE x == [active EXCEPT ![ui.nonce] = active'[ui.nonce]]
      <4>1. active' = x /\ active'[ui.nonce].state # "Pending"
        BY <1>a, <1>c, <3>1 DEF SubmitDecided, BrokerTypeOK
      <4> QED BY <4>1
    <3> QED
      BY <3>1 DEF SubmitStep, SubmitReadsClock, SubmitRejected, SubmitTooLate,
         SubmitFinalize, SubmitRemove, SubmitWake
  <2> QED BY <1>a, <1>c, <2>1 DEF BrokerTypeOK, NoEntry
<1> QED BY <1>1, <1>2, OrphanKept

LEMMA OrphanNext == OrphanInv /\ [Next]_vars => OrphanInv'
<1> SUFFICES ASSUME OrphanInv, [Next]_vars PROVE OrphanInv'
  OBVIOUS
<1>a. TypeOK /\ BrokerTypeOK /\ TypeOK'
  BY TypeNext DEF OrphanInv, TypeOK
<1>b. UNCHANGED <<active, wait>> => OrphanInv'
  BY <1>a, OrphanKept
<1>c. UNCHANGED brokerVars => UNCHANGED <<active, wait>>
  BY DEF brokerVars
<1>1. ASSUME NEW r \in Requests, HookPlan(r) \/ HookIngested(r) \/ RequestDecision(r)
      PROVE  UNCHANGED brokerVars
  BY <1>1 DEF HookPlan, HookIngested, RequestDecision
<1>2. ASSUME NEW r \in Requests, HookFailsEarly(r) \/ HookStep(r) PROVE UNCHANGED brokerVars
  BY <1>2 DEF HookFailsEarly, HookStep, HookReads, HookTimesOut, HookCloses,
     HookDisconnected, HookNeutral
<1>3. ASSUME NEW r \in Requests, ConnStep(r) PROVE OrphanInv'
  <2>1. CASE ServerQueues(r) \/ ServerWrites(r) \/ ServerWriteFails(r) \/ ServerTimesOut(r)
    BY <1>b, <1>c, <2>1 DEF ServerQueues, ServerWrites, ServerWriteFails, ServerTimesOut,
       ServerLeaves
  <2>2. CASE confirm_delivery(r) \/ fail_delivery(r) \/ DeliveryRemoves(r)
    <3>1. \/ UNCHANGED active
          \/ active' = [active EXCEPT ![NonceOf(r)] = NoEntry]
          \/ \E s \in {"Delivered", "Failed"} :
               /\ active[NonceOf(r)] # NoEntry
               /\ active' = [active EXCEPT ![NonceOf(r)] = [@ EXCEPT !.state = s]]
      BY <2>2, <1>c DEF confirm_delivery, fail_delivery, Report, Finalize, Finalizable,
         DeliveryRemoves, RemoveActive
    <3>2. \A n \in Nonces : active'[n].state = "Pending" => active[n].state = "Pending"
      BY <1>a, <3>1, NonceType DEF BrokerTypeOK, ActiveDecisions, NoEntry
    <3>3. UNCHANGED wait
      BY <2>2, <1>c DEF confirm_delivery, fail_delivery, Report, Finalize,
         DeliveryRemoves, RemoveActive
    <3> QED BY <1>a, <3>2, <3>3, OrphanKept
  <2> QED BY <1>3, <2>1, <2>2 DEF ConnStep
<1>4. CASE LoopTakes \/ LoopReplies
  <2>1. /\ UNCHANGED active /\ wait'.pc \in {"lookup", "idle"}
        /\ wait.pc \in {"idle", "return"}
    BY <1>4 DEF LoopTakes, LoopReplies, HandleWait, WaitReturn, WaitAt, WaitIdle
  <2>2. \A n \in Nonces : active[n].state # "Pending"
    BY <2>1 DEF OrphanInv, NoOrphanedDecision
  <2> QED BY <1>a, <2>1, <2>2 DEF OrphanInv, NoOrphanedDecision
<1>5. CASE WaitStep
  BY <1>5, <1>a, OrphanWaitStep
<1>6. ASSUME NEW n \in Nonces, NEW response \in Responses, UiSubmits(n, response)
      PROVE  OrphanInv'
  BY <1>6, <1>b DEF UiSubmits, Submit
<1>7. CASE SubmitStep
  BY <1>7, <1>a, OrphanSubmitStep
<1>8. ASSUME NEW n \in Nonces, observe_effect(n) PROVE OrphanInv'
  <2>1. \A m \in Nonces : active'[m].state = "Pending" => active[m].state = "Pending"
    BY <1>8, <1>a DEF observe_effect, BrokerTypeOK, ActiveDecisions
  <2> QED BY <1>8, <1>a, <2>1, OrphanKept DEF observe_effect
<1>9. CASE Tick
  <2>1. /\ UNCHANGED active /\ wait'.pc = wait.pc
        /\ wait.pc # "idle" => wait'.req = wait.req /\ wait'.entry = wait.entry
    BY <1>9, <1>a, CallTypes DEF Tick, BrokerTick, WaitAt, WaitCalls
  <2> QED BY <1>a, <2>1, OrphanKept
<1>10. CASE HostRestarts
  BY <1>10, <1>a DEF HostRestarts, BrokerRestart, WaitIdle, OrphanInv, NoOrphanedDecision,
     NoEntry
<1>11. CASE UNCHANGED vars
  BY <1>11, <1>b, <1>c DEF vars
<1> QED
  BY <1>1, <1>2, <1>3, <1>4, <1>5, <1>6, <1>7, <1>8, <1>9, <1>10, <1>11, <1>b, <1>c
     DEF Next, LoopStep

(* The map never keeps an open decision that no handle_wait call is going  *)
(* to close, however the timeout, the submission and the delivery reports  *)
(* interleave.                                                             *)
THEOREM NoOrphans == Spec => []NoOrphanedDecision
<1>1. Init => OrphanInv
  BY TypeInit DEF Init, BrokerInit, OrphanInv, NoOrphanedDecision, NoEntry, WaitIdle
<1>2. OrphanInv /\ [Next]_vars => OrphanInv'
  BY OrphanNext
<1>3. OrphanInv => NoOrphanedDecision
  BY DEF OrphanInv
<1> QED BY <1>1, <1>2, <1>3, PTL DEF Spec

=============================================================================
