----------------------------- MODULE StreamProofs -----------------------------
(***************************************************************************)
(* Proofs about the stream, for any windows and items, any number of       *)
(* frames, any capacity of the buffer, any overlap of connect tasks, and   *)
(* with frames dropped and sends failing.                                  *)
(***************************************************************************)
EXTENDS NativeStream, TLAPS

TaskRecords == [pc : TaskPcs, reply : Replies, leaving : Channels \cup {NoChannel}]

(* The core has room for the frames it has still to number, and a frame    *)
(* that is being sent is the last one of the buffer.                       *)
TypeInv ==
    /\ TypeOK
    /\ seq + Len(outbox) <= MaxSeq
    /\ sending # {} => frames # << >>

LEMMA ApplyType ==
    ASSUME NEW items \in Views, NEW p \in Payloads
    PROVE  Apply(items, p) \in Views
BY DEF Apply, Views, Payloads

(* A change is one payload or two.                                         *)
LEMMA ChangeType ==
    ASSUME TypeOK, NEW change \in Changes, seq + Len(change) <= MaxSeq
    PROVE  /\ change \in Seq(Payloads) /\ Len(change) \in {1, 2}
           /\ change[1] \in Payloads /\ Len(change) = 2 => change[2] \in Payloads
<1> USE MaxSeqAssumption
<1>0. seq \in Nat BY DEF TypeOK, Seqs
<1>1. CASE \E i \in Items : change = Upsert(i)
  <2>1. PICK i \in Items : change = Upsert(i) BY <1>1
  <2>2. change = <<[item |-> i, version |-> seq + 1]>> BY <2>1 DEF Upsert
  <2>3. Len(change) = 1 BY <2>2
  <2>4. [item |-> i, version |-> seq + 1] \in Payloads
    BY <1>0, <2>3 DEF Payloads, Versions
  <2> QED BY <2>2, <2>3, <2>4
<1>2. CASE \E i \in Items : change = Remove(i)
  <2>1. PICK i \in Items : change = Remove(i) BY <1>2
  <2>2. change = <<[item |-> i, version |-> 0]>> BY <2>1 DEF Remove
  <2>3. [item |-> i, version |-> 0] \in Payloads BY DEF Payloads, Versions
  <2> QED BY <2>2, <2>3
<1>3. CASE \E o, n \in Items : change = EvictAndStart(o, n)
  <2>1. PICK o \in Items, n \in Items : change = EvictAndStart(o, n) BY <1>3
  <2>2. change = <<[item |-> o, version |-> 0], [item |-> n, version |-> seq + 2]>>
    BY <2>1 DEF EvictAndStart
  <2>3. Len(change) = 2 BY <2>2
  <2>4. [item |-> o, version |-> 0] \in Payloads BY DEF Payloads, Versions
  <2>5. [item |-> n, version |-> seq + 2] \in Payloads
    BY <1>0, <2>3 DEF Payloads, Versions
  <2> QED BY <2>2, <2>3, <2>4, <2>5
<1> QED BY <1>1, <1>2, <1>3 DEF Changes

(* What a subscriber is sent again comes from the buffer.                  *)
LEMMA ReplayFromBuffer ==
    ASSUME TypeOK, NEW after \in Nat
    PROVE  /\ Replay(after) \in Seq(Frames)
           /\ \A k \in 1 .. Len(Replay(after)) :
                 \E j \in 1 .. Len(frames) : Replay(after)[k] = frames[j]
<1>1. frames \in Seq(Frames) /\ Len(frames) \in Nat BY DEF TypeOK
<1>2. Oldest \in Nat
  <2>1. CASE frames = << >> BY <2>1 DEF Oldest
  <2>2. CASE frames # << >>
    <3>1. frames[1] \in Frames BY <1>1, <2>2
    <3> QED BY <2>2, <3>1, MaxSeqAssumption DEF Oldest, Frames
  <2> QED BY <2>1, <2>2
<1> DEFINE known == IF after < Oldest THEN 0 ELSE after - Oldest + 1
<1>a. known \in Nat BY <1>2
<1>b. Replay(after) = SubSeq(frames, known + 1, Len(frames)) BY DEF Replay
<1> HIDE DEF known
<1>3. PICK n \in Nat : Replay(after) = SubSeq(frames, n + 1, Len(frames))
  BY <1>a, <1>b
<1> QED BY <1>1, <1>3

LEMMA TypeInit == Init => TypeInv
<1> USE MaxSeqAssumption, CapacityAssumption
<1> SUFFICES ASSUME Init PROVE TypeInv OBVIOUS
<1>1. [i \in Items |-> 0] \in Views BY DEF Views, Versions
<1>2. NoReply \in Replies BY <1>1 DEF NoReply, Replies, Seqs
<1>3. task \in [Windows -> [Tasks -> TaskRecords]]
  BY <1>2 DEF Init, TaskRecords, TaskPcs
<1>4. states \in Seq(Views) /\ Len(states) = seq + 1 BY <1>1 DEF Init
<1>5. queue \in [Channels -> Seq(Frames)] BY DEF Init
<1>6. seq \in Seqs /\ cur \in Views /\ outbox \in Seq(Payloads) /\ Len(outbox) = 0
  BY <1>1 DEF Init, Seqs
<1>7. frames \in Seq(Frames) /\ Len(frames) <= Capacity BY DEF Init
<1>8. /\ channel \in [Windows -> Channels \cup {NoChannel}]
      /\ subId \in [Windows -> Channels \cup {NoChannel}]
      /\ subRef \in [Windows -> BOOLEAN] /\ resyncing \in [Windows -> BOOLEAN]
      /\ last \in [Windows -> Seqs \cup {Null}]
      /\ view \in [Windows -> Views] /\ conn \in [Windows -> ConnStates]
  BY <1>1 DEF Init, ConnStates
<1>9. subs = {} /\ sending = {} /\ failed = {} /\ seq = 0 BY DEF Init
<1> QED BY <1>3, <1>4, <1>5, <1>6, <1>7, <1>8, <1>9 DEF TypeInv, TypeOK, TaskRecords

(* The steps of the core and of the hub.                                   *)
LEMMA CoreTypeStep ==
    ASSUME TypeInv, NEW change \in Changes, CoreOperation(change)
    PROVE  TypeInv'
<1>1. /\ change \in Seq(Payloads) /\ Len(change) \in {1, 2}
      /\ change[1] \in Payloads /\ Len(change) = 2 => change[2] \in Payloads
  BY ChangeType DEF TypeInv, CoreOperation
<1>2. cur' \in Views
  BY <1>1, ApplyType DEF TypeInv, TypeOK, CoreOperation
<1>3. outbox' \in Seq(Payloads) /\ seq + Len(outbox') <= MaxSeq
  BY <1>1 DEF CoreOperation
<1> QED BY <1>2, <1>3 DEF TypeInv, TypeOK, CoreOperation, hubVars, windowVars

LEMMA PublishTypeStep == ASSUME TypeInv, Publish PROVE TypeInv'
<1> USE MaxSeqAssumption, CapacityAssumption
<1>1. /\ seq \in Nat /\ outbox \in Seq(Payloads) /\ outbox # << >>
      /\ seq + Len(outbox) <= MaxSeq /\ Len(outbox) \in Nat /\ Len(outbox) > 0
  BY DEF TypeInv, TypeOK, Seqs, Publish
<1>2. Head(outbox) \in Payloads /\ Tail(outbox) \in Seq(Payloads)
      /\ Len(Tail(outbox)) = Len(outbox) - 1
  BY <1>1
<1>3. seq' \in Seqs /\ outbox' \in Seq(Payloads) /\ seq' + Len(outbox') <= MaxSeq
  BY <1>1, <1>2 DEF Publish, Seqs
<1>4. states' \in Seq(Views) /\ Len(states') = seq' + 1
  <2>1. states \in Seq(Views) /\ Len(states) = seq + 1 BY DEF TypeInv, TypeOK
  <2>2. states[Len(states)] \in Views BY <1>1, <2>1
  <2>3. Apply(states[Len(states)], Head(outbox)) \in Views BY <1>2, <2>2, ApplyType
  <2> QED BY <1>1, <2>1, <2>3 DEF Publish
<1>5. /\ frames' \in Seq(Frames) /\ Len(frames') <= Capacity
      /\ sending' \subseteq Channels /\ (sending' # {} => frames' # << >>)
  <2>0. frames \in Seq(Frames) /\ Len(frames) <= Capacity /\ Len(frames) \in Nat
    BY DEF TypeInv, TypeOK
  <2>1. CASE UNCHANGED hubVars
    BY <2>0, <2>1 DEF TypeInv, TypeOK, hubVars
  <2>2. CASE ~UNCHANGED hubVars
    <3> DEFINE f == [seq |-> seq + 1, payload |-> Head(outbox)]
               b == Append(frames, f)
    <3>1. frames' = Trim(b) /\ sending' = subs
      BY <2>2 DEF Publish
    <3>2. f \in Frames BY <1>1, <1>2 DEF Frames
    <3>3. b \in Seq(Frames) /\ Len(b) = Len(frames) + 1 BY <2>0, <3>2
    <3> HIDE DEF f, b
    <3>4. Trim(b) \in Seq(Frames) /\ Len(Trim(b)) <= Capacity /\ Len(Trim(b)) > 0
      <4>1. CASE Len(b) > Capacity
        <5>1. Trim(b) = Tail(b) BY <4>1 DEF Trim
        <5>2. Len(b) > 1 /\ b # << >> BY <2>0, <3>3, <4>1
        <5>3. Tail(b) \in Seq(Frames) /\ Len(Tail(b)) = Len(b) - 1 BY <3>3, <5>2
        <5> QED BY <2>0, <3>3, <5>1, <5>2, <5>3
      <4>2. CASE ~(Len(b) > Capacity)
        BY <2>0, <3>3, <4>2 DEF Trim
      <4> QED BY <4>1, <4>2
    <3>5. frames' # << >> BY <3>1, <3>4
    <3> QED BY <3>1, <3>4, <3>5 DEF TypeInv, TypeOK
  <2> QED BY <2>1, <2>2
<1> QED BY <1>3, <1>4, <1>5 DEF TypeInv, TypeOK, Publish, hubVars, windowVars

LEMMA HubTypeStep ==
    ASSUME TypeInv,
           \/ DropFailed
           \/ \E c \in Channels : Send(c) \/ SendFails(c)
    PROVE  TypeInv'
<1>1. CASE DropFailed
  BY <1>1 DEF TypeInv, TypeOK, DropFailed, coreVars, windowVars
<1>2. ASSUME NEW c \in Channels, Send(c) PROVE TypeInv'
  <2>1. frames \in Seq(Frames) /\ frames # << >> BY <1>2 DEF TypeInv, TypeOK, Send
  <2>2. frames[Len(frames)] \in Frames BY <2>1
  <2>3. queue' \in [Channels -> Seq(Frames)]
    BY <1>2, <2>2 DEF TypeInv, TypeOK, Send
  <2> QED BY <1>2, <2>1, <2>3 DEF TypeInv, TypeOK, Send, coreVars, windowVars
<1>3. ASSUME NEW c \in Channels, SendFails(c) PROVE TypeInv'
  BY <1>3 DEF TypeInv, TypeOK, SendFails, coreVars, windowVars
<1> QED BY <1>1, <1>2, <1>3

(* A task that moves on stays a task.                                      *)
LEMMA GotoType ==
    ASSUME TypeOK, NEW w \in Windows, NEW t \in Tasks, NEW pc \in TaskPcs, Goto(w, t, pc)
    PROVE  task' \in [Windows -> [Tasks -> TaskRecords]]
<1>1. task \in [Windows -> [Tasks -> TaskRecords]] BY DEF TypeOK, TaskRecords
<1>2. [task[w][t] EXCEPT !.pc = pc] \in TaskRecords BY <1>1 DEF TaskRecords
<1> QED BY <1>1, <1>2 DEF Goto

LEMMA TaskEndsType ==
    ASSUME TypeOK, NEW w \in Windows, NEW t \in Tasks, TaskEnds(w, t)
    PROVE  resyncing' \in [Windows -> BOOLEAN]
BY DEF TypeOK, TaskEnds

LEMMA TaskTypeStep ==
    ASSUME TypeInv, NEW w \in Windows, NEW t \in Tasks, TaskStep(w, t)
    PROVE  TypeInv'
<1> USE DEF TypeInv, TypeOK, TaskPcs, coreVars, hubVars
<1>0. /\ <<w, t>> \in Channels
      /\ task \in [Windows -> [Tasks -> TaskRecords]]
      /\ task[w][t] \in TaskRecords /\ task[w][t].reply \in Replies
      /\ task[w][t].reply.seq \in Seqs /\ task[w][t].reply.seq \in Nat
      /\ task[w][t].reply.items \in Views
  BY DEF Channels, TaskRecords, Replies, Seqs
<1>1. CASE HostBootstraps(w, t)
  <2>1. [seq |-> seq, items |-> cur] \in Replies BY DEF Replies
  <2> DEFINE moved == [task EXCEPT ![w][t].pc = "booted"]
             reply == [seq |-> seq, items |-> cur]
  <2>a. [task[w][t] EXCEPT !.pc = "booted"] \in TaskRecords BY <1>0, Zenon DEF TaskRecords
  <2>b. moved \in [Windows -> [Tasks -> TaskRecords]] BY <1>0, <2>a
  <2>c. task' = [moved EXCEPT ![w][t].reply = reply] BY <1>1 DEF HostBootstraps
  <2>d. moved[w][t] \in TaskRecords /\ reply \in Replies BY <2>1, <2>b
  <2> HIDE DEF moved, reply
  <2>2. [moved[w][t] EXCEPT !.reply = reply] \in TaskRecords BY <2>d, Zenon DEF TaskRecords
  <2>3. task' \in [Windows -> [Tasks -> TaskRecords]] BY <2>b, <2>c, <2>2
  <2> QED BY <1>1, <2>3 DEF HostBootstraps, TaskRecords
<1>2. CASE AppliesBootstrap(w, t)
  <2>1. task' \in [Windows -> [Tasks -> TaskRecords]]
    BY <1>2, GotoType DEF AppliesBootstrap
  <2>2. last' \in [Windows -> Seqs \cup {Null}] /\ view' \in [Windows -> Views]
    BY <1>0, <1>2 DEF AppliesBootstrap
  <2>3. resyncing' \in [Windows -> BOOLEAN]
    BY <1>2, TaskEndsType DEF AppliesBootstrap
  <2>4. channel' \in [Windows -> Channels \cup {NoChannel}] /\ conn' \in [Windows -> ConnStates]
    BY <1>0, <1>2, Zenon DEF AppliesBootstrap, ConnStates
  <2> QED BY <1>2, <2>1, <2>2, <2>3, <2>4 DEF AppliesBootstrap, TaskRecords
<1>3. CASE HostSubscribes(w, t)
  <2>1. task' \in [Windows -> [Tasks -> TaskRecords]]
    BY <1>3, GotoType DEF HostSubscribes
  <2>2. Replay(task[w][t].reply.seq) \in Seq(Frames) BY <1>0, ReplayFromBuffer, Zenon
  <2>3. queue' \in [Channels -> Seq(Frames)]
    BY <1>0, <1>3, <2>2 DEF HostSubscribes
  <2> QED BY <1>0, <1>3, <2>1, <2>3, Zenon DEF HostSubscribes, TaskRecords
<1>4. CASE HostRefuses(w, t)
  <2>1. task' \in [Windows -> [Tasks -> TaskRecords]]
    BY <1>4, GotoType DEF HostRefuses
  <2> QED BY <1>4, <2>1 DEF HostRefuses, TaskRecords
<1>5. CASE HostFailsToReplay(w, t)
  <2>1. task' \in [Windows -> [Tasks -> TaskRecords]]
    BY <1>5, GotoType DEF HostFailsToReplay
  <2>2. Replay(task[w][t].reply.seq) \in Seq(Frames) BY <1>0, ReplayFromBuffer, Zenon
  <2>3. queue' \in [Channels -> Seq(Frames)]
    <3>1. PICK k \in 0 .. Len(Replay(task[w][t].reply.seq)) - 1 :
            queue' = [queue EXCEPT ![<<w, t>>] =
                        @ \o SubSeq(Replay(task[w][t].reply.seq), 1, k)]
      BY <1>5, Zenon DEF HostFailsToReplay
    <3>2. SubSeq(Replay(task[w][t].reply.seq), 1, k) \in Seq(Frames) BY <2>2
    <3> QED BY <1>0, <3>1, <3>2
  <2> QED BY <1>5, <2>1, <2>3 DEF HostFailsToReplay, TaskRecords
<1>6. CASE Subscribed(w, t)
  <2>1. task' \in [Windows -> [Tasks -> TaskRecords]]
    BY <1>6, GotoType DEF Subscribed
  <2>2. resyncing' \in [Windows -> BOOLEAN] BY <1>6, TaskEndsType DEF Subscribed
  <2>3. subId' \in [Windows -> Channels \cup {NoChannel}] BY <1>0, <1>6 DEF Subscribed
  <2>4. subRef' \in [Windows -> BOOLEAN] BY <1>6 DEF Subscribed
  <2> QED BY <1>6, <2>1, <2>2, <2>3, <2>4 DEF Subscribed, TaskRecords
<1>7. CASE NotSubscribed(w, t)
  <2>1. task' \in [Windows -> [Tasks -> TaskRecords]]
    BY <1>7, GotoType DEF NotSubscribed
  <2>2. resyncing' \in [Windows -> BOOLEAN] BY <1>7, TaskEndsType DEF NotSubscribed
  <2> QED BY <1>7, <2>1, <2>2, Zenon DEF NotSubscribed, TaskRecords, ConnStates
<1>8. CASE HostUnsubscribes(w, t)
  <2>1. task' \in [Windows -> [Tasks -> TaskRecords]]
    BY <1>8, GotoType DEF HostUnsubscribes
  <2> QED BY <1>8, <2>1 DEF HostUnsubscribes, TaskRecords
<1>9. CASE ResyncFails(w, t)
  <2>1. task' \in [Windows -> [Tasks -> TaskRecords]]
    BY <1>9, GotoType DEF ResyncFails
  <2>2. resyncing' \in [Windows -> BOOLEAN] BY <1>9, TaskEndsType DEF ResyncFails
  <2> QED BY <1>9, <2>1, <2>2, Zenon DEF ResyncFails, TaskRecords, ConnStates
<1> QED BY <1>1, <1>2, <1>3, <1>4, <1>5, <1>6, <1>7, <1>8, <1>9, Zenon DEF TaskStep

LEMMA FrameTypeStep ==
    ASSUME TypeInv, NEW c \in Channels, FrameStep(c)
    PROVE  TypeInv'
<1> USE DEF TypeInv, TypeOK, coreVars, hubVars
<1>0. /\ c[1] \in Windows
      /\ queue' \in [Channels -> Seq(Frames)] /\ UNCHANGED <<coreVars, hubVars>>
      /\ Head(queue[c]) \in Frames
  <2>1. c[1] \in Windows BY DEF Channels
  <2>2. Received(c)
    BY Zenon DEF FrameStep, FrameIgnored, FrameAccepted, GapWhileResyncing, GapStartsResync
  <2>3. queue[c] \in Seq(Frames) /\ queue[c] # << >> BY <2>2 DEF Received
  <2>4. Head(queue[c]) \in Frames /\ Tail(queue[c]) \in Seq(Frames) BY <2>3
  <2>5. queue' \in [Channels -> Seq(Frames)] BY <2>2, <2>4 DEF Received
  <2> QED BY <2>1, <2>2, <2>4, <2>5 DEF Received
<1>1. CASE FrameIgnored(c)
  BY <1>0, <1>1 DEF FrameIgnored
<1>2. CASE FrameAccepted(c)
  <2>1. Head(queue[c]).seq \in Seqs /\ Head(queue[c]).payload \in Payloads
    BY <1>0, MaxSeqAssumption DEF Frames, Seqs
  <2>2. last' \in [Windows -> Seqs \cup {Null}] BY <1>0, <1>2, <2>1 DEF FrameAccepted
  <2>3. view' \in [Windows -> Views] BY <1>0, <1>2, <2>1, ApplyType DEF FrameAccepted
  <2> QED BY <1>0, <1>2, <2>2, <2>3 DEF FrameAccepted
<1>3. CASE GapWhileResyncing(c)
  BY <1>0, <1>3 DEF GapWhileResyncing, ConnStates
<1>4. ASSUME NEW t \in Resyncs, GapStartsResync(c, t) PROVE TypeInv'
  <2>0. t \in Tasks BY DEF Tasks
  <2>1. task' \in [Windows -> [Tasks -> TaskRecords]]
    <3>1. CASE ~subRef[c[1]]
      <4>1. Goto(c[1], t, "boot") BY <1>4, <3>1 DEF GapStartsResync
      <4> QED BY <1>0, <2>0, <4>1, GotoType DEF TaskPcs
    <3>2. CASE subRef[c[1]]
      <4> DEFINE moved == [task EXCEPT ![c[1]][t].pc = "unsubscribe"]
      <4>0. /\ task \in [Windows -> [Tasks -> TaskRecords]] /\ task[c[1]][t] \in TaskRecords
        BY <1>0, <2>0 DEF TaskRecords
      <4>1. [task[c[1]][t] EXCEPT !.pc = "unsubscribe"] \in TaskRecords
        BY <4>0, Zenon DEF TaskRecords, TaskPcs
      <4>2. moved \in [Windows -> [Tasks -> TaskRecords]] BY <4>0, <4>1, Zenon
      <4>3. task' = [moved EXCEPT ![c[1]][t].leaving = subId[c[1]]]
        BY <1>4, <3>2 DEF GapStartsResync
      <4>4. moved[c[1]][t] \in TaskRecords BY <1>0, <2>0, <4>2, Zenon
      <4>5. subId[c[1]] \in Channels \cup {NoChannel} BY <1>0
      <4> HIDE DEF moved
      <4>6. [moved[c[1]][t] EXCEPT !.leaving = subId[c[1]]] \in TaskRecords
        BY <4>4, <4>5, Zenon DEF TaskRecords
      <4> QED BY <4>2, <4>3, <4>6, Zenon
    <3> QED BY <3>1, <3>2
  <2>2. channel' \in [Windows -> Channels \cup {NoChannel}]
    BY <1>0, <1>4, Zenon DEF GapStartsResync
  <2>3. subId' \in [Windows -> Channels \cup {NoChannel}]
    BY <1>0, <1>4, Zenon DEF GapStartsResync
  <2>4. subRef' \in [Windows -> BOOLEAN] BY <1>0, <1>4, Zenon DEF GapStartsResync
  <2>5. resyncing' \in [Windows -> BOOLEAN] BY <1>0, <1>4 DEF GapStartsResync
  <2>6. conn' \in [Windows -> ConnStates] BY <1>0, <1>4 DEF GapStartsResync, ConnStates
  <2>7. UNCHANGED <<last, view>> BY <1>4 DEF GapStartsResync
  <2> QED BY <1>0, <2>1, <2>2, <2>3, <2>4, <2>5, <2>6, <2>7 DEF TaskRecords
<1> QED BY <1>1, <1>2, <1>3, <1>4 DEF FrameStep

LEMMA TypeNext == TypeInv /\ [Next]_vars => TypeInv'
<1> SUFFICES ASSUME TypeInv, [Next]_vars PROVE TypeInv'
  OBVIOUS
<1>1. CASE UNCHANGED vars
  BY <1>1 DEF vars, TypeInv, TypeOK, coreVars, hubVars, windowVars
<1>2. CASE Next
  BY <1>2, CoreTypeStep, PublishTypeStep, HubTypeStep, TaskTypeStep, FrameTypeStep
     DEF Next, HubStep
<1> QED BY <1>1, <1>2

(* Every variable of the stream keeps its type, and the hub's buffer its   *)
(* capacity.                                                               *)
THEOREM StreamTypeCorrect == Spec => []TypeOK
<1>1. TypeInv => TypeOK BY DEF TypeInv
<1> QED BY TypeInit, TypeNext, <1>1, PTL DEF Spec

-----------------------------------------------------------------------------
(* items is what the core held after n frames.                             *)
Held(n, items) == n <= seq /\ items = states[n + 1]

(* A frame leads from the state before it to the state after it.           *)
Leads(f) == f.seq <= seq /\ states[f.seq + 1] = Apply(states[f.seq], f.payload)

(* The frames still to be emitted lead from the last emitted state to the  *)
(* core's.                                                                 *)
OutboxLeads ==
    /\ Len(outbox) <= 2
    /\ Len(outbox) = 0 => cur = states[seq + 1]
    /\ Len(outbox) = 1 => cur = Apply(states[seq + 1], outbox[1])
    /\ Len(outbox) = 2 => cur = Apply(Apply(states[seq + 1], outbox[1]), outbox[2])

(* Every frame in the buffer or on its way, and every reply, tells what    *)
(* the core held; a window that listens has had a bootstrap.               *)
ViewInv ==
    /\ OutboxLeads
    /\ \A k \in 1 .. Len(frames) : Leads(frames[k])
    /\ \A c \in Channels : \A k \in 1 .. Len(queue[c]) : Leads(queue[c][k])
    /\ \A w \in Windows, t \in Tasks : Held(task[w][t].reply.seq, task[w][t].reply.items)
    /\ \A w \in Windows : channel[w] # NoChannel => last[w] # Null
    /\ ViewIsPrefix

LEMMA ViewInit == Init => ViewInv
<1> SUFFICES ASSUME Init PROVE ViewInv OBVIOUS
<1>1. OutboxLeads BY DEF Init, OutboxLeads
<1>2. \A k \in 1 .. Len(frames) : Leads(frames[k]) BY DEF Init
<1>3. \A c \in Channels : \A k \in 1 .. Len(queue[c]) : Leads(queue[c][k]) BY DEF Init
<1>4. \A w \in Windows, t \in Tasks : Held(task[w][t].reply.seq, task[w][t].reply.items)
  BY DEF Init, Held, NoReply
<1> QED BY <1>1, <1>2, <1>3, <1>4 DEF Init, ViewInv, ViewIsPrefix

(* What the core held stays what it held: states only grows.               *)
LEMMA Growth ==
    ASSUME TypeInv, Publish
    PROVE  /\ \A n \in Nat : \A items : Held(n, items) => n <= seq' /\ items = states'[n + 1]
           /\ \A f \in Frames : Leads(f) =>
                 f.seq <= seq' /\ states'[f.seq + 1] = Apply(states'[f.seq], f.payload)
<1>1. /\ seq \in Nat /\ states \in Seq(Views) /\ Len(states) = seq + 1 /\ seq' = seq + 1
  BY MaxSeqAssumption DEF TypeInv, TypeOK, Seqs, Publish
<1>2. \A n \in 1 .. seq + 1 : states'[n] = states[n]
  <2>1. PICK x : states' = Append(states, x) BY DEF Publish
  <2> QED BY <1>1, <2>1
<1> QED BY <1>1, <1>2, MaxSeqAssumption DEF Held, Leads, Frames

LEMMA ViewPublish == ASSUME TypeInv, ViewInv, Publish PROVE ViewInv'
<1> USE MaxSeqAssumption
<1>0. /\ seq \in Nat /\ states \in Seq(Views) /\ Len(states) = seq + 1 /\ seq' = seq + 1
      /\ outbox \in Seq(Payloads) /\ (Len(outbox) = 1 \/ Len(outbox) = 2)
      /\ frames \in Seq(Frames) /\ outbox' = Tail(outbox) /\ cur' = cur
  <2>1. outbox \in Seq(Payloads) /\ outbox # << >> BY DEF TypeInv, TypeOK, Publish
  <2>a. Len(outbox) \in Nat /\ Len(outbox) # 0 BY <2>1
  <2>b. Len(outbox) <= 2 BY DEF ViewInv, OutboxLeads
  <2>c. \A n \in Nat : n # 0 /\ n <= 2 => n = 1 \/ n = 2 OBVIOUS
  <2>2. Len(outbox) = 1 \/ Len(outbox) = 2 BY <2>a, <2>b, <2>c, Zenon
  <2> QED BY <2>1, <2>2 DEF TypeInv, TypeOK, Seqs, Publish
<1> DEFINE next == Apply(states[Len(states)], Head(outbox))
<1>1. states' = Append(states, next) BY DEF Publish
<1>2. Head(outbox) = outbox[1] /\ next = Apply(states[seq + 1], outbox[1]) BY <1>0
<1> HIDE DEF next
<1>3. states'[seq' + 1] = next BY <1>0, <1>1
<1>4. states'[seq'] = states[seq + 1] BY <1>0, <1>1
<1>5. OutboxLeads'
  <2>1. CASE Len(outbox) = 1
    <3>1. Len(outbox') = 0 BY <1>0, <2>1
    <3>2. cur = next BY <1>2, <2>1 DEF ViewInv, OutboxLeads
    <3>3. cur' = states'[seq' + 1] BY <1>0, <1>3, <3>2
    <3> QED BY <3>1, <3>3 DEF OutboxLeads
  <2>2. CASE Len(outbox) = 2
    <3>1. Len(outbox') = 1 /\ outbox'[1] = outbox[2]
      <4>1. outbox # << >> BY <2>2
      <4>2. /\ Len(Tail(outbox)) = Len(outbox) - 1
            /\ \A j \in 1 .. Len(Tail(outbox)) : Tail(outbox)[j] = outbox[j + 1]
        BY <1>0, <4>1
      <4>3. Len(Tail(outbox)) = 1 /\ Tail(outbox)[1] = outbox[1 + 1] BY <2>2, <4>2
      <4> QED BY <1>0, <4>3
    <3>2. cur = Apply(next, outbox[2]) BY <1>2, <2>2 DEF ViewInv, OutboxLeads
    <3>3. cur' = Apply(states'[seq' + 1], outbox'[1]) BY <1>0, <1>3, <3>1, <3>2
    <3> QED BY <3>1, <3>3 DEF OutboxLeads
  <2> QED BY <1>0, <2>1, <2>2
<1>6. ASSUME NEW k \in 1 .. Len(frames') PROVE Leads(frames[k])'
  <2> DEFINE f == [seq |-> seq + 1, payload |-> Head(outbox)]
             b == Append(frames, f)
  <2>1. \A j \in 1 .. Len(frames) : frames[j] \in Frames /\ Leads(frames[j])
    BY <1>0 DEF ViewInv
  <2>2. f.seq <= seq' /\ states'[f.seq + 1] = Apply(states'[f.seq], f.payload)
    BY <1>0, <1>2, <1>3, <1>4
  <2>3. CASE frames' = frames
    BY <2>1, <2>3, Growth DEF Leads
  <2>4. CASE frames' = Trim(b)
    <3>1. b \in Seq({f} \cup Frames) /\ Len(b) = Len(frames) + 1 /\ Len(frames) \in Nat
      BY <1>0
    <3>2. \A j \in 1 .. Len(b) : b[j] = f \/ \E i \in 1 .. Len(frames) : b[j] = frames[i]
      BY <1>0
    <3> HIDE DEF f, b
    <3>3. \E j \in 1 .. Len(b) : frames'[k] = b[j]
      <4>1. CASE Len(b) > Capacity
        <5>1. frames' = Tail(b) /\ b # << >> BY <2>4, <3>1, <4>1 DEF Trim
        <5>2. Len(frames') = Len(b) - 1 /\ frames'[k] = b[k + 1] BY <3>1, <5>1
        <5> QED BY <3>1, <5>2
      <4>2. CASE ~(Len(b) > Capacity) BY <2>4, <4>2 DEF Trim
      <4> QED BY <4>1, <4>2
    <3>4. frames'[k] = f \/ \E i \in 1 .. Len(frames) : frames'[k] = frames[i]
      BY <3>2, <3>3
    <3>5. CASE frames'[k] = f BY <2>2, <3>5 DEF Leads
    <3>6. CASE \E i \in 1 .. Len(frames) : frames'[k] = frames[i]
      BY <2>1, <3>6, Growth DEF Leads
    <3> QED BY <3>4, <3>5, <3>6
  <2> QED BY <2>3, <2>4 DEF Publish, hubVars
<1>7. ASSUME NEW c \in Channels, NEW k \in 1 .. Len(queue'[c]) PROVE Leads(queue[c][k])'
  <2>1. queue' = queue BY DEF Publish
  <2>2. queue[c][k] \in Frames /\ Leads(queue[c][k])
    BY <2>1 DEF ViewInv, TypeInv, TypeOK
  <2> QED BY <2>1, <2>2, Growth DEF Leads
<1>8. ASSUME NEW w \in Windows, NEW t \in Tasks
      PROVE  Held(task[w][t].reply.seq, task[w][t].reply.items)'
  <2>1. task' = task BY DEF Publish, windowVars
  <2>2. task[w][t].reply.seq \in Nat BY DEF TypeInv, TypeOK, Replies, Seqs
  <2>3. Held(task[w][t].reply.seq, task[w][t].reply.items) BY Zenon DEF ViewInv
  <2> QED BY <2>1, <2>2, <2>3, Growth DEF Held
<1>9. ASSUME NEW w \in Windows, last'[w] # Null
      PROVE  last'[w] <= seq' /\ view'[w] = states'[last'[w] + 1]
  <2>1. last' = last /\ view' = view BY DEF Publish, windowVars
  <2>2. last[w] \in Nat BY <1>9, <2>1 DEF TypeInv, TypeOK, Seqs
  <2>3. Held(last[w], view[w]) BY <1>9, <2>1 DEF ViewInv, ViewIsPrefix, Held
  <2> QED BY <2>1, <2>2, <2>3, Growth
<1>10. \A w \in Windows : channel'[w] # NoChannel => last'[w] # Null
  BY DEF ViewInv, Publish, windowVars
<1> QED BY <1>5, <1>6, <1>7, <1>8, <1>9, <1>10 DEF ViewInv, ViewIsPrefix

LEMMA ViewCore ==
    ASSUME TypeInv, ViewInv, NEW change \in Changes, CoreOperation(change)
    PROVE  ViewInv'
<1>0. TypeOK /\ seq + Len(change) <= MaxSeq BY DEF TypeInv, CoreOperation
<1>1. /\ Len(change) = 1 \/ Len(change) = 2
      /\ outbox' = change /\ UNCHANGED <<seq, states, hubVars, queue, windowVars>>
  BY <1>0, ChangeType DEF CoreOperation
<1>2. cur = states[seq + 1] BY DEF CoreOperation, CoreFree, ViewInv, OutboxLeads
<1>3. OutboxLeads'
  <2>1. CASE Len(change) = 1
    <3>1. cur' = Apply(states[seq + 1], change[1]) BY <1>2, <2>1 DEF CoreOperation
    <3> QED BY <1>1, <2>1, <3>1 DEF OutboxLeads
  <2>2. CASE Len(change) = 2
    <3>1. cur' = Apply(Apply(states[seq + 1], change[1]), change[2])
      BY <1>2, <2>2 DEF CoreOperation
    <3> QED BY <1>1, <2>2, <3>1 DEF OutboxLeads
  <2> QED BY <1>1, <2>1, <2>2
<1> QED BY <1>1, <1>3 DEF ViewInv, ViewIsPrefix, Held, Leads, hubVars, windowVars

(* Frames of the buffer may be added to a queue.                           *)
LEMMA ViewQueue ==
    ASSUME TypeInv, ViewInv, NEW c \in Channels, NEW more \in Seq(Frames),
           \A k \in 1 .. Len(more) : Leads(more[k]),
           queue' = [queue EXCEPT ![c] = @ \o more]
    PROVE  \A d \in Channels : \A k \in 1 .. Len(queue'[d]) : Leads(queue'[d][k])
<1> SUFFICES ASSUME NEW d \in Channels, NEW k \in 1 .. Len(queue'[d])
             PROVE  Leads(queue'[d][k])
  OBVIOUS
<1>0. queue \in [Channels -> Seq(Frames)] BY DEF TypeInv, TypeOK
<1>1. CASE d # c BY <1>0, <1>1 DEF ViewInv
<1>2. CASE d = c
  <2>1. queue'[d] = queue[c] \o more /\ queue[c] \in Seq(Frames) BY <1>0, <1>2
  <2>2. \/ k \in 1 .. Len(queue[c]) /\ queue'[d][k] = queue[c][k]
        \/ k - Len(queue[c]) \in 1 .. Len(more) /\ queue'[d][k] = more[k - Len(queue[c])]
    BY <2>1
  <2> QED BY <2>2 DEF ViewInv
<1> QED BY <1>1, <1>2

(* What is left to show of a step that neither numbers nor buffers frames. *)
LEMMA ViewFrame ==
    ASSUME ViewInv, UNCHANGED <<coreVars, frames>>,
           \A d \in Channels : \A k \in 1 .. Len(queue'[d]) : Leads(queue'[d][k]),
           \A w \in Windows, t \in Tasks :
              Held(task'[w][t].reply.seq, task'[w][t].reply.items),
           \A w \in Windows : channel'[w] # NoChannel => last'[w] # Null,
           \A w \in Windows : last'[w] # Null => Held(last'[w], view'[w])
    PROVE  ViewInv'
<1>1. OutboxLeads' BY DEF ViewInv, OutboxLeads, coreVars
<1>2. (\A k \in 1 .. Len(frames) : Leads(frames[k]))' BY DEF ViewInv, Leads, coreVars
<1>3. (\A c \in Channels : \A k \in 1 .. Len(queue[c]) : Leads(queue[c][k]))'
  BY DEF Leads, coreVars
<1>4. (\A w \in Windows, t \in Tasks : Held(task[w][t].reply.seq, task[w][t].reply.items))'
  BY DEF Held, coreVars
<1>5. ViewIsPrefix' BY DEF ViewIsPrefix, Held, coreVars
<1> QED BY <1>1, <1>2, <1>3, <1>4, <1>5 DEF ViewInv

LEMMA ViewHub ==
    ASSUME TypeInv, ViewInv,
           \/ DropFailed
           \/ \E c \in Channels : Send(c) \/ SendFails(c)
    PROVE  ViewInv'
<1>0. ASSUME UNCHANGED <<coreVars, frames, queue, windowVars>> PROVE ViewInv'
  <2>1. UNCHANGED <<task, channel, last, view>> BY <1>0 DEF windowVars
  <2>2. \A d \in Channels : \A k \in 1 .. Len(queue'[d]) : Leads(queue'[d][k])
    BY <1>0 DEF ViewInv
  <2>3. \A w \in Windows : last'[w] # Null => Held(last'[w], view'[w])
    BY <2>1 DEF ViewInv, ViewIsPrefix, Held
  <2> QED BY <1>0, <2>1, <2>2, <2>3, ViewFrame DEF ViewInv
<1>1. CASE DropFailed
  BY <1>0, <1>1, Zenon DEF DropFailed
<1>2. ASSUME NEW c \in Channels, Send(c) PROVE ViewInv'
  <2>1. /\ frames \in Seq(Frames) /\ frames # << >> /\ queue \in [Channels -> Seq(Frames)]
    BY <1>2 DEF TypeInv, TypeOK, Send
  <2> DEFINE f == frames[Len(frames)]
  <2>2. Len(frames) \in 1 .. Len(frames) /\ f \in Frames BY <2>1
  <2>3. Leads(f) BY <2>2, Zenon DEF ViewInv
  <2>4. \A d \in Channels : queue'[d] = queue[d] \/ queue'[d] = Append(queue[d], f)
    BY <1>2, <2>1 DEF Send
  <2> HIDE DEF f
  <2>5. \A d \in Channels : \A k \in 1 .. Len(queue'[d]) : Leads(queue'[d][k])
    <3> SUFFICES ASSUME NEW d \in Channels, NEW k \in 1 .. Len(queue'[d])
                 PROVE  Leads(queue'[d][k])
      OBVIOUS
    <3>1. CASE queue'[d] = queue[d] BY <3>1 DEF ViewInv
    <3>2. CASE queue'[d] = Append(queue[d], f)
      <4>1. queue[d] \in Seq(Frames) BY <2>1
      <4>2. \/ queue'[d][k] = f
            \/ k \in 1 .. Len(queue[d]) /\ queue'[d][k] = queue[d][k]
        BY <2>2, <3>2, <4>1
      <4> QED BY <2>3, <4>2 DEF ViewInv
    <3> QED BY <2>4, <3>1, <3>2
  <2>6. UNCHANGED <<coreVars, frames, windowVars>> BY <1>2 DEF Send
  <2> QED BY <2>5, <2>6, ViewFrame, Zenon DEF ViewInv, ViewIsPrefix, Held, windowVars
<1>3. ASSUME NEW c \in Channels, SendFails(c) PROVE ViewInv'
  BY <1>0, <1>3, Zenon DEF SendFails
<1> QED BY <1>1, <1>2, <1>3

(* Moving a task on keeps its reply.                                       *)
LEMMA GotoKeepsReplies ==
    ASSUME TypeInv, ViewInv, NEW w \in Windows, NEW t \in Tasks, NEW pc, Goto(w, t, pc)
    PROVE  \A v \in Windows, u \in Tasks :
              Held(task'[v][u].reply.seq, task'[v][u].reply.items)
<1>1. task \in [Windows -> [Tasks -> TaskRecords]] BY DEF TypeInv, TypeOK, TaskRecords
<1>2. \A v \in Windows, u \in Tasks : task'[v][u].reply = task[v][u].reply
  BY <1>1 DEF Goto, TaskRecords
<1> QED BY <1>2, Zenon DEF ViewInv

LEMMA ViewTask ==
    ASSUME TypeInv, ViewInv, NEW w \in Windows, NEW t \in Tasks, TaskStep(w, t)
    PROVE  ViewInv'
<1> DEFINE replies == \A v \in Windows, u \in Tasks :
                         Held(task'[v][u].reply.seq, task'[v][u].reply.items)
           queues == \A d \in Channels : \A k \in 1 .. Len(queue'[d]) : Leads(queue'[d][k])
           listens == \A v \in Windows : channel'[v] # NoChannel => last'[v] # Null
           shows == \A v \in Windows : last'[v] # Null => Held(last'[v], view'[v])
<1>0. /\ <<w, t>> \in Channels
      /\ task \in [Windows -> [Tasks -> TaskRecords]]
      /\ task[w][t].reply.seq \in Seqs /\ task[w][t].reply.seq \in Nat
      /\ channel \in [Windows -> Channels \cup {NoChannel}]
      /\ last \in [Windows -> Seqs \cup {Null}] /\ view \in [Windows -> Views]
  BY DEF Channels, TypeInv, TypeOK, TaskRecords, Replies, Seqs
<1>a. UNCHANGED <<coreVars, frames>>
  BY Zenon DEF TaskStep, HostBootstraps, AppliesBootstrap, HostSubscribes, HostRefuses,
     HostFailsToReplay, Subscribed, NotSubscribed, HostUnsubscribes, ResyncFails, hubVars
<1>b. queue' = queue => queues BY DEF ViewInv
<1>c. UNCHANGED <<last, view>> => shows BY DEF ViewInv, ViewIsPrefix, Held
<1>d. UNCHANGED <<last, channel>> => listens BY DEF ViewInv
<1>e. Replay(task[w][t].reply.seq) \in Seq(Frames)
      /\ \A k \in 1 .. Len(Replay(task[w][t].reply.seq)) : Leads(Replay(task[w][t].reply.seq)[k])
  BY <1>0, ReplayFromBuffer, Zenon DEF TypeInv, ViewInv
<1>1. CASE HostBootstraps(w, t)
  <2>1. Held(seq, cur)
    BY <1>1 DEF HostBootstraps, CoreFree, ViewInv, OutboxLeads, Held, TypeInv, TypeOK, Seqs
  <2>2. \A v \in Windows, u \in Tasks :
          \/ task'[v][u].reply = task[v][u].reply
          \/ task'[v][u].reply = [seq |-> seq, items |-> cur]
    BY <1>0, <1>1 DEF HostBootstraps, TaskRecords
  <2>3. replies BY <2>1, <2>2 DEF ViewInv
  <2> QED BY <1>a, <1>b, <1>c, <1>d, <1>1, <2>3, ViewFrame, Zenon DEF HostBootstraps
<1>2. CASE AppliesBootstrap(w, t)
  <2>1. replies BY <1>2, GotoKeepsReplies, Zenon DEF AppliesBootstrap
  <2>2. Held(task[w][t].reply.seq, task[w][t].reply.items) BY DEF ViewInv
  <2>3. shows
    BY <1>0, <1>2, <2>2, Zenon DEF AppliesBootstrap, ViewInv, ViewIsPrefix, Held
  <2>4. listens
    <3>1. ASSUME NEW v \in Windows, channel'[v] # NoChannel, v # w PROVE last'[v] # Null
      BY <1>0, <1>2, <3>1, Zenon DEF AppliesBootstrap, ViewInv
    <3>2. last'[w] = task[w][t].reply.seq BY <1>0, <1>2, Zenon DEF AppliesBootstrap
    <3>3. last'[w] # Null BY <1>0, <3>2 DEF Null
    <3> QED BY <3>1, <3>3, Zenon
  <2> QED BY <1>a, <1>b, <1>2, <2>1, <2>3, <2>4, ViewFrame, Zenon DEF AppliesBootstrap
<1>3. CASE HostSubscribes(w, t)
  <2>1. replies BY <1>3, GotoKeepsReplies, Zenon DEF HostSubscribes
  <2>2. queues BY <1>0, <1>e, <1>3, ViewQueue, Zenon DEF HostSubscribes
  <2> QED BY <1>a, <1>c, <1>d, <1>3, <2>1, <2>2, ViewFrame, Zenon DEF HostSubscribes
<1>4. CASE HostFailsToReplay(w, t)
  <2>1. replies BY <1>4, GotoKeepsReplies, Zenon DEF HostFailsToReplay
  <2>2. queues
    <3> DEFINE missed == Replay(task[w][t].reply.seq)
    <3>1. PICK k \in 0 .. Len(missed) - 1 :
            queue' = [queue EXCEPT ![<<w, t>>] = @ \o SubSeq(missed, 1, k)]
      BY <1>4, Zenon DEF HostFailsToReplay
    <3> HIDE DEF missed
    <3>2. /\ SubSeq(missed, 1, k) \in Seq(Frames)
          /\ \A j \in 1 .. Len(SubSeq(missed, 1, k)) : Leads(SubSeq(missed, 1, k)[j])
      BY <1>e DEF missed
    <3> QED BY <1>0, <3>1, <3>2, ViewQueue, Zenon
  <2> QED BY <1>a, <1>c, <1>d, <1>4, <2>1, <2>2, ViewFrame, Zenon DEF HostFailsToReplay
<1>5. CASE HostRefuses(w, t) \/ HostUnsubscribes(w, t) \/ Subscribed(w, t) \/ ResyncFails(w, t)
  <2>1. PICK pc : Goto(w, t, pc)
    BY <1>5 DEF HostRefuses, HostUnsubscribes, Subscribed, ResyncFails
  <2>2. replies BY <2>1, GotoKeepsReplies
  <2>3. UNCHANGED <<queue, last, view, channel>>
    BY <1>5 DEF HostRefuses, HostUnsubscribes, Subscribed, ResyncFails
  <2> QED BY <1>a, <1>b, <1>c, <1>d, <2>2, <2>3, ViewFrame
<1>6. CASE NotSubscribed(w, t)
  <2>1. replies BY <1>6, GotoKeepsReplies DEF NotSubscribed
  <2>2. listens BY <1>0, <1>6 DEF NotSubscribed, ViewInv
  <2> QED BY <1>a, <1>b, <1>c, <1>6, <2>1, <2>2, ViewFrame, Zenon DEF NotSubscribed
<1> QED BY <1>1, <1>2, <1>3, <1>4, <1>5, <1>6 DEF TaskStep

LEMMA ViewFrameStep ==
    ASSUME TypeInv, ViewInv, NEW c \in Channels, FrameStep(c)
    PROVE  ViewInv'
<1> DEFINE replies == \A v \in Windows, u \in Tasks :
                         Held(task'[v][u].reply.seq, task'[v][u].reply.items)
           queues == \A d \in Channels : \A k \in 1 .. Len(queue'[d]) : Leads(queue'[d][k])
           listens == \A v \in Windows : channel'[v] # NoChannel => last'[v] # Null
           shows == \A v \in Windows : last'[v] # Null => Held(last'[v], view'[v])
<1>0. /\ c[1] \in Windows
      /\ task \in [Windows -> [Tasks -> TaskRecords]]
      /\ channel \in [Windows -> Channels \cup {NoChannel}]
      /\ last \in [Windows -> Seqs \cup {Null}] /\ view \in [Windows -> Views]
      /\ queue \in [Channels -> Seq(Frames)]
  BY DEF Channels, TypeInv, TypeOK, TaskRecords
<1>a. Received(c)
  BY Zenon DEF FrameStep, FrameIgnored, FrameAccepted, GapWhileResyncing, GapStartsResync
<1>b. UNCHANGED <<coreVars, frames>> BY <1>a DEF Received, hubVars
<1>c. queues
  <2>1. queue[c] \in Seq(Frames) /\ queue[c] # << >> BY <1>0, <1>a DEF Received
  <2>2. \A k \in 1 .. Len(Tail(queue[c])) :
           k + 1 \in 1 .. Len(queue[c]) /\ Tail(queue[c])[k] = queue[c][k + 1]
    BY <2>1
  <2>3. \A k \in 1 .. Len(Tail(queue[c])) : Leads(Tail(queue[c])[k]) BY <2>2, Zenon DEF ViewInv
  <2>4. queue' = [queue EXCEPT ![c] = Tail(queue[c])] BY <1>a DEF Received
  <2> QED BY <1>0, <2>3, <2>4 DEF ViewInv
<1>d. UNCHANGED task => replies BY Zenon DEF ViewInv
<1>e. UNCHANGED <<last, view>> => shows BY DEF ViewInv, ViewIsPrefix, Held
<1>f. UNCHANGED <<last, channel>> => listens BY DEF ViewInv
<1>1. CASE FrameIgnored(c) \/ GapWhileResyncing(c)
  <2>1. UNCHANGED <<task, last, view, channel>>
    BY <1>1 DEF FrameIgnored, GapWhileResyncing
  <2> QED BY <1>b, <1>c, <1>d, <1>e, <1>f, <2>1, ViewFrame
<1>2. CASE FrameAccepted(c)
  <2> DEFINE w == c[1]
             f == Head(queue[c])
  <2>1. f \in Frames /\ Leads(f)
    <3>1. queue[c] \in Seq(Frames) /\ queue[c] # << >> BY <1>0, <1>a DEF Received
    <3>2. 1 \in 1 .. Len(queue[c]) /\ f = queue[c][1] BY <3>1
    <3>3. Leads(queue[c][1]) BY <3>2, Zenon DEF ViewInv
    <3>4. queue[c][1] \in Frames BY <3>1, <3>2
    <3> QED BY <3>2, <3>3, <3>4, Zenon
  <2>a. last[w] # Null BY <1>0, <1>2, Zenon DEF FrameAccepted, ViewInv
  <2>2. last[w] # Null /\ last[w] \in Nat BY <1>0, <2>a DEF Seqs
  <2>3. f.seq = last[w] + 1
    BY <1>2, <2>2, Zenon DEF FrameAccepted, Verdict, evaluateStreamSequence
  <2>4. Held(last[w], view[w]) BY <1>0, <2>2 DEF ViewInv, ViewIsPrefix, Held
  <2>5. Held(f.seq, Apply(view[w], f.payload)) BY <2>1, <2>3, <2>4 DEF Held, Leads
  <2>6. /\ last' = [last EXCEPT ![w] = f.seq]
        /\ view' = [view EXCEPT ![w] = Apply(view[w], f.payload)]
        /\ UNCHANGED <<task, channel>>
    BY <1>2 DEF FrameAccepted
  <2>7. f.seq # Null BY <2>2, <2>3 DEF Null
  <2> HIDE DEF f
  <2>8. shows BY <1>0, <2>5, <2>6, Zenon DEF ViewInv, ViewIsPrefix, Held
  <2>9. listens BY <1>0, <2>6, <2>7, Zenon DEF ViewInv
  <2> QED BY <1>b, <1>c, <1>d, <2>6, <2>8, <2>9, ViewFrame
<1>3. ASSUME NEW t \in Resyncs, GapStartsResync(c, t) PROVE ViewInv'
  <2>0. t \in Tasks BY DEF Tasks
  <2>1. \A v \in Windows, u \in Tasks : task'[v][u].reply = task[v][u].reply
    <3>1. CASE ~subRef[c[1]]
      <4>1. task' = [task EXCEPT ![c[1]][t].pc = "boot"]
        BY <1>3, <3>1 DEF GapStartsResync, Goto
      <4> QED BY <1>0, <2>0, <4>1 DEF TaskRecords
    <3>2. CASE subRef[c[1]]
      <4> DEFINE moved == [task EXCEPT ![c[1]][t].pc = "unsubscribe"]
      <4>1. task' = [moved EXCEPT ![c[1]][t].leaving = subId[c[1]]]
        BY <1>3, <3>2 DEF GapStartsResync
      <4>0. task[c[1]][t] \in TaskRecords /\ "unsubscribe" \in TaskPcs
        BY <1>0, <2>0, Zenon DEF TaskPcs
      <4>a. /\ [task[c[1]][t] EXCEPT !.pc = "unsubscribe"] \in TaskRecords
            /\ [task[c[1]][t] EXCEPT !.pc = "unsubscribe"].reply = task[c[1]][t].reply
        BY <4>0, Zenon DEF TaskRecords
      <4>2. /\ moved \in [Windows -> [Tasks -> TaskRecords]]
            /\ \A v \in Windows, u \in Tasks : moved[v][u].reply = task[v][u].reply
        BY <1>0, <2>0, <4>a
      <4> HIDE DEF moved
      <4>3. \A v \in Windows, u \in Tasks : task'[v][u].reply = moved[v][u].reply
        BY <1>0, <2>0, <4>1, <4>2 DEF TaskRecords
      <4> QED BY <4>2, <4>3
    <3> QED BY <3>1, <3>2, Zenon
  <2>2. replies BY <2>1 DEF ViewInv
  <2>3. UNCHANGED <<last, view>> BY <1>3 DEF GapStartsResync
  <2>4. listens BY <1>0, <1>3 DEF GapStartsResync, ViewInv
  <2> QED BY <1>b, <1>c, <1>e, <2>2, <2>3, <2>4, ViewFrame, Zenon
<1> QED BY <1>1, <1>2, <1>3 DEF FrameStep

(* Whatever the order of bootstrap replies, replays, live frames and       *)
(* resynchronisations, and whatever is dropped, a window only ever shows a *)
(* state the core had: the one of the frame it saw last.                   *)
THEOREM ViewCorrect == Spec => []ViewIsPrefix
<1>1. TypeInv /\ ViewInv /\ [Next]_vars => ViewInv'
  <2> SUFFICES ASSUME TypeInv, ViewInv, [Next]_vars PROVE ViewInv'
    OBVIOUS
  <2>1. CASE UNCHANGED vars
    BY <2>1, Zenon DEF vars, ViewInv, ViewIsPrefix, OutboxLeads, Held, Leads, coreVars, hubVars,
       windowVars
  <2>2. CASE Next
    BY <2>2, ViewCore, ViewPublish, ViewHub, ViewTask, ViewFrameStep DEF Next, HubStep
  <2> QED BY <2>1, <2>2
<1>2. ViewInv => ViewIsPrefix BY DEF ViewInv
<1> QED BY TypeInit, TypeNext, ViewInit, <1>1, <1>2, PTL DEF Spec

=============================================================================
