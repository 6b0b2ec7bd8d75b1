----------------------------- MODULE NativeStream -----------------------------
(***************************************************************************)
(* The stream from the core to the two windows: sequence numbers given     *)
(* under the core's write lock, the hub's bounded replay buffer and        *)
(* subscribers, the bootstrap and subscription commands, and in each       *)
(* window the native client and the state provider with its connection     *)
(* and resynchronisation tasks.                                            *)
(*                                                                         *)
(* An item is anything a frame can change in a window: a session, the      *)
(* settings, an integration.  Its version is 0 when it is absent.          *)
(***************************************************************************)
EXTENDS Integers, Sequences, FiniteSets

CONSTANTS
    Windows,            \* overlay and dashboard
    Items,
    Connects,           \* the connect tasks of a provider: two under StrictMode
    Resyncs,            \* bound on the resynchronisations of a provider
    MaxSeq,             \* bound on the frames the core emits
    Capacity,           \* FRAME_BUFFER_CAPACITY
    OversizeMayHappen,  \* whether a frame may exceed MAX_STREAM_FRAME_BYTES
    SendMayFail         \* whether a send to a window's channel may fail

Tasks == Connects \cup Resyncs
Channels == Windows \X Tasks

ASSUME CapacityAssumption == Capacity \in Nat \ {0}
ASSUME MaxSeqAssumption == MaxSeq \in Nat
ASSUME TasksAssumption == Connects \cap Resyncs = {}

VARIABLES
    seq,        \* AppCoreInner.stream_sequence
    cur,        \* the core's state, which a bootstrap copies
    outbox,     \* the payloads the flush in progress has still to emit
    states,     \* the core's state after 0, 1, ... frames (history)
    frames,     \* the hub's replay buffer
    subs,       \* the channels of the hub's subscribers
    sending,    \* the channels the frame being published has still to go to
    failed,     \* the channels that refused it
    queue,      \* channel -> frames on their way to the window
    task,       \* window -> task -> where it is, and the reply it waits for
    channel,    \* client.channel, with its handlers, or NoChannel
    subId,      \* client.subscriptionId, or NoChannel
    subRef,     \* whether the provider's subscriptionRef is set
    last,       \* the provider's lastSequenceRef
    view,       \* the reducer's items
    conn,       \* the reducer's connection status
    resyncing   \* the provider's resyncingRef

coreVars == <<seq, cur, outbox, states>>
hubVars == <<frames, subs, sending, failed>>
windowVars == <<task, channel, subId, subRef, last, view, conn, resyncing>>
vars == <<coreVars, hubVars, queue, windowVars>>

Null == -1
NoChannel == << >>
Versions == 0..MaxSeq
Seqs == 0..MaxSeq
Views == [Items -> Versions]
Payloads == [item : Items, version : Versions]
Frames == [seq : 1..MaxSeq, payload : Payloads]
Replies == [seq : Seqs, items : Views]

Apply(items, payload) == [items EXCEPT ![payload.item] = payload.version]

(***************************************************************************)
(* The core.  An operation changes its state and flushes its payloads      *)
(* before it gives the write lock back.                                    *)
(***************************************************************************)
CoreFree == outbox = << >> /\ sending = {} /\ failed = {}

Upsert(i) == <<[item |-> i, version |-> seq + 1]>>
Remove(i) == <<[item |-> i, version |-> 0]>>
EvictAndStart(old, new) ==
    <<[item |-> old, version |-> 0], [item |-> new, version |-> seq + 2]>>

(* Started by an event, the clock or a command.                            *)
Changes ==
    {Upsert(i) : i \in Items} \cup {Remove(i) : i \in {j \in Items : cur[j] # 0}}
    \cup {EvictAndStart(o, n) : o \in {j \in Items : cur[j] # 0},
                                n \in {j \in Items : cur[j] = 0}}

CoreOperation(change) ==
    /\ CoreFree /\ seq + Len(change) <= MaxSeq
    /\ cur' = IF Len(change) = 1 THEN Apply(cur, change[1])
              ELSE Apply(Apply(cur, change[1]), change[2])
    /\ outbox' = change
    /\ UNCHANGED <<seq, states, hubVars, queue, windowVars>>

(***************************************************************************)
(* The hub                                                                 *)
(***************************************************************************)
Latest == IF frames = << >> THEN 0 ELSE frames[Len(frames)].seq
Oldest == IF frames = << >> THEN 1 ELSE frames[1].seq

(* Mutant: one frame too many is kept.                                     *)
Trim_late(buffer) == IF Len(buffer) > Capacity + 1 THEN Tail(buffer) ELSE buffer

Trim(buffer) == IF Len(buffer) > Capacity THEN Tail(buffer) ELSE buffer

Publishable(n) == n = Latest + 1

(* flush_pending gives the next number and publishes.  A frame that is too *)
(* large, or whose number is not the one expected, is logged and dropped.  *)
Publish ==
    /\ outbox # << >> /\ sending = {} /\ failed = {}
    /\ seq' = seq + 1 /\ outbox' = Tail(outbox)
    /\ states' = Append(states, Apply(states[Len(states)], Head(outbox)))
    /\ \/ /\ OversizeMayHappen \/ ~Publishable(seq + 1)
          /\ UNCHANGED hubVars
       \/ /\ Publishable(seq + 1)
          /\ frames' = Trim(Append(frames, [seq |-> seq + 1, payload |-> Head(outbox)]))
          /\ sending' = subs
          /\ UNCHANGED <<subs, failed>>
    /\ UNCHANGED <<cur, queue, windowVars>>

(* The sends of publish, outside the hub's lock.                           *)
Send(c) ==
    /\ c \in sending /\ sending' = sending \ {c}
    /\ queue' = [queue EXCEPT ![c] = Append(@, frames[Len(frames)])]
    /\ UNCHANGED <<coreVars, frames, subs, failed, windowVars>>

SendFails(c) ==
    /\ SendMayFail /\ c \in sending /\ sending' = sending \ {c}
    /\ failed' = failed \cup {c}
    /\ UNCHANGED <<coreVars, frames, subs, queue, windowVars>>

DropFailed ==
    /\ sending = {} /\ failed # {}
    /\ subs' = subs \ failed /\ failed' = {}
    /\ UNCHANGED <<coreVars, frames, sending, queue, windowVars>>

(***************************************************************************)
(* The provider's tasks.  A task waits for a command between two of its    *)
(* steps; the command runs in the host, and its reply is handled later.    *)
(***************************************************************************)
At(w, t, pc) == task[w][t].pc = pc
Goto(w, t, pc) == task' = [task EXCEPT ![w][t].pc = pc]

(* Mutant: the re-entry guard is not released.                             *)
TaskEnds_guarded(w, t) == UNCHANGED resyncing

(* The end of a task; a resynchronisation releases its re-entry guard.     *)
TaskEnds(w, t) == resyncing' = [resyncing EXCEPT ![w] = @ /\ t \notin Resyncs]

(* Mutant: the number is read without waiting for the flush in progress.   *)
HostBootstraps_unlocked(w, t) ==
    /\ At(w, t, "boot")
    /\ task' = [task EXCEPT ![w][t].pc = "booted",
                            ![w][t].reply = [seq |-> seq, items |-> cur]]
    /\ UNCHANGED <<coreVars, hubVars, queue, channel, subId, subRef, last,
                   view, conn, resyncing>>

(* bootstrap: the snapshot and its number are read under one lock.         *)
HostBootstraps(w, t) ==
    /\ At(w, t, "boot") /\ CoreFree
    /\ task' = [task EXCEPT ![w][t].pc = "booted",
                            ![w][t].reply = [seq |-> seq, items |-> cur]]
    /\ UNCHANGED <<coreVars, hubVars, queue, channel, subId, subRef, last,
                   view, conn, resyncing>>

(* The provider takes the snapshot and subscribes at once; the client      *)
(* refuses a second subscription.                                          *)
AppliesBootstrap(w, t) ==
    /\ At(w, t, "booted")
    /\ last' = [last EXCEPT ![w] = task[w][t].reply.seq]
    /\ view' = [view EXCEPT ![w] = task[w][t].reply.items]
    /\ IF channel[w] = NoChannel
       THEN /\ channel' = [channel EXCEPT ![w] = <<w, t>>]
            /\ Goto(w, t, "subscribe")
            /\ conn' = [conn EXCEPT ![w] = "connected"]
            /\ UNCHANGED resyncing
       ELSE /\ Goto(w, t, "done")
            /\ conn' = [conn EXCEPT ![w] = "disconnected"]
            /\ TaskEnds(w, t)
            /\ UNCHANGED channel
    /\ UNCHANGED <<coreVars, hubVars, queue, subId, subRef>>

ReplayGap(after) == after > Latest \/ (Latest > 0 /\ after + 1 < Oldest)

(* The frames numbered above after; the buffer is numbered without a hole. *)
Replay(after) ==
    LET known == IF after < Oldest THEN 0 ELSE after - Oldest + 1
    IN SubSeq(frames, known + 1, Len(frames))

(* Mutant: the window is registered without the frames it has missed.      *)
HostSubscribes_live_only(w, t) ==
    /\ At(w, t, "subscribe") /\ ~ReplayGap(task[w][t].reply.seq)
    /\ Goto(w, t, "accepted") /\ subs' = subs \cup {<<w, t>>}
    /\ UNCHANGED <<coreVars, queue, frames, sending, failed, channel, subId, subRef,
                   last, view, conn, resyncing>>

(* subscribe: replay and registration under the hub's lock.                *)
HostSubscribes(w, t) ==
    /\ At(w, t, "subscribe") /\ ~ReplayGap(task[w][t].reply.seq)
    /\ Goto(w, t, "accepted") /\ subs' = subs \cup {<<w, t>>}
    /\ queue' = [queue EXCEPT ![<<w, t>>] = @ \o Replay(task[w][t].reply.seq)]
    /\ UNCHANGED <<coreVars, frames, sending, failed, channel, subId, subRef, last, view,
                   conn, resyncing>>

HostRefuses(w, t) ==
    /\ At(w, t, "subscribe") /\ ReplayGap(task[w][t].reply.seq)
    /\ Goto(w, t, "refused")
    /\ UNCHANGED <<coreVars, hubVars, queue, channel, subId, subRef, last,
                   view, conn, resyncing>>

(* A send of the replay fails: what was sent before stays sent.            *)
HostFailsToReplay(w, t) ==
    /\ SendMayFail /\ At(w, t, "subscribe") /\ ~ReplayGap(task[w][t].reply.seq)
    /\ LET missed == Replay(task[w][t].reply.seq)
       IN \E k \in 0 .. Len(missed) - 1 :
             queue' = [queue EXCEPT ![<<w, t>>] = @ \o SubSeq(missed, 1, k)]
    /\ Goto(w, t, "refused")
    /\ UNCHANGED <<coreVars, hubVars, channel, subId, subRef, last, view,
                   conn, resyncing>>

Subscribed(w, t) ==
    /\ At(w, t, "accepted") /\ Goto(w, t, "done")
    /\ subId' = [subId EXCEPT ![w] = <<w, t>>] /\ subRef' = [subRef EXCEPT ![w] = TRUE]
    /\ TaskEnds(w, t)
    /\ UNCHANGED <<coreVars, hubVars, queue, channel, last, view, conn>>

NotSubscribed(w, t) ==
    /\ At(w, t, "refused") /\ Goto(w, t, "done")
    /\ channel' = [channel EXCEPT ![w] = NoChannel]
    /\ conn' = [conn EXCEPT ![w] = "disconnected"]
    /\ TaskEnds(w, t)
    /\ UNCHANGED <<coreVars, hubVars, queue, subId, subRef, last, view>>

(* unsubscribe, at the beginning of a resynchronisation; the hub reports   *)
(* a subscriber it has dropped as not found, and the provider gives up.    *)
HostUnsubscribes(w, t) ==
    /\ At(w, t, "unsubscribe")
    /\ LET c == task[w][t].leaving
       IN /\ subs' = subs \ {c}
          /\ Goto(w, t, IF c \in subs THEN "boot" ELSE "stuck")
    /\ UNCHANGED <<coreVars, queue, frames, sending, failed, channel, subId, subRef,
                   last, view, conn, resyncing>>

ResyncFails(w, t) ==
    /\ At(w, t, "stuck") /\ Goto(w, t, "done")
    /\ conn' = [conn EXCEPT ![w] = "disconnected"]
    /\ TaskEnds(w, t)
    /\ UNCHANGED <<coreVars, hubVars, queue, channel, subId, subRef, last, view>>

(***************************************************************************)
(* A frame reaches the window                                              *)
(***************************************************************************)
(* Mutant: a frame that was seen before is applied again.                  *)
evaluateStreamSequence_lax(n, before) == IF n <= before + 1 THEN "accept" ELSE "gap"

(* Mutant: whatever comes after the frame seen last is taken as seen.      *)
evaluateStreamSequence_seen(n, before) == IF before = Null THEN "accept" ELSE "duplicate"

evaluateStreamSequence(n, before) ==
    IF before = Null \/ n = before + 1 THEN "accept"
    ELSE IF n <= before THEN "duplicate" ELSE "gap"

(* The number the client itself remembers is not modelled: a bootstrap     *)
(* overwrites it before each use.                                          *)
Received(c) ==
    /\ queue[c] # << >> /\ queue' = [queue EXCEPT ![c] = Tail(@)]
    /\ UNCHANGED <<coreVars, hubVars>>

Verdict(c) == evaluateStreamSequence(Head(queue[c]).seq, last[c[1]])

FrameIgnored(c) ==
    /\ Received(c)
    /\ channel[c[1]] = NoChannel \/ Verdict(c) = "duplicate"
    /\ UNCHANGED <<task, channel, subId, subRef, last, view, conn, resyncing>>

FrameAccepted(c) ==
    /\ Received(c) /\ channel[c[1]] # NoChannel /\ Verdict(c) = "accept"
    /\ last' = [last EXCEPT ![c[1]] = Head(queue[c]).seq]
    /\ view' = [view EXCEPT ![c[1]] = Apply(@, Head(queue[c]).payload)]
    /\ UNCHANGED <<task, channel, subId, subRef, conn, resyncing>>

(* A gap.  One resynchronisation runs at a time, and only an established   *)
(* subscription is given up for it.                                        *)
GapWhileResyncing(c) ==
    /\ Received(c) /\ channel[c[1]] # NoChannel /\ Verdict(c) = "gap" /\ resyncing[c[1]]
    /\ conn' = [conn EXCEPT ![c[1]] = "resyncing"]
    /\ UNCHANGED <<task, channel, subId, subRef, last, view, resyncing>>

GapStartsResync(c, t) ==
    LET w == c[1] IN
    /\ Received(c) /\ channel[w] # NoChannel /\ Verdict(c) = "gap" /\ ~resyncing[w]
    /\ At(w, t, "off")
    /\ resyncing' = [resyncing EXCEPT ![w] = TRUE]
    /\ conn' = [conn EXCEPT ![w] = "resyncing"]
    /\ IF subRef[w]
       THEN /\ subRef' = [subRef EXCEPT ![w] = FALSE]
            /\ channel' = [channel EXCEPT ![w] = NoChannel]
            /\ subId' = [subId EXCEPT ![w] = NoChannel]
            /\ task' = [task EXCEPT ![w][t].pc = "unsubscribe", ![w][t].leaving = subId[w]]
       ELSE /\ Goto(w, t, "boot")
            /\ UNCHANGED <<subRef, channel, subId>>
    /\ UNCHANGED <<last, view>>

-----------------------------------------------------------------------------
NoReply == [seq |-> 0, items |-> [i \in Items |-> 0]]

(* Under StrictMode the first effect is undone and run again before any    *)
(* command is answered, so both connect tasks are in progress.             *)
Init ==
    /\ seq = 0 /\ cur = [i \in Items |-> 0] /\ outbox = << >>
    /\ states = <<[i \in Items |-> 0]>>
    /\ frames = << >> /\ subs = {} /\ sending = {} /\ failed = {}
    /\ queue = [c \in Channels |-> << >>]
    /\ task = [w \in Windows |-> [t \in Tasks |->
                 [pc |-> IF t \in Connects THEN "boot" ELSE "off",
                  reply |-> NoReply, leaving |-> NoChannel]]]
    /\ channel = [w \in Windows |-> NoChannel]
    /\ subId = [w \in Windows |-> NoChannel]
    /\ subRef = [w \in Windows |-> FALSE]
    /\ last = [w \in Windows |-> Null]
    /\ view = [w \in Windows |-> [i \in Items |-> 0]]
    /\ conn = [w \in Windows |-> "loading"]
    /\ resyncing = [w \in Windows |-> FALSE]

HubStep == Publish \/ DropFailed \/ \E c \in Channels : Send(c) \/ SendFails(c)

TaskStep(w, t) ==
    \/ HostBootstraps(w, t) \/ AppliesBootstrap(w, t)
    \/ HostSubscribes(w, t) \/ HostRefuses(w, t) \/ HostFailsToReplay(w, t)
    \/ Subscribed(w, t) \/ NotSubscribed(w, t)
    \/ HostUnsubscribes(w, t) \/ ResyncFails(w, t)

FrameStep(c) ==
    \/ FrameIgnored(c) \/ FrameAccepted(c) \/ GapWhileResyncing(c)
    \/ \E t \in Resyncs : GapStartsResync(c, t)

Next ==
    \/ \E change \in Changes : CoreOperation(change)
    \/ HubStep
    \/ \E w \in Windows, t \in Tasks : TaskStep(w, t)
    \/ \E c \in Channels : FrameStep(c)

Spec == Init /\ [][Next]_vars

(* The thread that holds the core's lock finishes its flush, commands are  *)
(* answered, and the event loop of a window runs its callbacks.            *)
Fairness ==
    /\ WF_vars(HubStep)
    /\ \A w \in Windows, t \in Tasks : WF_vars(TaskStep(w, t))
    /\ \A c \in Channels : WF_vars(FrameStep(c))

FairSpec == Spec /\ Fairness

-----------------------------------------------------------------------------
TaskPcs == {"off", "unsubscribe", "stuck", "boot", "booted", "subscribe", "accepted",
            "refused", "done"}
ConnStates == {"loading", "connected", "resyncing", "disconnected"}

(* Every variable holds what its counterpart in the program can hold.      *)
TypeOK ==
    /\ seq \in Seqs /\ cur \in Views /\ outbox \in Seq(Payloads)
    /\ states \in Seq(Views) /\ Len(states) = seq + 1
    /\ frames \in Seq(Frames) /\ Len(frames) <= Capacity
    /\ subs \subseteq Channels /\ sending \subseteq Channels /\ failed \subseteq Channels
    /\ queue \in [Channels -> Seq(Frames)]
    /\ task \in [Windows -> [Tasks -> [pc : TaskPcs, reply : Replies,
                                       leaving : Channels \cup {NoChannel}]]]
    /\ channel \in [Windows -> Channels \cup {NoChannel}]
    /\ subId \in [Windows -> Channels \cup {NoChannel}]
    /\ subRef \in [Windows -> BOOLEAN] /\ resyncing \in [Windows -> BOOLEAN]
    /\ last \in [Windows -> Seqs \cup {Null}]
    /\ view \in [Windows -> Views] /\ conn \in [Windows -> ConnStates]

(* What a window shows is what the core held when it emitted the frame the *)
(* window saw last: never a mixture of two states, with or without lost    *)
(* frames, failed sends, overtaking replies and resynchronisations.        *)
ViewIsPrefix ==
    \A w \in Windows : last[w] # Null => last[w] <= seq /\ view[w] = states[last[w] + 1]

(* A provider that connects once never sees a gap: the replay and the live *)
(* frames of a subscription follow its snapshot without a hole.            *)
NeverResyncs == \A w \in Windows : ~resyncing[w]

(* A subscribed window catches up with the core, unless a frame was too    *)
(* large, a send to the window failed, or it gives its subscription up to  *)
(* resynchronise.                                                          *)
CatchesUp ==
    \A w \in Windows : subRef[w] ~>
        (view[w] = cur \/ Latest # seq \/ channel[w] \notin subs \/ ~subRef[w])

(* A resynchronisation ends.                                               *)
ResyncEnds == \A w \in Windows : resyncing[w] ~> ~resyncing[w]

=============================================================================
