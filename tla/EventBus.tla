------------------------------ MODULE EventBus ------------------------------
(***************************************************************************)
(* The event bus of one controller iteration (pkg/events/bus.go) and the   *)
(* leadership transition that pauses and releases it                       *)
(* (pkg/controller/leaderelection/component.go, pkg/controller/leader.go). *)
(*                                                                         *)
(* Every component talks to every other one through this bus.  Publish     *)
(* reads `started' under startMu and fans out after releasing it; a        *)
(* channel that is full loses the event, and a loss of a critical          *)
(* subscriber cancels the iteration.  When the replica wins the Lease, the *)
(* bus buffers while the leader-only components subscribe and replays the  *)
(* buffer to them afterwards.  The callback that does so runs beside the   *)
(* election loop, which may end the term at any of its steps.              *)
(*                                                                         *)
(* Three subscribers stand for their kinds: the Reconciler runs on every   *)
(* replica and answers what it hears with a trigger, the Coordinator runs  *)
(* on the leader and subscribes anew each term, and the observer is lossy. *)
(***************************************************************************)
EXTENDS Integers, FiniteSets, SequencesExt

CONSTANTS MaxPreStartBufferSize,  \* room of the pre-start buffer
          BufferSize,             \* room of each subscriber's channel
          Bounds                  \* the budgets an instance starts from

Subscribers == {"reconciler", "coordinator", "observer"}
Lossy == {"observer"}

\* What each subscriber asks the bus for.
Accepts(s, kind) ==
    CASE s = "reconciler"  -> kind \in {"index", "page", "leader"}
      [] s = "coordinator" -> kind \in {"trigger", "ask"}
      [] s = "observer"    -> TRUE

\* A merged event stands for all the publications in `ids'.
Event(kind, id) == [kind |-> kind, ids |-> {id}]

Terms == 1..2
Producers == {<<"watcher", 0>>, <<"http", 0>>}
Handler == <<"reconciler", 0>>
Stopper == <<"stopped", 0>>
Starter(t) == <<"started", t>>
Threads == Producers \union {Handler, Stopper} \union {Starter(t) : t \in Terms}

VARIABLES
    bus,        \* [started, buffer]: under startMu
    replay,     \* a StartContext holding startMu: its term, position and drops
    subs,       \* who is subscribed
    chan,       \* the subscribers' channels
    pubs,       \* where each thread stands in Publish
    owes,       \* the Reconciler has yet to answer the event in its hand
    start,      \* where each term's OnStartedLeading stands
    stop,       \* where the election loop stands in OnStoppedLeading
    ctx,        \* the terms' contexts
    comp,       \* [state, term]: the leader-only components' run
    cancelled,  \* the iteration was cancelled
    log,        \* every publication so far, in the order of reading `started'
    got,        \* what each critical subscriber has taken, in order
    mark,       \* the length of `log' when a term paused the bus
    left        \* what remains of the budgets

vars == <<bus, replay, subs, chan, pubs, owes, start, stop, ctx, comp,
          cancelled, log, got, mark, left>>
leadership == <<start, stop, ctx, comp, mark>>

Idle == [at |-> "idle", event |-> Event("none", 0)]
NoReplay == [on |-> FALSE, term |-> 0, next |-> 1, drops |-> FALSE]

Init ==
    /\ bus = [started |-> TRUE, buffer |-> << >>]
    /\ replay = NoReplay
    /\ left \in Bounds
    /\ subs = {"reconciler"} \union (IF left.reads > 0 THEN Lossy ELSE {})
    /\ chan = [s \in Subscribers |-> << >>]
    /\ pubs = [th \in Threads |-> Idle]
    /\ owes = FALSE
    /\ start = [t \in Terms |-> "none"]
    /\ stop = "idle"
    /\ ctx = [t \in Terms |-> "none"]
    /\ comp = [state |-> "off", term |-> 0]
    /\ cancelled = FALSE
    /\ log = << >>
    /\ got = [s \in Subscribers \ Lossy |-> << >>]
    /\ mark = [t \in Terms |-> 0]

-----------------------------------------------------------------------------
(* The bus.                                                                *)

\* Who takes event e from a fan-out, and whether a critical subscriber was
\* too full for it.
Full(s) == Len(chan[s]) >= BufferSize[s]
Wants(s, e) == s \in subs /\ Accepts(s, e.kind)
delivered(e) ==
    [s \in Subscribers |->
        IF Wants(s, e) /\ ~Full(s) THEN Append(chan[s], e) ELSE chan[s]]
criticalDrops(e) == \E s \in Subscribers \ Lossy : Wants(s, e) /\ Full(s)

\* The position of the buffered event the new one merges into.
Mergeable(kind) ==
    {i \in DOMAIN bus.buffer : kind = "index" /\ bus.buffer[i].kind = "index"}

\* Publish under startMu while the bus buffers.
coalesceIntoBuffer(kind, id) ==
    \E i \in Mergeable(kind) :
        /\ bus' = [bus EXCEPT !.buffer[i].ids = @ \union {id}]
        /\ UNCHANGED pubs

bufferEvent(th, kind, id) ==
    /\ Mergeable(kind) = {}
    /\ IF Len(bus.buffer) < MaxPreStartBufferSize
       THEN /\ bus' = [bus EXCEPT !.buffer = Append(@, Event(kind, id))]
            /\ UNCHANGED pubs
       ELSE /\ pubs' = [pubs EXCEPT ![th].at = "report"]
            /\ UNCHANGED bus

\* Publish up to the release of startMu: the event is buffered, merged or
\* dropped, or the thread goes on to fan it out.
Publish(th, kind) ==
    LET id == Len(log) + 1 IN
    /\ pubs[th] = Idle
    /\ ~replay.on
    /\ log' = Append(log, [by |-> th, kind |-> kind])
    /\ IF bus.started
       THEN /\ pubs' = [pubs EXCEPT ![th] = [at |-> "fan", event |-> Event(kind, id)]]
            /\ UNCHANGED bus
       ELSE \/ coalesceIntoBuffer(kind, id)
            \/ bufferEvent(th, kind, id)

\* The rest of Publish: the walk over the subscribers, with no lock of the
\* bus state held.
fanOut(th) ==
    /\ pubs[th].at = "fan"
    /\ chan' = delivered(pubs[th].event)
    /\ pubs' = [pubs EXCEPT ![th] =
                    IF criticalDrops(pubs[th].event)
                    THEN [Idle EXCEPT !.at = "report"] ELSE Idle]
    /\ UNCHANGED <<bus, replay, subs, owes, cancelled, log, got, left, leadership>>

\* reportDrops: the drop callback cancels the iteration.
reportDrops(th) ==
    /\ pubs[th].at = "report"
    /\ pubs' = [pubs EXCEPT ![th] = Idle]
    /\ cancelled' = TRUE
    /\ UNCHANGED <<bus, replay, subs, chan, owes, log, got, left, leadership>>

\* Pause: a bus that buffers already keeps what it has.
Pause_Clears == bus' = [started |-> FALSE, buffer |-> << >>]

Pause ==
    bus' = IF bus.started THEN [started |-> FALSE, buffer |-> << >>] ELSE bus

Ended(t) == ctx[t] = "ended"

\* StartContext up to the replay; startMu stays held from here on.
StartContext(t) ==
    /\ start[t] = "release"
    /\ ~replay.on
    /\ IF Ended(t) \/ bus.started
       THEN /\ start' = [start EXCEPT ![t] = "done"]
            /\ UNCHANGED <<bus, replay>>
       ELSE /\ start' = [start EXCEPT ![t] = "replay"]
            /\ bus' = [bus EXCEPT !.started = TRUE]
            /\ replay' = [NoReplay EXCEPT !.on = TRUE, !.term = t]
    /\ UNCHANGED <<subs, chan, pubs, owes, stop, ctx, comp, cancelled, log, got,
                   mark, left>>

\* One turn of the loop of replayBufferedEvents.
replayNext ==
    /\ replay.on
    /\ replay.next <= Len(bus.buffer)
    /\ ~Ended(replay.term)
    /\ chan' = delivered(bus.buffer[replay.next])
    /\ replay' = [replay EXCEPT !.next = @ + 1,
                                !.drops = @ \/ criticalDrops(bus.buffer[replay.next])]
    /\ UNCHANGED <<bus, subs, pubs, owes, cancelled, log, got, left, leadership>>

\* The buffer a StartContext leaves behind: what it has not replayed.
unreplayed_All == bus.buffer
unreplayed == SubSeq(bus.buffer, replay.next, Len(bus.buffer))

\* The loop ends, at the end of the buffer or because the term has ended;
\* StartContext releases startMu and the callback returns.
replayEnds ==
    /\ replay.on
    /\ replay.next > Len(bus.buffer) \/ Ended(replay.term)
    /\ bus' = [started |-> ~Ended(replay.term), buffer |-> unreplayed]
    /\ pubs' = [pubs EXCEPT ![Starter(replay.term)].at =
                    IF replay.drops THEN "report" ELSE @]
    /\ start' = [start EXCEPT ![replay.term] = "done"]
    /\ replay' = NoReplay
    /\ UNCHANGED <<subs, chan, owes, stop, ctx, comp, cancelled, log, got, mark, left>>

-----------------------------------------------------------------------------
(* The threads that publish and the subscribers that listen.               *)

\* A producer of every replica publishes one event.
Produce(th, kind) ==
    /\ left[kind] > 0
    /\ kind \in (IF th[1] = "watcher" THEN {"index"} ELSE {"page", "ask"})
    /\ Publish(th, kind)
    /\ left' = [left EXCEPT ![kind] = @ - 1]
    /\ UNCHANGED <<replay, subs, chan, owes, cancelled, got, leadership>>

\* The Reconciler's loop takes the next event in its channel ...
HandleEvent ==
    /\ ~owes
    /\ pubs[Handler] = Idle
    /\ chan["reconciler"] # << >>
    /\ got' = [got EXCEPT !["reconciler"] = Append(@, Head(chan["reconciler"]))]
    /\ chan' = [chan EXCEPT !["reconciler"] = Tail(@)]
    /\ owes' = TRUE
    /\ UNCHANGED <<bus, replay, subs, pubs, cancelled, log, left, leadership>>

\* ... and answers it with a trigger for the Coordinator.  The events it
\* skips (an initial sync, a HAProxy pod) are not published here.
triggerReconciliation ==
    /\ owes
    /\ owes' = FALSE
    /\ Publish(Handler, "trigger")
    /\ UNCHANGED <<replay, subs, chan, cancelled, got, left, leadership>>

\* The Coordinator's mailbox takes the next event.
mailbox ==
    /\ comp.state = "on"
    /\ chan["coordinator"] # << >>
    /\ got' = [got EXCEPT !["coordinator"] = Append(@, Head(chan["coordinator"]))]
    /\ chan' = [chan EXCEPT !["coordinator"] = Tail(@)]
    /\ UNCHANGED <<bus, replay, subs, pubs, owes, cancelled, log, left, leadership>>

\* The observer reads at its own pace.
Observe ==
    /\ left.reads > 0
    /\ left' = [left EXCEPT !.reads = @ - 1]
    /\ chan["observer"] # << >>
    /\ chan' = [chan EXCEPT !["observer"] = Tail(@)]
    /\ UNCHANGED <<bus, replay, subs, pubs, owes, cancelled, log, got, leadership>>

-----------------------------------------------------------------------------
(* The leadership transition.  OnStartedLeading runs in a goroutine of its *)
(* term; the election loop runs OnStoppedLeading and then the next term.   *)

\* The election loop wins the Lease and starts the callback.
Acquire(t) ==
    /\ stop = "idle"
    /\ ctx[t] = "none"
    /\ \A u \in Terms : u < t => ctx[u] = "ended"
    /\ left.terms > 0
    /\ left' = [left EXCEPT !.terms = @ - 1]
    /\ ctx' = [ctx EXCEPT ![t] = "live"]
    /\ start' = [start EXCEPT ![t] = "claim"]
    /\ UNCHANGED <<bus, replay, subs, chan, pubs, owes, stop, comp, cancelled, log,
                   got, mark>>

\* claimEpoch succeeds, or the term is given back before the bus is touched.
claimEpoch(t) ==
    /\ start[t] = "claim"
    /\ \E next \in {"pause", "done"} : start' = [start EXCEPT ![t] = next]
    /\ UNCHANGED <<bus, replay, subs, chan, pubs, owes, stop, ctx, comp, cancelled,
                   log, got, mark, left>>

OnStartedLeading_NoPause(t) ==
    /\ start[t] = "pause"
    /\ mark' = [mark EXCEPT ![t] = Len(log)]
    /\ start' = [start EXCEPT ![t] = "announce"]
    /\ UNCHANGED <<bus, replay, subs, chan, pubs, owes, stop, ctx, comp, cancelled,
                   log, got, left>>

OnStartedLeading(t) ==
    /\ start[t] = "pause"
    /\ ~replay.on
    /\ Pause
    /\ mark' = [mark EXCEPT ![t] = Len(log)]
    /\ start' = [start EXCEPT ![t] = "announce"]
    /\ UNCHANGED <<replay, subs, chan, pubs, owes, stop, ctx, comp, cancelled,
                   log, got, left>>

BecameLeader(t) ==
    /\ start[t] = "announce"
    /\ Publish(Starter(t), "leader")
    /\ start' = [start EXCEPT ![t] = "callback"]
    /\ UNCHANGED <<replay, subs, chan, owes, stop, ctx, comp, cancelled, got, mark, left>>

\* leaderCallbackState.mu is held while the leader-only components start.
StateLocked == \E t \in Terms : start[t] = "subscribing"

startLeaderOnlyComponents(t) ==
    /\ start[t] = "callback"
    /\ pubs[Starter(t)] = Idle
    /\ ~StateLocked
    /\ IF Ended(t)
       THEN /\ start' = [start EXCEPT ![t] = "release"]
            /\ UNCHANGED comp
       ELSE /\ start' = [start EXCEPT ![t] = "subscribing"]
            /\ comp' = [state |-> "starting", term |-> t]
    /\ UNCHANGED <<bus, replay, subs, chan, pubs, owes, stop, ctx, cancelled, log,
                   got, mark, left>>

\* The component's Start subscribes with a new channel and signals that it
\* is ready.
Subscribe ==
    /\ comp.state = "starting"
    /\ ~replay.on
    /\ comp' = [comp EXCEPT !.state = "on"]
    /\ subs' = subs \union {"coordinator"}
    /\ chan' = [chan EXCEPT !["coordinator"] = << >>]
    /\ UNCHANGED <<bus, replay, pubs, owes, start, stop, ctx, cancelled, log, got,
                   mark, left>>

StartLeaderOnly_Early(t) ==
    /\ start[t] = "subscribing"
    /\ start' = [start EXCEPT ![t] = "release"]
    /\ UNCHANGED <<bus, replay, subs, chan, pubs, owes, stop, ctx, comp, cancelled,
                   log, got, mark, left>>

\* StartLeaderOnly returns once every component is ready or the term is over.
StartLeaderOnly(t) ==
    /\ start[t] = "subscribing"
    /\ comp.state = "on" \/ Ended(t)
    /\ start' = [start EXCEPT ![t] = "release"]
    /\ UNCHANGED <<bus, replay, subs, chan, pubs, owes, stop, ctx, comp, cancelled,
                   log, got, mark, left>>

\* The component's loop sees its context ended and unsubscribes.
UnsubscribeTyped ==
    /\ comp.state = "on"
    /\ Ended(comp.term)
    /\ comp' = [comp EXCEPT !.state = "off"]
    /\ subs' = subs \ {"coordinator"}
    /\ chan' = [chan EXCEPT !["coordinator"] = << >>]
    /\ UNCHANGED <<bus, replay, pubs, owes, start, stop, ctx, cancelled, log, got,
                   mark, left>>

\* The Lease is lost or given back, at any step of the callback.
TermEnds(t) ==
    /\ ctx[t] = "live"
    /\ ctx' = [ctx EXCEPT ![t] = "ended"]
    /\ stop' = "lost"
    /\ UNCHANGED <<bus, replay, subs, chan, pubs, owes, start, comp, cancelled, log,
                   got, mark, left>>

LostLeadership ==
    /\ stop = "lost"
    /\ Publish(Stopper, "lost")
    /\ stop' = "take"
    /\ UNCHANGED <<replay, subs, chan, owes, start, ctx, comp, cancelled, got, mark, left>>

\* leaderCallbackState.stop: take the components under the lock, cancel them
\* and wait for them.
take ==
    /\ stop = "take"
    /\ pubs[Stopper] = Idle
    /\ ~StateLocked
    /\ stop' = "wait"
    /\ UNCHANGED <<bus, replay, subs, chan, pubs, owes, start, ctx, comp, cancelled,
                   log, got, mark, left>>

stopLeaderOnlyComponents ==
    /\ stop = "wait"
    /\ comp.state = "off"
    /\ stop' = "idle"
    /\ UNCHANGED <<bus, replay, subs, chan, pubs, owes, start, ctx, comp, cancelled,
                   log, got, mark, left>>

-----------------------------------------------------------------------------
\* What a term's callback does next.
Starts(t) ==
    \/ claimEpoch(t) \/ OnStartedLeading(t) \/ BecameLeader(t)
    \/ startLeaderOnlyComponents(t) \/ StartLeaderOnly(t) \/ StartContext(t)

Stops == LostLeadership \/ take \/ stopLeaderOnlyComponents
Replays == replayNext \/ replayEnds
Handles == HandleEvent \/ triggerReconciliation
Publishes(th) == fanOut(th) \/ reportDrops(th)

\* A cancelled iteration is torn down with its bus.
Next ==
    /\ ~cancelled
    /\ \/ \E th \in Producers, kind \in {"index", "page", "ask"} : Produce(th, kind)
       \/ \E th \in Threads : Publishes(th)
       \/ Handles
       \/ mailbox
       \/ Observe
       \/ \E t \in Terms : Acquire(t) \/ Starts(t) \/ TermEnds(t)
       \/ Replays
       \/ Subscribe
       \/ UnsubscribeTyped
       \/ Stops

\* Every goroutine that can go on does.  Nothing obliges a producer to
\* publish, a Lease to be won or lost, or the observer to read.
Fairness ==
    /\ \A th \in Threads : WF_vars(~cancelled /\ Publishes(th))
    /\ WF_vars(~cancelled /\ Handles)
    /\ WF_vars(~cancelled /\ mailbox)
    /\ \A t \in Terms : WF_vars(~cancelled /\ Starts(t))
    /\ WF_vars(~cancelled /\ Replays)
    /\ WF_vars(~cancelled /\ Subscribe)

Spec == Init /\ [][Next]_vars /\ Fairness

-----------------------------------------------------------------------------
IdsOf(events) == UNION {e.ids : e \in ToSet(events)}

\* The publications a subscriber has taken or will find in its channel.
Reached(s) == IdsOf(got[s]) \union IdsOf(chan[s])

\* The publications whose Publish has returned, or is about to report.
Settled == (1..Len(log)) \ UNION {pubs[th].event.ids : th \in {x \in Threads : pubs[x].at = "fan"}}

\* A loss was reported, or the thread that saw it is about to report it.
Alarm ==
    \/ cancelled
    \/ \E th \in Threads : pubs[th].at = "report"
    \/ replay.drops

\* No event is lost in silence: whatever was published is in the Reconciler's
\* hands, in its channel or in the buffer, or the loss is reported and ends
\* the iteration (Publish, replayBufferedEvents, reportDrops).  It holds
\* through a replay that a lost term cuts short and through the pause of the
\* next term.
NoSilentLoss ==
    \A id \in Settled :
        Accepts("reconciler", log[id].kind) =>
            id \in Reached("reconciler") \union IdsOf(bus.buffer) \/ Alarm

\* What a subscriber has been sent, oldest first.
Sent(s) == got[s] \o chan[s]

\* No publication reaches a subscriber twice, and the events of one thread
\* reach it in the order they were published: a replay and a Publish beside
\* it do not overtake each other.  Events merged in the buffer take the
\* place of the first of them and are not ordered.
InOrder ==
    \A s \in Subscribers \ Lossy : \A i, j \in DOMAIN Sent(s) :
        i < j =>
            \A a \in Sent(s)[i].ids, b \in Sent(s)[j].ids :
                /\ a # b
                /\ log[a].by = log[b].by /\ log[a].kind # "index" => a < b

\* Once the callback of a term has returned, its leader-only components have
\* missed nothing that was published since the term paused the bus
\* (OnStartedLeading): subscribing late costs them no event.
LeaderHearsItsTerm ==
    \A t \in Terms :
        ctx[t] = "live" /\ start[t] = "done" /\ comp.state = "on" =>
            \A id \in Settled :
                id > mark[t] /\ Accepts("coordinator", log[id].kind) =>
                    id \in Reached("coordinator") \union IdsOf(bus.buffer) \/ Alarm

\* The Coordinator of term t has been told to reconcile since it took over.
Seeded(t) ==
    \E e \in ToSet(got["coordinator"]) :
        e.kind = "trigger" /\ \E id \in e.ids : id > mark[t]

\* A term that lasts is seeded: from the moment its callback is about to
\* release the bus, BecameLeader reaches the Reconciler and the trigger that
\* answers it reaches the Coordinator, which subscribed meanwhile.  The
\* callbacks of earlier terms have returned; one that still runs could pause
\* the bus again.
LeaderIsSeeded ==
    \A t \in Terms :
        (start[t] = "release" /\ \A u \in Terms : u < t => start[u] \in {"none", "done"})
            ~> (Seeded(t) \/ Ended(t) \/ cancelled)

=============================================================================
