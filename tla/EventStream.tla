---------------------------- MODULE EventStream ----------------------------
(***************************************************************************)
(* The live stream: writers commit an event and then publish its id to the *)
(* hub; the hub offers it to every registered viewer over a bounded lossy  *)
(* queue; each connection's generator (server.stream_events) registers,    *)
(* replays the log tail and splices into its queue; the browser's          *)
(* EventSource reconnects with the last id it received.                    *)
(*                                                                         *)
(* An event is its id.  An id-less frame (heartbeat or notification) is    *)
(* NoId in a queue; it reaches the browser without moving its cursor and   *)
(* is not followed further here.                                           *)
(***************************************************************************)
EXTENDS Integers, Sequences, FiniteSets

CONSTANTS
    Writers,            \* hunts that may commit and publish concurrently
    Viewers,            \* browser tabs
    QueueSize,          \* VIEWER_QUEUE_MAXSIZE
    WireSize,           \* bound: frames on their way to a browser
    MaxEvents,          \* bound: committed events
    MaxDisconnects,     \* bound: connections lost by a viewer
    MaxRestarts         \* bound: crashes of the daemon

ASSUME EventStreamAssumption ==
    /\ QueueSize \in Nat \ {0} /\ WireSize \in Nat \ {0}
    /\ MaxEvents \in Nat /\ MaxDisconnects \in Nat /\ MaxRestarts \in Nat

NoId == 0           \* AUTOINCREMENT ids start at 1
Ids  == Nat \ {NoId}

VARIABLES
    head,           \* committed trajectory_events: ids 1..head
    unpublished,    \* per writer: the id it committed and not yet published
    registered,     \* Hub._viewers: who the hub still feeds
    queue,          \* per viewer: its asyncio.Queue
    phase,          \* per viewer: where its generator is
    highWater,      \* per viewer: the generator's dedup mark
    batch,          \* per viewer: fetched rows not yet yielded
    wire,           \* per viewer: frames yielded and not yet received
    cursor,         \* per viewer: the browser's Last-Event-ID, -1 at first
    received,       \* per viewer: ids its browser applied, in order
    disconnects,    \* connections lost so far
    restarts        \* crashes so far

producer  == <<head, unpublished>>
generator == <<phase, highWater, batch>>
browser   == <<cursor, received>>
mishaps   == <<disconnects, restarts>>
vars == <<producer, registered, queue, generator, wire, browser, mishaps>>

\* new: no snapshot yet.  closed: between connections.  registered, replay,
\* live: the three stages of stream_events.  ended: its loop broke off, the
\* frames on the wire still arrive.  lost: the browser is gone, the
\* generator's finally has not run yet.
Phases == {"new", "closed", "registered", "replay", "live", "ended", "lost"}

Init ==
    /\ head = 0 /\ unpublished = [w \in Writers |-> NoId]
    /\ registered = {}
    /\ queue = [v \in Viewers |-> <<>>]
    /\ phase = [v \in Viewers |-> "new"]
    /\ highWater = [v \in Viewers |-> 0]
    /\ batch = [v \in Viewers |-> <<>>]
    /\ wire = [v \in Viewers |-> <<>>]
    /\ cursor = [v \in Viewers |-> -1]
    /\ received = [v \in Viewers |-> <<>>]
    /\ disconnects = 0 /\ restarts = 0

-----------------------------------------------------------------------------
(* The writers and the hub.                                                *)

Commit(w) ==
    /\ unpublished[w] = NoId /\ head < MaxEvents
    /\ head' = head + 1
    /\ unpublished' = [unpublished EXCEPT ![w] = head + 1]
    /\ UNCHANGED <<registered, queue, generator, wire, browser, mishaps>>

\* Mutant: a full queue loses the frame and keeps the viewer.
OfferLossy(id) ==
    /\ queue' = [v \in Viewers |->
                    IF v \in registered /\ Len(queue[v]) < QueueSize
                    THEN Append(queue[v], id) ELSE queue[v]]
    /\ UNCHANGED registered

\* put_nowait to every viewer; one whose queue is full is deregistered.
Offer(id) ==
    LET full == {v \in registered : Len(queue[v]) >= QueueSize}
    IN  /\ queue' = [v \in Viewers |-> IF v \in registered \ full
                                       THEN Append(queue[v], id) ELSE queue[v]]
        /\ registered' = registered \ full

Publish(w) ==
    /\ unpublished[w] # NoId
    /\ Offer(unpublished[w])
    /\ unpublished' = [unpublished EXCEPT ![w] = NoId]
    /\ UNCHANGED <<head, generator, wire, browser, mishaps>>

\* Hub.notify and Hub._beat.
OfferIdless ==
    /\ registered # {}
    /\ Offer(NoId)
    /\ UNCHANGED <<producer, generator, wire, browser, mishaps>>

-----------------------------------------------------------------------------
(* One connection: server.stream and server.stream_events.                 *)

\* The page's first load takes latest_id from /snapshot as its cursor.
Snapshot(v) ==
    /\ phase[v] = "new"
    /\ cursor' = [cursor EXCEPT ![v] = head]
    /\ phase' = [phase EXCEPT ![v] = "closed"]
    /\ UNCHANGED <<producer, registered, queue, highWater, batch, wire, received, mishaps>>

Register(v) ==
    /\ registered' = registered \cup {v}
    /\ queue' = [queue EXCEPT ![v] = <<>>]

\* The (re)connect: register with the hub first.
Connect(v) ==
    /\ phase[v] = "closed" \/ (phase[v] = "ended" /\ wire[v] = <<>>)
    /\ Register(v)
    /\ phase' = [phase EXCEPT ![v] = "registered"]
    /\ highWater' = [highWater EXCEPT ![v] = cursor[v]]
    /\ UNCHANGED <<producer, batch, wire, browser, mishaps>>

\* Mutant: WHERE id >= last_seen.
CatchUpInclusive(v) ==
    /\ phase[v] = "registered"
    /\ batch' = [batch EXCEPT ![v] =
                    [i \in 1..(head - highWater[v] + 1) |-> highWater[v] + i - 1]]
    /\ phase' = [phase EXCEPT ![v] = "replay"]
    /\ UNCHANGED <<producer, registered, queue, highWater, wire, browser, mishaps>>

\* SELECT ... WHERE id > last_seen ORDER BY id
CatchUp(v) ==
    /\ phase[v] = "registered"
    /\ batch' = [batch EXCEPT ![v] =
                    [i \in 1..(head - highWater[v]) |-> highWater[v] + i]]
    /\ phase' = [phase EXCEPT ![v] = "replay"]
    /\ UNCHANGED <<producer, registered, queue, highWater, wire, browser, mishaps>>

Yield(v, id) == /\ Len(wire[v]) < WireSize
                /\ wire' = [wire EXCEPT ![v] = Append(@, id)]

YieldReplay(v) ==
    /\ phase[v] = "replay" /\ batch[v] # <<>>
    /\ Yield(v, Head(batch[v]))
    /\ batch' = [batch EXCEPT ![v] = Tail(@)]
    /\ highWater' = [highWater EXCEPT ![v] =
                        IF Head(batch[v]) > @ THEN Head(batch[v]) ELSE @]
    /\ UNCHANGED <<producer, registered, queue, phase, browser, mishaps>>

\* Mutant: the connection registers when the replay is over.
GoLiveRegisters(v) ==
    /\ phase[v] = "replay" /\ batch[v] = <<>>
    /\ phase' = [phase EXCEPT ![v] = "live"]
    /\ Register(v)
    /\ UNCHANGED <<producer, highWater, batch, wire, browser, mishaps>>

GoLive(v) ==
    /\ phase[v] = "replay" /\ batch[v] = <<>>
    /\ phase' = [phase EXCEPT ![v] = "live"]
    /\ UNCHANGED <<producer, registered, queue, highWater, batch, wire, browser, mishaps>>

\* Mutant: no comparison with the mark.
SpliceUnmarked(v) ==
    /\ phase[v] = "live" /\ queue[v] # <<>>
    /\ queue' = [queue EXCEPT ![v] = Tail(@)]
    /\ \/ /\ Head(queue[v]) # NoId
          /\ Yield(v, Head(queue[v]))
          /\ highWater' = [highWater EXCEPT ![v] = Head(queue[v])]
       \/ /\ Head(queue[v]) = NoId
          /\ UNCHANGED <<wire, highWater>>
    /\ UNCHANGED <<producer, registered, phase, batch, browser, mishaps>>

\* The next frame of the queue: pass it on, or drop a duplicate.
Splice(v) ==
    /\ phase[v] = "live" /\ queue[v] # <<>>
    /\ queue' = [queue EXCEPT ![v] = Tail(@)]
    /\ \/ /\ Head(queue[v]) # NoId
          /\ Head(queue[v]) > highWater[v]
          /\ Yield(v, Head(queue[v]))
          /\ highWater' = [highWater EXCEPT ![v] = Head(queue[v])]
       \/ /\ Head(queue[v]) <= highWater[v]
          /\ UNCHANGED <<wire, highWater>>
    /\ UNCHANGED <<producer, registered, phase, batch, browser, mishaps>>

\* Mutant: the membership test the wrong way round.
TimeOutRegistered(v) ==
    /\ phase[v] = "live" /\ queue[v] = <<>> /\ v \in registered
    /\ phase' = [phase EXCEPT ![v] = "ended"]
    /\ UNCHANGED <<producer, registered, queue, highWater, batch, wire, browser, mishaps>>

\* Two heartbeat intervals of silence and the hub no longer knows the
\* viewer.  While it does, the timeout changes nothing.
TimeOut(v) ==
    /\ phase[v] = "live" /\ queue[v] = <<>> /\ v \notin registered
    /\ phase' = [phase EXCEPT ![v] = "ended"]
    /\ UNCHANGED <<producer, registered, queue, highWater, batch, wire, browser, mishaps>>

\* EventSource hands a frame to the page and remembers its id.
Receive(v) ==
    /\ wire[v] # <<>> /\ phase[v] # "lost"
    /\ wire' = [wire EXCEPT ![v] = Tail(@)]
    /\ cursor' = [cursor EXCEPT ![v] = Head(wire[v])]
    /\ received' = [received EXCEPT ![v] = Append(@, Head(wire[v]))]
    /\ UNCHANGED <<producer, registered, queue, generator, mishaps>>

\* The TCP connection breaks: what was on the wire is lost.
Disconnect(v) ==
    /\ disconnects < MaxDisconnects
    /\ phase[v] \in {"registered", "replay", "live", "ended"}
    /\ disconnects' = disconnects + 1
    /\ phase' = [phase EXCEPT ![v] = "lost"]
    /\ wire' = [wire EXCEPT ![v] = <<>>]
    /\ UNCHANGED <<producer, registered, queue, highWater, batch, browser, restarts>>

\* Mutant: a generator without its finally.
DeregisterForgotten(v) ==
    /\ phase[v] = "lost"
    /\ phase' = [phase EXCEPT ![v] = "closed"]
    /\ batch' = [batch EXCEPT ![v] = <<>>]
    /\ UNCHANGED <<producer, registered, queue, highWater, wire, browser, mishaps>>

\* The generator's finally, when the server has noticed.
Deregister(v) ==
    /\ phase[v] = "lost"
    /\ registered' = registered \ {v}
    /\ phase' = [phase EXCEPT ![v] = "closed"]
    /\ batch' = [batch EXCEPT ![v] = <<>>]
    /\ UNCHANGED <<producer, queue, highWater, wire, browser, mishaps>>

\* The daemon dies and boots: the log stays, hub and connections are new.
Restart ==
    /\ restarts < MaxRestarts
    /\ restarts' = restarts + 1
    /\ unpublished' = [w \in Writers |-> NoId]
    /\ registered' = {}
    /\ queue' = [v \in Viewers |-> <<>>]
    /\ batch' = [v \in Viewers |-> <<>>]
    /\ wire' = [v \in Viewers |-> <<>>]
    /\ phase' = [v \in Viewers |-> IF phase[v] = "new" THEN "new" ELSE "closed"]
    /\ UNCHANGED <<head, highWater, browser, disconnects>>

Stream(v) == \/ Connect(v) \/ CatchUp(v) \/ YieldReplay(v) \/ GoLive(v)
             \/ Splice(v) \/ TimeOut(v) \/ Deregister(v)

Next == \/ Restart \/ OfferIdless
        \/ \E w \in Writers : Commit(w) \/ Publish(w)
        \/ \E v \in Viewers : \/ Snapshot(v) \/ Stream(v) \/ Receive(v)
                              \/ Disconnect(v)

(* A writer publishes right after its commit, generators are scheduled,    *)
(* the network delivers and EventSource reconnects.  No hunt is obliged to *)
(* commit, no page to load, no heartbeat to come.                          *)
Fairness == /\ \A w \in Writers : WF_vars(Publish(w))
            /\ \A v \in Viewers : WF_vars(Stream(v)) /\ WF_vars(Receive(v))

Spec     == Init /\ [][Next]_vars
FairSpec == Spec /\ Fairness

-----------------------------------------------------------------------------
(* Type invariant: the values every variable ranges over.                  *)
TypeOK ==
    /\ head \in Nat /\ unpublished \in [Writers -> Nat]
    /\ registered \subseteq Viewers
    /\ queue \in [Viewers -> Seq(Nat)]
    /\ phase \in [Viewers -> Phases]
    /\ highWater \in [Viewers -> Nat]
    /\ batch \in [Viewers -> Seq(Ids)]
    /\ wire \in [Viewers -> Seq(Ids)]
    /\ cursor \in [Viewers -> Nat \cup {-1}]
    /\ received \in [Viewers -> Seq(Ids)]
    /\ disconnects \in Nat /\ restarts \in Nat

(* server.stream_events, "never double-applies": however replay, queue,    *)
(* reconnects and concurrent writers overlap, the ids a browser applies    *)
(* only go up, none comes twice.                                           *)
NoDuplicate ==
    \A v \in Viewers : \A i, j \in DOMAIN received[v] :
        i < j => received[v][i] < received[v][j]

(* server.stream_events, "never sees a gap": the ids a browser applies are *)
(* consecutive.                                                            *)
NoGap ==
    \A v \in Viewers : \A i \in 2..Len(received[v]) :
        received[v][i] = received[v][i - 1] + 1

\* The last id v's generator has passed on or fetched, and what waits past it.
Mark(v) == IF batch[v] = <<>> THEN highWater[v] ELSE batch[v][Len(batch[v])]
Above(v) == {i \in DOMAIN queue[v] : queue[v][i] > Mark(v)}

(* server.stream_events, registering before the replay: past the last id a *)
(* generator has passed on or fetched, its queue holds the following ids   *)
(* without a hole, and as long as the hub feeds it the only later ids      *)
(* missing there are those committed and not yet published.                *)
Seamless ==
    \A v \in Viewers : phase[v] \in {"replay", "live"} =>
        LET end == Mark(v) + Cardinality(Above(v))
        IN  /\ \A i \in Above(v) :
                  queue[v][i] = Mark(v) + Cardinality({j \in Above(v) : j <= i})
            /\ v \in registered =>
                  \A id \in (end + 1)..head : \E w \in Writers : unpublished[w] = id

(* Hub.deregister: the hub feeds no viewer whose generator is gone, which  *)
(* would leave a queue behind in it for ever.                              *)
NoLeakedQueue ==
    \A v \in registered : phase[v] \in {"registered", "replay", "live", "lost"}

(* Drop-and-resync: the generator of a viewer the hub dropped does not     *)
(* wait for ever on a queue nobody fills; its stream ends.                 *)
DroppedIsEnded ==
    \A v \in Viewers :
        (v \notin registered /\ phase[v] = "live") ~> (phase[v] # "live")

(* Every viewer's stream is the feed the ADR promises: it joins at its     *)
(* snapshot, sees every later event once and in order, and in the end sees *)
(* them all.                                                               *)
Promised == INSTANCE Feed WITH seen <- cursor

ImplementsFeed == Promised!FairSpec
=============================================================================
