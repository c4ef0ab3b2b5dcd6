-------------------------- MODULE EventStreamProofs --------------------------
(***************************************************************************)
(* Theorems of EventStream, for every set of writers and viewers and every *)
(* queue size and bound.  No browser applies an event twice: what it has   *)
(* applied, what is on the wire and what its generator may still yield     *)
(* are ranges of ids one above the other.  When at most one hunt writes at *)
(* a time, nothing is missing either and EventStream implements Feed, as   *)
(* far as safety goes: browser, wire, replay and queue of a connection lie *)
(* end to end.  With two writers their publishes may cross, so that part   *)
(* assumes OneWriter.                                                      *)
(***************************************************************************)
EXTENDS EventStream, FiniteSetTheorems, SequenceTheorems, TLAPS

Ascending(s) == \A i, j \in DOMAIN s : i < j => s[i] < s[j]

(* The ids of viewer v from the browser back to the log: received up to    *)
(* the cursor, the wire above it up to the mark, the replay above that.    *)
InOrder(v) ==
    /\ Ascending(received[v]) /\ Ascending(wire[v])
    /\ \A i \in DOMAIN received[v] : received[v][i] <= cursor[v]
    /\ \A i \in DOMAIN wire[v] : cursor[v] < wire[v][i] /\ wire[v][i] <= highWater[v]
    /\ phase[v] \in {"new", "closed", "lost"} => wire[v] = <<>>
    /\ phase[v] \in {"registered", "replay", "live", "ended"} => cursor[v] <= highWater[v]
    /\ phase[v] = "replay" => \A i \in DOMAIN batch[v] : batch[v][i] = highWater[v] + i
    /\ phase[v] # "new" => cursor[v] >= 0
    /\ phase[v] = "new" => received[v] = <<>>

IInv == TypeOK /\ \A v \in Viewers : InOrder(v)

(* Appending an id above all others keeps a sequence of ids ascending.     *)
LEMMA AppendAscending ==
    ASSUME NEW s \in Seq(Ids), NEW id \in Ids, Ascending(s),
           \A i \in DOMAIN s : s[i] < id
    PROVE  Append(s, id) \in Seq(Ids) /\ Ascending(Append(s, id))
           /\ \A i \in DOMAIN Append(s, id) : Append(s, id)[i] = id \/ \E j \in DOMAIN s : Append(s, id)[i] = s[j]
BY DEF Ascending, Ids, NoId

(* The tail of an ascending sequence ascends, above its head.              *)
LEMMA TailAscending ==
    ASSUME NEW s \in Seq(Ids), s # <<>>, Ascending(s)
    PROVE  /\ Head(s) \in Ids /\ Tail(s) \in Seq(Ids) /\ Ascending(Tail(s))
           /\ \A i \in DOMAIN Tail(s) : Head(s) < Tail(s)[i] /\ \E j \in DOMAIN s : Tail(s)[i] = s[j]
           /\ \E j \in DOMAIN s : Head(s) = s[j]
<1>1. /\ Len(s) \in Nat /\ Len(s) > 0 /\ DOMAIN s = 1..Len(s)
      /\ \A i \in 1..Len(s) : s[i] \in Ids
      /\ Head(s) = s[1] /\ Tail(s) \in Seq(Ids)
      /\ DOMAIN Tail(s) = 1..(Len(s) - 1)
      /\ \A i \in 1..(Len(s) - 1) : Tail(s)[i] = s[i + 1]
  OBVIOUS
<1>2. \A i \in 1..(Len(s) - 1) : i + 1 \in 1..Len(s) /\ 1 < i + 1
  BY <1>1
<1> QED BY <1>1, <1>2 DEF Ascending

(* The hub's offer keeps the queues sequences of ids and registers nobody. *)
LEMMA OfferTyped ==
    ASSUME TypeOK, NEW id \in Nat, Offer(id)
    PROVE  queue' \in [Viewers -> Seq(Nat)] /\ registered' \subseteq Viewers
<1>1. \A v \in Viewers : queue[v] \in Seq(Nat) /\ Append(queue[v], id) \in Seq(Nat)
  BY DEF TypeOK
<1> QED BY <1>1 DEF Offer, TypeOK

(* The initial state is typed and every viewer's ids are in order.         *)
LEMMA InitIInv == Init => IInv
<1> SUFFICES ASSUME Init PROVE IInv
  OBVIOUS
<1>1. TypeOK
  BY DEF Init, TypeOK, NoId, Phases, Ids, NoId
<1>2. \A v \in Viewers : InOrder(v)
  BY DEF Init, InOrder, Ascending
<1> QED BY <1>1, <1>2 DEF IInv

(* Commits, publishes, pulses and heartbeats leave the viewers' ids alone. *)
LEMMA HubIInv ==
    ASSUME IInv, OfferIdless \/ \E w \in Writers : Commit(w) \/ Publish(w)
    PROVE  IInv'
<1>1. UNCHANGED <<generator, wire, browser, mishaps>>
  BY DEF OfferIdless, Commit, Publish
<1>2. /\ head' \in Nat /\ unpublished' \in [Writers -> Nat]
      /\ queue' \in [Viewers -> Seq(Nat)] /\ registered' \subseteq Viewers
  <2>1. CASE OfferIdless
    BY <2>1, OfferTyped DEF OfferIdless, producer, IInv, TypeOK, NoId
  <2>2. ASSUME NEW w \in Writers, Publish(w)
        PROVE  /\ head' \in Nat /\ unpublished' \in [Writers -> Nat]
               /\ queue' \in [Viewers -> Seq(Nat)] /\ registered' \subseteq Viewers
    <3>1. unpublished[w] \in Nat
      BY DEF IInv, TypeOK
    <3> QED BY <2>2, <3>1, OfferTyped DEF Publish, IInv, TypeOK, NoId
  <2>3. ASSUME NEW w \in Writers, Commit(w)
        PROVE  /\ head' \in Nat /\ unpublished' \in [Writers -> Nat]
               /\ queue' \in [Viewers -> Seq(Nat)] /\ registered' \subseteq Viewers
    BY <2>3 DEF Commit, IInv, TypeOK
  <2> QED BY <2>1, <2>2, <2>3
<1> QED BY <1>1, <1>2 DEF IInv, TypeOK, InOrder, generator, browser, mishaps

(* What a step of one viewer leaves alone: the log and the other viewers.  *)
Others(v) ==
    /\ UNCHANGED producer
    /\ \A u \in Viewers \ {v} :
          /\ phase'[u] = phase[u] /\ highWater'[u] = highWater[u]
          /\ batch'[u] = batch[u] /\ wire'[u] = wire[u]
          /\ cursor'[u] = cursor[u] /\ received'[u] = received[u]

(* The types and the order of v's own variables.                           *)
LEMMA ViewerTyped ==
    ASSUME IInv, NEW v \in Viewers
    PROVE  /\ phase \in [Viewers -> Phases] /\ highWater \in [Viewers -> Nat]
           /\ queue \in [Viewers -> Seq(Nat)] /\ batch \in [Viewers -> Seq(Ids)]
           /\ wire \in [Viewers -> Seq(Ids)] /\ cursor \in [Viewers -> Nat \cup {-1}]
           /\ received \in [Viewers -> Seq(Ids)]
           /\ registered \subseteq Viewers /\ head \in Nat
           /\ highWater[v] \in Nat /\ queue[v] \in Seq(Nat)
           /\ batch[v] \in Seq(Ids) /\ wire[v] \in Seq(Ids)
           /\ received[v] \in Seq(Ids) /\ cursor[v] \in Nat \cup {-1}
           /\ InOrder(v)
BY DEF IInv, TypeOK

(* The replay, whatever the mark: the ids after it, a sequence.            *)
LEMMA ReplayTyped ==
    ASSUME NEW h \in Nat, NEW m \in Nat
    PROVE  /\ [i \in 1..(h - m) |-> m + i] \in Seq(Ids)
           /\ \A i \in DOMAIN [i \in 1..(h - m) |-> m + i] :
                 [j \in 1..(h - m) |-> m + j][i] = m + i
<1>1. CASE h >= m
  <2>1. h - m \in Nat /\ \A i \in 1..(h - m) : m + i \in Ids
    BY <1>1 DEF Ids, NoId
  <2> QED BY <2>1
<1>2. CASE h < m
  <2>1. 1..(h - m) = 1..0 /\ \A i \in 1..0 : m + i \in Ids
    BY <1>2
  <2> QED BY <2>1
<1> QED BY <1>1, <1>2

(* A yielded id above the mark that becomes the mark keeps the wire in     *)
(* order, under a mark that is the last id on it.                          *)
LEMMA YieldInOrder ==
    ASSUME NEW w \in Seq(Ids), NEW id \in Ids, NEW c \in Nat \cup {-1}, NEW m \in Nat,
           Ascending(w), m < id, c <= m,
           \A i \in DOMAIN w : c < w[i] /\ w[i] <= m
    PROVE  /\ Append(w, id) \in Seq(Ids) /\ Ascending(Append(w, id))
           /\ \A i \in DOMAIN Append(w, id) : c < Append(w, id)[i] /\ Append(w, id)[i] <= id
<1>1. \A i \in DOMAIN w : w[i] \in Nat
  BY DEF Ids, NoId
<1>2. \A i \in DOMAIN w : w[i] < id
  BY <1>1 DEF Ids, NoId
<1>3. /\ Append(w, id) \in Seq(Ids) /\ Ascending(Append(w, id))
      /\ \A i \in DOMAIN Append(w, id) :
            Append(w, id)[i] = id \/ \E j \in DOMAIN w : Append(w, id)[i] = w[j]
  BY <1>2, AppendAscending
<1> QED BY <1>1, <1>2, <1>3 DEF Ids, NoId

(* The steps that change neither the wire nor the browser, seen from one   *)
(* viewer: connecting, fetching, going live, ending, cleaning up.          *)
LEMMA ConnectionIInv ==
    ASSUME IInv, NEW v \in Viewers,
           Connect(v) \/ CatchUp(v) \/ GoLive(v) \/ TimeOut(v) \/ Deregister(v)
    PROVE  TypeOK' /\ Others(v) /\ InOrder(v)'
<1>0. /\ phase \in [Viewers -> Phases] /\ highWater \in [Viewers -> Nat]
      /\ queue \in [Viewers -> Seq(Nat)] /\ batch \in [Viewers -> Seq(Ids)]
      /\ wire \in [Viewers -> Seq(Ids)] /\ cursor \in [Viewers -> Nat \cup {-1}]
      /\ received \in [Viewers -> Seq(Ids)]
      /\ registered \subseteq Viewers /\ head \in Nat
      /\ highWater[v] \in Nat /\ queue[v] \in Seq(Nat)
      /\ batch[v] \in Seq(Ids) /\ wire[v] \in Seq(Ids)
      /\ received[v] \in Seq(Ids) /\ cursor[v] \in Nat \cup {-1}
      /\ InOrder(v)
  BY ViewerTyped
<1> USE <1>0 DEF Others
<1>1. CASE Connect(v)
  <2>1. cursor[v] \in Nat /\ wire[v] = <<>>
    BY <1>1 DEF Connect, InOrder
  <2>2. TypeOK'
    BY <1>1, <2>1 DEF Connect, Register, TypeOK, IInv, producer, browser, mishaps, Phases
  <2>3. InOrder(v)'
    BY <1>1, <2>1 DEF Connect, InOrder, Ascending, browser
  <2> QED BY <1>1, <2>2, <2>3 DEF Connect, browser, producer
<1>2. CASE CatchUp(v)
  <2> DEFINE replay == [i \in 1..(head - highWater[v]) |-> highWater[v] + i]
  <2>1. replay \in Seq(Ids) /\ \A i \in DOMAIN replay : replay[i] = highWater[v] + i
    BY ReplayTyped
  <2>2. /\ batch' = [batch EXCEPT ![v] = replay]
        /\ phase[v] = "registered" /\ phase' = [phase EXCEPT ![v] = "replay"]
        /\ UNCHANGED <<producer, registered, queue, highWater, wire, cursor, received, mishaps>>
    BY <1>2 DEF CatchUp, browser
  <2> HIDE DEF replay
  <2>3. TypeOK'
    BY <2>1, <2>2 DEF TypeOK, IInv, producer, mishaps, Phases
  <2>4. InOrder(v)'
    BY <2>1, <2>2 DEF InOrder
  <2> QED BY <2>2, <2>3, <2>4
<1>3. CASE GoLive(v) \/ TimeOut(v)
  <2>1. TypeOK'
    BY <1>3 DEF GoLive, TimeOut, TypeOK, IInv, producer, browser, mishaps, Phases
  <2>2. InOrder(v)'
    BY <1>3 DEF GoLive, TimeOut, InOrder, browser
  <2> QED BY <1>3, <2>1, <2>2 DEF GoLive, TimeOut, browser, producer
<1>4. CASE Deregister(v)
  <2>1. TypeOK'
    BY <1>4 DEF Deregister, TypeOK, IInv, producer, browser, mishaps, Phases
  <2>2. InOrder(v)'
    BY <1>4 DEF Deregister, InOrder, browser
  <2> QED BY <1>4, <2>1, <2>2 DEF Deregister, browser, producer
<1> QED BY <1>1, <1>2, <1>3, <1>4

(* The steps that move ids: a yield of the replay or of the queue, a       *)
(* dropped duplicate.                                                      *)
LEMMA YieldIInv ==
    ASSUME IInv, NEW v \in Viewers, YieldReplay(v) \/ Splice(v)
    PROVE  TypeOK' /\ Others(v) /\ InOrder(v)'
<1>0. /\ phase \in [Viewers -> Phases] /\ highWater \in [Viewers -> Nat]
      /\ queue \in [Viewers -> Seq(Nat)] /\ batch \in [Viewers -> Seq(Ids)]
      /\ wire \in [Viewers -> Seq(Ids)] /\ cursor \in [Viewers -> Nat \cup {-1}]
      /\ received \in [Viewers -> Seq(Ids)]
      /\ registered \subseteq Viewers /\ head \in Nat
      /\ highWater[v] \in Nat /\ queue[v] \in Seq(Nat)
      /\ batch[v] \in Seq(Ids) /\ wire[v] \in Seq(Ids)
      /\ received[v] \in Seq(Ids) /\ cursor[v] \in Nat \cup {-1}
      /\ InOrder(v)
  BY ViewerTyped
<1> USE <1>0 DEF Others
<1>1. ASSUME NEW id \in Ids, highWater[v] < id, Yield(v, id),
             highWater' = [highWater EXCEPT ![v] = id],
             phase[v] \in {"replay", "live"}
      PROVE  /\ wire' \in [Viewers -> Seq(Ids)] /\ highWater' \in [Viewers -> Nat]
             /\ \A u \in Viewers \ {v} : wire'[u] = wire[u] /\ highWater'[u] = highWater[u]
             /\ Ascending(wire'[v])
             /\ \A i \in DOMAIN wire'[v] : cursor[v] < wire'[v][i] /\ wire'[v][i] <= highWater'[v]
             /\ cursor[v] <= highWater'[v] /\ highWater'[v] = id
  <2>1. wire' = [wire EXCEPT ![v] = Append(wire[v], id)]
    BY <1>1 DEF Yield
  <2>2. /\ Append(wire[v], id) \in Seq(Ids) /\ Ascending(Append(wire[v], id))
        /\ \A i \in DOMAIN Append(wire[v], id) :
              cursor[v] < Append(wire[v], id)[i] /\ Append(wire[v], id)[i] <= id
    BY <1>1, YieldInOrder DEF InOrder
  <2>3. cursor[v] <= id /\ id \in Nat
    BY <1>1 DEF InOrder, Ids, NoId
  <2> QED BY <1>1, <2>1, <2>2, <2>3
<1>2. CASE YieldReplay(v)
  <2>1. /\ batch[v] # <<>> /\ phase[v] = "replay"
        /\ Head(batch[v]) = batch[v][1] /\ 1 \in DOMAIN batch[v]
        /\ Tail(batch[v]) \in Seq(Ids)
        /\ \A i \in DOMAIN Tail(batch[v]) :
              i + 1 \in DOMAIN batch[v] /\ Tail(batch[v])[i] = batch[v][i + 1] /\ i \in Nat
    BY <1>2 DEF YieldReplay
  <2>2. /\ Head(batch[v]) = highWater[v] + 1 /\ Head(batch[v]) \in Ids
        /\ \A i \in DOMAIN Tail(batch[v]) : Tail(batch[v])[i] = Head(batch[v]) + i
    <3>1. \A i \in DOMAIN batch[v] : batch[v][i] = highWater[v] + i
      BY <2>1 DEF InOrder
    <3>2. Head(batch[v]) = highWater[v] + 1
      BY <2>1, <3>1
    <3>3. \A i \in DOMAIN Tail(batch[v]) : Tail(batch[v])[i] = highWater[v] + (i + 1)
      BY <2>1, <3>1
    <3>4. \A i \in DOMAIN Tail(batch[v]) : highWater[v] + (i + 1) = (highWater[v] + 1) + i
      BY <2>1
    <3> QED BY <3>2, <3>3, <3>4 DEF Ids, NoId
  <2>3. /\ Yield(v, Head(batch[v])) /\ highWater' = [highWater EXCEPT ![v] = Head(batch[v])]
        /\ batch' = [batch EXCEPT ![v] = Tail(batch[v])]
        /\ UNCHANGED <<producer, registered, queue, phase, cursor, received, mishaps>>
    <3>1. highWater' = [highWater EXCEPT ![v] =
                          IF Head(batch[v]) > highWater[v] THEN Head(batch[v]) ELSE highWater[v]]
      BY <1>2 DEF YieldReplay
    <3>2. Head(batch[v]) > highWater[v]
      BY <2>2
    <3> QED BY <1>2, <3>1, <3>2 DEF YieldReplay, browser
  <2>4. /\ wire' \in [Viewers -> Seq(Ids)] /\ highWater' \in [Viewers -> Nat]
        /\ \A u \in Viewers \ {v} : wire'[u] = wire[u] /\ highWater'[u] = highWater[u]
        /\ Ascending(wire'[v])
        /\ \A i \in DOMAIN wire'[v] : cursor[v] < wire'[v][i] /\ wire'[v][i] <= highWater'[v]
        /\ cursor[v] <= highWater'[v] /\ highWater'[v] = Head(batch[v])
    <3> DEFINE id == Head(batch[v])
    <3>1. /\ id \in Ids /\ highWater[v] < id /\ Yield(v, id)
          /\ highWater' = [highWater EXCEPT ![v] = id]
          /\ phase[v] \in {"replay", "live"}
      BY <2>1, <2>2, <2>3
    <3> HIDE DEF id
    <3>2. /\ wire' \in [Viewers -> Seq(Ids)] /\ highWater' \in [Viewers -> Nat]
          /\ \A u \in Viewers \ {v} : wire'[u] = wire[u] /\ highWater'[u] = highWater[u]
          /\ Ascending(wire'[v])
          /\ \A i \in DOMAIN wire'[v] : cursor[v] < wire'[v][i] /\ wire'[v][i] <= highWater'[v]
          /\ cursor[v] <= highWater'[v] /\ highWater'[v] = id
      BY ONLY <1>1, <3>1
    <3> QED BY ONLY <3>2 DEF id
  <2>5. TypeOK'
    BY <2>1, <2>3, <2>4 DEF TypeOK, IInv, producer, mishaps
  <2>6. InOrder(v)'
    BY <2>1, <2>2, <2>3, <2>4 DEF InOrder
  <2> QED BY <2>3, <2>4, <2>5, <2>6
<1>3. CASE Splice(v)
  <2>1. /\ phase[v] = "live" /\ queue[v] # <<>> /\ queue' = [queue EXCEPT ![v] = Tail(queue[v])]
        /\ Tail(queue[v]) \in Seq(Nat) /\ Head(queue[v]) \in Nat
        /\ UNCHANGED <<producer, registered, phase, batch, cursor, received, mishaps>>
    BY <1>3 DEF Splice, browser
  <2>2. CASE UNCHANGED <<wire, highWater>>
    <3>1. TypeOK'
      BY <2>1, <2>2 DEF TypeOK, IInv, producer, mishaps
    <3>2. InOrder(v)'
      BY <2>1, <2>2 DEF InOrder
    <3> QED BY <2>1, <2>2, <3>1, <3>2
  <2>3. CASE /\ Head(queue[v]) # NoId /\ Head(queue[v]) > highWater[v]
             /\ Yield(v, Head(queue[v]))
             /\ highWater' = [highWater EXCEPT ![v] = Head(queue[v])]
    <3>1. /\ wire' \in [Viewers -> Seq(Ids)] /\ highWater' \in [Viewers -> Nat]
          /\ \A u \in Viewers \ {v} : wire'[u] = wire[u] /\ highWater'[u] = highWater[u]
          /\ Ascending(wire'[v])
          /\ \A i \in DOMAIN wire'[v] : cursor[v] < wire'[v][i] /\ wire'[v][i] <= highWater'[v]
          /\ cursor[v] <= highWater'[v]
      BY <1>1, <2>1, <2>3 DEF Ids, NoId
    <3>2. TypeOK'
      BY <2>1, <3>1 DEF TypeOK, IInv, producer, mishaps
    <3>3. InOrder(v)'
      BY <2>1, <3>1 DEF InOrder
    <3> QED BY <2>1, <3>1, <3>2, <3>3
  <2> QED BY <1>3, <2>2, <2>3 DEF Splice
<1> QED BY <1>2, <1>3

(* The browser's steps: its first load, a frame that arrives, a connection *)
(* that breaks.                                                            *)
LEMMA BrowserIInv ==
    ASSUME IInv, NEW v \in Viewers, Snapshot(v) \/ Receive(v) \/ Disconnect(v)
    PROVE  TypeOK' /\ Others(v) /\ InOrder(v)'
<1>0. /\ phase \in [Viewers -> Phases] /\ highWater \in [Viewers -> Nat]
      /\ queue \in [Viewers -> Seq(Nat)] /\ batch \in [Viewers -> Seq(Ids)]
      /\ wire \in [Viewers -> Seq(Ids)] /\ cursor \in [Viewers -> Nat \cup {-1}]
      /\ received \in [Viewers -> Seq(Ids)]
      /\ registered \subseteq Viewers /\ head \in Nat
      /\ highWater[v] \in Nat /\ queue[v] \in Seq(Nat)
      /\ batch[v] \in Seq(Ids) /\ wire[v] \in Seq(Ids)
      /\ received[v] \in Seq(Ids) /\ cursor[v] \in Nat \cup {-1}
      /\ InOrder(v)
  BY ViewerTyped
<1> USE <1>0 DEF Others
<1>1. CASE Snapshot(v)
  <2>1. TypeOK'
    BY <1>1 DEF Snapshot, TypeOK, IInv, producer, mishaps, Phases
  <2>2. InOrder(v)'
    BY <1>1 DEF Snapshot, InOrder, Ascending
  <2> QED BY <1>1, <2>1, <2>2 DEF Snapshot, producer
<1>2. CASE Receive(v)
  <2>1. /\ wire[v] # <<>> /\ Ascending(wire[v]) /\ Ascending(received[v])
        /\ wire' = [wire EXCEPT ![v] = Tail(wire[v])]
        /\ cursor' = [cursor EXCEPT ![v] = Head(wire[v])]
        /\ received' = [received EXCEPT ![v] = Append(received[v], Head(wire[v]))]
        /\ UNCHANGED <<producer, registered, queue, generator, mishaps>>
    BY <1>2 DEF Receive, InOrder
  <2>2. /\ Head(wire[v]) \in Ids /\ Tail(wire[v]) \in Seq(Ids) /\ Ascending(Tail(wire[v]))
        /\ \A i \in DOMAIN Tail(wire[v]) :
              Head(wire[v]) < Tail(wire[v])[i] /\ \E j \in DOMAIN wire[v] : Tail(wire[v])[i] = wire[v][j]
        /\ \E j \in DOMAIN wire[v] : Head(wire[v]) = wire[v][j]
    BY <2>1, TailAscending
  <2>3. cursor[v] < Head(wire[v]) /\ Head(wire[v]) <= highWater[v]
    BY <2>2 DEF InOrder
  <2>4. \A i \in DOMAIN received[v] : received[v][i] < Head(wire[v])
    BY <2>2, <2>3 DEF InOrder, Ids, NoId
  <2>5. /\ Append(received[v], Head(wire[v])) \in Seq(Ids)
        /\ Ascending(Append(received[v], Head(wire[v])))
        /\ \A i \in DOMAIN Append(received[v], Head(wire[v])) :
              Append(received[v], Head(wire[v]))[i] <= Head(wire[v])
    <3>1. /\ Append(received[v], Head(wire[v])) \in Seq(Ids)
          /\ Ascending(Append(received[v], Head(wire[v])))
          /\ \A i \in DOMAIN Append(received[v], Head(wire[v])) :
                \/ Append(received[v], Head(wire[v]))[i] = Head(wire[v])
                \/ \E j \in DOMAIN received[v] :
                      Append(received[v], Head(wire[v]))[i] = received[v][j]
      BY <2>1, <2>2, <2>4, AppendAscending
    <3>2. \A j \in DOMAIN received[v] : received[v][j] \in Ids
      OBVIOUS
    <3> QED BY <2>2, <2>4, <3>1, <3>2 DEF Ids, NoId
  <2>6. /\ wire'[v] = Tail(wire[v]) /\ cursor'[v] = Head(wire[v])
        /\ received'[v] = Append(received[v], Head(wire[v]))
    BY <2>1
  <2>7. TypeOK'
    BY <2>1, <2>2, <2>5 DEF TypeOK, IInv, producer, generator, mishaps, Ids, NoId
  <2>8. InOrder(v)'
    <3>1. phase[v] \notin {"new", "closed", "lost"}
      BY <2>1 DEF InOrder
    <3>2. \A i \in DOMAIN Tail(wire[v]) : Tail(wire[v])[i] <= highWater[v]
      BY <2>2 DEF InOrder
    <3> QED BY <2>1, <2>2, <2>3, <2>5, <2>6, <3>1, <3>2 DEF InOrder, generator, Ids, NoId
  <2> QED BY <2>1, <2>7, <2>8 DEF generator
<1>3. CASE Disconnect(v)
  <2>1. TypeOK'
    BY <1>3 DEF Disconnect, TypeOK, IInv, producer, browser, mishaps, Phases
  <2>2. InOrder(v)'
    BY <1>3 DEF Disconnect, InOrder, Ascending, browser
  <2> QED BY <1>3, <2>1, <2>2 DEF Disconnect, browser, producer
<1> QED BY <1>1, <1>2, <1>3

(* A restart of the daemon loses what is on the wire, not the cursor.      *)
LEMMA RestartIInv ==
    ASSUME IInv, Restart
    PROVE  IInv'
<1>1. TypeOK'
  BY DEF Restart, IInv, TypeOK, browser, Phases, NoId
<1>2. ASSUME NEW v \in Viewers
      PROVE  InOrder(v)'
  BY DEF Restart, IInv, TypeOK, InOrder, Ascending, browser
<1> QED BY <1>1, <1>2 DEF IInv

(* IInv is inductive.                                                      *)
LEMMA NextIInv == IInv /\ [Next]_vars => IInv'
<1> SUFFICES ASSUME IInv, [Next]_vars PROVE IInv'
  OBVIOUS
<1>1. ASSUME NEW v \in Viewers, Snapshot(v) \/ Stream(v) \/ Receive(v) \/ Disconnect(v)
      PROVE  IInv'
  <2>1. TypeOK' /\ Others(v) /\ InOrder(v)'
    BY <1>1, ConnectionIInv, YieldIInv, BrowserIInv DEF Stream
  <2>2. ASSUME NEW u \in Viewers \ {v} PROVE InOrder(u)'
    BY <2>1 DEF IInv, InOrder, Others
  <2> QED BY <2>1, <2>2 DEF IInv
<1>2. CASE UNCHANGED vars
  BY <1>2 DEF vars, producer, generator, browser, mishaps, IInv, TypeOK, InOrder
<1> QED BY <1>1, <1>2, HubIInv, RestartIInv DEF Next

(* IInv holds in every reachable state of the stream.                      *)
THEOREM InvariantHolds == Spec => []IInv
BY InitIInv, NextIInv, PTL DEF Spec

(* Every variable of hub, connections and browsers keeps to its type.      *)
THEOREM TypeCorrect == Spec => []TypeOK
<1>1. IInv => TypeOK
  BY DEF IInv
<1> QED BY <1>1, InvariantHolds, PTL

(* server.stream_events, "never double-applies", for any number of hunts   *)
(* publishing in any order, viewers, queue sizes, drops, lost connections  *)
(* and restarts.                                                           *)
THEOREM NeverTwice == Spec => []NoDuplicate
<1>1. IInv => NoDuplicate
  BY DEF IInv, InOrder, Ascending, NoDuplicate
<1> QED BY <1>1, InvariantHolds, PTL

-----------------------------------------------------------------------------
(* One writer: the stream is the feed it promises.                         *)

OneWriter == \A u, w \in Writers : u = w

(* The last id the hub was given, or need not be given any more.           *)
Told == IF \A w \in Writers : unpublished[w] = NoId THEN head ELSE head - 1

(* The last id v's generator has passed on or fetched.                     *)
Passed(v) == highWater[v] + Len(batch[v])

(* Whatever is in the queue, the ids between Passed and it come before it; *)
(* and while the hub feeds v, the queue goes on up to what the hub knows.  *)
Continued(v) ==
    /\ \A j \in DOMAIN queue[v] : \A id \in Ids :
          Passed(v) < id /\ id < queue[v][j] => \E i \in DOMAIN queue[v] : i < j /\ queue[v][i] = id
    /\ v \in registered =>
          \A id \in Ids : Passed(v) < id /\ id <= Told => \E i \in DOMAIN queue[v] : queue[v][i] = id

EndToEnd(v) ==
    /\ \A i \in DOMAIN queue[v] : queue[v][i] <= Told
    /\ cursor[v] <= head /\ Passed(v) <= head
    /\ phase[v] = "new" => cursor[v] = -1
    /\ phase[v] \in {"registered", "replay", "live", "ended"} =>
          /\ highWater[v] = cursor[v] + Len(wire[v])
          /\ \A i \in DOMAIN wire[v] : wire[v][i] = cursor[v] + i
    /\ phase[v] \notin {"replay", "lost"} => batch[v] = <<>>
    /\ phase[v] \in {"replay", "live"} => Continued(v)
    /\ \A i \in DOMAIN received[v] : i + 1 \in DOMAIN received[v] =>
          received[v][i + 1] = received[v][i] + 1
    /\ received[v] # <<>> => received[v][Len(received[v])] = cursor[v]

(* A hunt publishes each commit before its next.                           *)
InStep == \A w \in Writers : unpublished[w] \in {NoId, head}

FInv == IInv /\ InStep /\ \A v \in Viewers : EndToEnd(v)

-----------------------------------------------------------------------------
LEMMA ToldTyped ==
    ASSUME TypeOK, InStep
    PROVE  Told \in Nat /\ Told <= head
BY DEF TypeOK, InStep, Told, NoId

(* What v's step must keep when hub and log are left alone.                *)
Apart(v) ==
    /\ Others(v)
    /\ \A u \in Viewers \ {v} : queue'[u] = queue[u] /\ (u \in registered' <=> u \in registered)

LEMMA ApartKept ==
    ASSUME FInv, NEW v \in Viewers, Apart(v)
    PROVE  InStep' /\ Told' = Told /\ \A u \in Viewers \ {v} : EndToEnd(u)'
<1>1. InStep' /\ Told' = Told /\ head' = head
  BY DEF FInv, InStep, Told, Apart, Others, producer
<1>2. ASSUME NEW u \in Viewers \ {v} PROVE EndToEnd(u)'
  BY <1>1 DEF FInv, EndToEnd, Continued, Passed, Apart, Others
<1> QED BY <1>1, <1>2

LEMMA InitFInv == Init => FInv
<1> SUFFICES ASSUME Init PROVE FInv
  OBVIOUS
<1>1. IInv
  BY InitIInv
<1>2. InStep
  BY DEF Init, InStep
<1>3. ASSUME NEW v \in Viewers PROVE EndToEnd(v)
  BY DEF Init, EndToEnd, Passed, Told, NoId
<1> QED BY <1>1, <1>2, <1>3 DEF FInv

-----------------------------------------------------------------------------
(* The writer and the hub.                                                 *)

LEMMA CommitFInv ==
    ASSUME FInv, OneWriter, NEW w \in Writers, Commit(w), IInv'
    PROVE  FInv'
<1>1. /\ unpublished[w] = NoId /\ head' = head + 1 /\ head \in Nat
      /\ unpublished' = [unpublished EXCEPT ![w] = head + 1]
      /\ unpublished \in [Writers -> Nat]
      /\ UNCHANGED <<registered, queue, generator, wire, browser>>
  BY DEF Commit, FInv, IInv, TypeOK
<1>2. InStep'
  BY <1>1 DEF FInv, InStep, OneWriter
<1>3. Told = head
  BY <1>1 DEF Told, OneWriter
<1>4. unpublished'[w] # NoId
  BY <1>1 DEF NoId
<1>5. Told' = head
  BY <1>1, <1>4 DEF Told
<1>6. ASSUME NEW v \in Viewers PROVE EndToEnd(v)'
  <2>1. /\ UNCHANGED <<registered, queue, phase, highWater, batch, wire, cursor, received>>
        /\ Told' = Told /\ EndToEnd(v)
    BY <1>1, <1>3, <1>5 DEF FInv, generator, browser
  <2>2. /\ cursor[v] \in Nat \cup {-1} /\ highWater[v] \in Nat /\ Len(batch[v]) \in Nat
    BY ViewerTyped DEF FInv
  <2>3. cursor'[v] <= head' /\ Passed(v)' <= head'
    BY <1>1, <2>1, <2>2 DEF EndToEnd, Passed
  <2>4. Continued(v) => Continued(v)'
    BY <2>1 DEF Continued, Passed
  <2> QED BY <2>1, <2>3, <2>4 DEF EndToEnd
<1> QED BY <1>2, <1>6 DEF FInv

(* A frame the hub offers: an id it was not told of yet, or no id.         *)
LEMMA OfferContinues ==
    ASSUME FInv, NEW id \in Nat, Offer(id), UNCHANGED <<head, generator, wire, browser>>,
           (id = NoId /\ Told' = Told) \/ (id = Told + 1 /\ Told' = id)
    PROVE  \A v \in Viewers : EndToEnd(v)'
<1> SUFFICES ASSUME NEW v \in Viewers PROVE EndToEnd(v)'
  OBVIOUS
<1>1. /\ queue[v] \in Seq(Nat) /\ EndToEnd(v) /\ Told \in Nat /\ Told <= head /\ head \in Nat
      /\ UNCHANGED <<head, phase, highWater, batch, wire, cursor, received>>
      /\ Passed(v)' = Passed(v) /\ Passed(v) \in Nat
  <2>1. highWater[v] \in Nat /\ batch[v] \in Seq(Ids)
    BY ViewerTyped DEF FInv
  <2>2. Told \in Nat /\ Told <= head
    BY ToldTyped DEF FInv, IInv
  <2>3. UNCHANGED <<phase, highWater, batch, wire, cursor, received>>
    BY DEF generator, browser
  <2> QED BY <2>1, <2>2, <2>3 DEF FInv, IInv, TypeOK, Passed
<1>2. Told' \in Nat /\ Told <= Told' /\ id <= Told'
  BY <1>1 DEF NoId
<1>3. CASE v \in registered /\ Len(queue[v]) < QueueSize
  <2> DEFINE n == Len(queue[v]) + 1
  <2>1. queue'[v] = Append(queue[v], id) /\ v \in registered
    BY <1>3, EventStreamAssumption DEF Offer, FInv, IInv, TypeOK
  <2>2. /\ DOMAIN queue'[v] = DOMAIN queue[v] \cup {n} /\ n \in Nat
        /\ queue'[v][n] = id
        /\ \A i \in DOMAIN queue[v] : queue'[v][i] = queue[v][i] /\ i < n /\ queue[v][i] \in Nat
    BY <1>1, <2>1
  <2> HIDE DEF n
  <2>3. \A i \in DOMAIN queue'[v] : queue'[v][i] <= Told'
    BY <1>1, <1>2, <2>2 DEF EndToEnd
  <2>4. Continued(v) => Continued(v)'
    <3> SUFFICES ASSUME Continued(v) PROVE Continued(v)'
      OBVIOUS
    <3>1. ASSUME NEW j \in DOMAIN queue'[v], NEW x \in Ids,
                 Passed(v)' < x, x < queue'[v][j]
          PROVE  \E i \in DOMAIN queue'[v] : i < j /\ queue'[v][i] = x
      <4>1. CASE j \in DOMAIN queue[v]
        BY <1>1, <2>2, <3>1, <4>1 DEF Continued
      <4>2. CASE j = n
        <5>1. x <= Told
          BY <1>1, <2>2, <3>1, <4>2 DEF Ids, NoId
        <5>2. PICK i \in DOMAIN queue[v] : queue[v][i] = x
          BY <1>1, <2>1, <3>1, <5>1 DEF Continued
        <5> QED BY <2>2, <4>2, <5>2
      <4> QED BY <2>2, <4>1, <4>2
    <3>2. ASSUME NEW x \in Ids, Passed(v)' < x, x <= Told'
          PROVE  \E i \in DOMAIN queue'[v] : queue'[v][i] = x
      <4>1. CASE x <= Told
        <5>1. PICK i \in DOMAIN queue[v] : queue[v][i] = x
          BY <1>1, <2>1, <3>2, <4>1 DEF Continued
        <5> QED BY <2>2, <5>1
      <4>2. CASE ~(x <= Told)
        <5>1. x = id
          BY <1>1, <3>2, <4>2 DEF Ids, NoId
        <5> QED BY <2>2, <5>1
      <4> QED BY <4>1, <4>2
    <3> QED BY <3>1, <3>2 DEF Continued
  <2> QED BY <1>1, <2>3, <2>4 DEF EndToEnd
<1>4. CASE ~(v \in registered /\ Len(queue[v]) < QueueSize)
  <2>1. queue'[v] = queue[v] /\ v \notin registered'
    BY <1>1, <1>4, EventStreamAssumption DEF Offer, FInv, IInv, TypeOK
  <2>2. Continued(v) => Continued(v)'
    BY <1>1, <2>1 DEF Continued
  <2>3. \A i \in DOMAIN queue'[v] : queue'[v][i] <= Told'
    <3>1. \A i \in DOMAIN queue[v] : queue[v][i] \in Nat /\ queue[v][i] <= Told
      BY <1>1 DEF EndToEnd
    <3> QED BY <1>1, <1>2, <2>1, <3>1
  <2> QED BY <1>1, <2>1, <2>2, <2>3 DEF EndToEnd
<1> QED BY <1>3, <1>4

LEMMA PublishFInv ==
    ASSUME FInv, OneWriter, NEW w \in Writers, Publish(w), IInv'
    PROVE  FInv'
<1>1. /\ unpublished[w] # NoId /\ unpublished[w] = head /\ head \in Nat
      /\ Offer(unpublished[w]) /\ unpublished' = [unpublished EXCEPT ![w] = NoId]
      /\ unpublished \in [Writers -> Nat]
      /\ UNCHANGED <<head, generator, wire, browser, mishaps>>
  BY DEF Publish, FInv, InStep, IInv, TypeOK
<1>2. Told = head - 1
  BY <1>1 DEF Told
<1>3. \A u \in Writers : unpublished'[u] = NoId
  BY <1>1 DEF OneWriter
<1>4. Told' = head /\ InStep'
  BY <1>1, <1>3 DEF Told, InStep
<1>5. head = Told + 1
  BY <1>1, <1>2
<1>6. \A v \in Viewers : EndToEnd(v)'
  BY <1>1, <1>4, <1>5, OfferContinues
<1> QED BY <1>4, <1>6 DEF FInv

LEMMA OfferIdlessFInv == ASSUME FInv, OfferIdless, IInv' PROVE FInv'
<1>1. PICK id \in Nat : id = NoId /\ Offer(id)
  BY DEF OfferIdless, NoId
<1>0. UNCHANGED <<producer, generator, wire, browser>>
  BY DEF OfferIdless
<1>2. InStep' /\ Told' = Told /\ UNCHANGED head
  BY <1>0 DEF FInv, InStep, Told, producer
<1>3. \A v \in Viewers : EndToEnd(v)'
  BY <1>0, <1>1, <1>2, OfferContinues
<1> QED BY <1>2, <1>3 DEF FInv

-----------------------------------------------------------------------------
(* One connection.                                                         *)

LEMMA ViewerFacts ==
    ASSUME FInv, NEW v \in Viewers
    PROVE  /\ phase \in [Viewers -> Phases] /\ highWater \in [Viewers -> Nat]
           /\ queue \in [Viewers -> Seq(Nat)] /\ batch \in [Viewers -> Seq(Ids)]
           /\ wire \in [Viewers -> Seq(Ids)] /\ cursor \in [Viewers -> Nat \cup {-1}]
           /\ received \in [Viewers -> Seq(Ids)]
           /\ registered \subseteq Viewers /\ head \in Nat
           /\ highWater[v] \in Nat /\ queue[v] \in Seq(Nat)
           /\ batch[v] \in Seq(Ids) /\ wire[v] \in Seq(Ids)
           /\ received[v] \in Seq(Ids) /\ cursor[v] \in Nat \cup {-1}
           /\ InOrder(v) /\ EndToEnd(v) /\ Told \in Nat /\ Told <= head
BY ViewerTyped, ToldTyped DEF FInv, IInv

LEMMA ConnectEnds ==
    ASSUME FInv, NEW v \in Viewers, Connect(v)
    PROVE  Apart(v) /\ EndToEnd(v)'
<1>0. /\ phase \in [Viewers -> Phases] /\ highWater \in [Viewers -> Nat]
      /\ queue \in [Viewers -> Seq(Nat)] /\ batch[v] \in Seq(Ids) /\ cursor[v] \in Nat \cup {-1}
      /\ head \in Nat /\ InOrder(v) /\ EndToEnd(v)
  BY ViewerFacts
<1>1. /\ phase[v] \in {"closed", "ended"} /\ wire[v] = <<>> /\ cursor[v] \in Nat
      /\ registered' = registered \cup {v} /\ queue' = [queue EXCEPT ![v] = <<>>]
      /\ phase' = [phase EXCEPT ![v] = "registered"]
      /\ highWater' = [highWater EXCEPT ![v] = cursor[v]]
      /\ UNCHANGED <<producer, batch, wire, cursor, received>>
  BY <1>0 DEF Connect, Register, InOrder, browser
<1>2. Apart(v)
  BY <1>0, <1>1 DEF Apart, Others
<1>3. Told' = Told /\ head' = head
  BY <1>2, ApartKept, <1>1 DEF producer
<1>4. /\ batch[v] = <<>> /\ cursor[v] <= head
  BY <1>0, <1>1 DEF EndToEnd
<1>5. /\ queue'[v] = <<>> /\ phase'[v] = "registered" /\ highWater'[v] = cursor[v]
      /\ batch'[v] = <<>> /\ wire'[v] = <<>> /\ cursor'[v] = cursor[v] /\ received'[v] = received[v]
  BY <1>0, <1>1, <1>4
<1>6. EndToEnd(v)'
  BY <1>0, <1>1, <1>3, <1>4, <1>5 DEF EndToEnd, Passed
<1> QED BY <1>2, <1>6

LEMMA CatchUpEnds ==
    ASSUME FInv, NEW v \in Viewers, CatchUp(v)
    PROVE  Apart(v) /\ EndToEnd(v)'
<1> DEFINE replay == [i \in 1..(head - highWater[v]) |-> highWater[v] + i]
<1>0. /\ phase \in [Viewers -> Phases] /\ highWater[v] \in Nat
      /\ batch \in [Viewers -> Seq(Ids)] /\ cursor[v] \in Nat \cup {-1}
      /\ queue[v] \in Seq(Nat) /\ wire[v] \in Seq(Ids)
      /\ head \in Nat /\ EndToEnd(v) /\ Told \in Nat /\ Told <= head
  BY ViewerFacts
<1>1. /\ phase[v] = "registered" /\ phase' = [phase EXCEPT ![v] = "replay"]
      /\ batch' = [batch EXCEPT ![v] = replay]
      /\ UNCHANGED <<producer, registered, queue, highWater, wire, cursor, received>>
  BY DEF CatchUp, browser
<1>2. Apart(v)
  BY <1>0, <1>1 DEF Apart, Others
<1>3. Told' = Told /\ head' = head
  BY <1>2, ApartKept, <1>1 DEF producer
<1>4. batch[v] = <<>> /\ highWater[v] <= head
  BY <1>0, <1>1 DEF EndToEnd, Passed
<1>5. Len(replay) = head - highWater[v]
  BY <1>0, <1>4
<1> HIDE DEF replay
<1>6. Passed(v)' = head
  BY <1>0, <1>1, <1>4, <1>5 DEF Passed
<1>7. Continued(v)'
  <2>1. \A j \in DOMAIN queue[v] : queue[v][j] \in Nat /\ queue[v][j] <= Told
    BY <1>0 DEF EndToEnd
  <2> QED BY <1>0, <1>1, <1>3, <1>6, <2>1 DEF Continued, Ids, NoId
<1>8. phase'[v] = "replay"
  BY <1>0, <1>1
<1>9. EndToEnd(v)'
  BY <1>0, <1>1, <1>3, <1>6, <1>7, <1>8 DEF EndToEnd
<1> QED BY <1>2, <1>9

LEMMA YieldReplayEnds ==
    ASSUME FInv, NEW v \in Viewers, YieldReplay(v)
    PROVE  Apart(v) /\ EndToEnd(v)'
<1> DEFINE id == highWater[v] + 1
<1>0. /\ phase \in [Viewers -> Phases] /\ highWater \in [Viewers -> Nat]
      /\ batch \in [Viewers -> Seq(Ids)] /\ wire \in [Viewers -> Seq(Ids)]
      /\ highWater[v] \in Nat /\ batch[v] \in Seq(Ids) /\ wire[v] \in Seq(Ids)
      /\ cursor[v] \in Nat \cup {-1} /\ head \in Nat /\ InOrder(v) /\ EndToEnd(v)
  BY ViewerFacts
<1>1. /\ phase[v] = "replay" /\ batch[v] # <<>>
      /\ wire' = [wire EXCEPT ![v] = Append(wire[v], Head(batch[v]))]
      /\ batch' = [batch EXCEPT ![v] = Tail(batch[v])]
      /\ highWater' = [highWater EXCEPT ![v] =
             IF Head(batch[v]) > highWater[v] THEN Head(batch[v]) ELSE highWater[v]]
      /\ UNCHANGED <<producer, registered, queue, phase, cursor, received>>
  BY DEF YieldReplay, Yield, browser
<1>2. Apart(v)
  BY <1>0, <1>1 DEF Apart, Others
<1>3. Told' = Told /\ head' = head
  BY <1>2, ApartKept, <1>1 DEF producer
<1>4. Head(batch[v]) = id
  <2>1. 1 \in DOMAIN batch[v] /\ Head(batch[v]) = batch[v][1]
    BY <1>0, <1>1
  <2> QED BY <1>1, <2>1, <1>0 DEF InOrder
<1>5. Len(Tail(batch[v])) = Len(batch[v]) - 1 /\ Len(batch[v]) \in Nat
  BY <1>0, <1>1
<1>6. /\ wire'[v] = Append(wire[v], id) /\ highWater'[v] = id /\ batch'[v] = Tail(batch[v])
  BY <1>0, <1>1, <1>4
<1>11. id = highWater[v] + 1 /\ cursor[v] \in Int
  BY <1>0
<1> HIDE DEF id
<1>7. Passed(v)' = Passed(v)
  <2>1. Len(batch'[v]) = Len(batch[v]) - 1
    BY <1>5, <1>6
  <2>2. highWater'[v] = highWater[v] + 1
    BY <1>6, <1>11
  <2>3. highWater[v] \in Nat /\ Len(batch[v]) \in Nat
    BY <1>0, <1>5
  <2>4. highWater'[v] + Len(batch'[v]) = highWater[v] + Len(batch[v])
    BY ONLY <2>1, <2>2, <2>3
  <2> QED BY <2>4 DEF Passed
<1>8. Continued(v)' /\ phase'[v] = "replay"
  <2>1. Continued(v)
    BY <1>0, <1>1 DEF EndToEnd
  <2> QED BY <1>1, <1>3, <1>7, <2>1 DEF Continued
<1>9. /\ highWater'[v] = cursor'[v] + Len(wire'[v])
      /\ \A i \in DOMAIN wire'[v] : wire'[v][i] = cursor'[v] + i
  <2>1. /\ highWater[v] = cursor[v] + Len(wire[v])
        /\ \A i \in DOMAIN wire[v] : wire[v][i] = cursor[v] + i
    BY <1>0, <1>1 DEF EndToEnd
  <2>2. /\ Len(wire'[v]) = Len(wire[v]) + 1 /\ Len(wire[v]) \in Nat
        /\ DOMAIN wire'[v] = DOMAIN wire[v] \cup {Len(wire[v]) + 1}
        /\ wire'[v][Len(wire[v]) + 1] = id
        /\ \A i \in DOMAIN wire[v] : wire'[v][i] = wire[v][i]
    BY <1>0, <1>6
  <2>3. highWater'[v] = cursor'[v] + Len(wire'[v])
    BY <1>0, <1>1, <1>6, <1>11, <2>1, <2>2
  <2>4. id = cursor[v] + (Len(wire[v]) + 1)
    BY <1>0, <1>11, <2>1, <2>2
  <2> QED BY <1>1, <2>1, <2>2, <2>3, <2>4
<1>10. EndToEnd(v)'
  BY <1>0, <1>1, <1>3, <1>7, <1>8, <1>9 DEF EndToEnd
<1> QED BY <1>2, <1>10

LEMMA QuietEnds ==
    ASSUME FInv, NEW v \in Viewers,
           GoLive(v) \/ TimeOut(v) \/ Disconnect(v) \/ Deregister(v)
    PROVE  Apart(v) /\ EndToEnd(v)'
<1>0. /\ phase \in [Viewers -> Phases] /\ highWater[v] \in Nat
      /\ batch \in [Viewers -> Seq(Ids)] /\ wire \in [Viewers -> Seq(Ids)]
      /\ batch[v] \in Seq(Ids) /\ wire[v] \in Seq(Ids) /\ registered \subseteq Viewers
      /\ cursor[v] \in Nat \cup {-1} /\ head \in Nat /\ InOrder(v) /\ EndToEnd(v)
  BY ViewerFacts
<1>1. /\ UNCHANGED <<producer, queue, highWater, cursor, received>>
      /\ Apart(v)
  BY <1>0 DEF GoLive, TimeOut, Disconnect, Deregister, Apart, Others, browser
<1>2. Told' = Told /\ head' = head
  BY <1>1, ApartKept DEF producer
<1>3. CASE GoLive(v)
  <2>1. /\ phase[v] = "replay" /\ batch[v] = <<>> /\ phase'[v] = "live"
        /\ UNCHANGED <<registered, batch, wire>>
    BY <1>0, <1>3 DEF GoLive
  <2>2. Continued(v)'
    BY <1>0, <1>1, <1>2, <2>1 DEF EndToEnd, Continued, Passed
  <2> QED BY <1>0, <1>1, <1>2, <2>1, <2>2 DEF EndToEnd, Passed
<1>4. CASE TimeOut(v)
  <2>1. phase[v] = "live" /\ phase'[v] = "ended" /\ UNCHANGED <<registered, batch, wire>>
    BY <1>0, <1>4 DEF TimeOut
  <2> QED BY <1>0, <1>1, <1>2, <2>1 DEF EndToEnd, Passed
<1>5. CASE Disconnect(v)
  <2>1. /\ phase[v] \in {"registered", "replay", "live", "ended"}
        /\ phase'[v] = "lost" /\ wire'[v] = <<>> /\ UNCHANGED <<registered, batch>>
    BY <1>0, <1>5 DEF Disconnect
  <2> QED BY <1>0, <1>1, <1>2, <2>1 DEF EndToEnd, Passed
<1>6. CASE Deregister(v)
  <2>1. /\ phase[v] = "lost" /\ phase'[v] = "closed" /\ batch'[v] = <<>> /\ UNCHANGED wire
    BY <1>0, <1>6 DEF Deregister
  <2>2. Passed(v)' <= Passed(v)
    BY <1>0, <1>1, <2>1 DEF Passed
  <2>3. Passed(v) \in Int /\ Passed(v)' \in Int
    BY <1>0, <1>1, <2>1 DEF Passed
  <2> QED BY <1>0, <1>1, <1>2, <2>1, <2>2, <2>3 DEF EndToEnd
<1> QED BY <1>3, <1>4, <1>5, <1>6

(* A wire that carries the ids after the cursor, one by one up to the      *)
(* mark, still does when the id after the mark is appended.                *)
LEMMA WireExtended ==
    ASSUME NEW w \in Seq(Ids), NEW c \in Int, NEW m \in Int, NEW id \in Ids,
           m = c + Len(w), \A i \in DOMAIN w : w[i] = c + i, id = m + 1
    PROVE  /\ id = c + Len(Append(w, id))
           /\ \A i \in DOMAIN Append(w, id) : Append(w, id)[i] = c + i
<1>1. /\ Len(Append(w, id)) = Len(w) + 1 /\ Len(w) \in Nat
      /\ DOMAIN Append(w, id) = DOMAIN w \cup {Len(w) + 1}
      /\ Append(w, id)[Len(w) + 1] = id
      /\ \A i \in DOMAIN w : Append(w, id)[i] = w[i]
  OBVIOUS
<1>2. id = c + (Len(w) + 1)
  BY <1>1
<1> QED BY <1>1, <1>2

LEMMA SpliceEnds ==
    ASSUME FInv, NEW v \in Viewers, Splice(v)
    PROVE  Apart(v) /\ EndToEnd(v)'
<1> DEFINE h == Head(queue[v])
           q == queue[v]
           t == Tail(queue[v])
<1>0. /\ queue \in [Viewers -> Seq(Nat)] /\ highWater \in [Viewers -> Nat]
      /\ wire \in [Viewers -> Seq(Ids)]
      /\ highWater[v] \in Nat /\ queue[v] \in Seq(Nat) /\ wire[v] \in Seq(Ids)
      /\ cursor[v] \in Nat \cup {-1} /\ head \in Nat /\ EndToEnd(v)
      /\ Told \in Nat /\ Told <= head
  BY ViewerFacts
<1>1. /\ phase[v] = "live" /\ q # <<>> /\ queue' = [queue EXCEPT ![v] = t]
      /\ UNCHANGED <<producer, registered, phase, batch, cursor, received>>
      /\ \/ /\ h # NoId /\ h > highWater[v] /\ wire' = [wire EXCEPT ![v] = Append(wire[v], h)]
            /\ highWater' = [highWater EXCEPT ![v] = h]
         \/ h <= highWater[v] /\ UNCHANGED <<wire, highWater>>
  BY DEF Splice, Yield, browser
<1>2. Apart(v)
  BY <1>0, <1>1 DEF Apart, Others
<1>3. Told' = Told /\ head' = head
  BY <1>2, ApartKept, <1>1 DEF producer
<1>4. /\ batch[v] = <<>> /\ Continued(v) /\ \A i \in DOMAIN q : q[i] <= Told
      /\ highWater[v] = cursor[v] + Len(wire[v])
      /\ \A i \in DOMAIN wire[v] : wire[v][i] = cursor[v] + i
      /\ cursor[v] <= head
  BY <1>0, <1>1 DEF EndToEnd
<1>5. Passed(v) = highWater[v] /\ Passed(v)' = highWater'[v]
  BY <1>0, <1>1, <1>4 DEF Passed
<1>6. /\ h = q[1] /\ h \in Nat /\ 1 \in DOMAIN q /\ t \in Seq(Nat)
      /\ \A i \in DOMAIN t : i + 1 \in DOMAIN q /\ t[i] = q[i + 1] /\ i \in Nat
      /\ \A i \in DOMAIN q : i # 1 => (i - 1 \in DOMAIN t /\ t[i - 1] = q[i] /\ i \in Nat)
  <2>1. /\ h = q[1] /\ h \in Nat /\ t \in Seq(Nat) /\ Len(q) \in Nat /\ Len(q) > 0
        /\ DOMAIN q = 1..Len(q) /\ DOMAIN t = 1..(Len(q) - 1)
        /\ \A i \in 1..(Len(q) - 1) : t[i] = q[i + 1]
    BY <1>0, <1>1
  <2> HIDE DEF h, q, t
  <2>2. \A i \in 1..(Len(q) - 1) : i + 1 \in 1..Len(q) /\ i \in Nat
    BY <2>1
  <2>3. \A i \in 1..Len(q) :
           i # 1 => (i - 1 \in 1..(Len(q) - 1) /\ (i - 1) + 1 = i /\ i \in Nat)
    BY <2>1
  <2>4. 1 \in DOMAIN q
    BY <2>1
  <2>5. ASSUME NEW i \in DOMAIN q, i # 1
        PROVE  i - 1 \in DOMAIN t /\ t[i - 1] = q[i] /\ i \in Nat
    BY <2>1, <2>3, <2>5
  <2> QED BY <2>1, <2>2, <2>4, <2>5
<1>7. queue'[v] = t
  BY <1>0, <1>1
<1> HIDE DEF h, q, t
<1>8. \/ /\ h = highWater[v] + 1 /\ highWater'[v] = h /\ wire'[v] = Append(wire[v], h) /\ h \in Ids
      \/ h <= highWater[v] /\ highWater'[v] = highWater[v] /\ wire'[v] = wire[v]
  <2>1. CASE h <= highWater[v] /\ UNCHANGED <<wire, highWater>>
    BY <2>1
  <2>2. CASE /\ h # NoId /\ h > highWater[v] /\ wire' = [wire EXCEPT ![v] = Append(wire[v], h)]
             /\ highWater' = [highWater EXCEPT ![v] = h]
    <3> DEFINE id == highWater[v] + 1
    <3>1. id \in Ids /\ Passed(v) < id
      BY <1>0, <1>5 DEF Ids, NoId
    <3>2. ~ id < h
      <4>1. SUFFICES ASSUME id < h PROVE FALSE
        OBVIOUS
      <4>2. \E i \in DOMAIN q : i < 1 /\ q[i] = id
        BY <1>4, <1>6, <3>1, <4>1 DEF Continued, q
      <4> QED BY <1>0, <4>2 DEF q
    <3>3. h = id
      BY <1>0, <1>6, <2>2, <3>2
    <3> QED BY <1>0, <2>2, <3>1, <3>3
  <2> QED BY <1>1, <2>1, <2>2
<1>9. h <= Passed(v)' /\ Passed(v) <= Passed(v)' /\ Passed(v)' <= head /\ Passed(v)' \in Nat
  <2>1. h <= head /\ highWater[v] <= head
    <3>1. Passed(v) <= head
      BY <1>0 DEF EndToEnd
    <3>2. h <= Told
      BY <1>4, <1>6
    <3> QED BY <1>0, <1>5, <1>6, <3>1, <3>2
  <2> QED BY <1>0, <1>5, <1>6, <1>8, <2>1
<1>10. Continued(v)'
  <2>0. Passed(v) \in Nat
    BY <1>0, <1>5
  <2>1. ASSUME NEW j \in DOMAIN t, NEW id \in Ids, Passed(v)' < id, id < t[j]
        PROVE  \E i \in DOMAIN t : i < j /\ t[i] = id
    <3>1. Passed(v) < id
      BY <1>9, <2>0, <2>1 DEF Ids, NoId
    <3>2. PICK i \in DOMAIN q : i < j + 1 /\ q[i] = id
      BY <1>4, <1>6, <2>1, <3>1 DEF Continued, q
    <3>3. i # 1
      BY <1>6, <1>9, <2>1, <3>2 DEF Ids, NoId
    <3>4. i - 1 \in DOMAIN t /\ t[i - 1] = id /\ i \in Nat /\ j \in Nat
      BY <1>6, <3>2, <3>3
    <3>5. i - 1 < j
      BY <3>2, <3>4
    <3> QED BY <3>4, <3>5
  <2>2. ASSUME v \in registered, NEW id \in Ids, Passed(v)' < id, id <= Told
        PROVE  \E i \in DOMAIN t : t[i] = id
    <3>1. Passed(v) < id
      BY <1>9, <2>0, <2>2 DEF Ids, NoId
    <3>2. PICK i \in DOMAIN q : q[i] = id
      BY <1>4, <2>2, <3>1 DEF Continued, q
    <3>3. i # 1
      BY <1>6, <1>9, <2>2, <3>2 DEF Ids, NoId
    <3> QED BY <1>6, <3>2, <3>3
  <2> QED BY <1>1, <1>3, <1>7, <2>1, <2>2 DEF Continued
<1>11. /\ highWater'[v] = cursor[v] + Len(wire'[v])
       /\ \A i \in DOMAIN wire'[v] : wire'[v][i] = cursor[v] + i
  <2>1. cursor[v] \in Int /\ highWater[v] \in Int
    BY <1>0
  <2>2. CASE h = highWater[v] + 1 /\ highWater'[v] = h /\ wire'[v] = Append(wire[v], h) /\ h \in Ids
    BY <1>0, <1>4, <2>1, <2>2, WireExtended
  <2>3. CASE highWater'[v] = highWater[v] /\ wire'[v] = wire[v]
    BY <1>4, <2>3
  <2> QED BY <1>8, <2>2, <2>3
<1>12. \A i \in DOMAIN t : t[i] <= Told
  BY <1>4, <1>6
<1>13. EndToEnd(v)'
  BY <1>0, <1>1, <1>3, <1>4, <1>7, <1>9, <1>10, <1>11, <1>12 DEF EndToEnd
<1> QED BY <1>2, <1>13

LEMMA SnapshotEnds ==
    ASSUME FInv, NEW v \in Viewers, Snapshot(v)
    PROVE  Apart(v) /\ EndToEnd(v)'
<1>0. /\ phase \in [Viewers -> Phases] /\ cursor \in [Viewers -> Nat \cup {-1}]
      /\ head \in Nat /\ InOrder(v) /\ EndToEnd(v)
  BY ViewerFacts
<1>1. /\ phase[v] = "new" /\ phase'[v] = "closed" /\ cursor'[v] = head
      /\ received[v] = <<>>
      /\ UNCHANGED <<producer, queue, registered, highWater, batch, wire, received>>
      /\ Apart(v)
  BY <1>0 DEF Snapshot, Apart, Others, InOrder
<1>2. Told' = Told /\ head' = head
  BY <1>1, ApartKept DEF producer
<1>3. EndToEnd(v)'
  BY <1>0, <1>1, <1>2 DEF EndToEnd, Passed
<1> QED BY <1>1, <1>3

(* A frame that arrives is the id after the cursor.                        *)
LEMMA ReceivesNext ==
    ASSUME FInv, NEW v \in Viewers, Receive(v)
    PROVE  /\ phase[v] \in {"registered", "replay", "live", "ended"}
           /\ cursor[v] \in Nat /\ Head(wire[v]) = cursor[v] + 1
           /\ cursor' = [cursor EXCEPT ![v] = cursor[v] + 1]
           /\ cursor[v] + 1 <= head
           /\ highWater[v] = cursor[v] + 1 + Len(Tail(wire[v]))
           /\ \A i \in DOMAIN Tail(wire[v]) : Tail(wire[v])[i] = cursor[v] + 1 + i
<1>0. /\ phase \in [Viewers -> Phases] /\ wire[v] \in Seq(Ids) /\ cursor[v] \in Nat \cup {-1}
      /\ highWater[v] \in Nat /\ batch[v] \in Seq(Ids)
      /\ head \in Nat /\ InOrder(v) /\ EndToEnd(v)
  BY ViewerFacts
<1>1. /\ wire[v] # <<>> /\ phase[v] # "lost" /\ cursor' = [cursor EXCEPT ![v] = Head(wire[v])]
  BY DEF Receive
<1>2. phase[v] \in {"registered", "replay", "live", "ended"} /\ cursor[v] \in Nat
  BY <1>0, <1>1 DEF InOrder, Phases
<1>3. /\ highWater[v] = cursor[v] + Len(wire[v])
      /\ \A i \in DOMAIN wire[v] : wire[v][i] = cursor[v] + i
      /\ highWater[v] + Len(batch[v]) <= head
  BY <1>0, <1>2 DEF EndToEnd, Passed
<1>4. /\ Head(wire[v]) = wire[v][1] /\ 1 \in DOMAIN wire[v]
      /\ Len(wire[v]) \in Nat /\ Len(wire[v]) >= 1 /\ Len(Tail(wire[v])) = Len(wire[v]) - 1
      /\ \A i \in DOMAIN Tail(wire[v]) :
            i + 1 \in DOMAIN wire[v] /\ Tail(wire[v])[i] = wire[v][i + 1] /\ i \in Nat
  BY <1>0, <1>1
<1>5. Head(wire[v]) = cursor[v] + 1
  BY <1>3, <1>4
<1>6. cursor[v] + 1 <= head
  <2>1. Len(batch[v]) \in Nat
    BY <1>0
  <2> QED BY <1>0, <1>2, <1>3, <1>4, <2>1
<1>7. highWater[v] = cursor[v] + 1 + Len(Tail(wire[v]))
  <2> DEFINE n == Len(wire[v])
             k == Len(Tail(wire[v]))
  <2>1. n \in Nat /\ k = n - 1 /\ highWater[v] = cursor[v] + n
    BY <1>3, <1>4
  <2> HIDE DEF n, k
  <2>2. highWater[v] = cursor[v] + 1 + k
    BY <1>2, <2>1
  <2> QED BY <2>2 DEF k
<1>8. ASSUME NEW i \in DOMAIN Tail(wire[v]) PROVE Tail(wire[v])[i] = cursor[v] + 1 + i
  <2>1. Tail(wire[v])[i] = cursor[v] + (i + 1) /\ i \in Nat
    BY <1>3, <1>4
  <2> QED BY <1>2, <2>1
<1> QED BY <1>1, <1>2, <1>5, <1>6, <1>7, <1>8

LEMMA ReceiveEnds ==
    ASSUME FInv, NEW v \in Viewers, Receive(v)
    PROVE  Apart(v) /\ EndToEnd(v)'
<1> DEFINE id == cursor[v] + 1
           r == received[v]
<1>0. /\ wire \in [Viewers -> Seq(Ids)] /\ cursor \in [Viewers -> Nat \cup {-1}]
      /\ received \in [Viewers -> Seq(Ids)] /\ r \in Seq(Ids)
      /\ head \in Nat /\ EndToEnd(v)
  BY ViewerFacts
<1>1. /\ phase[v] \in {"registered", "replay", "live", "ended"} /\ cursor[v] \in Nat
      /\ Head(wire[v]) = id /\ id <= head
      /\ highWater[v] = id + Len(Tail(wire[v]))
      /\ \A i \in DOMAIN Tail(wire[v]) : Tail(wire[v])[i] = id + i
  BY ReceivesNext
<1>2. /\ UNCHANGED <<producer, registered, queue, phase, highWater, batch>>
      /\ cursor'[v] = id /\ wire'[v] = Tail(wire[v]) /\ received'[v] = Append(r, id)
      /\ Apart(v)
  BY <1>0, <1>1 DEF Receive, generator, Apart, Others
<1>3. Told' = Told /\ head' = head
  BY <1>2, ApartKept DEF producer
<1>4. /\ DOMAIN received'[v] = DOMAIN r \cup {Len(r) + 1} /\ Len(r) \in Nat
      /\ DOMAIN r = 1..Len(r)
      /\ Len(received'[v]) = Len(r) + 1 /\ received'[v][Len(r) + 1] = id
      /\ \A i \in DOMAIN r : received'[v][i] = r[i]
  BY <1>0, <1>2
<1>5. /\ \A i \in DOMAIN r : i + 1 \in DOMAIN r => r[i + 1] = r[i] + 1
      /\ r # <<>> => r[Len(r)] = cursor[v]
  BY <1>0 DEF EndToEnd
<1>9. Len(r) \in DOMAIN r => r # <<>>
  BY <1>0
<1>10. id = cursor[v] + 1
  OBVIOUS
<1> HIDE DEF id, r
<1>6. ASSUME NEW i \in DOMAIN received'[v], i + 1 \in DOMAIN received'[v]
      PROVE  received'[v][i + 1] = received'[v][i] + 1
  <2>1. CASE i + 1 \in DOMAIN r
    <3>1. i \in DOMAIN r
      BY <1>4, <1>6, <2>1
    <3> QED BY <1>4, <1>5, <2>1, <3>1
  <2>2. CASE i + 1 = Len(r) + 1
    <3>1. i = Len(r) /\ i \in DOMAIN r
      BY <1>4, <1>6, <2>2
    <3> QED BY <1>4, <1>5, <1>9, <1>10, <2>2, <3>1
  <2> QED BY <1>4, <1>6, <2>1, <2>2
<1>7. Continued(v) => Continued(v)'
  BY <1>2, <1>3 DEF Continued, Passed
<1>8. EndToEnd(v)'
  BY <1>0, <1>1, <1>2, <1>3, <1>4, <1>6, <1>7 DEF EndToEnd, Passed
<1> QED BY <1>2, <1>8

LEMMA RestartFInv ==
    ASSUME FInv, Restart, IInv'
    PROVE  FInv'
<1>1. /\ \A w \in Writers : unpublished'[w] = NoId
      /\ head' = head /\ head \in Nat
      /\ UNCHANGED <<highWater, cursor, received>>
      /\ \A v \in Viewers : /\ queue'[v] = <<>> /\ batch'[v] = <<>> /\ wire'[v] = <<>>
                            /\ phase'[v] = IF phase[v] = "new" THEN "new" ELSE "closed"
  BY DEF Restart, browser, FInv, IInv, TypeOK
<1>2. InStep'
  BY <1>1 DEF InStep
<1>3. ASSUME NEW v \in Viewers PROVE EndToEnd(v)'
  <2>1. /\ highWater[v] \in Nat /\ Len(batch[v]) \in Nat /\ EndToEnd(v)
    BY ViewerFacts
  <2>2. Passed(v)' <= Passed(v) /\ Passed(v) \in Int /\ Passed(v)' \in Int
    BY <1>1, <2>1 DEF Passed
  <2>3. Passed(v)' <= head'
    BY <1>1, <2>1, <2>2 DEF EndToEnd
  <2> QED BY <1>1, <2>1, <2>3 DEF EndToEnd
<1> QED BY <1>2, <1>3 DEF FInv

(* With one writer, FInv is inductive.                                     *)
LEMMA NextFInv ==
    ASSUME FInv, OneWriter, [Next]_vars
    PROVE  FInv'
<1>0. IInv'
  BY NextIInv DEF FInv
<1>1. ASSUME NEW w \in Writers, Commit(w) \/ Publish(w) PROVE FInv'
  BY <1>0, <1>1, CommitFInv, PublishFInv
<1>2. ASSUME NEW v \in Viewers, Snapshot(v) \/ Stream(v) \/ Receive(v) \/ Disconnect(v)
      PROVE  FInv'
  <2>1. Apart(v) /\ EndToEnd(v)'
    BY <1>2, ConnectEnds, CatchUpEnds, YieldReplayEnds, QuietEnds, SpliceEnds,
       SnapshotEnds, ReceiveEnds DEF Stream
  <2>2. InStep' /\ \A u \in Viewers \ {v} : EndToEnd(u)'
    BY <2>1, ApartKept
  <2> QED BY <1>0, <2>1, <2>2 DEF FInv
<1>3. CASE UNCHANGED vars
  <2>1. /\ UNCHANGED <<head, unpublished, registered, queue, phase, highWater, batch,
                       wire, cursor, received>>
    BY <1>3 DEF vars, producer, generator, browser
  <2>2. Told' = Told /\ InStep'
    BY <2>1 DEF FInv, Told, InStep
  <2>3. ASSUME NEW v \in Viewers PROVE EndToEnd(v)'
    BY <2>1, <2>2 DEF FInv, EndToEnd, Continued, Passed
  <2> QED BY <1>0, <2>2, <2>3 DEF FInv
<1> QED BY <1>0, <1>1, <1>2, <1>3, OfferIdlessFInv, RestartFInv DEF Next

(* What a step of the stream is to the feed: a commit lets the log grow, a *)
(* snapshot joins, a received frame is the next event seen.                *)
LEMMA StepImplements ==
    ASSUME FInv, [Next]_vars
    PROVE  [Promised!Next]_(Promised!vars)
<1> USE DEF Promised!vars
<1>1. ASSUME NEW w \in Writers, Commit(w) PROVE Promised!Next
  BY <1>1 DEF Commit, browser, Promised!Next, Promised!Grow
<1>2. ASSUME NEW v \in Viewers, Snapshot(v) PROVE Promised!Next
  <2>1. cursor[v] = -1
    BY <1>2 DEF Snapshot, FInv, EndToEnd
  <2> QED BY <1>2, <2>1 DEF Snapshot, producer, Promised!Next, Promised!Join
<1>3. ASSUME NEW v \in Viewers, Receive(v) PROVE Promised!Next
  <2>1. /\ cursor[v] \in Nat /\ cursor' = [cursor EXCEPT ![v] = cursor[v] + 1]
        /\ cursor[v] + 1 <= head
    BY <1>3, ReceivesNext
  <2>2. UNCHANGED head
    BY <1>3 DEF Receive, producer
  <2>3. head \in Nat
    BY DEF FInv, IInv, TypeOK
  <2>4. cursor[v] >= 0 /\ cursor[v] < head
    BY <2>1, <2>3
  <2> QED BY <2>1, <2>2, <2>4 DEF Promised!Next, Promised!See
<1>4. ASSUME NEW v \in Viewers, Stream(v) \/ Disconnect(v) PROVE UNCHANGED <<head, cursor>>
  BY <1>4 DEF Stream, Connect, CatchUp, YieldReplay, GoLive, Splice, TimeOut, Deregister,
              Disconnect, producer, browser
<1>5. ASSUME NEW w \in Writers, Publish(w) PROVE UNCHANGED <<head, cursor>>
  BY <1>5 DEF Publish, browser
<1>6. CASE OfferIdless \/ Restart \/ UNCHANGED vars
  BY <1>6 DEF OfferIdless, Restart, vars, producer, browser
<1> QED BY <1>1, <1>2, <1>3, <1>4, <1>5, <1>6 DEF Next

-----------------------------------------------------------------------------

(* server.stream_events, "never sees a gap", as far as it is true: with at *)
(* most one hunt publishing, a browser's ids are consecutive, whatever the *)
(* drops, lost connections and restarts.                                   *)
THEOREM GapFreeWithOneWriter == ASSUME OneWriter PROVE Spec => []NoGap
<1>1. FInv => NoGap
  <2> SUFFICES ASSUME FInv, NEW v \in Viewers, NEW i \in 2..Len(received[v])
               PROVE  received[v][i] = received[v][i - 1] + 1
    BY DEF NoGap
  <2>1. received[v] \in Seq(Ids) /\ EndToEnd(v)
    BY ViewerFacts
  <2>2. i - 1 \in DOMAIN received[v] /\ (i - 1) + 1 = i /\ i \in DOMAIN received[v]
    BY <2>1
  <2> QED BY <2>1, <2>2 DEF EndToEnd
<1>2. FInv /\ [Next]_vars => FInv'
  BY NextFInv
<1> QED BY <1>1, <1>2, InitFInv, PTL DEF Spec

(* ADR pillar 3, its safety: with one writer every browser's cursor is a   *)
(* viewer of the promised feed - it joins at its snapshot and from there   *)
(* sees each next event, none skipped and none twice.                      *)
THEOREM StreamImplementsFeed == ASSUME OneWriter PROVE Spec => Promised!Spec
<1>1. Init => Promised!Init
  BY DEF Init, Promised!Init
<1>2. FInv /\ [Next]_vars => FInv'
  BY NextFInv
<1>3. FInv /\ [Next]_vars => [Promised!Next]_(Promised!vars)
  BY StepImplements
<1> QED BY <1>1, <1>2, <1>3, InitFInv, PTL DEF Spec, Promised!Spec

-----------------------------------------------------------------------------
(* Seamless counts: the ids in a queue rise, besides being continued.      *)

Rising(s) == \A i, j \in DOMAIN s : i < j /\ s[i] # NoId /\ s[j] # NoId => s[i] < s[j]

SInv == FInv /\ \A v \in Viewers : Rising(queue[v])

LEMMA OfferRises ==
    ASSUME SInv, NEW id \in Nat, Offer(id), id = NoId \/ id = Told + 1
    PROVE  \A v \in Viewers : Rising(queue'[v])
<1> SUFFICES ASSUME NEW v \in Viewers PROVE Rising(queue'[v])
  OBVIOUS
<1>1. PICK q \in Seq(Nat) : q = queue[v]
  BY DEF SInv, FInv, IInv, TypeOK
<1>2. /\ Rising(q) /\ Told \in Nat /\ \A i \in DOMAIN q : q[i] <= Told
      /\ queue'[v] = q \/ queue'[v] = Append(q, id)
  BY <1>1, ToldTyped DEF SInv, FInv, IInv, EndToEnd, Offer
<1>3. CASE queue'[v] = Append(q, id)
  <2>1. PICK m : m = Append(q, id)
    OBVIOUS
  <2>2. PICK n \in Nat : n = Len(q)
    OBVIOUS
  <2>3. /\ DOMAIN q = 1..n /\ DOMAIN m = 1..(n + 1) /\ m[n + 1] = id
        /\ \A i \in 1..n : m[i] = q[i] /\ q[i] \in Nat
    BY <2>1, <2>2
  <2>4. ASSUME NEW i \in DOMAIN m, NEW j \in DOMAIN m, i < j, m[i] # NoId, m[j] # NoId
        PROVE  m[i] < m[j]
    <3>1. i \in 1..n
      BY <2>3, <2>4
    <3>2. CASE j = n + 1
      BY <1>2, <2>3, <2>4, <3>1, <3>2
    <3>3. CASE j # n + 1
      BY <1>2, <2>3, <2>4, <3>1, <3>3 DEF Rising
    <3> QED BY <3>2, <3>3
  <2> QED BY <1>3, <2>1, <2>4 DEF Rising
<1> QED BY <1>2, <1>3

LEMMA TailRises ==
    ASSUME NEW q \in Seq(Nat), q # <<>>, Rising(q)
    PROVE  Rising(Tail(q))
<1>1. PICK n \in Nat : n = Len(q) /\ n > 0
  OBVIOUS
<1>2. /\ DOMAIN q = 1..n /\ DOMAIN Tail(q) = 1..(n - 1)
      /\ \A i \in 1..(n - 1) : Tail(q)[i] = q[i + 1] /\ i + 1 \in 1..n
  BY <1>1
<1> QED BY <1>2 DEF Rising

LEMMA NextSInv ==
    ASSUME SInv, OneWriter, [Next]_vars
    PROVE  SInv'
<1>1. FInv' /\ queue \in [Viewers -> Seq(Nat)]
  BY NextFInv DEF SInv, FInv, IInv, TypeOK
<1>2. CASE UNCHANGED queue
  BY <1>1, <1>2 DEF SInv
<1>3. ASSUME NEW w \in Writers, Publish(w) PROVE SInv'
  <2>1. /\ unpublished[w] # NoId /\ unpublished[w] = head /\ head \in Nat
        /\ Offer(unpublished[w])
    BY <1>3 DEF Publish, SInv, FInv, InStep, IInv, TypeOK
  <2>2. head = Told + 1
    BY <2>1 DEF Told
  <2> QED BY <1>1, <2>1, <2>2, OfferRises DEF SInv
<1>4. CASE OfferIdless
  <2>1. NoId \in Nat /\ Offer(NoId)
    BY <1>4 DEF OfferIdless, NoId
  <2> QED BY <1>1, <2>1, OfferRises DEF SInv
<1>5. ASSUME NEW v \in Viewers, Connect(v) PROVE SInv'
  <2>1. queue' = [queue EXCEPT ![v] = <<>>]
    BY <1>5 DEF Connect, Register
  <2>2. Rising(<<>>)
    BY DEF Rising
  <2> QED BY <1>1, <2>1, <2>2 DEF SInv
<1>6. ASSUME NEW v \in Viewers, Splice(v) PROVE SInv'
  <2>1. queue' = [queue EXCEPT ![v] = Tail(@)] /\ queue[v] # <<>> /\ queue[v] \in Seq(Nat)
    BY <1>1, <1>6 DEF Splice
  <2>2. Rising(Tail(queue[v]))
    BY <2>1, TailRises DEF SInv
  <2> QED BY <1>1, <2>1, <2>2 DEF SInv
<1>7. CASE Restart
  <2>1. \A v \in Viewers : queue'[v] = <<>>
    BY <1>7 DEF Restart
  <2>2. Rising(<<>>)
    BY DEF Rising
  <2> QED BY <1>1, <2>1, <2>2 DEF SInv
<1>8. \/ UNCHANGED queue \/ OfferIdless \/ Restart
      \/ \E w \in Writers : Publish(w)
      \/ \E v \in Viewers : Connect(v) \/ Splice(v)
  BY DEF Next, vars, Commit, Snapshot, Stream, CatchUp, YieldReplay, GoLive, TimeOut, Deregister,
         Receive, Disconnect
<1> QED BY <1>2, <1>3, <1>4, <1>5, <1>6, <1>7, <1>8

(* The positions in S hold the ids from m + 1 to end.                      *)
Fills(q, S, m, end) ==
    /\ S \in SUBSET DOMAIN q
    /\ \A i \in S : m < q[i] /\ q[i] <= end
    /\ \A id \in (m + 1)..end : \E i \in S : q[i] = id

LEMMA RunOfIds ==
    ASSUME NEW q \in Seq(Nat), Rising(q), NEW m \in Nat, NEW end \in Nat, m <= end,
           NEW S, Fills(q, S, m, end)
    PROVE  end = m + Cardinality(S)
<1> DEFINE f == [i \in S |-> q[i]]
<1>0. PICK n \in Nat : n = Len(q) /\ DOMAIN q = 1..n /\ \A i \in 1..n : q[i] \in Nat
  OBVIOUS
<1>1. \A i \in S : i \in DOMAIN q /\ i \in Nat /\ q[i] # NoId /\ q[i] \in (m + 1)..end
  BY <1>0 DEF NoId, Fills
<1>2. ASSUME NEW i \in S, NEW j \in S, q[i] = q[j] PROVE i = j
  <2>1. CASE i < j
    BY <1>1, <1>2, <2>1 DEF Rising
  <2>2. CASE j < i
    BY <1>1, <1>2, <2>2 DEF Rising
  <2> QED BY <1>1, <2>1, <2>2
<1>3. f \in [S -> (m + 1)..end] /\ \A i \in S : f[i] = q[i]
  BY <1>1
<1> HIDE DEF f
<1>4. f \in Bijection(S, (m + 1)..end)
  <2>1. f \in Injection(S, (m + 1)..end)
    BY <1>2, <1>3 DEF Injection, IsInjective
  <2>2. f \in Surjection(S, (m + 1)..end)
    <3>1. ASSUME NEW id \in (m + 1)..end PROVE \E i \in S : f[i] = id
      BY <1>3 DEF Fills
    <3> QED BY <1>3, <3>1 DEF Surjection
  <2> QED BY <2>1, <2>2 DEF Bijection
<1>5. Cardinality((m + 1)..end) = end - m
  <2>1. m + 1 \in Int /\ end \in Int
    OBVIOUS
  <2>2. Cardinality((m + 1)..end) = IF m + 1 > end THEN 0 ELSE end - (m + 1) + 1
    BY <2>1, FS_Interval
  <2> QED BY <2>2
<1>6. ExistsBijection(S, (m + 1)..end)
  BY <1>4 DEF ExistsBijection
<1>7. Cardinality(S) = end - m
  <2>1. S \in SUBSET (1..n) /\ IsFiniteSet(1..n)
    BY <1>0, FS_Interval DEF Fills
  <2>2. IsFiniteSet(S)
    BY <2>1, FS_Subset
  <2> QED BY <1>5, <1>6, <2>2, FS_Bijection
<1> QED BY <1>7

(* server.stream_events, registering before the replay, with one writer:   *)
(* past the last id a generator has passed on or fetched, its queue holds  *)
(* the following ids, each once, up to the last one published while the    *)
(* hub still feeds it.                                                     *)
THEOREM QueuesAreSeamless == ASSUME OneWriter PROVE Spec => []Seamless
<1>1. Init => SInv
  <2>1. Init => FInv
    BY InitFInv
  <2>2. Init => \A v \in Viewers : Rising(queue[v])
    BY DEF Init, Rising
  <2> QED BY <2>1, <2>2 DEF SInv
<1>2. SInv /\ [Next]_vars => SInv'
  BY NextSInv
<1>3. SInv => Seamless
  <2> SUFFICES ASSUME SInv, NEW v \in Viewers, phase[v] \in {"replay", "live"}
               PROVE  /\ \A i \in Above(v) :
                            queue[v][i] = Mark(v) + Cardinality({j \in Above(v) : j <= i})
                      /\ v \in registered =>
                            \A id \in (Mark(v) + Cardinality(Above(v)) + 1)..head :
                                \E w \in Writers : unpublished[w] = id
    BY DEF Seamless
  <2>1. PICK q \in Seq(Nat) : q = queue[v] /\ Rising(q)
    BY DEF SInv, FInv, IInv, TypeOK
  <2>2. PICK m \in Nat : m = Mark(v) /\ m = Passed(v) /\ m <= head
    <3>1. /\ highWater[v] \in Nat /\ batch[v] \in Seq(Ids) /\ EndToEnd(v) /\ InOrder(v)
      BY ViewerFacts DEF SInv, FInv, IInv
    <3>2. CASE batch[v] = <<>>
      <4>1. Mark(v) = highWater[v] /\ Passed(v) = highWater[v] + Len(batch[v])
        BY <3>2 DEF Mark, Passed
      <4>2. Len(batch[v]) = 0
        BY <3>1, <3>2
      <4> QED BY <3>1, <4>1, <4>2 DEF EndToEnd
    <3>3. CASE batch[v] # <<>>
      <4>1. phase[v] = "replay"
        BY <3>1, <3>3 DEF EndToEnd
      <4>2. Len(batch[v]) \in DOMAIN batch[v] /\ Len(batch[v]) \in Nat
        BY <3>1, <3>3
      <4>3. Mark(v) = highWater[v] + Len(batch[v])
        BY <3>1, <3>3, <4>1, <4>2 DEF InOrder, Mark
      <4>4. Passed(v) \in Nat /\ Passed(v) = Mark(v)
        BY <3>1, <4>2, <4>3 DEF Passed
      <4> QED BY <3>1, <4>4 DEF EndToEnd
    <3> QED BY <3>2, <3>3
  <2>3. /\ Told \in Nat /\ head \in Nat /\ Told <= head /\ head <= Told + 1
        /\ \A i \in DOMAIN q : i \in Nat /\ q[i] \in Nat /\ q[i] <= Told
        /\ Continued(v) /\ InStep
    <3>1. Told \in Nat /\ Told <= head /\ head \in Nat
      BY ToldTyped DEF SInv, FInv, IInv, TypeOK
    <3>2. head <= Told + 1
      BY <3>1 DEF Told
    <3> QED BY <2>1, <3>1, <3>2 DEF SInv, FInv, EndToEnd
  <2>4. PICK A \in SUBSET DOMAIN q : /\ A = Above(v)
                                    /\ \A i \in DOMAIN q : i \in A <=> q[i] > m
    <3>1. Above(v) = {i \in DOMAIN q : q[i] > m}
      BY <2>1, <2>2 DEF Above
    <3>2. Above(v) \in SUBSET DOMAIN q
      BY <3>1
    <3> QED BY <3>1, <3>2, Zenon
  <2>5. ASSUME NEW i \in A PROVE q[i] = m + Cardinality({j \in A : j <= i})
    <3>1. PICK S \in SUBSET A : S = {j \in A : j <= i}
      OBVIOUS
    <3>2. /\ i \in DOMAIN q /\ i \in Nat /\ q[i] \in Nat /\ m < q[i]
      BY <2>3, <2>4
    <3>3. ASSUME NEW j \in S PROVE m < q[j] /\ q[j] <= q[i]
      <4>1. /\ j \in DOMAIN q /\ j \in Nat /\ q[j] \in Nat /\ m < q[j] /\ j <= i
        BY <2>3, <2>4, <3>1
      <4>2. CASE j = i
        BY <4>1, <4>2
      <4>3. CASE j < i
        <5>1. q[j] < q[i]
          BY <2>1, <3>2, <4>1, <4>3 DEF Rising, NoId
        <5> QED BY <3>2, <4>1, <5>1
      <4> QED BY <3>2, <4>1, <4>2, <4>3
    <3>4. ASSUME NEW id \in (m + 1)..q[i] PROVE \E j \in S : q[j] = id
      <4>1. CASE id = q[i]
        BY <3>1, <3>2, <4>1
      <4>2. CASE id < q[i]
        <5>1. id \in Ids /\ Passed(v) < id
          BY <2>2, <3>4 DEF Ids, NoId
        <5>2. PICK j \in DOMAIN q : j < i /\ q[j] = id
          BY <2>1, <2>3, <3>2, <4>2, <5>1 DEF Continued
        <5>3. j \in S
          BY <2>2, <2>3, <2>4, <3>1, <3>2, <5>1, <5>2
        <5> QED BY <5>2, <5>3
      <4> QED BY <3>2, <3>4, <4>1, <4>2
    <3>5. Fills(q, S, m, q[i])
      BY <3>3, <3>4 DEF Fills
    <3>6. q[i] = m + Cardinality(S)
      BY <2>1, <3>2, <3>5, RunOfIds
    <3> QED BY <3>1, <3>6
  <2>6. ASSUME v \in registered, NEW id \in (m + Cardinality(A) + 1)..head
        PROVE  \E w \in Writers : unpublished[w] = id
    <3>1. head <= m + Cardinality(A) \/ (head = Told + 1 /\ Told = m + Cardinality(A))
      <4>1. CASE Told < m
        <5>1. A = {}
          BY <2>3, <2>4, <4>1
        <5>2. Cardinality(A) = 0
          BY <5>1, FS_EmptySet
        <5> QED BY <2>2, <2>3, <4>1, <5>2
      <4>2. CASE m <= Told
        <5>1. ASSUME NEW x \in (m + 1)..Told PROVE \E i \in A : q[i] = x
          <6>1. x \in Ids /\ Passed(v) < x /\ x <= Told
            BY <2>2, <2>3, <5>1 DEF Ids, NoId
          <6>2. PICK i \in DOMAIN q : q[i] = x
            BY <2>1, <2>3, <2>6, <6>1 DEF Continued
          <6> QED BY <2>2, <2>4, <6>1, <6>2
        <5>2. \A i \in A : m < q[i] /\ q[i] <= Told
          BY <2>3, <2>4
        <5>3. Fills(q, A, m, Told)
          BY <5>1, <5>2 DEF Fills
        <5>4. Told = m + Cardinality(A)
          BY <2>1, <2>3, <4>2, <5>3, RunOfIds
        <5> QED BY <2>3, <5>4
      <4> QED BY <2>2, <2>3, <4>1, <4>2
    <3>2. Cardinality(A) \in Nat
      <4>1. A \in SUBSET (1..Len(q)) /\ Len(q) \in Nat
        BY <2>1
      <4>2. IsFiniteSet(1..Len(q))
        BY <4>1, FS_Interval
      <4>3. IsFiniteSet(A)
        BY <4>1, <4>2, FS_Subset
      <4> QED BY <4>3, FS_CardinalityType
    <3>3. head = Told + 1 /\ id = head
      BY <2>2, <2>3, <2>6, <3>1, <3>2
    <3>4. PICK w \in Writers : unpublished[w] # NoId
      BY <2>3, <3>3 DEF Told
    <3> QED BY <2>3, <3>3, <3>4 DEF InStep
  <2> QED BY <2>1, <2>2, <2>4, <2>5, <2>6
<1> QED BY <1>1, <1>2, <1>3, PTL DEF Spec

(* Hub.deregister, for any number of writers: only a viewer whose          *)
(* generator still runs, or whose finally is still to come, is fed.        *)
THEOREM NoQueueLeaks == Spec => []NoLeakedQueue
<1> DEFINE LInv == TypeOK /\ NoLeakedQueue
<1>1. Init => LInv
  <2>1. Init => TypeOK
    BY InitIInv DEF IInv
  <2> QED BY <2>1 DEF Init, NoLeakedQueue
<1>2. TypeOK /\ NoLeakedQueue /\ [Next]_vars => NoLeakedQueue'
  <2> SUFFICES ASSUME TypeOK, NoLeakedQueue, [Next]_vars PROVE NoLeakedQueue'
    OBVIOUS
  <2>0. phase \in [Viewers -> Phases] /\ registered \subseteq Viewers
    BY DEF TypeOK
  <2>1. ASSUME NEW id \in Nat, Offer(id), UNCHANGED generator PROVE NoLeakedQueue'
    BY <2>1 DEF Offer, generator, NoLeakedQueue
  <2>2. CASE OfferIdless
    BY <2>1, <2>2 DEF OfferIdless, NoId
  <2>3. ASSUME NEW w \in Writers, Commit(w) \/ Publish(w) PROVE NoLeakedQueue'
    <3>1. CASE Commit(w)
      BY <3>1 DEF Commit, generator, NoLeakedQueue
    <3>2. CASE Publish(w)
      <4>1. unpublished[w] \in Nat
        BY DEF TypeOK
      <4> QED BY <2>1, <3>2, <4>1 DEF Publish
    <3> QED BY <2>3, <3>1, <3>2
  <2>4. CASE Restart
    BY <2>4 DEF Restart, NoLeakedQueue
  <2>5. ASSUME NEW v \in Viewers, Snapshot(v) \/ Stream(v) \/ Receive(v) \/ Disconnect(v)
        PROVE  NoLeakedQueue'
    BY <2>0, <2>5 DEF Snapshot, Stream, Connect, Register, CatchUp, YieldReplay, GoLive, Splice,
       TimeOut, Deregister, Receive, Disconnect, generator, NoLeakedQueue
  <2>6. CASE UNCHANGED vars
    BY <2>6 DEF vars, generator, NoLeakedQueue
  <2> QED BY <2>2, <2>3, <2>4, <2>5, <2>6 DEF Next
<1> QED BY <1>1, <1>2, TypeCorrect, PTL DEF Spec
=============================================================================
