----------------------------- MODULE BoardProofs -----------------------------
(***************************************************************************)
(* Theorems of Board, for every list of runs and every bound.  The         *)
(* inductive invariant says what the store is (World), that a frame on the *)
(* wire tells of something committed (Wired), the stages of a page         *)
(* (Paged), and that a fetch under way, and the board painted, hold states *)
(* the store was in, read in the order of build_viewstate (Fetching).      *)
(***************************************************************************)
EXTENDS Board, FoldTheorems

Outcomes == {"none", "open", "completed"}

Row == [run : Runs, type : Types]

Frame == {"event", "run_finished", "verdict"} \X Nat

Tables == [Runs -> Outcomes] \cup {<<>>}

ViewState == [at : {"log", "facts", "tiles", "pen"}, log : Nat, facts : Tables, tiles : Tables,
              pen : Seq({"feasted", "awaiting_verdict"})]

\* A run starts, and it ends once.
Later(a, b) == /\ a # "none" => b # "none"
               /\ a = "completed" => b = "completed"

LEMMA RunsAreNumbers == Runs \subseteq Nat /\ \E n \in Nat : Runs = 1..n
BY BoardAssumption DEF Runs

LEMMA Removed ==
    ASSUME NEW A, NEW l \in Seq(A), NEW s \in 1..Len(l)
    PROVE  /\ RemoveAt(l, s) \in Seq(A)
           /\ \A i \in 1..Len(RemoveAt(l, s)) : \E j \in 1..Len(l) : RemoveAt(l, s)[i] = l[j]
<1>1. PICK n \in Nat : n = Len(l) /\ s \in 1..n /\ \A i \in 1..n : l[i] \in A
  OBVIOUS
<1>2. PICK a : a = SubSeq(l, 1, s - 1)
  OBVIOUS
<1>3. PICK b : b = SubSeq(l, s + 1, n)
  OBVIOUS
<1>4. a \in Seq(A) /\ Len(a) = s - 1 /\ \A i \in 1..(s - 1) : a[i] = l[i]
  <2>1. \A i \in 1..(s - 1) : l[i] \in A
    BY <1>1
  <2>2. /\ SubSeq(l, 1, s - 1) \in Seq(A)
        /\ Len(SubSeq(l, 1, s - 1)) = IF 1 <= s - 1 THEN s - 1 - 1 + 1 ELSE 0
        /\ \A i \in 1..(s - 1 - 1 + 1) : SubSeq(l, 1, s - 1)[i] = l[1 + i - 1]
    BY <1>1, <2>1, SubSeqProperties
  <2>3. Len(a) = s - 1
    BY <1>1, <1>2, <2>2
  <2>4. ASSUME NEW i \in 1..(s - 1) PROVE a[i] = l[i]
    <3>1. i \in 1..(s - 1 - 1 + 1) /\ 1 + i - 1 = i
      BY <1>1
    <3> QED BY <1>2, <2>2, <3>1
  <2> QED BY <1>2, <2>2, <2>3, <2>4
<1>5. b \in Seq(A) /\ Len(b) = n - s /\ \A i \in 1..(n - s) : b[i] = l[s + i]
  <2>1. \A i \in (s + 1)..n : l[i] \in A
    BY <1>1
  <2>2. /\ SubSeq(l, s + 1, n) \in Seq(A)
        /\ Len(SubSeq(l, s + 1, n)) = IF s + 1 <= n THEN n - (s + 1) + 1 ELSE 0
        /\ \A i \in 1..(n - (s + 1) + 1) : SubSeq(l, s + 1, n)[i] = l[s + 1 + i - 1]
    BY <1>1, <2>1, SubSeqProperties
  <2>3. Len(b) = n - s
    BY <1>1, <1>3, <2>2
  <2>4. ASSUME NEW i \in 1..(n - s) PROVE b[i] = l[s + i]
    <3>1. i \in 1..(n - (s + 1) + 1) /\ s + 1 + i - 1 = s + i
      BY <1>1
    <3> QED BY <1>3, <2>2, <3>1
  <2> QED BY <1>3, <2>2, <2>3, <2>4
<1>6. PICK u : u = a \o b
  OBVIOUS
<1>7. RemoveAt(l, s) = u
  BY <1>1, <1>2, <1>3, <1>6 DEF RemoveAt
<1>8. Glued(u, A, a, s - 1, b, n - s)
  BY <1>4, <1>5, <1>6, Concatenated
<1>9. ASSUME NEW i \in 1..Len(u) PROVE \E j \in 1..n : u[i] = l[j]
  <2>1. CASE i <= s - 1
    <3>1. i \in 1..(s - 1) /\ i \in 1..n
      BY <1>1, <1>8, <2>1
    <3> QED BY <1>4, <1>8, <3>1 DEF Glued
  <2>2. CASE ~(i <= s - 1)
    <3>1. Len(u) = (s - 1) + (n - s)
      BY <1>8 DEF Glued
    <3>2. PICK k \in 1..(n - s) : k = i - (s - 1)
      BY <1>1, <2>2, <3>1
    <3>3. s + k \in 1..n /\ (s - 1) + k = i
      BY <1>1, <3>2
    <3>4. u[(s - 1) + k] = b[k]
      BY <1>8, <3>2 DEF Glued
    <3> QED BY <1>5, <3>2, <3>3, <3>4
  <2> QED BY <2>1, <2>2
<1>10. u \in Seq(A)
  BY <1>8 DEF Glued
<1> QED BY <1>1, <1>7, <1>9, <1>10

-----------------------------------------------------------------------------
(* What hunts and other tabs commit.                                       *)

World == /\ log \in Seq(Row) /\ outcome \in [Runs -> Outcomes]
         /\ judged \subseteq Prey(Len(log))

\* Nothing committed is ever taken back.
Grown == /\ Len(log) <= Len(log') /\ \A i \in 1..Len(log) : log'[i] = log[i]
         /\ \A r \in Runs : Later(outcome[r], outcome'[r])
         /\ judged \subseteq judged'

LEMMA WorldStep ==
    ASSUME World, [Next]_vars
    PROVE  World' /\ Grown
<1>0. /\ log \in Seq(Row) /\ outcome \in [Runs -> Outcomes] /\ judged \subseteq Prey(Len(log))
      /\ Len(log) \in Nat
  BY DEF World
<1>1. ASSUME UNCHANGED world PROVE World' /\ Grown
  <2>1. log' = log /\ outcome' = outcome /\ judged' = judged
    BY <1>1 DEF world
  <2>2. World'
    BY <1>0, <2>1 DEF World, Prey
  <2> QED BY <1>0, <2>1, <2>2 DEF Grown, Later
<1>2. ASSUME NEW r \in Runs, StartRun(r) PROVE World' /\ Grown
  <2>1. log' = log /\ judged' = judged /\ outcome' = [outcome EXCEPT ![r] = "open"]
        /\ outcome[r] = "none"
    BY <1>2 DEF StartRun
  <2>2. outcome' \in [Runs -> Outcomes]
    BY <1>0, <2>1 DEF Outcomes
  <2>3. World'
    BY <1>0, <2>1, <2>2 DEF World, Prey
  <2>4. \A x \in Runs : Later(outcome[x], outcome'[x])
    BY <1>0, <2>1 DEF Later
  <2> QED BY <1>0, <2>1, <2>3, <2>4 DEF Grown
<1>3. ASSUME NEW r \in Runs, AppendRow(r) PROVE World' /\ Grown
  <2>1. PICK type \in Types : log' = Append(log, [run |-> r, type |-> type])
    BY <1>3 DEF AppendRow
  <2>2. PICK row \in Row : row = [run |-> r, type |-> type]
    BY DEF Row
  <2>3. outcome' = outcome /\ judged' = judged /\ log' = Append(log, row)
    BY <1>3, <2>1, <2>2 DEF AppendRow
  <2>4. /\ log' \in Seq(Row) /\ Len(log') = Len(log) + 1
        /\ \A i \in 1..Len(log) : log'[i] = log[i]
    BY <1>0, <2>3
  <2>5. judged' \subseteq Prey(Len(log))'
    BY <1>0, <2>3, <2>4 DEF Prey
  <2>6. World'
    BY <1>0, <2>3, <2>4, <2>5 DEF World
  <2> QED BY <1>0, <2>3, <2>4, <2>6 DEF Grown, Later
<1>4. ASSUME NEW r \in Runs, FinishRun(r) PROVE World' /\ Grown
  <2>1. log' = log /\ judged' = judged /\ outcome' = [outcome EXCEPT ![r] = "completed"]
        /\ outcome[r] = "open"
    BY <1>4 DEF FinishRun, Closed
  <2>2. outcome' \in [Runs -> Outcomes]
    BY <1>0, <2>1 DEF Outcomes
  <2>3. World'
    BY <1>0, <2>1, <2>2 DEF World, Prey
  <2>4. \A x \in Runs : Later(outcome[x], outcome'[x])
    BY <1>0, <2>1 DEF Later
  <2> QED BY <1>0, <2>1, <2>3, <2>4 DEF Grown
<1>5. ASSUME NEW p \in Prey(Len(log)), OtherTab(p) \/ Click(p) PROVE World' /\ Grown
  <2>1. log' = log /\ outcome' = outcome /\ (judged' = judged \/ judged' = judged \cup {p})
    BY <1>5 DEF OtherTab, Click, Feast
  <2>2. judged' \subseteq Prey(Len(log))
    BY <1>0, <2>1
  <2>3. World'
    BY <1>0, <2>1, <2>2 DEF World, Prey
  <2> QED BY <1>0, <2>1, <2>3 DEF Grown, Later
<1>6. ASSUME NEW s \in DOMAIN fetches, Answer(s) PROVE UNCHANGED world
  BY <1>6 DEF Answer, ReadLog, ReadRuns, ReadFacts, ReadTiles, ReadCard, Paint, Read
<1>7. Page \/ Disconnect => UNCHANGED world
  BY DEF Page, Snapshot, SnapshotFrom, Connect, OnMessage, Receive, TimerFires, Clicked, Disconnect
<1>8. UNCHANGED vars => UNCHANGED world
  BY DEF vars
<1> QED BY <1>1, <1>2, <1>3, <1>4, <1>5, <1>6, <1>7, <1>8 DEF Next

-----------------------------------------------------------------------------
(* The frames on their way tell commits.                                   *)

Wired == /\ wire \in Seq(Frame) /\ \A i \in DOMAIN wire : wire[i] \in Committed
         /\ cursor \in 0..Len(log)

LEMMA CommittedIs ==
    /\ \A id \in DOMAIN log : Event(id) \in Committed
    /\ \A r \in Runs : outcome[r] = "completed" => Ended(r) \in Committed
    /\ \A p \in judged : Judged(p) \in Committed
    /\ \A f \in Committed : \/ \E id \in DOMAIN log : f = Event(id)
                            \/ \E r \in Runs : outcome[r] = "completed" /\ f = Ended(r)
                            \/ \E p \in judged : f = Judged(p)
BY DEF Committed, Closed

LEMMA CommittedKept ==
    ASSUME World, World', Grown
    PROVE  /\ \A f \in Committed : f \in Committed' /\ f \in Frame
           /\ \A id \in DOMAIN log' : Event(id) \in Committed'
           /\ \A r \in Runs : outcome'[r] = "completed" => Ended(r) \in Committed'
           /\ \A p \in judged' : Judged(p) \in Committed'
<1>1. /\ \A id \in DOMAIN log' : Event(id) \in Committed'
      /\ \A r \in Runs : outcome'[r] = "completed" => Ended(r) \in Committed'
      /\ \A p \in judged' : Judged(p) \in Committed'
  BY DEF Committed, Closed, Event, Ended, Judged
<1>2. PICK n \in Nat, m \in Nat : /\ n = Len(log) /\ DOMAIN log = 1..n /\ n <= m
                                  /\ m = Len(log') /\ DOMAIN log' = 1..m
  BY DEF World, Grown
<1>3. ASSUME NEW f \in Committed PROVE f \in Committed' /\ f \in Frame
  <2>1. CASE \E id \in DOMAIN log : f = Event(id)
    <3>1. PICK id \in DOMAIN log : f = Event(id)
      BY <2>1
    <3>2. id \in DOMAIN log' /\ id \in Nat
      BY <1>2
    <3> QED BY <1>1, <3>1, <3>2 DEF Event, Frame
  <2>2. CASE \E r \in Runs : outcome[r] = "completed" /\ f = Ended(r)
    <3>1. PICK r \in Runs : outcome[r] = "completed" /\ f = Ended(r)
      BY <2>2
    <3>2. outcome'[r] = "completed"
      BY <3>1 DEF Grown, Later
    <3> QED BY <1>1, <3>1, <3>2, RunsAreNumbers DEF Ended, Frame
  <2>3. CASE \E p \in judged : f = Judged(p)
    <3>1. PICK p \in judged : f = Judged(p)
      BY <2>3
    <3>2. p \in judged' /\ p \in 1..n
      BY <1>2 DEF Grown, World, Prey
    <3> QED BY <1>1, <3>1, <3>2 DEF Judged, Frame
  <2> QED BY <2>1, <2>2, <2>3, CommittedIs
<1> QED BY <1>1, <1>3

LEMMA WiredStep ==
    ASSUME World, Wired, [Next]_vars
    PROVE  Wired'
<1>w. World' /\ Grown
  BY WorldStep
<1>0. /\ wire \in Seq(Frame) /\ (\A i \in DOMAIN wire : wire[i] \in Committed)
      /\ cursor \in 0..Len(log) /\ Len(log) \in Nat /\ Len(log') \in Nat /\ Len(log) <= Len(log')
  BY <1>w DEF Wired, World, Grown
<1>c. cursor \in 0..Len(log')
  BY <1>0
<1>k. /\ \A f \in Committed : f \in Committed' /\ f \in Frame
      /\ \A id \in DOMAIN log' : Event(id) \in Committed'
      /\ \A r \in Runs : outcome'[r] = "completed" => Ended(r) \in Committed'
      /\ \A p \in judged' : Judged(p) \in Committed'
  BY <1>w, CommittedKept
<1>1. ASSUME wire' = wire, cursor' = cursor PROVE Wired'
  BY <1>0, <1>c, <1>k, <1>1 DEF Wired
<1>2. ASSUME NEW f \in Frame, f \in Committed', wire' = Append(wire, f), cursor' = cursor
      PROVE  Wired'
  <2>1. PICK n \in Nat : n = Len(wire) /\ DOMAIN wire = 1..n
    BY <1>0
  <2>2. /\ wire' \in Seq(Frame) /\ DOMAIN wire' = 1..(n + 1)
        /\ wire'[n + 1] = f /\ \A i \in 1..n : wire'[i] = wire[i]
    BY <1>0, <1>2, <2>1
  <2>3. \A i \in 1..(n + 1) : i \in 1..n \/ i = n + 1
    OBVIOUS
  <2>4. \A i \in DOMAIN wire' : wire'[i] \in Committed'
    BY <1>0, <1>2, <1>k, <2>1, <2>2, <2>3
  <2> QED BY <1>2, <1>c, <2>2, <2>4 DEF Wired
<1>3. ASSUME NEW f \in Frame, f \in Committed', Send(f), cursor' = cursor
      PROVE  Wired'
  BY <1>1, <1>2, <1>3 DEF Send
<1>4. ASSUME NEW r \in Runs, StartRun(r) PROVE Wired'
  BY <1>1, <1>4 DEF StartRun, stream
<1>5. ASSUME NEW r \in Runs, AppendRow(r) PROVE Wired'
  <2>1. PICK f : f = Event(Len(log) + 1)
    OBVIOUS
  <2>2. Len(log) + 1 \in DOMAIN log'
    BY <1>0, <1>5 DEF AppendRow, World
  <2>3. f \in Frame /\ f \in Committed'
    BY <1>0, <1>k, <2>1, <2>2 DEF Event, Frame
  <2> QED BY <1>3, <1>5, <2>1, <2>3 DEF AppendRow
<1>6. ASSUME NEW r \in Runs, FinishRun(r) PROVE Wired'
  <2>1. PICK f : f = Ended(r)
    OBVIOUS
  <2>2. outcome'[r] = "completed"
    BY <1>6 DEF FinishRun, World, Closed
  <2>3. f \in Frame /\ f \in Committed'
    BY <1>k, <2>1, <2>2, RunsAreNumbers DEF Ended, Frame
  <2> QED BY <1>3, <1>6, <2>1, <2>3 DEF FinishRun
<1>7. ASSUME NEW p \in Prey(Len(log)), OtherTab(p) \/ Click(p) PROVE Wired'
  <2>1. Feast(p) /\ cursor' = cursor
    BY <1>7 DEF OtherTab, Click
  <2>2. CASE p \in judged
    BY <1>1, <2>1, <2>2 DEF Feast
  <2>3. CASE p \notin judged
    <3>1. PICK f : f = Judged(p)
      OBVIOUS
    <3>2. Send(f) /\ p \in judged' /\ p \in Nat
      BY <1>0, <2>1, <2>3, <3>1 DEF Feast, Prey
    <3>3. f \in Frame /\ f \in Committed'
      BY <1>k, <3>1, <3>2 DEF Judged, Frame
    <3> QED BY <1>3, <2>1, <3>2, <3>3
  <2> QED BY <2>2, <2>3
<1>8. ASSUME NEW s \in DOMAIN fetches, Answer(s) PROVE Wired'
  BY <1>1, <1>8 DEF Answer, ReadLog, ReadRuns, ReadFacts, ReadTiles, ReadCard, Paint, Read, stream
<1>9. CASE TimerFires \/ Clicked \/ UNCHANGED vars
  BY <1>1, <1>9 DEF TimerFires, Clicked, vars, stream
<1>10. CASE Snapshot
  <2>1. wire' = wire /\ cursor' = Len(log) /\ log' = log
    BY <1>10 DEF Snapshot, SnapshotFrom, world
  <2> QED BY <1>0, <1>k, <2>1 DEF Wired
<1>11. CASE Connect
  <2>1. /\ wire' = [i \in 1..(Len(log) - cursor) |-> Event(cursor + i)]
        /\ cursor' = cursor /\ log' = log
    BY <1>11 DEF Connect, world
  <2>2. PICK n \in Nat : n = Len(log) - cursor
    <3>1. PICK len \in Nat : len = Len(log) /\ cursor \in 0..len
      BY <1>0
    <3>2. len - cursor \in Nat
      BY <3>1
    <3> QED BY <3>1, <3>2
  <2>3. ASSUME NEW i \in 1..n PROVE wire'[i] \in Committed' /\ wire'[i] \in Frame
    <3>1. PICK id \in Nat : id = cursor + i /\ id \in DOMAIN log'
      BY <1>0, <2>1, <2>2 DEF World
    <3>2. wire'[i] = Event(id)
      BY <2>1, <2>2, <3>1
    <3> QED BY <1>k, <3>1, <3>2 DEF Event, Frame
  <2>4. wire' \in Seq(Frame) /\ DOMAIN wire' = 1..n
    <3>1. wire' \in [1..n -> Frame]
      BY <2>1, <2>2, <2>3
    <3> QED BY <3>1
  <2> QED BY <1>c, <2>1, <2>3, <2>4 DEF Wired
<1>12. CASE Disconnect
  <2>1. wire' = <<>> /\ cursor' = cursor
    BY <1>12 DEF Disconnect
  <2>2. wire' \in Seq(Frame) /\ DOMAIN wire' = {}
    BY <2>1
  <2> QED BY <1>c, <2>1, <2>2 DEF Wired
<1>13. CASE OnMessage
  <2>1. /\ wire # <<>> /\ wire' = Tail(wire) /\ log' = log
        /\ cursor' = IF Head(wire)[1] = "event" THEN Head(wire)[2] ELSE cursor
    BY <1>13 DEF OnMessage, Receive, world
  <2>2. PICK n \in Nat : n = Len(wire) /\ DOMAIN wire = 1..n /\ n >= 1
    BY <1>0, <2>1
  <2>3. /\ wire' \in Seq(Frame) /\ DOMAIN wire' = 1..(n - 1)
        /\ \A i \in 1..(n - 1) : wire'[i] = wire[i + 1]
    BY <1>0, <2>1, <2>2
  <2>4. ASSUME NEW i \in DOMAIN wire' PROVE wire'[i] \in Committed'
    <3>1. i \in 1..(n - 1) /\ i + 1 \in 1..n
      BY <2>2, <2>3
    <3>2. wire[i + 1] \in Committed
      BY <1>0, <2>2, <3>1
    <3> QED BY <1>k, <2>3, <3>1, <3>2
  <2>5. PICK f : f = Head(wire) /\ f \in Committed
    BY <1>0, <2>1, <2>2
  <2>6. f[1] = "event" => f[2] \in 1..Len(log)
    <3>1. \A id : Event(id)[2] = id
      BY DEF Event
    <3>2. \A r : Ended(r)[1] # "event" /\ Judged(r)[1] # "event"
      BY DEF Ended, Judged
    <3>3. DOMAIN log = 1..Len(log)
      BY DEF World
    <3> QED BY <2>5, <3>1, <3>2, <3>3, CommittedIs
  <2>7. cursor' \in 0..Len(log')
    BY <1>0, <2>1, <2>5, <2>6
  <2> QED BY <2>3, <2>4, <2>7 DEF Wired
<1> QED BY <1>4, <1>5, <1>6, <1>7, <1>8, <1>9, <1>10, <1>11, <1>12, <1>13 DEF Next, Page

-----------------------------------------------------------------------------
(* The page.                                                               *)

Paged == /\ stage \in {"load", "snapshot", "open"} /\ link \in {"none", "down", "up"}
         /\ timer \in BOOLEAN /\ posting \in BOOLEAN
         /\ excused \in BOOLEAN /\ disconnects \in 0..MaxDisconnects

LEMMA PagedStep ==
    ASSUME Paged, [Next]_vars
    PROVE  Paged'
<1>0. /\ stage \in {"load", "snapshot", "open"} /\ link \in {"none", "down", "up"}
      /\ timer \in BOOLEAN /\ posting \in BOOLEAN
      /\ excused \in BOOLEAN /\ disconnects \in 0..MaxDisconnects
  BY DEF Paged
<1>b. MaxDisconnects \in Nat
  BY BoardAssumption
<1>1. ASSUME NEW r \in Runs, StartRun(r) PROVE Paged'
  BY <1>0, <1>1 DEF StartRun, stream, Paged
<1>s. ASSUME NEW f, Send(f) PROVE excused' \in BOOLEAN
  BY <1>0, <1>s DEF Send
<1>2. ASSUME NEW r \in Runs, AppendRow(r) \/ FinishRun(r) PROVE Paged'
  <2>1. /\ stage' = stage /\ link' = link /\ timer' = timer /\ posting' = posting
        /\ disconnects' = disconnects
    BY <1>2 DEF AppendRow, FinishRun
  <2>2. excused' \in BOOLEAN
    BY <1>2, <1>s DEF AppendRow, FinishRun
  <2> QED BY <1>0, <2>1, <2>2 DEF Paged
<1>3. ASSUME NEW p, OtherTab(p) \/ Click(p) PROVE Paged'
  <2>1. /\ stage' = stage /\ link' = link /\ timer' = timer /\ posting' \in BOOLEAN
        /\ disconnects' = disconnects
    BY <1>0, <1>3 DEF OtherTab, Click
  <2>2. excused' \in BOOLEAN
    <3>1. Feast(p)
      BY <1>3 DEF OtherTab, Click
    <3>2. excused' = excused \/ Send(Judged(p))
      BY <3>1 DEF Feast
    <3> QED BY <1>0, <1>s, <3>2
  <2> QED BY <1>0, <2>1, <2>2 DEF Paged
<1>4. ASSUME NEW s \in DOMAIN fetches, Answer(s) PROVE Paged'
  <2>1. CASE Paint(s)
    BY <1>0, <2>1 DEF Paint, Paged
  <2>2. CASE ~Paint(s)
    <3>1. Read
      BY <1>4, <2>2 DEF Answer, ReadLog, ReadRuns, ReadFacts, ReadTiles, ReadCard
    <3> QED BY <1>0, <3>1 DEF Read, stream, Paged
  <2> QED BY <2>1, <2>2
<1>5. CASE Page
  <2>1. CASE Snapshot
    BY <1>0, <2>1 DEF Snapshot, SnapshotFrom, Paged
  <2>2. CASE Connect \/ OnMessage
    BY <1>0, <2>2 DEF Connect, OnMessage, Receive, Paged
  <2>3. CASE TimerFires \/ Clicked
    BY <1>0, <2>3 DEF TimerFires, Clicked, stream, Paged
  <2> QED BY <1>5, <2>1, <2>2, <2>3 DEF Page
<1>6. CASE Disconnect
  <2>1. disconnects' \in 0..MaxDisconnects
    BY <1>0, <1>b, <1>6 DEF Disconnect
  <2>2. /\ stage' = stage /\ link' = "down" /\ timer' = timer /\ posting' = posting
        /\ excused' \in BOOLEAN
    BY <1>0, <1>6 DEF Disconnect
  <2> QED BY <1>0, <2>1, <2>2 DEF Paged
<1>7. CASE UNCHANGED vars
  BY <1>0, <1>7 DEF vars, stream, Paged
<1> QED BY <1>1, <1>2, <1>3, <1>4, <1>5, <1>6, <1>7 DEF Next

-----------------------------------------------------------------------------
(* The requests under way, and what each of them has read.                 *)

\* What a request has read of the log l and the outcomes o, by its stage:
\* the runs of its rows had started when it came to the cards, and a run
\* has not gone back when it comes to the tiles.
Through(f, l, o) ==
    /\ f.log <= Len(l)
    /\ f.at \in {"tiles", "pen"} =>
          /\ f.facts \in [Runs -> Outcomes]
          /\ \A id \in 1..f.log : f.facts[l[id].run] # "none"
          /\ \A r \in Runs : Later(f.facts[r], o[r])
    /\ f.at = "pen" =>
          /\ f.tiles \in [Runs -> Outcomes]
          /\ \A r \in Runs : Later(f.facts[r], f.tiles[r])

Fetching == /\ fetches \in Seq(ViewState)
            /\ \A s \in DOMAIN fetches : Through(fetches[s], log, outcome)
            /\ painted # <<>> => /\ painted \in ViewState /\ painted.at = "pen"
                                 /\ Through(painted, log, outcome)
            /\ \A id \in DOMAIN log : outcome[log[id].run] # "none"

LEMMA RunsOfRows ==
    ASSUME World
    PROVE  \A id \in 1..Len(log) : log[id].run \in Runs /\ log[id].type \in Types
<1> SUFFICES ASSUME NEW id \in 1..Len(log) PROVE log[id].run \in Runs /\ log[id].type \in Types
  OBVIOUS
<1>1. log[id] \in Row
  BY DEF World
<1> QED BY <1>1 DEF Row

LEMMA ThroughKept ==
    ASSUME World, World', Grown, NEW f \in ViewState, Through(f, log, outcome)
    PROVE  Through(f, log', outcome')
<1>0. PICK n \in Nat, m \in Nat : n = Len(log) /\ m = Len(log') /\ n <= m
                                  /\ \A i \in 1..n : log'[i] = log[i]
  BY DEF World, Grown
<1>1. f.log \in Nat /\ f.log <= n /\ f.log <= m
  BY <1>0 DEF ViewState, Through
<1>2. ASSUME f.at \in {"tiles", "pen"}
      PROVE  /\ f.facts \in [Runs -> Outcomes]
             /\ \A id \in 1..f.log : f.facts[log'[id].run] # "none"
             /\ \A r \in Runs : Later(f.facts[r], outcome'[r])
  <2>1. f.facts \in [Runs -> Outcomes] /\ \A r \in Runs : Later(f.facts[r], outcome[r])
    BY <1>2 DEF Through
  <2>2. \A id \in 1..f.log : f.facts[log[id].run] # "none"
    BY <1>2 DEF Through
  <2>3. \A id \in 1..f.log : log'[id] = log[id]
    BY <1>0, <1>1
  <2>4. \A r \in Runs : Later(outcome[r], outcome'[r])
    BY DEF Grown
  <2>5. \A r \in Runs : Later(f.facts[r], outcome'[r])
    BY <2>1, <2>4 DEF Later
  <2> QED BY <2>1, <2>2, <2>3, <2>5
<1>3. f.at = "pen" => /\ f.tiles \in [Runs -> Outcomes]
                      /\ \A r \in Runs : Later(f.facts[r], f.tiles[r])
  BY DEF Through
<1> QED BY <1>0, <1>1, <1>2, <1>3 DEF Through

LEMMA StartedKept ==
    ASSUME World, Grown, \A id \in DOMAIN log : outcome[log[id].run] # "none", log' = log
    PROVE  \A id \in DOMAIN log' : outcome'[log'[id].run] # "none"
<1>1. \A id \in DOMAIN log : log[id].run \in Runs
  <2>1. DOMAIN log = 1..Len(log)
    BY DEF World
  <2> QED BY <2>1, RunsOfRows
<1>2. \A r \in Runs : outcome[r] # "none" => outcome'[r] # "none"
  BY DEF Grown, Later
<1> QED BY <1>1, <1>2

\* Nothing is painted and no request moves, or one more is sent.
LEMMA Unread0 ==
    ASSUME World, World', Grown, Fetching, painted' = painted,
           fetches' = fetches \/ fetches' = Append(fetches, Sent),
           \A id \in DOMAIN log' : outcome'[log'[id].run] # "none"
    PROVE  Fetching'
<1>1. /\ fetches \in Seq(ViewState)
      /\ \A s \in DOMAIN fetches : Through(fetches[s], log, outcome)
      /\ painted # <<>> => /\ painted \in ViewState /\ painted.at = "pen"
                           /\ Through(painted, log, outcome)
  BY DEF Fetching
<1>2. painted' # <<>> => /\ painted' \in ViewState /\ painted'.at = "pen"
                         /\ Through(painted', log', outcome')
  BY <1>1, ThroughKept
<1>3. PICK n \in Nat : n = Len(fetches) /\ DOMAIN fetches = 1..n
                       /\ \A s \in 1..n : fetches[s] \in ViewState
  BY <1>1
<1>4. \A s \in 1..n : Through(fetches[s], log', outcome')
  BY <1>1, <1>3, ThroughKept
<1>5. PICK new : new = Sent
  OBVIOUS
<1>6. new \in ViewState
  <2>1. <<>> \in Seq({"feasted", "awaiting_verdict"}) /\ <<>> \in Tables
    BY DEF Tables
  <2> QED BY <1>5, <2>1 DEF Sent, ViewState
<1>7. Through(new, log', outcome')
  <2>1. new.at = "log" /\ new.log = 0
    BY <1>5 DEF Sent
  <2>2. Len(log') \in Nat
    BY DEF World
  <2> QED BY <2>1, <2>2 DEF Through
<1>8. CASE fetches' = fetches
  BY <1>1, <1>2, <1>3, <1>4, <1>8 DEF Fetching
<1>9. CASE fetches' = Append(fetches, Sent)
  <2>1. /\ fetches' \in Seq(ViewState) /\ DOMAIN fetches' = 1..(n + 1)
        /\ fetches'[n + 1] = new /\ \A s \in 1..n : fetches'[s] = fetches[s]
    BY <1>1, <1>3, <1>5, <1>6, <1>9
  <2>2. \A s \in 1..(n + 1) : s \in 1..n \/ s = n + 1
    OBVIOUS
  <2>3. \A s \in DOMAIN fetches' : Through(fetches'[s], log', outcome')
    BY <1>4, <1>7, <2>1, <2>2
  <2> QED BY <1>2, <2>1, <2>3 DEF Fetching
<1> QED BY <1>8, <1>9

\* One request reads on.
LEMMA ReadOn ==
    ASSUME World, Fetching, Read, NEW s \in DOMAIN fetches,
           NEW f \in ViewState, Through(f, log, outcome), fetches' = [fetches EXCEPT ![s] = f]
    PROVE  Fetching'
<1>1. /\ fetches \in Seq(ViewState)
      /\ \A i \in DOMAIN fetches : Through(fetches[i], log, outcome)
      /\ painted # <<>> => /\ painted \in ViewState /\ painted.at = "pen"
                           /\ Through(painted, log, outcome)
      /\ \A id \in DOMAIN log : outcome[log[id].run] # "none"
  BY DEF Fetching
<1>2. log' = log /\ outcome' = outcome /\ painted' = painted
  BY DEF Read, world
<1>3. /\ fetches' \in Seq(ViewState) /\ DOMAIN fetches' = DOMAIN fetches
      /\ \A i \in DOMAIN fetches : fetches'[i] = IF i = s THEN f ELSE fetches[i]
  BY <1>1
<1>4. \A i \in DOMAIN fetches' : Through(fetches'[i], log', outcome')
  BY <1>1, <1>2, <1>3
<1> QED BY <1>1, <1>2, <1>3, <1>4 DEF Fetching

LEMMA AnswerStep ==
    ASSUME World, Fetching, NEW s \in DOMAIN fetches, Answer(s)
    PROVE  Fetching'
<1>0. /\ fetches \in Seq(ViewState) /\ fetches[s] \in ViewState
      /\ Through(fetches[s], log, outcome)
      /\ \A id \in DOMAIN log : outcome[log[id].run] # "none"
  BY DEF Fetching
<1>f. PICK f \in ViewState : f = fetches[s]
  BY <1>0
<1>r. /\ f.at \in {"log", "facts", "tiles", "pen"} /\ f.log \in Nat /\ f.facts \in Tables
      /\ f.tiles \in Tables /\ f.pen \in Seq({"feasted", "awaiting_verdict"})
  BY DEF ViewState
<1>w. /\ log \in Seq(Row) /\ outcome \in [Runs -> Outcomes] /\ outcome \in Tables
      /\ Len(log) \in Nat
  BY DEF World, Tables
<1>1. CASE ReadLog(s)
  <2>1. PICK g : g = [f EXCEPT !.log = Len(log), !.at = "facts"]
    OBVIOUS
  <2>2. fetches' = [fetches EXCEPT ![s] = g] /\ Read
    BY <1>f, <1>1, <2>1 DEF ReadLog
  <2>f. g.at = "facts" /\ g.log = Len(log)
    BY <2>1 DEF ViewState
  <2>3. g \in ViewState
    BY <1>r, <1>w, <2>1 DEF ViewState
  <2>4. Through(g, log, outcome)
    BY <1>w, <2>f DEF Through
  <2> QED BY <2>2, <2>3, <2>4, ReadOn
<1>2. CASE ReadFacts(s, "facts", "tiles")
  <2>1. PICK g : g = [f EXCEPT !.facts = outcome, !.at = "tiles"]
    OBVIOUS
  <2>2. fetches' = [fetches EXCEPT ![s] = g] /\ Read
    BY <1>f, <1>2, <2>1 DEF ReadFacts
  <2>f. g.at = "tiles" /\ g.log = f.log /\ g.facts = outcome
    BY <2>1 DEF ViewState
  <2>3. g \in ViewState
    BY <1>r, <1>w, <2>1 DEF ViewState
  <2>4. g.log <= Len(log)
    BY <1>0, <1>f, <2>f DEF Through
  <2>5. \A id \in 1..g.log : outcome[log[id].run] # "none"
    BY <1>0, <1>r, <1>w, <2>f, <2>4
  <2>6. \A r \in Runs : Later(outcome[r], outcome[r])
    BY DEF Later
  <2>7. Through(g, log, outcome)
    BY <1>w, <2>f, <2>4, <2>5, <2>6 DEF Through
  <2> QED BY <2>2, <2>3, <2>7, ReadOn
<1>3. CASE ReadTiles(s, "tiles", "pen")
  <2>1. PICK g : g = [f EXCEPT !.tiles = outcome, !.at = "pen"]
    OBVIOUS
  <2>2. fetches' = [fetches EXCEPT ![s] = g] /\ Read
    BY <1>f, <1>3, <2>1 DEF ReadTiles
  <2>f. g.at = "pen" /\ g.log = f.log /\ g.facts = f.facts /\ g.tiles = outcome
    BY <2>1 DEF ViewState
  <2>3. g \in ViewState
    BY <1>r, <1>w, <2>1 DEF ViewState
  <2>4. f.at = "tiles"
    BY <1>f, <1>3 DEF ReadTiles, Reading
  <2>5. Through(g, log, outcome)
    BY <1>0, <1>f, <1>w, <2>f, <2>4 DEF Through
  <2> QED BY <2>2, <2>3, <2>5, ReadOn
<1>4. CASE ReadCard(s)
  <2>1. PICK mark \in {"feasted", "awaiting_verdict"} :
            fetches' = [fetches EXCEPT ![s].pen = Append(@, mark)]
    <3>1. PICK p : p = Project(fetches[s].log).pen[Len(fetches[s].pen) + 1]
      OBVIOUS
    <3>2. fetches' = [fetches EXCEPT ![s].pen =
                        Append(@, IF p \in judged THEN "feasted" ELSE "awaiting_verdict")]
      BY <1>4, <3>1 DEF ReadCard
    <3> QED BY <3>2
  <2>2. PICK g : g = [f EXCEPT !.pen = Append(@, mark)]
    OBVIOUS
  <2>3. fetches' = [fetches EXCEPT ![s] = g] /\ Read
    <3>1. Read
      BY <1>4 DEF ReadCard
    <3>2. fetches' = [fetches EXCEPT ![s] = g]
      BY <1>f, <2>1, <2>2
    <3> QED BY <3>1, <3>2
  <2>f. g.at = f.at /\ g.log = f.log /\ g.facts = f.facts /\ g.tiles = f.tiles
    BY <2>2 DEF ViewState
  <2>4. g \in ViewState
    <3>1. Append(f.pen, mark) \in Seq({"feasted", "awaiting_verdict"})
      BY <1>r
    <3>2. g = [f EXCEPT !.pen = Append(f.pen, mark)]
      BY <2>2 DEF ViewState
    <3> QED BY <3>1, <3>2 DEF ViewState
  <2>5. Through(g, log, outcome)
    BY <1>0, <1>f, <2>f DEF Through
  <2> QED BY <2>3, <2>4, <2>5, ReadOn
<1>5. CASE Paint(s)
  <2>1. /\ f.at = "pen" /\ painted' = f /\ fetches' = RemoveAt(fetches, s)
        /\ log' = log /\ outcome' = outcome
    BY <1>f, <1>5 DEF Paint, Reading, world
  <2>2. PICK rest : rest = RemoveAt(fetches, s)
    OBVIOUS
  <2>3. /\ rest \in Seq(ViewState)
        /\ \A i \in 1..Len(rest) : \E j \in 1..Len(fetches) : rest[i] = fetches[j]
    <3>1. s \in 1..Len(fetches)
      BY <1>0
    <3> QED BY <1>0, <2>2, <3>1, Removed
  <2>4. \A i \in DOMAIN rest : Through(rest[i], log, outcome)
    <3>1. DOMAIN rest = 1..Len(rest) /\ DOMAIN fetches = 1..Len(fetches)
      BY <1>0, <2>3
    <3>2. \A i \in DOMAIN fetches : Through(fetches[i], log, outcome)
      BY DEF Fetching
    <3> QED BY <2>3, <3>1, <3>2
  <2>5. Through(f, log, outcome)
    BY <1>0, <1>f
  <2> QED BY <1>0, <2>1, <2>2, <2>3, <2>4, <2>5 DEF Fetching
<1> QED BY <1>1, <1>2, <1>3, <1>4, <1>5 DEF Answer, ReadRuns

LEMMA FetchingStep ==
    ASSUME World, Fetching, [Next]_vars
    PROVE  Fetching'
<1>w. World' /\ Grown
  BY WorldStep
<1>0. \A id \in DOMAIN log : outcome[log[id].run] # "none"
  BY DEF Fetching
<1>s. log' = log => \A id \in DOMAIN log' : outcome'[log'[id].run] # "none"
  BY <1>w, <1>0, StartedKept
<1>1. ASSUME NEW r \in Runs, StartRun(r) \/ FinishRun(r) PROVE Fetching'
  <2>1. log' = log /\ painted' = painted /\ fetches' = fetches
    BY <1>1 DEF StartRun, FinishRun
  <2> QED BY <1>w, <1>s, <2>1, Unread0
<1>2. ASSUME NEW r \in Runs, AppendRow(r) PROVE Fetching'
  <2>1. /\ painted' = painted /\ fetches' = fetches /\ outcome' = outcome /\ outcome[r] = "open"
    BY <1>2 DEF AppendRow
  <2>2. PICK type \in Types : log' = Append(log, [run |-> r, type |-> type])
    BY <1>2 DEF AppendRow
  <2>3. PICK row \in Row : row = [run |-> r, type |-> type]
    BY DEF Row
  <2>r. row.run = r
    BY <2>3
  <2>4. PICK n \in Nat : n = Len(log) /\ DOMAIN log = 1..n
    BY DEF World
  <2>5. /\ DOMAIN log' = 1..(n + 1) /\ log'[n + 1] = row /\ \A id \in 1..n : log'[id] = log[id]
    BY <2>2, <2>3, <2>4 DEF World
  <2>6. \A id \in 1..(n + 1) : id \in 1..n \/ id = n + 1
    OBVIOUS
  <2>7. \A id \in DOMAIN log' : outcome'[log'[id].run] # "none"
    BY <1>0, <2>1, <2>r, <2>4, <2>5, <2>6
  <2> QED BY <1>w, <2>1, <2>7, Unread0
<1>3. ASSUME NEW p, OtherTab(p) \/ Click(p) PROVE Fetching'
  <2>1. log' = log /\ painted' = painted /\ fetches' = fetches
    BY <1>3 DEF OtherTab, Click
  <2> QED BY <1>w, <1>s, <2>1, Unread0
<1>4. ASSUME NEW s \in DOMAIN fetches, Answer(s) PROVE Fetching'
  BY <1>4, AnswerStep
<1>5. CASE TimerFires \/ Clicked
  <2>1. log' = log /\ painted' = painted /\ fetches' = Append(fetches, Sent)
    BY <1>5 DEF TimerFires, Clicked, Fetch, world
  <2> QED BY <1>w, <1>s, <2>1, Unread0
<1>6. CASE Snapshot \/ Connect \/ OnMessage \/ Disconnect \/ UNCHANGED vars
  <2>1. log' = log /\ painted' = painted /\ fetches' = fetches
    BY <1>6 DEF Snapshot, SnapshotFrom, Connect, OnMessage, Receive, Disconnect, vars, world
  <2> QED BY <1>w, <1>s, <2>1, Unread0
<1> QED BY <1>1, <1>2, <1>3, <1>4, <1>5, <1>6 DEF Next, Page

-----------------------------------------------------------------------------
(* The runs a projection knows are those of the rows it was folded from.   *)

LEMMA KnownRuns ==
    ASSUME NEW R, NEW rows \in Seq(LogRow(R))
    PROVE  /\ Fold(rows) \in Projection(R)
           /\ \A r \in DOMAIN Fold(rows).runs : \E i \in 1..Len(rows) : rows[i].run = r
<1>0. PICK n \in Nat : n = Len(rows) /\ DOMAIN rows = 1..n
  OBVIOUS
<1>1. Accumulator \in Projection(R)
  BY AccumulatorType
<1>2. FoldsInto(Fold(rows), Projection(R), Accumulator, RowStep(R), rows)
  BY <1>1, ViewRuns DEF Fold
<1>3. PICK h : /\ Running(h, Projection(R), Accumulator, RowStep(R), rows)
               /\ h[n] = Fold(rows)
  BY <1>0, <1>2 DEF FoldsInto
<1> DEFINE Known(k) == \A r \in DOMAIN h[k].runs : \E i \in 1..k : rows[i].run = r
           S == {k \in Nat : k <= n => Known(k)}
<1>4. 0 \in S
  <2>1. PICK none : none = <<>>
    OBVIOUS
  <2>2. DOMAIN none = {} /\ h[0].runs = none
    BY <1>3, <2>1 DEF Running, Accumulator
  <2> QED BY <2>2
<1>5. ASSUME NEW k \in S PROVE k + 1 \in S
  <2> SUFFICES ASSUME k + 1 <= n PROVE Known(k + 1)
    OBVIOUS
  <2>1. k \in 0..(n - 1) /\ k \in 0..n /\ k + 1 \in 1..n /\ Known(k)
    BY <1>0
  <2> HIDE DEF S
  <2>2. PICK acc \in Projection(R) : acc = h[k]
    BY <1>0, <1>3, <2>1 DEF Running
  <2>3. PICK row \in LogRow(R) : row = rows[k + 1]
    BY <1>0, <2>1
  <2>4. h[k + 1] = Step(acc, row)
    <3>1. h[k + 1] = RowStep(R)[<<acc, row>>]
      BY <1>0, <1>3, <2>1, <2>2, <2>3 DEF Running
    <3> QED BY <3>1, StepIsRowStep
  <2>5. \A i \in 1..k : i \in 1..(k + 1)
    BY <2>1
  <2>6. k + 1 \in 1..(k + 1)
    BY <2>1
  <2>7. acc.highWater \in Nat /\ row.id \in Nat
    BY DEF Projection, LogRow
  <2>8. CASE row.id <= acc.highWater
    <3>1. h[k + 1] = h[k]
      BY <2>2, <2>4, <2>8, StepIs
    <3> QED BY <2>1, <2>5, <3>1
  <2>9. CASE ~(row.id <= acc.highWater)
    <3>1. row.id > acc.highWater
      BY <2>7, <2>9
    <3>2. DOMAIN h[k + 1].runs = DOMAIN acc.runs \cup {row.run}
      <4>1. Moved(Step(acc, row), acc, row)
        BY <3>1, StepIs
      <4> QED BY <2>4, <4>1 DEF Moved
    <3> QED BY <2>1, <2>2, <2>3, <2>5, <2>6, <3>2
  <2> QED BY <2>8, <2>9
<1>6. S = Nat
  <2>1. S \in SUBSET Nat
    OBVIOUS
  <2> HIDE DEF S
  <2> QED BY <1>4, <1>5, <2>1, NatSetInduction
<1>7. Known(n)
  BY <1>6
<1>8. Fold(rows) \in Projection(R)
  BY <1>2, FoldType
<1> QED BY <1>0, <1>3, <1>7, <1>8

LEMMA ProjectedRuns ==
    ASSUME World, NEW n \in Nat, n <= Len(log)
    PROVE  \A r \in DOMAIN Project(n).runs : r \in Runs /\ \E id \in 1..n : log[id].run = r
<1>1. PICK rows : rows = [id \in 1..n |-> [id |-> id, run |-> log[id].run, type |-> log[id].type,
                                           tool |-> None, cost |-> 0]]
  OBVIOUS
<1>2. ASSUME NEW id \in 1..n
      PROVE  rows[id] \in LogRow(Runs) /\ rows[id].run = log[id].run /\ log[id].run \in Runs
  <2>1. id \in 1..Len(log) /\ id \in Nat
    BY DEF World
  <2>2. log[id].run \in Runs /\ log[id].type \in RowTypes
    BY <2>1, RunsOfRows, BoardAssumption DEF RowTypes
  <2>3. None \in Labels
    BY DEF Labels
  <2>4. PICK run \in Runs, type \in RowTypes : run = log[id].run /\ type = log[id].type
    BY <2>2
  <2>5. rows[id] = [id |-> id, run |-> run, type |-> type, tool |-> None, cost |-> 0]
    BY <1>1, <2>4
  <2>6. [id |-> id, run |-> run, type |-> type, tool |-> None, cost |-> 0] \in LogRow(Runs)
    BY <2>1, <2>3 DEF LogRow
  <2> QED BY <2>4, <2>5, <2>6
<1>3. rows \in Seq(LogRow(Runs)) /\ Len(rows) = n
  <2>1. rows \in [1..n -> LogRow(Runs)]
    BY <1>1, <1>2
  <2> QED BY <2>1
<1>4. Project(n) = Fold(rows)
  BY <1>1 DEF Project
<1>5. \A r \in DOMAIN Fold(rows).runs : \E i \in 1..n : rows[i].run = r
  BY <1>3, KnownRuns
<1> QED BY <1>2, <1>4, <1>5

-----------------------------------------------------------------------------
(* The inductive invariant of the page and its store.                      *)
BoardInv == World /\ Wired /\ Paged /\ Fetching

LEMMA InitBoard == Init => BoardInv
<1> SUFFICES ASSUME Init PROVE BoardInv
  OBVIOUS
<1>0. /\ log = <<>> /\ outcome = [r \in Runs |-> "none"] /\ judged = {}
      /\ stage = "load" /\ link = "none" /\ wire = <<>> /\ cursor = 0
      /\ timer = FALSE /\ posting = FALSE /\ fetches = <<Sent>> /\ painted = <<>>
      /\ excused = FALSE /\ disconnects = 0
  BY DEF Init
<1>1. World
  BY <1>0 DEF World, Outcomes
<1>2. Wired
  <2>1. DOMAIN wire = {} /\ Len(log) = 0 /\ wire \in Seq(Frame)
    BY <1>0
  <2> QED BY <1>0, <2>1 DEF Wired
<1>3. Paged
  <2>1. timer \in BOOLEAN /\ posting \in BOOLEAN /\ excused \in BOOLEAN
    BY <1>0
  <2>2. disconnects \in 0..MaxDisconnects
    BY <1>0, BoardAssumption
  <2> QED BY <1>0, <2>1, <2>2 DEF Paged
<1>4. Fetching
  <2>1. PICK new : new = Sent
    OBVIOUS
  <2>2. new \in ViewState
    <3>1. <<>> \in Seq({"feasted", "awaiting_verdict"}) /\ <<>> \in Tables
      BY DEF Tables
    <3> QED BY <2>1, <3>1 DEF Sent, ViewState
  <2>3. Through(new, log, outcome)
    <3>1. new.at = "log" /\ new.log = 0 /\ Len(log) = 0
      BY <1>0, <2>1 DEF Sent
    <3> QED BY <3>1 DEF Through
  <2>4. fetches = <<new>> /\ DOMAIN log = {}
    BY <1>0, <2>1
  <2>5. fetches \in Seq(ViewState) /\ DOMAIN fetches = {1} /\ fetches[1] = new
    BY <2>2, <2>4
  <2> QED BY <1>0, <2>3, <2>4, <2>5 DEF Fetching
<1> QED BY <1>1, <1>2, <1>3, <1>4 DEF BoardInv

(* The page's inductive invariant: however frames, fetches, reconnects and *)
(* commits overlap, what a fetch has read and what a page shows are states *)
(* the store was in, in the order of its statements.                       *)
THEOREM BoardInvariant == Spec => []BoardInv
<1>1. BoardInv /\ [Next]_vars => BoardInv'
  BY WorldStep, WiredStep, PagedStep, FetchingStep DEF BoardInv
<1> QED BY <1>1, InitBoard, PTL DEF Spec

(* The values every variable of the page ranges over; every frame on its   *)
(* way tells something committed.                                          *)
THEOREM BoardTypes == Spec => []TypeOK
<1>1. BoardInv => TypeOK
  <2> SUFFICES ASSUME BoardInv PROVE TypeOK
    OBVIOUS
  <2>1. log \in Seq([run : Runs, type : Types]) /\ judged \subseteq Prey(Len(log))
    BY DEF BoardInv, World, Row
  <2>2. outcome \in [Runs -> {"none", "open"} \cup Closed]
    <3>1. {"none", "open"} \cup Closed = Outcomes
      BY DEF Closed, Outcomes
    <3> QED BY <3>1 DEF BoardInv, World
  <2>3. \A s \in DOMAIN fetches : fetches[s].at \in {"log", "facts", "tiles", "pen"}
    <3>1. fetches \in Seq(ViewState)
      BY DEF BoardInv, Fetching
    <3>2. \A s \in DOMAIN fetches : fetches[s] \in ViewState
      BY <3>1
    <3> QED BY <3>2 DEF ViewState
  <2>4. (\A i \in DOMAIN wire : wire[i] \in Committed) /\ cursor \in 0..Len(log)
    BY DEF BoardInv, Wired
  <2>5. /\ stage \in {"load", "snapshot", "open"} /\ link \in {"none", "down", "up"}
        /\ timer \in BOOLEAN /\ posting \in BOOLEAN
        /\ excused \in BOOLEAN /\ disconnects \in 0..MaxDisconnects
    BY DEF BoardInv, Paged
  <2> QED BY <2>1, <2>2, <2>3, <2>4, <2>5, Zenon DEF TypeOK
<1> QED BY <1>1, BoardInvariant, PTL

(* render.render, the card-to-tile handoff: a run whose events the board   *)
(* knows never drops out of sight, though log, cards and tiles are read in *)
(* statements of their own.                                                *)
THEOREM HandoffIsComplete == Spec => []HandoffComplete
<1>1. BoardInv => HandoffComplete
  <2> SUFFICES ASSUME BoardInv, painted # <<>>, NEW r \in DOMAIN Project(painted.log).runs,
                      ~(r \in Cards(painted)), Latest(painted, r)
               PROVE  Tile(painted.tiles, Territory[r]) # "hunting"
    BY DEF HandoffComplete
  <2>0. painted \in ViewState /\ painted.at = "pen" /\ Through(painted, log, outcome) /\ World
    BY DEF BoardInv, Fetching
  <2>1. /\ painted.log \in Nat /\ painted.log <= Len(log)
        /\ painted.facts \in [Runs -> Outcomes] /\ painted.tiles \in [Runs -> Outcomes]
        /\ \A id \in 1..painted.log : painted.facts[log[id].run] # "none"
        /\ \A x \in Runs : Later(painted.facts[x], painted.tiles[x])
    BY <2>0 DEF ViewState, Through
  <2>2. r \in Runs /\ \E id \in 1..painted.log : log[id].run = r
    BY <2>0, <2>1, ProjectedRuns
  <2>3. painted.facts[r] # "none" /\ painted.facts[r] # "open"
    BY <2>1, <2>2 DEF Cards
  <2>4. painted.tiles[r] = "completed"
    <3>1. painted.facts[r] = "completed"
      BY <2>1, <2>2, <2>3 DEF Outcomes
    <3> QED BY <2>1, <2>2, <3>1 DEF Later
  <2>5. PICK runs : runs = {x \in Runs : Territory[x] = Territory[r] /\ painted.tiles[x] # "none"}
    OBVIOUS
  <2>6. r \in runs /\ runs # {}
    BY <2>2, <2>4, <2>5
  <2>7. PICK n \in Nat : Runs = 1..n /\ runs \in SUBSET (1..n)
    BY <2>5, RunsAreNumbers
  <2>8. Max(runs) \in runs /\ \A y \in runs : Max(runs) >= y
    BY <2>6, <2>7, MaxIsIn
  <2>9. Max(runs) = r
    <3>1. PICK m \in Runs : m = Max(runs) /\ m \in runs
      BY <2>5, <2>8
    <3>2. ~(m > r)
      BY <2>5, <3>1 DEF Latest
    <3>3. m >= r
      BY <2>6, <2>8, <3>1
    <3>4. m \in Nat /\ r \in Nat
      BY <2>2, <3>1, RunsAreNumbers
    <3> QED BY <3>1, <3>2, <3>3, <3>4
  <2>10. Tile(painted.tiles, Territory[r]) = TileState("completed")
    BY <2>4, <2>5, <2>6, <2>9 DEF Tile
  <2> QED BY <2>10 DEF TileState
<1> QED BY <1>1, BoardInvariant, PTL
=============================================================================
