------------------------------- MODULE Board -------------------------------
(***************************************************************************)
(* The page in a browser: static/board.js, the /viewstate, /snapshot and   *)
(* /verdict requests it makes, and viewstate.build_viewstate, which reads  *)
(* log, runs and verdicts in statements of their own while hunts and other *)
(* tabs go on committing.                                                  *)
(*                                                                         *)
(* A commit and the frame it sends are one step, and the stream delivers   *)
(* in order; HuntStore, EventStream and Pen take these apart.              *)
(***************************************************************************)
EXTENDS View

CONSTANTS
    Territory,      \* of each run, in the order the runs start
    Types,          \* bound: the event types hunts append
    MaxEvents,      \* bound: rows of the log
    MaxFetches,     \* bound: /viewstate requests under way at once
    MaxDisconnects       \* bound: lost connections

ASSUME BoardAssumption ==
    /\ Territory \in Seq(STRING)
    /\ Types \subseteq {"tool_call", "thinking_delta", "prey_captured"}
    /\ MaxEvents \in Nat /\ MaxFetches \in Nat \ {0} /\ MaxDisconnects \in Nat

VARIABLES
    log,        \* trajectory_events: run and type of each row
    outcome,    \* runs.outcome, "none" before start_run
    judged,     \* prey whose verdict is in pen_events
    stage,      \* the page: load, snapshot, open
    link,       \* its EventSource: none, down, up
    wire,       \* frames on their way
    cursor,     \* Last-Event-ID
    timer,      \* repaintTimer
    posting,    \* a click's POST is under way
    fetches,    \* /viewstate requests under way, in the order they were sent
    painted,    \* what the board was last painted from, <<>> at first
    excused,    \* a commit was missed, or an answer overtaken
    disconnects

world  == <<log, outcome, judged>>
stream == <<stage, link, wire, cursor>>
vars   == <<world, stream, timer, posting, fetches, painted, excused, disconnects>>

Runs    == DOMAIN Territory
Closed  == {"completed"}    \* the other ends differ in the tile's picture only

Sent == [at |-> "log", log |-> 0, facts |-> <<>>, tiles |-> <<>>, pen |-> <<>>]

Prey(n) == {id \in 1..n : log[id].type = "prey_captured"}

Init ==
    /\ log = <<>> /\ outcome = [r \in Runs |-> "none"] /\ judged = {}
    /\ stage = "load" /\ link = "none" /\ wire = <<>> /\ cursor = 0
    /\ timer = FALSE /\ posting = FALSE
    /\ fetches = <<Sent>>
    /\ painted = <<>>
    /\ excused = FALSE /\ disconnects = 0

-----------------------------------------------------------------------------
(* What a view state says.  A fact is an event, the end of a run or a      *)
(* verdict: what is committed and sends a frame.                           *)

Event(id) == <<"event", id>>
Ended(r)  == <<"run_finished", r>>
Judged(p) == <<"verdict", p>>

Committed == {Event(id) : id \in DOMAIN log}
             \cup {Ended(r) : r \in {x \in Runs : outcome[x] \in Closed}}
             \cup {Judged(p) : p \in judged}

\* view.project over the first n rows.
Project(n) == Fold([id \in 1..n |-> [id |-> id, run |-> log[id].run, type |-> log[id].type,
                                     tool |-> None, cost |-> 0]])

\* The bare column of MAX(started_at): the outcome of the latest run.
Tile(table, t) ==
    LET runs == {r \in Runs : Territory[r] = t /\ table[r] # "none"}
    IN  TileState(IF runs = {} THEN "none" ELSE table[Max(runs)])

\* Cards are drawn for open runs only.
Cards(view) == {r \in DOMAIN Project(view.log).runs : view.facts[r] = "open"}

Latest(view, r) == \A x \in Runs : x > r /\ Territory[x] = Territory[r] => view.tiles[x] = "none"

Shown(view) ==
    IF view = <<>> THEN {}
    ELSE LET state == Project(view.log)
         IN  {Event(id) : id \in 1..state.highWater}
             \cup {Ended(r) : r \in {x \in Runs : /\ view.facts[x] \in Closed
                                                  /\ view.tiles[x] \in Closed}}
             \cup {Judged(state.pen[i]) : i \in {k \in DOMAIN view.pen : view.pen[k] = "feasted"}}

Current == Committed \subseteq Shown(painted)

-----------------------------------------------------------------------------
(* Hunts and other tabs.                                                   *)

Send(frame) ==
    IF link = "up" THEN wire' = Append(wire, frame) /\ UNCHANGED excused
    ELSE /\ UNCHANGED wire
         /\ excused' = (excused \/ (stage = "open" /\ frame[1] # "event"))

\* start_run: no event, no notification.
StartRun(r) ==
    /\ outcome[r] = "none"
    /\ \A x \in Runs : x < r /\ Territory[x] = Territory[r] => outcome[x] \in Closed
    /\ outcome' = [outcome EXCEPT ![r] = "open"]
    /\ UNCHANGED <<log, judged, stream, timer, posting, fetches, painted, excused, disconnects>>

AppendRow(r) ==
    /\ outcome[r] = "open" /\ Len(log) < MaxEvents
    /\ \E type \in Types : log' = Append(log, [run |-> r, type |-> type])
    /\ Send(Event(Len(log) + 1))
    /\ UNCHANGED <<outcome, judged, stage, link, cursor, timer, posting, fetches,
                   painted, disconnects>>

FinishRun(r) ==
    /\ outcome[r] = "open"
    /\ \E o \in Closed : outcome' = [outcome EXCEPT ![r] = o]
    /\ Send(Ended(r))
    /\ UNCHANGED <<log, judged, stage, link, cursor, timer, posting, fetches, painted,
                   disconnects>>

\* submit_verdict, FEAST for all of them; a second one changes nothing.
Feast(p) ==
    IF p \in judged THEN UNCHANGED <<judged, wire, excused>>
    ELSE judged' = judged \cup {p} /\ Send(Judged(p))

OtherTab(p) ==
    /\ p \notin judged
    /\ Feast(p)
    /\ UNCHANGED <<log, outcome, stage, link, cursor, timer, posting, fetches,
                   painted, disconnects>>

-----------------------------------------------------------------------------
(* refresh: one GET /viewstate, and build_viewstate's statements.          *)

Fetch == Len(fetches) < MaxFetches /\ fetches' = Append(fetches, Sent)

Reading(s, at) == fetches[s].at = at

Read == UNCHANGED <<world, stream, timer, posting, painted, excused, disconnects>>

ReadLog(s) ==
    /\ Reading(s, "log")
    /\ fetches' = [fetches EXCEPT ![s].log = Len(log), ![s].at = "facts"]
    /\ Read

\* The outcomes the cards are drawn by, and those the tiles are.
ReadFacts(s, at, next) ==
    /\ Reading(s, at)
    /\ fetches' = [fetches EXCEPT ![s].facts = outcome, ![s].at = next]
    /\ Read

ReadTiles(s, at, next) ==
    /\ Reading(s, at)
    /\ fetches' = [fetches EXCEPT ![s].tiles = outcome, ![s].at = next]
    /\ Read

\* Mutant: the tiles are read before the runs of the cards.
ReadRunsSwapped(s) == ReadTiles(s, "facts", "tiles") \/ ReadFacts(s, "tiles", "pen")

ReadRuns(s) == ReadFacts(s, "facts", "tiles") \/ ReadTiles(s, "tiles", "pen")

\* The cards whose verdicts are still to be read.
Unread(s) == Len(Project(fetches[s].log).pen) - Len(fetches[s].pen)

\* read_pen_events and verdicts.fold for the next card.
ReadCard(s) ==
    /\ Reading(s, "pen") /\ Unread(s) > 0
    /\ LET p == Project(fetches[s].log).pen[Len(fetches[s].pen) + 1]
       IN  fetches' = [fetches EXCEPT ![s].pen =
                        Append(@, IF p \in judged THEN "feasted" ELSE "awaiting_verdict")]
    /\ Read

\* The answer is painted, whatever was painted in the meantime.
Paint(s) ==
    /\ Reading(s, "pen") /\ Unread(s) = 0
    /\ painted' = fetches[s]
    /\ fetches' = RemoveAt(fetches, s)
    /\ stage' = IF stage = "load" THEN "snapshot" ELSE stage
    /\ excused' = (excused \/ ~(Shown(painted) \subseteq Shown(fetches[s])))
    /\ UNCHANGED <<world, link, wire, cursor, timer, posting, disconnects>>

Answer(s) == ReadLog(s) \/ ReadRuns(s) \/ ReadCard(s) \/ Paint(s)

-----------------------------------------------------------------------------
(* The page.                                                               *)

SnapshotFrom(latestId) ==
    /\ stage = "snapshot"
    /\ cursor' = latestId
    /\ stage' = "open" /\ link' = "down"
    /\ excused' = (excused \/ ~Current)
    /\ UNCHANGED <<world, wire, timer, posting, fetches, painted, disconnects>>

\* Mutant: the cursor of the next event.
SnapshotAhead == SnapshotFrom(Len(log) + 1)

\* /snapshot: latest_id is all the page takes from it.
Snapshot == SnapshotFrom(Len(log))

\* EventSource (re)connects; the events past the cursor are replayed.
Connect ==
    /\ link = "down"
    /\ link' = "up"
    /\ wire' = [i \in 1..(Len(log) - cursor) |-> Event(cursor + i)]
    /\ UNCHANGED <<world, stage, cursor, timer, posting, fetches, painted, excused, disconnects>>

Disconnect ==
    /\ link = "up" /\ disconnects < MaxDisconnects
    /\ disconnects' = disconnects + 1
    /\ link' = "down" /\ wire' = <<>>
    /\ excused' = (excused \/ \E i \in DOMAIN wire : wire[i][1] # "event")
    /\ UNCHANGED <<world, stage, cursor, timer, posting, fetches, painted>>

Receive(arms) ==
    /\ wire # <<>>
    /\ wire' = Tail(wire)
    /\ cursor' = IF Head(wire)[1] = "event" THEN Head(wire)[2] ELSE cursor
    /\ timer' = (timer \/ arms)
    /\ UNCHANGED <<world, stage, link, posting, fetches, painted, excused, disconnects>>

\* Mutant: no repaint is scheduled while one is under way.
OnMessageBusy == Receive(fetches = <<>>)

\* scheduleRefresh, on every frame: the window opens, or is open already.
OnMessage == Receive(TRUE)

\* The window closes before its refresh is awaited.
TimerFires ==
    /\ timer /\ timer' = FALSE
    /\ Fetch
    /\ UNCHANGED <<world, stream, posting, painted, excused, disconnects>>

\* A button of the painted board; its prey may have been judged since.
Click(p) ==
    /\ ~posting /\ painted # <<>>
    /\ LET pen == Project(painted.log).pen
       IN  \E i \in DOMAIN pen : pen[i] = p /\ painted.pen[i] = "awaiting_verdict"
    /\ Feast(p)
    /\ posting' = TRUE
    /\ UNCHANGED <<log, outcome, stage, link, cursor, timer, fetches, painted, disconnects>>

\* The POST's answer: refresh at once, beside whatever is under way.
Clicked ==
    /\ posting /\ posting' = FALSE
    /\ Fetch
    /\ UNCHANGED <<world, stream, timer, painted, excused, disconnects>>

Page == Snapshot \/ Connect \/ OnMessage \/ TimerFires \/ Clicked

Next == \/ \E r \in Runs : StartRun(r) \/ AppendRow(r) \/ FinishRun(r)
        \/ \E p \in Prey(Len(log)) : OtherTab(p) \/ Click(p)
        \/ \E s \in DOMAIN fetches : Answer(s)
        \/ Page \/ Disconnect

(* The server answers, EventSource delivers and reconnects, timers fire:   *)
(* while one of them is due, some step of theirs is taken.  Nobody has to  *)
(* hunt, to click or to lose a connection.                                 *)
Fairness == WF_vars(Page \/ \E s \in DOMAIN fetches : Answer(s))

Spec     == Init /\ [][Next]_vars
FairSpec == Spec /\ Fairness

-----------------------------------------------------------------------------
(* Type invariant: the values every variable ranges over.                  *)
TypeOK ==
    /\ log \in Seq([run : Runs, type : Types])
    /\ outcome \in [Runs -> {"none", "open"} \cup Closed]
    /\ judged \subseteq Prey(Len(log))
    /\ stage \in {"load", "snapshot", "open"} /\ link \in {"none", "down", "up"}
    /\ \A i \in DOMAIN wire : wire[i] \in Committed
    /\ cursor \in 0..Len(log)
    /\ timer \in BOOLEAN /\ posting \in BOOLEAN
    /\ \A s \in DOMAIN fetches : fetches[s].at \in {"log", "facts", "tiles", "pen"}
    /\ excused \in BOOLEAN /\ disconnects \in 0..MaxDisconnects

(* The board is refetched on a frame, a click or a load only, frames come  *)
(* while a repaint is due or under way, and others are never sent again.   *)
(* Whatever is committed while the page is connected is on the board in    *)
(* the end, except after one of three things: a commit between the first   *)
(* /viewstate and /snapshot, a notification lost with its connection, an   *)
(* answer painted over a later one.                                        *)
CommitsReachBoard == (link = "up" /\ ~Current) ~> (Current \/ excused)

(* render.render, the card-to-tile handoff, on a view state read in        *)
(* several statements: a run whose events the board knows has its card, or *)
(* its territory's tile shows how it ended or a later run.  It never drops *)
(* out of sight in between.                                                *)
HandoffComplete ==
    painted # <<>> =>
        \A r \in DOMAIN Project(painted.log).runs :
            \/ r \in Cards(painted)
            \/ ~Latest(painted, r)
            \/ Tile(painted.tiles, Territory[r]) # "hunting"
=============================================================================
