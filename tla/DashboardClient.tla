--------------------------- MODULE DashboardClient ---------------------------
(***************************************************************************)
(* callbacks/update_callbacks.py: one browser tab, its stores and buttons, *)
(* and the requests between it and the server's threads.                   *)
(*                                                                         *)
(* Dash, which is external, sends a request with the State of the moment,  *)
(* runs the callbacks in any order, and applies the answers in the order   *)
(* in which they arrive; of several requests of one callback it applies    *)
(* the answer of the last one sent.  update_data() and the methods behind  *)
(* the buttons are steps here; ServiceProvider has their insides.  In mock *)
(* mode (mock/mock_data.py) there is nothing to capture, no connection and *)
(* no direction to toggle, and the dashboard is updated from the data that *)
(* the browser sends back.                                                 *)
(***************************************************************************)
EXTENDS Integers, FiniteSets

CONSTANTS MaxClicks,     \* bound on the buttons pressed
          MaxDrags,      \* bound on the drags of the 3D chart
          MaxReloads,    \* bound on the reloads of the page
          Slot,          \* bound on the requests under way
          None           \* Python's None

ASSUME ClientAssumption ==
  /\ {MaxClicks, MaxDrags, MaxReloads} \subseteq Nat
  /\ IsFiniteSet(Slot) /\ None \notin Slot

Button == {"pause", "clear", "connection", "direction"}
Callback == Button \cup {"poll"}

VARIABLES mode,          \* "live": a ServiceProvider, "mock": a MockDataGenerator
          capturing,     \* CaptureService.is_running
          direction,     \* CaptureService.direction
          content,       \* how often the store, or the mock's log, was emptied
          data,          \* dcc.Store "dashboard-data"
          is_paused,     \* dcc.Store "is-paused"
          dir_label,     \* the label on the direction button
          scatter,       \* the content the 3D chart was drawn from
          dragging,      \* was the 3D chart moved in the last 2.5 s?
          drawing,       \* what the callbacks that draw were last called with
          requests,      \* requests under way, by slot
          latest,        \* slot of each callback's last request, until its answer came
          held,          \* answers to polls shown since the pause
          clicks, drags, reloads

serverVars == <<mode, capturing, direction, content>>
shownVars == <<dir_label, scatter, drawing>>
tabVars == <<data, is_paused, shownVars, dragging, held>>
sentVars == <<requests, latest>>
boundVars == <<clicks, drags, reloads>>
clientVars == <<serverVars, tabVars, sentVars, boundVars>>

\* DashboardBuilder.build(), as far as the browser can tell two answers apart.
Build == [connected |-> capturing, direction |-> direction, content |-> content]

\* The provider's update_data(): the mock changes the data of the browser, the
\* ServiceProvider does not look at it.
UpdateData(prev) ==
  IF mode = "live" THEN Build ELSE [prev EXCEPT !.content = content]

Direction == {"status", "control"}
Data == [connected : BOOLEAN, direction : Direction, content : Nat]

Opposite(dir) == IF dir = "status" THEN "control" ELSE "status"

\* create_main_layout(initial_data), which was built when the server started, before
\* the first packet was processed; the mock is born connected.
InitialData == [connected |-> mode = "mock", direction |-> "status", content |-> 0]

\* update_main_components() and update_ml_panel() are called whenever the data
\* changes, and when the page is loaded; dragging matters to the second only.
Drawn(d, drag) == [main |-> [data |-> d, dragging |-> FALSE],
                   ml   |-> [data |-> d, dragging |-> drag]]

ClientInit ==
  /\ mode \in {"live", "mock"}
  /\ capturing = TRUE /\ direction = "status" /\ content = 0
  /\ data = InitialData /\ is_paused = FALSE /\ dir_label = "status"
  /\ scatter = InitialData.content /\ drawing = Drawn(InitialData, FALSE)
  /\ dragging = FALSE /\ held = 0
  /\ requests = [s \in Slot |-> None] /\ latest = [c \in Callback |-> None]
  /\ clicks = 0 /\ drags = 0 /\ reloads = 0

-----------------------------------------------------------------------------
(* The browser sends *)

\* A request takes the State of the moment with it.
State(c) ==
  CASE c = "poll" -> [paused |-> is_paused, data |-> data]
    [] c = "clear" -> data
    [] c = "pause" -> is_paused
    [] OTHER -> None

\* Slots are alike: one that is free is taken.
FreeSlot == CHOOSE s \in Slot : requests[s] = None

Send(c) ==
  \E s \in Slot :
    /\ requests[s] = None /\ s = FreeSlot
    /\ requests' = [requests EXCEPT ![s] =
                      [callback |-> c, stage |-> "sent", carries |-> State(c)]]
    /\ latest' = [latest EXCEPT ![c] = s]

Interval == Send("poll") /\ UNCHANGED <<serverVars, tabVars, boundVars>>

Click(b) ==
  /\ clicks < MaxClicks /\ clicks' = clicks + 1
  /\ Send(b)
  /\ UNCHANGED <<serverVars, tabVars, drags, reloads>>

\* The clientside callback on relayoutData.
Drag ==
  /\ drags < MaxDrags /\ drags' = drags + 1
  /\ dragging' = TRUE
  /\ UNCHANGED <<serverVars, data, is_paused, shownVars, held, sentVars, clicks, reloads>>

DragEnds ==
  /\ dragging /\ dragging' = FALSE
  /\ UNCHANGED <<serverVars, data, is_paused, shownVars, held, sentVars, boundVars>>

\* The page starts over; answers to the old one's requests are not for it.
Reload ==
  /\ reloads < MaxReloads /\ reloads' = reloads + 1
  /\ data' = InitialData /\ is_paused' = FALSE /\ dir_label' = "status"
  /\ scatter' = InitialData.content /\ drawing' = Drawn(InitialData, FALSE)
  /\ dragging' = FALSE /\ held' = 0
  /\ latest' = [c \in Callback |-> None]
  /\ UNCHANGED <<serverVars, requests, clicks, drags>>

-----------------------------------------------------------------------------
(* The server serves *)

At(s, c, stage) ==
  requests[s] # None /\ requests[s].callback = c /\ requests[s].stage = stage

\* The request of the slot goes on to a stage, carrying x.
Stage(s, stage, x) ==
  requests' = [requests EXCEPT ![s] =
                [callback |-> @.callback, stage |-> stage, carries |-> x]]

Answer(s, a) == Stage(s, "answered", a)

\* PreventUpdate: there is no answer.
NoAnswer(s) == requests' = [requests EXCEPT ![s] = None]

\* Mutation of ServePoll: the pause is not looked at.
ServePollAlways(s) ==
  /\ At(s, "poll", "sent")
  /\ Answer(s, UpdateData(requests[s].carries.data))
  /\ UNCHANGED <<serverVars, latest>>

\* update_data()
ServePoll(s) ==
  /\ At(s, "poll", "sent")
  /\ IF requests[s].carries.paused
     THEN NoAnswer(s)
     ELSE Answer(s, UpdateData(requests[s].carries.data))
  /\ UNCHANGED <<serverVars, latest>>

\* toggle_pause()
ServePause(s) ==
  /\ At(s, "pause", "sent")
  /\ Answer(s, ~requests[s].carries)
  /\ UNCHANGED <<serverVars, latest>>

\* clear_logs() answers with the data it was called with.
ServeClear(s) ==
  /\ At(s, "clear", "sent")
  /\ content' = content + 1
  /\ Answer(s, requests[s].carries)
  /\ UNCHANGED <<mode, capturing, direction, latest>>

\* on_connection_toggle(): toggle_connection(), then update_data(), with the
\* provider's lock released in between.
ServeConnection(s) ==
  /\ UNCHANGED <<mode, direction, content, latest>>
  /\ \/ /\ At(s, "connection", "sent") /\ mode = "mock"
        /\ NoAnswer(s)
        /\ UNCHANGED capturing
     \/ /\ At(s, "connection", "sent") /\ mode = "live"
        /\ capturing' = ~capturing
        /\ Stage(s, "toggled", None)
     \/ /\ At(s, "connection", "toggled")
        /\ Answer(s, Build)
        /\ UNCHANGED capturing

\* on_direction_toggle(), whose store.reset() empties the store.
ServeDirection(s) ==
  /\ At(s, "direction", "sent")
  /\ \/ /\ mode = "mock"
        /\ NoAnswer(s)
        /\ UNCHANGED <<direction, content>>
     \/ /\ mode = "live"
        /\ direction' = Opposite(direction)
        /\ content' = content + 1
        /\ Answer(s, Opposite(direction))
  /\ UNCHANGED <<mode, capturing, latest>>

Serve(s) ==
  /\ \/ ServePoll(s) \/ ServePause(s) \/ ServeClear(s) \/ ServeConnection(s)
     \/ ServeDirection(s)
  /\ UNCHANGED <<tabVars, boundVars>>

-----------------------------------------------------------------------------
(* The browser applies an answer *)

\* The data is replaced, and both callbacks that draw it are called, with the
\* State of the 3D chart.  Only their last answer counts.
SetData(d) ==
  /\ data' = d
  /\ drawing' = Drawn(d, dragging)
  /\ UNCHANGED <<dir_label, scatter>>

Apply(r) ==
  \/ /\ r.callback = "poll" /\ SetData(r.carries)
     /\ held' = IF is_paused THEN held + 1 ELSE held
     /\ UNCHANGED <<is_paused, dragging>>
  \/ /\ r.callback \in {"clear", "connection"} /\ SetData(r.carries)
     /\ UNCHANGED <<is_paused, dragging, held>>
  \/ /\ r.callback = "pause" /\ is_paused' = r.carries
     /\ held' = IF is_paused /\ r.carries THEN held ELSE 0
     /\ UNCHANGED <<data, shownVars, dragging>>
  \/ /\ r.callback = "direction" /\ dir_label' = r.carries
     /\ UNCHANGED <<data, is_paused, scatter, drawing, dragging, held>>

Arrive(s) ==
  /\ requests[s] # None /\ requests[s].stage = "answered"
  /\ IF latest[requests[s].callback] = s THEN Apply(requests[s]) ELSE UNCHANGED tabVars
  /\ requests' = [requests EXCEPT ![s] = None]
  /\ latest' = [c \in Callback |-> IF latest[c] = s THEN None ELSE latest[c]]
  /\ UNCHANGED <<serverVars, boundVars>>

\* Mutation of DrawMain: the buttons in the header keep what they show.
DrawMainKeepsButtons ==
  /\ drawing["main"] # None
  /\ scatter' = drawing["main"].data.content
  /\ drawing' = [main |-> None, ml |-> [data |-> data, dragging |-> dragging]]
  /\ UNCHANGED <<serverVars, data, is_paused, dir_label, dragging, held, sentVars, boundVars>>

\* update_main_components() draws everything from the data, the buttons in the
\* header and the 3D chart too; the chart is a new one then, and Dash calls
\* update_ml_panel() for it.
DrawMain ==
  /\ drawing["main"] # None
  /\ dir_label' = drawing["main"].data.direction
  /\ scatter' = drawing["main"].data.content
  /\ drawing' = [main |-> None, ml |-> [data |-> data, dragging |-> dragging]]
  /\ UNCHANGED <<serverVars, data, is_paused, dragging, held, sentVars, boundVars>>

\* update_ml_panel() leaves the 3D chart alone if it was moved less than 2.5 s
\* before: if it was moving at the call, that time may be over by now.
DrawML ==
  /\ drawing["ml"] # None /\ drawing' = [drawing EXCEPT !["ml"] = None]
  /\ \/ scatter' = drawing["ml"].data.content
     \/ drawing["ml"].dragging /\ UNCHANGED scatter
  /\ UNCHANGED <<serverVars, data, is_paused, dir_label, dragging, held, sentVars, boundVars>>

ClientNext ==
  \/ Interval \/ Drag \/ DragEnds \/ Reload
  \/ \E b \in Button : Click(b)
  \/ \E s \in Slot : Serve(s) \/ Arrive(s)
  \/ DrawMain \/ DrawML

\* The poll that was sent last.
IsLastPoll(s) == requests[s] # None /\ requests[s].callback = "poll" /\ latest["poll"] = s

\* The interval fires again and again, requests are served and answers arrive,
\* and not every poll is overtaken by the next one: the interval is 2 s.  A drag
\* is over after 2.5 s.  Nothing is assumed of the buttons.
ClientFairness ==
  /\ WF_clientVars(Interval) /\ WF_clientVars(DragEnds)
  /\ WF_clientVars(DrawMain) /\ WF_clientVars(DrawML)
  /\ \A s \in Slot : WF_clientVars(Serve(s)) /\ WF_clientVars(Arrive(s))
  /\ SF_clientVars(\E s \in Slot : IsLastPoll(s) /\ Serve(s))
  /\ SF_clientVars(\E s \in Slot : IsLastPoll(s) /\ Arrive(s))

ClientSpec == ClientInit /\ [][ClientNext]_clientVars /\ ClientFairness

-----------------------------------------------------------------------------

\* What a request carries: the State it was sent with, then its answer.
Carried(r) ==
  CASE r.callback = "poll" -> IF r.stage = "sent" THEN [paused : BOOLEAN, data : Data] ELSE Data
    [] r.callback = "pause" -> BOOLEAN
    [] r.callback = "clear" -> Data
    [] r.callback = "connection" -> IF r.stage = "answered" THEN Data ELSE {None}
    [] r.callback = "direction" -> IF r.stage = "sent" THEN {None} ELSE Direction

IsRequest(r) ==
  /\ r = [callback |-> r.callback, stage |-> r.stage, carries |-> r.carries]
  /\ r.callback \in Callback
  /\ r.stage \in {"sent", "answered"} \/ (r.callback = "connection" /\ r.stage = "toggled")
  /\ r.carries \in Carried(r)

ClientTypeOK ==
  /\ mode \in {"live", "mock"}
  /\ capturing \in BOOLEAN /\ direction \in Direction /\ content \in Nat
  /\ data \in Data /\ is_paused \in BOOLEAN
  /\ dir_label \in Direction /\ scatter \in Nat
  /\ DOMAIN drawing = {"main", "ml"}
  /\ \A v \in {"main", "ml"} : drawing[v] # None => drawing[v].data \in Data
  /\ dragging \in BOOLEAN /\ held \in Nat
  /\ DOMAIN requests = Slot
  /\ \A s \in Slot : requests[s] # None => IsRequest(requests[s])
  /\ latest \in [Callback -> Slot \cup {None}]

\* Pausing holds the screen: at most one poll, the one that was under way, is
\* still shown, however polls and double clicks on the button overtake each other.
PausedScreenHolds == is_paused => held <= 1

\* When the buttons rest and the page is not paused, every part of it comes to
\* show what the server has: whichever answers came late, whatever a clear put
\* back, and although the 3D chart skips what comes while it is moved.
ScreenSettles ==
  (<>[]~is_paused)
    => <>[](data = Build /\ dir_label = direction /\ scatter = content)
=============================================================================
