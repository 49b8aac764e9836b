------------------------ MODULE DashboardClientProofs ------------------------
(***************************************************************************)
(* The types of DashboardClient and that pausing holds the screen, for any *)
(* number of requests under way, of clicks, drags and reloads.             *)
(***************************************************************************)
EXTENDS DashboardClient, TLAPS

\* The request of the last poll can show nothing more: its answer was dropped or
\* shown, or it was sent while the page was paused.
NothingToShow ==
  \A s \in Slot :
    latest["poll"] = s /\ requests[s] # None /\ requests[s].callback = "poll"
      => requests[s].stage = "sent" /\ requests[s].carries.paused = TRUE

\* Once a poll was shown during the pause, there is nothing more to show.
HoldInv ==
  /\ ClientTypeOK
  /\ is_paused => held \in {0, 1} /\ (held = 1 => NothingToShow)

-----------------------------------------------------------------------------

LEMMA InitialHold == ClientInit => HoldInv
<1> SUFFICES ASSUME ClientInit
             PROVE  HoldInv
  OBVIOUS
<1> USE DEF ClientInit
<1>1. InitialData \in Data /\ InitialData.content = 0
  BY DEF InitialData, Data, Direction
<1>2. DOMAIN drawing = {"main", "ml"} /\ \A v \in {"main", "ml"} : drawing[v].data = data
  BY DEF Drawn
<1>3. /\ DOMAIN requests = Slot /\ \A s \in Slot : requests[s] = None
      /\ latest \in [Callback -> Slot \cup {None}]
  OBVIOUS
<1>4. /\ content \in Nat /\ scatter \in Nat /\ held \in Nat /\ data \in Data
      /\ direction \in Direction /\ dir_label \in Direction
      /\ mode \in {"live", "mock"}
      /\ capturing \in BOOLEAN /\ is_paused \in BOOLEAN /\ dragging \in BOOLEAN
  <2>1. content \in Nat /\ scatter \in Nat /\ held \in Nat /\ data \in Data
    BY <1>1
  <2>2. direction \in Direction /\ dir_label \in Direction
    BY DEF Direction
  <2>3. capturing \in BOOLEAN /\ is_paused \in BOOLEAN /\ dragging \in BOOLEAN
    BY Zenon
  <2> QED  BY <2>1, <2>2, <2>3
<1>5. ClientTypeOK
  BY <1>1, <1>2, <1>3, <1>4 DEF ClientTypeOK
<1> QED  BY <1>5 DEF HoldInv

\* A request that is sent has its type, and a poll that is sent while the page is
\* paused can show nothing.
LEMMA SendHold ==
  ASSUME HoldInv, NEW c \in Callback, Send(c),
         UNCHANGED <<serverVars, tabVars>>
  PROVE  HoldInv'
<1> USE DEF HoldInv, serverVars, tabVars, shownVars
<1>1. PICK s \in Slot :
        /\ requests[s] = None
        /\ requests' = [requests EXCEPT ![s] =
                          [callback |-> c, stage |-> "sent", carries |-> State(c)]]
        /\ latest' = [latest EXCEPT ![c] = s]
  BY DEF Send
<1>2. IsRequest([callback |-> c, stage |-> "sent", carries |-> State(c)])
  BY DEF IsRequest, Carried, State, ClientTypeOK, Callback, Button
<1>3. /\ DOMAIN requests' = Slot
      /\ \A t \in Slot : requests'[t] = IF t = s THEN [callback |-> c, stage |-> "sent", carries |-> State(c)]
                                        ELSE requests[t]
  BY <1>1 DEF ClientTypeOK
<1>4. /\ latest' \in [Callback -> Slot \cup {None}]
      /\ latest'["poll"] = IF c = "poll" THEN s ELSE latest["poll"]
  BY <1>1 DEF ClientTypeOK, Callback
<1>5. ClientTypeOK'
  <2>1. \A t \in Slot : requests'[t] # None => IsRequest(requests'[t])
    BY <1>2, <1>3 DEF ClientTypeOK
  <2>2. \A t \in Slot : (requests[t] # None => IsRequest(requests[t]))'
    BY <2>1 DEF IsRequest, Carried, Data, Direction, Callback, Button
  <2> QED  BY <2>2, <1>3, <1>4 DEF ClientTypeOK, Data, Direction, Callback, Button
<1>6. is_paused' => held' \in {0, 1} /\ (held' = 1 => NothingToShow')
  <2> SUFFICES ASSUME is_paused, held = 1
               PROVE  NothingToShow'
    OBVIOUS
  <2>1. NothingToShow
    OBVIOUS
  <2>2. c = "poll" => State(c).paused = TRUE
    BY DEF State, ClientTypeOK
  <2> QED  BY <2>1, <2>2, <1>3, <1>4 DEF NothingToShow
<1> QED  BY <1>5, <1>6

-----------------------------------------------------------------------------

\* What the types say of the requests alone.
RequestsTyped ==
  /\ DOMAIN requests = Slot
  /\ \A s \in Slot : requests[s] # None => IsRequest(requests[s])

\* One slot gets another request, or none.
LEMMA SlotChanges ==
  ASSUME RequestsTyped, NEW s \in Slot, NEW r,
         requests' = [requests EXCEPT ![s] = r],
         r # None => IsRequest(r)
  PROVE  /\ RequestsTyped'
         /\ \A t \in Slot : requests'[t] = IF t = s THEN r ELSE requests[t]
<1>1. /\ DOMAIN requests' = Slot
      /\ \A t \in Slot : requests'[t] = IF t = s THEN r ELSE requests[t]
  BY DEF RequestsTyped
<1>2. \A t \in Slot : requests'[t] # None => IsRequest(requests'[t])
  BY <1>1 DEF RequestsTyped
<1> QED  BY <1>1, <1>2 DEF RequestsTyped

\* A request that goes on keeps its callback.
LEMMA StageChanges ==
  ASSUME RequestsTyped, NEW s \in Slot, NEW stage, NEW x, requests[s] # None,
         Stage(s, stage, x),
         IsRequest([callback |-> requests[s].callback, stage |-> stage, carries |-> x])
  PROVE  /\ RequestsTyped'
         /\ \A t \in Slot :
              requests'[t] = IF t = s
                             THEN [callback |-> requests[s].callback, stage |-> stage,
                                   carries |-> x]
                             ELSE requests[t]
  BY SlotChanges DEF Stage

LEMMA BuildIsData == ASSUME ClientTypeOK PROVE Build \in Data
  BY DEF ClientTypeOK, Build, Data

LEMMA UpdateIsData ==
  ASSUME ClientTypeOK, NEW prev \in Data
  PROVE  UpdateData(prev) \in Data
  BY BuildIsData DEF ClientTypeOK, UpdateData, Data

\* Serving leaves the tab alone.
LEMMA ServedKeeps ==
  ASSUME HoldInv, RequestsTyped', UNCHANGED tabVars, UNCHANGED latest, UNCHANGED mode,
         capturing' \in BOOLEAN, direction' \in Direction, content' \in Nat,
         is_paused /\ held = 1 => NothingToShow'
  PROVE  HoldInv'
<1> USE DEF HoldInv, tabVars, shownVars
<1>1. ClientTypeOK'
  <2>1. /\ DOMAIN drawing' = {"main", "ml"}
        /\ \A v \in {"main", "ml"} : drawing'[v] # None => drawing'[v].data \in Data
    BY DEF ClientTypeOK
  <2>2. /\ data' \in Data /\ is_paused' \in BOOLEAN /\ dir_label' \in Direction
        /\ scatter' \in Nat /\ dragging' \in BOOLEAN /\ held' \in Nat
        /\ latest' \in [Callback -> Slot \cup {None}]
    BY DEF ClientTypeOK
  <2> QED  BY <2>1, <2>2 DEF ClientTypeOK, RequestsTyped
<1> QED  BY <1>1

LEMMA ServeHold ==
  ASSUME HoldInv, NEW s \in Slot, Serve(s)
  PROVE  HoldInv'
<1>1. /\ ClientTypeOK /\ RequestsTyped
      /\ capturing \in BOOLEAN /\ direction \in Direction /\ content \in Nat
      /\ UNCHANGED tabVars /\ UNCHANGED latest /\ UNCHANGED mode
  BY DEF serverVars, HoldInv, ClientTypeOK, RequestsTyped, Serve, ServePoll, ServePause, ServeClear,
         ServeConnection, ServeDirection
<1>2. is_paused /\ held = 1 => NothingToShow
  BY DEF HoldInv
<1>3. requests[s] # None => IsRequest(requests[s])
  BY <1>1 DEF RequestsTyped
<1>4. Opposite(direction) \in Direction /\ content + 1 \in Nat
  BY <1>1 DEF Opposite, Direction
\* A request of another callback says nothing of the polls.
<1>5. ASSUME NEW r, \A t \in Slot : requests'[t] = IF t = s THEN r ELSE requests[t],
             r # None => r.callback # "poll"
      PROVE  is_paused /\ held = 1 => NothingToShow'
  BY <1>1, <1>2, <1>5 DEF NothingToShow
<1>5b. ASSUME NoAnswer(s)
       PROVE  RequestsTyped' /\ (is_paused /\ held = 1 => NothingToShow')
  <2>1. RequestsTyped' /\ \A t \in Slot : requests'[t] = IF t = s THEN None ELSE requests[t]
    BY <1>1, <1>5b, SlotChanges DEF NoAnswer
  <2> QED  BY <1>5, <2>1
<1>6. CASE ServePoll(s)
  <2>1. requests[s] # None /\ requests[s].callback = "poll" /\ requests[s].stage = "sent"
    BY <1>6 DEF ServePoll, At
  <2>2. UNCHANGED <<capturing, direction, content>>
    BY <1>6 DEF ServePoll, serverVars
  <2>3. CASE requests[s].carries.paused
    <3>1. NoAnswer(s)
      BY <1>6, <2>3 DEF ServePoll
    <3> QED  BY <1>1, <1>5b, <2>2, <3>1, ServedKeeps
  <2>4. CASE ~requests[s].carries.paused
    <3> DEFINE d == UpdateData(requests[s].carries.data)
    <3>1. Stage(s, "answered", d)
      BY <1>6, <2>4 DEF ServePoll, Answer
    <3> DEFINE r == [callback |-> requests[s].callback, stage |-> "answered",
                     carries |-> d]
    <3>6. d \in Data
      BY <1>1, <1>3, <2>1, UpdateIsData DEF IsRequest, Carried
    <3>2. IsRequest(r)
      BY <2>1, <3>6 DEF IsRequest, Carried, Callback
    <3>3. RequestsTyped' /\ \A t \in Slot : requests'[t] = IF t = s THEN r ELSE requests[t]
      BY <1>1, <2>1, <3>1, <3>2, StageChanges
    <3>4. is_paused /\ held = 1 => latest["poll"] # s
      BY <1>2, <2>1, <2>4 DEF NothingToShow
    <3>5. is_paused /\ held = 1 => NothingToShow'
      BY <1>1, <1>2, <3>3, <3>4 DEF NothingToShow
    <3> QED  BY <1>1, <2>2, <3>3, <3>5, ServedKeeps
  <2>5. requests[s].carries.paused \in BOOLEAN
    BY <1>3, <2>1 DEF IsRequest, Carried
  <2> QED  BY <2>3, <2>4, <2>5
<1>7. CASE ServePause(s)
  <2>1. /\ requests[s] # None /\ requests[s].callback = "pause"
        /\ Stage(s, "answered", ~requests[s].carries)
        /\ UNCHANGED <<capturing, direction, content>>
    BY <1>7 DEF ServePause, At, Answer, serverVars
  <2> DEFINE r == [callback |-> requests[s].callback, stage |-> "answered",
                   carries |-> ~requests[s].carries]
  <2>2. (~requests[s].carries) \in BOOLEAN
    OBVIOUS
  <2>3. IsRequest(r)
    BY <2>1, <2>2 DEF IsRequest, Carried, Callback, Button
  <2>4. RequestsTyped' /\ \A t \in Slot : requests'[t] = IF t = s THEN r ELSE requests[t]
    BY <1>1, <2>1, <2>3, StageChanges
  <2> QED  BY <1>1, <1>5, <2>1, <2>4, ServedKeeps
<1>8. CASE ServeClear(s)
  <2>1. /\ requests[s] # None /\ requests[s].callback = "clear"
        /\ Stage(s, "answered", requests[s].carries)
        /\ content' = content + 1 /\ UNCHANGED <<capturing, direction>>
    BY <1>8 DEF ServeClear, At, Answer
  <2> DEFINE r == [callback |-> requests[s].callback, stage |-> "answered",
                   carries |-> requests[s].carries]
  <2>2. requests[s].carries \in Data
    BY <1>3, <2>1 DEF IsRequest, Carried
  <2>3. IsRequest(r)
    BY <2>1, <2>2 DEF IsRequest, Carried, Callback, Button
  <2>4. RequestsTyped' /\ \A t \in Slot : requests'[t] = IF t = s THEN r ELSE requests[t]
    BY <1>1, <2>1, <2>3, StageChanges
  <2> QED  BY <1>1, <1>4, <1>5, <2>1, <2>4, ServedKeeps
<1>9. CASE ServeConnection(s)
  <2>1. /\ requests[s] # None /\ requests[s].callback = "connection"
        /\ UNCHANGED <<direction, content>> /\ capturing' \in BOOLEAN
    BY <1>1, <1>9 DEF ServeConnection, At
  <2>2. CASE NoAnswer(s)
    BY <1>1, <1>5b, <2>1, <2>2, ServedKeeps
  <2>3. ASSUME NEW stage, NEW x, Stage(s, stage, x),
               (stage = "toggled" /\ x = None) \/ (stage = "answered" /\ x = Build)
        PROVE  HoldInv'
    <3> DEFINE r == [callback |-> requests[s].callback, stage |-> stage, carries |-> x]
    <3>1. IsRequest(r)
      BY <1>1, <2>1, <2>3, BuildIsData DEF IsRequest, Carried, Callback, Button
    <3>2. RequestsTyped' /\ \A t \in Slot : requests'[t] = IF t = s THEN r ELSE requests[t]
      BY <1>1, <2>1, <2>3, <3>1, StageChanges
    <3> QED  BY <1>1, <1>5, <2>1, <3>2, ServedKeeps
  <2> QED  BY <1>9, <2>2, <2>3 DEF ServeConnection, Answer
<1>10. CASE ServeDirection(s)
  <2>1. /\ requests[s] # None /\ requests[s].callback = "direction" /\ UNCHANGED capturing
    BY <1>10 DEF ServeDirection, At
  <2>2. CASE NoAnswer(s) /\ UNCHANGED <<direction, content>>
    BY <1>1, <1>5b, <2>1, <2>2, ServedKeeps
  <2>3. CASE /\ Stage(s, "answered", Opposite(direction))
             /\ content' = content + 1 /\ direction' = Opposite(direction)
    <3> DEFINE r == [callback |-> requests[s].callback, stage |-> "answered",
                     carries |-> Opposite(direction)]
    <3>1. IsRequest(r)
      BY <1>4, <2>1 DEF IsRequest, Carried, Callback, Button
    <3>2. RequestsTyped' /\ \A t \in Slot : requests'[t] = IF t = s THEN r ELSE requests[t]
      BY <1>1, <2>1, <2>3, <3>1, StageChanges
    <3> QED  BY <1>1, <1>4, <1>5, <2>1, <2>3, <3>2, ServedKeeps
  <2> QED  BY <1>10, <2>2, <2>3 DEF ServeDirection, Answer
<1> QED  BY <1>6, <1>7, <1>8, <1>9, <1>10 DEF Serve

-----------------------------------------------------------------------------

\* Data that arrives is drawn by both callbacks.
LEMMA DataIsDrawn ==
  ASSUME NEW d \in Data, SetData(d)
  PROVE  /\ data' \in Data /\ DOMAIN drawing' = {"main", "ml"}
         /\ \A v \in {"main", "ml"} : drawing'[v] # None => drawing'[v].data \in Data
         /\ UNCHANGED <<dir_label, scatter>>
<1>1. /\ DOMAIN drawing' = {"main", "ml"}
      /\ drawing'["main"].data = d /\ drawing'["ml"].data = d
  BY DEF SetData, Drawn
<1> QED  BY <1>1 DEF SetData

LEMMA ArriveHold ==
  ASSUME HoldInv, NEW s \in Slot, Arrive(s)
  PROVE  HoldInv'
<1> DEFINE r == requests[s]
<1>1. /\ ClientTypeOK /\ RequestsTyped /\ IsRequest(r) /\ r # None /\ r.stage = "answered"
      /\ is_paused => held \in {0, 1} /\ (held = 1 => NothingToShow)
      /\ requests' = [requests EXCEPT ![s] = None]
      /\ UNCHANGED serverVars
      /\ latest' = [c \in Callback |-> IF latest[c] = s THEN None ELSE latest[c]]
  BY DEF HoldInv, ClientTypeOK, RequestsTyped, Arrive
<1>1b. /\ latest' \in [Callback -> Slot \cup {None}]
       /\ latest'["poll"] = IF latest["poll"] = s THEN None ELSE latest["poll"]
  BY <1>1 DEF ClientTypeOK, Callback
<1>2. RequestsTyped' /\ \A t \in Slot : requests'[t] = IF t = s THEN None ELSE requests[t]
  BY <1>1, SlotChanges
<1>3. NothingToShow => NothingToShow'
  BY <1>1, <1>2, <1>1b, ClientAssumption DEF NothingToShow
<1>4. ASSUME data' \in Data, is_paused' \in BOOLEAN, dir_label' \in Direction,
             scatter' \in Nat, dragging' \in BOOLEAN, held' \in Nat,
             DOMAIN drawing' = {"main", "ml"},
             \A v \in {"main", "ml"} : drawing'[v] # None => drawing'[v].data \in Data
      PROVE  ClientTypeOK'
  BY <1>1, <1>2, <1>4, <1>1b DEF ClientTypeOK, RequestsTyped, serverVars
<1>5. /\ data \in Data /\ is_paused \in BOOLEAN /\ dir_label \in Direction
      /\ scatter \in Nat /\ dragging \in BOOLEAN /\ held \in Nat
      /\ DOMAIN drawing = {"main", "ml"}
      /\ \A v \in {"main", "ml"} : drawing[v] # None => drawing[v].data \in Data
  BY <1>1 DEF ClientTypeOK
<1>6. r.carries \in Carried(r)
  BY <1>1 DEF IsRequest
<1>7. CASE latest[r.callback] # s
  <2>1. UNCHANGED tabVars
    BY <1>7 DEF Arrive
  <2>2. ClientTypeOK'
    BY <1>4, <1>5, <2>1 DEF tabVars, shownVars
  <2> QED  BY <1>1, <1>3, <2>1, <2>2 DEF HoldInv, tabVars, shownVars
<1>8. CASE latest[r.callback] = s /\ r.callback = "poll"
  <2>1. /\ SetData(r.carries) /\ held' = IF is_paused THEN held + 1 ELSE held
        /\ UNCHANGED <<is_paused, dragging>>
    BY <1>8 DEF Arrive, Apply
  <2>2. r.carries \in Data
    BY <1>1, <1>6, <1>8 DEF Carried
  <2>3. ClientTypeOK'
    BY <1>4, <1>5, <2>1, <2>2, DataIsDrawn
  <2>4. ~NothingToShow
    BY <1>1, <1>8 DEF NothingToShow
  <2>5. NothingToShow'
    BY <1>1, <1>2, <1>8, <1>1b, ClientAssumption DEF NothingToShow
  <2>6. is_paused => held = 0
    BY <1>1, <2>4
  <2> QED  BY <2>1, <2>3, <2>5, <2>6 DEF HoldInv
<1>9. CASE latest[r.callback] = s /\ r.callback \in {"clear", "connection"}
  <2>1. SetData(r.carries) /\ UNCHANGED <<is_paused, dragging, held>>
    BY <1>9 DEF Arrive, Apply
  <2>2. r.carries \in Data
    BY <1>1, <1>6, <1>9 DEF Carried
  <2>3. ClientTypeOK'
    BY <1>4, <1>5, <2>1, <2>2, DataIsDrawn
  <2> QED  BY <1>1, <1>3, <2>1, <2>3 DEF HoldInv
<1>10. CASE latest[r.callback] = s /\ r.callback = "pause"
  <2>1. /\ is_paused' = r.carries
        /\ held' = IF is_paused /\ r.carries THEN held ELSE 0
        /\ UNCHANGED <<data, shownVars, dragging>>
    BY <1>10 DEF Arrive, Apply
  <2>2. r.carries \in BOOLEAN
    BY <1>6, <1>10 DEF Carried
  <2>3. ClientTypeOK'
    BY <1>4, <1>5, <2>1, <2>2 DEF shownVars
  <2> QED  BY <1>1, <1>3, <2>1, <2>3 DEF HoldInv
<1>11. CASE latest[r.callback] = s /\ r.callback = "direction"
  <2>1. dir_label' = r.carries /\ UNCHANGED <<data, is_paused, scatter, drawing, dragging, held>>
    BY <1>11 DEF Arrive, Apply
  <2>2. r.carries \in Direction
    BY <1>1, <1>6, <1>11 DEF Carried
  <2>3. ClientTypeOK'
    BY <1>4, <1>5, <2>1, <2>2
  <2> QED  BY <1>1, <1>3, <2>1, <2>3 DEF HoldInv
<1> QED  BY <1>1, <1>7, <1>8, <1>9, <1>10, <1>11 DEF IsRequest, Callback, Button

-----------------------------------------------------------------------------

\* Drawing, dragging and loading the page anew.
LEMMA TabHold ==
  ASSUME HoldInv, Drag \/ DragEnds \/ Reload \/ DrawMain \/ DrawML
  PROVE  HoldInv'
<1>1. ClientTypeOK /\ (is_paused => held \in {0, 1} /\ (held = 1 => NothingToShow))
  BY DEF HoldInv
<1>2. CASE Drag \/ DragEnds
  <2>1. dragging' \in BOOLEAN
    BY <1>2 DEF Drag, DragEnds
  <2>2. UNCHANGED <<serverVars, data, is_paused, shownVars, held, sentVars>>
    BY <1>2 DEF Drag, DragEnds
  <2>3. ClientTypeOK'
    BY <1>1, <2>1, <2>2 DEF ClientTypeOK, serverVars, shownVars, sentVars
  <2> QED  BY <1>1, <2>2, <2>3 DEF HoldInv, NothingToShow, sentVars
<1>3. CASE Reload
  <2>1. /\ data' = InitialData /\ is_paused' = FALSE /\ dir_label' = "status"
        /\ scatter' = InitialData.content /\ drawing' = Drawn(InitialData, FALSE)
        /\ dragging' = FALSE /\ held' = 0
        /\ latest' = [c \in Callback |-> None]
        /\ UNCHANGED <<serverVars, requests>>
    BY <1>3 DEF Reload
  <2>2. /\ DOMAIN drawing' = {"main", "ml"}
        /\ \A v \in {"main", "ml"} : drawing'[v].data = InitialData
    BY <2>1 DEF Drawn
  <2>3. InitialData \in Data /\ InitialData.content = 0
    BY DEF InitialData, Data, Direction
  <2>4. is_paused' \in BOOLEAN /\ dragging' \in BOOLEAN
    BY Zenon, <2>1
  <2>5. latest' \in [Callback -> Slot \cup {None}]
    BY <2>1
  <2>6. scatter' \in Nat /\ held' \in Nat /\ data' \in Data
    BY <2>1, <2>3
  <2>7. dir_label' \in Direction
    BY <2>1 DEF Direction
  <2>8. ClientTypeOK'
    BY <1>1, <2>1, <2>2, <2>3, <2>4, <2>5, <2>6, <2>7 DEF ClientTypeOK, serverVars
  <2> QED  BY <2>1, <2>8 DEF HoldInv
<1>4. CASE DrawMain \/ DrawML
  <2>1. PICK v \in {"main", "ml"} :
          /\ drawing[v] # None
          /\ dir_label' \in {dir_label, drawing[v].data.direction}
          /\ scatter' \in {scatter, drawing[v].data.content}
    BY <1>4 DEF DrawMain, DrawML
  <2>2. UNCHANGED <<serverVars, data, is_paused, dragging, held, sentVars>>
    BY <1>4 DEF DrawMain, DrawML
  <2>3. /\ DOMAIN drawing' = {"main", "ml"}
        /\ \A w \in {"main", "ml"} : drawing'[w] # None => drawing'[w].data \in Data
    <3>1. CASE DrawMain
      <4>1. /\ DOMAIN drawing' = {"main", "ml"}
            /\ drawing'["main"] = None /\ drawing'["ml"].data = data
        BY <3>1 DEF DrawMain
      <4> QED  BY <1>1, <4>1 DEF ClientTypeOK
    <3>2. CASE DrawML
      BY <1>1, <3>2 DEF DrawML, ClientTypeOK
    <3> QED  BY <1>4, <3>1, <3>2
  <2>4. drawing[v].data \in Data
    BY <1>1, <2>1 DEF ClientTypeOK
  <2>5. dir_label' \in Direction /\ scatter' \in Nat
    BY <1>1, <2>1, <2>4 DEF ClientTypeOK, Data
  <2>6. ClientTypeOK'
    BY <1>1, <2>2, <2>3, <2>5 DEF ClientTypeOK, serverVars, sentVars
  <2> QED  BY <1>1, <2>2, <2>6 DEF HoldInv, NothingToShow, sentVars
<1> QED  BY <1>2, <1>3, <1>4

LEMMA NextHold ==
  ASSUME HoldInv, [ClientNext]_clientVars
  PROVE  HoldInv'
<1>1. CASE Interval
  BY <1>1, SendHold DEF Interval, Callback
<1>2. ASSUME NEW b \in Button, Click(b)
      PROVE  HoldInv'
  BY <1>2, SendHold DEF Click, Callback
<1>3. ASSUME NEW s \in Slot, Serve(s) \/ Arrive(s)
      PROVE  HoldInv'
  BY <1>3, ServeHold, ArriveHold
<1>4. CASE Drag \/ DragEnds \/ Reload \/ DrawMain \/ DrawML
  BY <1>4, TabHold
<1>5. CASE UNCHANGED clientVars
  BY <1>5 DEF HoldInv, ClientTypeOK, NothingToShow, clientVars, serverVars, tabVars,
              shownVars, sentVars
<1> QED  BY <1>1, <1>2, <1>3, <1>4, <1>5 DEF ClientNext

LEMMA HoldInvariant == ClientSpec => []HoldInv
<1>1. HoldInv /\ [ClientNext]_clientVars => HoldInv'
  BY NextHold
<1> QED  BY InitialHold, <1>1, PTL DEF ClientSpec

\* The stores of the tab and the requests keep their types: the answer to every
\* callback is what the store it goes to holds.
THEOREM ClientTypeCorrect == ClientSpec => []ClientTypeOK
<1>1. HoldInv => ClientTypeOK
  BY DEF HoldInv
<1> QED  BY HoldInvariant, <1>1, PTL

\* Pausing holds the screen, but for one poll that was under way.
THEOREM PausedScreenCorrect == ClientSpec => []PausedScreenHolds
<1>1. HoldInv => PausedScreenHolds
  BY DEF HoldInv, PausedScreenHolds
<1> QED  BY HoldInvariant, <1>1, PTL
=============================================================================
