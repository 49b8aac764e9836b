----------------------------- MODULE HistoryPanels -----------------------------
(***************************************************************************)
(* ui/panels/history.py with what the store and the builder hand it: the   *)
(* rows of the connection panel and of the mode panel.  A list is cut three *)
(* times on its way from the store (100, 10, 5), and turned round once.    *)
(***************************************************************************)
EXTENDS StoreJournal

CONSTANTS HistoryLimit,            \* limit=10 in DashboardBuilder
          HISTORY_DISPLAY_LIMIT    \* 5

ASSUME PanelAssumption ==
  HistoryLimit \in Nat \ {0} /\ HISTORY_DISPLAY_LIMIT \in Nat \ {0}

\* get_connection_history(), get_mode_transitions()
GetConnectionHistory == LastN(connection_history, HistoryLimit)
GetModeTransitions == LastN(mode_transitions, HistoryLimit)

\* Mutation of ListContent: the first items instead of the last.
ListContentFirst(items) ==
  LET n == IF Len(items) < HISTORY_DISPLAY_LIMIT THEN Len(items) ELSE HISTORY_DISPLAY_LIMIT
  IN [i \in 1..n |-> items[n + 1 - i]]

\* _build_list_content(): the newest row first.
ListContent(items) ==
  LET shown == LastN(items, HISTORY_DISPLAY_LIMIT)
  IN [i \in DOMAIN shown |-> shown[Len(shown) + 1 - i]]

\* _connection_history_row(): `if duration` hides a period of zero seconds as
\* it hides one that is open.
ConnectionRow(e) ==
  [connected |-> e.connected, timestamp |-> e.timestamp,
   duration |-> IF e.duration = 0 THEN None ELSE e.duration]

ConnectionPanel ==
  LET items == ListContent(GetConnectionHistory)
  IN [i \in DOMAIN items |-> ConnectionRow(items[i])]

ModePanel == ListContent(GetModeTransitions)

-----------------------------------------------------------------------------

\* What a panel shows can be read without knowing what was cut: it has rows as
\* soon as a state was recorded, the first row is the state of now and is open,
\* and each row below is the opposite state and lasted until the row above
\* began.
ConnectionPanelTellsNow ==
  LET rows == ConnectionPanel
  IN /\ rows = <<>> <=> last_connection_state = None
     /\ rows # <<>> =>
          rows[1].connected = last_connection_state /\ rows[1].duration = None
     /\ \A i \in 2..Len(rows) :
          /\ rows[i].connected # rows[i - 1].connected
          /\ rows[i].timestamp
               + (IF rows[i].duration = None THEN 0 ELSE rows[i].duration)
               = rows[i - 1].timestamp

\* Likewise the transitions: the first row leads to the mode of now, and each
\* row below leads to where the row above starts.
ModePanelTellsNow ==
  LET rows == ModePanel
  IN /\ rows # <<>> => rows[1].to = last_op_mode
     /\ \A i \in 2..Len(rows) : rows[i].to = rows[i - 1].from

\* An operator reads the present state and how it came about from the top of
\* both panels, through the three cuts (store, builder, panel), however often
\* the logs were cleared.
PanelsTellNow == ConnectionPanelTellsNow /\ ModePanelTellsNow
=============================================================================
