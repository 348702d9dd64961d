----------------------------- MODULE LocalData -----------------------------
(***************************************************************************)
(* A client on its own disk: configuration, history and, over both, the    *)
(* conversation on the screen with its paging (MainWindow.cpp,             *)
(* ChatModel.cpp, MessageHistory::loadConversation).                       *)
(*                                                                         *)
(* Texts, acks and receipts arrive at any time, also while a dialog is     *)
(* open: its event loop handles them.  A row that could not be stored is   *)
(* on the screen with the id 0 (rowId -1 in the code).                     *)
(***************************************************************************)
EXTENDS HistoryStore, Sequences

CONSTANTS
  NoContact,  \* nobody selected
  PageSize,   \* the limit of loadConversation, 50
  MaxQueued   \* bound: scroll restorations in the event queue

ASSUME ViewAssumption ==
  NoContact \notin Contacts /\ PageSize \in Nat \ {0} /\ MaxQueued \in Nat

VARIABLES
  current,    \* m_currentContact
  view,       \* ChatModel::m_messages: the row ids, oldest first
  exhausted,  \* m_olderExhausted
  loading,    \* m_loadingOlder
  restores,   \* queued calls that restore the scroll position
  reloaded,   \* the view was loaded again since the contact was selected
  badge       \* contacts with a badge

paging == <<exhausted, loading, restores, reloaded>>
viewVars == <<current, view, paging, badge>>
vars == <<configVars, storeVars, viewVars>>

NoView ==
  /\ current = NoContact /\ view = << >> /\ badge = {}
  /\ exhausted = FALSE /\ loading = FALSE /\ restores = 0 /\ reloaded = FALSE

Init == ConfigInit /\ StoreInit /\ NoView

RowsOf(c) == {i \in DOMAIN rows : rows[i].contact = c}

\* The ids of S as a list, oldest first.
Ascending(S) ==
  {s \in [1..Cardinality(S) -> S] :
     /\ \A i \in S : \E n \in DOMAIN s : s[n] = i
     /\ \A m, n \in DOMAIN s : m < n => s[m] < s[n]}

\* loadConversation: the last PageSize rows, those before row `before` if it is
\* one; nothing when the SELECT fails.
Older(c, before) == {i \in RowsOf(c) : before > 0 => i < before}
Page(c, before) ==
  {i \in Older(c, before) : Cardinality({j \in Older(c, before) : j > i}) < PageSize}
LoadConversation(c, before) == Ascending(IF Works THEN Page(c, before) ELSE {})

Running == phase = "run"

\* Mutation: the paging state of the last contact is kept.
SelectContact_KeepsPaging(c) ==
  /\ Running
  /\ current' = c /\ badge' = badge \ {c}
  /\ view' \in LoadConversation(c, 0)
  /\ loading' = FALSE /\ reloaded' = FALSE
  /\ UNCHANGED <<exhausted, restores, configVars, storeVars>>

\* onContactSelected, from a click or, also under a dialog, from attemptRedial.
SelectContact(c) ==
  /\ Running
  /\ current' = c /\ badge' = badge \ {c}
  /\ view' \in LoadConversation(c, 0)
  /\ exhausted' = FALSE /\ loading' = FALSE /\ reloaded' = FALSE
  /\ UNCHANGED <<restores, configVars, storeVars>>

\* loadOlderMessages: the user scrolls up to the oldest row shown.
LoadOlder ==
  /\ Running /\ current # NoContact /\ ~loading /\ ~exhausted
  /\ view # << >> /\ view[1] > 0
  /\ restores < MaxQueued
  /\ \E older \in LoadConversation(current, view[1]) :
       IF older = << >> THEN exhausted' = TRUE /\ UNCHANGED <<view, loading, restores>>
       ELSE /\ view' = older \o view /\ loading' = TRUE /\ restores' = restores + 1
            /\ UNCHANGED exhausted
  /\ UNCHANGED <<current, reloaded, badge, configVars, storeVars>>

\* The queued end of loadOlderMessages.
RestoreScroll ==
  /\ restores > 0
  /\ restores' = restores - 1 /\ loading' = FALSE
  /\ UNCHANGED <<current, view, exhausted, reloaded, badge, configVars, storeVars>>

\* A row is stored, and shown if its conversation is on the screen.
StoreAndShow(c) ==
  /\ Running /\ Len(view) < MaxRows
  /\ AppendRow(c)
  /\ view' = IF current = c THEN Append(view, IF lastId' > lastId THEN lastId' ELSE 0)
             ELSE view
  /\ UNCHANGED <<current, paging, program>>

\* appendMessage: a text sent (the input bar writes to the contact on the
\* screen) or received (onTextReceived counts it when it is not on the screen).
AppendMessage(c) ==
  /\ StoreAndShow(c)
  /\ badge' = IF current = c THEN badge ELSE badge \cup {c}

\* Mutation: every call that went wrong lights the badge.
LogCallEvent_BadAlways(c, bad) ==
  /\ StoreAndShow(c)
  /\ badge' = IF bad THEN badge \cup {c} ELSE badge

\* logCallEvent: a note in the conversation; the badge is for calls missed.
LogCallEvent(c, bad) ==
  /\ StoreAndShow(c)
  /\ badge' = IF bad /\ current # c THEN badge \cup {c} ELSE badge

\* Mutation: the history that is loaded again is that of the contact the marks
\* came from.
ReloadOnMark_OfMarked ==
  /\ Running /\ dbOpen /\ "msg_id" \in cols /\ current # NoContact
  /\ \E i \in DOMAIN rows : view' \in LoadConversation(rows[i].contact, 0)
  /\ reloaded' = TRUE
  /\ UNCHANGED <<current, exhausted, loading, restores, badge, configVars, storeVars>>

\* onTextDelivered, onPeerReadMessages: a mark on any row loads the
\* conversation on the screen again, and leaves the paging as it is.
ReloadOnMark ==
  /\ Running /\ dbOpen /\ "msg_id" \in cols /\ rows # << >>
  /\ current # NoContact
  /\ view' \in LoadConversation(current, 0)
  /\ reloaded' = TRUE
  /\ UNCHANGED <<current, exhausted, loading, restores, badge, configVars, storeVars>>

\* onClearHistory, confirmed twice.  Until the message box that says so is
\* closed, the rows stay on the screen.
ClearHistory ==
  /\ Running /\ dialog = "settings"
  /\ DeleteRows
  /\ dialog' = "cleared"
  /\ UNCHANGED <<phase, conf, confFile, rejected, viewVars>>

\* historyCleared: what is stored by now is shown.
HistoryCleared ==
  /\ dialog = "cleared"
  /\ dialog' = "settings"
  /\ view' \in IF current = NoContact THEN {<< >>} ELSE LoadConversation(current, 0)
  /\ reloaded' = TRUE
  /\ UNCHANGED <<phase, conf, confFile, rejected, faults, storeVars>>
  /\ UNCHANGED <<current, exhausted, loading, restores, badge>>

\* What ends the process takes the view along.
EndsView ==
  IF phase' = "off"
  THEN /\ current' = NoContact /\ view' = << >> /\ badge' = {}
       /\ exhausted' = FALSE /\ loading' = FALSE /\ restores' = 0 /\ reloaded' = FALSE
  ELSE UNCHANGED viewVars

Next ==
  \/ (ConfigStepOnFiles \/ Open \/ CrashInOpen) /\ EndsView
  \/ \E c \in Contacts :
       \/ SelectContact(c) \/ AppendMessage(c)
       \/ \E bad \in BOOLEAN : LogCallEvent(c, bad)
  \/ LoadOlder \/ RestoreScroll \/ ReloadOnMark \/ ClearHistory \/ HistoryCleared

Spec == Init /\ [][Next]_vars

----------------------------------------------------------------------------
(* Properties.                                                             *)

TypeOK ==
  /\ phase \in {"off", "wizard", "key", "key write", "create", "encrypt", "msg_id",
       "backfill", "version 2", "read", "read_sent", "version 3", "kind",
       "version 4", "run"}
  /\ dialog \in {"none", "settings", "invite", "cleared"}
  /\ conf \in Configs /\ confFile \in Configs \cup {NoFile, Torn}
  /\ rejected \in BOOLEAN
  /\ keyFile \in Keys \cup {NoFile, Torn} /\ key \in Keys \cup {NoFile}
  /\ dbOpen \in BOOLEAN /\ version \in 0..4 /\ cols \subseteq AllColumns
  /\ lastId \in 0..MaxRows
  /\ DOMAIN rows \subseteq 1..lastId /\ \A i \in DOMAIN rows : rows[i] \in Row
  /\ current \in Contacts \cup {NoContact} /\ view \in Seq(0..MaxRows)
  /\ exhausted \in BOOLEAN /\ loading \in BOOLEAN /\ reloaded \in BOOLEAN
  /\ restores \in 0..MaxQueued /\ badge \subseteq Contacts

Shown == {view[i] : i \in DOMAIN view} \ {0}

\* The rows on the screen are the newest of the conversation, each once, in
\* order and without a gap, however pages, new texts, marks and a cleared
\* history follow each other (MainWindow.cpp:281-323, 349-363, 409, 440, 901).
\* The box that reports the history cleared is still over the old ones.
WindowIsSuffix ==
  current # NoContact /\ Works /\ dialog # "cleared" =>
    /\ Shown \subseteq RowsOf(current)
    /\ \A i \in RowsOf(current) \ Shown : \A j \in Shown : i < j
    /\ RowsOf(current) # {} => Shown # {}
    /\ \A i, j \in DOMAIN view : i < j /\ view[j] # 0 => view[i] < view[j]

\* When paging has given up, every row of the conversation is on the screen,
\* unless a mark or a cleared history has loaded only the newest page again:
\* that leaves m_olderExhausted set (MainWindow.h:111, MainWindow.cpp:440).
ExhaustedShowsAll ==
  exhausted /\ ~reloaded /\ Works => RowsOf(current) \subseteq Shown

\* The guard against scroll storms is always about to be lifted: a contact
\* selected in between, or a page that is empty, does not leave paging blocked
\* (MainWindow.h:112).
LoadingEnds == loading => restores > 0

\* No contact whose conversation is on the screen has a badge
\* (MainWindow.cpp:342-346, 400).
NoBadgeOnScreen == current \notin badge
=============================================================================
