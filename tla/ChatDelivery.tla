--------------------------- MODULE ChatDelivery ---------------------------
(***************************************************************************)
(* Text messages between two clients: the sender's queue in its history    *)
(* database, the data channel between the two WebRTC sessions, the ack of  *)
(* a message, the dedup by msg_id, read receipts and the unread badge      *)
(* (MainWindow.cpp, WebRtcSession.cpp, MessageHistory.cpp).                *)
(*                                                                         *)
(* A client runs on two threads.  The GStreamer thread takes frames off    *)
(* the channel, acks them and emits signals; the signals wait in the Qt    *)
(* event queue (`events`) until the main thread handles them.  The history *)
(* database survives a restart of the program; the event queue, the        *)
(* channel and the badge do not.                                           *)
(*                                                                         *)
(* The channel is reliable and ordered while it lives; what is in flight   *)
(* when it breaks is lost, and each side goes on believing in it until its *)
(* own ICE agent gives up.  The channel's steps are those of ChatLink and  *)
(* what they do to frames and signals.  ChatSessions models how channels   *)
(* are negotiated, and implements ChatLink.                                *)
(***************************************************************************)
EXTENDS Naturals, Sequences, FiniteSets

CONSTANTS
  Peers,       \* the two clients of the conversation
  Quota,       \* bound: how many messages each of them writes
  PageSize,    \* the messages that the last 50 rows of a conversation hold at
               \* least (notes of calls share the table, and the page)
  MaxFaults(_) \* bound: how often the channel breaks or a client is killed in
               \* a conversation of so many messages

ASSUME ChatAssumption ==
  /\ \E x, y \in Peers : x # y /\ Peers = {x, y}
  /\ Quota \in [Peers -> Nat]
  /\ PageSize \in Nat

VARIABLES
  rows,      \* table messages: the msg_id of each row, in insertion order
  delivered, \* msg_ids whose rows have delivered = 1 (own messages)
  read,      \* msg_ids whose rows have read = 1
  readSent,  \* msg_ids whose rows have read_sent = 1 (incoming messages)
  events,    \* signals waiting in the Qt event queue
  chanOpen,  \* WebRtcSession::m_channelOpen
  link,      \* the channel carries frames
  wire,      \* frames in flight to each client
  current,   \* the conversation is the one on screen
  unread,    \* the badge of the contact
  shown,     \* incoming messages that have been on screen
  broken,    \* how often the channel has broken or a client was killed
  killed     \* the clients that were ever killed

table   == <<rows, delivered, read, readSent>>
channel == <<chanOpen, link, wire>>
screen  == <<current, unread, shown>>
faults  == <<broken, killed>>
vars == <<table, events, channel, screen, faults>>

Ids == Peers \X (Nat \ {0})
Author(m) == m[1]
Other(p) == CHOOSE q \in Peers : q # p

Text(m)     == [t |-> "msg", id |-> m]
Ack(m)      == [t |-> "ack", id |-> m]
Receipt(ms) == [t |-> "read", ids |-> ms]
Opened      == [t |-> "open"]
Frames == [t : {"msg", "ack"}, id : Ids] \cup [t : {"read"}, ids : SUBSET Ids]
Events == Frames \cup {Opened}

\* The channel, as the negotiation of chat sessions provides it.
Channel == INSTANCE ChatLink

Stored(p) == {rows[p][i] : i \in DOMAIN rows[p]}
Own(p, ms) == {m \in ms : Author(m) = p}
Incoming(p, ms) == {m \in ms : Author(m) # p}

\* What the clients may write, and how much of it they have written.
Writable == UNION {{p} \X (1..Quota[p]) : p \in Peers}
Written == Cardinality({m \in Writable : m \in Stored(Author(m))})

\* loadConversation without a row to start from: the last page of rows.  The
\* other rows are there for who scrolls up to them (LocalData).
OnPage(p, i) == i + PageSize > Len(rows[p])
Page(p)   == {rows[p][i] : i \in {j \in DOMAIN rows[p] : OnPage(p, j)}}
Buried(p) == {rows[p][i] : i \in {j \in DOMAIN rows[p] : ~OnPage(p, j)}}

Init ==
  /\ rows = [p \in Peers |-> << >>]
  /\ delivered = [p \in Peers |-> {}]
  /\ read = [p \in Peers |-> {}]
  /\ readSent = [p \in Peers |-> {}]
  /\ events = [p \in Peers |-> << >>]
  /\ chanOpen = [p \in Peers |-> FALSE]
  /\ link = FALSE
  /\ wire = [p \in Peers |-> << >>]
  /\ current = [p \in Peers |-> FALSE]
  /\ unread = [p \in Peers |-> 0]
  /\ shown = [p \in Peers |-> {}]
  /\ broken = 0
  /\ killed = {}

\* send-string on an open channel: accepted, and lost if the link is gone.
Transmit(p, frames) ==
  wire' = IF link THEN [wire EXCEPT ![Other(p)] = @ \o frames] ELSE wire

\* The messages of ms, ORDER BY sent_at.
OldestFirst(ms) ==
  {s \in [1..Cardinality(ms) -> ms] : \A i, j \in DOMAIN s : i < j => s[i][2] < s[j][2]}

\* loadUndelivered: own rows without delivery confirmation.
Undelivered(p) == Own(p, Stored(p)) \ delivered[p]

\* pendingReceipts, given the rows marked read.
PendingReceipts(p, ms) == Incoming(p, ms) \ readSent[p]

\* The receipts sent for pending ms: one frame, none when nothing is pending.
ReceiptFrames(ms) == IF ms = {} THEN << >> ELSE << Receipt(ms) >>

----------------------------------------------------------------------------
(* The user.                                                               *)

\* The ids of p are numbered in the order of writing.
NewIds(p) ==
  {m \in {p} \X (1..Quota[p]) :
     /\ broken <= MaxFaults(Written + 1)
     /\ m \notin Stored(p)
     /\ \A k \in 1..(m[2] - 1) : <<p, k>> \in Stored(p)}

\* Mutation: delivery is assumed at send time.
SendText_AssumesDelivery(p) ==
  /\ current[p]
  /\ \E m \in NewIds(p) :
       /\ rows' = [rows EXCEPT ![p] = Append(@, m)]
       /\ IF chanOpen[p]
            THEN /\ Transmit(p, << Text(m) >>)
                 /\ delivered' = [delivered EXCEPT ![p] = @ \cup {m}]
            ELSE UNCHANGED <<wire, delivered>>
  /\ UNCHANGED <<read, readSent, events, chanOpen, link, screen, faults>>

\* onSendText: the row is written first, under a new id, then the text goes out
\* if a channel is open.  The input bar belongs to the conversation on screen.
SendText(p) ==
  /\ current[p]
  /\ \E m \in NewIds(p) :
       /\ rows' = [rows EXCEPT ![p] = Append(@, m)]
       /\ IF chanOpen[p] THEN Transmit(p, << Text(m) >>) ELSE UNCHANGED wire
  /\ UNCHANGED <<delivered, read, readSent, events, chanOpen, link, screen,
                 faults>>

\* Mutation: the badge is counted down by one instead of cleared.
SelectContact_OneOff(p) ==
  /\ current' = [current EXCEPT ![p] = TRUE]
  /\ unread' = [unread EXCEPT ![p] = @ - 1]
  /\ shown' = [shown EXCEPT ![p] = @ \cup Incoming(p, Page(p))]
  /\ LET marked == read[p] \cup Incoming(p, Stored(p))
         owed == PendingReceipts(p, marked)
     IN /\ read' = [read EXCEPT ![p] = marked]
        /\ IF chanOpen[p]
             THEN /\ Transmit(p, ReceiptFrames(owed))
                  /\ readSent' = [readSent EXCEPT ![p] = @ \cup owed]
             ELSE UNCHANGED <<wire, readSent>>
  /\ UNCHANGED <<rows, delivered, events, chanOpen, link, faults>>

\* onContactSelected: the badge is cleared, the last page is shown, all rows are
\* marked read, and the receipts still owed go out if a channel is open.
SelectContact(p) ==
  /\ current' = [current EXCEPT ![p] = TRUE]
  /\ unread' = [unread EXCEPT ![p] = 0]
  /\ shown' = [shown EXCEPT ![p] = @ \cup Incoming(p, Page(p))]
  /\ LET marked == read[p] \cup Incoming(p, Stored(p))
         owed == PendingReceipts(p, marked)
     IN /\ read' = [read EXCEPT ![p] = marked]
        /\ IF chanOpen[p]
             THEN /\ Transmit(p, ReceiptFrames(owed))
                  /\ readSent' = [readSent EXCEPT ![p] = @ \cup owed]
             ELSE UNCHANGED <<wire, readSent>>
  /\ UNCHANGED <<rows, delivered, events, chanOpen, link, faults>>

\* onContactSelected for somebody else.
SelectOther(p) ==
  /\ current[p]
  /\ current' = [current EXCEPT ![p] = FALSE]
  /\ UNCHANGED <<table, events, channel, unread, shown, faults>>

----------------------------------------------------------------------------
(* The main thread: the signal at the head of the event queue.             *)

Handle(p, kind) ==
  /\ events[p] # << >> /\ Head(events[p]).t = kind
  /\ events' = [events EXCEPT ![p] = Tail(@)]

\* onTextReceived of a message that is stored already (its ack was lost).
DropDuplicate(p) ==
  /\ Handle(p, "msg")
  /\ Head(events[p]).id \in Stored(p)
  /\ UNCHANGED <<table, channel, screen, faults>>

\* Mutation: the badge counts messages on screen, too.
ReceiveText_CountsAlways(p) ==
  /\ Handle(p, "msg")
  /\ Head(events[p]).id \notin Stored(p)
  /\ LET m == Head(events[p]).id
         marked == read[p] \cup Incoming(p, Stored(p) \cup {m})
         owed == PendingReceipts(p, marked)
     IN /\ rows' = [rows EXCEPT ![p] = Append(@, m)]
        /\ IF current[p]
             THEN /\ read' = [read EXCEPT ![p] = marked]
                  /\ shown' = [shown EXCEPT ![p] = @ \cup {m}]
                  /\ unread' = [unread EXCEPT ![p] = @ + 1]
             ELSE /\ unread' = [unread EXCEPT ![p] = @ + 1]
                  /\ UNCHANGED <<read, shown>>
        /\ IF current[p] /\ chanOpen[p]
             THEN /\ Transmit(p, ReceiptFrames(owed))
                  /\ readSent' = [readSent EXCEPT ![p] = @ \cup owed]
             ELSE UNCHANGED <<wire, readSent>>
  /\ UNCHANGED <<delivered, chanOpen, link, current, faults>>

\* Mutation: msg_id is not looked up.
ReceiveText_NoDedup(p) ==
  /\ Handle(p, "msg")
  /\ LET m == Head(events[p]).id
         marked == read[p] \cup Incoming(p, Stored(p) \cup {m})
         owed == PendingReceipts(p, marked)
     IN /\ rows' = [rows EXCEPT ![p] = Append(@, m)]
        /\ IF current[p]
             THEN /\ read' = [read EXCEPT ![p] = marked]
                  /\ shown' = [shown EXCEPT ![p] = @ \cup {m}]
                  /\ UNCHANGED unread
             ELSE /\ unread' = [unread EXCEPT ![p] = @ + 1]
                  /\ UNCHANGED <<read, shown>>
        /\ IF current[p] /\ chanOpen[p]
             THEN /\ Transmit(p, ReceiptFrames(owed))
                  /\ readSent' = [readSent EXCEPT ![p] = @ \cup owed]
             ELSE UNCHANGED <<wire, readSent>>
  /\ UNCHANGED <<delivered, chanOpen, link, current, faults>>

\* onTextReceived: the row is stored; on screen it is marked read and the
\* receipts owed go out, else the badge counts it.
ReceiveText(p) ==
  /\ Handle(p, "msg")
  /\ Head(events[p]).id \notin Stored(p)
  /\ LET m == Head(events[p]).id
         marked == read[p] \cup Incoming(p, Stored(p) \cup {m})
         owed == PendingReceipts(p, marked)
     IN /\ rows' = [rows EXCEPT ![p] = Append(@, m)]
        /\ IF current[p]
             THEN /\ read' = [read EXCEPT ![p] = marked]
                  /\ shown' = [shown EXCEPT ![p] = @ \cup {m}]
                  /\ UNCHANGED unread
             ELSE /\ unread' = [unread EXCEPT ![p] = @ + 1]
                  /\ UNCHANGED <<read, shown>>
        /\ IF current[p] /\ chanOpen[p]
             THEN /\ Transmit(p, ReceiptFrames(owed))
                  /\ readSent' = [readSent EXCEPT ![p] = @ \cup owed]
             ELSE UNCHANGED <<wire, readSent>>
  /\ UNCHANGED <<delivered, chanOpen, link, current, faults>>

\* markDeliveredByMsgId updates the row of that id, if there is one.
MarkDelivered(p, m) ==
  delivered' = [delivered EXCEPT ![p] = @ \cup ({m} \cap Stored(p))]

\* onTextDelivered.
HandleAck(p) ==
  /\ Handle(p, "ack")
  /\ MarkDelivered(p, Head(events[p]).id)
  /\ UNCHANGED <<rows, read, readSent, channel, screen, faults>>

\* markPeerRead updates the rows that have one of the ids.
MarkPeerRead(p, ms) ==
  read' = [read EXCEPT ![p] = @ \cup (ms \cap Stored(p))]

\* onPeerReadMessages.
HandleReceipt(p) ==
  /\ Handle(p, "read")
  /\ MarkPeerRead(p, Head(events[p]).ids)
  /\ UNCHANGED <<rows, delivered, readSent, channel, screen, faults>>

\* Mutation: the queue is not flushed when the channel opens.
HandleOpened_NoFlush(p) ==
  /\ Handle(p, "open")
  /\ LET owed == PendingReceipts(p, read[p])
     IN IF chanOpen[p]
          THEN /\ Transmit(p, ReceiptFrames(owed))
               /\ readSent' = [readSent EXCEPT ![p] = @ \cup owed]
          ELSE UNCHANGED <<wire, readSent>>
  /\ UNCHANGED <<rows, delivered, read, chanOpen, link, screen, faults>>

\* Mutation: the receipts on opening mark the whole conversation read, as those of
\* onContactSelected do.
HandleOpened_MarksConversation(p) ==
  /\ Handle(p, "open")
  /\ LET marked == read[p] \cup Incoming(p, Stored(p))
         owed == PendingReceipts(p, marked)
     IN IF chanOpen[p]
          THEN /\ \E s \in OldestFirst(Undelivered(p)) :
                    Transmit(p, [i \in DOMAIN s |-> Text(s[i])] \o ReceiptFrames(owed))
               /\ read' = [read EXCEPT ![p] = marked]
               /\ readSent' = [readSent EXCEPT ![p] = @ \cup owed]
          ELSE UNCHANGED <<wire, read, readSent>>
  /\ UNCHANGED <<rows, delivered, chanOpen, link, screen, faults>>

\* channelOpen: flushQueuedMessages, then the receipts still owed for what was
\* read while there was no channel.
HandleOpened(p) ==
  /\ Handle(p, "open")
  /\ LET owed == PendingReceipts(p, read[p]) IN
       IF chanOpen[p]
         THEN /\ \E s \in OldestFirst(Undelivered(p)) :
                   Transmit(p, [i \in DOMAIN s |-> Text(s[i])] \o ReceiptFrames(owed))
              /\ readSent' = [readSent EXCEPT ![p] = @ \cup owed]
         ELSE UNCHANGED <<wire, readSent>>
  /\ UNCHANGED <<rows, delivered, read, chanOpen, link, screen, faults>>

----------------------------------------------------------------------------
(* The GStreamer thread and the channel.                                   *)

\* A channel is negotiated.
LinkUp ==
  /\ Channel!Establish
  /\ UNCHANGED <<table, events, wire, screen, faults>>

\* on-open of the data channel.
OnOpen(p) ==
  /\ Channel!OpenChannel(p)
  /\ events' = [events EXCEPT ![p] = Append(@, Opened)]
  /\ UNCHANGED <<table, wire, screen, faults>>

\* onChannelMessage: the signal is queued for the main thread, and a text is
\* acked at once.
OnFrame(p) ==
  /\ chanOpen[p] /\ wire[p] # << >>
  /\ LET f == Head(wire[p]) IN
       /\ events' = [events EXCEPT ![p] = Append(@, f)]
       /\ wire' = [wire EXCEPT ![p] = Tail(@),
                              ![Other(p)] = IF f.t = "msg"
                                              THEN Append(@, Ack(f.id)) ELSE @]
  /\ UNCHANGED <<table, chanOpen, link, screen, faults>>

\* The link goes, with everything in flight.
Break ==
  /\ broken < MaxFaults(Written)
  /\ broken' = broken + 1
  /\ Channel!Break
  /\ wire' = [p \in Peers |-> << >>]

\* The path between the clients breaks, or a side replaces its session.
LinkBreaks ==
  /\ link
  /\ Break
  /\ UNCHANGED <<table, events, screen, killed>>

\* on-close, or connectionFailed after the ICE grace period: stop().
OnClose(p) ==
  /\ ~link /\ chanOpen[p]
  /\ Channel!Break /\ chanOpen' = [chanOpen EXCEPT ![p] = FALSE]
  /\ UNCHANGED <<table, events, wire, screen, faults>>

\* The program is killed, or quits with signals still queued, and is started
\* again with no conversation on screen.
Crash(p) ==
  /\ Break /\ ~chanOpen'[p]
  /\ killed' = killed \cup {p}
  /\ events' = [events EXCEPT ![p] = << >>]
  /\ current' = [current EXCEPT ![p] = FALSE]
  /\ unread' = [unread EXCEPT ![p] = 0]
  /\ UNCHANGED <<table, shown>>

----------------------------------------------------------------------------

User(p) == SendText(p) \/ SelectContact(p) \/ SelectOther(p)

MainThread(p) ==
  \/ DropDuplicate(p) \/ ReceiveText(p)
  \/ HandleAck(p) \/ HandleReceipt(p) \/ HandleOpened(p)

StreamThread(p) == OnOpen(p) \/ OnFrame(p) \/ OnClose(p)

Next ==
  \/ \E p \in Peers : User(p) \/ MainThread(p) \/ StreamThread(p) \/ Crash(p)
  \/ LinkUp \/ LinkBreaks

Spec == Init /\ [][Next]_vars

\* Both threads of a running client run, and a broken channel is negotiated
\* again (the retry of connectionFailed and every presence update see to that,
\* as ChatSessions shows).  The user, breaks and crashes owe nothing.
FairSpec ==
  /\ Spec
  /\ WF_vars(LinkUp)
  /\ \A p \in Peers : WF_vars(MainThread(p)) /\ WF_vars(StreamThread(p))

----------------------------------------------------------------------------
(* Properties.                                                             *)

TypeOK ==
  /\ rows \in [Peers -> Seq(Ids)]
  /\ delivered \in [Peers -> SUBSET Ids]
  /\ read \in [Peers -> SUBSET Ids]
  /\ readSent \in [Peers -> SUBSET Ids]
  /\ events \in [Peers -> Seq(Events)]
  /\ chanOpen \in [Peers -> BOOLEAN]
  /\ link \in BOOLEAN
  /\ wire \in [Peers -> Seq(Frames)]
  /\ current \in [Peers -> BOOLEAN]
  /\ unread \in [Peers -> Nat]
  /\ shown \in [Peers -> SUBSET Ids]
  /\ broken \in Nat
  /\ killed \subseteq Peers

\* A message is stored once, however often it is sent again and whoever is
\* restarted in between (MainWindow.cpp:423-425).
NoDuplicateRow ==
  \A p \in Peers : \A i, j \in DOMAIN rows[p] :
    rows[p][i] = rows[p][j] => i = j

\* A delivery mark is true: the message is in the other client's history, or
\* waits in its event queue to be stored.  A client that was killed may have
\* lost it from the event queue.
Waiting(p) == {events[p][i].id : i \in {j \in DOMAIN events[p] : events[p][j].t = "msg"}}
DeliveredIsReceived ==
  \A p \in Peers : Other(p) \notin killed =>
    Own(p, delivered[p]) \subseteq Stored(Other(p)) \cup Waiting(Other(p))

\* A read mark is true: a message is shown as read to its author only when it was
\* on the reader's screen, or lay beneath the page of rows that the reader was
\* shown, whichever of the two was restarted (MainWindow.cpp:292-295).
ReadWasShown ==
  \A p \in Peers : Own(p, read[p]) \subseteq shown[Other(p)] \cup Buried(Other(p))

\* The badge counts the stored messages that were not read yet, and is zero for
\* the conversation on screen; it starts again at zero with the program.
BadgeCountsUnread ==
  \A p \in Peers :
    /\ current[p] => unread[p] = 0
    /\ p \notin killed => unread[p] = Cardinality(Incoming(p, Stored(p)) \ read[p])

\* The people at both ends see a mailbox: every message goes from its author's
\* history to the other's once, and marks say what happened.  The channel, its
\* breaks, the queue and every retry are stutters of it
\* (MainWindow.cpp:358-446, WebRtcSession.cpp:737-774).
Taken(p) == Incoming(p, Stored(p) \cup Waiting(p))
Mailbox == INSTANCE TextMailbox WITH
  Messages <- Writable,
  log <- rows,
  taken <- [p \in Peers |-> Taken(p)],
  confirmed <- [p \in Peers |-> Own(p, delivered[p])],
  told <- [p \in Peers |-> Own(p, read[p])]
KeepsMailbox == Mailbox!Spec

\* A message once written is delivered, whatever broke or was restarted on the
\* way.
EventuallyDelivered ==
  \A p \in Peers : \A n \in 1..Quota[p] :
    <<p, n>> \in Stored(p) ~> <<p, n>> \in delivered[p]

\* WebRtcSession.cpp:741: "Confirm receipt - the sender keeps the message queued
\* until then".  What the sender took off its queue is in the receiver's hands.
ConfirmedIsReceived ==
  \A p \in Peers :
    Own(p, delivered[p]) \subseteq Stored(Other(p)) \cup Waiting(Other(p))
=============================================================================
