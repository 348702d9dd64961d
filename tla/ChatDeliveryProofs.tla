------------------------ MODULE ChatDeliveryProofs ------------------------
(***************************************************************************)
(* What holds of a conversation for any two clients, however much they     *)
(* write and however often the channel breaks or a client is killed.       *)
(***************************************************************************)
EXTENDS ChatDelivery, FiniteSetTheorems, SequenceTheorems, TLAPS

\* There are two clients, and Other is the other one.
LEMMA TwoPeers ==
  ASSUME NEW p \in Peers
  PROVE  /\ Other(p) \in Peers /\ Other(p) # p /\ Other(Other(p)) = p
         /\ \A q \in Peers : q = p \/ q = Other(p)
  <1>1. PICK x \in Peers, y \in Peers : x # y /\ Peers = {x, y}
    BY ChatAssumption
  <1>2. \A q \in Peers : \E r \in Peers : r # q
    BY <1>1
  <1>3. \A q \in Peers : Other(q) \in Peers /\ Other(q) # q
    BY <1>2 DEF Other
  <1>4. QED BY <1>1, <1>3

LEMMA Bounds == PageSize \in Nat /\ \A p \in Peers : Quota[p] \in Nat
  <1>1. PageSize \in Nat /\ Quota \in [Peers -> Nat]
    BY ChatAssumption
  <1>2. QED BY <1>1

----------------------------------------------------------------------------
(* Types.                                                                  *)

LEMMA FramesType ==
  /\ \A m \in Ids : Text(m) \in Frames /\ Ack(m) \in Frames
  /\ \A ms \in SUBSET Ids : ReceiptFrames(ms) \in Seq(Frames)
  /\ Frames \subseteq Events /\ Opened \in Events
  /\ \A f \in Events : f.t \in {"msg", "ack"} => f.id \in Ids
  /\ \A f \in Events : f.t = "read" => f.ids \in SUBSET Ids
  <1>1. \A ms \in SUBSET Ids : Receipt(ms) \in Frames
    BY DEF Receipt, Frames
  <1>2. ASSUME NEW ms \in SUBSET Ids
        PROVE  ReceiptFrames(ms) \in Seq(Frames)
    <2>1. << Receipt(ms) >> \in Seq(Frames)
      BY <1>1
    <2>2. << >> \in Seq(Frames)
      OBVIOUS
    <2>3. QED BY <2>1, <2>2 DEF ReceiptFrames
  <1>3. \A m \in Ids : Text(m) \in Frames /\ Ack(m) \in Frames
    BY DEF Text, Ack, Frames
  <1>4. Frames \subseteq Events /\ Opened \in Events
    BY DEF Events
  <1>5. \A f \in Events : f.t \in {"msg", "ack"} => f.id \in Ids
    BY DEF Events, Frames, Opened
  <1>6. \A f \in Events : f.t = "read" => f.ids \in SUBSET Ids
    BY DEF Events, Frames, Opened
  <1>7. QED BY <1>2, <1>3, <1>4, <1>5, <1>6

LEMMA ConcatType ==
  ASSUME NEW s \in Seq(Frames), NEW t \in Seq(Frames)
  PROVE  s \o t \in Seq(Frames)
  OBVIOUS

LEMMA TransmitType ==
  ASSUME TypeOK, NEW p \in Peers, NEW fs \in Seq(Frames), Transmit(p, fs)
  PROVE  wire' \in [Peers -> Seq(Frames)]
  <1>1. wire[Other(p)] \o fs \in Seq(Frames)
    BY TwoPeers DEF TypeOK
  <1>2. QED BY <1>1 DEF TypeOK, Transmit

\* A history is finite.
LEMMA StoredFinite ==
  ASSUME TypeOK, NEW p \in Peers
  PROVE  IsFiniteSet(Stored(p)) /\ Stored(p) \subseteq Ids
  <1>1. rows[p] \in [1..Len(rows[p]) -> Ids] /\ Len(rows[p]) \in Nat
    BY DEF TypeOK
  <1>2. rows[p] \in Surjection(1..Len(rows[p]), Stored(p))
    BY <1>1 DEF Surjection, Stored
  <1>3. IsFiniteSet(1..Len(rows[p]))
    BY <1>1, FS_Interval
  <1>4. IsFiniteSet(Stored(p))
    BY <1>2, <1>3, FS_Surjection
  <1>5. QED BY <1>1, <1>4 DEF Stored

\* A flush of the queue is a sequence of texts.
LEMMA FlushType ==
  ASSUME TypeOK, NEW p \in Peers, NEW s \in OldestFirst(Undelivered(p))
  PROVE  /\ s \in Seq(Undelivered(p))
         /\ [i \in DOMAIN s |-> Text(s[i])] \in Seq({Text(m) : m \in Undelivered(p)})
         /\ [i \in DOMAIN s |-> Text(s[i])] \in Seq(Frames)
  <1>1. Undelivered(p) \in SUBSET Stored(p) /\ Undelivered(p) \subseteq Ids
    BY StoredFinite DEF Undelivered, Own
  <1>2. Cardinality(Undelivered(p)) \in Nat
    BY <1>1, StoredFinite, FS_Subset, FS_CardinalityType
  <1>3. s \in [1..Cardinality(Undelivered(p)) -> Undelivered(p)]
    BY DEF OldestFirst
  <1>4. [i \in DOMAIN s |-> Text(s[i])]
           \in [1..Cardinality(Undelivered(p)) -> {Text(m) : m \in Undelivered(p)}]
    BY <1>3
  <1>5. \A m \in Undelivered(p) : Text(m) \in Frames
    BY <1>1, FramesType
  <1>6. [i \in DOMAIN s |-> Text(s[i])] \in [1..Cardinality(Undelivered(p)) -> Frames]
    BY <1>3, <1>5
  <1>7. QED BY <1>2, <1>3, <1>4, <1>6, IsASeq

LEMMA BreakType ==
  ASSUME TypeOK, Break
  PROVE  /\ wire' \in [Peers -> Seq(Frames)] /\ link' \in BOOLEAN
         /\ broken' \in Nat /\ chanOpen' \in [Peers -> BOOLEAN]
  <1>1. wire' \in [Peers -> Seq(Frames)]
    <2>1. << >> \in Seq(Frames)
      OBVIOUS
    <2>2. QED BY <2>1 DEF Break
  <1>2. broken' \in Nat
    BY DEF Break, TypeOK
  <1>3. QED BY <1>1, <1>2 DEF Break, Channel!Break

\* A row is on the page or beneath it.
LEMMA PageOrBuried ==
  ASSUME NEW p \in Peers
  PROVE  Page(p) \cup Buried(p) = Stored(p)
  BY DEF Page, Buried, Stored

\* Marking more rows of one client.
LEMMA MarkType ==
  ASSUME NEW f \in [Peers -> SUBSET Ids], NEW p \in Peers, NEW S \in SUBSET Ids
  PROVE  [f EXCEPT ![p] = f[p] \cup S] \in [Peers -> SUBSET Ids]
  OBVIOUS

\* Every step keeps the types.
LEMMA TypeStep ==
  ASSUME TypeOK, [Next]_vars
  PROVE  TypeOK'
  <1> USE DEF TypeOK, table, channel, screen, faults
  <1>1. ASSUME NEW p \in Peers, SendText(p)
        PROVE  TypeOK'
    <2>1. PICK m \in NewIds(p) :
            /\ rows' = [rows EXCEPT ![p] = Append(@, m)]
            /\ IF chanOpen[p] THEN Transmit(p, << Text(m) >>) ELSE UNCHANGED wire
      BY <1>1 DEF SendText
    <2>2. m \in Ids
      BY Bounds DEF NewIds, Ids
    <2>3. wire' \in [Peers -> Seq(Frames)]
      <3>1. << Text(m) >> \in Seq(Frames)
        BY <2>2, FramesType
      <3>2. QED BY <2>1, <3>1, TransmitType
    <2>4. rows' \in [Peers -> Seq(Ids)]
      BY <2>1, <2>2
    <2>5. QED BY <1>1, <2>3, <2>4 DEF SendText
  <1>2. ASSUME NEW p \in Peers, SelectContact(p)
        PROVE  TypeOK'
    <2> DEFINE marked == read[p] \cup Incoming(p, Stored(p))
               owed == PendingReceipts(p, marked)
    <2>1. marked \subseteq Ids /\ owed \subseteq Ids /\ Incoming(p, Page(p)) \subseteq Ids
      BY StoredFinite, PageOrBuried DEF Incoming, PendingReceipts
    <2>2. ReceiptFrames(owed) \in Seq(Frames)
      BY <2>1, FramesType
    <2>3. wire' \in [Peers -> Seq(Frames)]
      BY <1>2, <2>2, TransmitType DEF SelectContact
    <2>4. readSent' \in [Peers -> SUBSET Ids]
      <3>1. readSent' = readSent \/ readSent' = [readSent EXCEPT ![p] = @ \cup owed]
        BY <1>2 DEF SelectContact
      <3>2. readSent[p] \cup owed \in SUBSET Ids
        BY <2>1
      <3> HIDE DEF owed
      <3>3. QED BY <3>1, <3>2
    <2>5. read' \in [Peers -> SUBSET Ids] /\ shown' \in [Peers -> SUBSET Ids]
      BY <1>2, <2>1 DEF SelectContact
    <2>6. QED BY <1>2, <2>3, <2>4, <2>5 DEF SelectContact
  <1>3. ASSUME NEW p \in Peers, SelectOther(p)
        PROVE  TypeOK'
    BY <1>3 DEF SelectOther
  <1>4. ASSUME NEW p \in Peers, NEW k, Handle(p, k)
        PROVE  events' \in [Peers -> Seq(Events)] /\ Head(events[p]) \in Events
    BY <1>4 DEF Handle
  <1>5. ASSUME NEW p \in Peers, DropDuplicate(p)
        PROVE  TypeOK'
    BY <1>4, <1>5 DEF DropDuplicate
  <1>6. ASSUME NEW p \in Peers, ReceiveText(p)
        PROVE  TypeOK'
    <2> DEFINE m == Head(events[p]).id
               marked == read[p] \cup Incoming(p, Stored(p) \cup {m})
               owed == PendingReceipts(p, marked)
    <2>1. m \in Ids
      BY <1>4, <1>6, FramesType DEF ReceiveText, Handle
    <2>2. marked \subseteq Ids /\ owed \subseteq Ids
      BY <2>1, StoredFinite DEF Incoming, PendingReceipts
    <2>3. wire' \in [Peers -> Seq(Frames)]
      BY <1>6, <2>2, FramesType, TransmitType DEF ReceiveText
    <2>4. readSent' \in [Peers -> SUBSET Ids]
      <3>1. readSent' = readSent \/ readSent' = [readSent EXCEPT ![p] = @ \cup owed]
        BY <1>6 DEF ReceiveText
      <3>2. readSent[p] \cup owed \in SUBSET Ids
        BY <2>2
      <3> HIDE DEF owed
      <3>3. QED BY <3>1, <3>2
    <2>5. rows' \in [Peers -> Seq(Ids)]
      BY <1>6, <2>1 DEF ReceiveText
    <2>6. /\ read' \in [Peers -> SUBSET Ids] /\ shown' \in [Peers -> SUBSET Ids]
          /\ unread' \in [Peers -> Nat]
      <3>1. CASE current[p]
        <4>1. /\ read' = [read EXCEPT ![p] = marked] /\ unread' = unread
              /\ shown' = [shown EXCEPT ![p] = @ \cup {m}]
          BY <1>6, <3>1 DEF ReceiveText
        <4>2. QED BY <2>1, <2>2, <4>1
      <3>2. CASE ~current[p]
        <4>1. read' = read /\ shown' = shown /\ unread' = [unread EXCEPT ![p] = @ + 1]
          BY <1>6, <3>2 DEF ReceiveText
        <4>2. QED BY <4>1
      <3>3. QED BY <3>1, <3>2
    <2>7. QED BY <1>4, <1>6, <2>3, <2>4, <2>5, <2>6 DEF ReceiveText
  <1>7. ASSUME NEW p \in Peers, HandleAck(p)
        PROVE  TypeOK'
    <2>1. Stored(p) \subseteq Ids
      BY StoredFinite
    <2>2. QED BY <1>4, <1>7, <2>1 DEF HandleAck, MarkDelivered
  <1>8. ASSUME NEW p \in Peers, HandleReceipt(p)
        PROVE  TypeOK'
    <2>1. Stored(p) \subseteq Ids
      BY StoredFinite
    <2>2. QED BY <1>4, <1>8, <2>1 DEF HandleReceipt, MarkPeerRead
  <1>9. ASSUME NEW p \in Peers, HandleOpened(p)
        PROVE  TypeOK'
    <2> DEFINE owed == PendingReceipts(p, read[p])
    <2>1. owed \subseteq Ids
      BY DEF Incoming, PendingReceipts
    <2>2. ReceiptFrames(owed) \in Seq(Frames)
      BY <2>1, FramesType
    <2>3. wire' \in [Peers -> Seq(Frames)]
      <3>1. CASE chanOpen[p]
        <4>1. PICK s \in OldestFirst(Undelivered(p)) :
                Transmit(p, [i \in DOMAIN s |-> Text(s[i])] \o ReceiptFrames(owed))
          BY <1>9, <3>1 DEF HandleOpened
        <4>2. [i \in DOMAIN s |-> Text(s[i])] \o ReceiptFrames(owed) \in Seq(Frames)
          BY <2>2, FlushType, ConcatType
        <4>3. QED BY <4>1, <4>2, TransmitType
      <3>2. CASE ~chanOpen[p]
        BY <1>9, <3>2 DEF HandleOpened
      <3>3. QED BY <3>1, <3>2
    <2>4. readSent' \in [Peers -> SUBSET Ids]
      <3>1. \/ readSent' = [readSent EXCEPT ![p] = readSent[p] \cup owed]
            \/ readSent' = readSent
        BY <1>9 DEF HandleOpened
      <3>2. readSent \in [Peers -> SUBSET Ids]
        OBVIOUS
      <3> HIDE DEF TypeOK, owed
      <3>3. QED BY <2>1, <3>1, <3>2, MarkType
    <2>5. QED BY <1>4, <1>9, <2>3, <2>4 DEF HandleOpened
  <1>10. CASE LinkUp
    BY <1>10 DEF LinkUp, Channel!Establish
  <1>11. ASSUME NEW p \in Peers, OnOpen(p)
         PROVE  TypeOK'
    BY <1>11, FramesType DEF OnOpen, Channel!OpenChannel
  <1>12. ASSUME NEW p \in Peers, OnFrame(p)
         PROVE  TypeOK'
    <2>1. /\ Head(wire[p]) \in Frames /\ Head(wire[p]) \in Events
          /\ Tail(wire[p]) \in Seq(Frames)
      BY <1>12, FramesType DEF OnFrame
    <2>2. Head(wire[p]).t = "msg" => Ack(Head(wire[p]).id) \in Frames
      BY <2>1, FramesType
    <2>3. wire' \in [Peers -> Seq(Frames)]
      <3>1. Head(wire[p]).t = "msg" =>
              Append(wire[Other(p)], Ack(Head(wire[p]).id)) \in Seq(Frames)
        BY <2>2, TwoPeers
      <3>2. PICK w \in Seq(Frames) :
              wire' = [wire EXCEPT ![p] = Tail(@), ![Other(p)] = w]
        BY <1>12, <3>1, TwoPeers DEF OnFrame
      <3>3. QED BY <2>1, <3>2, TwoPeers
    <2>4. events' \in [Peers -> Seq(Events)]
      BY <1>12, <2>1 DEF OnFrame
    <2>5. QED BY <1>12, <2>3, <2>4 DEF OnFrame
  <1>13. CASE LinkBreaks
    BY <1>13, BreakType DEF LinkBreaks
  <1>14. ASSUME NEW p \in Peers, OnClose(p)
         PROVE  TypeOK'
    BY <1>14 DEF OnClose, Channel!Break
  <1>15. ASSUME NEW p \in Peers, Crash(p)
         PROVE  TypeOK'
    <2>1. events' \in [Peers -> Seq(Events)]
      BY <1>15 DEF Crash
    <2>2. /\ current' \in [Peers -> BOOLEAN]
          /\ unread' \in [Peers -> Nat] /\ killed' \subseteq Peers
      BY <1>15 DEF Crash
    <2>3. QED BY <1>15, <2>1, <2>2, BreakType DEF Crash
  <1>16. CASE UNCHANGED vars
    BY <1>16 DEF vars
  <1>17. QED
    BY <1>1, <1>2, <1>3, <1>5, <1>6, <1>7, <1>8, <1>9, <1>10, <1>11, <1>12,
       <1>13, <1>14, <1>15, <1>16
    DEF Next, User, MainThread, StreamThread

LEMMA InitTypes == Init => TypeOK
  <1>1. << >> \in Seq(Ids) /\ << >> \in Seq(Events) /\ << >> \in Seq(Frames)
    OBVIOUS
  <1>3. ASSUME Init
        PROVE  /\ rows \in [Peers -> Seq(Ids)] /\ events \in [Peers -> Seq(Events)]
               /\ wire \in [Peers -> Seq(Frames)]
    BY <1>1, <1>3 DEF Init
  <1>4. ASSUME Init
        PROVE  /\ delivered \in [Peers -> SUBSET Ids] /\ read \in [Peers -> SUBSET Ids]
               /\ readSent \in [Peers -> SUBSET Ids] /\ shown \in [Peers -> SUBSET Ids]
               /\ killed \subseteq Peers
    BY <1>4 DEF Init
  <1>5. ASSUME Init
        PROVE  /\ chanOpen \in [Peers -> BOOLEAN] /\ link \in BOOLEAN
               /\ current \in [Peers -> BOOLEAN]
    BY <1>5 DEF Init
  <1>6. ASSUME Init
        PROVE  unread \in [Peers -> Nat] /\ broken \in Nat
    BY <1>6 DEF Init
  <1>7. QED BY <1>3, <1>4, <1>5, <1>6 DEF TypeOK

\* Every state has the types the code gives them: ids are only ever those of
\* messages, and what travels or waits is a text, an ack, a receipt or an
\* opening.
THEOREM ChatTypeCorrect == Spec => []TypeOK
  <1>1. Init => TypeOK
    BY InitTypes
  <1>2. QED BY <1>1, TypeStep, PTL DEF Spec

----------------------------------------------------------------------------
(* A message is stored once.                                               *)

LEMMA AppendOnce ==
  ASSUME TypeOK, NoDuplicateRow, NEW p \in Peers, NEW m \in Ids, m \notin Stored(p),
         rows' = [rows EXCEPT ![p] = Append(@, m)]
  PROVE  NoDuplicateRow'
  <1>1. /\ rows[p] \in Seq(Ids)
        /\ \A q \in Peers : q # p => rows'[q] = rows[q]
        /\ rows'[p] = Append(rows[p], m)
    BY DEF TypeOK
  <1>2. \A i \in DOMAIN rows[p] : rows[p][i] # m
    BY DEF Stored
  <1>3. \A i, j \in DOMAIN rows'[p] : rows'[p][i] = rows'[p][j] => i = j
    BY <1>1, <1>2 DEF NoDuplicateRow
  <1>4. QED BY <1>1, <1>3 DEF NoDuplicateRow

\* However often a text is sent again after a break or a restart, the receiver
\* stores it once (MainWindow.cpp:423-425).
THEOREM MessagesAreStoredOnce == Spec => []NoDuplicateRow
  <1>1. Init => NoDuplicateRow
    BY DEF Init, NoDuplicateRow
  <1>2. TypeOK /\ NoDuplicateRow /\ [Next]_vars => NoDuplicateRow'
    <2> SUFFICES ASSUME TypeOK, NoDuplicateRow, [Next]_vars
                 PROVE  NoDuplicateRow'
      OBVIOUS
    <2>1. ASSUME NEW p \in Peers, SendText(p)
          PROVE  NoDuplicateRow'
      <3>1. PICK m \in NewIds(p) : rows' = [rows EXCEPT ![p] = Append(@, m)]
        BY <2>1 DEF SendText
      <3>2. m \in Ids /\ m \notin Stored(p)
        BY Bounds DEF NewIds, Ids
      <3>3. QED BY <3>1, <3>2, AppendOnce
    <2>2. ASSUME NEW p \in Peers, ReceiveText(p)
          PROVE  NoDuplicateRow'
      <3> DEFINE m == Head(events[p]).id
      <3>1. m \in Ids
        BY <2>2, FramesType DEF ReceiveText, Handle, TypeOK
      <3>2. rows' = [rows EXCEPT ![p] = Append(@, m)] /\ m \notin Stored(p)
        BY <2>2 DEF ReceiveText
      <3>3. QED BY <3>1, <3>2, AppendOnce
    <2>3. ASSUME rows' = rows
          PROVE  NoDuplicateRow'
      BY <2>3 DEF NoDuplicateRow
    <2>4. ASSUME NEW p \in Peers,
                 \/ SelectContact(p) \/ SelectOther(p) \/ DropDuplicate(p) \/ HandleAck(p)
                 \/ HandleReceipt(p) \/ HandleOpened(p) \/ OnOpen(p) \/ OnFrame(p)
                 \/ OnClose(p) \/ Crash(p)
          PROVE  rows' = rows
      BY <2>4 DEF SelectContact, SelectOther, DropDuplicate, HandleAck, HandleReceipt,
        HandleOpened, OnOpen, OnFrame, OnClose, Crash, table
    <2>5. ASSUME LinkUp \/ LinkBreaks \/ UNCHANGED vars
          PROVE  rows' = rows
      BY <2>5 DEF LinkUp, LinkBreaks, vars, table
    <2>6. QED
      BY <2>1, <2>2, <2>3, <2>4, <2>5 DEF Next, User, MainThread, StreamThread
  <1>3. QED BY <1>1, <1>2, ChatTypeCorrect, PTL DEF Spec

----------------------------------------------------------------------------
(* Marks and badge.                                                        *)

\* The messages a client has shown, or has beneath the page it shows.
Seen(p) == shown[p] \cup Buried(p)

\* The messages a client has, or has yet to take from its event queue.
Held(p) == Stored(p) \cup Waiting(p)

\* What a frame on its way to p, or in the event queue of p, says is true: a
\* text is one the other client wrote and has stored, an ack is of a message of p
\* that the other client holds unless it was killed, a receipt is of messages of
\* p that the other client has seen.
Sound(p) ==
  {f \in Events :
     /\ f.t = "msg" => Author(f.id) = Other(p) /\ f.id \in Stored(Other(p))
     /\ f.t = "ack" => /\ Author(f.id) = p
                       /\ Other(p) \in killed \/ f.id \in Held(Other(p))
     /\ f.t = "read" => \A m \in f.ids : Author(m) = p /\ m \in Seen(Other(p))}

FramesSound ==
  \A p \in Peers : wire[p] \in Seq(Sound(p)) /\ events[p] \in Seq(Sound(p))

\* Marks are of rows; what is on screen is marked read, and what is marked read
\* was on screen or lies beneath a page that was.
MarksInv ==
  \A p \in Peers :
    /\ read[p] \subseteq Stored(p)
    /\ Incoming(p, read[p]) \subseteq Seen(p)
    /\ current[p] => Incoming(p, Stored(p)) \subseteq read[p]

ChatInv ==
  /\ TypeOK
  /\ FramesSound
  /\ MarksInv
  /\ DeliveredIsReceived
  /\ ReadWasShown
  /\ BadgeCountsUnread

LEMMA AuthorType == \A m \in Ids : Author(m) \in Peers
  BY DEF Ids, Author

LEMMA StoredAppend ==
  ASSUME TypeOK, NEW p \in Peers, NEW m \in Ids,
         rows' = [rows EXCEPT ![p] = Append(@, m)]
  PROVE  /\ Stored(p)' = Stored(p) \cup {m}
         /\ \A q \in Peers : q # p => Stored(q)' = Stored(q)
  <1>1. /\ rows[p] \in Seq(Ids)
        /\ \A q \in Peers : q # p => rows'[q] = rows[q]
        /\ rows'[p] = Append(rows[p], m)
    BY DEF TypeOK
  <1>2. /\ DOMAIN rows'[p] = 1..(Len(rows[p]) + 1) /\ DOMAIN rows[p] = 1..Len(rows[p])
        /\ \A i \in 1..Len(rows[p]) : rows'[p][i] = rows[p][i]
        /\ rows'[p][Len(rows[p]) + 1] = m
        /\ Len(rows[p]) \in Nat
    BY <1>1
  <1>3. \A x : x \in Stored(p)' <=> x \in Stored(p) \cup {m}
    <2>1. ASSUME NEW x, x \in Stored(p)'
          PROVE  x \in Stored(p) \cup {m}
      BY <1>2, <2>1 DEF Stored
    <2>2. ASSUME NEW x, x \in Stored(p)
          PROVE  x \in Stored(p)'
      BY <1>2, <2>2 DEF Stored
    <2>3. m \in Stored(p)'
      <3>1. Len(rows[p]) + 1 \in DOMAIN rows'[p]
        BY <1>2
      <3>2. QED BY <1>2, <3>1 DEF Stored
    <2>4. QED BY <2>1, <2>2, <2>3
  <1>4. QED BY <1>1, <1>3 DEF Stored

\* What lies beneath the page stays there.
LEMMA BuriedAppend ==
  ASSUME TypeOK, NEW p \in Peers, NEW m \in Ids,
         rows' = [rows EXCEPT ![p] = Append(@, m)]
  PROVE  \A q \in Peers : Buried(q) \subseteq Buried(q)'
  <1>1. /\ rows[p] \in Seq(Ids)
        /\ \A q \in Peers : q # p => rows'[q] = rows[q]
        /\ rows'[p] = Append(rows[p], m)
    BY DEF TypeOK
  <1>2. /\ DOMAIN rows'[p] = 1..(Len(rows[p]) + 1) /\ DOMAIN rows[p] = 1..Len(rows[p])
        /\ \A i \in 1..Len(rows[p]) : rows'[p][i] = rows[p][i]
        /\ Len(rows'[p]) = Len(rows[p]) + 1 /\ Len(rows[p]) \in Nat
    BY <1>1
  <1>3. ASSUME NEW i \in DOMAIN rows[p], ~OnPage(p, i)
        PROVE  i \in DOMAIN rows'[p] /\ ~OnPage(p, i)' /\ rows'[p][i] = rows[p][i]
    BY <1>2, <1>3, Bounds DEF OnPage
  <1>4. Buried(p) \subseteq Buried(p)'
    BY <1>3 DEF Buried
  <1>5. \A q \in Peers : q # p => Buried(q)' = Buried(q)
    BY <1>1 DEF Buried, OnPage
  <1>6. QED BY <1>4, <1>5

\* What the event queue holds after a signal was added, and after its head was
\* taken.
LEMMA WaitingPush ==
  ASSUME TypeOK, NEW p \in Peers, NEW e \in Events,
         events' = [events EXCEPT ![p] = Append(@, e)]
  PROVE  /\ \A q \in Peers : q # p => Waiting(q)' = Waiting(q)
         /\ e.t = "msg" => Waiting(p)' = Waiting(p) \cup {e.id}
         /\ e.t # "msg" => Waiting(p)' = Waiting(p)
  <1>1. /\ events[p] \in Seq(Events)
        /\ \A q \in Peers : q # p => events'[q] = events[q]
        /\ events'[p] = Append(events[p], e)
    BY DEF TypeOK
  <1>2. /\ DOMAIN events'[p] = 1..(Len(events[p]) + 1)
        /\ DOMAIN events[p] = 1..Len(events[p])
        /\ \A i \in 1..Len(events[p]) : events'[p][i] = events[p][i]
        /\ events'[p][Len(events[p]) + 1] = e
        /\ Len(events[p]) \in Nat
    BY <1>1
  <1>3. Waiting(p) \subseteq Waiting(p)'
    BY <1>2 DEF Waiting
  <1>4. ASSUME e.t = "msg"
        PROVE  e.id \in Waiting(p)'
    <2>1. Len(events[p]) + 1 \in {j \in DOMAIN events'[p] : events'[p][j].t = "msg"}
      BY <1>2, <1>4
    <2>2. QED BY <1>2, <2>1 DEF Waiting
  <1>5. ASSUME NEW x \in Waiting(p)'
        PROVE  x \in Waiting(p) \/ (e.t = "msg" /\ x = e.id)
    <2>1. PICK i \in DOMAIN events'[p] : events'[p][i].t = "msg" /\ x = events'[p][i].id
      BY DEF Waiting
    <2>2. CASE i = Len(events[p]) + 1
      BY <1>2, <2>1, <2>2
    <2>3. CASE i # Len(events[p]) + 1
      <3>1. i \in 1..(Len(events[p]) + 1) /\ i # Len(events[p]) + 1
        BY <1>2, <2>3
      <3>2. i \in 1..Len(events[p])
        BY <1>2, <3>1
      <3>3. i \in DOMAIN events[p] /\ events'[p][i] = events[p][i]
        BY <1>2, <3>2
      <3>4. QED BY <2>1, <3>3 DEF Waiting
    <2>4. QED BY <2>2, <2>3
  <1>6. \A q \in Peers : q # p => Waiting(q)' = Waiting(q)
    BY <1>1 DEF Waiting
  <1>7. e.t = "msg" => Waiting(p)' = Waiting(p) \cup {e.id}
    BY <1>3, <1>4, <1>5
  <1>8. e.t # "msg" => Waiting(p)' = Waiting(p)
    BY <1>3, <1>5
  <1>9. QED BY <1>6, <1>7, <1>8

LEMMA WaitingPop ==
  ASSUME TypeOK, NEW p \in Peers, NEW kind, Handle(p, kind)
  PROVE  /\ \A q \in Peers : q # p => Waiting(q)' = Waiting(q)
         /\ kind # "msg" => Waiting(p) \subseteq Waiting(p)'
         /\ Waiting(p) \subseteq Waiting(p)' \cup {Head(events[p]).id}
         /\ Waiting(p)' \subseteq Waiting(p)
         /\ kind = "msg" => Head(events[p]).id \in Waiting(p)
  <1>1. /\ events[p] \in Seq(Events) /\ events[p] # << >>
        /\ \A q \in Peers : q # p => events'[q] = events[q]
        /\ events'[p] = Tail(events[p])
        /\ Head(events[p]).t = kind
    BY DEF TypeOK, Handle
  <1>2. /\ DOMAIN events[p] = 1..Len(events[p])
        /\ DOMAIN events'[p] = 1..(Len(events[p]) - 1)
        /\ \A i \in 1..(Len(events[p]) - 1) : events'[p][i] = events[p][i + 1]
        /\ Head(events[p]) = events[p][1]
        /\ Len(events[p]) \in Nat
    BY <1>1
  <1>3. ASSUME NEW i \in DOMAIN events[p], events[p][i].t = "msg"
        PROVE  \/ events[p][i].id \in Waiting(p)'
               \/ i = 1
    <2>1. CASE i # 1
      <3>1. i - 1 \in DOMAIN events'[p] /\ events'[p][i - 1] = events[p][i]
        BY <1>2, <2>1
      <3>2. QED BY <1>3, <3>1 DEF Waiting
    <2>2. QED BY <2>1
  <1>4. Waiting(p)' \subseteq Waiting(p)
    <2>1. ASSUME NEW i \in DOMAIN events'[p]
          PROVE  i + 1 \in DOMAIN events[p] /\ events'[p][i] = events[p][i + 1]
      BY <1>2
    <2>2. QED BY <2>1 DEF Waiting
  <1>5. kind = "msg" => Head(events[p]).id \in Waiting(p)
    <2>1. 1 \in DOMAIN events[p]
      BY <1>1
    <2>2. QED BY <1>1, <1>2, <2>1 DEF Waiting
  <1>6. /\ kind # "msg" => Waiting(p) \subseteq Waiting(p)'
        /\ Waiting(p) \subseteq Waiting(p)' \cup {Head(events[p]).id}
    BY <1>1, <1>2, <1>3, SMTT(40) DEF Waiting
  <1>7. \A q \in Peers : q # p => Waiting(q)' = Waiting(q)
    BY <1>1 DEF Waiting
  <1>8. QED BY <1>4, <1>5, <1>6, <1>7

----------------------------------------------------------------------------
(* What is true of a frame stays true.                                     *)

Grows ==
  /\ killed \subseteq killed'
  /\ \A q \in Peers : /\ shown[q] \subseteq shown'[q]
                      /\ Buried(q) \subseteq Buried(q)'
                      /\ Stored(q) \subseteq Stored(q)'
                      /\ q \in killed' \/ Held(q) \subseteq Held(q)'

LEMMA GrowsStep ==
  ASSUME TypeOK, [Next]_vars
  PROVE  Grows
  <1> USE DEF table, channel, screen, faults
  <1>1. ASSUME rows' = rows, events' = events
        PROVE  \A q \in Peers : /\ Held(q)' = Held(q) /\ Stored(q)' = Stored(q)
                              /\ Buried(q)' = Buried(q)
    BY <1>1 DEF Held, Stored, Waiting, Buried, OnPage
  <1>0. ASSUME rows' = rows
        PROVE  \A q \in Peers : Buried(q)' = Buried(q)
    BY <1>0 DEF Buried, OnPage
  <1>2. ASSUME NEW p \in Peers, SendText(p)
        PROVE  Grows
    <2>1. PICK m \in NewIds(p) : rows' = [rows EXCEPT ![p] = Append(@, m)]
      BY <1>2 DEF SendText
    <2>2. m \in Ids
      BY Bounds DEF NewIds, Ids
    <2>3. \A q \in Peers : Stored(q) \subseteq Stored(q)' /\ Buried(q) \subseteq Buried(q)'
      BY <2>1, <2>2, StoredAppend, BuriedAppend
    <2>4. \A q \in Peers : Waiting(q)' = Waiting(q)
      BY <1>2 DEF SendText, Waiting
    <2>5. QED BY <1>2, <2>3, <2>4 DEF SendText, Grows, Held
  <1>3. ASSUME NEW p \in Peers, SelectContact(p)
        PROVE  Grows
    <2>1. \A q \in Peers : shown[q] \subseteq shown'[q]
      BY <1>3 DEF SelectContact, TypeOK
    <2>2. rows' = rows /\ events' = events /\ killed' = killed
      BY <1>3 DEF SelectContact
    <2>3. QED BY <1>1, <2>1, <2>2 DEF Grows
  <1>4. ASSUME NEW p \in Peers, ReceiveText(p)
        PROVE  Grows
    <2> DEFINE m == Head(events[p]).id
    <2>1. m \in Ids
      BY <1>4, FramesType DEF ReceiveText, Handle, TypeOK
    <2>2. rows' = [rows EXCEPT ![p] = Append(@, m)] /\ Handle(p, "msg")
      BY <1>4 DEF ReceiveText
    <2> HIDE DEF m
    <2>3. /\ Stored(p)' = Stored(p) \cup {m}
          /\ \A q \in Peers : q # p => Stored(q)' = Stored(q)
      BY <2>1, <2>2, StoredAppend
    <2>4. /\ Waiting(p) \subseteq Waiting(p)' \cup {m}
          /\ \A q \in Peers : q # p => Waiting(q)' = Waiting(q)
      BY <2>2, WaitingPop DEF m
    <2>5. \A q \in Peers : Held(q) \subseteq Held(q)'
      BY <2>3, <2>4 DEF Held
    <2>6. \A q \in Peers : shown[q] \subseteq shown'[q]
      <3>1. shown' = shown \/ \E x : shown' = [shown EXCEPT ![p] = @ \cup {x}]
        BY <1>4 DEF ReceiveText
      <3>2. QED BY <3>1 DEF TypeOK
    <2>7. killed' = killed
      BY <1>4 DEF ReceiveText
    <2>8. \A q \in Peers : Buried(q) \subseteq Buried(q)'
      BY <2>1, <2>2, BuriedAppend
    <2>9. QED BY <2>3, <2>5, <2>6, <2>7, <2>8 DEF Grows
  <1>5. ASSUME NEW p \in Peers, DropDuplicate(p)
        PROVE  Grows
    <2>1. Handle(p, "msg") /\ Head(events[p]).id \in Stored(p)
      BY <1>5 DEF DropDuplicate
    <2>2. \A q \in Peers : Stored(q)' = Stored(q)
      BY <1>5 DEF DropDuplicate, Stored
    <2>3. /\ Waiting(p) \subseteq Waiting(p)' \cup {Head(events[p]).id}
          /\ \A q \in Peers : q # p => Waiting(q)' = Waiting(q)
      BY <2>1, WaitingPop
    <2>4. \A q \in Peers : Held(q) \subseteq Held(q)'
      BY <2>1, <2>2, <2>3 DEF Held
    <2>5. QED BY <1>0, <1>5, <2>2, <2>4 DEF DropDuplicate, Grows
  <1>6. ASSUME NEW p \in Peers, HandleAck(p) \/ HandleReceipt(p) \/ HandleOpened(p)
        PROVE  Grows
    <2>1. /\ Handle(p, "ack") \/ Handle(p, "read") \/ Handle(p, "open")
          /\ rows' = rows /\ shown' = shown /\ killed' = killed
      BY <1>6 DEF HandleAck, HandleReceipt, HandleOpened
    <2>2. \A q \in Peers : Stored(q)' = Stored(q)
      BY <2>1 DEF Stored
    <2>3. \A q \in Peers : Waiting(q) \subseteq Waiting(q)'
      <3>1. PICK kind \in {"ack", "read", "open"} : Handle(p, kind)
        BY <2>1
      <3>2. QED BY <3>1, WaitingPop
    <2>4. QED BY <1>0, <2>1, <2>2, <2>3 DEF Grows, Held
  <1>7. ASSUME NEW p \in Peers, OnOpen(p) \/ OnFrame(p)
        PROVE  Grows
    <2>1. /\ rows' = rows /\ shown' = shown /\ killed' = killed
          /\ \E e \in Events : events' = [events EXCEPT ![p] = Append(@, e)]
      BY <1>7, FramesType DEF OnOpen, OnFrame, TypeOK
    <2>2. \A q \in Peers : Stored(q)' = Stored(q)
      BY <2>1 DEF Stored
    <2>3. \A q \in Peers : Waiting(q) \subseteq Waiting(q)'
      <3>1. PICK e \in Events : events' = [events EXCEPT ![p] = Append(@, e)]
        BY <2>1
      <3>2. QED BY <3>1, WaitingPush
    <2>4. QED BY <1>0, <2>1, <2>2, <2>3 DEF Grows, Held
  <1>8. ASSUME NEW p \in Peers, Crash(p)
        PROVE  Grows
    <2>1. /\ rows' = rows /\ shown' = shown /\ killed' = killed \cup {p}
          /\ \A q \in Peers : q # p => events'[q] = events[q]
      BY <1>8 DEF Crash, TypeOK
    <2>2. \A q \in Peers : q # p => Held(q)' = Held(q)
      BY <2>1 DEF Held, Stored, Waiting
    <2>3. \A q \in Peers : Stored(q)' = Stored(q)
      BY <2>1 DEF Stored
    <2>4. QED BY <1>0, <2>1, <2>2, <2>3 DEF Grows
  <1>9. ASSUME \/ LinkUp \/ LinkBreaks \/ UNCHANGED vars
               \/ \E p \in Peers : SelectOther(p) \/ OnClose(p)
        PROVE  Grows
    <2>1. rows' = rows /\ events' = events /\ shown' = shown /\ killed' = killed
      BY <1>9 DEF LinkUp, LinkBreaks, vars, SelectOther, OnClose
    <2>2. QED BY <1>1, <2>1 DEF Grows
  <1>10. QED
    BY <1>2, <1>3, <1>4, <1>5, <1>6, <1>7, <1>8, <1>9
    DEF Next, User, MainThread, StreamThread

LEMMA SoundGrows ==
  ASSUME Grows, NEW p \in Peers
  PROVE  Sound(p) \subseteq Sound(p)'
  <1>1. Other(p) \in Peers
    BY TwoPeers
  <1>2. QED BY <1>1 DEF Grows, Sound, Seen

LEMMA SeqMono ==
  ASSUME NEW S, NEW T, S \subseteq T, NEW s \in Seq(S)
  PROVE  s \in Seq(T)
  OBVIOUS

\* What is in flight or waiting, and what is added to it, is sound after a step.
LEMMA KeptSound ==
  ASSUME Grows, FramesSound, NEW p \in Peers
  PROVE  wire[p] \in Seq(Sound(p)') /\ events[p] \in Seq(Sound(p)')
  BY SoundGrows, SeqMono DEF FramesSound

LEMMA WireSound ==
  ASSUME TypeOK, Grows, FramesSound, NEW p \in Peers,
         NEW fs \in Seq(Sound(Other(p))'), Transmit(p, fs)
  PROVE  \A q \in Peers : wire'[q] \in Seq(Sound(q)')
  <1>1. CASE link
    <2>1. wire' = [wire EXCEPT ![Other(p)] = @ \o fs]
      BY <1>1 DEF Transmit
    <2>2. wire[Other(p)] \in Seq(Sound(Other(p))')
      BY TwoPeers, KeptSound
    <2>3. wire[Other(p)] \o fs \in Seq(Sound(Other(p))')
      BY <2>2
    <2>4. wire'[Other(p)] \in Seq(Sound(Other(p))')
      BY <2>1, <2>3, TwoPeers DEF TypeOK
    <2>5. ASSUME NEW q \in Peers, q # Other(p)
          PROVE  wire'[q] \in Seq(Sound(q)')
      BY <2>1, <2>5, KeptSound DEF TypeOK
    <2>6. QED BY <2>4, <2>5
  <1>2. CASE ~link
    <2>1. wire' = wire
      BY <1>2 DEF Transmit
    <2>2. QED BY <2>1, KeptSound
  <1>3. QED BY <1>1, <1>2

LEMMA EventsSound ==
  ASSUME TypeOK, Grows, FramesSound, NEW p \in Peers,
         NEW es \in Seq(Sound(p)'), events' = [events EXCEPT ![p] = es]
  PROVE  \A q \in Peers : events'[q] \in Seq(Sound(q)')
  <1>1. ASSUME NEW q \in Peers, q # p
        PROVE  events'[q] \in Seq(Sound(q)')
    BY <1>1, KeptSound DEF TypeOK
  <1>2. events'[p] \in Seq(Sound(p)')
    BY DEF TypeOK
  <1>3. QED BY <1>1, <1>2

LEMMA PopSound ==
  ASSUME TypeOK, Grows, FramesSound, NEW p \in Peers, NEW kind, Handle(p, kind)
  PROVE  /\ \A q \in Peers : events'[q] \in Seq(Sound(q)')
         /\ Head(events[p]) \in Sound(p)
  <1>1. events[p] \in Seq(Sound(p)') /\ events[p] \in Seq(Sound(p)) /\ events[p] # << >>
    BY KeptSound DEF FramesSound, Handle
  <1>2. Tail(events[p]) \in Seq(Sound(p)') /\ Head(events[p]) \in Sound(p)
    BY <1>1
  <1>3. events' = [events EXCEPT ![p] = Tail(events[p])]
    BY DEF Handle
  <1>4. QED BY <1>2, <1>3, EventsSound

\* A receipt is sound when the messages it is of are incoming and were seen.
LEMMA ReceiptSound ==
  ASSUME NEW p \in Peers, NEW ms, ms \subseteq Ids, Incoming(p, ms) = ms,
         ms \subseteq Seen(p)'
  PROVE  ReceiptFrames(ms) \in Seq(Sound(Other(p))')
  <1>1. \A m \in ms : Author(m) = Other(p) /\ m \in Seen(Other(Other(p)))'
    BY TwoPeers, AuthorType DEF Incoming
  <1>2. Receipt(ms) \in Events /\ Receipt(ms).t = "read" /\ Receipt(ms).ids = ms
    BY DEF Receipt, Events, Frames
  <1>3. Receipt(ms) \in Sound(Other(p))'
    BY <1>1, <1>2 DEF Sound
  <1>4. << Receipt(ms) >> \in Seq(Sound(Other(p))') /\ << >> \in Seq(Sound(Other(p))')
    BY <1>3
  <1>5. QED BY <1>4 DEF ReceiptFrames

\* So is a text its author has stored.
LEMMA TextSound ==
  ASSUME NEW p \in Peers, NEW m \in Ids, Author(m) = p, m \in Stored(p)'
  PROVE  Text(m) \in Sound(Other(p))'
  <1>1. Text(m) \in Events /\ Text(m).t = "msg" /\ Text(m).id = m
    BY FramesType DEF Text
  <1>2. QED BY <1>1, TwoPeers DEF Sound

\* The messages a client may mark read and report: those it has seen.
LEMMA MarkedSeen ==
  ASSUME TypeOK, MarksInv, NEW p \in Peers, NEW ms, ms \subseteq Ids,
         Incoming(p, ms) \subseteq Seen(p)'
  PROVE  LET owed == PendingReceipts(p, ms) IN
           owed \subseteq Ids /\ Incoming(p, owed) = owed /\ owed \subseteq Seen(p)'
  BY DEF PendingReceipts, Incoming

LEMMA SoundStep ==
  ASSUME TypeOK, FramesSound, MarksInv, [Next]_vars
  PROVE  FramesSound'
  <1>1. Grows
    BY GrowsStep
  <1>2. ASSUME wire' = wire
        PROVE  \A q \in Peers : wire'[q] \in Seq(Sound(q)')
    BY <1>1, <1>2, KeptSound
  <1>3. ASSUME events' = events
        PROVE  \A q \in Peers : events'[q] \in Seq(Sound(q)')
    BY <1>1, <1>3, KeptSound
  <1>4. ASSUME NEW p \in Peers, SendText(p)
        PROVE  FramesSound'
    <2>1. PICK m \in NewIds(p) :
            /\ rows' = [rows EXCEPT ![p] = Append(@, m)]
            /\ IF chanOpen[p] THEN Transmit(p, << Text(m) >>) ELSE UNCHANGED wire
      BY <1>4 DEF SendText
    <2>2. m \in Ids /\ Author(m) = p
      BY Bounds DEF NewIds, Ids, Author
    <2>3. << Text(m) >> \in Seq(Sound(Other(p))')
      <3>1. m \in Stored(p)'
        <4>1. rows' = [rows EXCEPT ![p] = Append(@, m)] /\ m \in Ids
          BY <2>1, <2>2
        <4>2. Stored(p)' = Stored(p) \cup {m}
          BY <4>1, StoredAppend
        <4>3. QED BY <4>2
      <3>2. Text(m) \in Sound(Other(p))'
        BY <2>2, <3>1, TextSound
      <3>3. QED BY <3>2
    <2>4. \A q \in Peers : wire'[q] \in Seq(Sound(q)')
      BY <1>1, <1>2, <2>1, <2>3, WireSound
    <2>5. events' = events
      BY <1>4 DEF SendText
    <2>6. QED BY <1>3, <2>4, <2>5 DEF FramesSound
  <1>5. ASSUME NEW p \in Peers, SelectContact(p)
        PROVE  FramesSound'
    <2> DEFINE marked == read[p] \cup Incoming(p, Stored(p))
               owed == PendingReceipts(p, marked)
    <2>1. shown'[p] = shown[p] \cup Incoming(p, Page(p)) /\ Buried(p)' = Buried(p)
      BY <1>5 DEF SelectContact, TypeOK, Buried, OnPage
    <2>2. marked \subseteq Ids /\ Incoming(p, marked) \subseteq Seen(p)'
      BY <2>1, StoredFinite, PageOrBuried DEF MarksInv, Incoming, TypeOK, Seen
    <2>3. (IF chanOpen[p] THEN Transmit(p, ReceiptFrames(owed)) ELSE UNCHANGED wire)
          /\ events' = events
      BY <1>5 DEF SelectContact
    <2> HIDE DEF marked
    <2>4. ReceiptFrames(owed) \in Seq(Sound(Other(p))')
      BY <2>2, MarkedSeen, ReceiptSound
    <2>5. QED BY <1>1, <1>2, <1>3, <2>3, <2>4, WireSound DEF FramesSound
  <1>6. ASSUME NEW p \in Peers, ReceiveText(p)
        PROVE  FramesSound'
    <2> DEFINE m == Head(events[p]).id
               marked == read[p] \cup Incoming(p, Stored(p) \cup {m})
               owed == PendingReceipts(p, marked)
    <2>1. m \in Ids /\ Handle(p, "msg")
      BY <1>6, FramesType DEF ReceiveText, Handle, TypeOK
    <2>2. \A q \in Peers : events'[q] \in Seq(Sound(q)')
      BY <1>1, <2>1, PopSound
    <2>3. CASE current[p] /\ chanOpen[p]
      <3>1. shown'[p] = shown[p] \cup {m} /\ Transmit(p, ReceiptFrames(owed))
        BY <1>6, <2>3 DEF ReceiveText, TypeOK
      <3>2. marked \subseteq Ids /\ Incoming(p, marked) \subseteq Seen(p)'
        <4>1. Buried(p) \subseteq Buried(p)'
          BY <1>1 DEF Grows
        <4>2. QED
          BY <2>1, <2>3, <3>1, <4>1, StoredFinite DEF MarksInv, Incoming, TypeOK, Seen
      <3> HIDE DEF marked
      <3>3. ReceiptFrames(owed) \in Seq(Sound(Other(p))')
        BY <3>2, MarkedSeen, ReceiptSound
      <3>4. QED BY <1>1, <2>2, <3>1, <3>3, WireSound DEF FramesSound
    <2>4. CASE ~(current[p] /\ chanOpen[p])
      <3>1. wire' = wire
        BY <1>6, <2>4 DEF ReceiveText
      <3>2. QED BY <1>2, <2>2, <3>1 DEF FramesSound
    <2>5. QED BY <2>3, <2>4
  <1>7. ASSUME NEW p \in Peers, DropDuplicate(p) \/ HandleAck(p) \/ HandleReceipt(p)
        PROVE  FramesSound'
    <2>1. wire' = wire /\ (Handle(p, "msg") \/ Handle(p, "ack") \/ Handle(p, "read"))
      BY <1>7 DEF DropDuplicate, HandleAck, HandleReceipt, channel
    <2>2. QED BY <1>1, <1>2, <2>1, PopSound DEF FramesSound
  <1>8. ASSUME NEW p \in Peers, HandleOpened(p)
        PROVE  FramesSound'
    <2> DEFINE owed == PendingReceipts(p, read[p])
    <2>1. \A q \in Peers : events'[q] \in Seq(Sound(q)')
      BY <1>1, <1>8, PopSound DEF HandleOpened
    <2>2. CASE chanOpen[p]
      <3>1. PICK s \in OldestFirst(Undelivered(p)) :
              Transmit(p, [i \in DOMAIN s |-> Text(s[i])] \o ReceiptFrames(owed))
        BY <1>8, <2>2 DEF HandleOpened
      <3>2. \A m \in Undelivered(p) : m \in Ids /\ Author(m) = p /\ m \in Stored(p)'
        BY <1>1, StoredFinite DEF Undelivered, Own, Grows
      <3>3. {Text(m) : m \in Undelivered(p)} \subseteq Sound(Other(p))'
        BY <3>2, TextSound
      <3>4. [i \in DOMAIN s |-> Text(s[i])] \in Seq(Sound(Other(p))')
        BY <3>3, FlushType, SeqMono
      <3>5. read[p] \subseteq Ids /\ Incoming(p, read[p]) \subseteq Seen(p)'
        BY <1>1, <1>8 DEF HandleOpened, MarksInv, TypeOK, screen, Seen, Grows
      <3>6. ReceiptFrames(owed) \in Seq(Sound(Other(p))')
        BY <3>5, MarkedSeen, ReceiptSound
      <3>7. [i \in DOMAIN s |-> Text(s[i])] \o ReceiptFrames(owed) \in Seq(Sound(Other(p))')
        BY <3>4, <3>6, ConcatProperties
      <3>8. QED BY <1>1, <2>1, <3>1, <3>7, WireSound DEF FramesSound
    <2>3. CASE ~chanOpen[p]
      <3>1. wire' = wire
        BY <1>8, <2>3 DEF HandleOpened
      <3>2. QED BY <1>2, <2>1, <3>1 DEF FramesSound
    <2>4. QED BY <2>2, <2>3
  <1>9. ASSUME NEW p \in Peers, OnOpen(p)
        PROVE  FramesSound'
    <2>1. wire' = wire /\ events' = [events EXCEPT ![p] = Append(@, Opened)]
      BY <1>9 DEF OnOpen
    <2>2. Opened \in Sound(p)'
      BY FramesType DEF Opened, Sound
    <2>3. Append(events[p], Opened) \in Seq(Sound(p)')
      BY <1>1, <2>2, KeptSound
    <2>4. QED BY <1>1, <1>2, <2>1, <2>3, EventsSound DEF FramesSound
  <1>10. ASSUME NEW p \in Peers, OnFrame(p)
         PROVE  FramesSound'
    <2> DEFINE f == Head(wire[p])
    <2>1. /\ events' = [events EXCEPT ![p] = Append(@, f)]
          /\ wire' = [wire EXCEPT ![p] = Tail(@),
                                  ![Other(p)] = IF f.t = "msg" THEN Append(@, Ack(f.id))
                                                ELSE @]
          /\ wire[p] # << >>
      BY <1>10 DEF OnFrame
    <2>2. wire[p] \in Seq(Sound(p)') /\ wire[Other(p)] \in Seq(Sound(Other(p))')
      BY <1>1, KeptSound, TwoPeers
    <2>3. f \in Sound(p)' /\ Tail(wire[p]) \in Seq(Sound(p)') /\ f \in Events
      BY <2>1, <2>2 DEF Sound
    <2> HIDE DEF f
    <2>4. Append(events[p], f) \in Seq(Sound(p)')
      BY <1>1, <2>3, KeptSound
    <2>5. \A q \in Peers : events'[q] \in Seq(Sound(q)')
      BY <1>1, <2>1, <2>4, EventsSound
    <2>6. ASSUME f.t = "msg"
          PROVE  Ack(f.id) \in Sound(Other(p))'
      <3>0. events' = [events EXCEPT ![p] = Append(@, f)] /\ Author(f.id) = Other(p)
        BY <2>1, <2>3, <2>6 DEF Sound
      <3>1. f.id \in Waiting(p)' /\ Author(f.id) = Other(p)
        BY <1>1, <2>3, <2>6, <3>0, WaitingPush
      <3>2. Ack(f.id) \in Events /\ Ack(f.id).t = "ack" /\ Ack(f.id).id = f.id
        BY <2>3, <2>6, FramesType DEF Ack
      <3>3. QED BY <3>1, <3>2, TwoPeers DEF Sound, Held
    <2>7. PICK w \in Seq(Sound(Other(p))') :
            wire' = [wire EXCEPT ![p] = Tail(@), ![Other(p)] = w]
      <3>1. CASE f.t = "msg"
        <4>1. Append(wire[Other(p)], Ack(f.id)) \in Seq(Sound(Other(p))')
          BY <2>2, <2>6, <3>1
        <4>2. wire' = [wire EXCEPT ![p] = Tail(@),
                                   ![Other(p)] = Append(wire[Other(p)], Ack(f.id))]
          BY <2>1, <3>1, TwoPeers DEF TypeOK
        <4>3. QED BY <4>1, <4>2
      <3>2. CASE f.t # "msg"
        <4>1. wire' = [wire EXCEPT ![p] = Tail(@), ![Other(p)] = wire[Other(p)]]
          BY <2>1, <3>2, TwoPeers DEF TypeOK
        <4>2. QED BY <2>2, <4>1
      <3>3. QED BY <3>1, <3>2
    <2>8. wire'[p] = Tail(wire[p]) /\ wire'[Other(p)] = w
      BY <2>7, TwoPeers DEF TypeOK
    <2>9. QED BY <2>3, <2>5, <2>8, TwoPeers DEF FramesSound
  <1>11. ASSUME Break
         PROVE  \A q \in Peers : wire'[q] \in Seq(Sound(q)')
    <2>1. \A q \in Peers : wire'[q] = << >>
      BY <1>11 DEF Break
    <2>2. \A q \in Peers : << >> \in Seq(Sound(q)')
      OBVIOUS
    <2>3. QED BY <2>1, <2>2
  <1>12. ASSUME NEW p \in Peers, Crash(p)
         PROVE  FramesSound'
    <2>1. events' = [events EXCEPT ![p] = << >>] /\ Break
      BY <1>12 DEF Crash
    <2>2. << >> \in Seq(Sound(p)')
      OBVIOUS
    <2>3. QED BY <1>1, <1>11, <2>1, <2>2, EventsSound DEF FramesSound
  <1>13. ASSUME \/ LinkUp \/ LinkBreaks \/ UNCHANGED vars
                \/ \E p \in Peers : SelectOther(p) \/ OnClose(p)
         PROVE  FramesSound'
    <2>1. events' = events /\ (wire' = wire \/ Break)
      BY <1>13 DEF LinkUp, LinkBreaks, vars, channel, SelectOther, OnClose
    <2>2. QED BY <1>2, <1>3, <1>11, <2>1 DEF FramesSound
  <1>14. QED
    BY <1>4, <1>5, <1>6, <1>7, <1>8, <1>9, <1>10, <1>12, <1>13
    DEF Next, User, MainThread, StreamThread

\* Read marks are of rows that were on the reader's screen.
LEMMA MarksStep ==
  ASSUME TypeOK, FramesSound, MarksInv, ReadWasShown, [Next]_vars
  PROVE  MarksInv' /\ ReadWasShown'
  <1> USE DEF table, channel, screen, faults
  <1>0. \A q \in Peers : Seen(q) \subseteq Seen(q)'
    BY GrowsStep DEF Grows, Seen
  <1>1. ASSUME rows' = rows, read' = read, shown' = shown, current' = current
        PROVE  MarksInv' /\ ReadWasShown'
    BY <1>0, <1>1, TwoPeers DEF MarksInv, ReadWasShown, Stored, Seen
  <1>2. ASSUME NEW p \in Peers, SendText(p)
        PROVE  MarksInv' /\ ReadWasShown'
    <2>1. PICK m \in NewIds(p) : rows' = [rows EXCEPT ![p] = Append(@, m)]
      BY <1>2 DEF SendText
    <2>2. m \in Ids /\ Author(m) = p
      BY Bounds DEF NewIds, Ids, Author
    <2>3. /\ Stored(p)' = Stored(p) \cup {m}
          /\ \A q \in Peers : q # p => Stored(q)' = Stored(q)
      BY <2>1, <2>2, StoredAppend
    <2>4. read' = read /\ shown' = shown /\ current' = current
      BY <1>2 DEF SendText
    <2>5. \A q \in Peers : Incoming(q, Stored(q))' = Incoming(q, Stored(q))
      BY <2>2, <2>3 DEF Incoming
    <2>6. MarksInv'
      BY <1>0, <2>3, <2>4, <2>5 DEF MarksInv, Incoming
    <2>7. QED BY <1>0, <2>4, <2>6, TwoPeers DEF ReadWasShown, Seen
  <1>3. ASSUME NEW p \in Peers, SelectContact(p)
        PROVE  MarksInv' /\ ReadWasShown'
    <2>1. /\ rows' = rows
          /\ read'[p] = read[p] \cup Incoming(p, Stored(p))
          /\ shown'[p] = shown[p] \cup Incoming(p, Page(p))
          /\ \A q \in Peers : q # p => /\ read'[q] = read[q] /\ shown'[q] = shown[q]
                                       /\ current'[q] = current[q]
      BY <1>3 DEF SelectContact, TypeOK
    <2>2. \A q \in Peers : Stored(q)' = Stored(q)
      BY <2>1 DEF Stored
    <2>3. Incoming(p, Stored(p)) \subseteq Seen(p)'
      <3>1. Buried(p)' = Buried(p)
        BY <2>1 DEF Buried, OnPage
      <3>2. QED BY <2>1, <3>1, PageOrBuried DEF Seen, Incoming
    <2>4. MarksInv'
      BY <1>0, <2>1, <2>2, <2>3 DEF MarksInv, Incoming
    <2>5. \A q \in Peers : Own(q, read'[q]) = Own(q, read[q])
      BY <2>1 DEF Own, Incoming
    <2>6. QED BY <1>0, <2>4, <2>5, TwoPeers DEF ReadWasShown, Seen
  <1>4. ASSUME NEW p \in Peers, ReceiveText(p)
        PROVE  MarksInv' /\ ReadWasShown'
    <2> DEFINE m == Head(events[p]).id
    <2>1. Handle(p, "msg") /\ m \in Ids
      BY <1>4, FramesType DEF ReceiveText, Handle, TypeOK
    <2>2. Author(m) # p
      <3>1. Head(events[p]) \in Sound(p)
        BY <2>1, GrowsStep, PopSound
      <3>2. QED BY <2>1, <3>1, TwoPeers DEF Sound, Handle
    <2>3. rows' = [rows EXCEPT ![p] = Append(@, m)] /\ current' = current
      BY <1>4 DEF ReceiveText
    <2>4. CASE current[p]
      <3>1. /\ read' = [read EXCEPT ![p] = @ \cup Incoming(p, Stored(p) \cup {m})]
            /\ shown' = [shown EXCEPT ![p] = @ \cup {m}]
        BY <1>4, <2>4 DEF ReceiveText
      <3> HIDE DEF m
      <3>2. /\ Stored(p)' = Stored(p) \cup {m}
            /\ \A q \in Peers : q # p => Stored(q)' = Stored(q)
        BY <2>1, <2>3, StoredAppend
      <3>3. /\ read'[p] = read[p] \cup Incoming(p, Stored(p) \cup {m})
            /\ shown'[p] = shown[p] \cup {m}
            /\ \A q \in Peers : q # p => read'[q] = read[q] /\ shown'[q] = shown[q]
        BY <3>1 DEF TypeOK
      <3>4. m \in Seen(p)'
        BY <3>3 DEF Seen
      <3>5. MarksInv'
        BY <1>0, <2>3, <2>4, <3>2, <3>3, <3>4 DEF MarksInv, Incoming
      <3>6. \A q \in Peers : Own(q, read'[q]) = Own(q, read[q])
        BY <3>3 DEF Own, Incoming
      <3>7. QED BY <1>0, <3>5, <3>6, TwoPeers DEF ReadWasShown, Seen
    <2>5. CASE ~current[p]
      <3>1. read' = read /\ shown' = shown
        BY <1>4, <2>5 DEF ReceiveText
      <3> HIDE DEF m
      <3>2. /\ Stored(p)' = Stored(p) \cup {m}
            /\ \A q \in Peers : q # p => Stored(q)' = Stored(q)
        BY <2>1, <2>3, StoredAppend
      <3>3. MarksInv'
        BY <1>0, <2>3, <2>5, <3>1, <3>2 DEF MarksInv, Incoming
      <3>4. QED BY <1>0, <3>1, <3>3, TwoPeers DEF ReadWasShown, Seen
    <2>6. QED BY <2>4, <2>5
  <1>5. ASSUME NEW p \in Peers, HandleReceipt(p)
        PROVE  MarksInv' /\ ReadWasShown'
    <2> DEFINE ms == Head(events[p]).ids
    <2>1. /\ Handle(p, "read") /\ rows' = rows /\ shown' = shown /\ current' = current
          /\ read' = [read EXCEPT ![p] = @ \cup (ms \cap Stored(p))]
      BY <1>5 DEF HandleReceipt, MarkPeerRead
    <2>2. \A m \in ms : Author(m) = p /\ m \in Seen(Other(p))
      <3>1. Head(events[p]) \in Sound(p)
        BY <2>1, GrowsStep, PopSound
      <3>2. QED BY <2>1, <3>1 DEF Sound, Handle
    <2> HIDE DEF ms
    <2>3. /\ read'[p] = read[p] \cup (ms \cap Stored(p))
          /\ \A q \in Peers : q # p => read'[q] = read[q]
      BY <2>1 DEF TypeOK
    <2>4. \A q \in Peers : Stored(q)' = Stored(q)
      BY <2>1 DEF Stored
    <2>5. MarksInv'
      BY <1>0, <2>1, <2>2, <2>3, <2>4 DEF MarksInv, Incoming
    <2>6. ReadWasShown'
      BY <1>0, <2>1, <2>2, <2>3, TwoPeers DEF ReadWasShown, Own, Seen
    <2>7. QED BY <2>5, <2>6
  <1>6. ASSUME NEW p \in Peers, SelectOther(p) \/ Crash(p)
        PROVE  MarksInv' /\ ReadWasShown'
    <2>1. /\ rows' = rows /\ read' = read /\ shown' = shown
          /\ current' = [current EXCEPT ![p] = FALSE]
      BY <1>6 DEF SelectOther, Crash
    <2>2. \A q \in Peers : current'[q] => current[q]
      BY <2>1 DEF TypeOK
    <2>3. QED BY <1>0, <2>1, <2>2, TwoPeers DEF MarksInv, ReadWasShown, Stored, Seen
  <1>7. ASSUME \/ LinkUp \/ LinkBreaks \/ UNCHANGED vars
               \/ \E p \in Peers : DropDuplicate(p) \/ HandleAck(p) \/ HandleOpened(p)
                                   \/ OnOpen(p) \/ OnFrame(p) \/ OnClose(p)
        PROVE  MarksInv' /\ ReadWasShown'
    <2>1. rows' = rows /\ read' = read /\ shown' = shown /\ current' = current
      BY <1>7 DEF LinkUp, LinkBreaks, vars, DropDuplicate, HandleAck, HandleOpened,
        OnOpen, OnFrame, OnClose
    <2>2. QED BY <1>1, <2>1
  <1>8. QED
    BY <1>2, <1>3, <1>4, <1>5, <1>6, <1>7 DEF Next, User, MainThread, StreamThread

\* A delivery mark comes from an ack, and acks are of messages held.
LEMMA DeliveredStep ==
  ASSUME TypeOK, FramesSound, DeliveredIsReceived, [Next]_vars
  PROVE  DeliveredIsReceived'
  <1>1. Grows
    BY GrowsStep
  <1>2. ASSUME delivered' = delivered
        PROVE  DeliveredIsReceived'
    BY <1>1, <1>2, TwoPeers DEF DeliveredIsReceived, Grows, Held
  <1>3. ASSUME NEW p \in Peers, HandleAck(p)
        PROVE  DeliveredIsReceived'
    <2> DEFINE m == Head(events[p]).id
    <2>1. Handle(p, "ack") /\ delivered' = [delivered EXCEPT ![p] = @ \cup ({m} \cap Stored(p))]
      BY <1>3 DEF HandleAck, MarkDelivered
    <2>2. Other(p) \in killed \/ m \in Held(Other(p))
      <3>1. Head(events[p]) \in Sound(p)
        BY <1>1, <2>1, PopSound
      <3>2. QED BY <2>1, <3>1 DEF Sound, Handle
    <2> HIDE DEF m
    <2>3. /\ delivered'[p] \subseteq delivered[p] \cup {m}
          /\ \A q \in Peers : q # p => delivered'[q] = delivered[q]
      BY <2>1 DEF TypeOK
    <2>4. QED BY <1>1, <2>2, <2>3, TwoPeers DEF DeliveredIsReceived, Grows, Held, Own
  <1>4. ASSUME NEW p \in Peers,
               \/ SendText(p) \/ SelectContact(p) \/ SelectOther(p) \/ DropDuplicate(p)
               \/ ReceiveText(p) \/ HandleReceipt(p) \/ HandleOpened(p) \/ OnOpen(p)
               \/ OnFrame(p) \/ OnClose(p) \/ Crash(p)
        PROVE  delivered' = delivered
    BY <1>4 DEF SendText, SelectContact, SelectOther, DropDuplicate, ReceiveText,
      HandleReceipt, HandleOpened, OnOpen, OnFrame, OnClose, Crash, table
  <1>5. ASSUME LinkUp \/ LinkBreaks \/ UNCHANGED vars
        PROVE  delivered' = delivered
    BY <1>5 DEF LinkUp, LinkBreaks, vars, table
  <1>6. QED
    BY <1>2, <1>3, <1>4, <1>5 DEF Next, User, MainThread, StreamThread

\* The badge follows the messages that are stored and not read.
LEMMA BadgeStep ==
  ASSUME TypeOK, FramesSound, MarksInv, BadgeCountsUnread, [Next]_vars
  PROVE  BadgeCountsUnread'
  <1> USE DEF table, channel, screen, faults
  <1> DEFINE New(p) == Incoming(p, Stored(p)) \ read[p]
  <1>1. ASSUME unread' = unread, \A q \in Peers : current'[q] => current[q],
               killed' = killed, \A q \in Peers : New(q)' = New(q)
        PROVE  BadgeCountsUnread'
    BY <1>1 DEF BadgeCountsUnread
  <1>2. ASSUME rows' = rows, read' = read
        PROVE  \A q \in Peers : New(q)' = New(q)
    BY <1>2 DEF Incoming, Stored
  <1>3. ASSUME NEW p \in Peers, SendText(p)
        PROVE  BadgeCountsUnread'
    <2>1. PICK m \in NewIds(p) : rows' = [rows EXCEPT ![p] = Append(@, m)]
      BY <1>3 DEF SendText
    <2>2. m \in Ids /\ Author(m) = p
      BY Bounds DEF NewIds, Ids, Author
    <2>3. /\ Stored(p)' = Stored(p) \cup {m}
          /\ \A q \in Peers : q # p => Stored(q)' = Stored(q)
      BY <2>1, <2>2, StoredAppend
    <2>4. read' = read /\ unread' = unread /\ current' = current /\ killed' = killed
      BY <1>3 DEF SendText
    <2>5. \A q \in Peers : New(q)' = New(q)
      BY <2>2, <2>3, <2>4 DEF Incoming
    <2>6. QED BY <1>1, <2>4, <2>5
  <1>4. ASSUME NEW p \in Peers, unread'[p] = 0, New(p)' = {}, killed' = killed,
               \A q \in Peers : q # p => /\ current'[q] = current[q]
                                         /\ unread'[q] = unread[q]
                                         /\ New(q)' = New(q)
        PROVE  BadgeCountsUnread'
    <2>1. Cardinality(New(p)') = 0
      BY <1>4, FS_EmptySet
    <2> HIDE DEF New
    <2>2. QED BY <1>4, <2>1 DEF BadgeCountsUnread, New
  <1>5. ASSUME NEW p \in Peers, SelectContact(p)
        PROVE  BadgeCountsUnread'
    <2>1. /\ rows' = rows /\ killed' = killed /\ unread'[p] = 0
          /\ read'[p] = read[p] \cup Incoming(p, Stored(p))
          /\ \A q \in Peers : q # p => /\ read'[q] = read[q] /\ unread'[q] = unread[q]
                                       /\ current'[q] = current[q]
      BY <1>5 DEF SelectContact, TypeOK
    <2>2. \A q \in Peers : Stored(q)' = Stored(q)
      BY <2>1 DEF Stored
    <2>3. New(p)' = {} /\ \A q \in Peers : q # p => New(q)' = New(q)
      BY <2>1, <2>2 DEF Incoming
    <2>4. QED BY <1>4, <2>1, <2>3
  <1>6. ASSUME NEW p \in Peers, ReceiveText(p)
        PROVE  BadgeCountsUnread'
    <2> DEFINE m == Head(events[p]).id
    <2>1. Handle(p, "msg") /\ m \in Ids /\ m \notin Stored(p)
      BY <1>6, FramesType DEF ReceiveText, Handle, TypeOK
    <2>2. Author(m) # p
      <3>1. Head(events[p]) \in Sound(p)
        BY <2>1, GrowsStep, PopSound
      <3>2. QED BY <2>1, <3>1, TwoPeers DEF Sound, Handle
    <2>3. /\ rows' = [rows EXCEPT ![p] = Append(@, m)]
          /\ current' = current /\ killed' = killed
      BY <1>6 DEF ReceiveText
    <2>4. CASE current[p]
      <3>1. read' = [read EXCEPT ![p] = @ \cup Incoming(p, Stored(p) \cup {m})]
            /\ unread' = unread
        BY <1>6, <2>4 DEF ReceiveText
      <3> HIDE DEF m
      <3>2. /\ Stored(p)' = Stored(p) \cup {m}
            /\ \A q \in Peers : q # p => Stored(q)' = Stored(q)
        BY <2>1, <2>3, StoredAppend
      <3>3. /\ read'[p] = read[p] \cup Incoming(p, Stored(p) \cup {m})
            /\ \A q \in Peers : q # p => read'[q] = read[q]
        BY <3>1 DEF TypeOK
      <3>4. New(p)' = {} /\ \A q \in Peers : q # p => New(q)' = New(q)
        BY <3>2, <3>3 DEF Incoming
      <3>5. unread'[p] = 0
        BY <2>4, <3>1 DEF BadgeCountsUnread
      <3>6. QED BY <1>4, <2>3, <3>1, <3>4, <3>5
    <2>5. CASE ~current[p]
      <3>1. read' = read /\ unread' = [unread EXCEPT ![p] = @ + 1]
        BY <1>6, <2>5 DEF ReceiveText
      <3> HIDE DEF m
      <3>2. /\ Stored(p)' = Stored(p) \cup {m}
            /\ \A q \in Peers : q # p => Stored(q)' = Stored(q)
        BY <2>1, <2>3, StoredAppend
      <3>3. New(p)' = New(p) \cup {m} /\ m \notin New(p)
        BY <2>1, <2>2, <3>1, <3>2 DEF Incoming, MarksInv
      <3>4. \A q \in Peers : q # p => New(q)' = New(q)
        BY <3>1, <3>2 DEF Incoming
      <3>5. Cardinality(New(p)') = Cardinality(New(p)) + 1
        <4>1. IsFiniteSet(New(p))
          <5>1. New(p) \in SUBSET Stored(p)
            BY DEF Incoming
          <5>2. QED BY <5>1, StoredFinite, FS_Subset
        <4> HIDE DEF New
        <4>2. QED BY <3>3, <4>1, FS_AddElement
      <3>6. /\ unread'[p] = unread[p] + 1
            /\ \A q \in Peers : q # p => unread'[q] = unread[q]
        BY <3>1 DEF TypeOK
      <3> HIDE DEF New
      <3>7. ASSUME NEW q \in Peers
            PROVE  /\ current'[q] => unread'[q] = 0
                   /\ q \notin killed' => unread'[q] = Cardinality(New(q)')
        <4>1. CASE q = p
          BY <2>3, <2>5, <3>5, <3>6, <4>1 DEF BadgeCountsUnread, New
        <4>2. CASE q # p
          BY <2>3, <3>4, <3>6, <4>2 DEF BadgeCountsUnread, New
        <4>3. QED BY <4>1, <4>2
      <3>8. QED BY <3>7 DEF BadgeCountsUnread, New
    <2>6. QED BY <2>4, <2>5
  <1>7. ASSUME NEW p \in Peers, HandleReceipt(p)
        PROVE  BadgeCountsUnread'
    <2> DEFINE ms == Head(events[p]).ids
    <2>1. /\ Handle(p, "read") /\ rows' = rows /\ current' = current
          /\ unread' = unread /\ killed' = killed
          /\ read' = [read EXCEPT ![p] = @ \cup (ms \cap Stored(p))]
      BY <1>7 DEF HandleReceipt, MarkPeerRead
    <2>2. \A m \in ms : Author(m) = p
      <3>1. Head(events[p]) \in Sound(p)
        BY <2>1, GrowsStep, PopSound
      <3>2. QED BY <2>1, <3>1 DEF Sound, Handle
    <2> HIDE DEF ms
    <2>3. /\ read'[p] = read[p] \cup (ms \cap Stored(p))
          /\ \A q \in Peers : q # p => read'[q] = read[q]
      BY <2>1 DEF TypeOK
    <2>4. \A q \in Peers : Stored(q)' = Stored(q)
      BY <2>1 DEF Stored
    <2>5. \A q \in Peers : New(q)' = New(q)
      BY <2>2, <2>3, <2>4 DEF Incoming
    <2>6. QED BY <1>1, <2>1, <2>5
  <1>8. ASSUME NEW p \in Peers, Crash(p)
        PROVE  BadgeCountsUnread'
    <2>1. /\ rows' = rows /\ read' = read /\ unread'[p] = 0 /\ ~current'[p]
          /\ killed' = killed \cup {p}
          /\ \A q \in Peers : q # p => current'[q] = current[q] /\ unread'[q] = unread[q]
      BY <1>8 DEF Crash, TypeOK
    <2>2. \A q \in Peers : New(q)' = New(q)
      BY <1>2, <2>1
    <2> HIDE DEF New
    <2>3. QED BY <2>1, <2>2 DEF BadgeCountsUnread, New
  <1>9. ASSUME NEW p \in Peers, SelectOther(p)
        PROVE  BadgeCountsUnread'
    <2>1. /\ rows' = rows /\ read' = read /\ unread' = unread /\ killed' = killed
          /\ \A q \in Peers : current'[q] => current[q]
      BY <1>9 DEF SelectOther, TypeOK
    <2>2. QED BY <1>1, <1>2, <2>1
  <1>10. ASSUME \/ LinkUp \/ LinkBreaks \/ UNCHANGED vars
                \/ \E p \in Peers : DropDuplicate(p) \/ HandleAck(p) \/ HandleOpened(p)
                                    \/ OnOpen(p) \/ OnFrame(p) \/ OnClose(p)
         PROVE  BadgeCountsUnread'
    <2>1. /\ rows' = rows /\ read' = read /\ unread' = unread /\ killed' = killed
          /\ current' = current
      BY <1>10 DEF LinkUp, LinkBreaks, vars, DropDuplicate, HandleAck, HandleOpened,
        OnOpen, OnFrame, OnClose
    <2>2. QED BY <1>1, <1>2, <2>1
  <1>11. QED
    BY <1>3, <1>5, <1>6, <1>7, <1>8, <1>9, <1>10
    DEF Next, User, MainThread, StreamThread

\* The conjunction is inductive.
LEMMA ChatInductive == Spec => []ChatInv
  <1>1. Init => ChatInv
    <2> SUFFICES ASSUME Init PROVE ChatInv
      OBVIOUS
    <2>1. TypeOK
      BY InitTypes
    <2>2. \A p \in Peers : Stored(p) = {}
      BY DEF Init, Stored
    <2>3. FramesSound
      <3>1. \A p \in Peers : wire[p] = << >> /\ events[p] = << >>
        BY DEF Init
      <3>2. \A p \in Peers : << >> \in Seq(Sound(p))
        OBVIOUS
      <3>3. QED BY <3>1, <3>2 DEF FramesSound
    <2>4. \A p \in Peers : /\ read[p] = {} /\ delivered[p] = {} /\ unread[p] = 0
      BY DEF Init
    <2>5. MarksInv
      BY <2>2, <2>4 DEF MarksInv, Incoming
    <2>6. DeliveredIsReceived /\ ReadWasShown
      BY <2>4 DEF DeliveredIsReceived, ReadWasShown, Own
    <2>7. BadgeCountsUnread
      <3>1. \A p \in Peers : Incoming(p, Stored(p)) \ read[p] = {}
        BY <2>2 DEF Incoming
      <3>2. QED BY <2>4, <3>1, FS_EmptySet DEF BadgeCountsUnread
    <2>8. QED BY <2>1, <2>3, <2>5, <2>6, <2>7 DEF ChatInv
  <1>2. ChatInv /\ [Next]_vars => ChatInv'
    BY TypeStep, SoundStep, MarksStep, DeliveredStep, BadgeStep DEF ChatInv
  <1>3. QED BY <1>1, <1>2, PTL DEF Spec

\* A message marked delivered is stored by the other client or waits in its
\* event queue, as long as that client was not killed
\* (WebRtcSession.cpp:737-749, MainWindow.cpp:436-441).
THEOREM DeliveryMarksAreTrue == Spec => []DeliveredIsReceived
  BY ChatInductive, PTL DEF ChatInv

\* A message its author sees as read was on the reader's screen, or lies beneath
\* the page of rows the reader was shown: the marks of onContactSelected reach
\* further back than what it shows, and nothing else does
\* (MainWindow.cpp:292-295, 392-409, MessageHistory.cpp:215-257).
THEOREM ReadMarksAreTrue == Spec => []ReadWasShown
  BY ChatInductive, PTL DEF ChatInv

\* The badge counts what is stored and unread, and is zero on screen
\* (MainWindow.cpp:281-296, 421-434).
THEOREM BadgeIsExact == Spec => []BadgeCountsUnread
  BY ChatInductive, PTL DEF ChatInv

----------------------------------------------------------------------------
(* The mailbox it implements.                                              *)

\* Nothing is stored that nobody wrote.
OnlyWritten == \A p \in Peers : Stored(p) \subseteq Writable

LEMMA NewIdWritable ==
  ASSUME NEW p \in Peers, NEW m \in NewIds(p)
  PROVE  m \in Writable /\ m \in Ids /\ Author(m) = p /\ m \notin Stored(p)
  <1>1. m \in {p} \X (1..Quota[p]) /\ m \notin Stored(p)
    BY DEF NewIds
  <1>2. m \in Writable
    BY <1>1 DEF Writable
  <1>3. m \in Ids /\ Author(m) = p
    BY <1>1, Bounds DEF Ids, Author
  <1>4. QED BY <1>1, <1>2, <1>3

\* A text on its way is one its author has stored.
LEMMA ReceivedWritten ==
  ASSUME TypeOK, FramesSound, NEW p \in Peers, NEW kind, Handle(p, kind), kind = "msg"
  PROVE  /\ Head(events[p]).id \in Stored(Other(p))
         /\ Head(events[p]).id \in Ids
         /\ Author(Head(events[p]).id) = Other(p)
  <1>1. events[p] \in Seq(Sound(p)) /\ events[p] # << >> /\ Head(events[p]).t = "msg"
    BY DEF FramesSound, Handle
  <1>2. Head(events[p]) \in Sound(p)
    BY <1>1
  <1>3. QED BY <1>1, <1>2, FramesType DEF Sound

LEMMA WrittenStep ==
  ASSUME TypeOK, FramesSound, OnlyWritten, [Next]_vars
  PROVE  OnlyWritten'
  <1>1. ASSUME NEW p \in Peers, NEW m \in Ids, m \in Writable,
               rows' = [rows EXCEPT ![p] = Append(@, m)]
        PROVE  OnlyWritten'
    <2>1. Stored(p)' = Stored(p) \cup {m} /\ \A q \in Peers : q # p => Stored(q)' = Stored(q)
      BY <1>1, StoredAppend
    <2>2. Writable' = Writable
      BY DEF Writable
    <2>3. QED BY <1>1, <2>1, <2>2 DEF OnlyWritten
  <1>2. ASSUME NEW p \in Peers, SendText(p)
        PROVE  OnlyWritten'
    <2>1. PICK m \in NewIds(p) : rows' = [rows EXCEPT ![p] = Append(@, m)]
      BY <1>2 DEF SendText
    <2>2. QED BY <1>1, <2>1, NewIdWritable
  <1>3. ASSUME NEW p \in Peers, ReceiveText(p)
        PROVE  OnlyWritten'
    <2> DEFINE m == Head(events[p]).id
    <2>1. Handle(p, "msg") /\ rows' = [rows EXCEPT ![p] = Append(@, m)]
      BY <1>3 DEF ReceiveText
    <2>2. m \in Stored(Other(p)) /\ m \in Ids
      BY <2>1, ReceivedWritten
    <2>3. m \in Writable
      BY <2>2, TwoPeers DEF OnlyWritten
    <2>4. QED BY <1>1, <2>1, <2>2, <2>3
  <1>4. ASSUME rows' = rows
        PROVE  OnlyWritten'
    BY <1>4 DEF OnlyWritten, Stored, Writable
  <1>5. ASSUME NEW p \in Peers,
               \/ SelectContact(p) \/ SelectOther(p) \/ DropDuplicate(p) \/ HandleAck(p)
               \/ HandleReceipt(p) \/ HandleOpened(p) \/ OnOpen(p) \/ OnFrame(p)
               \/ OnClose(p) \/ Crash(p)
        PROVE  rows' = rows
    BY <1>5 DEF SelectContact, SelectOther, DropDuplicate, HandleAck, HandleReceipt,
      HandleOpened, OnOpen, OnFrame, OnClose, Crash, table
  <1>6. ASSUME LinkUp \/ LinkBreaks \/ UNCHANGED vars
        PROVE  rows' = rows
    BY <1>6 DEF LinkUp, LinkBreaks, vars, table
  <1>7. QED
    BY <1>2, <1>3, <1>4, <1>5, <1>6 DEF Next, User, MainThread, StreamThread

\* What a client has taken changes when a new text arrives, and when it is killed.
LEMMA TakenStep ==
  ASSUME TypeOK, FramesSound, OnlyWritten, NEW p \in Peers
  PROVE  /\ SendText(p) \/ DropDuplicate(p) \/ ReceiveText(p)
            \/ HandleAck(p) \/ HandleReceipt(p) \/ HandleOpened(p) \/ OnOpen(p)
              => \A q \in Peers : Taken(q)' = Taken(q)
         /\ rows' = rows /\ events' = events => \A q \in Peers : Taken(q)' = Taken(q)
  <1>1. ASSUME rows' = rows, events' = events
        PROVE  \A q \in Peers : Taken(q)' = Taken(q)
    BY <1>1 DEF Taken, Stored, Waiting
  <1>2. ASSUME rows' = rows, \A q \in Peers : Waiting(q)' = Waiting(q)
        PROVE  \A q \in Peers : Taken(q)' = Taken(q)
    <2>1. \A q \in Peers : Stored(q)' = Stored(q)
      BY <1>2 DEF Stored
    <2>2. QED BY <1>2, <2>1 DEF Taken
  <1>3. ASSUME SendText(p)
        PROVE  \A q \in Peers : Taken(q)' = Taken(q)
    <2>1. PICK m \in NewIds(p) : rows' = [rows EXCEPT ![p] = Append(@, m)]
      BY <1>3 DEF SendText
    <2>2. m \in Ids /\ Author(m) = p
      BY NewIdWritable
    <2>3. Stored(p)' = Stored(p) \cup {m} /\ \A q \in Peers : q # p => Stored(q)' = Stored(q)
      BY <2>1, <2>2, StoredAppend
    <2>4. \A q \in Peers : Waiting(q)' = Waiting(q)
      BY <1>3 DEF SendText, Waiting
    <2>5. QED BY <2>2, <2>3, <2>4 DEF Taken, Incoming
  <1>4. ASSUME ReceiveText(p)
        PROVE  \A q \in Peers : Taken(q)' = Taken(q)
    <2> DEFINE m == Head(events[p]).id
    <2>1. Handle(p, "msg") /\ rows' = [rows EXCEPT ![p] = Append(@, m)]
      BY <1>4 DEF ReceiveText
    <2>2. m \in Ids
      BY <2>1, ReceivedWritten
    <2>3. /\ \A q \in Peers : q # p => Waiting(q)' = Waiting(q)
          /\ Waiting(p) \subseteq Waiting(p)' \cup {m}
          /\ Waiting(p)' \subseteq Waiting(p) /\ m \in Waiting(p)
      BY <2>1, WaitingPop
    <2> HIDE DEF m
    <2>4. Stored(p)' = Stored(p) \cup {m} /\ \A q \in Peers : q # p => Stored(q)' = Stored(q)
      BY <2>1, <2>2, StoredAppend
    <2>5. \A q \in Peers : Stored(q)' \cup Waiting(q)' = Stored(q) \cup Waiting(q)
      BY <2>3, <2>4
    <2>6. QED BY <2>5 DEF Taken
  <1>5. ASSUME DropDuplicate(p)
        PROVE  \A q \in Peers : Taken(q)' = Taken(q)
    <2>1. Handle(p, "msg") /\ Head(events[p]).id \in Stored(p)
      BY <1>5 DEF DropDuplicate
    <2>2. \A q \in Peers : Stored(q)' = Stored(q)
      BY <1>5 DEF DropDuplicate, table, Stored
    <2>3. \A q \in Peers : Stored(q)' \cup Waiting(q)' = Stored(q) \cup Waiting(q)
      BY <2>1, <2>2, WaitingPop
    <2>4. QED BY <2>3 DEF Taken
  <1>6. ASSUME HandleAck(p) \/ HandleReceipt(p) \/ HandleOpened(p)
        PROVE  \A q \in Peers : Taken(q)' = Taken(q)
    <2>1. PICK kind \in {"ack", "read", "open"} : Handle(p, kind)
      BY <1>6 DEF HandleAck, HandleReceipt, HandleOpened
    <2>2. \A q \in Peers : Waiting(q)' = Waiting(q)
      BY <2>1, WaitingPop
    <2>3. rows' = rows
      BY <1>6 DEF HandleAck, HandleReceipt, HandleOpened
    <2>4. QED BY <1>2, <2>2, <2>3
  <1>7. ASSUME OnOpen(p)
        PROVE  \A q \in Peers : Taken(q)' = Taken(q)
    <2>1. rows' = rows /\ events' = [events EXCEPT ![p] = Append(@, Opened)]
      BY <1>7 DEF OnOpen, table
    <2>2. Opened \in Events /\ Opened.t # "msg"
      BY FramesType DEF Opened
    <2>3. QED BY <1>2, <2>1, <2>2, WaitingPush
  <1>8. QED BY <1>1, <1>3, <1>4, <1>5, <1>6, <1>7

\* The log of the mailbox is the set of rows.
LEMMA LoggedIsStored == \A p \in Peers : Mailbox!Logged(p) = Stored(p)
  BY DEF Mailbox!Logged, Stored

\* And so are its pages.
LEMMA PagesAgree ==
  \A p \in Peers : Mailbox!LastPage(p) = Page(p) /\ Mailbox!Buried(p) = Buried(p)
  BY DEF Mailbox!LastPage, Mailbox!Buried, Mailbox!OnPage, Page, Buried, OnPage

LEMMA MailboxStep ==
  ASSUME ChatInv, OnlyWritten, [Next]_vars
  PROVE  [Mailbox!Next]_Mailbox!vars
  <1> DEFINE T == [q \in Peers |-> Taken(q)]
             C == [q \in Peers |-> Own(q, delivered[q])]
             R == [q \in Peers |-> Own(q, read[q])]
  <1>0. TypeOK /\ FramesSound
    BY DEF ChatInv
  <1>1. ASSUME \A q \in Peers : Taken(q)' = Taken(q)
        PROVE  T' = T
    BY <1>1
  <1>2. ASSUME delivered' = delivered
        PROVE  C' = C
    BY <1>2 DEF Own
  <1>3. ASSUME \A q \in Peers : Own(q, read'[q]) = Own(q, read[q])
        PROVE  R' = R
    BY <1>3 DEF Own
  <1>4. \A m, p : Mailbox!Author(m) = Author(m)
    BY DEF Mailbox!Author, Author
  <1> USE DEF table, channel, screen, faults
  <1>5. ASSUME NEW p \in Peers, SendText(p)
        PROVE  Mailbox!Next
    <2>1. PICK m \in NewIds(p) : rows' = [rows EXCEPT ![p] = Append(@, m)]
      BY <1>5 DEF SendText
    <2>2. m \in Writable /\ Author(m) = p /\ m \notin Stored(p)
      BY NewIdWritable
    <2>3. T' = T /\ C' = C /\ R' = R
      BY <1>0, <1>1, <1>2, <1>3, <1>5, TakenStep DEF SendText
    <2>4. shown' = shown /\ killed' = killed
      BY <1>5 DEF SendText
    <2>5. Mailbox!Write(p, m)
      BY <1>4, <2>1, <2>2, <2>3, <2>4, LoggedIsStored DEF Mailbox!Write
    <2>6. QED BY <2>2, <2>5 DEF Mailbox!Next
  <1>6. ASSUME NEW p \in Peers, SelectContact(p)
        PROVE  Mailbox!Next
    <2>1. /\ rows' = rows /\ events' = events /\ delivered' = delivered /\ killed' = killed
          /\ read'[p] = read[p] \cup Incoming(p, Stored(p))
          /\ \A q \in Peers : q # p => read'[q] = read[q]
          /\ shown' = [shown EXCEPT ![p] = @ \cup Incoming(p, Page(p))]
      BY <1>0, <1>6 DEF SelectContact, TypeOK
    <2>2. \A q \in Peers : Own(q, read'[q]) = Own(q, read[q])
      BY <2>1 DEF Own, Incoming
    <2>3. T' = T /\ C' = C /\ R' = R
      BY <1>0, <1>1, <1>2, <1>3, <2>1, <2>2, TakenStep
    <2>4. {m \in Mailbox!LastPage(p) : Mailbox!Author(m) # p} = Incoming(p, Page(p))
      BY <1>4, PagesAgree DEF Incoming
    <2>5. Mailbox!Show(p)
      BY <2>1, <2>3, <2>4 DEF Mailbox!Show
    <2>6. QED BY <2>5 DEF Mailbox!Next
  <1>7. ASSUME NEW p \in Peers, ReceiveText(p)
        PROVE  Mailbox!Next
    <2> DEFINE m == Head(events[p]).id
    <2>1. /\ Handle(p, "msg") /\ m \notin Stored(p)
          /\ rows' = [rows EXCEPT ![p] = Append(@, m)]
          /\ delivered' = delivered /\ killed' = killed
      BY <1>7 DEF ReceiveText
    <2>2. m \in Stored(Other(p)) /\ Author(m) = Other(p)
      BY <1>0, <2>1, ReceivedWritten
    <2>3. m \in Writable /\ m \in Taken(p)
      BY <1>0, <2>1, <2>2, TwoPeers, WaitingPop DEF OnlyWritten, Taken, Incoming
    <2>4. /\ shown' = [shown EXCEPT ![p] = @ \cup {m}] \/ shown' = shown
          /\ read' = read \/ read' = [read EXCEPT ![p] = @ \cup Incoming(p, Stored(p) \cup {m})]
      BY <1>7 DEF ReceiveText
    <2> HIDE DEF m
    <2>5. \A q \in Peers : Own(q, read'[q]) = Own(q, read[q])
      <3>1. /\ \A q \in Peers : q # p => read'[q] = read[q]
            /\ \/ read'[p] = read[p]
               \/ read'[p] = read[p] \cup Incoming(p, Stored(p) \cup {m})
        BY <1>0, <2>4 DEF TypeOK
      <3>2. QED BY <3>1 DEF Own, Incoming
    <2>6. T' = T /\ C' = C /\ R' = R
      BY <1>0, <1>1, <1>2, <1>3, <1>7, <2>1, <2>5, TakenStep
    <2>7. Mailbox!Store(p, m)
      <3>1. m \in T[p]
        BY <2>3
      <3>2. QED BY <2>1, <2>4, <2>6, <3>1, LoggedIsStored DEF Mailbox!Store
    <2>8. QED BY <2>3, <2>7 DEF Mailbox!Next
  <1>8. ASSUME NEW p \in Peers, HandleAck(p)
        PROVE  Mailbox!Next \/ UNCHANGED Mailbox!vars
    <2> DEFINE m == Head(events[p]).id
    <2>1. /\ Handle(p, "ack") /\ rows' = rows /\ read' = read /\ shown' = shown
          /\ killed' = killed
          /\ delivered' = [delivered EXCEPT ![p] = @ \cup ({m} \cap Stored(p))]
      BY <1>8 DEF HandleAck, MarkDelivered
    <2>2. Author(m) = p /\ (Other(p) \in killed \/ m \in Held(Other(p)))
      <3>1. Head(events[p]) \in Sound(p)
        BY <1>0, <2>1, GrowsStep, PopSound
      <3>2. QED BY <2>1, <3>1 DEF Sound, Handle
    <2> HIDE DEF m
    <2>3. T' = T /\ R' = R
      BY <1>0, <1>1, <1>3, <1>8, <2>1, TakenStep
    <2>4. CASE m \in Stored(p)
      <3>1. delivered' = [delivered EXCEPT ![p] = @ \cup {m}]
        BY <2>1, <2>4
      <3>2. C' = [C EXCEPT ![p] = @ \cup {m}]
        <4>1. \A q \in Peers : Own(q, delivered'[q]) = IF q = p THEN Own(p, delivered[p]) \cup {m}
                                                      ELSE Own(q, delivered[q])
          BY <1>0, <2>2, <3>1 DEF Own, TypeOK
        <4>2. C' = [q \in Peers |-> Own(q, delivered'[q])]
          BY DEF Own
        <4>3. QED BY <4>1, <4>2
      <3>3. Other(p) \in killed \/ m \in T[Other(p)]
        BY <2>2, TwoPeers DEF Held, Taken, Incoming
      <3>4. Mailbox!Confirm(p, m)
        BY <1>4, <2>1, <2>2, <2>3, <2>4, <3>2, <3>3, LoggedIsStored, TwoPeers
        DEF Mailbox!Confirm
      <3>5. m \in Writable
        BY <2>4 DEF OnlyWritten
      <3>6. QED BY <3>4, <3>5 DEF Mailbox!Next
    <2>5. CASE m \notin Stored(p)
      <3>1. delivered' = delivered
        BY <1>0, <2>1, <2>5 DEF TypeOK
      <3>2. QED BY <1>2, <2>1, <2>3, <3>1 DEF Mailbox!vars
    <2>6. QED BY <2>4, <2>5
  <1>9. ASSUME NEW p \in Peers, HandleReceipt(p)
        PROVE  Mailbox!Next
    <2> DEFINE ms == Head(events[p]).ids \cap Stored(p)
    <2>1. /\ Handle(p, "read") /\ rows' = rows /\ delivered' = delivered
          /\ shown' = shown /\ killed' = killed
          /\ read' = [read EXCEPT ![p] = @ \cup ms]
      BY <1>9 DEF HandleReceipt, MarkPeerRead
    <2>2. \A m \in ms : Author(m) = p /\ m \in Stored(p) /\ m \in Seen(Other(p))
      <3>1. Head(events[p]) \in Sound(p)
        BY <1>0, <2>1, GrowsStep, PopSound
      <3>2. QED BY <2>1, <3>1 DEF Sound, Handle
    <2> HIDE DEF ms
    <2>3. T' = T /\ C' = C
      BY <1>0, <1>1, <1>2, <1>9, <2>1, TakenStep
    <2>4. R' = [R EXCEPT ![p] = @ \cup ms]
      <3>1. \A q \in Peers : Own(q, read'[q]) = IF q = p THEN Own(p, read[p]) \cup ms
                                               ELSE Own(q, read[q])
        BY <1>0, <2>1, <2>2 DEF Own, TypeOK
      <3>2. R' = [q \in Peers |-> Own(q, read'[q])]
        BY DEF Own
      <3>3. QED BY <3>1, <3>2
    <2>5. Mailbox!Learn(p, ms)
      <3>1. ms \subseteq shown[Other(p)] \cup Mailbox!Buried(Other(p))
        BY <2>2, PagesAgree, TwoPeers DEF Seen
      <3>2. QED
        BY <1>4, <2>1, <2>2, <2>3, <2>4, <3>1, LoggedIsStored, TwoPeers DEF Mailbox!Learn
    <2>6. ms \in SUBSET Writable
      BY <2>2 DEF OnlyWritten
    <2>7. QED BY <2>5, <2>6 DEF Mailbox!Next
  <1>10. ASSUME NEW p \in Peers, OnFrame(p)
         PROVE  Mailbox!Next \/ UNCHANGED Mailbox!vars
    <2> DEFINE f == Head(wire[p])
    <2>1. /\ events' = [events EXCEPT ![p] = Append(@, f)] /\ wire[p] # << >>
          /\ rows' = rows /\ delivered' = delivered /\ read' = read
          /\ shown' = shown /\ killed' = killed
      BY <1>10 DEF OnFrame
    <2>2. f \in Sound(p) /\ f \in Events
      <3>1. wire[p] \in Seq(Sound(p))
        BY <1>0 DEF FramesSound
      <3>2. QED BY <2>1, <3>1 DEF Sound
    <2> HIDE DEF f
    <2>3. \A q \in Peers : Stored(q)' = Stored(q)
      BY <2>1 DEF Stored
    <2>4. C' = C /\ R' = R
      BY <1>2, <1>3, <2>1
    <2>5. CASE f.t = "msg" /\ f.id \notin Taken(p)
      <3>1. Author(f.id) = Other(p) /\ f.id \in Stored(Other(p))
        BY <2>2, <2>5 DEF Sound
      <3>2. /\ Waiting(p)' = Waiting(p) \cup {f.id}
            /\ \A q \in Peers : q # p => Waiting(q)' = Waiting(q)
        BY <1>0, <2>1, <2>2, <2>5, WaitingPush
      <3>3. \A q \in Peers : Taken(q)' = IF q = p THEN Taken(p) \cup {f.id} ELSE Taken(q)
        BY <2>3, <3>1, <3>2, TwoPeers DEF Taken, Incoming
      <3>4. T' = [T EXCEPT ![p] = @ \cup {f.id}]
        BY <3>3
      <3>5. Mailbox!Take(p, f.id)
        BY <1>4, <2>1, <2>4, <2>5, <3>1, <3>4, LoggedIsStored, TwoPeers DEF Mailbox!Take
      <3>6. f.id \in Writable
        BY <3>1, TwoPeers DEF OnlyWritten
      <3>7. QED BY <3>5, <3>6 DEF Mailbox!Next
    <2>6. CASE f.t # "msg" \/ f.id \in Taken(p)
      <3>1. f.id \in Stored(p) \cup Waiting(p) \/ f.t # "msg"
        BY <2>6 DEF Taken, Incoming
      <3>2. \A q \in Peers : Stored(q)' \cup Waiting(q)' = Stored(q) \cup Waiting(q)
        <4>1. /\ \A q \in Peers : q # p => Waiting(q)' = Waiting(q)
              /\ f.t = "msg" => Waiting(p)' = Waiting(p) \cup {f.id}
              /\ f.t # "msg" => Waiting(p)' = Waiting(p)
          BY <1>0, <2>1, <2>2, WaitingPush
        <4>2. Stored(p) \cup Waiting(p)' = Stored(p) \cup Waiting(p)
          BY <3>1, <4>1
        <4>3. QED BY <2>3, <4>1, <4>2
      <3>3. T' = T
        BY <1>1, <3>2 DEF Taken
      <3>4. QED BY <2>1, <2>4, <3>3 DEF Mailbox!vars
    <2>7. QED BY <2>5, <2>6
  <1>11. ASSUME NEW p \in Peers, Crash(p)
         PROVE  Mailbox!Next
    <2>1. /\ rows' = rows /\ delivered' = delivered /\ read' = read /\ shown' = shown
          /\ killed' = killed \cup {p}
          /\ events'[p] = << >> /\ \A q \in Peers : q # p => events'[q] = events[q]
      BY <1>0, <1>11 DEF Crash, TypeOK
    <2>2. /\ \A q \in Peers : Stored(q)' = Stored(q)
          /\ Waiting(p)' = {} /\ \A q \in Peers : q # p => Waiting(q)' = Waiting(q)
      BY <2>1 DEF Stored, Waiting
    <2>3. \A q \in Peers : Taken(q)' = IF q = p THEN Taken(p) \cap Stored(p) ELSE Taken(q)
      BY <2>2 DEF Taken, Incoming
    <2>4. T' = [T EXCEPT ![p] = @ \cap Stored(p)]
      BY <2>3
    <2>5. C' = C /\ R' = R
      BY <1>2, <1>3, <2>1
    <2>6. Mailbox!Kill(p)
      BY <2>1, <2>4, <2>5, LoggedIsStored DEF Mailbox!Kill
    <2>7. QED BY <2>6 DEF Mailbox!Next
  <1>12. ASSUME \/ LinkUp \/ LinkBreaks \/ UNCHANGED vars
                \/ \E p \in Peers : SelectOther(p) \/ OnClose(p)
                                    \/ DropDuplicate(p) \/ HandleOpened(p) \/ OnOpen(p)
         PROVE  UNCHANGED Mailbox!vars
    <2>1. /\ rows' = rows /\ delivered' = delivered /\ read' = read /\ shown' = shown
          /\ killed' = killed
      BY <1>12 DEF LinkUp, LinkBreaks, vars, SelectOther, OnClose, DropDuplicate,
        HandleOpened, OnOpen
    <2>2. \A q \in Peers : Taken(q)' = Taken(q)
      <3>1. ASSUME \/ LinkUp \/ LinkBreaks \/ UNCHANGED vars
                   \/ \E p \in Peers : SelectOther(p) \/ OnClose(p)
            PROVE  rows' = rows /\ events' = events
        BY <3>1 DEF LinkUp, LinkBreaks, vars, SelectOther, OnClose
      <3>2. QED BY <1>0, <1>12, <3>1, TwoPeers, TakenStep, ChatAssumption
    <2>3. T' = T /\ C' = C /\ R' = R
      BY <1>1, <1>2, <1>3, <2>1, <2>2
    <2>4. QED BY <2>1, <2>3 DEF Mailbox!vars
  <1>13. QED
    BY <1>5, <1>6, <1>7, <1>8, <1>9, <1>10, <1>11, <1>12
    DEF Next, User, MainThread, StreamThread

\* Text delivery implements the mailbox, for any two clients, however much they
\* write and however often the channel breaks or a client is killed
\* (MainWindow.cpp:358-446, WebRtcSession.cpp:737-774).
THEOREM DeliveryKeepsMailbox == Spec => KeepsMailbox
  <1>1. Init => Mailbox!Init
    <2> SUFFICES ASSUME Init PROVE Mailbox!Init
      OBVIOUS
    <2>1. \A p \in Peers : Stored(p) = {} /\ Waiting(p) = {}
      BY DEF Init, Stored, Waiting
    <2>2. \A p \in Peers : /\ Taken(p) = {}
                           /\ Own(p, delivered[p]) = {} /\ Own(p, read[p]) = {}
      BY <2>1 DEF Init, Taken, Incoming, Own
    <2>3. QED BY <2>2 DEF Init, Mailbox!Init
  <1>2. Init => OnlyWritten
    BY DEF Init, OnlyWritten, Stored
  <1>3. ChatInv /\ OnlyWritten /\ [Next]_vars => OnlyWritten'
    BY WrittenStep DEF ChatInv
  <1>4. ChatInv /\ OnlyWritten /\ [Next]_vars => [Mailbox!Next]_Mailbox!vars
    BY MailboxStep
  <1>5. QED
    BY <1>1, <1>2, <1>3, <1>4, ChatInductive, PTL DEF Spec, KeepsMailbox, Mailbox!Spec
=============================================================================
