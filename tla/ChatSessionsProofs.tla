------------------------ MODULE ChatSessionsProofs ------------------------
(***************************************************************************)
(* What holds of the connections and chat sessions of any two clients,     *)
(* whatever breaks and however often: neither of them ever waits for a     *)
(* reconnect that nobody has scheduled, they never offer to each other, an *)
(* offer that is not answered was lost or never described, and the channel *)
(* they provide is the one text delivery relies on.                        *)
(***************************************************************************)
EXTENDS ChatSessions, SequenceTheorems, TLAPS

\* There are two clients, and Other is the other one.
LEMMA TwoPeers ==
  ASSUME NEW p \in Peers
  PROVE  /\ Other(p) \in Peers /\ Other(p) # p /\ Other(Other(p)) = p
         /\ \A q \in Peers : q = p \/ q = Other(p)
  <1>1. PICK x \in Peers, y \in Peers : x # y /\ Peers = {x, y}
    BY SessionAssumption
  <1>2. \A q \in Peers : \E r \in Peers : r # q
    BY <1>1
  <1>3. \A q \in Peers : Other(q) \in Peers /\ Other(q) # q
    BY <1>2 DEF Other
  <1>4. QED BY <1>1, <1>3

----------------------------------------------------------------------------
(* What is in a sequence.                                                  *)

LEMMA ItemsAppend ==
  ASSUME NEW S, NEW seq \in Seq(S), NEW e \in S
  PROVE  Append(seq, e) \in Seq(S) /\ Items(Append(seq, e)) = Items(seq) \cup {e}
  <1>1. Append(seq, e) \in Seq(S) /\ Len(Append(seq, e)) = Len(seq) + 1
    OBVIOUS
  <1>2. \A i \in 1..Len(seq) : Append(seq, e)[i] = seq[i]
    OBVIOUS
  <1>3. Append(seq, e)[Len(seq) + 1] = e
    OBVIOUS
  <1>4. DOMAIN Append(seq, e) = (1..Len(seq)) \cup {Len(seq) + 1} /\ DOMAIN seq = 1..Len(seq)
    BY <1>1
  <1>5. QED BY <1>1, <1>2, <1>3, <1>4 DEF Items

LEMMA ItemsTail ==
  ASSUME NEW S, NEW seq \in Seq(S), seq # << >>
  PROVE  /\ Tail(seq) \in Seq(S) /\ Head(seq) \in S
         /\ Items(seq) = {Head(seq)} \cup Items(Tail(seq))
  <1>1. /\ Tail(seq) \in Seq(S) /\ Head(seq) = seq[1] /\ Head(seq) \in S
        /\ Len(seq) \in Nat /\ Len(seq) # 0 /\ Len(Tail(seq)) = Len(seq) - 1
    OBVIOUS
  <1>2. \A i \in 1..Len(Tail(seq)) : Tail(seq)[i] = seq[i + 1]
    OBVIOUS
  <1>3. DOMAIN seq = 1..Len(seq) /\ DOMAIN Tail(seq) = 1..(Len(seq) - 1)
    BY <1>1
  <1>4. \A i \in DOMAIN seq : seq[i] \in {Head(seq)} \cup Items(Tail(seq))
    <2>1. \A i \in DOMAIN seq : i = 1 \/ i - 1 \in DOMAIN Tail(seq)
      BY <1>1, <1>3
    <2>2. \A i \in DOMAIN seq : i - 1 \in DOMAIN Tail(seq) => seq[i] = Tail(seq)[i - 1]
      BY <1>1, <1>2, <1>3
    <2>3. QED BY <1>1, <2>1, <2>2 DEF Items
  <1>5. \A i \in DOMAIN Tail(seq) : Tail(seq)[i] \in Items(seq)
    BY <1>1, <1>2, <1>3 DEF Items
  <1>6. Head(seq) \in Items(seq)
    BY <1>1, <1>3 DEF Items
  <1>7. QED BY <1>1, <1>4, <1>5, <1>6 DEF Items

LEMMA ItemsConcat ==
  ASSUME NEW S, NEW seq \in Seq(S), NEW more \in Seq(S)
  PROVE  seq \o more \in Seq(S) /\ Items(seq \o more) = Items(seq) \cup Items(more)
  <1>1. seq \o more \in Seq(S) /\ Len(seq \o more) = Len(seq) + Len(more)
    OBVIOUS
  <1>2. /\ \A i \in 1..Len(seq) : (seq \o more)[i] = seq[i]
        /\ \A i \in 1..Len(more) : (seq \o more)[Len(seq) + i] = more[i]
    OBVIOUS
  <1>3. /\ DOMAIN (seq \o more) = 1..(Len(seq) + Len(more))
        /\ DOMAIN seq = 1..Len(seq) /\ DOMAIN more = 1..Len(more)
        /\ Len(seq) \in Nat /\ Len(more) \in Nat
    BY <1>1
  <1>4. \A i \in 1..(Len(seq) + Len(more)) :
          i \in 1..Len(seq) \/ \E k \in 1..Len(more) : i = Len(seq) + k
    <2>1. ASSUME NEW i \in 1..(Len(seq) + Len(more)), i \notin 1..Len(seq)
          PROVE  i - Len(seq) \in 1..Len(more) /\ i = Len(seq) + (i - Len(seq))
      BY <2>1, <1>3
    <2>2. QED BY <2>1
  <1>5. \A k \in 1..Len(more) : Len(seq) + k \in 1..(Len(seq) + Len(more))
    BY <1>3
  <1>6. Items(seq \o more) \subseteq Items(seq) \cup Items(more)
    <2>1. ASSUME NEW i \in 1..(Len(seq) + Len(more))
          PROVE  (seq \o more)[i] \in Items(seq) \cup Items(more)
      <3>1. CASE i \in 1..Len(seq)
        BY <3>1, <1>2, <1>3 DEF Items
      <3>2. CASE \E k \in 1..Len(more) : i = Len(seq) + k
        BY <3>2, <1>2, <1>3 DEF Items
      <3>3. QED BY <3>1, <3>2, <1>4
    <2>2. QED BY <2>1, <1>3 DEF Items
  <1>7. Items(seq) \subseteq Items(seq \o more)
    BY <1>2, <1>3 DEF Items
  <1>8. Items(more) \subseteq Items(seq \o more)
    BY <1>2, <1>3, <1>5 DEF Items
  <1>9. QED BY <1>1, <1>6, <1>7, <1>8

LEMMA ItemsFew ==
  /\ Items(<< >>) = {} /\ \A e : Items(<< e >>) = {e}
  /\ \A S : \A seq \in Seq(S) : Items(seq) \subseteq S
  <1>1. Items(<< >>) = {} /\ \A e : Items(<< e >>) = {e}
    BY DEF Items
  <1>2. ASSUME NEW S, NEW seq \in Seq(S)
        PROVE  Items(seq) \subseteq S
    BY DEF Items
  <1>3. QED BY <1>1, <1>2

----------------------------------------------------------------------------
(* Types.                                                                  *)

LEMMA FramesType ==
  /\ \A n \in Negotiations, t \in {"offer", "answer"} : [t |-> t, n |-> n] \in Frames
  /\ \A L \in SUBSET Peers : Presence(L) \in Frames
  /\ \A f \in Frames : f.t # "presence" => f.n \in Negotiations
  BY DEF Frames, Presence

LEMMA DescriptionsType ==
  ASSUME NEW seq \in Seq(Frames)
  PROVE  {f.n : f \in Descriptions(seq)} \subseteq Negotiations
  <1>1. Descriptions(seq) \subseteq Frames
    BY ItemsFew DEF Descriptions
  <1>2. \A f \in Descriptions(seq) : f.t # "presence"
    BY DEF Descriptions
  <1>3. QED BY <1>1, <1>2, FramesType

\* A session on its own.
LEMMA SessionType ==
  ASSUME NEW s \in Sessions
  PROVE  /\ s.role \in {"caller", "callee"} /\ s.n \in Negotiations
         /\ s.remote \in Negotiations \cup {0} /\ s.owed \in Seq(Negotiations)
         /\ s.used \in BOOLEAN /\ s.ice \in {"new", "up", "cut"}
  BY DEF Sessions

LEMMA OwedType ==
  ASSUME TypeOK, NEW p \in Peers
  PROVE  Owed(p) \subseteq Negotiations /\ Pending(p) \subseteq Negotiations
  <1>1. Owed(p) \subseteq Negotiations
    <2>1. CASE session[p] = NoSession
      BY <2>1 DEF Owed
    <2>2. CASE session[p] # NoSession
      <3>1. session[p] \in Sessions
        BY <2>2 DEF TypeOK
      <3>2. QED BY <2>2, <3>1, SessionType, ItemsFew DEF Owed
    <2>3. QED BY <2>1, <2>2
  <1>2. inbox[p] \in Seq(Frames)
    BY DEF TypeOK
  <1>3. QED BY <1>1, <1>2, DescriptionsType DEF Pending

LEMMA ListedType ==
  ASSUME NEW h, NEW p \in Peers
  PROVE  Listed(h, p) \in Seq(Frames)
  <1>1. Presence({q \in Peers : h[q] # "none"}) \in Frames
    BY FramesType
  <1>2. << Presence({q \in Peers : h[q] # "none"}) >> \in Seq(Frames) /\ << >> \in Seq(Frames)
    BY <1>1
  <1>3. QED BY <1>2 DEF Listed

\* What the parts of the actions do to the types.
LEMMA SendType ==
  ASSUME TypeOK, NEW p \in Peers, NEW n \in Negotiations, NEW t \in {"offer", "answer"},
         Send(p, [t |-> t, n |-> n])
  PROVE  inbox' \in [Peers -> Seq(Frames)] /\ lost' \subseteq Negotiations
  <1> DEFINE f == [t |-> t, n |-> n]
  <1>1. f \in Frames /\ f.n \in Negotiations
    BY FramesType
  <1>2. Other(p) \in Peers /\ inbox[Other(p)] \in Seq(Frames)
    BY TwoPeers DEF TypeOK
  <1>3. Append(inbox[Other(p)], f) \in Seq(Frames)
    BY <1>1, <1>2, ItemsAppend
  <1>4. CASE Reaches(p) /\ Reaches(Other(p))
    <2>1. inbox' = [inbox EXCEPT ![Other(p)] = Append(@, f)] /\ lost' = lost
      BY <1>4 DEF Send
    <2>2. QED BY <1>2, <1>3, <2>1 DEF TypeOK
  <1>5. CASE ~(Reaches(p) /\ Reaches(Other(p)))
    <2>1. lost' = lost \cup {f.n} /\ inbox' = inbox
      BY <1>5 DEF Send
    <2>2. QED BY <1>1, <2>1 DEF TypeOK
  <1>6. QED BY <1>4, <1>5

LEMMA DropType ==
  ASSUME TypeOK, NEW p \in Peers, Drop(p)
  PROVE  /\ alive' \in [Peers -> BOOLEAN] /\ inbox' \in [Peers -> Seq(Frames)]
         /\ lost' \subseteq Negotiations
  <1>1. << >> \in Seq(Frames)
    OBVIOUS
  <1>2. inbox' \in [Peers -> Seq(Frames)] /\ alive' \in [Peers -> BOOLEAN]
    BY <1>1 DEF Drop, TypeOK
  <1>3. inbox[p] \in Seq(Frames)
    BY DEF TypeOK
  <1>4. QED BY <1>2, <1>3, DescriptionsType DEF Drop, TypeOK

LEMMA UnregisteredType ==
  ASSUME TypeOK, NEW p \in Peers
  PROVE  Unregistered(p) \in [Peers -> {"none", "stale", "current"}]
  BY DEF Unregistered, TypeOK

LEMMA DisconnectedType ==
  ASSUME TypeOK, NEW p \in Peers, Disconnected(p)
  PROVE  /\ sock' \in [Peers -> {"off", "opening", "closing", "on"}]
         /\ awaiting' \in [Peers -> BOOLEAN] /\ timer' \in [Peers -> BOOLEAN]
         /\ online' \in [Peers -> BOOLEAN]
         /\ hub' \in [Peers -> {"none", "stale", "current"}]
         /\ alive' \in [Peers -> BOOLEAN] /\ inbox' \in [Peers -> Seq(Frames)]
         /\ lost' \subseteq Negotiations
  <1>1. Drop(p) /\ hub' = Unregistered(p)
    BY DEF Disconnected
  <1>2. /\ sock' \in [Peers -> {"off", "opening", "closing", "on"}]
        /\ awaiting' \in [Peers -> BOOLEAN] /\ timer' \in [Peers -> BOOLEAN]
        /\ online' \in [Peers -> BOOLEAN]
    BY DEF Disconnected, TypeOK
  <1>3. QED BY <1>1, <1>2, DropType, UnregisteredType

LEMMA BeginType ==
  ASSUME TypeOK, NEW p \in Peers, Begin(p)
  PROVE  /\ session' \in [Peers -> Sessions \cup {NoSession}] /\ lost' \subseteq Negotiations
         /\ blank' \subseteq Peers \X Negotiations
  <1>1. PICK n \in Unused :
          /\ lost' = lost \ {n} /\ blank' \subseteq blank
          /\ session' = [session EXCEPT ![p] =
               [role |-> "caller", n |-> n, remote |-> 0, owed |-> << n >>,
                used |-> FALSE, ice |-> "new"]]
    BY DEF Begin
  <1>2. n \in Negotiations
    BY DEF Unused
  <1>3. << n >> \in Seq(Negotiations)
    BY <1>2
  <1>4. QED BY <1>1, <1>2, <1>3 DEF TypeOK, Sessions

LEMMA StopType ==
  ASSUME TypeOK, NEW p \in Peers, Stop(p)
  PROVE  /\ session' \in [Peers -> Sessions \cup {NoSession}]
         /\ chanOpen' \in [Peers -> BOOLEAN] /\ link' = 0
         /\ lost' \subseteq Negotiations
  BY OwedType DEF Stop, TypeOK

LEMMA TakeType ==
  ASSUME TypeOK, NEW p \in Peers, NEW kind, Take(p, kind)
  PROVE  /\ inbox' \in [Peers -> Seq(Frames)] /\ Head(inbox[p]) \in Frames
         /\ Head(inbox[p]).t = kind
         /\ kind # "presence" => Head(inbox[p]).n \in Negotiations
  <1>1. inbox[p] \in Seq(Frames) /\ inbox[p] # << >> /\ Head(inbox[p]).t = kind
    BY DEF Take, TypeOK
  <1>2. Tail(inbox[p]) \in Seq(Frames) /\ Head(inbox[p]) \in Frames
    BY <1>1, ItemsTail
  <1>3. inbox' \in [Peers -> Seq(Frames)]
    BY <1>2 DEF Take, TypeOK
  <1>4. QED BY <1>1, <1>2, <1>3, FramesType

LEMMA FaultType ==
  ASSUME TypeOK, Fault
  PROVE  faults' \in 0..MaxFaults
  BY SessionAssumption DEF TypeOK, Fault

\* Every step keeps the types.
LEMMA TypeStep ==
  ASSUME TypeOK, [Next]_vars
  PROVE  TypeOK'
  <1> USE DEF TypeOK, socketVars, sessionVars
  <1>1. ASSUME NEW p \in Peers, OnConnected(p)
        PROVE  TypeOK'
    <2>1. hub' \in [Peers -> {"none", "stale", "current"}]
      BY <1>1 DEF OnConnected
    <2>2. inbox' \in [Peers -> Seq(Frames)]
      <3>1. \A q \in Peers : inbox[q] \o Listed(hub', q) \in Seq(Frames)
        BY ListedType, ItemsConcat
      <3>2. QED BY <1>1, <3>1 DEF OnConnected
    <2>3. QED BY <1>1, <2>1, <2>2 DEF OnConnected
  <1>2. ASSUME NEW p \in Peers, Socket(p)
        PROVE  TypeOK'
    <2>1. CASE OnError(p)
      BY <2>1 DEF OnError
    <2>2. CASE OnDisconnected(p)
      BY <2>2, DisconnectedType DEF OnDisconnected
    <2>3. CASE TryReconnect(p)
      BY <2>3 DEF TryReconnect
    <2>4. CASE Ping(p)
      BY <2>4 DEF Ping
    <2>5. CASE PingTimeout(p)
      <3>1. CASE awaiting[p]
        BY <2>5, <3>1, DisconnectedType DEF PingTimeout
      <3>2. CASE ~awaiting[p]
        BY <2>5, <3>2 DEF PingTimeout
      <3>3. QED BY <3>1, <3>2
    <2>6. QED BY <1>2, <2>1, <2>2, <2>3, <2>4, <2>5 DEF Socket
  <1>3. ASSUME NEW p \in Peers, HubDrops(p)
        PROVE  TypeOK'
    <2>1. \A q \in Peers : inbox[q] \o Listed(hub', q) \in Seq(Frames)
      BY ListedType, ItemsConcat
    <2>2. inbox' \in [Peers -> Seq(Frames)] /\ hub' \in [Peers -> {"none", "stale", "current"}]
      BY <1>3, <2>1 DEF HubDrops
    <2>3. QED BY <1>3, <2>2 DEF HubDrops
  <1>4. ASSUME NEW p \in Peers, OnPresence(p)
        PROVE  TypeOK'
    <2>1. inbox' \in [Peers -> Seq(Frames)]
      BY <1>4, TakeType DEF OnPresence, SyncChatSessions
    <2>2. /\ session' \in [Peers -> Sessions \cup {NoSession}] /\ lost' \subseteq Negotiations
          /\ chanOpen' \in [Peers -> BOOLEAN] /\ link' \in Negotiations \cup {0}
          /\ blank' \subseteq Peers \X Negotiations
      <3>1. CASE Stop(p) /\ UNCHANGED blank
        BY <3>1, StopType
      <3>2. CASE Begin(p)
        BY <3>2, BeginType DEF Begin
      <3>3. CASE UNCHANGED <<session, chanOpen, link, lost, blank>>
        BY <3>3
      <3>4. QED BY <1>4, <3>1, <3>2, <3>3 DEF OnPresence, SyncChatSessions
    <2>3. online' \in [Peers -> BOOLEAN]
      BY <1>4 DEF OnPresence, SyncChatSessions
    <2>4. QED BY <1>4, <2>1, <2>2, <2>3 DEF OnPresence, SyncChatSessions
  <1>5. ASSUME NEW p \in Peers, OnOffer(p)
        PROVE  TypeOK'
    <2> DEFINE n == Head(inbox[p]).n
               s == session[p]
    <2>1. inbox' \in [Peers -> Seq(Frames)] /\ n \in Negotiations
      BY <1>5, TakeType DEF OnOffer
    <2>2. session' \in [Peers -> Sessions \cup {NoSession}]
      <3>1. CASE s = NoSession
        <4>1. << n >> \in Seq(Negotiations)
          BY <2>1
        <4>2. [role |-> "callee", n |-> n, remote |-> n, owed |-> << n >>,
               used |-> FALSE, ice |-> "new"] \in Sessions
          BY <2>1, <4>1 DEF Sessions
        <4>3. QED BY <1>5, <3>1, <4>2 DEF OnOffer
      <3>2. CASE s # NoSession
        <4>1. s \in Sessions
          BY <3>2
        <4>2. Append(s.owed, n) \in Seq(Negotiations)
          BY <2>1, <4>1, SessionType, ItemsAppend
        <4>3. [s EXCEPT !.role = "callee", !.n = n, !.remote = n,
                        !.owed = Append(@, n), !.used = TRUE] \in Sessions
          BY <2>1, <4>1, <4>2 DEF Sessions
        <4>4. QED BY <1>5, <3>2, <4>3 DEF OnOffer
      <3>3. QED BY <3>1, <3>2
    <2>3. QED BY <1>5, <2>1, <2>2 DEF OnOffer
  <1>6. ASSUME NEW p \in Peers, OnAnswer(p)
        PROVE  TypeOK'
    <2>1. inbox' \in [Peers -> Seq(Frames)] /\ Head(inbox[p]).n \in Negotiations
      BY <1>6, TakeType DEF OnAnswer
    <2>2. session' \in [Peers -> Sessions \cup {NoSession}]
      <3>1. CASE session[p] # NoSession /\ session[p].remote = 0
        <4> DEFINE n == Head(inbox[p]).n
        <4>0. session[p] \in Sessions /\ n \in Negotiations
          BY <2>1, <3>1
        <4> HIDE DEF n
        <4>1. [session[p] EXCEPT !.remote = n] \in Sessions
          BY <4>0 DEF Sessions
        <4>2. session' = [session EXCEPT ![p] = [@ EXCEPT !.remote = n]]
          BY <1>6, <3>1 DEF OnAnswer, n
        <4>3. QED BY <4>1, <4>2
      <3>2. CASE ~(session[p] # NoSession /\ session[p].remote = 0)
        BY <1>6, <3>2 DEF OnAnswer
      <3>3. QED BY <3>1, <3>2
    <2>3. QED BY <1>6, <2>1, <2>2 DEF OnAnswer
  <1>7. ASSUME NEW p \in Peers, Retry(p)
        PROVE  TypeOK'
    <2>1. CASE Begin(p)
      BY <1>7, <2>1, BeginType DEF Retry, Begin
    <2>2. CASE UNCHANGED <<session, chanOpen, link, lost, blank>>
      BY <1>7, <2>2 DEF Retry
    <2>3. QED BY <1>7, <2>1, <2>2 DEF Retry
  <1>8. ASSUME NEW p \in Peers, Describe(p)
        PROVE  TypeOK'
    <2>1. PICK t \in {"offer", "answer"} :
            /\ session[p] # NoSession /\ session[p].owed # << >>
            /\ Send(p, [t |-> t, n |-> Head(session[p].owed)])
            /\ session' = [session EXCEPT ![p].owed = Tail(@)]
      BY <1>8 DEF Describe, OnOfferCreated, OnAnswerCreated, SendOwed
    <2>2. session[p] \in Sessions
      BY <2>1
    <2>3. Tail(session[p].owed) \in Seq(Negotiations) /\ Head(session[p].owed) \in Negotiations
      BY <2>1, <2>2, SessionType, ItemsTail
    <2>4. inbox' \in [Peers -> Seq(Frames)] /\ lost' \subseteq Negotiations
      BY <2>1, <2>3, SendType
    <2>5. session' \in [Peers -> Sessions \cup {NoSession}]
      BY <2>1, <2>2, <2>3 DEF Sessions
    <2>6. QED BY <1>8, <2>4, <2>5 DEF Describe, OnOfferCreated, OnAnswerCreated, SendOwed
  <1>17. ASSUME NEW p \in Peers, NoDescription(p)
         PROVE  TypeOK'
    <2>1. session[p] # NoSession /\ session[p].owed # << >> /\ session[p] \in Sessions
      BY <1>17 DEF NoDescription
    <2>2. Tail(session[p].owed) \in Seq(Negotiations) /\ Head(session[p].owed) \in Negotiations
      BY <2>1, SessionType, ItemsTail
    <2>3. session' \in [Peers -> Sessions \cup {NoSession}]
      BY <1>17, <2>1, <2>2 DEF NoDescription, Sessions
    <2>4. blank' \subseteq Peers \X Negotiations
      BY <1>17, <2>2 DEF NoDescription
    <2>5. faults' \in 0..MaxFaults
      BY <1>17, FaultType DEF NoDescription
    <2>6. QED BY <1>17, <2>3, <2>4, <2>5 DEF NoDescription
  <1>9. ASSUME NEW p \in Peers, OnChannelOpen(p) \/ OnChannelClose(p)
        PROVE  TypeOK'
    BY <1>9 DEF OnChannelOpen, OnChannelClose
  <1>10. ASSUME NEW p \in Peers, IceBlips(p)
         PROVE  TypeOK'
    <2>1. session' \in [Peers -> Sessions \cup {NoSession}]
      <3>1. PICK s \in {"cut", "up"} :
              /\ session[p] # NoSession
              /\ session' = [session EXCEPT ![p] = [@ EXCEPT !.ice = s]]
        BY <1>10 DEF IceBlips, HasIce
      <3>2. session[p] \in Sessions
        BY <3>1
      <3>3. [session[p] EXCEPT !.ice = s] \in Sessions
        BY <3>2 DEF Sessions
      <3>4. QED BY <3>1, <3>3
    <2>2. QED BY <1>10, <2>1 DEF IceBlips
  <1>11. ASSUME NEW p \in Peers, IceGivesUp(p)
         PROVE  TypeOK'
    <2>1. Stop(p) /\ retry' \in [Peers -> BOOLEAN]
      BY <1>11 DEF IceGivesUp, ConnectionFailed
    <2>2. QED BY <1>11, <2>1, StopType DEF IceGivesUp
  <1>12. ASSUME NEW p \in Peers, IceConnects(p, Other(p))
         PROVE  TypeOK'
    <2>1. session[p] \in Sessions /\ session[Other(p)] \in Sessions /\ Other(p) \in Peers
      BY <1>12, TwoPeers DEF IceConnects, Paired
    <2>2. session' \in [Peers -> Sessions \cup {NoSession}]
      BY <1>12, <2>1, TwoPeers DEF IceConnects, Sessions
    <2>3. link' \in Negotiations
      BY <1>12, <2>1, SessionType DEF IceConnects
    <2>4. QED BY <1>12, <2>2, <2>3 DEF IceConnects
  <1>13. ASSUME NEW p \in Peers, Faults(p)
         PROVE  TypeOK'
    <2>1. faults' \in 0..MaxFaults
      BY <1>13, FaultType DEF Faults, SocketLost, SocketDies, Restart
    <2>2. CASE SocketLost(p)
      BY <2>1, <2>2, DisconnectedType DEF SocketLost
    <2>3. CASE SocketDies(p)
      BY <2>1, <2>3, DropType DEF SocketDies
    <2>4. CASE Restart(p)
      <3>1. inbox' \in [Peers -> Seq(Frames)]
        <4>1. << >> \in Seq(Frames)
          OBVIOUS
        <4>2. QED BY <2>4, <4>1 DEF Restart
      <3>2. hub' \in [Peers -> {"none", "stale", "current"}] /\ lost' \subseteq Negotiations
        BY <2>4, OwedType, UnregisteredType DEF Restart
      <3>3. QED BY <2>1, <2>4, <3>1, <3>2 DEF Restart
    <2>5. QED BY <1>13, <2>2, <2>3, <2>4 DEF Faults
  <1>14. CASE PathBreaks \/ PathHeals
    <2>1. CASE PathBreaks
      <3>1. Fault /\ path' = FALSE
        BY <2>1 DEF PathBreaks
      <3>2. faults' \in 0..MaxFaults
        BY <3>1, FaultType
      <3>3. QED BY <2>1, <3>1, <3>2 DEF PathBreaks
    <2>2. CASE PathHeals
      BY <2>2 DEF PathHeals
    <2>3. QED BY <1>14, <2>1, <2>2
  <1>15. CASE UNCHANGED vars
    BY <1>15 DEF vars
  <1>16. QED
    BY <1>1, <1>2, <1>3, <1>4, <1>5, <1>6, <1>7, <1>8, <1>9, <1>10, <1>11, <1>12,
       <1>13, <1>14, <1>15, <1>17
    DEF Next, MainThread, StreamThread

LEMMA TypeInit == Init => TypeOK
  <1>1. << >> \in Seq(Frames)
    OBVIOUS
  <1>2. QED BY <1>1, SessionAssumption DEF Init, TypeOK

\* The variables keep their types, whatever breaks (TypeOK).
THEOREM SessionsTypeCorrect == Spec => []TypeOK
  BY TypeInit, TypeStep, PTL DEF Spec

----------------------------------------------------------------------------
(* Connections.                                                            *)

\* The socket variables when a connection is given up.
LEMMA GivenUp ==
  ASSUME TypeOK, NeverGivesUp, NEW p \in Peers,
         \/ Disconnected(p)
         \/ OnError(p) \/ TryReconnect(p) \/ OnConnected(p) \/ SocketDies(p) \/ Restart(p)
  PROVE  NeverGivesUp'
  <1> USE DEF TypeOK, NeverGivesUp
  <1>1. CASE Disconnected(p)
    BY <1>1 DEF Disconnected, Drop
  <1>2. CASE OnError(p)
    <2>1. PICK s \in {"off", "closing"} :
            /\ sock' = [sock EXCEPT ![p] = s]
            /\ timer' = [timer EXCEPT ![p] = @ \/ sock'[p] = "off"]
            /\ alive' = alive /\ sock[p] = "opening"
      BY <1>2 DEF OnError
    <2>2. \A q \in Peers : q # p => /\ sock'[q] = sock[q] /\ timer'[q] = timer[q]
      BY <2>1
    <2>3. sock'[p] = s /\ (s = "off" => timer'[p]) /\ ~alive[p]
      BY <2>1
    <2>4. QED BY <2>1, <2>2, <2>3
  <1>3. CASE TryReconnect(p)
    <2>1. /\ timer' = [timer EXCEPT ![p] = FALSE]
          /\ sock' = [sock EXCEPT ![p] = IF @ = "off" THEN "opening" ELSE @]
          /\ alive' = alive
      BY <1>3 DEF TryReconnect
    <2>2. \A q \in Peers : q # p => /\ sock'[q] = sock[q] /\ timer'[q] = timer[q]
      BY <2>1
    <2>3. sock'[p] # "off" /\ (sock[p] # "off" => sock'[p] = sock[p])
      BY <2>1
    <2>4. QED BY <2>1, <2>2, <2>3
  <1>4. CASE OnConnected(p)
    BY <1>4 DEF OnConnected
  <1>5. CASE SocketDies(p)
    BY <1>5 DEF SocketDies, Drop
  <1>6. CASE Restart(p)
    BY <1>6 DEF Restart
  <1>7. QED BY <1>1, <1>2, <1>3, <1>4, <1>5, <1>6

LEMMA NeverGivesUpStep ==
  ASSUME TypeOK, NeverGivesUp, [Next]_vars
  PROVE  NeverGivesUp'
  <1>1. CASE UNCHANGED <<sock, alive, timer>>
    BY <1>1 DEF NeverGivesUp
  <1>2. ASSUME NEW p \in Peers, Socket(p) \/ OnConnected(p) \/ Faults(p)
        PROVE  NeverGivesUp'
    <2>1. CASE OnDisconnected(p) \/ SocketLost(p)
      BY <2>1, GivenUp DEF OnDisconnected, SocketLost
    <2>2. CASE Ping(p)
      BY <2>2, <1>1 DEF Ping
    <2>3. CASE PingTimeout(p)
      BY <2>3, <1>1, GivenUp DEF PingTimeout
    <2>4. CASE OnError(p) \/ TryReconnect(p) \/ OnConnected(p) \/ SocketDies(p) \/ Restart(p)
      BY <2>4, GivenUp
    <2>5. QED BY <1>2, <2>1, <2>2, <2>3, <2>4 DEF Socket, Faults
  <1>3. ASSUME NEW p \in Peers,
               \/ HubDrops(p) \/ MainThread(p) \/ Retry(p) \/ StreamThread(p)
               \/ IceGivesUp(p) \/ IceConnects(p, Other(p))
        PROVE  NeverGivesUp'
    <2>1. CASE HubDrops(p) \/ Retry(p) \/ IceGivesUp(p) \/ IceConnects(p, Other(p))
      BY <2>1, <1>1 DEF HubDrops, Retry, IceGivesUp, IceConnects, socketVars
    <2>2. CASE MainThread(p)
      BY <2>2, <1>1 DEF MainThread, OnPresence, SyncChatSessions, OnOffer, OnAnswer, socketVars
    <2>3. CASE StreamThread(p)
      BY <2>3, <1>1
      DEF StreamThread, Describe, OnOfferCreated, OnAnswerCreated, SendOwed, NoDescription,
          OnChannelOpen, OnChannelClose, IceBlips, socketVars
    <2>4. QED BY <1>3, <2>1, <2>2, <2>3
  <1>4. CASE PathBreaks \/ PathHeals \/ UNCHANGED vars
    BY <1>4, <1>1 DEF PathBreaks, PathHeals, vars, socketVars
  <1>5. QED BY <1>2, <1>3, <1>4 DEF Next

\* Whatever attempts fail and sockets die, a client that is not connected has
\* an attempt under way or a timer armed (NeverGivesUp).
THEOREM SignalingNeverGivesUp == Spec => []NeverGivesUp
  <1>1. Init => NeverGivesUp
    BY DEF Init, NeverGivesUp
  <1>2. QED BY <1>1, TypeInit, TypeStep, NeverGivesUpStep, PTL DEF Spec

\* A ping whose pong is missing went over a connection that carries nothing: the
\* flag is down whenever the connection is a new one.
AwaitsTheDead == \A p \in Peers : awaiting[p] => ~alive[p]

\* A step that leaves the connections alone keeps the flags true to them.
LEMMA PingsAside ==
  ASSUME AwaitsTheDead, UNCHANGED <<alive, awaiting>>
  PROVE  AwaitsTheDead' /\ \A p \in Peers : alive[p] => alive'[p]
  BY DEF AwaitsTheDead

LEMMA DisconnectedPings ==
  ASSUME TypeOK, AwaitsTheDead, NEW p \in Peers, Disconnected(p)
  PROVE  AwaitsTheDead' /\ \A q \in Peers \ {p} : alive[q] => alive'[q]
  BY DEF TypeOK, AwaitsTheDead, Disconnected, Drop

LEMMA PingsStep ==
  ASSUME TypeOK, NeverGivesUp, AwaitsTheDead, [Next]_vars
  PROVE  /\ AwaitsTheDead'
         /\ \A p \in Peers : alive[p] /\ ~alive'[p] => faults' = faults + 1
  <1> DEFINE Goal == /\ AwaitsTheDead'
                     /\ \A p \in Peers : alive[p] /\ ~alive'[p] => faults' = faults + 1
  <1>0. CASE UNCHANGED <<alive, awaiting>>
    BY <1>0, PingsAside
  <1>1. ASSUME NEW p \in Peers, OnConnected(p)
        PROVE  Goal
    BY <1>1 DEF OnConnected, TypeOK, AwaitsTheDead
  <1>2. ASSUME NEW p \in Peers, OnDisconnected(p)
        PROVE  Goal
    <2>1. ~alive[p] /\ Disconnected(p)
      BY <1>2 DEF OnDisconnected, NeverGivesUp
    <2>2. QED BY <2>1, DisconnectedPings
  <1>3. ASSUME NEW p \in Peers, Ping(p)
        PROVE  Goal
    BY <1>3 DEF Ping, TypeOK, AwaitsTheDead
  <1>4. ASSUME NEW p \in Peers, PingTimeout(p)
        PROVE  Goal
    <2>1. CASE awaiting[p]
      <3>1. ~alive[p] /\ Disconnected(p)
        BY <1>4, <2>1 DEF PingTimeout, AwaitsTheDead
      <3>2. QED BY <3>1, DisconnectedPings
    <2>2. CASE ~awaiting[p]
      BY <1>4, <2>2, <1>0 DEF PingTimeout
    <2>3. QED BY <2>1, <2>2
  <1>5. ASSUME NEW p \in Peers, SocketLost(p)
        PROVE  Goal
    BY <1>5, DisconnectedPings DEF SocketLost, Fault
  <1>6. ASSUME NEW p \in Peers, SocketDies(p) \/ Restart(p)
        PROVE  Goal
    <2>1. alive' = [alive EXCEPT ![p] = FALSE] /\ faults' = faults + 1
      BY <1>6 DEF SocketDies, Restart, Drop, Fault
    <2>2. awaiting' = awaiting \/ awaiting' = [awaiting EXCEPT ![p] = FALSE]
      BY <1>6 DEF SocketDies, Restart
    <2>3. \A q \in Peers : awaiting'[q] => awaiting[q]
      BY <2>2 DEF TypeOK
    <2>4. QED BY <2>1, <2>3 DEF TypeOK, AwaitsTheDead
  <1>7. ASSUME NEW p \in Peers,
               \/ OnError(p) \/ TryReconnect(p) \/ HubDrops(p) \/ Retry(p)
               \/ MainThread(p) \/ IceGivesUp(p) \/ IceConnects(p, Other(p))
        PROVE  Goal
    BY <1>7, <1>0
    DEF OnError, TryReconnect, HubDrops, Retry, MainThread, OnPresence, OnOffer, OnAnswer,
        IceGivesUp, IceConnects, socketVars
  <1>8. ASSUME NEW p \in Peers, StreamThread(p)
        PROVE  Goal
    BY <1>8, <1>0
    DEF StreamThread, Describe, OnOfferCreated, OnAnswerCreated, SendOwed, NoDescription,
        OnChannelOpen, OnChannelClose, IceBlips, socketVars
  <1>9. CASE PathBreaks \/ PathHeals \/ UNCHANGED vars
    BY <1>9, <1>0 DEF PathBreaks, PathHeals, vars, socketVars
  <1>10. QED
    BY <1>1, <1>2, <1>3, <1>4, <1>5, <1>6, <1>7, <1>8, <1>9 DEF Next, Socket, Faults

\* A connection that carries frames is lost to a fault alone: no ping, however
\* late its shot, takes a connection made anew after it for the dead one
\* (SparesTheLiving).
THEOREM PingsSpareTheLiving == Spec => SparesTheLiving
  <1>1. Init => NeverGivesUp /\ AwaitsTheDead
    BY DEF Init, NeverGivesUp, AwaitsTheDead
  <1>2. TypeOK /\ NeverGivesUp /\ AwaitsTheDead /\ [Next]_vars
          => [\A p \in Peers : alive[p] /\ ~alive'[p] => faults' = faults + 1]_vars
    BY PingsStep
  <1>3. TypeOK /\ NeverGivesUp /\ AwaitsTheDead /\ [Next]_vars => AwaitsTheDead'
    BY PingsStep
  <1>4. QED
    BY <1>1, <1>2, <1>3, TypeInit, TypeStep, NeverGivesUpStep, PTL
    DEF Spec, SparesTheLiving

----------------------------------------------------------------------------
(* Who offers.                                                             *)

\* What the parts of the actions do to the descriptions on their way.
LEMMA DescriptionsMore ==
  ASSUME NEW seq \in Seq(Frames), NEW h, NEW q \in Peers
  PROVE  Descriptions(seq \o Listed(h, q)) = Descriptions(seq)
  <1> DEFINE pres == Presence({r \in Peers : h[r] # "none"})
  <1>1. Listed(h, q) = << pres >> \/ Listed(h, q) = << >>
    BY DEF Listed
  <1>2. pres.t = "presence" /\ Items(Listed(h, q)) \subseteq {pres}
    BY <1>1, ItemsFew DEF Presence
  <1>3. Items(seq \o Listed(h, q)) = Items(seq) \cup Items(Listed(h, q))
    BY ListedType, ItemsConcat
  <1>4. QED BY <1>2, <1>3 DEF Descriptions

LEMMA DescriptionsTake ==
  ASSUME TypeOK, NEW p \in Peers, NEW kind, Take(p, kind)
  PROVE  /\ \A q \in Peers : q # p => inbox'[q] = inbox[q]
         /\ kind = "presence" => Descriptions(inbox'[p]) = Descriptions(inbox[p])
         /\ kind # "presence" =>
              Descriptions(inbox[p]) = {Head(inbox[p])} \cup Descriptions(inbox'[p])
  <1>1. inbox[p] \in Seq(Frames) /\ inbox[p] # << >> /\ Head(inbox[p]).t = kind
    BY DEF Take, TypeOK
  <1>2. inbox'[p] = Tail(inbox[p]) /\ \A q \in Peers : q # p => inbox'[q] = inbox[q]
    BY DEF Take, TypeOK
  <1>3. Items(inbox[p]) = {Head(inbox[p])} \cup Items(Tail(inbox[p]))
    BY <1>1, ItemsTail
  <1>4. QED BY <1>1, <1>2, <1>3 DEF Descriptions

LEMMA DescriptionsSend ==
  ASSUME TypeOK, NEW p \in Peers, NEW n \in Negotiations, NEW t \in {"offer", "answer"},
         Send(p, [t |-> t, n |-> n])
  PROVE  /\ inbox'[p] = inbox[p] /\ lost \subseteq lost'
         /\ \/ /\ Descriptions(inbox'[Other(p)]) =
                    Descriptions(inbox[Other(p)]) \cup {[t |-> t, n |-> n]}
            \/ inbox' = inbox /\ n \in lost'
  <1> DEFINE f == [t |-> t, n |-> n]
  <1>1. f \in Frames /\ f.n = n /\ f.t # "presence"
    BY FramesType
  <1>2. Other(p) \in Peers /\ Other(p) # p /\ inbox[Other(p)] \in Seq(Frames)
    BY TwoPeers DEF TypeOK
  <1> HIDE DEF f
  <1>3. CASE Reaches(p) /\ Reaches(Other(p))
    <2>1. inbox' = [inbox EXCEPT ![Other(p)] = Append(@, f)] /\ lost' = lost
      BY <1>3 DEF Send, f
    <2>2. inbox'[Other(p)] = Append(inbox[Other(p)], f) /\ inbox'[p] = inbox[p]
      BY <1>2, <2>1 DEF TypeOK
    <2>3. Items(inbox'[Other(p)]) = Items(inbox[Other(p)]) \cup {f}
      BY <1>1, <1>2, <2>2, ItemsAppend
    <2>4. QED BY <1>1, <2>1, <2>2, <2>3 DEF Descriptions, f
  <1>4. CASE ~(Reaches(p) /\ Reaches(Other(p)))
    BY <1>1, <1>4 DEF Send, f
  <1>5. QED BY <1>3, <1>4

LEMMA DescriptionsDrop ==
  ASSUME TypeOK, NEW p \in Peers, Drop(p)
  PROVE  /\ \A q \in Peers : q # p => inbox'[q] = inbox[q]
         /\ Descriptions(inbox'[p]) = {}
         /\ lost \subseteq lost' /\ {f.n : f \in Descriptions(inbox[p])} \subseteq lost'
  BY ItemsFew DEF Drop, TypeOK, Descriptions

\* A step either leaves sessions and descriptions alone, or breaks a connection,
\* or is one of a session.
LEMMA StepKinds ==
  ASSUME TypeOK, [Next]_vars
  PROVE  \/ /\ UNCHANGED <<session, retry, lost, blank>>
            /\ \A q \in Peers : Descriptions(inbox'[q]) = Descriptions(inbox[q])
         \/ \E p \in Peers :
              \/ Drop(p) /\ UNCHANGED <<session, retry, blank>>
              \/ OnPresence(p) \/ OnOffer(p) \/ OnAnswer(p) \/ Retry(p)
              \/ OnOfferCreated(p) \/ OnAnswerCreated(p) \/ NoDescription(p)
              \/ IceBlips(p) \/ IceConnects(p, Other(p)) \/ IceGivesUp(p) \/ Restart(p)
  <1>1. ASSUME NEW p \in Peers, OnConnected(p) \/ HubDrops(p)
        PROVE  /\ UNCHANGED <<session, retry, lost, blank>>
               /\ \A q \in Peers : Descriptions(inbox'[q]) = Descriptions(inbox[q])
    <2>1. \A q \in Peers : inbox'[q] = inbox[q] \o Listed(hub', q)
      BY <1>1 DEF OnConnected, HubDrops
    <2>2. \A q \in Peers : inbox[q] \in Seq(Frames)
      BY DEF TypeOK
    <2>3. \A q \in Peers : Descriptions(inbox'[q]) = Descriptions(inbox[q])
      <3> TAKE q \in Peers
      <3>1. inbox[q] \in Seq(Frames) /\ inbox'[q] = inbox[q] \o Listed(hub', q)
        BY <2>1, <2>2
      <3>2. Descriptions(inbox[q] \o Listed(hub', q)) = Descriptions(inbox[q])
        BY <3>1, DescriptionsMore
      <3>3. QED BY <3>1, <3>2
    <2>4. QED BY <1>1, <2>3 DEF OnConnected, HubDrops, sessionVars
  <1>2. ASSUME NEW p \in Peers, Socket(p)
        PROVE  \/ UNCHANGED <<session, retry, lost, blank, inbox>>
               \/ Drop(p) /\ UNCHANGED <<session, retry, blank>>
    BY <1>2 DEF Socket, OnError, OnDisconnected, TryReconnect, Ping, PingTimeout,
                Disconnected, sessionVars
  <1>3. ASSUME NEW p \in Peers, SocketLost(p) \/ SocketDies(p)
        PROVE  Drop(p) /\ UNCHANGED <<session, retry, blank>>
    BY <1>3 DEF SocketLost, SocketDies, Disconnected, sessionVars
  <1>4. ASSUME NEW p \in Peers, OnChannelOpen(p) \/ OnChannelClose(p)
        PROVE  UNCHANGED <<session, retry, lost, blank, inbox>>
    BY <1>4 DEF OnChannelOpen, OnChannelClose
  <1>5. ASSUME PathBreaks \/ PathHeals \/ UNCHANGED vars
        PROVE  UNCHANGED <<session, retry, lost, blank, inbox>>
    BY <1>5 DEF PathBreaks, PathHeals, vars, sessionVars
  <1>6. QED
    BY <1>1, <1>2, <1>3, <1>4, <1>5 DEF Next, MainThread, StreamThread, Describe, Faults

\* Only the smaller id has sessions that call, and retries; an offer is on its
\* way only to the other one, an answer only to it.
RolesInv ==
  \A p \in Peers :
    /\ session[p] # NoSession => (session[p].role = "caller" <=> p = Smaller)
    /\ retry[p] => p = Smaller
    /\ \A f \in Descriptions(inbox[p]) : f.t = "offer" <=> p # Smaller

\* What Begin and Stop leave of a session.
LEMMA BeginSession ==
  ASSUME TypeOK, NEW p \in Peers, Begin(p)
  PROVE  /\ \A q \in Peers : q # p => session'[q] = session[q]
         /\ session'[p] # NoSession => session'[p].role = "caller" /\ session'[p].remote = 0
         /\ session'[p] # NoSession => session'[p].owed = << session'[p].n >>
         /\ \A n \in lost \ lost' : session'[p].n = n
  BY DEF Begin, TypeOK

LEMMA StopSession ==
  ASSUME TypeOK, NEW p \in Peers, Stop(p)
  PROVE  /\ \A q \in Peers : q # p => session'[q] = session[q]
         /\ session'[p] = NoSession /\ lost' = lost \cup Owed(p)
  BY DEF Stop, TypeOK

\* Sessions that are only updated.
LEMMA SessionKept ==
  ASSUME TypeOK, NEW p \in Peers,
         \/ OnAnswer(p) \/ NoDescription(p) \/ \E role, kind : SendOwed(p, role, kind)
  PROVE  /\ \A q \in Peers : q # p => session'[q] = session[q]
         /\ session'[p] # NoSession =>
              /\ session[p] # NoSession /\ session'[p].role = session[p].role
              /\ session'[p].n = session[p].n /\ session'[p].ice = session[p].ice
  <1>1. CASE OnAnswer(p)
    <2>1. CASE session[p] # NoSession /\ session[p].remote = 0
      <3>1. session[p] \in Sessions
        BY <2>1 DEF TypeOK
      <3>2. session' = [session EXCEPT ![p].remote = Head(inbox[p]).n]
        BY <1>1, <2>1 DEF OnAnswer
      <3>3. QED BY <3>1, <3>2, <2>1 DEF TypeOK, Sessions
    <2>2. CASE session' = session
      BY <2>2
    <2>3. QED BY <1>1, <2>1, <2>2 DEF OnAnswer
  <1>2. CASE NoDescription(p) \/ \E role, kind : SendOwed(p, role, kind)
    <2>1. session[p] # NoSession /\ session' = [session EXCEPT ![p].owed = Tail(@)]
      BY <1>2 DEF SendOwed, NoDescription
    <2>2. session[p] \in Sessions
      BY <2>1 DEF TypeOK
    <2>3. QED BY <2>1, <2>2 DEF TypeOK, Sessions
  <1>3. QED BY <1>1, <1>2

LEMMA SessionStays ==
  ASSUME TypeOK, NEW p \in Peers, session[p] # NoSession,
         OnAnswer(p) \/ OnOfferCreated(p) \/ OnAnswerCreated(p) \/ NoDescription(p)
  PROVE  session'[p] # NoSession
  <1>1. session[p] \in Sessions
    BY DEF TypeOK
  <1>2. CASE OnAnswer(p)
    <2>1. \/ session'[p] = session[p]
          \/ session'[p] = [session[p] EXCEPT !.remote = Head(inbox[p]).n]
      BY <1>2 DEF OnAnswer, TypeOK
    <2>2. Head(inbox[p]).n \in Negotiations
      BY <1>2, TakeType DEF OnAnswer
    <2>3. [session[p] EXCEPT !.remote = Head(inbox[p]).n] \in Sessions
      BY <1>1, <2>2 DEF Sessions
    <2>4. QED BY <1>1, <2>1, <2>3, NoSessionAssumption
  <1>3. CASE OnOfferCreated(p) \/ OnAnswerCreated(p) \/ NoDescription(p)
    <2>1. session[p].owed # << >> /\ session' = [session EXCEPT ![p].owed = Tail(@)]
      BY <1>3 DEF OnOfferCreated, OnAnswerCreated, SendOwed, NoDescription
    <2>2. Tail(session[p].owed) \in Seq(Negotiations)
      BY <1>1, <2>1, SessionType, ItemsTail
    <2>3. session'[p] = [session[p] EXCEPT !.owed = Tail(session[p].owed)]
      BY <2>1 DEF TypeOK
    <2>4. session'[p] \in Sessions
      BY <1>1, <2>2, <2>3 DEF Sessions
    <2>5. QED BY <2>4, NoSessionAssumption
  <1>4. QED BY <1>2, <1>3

LEMMA IceOnly ==
  ASSUME NEW s \in Sessions, NEW x \in {"up", "cut"}, NEW t, t = [s EXCEPT !.ice = x]
  PROVE  /\ t \in Sessions /\ t # NoSession /\ t.role = s.role /\ t.n = s.n
         /\ t.remote = s.remote /\ t.owed = s.owed /\ t.ice = x
  BY NoSessionAssumption DEF Sessions

LEMMA IceKept ==
  ASSUME TypeOK, NEW p \in Peers, IceBlips(p) \/ IceConnects(p, Other(p))
  PROVE  \A q \in Peers :
           /\ session[q] = NoSession <=> session'[q] = NoSession
           /\ session'[q] # NoSession =>
                /\ session'[q].role = session[q].role /\ session'[q].n = session[q].n
                /\ session'[q].remote = session[q].remote
                /\ session'[q].owed = session[q].owed
  <1>1. CASE IceBlips(p)
    <2>1. PICK s \in {"cut", "up"} :
            session[p] # NoSession /\ session' = [session EXCEPT ![p].ice = s]
      BY <1>1 DEF IceBlips, HasIce
    <2>2. session[p] \in Sessions
      BY <2>1 DEF TypeOK
    <2>3. /\ session'[p] = [session[p] EXCEPT !.ice = s]
          /\ \A q \in Peers : q # p => session'[q] = session[q]
      BY <2>1 DEF TypeOK
    <2>4. /\ session'[p] # NoSession
          /\ session'[p].role = session[p].role /\ session'[p].n = session[p].n
          /\ session'[p].remote = session[p].remote /\ session'[p].owed = session[p].owed
      BY <2>2, <2>3, IceOnly
    <2>5. QED BY <2>1, <2>3, <2>4
  <1>2. CASE IceConnects(p, Other(p))
    <2>1. Other(p) \in Peers /\ Other(p) # p
      BY TwoPeers
    <2>2. session[p] # NoSession /\ session[Other(p)] # NoSession
      BY <1>2 DEF IceConnects, Paired
    <2>3. session[p] \in Sessions /\ session[Other(p)] \in Sessions
      BY <2>1, <2>2 DEF TypeOK
    <2>4. session' = [session EXCEPT ![p].ice = "up", ![Other(p)].ice = "up"]
      BY <1>2 DEF IceConnects
    <2>5. /\ session'[p] = [session[p] EXCEPT !.ice = "up"]
          /\ session'[Other(p)] = [session[Other(p)] EXCEPT !.ice = "up"]
          /\ \A q \in Peers : q # p /\ q # Other(p) => session'[q] = session[q]
      BY <2>1, <2>4 DEF TypeOK
    <2>6. \A q \in {p, Other(p)} :
            /\ session'[q] # NoSession
            /\ session'[q].role = session[q].role /\ session'[q].n = session[q].n
            /\ session'[q].remote = session[q].remote /\ session'[q].owed = session[q].owed
      BY <2>3, <2>5, IceOnly
    <2>7. QED BY <2>2, <2>5, <2>6
  <1>3. QED BY <1>1, <1>2

LEMMA RolesStep ==
  ASSUME TypeOK, RolesInv, [Next]_vars
  PROVE  RolesInv'
  <1> USE DEF RolesInv
  <1>1. CASE /\ UNCHANGED <<session, retry, lost, blank>>
             /\ \A q \in Peers : Descriptions(inbox'[q]) = Descriptions(inbox[q])
    BY <1>1
  <1>2. ASSUME NEW p \in Peers, Drop(p), UNCHANGED <<session, retry, blank>>
        PROVE  RolesInv'
    BY <1>2, DescriptionsDrop
  <1>3. ASSUME NEW p \in Peers, OnPresence(p)
        PROVE  RolesInv'
    <2>1. /\ retry' = retry
          /\ \A q \in Peers : Descriptions(inbox'[q]) = Descriptions(inbox[q])
      BY <1>3, DescriptionsTake DEF OnPresence, SyncChatSessions
    <2>2. Stop(p) \/ (Begin(p) /\ p = Smaller) \/ session' = session
      BY <1>3 DEF OnPresence, SyncChatSessions
    <2>3. QED BY <2>1, <2>2, StopSession, BeginSession
  <1>4. ASSUME NEW p \in Peers, OnOffer(p)
        PROVE  RolesInv'
    <2>1. /\ retry' = retry /\ p # Smaller
          /\ \A q \in Peers : Descriptions(inbox'[q]) \subseteq Descriptions(inbox[q])
      <3>1. Take(p, "offer") /\ retry' = retry
        BY <1>4 DEF OnOffer
      <3>2. Descriptions(inbox[p]) = {Head(inbox[p])} \cup Descriptions(inbox'[p])
        BY <3>1, DescriptionsTake
      <3>3. Head(inbox[p]).t = "offer"
        BY <3>1 DEF Take
      <3>4. QED BY <3>1, <3>2, <3>3, DescriptionsTake
    <2>2. /\ session'[p].role = "callee"
          /\ \A q \in Peers : q # p => session'[q] = session[q]
      <3>1. CASE session[p] = NoSession
        BY <1>4, <3>1 DEF OnOffer, TypeOK
      <3>2. CASE session[p] # NoSession
        <4>1. session[p] \in Sessions
          BY <3>2 DEF TypeOK
        <4>2. QED BY <1>4, <3>2, <4>1 DEF OnOffer, TypeOK, Sessions
      <3>3. QED BY <3>1, <3>2
    <2>3. QED BY <2>1, <2>2
  <1>5. ASSUME NEW p \in Peers, OnAnswer(p)
        PROVE  RolesInv'
    <2>1. /\ retry' = retry
          /\ \A q \in Peers : Descriptions(inbox'[q]) \subseteq Descriptions(inbox[q])
      BY <1>5, DescriptionsTake DEF OnAnswer
    <2>2. \A q \in Peers : session'[q] # NoSession =>
            session[q] # NoSession /\ session'[q].role = session[q].role
      BY <1>5, SessionKept DEF OnAnswer
    <2>3. QED BY <2>1, <2>2
  <1>6. ASSUME NEW p \in Peers, Retry(p)
        PROVE  RolesInv'
    <2>1. /\ inbox' = inbox /\ p = Smaller
          /\ \A q \in Peers : retry'[q] => retry[q]
          /\ Begin(p) \/ session' = session
      BY <1>6 DEF Retry, TypeOK
    <2>2. QED BY <2>1, BeginSession
  <1>7. ASSUME NEW p \in Peers, NEW t \in {"offer", "answer"},
               SendOwed(p, IF t = "offer" THEN "caller" ELSE "callee", t)
        PROVE  RolesInv'
    <2>1. /\ session[p] # NoSession /\ session[p].owed # << >> /\ retry' = retry
          /\ t = "offer" <=> p = Smaller
          /\ Send(p, [t |-> t, n |-> Head(session[p].owed)])
      BY <1>7 DEF SendOwed
    <2>2. session[p] \in Sessions /\ Head(session[p].owed) \in Negotiations
      <3>1. session[p] \in Sessions
        BY <2>1 DEF TypeOK
      <3>2. QED BY <2>1, <3>1, SessionType, ItemsTail
    <2>3. \A q \in Peers : session'[q] # NoSession =>
            session[q] # NoSession /\ session'[q].role = session[q].role
      BY <1>7, SessionKept DEF SendOwed
    <2>4. Other(p) \in Peers /\ Other(p) # p /\ \A q \in Peers : q = p \/ q = Other(p)
      BY TwoPeers
    <2>5. \A q \in Peers : \A f \in Descriptions(inbox'[q]) :
            f \in Descriptions(inbox[q]) \/ (q = Other(p) /\ f.t = t)
      <3> DEFINE n == Head(session[p].owed)
                 f == [t |-> t, n |-> n]
      <3>0. n \in Negotiations /\ Send(p, [t |-> t, n |-> n])
        BY <2>1, <2>2
      <3> HIDE DEF n
      <3>1. /\ inbox'[p] = inbox[p]
            /\ \/ Descriptions(inbox'[Other(p)]) = Descriptions(inbox[Other(p)]) \cup {f}
               \/ inbox' = inbox
        BY <3>0, DescriptionsSend
      <3>2. f.t = t
        OBVIOUS
      <3> HIDE DEF f
      <3>3. QED BY <3>1, <3>2, <2>4
    <2>6. t = "offer" <=> Other(p) # Smaller
      BY <2>1, <2>4, SessionAssumption
    <2>7. QED BY <2>1, <2>3, <2>5, <2>6
  <1>12. ASSUME NEW p \in Peers, NoDescription(p)
         PROVE  RolesInv'
    <2>1. UNCHANGED <<inbox, retry>>
      BY <1>12 DEF NoDescription
    <2>2. \A q \in Peers : session'[q] # NoSession =>
            session[q] # NoSession /\ session'[q].role = session[q].role
      BY <1>12, SessionKept
    <2>3. QED BY <2>1, <2>2
  <1>8. ASSUME NEW p \in Peers, IceBlips(p) \/ IceConnects(p, Other(p))
        PROVE  RolesInv'
    <2>1. UNCHANGED <<inbox, retry>>
      BY <1>8 DEF IceBlips, IceConnects
    <2>2. \A q \in Peers : session'[q] # NoSession =>
            session[q] # NoSession /\ session'[q].role = session[q].role
      BY <1>8, IceKept
    <2>3. QED BY <2>1, <2>2
  <1>9. ASSUME NEW p \in Peers, IceGivesUp(p)
        PROVE  RolesInv'
    <2>1. /\ Stop(p) /\ inbox' = inbox
          /\ retry' = [retry EXCEPT ![p] = @ \/ p = Smaller]
      BY <1>9 DEF IceGivesUp, ConnectionFailed
    <2>2. \A q \in Peers : retry'[q] => retry[q] \/ q = Smaller
      BY <2>1 DEF TypeOK
    <2>3. QED BY <2>1, <2>2, StopSession
  <1>10. ASSUME NEW p \in Peers, Restart(p)
         PROVE  RolesInv'
    <2>1. /\ \A q \in Peers : q # p => inbox'[q] = inbox[q] /\ session'[q] = session[q]
          /\ \A q \in Peers : retry'[q] => retry[q]
          /\ inbox'[p] = << >> /\ session'[p] = NoSession
      BY <1>10 DEF Restart, TypeOK
    <2>2. Descriptions(inbox'[p]) = {}
      BY <2>1, ItemsFew DEF Descriptions
    <2>3. QED BY <2>1, <2>2
  <1>11. QED
    BY <1>1, <1>2, <1>3, <1>4, <1>5, <1>6, <1>7, <1>8, <1>9, <1>10, <1>12, StepKinds
    DEF OnOfferCreated, OnAnswerCreated

LEMMA RolesInit == Init => RolesInv
  BY ItemsFew DEF Init, RolesInv, Descriptions

\* Presence lists, failures and retries may cross: the two never offer to each
\* other (NoGlare).
THEOREM OffersAreOneSided == Spec => []NoGlare
  <1>1. RolesInv /\ TypeOK => NoGlare
    BY SessionAssumption, SessionType DEF RolesInv, NoGlare, TypeOK
  <1>2. QED BY <1>1, TypeInit, TypeStep, RolesInit, RolesStep, PTL DEF Spec

----------------------------------------------------------------------------
(* Where an offer is, until it is answered.                                *)

\* The negotiation is under way on one of the sides, or is missing a description.
Accounted(n) == Missing(n) \/ \E p \in Peers : n \in Pending(p)

\* The offer of the smaller id's session is accounted for until its answer.
AccountInv ==
  session[Smaller] # NoSession =>
    /\ Items(session[Smaller].owed) \subseteq {session[Smaller].n}
    /\ session[Smaller].remote = 0 => Accounted(session[Smaller].n)

LEMMA AccountStep ==
  ASSUME TypeOK, RolesInv, AccountInv, [Next]_vars
  PROVE  AccountInv'
  <1> USE DEF AccountInv
  <1>s. Smaller \in Peers
    BY SessionAssumption
  \* What a step has to keep, if the session of the smaller id is the same.
  <1>k. ASSUME session'[Smaller] # NoSession =>
                 /\ session[Smaller] # NoSession
                 /\ session'[Smaller].n = session[Smaller].n
                 /\ session'[Smaller].remote = 0 => session[Smaller].remote = 0
                 /\ Items(session'[Smaller].owed) \subseteq Items(session[Smaller].owed),
               \A n : Accounted(n) => Accounted(n)'
        PROVE  AccountInv'
    BY <1>k
  <1>1. CASE /\ UNCHANGED <<session, retry, lost, blank>>
             /\ \A q \in Peers : Descriptions(inbox'[q]) = Descriptions(inbox[q])
    BY <1>1, <1>k DEF Accounted, Missing, Pending, Owed
  <1>2. ASSUME NEW p \in Peers, Drop(p), UNCHANGED <<session, retry, blank>>
        PROVE  AccountInv'
    <2>1. \A q \in Peers : Pending(q) \subseteq Pending(q)' \cup lost'
      BY <1>2, DescriptionsDrop DEF Pending, Owed
    <2>2. lost \subseteq lost'
      BY <1>2, DescriptionsDrop
    <2>3. QED BY <1>2, <1>k, <2>1, <2>2 DEF Accounted, Missing
  <1>b. ASSUME NEW p \in Peers, p = Smaller, Begin(p)
        PROVE  AccountInv'
    <2>1. session'[p] # NoSession => session'[p].owed = << session'[p].n >>
      BY <1>b, BeginSession
    <2>2. session'[p] # NoSession => Owed(p)' = {session'[p].n}
      BY <2>1, ItemsFew DEF Owed
    <2>3. QED BY <1>b, <2>1, <2>2, ItemsFew DEF Accounted, Missing, Pending
  <1>t. ASSUME NEW p \in Peers, Stop(p), UNCHANGED blank,
               \A q \in Peers : Descriptions(inbox'[q]) = Descriptions(inbox[q])
        PROVE  AccountInv'
    <2>1. /\ \A q \in Peers : q # p => session'[q] = session[q]
          /\ session'[p] = NoSession /\ lost' = lost \cup Owed(p)
      BY <1>t, StopSession
    <2>2. \A q \in Peers : Pending(q) \subseteq Pending(q)' \cup lost'
      BY <1>t, <2>1 DEF Pending, Owed
    <2>3. QED BY <1>s, <1>t, <1>k, <2>1, <2>2 DEF Accounted, Missing
  <1>3. ASSUME NEW p \in Peers, OnPresence(p)
        PROVE  AccountInv'
    <2>1. \A q \in Peers : Descriptions(inbox'[q]) = Descriptions(inbox[q])
      BY <1>3, DescriptionsTake DEF OnPresence, SyncChatSessions
    <2>2. \/ Stop(p) /\ UNCHANGED blank
          \/ Begin(p) /\ p = Smaller
          \/ UNCHANGED <<session, lost, blank>>
      BY <1>3 DEF OnPresence, SyncChatSessions
    <2>3. CASE UNCHANGED <<session, lost, blank>>
      BY <2>1, <2>3, <1>k DEF Accounted, Missing, Pending, Owed
    <2>4. QED BY <2>1, <2>2, <2>3, <1>t, <1>b
  <1>4. ASSUME NEW p \in Peers, OnOffer(p)
        PROVE  AccountInv'
    <2> DEFINE n == Head(inbox[p]).n
    <2>1. /\ Take(p, "offer") /\ UNCHANGED <<lost, blank>> /\ n \in Negotiations
          /\ Descriptions(inbox[p]) = {Head(inbox[p])} \cup Descriptions(inbox'[p])
          /\ \A q \in Peers : q # p => inbox'[q] = inbox[q]
      BY <1>4, DescriptionsTake, TakeType DEF OnOffer
    <2>2. p # Smaller
      BY <2>1 DEF RolesInv, Take
    <2>3. /\ \A q \in Peers : q # p => session'[q] = session[q]
          /\ Owed(p)' = Owed(p) \cup {n} /\ Owed(p) \subseteq Owed(p)'
      <3>1. CASE session[p] = NoSession
        <4>1. /\ session'[p].owed = << n >> /\ session'[p].role = "callee"
              /\ session'[p].n = n /\ session'[p].remote = n
              /\ session'[p].used = FALSE /\ session'[p].ice = "new"
              /\ session'[p] = [role |-> "callee", n |-> n, remote |-> n, owed |-> << n >>,
                                used |-> FALSE, ice |-> "new"]
              /\ \A q \in Peers : q # p => session'[q] = session[q]
          BY <1>4, <3>1 DEF OnOffer, TypeOK
        <4>2. << n >> \in Seq(Negotiations)
          BY <2>1
        <4>3. session'[p] \in Sessions
          BY <2>1, <4>1, <4>2 DEF Sessions
        <4>4. Owed(p)' = {n} /\ Owed(p) = {}
          BY <3>1, <4>1, <4>3, ItemsFew, NoSessionAssumption DEF Owed
        <4>5. QED BY <4>1, <4>4
      <3>2. CASE session[p] # NoSession
        <4>1. session[p] \in Sessions /\ session[p].owed \in Seq(Negotiations)
          BY <3>2, SessionType DEF TypeOK
        <4>2. Items(Append(session[p].owed, n)) = Items(session[p].owed) \cup {n}
          BY <2>1, <4>1, ItemsAppend
        <4>3. session'[p] \in Sessions \cup {NoSession}
          BY <1>4, TypeStep DEF TypeOK
        <4>4. /\ session'[p].owed = Append(session[p].owed, n)
              /\ session'[p] = [session[p] EXCEPT !.role = "callee", !.n = n, !.remote = n,
                                  !.owed = Append(@, n), !.used = TRUE]
              /\ \A q \in Peers : q # p => session'[q] = session[q]
          BY <1>4, <3>2, <4>1 DEF OnOffer, TypeOK, Sessions
        <4>5. Append(session[p].owed, n) \in Seq(Negotiations)
          BY <2>1, <4>1, ItemsAppend
        <4>6. session'[p] \in Sessions
          BY <2>1, <4>1, <4>4, <4>5 DEF Sessions
        <4>7. QED BY <3>2, <4>2, <4>4, <4>6, NoSessionAssumption DEF Owed
      <3>3. QED BY <3>1, <3>2
    <2>4. \A q \in Peers : Pending(q) \subseteq Pending(q)'
      <3>1. Pending(p) \subseteq Pending(p)'
        BY <2>1, <2>3 DEF Pending
      <3>2. \A q \in Peers : q # p => Pending(q)' = Pending(q)
        BY <2>1, <2>3 DEF Pending, Owed
      <3>3. QED BY <3>1, <3>2
    <2>5. QED BY <1>s, <1>k, <2>1, <2>2, <2>3, <2>4 DEF Accounted, Missing
  <1>5. ASSUME NEW p \in Peers, OnAnswer(p)
        PROVE  AccountInv'
    <2> DEFINE n == Head(inbox[p]).n
    <2>1. /\ Take(p, "answer") /\ UNCHANGED <<lost, blank>> /\ n \in Negotiations
          /\ Descriptions(inbox[p]) = {Head(inbox[p])} \cup Descriptions(inbox'[p])
          /\ \A q \in Peers : q # p => inbox'[q] = inbox[q]
      <3>1. Take(p, "answer") /\ UNCHANGED <<lost, blank>>
        BY <1>5 DEF OnAnswer
      <3>2. n \in Negotiations
        BY <3>1, TakeType
      <3>3. QED BY <3>1, <3>2, DescriptionsTake
    <2>2. p = Smaller
      BY <2>1 DEF RolesInv, Take
    <2>3. /\ \A q \in Peers : q # p => session'[q] = session[q]
          /\ session'[p] # NoSession =>
               /\ session[p] # NoSession /\ session'[p].remote # 0
               /\ session'[p].n = session[p].n /\ session'[p].owed = session[p].owed
      <3>1. CASE session[p] # NoSession /\ session[p].remote = 0
        <4>1. session[p] \in Sessions /\ n # 0
          BY <3>1, <2>1, SessionAssumption DEF TypeOK
        <4>2. session' = [session EXCEPT ![p].remote = n]
          BY <1>5, <3>1 DEF OnAnswer
        <4>3. QED BY <3>1, <4>1, <4>2 DEF TypeOK, Sessions
      <3>2. CASE ~(session[p] # NoSession /\ session[p].remote = 0)
        BY <1>5, <3>2 DEF OnAnswer
      <3>3. QED BY <3>1, <3>2
    <2>4. QED BY <2>2, <2>3
  <1>6. ASSUME NEW p \in Peers, Retry(p)
        PROVE  AccountInv'
    <2>1. /\ inbox' = inbox /\ p = Smaller
          /\ Begin(p) \/ UNCHANGED <<session, lost, blank>>
      BY <1>6 DEF Retry, RolesInv
    <2>2. CASE UNCHANGED <<session, lost, blank>>
      BY <2>1, <2>2, <1>k DEF Accounted, Missing, Pending, Owed
    <2>3. QED BY <2>1, <2>2, <1>b
  <1>7. ASSUME NEW p \in Peers, NEW t \in {"offer", "answer"}, NEW role, SendOwed(p, role, t)
        PROVE  AccountInv'
    <2> DEFINE n == Head(session[p].owed)
    <2>1. /\ session[p] # NoSession /\ session[p].owed # << >>
          /\ session' = [session EXCEPT ![p].owed = Tail(@)]
          /\ Send(p, [t |-> t, n |-> n]) /\ blank' = blank
      BY <1>7 DEF SendOwed
    <2>2. session[p] \in Sessions /\ session[p].owed \in Seq(Negotiations)
      BY <2>1, SessionType DEF TypeOK
    <2>3. /\ n \in Negotiations /\ Tail(session[p].owed) \in Seq(Negotiations)
          /\ Items(session[p].owed) = {n} \cup Items(Tail(session[p].owed))
      BY <2>1, <2>2, ItemsTail
    <2> HIDE DEF n
    <2>4. /\ session'[p] = [session[p] EXCEPT !.owed = Tail(@)]
          /\ session'[p].owed = Tail(session[p].owed)
          /\ session'[p].n = session[p].n /\ session'[p].remote = session[p].remote
          /\ \A q \in Peers : q # p => session'[q] = session[q]
      BY <2>1, <2>2 DEF TypeOK, Sessions
    <2>5. session'[p] \in Sessions
      BY <2>2, <2>3, <2>4 DEF Sessions
    <2>6. Owed(p) = {n} \cup Owed(p)'
      BY <2>1, <2>3, <2>4, <2>5, NoSessionAssumption DEF Owed
    <2>7. /\ Other(p) \in Peers /\ Other(p) # p /\ \A q \in Peers : q = p \/ q = Other(p)
          /\ inbox'[p] = inbox[p] /\ lost \subseteq lost'
          /\ \/ Descriptions(inbox'[Other(p)]) =
                  Descriptions(inbox[Other(p)]) \cup {[t |-> t, n |-> n]}
             \/ inbox' = inbox /\ n \in lost'
      BY <2>1, <2>3, DescriptionsSend, TwoPeers
    <2>8. \/ {g.n : g \in Descriptions(inbox'[Other(p)])} =
               {g.n : g \in Descriptions(inbox[Other(p)])} \cup {n}
          \/ inbox' = inbox /\ n \in lost'
      <3> DEFINE f == [t |-> t, n |-> n]
      <3>1. f.n = n
        OBVIOUS
      <3>2. \/ Descriptions(inbox'[Other(p)]) = Descriptions(inbox[Other(p)]) \cup {f}
            \/ inbox' = inbox /\ n \in lost'
        BY <2>7
      <3> HIDE DEF f
      <3>3. QED BY <3>1, <3>2
    <2>9. Owed(Other(p))' = Owed(Other(p))
      BY <2>4, <2>7 DEF Owed
    <2>10. \A m : Accounted(m) => Accounted(m)'
      <3>1. TAKE m
      <3>2. HAVE Accounted(m)
      <3>3. CASE m = n
        BY <2>1, <3>3, <2>7, <2>8 DEF Accounted, Missing, Pending
      <3>4. CASE m # n /\ m \in Pending(p)
        BY <2>1, <3>4, <2>6, <2>7 DEF Accounted, Missing, Pending
      <3>5. CASE m \in Pending(Other(p))
        BY <2>1, <3>5, <2>7, <2>8, <2>9 DEF Accounted, Missing, Pending
      <3>6. CASE Missing(m)
        BY <2>1, <3>6, <2>7 DEF Accounted, Missing
      <3>7. QED BY <3>2, <3>3, <3>4, <3>5, <3>6, <2>7 DEF Accounted, Missing
    <2>11. QED BY <1>s, <1>k, <2>1, <2>3, <2>4, <2>10
  <1>12. ASSUME NEW p \in Peers, NoDescription(p)
         PROVE  AccountInv'
    <2> DEFINE n == Head(session[p].owed)
    <2>1. /\ session[p] # NoSession /\ session[p].owed # << >>
          /\ session' = [session EXCEPT ![p].owed = Tail(@)]
          /\ blank' = blank \cup {<<p, n>>} /\ UNCHANGED <<inbox, lost>>
      BY <1>12 DEF NoDescription
    <2>2. session[p] \in Sessions /\ session[p].owed \in Seq(Negotiations)
      BY <2>1, SessionType DEF TypeOK
    <2>3. /\ Tail(session[p].owed) \in Seq(Negotiations)
          /\ Items(session[p].owed) = {n} \cup Items(Tail(session[p].owed))
      BY <2>1, <2>2, ItemsTail
    <2> HIDE DEF n
    <2>4. /\ session'[p] = [session[p] EXCEPT !.owed = Tail(@)]
          /\ session'[p].owed = Tail(session[p].owed)
          /\ session'[p].n = session[p].n /\ session'[p].remote = session[p].remote
          /\ \A q \in Peers : q # p => session'[q] = session[q]
      BY <2>1, <2>2 DEF TypeOK, Sessions
    <2>5. session'[p] \in Sessions
      BY <2>2, <2>3, <2>4 DEF Sessions
    <2>6. Owed(p) = {n} \cup Owed(p)'
      BY <2>1, <2>3, <2>4, <2>5, NoSessionAssumption DEF Owed
    <2>7. \A q \in Peers : Pending(q) \subseteq Pending(q)' \cup {n}
      BY <2>1, <2>4, <2>6 DEF Pending, Owed
    <2>8. \A m : Accounted(m) => Accounted(m)'
      BY <2>1, <2>7 DEF Accounted, Missing
    <2>9. QED BY <1>s, <1>k, <2>1, <2>3, <2>4, <2>8
  <1>8. ASSUME NEW p \in Peers, IceBlips(p) \/ IceConnects(p, Other(p))
        PROVE  AccountInv'
    <2>1. UNCHANGED <<inbox, lost, blank>>
      BY <1>8 DEF IceBlips, IceConnects
    <2>2. \A q \in Peers : session[q] # NoSession => session'[q] # NoSession
      BY <1>8, IceKept
    <2>3. \A q \in Peers : session'[q] # NoSession =>
            /\ session[q] # NoSession
            /\ session'[q].n = session[q].n /\ session'[q].remote = session[q].remote
            /\ session'[q].owed = session[q].owed
      BY <1>8, IceKept
    <2>4. \A q \in Peers : Pending(q) = Pending(q)'
      BY <2>1, <2>2, <2>3 DEF Pending, Owed
    <2>5. QED BY <1>s, <1>k, <2>1, <2>3, <2>4 DEF Accounted, Missing
  <1>9. ASSUME NEW p \in Peers, IceGivesUp(p)
        PROVE  AccountInv'
    BY <1>9, <1>t DEF IceGivesUp, ConnectionFailed
  <1>10. ASSUME NEW p \in Peers, Restart(p)
         PROVE  AccountInv'
    <2>1. /\ \A q \in Peers : q # p => inbox'[q] = inbox[q] /\ session'[q] = session[q]
          /\ session'[p] = NoSession /\ lost' = lost \cup Pending(p) /\ blank' = blank
      BY <1>10 DEF Restart, TypeOK
    <2>2. \A q \in Peers : Pending(q) \subseteq Pending(q)' \cup lost'
      BY <2>1 DEF Pending, Owed
    <2>3. QED BY <1>s, <1>k, <2>1, <2>2 DEF Accounted, Missing
  <1>11. QED
    BY <1>1, <1>2, <1>3, <1>4, <1>5, <1>6, <1>7, <1>8, <1>9, <1>10, <1>12, StepKinds
    DEF OnOfferCreated, OnAnswerCreated

LEMMA AccountInit == Init => AccountInv
  BY SessionAssumption DEF Init, AccountInv

LEMMA AccountImplies ==
  ASSUME TypeOK, RolesInv, AccountInv
  PROVE  UnansweredWasLost
  <1> DEFINE o == Other(Smaller)
  <1>1. /\ Smaller \in Peers /\ o \in Peers /\ o # Smaller
        /\ \A q \in Peers : q = Smaller \/ q = o
    BY SessionAssumption, TwoPeers
  <1>2. SUFFICES ASSUME NEW n \in Negotiations, Unanswered(n)
                 PROVE  Missing(n)
    BY DEF UnansweredWasLost
  <1>3. /\ session[Smaller] # NoSession /\ session[Smaller].n = n
        /\ session[Smaller].remote = 0 /\ session[Smaller].owed = << >>
        /\ Offer(n) \notin Descriptions(inbox[o])
        /\ Answer(n) \notin Descriptions(inbox[Smaller])
        /\ n \notin Owed(o)
    BY <1>2 DEF Unanswered
  <1>4. n \notin Owed(Smaller)
    BY <1>3, ItemsFew DEF Owed
  <1>5. \A q \in Peers : \A f \in Descriptions(inbox[q]) :
          f \in Frames /\ f.t # "presence"
    BY ItemsFew DEF TypeOK, Descriptions
  <1>6. \A f \in Frames : f.t # "presence" /\ f.n = n => f = Offer(n) \/ f = Answer(n)
    BY DEF Frames, Offer, Answer
  <1>7. \A f \in Descriptions(inbox[o]) : f.t = "offer"
    BY <1>1 DEF RolesInv
  <1>8. \A f \in Descriptions(inbox[Smaller]) : f.t # "offer"
    BY <1>1 DEF RolesInv
  <1>9. Offer(n).t = "offer" /\ Answer(n).t = "answer"
    BY DEF Offer, Answer
  <1>10. n \notin Pending(o)
    BY <1>1, <1>3, <1>5, <1>6, <1>7, <1>9 DEF Pending
  <1>11. n \notin Pending(Smaller)
    BY <1>1, <1>3, <1>4, <1>5, <1>6, <1>8, <1>9 DEF Pending
  <1>12. Accounted(n)
    BY <1>3 DEF AccountInv
  <1>13. QED BY <1>1, <1>10, <1>11, <1>12 DEF Accounted

\* An offer that arrives is put to webrtcbin, whatever the other side holds: a
\* session waits in vain only if an offer or an answer was lost, or webrtcbin made
\* none (UnansweredWasLost).
THEOREM UnansweredOffersWereLost == Spec => []UnansweredWasLost
  BY TypeInit, TypeStep, RolesInit, RolesStep, AccountInit, AccountStep, AccountImplies, PTL
  DEF Spec

----------------------------------------------------------------------------
(* The channel.                                                            *)

\* Who holds a channel open, or is linked, has a session whose ICE has been up:
\* a session that may still be linked comes with nothing of an older one.
ChannelInv ==
  \A p \in Peers : link # 0 \/ chanOpen[p] => session[p] # NoSession /\ session[p].ice # "new"

\* What a step does to the channel, and to the sessions of those who hold it.
LEMMA ChannelStep ==
  ASSUME TypeOK, ChannelInv, [Next]_vars
  PROVE  /\ ChannelInv'
         /\ \/ Channel!Establish \/ Channel!Break \/ \E p \in Peers : Channel!OpenChannel(p)
            \/ UNCHANGED Channel!vars
  <1> USE DEF ChannelInv, Channel!vars
  <1> DEFINE Goal == \/ Channel!Establish \/ Channel!Break
                     \/ \E p \in Peers : Channel!OpenChannel(p)
                     \/ UNCHANGED Channel!vars
  <1>0. CASE UNCHANGED <<session, chanOpen, link>>
    BY <1>0
  <1>s. ASSUME NEW p \in Peers, Stop(p)
        PROVE  ChannelInv' /\ Channel!Break
    <2>1. /\ \A q \in Peers : q # p => session'[q] = session[q] /\ chanOpen'[q] = chanOpen[q]
          /\ ~chanOpen'[p] /\ link' = 0 /\ chanOpen' \in [Peers -> BOOLEAN]
      BY <1>s DEF Stop, TypeOK
    <2>2. QED BY <2>1 DEF Channel!Break
  <1>b. ASSUME NEW p \in Peers, Begin(p), session[p] = NoSession, UNCHANGED <<chanOpen, link>>
        PROVE  ChannelInv' /\ UNCHANGED Channel!vars
    BY <1>b, BeginSession
  \* A session is updated, its ICE is what it was.
  <1>u. ASSUME UNCHANGED <<chanOpen, link>>,
               \A q \in Peers : session[q] # NoSession =>
                 /\ session'[q] # NoSession
                 /\ session[q].ice # "new" => session'[q].ice # "new"
        PROVE  ChannelInv' /\ UNCHANGED Channel!vars
    BY <1>u
  <1>1. ASSUME NEW p \in Peers, OnConnected(p) \/ Socket(p) \/ HubDrops(p)
        PROVE  UNCHANGED <<session, chanOpen, link>>
    BY <1>1 DEF OnConnected, Socket, OnError, OnDisconnected, TryReconnect, Ping, PingTimeout,
                HubDrops, sessionVars
  <1>2. ASSUME NEW p \in Peers, OnPresence(p)
        PROVE  ChannelInv' /\ Goal
    <2>1. \/ Stop(p)
          \/ session[p] = NoSession /\ Begin(p)
          \/ UNCHANGED <<session, chanOpen, link>>
      BY <1>2 DEF OnPresence, SyncChatSessions
    <2>2. QED BY <2>1, <1>0, <1>s, <1>b DEF Begin
  <1>3. ASSUME NEW p \in Peers, OnOffer(p)
        PROVE  ChannelInv' /\ Goal
    <2> DEFINE n == Head(inbox[p]).n
    <2>1. UNCHANGED <<chanOpen, link>> /\ n \in Negotiations
      BY <1>3, TakeType DEF OnOffer
    <2>2. \A q \in Peers : session[q] # NoSession =>
            session'[q] # NoSession /\ session'[q].ice = session[q].ice
      <3>1. CASE session[p] = NoSession
        BY <1>3, <3>1 DEF OnOffer, TypeOK
      <3>2. CASE session[p] # NoSession
        <4>1. session[p] \in Sessions /\ session[p].owed \in Seq(Negotiations)
          BY <3>2, SessionType DEF TypeOK
        <4>2. Append(session[p].owed, n) \in Seq(Negotiations)
          BY <2>1, <4>1, ItemsAppend
        <4>3. /\ session'[p] = [session[p] EXCEPT !.role = "callee", !.n = n, !.remote = n,
                                  !.owed = Append(@, n), !.used = TRUE]
              /\ \A q \in Peers : q # p => session'[q] = session[q]
          BY <1>3, <3>2 DEF OnOffer, TypeOK
        <4>4. session'[p] \in Sessions /\ session'[p].ice = session[p].ice
          BY <2>1, <4>1, <4>2, <4>3 DEF Sessions
        <4>5. QED BY <4>3, <4>4, NoSessionAssumption
      <3>3. QED BY <3>1, <3>2
    <2>3. QED BY <2>1, <2>2, <1>u
  <1>4. ASSUME NEW p \in Peers,
               OnAnswer(p) \/ OnOfferCreated(p) \/ OnAnswerCreated(p) \/ NoDescription(p)
        PROVE  ChannelInv' /\ Goal
    <2>1. UNCHANGED <<chanOpen, link>>
      BY <1>4 DEF OnAnswer, OnOfferCreated, OnAnswerCreated, SendOwed, NoDescription
    <2>2. /\ \A q \in Peers : q # p => session'[q] = session[q]
          /\ session'[p] # NoSession => session'[p].ice = session[p].ice
      BY <1>4, SessionKept DEF OnOfferCreated, OnAnswerCreated
    <2>3. session[p] # NoSession => session'[p] # NoSession
      BY <1>4, SessionStays DEF OnOfferCreated, OnAnswerCreated
    <2>4. QED BY <2>1, <2>2, <2>3, <1>u
  <1>5. ASSUME NEW p \in Peers, Retry(p)
        PROVE  ChannelInv' /\ Goal
    <2>1. \/ session[p] = NoSession /\ Begin(p)
          \/ UNCHANGED <<session, chanOpen, link>>
      BY <1>5 DEF Retry
    <2>2. QED BY <2>1, <1>0, <1>b DEF Begin
  <1>6. ASSUME NEW p \in Peers, OnChannelOpen(p)
        PROVE  ChannelInv' /\ Channel!OpenChannel(p)
    <2>1. /\ link # 0 /\ ~chanOpen[p] /\ UNCHANGED <<session, link>>
          /\ chanOpen' = [chanOpen EXCEPT ![p] = TRUE]
      BY <1>6 DEF OnChannelOpen
    <2>2. QED BY <2>1 DEF TypeOK, Channel!OpenChannel
  <1>7. ASSUME NEW p \in Peers, OnChannelClose(p)
        PROVE  ChannelInv' /\ Channel!Break
    <2>1. /\ link = 0 /\ UNCHANGED <<session, link>>
          /\ chanOpen' = [chanOpen EXCEPT ![p] = FALSE]
      BY <1>7 DEF OnChannelClose
    <2>2. QED BY <2>1 DEF TypeOK, Channel!Break
  <1>8. ASSUME NEW p \in Peers, IceBlips(p)
        PROVE  ChannelInv' /\ Goal
    <2>1. PICK x \in {"up", "cut"} :
            session[p] # NoSession /\ session' = [session EXCEPT ![p].ice = x]
      BY <1>8 DEF IceBlips, HasIce
    <2>2. session[p] \in Sessions /\ UNCHANGED <<chanOpen, link>>
      BY <1>8, <2>1 DEF TypeOK, IceBlips
    <2>3. /\ session'[p] = [session[p] EXCEPT !.ice = x]
          /\ \A q \in Peers : q # p => session'[q] = session[q]
      BY <2>1 DEF TypeOK
    <2>4. session'[p] # NoSession /\ session'[p].ice = x
      BY <2>2, <2>3, IceOnly
    <2>5. QED BY <2>2, <2>3, <2>4, <1>u
  <1>9. ASSUME NEW p \in Peers, IceConnects(p, Other(p))
        PROVE  ChannelInv' /\ Channel!Establish
    <2>1. Other(p) # p /\ Other(p) \in Peers /\ \A q \in Peers : q = p \/ q = Other(p)
      BY TwoPeers
    <2>2. /\ link = 0 /\ session[p] # NoSession /\ session[Other(p)] # NoSession
          /\ session[p].ice = "new" /\ session[Other(p)].ice = "new"
          /\ link' = session[p].n /\ chanOpen' = chanOpen
          /\ session' = [session EXCEPT ![p].ice = "up", ![Other(p)].ice = "up"]
      BY <1>9 DEF IceConnects, Paired
    <2>3. session[p] \in Sessions /\ session[Other(p)] \in Sessions
      BY <2>1, <2>2 DEF TypeOK
    <2>4. session'[p] = [session[p] EXCEPT !.ice = "up"]
      BY <2>1, <2>2 DEF TypeOK
    <2>5. session'[Other(p)] = [session[Other(p)] EXCEPT !.ice = "up"]
      BY <2>1, <2>2 DEF TypeOK
    <2>6. \A q \in Peers : session'[q] # NoSession /\ session'[q].ice = "up"
      BY <2>1, <2>3, <2>4, <2>5, IceOnly
    <2>7. link' # 0
      BY <2>2, <2>3, SessionType, SessionAssumption
    <2>8. \A q \in Peers : ~chanOpen[q]
      BY <2>1, <2>2
    <2>9. QED BY <2>2, <2>6, <2>7, <2>8 DEF Channel!Establish
  <1>10. ASSUME NEW p \in Peers, IceGivesUp(p)
         PROVE  ChannelInv' /\ Goal
    BY <1>10, <1>s DEF IceGivesUp, ConnectionFailed
  <1>11. ASSUME NEW p \in Peers, SocketLost(p) \/ SocketDies(p)
         PROVE  UNCHANGED <<session, chanOpen, link>>
    BY <1>11 DEF SocketLost, SocketDies, sessionVars
  <1>12. ASSUME NEW p \in Peers, Restart(p)
         PROVE  ChannelInv' /\ Channel!Break
    <2>1. /\ \A q \in Peers : q # p => session'[q] = session[q] /\ chanOpen'[q] = chanOpen[q]
          /\ ~chanOpen'[p] /\ link' = 0 /\ chanOpen' \in [Peers -> BOOLEAN]
      BY <1>12 DEF Restart, TypeOK
    <2>2. QED BY <2>1 DEF Channel!Break
  <1>13. ASSUME PathBreaks \/ PathHeals \/ UNCHANGED vars
         PROVE  UNCHANGED <<session, chanOpen, link>>
    BY <1>13 DEF PathBreaks, PathHeals, vars, sessionVars
  <1>14. QED
    BY <1>0, <1>1, <1>2, <1>3, <1>4, <1>5, <1>6, <1>7, <1>8, <1>9, <1>10, <1>11, <1>12, <1>13
    DEF Next, MainThread, StreamThread, Describe, Faults

LEMMA ChannelInit == Init => ChannelInv /\ Channel!Init
  BY DEF Init, ChannelInv, Channel!Init

\* The sessions provide the channel that text delivery takes for granted: no
\* channel opens on a link that has broken, nor a link under an open channel
\* (KeepsToChatLink).
THEOREM SessionsKeepToChatLink == Spec => KeepsToChatLink
  <1>1. TypeOK /\ ChannelInv /\ [Next]_vars => [Channel!Next]_Channel!vars
    BY ChannelStep DEF Channel!Next
  <1>2. TypeOK /\ ChannelInv /\ [Next]_vars => ChannelInv'
    BY ChannelStep
  <1>3. QED
    BY <1>1, <1>2, TypeInit, TypeStep, ChannelInit, PTL
    DEF Spec, KeepsToChatLink, Channel!Spec
=============================================================================
