--------------------------- MODULE ChatSessions ---------------------------
(***************************************************************************)
(* How two clients that are both online come by a data channel: the        *)
(* signaling connection of each with its reconnect timer and its ping      *)
(* (SignalingClient.cpp), the presence lists of the hub, and the silent    *)
(* chat sessions with their offer, answer, ICE and retry (MainWindow.cpp,  *)
(* WebRtcSession.cpp).                                                     *)
(*                                                                         *)
(* A session is the WebRtcSession of m_chatSessions for the other client.  *)
(* An offer carries the number of the negotiation it begins, an answer the *)
(* number of the offer it answers; the code has no such numbers, and no    *)
(* action but those of the two ICE agents looks at them.                   *)
(*                                                                         *)
(* The hub is one step here: it registers a client when its hello is sent, *)
(* and hands frames on in order; they wait in the receiver's `inbox`.  What*)
(* is sent to or by a connection that is dead is lost.                     *)
(***************************************************************************)
EXTENDS Naturals, Sequences, FiniteSets

CONSTANTS
  Peers,        \* the two clients
  Smaller,      \* the one whose user id is the smaller
  Negotiations, \* numbers of negotiations
  NoSession,
  MaxFaults     \* bound: connections lost, paths broken, programs restarted, and
                \* descriptions that a new pipeline fails to make

ASSUME SessionAssumption ==
  /\ \E x, y \in Peers : x # y /\ Peers = {x, y}
  /\ Smaller \in Peers
  /\ Negotiations \subseteq Nat \ {0}
  /\ MaxFaults \in Nat

VARIABLES
  sock,      \* state of the web socket
  alive,     \* the connection carries frames; one that does not may look open
  timer,     \* m_reconnectTimer is active
  awaiting,  \* m_awaitingPong
  shot,      \* the single shot of the last ping is still to come
  hub,       \* the registration at the hub: none, of a dead connection, current
  inbox,     \* frames on the way to the client
  online,    \* the other client is online, by the last list (ContactsModel)
  session,   \* m_chatSessions
  retry,     \* the 2 s retry of connectionFailed is pending
  chanOpen,  \* WebRtcSession::m_channelOpen of the session
  link,      \* the negotiation whose two sessions are linked, 0 if none
  path,      \* the network between the two clients works
  lost,      \* negotiations of which an offer or an answer was lost
  blank,     \* offers and answers that webrtcbin made no description for
  faults

socketVars == <<sock, alive, timer, awaiting, shot>>
sessionVars == <<session, retry, chanOpen, link>>
vars == <<socketVars, hub, inbox, online, sessionVars, path, lost, blank, faults>>

Other(p) == CHOOSE q \in Peers : q # p

Fault == faults < MaxFaults /\ faults' = faults + 1

Offer(n)    == [t |-> "offer", n |-> n]
Answer(n)   == [t |-> "answer", n |-> n]
Presence(L) == [t |-> "presence", online |-> L]
Frames == [t : {"offer", "answer"}, n : Negotiations]
            \cup [t : {"presence"}, online : SUBSET Peers]

\* A session: which side it is, the negotiation its local side is about, the
\* remote description it was given (0: none), the descriptions webrtcbin still
\* owes, whether its pipeline has served before, and its ICE state.
Sessions ==
  [role : {"caller", "callee"}, n : Negotiations, remote : Negotiations \cup {0},
   owed : Seq(Negotiations), used : BOOLEAN, ice : {"new", "up", "cut"}]

ASSUME NoSessionAssumption == NoSession \notin Sessions

Init ==
  /\ sock = [p \in Peers |-> "opening"]
  /\ alive = [p \in Peers |-> FALSE]
  /\ timer = [p \in Peers |-> FALSE]
  /\ awaiting = [p \in Peers |-> FALSE]
  /\ shot = [p \in Peers |-> FALSE]
  /\ hub = [p \in Peers |-> "none"]
  /\ inbox = [p \in Peers |-> << >>]
  /\ online = [p \in Peers |-> FALSE]
  /\ session = [p \in Peers |-> NoSession]
  /\ retry = [p \in Peers |-> FALSE]
  /\ chanOpen = [p \in Peers |-> FALSE]
  /\ link = 0 /\ path = TRUE
  /\ lost = {} /\ blank = {} /\ faults = 0

----------------------------------------------------------------------------
(* The hub.                                                                *)

Reaches(p) == hub[p] = "current" /\ alive[p]

\* A frame of p for the other client.
Send(p, f) ==
  IF Reaches(p) /\ Reaches(Other(p))
  THEN inbox' = [inbox EXCEPT ![Other(p)] = Append(@, f)] /\ UNCHANGED lost
  ELSE lost' = lost \cup {f.n} /\ UNCHANGED inbox

Items(seq) == {seq[i] : i \in DOMAIN seq}
Descriptions(frames) == {f \in Items(frames) : f.t # "presence"}

\* The hub's list, once its registrations are h, for those it reaches.
Listed(h, p) ==
  IF h[p] = "current" /\ alive'[p]
  THEN << Presence({q \in Peers : h[q] # "none"}) >> ELSE << >>

\* The hub misses the pong of a dead connection, or sees it closed.
HubDrops(p) ==
  /\ hub[p] # "none" /\ ~Reaches(p)
  /\ hub' = [hub EXCEPT ![p] = "none"]
  /\ UNCHANGED <<socketVars, online, sessionVars, path, blank, lost, faults>>
  /\ inbox' = [q \in Peers |-> inbox[q] \o Listed(hub', q)]

\* The connection of p carries nothing any more.
Drop(p) ==
  /\ alive' = [alive EXCEPT ![p] = FALSE]
  /\ inbox' = [inbox EXCEPT ![p] = << >>]
  /\ lost' = lost \cup {f.n : f \in Descriptions(inbox[p])}

Unregistered(p) == [hub EXCEPT ![p] = IF @ = "current" THEN "stale" ELSE @]

----------------------------------------------------------------------------
(* SignalingClient.                                                        *)

\* onDisconnected, and MainWindow::onSignalingDisconnected.
Disconnected(p) ==
  /\ sock' = [sock EXCEPT ![p] = "off"]
  /\ awaiting' = [awaiting EXCEPT ![p] = FALSE]
  /\ timer' = [timer EXCEPT ![p] = TRUE]
  /\ online' = [online EXCEPT ![p] = FALSE]
  /\ hub' = Unregistered(p)
  /\ Drop(p)

\* onConnected: the hello registers the client at the hub, whose list goes out.
OnConnected(p) ==
  /\ sock[p] = "opening"
  /\ sock' = [sock EXCEPT ![p] = "on"]
  /\ alive' = [alive EXCEPT ![p] = TRUE]
  /\ awaiting' = [awaiting EXCEPT ![p] = FALSE]
  /\ hub' = [hub EXCEPT ![p] = "current"]
  /\ inbox' = [q \in Peers |-> inbox[q] \o Listed(hub', q)]
  /\ UNCHANGED <<timer, shot, online, sessionVars, path, blank, lost, faults>>

\* Mutation: a failed attempt is left to the disconnected signal.
OnError_NoTimer(p) ==
  /\ sock[p] = "opening"
  /\ sock' \in {[sock EXCEPT ![p] = s] : s \in {"off", "closing"}}
  /\ UNCHANGED <<alive, timer, awaiting, shot, hub, inbox, online, sessionVars,
                 path, blank, lost, faults>>

\* onError of an attempt that fails: the timer is armed if the socket has come
\* to rest; if it has not, disconnected follows.
OnError(p) ==
  /\ sock[p] = "opening"
  /\ sock' \in {[sock EXCEPT ![p] = s] : s \in {"off", "closing"}}
  /\ timer' = [timer EXCEPT ![p] = @ \/ sock'[p] = "off"]
  /\ UNCHANGED <<alive, awaiting, shot, hub, inbox, online, sessionVars, path, blank,
                 lost, faults>>

OnDisconnected(p) ==
  /\ sock[p] = "closing"
  /\ Disconnected(p)
  /\ UNCHANGED <<shot, sessionVars, path, blank, faults>>

\* tryReconnect.
TryReconnect(p) ==
  /\ timer[p]
  /\ timer' = [timer EXCEPT ![p] = FALSE]
  /\ sock' = [sock EXCEPT ![p] = IF @ = "off" THEN "opening" ELSE @]
  /\ UNCHANGED <<alive, awaiting, shot, hub, inbox, online, sessionVars, path, blank,
                 lost, faults>>

\* m_pingTimer.  A ping that is answered within its 10 s changes nothing, so
\* only those on a dead connection are steps; the next one is 30 s away.  That
\* the pong of a living connection comes too late is a fault (SocketLost).
Ping(p) ==
  /\ sock[p] = "on" /\ ~alive[p] /\ ~shot[p]
  /\ awaiting' = [awaiting EXCEPT ![p] = TRUE]
  /\ shot' = [shot EXCEPT ![p] = TRUE]
  /\ UNCHANGED <<sock, alive, timer, hub, inbox, online, sessionVars, path, blank,
                 lost, faults>>

\* Mutation: the socket is aborted, and its silence waited for.
PingTimeout_OnlyAborts(p) ==
  /\ shot[p]
  /\ shot' = [shot EXCEPT ![p] = FALSE]
  /\ IF awaiting[p]
       THEN sock' = [sock EXCEPT ![p] = "off"] /\ Drop(p) /\ hub' = Unregistered(p)
       ELSE UNCHANGED <<sock, alive, hub, inbox, lost>>
  /\ UNCHANGED <<timer, awaiting, online, sessionVars, path, blank, faults>>

\* Mutation: m_awaitingPong is not looked at.
PingTimeout_Strikes(p) ==
  /\ shot[p]
  /\ shot' = [shot EXCEPT ![p] = FALSE]
  /\ Disconnected(p)
  /\ UNCHANGED <<sessionVars, path, blank, faults>>

\* The single shot: abort() and onDisconnected, unless the pong has come or the
\* connection has gone meanwhile.
PingTimeout(p) ==
  /\ shot[p]
  /\ shot' = [shot EXCEPT ![p] = FALSE]
  /\ IF awaiting[p] THEN Disconnected(p)
     ELSE UNCHANGED <<sock, alive, timer, awaiting, hub, inbox, online, lost>>
  /\ UNCHANGED <<sessionVars, path, blank, faults>>

----------------------------------------------------------------------------
(* Chat sessions, on the main thread.                                      *)

Owed(p) ==
  IF session[p] = NoSession THEN {}
  ELSE Items(session[p].owed)
Pending(p) == Owed(p) \cup {f.n : f \in Descriptions(inbox[p])}
Numbers(p) ==
  Pending(p) \cup (IF session[p] = NoSession THEN {} ELSE {session[p].n, session[p].remote})
Unused == Negotiations \ UNION {Numbers(p) : p \in Peers}

\* ensureChatSession and startCall: a new session, whose offer is to be made.
Begin(p) ==
  \E n \in Unused :
    /\ \A k \in Unused : n <= k
    /\ session' = [session EXCEPT ![p] =
         [role |-> "caller", n |-> n, remote |-> 0, owed |-> << n >>, used |-> FALSE,
          ice |-> "new"]]
    /\ lost' = lost \ {n}
    /\ blank' = blank \ {<<q, n>> : q \in Peers}
    /\ UNCHANGED <<chanOpen, link>>

\* stop() and deleteLater: nothing the session still owed will come.
Stop(p) ==
  /\ session' = [session EXCEPT ![p] = NoSession]
  /\ chanOpen' = [chanOpen EXCEPT ![p] = FALSE]
  /\ link' = 0
  /\ lost' = lost \cup Owed(p)

Take(p, kind) ==
  /\ inbox[p] # << >> /\ Head(inbox[p]).t = kind
  /\ inbox' = [inbox EXCEPT ![p] = Tail(@)]

\* syncChatSessions: a session to a client that has left is stopped, one to a
\* client that is there is begun by the smaller id.
SyncChatSessions(p, there) ==
  CASE ~there /\ session[p] # NoSession -> Stop(p) /\ UNCHANGED blank
    [] there /\ session[p] = NoSession /\ p = Smaller -> Begin(p)
    [] OTHER -> UNCHANGED <<session, chanOpen, link, lost, blank>>

\* onPresenceChanged.
OnPresence(p) ==
  /\ Take(p, "presence")
  /\ LET there == Other(p) \in Head(inbox[p]).online IN
       /\ online' = [online EXCEPT ![p] = there]
       /\ SyncChatSessions(p, there)
  /\ UNCHANGED <<socketVars, hub, retry, path, faults>>

\* Mutation: an offer to a session that exists is ignored.
OnOffer_OnlyNew(p) ==
  /\ Take(p, "offer")
  /\ LET n == Head(inbox[p]).n IN
       session' = IF session[p] # NoSession THEN session ELSE [session EXCEPT ![p] =
         [role |-> "callee", n |-> n, remote |-> n, owed |-> << n >>, used |-> FALSE,
          ice |-> "new"]]
  /\ UNCHANGED <<socketVars, hub, online, retry, chanOpen, link, path, blank,
                 lost, faults>>

\* Mutation: m_isCaller is not set by acceptOffer.
OnOffer_NoRole(p) ==
  /\ Take(p, "offer")
  /\ LET n == Head(inbox[p]).n IN
       session' = [session EXCEPT ![p] =
         [role |-> "unset", n |-> n, remote |-> n, owed |-> << n >>, used |-> FALSE,
          ice |-> "new"]]
  /\ UNCHANGED <<socketVars, hub, online, retry, chanOpen, link, path, blank,
                 lost, faults>>

\* Mutation: the used session is taken for a new one, its channel still open.
OnOffer_Reuses(p) ==
  /\ Take(p, "offer")
  /\ LET n == Head(inbox[p]).n IN
       session' = [session EXCEPT ![p] =
         [role |-> "callee", n |-> n, remote |-> n, owed |-> << n >>, used |-> FALSE,
          ice |-> "new"]]
  /\ UNCHANGED <<socketVars, hub, online, retry, chanOpen, link, path, blank,
                 lost, faults>>

\* onIncomingOffer, ensureChatSession, acceptOffer: a session that is there is
\* given the offer, too; its pipeline has been used and links no more
\* (WebRtcSession.cpp:695).
OnOffer(p) ==
  /\ Take(p, "offer")
  /\ LET n == Head(inbox[p]).n
         s == session[p]
     IN session' = [session EXCEPT ![p] =
          IF s = NoSession
          THEN [role |-> "callee", n |-> n, remote |-> n, owed |-> << n >>,
                used |-> FALSE, ice |-> "new"]
          ELSE [s EXCEPT !.role = "callee", !.n = n, !.remote = n,
                         !.owed = Append(@, n), !.used = TRUE]]
  /\ UNCHANGED <<socketVars, hub, online, retry, chanOpen, link, path, blank,
                 lost, faults>>

\* onIncomingAnswer, provideAnswer: the first answer is applied, whichever
\* offer it answers.
OnAnswer(p) ==
  /\ Take(p, "answer")
  /\ session' =
       IF session[p] # NoSession /\ session[p].remote = 0
       THEN [session EXCEPT ![p].remote = Head(inbox[p]).n] ELSE session
  /\ UNCHANGED <<socketVars, hub, online, retry, chanOpen, link, path, blank,
                 lost, faults>>

\* The 2 s retry.
Retry(p) ==
  /\ retry[p]
  /\ retry' = [retry EXCEPT ![p] = FALSE]
  /\ IF online[p] /\ session[p] = NoSession THEN Begin(p)
     ELSE UNCHANGED <<session, chanOpen, link, lost, blank>>
  /\ UNCHANGED <<socketVars, hub, inbox, online, path, faults>>

\* Mutation: the smaller id does not offer again.
ConnectionFailed_NoRetry(p) == Stop(p) /\ UNCHANGED retry

\* Mutation: both sides offer again.
ConnectionFailed_BothRetry(p) ==
  Stop(p) /\ retry' = [retry EXCEPT ![p] = TRUE]

\* The handler of connectionFailed.
ConnectionFailed(p) ==
  /\ Stop(p)
  /\ retry' = [retry EXCEPT ![p] = @ \/ p = Smaller]

----------------------------------------------------------------------------
(* GStreamer: descriptions, ICE and the channel.                           *)

\* onOfferCreated and onAnswerCreated with a description, and what they send.
SendOwed(p, role, kind) ==
  /\ session[p] # NoSession /\ session[p].role = role /\ session[p].owed # << >>
  /\ Send(p, [t |-> kind, n |-> Head(session[p].owed)])
  /\ session' = [session EXCEPT ![p].owed = Tail(@)]
  /\ UNCHANGED <<socketVars, hub, online, retry, chanOpen, link, path, blank, faults>>

OnOfferCreated(p)  == SendOwed(p, "caller", "offer")
OnAnswerCreated(p) == SendOwed(p, "callee", "answer")

\* They get none, and return: a used pipeline may fail to make one at any
\* time, a new one by a fault.
NoDescription(p) ==
  /\ session[p] # NoSession /\ session[p].owed # << >>
  /\ IF session[p].used THEN UNCHANGED faults ELSE Fault
  /\ blank' = blank \cup {<<p, Head(session[p].owed)>>}
  /\ session' = [session EXCEPT ![p].owed = Tail(@)]
  /\ UNCHANGED <<socketVars, hub, inbox, online, retry, chanOpen, link, path, lost>>

\* Two new sessions with each other's description.
Paired(c, p) ==
  /\ session[c] # NoSession /\ session[c].role = "caller"
  /\ session[p] # NoSession /\ session[p].role = "callee"
  /\ session[p].n = session[c].n /\ ~session[p].used

IceConnects(c, p) ==
  /\ path /\ link = 0
  /\ Paired(c, p) /\ session[c].remote = session[c].n
  /\ session[c].ice = "new" /\ session[p].ice = "new"
  /\ link' = session[c].n
  /\ session' = [session EXCEPT ![c].ice = "up", ![p].ice = "up"]
  /\ UNCHANGED <<socketVars, hub, inbox, online, retry, chanOpen, path, blank, lost,
                 faults>>

OnChannelOpen(p) ==
  /\ link # 0 /\ ~chanOpen[p]
  /\ chanOpen' = [chanOpen EXCEPT ![p] = TRUE]
  /\ UNCHANGED <<socketVars, hub, inbox, online, session, retry, link, path, blank, lost,
                 faults>>

\* on-close: the session stays.
OnChannelClose(p) ==
  /\ link = 0 /\ chanOpen[p]
  /\ chanOpen' = [chanOpen EXCEPT ![p] = FALSE]
  /\ UNCHANGED <<socketVars, hub, inbox, online, session, retry, link, path, blank, lost,
                 faults>>

HasIce(p, s) == session[p] # NoSession /\ session[p].ice = s

\* onIceStateChanged: a blip of the network arms the grace timer, and its end
\* stops it.
IceBlips(p) ==
  /\ \/ /\ HasIce(p, "up") /\ ~(path /\ link # 0)
        /\ session' = [session EXCEPT ![p].ice = "cut"]
     \/ /\ HasIce(p, "cut") /\ path /\ link # 0
        /\ session' = [session EXCEPT ![p].ice = "up"]
  /\ UNCHANGED <<socketVars, hub, inbox, online, retry, chanOpen, link, path, blank, lost,
                 faults>>

\* Nothing will link the session of p any more: the other side has another
\* session, or none, or its answer is not on the way.
Hopeless(p) ==
  LET o == Other(p) IN
  IF session[p].role = "caller"
  THEN ~Paired(p, o) \/ session[p].remote # session[p].n
  ELSE Paired(o, p) =>
         /\ session[o].remote # session[p].n
         /\ session[p].owed = << >> /\ Answer(session[p].n) \notin Descriptions(inbox[o])

\* ICE fails, or the 25 s of grace are over.  A new pipeline that made no local
\* description starts no ICE.
IceGivesUp(p) ==
  /\ \/ HasIce(p, "cut") /\ ~(path /\ link # 0)
     \/ /\ HasIce(p, "new") /\ session[p].remote # 0 /\ (~path \/ Hopeless(p))
        /\ session[p].used \/ <<p, session[p].n>> \notin blank
  /\ ConnectionFailed(p)
  /\ UNCHANGED <<socketVars, hub, inbox, online, path, blank, faults>>

----------------------------------------------------------------------------
(* What may go wrong.                                                      *)

\* The connection to the hub breaks, and the client is told; or it is so slow
\* that the single shot finds no pong yet, and cuts it, which comes to the same.
SocketLost(p) ==
  /\ sock[p] = "on" /\ Fault
  /\ Disconnected(p)
  /\ UNCHANGED <<shot, sessionVars, path, blank>>

\* It breaks without a word (sleep, a silent network drop).
SocketDies(p) ==
  /\ sock[p] = "on" /\ alive[p] /\ Fault
  /\ Drop(p)
  /\ UNCHANGED <<sock, timer, awaiting, shot, hub, online, sessionVars, path, blank>>

PathBreaks ==
  /\ path /\ Fault
  /\ path' = FALSE
  /\ UNCHANGED <<socketVars, hub, inbox, online, sessionVars, lost, blank>>

PathHeals ==
  /\ ~path /\ path' = TRUE
  /\ UNCHANGED <<socketVars, hub, inbox, online, sessionVars, lost, blank, faults>>

\* The program is closed or killed, and started again (connectTo).
Restart(p) ==
  /\ Fault
  /\ sock' = [sock EXCEPT ![p] = "opening"]
  /\ timer' = [timer EXCEPT ![p] = FALSE]
  /\ awaiting' = [awaiting EXCEPT ![p] = FALSE]
  /\ shot' = [shot EXCEPT ![p] = FALSE]
  /\ online' = [online EXCEPT ![p] = FALSE]
  /\ retry' = [retry EXCEPT ![p] = FALSE]
  /\ hub' = Unregistered(p)
  /\ alive' = [alive EXCEPT ![p] = FALSE]
  /\ inbox' = [inbox EXCEPT ![p] = << >>]
  /\ session' = [session EXCEPT ![p] = NoSession]
  /\ chanOpen' = [chanOpen EXCEPT ![p] = FALSE]
  /\ link' = 0
  /\ lost' = lost \cup Pending(p)
  /\ UNCHANGED <<path, blank>>

----------------------------------------------------------------------------

Socket(p) ==
  \/ OnError(p) \/ OnDisconnected(p) \/ TryReconnect(p)
  \/ Ping(p) \/ PingTimeout(p)

MainThread(p) == OnPresence(p) \/ OnOffer(p) \/ OnAnswer(p)

Describe(p) == OnOfferCreated(p) \/ OnAnswerCreated(p)

StreamThread(p) ==
  \/ Describe(p) \/ NoDescription(p) \/ OnChannelOpen(p) \/ OnChannelClose(p) \/ IceBlips(p)

Faults(p) == SocketLost(p) \/ SocketDies(p) \/ Restart(p)

Next ==
  \/ \E p \in Peers :
       \/ OnConnected(p) \/ Socket(p) \/ HubDrops(p)
       \/ MainThread(p) \/ Retry(p) \/ StreamThread(p) \/ IceGivesUp(p)
       \/ IceConnects(p, Other(p)) \/ Faults(p)
  \/ PathBreaks \/ PathHeals

Spec == Init /\ [][Next]_vars

\* Threads run and timers fire; the hub finds dead connections; the network
\* between two clients comes back; ICE comes to a result; and of the attempts
\* to connect to the hub, which may fail any number of times, some succeed.
FairSpec ==
  /\ Spec
  /\ WF_vars(PathHeals)
  /\ \A p \in Peers :
       /\ SF_vars(OnConnected(p))
       /\ WF_vars(OnDisconnected(p)) /\ WF_vars(TryReconnect(p))
       /\ WF_vars(Ping(p)) /\ WF_vars(PingTimeout(p)) /\ WF_vars(HubDrops(p))
       /\ WF_vars(MainThread(p)) /\ WF_vars(Retry(p)) /\ WF_vars(Describe(p))
       /\ WF_vars(OnChannelOpen(p)) /\ WF_vars(OnChannelClose(p)) /\ WF_vars(IceBlips(p))
       /\ WF_vars(IceGivesUp(p)) /\ WF_vars(IceConnects(p, Other(p)))

----------------------------------------------------------------------------
(* Properties.                                                             *)

TypeOK ==
  /\ sock \in [Peers -> {"off", "opening", "closing", "on"}]
  /\ alive \in [Peers -> BOOLEAN] /\ timer \in [Peers -> BOOLEAN]
  /\ awaiting \in [Peers -> BOOLEAN] /\ shot \in [Peers -> BOOLEAN]
  /\ hub \in [Peers -> {"none", "stale", "current"}]
  /\ inbox \in [Peers -> Seq(Frames)]
  /\ online \in [Peers -> BOOLEAN]
  /\ session \in [Peers -> Sessions \cup {NoSession}]
  /\ retry \in [Peers -> BOOLEAN] /\ chanOpen \in [Peers -> BOOLEAN]
  /\ link \in Negotiations \cup {0} /\ path \in BOOLEAN
  /\ lost \subseteq Negotiations /\ blank \subseteq Peers \X Negotiations
  /\ faults \in 0..MaxFaults

\* A client that is not connected has an attempt under way or a timer armed:
\* it never waits for a signal that does not come (SignalingClient.cpp:82-90).
NeverGivesUp ==
  \A p \in Peers :
    /\ sock[p] = "off" => timer[p]
    /\ alive[p] => sock[p] = "on"

\* A connection that carries frames is lost to a fault alone, of which a pong
\* later than 10 s is one (SocketLost): the shot of a ping never strikes one that
\* was made anew after the ping, whatever became of the socket in between
\* (SignalingClient.cpp:29-38, 64, 73).
SparesTheLiving ==
  [][\A p \in Peers : alive[p] /\ ~alive'[p] => faults' = faults + 1]_vars

\* The two never offer to each other: not when presence lists, failures and
\* retries cross (MainWindow.cpp:487, 515-521).
NoGlare ==
  \A p \in Peers \ {Smaller} :
    /\ session[p] # NoSession => session[p].role = "callee"
    /\ session[Smaller] # NoSession => session[Smaller].role = "caller"

\* An offer that is never answered was lost on the way, or its answer was, or one
\* of the two was not made: whatever the other side holds when it comes, an offer
\* that arrives is put to webrtcbin (MainWindow.cpp:519, 600), and nothing but
\* its failure stands in the way of the answer (WebRtcSession.cpp:695, 817).
Unanswered(n) ==
  LET p == Smaller
      o == Other(p)
  IN /\ session[p] # NoSession /\ session[p].n = n /\ session[p].remote = 0
     /\ session[p].owed = << >>
     /\ Offer(n) \notin Descriptions(inbox[o])
     /\ Answer(n) \notin Descriptions(inbox[p])
     /\ n \notin Owed(o)
Missing(n) == n \in lost \/ \E p \in Peers : <<p, n>> \in blank
UnansweredWasLost == \A n \in Negotiations : Unanswered(n) => Missing(n)

\* Whatever happens to it, a client is connected to the hub again: after
\* attempts that failed, and also from a socket that died without a word
\* (SignalingClient.cpp:17-38).
SignalingRecovers == \A p \in Peers : []<>(alive[p])

\* A description needs less time than the 2 s of the retry and than ICE takes to
\* give up: in the end none is overtaken by them.
GivesUpEarly(p) == (Retry(p) \/ IceGivesUp(p)) /\ \E q \in Peers : Pending(q) # {}
PromptDescriptions == <>[][\A p \in Peers : ~GivesUpEarly(p)]_vars

\* Whenever connections, paths and programs are left alone and descriptions are
\* prompt, the two clients have a channel, unless an offer or an answer was lost
\* or not made: the session that waits for it is never given up while the hub
\* lists the other side, nor one that made no offer and took a late answer (MainWindow.cpp:480-494, 501-525, 600).
ChannelComesBack ==
  PromptDescriptions =>
    []<>(\/ \A p \in Peers : chanOpen[p] /\ link # 0
         \/ \E n \in Negotiations : Unanswered(n) /\ Missing(n)
         \/ session[Smaller] # NoSession /\ <<Smaller, session[Smaller].n>> \in blank)

\* Text delivery gets the channel it relies on.
Channel == INSTANCE ChatLink WITH link <- link # 0
KeepsToChatLink == Channel!Spec
=============================================================================
