--------------------------- MODULE CallLifecycle ---------------------------
(***************************************************************************)
(* Calls between clients: ringing, accepting, declining, the busy answer,  *)
(* hanging up, and the recovery of a dropped call by redial and silent     *)
(* accept (MainWindow.cpp, the call half of WebRtcSession.cpp).            *)
(*                                                                         *)
(* The main thread of a client handles clicks, signaling messages, timers  *)
(* and the signals its GStreamer threads have queued, one at a time.       *)
(* Between two clients messages keep their order (RelayInOrder of          *)
(* SignalingHub) and may be lost.                                          *)
(*                                                                         *)
(* A session description is the offer it is, or answers.  Two sessions can *)
(* connect when both have settled on the same offer.  Whether a call has   *)
(* video is a choice wherever it matters.  ICE candidates, the call notes  *)
(* and presence are left out.                                              *)
(***************************************************************************)
EXTENDS Naturals, Sequences

CONSTANTS
  Users,     \* the clients
  Contacts,  \* the peers in the contact list of each, whom it can call
  None,      \* no client, no description
  Broken,    \* the description of a session that was given two
  MaxDials,  \* bound: how many calls each client starts, redials included
  MaxFaults  \* bound: ICE failures, lost messages, device and pipeline errors, ends
             \* of a stream

ASSUME CallAssumption ==
  /\ None \notin Users
  /\ Contacts \in [Users -> SUBSET Users] /\ \A c \in Users : c \notin Contacts[c]
  /\ MaxDials \in [Users -> Nat]
  /\ MaxFaults \in Nat

VARIABLES
  pending,    \* m_pendingOffer: the caller that rings, and its offer
  active,     \* m_activeCallPeer
  autoAccept, \* m_autoAcceptPeer, while its 60 s last
  redials,    \* m_redialAttempts
  timers,     \* how many attemptRedial are scheduled, by peer
  screen,     \* what the call window and the header show
  session,    \* the WebRtcSession of calls
  signals,    \* its signals queued for the main thread
  wire,       \* signaling messages in flight, by sender and receiver
  dialled,    \* how many calls each client has started
  agreed,     \* peers the client has called or accepted and not parted from:
              \* told by the properties only
  faults      \* how many faults have happened

desk == <<pending, active, autoAccept, redials, timers, screen>>
vars == <<desk, session, signals, wire, dialled, agreed, faults>>

Offers == Users \X (Nat \ {0})
RedialLimit == 3

Offer(o)  == [t |-> "offer", sdp |-> o]
Answer(o) == [t |-> "answer", sdp |-> o]
Bye       == [t |-> "bye"]
Failed    == [t |-> "failed"]
Connected == [t |-> "connected"]
To(q, m)  == [t |-> "send", to |-> q, msg |-> m]

NoRing == [peer |-> None, sdp |-> None]
Idle == [inCall |-> FALSE, remote |-> None, caller |-> FALSE,
         answered |-> FALSE, sdp |-> None, chan |-> FALSE, eos |-> FALSE]

Init ==
  /\ pending = [c \in Users |-> NoRing]
  /\ active = [c \in Users |-> None]
  /\ autoAccept = [c \in Users |-> None]
  /\ redials = [c \in Users |-> 0]
  /\ timers = [c \in Users |-> [q \in Users |-> 0]]
  /\ screen = [c \in Users |-> "idle"]
  /\ session = [c \in Users |-> Idle]
  /\ signals = [c \in Users |-> << >>]
  /\ wire = [p \in Users \X Users |-> << >>]
  /\ dialled = [c \in Users |-> 0]
  /\ agreed = [c \in Users |-> {}]
  /\ faults = 0

Set(f, c, v) == f' = [f EXCEPT ![c] = v]

Send(c, q, m) == wire' = [wire EXCEPT ![<<c, q>>] = Append(@, m)]

\* The next message from q to c, and its removal.
Incoming(q, c) == Head(wire[<<q, c>>])
Taken(q, c) == [wire EXCEPT ![<<q, c>>] = Tail(@)]
Take(q, c) == wire' = Taken(q, c)

\* sendBye from c to q, if there is a q.
WithBye(w, c, q) == IF q = None THEN w ELSE [w EXCEPT ![<<c, q>>] = Append(@, Bye)]

Fault ==
  /\ faults < MaxFaults
  /\ faults' = faults + 1

----------------------------------------------------------------------------
(* The session.                                                            *)

\* Mutation: the description survives stop().
Stopped_KeepsDescription(s) ==
  [s EXCEPT !.inCall = FALSE, !.answered = FALSE, !.chan = FALSE, !.eos = FALSE]

\* stop(): the peer and the role are kept, all else is reset.
Stopped(s) ==
  [s EXCEPT !.inCall = FALSE, !.answered = FALSE, !.sdp = None, !.chan = FALSE, !.eos = FALSE]

\* prepare(): a pipeline of the other kind, with video or without, is torn down.
Prepared(s) == IF s.inCall THEN {s, Stopped(s)} ELSE {s}

\* start and startCall.
Calling(s, q) == [s EXCEPT !.inCall = TRUE, !.remote = q, !.caller = TRUE]

\* start and acceptOffer: a pipeline that is in a call is not rebuilt.
Answering(s, q, o) ==
  [s EXCEPT !.inCall = TRUE, !.remote = q, !.caller = FALSE,
            !.sdp = IF s.inCall THEN Broken ELSE o]

\* provideAnswer: the first answer since the last stop() is applied.  A session
\* that does not wait for one rejects it.
Answered(s, o, own) ==
  [s EXCEPT !.answered = TRUE,
            !.sdp = IF ~s.answered /\ s.inCall /\ s.caller /\ s.sdp = None
                      THEN (IF o = own THEN o ELSE Broken) ELSE @]

\* The call window with its call, and the header's call buttons turned into the
\* one that hangs up; and the window gone.
ShowCallUi(c) == Set(screen, c, "active")
HideCallUi(c) == Set(screen, c, "idle")

\* The header's call buttons are there when the window is gone, and when a late
\* signal shows it again.
CallButtons(c) == screen[c] \in {"idle", "ghost"}

\* hangup(): callEnded hides the call window.
EndCall(c) ==
  /\ Set(session, c, Stopped(session[c]))
  /\ HideCallUi(c)

\* onWebRtcError, with the call window up and w in flight: the peer of the session
\* is told, or of the last one if none has begun since, and the session ends.
Abort(c, w) ==
  /\ wire' = WithBye(w, c, session[c].remote)
  /\ EndCall(c)

\* start() fails: the pipeline cannot be built.  The error is handled before
\* start() returns.
StartFails(c, w) ==
  /\ ~session[c].inCall
  /\ Fault
  /\ Abort(c, w)

\* c has parted from q, unless a call of the two goes on.
Part(c, q) ==
  Set(agreed, c, IF session'[c].inCall /\ session[c].remote = q
                   THEN agreed[c] ELSE agreed[c] \ {q})

\* Sessions that have settled on the same offer.
Linked(c, d) ==
  /\ c # d
  /\ session[c].inCall /\ session[d].inCall
  /\ session[c].sdp = session[d].sdp /\ session[c].sdp \notin {None, Broken}

----------------------------------------------------------------------------
(* Outgoing calls.                                                         *)

\* startOutgoingCall.  One offer per pipeline: a session in a call makes none.
Dial(c, q) ==
  /\ Set(active, c, q)
  /\ ShowCallUi(c)
  /\ \E s \in Prepared(session[c]) :
       /\ Set(session, c, Calling(s, q))
       /\ IF s.inCall
            THEN UNCHANGED <<dialled, signals>>
            ELSE /\ dialled' = [dialled EXCEPT ![c] = @ + 1]
                 /\ signals' = [signals EXCEPT ![c] =
                                  Append(@, To(q, Offer(<<c, dialled[c] + 1>>)))]
  /\ agreed' = [agreed EXCEPT ![c] = @ \cup {q}]

\* A click on one of the call buttons.
StartCall(c, q) ==
  /\ CallButtons(c) /\ q \in Contacts[c]
  /\ dialled[c] < MaxDials[c]
  /\ Dial(c, q)
  /\ Set(redials, c, 0)
  /\ UNCHANGED <<pending, autoAccept, timers, wire, faults>>

\* The same, and start() fails.
DialFails(c, q) ==
  /\ StartFails(c, wire)
  /\ Set(active, c, q)
  /\ UNCHANGED <<pending, autoAccept, signals, dialled, agreed>>

StartCallFails(c, q) ==
  /\ CallButtons(c) /\ q \in Contacts[c]
  /\ DialFails(c, q)
  /\ Set(redials, c, 0)
  /\ UNCHANGED timers

\* attemptRedial, when the timer fires: the peer is called unless the user is
\* busy, or the peer stays offline.
Redial(c, q) ==
  /\ timers[c][q] > 0
  /\ ~session[c].inCall /\ pending[c] = NoRing
  /\ dialled[c] < MaxDials[c]
  /\ timers' = [timers EXCEPT ![c][q] = @ - 1]
  /\ Dial(c, q)
  /\ UNCHANGED <<pending, autoAccept, redials, wire, faults>>

RedialFails(c, q) ==
  /\ timers[c][q] > 0 /\ pending[c] = NoRing
  /\ DialFails(c, q)
  /\ timers' = [timers EXCEPT ![c][q] = @ - 1]
  /\ UNCHANGED redials

RedialDropped(c, q) ==
  /\ timers[c][q] > 0
  /\ timers' = [timers EXCEPT ![c][q] = @ - 1]
  /\ UNCHANGED <<pending, active, autoAccept, redials, screen, session, signals,
                 wire, dialled, agreed, faults>>

----------------------------------------------------------------------------
(* Incoming calls.                                                         *)

\* Mutation: the peer is not compared.
Resumes_AnyPeer(c, q) ==
  \/ autoAccept[c] # None
  \/ session[c].inCall

Resumes(c, q) ==
  \/ autoAccept[c] = q
  \/ session[c].inCall /\ session[c].remote = q

Busy(c) == session[c].inCall \/ pending[c] # NoRing

\* onIncomingOffer.
OfferArrives(c, q) ==
  /\ wire[<<q, c>>] # << >> /\ Incoming(q, c).t = "offer"

\* The caller that rings already has rebuilt its session.
RefreshRing(c, q) ==
  /\ OfferArrives(c, q)
  /\ pending[c].peer = q
  /\ Take(q, c)
  /\ Set(pending, c, [peer |-> q, sdp |-> Incoming(q, c).sdp])
  /\ UNCHANGED <<active, autoAccept, redials, timers, screen, session, signals,
                 dialled, agreed, faults>>

\* A dropped call, or a call whose caller noticed the drop first: answered
\* without ringing, in a session built anew if it was in a call with q.
ResumeCall(c, q) ==
  /\ OfferArrives(c, q)
  /\ pending[c].peer # q /\ Resumes(c, q)
  /\ Take(q, c)
  /\ LET o == Incoming(q, c).sdp
         S == IF session[c].inCall /\ session[c].remote = q
                THEN {Stopped(session[c])} ELSE Prepared(session[c])
     IN /\ \E s \in S : Set(session, c, Answering(s, q, o))
        /\ Set(signals, c, Append(signals[c], To(q, Answer(o))))
  /\ Set(pending, c, NoRing)
  /\ Set(active, c, q)
  /\ Set(autoAccept, c, None)
  /\ ShowCallUi(c)
  /\ UNCHANGED <<redials, timers, dialled, agreed, faults>>

\* The same, and start() fails.
ResumeFails(c, q) ==
  /\ OfferArrives(c, q)
  /\ pending[c].peer # q /\ Resumes(c, q)
  /\ session[c].inCall => session[c].remote = q
  /\ Fault
  /\ Abort(c, Taken(q, c))
  /\ Set(pending, c, NoRing)
  /\ Set(active, c, q)
  /\ Set(autoAccept, c, None)
  /\ UNCHANGED <<redials, timers, signals, dialled, agreed>>

\* Busy: the caller is sent a bye.
DeclineBusy(c, q) ==
  /\ OfferArrives(c, q)
  /\ pending[c].peer # q /\ ~Resumes(c, q) /\ Busy(c)
  /\ wire' = WithBye(Taken(q, c), c, q)
  /\ UNCHANGED <<desk, session, signals, dialled, agreed, faults>>

\* The offer is parked and the accept screen shown.
Ring(c, q) ==
  /\ OfferArrives(c, q)
  /\ pending[c].peer # q /\ ~Resumes(c, q) /\ ~Busy(c)
  /\ Take(q, c)
  /\ Set(pending, c, [peer |-> q, sdp |-> Incoming(q, c).sdp])
  /\ Set(screen, c, "incoming")
  /\ UNCHANGED <<active, autoAccept, redials, timers, session, signals, dialled,
                 agreed, faults>>

\* onAcceptIncomingCall, from the accept button.
Accept(c) ==
  /\ screen[c] = "incoming" /\ pending[c] # NoRing
  /\ LET q == pending[c].peer IN
       /\ Set(active, c, q)
       /\ \E s \in Prepared(session[c]) :
            Set(session, c, Answering(s, q, pending[c].sdp))
       /\ Set(signals, c, Append(signals[c], To(q, Answer(pending[c].sdp))))
       /\ Set(agreed, c, agreed[c] \cup {q})
  /\ Set(pending, c, NoRing)
  /\ Set(screen, c, "active")
  /\ UNCHANGED <<autoAccept, redials, timers, wire, dialled, faults>>

\* The same, and start() fails: whoever the last session was with is told, and
\* only by chance the caller.
AcceptFails(c) ==
  /\ screen[c] = "incoming" /\ pending[c] # NoRing
  /\ StartFails(c, wire)
  /\ Set(active, c, pending[c].peer)
  /\ Set(pending, c, NoRing)
  /\ UNCHANGED <<autoAccept, redials, timers, signals, dialled, agreed>>

\* onIncomingAnswer: whoever it is from.
AnswerArrives(c, q) ==
  /\ wire[<<q, c>>] # << >> /\ Incoming(q, c).t = "answer"
  /\ Take(q, c)
  /\ Set(session, c, Answered(session[c], Incoming(q, c).sdp, <<c, dialled[c]>>))
  /\ UNCHANGED <<desk, signals, dialled, agreed, faults>>

----------------------------------------------------------------------------
(* The end of a call.                                                      *)

\* onIncomingBye: the caller gave up ringing, or the peer of the last session
\* ended it.
ByeArrives(c, q) ==
  /\ wire[<<q, c>>] # << >> /\ Incoming(q, c).t = "bye"
  /\ Take(q, c)
  /\ Set(autoAccept, c, IF autoAccept[c] = q THEN None ELSE autoAccept[c])
  /\ LET gaveUp == pending[c].peer = q
         ended == ~gaveUp /\ session[c].remote = q
     IN /\ Set(pending, c, IF gaveUp THEN NoRing ELSE pending[c])
        /\ Set(screen, c, IF gaveUp \/ ended THEN "idle" ELSE screen[c])
        /\ Set(active, c, IF ended /\ active[c] = q THEN None ELSE active[c])
        /\ Set(session, c, IF ended THEN Stopped(session[c]) ELSE session[c])
  /\ Part(c, q)
  /\ UNCHANGED <<redials, timers, signals, dialled, faults>>

\* Mutation: the silent accept outlives the hang-up.
ForReal_KeepsAutoAccept(c) ==
  /\ Set(redials, c, RedialLimit)
  /\ UNCHANGED autoAccept

\* onHangupRequested ends the conversation for real: no silent accept, no redial.
ForReal(c) ==
  /\ Set(autoAccept, c, None)
  /\ Set(redials, c, RedialLimit)

\* onHangupRequested on the accept screen: decline.
Decline(c) ==
  /\ screen[c] # "idle" /\ pending[c] # NoRing
  /\ ForReal(c)
  /\ wire' = WithBye(wire, c, pending[c].peer)
  /\ Set(pending, c, NoRing)
  /\ HideCallUi(c)
  /\ UNCHANGED <<active, timers, session, signals, dialled, faults>>
  /\ Part(c, pending[c].peer)

\* The bye goes to the peer of the call, or of the session if there is none.
ByePeer(c) == IF active[c] # None THEN active[c] ELSE session[c].remote

\* Mutation: the session is not hung up.
HangUp_KeepsSession(c) ==
  /\ screen[c] # "idle" /\ pending[c] = NoRing
  /\ ForReal(c)
  /\ wire' = WithBye(wire, c, ByePeer(c))
  /\ Set(screen, c, "idle")
  /\ Set(active, c, None)
  /\ Set(agreed, c, agreed[c] \ {ByePeer(c), session[c].remote})
  /\ UNCHANGED <<pending, timers, session, signals, dialled, faults>>

\* onHangupRequested in a call.
HangUp(c) ==
  /\ screen[c] # "idle" /\ pending[c] = NoRing
  /\ ForReal(c)
  /\ wire' = WithBye(wire, c, ByePeer(c))
  /\ EndCall(c)
  /\ Set(active, c, None)
  /\ Set(agreed, c, agreed[c] \ {ByePeer(c), session[c].remote})
  /\ UNCHANGED <<pending, timers, signals, dialled, faults>>

\* pollBus, in a session: an error of the pipeline ends the call.  Without the
\* window it is only logged.
PipelineError(c) ==
  /\ session[c].inCall /\ screen[c] # "idle"
  /\ Fault
  /\ Abort(c, wire)
  /\ UNCHANGED <<pending, active, autoAccept, redials, timers, signals, dialled, agreed>>

\* pollBus: the pipeline has reached the end of its stream.  onCallEnded hides the
\* window and the header's button; the session goes on.
PipelineEnds(c) ==
  /\ session[c].inCall
  /\ Fault
  /\ HideCallUi(c)
  /\ Set(session, c, [session[c] EXCEPT !.eos = TRUE])
  /\ UNCHANGED <<pending, active, autoAccept, redials, timers, signals, wire, dialled,
                 agreed>>

----------------------------------------------------------------------------
(* The GStreamer threads, and what the main thread does with their signals.*)

Emit(c, s) == Set(signals, c, Append(signals[c], s))

\* on-open of the data channel.
ChannelOpens(c) ==
  /\ ~session[c].chan /\ \E d \in Users : Linked(c, d)
  /\ Set(session, c, [session[c] EXCEPT !.chan = TRUE])
  /\ Emit(c, Connected)
  /\ UNCHANGED <<desk, wire, dialled, agreed, faults>>

\* ICE fails, or the interruption outlives the grace timer: when the other side
\* of an open channel is gone, or the path breaks.
PeerGone(c) == session[c].chan /\ \A d \in Users : ~Linked(c, d)
IceFails(c) ==
  /\ session[c].inCall /\ session[c].sdp # None
  /\ \A i \in DOMAIN signals[c] : signals[c][i] # Failed
  /\ IF PeerGone(c) THEN UNCHANGED faults ELSE Fault
  /\ Emit(c, Failed)
  /\ UNCHANGED <<desk, session, wire, dialled, agreed>>

Handle(c, kind) ==
  /\ signals[c] # << >> /\ Head(signals[c]).t = kind
  /\ Set(signals, c, Tail(signals[c]))

\* onLocalOffer, onLocalAnswer.
SendDescription(c) ==
  /\ Handle(c, "send")
  /\ Send(c, Head(signals[c]).to, Head(signals[c]).msg)
  /\ UNCHANGED <<desk, session, dialled, agreed, faults>>

\* onCallConnected: a fresh outage gets a fresh redial budget.  A video call has
\* its window maximized, which shows one that is hidden by now.
HandleConnected(c) ==
  /\ Handle(c, "connected")
  /\ Set(redials, c, 0)
  /\ \/ screen[c] = "idle" /\ Set(screen, c, "ghost")
     \/ UNCHANGED screen
  /\ UNCHANGED <<pending, active, autoAccept, timers, session, wire, dialled, agreed,
                 faults>>

\* onIceStateChanged ignores a session that is not in a call any more.
FailureIgnored(c) ==
  /\ Handle(c, "failed")
  /\ ~session[c].inCall
  /\ UNCHANGED <<desk, session, wire, dialled, agreed, faults>>

\* Mutation: the budget is compared after it is spent.
Recover_OneMore(c, q) ==
  LET again == q # None /\ session[c].caller /\ redials[c] <= RedialLimit
      await == q # None /\ ~session[c].caller
  IN /\ Set(redials, c, IF again THEN redials[c] + 1 ELSE redials[c])
     /\ timers' = IF again THEN [timers EXCEPT ![c][q] = @ + 1] ELSE timers
     /\ Set(autoAccept, c, IF await THEN q ELSE autoAccept[c])

\* The caller of a dropped call with q redials after 2 s, up to three times; the
\* callee answers the redial without ringing for 60 s.
Recover(c, q) ==
  LET again == q # None /\ session[c].caller /\ redials[c] < RedialLimit
      await == q # None /\ ~session[c].caller
  IN /\ Set(redials, c, IF again THEN redials[c] + 1 ELSE redials[c])
     /\ timers' = IF again THEN [timers EXCEPT ![c][q] = @ + 1] ELSE timers
     /\ Set(autoAccept, c, IF await THEN q ELSE autoAccept[c])

\* Mutation: a stale failure is taken for one of the current session.
CallDropped_AnySession(c) ==
  /\ Handle(c, "failed")
  /\ Set(active, c, None)
  /\ Recover(c, active[c])
  /\ EndCall(c)
  /\ UNCHANGED <<pending, wire, dialled, agreed, faults>>

\* Mutation: only the caller hangs up.
CallDropped_CalleeStays(c) ==
  /\ Handle(c, "failed")
  /\ session[c].inCall
  /\ Set(active, c, None)
  /\ Recover(c, active[c])
  /\ Set(session, c, IF session[c].caller THEN Stopped(session[c]) ELSE session[c])
  /\ Set(screen, c, "idle")
  /\ UNCHANGED <<pending, wire, dialled, agreed, faults>>

\* onCallConnectionFailed: the session is dropped, and recovered if there is a
\* peer of the call.
CallDropped(c) ==
  /\ Handle(c, "failed")
  /\ session[c].inCall
  /\ Set(active, c, None)
  /\ Recover(c, active[c])
  /\ EndCall(c)
  /\ UNCHANGED <<pending, wire, dialled, agreed, faults>>

\* The 60 s of m_autoAcceptUntil are over.
AutoAcceptExpires(c) ==
  /\ autoAccept[c] # None
  /\ Set(autoAccept, c, None)
  /\ UNCHANGED <<pending, active, redials, timers, screen, session, signals,
                 wire, dialled, agreed, faults>>

\* A message is lost: a full queue, or a client that is reconnecting.
LoseMessage(q, c) ==
  /\ wire[<<q, c>>] # << >>
  /\ Fault
  /\ Take(q, c)
  /\ UNCHANGED <<desk, session, signals, dialled, agreed>>

----------------------------------------------------------------------------

User(c) ==
  \/ \E q \in Users : StartCall(c, q) \/ StartCallFails(c, q)
  \/ Accept(c) \/ AcceptFails(c) \/ Decline(c) \/ HangUp(c)

\* The handler of the next message from q.
Receive(c, q) ==
  \/ RefreshRing(c, q) \/ ResumeCall(c, q) \/ ResumeFails(c, q)
  \/ DeclineBusy(c, q) \/ Ring(c, q)
  \/ AnswerArrives(c, q) \/ ByeArrives(c, q)

\* The handler of the next signal.
HandleSignal(c) ==
  SendDescription(c) \/ HandleConnected(c) \/ FailureIgnored(c) \/ CallDropped(c)

RedialTimer(c, q) == Redial(c, q) \/ RedialFails(c, q) \/ RedialDropped(c, q)

Next ==
  \E c \in Users :
    \/ User(c) \/ HandleSignal(c) \/ AutoAcceptExpires(c)
    \/ PipelineError(c) \/ PipelineEnds(c) \/ ChannelOpens(c) \/ IceFails(c)
    \/ \E q \in Users : Receive(c, q) \/ RedialTimer(c, q) \/ LoseMessage(q, c)

Spec == Init /\ [][Next]_vars

\* The main thread keeps handling the signals, and ICE notices that the other
\* side is gone.  Users owe nothing, nor does the network.
FairSpec ==
  /\ Spec
  /\ \A c \in Users : WF_vars(HandleSignal(c)) /\ WF_vars(PeerGone(c) /\ IceFails(c))

----------------------------------------------------------------------------
(* Properties.                                                             *)

Sessions ==
  [inCall : BOOLEAN, remote : Users \cup {None}, caller : BOOLEAN,
   answered : BOOLEAN, sdp : Offers \cup {None, Broken}, chan : BOOLEAN, eos : BOOLEAN]
Messages == [t : {"offer", "answer"}, sdp : Offers] \cup {Bye}
Signals == [t : {"send"}, to : Users, msg : Messages] \cup {Failed, Connected}

TypeOK ==
  /\ pending \in [Users -> [peer : Users, sdp : Offers] \cup {NoRing}]
  /\ active \in [Users -> Users \cup {None}]
  /\ autoAccept \in [Users -> Users \cup {None}]
  /\ redials \in [Users -> 0..RedialLimit]
  /\ timers \in [Users -> [Users -> Nat]]
  /\ screen \in [Users -> {"idle", "incoming", "active", "ghost"}]
  /\ session \in [Users -> Sessions]
  /\ signals \in [Users -> Seq(Signals)]
  /\ wire \in [Users \X Users -> Seq(Messages)]
  /\ dialled \in [Users -> Nat]
  /\ agreed \in [Users -> SUBSET Users]
  /\ faults \in 0..MaxFaults

\* The camera and the microphone are on only with a peer whom the client has
\* called (a redial counts) or the user has accepted, and from whom neither side's
\* hang-up has parted it since: the silent accept never takes a new call.
AnswersOnlyAgreed ==
  \A c \in Users : session[c].inCall => session[c].remote \in agreed[c]

\* The next three hold of two clients that only call each other.  A third caller
\* breaks them, by the ways CallUndisturbed and ByeSparesOthers show.

\* Only a click of the user lets a peer in: whom a client redials, or answers
\* without ringing, goes back to a call the user started or accepted, and neither
\* a timer nor a message nor a late failure adds to them.
PeersIn(c) == agreed[c] \cup {q \in Users : timers[c][q] > 0}
OnlyClicksAgree ==
  [][\A c, q \in Users :
       q \in PeersIn(c)' \ PeersIn(c) =>
         StartCall(c, q) \/ (Accept(c) /\ pending[c].peer = q)]_vars

\* No failure, hang-up or redial leaves a call that runs behind the user's back:
\* the camera and the microphone are on only while the call window is up with its
\* hang-up button.  One event hides the window of a call that goes on: the end of
\* a stream (WebRtcSession.cpp:1112, MainWindow.cpp:779).
CallIsShown ==
  \A c \in Users : session[c].inCall /\ ~session[c].eos => screen[c] = "active"

\* A caller rings on the accept screen, where it can be accepted and declined.
RingIsShown ==
  \A c \in Users : pending[c] # NoRing => screen[c] = "incoming"

\* The voice goes where the window says: sessions that are connected have each
\* other for peer, and one of them has called, unless a click has made the other
\* a caller, too, after the end of its stream hid the window.
VoiceGoesToPeer ==
  \A c, d \in Users : Linked(c, d) =>
    /\ session[c].remote = d /\ active[c] = d
    /\ session[c].eos \/ session[d].eos \/ session[c].caller # session[d].caller

\* A call whose channel has been open ends when the other side has stopped its
\* session or built a new one, also if the bye is lost.  A call that was never
\* connected has no such end: whoever waits for an answer that does not come, or
\* has accepted a caller that is gone, stays in the call until a user hangs up.
ConnectedCallEnds ==
  \A c \in Users : PeerGone(c) ~> ~PeerGone(c)

\* WebRtcSession.cpp:774-775: "hangup() tears the pipeline down and the next
\* call starts fresh".  A call that waits for its answer will take it.
CallStartsFresh ==
  \A c \in Users :
    session[c].inCall /\ session[c].caller /\ session[c].sdp = None => ~session[c].answered

\* MainWindow.cpp:638-640: "an active call (or an accept screen already on
\* display) must not be disturbed by a second caller".
CallUndisturbed ==
  [][\A c, q \in Users :
       OfferArrives(c, q) /\ Receive(c, q) =>
         /\ pending[c].peer \notin {None, q} => pending'[c] = pending[c]
         /\ session[c].inCall /\ session[c].remote # q => session'[c] = session[c]]_vars

\* MainWindow.cpp:721-723: a bye of somebody else is "noise - never tear down
\* the current conversation because of it".
ByeSparesOthers ==
  [][\A c, q \in Users :
       ByeArrives(c, q) /\ pending[c].peer \notin {None, q} => screen'[c] = screen[c]]_vars
=============================================================================
