------------------------ MODULE CallLifecycleProofs ------------------------
(***************************************************************************)
(* What holds of calls for every set of clients, however often they call,  *)
(* redial and hang up, and whatever fails or is lost.                      *)
(***************************************************************************)
EXTENDS CallLifecycle, TLAPS

\* A client in a call knows its peer, and has called or accepted it; the peer it
\* would answer silently is one of those, too.
Agrees(c) ==
  /\ session[c].inCall => session[c].remote = active[c] /\ active[c] \in agreed[c]
  /\ autoAccept[c] # None => autoAccept[c] \in agreed[c]
AgreeInv == \A c \in Users : Agrees(c)

CallInv == TypeOK /\ AgreeInv

----------------------------------------------------------------------------
(* Types of the helpers.                                                   *)

LEMMA NoneIsNoUser == None \notin Users
  BY CallAssumption

LEMMA MessageTypes ==
  /\ \A o \in Offers : Offer(o) \in Messages /\ Answer(o) \in Messages
  /\ Bye \in Messages
  /\ \A m \in Messages : m.t \in {"offer", "answer"} => m.sdp \in Offers
  /\ \A q \in Users, m \in Messages : To(q, m) \in Signals
  /\ Failed \in Signals /\ Connected \in Signals
  /\ \A s \in Signals : s.t = "send" => s.to \in Users /\ s.msg \in Messages
  BY DEF Offer, Answer, Bye, Messages, To, Failed, Connected, Signals

\* What the operators on a session return.
LEMMA SessionTypes ==
  ASSUME NEW s \in Sessions, NEW q \in Users, NEW o \in Offers, NEW own
  PROVE  /\ Calling(s, q) \in Sessions
         /\ Calling(s, q).inCall /\ Calling(s, q).remote = q
         /\ Answering(s, q, o) \in Sessions
         /\ Answering(s, q, o).inCall /\ Answering(s, q, o).remote = q
         /\ Stopped(s) \in Sessions
         /\ ~Stopped(s).inCall /\ Stopped(s).remote = s.remote
         /\ Answered(s, o, own) \in Sessions
         /\ Answered(s, o, own).inCall = s.inCall
         /\ Answered(s, o, own).remote = s.remote
  <1>1. Calling(s, q) \in Sessions /\ Calling(s, q).inCall /\ Calling(s, q).remote = q
    BY DEF Calling, Sessions
  <1>2. /\ Answering(s, q, o) \in Sessions
        /\ Answering(s, q, o).inCall /\ Answering(s, q, o).remote = q
    BY DEF Answering, Sessions
  <1>3. Stopped(s) \in Sessions /\ ~Stopped(s).inCall /\ Stopped(s).remote = s.remote
    BY DEF Stopped, Sessions
  <1>4. /\ Answered(s, o, own) \in Sessions
        /\ Answered(s, o, own).inCall = s.inCall
        /\ Answered(s, o, own).remote = s.remote
    BY DEF Answered, Sessions
  <1>5. QED BY <1>1, <1>2, <1>3, <1>4

LEMMA StoppedType ==
  ASSUME TypeOK, NEW c \in Users
  PROVE  /\ session[c] \in Sessions
         /\ Stopped(session[c]) \in Sessions
         /\ ~Stopped(session[c]).inCall
  <1>1. session[c] \in Sessions
    BY DEF TypeOK
  <1>2. QED BY <1>1 DEF Stopped, Sessions

\* What is left for a new call of a session that may be running.
LEMMA PreparedType ==
  ASSUME TypeOK, NEW c \in Users, NEW s \in Prepared(session[c])
  PROVE  /\ s \in Sessions
         /\ s.remote = session[c].remote
         /\ s.inCall => s = session[c]
         /\ ~session[c].inCall => s = session[c]
  <1>1. session[c] \in Sessions
    BY DEF TypeOK
  <1>2. s \in {session[c], Stopped(session[c])} /\ (~session[c].inCall => s = session[c])
    BY DEF Prepared
  <1>3. Stopped(session[c]).remote = session[c].remote
    BY <1>1 DEF Stopped, Sessions
  <1>4. CASE s = session[c]
    BY <1>1, <1>4
  <1>5. CASE s = Stopped(session[c])
    BY <1>2, <1>3, <1>5, StoppedType
  <1>6. QED BY <1>2, <1>4, <1>5

LEMMA SendType ==
  ASSUME TypeOK, NEW c \in Users, NEW q \in Users, NEW m \in Messages, Send(c, q, m)
  PROVE  wire' \in [Users \X Users -> Seq(Messages)]
  <1>1. wire[<<c, q>>] \in Seq(Messages)
    BY DEF TypeOK
  <1>2. Append(wire[<<c, q>>], m) \in Seq(Messages)
    BY <1>1
  <1>3. QED BY <1>2 DEF Send, TypeOK

Wires == [Users \X Users -> Seq(Messages)]

LEMMA TakeType ==
  ASSUME TypeOK, NEW c \in Users, NEW q \in Users, wire[<<q, c>>] # << >>
  PROVE  /\ Incoming(q, c) \in Messages
         /\ Taken(q, c) \in Wires
         /\ Take(q, c) => wire' \in [Users \X Users -> Seq(Messages)]
  <1>1. wire[<<q, c>>] \in Seq(Messages)
    BY DEF TypeOK
  <1>2. Incoming(q, c) \in Messages /\ Tail(wire[<<q, c>>]) \in Seq(Messages)
    BY <1>1 DEF Incoming
  <1>3. Taken(q, c) \in Wires
    BY <1>2 DEF Taken, TypeOK, Wires
  <1>4. QED BY <1>2, <1>3 DEF Take, Wires

\* A bye leaves the messages in flight well formed, to whomever it goes.
LEMMA WithByeType ==
  ASSUME NEW w \in Wires, NEW c \in Users, NEW q \in Users \cup {None}
  PROVE  WithBye(w, c, q) \in Wires
  <1>1. CASE q = None
    BY <1>1 DEF WithBye
  <1>2. CASE q # None
    <2>1. w[<<c, q>>] \in Seq(Messages)
      BY <1>2 DEF Wires
    <2>2. Append(w[<<c, q>>], Bye) \in Seq(Messages)
      BY <2>1, MessageTypes
    <2>3. QED BY <1>2, <2>2 DEF WithBye, Wires
  <1>3. QED BY <1>1, <1>2

\* A call that is broken off: the bye goes to the peer of the last session.
LEMMA AbortType ==
  ASSUME TypeOK, NEW c \in Users, NEW w \in Wires, Abort(c, w)
  PROVE  /\ wire' \in [Users \X Users -> Seq(Messages)]
         /\ session' \in [Users -> Sessions]
         /\ screen' \in [Users -> {"idle", "incoming", "active", "ghost"}]
  <1>1. session[c] \in Sessions /\ Stopped(session[c]) \in Sessions
    BY StoppedType
  <1>2. session[c].remote \in Users \cup {None}
    BY <1>1 DEF Sessions
  <1>3. wire' \in Wires
    BY <1>2, WithByeType DEF Abort
  <1>4. QED BY <1>1, <1>3 DEF Abort, EndCall, Set, HideCallUi, TypeOK, Wires

LEMMA WireType == TypeOK => wire \in Wires
  BY DEF TypeOK, Wires

LEMMA EmitType ==
  ASSUME TypeOK, NEW c \in Users, NEW s \in Signals, Emit(c, s)
  PROVE  signals' \in [Users -> Seq(Signals)]
  <1>1. signals[c] \in Seq(Signals)
    BY DEF TypeOK
  <1>2. Append(signals[c], s) \in Seq(Signals)
    BY <1>1
  <1>3. QED BY <1>2 DEF Emit, Set, TypeOK

LEMMA HandleType ==
  ASSUME TypeOK, NEW c \in Users, NEW kind, Handle(c, kind)
  PROVE  signals' \in [Users -> Seq(Signals)] /\ Head(signals[c]) \in Signals
  <1>1. signals[c] \in Seq(Signals) /\ signals[c] # << >>
    BY DEF TypeOK, Handle
  <1>2. Tail(signals[c]) \in Seq(Signals) /\ Head(signals[c]) \in Signals
    BY <1>1
  <1>3. QED BY <1>2 DEF Handle, Set, TypeOK

\* A redial timer that has fired, and one that is set.
LEMMA TimerType ==
  ASSUME TypeOK, NEW c \in Users, NEW q \in Users, NEW n \in Nat,
         timers' = [timers EXCEPT ![c][q] = n]
  PROVE  timers' \in [Users -> [Users -> Nat]]
  <1>1. timers[c] \in [Users -> Nat]
    BY DEF TypeOK
  <1>2. [timers[c] EXCEPT ![q] = n] \in [Users -> Nat]
    BY <1>1
  <1>3. QED BY <1>2 DEF TypeOK

LEMMA FiredType ==
  ASSUME TypeOK, NEW c \in Users, NEW q \in Users, timers[c][q] > 0,
         timers' = [timers EXCEPT ![c][q] = @ - 1]
  PROVE  timers' \in [Users -> [Users -> Nat]]
  <1>1. timers[c][q] \in Nat
    BY DEF TypeOK
  <1>2. timers[c][q] - 1 \in Nat /\ timers' = [timers EXCEPT ![c][q] = timers[c][q] - 1]
    BY <1>1
  <1>3. QED BY <1>2, TimerType

LEMMA FaultType ==
  ASSUME TypeOK, Fault
  PROVE  faults' \in 0..MaxFaults
  BY CallAssumption DEF Fault, TypeOK

\* A call that is started has types and an agreed peer.
LEMMA DialType ==
  ASSUME TypeOK, NEW c \in Users, NEW q \in Users, Dial(c, q)
  PROVE  /\ active' \in [Users -> Users \cup {None}]
         /\ screen' \in [Users -> {"idle", "incoming", "active", "ghost"}]
         /\ session' \in [Users -> Sessions]
         /\ signals' \in [Users -> Seq(Signals)]
         /\ dialled' \in [Users -> Nat]
         /\ agreed' \in [Users -> SUBSET Users]
  <1> PICK s \in Prepared(session[c]) :
        /\ Set(session, c, Calling(s, q))
        /\ IF s.inCall
             THEN UNCHANGED <<dialled, signals>>
             ELSE /\ dialled' = [dialled EXCEPT ![c] = @ + 1]
                  /\ signals' = [signals EXCEPT ![c] =
                                   Append(@, To(q, Offer(<<c, dialled[c] + 1>>)))]
    BY DEF Dial
  <1>1. session' \in [Users -> Sessions]
    <2>1. s \in Sessions
      BY PreparedType
    <2>2. Calling(s, q) \in Sessions
      BY <2>1, SessionTypes DEF Calling, Sessions
    <2>3. QED BY <2>2 DEF Set, TypeOK
  <1>2. signals' \in [Users -> Seq(Signals)] /\ dialled' \in [Users -> Nat]
    <2>1. CASE s.inCall
      BY <2>1 DEF TypeOK
    <2>2. CASE ~s.inCall
      <3>1. dialled[c] \in Nat /\ signals[c] \in Seq(Signals)
        BY DEF TypeOK
      <3>2. <<c, dialled[c] + 1>> \in Offers
        BY <3>1 DEF Offers
      <3>3. To(q, Offer(<<c, dialled[c] + 1>>)) \in Signals
        BY <3>2, MessageTypes
      <3>4. Append(signals[c], To(q, Offer(<<c, dialled[c] + 1>>))) \in Seq(Signals)
        BY <3>1, <3>3
      <3>5. signals' = [signals EXCEPT ![c] = Append(signals[c], To(q, Offer(<<c, dialled[c] + 1>>)))]
        BY <2>2
      <3>6. signals' \in [Users -> Seq(Signals)]
        BY <3>4, <3>5 DEF TypeOK
      <3>7. dialled' = [dialled EXCEPT ![c] = dialled[c] + 1]
        BY <2>2
      <3>8. dialled' \in [Users -> Nat]
        BY <3>1, <3>7 DEF TypeOK
      <3>9. QED BY <3>6, <3>8
    <2>3. QED BY <2>1, <2>2
  <1>3. active' \in [Users -> Users \cup {None}] /\ agreed' \in [Users -> SUBSET Users]
    BY DEF Dial, Set, TypeOK
  <1>4. screen' \in [Users -> {"idle", "incoming", "active", "ghost"}]
    BY DEF Dial, ShowCallUi, Set, TypeOK
  <1>5. QED BY <1>1, <1>2, <1>3, <1>4

----------------------------------------------------------------------------
(* Types.                                                                  *)

LEMMA CallTypeInit == Init => TypeOK
  BY CallAssumption DEF Init, TypeOK, Sessions, Idle, RedialLimit

\* Every step keeps the types.
LEMMA CallTypeStep ==
  ASSUME TypeOK, [Next]_vars
  PROVE  TypeOK'
  <1> USE NoneIsNoUser
  <1>0. CASE UNCHANGED vars
    BY <1>0 DEF TypeOK, vars, desk
  <1>1. ASSUME NEW c \in Users, NEW q \in Users, StartCall(c, q)
        PROVE  TypeOK'
    <2>1. redials' \in [Users -> 0..RedialLimit]
      BY <1>1 DEF StartCall, TypeOK, Set, RedialLimit
    <2>2. QED BY <1>1, <2>1, DialType DEF StartCall, TypeOK
  <1>2. ASSUME NEW c \in Users, NEW q \in Users, StartCallFails(c, q)
        PROVE  TypeOK'
    <2>1. Abort(c, wire) /\ faults' \in 0..MaxFaults
      BY <1>2, FaultType DEF StartCallFails, DialFails, StartFails
    <2>2. /\ redials' \in [Users -> 0..RedialLimit]
          /\ active' \in [Users -> Users \cup {None}]
      <3>1. redials' = [redials EXCEPT ![c] = 0] /\ active' = [active EXCEPT ![c] = q]
        BY <1>2 DEF StartCallFails, DialFails, Set
      <3>2. redials \in [Users -> 0..RedialLimit] /\ active \in [Users -> Users \cup {None}]
        BY DEF TypeOK
      <3>3. 0 \in 0..RedialLimit
        BY DEF RedialLimit
      <3>4. QED BY <3>1, <3>2, <3>3
    <2>3. /\ wire' \in [Users \X Users -> Seq(Messages)]
          /\ session' \in [Users -> Sessions]
          /\ screen' \in [Users -> {"idle", "incoming", "active", "ghost"}]
      BY <2>1, AbortType, WireType
    <2>4. QED BY <1>2, <2>1, <2>2, <2>3 DEF StartCallFails, DialFails, TypeOK
  <1>3. ASSUME NEW c \in Users, NEW q \in Users, Redial(c, q)
        PROVE  TypeOK'
    BY <1>3, DialType, FiredType DEF Redial, TypeOK
  <1>4. ASSUME NEW c \in Users, NEW q \in Users, RedialDropped(c, q)
        PROVE  TypeOK'
    BY <1>4, FiredType DEF RedialDropped, TypeOK
  <1>5. ASSUME NEW c \in Users, NEW q \in Users, RefreshRing(c, q)
        PROVE  TypeOK'
    <2>1. /\ wire' \in [Users \X Users -> Seq(Messages)]
          /\ Incoming(q, c).sdp \in Offers
      BY <1>5, TakeType, MessageTypes DEF RefreshRing, OfferArrives
    <2>2. pending' \in [Users -> [peer : Users, sdp : Offers] \cup {NoRing}]
      BY <1>5, <2>1 DEF RefreshRing, Set, TypeOK
    <2>3. QED BY <1>5, <2>1, <2>2 DEF RefreshRing, TypeOK
  <1>6. ASSUME NEW c \in Users, NEW q \in Users, ResumeCall(c, q)
        PROVE  TypeOK'
    <2>1. /\ wire' \in [Users \X Users -> Seq(Messages)]
          /\ Incoming(q, c).sdp \in Offers
      BY <1>6, TakeType, MessageTypes DEF ResumeCall, OfferArrives
    <2>2. PICK s \in {Stopped(session[c])} \cup Prepared(session[c]) :
            Set(session, c, Answering(s, q, Incoming(q, c).sdp))
      BY <1>6 DEF ResumeCall
    <2>3. s \in Sessions
      BY StoppedType, PreparedType
    <2>4. session' = [session EXCEPT ![c] = Answering(s, q, Incoming(q, c).sdp)]
      BY <2>2 DEF Set
    <2>5. Answering(s, q, Incoming(q, c).sdp) \in Sessions
      BY <2>1, <2>3, SessionTypes
    <2>6. session' \in [Users -> Sessions]
      BY <2>4, <2>5 DEF TypeOK
    <2>7. Emit(c, To(q, Answer(Incoming(q, c).sdp)))
      BY <1>6 DEF ResumeCall, Emit
    <2>8. To(q, Answer(Incoming(q, c).sdp)) \in Signals
      BY <2>1, MessageTypes
    <2>9. signals' \in [Users -> Seq(Signals)]
      BY <2>7, <2>8 DEF Emit, Set, TypeOK
    <2>10. QED BY <1>6, <2>1, <2>6, <2>9 DEF ResumeCall, TypeOK, Set, ShowCallUi
  <1>7. ASSUME NEW c \in Users, NEW q \in Users, DeclineBusy(c, q)
        PROVE  TypeOK'
    <2>1. Taken(q, c) \in Wires
      BY <1>7, TakeType DEF DeclineBusy, OfferArrives
    <2>2. wire' \in Wires
      BY <1>7, <2>1, WithByeType DEF DeclineBusy
    <2>3. QED BY <1>7, <2>2 DEF DeclineBusy, TypeOK, desk, Wires
  <1>8. ASSUME NEW c \in Users, NEW q \in Users, Ring(c, q)
        PROVE  TypeOK'
    <2>1. /\ wire' \in [Users \X Users -> Seq(Messages)]
          /\ Incoming(q, c).sdp \in Offers
      BY <1>8, TakeType, MessageTypes DEF Ring, OfferArrives
    <2>2. pending' \in [Users -> [peer : Users, sdp : Offers] \cup {NoRing}]
      BY <1>8, <2>1 DEF Ring, Set, TypeOK
    <2>3. QED BY <1>8, <2>1, <2>2 DEF Ring, TypeOK, Set
  <1>9. ASSUME NEW c \in Users, Accept(c)
        PROVE  TypeOK'
    <2>1. pending[c].peer \in Users /\ pending[c].sdp \in Offers
      BY <1>9 DEF Accept, TypeOK
    <2>2. PICK s \in Prepared(session[c]) :
            Set(session, c, Answering(s, pending[c].peer, pending[c].sdp))
      BY <1>9 DEF Accept
    <2>3. Answering(s, pending[c].peer, pending[c].sdp) \in Sessions
      BY <2>1, PreparedType, SessionTypes
    <2>4. Emit(c, To(pending[c].peer, Answer(pending[c].sdp)))
      BY <1>9 DEF Accept, Emit
    <2>5. To(pending[c].peer, Answer(pending[c].sdp)) \in Signals
      BY <2>1, MessageTypes
    <2>6. signals' \in [Users -> Seq(Signals)]
      BY <2>4, <2>5 DEF Emit, Set, TypeOK
    <2>7. session' \in [Users -> Sessions]
      BY <2>2, <2>3 DEF Set, TypeOK
    <2>8. /\ pending' = [pending EXCEPT ![c] = NoRing]
          /\ active' = [active EXCEPT ![c] = pending[c].peer]
          /\ agreed' = [agreed EXCEPT ![c] = agreed[c] \cup {pending[c].peer}]
          /\ screen' = [screen EXCEPT ![c] = "active"]
          /\ UNCHANGED <<autoAccept, redials, timers, wire, dialled, faults>>
      BY <1>9 DEF Accept, Set
    <2>9. QED BY <2>1, <2>6, <2>7, <2>8 DEF TypeOK
  <1>10. ASSUME NEW c \in Users, AcceptFails(c)
         PROVE  TypeOK'
    <2>1. pending[c].peer \in Users
      BY <1>10 DEF AcceptFails, TypeOK
    <2>2. Abort(c, wire) /\ faults' \in 0..MaxFaults
      BY <1>10, FaultType DEF AcceptFails, StartFails
    <2>3. QED BY <1>10, <2>1, <2>2, AbortType, WireType DEF AcceptFails, TypeOK, Set
  <1>11. ASSUME NEW c \in Users, NEW q \in Users, AnswerArrives(c, q)
         PROVE  TypeOK'
    <2>1. /\ wire' \in [Users \X Users -> Seq(Messages)]
          /\ Incoming(q, c).sdp \in Offers
      BY <1>11, TakeType, MessageTypes DEF AnswerArrives
    <2>2. session[c] \in Sessions
      BY DEF TypeOK
    <2>3. Answered(session[c], Incoming(q, c).sdp, <<c, dialled[c]>>) \in Sessions
      BY <2>1, <2>2, SessionTypes
    <2>4. session' \in [Users -> Sessions]
      BY <1>11, <2>3 DEF AnswerArrives, Set, TypeOK
    <2>5. QED BY <1>11, <2>1, <2>4 DEF AnswerArrives, TypeOK, desk
  <1>12. ASSUME NEW c \in Users, NEW q \in Users, ByeArrives(c, q)
         PROVE  TypeOK'
    <2>1. wire' \in [Users \X Users -> Seq(Messages)]
      BY <1>12, TakeType DEF ByeArrives
    <2>2. session' \in [Users -> Sessions]
      <3>1. session[c] \in Sessions
        BY DEF TypeOK
      <3>2. Stopped(session[c]) \in Sessions
        BY <3>1 DEF Stopped, Sessions
      <3>3. QED BY <1>12, <3>1, <3>2 DEF ByeArrives, Set, TypeOK
    <2>3. agreed' \in [Users -> SUBSET Users]
      BY <1>12 DEF ByeArrives, Part, Set, TypeOK
    <2>4. QED BY <1>12, <2>1, <2>2, <2>3 DEF ByeArrives, Set, TypeOK
  <1>13. ASSUME NEW c \in Users, Decline(c)
         PROVE  TypeOK'
    <2>1. wire' \in Wires
      <3>1. pending[c].peer \in Users
        BY <1>13 DEF Decline, TypeOK
      <3>2. QED BY <1>13, <3>1, WithByeType, WireType DEF Decline
    <2>2. agreed' \in [Users -> SUBSET Users]
      BY <1>13 DEF Decline, Part, Set, HideCallUi, TypeOK
    <2>3. /\ redials' \in [Users -> 0..RedialLimit]
          /\ autoAccept' \in [Users -> Users \cup {None}]
          /\ screen' \in [Users -> {"idle", "incoming", "active", "ghost"}]
      BY <1>13 DEF Decline, ForReal, Set, HideCallUi, TypeOK, RedialLimit
    <2>4. pending' \in [Users -> [peer : Users, sdp : Offers] \cup {NoRing}]
      BY <1>13 DEF Decline, Set, HideCallUi, TypeOK
    <2>5. QED BY <1>13, <2>1, <2>2, <2>3, <2>4 DEF Decline, TypeOK, Wires
  <1>14. ASSUME NEW c \in Users, HangUp(c)
         PROVE  TypeOK'
    <2>1. session[c] \in Sessions /\ Stopped(session[c]) \in Sessions
      BY StoppedType
    <2>2. wire' \in Wires
      <3>1. ByePeer(c) \in Users \cup {None}
        BY <2>1 DEF ByePeer, TypeOK, Sessions
      <3>2. QED BY <1>14, <3>1, WithByeType, WireType DEF HangUp
    <2>3. /\ session' \in [Users -> Sessions]
          /\ screen' \in [Users -> {"idle", "incoming", "active", "ghost"}]
      BY <1>14, <2>1 DEF HangUp, EndCall, Set, HideCallUi, TypeOK
    <2>4. agreed' \in [Users -> SUBSET Users]
      BY <1>14 DEF HangUp, Set, TypeOK
    <2>5. QED
      BY <1>14, <2>2, <2>3, <2>4 DEF HangUp, ForReal, Set, TypeOK, RedialLimit, Wires
  <1>15. ASSUME NEW c \in Users, PipelineError(c)
         PROVE  TypeOK'
    <2>1. Abort(c, wire) /\ faults' \in 0..MaxFaults
      BY <1>15, FaultType DEF PipelineError
    <2>2. QED BY <1>15, <2>1, AbortType, WireType DEF PipelineError, TypeOK
  <1>16. ASSUME NEW c \in Users, ChannelOpens(c)
         PROVE  TypeOK'
    <2>1. [session[c] EXCEPT !.chan = TRUE] \in Sessions
      BY StoppedType DEF Sessions
    <2>2. signals' \in [Users -> Seq(Signals)]
      BY <1>16, EmitType, MessageTypes DEF ChannelOpens
    <2>3. QED BY <1>16, <2>1, <2>2 DEF ChannelOpens, Set, TypeOK, desk
  <1>17. ASSUME NEW c \in Users, IceFails(c)
         PROVE  TypeOK'
    <2>1. signals' \in [Users -> Seq(Signals)]
      BY <1>17, EmitType, MessageTypes DEF IceFails
    <2>2. faults' \in 0..MaxFaults
      BY <1>17, FaultType DEF IceFails, TypeOK
    <2>3. QED BY <1>17, <2>1, <2>2 DEF IceFails, TypeOK, desk
  <1>18. ASSUME NEW c \in Users, SendDescription(c)
         PROVE  TypeOK'
    <2>1. signals' \in [Users -> Seq(Signals)] /\ Head(signals[c]) \in Signals
      BY <1>18, HandleType DEF SendDescription
    <2>2. Head(signals[c]).to \in Users /\ Head(signals[c]).msg \in Messages
      BY <1>18, <2>1, MessageTypes DEF SendDescription, Handle
    <2>3. wire' \in [Users \X Users -> Seq(Messages)]
      BY <1>18, <2>2, SendType DEF SendDescription
    <2>4. QED BY <1>18, <2>1, <2>3 DEF SendDescription, TypeOK, desk
  <1>19. ASSUME NEW c \in Users, HandleConnected(c)
         PROVE  TypeOK'
    <2>1. signals' \in [Users -> Seq(Signals)]
      BY <1>19, HandleType DEF HandleConnected
    <2>2. redials' \in [Users -> 0..RedialLimit]
      BY <1>19 DEF HandleConnected, Set, TypeOK, RedialLimit
    <2>3. screen' \in [Users -> {"idle", "incoming", "active", "ghost"}]
      BY <1>19 DEF HandleConnected, Set, TypeOK
    <2>4. QED BY <1>19, <2>1, <2>2, <2>3 DEF HandleConnected, TypeOK
  <1>20. ASSUME NEW c \in Users, FailureIgnored(c)
         PROVE  TypeOK'
    BY <1>20, HandleType DEF FailureIgnored, TypeOK, desk
  <1>21. ASSUME NEW c \in Users, CallDropped(c)
         PROVE  TypeOK'
    <2>1. session[c] \in Sessions /\ Stopped(session[c]) \in Sessions
      BY StoppedType
    <2>2. signals' \in [Users -> Seq(Signals)]
      BY <1>21, HandleType DEF CallDropped
    <2>3. /\ redials' \in [Users -> 0..RedialLimit]
          /\ autoAccept' \in [Users -> Users \cup {None}]
      BY <1>21 DEF CallDropped, Recover, Set, TypeOK, RedialLimit
    <2>t. timers' \in [Users -> [Users -> Nat]]
      <3>1. \/ timers' = timers
            \/ active[c] \in Users /\ timers' = [timers EXCEPT ![c][active[c]] = @ + 1]
        BY <1>21 DEF CallDropped, Recover, TypeOK
      <3>2. ASSUME active[c] \in Users, timers' = [timers EXCEPT ![c][active[c]] = @ + 1]
            PROVE  timers' \in [Users -> [Users -> Nat]]
        <4>1. timers[c][active[c]] \in Nat
          BY <3>2 DEF TypeOK
        <4>2. timers[c][active[c]] + 1 \in Nat
              /\ timers' = [timers EXCEPT ![c][active[c]] = timers[c][active[c]] + 1]
          BY <3>2, <4>1
        <4>3. QED BY <3>2, <4>2, TimerType
      <3>3. QED BY <3>1, <3>2 DEF TypeOK
    <2>4. QED BY <1>21, <2>1, <2>2, <2>3, <2>t DEF CallDropped, EndCall, Set, HideCallUi, TypeOK
  <1>22. ASSUME NEW c \in Users, AutoAcceptExpires(c)
         PROVE  TypeOK'
    BY <1>22 DEF AutoAcceptExpires, Set, TypeOK
  <1>23. ASSUME NEW c \in Users, NEW q \in Users, LoseMessage(q, c)
         PROVE  TypeOK'
    BY <1>23, TakeType, FaultType DEF LoseMessage, TypeOK, desk
  <1>24. ASSUME NEW c \in Users, NEW q \in Users, RedialFails(c, q)
         PROVE  TypeOK'
    <2>1. Abort(c, wire) /\ faults' \in 0..MaxFaults
      BY <1>24, FaultType DEF RedialFails, DialFails, StartFails
    <2>2. QED
      BY <1>24, <2>1, AbortType, WireType, FiredType DEF RedialFails, DialFails, TypeOK, Set
  <1>25. ASSUME NEW c \in Users, NEW q \in Users, ResumeFails(c, q)
         PROVE  TypeOK'
    <2>1. Taken(q, c) \in Wires /\ faults' \in 0..MaxFaults
      BY <1>25, TakeType, FaultType DEF ResumeFails, OfferArrives
    <2>2. QED
      BY <1>25, <2>1, AbortType DEF ResumeFails, Set, TypeOK
  <1>26. ASSUME NEW c \in Users, PipelineEnds(c)
         PROVE  TypeOK'
    <2>1. [session[c] EXCEPT !.eos = TRUE] \in Sessions
      BY StoppedType DEF Sessions
    <2>2. faults' \in 0..MaxFaults
      BY <1>26, FaultType DEF PipelineEnds
    <2>3. QED BY <1>26, <2>1, <2>2 DEF PipelineEnds, Set, HideCallUi, TypeOK
  <1>27. QED
    BY <1>0, <1>1, <1>2, <1>3, <1>4, <1>5, <1>6, <1>7, <1>8, <1>9, <1>10, <1>11,
       <1>12, <1>13, <1>14, <1>15, <1>16, <1>17, <1>18, <1>19, <1>20, <1>21,
       <1>22, <1>23, <1>24, <1>25, <1>26
       DEF Next, User, Receive, HandleSignal, RedialTimer

----------------------------------------------------------------------------
(* Agreement.                                                              *)

\* Only what a client does itself touches its part of the invariant: it is kept
\* wherever the session, the peer, the silent accept and the agreements are.
LEMMA AgreesLocally ==
  ASSUME AgreeInv, NEW c \in Users, Agrees(c)',
         \A d \in Users \ {c} :
           /\ session'[d] = session[d] /\ active'[d] = active[d]
           /\ autoAccept'[d] = autoAccept[d] /\ agreed'[d] = agreed[d]
  PROVE  AgreeInv'
  BY DEF AgreeInv, Agrees

LEMMA AgreeInit == Init => AgreeInv
  <1> SUFFICES ASSUME Init, NEW c \in Users
               PROVE  Agrees(c)
    BY DEF AgreeInv
  <1>1. session[c] = Idle /\ ~Idle.inCall /\ autoAccept[c] = None
    BY DEF Init, Idle
  <1>2. QED BY <1>1 DEF Agrees

\* A call that is broken off leaves the client without a session.
LEMMA AbortAgrees ==
  ASSUME TypeOK, AgreeInv, NEW c \in Users, NEW w, Abort(c, w),
         agreed' = agreed, autoAccept'[c] \in {autoAccept[c], None},
         \A d \in Users \ {c} : active'[d] = active[d] /\ autoAccept'[d] = autoAccept[d]
  PROVE  AgreeInv'
  <1>1. session' = [session EXCEPT ![c] = Stopped(session[c])]
    BY DEF Abort, EndCall, Set, HideCallUi
  <1>2. ~session'[c].inCall
    BY <1>1, StoppedType DEF TypeOK
  <1>3. Agrees(c)'
    BY <1>2 DEF AgreeInv, Agrees
  <1>4. QED BY <1>1, <1>3, AgreesLocally DEF TypeOK

\* Every step keeps the agreement.  A hang-up stops the session before it takes
\* the agreement back; a bye leaves a call with somebody else alone.
LEMMA AgreeStep ==
  ASSUME TypeOK, AgreeInv, [Next]_vars
  PROVE  AgreeInv'
  <1> USE NoneIsNoUser
  <1>0. CASE UNCHANGED <<session, active, autoAccept, agreed>>
    BY <1>0 DEF AgreeInv, Agrees
  <1>1. ASSUME NEW c \in Users, NEW q \in Users, Dial(c, q), UNCHANGED autoAccept
        PROVE  AgreeInv'
    <2>0. PICK s \in Prepared(session[c]) : Set(session, c, Calling(s, q))
      BY <1>1 DEF Dial
    <2>1. session'[c].remote = q
      BY <2>0, PreparedType DEF Set, Calling, TypeOK, Sessions
    <2>2. Agrees(c)'
      BY <1>1, <2>1 DEF Dial, Set, ShowCallUi, TypeOK, AgreeInv, Agrees
    <2>3. QED BY <1>1, <2>0, <2>2, AgreesLocally DEF Dial, Set, ShowCallUi, TypeOK
  <1>2. ASSUME NEW c \in Users, NEW q \in Users, DialFails(c, q)
        PROVE  AgreeInv'
    BY <1>2, AbortAgrees DEF DialFails, StartFails, Set, TypeOK
  <1>3. ASSUME NEW c \in Users, NEW q \in Users, ResumeCall(c, q)
        PROVE  AgreeInv'
    <2>1. q \in agreed[c]
      BY <1>3 DEF ResumeCall, Resumes, AgreeInv, Agrees
    <2>s. PICK s \in {Stopped(session[c])} \cup Prepared(session[c]) :
            Set(session, c, Answering(s, q, Incoming(q, c).sdp))
      BY <1>3 DEF ResumeCall
    <2>2. s \in Sessions
      BY StoppedType, PreparedType
    <2>3. session' = [session EXCEPT ![c] = Answering(s, q, Incoming(q, c).sdp)]
      BY <2>s DEF Set
    <2>4. session'[c].inCall /\ session'[c].remote = q
      BY <2>2, <2>3 DEF TypeOK, Answering, Sessions
    <2>5. Agrees(c)'
      BY <1>3, <2>1, <2>4 DEF ResumeCall, Set, ShowCallUi, TypeOK, Agrees
    <2>6. QED BY <1>3, <2>3, <2>5, AgreesLocally DEF ResumeCall, Set, ShowCallUi, TypeOK
  <1>4. ASSUME NEW c \in Users, Accept(c)
        PROVE  AgreeInv'
    <2>0. PICK s \in Prepared(session[c]) :
            Set(session, c, Answering(s, pending[c].peer, pending[c].sdp))
      BY <1>4 DEF Accept
    <2>1. session'[c].inCall /\ session'[c].remote = pending[c].peer
      BY <2>0, PreparedType DEF Set, TypeOK, Answering, Sessions
    <2>2. Agrees(c)'
      BY <1>4, <2>1 DEF Accept, Set, TypeOK, AgreeInv, Agrees
    <2>3. QED BY <1>4, <2>0, <2>2, AgreesLocally DEF Accept, Set, TypeOK
  <1>5. ASSUME NEW c \in Users, AcceptFails(c)
        PROVE  AgreeInv'
    BY <1>5, AbortAgrees DEF AcceptFails, StartFails, Set, TypeOK
  <1>6. ASSUME NEW c \in Users, NEW q \in Users, AnswerArrives(c, q)
        PROVE  AgreeInv'
    <2>1. /\ session'[c].inCall = session[c].inCall
          /\ session'[c].remote = session[c].remote
      BY <1>6 DEF AnswerArrives, Set, TypeOK, Answered, Sessions
    <2>2. Agrees(c)'
      BY <1>6, <2>1 DEF AnswerArrives, desk, AgreeInv, Agrees
    <2>3. QED BY <1>6, <2>2, AgreesLocally DEF AnswerArrives, desk, Set, TypeOK
  <1>7. ASSUME NEW c \in Users, NEW q \in Users, ByeArrives(c, q)
        PROVE  AgreeInv'
    <2>1. /\ autoAccept' = [autoAccept EXCEPT ![c] =
                              IF autoAccept[c] = q THEN None ELSE autoAccept[c]]
          /\ agreed' = [agreed EXCEPT ![c] =
                          IF session'[c].inCall /\ session[c].remote = q
                            THEN agreed[c] ELSE agreed[c] \ {q}]
      BY <1>7 DEF ByeArrives, Part, Set
    <2>2. /\ agreed[c] \ {q} \subseteq agreed'[c]
          /\ session'[c].inCall /\ session[c].remote = q => agreed'[c] = agreed[c]
      BY <2>1 DEF TypeOK
    <2>3. session'[c].inCall => session'[c] = session[c] /\ active'[c] = active[c]
      BY <1>7 DEF ByeArrives, Set, Stopped, TypeOK, Sessions
    <2>4. Agrees(c)'
      <3>1. autoAccept'[c] # None => autoAccept'[c] \in agreed'[c]
        BY <2>1, <2>2 DEF AgreeInv, Agrees, TypeOK
      <3>2. session'[c].inCall =>
              session'[c].remote = active'[c] /\ active'[c] \in agreed'[c]
        BY <2>2, <2>3 DEF AgreeInv, Agrees
      <3>3. QED BY <3>1, <3>2 DEF Agrees
    <2>5. QED BY <1>7, <2>1, <2>4, AgreesLocally DEF ByeArrives, Set, TypeOK
  <1>8. ASSUME NEW c \in Users, Decline(c)
        PROVE  AgreeInv'
    <2>1. Agrees(c)'
      BY <1>8 DEF Decline, ForReal, Part, Set, HideCallUi, TypeOK, AgreeInv, Agrees
    <2>2. QED BY <1>8, <2>1, AgreesLocally DEF Decline, ForReal, Part, Set, HideCallUi, TypeOK
  <1>9. ASSUME NEW c \in Users, HangUp(c)
        PROVE  AgreeInv'
    <2>1. ~session'[c].inCall
      BY <1>9, StoppedType DEF HangUp, EndCall, Set, HideCallUi, TypeOK
    <2>2. Agrees(c)'
      BY <1>9, <2>1 DEF HangUp, ForReal, Set, TypeOK, Agrees
    <2>3. QED BY <1>9, <2>2, AgreesLocally DEF HangUp, EndCall, ForReal, Set, HideCallUi, TypeOK
  <1>10. ASSUME NEW c \in Users, PipelineError(c)
         PROVE  AgreeInv'
    BY <1>10, AbortAgrees DEF PipelineError
  <1>11. ASSUME NEW c \in Users, ChannelOpens(c)
         PROVE  AgreeInv'
    <2>1. /\ session'[c].inCall = session[c].inCall
          /\ session'[c].remote = session[c].remote
      BY <1>11 DEF ChannelOpens, Set, TypeOK, Sessions
    <2>2. Agrees(c)'
      BY <1>11, <2>1 DEF ChannelOpens, desk, AgreeInv, Agrees
    <2>3. QED BY <1>11, <2>2, AgreesLocally DEF ChannelOpens, desk, Set, TypeOK
  <1>12. ASSUME NEW c \in Users, CallDropped(c)
         PROVE  AgreeInv'
    <2>1. ~session'[c].inCall
      BY <1>12, StoppedType DEF CallDropped, EndCall, Set, HideCallUi, TypeOK
    <2>2. active[c] \in agreed[c]
      BY <1>12 DEF CallDropped, AgreeInv, Agrees
    <2>3. autoAccept'[c] \in {active[c], autoAccept[c]}
      BY <1>12 DEF CallDropped, Recover, Set, TypeOK
    <2>4. Agrees(c)'
      BY <1>12, <2>1, <2>2, <2>3 DEF CallDropped, AgreeInv, Agrees
    <2>5. QED BY <1>12, <2>4, AgreesLocally DEF CallDropped, EndCall, Recover, Set, HideCallUi, TypeOK
  <1>13. ASSUME NEW c \in Users, AutoAcceptExpires(c)
         PROVE  AgreeInv'
    <2>1. Agrees(c)'
      BY <1>13 DEF AutoAcceptExpires, Set, TypeOK, AgreeInv, Agrees
    <2>2. QED BY <1>13, <2>1, AgreesLocally DEF AutoAcceptExpires, Set, TypeOK
  <1>14. ASSUME NEW c \in Users, NEW q \in Users, ResumeFails(c, q)
         PROVE  AgreeInv'
    BY <1>14, AbortAgrees DEF ResumeFails, Set, TypeOK
  <1>e. ASSUME NEW c \in Users, PipelineEnds(c)
        PROVE  AgreeInv'
    <2>1. /\ session'[c].inCall = session[c].inCall
          /\ session'[c].remote = session[c].remote
      <3>1. session' = [session EXCEPT ![c] = [session[c] EXCEPT !.eos = TRUE]]
        BY <1>e DEF PipelineEnds, Set
      <3>2. session \in [Users -> Sessions]
        BY DEF TypeOK
      <3>3. session'[c] = [session[c] EXCEPT !.eos = TRUE]
        BY <3>1, <3>2
      <3>4. QED BY <3>2, <3>3 DEF Sessions
    <2>2. Agrees(c)'
      BY <1>e, <2>1 DEF PipelineEnds, AgreeInv, Agrees
    <2>3. QED BY <1>e, <2>2, AgreesLocally DEF PipelineEnds, Set, HideCallUi, TypeOK
  <1>15. CASE UNCHANGED vars
    BY <1>0, <1>15 DEF vars, desk
  <1>16. ASSUME NEW c \in Users,
                \/ User(c) \/ HandleSignal(c) \/ AutoAcceptExpires(c)
                \/ PipelineError(c) \/ PipelineEnds(c) \/ ChannelOpens(c) \/ IceFails(c)
         PROVE  AgreeInv'
    <2>1. ASSUME NEW q \in Users, StartCall(c, q)
          PROVE  AgreeInv'
      BY <2>1, <1>1 DEF StartCall
    <2>2. ASSUME NEW q \in Users, StartCallFails(c, q)
          PROVE  AgreeInv'
      BY <2>2, <1>2 DEF StartCallFails
    <2>3. CASE IceFails(c) \/ SendDescription(c) \/ HandleConnected(c) \/ FailureIgnored(c)
      BY <2>3, <1>0 DEF IceFails, SendDescription, HandleConnected, FailureIgnored, desk
    <2>4. QED
      BY <1>16, <1>e, <1>4, <1>5, <1>8, <1>9, <1>10, <1>11, <1>12, <1>13, <2>1, <2>2, <2>3
         DEF User, HandleSignal
  <1>17. ASSUME NEW c \in Users, NEW q \in Users,
                Receive(c, q) \/ RedialTimer(c, q) \/ LoseMessage(q, c)
         PROVE  AgreeInv'
    <2>1. CASE Redial(c, q)
      BY <2>1, <1>1 DEF Redial
    <2>2. CASE RedialFails(c, q)
      BY <2>2, <1>2 DEF RedialFails
    <2>3. CASE \/ RefreshRing(c, q) \/ DeclineBusy(c, q) \/ Ring(c, q)
               \/ RedialDropped(c, q) \/ LoseMessage(q, c)
      BY <2>3, <1>0 DEF RefreshRing, DeclineBusy, Ring, RedialDropped, LoseMessage, desk
    <2>4. QED
      BY <1>17, <1>3, <1>6, <1>7, <1>14, <2>1, <2>2, <2>3 DEF Receive, RedialTimer
  <1>18. QED BY <1>15, <1>16, <1>17 DEF Next

LEMMA CallInvariant == Spec => []CallInv
  <1>1. Init => CallInv
    BY CallTypeInit, AgreeInit DEF CallInv
  <1>2. CallInv /\ [Next]_vars => CallInv'
    BY CallTypeStep, AgreeStep DEF CallInv
  <1>3. QED BY <1>1, <1>2, PTL DEF Spec

\* The variables of the model always have their types.
THEOREM CallTypeCorrect == Spec => []TypeOK
  <1>1. CallInv => TypeOK
    BY DEF CallInv
  <1>2. QED BY <1>1, CallInvariant, PTL

\* Whatever is lost, fails or crosses, the camera and the microphone of a client
\* are on only for a peer it has called or accepted and not parted from since:
\* the silent accept of onIncomingOffer never takes a new call.
THEOREM SilentAcceptIsAgreed == Spec => []AnswersOnlyAgreed
  <1>1. CallInv => AnswersOnlyAgreed
    BY DEF CallInv, AgreeInv, Agrees, AnswersOnlyAgreed
  <1>2. QED BY <1>1, CallInvariant, PTL

----------------------------------------------------------------------------
(* Who is let in.                                                          *)

\* A timer that fires leaves no new one.
LEMMA Fired ==
  ASSUME TypeOK, NEW d \in Users, NEW p \in Users, timers[d][p] > 0,
         timers' = [timers EXCEPT ![d][p] = @ - 1],
         NEW c \in Users, NEW q \in Users, timers'[c][q] > 0
  PROVE  timers[c][q] > 0
  <1>1. CASE c = d /\ q = p
    BY <1>1
  <1>2. CASE ~(c = d /\ q = p)
    <2>1. timers'[c][q] = timers[c][q]
      BY <1>2 DEF TypeOK
    <2>2. QED BY <2>1
  <1>3. QED BY <1>1, <1>2

\* No other step than a click lets a peer in.  A late failure schedules a redial,
\* but only of the peer of a call that goes on, which was agreed to.
LEMMA OthersLetNobodyIn ==
  ASSUME TypeOK, AgreeInv, [Next]_vars, NEW c \in Users, NEW q \in Users,
         q \in PeersIn(c)', q \notin PeersIn(c)
  PROVE  StartCall(c, q) \/ (Accept(c) /\ pending[c].peer = q)
  <1> USE DEF PeersIn
  <1>0. ~(agreed'[c] \subseteq agreed[c] /\ (timers'[c][q] > 0 => timers[c][q] > 0))
    OBVIOUS
  <1>1. ASSUME NEW d \in Users, User(d)
        PROVE  StartCall(c, q) \/ (Accept(c) /\ pending[c].peer = q)
    <2>1. ASSUME NEW p \in Users, StartCall(d, p)
          PROVE  StartCall(c, q)
      <3>1. timers' = timers /\ agreed' = [agreed EXCEPT ![d] = agreed[d] \cup {p}]
        BY <2>1 DEF StartCall, Dial
      <3>2. d = c /\ p = q
        BY <3>1 DEF TypeOK
      <3>3. QED BY <2>1, <3>2
    <2>2. ASSUME NEW p \in Users, StartCallFails(d, p)
          PROVE  FALSE
      BY <1>0, <2>2 DEF StartCallFails, DialFails
    <2>3. CASE Accept(d)
      <3>1. timers' = timers /\ agreed' = [agreed EXCEPT ![d] = agreed[d] \cup {pending[d].peer}]
        BY <2>3 DEF Accept, Set
      <3>2. d = c /\ pending[d].peer = q
        BY <3>1 DEF TypeOK
      <3>3. QED BY <2>3, <3>2
    <2>4. CASE AcceptFails(d)
      BY <1>0, <2>4 DEF AcceptFails
    <2>5. CASE Decline(d)
      BY <1>0, <2>5 DEF Decline, Part, Set, HideCallUi, TypeOK
    <2>6. CASE HangUp(d)
      BY <1>0, <2>6 DEF HangUp, Set, TypeOK
    <2>7. QED BY <1>1, <2>1, <2>2, <2>3, <2>4, <2>5, <2>6 DEF User
  <1>2. ASSUME NEW d \in Users, NEW p \in Users, Redial(d, p)
        PROVE  FALSE
    <2>1. /\ timers[d][p] > 0 /\ timers' = [timers EXCEPT ![d][p] = @ - 1]
          /\ agreed' = [agreed EXCEPT ![d] = agreed[d] \cup {p}]
      BY <1>2 DEF Redial, Dial
    <2>2. agreed'[c] \subseteq PeersIn(c)
      BY <2>1 DEF TypeOK
    <2>3. timers'[c][q] > 0 => timers[c][q] > 0
      BY <2>1, Fired
    <2>4. QED BY <2>2, <2>3
  <1>3. ASSUME NEW d \in Users, CallDropped(d)
        PROVE  FALSE
    <2>1. /\ agreed' = agreed
          /\ \/ timers' = timers
             \/ timers' = [timers EXCEPT ![d][active[d]] = @ + 1]
      BY <1>3 DEF CallDropped, Recover
    <2>2. active[d] \in agreed[d]
      BY <1>3 DEF CallDropped, AgreeInv, Agrees
    <2>3. timers'[c][q] = timers[c][q] \/ (d = c /\ q = active[c])
      <3>1. timers \in [Users -> [Users -> Nat]]
        BY DEF TypeOK
      <3>2. CASE timers' = timers
        BY <3>2
      <3>3. CASE timers' = [timers EXCEPT ![d][active[d]] = @ + 1]
        <4>1. CASE c # d
          BY <3>1, <3>3, <4>1
        <4>2. CASE c = d /\ q # active[c]
          BY <3>1, <3>3, <4>2
        <4>3. QED BY <4>1, <4>2
      <3>4. QED BY <2>1, <3>2, <3>3
    <2>4. QED BY <2>1, <2>2, <2>3
  <1>4. ASSUME NEW d \in Users, NEW p \in Users,
               Receive(d, p) \/ RedialFails(d, p) \/ RedialDropped(d, p) \/ LoseMessage(p, d)
        PROVE  FALSE
    <2>1. CASE ByeArrives(d, p)
      BY <1>0, <2>1 DEF ByeArrives, Part, Set, TypeOK
    <2>2. CASE RedialFails(d, p) \/ RedialDropped(d, p)
      <3>1. /\ agreed' = agreed /\ timers[d][p] > 0
            /\ timers' = [timers EXCEPT ![d][p] = @ - 1]
        BY <2>2 DEF RedialFails, DialFails, RedialDropped
      <3>2. timers'[c][q] > 0 => timers[c][q] > 0
        BY <3>1, Fired
      <3>3. QED BY <1>0, <3>1, <3>2
    <2>3. QED
      BY <1>0, <1>4, <2>1, <2>2
         DEF Receive, RefreshRing, ResumeCall, ResumeFails, DeclineBusy, Ring, AnswerArrives,
             LoseMessage, desk
  <1>5. ASSUME NEW d \in Users,
               \/ SendDescription(d) \/ HandleConnected(d) \/ FailureIgnored(d)
               \/ AutoAcceptExpires(d) \/ PipelineError(d) \/ PipelineEnds(d)
               \/ ChannelOpens(d) \/ IceFails(d)
        PROVE  FALSE
    BY <1>0, <1>5 DEF SendDescription, HandleConnected, FailureIgnored, AutoAcceptExpires,
                      PipelineError, PipelineEnds, ChannelOpens, IceFails, desk
  <1>6. CASE UNCHANGED vars
    BY <1>0, <1>6 DEF vars, desk
  <1>7. QED BY <1>1, <1>2, <1>3, <1>4, <1>5, <1>6 DEF Next, HandleSignal, RedialTimer

\* Only a click lets a peer in (OnlyClicksAgree): neither a timer nor a message nor
\* a late failure adds to those a client redials or answers without ringing.
THEOREM OnlyClicksLetIn == Spec => OnlyClicksAgree
  <1>1. ASSUME CallInv, [Next]_vars
        PROVE  [\A c, q \in Users :
                  q \in PeersIn(c)' \ PeersIn(c) =>
                    StartCall(c, q) \/ (Accept(c) /\ pending[c].peer = q)]_vars
    BY <1>1, OthersLetNobodyIn DEF CallInv
  <1>2. QED BY <1>1, CallInvariant, PTL DEF Spec, OnlyClicksAgree
=============================================================================
