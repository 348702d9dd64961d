--------------------------- MODULE CallPairProofs ---------------------------
(***************************************************************************)
(* What holds of the calls of two clients, however often they call each    *)
(* other and whatever fails or is lost.  What is said of the messages holds *)
(* of any number of clients.                                               *)
(***************************************************************************)
EXTENDS CallLifecycleProofs, SequenceTheorems

\* There are two clients.
Pair == \A p, q, r \in Users : p # q /\ p # r => q = r

----------------------------------------------------------------------------
(* Nobody calls itself, and an offer carries the name of its maker.        *)

OwnMessages(c) == {m \in Messages : m.t = "offer" => m.sdp[1] = c}
OwnSignals(c) == {s \in Signals : s.t = "send" => s.to # c /\ s.msg \in OwnMessages(c)}
SentTo(c, q) == {m \in OwnMessages(c) : q # c}

WireInv == \A c, q \in Users : wire[<<c, q>>] \in Seq(SentTo(c, q))

Desk(c) ==
  /\ active[c] # c /\ autoAccept[c] # c /\ timers[c][c] = 0 /\ session[c].remote # c
  /\ pending[c] # NoRing => pending[c].peer # c /\ pending[c].sdp[1] = pending[c].peer
  /\ signals[c] \in Seq(OwnSignals(c))
DeskInv == \A c \in Users : Desk(c)

LEMMA OwnTypes ==
  ASSUME NEW c \in Users, NEW q \in Users, q # c
  PROVE  /\ \A o \in Offers : Answer(o) \in OwnMessages(c)
         /\ \A o \in Offers : o[1] = c => Offer(o) \in OwnMessages(c)
         /\ Bye \in SentTo(c, q)
         /\ \A m \in OwnMessages(c) : To(q, m) \in OwnSignals(c)
         /\ Failed \in OwnSignals(c) /\ Connected \in OwnSignals(c)
  BY DEF OwnMessages, OwnSignals, SentTo, Messages, Signals, Offer, Answer, Bye, To, Failed,
         Connected

\* What is in flight carries the name of its sender.
SoundWire(w) == w \in Wires /\ \A c, q \in Users : w[<<c, q>>] \in Seq(SentTo(c, q))

LEMMA WireIsSound == TypeOK => (WireInv <=> SoundWire(wire))
  BY WireType DEF WireInv, SoundWire

LEMMA SoundAfter ==
  ASSUME NEW w, SoundWire(w), wire' = w
  PROVE  WireInv'
  BY DEF SoundWire, WireInv

LEMMA WithByeKeeps ==
  ASSUME NEW w, SoundWire(w), NEW c \in Users, NEW q \in Users \cup {None}, q # c
  PROVE  SoundWire(WithBye(w, c, q))
  <1>1. CASE q = None
    BY <1>1 DEF WithBye
  <1>2. CASE q # None
    <2>1. w[<<c, q>>] \in Seq(SentTo(c, q)) /\ Bye \in SentTo(c, q)
      BY <1>2, OwnTypes DEF SoundWire
    <2>2. Append(w[<<c, q>>], Bye) \in Seq(SentTo(c, q))
      BY <2>1
    <2>3. WithBye(w, c, q) \in Wires
      BY WithByeType DEF SoundWire
    <2>4. QED BY <1>2, <2>2, <2>3 DEF WithBye, SoundWire, Wires
  <1>3. QED BY <1>1, <1>2

LEMMA SendKeeps ==
  ASSUME TypeOK, WireInv, NEW c \in Users, NEW q \in Users, NEW m \in SentTo(c, q), Send(c, q, m)
  PROVE  WireInv'
  <1>1. wire[<<c, q>>] \in Seq(SentTo(c, q))
    BY DEF WireInv
  <1>2. Append(wire[<<c, q>>], m) \in Seq(SentTo(c, q))
    BY <1>1
  <1>3. QED BY <1>2 DEF Send, TypeOK, WireInv

LEMMA TakeKeeps ==
  ASSUME TypeOK, WireInv, NEW c \in Users, NEW q \in Users, wire[<<q, c>>] # << >>
  PROVE  /\ SoundWire(Taken(q, c)) /\ (Take(q, c) => WireInv')
         /\ Incoming(q, c) \in OwnMessages(q) /\ q # c
  <1>1. wire[<<q, c>>] \in Seq(SentTo(q, c))
    BY DEF WireInv
  <1>2. Tail(wire[<<q, c>>]) \in Seq(SentTo(q, c)) /\ Head(wire[<<q, c>>]) \in SentTo(q, c)
    BY <1>1
  <1>3. Taken(q, c) \in Wires
    BY TakeType
  <1>4. SoundWire(Taken(q, c))
    BY <1>2, <1>3 DEF Taken, TypeOK, WireInv, SoundWire
  <1>5. QED BY <1>2, <1>4, SoundAfter DEF Take, Incoming, SentTo

LEMMA EmitKeeps ==
  ASSUME TypeOK, NEW c \in Users, Desk(c), NEW s \in OwnSignals(c),
         signals' = [signals EXCEPT ![c] = Append(signals[c], s)]
  PROVE  signals'[c] \in Seq(OwnSignals(c))
  <1>1. Append(signals[c], s) \in Seq(OwnSignals(c))
    BY DEF Desk
  <1>2. QED BY <1>1 DEF TypeOK

LEMMA HandleKeeps ==
  ASSUME TypeOK, NEW c \in Users, Desk(c), NEW kind, Handle(c, kind)
  PROVE  signals'[c] \in Seq(OwnSignals(c)) /\ Head(signals[c]) \in OwnSignals(c)
  <1>1. signals[c] \in Seq(OwnSignals(c)) /\ signals[c] # << >>
    BY DEF Desk, Handle
  <1>2. Tail(signals[c]) \in Seq(OwnSignals(c)) /\ Head(signals[c]) \in OwnSignals(c)
    BY <1>1
  <1>3. QED BY <1>2 DEF Handle, Set, TypeOK

LEMMA DialKeeps ==
  ASSUME TypeOK, NEW c \in Users, Desk(c), NEW q \in Users, q # c, Dial(c, q)
  PROVE  signals'[c] \in Seq(OwnSignals(c)) /\ session'[c].remote = q /\ active'[c] = q
  <1> PICK s \in Prepared(session[c]) :
        /\ Set(session, c, Calling(s, q))
        /\ IF s.inCall
             THEN UNCHANGED <<dialled, signals>>
             ELSE /\ dialled' = [dialled EXCEPT ![c] = @ + 1]
                  /\ signals' = [signals EXCEPT ![c] =
                                   Append(@, To(q, Offer(<<c, dialled[c] + 1>>)))]
    BY DEF Dial
  <1>1. session'[c].remote = q /\ active'[c] = q
    <2>1. session'[c] = Calling(s, q) /\ s \in Sessions
      BY PreparedType DEF Set, TypeOK
    <2>2. QED BY <2>1 DEF Dial, Set, Calling, TypeOK, Sessions
  <1>2. CASE s.inCall
    <2>1. signals' = signals
      BY <1>2
    <2>2. QED BY <1>1, <2>1 DEF Desk
  <1>3. CASE ~s.inCall
    <2> DEFINE o == <<c, dialled[c] + 1>>
    <2>1. o \in Offers /\ o[1] = c
      BY DEF TypeOK, Offers
    <2>2. To(q, Offer(o)) \in OwnSignals(c)
      BY <2>1, OwnTypes
    <2>3. signals' = [signals EXCEPT ![c] = Append(signals[c], To(q, Offer(o)))]
      BY <1>3
    <2>4. QED BY <1>1, <2>2, <2>3, EmitKeeps
  <1>4. QED BY <1>1, <1>2, <1>3

LEMMA DeskInit == Init => WireInv /\ DeskInv
  <1>1. \A S : << >> \in Seq(S)
    OBVIOUS
  <1>2. QED BY <1>1, NoneIsNoUser DEF Init, WireInv, DeskInv, Desk, Idle

\* What a client's step does to the desks of the others: nothing.
LEMMA DeskLocally ==
  ASSUME DeskInv, NEW c \in Users, Desk(c)',
         \A d \in Users \ {c} :
           /\ active'[d] = active[d] /\ autoAccept'[d] = autoAccept[d] /\ timers'[d] = timers[d]
           /\ session'[d] = session[d] /\ pending'[d] = pending[d] /\ signals'[d] = signals[d]
  PROVE  DeskInv'
  BY DEF DeskInv, Desk

LEMMA WireStep ==
  ASSUME TypeOK, AgreeInv, WireInv, DeskInv, [Next]_vars
  PROVE  WireInv'
  <1>0. CASE UNCHANGED wire
    BY <1>0 DEF WireInv
  <1>1. ASSUME NEW c \in Users, NEW q \in Users, wire[<<q, c>>] # << >>, Take(q, c)
        PROVE  WireInv'
    BY <1>1, TakeKeeps
  <1>r. \A c \in Users : session[c].remote \in Users \cup {None} /\ session[c].remote # c
    BY DEF TypeOK, Sessions, DeskInv, Desk
  <1>2. ASSUME NEW c \in Users, NEW w, SoundWire(w), NEW q \in Users \cup {None}, q # c,
               wire' = WithBye(w, c, q)
        PROVE  WireInv'
    BY <1>2, WithByeKeeps, SoundAfter
  <1>a. ASSUME NEW c \in Users, NEW w, SoundWire(w), Abort(c, w)
        PROVE  WireInv'
    BY <1>a, <1>2, <1>r DEF Abort
  <1>3. ASSUME NEW c \in Users, NEW q \in Users, DeclineBusy(c, q)
        PROVE  WireInv'
    <2>1. q # c /\ SoundWire(Taken(q, c)) /\ wire' = WithBye(Taken(q, c), c, q)
      BY <1>3, TakeKeeps DEF DeclineBusy, OfferArrives
    <2>2. QED BY <2>1, <1>2
  <1>4. ASSUME NEW c \in Users, SendDescription(c)
        PROVE  WireInv'
    <2>1. Head(signals[c]) \in OwnSignals(c) /\ Head(signals[c]).t = "send"
      BY <1>4, HandleKeeps DEF SendDescription, Handle, DeskInv
    <2>2. /\ Head(signals[c]).to \in Users
          /\ Head(signals[c]).msg \in SentTo(c, Head(signals[c]).to)
      BY <2>1, MessageTypes DEF OwnSignals, SentTo
    <2>3. QED BY <1>4, <2>2, SendKeeps DEF SendDescription
  <1>5. ASSUME NEW c \in Users, Decline(c)
        PROVE  WireInv'
    <2>1. pending[c].peer \in Users /\ pending[c].peer # c
      BY <1>5 DEF Decline, TypeOK, DeskInv, Desk
    <2>2. QED BY <1>2, <1>5, <2>1, WireIsSound DEF Decline
  <1>6. ASSUME NEW c \in Users, HangUp(c)
        PROVE  WireInv'
    <2>1. ByePeer(c) \in Users \cup {None} /\ ByePeer(c) # c
      BY DEF ByePeer, DeskInv, Desk, TypeOK, Sessions
    <2>2. QED BY <1>2, <1>6, <2>1, WireIsSound DEF HangUp
  <1>7. ASSUME NEW c \in Users, NEW q \in Users,
               \/ PipelineError(c) \/ AcceptFails(c)
               \/ StartCallFails(c, q) \/ RedialFails(c, q)
        PROVE  WireInv'
    <2>1. Abort(c, wire)
      BY <1>7 DEF PipelineError, AcceptFails, StartCallFails, RedialFails, DialFails, StartFails
    <2>2. QED BY <1>a, <2>1, WireIsSound
  <1>b. ASSUME NEW c \in Users, NEW q \in Users, ResumeFails(c, q)
         PROVE  WireInv'
    <2>1. SoundWire(Taken(q, c)) /\ Abort(c, Taken(q, c))
      BY <1>b, TakeKeeps DEF ResumeFails, OfferArrives
    <2>2. QED BY <1>a, <2>1
  <1>8. ASSUME NEW c \in Users, NEW q \in Users, Receive(c, q) \/ LoseMessage(q, c)
        PROVE  WireInv'
    BY <1>1, <1>3, <1>8, <1>b
       DEF Receive, RefreshRing, ResumeCall, Ring, AnswerArrives, ByeArrives,
           LoseMessage, OfferArrives
  <1>9. ASSUME NEW c \in Users, NEW q \in Users,
               StartCall(c, q) \/ Redial(c, q) \/ RedialDropped(c, q)
        PROVE  WireInv'
    BY <1>0, <1>9 DEF StartCall, Redial, RedialDropped
  <1>10. ASSUME NEW c \in Users,
                \/ Accept(c) \/ AutoAcceptExpires(c) \/ PipelineEnds(c) \/ ChannelOpens(c)
                \/ IceFails(c) \/ HandleConnected(c) \/ FailureIgnored(c) \/ CallDropped(c)
         PROVE  WireInv'
    BY <1>0, <1>10 DEF Accept, AutoAcceptExpires, PipelineEnds, ChannelOpens, IceFails,
                       HandleConnected, FailureIgnored, CallDropped
  <1>11. CASE UNCHANGED vars
    BY <1>0, <1>11 DEF vars
  <1>12. QED
    BY <1>4, <1>5, <1>6, <1>7, <1>8, <1>9, <1>10, <1>11
       DEF Next, User, HandleSignal, RedialTimer

LEMMA StoppedKeeps ==
  ASSUME TypeOK, NEW c \in Users
  PROVE  Stopped(session[c]).remote = session[c].remote
  BY DEF Stopped, TypeOK, Sessions

\* One client receives.
LEMMA DeskReceive ==
  ASSUME TypeOK, AgreeInv, WireInv, DeskInv, NEW c \in Users, NEW q \in Users, Receive(c, q)
  PROVE  DeskInv'
  <1> USE DEF Desk
  <1>d. Desk(c)
    BY DEF DeskInv
  <1>w. wire[<<q, c>>] # << >> => q # c /\ Incoming(q, c) \in OwnMessages(q)
    BY TakeKeeps
  <1>o. OfferArrives(c, q) =>
          q # c /\ Incoming(q, c).sdp \in Offers /\ Incoming(q, c).sdp[1] = q
    BY <1>w, MessageTypes DEF OfferArrives, OwnMessages
  <1>1. CASE RefreshRing(c, q) \/ Ring(c, q)
    <2>1. /\ pending' = [pending EXCEPT ![c] = [peer |-> q, sdp |-> Incoming(q, c).sdp]]
          /\ UNCHANGED <<active, autoAccept, timers, session, signals>> /\ OfferArrives(c, q)
      BY <1>1 DEF RefreshRing, Ring, Set
    <2>2. Desk(c)'
      BY <1>d, <1>o, <2>1 DEF TypeOK
    <2>3. QED BY <2>1, <2>2, DeskLocally DEF TypeOK
  <1>2. CASE ResumeCall(c, q)
    <2> DEFINE o == Incoming(q, c).sdp
    <2>1. OfferArrives(c, q) /\ q # c /\ o \in Offers
      BY <1>2, <1>o DEF ResumeCall
    <2>s. PICK s \in {Stopped(session[c])} \cup Prepared(session[c]) :
            Set(session, c, Answering(s, q, o))
      BY <1>2 DEF ResumeCall
    <2>2. /\ session' = [session EXCEPT ![c] = Answering(s, q, o)]
          /\ signals' = [signals EXCEPT ![c] = Append(signals[c], To(q, Answer(o)))]
          /\ pending' = [pending EXCEPT ![c] = NoRing] /\ active' = [active EXCEPT ![c] = q]
          /\ autoAccept' = [autoAccept EXCEPT ![c] = None] /\ timers' = timers
      BY <1>2, <2>s DEF ResumeCall, Set, ShowCallUi
    <2>3. session'[c].remote = q
      <3>1. s \in Sessions
        BY StoppedType, PreparedType
      <3>2. session'[c] = Answering(s, q, o)
        BY <2>2 DEF TypeOK
      <3> HIDE DEF o
      <3>3. QED BY <3>1, <3>2 DEF Answering, Sessions
    <2>4. To(q, Answer(o)) \in OwnSignals(c)
      BY <2>1, OwnTypes
    <2>5. signals'[c] \in Seq(OwnSignals(c))
      BY <1>d, <2>2, <2>4, EmitKeeps
    <2>6. Desk(c)'
      BY <1>d, <2>1, <2>2, <2>3, <2>5, NoneIsNoUser DEF TypeOK
    <2>7. QED BY <2>2, <2>6, DeskLocally DEF TypeOK
  <1>3. CASE ResumeFails(c, q)
    <2>1. /\ session' = [session EXCEPT ![c] = Stopped(session[c])]
          /\ pending' = [pending EXCEPT ![c] = NoRing] /\ active' = [active EXCEPT ![c] = q]
          /\ autoAccept' = [autoAccept EXCEPT ![c] = None] /\ UNCHANGED <<timers, signals>>
          /\ OfferArrives(c, q)
      BY <1>3 DEF ResumeFails, Abort, EndCall, Set, HideCallUi
    <2>2. session'[c].remote = session[c].remote
      BY <2>1, StoppedKeeps DEF TypeOK
    <2>3. Desk(c)'
      BY <1>d, <1>o, <2>1, <2>2, NoneIsNoUser DEF TypeOK
    <2>4. QED BY <2>1, <2>3, DeskLocally DEF TypeOK
  <1>4. CASE AnswerArrives(c, q)
    <2>1. /\ session' = [session EXCEPT ![c] =
                           Answered(session[c], Incoming(q, c).sdp, <<c, dialled[c]>>)]
          /\ UNCHANGED <<pending, active, autoAccept, timers, signals>>
      BY <1>4 DEF AnswerArrives, Set, desk
    <2>2. session'[c].remote = session[c].remote
      BY <2>1 DEF TypeOK, Answered, Sessions
    <2>3. Desk(c)'
      BY <1>d, <2>1, <2>2
    <2>4. QED BY <2>1, <2>3, DeskLocally DEF TypeOK
  <1>5. CASE ByeArrives(c, q)
    <2>1. /\ \E s \in {session[c], Stopped(session[c])} : session' = [session EXCEPT ![c] = s]
          /\ \E r \in {pending[c], NoRing} : pending' = [pending EXCEPT ![c] = r]
          /\ \E x \in {active[c], None} : active' = [active EXCEPT ![c] = x]
          /\ \E y \in {autoAccept[c], None} : autoAccept' = [autoAccept EXCEPT ![c] = y]
          /\ UNCHANGED <<timers, signals>>
      BY <1>5 DEF ByeArrives, Set
    <2>2. session'[c].remote = session[c].remote
      BY <2>1, StoppedKeeps DEF TypeOK
    <2>3. pending'[c] \in {pending[c], NoRing}
      BY <2>1 DEF TypeOK
    <2>4. active'[c] \in {active[c], None} /\ autoAccept'[c] \in {autoAccept[c], None}
      BY <2>1 DEF TypeOK
    <2>5. Desk(c)'
      BY <1>d, <2>1, <2>2, <2>3, <2>4, NoneIsNoUser
    <2>6. \A d \in Users \ {c} :
            /\ active'[d] = active[d] /\ autoAccept'[d] = autoAccept[d]
            /\ session'[d] = session[d] /\ pending'[d] = pending[d]
      BY <2>1 DEF TypeOK
    <2>7. QED BY <2>1, <2>5, <2>6, DeskLocally
  <1>6. CASE DeclineBusy(c, q)
    BY <1>6 DEF DeclineBusy, DeskInv, desk
  <1>7. QED BY <1>1, <1>2, <1>3, <1>4, <1>5, <1>6 DEF Receive

LEMMA DeskStep ==
  ASSUME TypeOK, AgreeInv, WireInv, DeskInv, [Next]_vars
  PROVE  DeskInv'
  <1> USE DEF Desk
  <1>0. CASE UNCHANGED <<pending, active, autoAccept, timers, session, signals>>
    BY <1>0 DEF DeskInv
  <1>d. \A c \in Users : Desk(c)
    BY DEF DeskInv
  <1>1. ASSUME NEW c \in Users, NEW q \in Users, q # c, Dial(c, q), timers'[c][c] = 0,
               \A d \in Users \ {c} : timers'[d] = timers[d], UNCHANGED <<pending, autoAccept>>
        PROVE  DeskInv'
    <2>1. signals'[c] \in Seq(OwnSignals(c)) /\ session'[c].remote = q /\ active'[c] = q
      BY <1>1, <1>d, DialKeeps
    <2>2. Desk(c)'
      BY <1>1, <1>d, <2>1
    <2>3. \A d \in Users \ {c} :
            active'[d] = active[d] /\ session'[d] = session[d] /\ signals'[d] = signals[d]
      BY <1>1 DEF Dial, Set, TypeOK
    <2>4. QED BY <1>1, <2>2, <2>3, DeskLocally
  <1>2. ASSUME NEW c \in Users, NEW q \in Users, q # c, DialFails(c, q),
               timers'[c][c] = 0, \A d \in Users \ {c} : timers'[d] = timers[d]
        PROVE  DeskInv'
    <2>1. /\ active' = [active EXCEPT ![c] = q]
          /\ session' = [session EXCEPT ![c] = Stopped(session[c])]
          /\ UNCHANGED <<pending, autoAccept, signals>>
      BY <1>2 DEF DialFails, StartFails, Abort, EndCall, Set, HideCallUi
    <2>2. Desk(c)'
      BY <1>2, <1>d, <2>1, StoppedKeeps DEF TypeOK
    <2>3. QED BY <1>2, <2>1, <2>2, DeskLocally DEF TypeOK
  <1>3. ASSUME NEW c \in Users, NEW q \in Users, StartCall(c, q) \/ StartCallFails(c, q)
        PROVE  DeskInv'
    <2>1. q # c
      BY <1>3, CallAssumption DEF StartCall, StartCallFails
    <2>2. timers'[c][c] = 0 /\ \A d \in Users \ {c} : timers'[d] = timers[d]
      BY <1>3, <1>d DEF StartCall, StartCallFails
    <2>3. QED BY <1>1, <1>2, <1>3, <2>1, <2>2 DEF StartCall, StartCallFails, DialFails
  <1>4. ASSUME NEW c \in Users, NEW q \in Users, RedialTimer(c, q)
        PROVE  DeskInv'
    <2>1. timers' = [timers EXCEPT ![c][q] = @ - 1] /\ timers[c][q] > 0
      BY <1>4 DEF RedialTimer, Redial, RedialFails, RedialDropped
    <2>2. q # c /\ timers'[c][c] = 0 /\ \A d \in Users \ {c} : timers'[d] = timers[d]
      BY <1>d, <2>1 DEF TypeOK
    <2>3. CASE Redial(c, q) \/ RedialFails(c, q)
      BY <1>1, <1>2, <2>2, <2>3 DEF Redial, RedialFails
    <2>4. CASE RedialDropped(c, q)
      <3>1. UNCHANGED <<pending, active, autoAccept, session, signals>>
        BY <2>4 DEF RedialDropped
      <3>2. Desk(c)'
        BY <1>d, <2>2, <3>1
      <3>3. QED BY <2>2, <3>1, <3>2, DeskLocally
    <2>5. QED BY <1>4, <2>3, <2>4 DEF RedialTimer
  <1>5. ASSUME NEW c \in Users, Accept(c)
        PROVE  DeskInv'
    <2> DEFINE q == pending[c].peer
               o == pending[c].sdp
    <2>1. q \in Users /\ o \in Offers /\ q # c
      BY <1>5, <1>d DEF Accept, TypeOK
    <2>s. PICK s \in Prepared(session[c]) : Set(session, c, Answering(s, q, o))
      BY <1>5 DEF Accept
    <2>2. /\ session' = [session EXCEPT ![c] = Answering(s, q, o)]
          /\ signals' = [signals EXCEPT ![c] = Append(signals[c], To(q, Answer(o)))]
          /\ pending' = [pending EXCEPT ![c] = NoRing] /\ active' = [active EXCEPT ![c] = q]
          /\ UNCHANGED <<autoAccept, timers>>
      BY <1>5, <2>s DEF Accept, Set
    <2>3. session'[c].remote = q
      BY <2>2, PreparedType DEF TypeOK, Answering, Sessions
    <2>4. To(q, Answer(o)) \in OwnSignals(c)
      BY <2>1, OwnTypes
    <2>5. signals'[c] \in Seq(OwnSignals(c))
      BY <1>d, <2>2, <2>4, EmitKeeps
    <2>6. Desk(c)'
      BY <1>d, <2>1, <2>2, <2>3, <2>5 DEF TypeOK
    <2>7. QED BY <2>2, <2>6, DeskLocally DEF TypeOK
  <1>6. ASSUME NEW c \in Users, AcceptFails(c)
        PROVE  DeskInv'
    <2>1. /\ pending' = [pending EXCEPT ![c] = NoRing]
          /\ active' = [active EXCEPT ![c] = pending[c].peer] /\ pending[c] # NoRing
          /\ session' = [session EXCEPT ![c] = Stopped(session[c])]
          /\ UNCHANGED <<autoAccept, timers, signals>>
      BY <1>6 DEF AcceptFails, StartFails, Abort, EndCall, Set, HideCallUi
    <2>2. Desk(c)'
      BY <1>d, <2>1, StoppedKeeps DEF TypeOK
    <2>3. QED BY <2>1, <2>2, DeskLocally DEF TypeOK
  \* A step that stops the session or leaves it, and forgets what it changes.
  <1>7. ASSUME NEW c \in Users,
               \E s \in {session[c], Stopped(session[c])} : session' = [session EXCEPT ![c] = s],
               \E r \in {pending[c], NoRing} : pending' = [pending EXCEPT ![c] = r],
               \E x \in {active[c], None} : active' = [active EXCEPT ![c] = x],
               \E y \in {autoAccept[c], active[c], None} :
                 autoAccept' = [autoAccept EXCEPT ![c] = y],
               timers'[c][c] = 0, \A d \in Users \ {c} : timers'[d] = timers[d],
               signals'[c] \in Seq(OwnSignals(c)),
               \A d \in Users \ {c} : signals'[d] = signals[d]
        PROVE  DeskInv'
    <2>1. session'[c].remote = session[c].remote
      <3>1. PICK s \in {session[c], Stopped(session[c])} : session' = [session EXCEPT ![c] = s]
        BY <1>7
      <3>2. session'[c] = s
        BY <3>1 DEF TypeOK
      <3>3. QED BY <3>1, <3>2, StoppedKeeps
    <2>2. pending'[c] \in {pending[c], NoRing}
      BY <1>7 DEF TypeOK
    <2>3. active'[c] \in {active[c], None} /\ autoAccept'[c] \in {autoAccept[c], active[c], None}
      BY <1>7 DEF TypeOK
    <2>5. Desk(c)'
      BY <1>7, <1>d, <2>1, <2>2, <2>3, NoneIsNoUser
    <2>6. \A d \in Users \ {c} :
            /\ active'[d] = active[d] /\ autoAccept'[d] = autoAccept[d] /\ timers'[d] = timers[d]
            /\ session'[d] = session[d] /\ pending'[d] = pending[d]
      BY <1>7 DEF TypeOK
    <2>7. QED BY <1>7, <2>5, <2>6, DeskLocally
  <1>8. ASSUME NEW c \in Users, Decline(c) \/ HangUp(c) \/ PipelineError(c) \/ AutoAcceptExpires(c)
        PROVE  DeskInv'
    <2>1. /\ UNCHANGED <<timers, signals>>
          /\ \E s \in {session[c], Stopped(session[c])} : session' = [session EXCEPT ![c] = s]
          /\ \E r \in {pending[c], NoRing} : pending' = [pending EXCEPT ![c] = r]
          /\ \E x \in {active[c], None} : active' = [active EXCEPT ![c] = x]
          /\ \E y \in {autoAccept[c], None} : autoAccept' = [autoAccept EXCEPT ![c] = y]
      <3>1. /\ session = [session EXCEPT ![c] = session[c]]
            /\ pending = [pending EXCEPT ![c] = pending[c]]
            /\ active = [active EXCEPT ![c] = active[c]]
            /\ autoAccept = [autoAccept EXCEPT ![c] = autoAccept[c]]
        BY DEF TypeOK
      <3>2. CASE Decline(c)
        BY <3>1, <3>2 DEF Decline, ForReal, Set, HideCallUi
      <3>3. CASE HangUp(c)
        BY <3>1, <3>3 DEF HangUp, EndCall, ForReal, Set, HideCallUi
      <3>4. CASE PipelineError(c)
        BY <3>1, <3>4 DEF PipelineError, Abort, EndCall, Set, HideCallUi
      <3>5. CASE AutoAcceptExpires(c)
        BY <3>1, <3>5 DEF AutoAcceptExpires, Set
      <3>6. QED BY <1>8, <3>2, <3>3, <3>4, <3>5
    <2>2. timers'[c][c] = 0 /\ \A d \in Users \ {c} : timers'[d] = timers[d]
      BY <1>d, <2>1
    <2>3. signals'[c] \in Seq(OwnSignals(c)) /\ \A d \in Users \ {c} : signals'[d] = signals[d]
      BY <1>d, <2>1
    <2>4. QED BY <1>7, <2>1, <2>2, <2>3
  <1>9. ASSUME NEW c \in Users, CallDropped(c)
        PROVE  DeskInv'
    <2>1. signals'[c] \in Seq(OwnSignals(c)) /\ \A d \in Users \ {c} : signals'[d] = signals[d]
      BY <1>9, <1>d, HandleKeeps DEF CallDropped, Handle, Set, TypeOK
    <2>2. /\ session' = [session EXCEPT ![c] = Stopped(session[c])] /\ pending' = pending
          /\ active' = [active EXCEPT ![c] = None]
          /\ \E y \in {autoAccept[c], active[c]} : autoAccept' = [autoAccept EXCEPT ![c] = y]
          /\ timers' = timers \/ timers' = [timers EXCEPT ![c][active[c]] = @ + 1]
      BY <1>9 DEF CallDropped, EndCall, Recover, Set, HideCallUi
    <2>3. pending' = [pending EXCEPT ![c] = pending[c]]
      BY <2>2 DEF TypeOK
    <2>4. timers'[c][c] = 0 /\ \A d \in Users \ {c} : timers'[d] = timers[d]
      BY <1>d, <2>2 DEF TypeOK
    <2>5. QED BY <1>7, <2>1, <2>2, <2>3, <2>4
  <1>10. ASSUME NEW c \in Users, ChannelOpens(c) \/ IceFails(c)
         PROVE  DeskInv'
    <2>1. /\ session'[c].remote = session[c].remote
          /\ \A d \in Users \ {c} : session'[d] = session[d]
          /\ UNCHANGED <<pending, active, autoAccept, timers>>
          /\ \E s \in {Failed, Connected} :
               signals' = [signals EXCEPT ![c] = Append(signals[c], s)]
      BY <1>10 DEF ChannelOpens, IceFails, Emit, Set, desk, TypeOK, Sessions
    <2>2. Failed \in OwnSignals(c) /\ Connected \in OwnSignals(c)
      BY MessageTypes DEF OwnSignals, Failed, Connected
    <2>3. signals'[c] \in Seq(OwnSignals(c))
      BY <1>d, <2>1, <2>2, EmitKeeps
    <2>4. Desk(c)'
      BY <1>d, <2>1, <2>3
    <2>5. QED BY <2>1, <2>4, DeskLocally DEF TypeOK
  <1>e. ASSUME NEW c \in Users, PipelineEnds(c)
        PROVE  DeskInv'
    <2>1. /\ session'[c].remote = session[c].remote
          /\ \A d \in Users \ {c} : session'[d] = session[d]
          /\ UNCHANGED <<pending, active, autoAccept, timers, signals>>
      BY <1>e DEF PipelineEnds, Set, HideCallUi, TypeOK, Sessions
    <2>2. Desk(c)'
      BY <1>d, <2>1
    <2>3. QED BY <2>1, <2>2, DeskLocally
  <1>11. ASSUME NEW c \in Users, SendDescription(c) \/ HandleConnected(c) \/ FailureIgnored(c)
         PROVE  DeskInv'
    <2>1. /\ UNCHANGED <<pending, active, autoAccept, timers, session>>
          /\ \E kind : Handle(c, kind)
      BY <1>11 DEF SendDescription, HandleConnected, FailureIgnored, desk
    <2>2. signals'[c] \in Seq(OwnSignals(c)) /\ \A d \in Users \ {c} : signals'[d] = signals[d]
      BY <1>d, <2>1, HandleKeeps DEF Handle, Set, TypeOK
    <2>3. Desk(c)'
      BY <1>d, <2>1, <2>2
    <2>4. QED BY <2>1, <2>2, <2>3, DeskLocally
  <1>12. ASSUME NEW c \in Users, NEW q \in Users, LoseMessage(q, c)
         PROVE  DeskInv'
    BY <1>0, <1>12 DEF LoseMessage, desk
  <1>13. CASE UNCHANGED vars
    BY <1>0, <1>13 DEF vars, desk
  <1>14. QED
    BY <1>3, <1>4, <1>5, <1>6, <1>8, <1>9, <1>10, <1>e, <1>11, <1>12, <1>13, DeskReceive
       DEF Next, User, HandleSignal

----------------------------------------------------------------------------
(* The screen.                                                             *)

Shown(c) ==
  /\ session[c].inCall /\ ~session[c].eos => screen[c] = "active"
  /\ pending[c] # NoRing => screen[c] = "incoming" /\ ~session[c].inCall
ShownInv == \A c \in Users : Shown(c)

LEMMA ShownLocally ==
  ASSUME ShownInv, NEW c \in Users, Shown(c)',
         \A d \in Users \ {c} :
           session'[d] = session[d] /\ screen'[d] = screen[d] /\ pending'[d] = pending[d]
  PROVE  ShownInv'
  BY DEF ShownInv, Shown

\* The only peer there is rings, or nobody does.
LEMMA PeerRings ==
  ASSUME Pair, TypeOK, DeskInv, NEW c \in Users, NEW q \in Users, q # c
  PROVE  pending[c] # NoRing <=> pending[c].peer = q
  <1>1. pending[c] = NoRing \/ (pending[c].peer \in Users /\ pending[c].peer # c)
    BY DEF TypeOK, DeskInv, Desk
  <1>2. pending[c] = NoRing => pending[c].peer # q
    BY NoneIsNoUser DEF NoRing
  <1>3. QED BY <1>1, <1>2 DEF Pair

LEMMA ShownStep ==
  ASSUME Pair, TypeOK, AgreeInv, WireInv, DeskInv, ShownInv, [Next]_vars
  PROVE  ShownInv'
  <1> USE DEF Shown
  <1>s. \A c \in Users : Shown(c)
    BY DEF ShownInv
  <1>0. CASE UNCHANGED <<pending, screen, session>>
    BY <1>0 DEF ShownInv
  \* A call begins: the window is up, and nobody rings.
  <1>1. ASSUME NEW c \in Users, pending'[c] = NoRing, screen'[c] = "active",
               \A d \in Users \ {c} :
                 session'[d] = session[d] /\ screen'[d] = screen[d] /\ pending'[d] = pending[d]
        PROVE  ShownInv'
    BY <1>1, ShownLocally
  \* There is no call, and nobody rings.
  <1>2. ASSUME NEW c \in Users, pending'[c] = NoRing, ~session'[c].inCall,
               \A d \in Users \ {c} :
                 session'[d] = session[d] /\ screen'[d] = screen[d] /\ pending'[d] = pending[d]
        PROVE  ShownInv'
    BY <1>2, ShownLocally
  <1>3. ASSUME NEW c \in Users, NEW q \in Users, StartCall(c, q) \/ Redial(c, q)
        PROVE  ShownInv'
    <2>1. pending[c] = NoRing
      BY <1>3, <1>s DEF StartCall, CallButtons, Redial
    <2>2. QED BY <1>1, <1>3, <2>1 DEF StartCall, Redial, Dial, Set, ShowCallUi, TypeOK
  <1>4. ASSUME NEW c \in Users, NEW q \in Users, Receive(c, q)
        PROVE  ShownInv'
    <2>0. wire[<<q, c>>] # << >>
      BY <1>4 DEF Receive, RefreshRing, ResumeCall, ResumeFails, DeclineBusy, Ring,
                  AnswerArrives, ByeArrives, OfferArrives
    <2>1. pending[c] # NoRing <=> pending[c].peer = q
      BY <2>0, TakeKeeps, PeerRings
    <2>2. CASE RefreshRing(c, q)
      <3>1. screen'[c] = "incoming" /\ ~session'[c].inCall
        BY <1>s, <2>1, <2>2 DEF RefreshRing
      <3>2. QED BY <2>2, <3>1, ShownLocally DEF RefreshRing, Set, TypeOK
    <2>3. CASE ResumeCall(c, q)
      BY <1>1, <2>3 DEF ResumeCall, Set, ShowCallUi, TypeOK
    <2>4. CASE ResumeFails(c, q)
      <3>1. ~session'[c].inCall
        BY <2>4, StoppedType DEF ResumeFails, Abort, EndCall, Set, HideCallUi, TypeOK
      <3>2. QED BY <1>2, <2>4, <3>1 DEF ResumeFails, Abort, EndCall, Set, HideCallUi, TypeOK
    <2>5. CASE Ring(c, q)
      <3>1. screen'[c] = "incoming" /\ ~session'[c].inCall
        BY <2>5 DEF Ring, Busy, Set, TypeOK
      <3>2. QED BY <2>5, <3>1, ShownLocally DEF Ring, Set, TypeOK
    <2>6. CASE AnswerArrives(c, q)
      <3>1. \A d \in Users :
              session'[d].inCall = session[d].inCall /\ session'[d].eos = session[d].eos
        <4> DEFINE a == Answered(session[c], Incoming(q, c).sdp, <<c, dialled[c]>>)
        <4>1. session' = [session EXCEPT ![c] = a]
          BY <2>6 DEF AnswerArrives, Set
        <4>2. a.inCall = session[c].inCall /\ a.eos = session[c].eos
          BY StoppedType DEF Answered, Sessions
        <4> HIDE DEF a
        <4>3. QED BY <4>1, <4>2 DEF TypeOK
      <3>2. QED BY <1>s, <2>6, <3>1 DEF AnswerArrives, desk, ShownInv
    <2>7. CASE ByeArrives(c, q)
      <3>1. CASE pending[c].peer = q
        <4>1. pending'[c] = NoRing /\ session' = session
          BY <2>7, <3>1 DEF ByeArrives, Set, TypeOK
        <4>2. ~session'[c].inCall
          BY <1>s, <2>1, <3>1, <4>1
        <4>3. QED BY <1>2, <2>7, <4>1, <4>2 DEF ByeArrives, Set, TypeOK
      <3>2. CASE pending[c].peer # q /\ session[c].remote = q
        <4>1. pending'[c] = NoRing /\ ~session'[c].inCall
          BY <2>1, <2>7, <3>2, StoppedType DEF ByeArrives, Set, TypeOK
        <4>2. QED BY <1>2, <2>7, <4>1 DEF ByeArrives, Set, TypeOK
      <3>3. CASE pending[c].peer # q /\ session[c].remote # q
        <4>1. UNCHANGED <<pending, screen, session>>
          BY <2>7, <3>3 DEF ByeArrives, Set, TypeOK
        <4>2. QED BY <1>0, <4>1
      <3>4. QED BY <3>1, <3>2, <3>3
    <2>8. CASE DeclineBusy(c, q)
      BY <1>0, <2>8 DEF DeclineBusy, desk
    <2>9. QED BY <1>4, <2>2, <2>3, <2>4, <2>5, <2>6, <2>7, <2>8 DEF Receive
  <1>5. ASSUME NEW c \in Users, Accept(c)
        PROVE  ShownInv'
    BY <1>1, <1>5 DEF Accept, Set, TypeOK
  <1>6. ASSUME NEW c \in Users, AcceptFails(c)
        PROVE  ShownInv'
    <2>1. ~session'[c].inCall
      BY <1>6, StoppedType DEF AcceptFails, StartFails, Abort, EndCall, Set, HideCallUi, TypeOK
    <2>2. QED BY <1>2, <1>6, <2>1 DEF AcceptFails, StartFails, Abort, EndCall, Set, HideCallUi, TypeOK
  <1>7. ASSUME NEW c \in Users, Decline(c)
        PROVE  ShownInv'
    <2>1. ~session[c].inCall
      BY <1>7, <1>s DEF Decline
    <2>2. QED BY <1>2, <1>7, <2>1 DEF Decline, ForReal, Set, HideCallUi, TypeOK
  <1>8. ASSUME NEW c \in Users, HangUp(c) \/ PipelineError(c) \/ CallDropped(c)
        PROVE  ShownInv'
    <2>1. ~session'[c].inCall
      <3>1. session' = [session EXCEPT ![c] = Stopped(session[c])]
        BY <1>8 DEF HangUp, PipelineError, CallDropped, Abort, EndCall, Set, HideCallUi
      <3>2. session'[c] = Stopped(session[c])
        BY <3>1 DEF TypeOK
      <3>3. QED BY <3>2, StoppedType
    <2>2. pending'[c] = NoRing
      BY <1>8, <1>s DEF HangUp, PipelineError, CallDropped
    <2>3. QED
      BY <1>2, <1>8, <2>1, <2>2
         DEF HangUp, ForReal, PipelineError, CallDropped, Abort, EndCall, Set, HideCallUi, TypeOK
  <1>9. ASSUME NEW c \in Users, ChannelOpens(c)
        PROVE  ShownInv'
    <2>1. \A d \in Users :
            session'[d].inCall = session[d].inCall /\ session'[d].eos = session[d].eos
      <3> DEFINE s == [session[c] EXCEPT !.chan = TRUE]
      <3>1. session' = [session EXCEPT ![c] = s]
        BY <1>9 DEF ChannelOpens, Set
      <3>2. s.inCall = session[c].inCall /\ s.eos = session[c].eos
        BY StoppedType DEF Sessions
      <3> HIDE DEF s
      <3>3. QED BY <3>1, <3>2 DEF TypeOK
    <2>2. QED BY <1>s, <1>9, <2>1 DEF ChannelOpens, desk, ShownInv
  \* The window is hidden, and nobody rings behind it.
  <1>e. ASSUME NEW c \in Users, PipelineEnds(c)
        PROVE  ShownInv'
    <2>1. session'[c].eos /\ pending'[c] = NoRing
      BY <1>e, <1>s DEF PipelineEnds, Set, HideCallUi, TypeOK, Sessions
    <2>2. QED BY <1>e, <2>1, ShownLocally DEF PipelineEnds, Set, HideCallUi, TypeOK
  \* A late signal shows a window that was hidden.
  <1>c. ASSUME NEW c \in Users, HandleConnected(c)
        PROVE  ShownInv'
    <2>1. UNCHANGED <<pending, session>>
          /\ \A d \in Users : screen'[d] = screen[d] \/ screen[d] = "idle"
      BY <1>c DEF HandleConnected, Set, TypeOK
    <2>2. QED BY <1>s, <2>1 DEF ShownInv
  <1>10. ASSUME NEW c \in Users,
                \/ AutoAcceptExpires(c) \/ IceFails(c) \/ SendDescription(c)
                \/ FailureIgnored(c)
         PROVE  ShownInv'
    BY <1>0, <1>10 DEF AutoAcceptExpires, IceFails, SendDescription, FailureIgnored, desk
  <1>11. ASSUME NEW c \in Users, NEW q \in Users, RedialDropped(c, q) \/ LoseMessage(q, c)
         PROVE  ShownInv'
    BY <1>0, <1>11 DEF RedialDropped, LoseMessage, desk
  <1>f. ASSUME NEW c \in Users, NEW q \in Users, StartCallFails(c, q) \/ RedialFails(c, q)
        PROVE  ShownInv'
    <2>1. /\ pending' = pending /\ screen' = [screen EXCEPT ![c] = "idle"]
          /\ session' = [session EXCEPT ![c] = Stopped(session[c])]
      BY <1>f DEF StartCallFails, RedialFails, DialFails, StartFails, Abort, EndCall, Set, HideCallUi
    <2>2. pending'[c] = NoRing
      BY <1>s, <1>f, <2>1 DEF StartCallFails, CallButtons, RedialFails
    <2>3. ~session'[c].inCall
      BY <2>1, StoppedType DEF TypeOK
    <2>4. QED BY <1>2, <2>1, <2>2, <2>3 DEF TypeOK
  <1>12. CASE UNCHANGED vars
    BY <1>0, <1>12 DEF vars, desk
  <1>13. QED
    BY <1>3, <1>4, <1>5, <1>6, <1>7, <1>8, <1>9, <1>e, <1>c, <1>10, <1>11, <1>12, <1>f
       DEF Next, User, HandleSignal, RedialTimer

----------------------------------------------------------------------------
(* Whose offer a session has settled on.                                   *)

\* A caller's is its own, a callee's is not, until the end of its stream lets the
\* user call out of a call that goes on.
Settled(c, s) ==
  /\ s \in Sessions
  /\ ~s.inCall => s.sdp = None
  /\ s.sdp \notin {None, Broken} /\ ~s.eos => (s.caller <=> s.sdp[1] = c)
SettledInv == \A c \in Users : Settled(c, session[c])

LEMMA SettledLocally ==
  ASSUME TypeOK, SettledInv, NEW c \in Users, NEW s, Settled(c, s),
         session' = [session EXCEPT ![c] = s]
  PROVE  SettledInv'
  <1>1. \A d \in Users : session'[d] = IF d = c THEN s ELSE session[d]
    BY DEF TypeOK
  <1>2. \A d \in Users : Settled(d, session'[d])
    BY <1>1 DEF SettledInv
  <1>3. QED BY <1>2 DEF SettledInv, Settled

LEMMA SettledSessions ==
  ASSUME NEW c \in Users, NEW s, Settled(c, s)
  PROVE  /\ \A q \in Users : ~s.inCall \/ s.eos => Settled(c, Calling(s, q))
         /\ \A q \in Users, o \in Offers : o[1] # c => Settled(c, Answering(s, q, o))
         /\ Settled(c, Stopped(s))
         /\ \A o \in Offers : \A n : Settled(c, Answered(s, o, <<c, n>>))
         /\ s.inCall => Settled(c, [s EXCEPT !.chan = TRUE])
         /\ s.inCall => Settled(c, [s EXCEPT !.eos = TRUE])
  <1> USE DEF Settled
  <1>1. ASSUME NEW q \in Users, ~s.inCall \/ s.eos
        PROVE  Settled(c, Calling(s, q))
    <2>1. /\ Calling(s, q) \in Sessions /\ Calling(s, q).inCall
          /\ Calling(s, q).sdp = s.sdp /\ Calling(s, q).eos = s.eos
          /\ s.sdp = None \/ s.eos
      BY <1>1 DEF Calling, Sessions
    <2>2. QED BY <2>1
  <1>2. ASSUME NEW q \in Users, NEW o \in Offers, o[1] # c
        PROVE  Settled(c, Answering(s, q, o))
    <2>1. /\ Answering(s, q, o) \in Sessions /\ Answering(s, q, o).inCall
          /\ Answering(s, q, o).caller = FALSE /\ Answering(s, q, o).sdp \in {Broken, o}
          /\ Answering(s, q, o).eos = s.eos
      BY DEF Answering, Sessions
    <2>2. QED BY <1>2, <2>1
  <1>3. Settled(c, Stopped(s))
    <2>1. Stopped(s) \in Sessions /\ Stopped(s).sdp = None
      BY DEF Stopped, Sessions
    <2>2. QED BY <2>1
  <1>4. ASSUME NEW o \in Offers, NEW n
        PROVE  Settled(c, Answered(s, o, <<c, n>>))
    <2> DEFINE a == Answered(s, o, <<c, n>>)
    <2>1. /\ a \in Sessions /\ a.inCall = s.inCall /\ a.caller = s.caller /\ a.eos = s.eos
          /\ \/ a.sdp = s.sdp
             \/ s.inCall /\ s.caller /\ a.sdp = Broken
             \/ s.inCall /\ s.caller /\ a.sdp = o /\ o = <<c, n>>
      BY DEF Answered, Sessions
    <2>2. <<c, n>>[1] = c
      OBVIOUS
    <2> HIDE DEF a
    <2>3. QED BY <2>1, <2>2 DEF a
  <1>5. ASSUME s.inCall
        PROVE  Settled(c, [s EXCEPT !.chan = TRUE]) /\ Settled(c, [s EXCEPT !.eos = TRUE])
    BY <1>5 DEF Sessions
  <1>6. QED BY <1>1, <1>2, <1>3, <1>4, <1>5

LEMMA PreparedKeeps ==
  ASSUME NEW c \in Users, Settled(c, session[c]),
         NEW s \in {Stopped(session[c])} \cup Prepared(session[c])
  PROVE  Settled(c, s)
  BY SettledSessions DEF Prepared

LEMMA SettledStep ==
  ASSUME TypeOK, WireInv, DeskInv, ShownInv, SettledInv, [Next]_vars
  PROVE  SettledInv'
  <1>s. \A c \in Users : Settled(c, session[c])
    BY DEF SettledInv
  <1>0. CASE UNCHANGED session
    BY <1>0 DEF SettledInv, Settled
  <1>1. ASSUME NEW c \in Users, NEW q \in Users, StartCall(c, q) \/ Redial(c, q)
        PROVE  SettledInv'
    <2>1. ~session[c].inCall \/ session[c].eos
      BY <1>1 DEF StartCall, CallButtons, Redial, ShownInv, Shown
    <2>2. PICK s \in Prepared(session[c]) : session' = [session EXCEPT ![c] = Calling(s, q)]
      BY <1>1 DEF StartCall, Redial, Dial, Set
    <2>3. Settled(c, s) /\ (~s.inCall \/ s.eos)
      BY <1>s, <2>1, PreparedKeeps, PreparedType
    <2>4. Settled(c, Calling(s, q))
      BY <2>3, SettledSessions
    <2>5. QED BY <2>2, <2>4, SettledLocally
  <1>2. ASSUME NEW c \in Users, NEW s \in {session[c], Stopped(session[c])},
               session' = [session EXCEPT ![c] = s]
        PROVE  SettledInv'
    BY <1>s, <1>2, SettledSessions, SettledLocally
  <1>3. ASSUME NEW c \in Users, NEW q \in Users, ResumeCall(c, q)
        PROVE  SettledInv'
    <2> DEFINE o == Incoming(q, c).sdp
    <2>1. o \in Offers /\ o[1] # c
      BY <1>3, TakeKeeps, MessageTypes DEF ResumeCall, OfferArrives, OwnMessages
    <2>2. PICK s \in {Stopped(session[c])} \cup Prepared(session[c]) :
            session' = [session EXCEPT ![c] = Answering(s, q, o)]
      BY <1>3 DEF ResumeCall, Set
    <2>3. Settled(c, s)
      BY <1>s, PreparedKeeps
    <2>4. Settled(c, Answering(s, q, o))
      BY <2>1, <2>3, SettledSessions
    <2>5. QED BY <2>2, <2>4, SettledLocally
  <1>4. ASSUME NEW c \in Users, Accept(c)
        PROVE  SettledInv'
    <2>1. /\ pending[c].peer \in Users /\ pending[c].sdp \in Offers
          /\ pending[c].sdp[1] # c
      BY <1>4 DEF Accept, TypeOK, DeskInv, Desk
    <2>2. PICK s \in Prepared(session[c]) :
            session' = [session EXCEPT ![c] =
                          Answering(s, pending[c].peer, pending[c].sdp)]
      BY <1>4 DEF Accept, Set
    <2>3. Settled(c, Answering(s, pending[c].peer, pending[c].sdp))
      BY <1>s, <2>1, PreparedKeeps, SettledSessions
    <2>4. QED BY <2>2, <2>3, SettledLocally
  <1>5. ASSUME NEW c \in Users, NEW q \in Users, AnswerArrives(c, q)
        PROVE  SettledInv'
    <2>1. Incoming(q, c).sdp \in Offers
      BY <1>5, TakeType, MessageTypes DEF AnswerArrives
    <2>2. session' = [session EXCEPT ![c] =
                        Answered(session[c], Incoming(q, c).sdp, <<c, dialled[c]>>)]
      BY <1>5 DEF AnswerArrives, Set
    <2>3. Settled(c, Answered(session[c], Incoming(q, c).sdp, <<c, dialled[c]>>))
      BY <1>s, <2>1, SettledSessions
    <2>4. QED BY <2>2, <2>3, SettledLocally
  <1>6. ASSUME NEW c \in Users, ChannelOpens(c)
        PROVE  SettledInv'
    <2>1. session[c].inCall /\ session' = [session EXCEPT ![c] = [session[c] EXCEPT !.chan = TRUE]]
      BY <1>6 DEF ChannelOpens, Linked, Set
    <2>2. QED BY <1>s, <2>1, SettledSessions, SettledLocally
  <1>e. ASSUME NEW c \in Users, PipelineEnds(c)
        PROVE  SettledInv'
    <2>1. session[c].inCall /\ session' = [session EXCEPT ![c] = [session[c] EXCEPT !.eos = TRUE]]
      BY <1>e DEF PipelineEnds, Set
    <2>2. QED BY <1>s, <2>1, SettledSessions, SettledLocally
  <1>7. ASSUME NEW c \in Users, NEW q \in Users,
               \/ ByeArrives(c, q) \/ HangUp(c) \/ CallDropped(c) \/ PipelineError(c)
               \/ ResumeFails(c, q) \/ AcceptFails(c) \/ StartCallFails(c, q) \/ RedialFails(c, q)
        PROVE  SettledInv'
    <2>1. \E s \in {session[c], Stopped(session[c])} : session' = [session EXCEPT ![c] = s]
      BY <1>7 DEF ByeArrives, HangUp, CallDropped, PipelineError, ResumeFails, AcceptFails,
                  StartCallFails, RedialFails, DialFails, StartFails, Abort, EndCall, Set, HideCallUi
    <2>2. QED BY <1>2, <2>1
  <1>8. ASSUME NEW c \in Users,
               \/ Decline(c) \/ AutoAcceptExpires(c) \/ IceFails(c)
               \/ SendDescription(c) \/ HandleConnected(c) \/ FailureIgnored(c)
        PROVE  SettledInv'
    BY <1>0, <1>8 DEF Decline, AutoAcceptExpires, IceFails, SendDescription,
                      HandleConnected, FailureIgnored
  <1>9. ASSUME NEW c \in Users, NEW q \in Users,
               \/ RedialDropped(c, q) \/ RefreshRing(c, q) \/ Ring(c, q)
               \/ DeclineBusy(c, q) \/ LoseMessage(q, c)
        PROVE  SettledInv'
    BY <1>0, <1>9 DEF RedialDropped, RefreshRing, Ring, DeclineBusy, LoseMessage
  <1>10. CASE UNCHANGED vars
    BY <1>0, <1>10 DEF vars
  <1>11. QED
    BY <1>1, <1>3, <1>4, <1>5, <1>6, <1>e, <1>7, <1>8, <1>9, <1>10
       DEF Next, User, Receive, HandleSignal, RedialTimer

LEMMA VoiceMeans ==
  ASSUME Pair, TypeOK, AgreeInv, DeskInv, SettledInv
  PROVE  VoiceGoesToPeer
  <1> SUFFICES ASSUME NEW c \in Users, NEW d \in Users, Linked(c, d)
               PROVE  /\ session[c].remote = d /\ active[c] = d
                      /\ \/ session[c].eos \/ session[d].eos
                         \/ session[c].caller # session[d].caller
    BY DEF VoiceGoesToPeer
  <1>1. c # d /\ session[c].inCall /\ session[d].inCall
    BY DEF Linked
  <1>2. session[c].remote = active[c] /\ active[c] \in Users /\ active[c] # c
    BY <1>1 DEF AgreeInv, Agrees, TypeOK, DeskInv, Desk
  <1>3. active[c] = d
    BY <1>1, <1>2 DEF Pair
  <1>4. ASSUME ~session[c].eos, ~session[d].eos
        PROVE  session[c].caller # session[d].caller
    <2> DEFINE o == session[c].sdp
    <2>1. session[d].sdp = o /\ o \notin {None, Broken} /\ o \in Offers
      BY DEF Linked, TypeOK, Sessions
    <2>2. o[1] = c \/ o[1] = d
      <3>1. o[1] \in Users
        BY <2>1 DEF Offers
      <3>2. QED BY <1>1, <3>1 DEF Pair
    <2>3. (session[c].caller <=> o[1] = c) /\ (session[d].caller <=> o[1] = d)
      BY <1>4, <2>1 DEF SettledInv, Settled
    <2>4. session[c].caller \in BOOLEAN /\ session[d].caller \in BOOLEAN
      BY DEF TypeOK, Sessions
    <2>5. QED BY <1>1, <2>2, <2>3, <2>4
  <1>5. QED BY <1>2, <1>3, <1>4

----------------------------------------------------------------------------

PairInv == CallInv /\ WireInv /\ DeskInv /\ ShownInv /\ SettledInv

LEMMA PairInvariant ==
  ASSUME Pair
  PROVE  Spec => []PairInv
  <1>1. Init => PairInv
    <2>1. ASSUME Init
          PROVE  ShownInv /\ SettledInv
      <3>1. \A c \in Users : session[c] = Idle /\ pending[c] = NoRing
        BY <2>1 DEF Init
      <3>2. Idle \in Sessions /\ ~Idle.inCall /\ Idle.sdp = None
        BY DEF Idle, Sessions
      <3>3. QED BY <3>1, <3>2 DEF ShownInv, Shown, SettledInv, Settled
    <2>2. QED BY <2>1, CallTypeInit, AgreeInit, DeskInit DEF PairInv, CallInv
  <1>2. PairInv /\ [Next]_vars => PairInv'
    BY CallTypeStep, AgreeStep, WireStep, DeskStep, ShownStep, SettledStep DEF PairInv, CallInv
  <1>3. QED BY <1>1, <1>2, PTL DEF Spec

\* Of two clients, none is in a call behind its user's back: while the camera and
\* the microphone are on, the window with the hang-up button is up, unless the end of
\* a stream has hidden it from a call that goes on (CallIsShown).
THEOREM PairCallsAreShown == Pair /\ Spec => []CallIsShown
  <1> SUFFICES ASSUME Pair
               PROVE  Spec => []CallIsShown
    OBVIOUS
  <1>p. Spec => []PairInv
    BY PairInvariant
  <1>1. PairInv => CallIsShown
    BY DEF PairInv, ShownInv, Shown, CallIsShown
  <1>2. QED BY <1>1, <1>p, PTL

\* Of two clients, whoever rings is on the accept screen, where it can be accepted
\* and declined (RingIsShown).
THEOREM PairRingsAreShown == Pair /\ Spec => []RingIsShown
  <1> SUFFICES ASSUME Pair
               PROVE  Spec => []RingIsShown
    OBVIOUS
  <1>p. Spec => []PairInv
    BY PairInvariant
  <1>1. PairInv => RingIsShown
    BY DEF PairInv, ShownInv, Shown, RingIsShown
  <1>2. QED BY <1>1, <1>p, PTL

\* Of two clients, sessions that are connected have each other for peer, and one of
\* them has called, unless a stream that ended let the other call, too
\* (VoiceGoesToPeer).
THEOREM PairVoiceGoesToPeer == Pair /\ Spec => []VoiceGoesToPeer
  <1> SUFFICES ASSUME Pair
               PROVE  Spec => []VoiceGoesToPeer
    OBVIOUS
  <1>p. Spec => []PairInv
    BY PairInvariant
  <1>1. PairInv => VoiceGoesToPeer
    BY VoiceMeans DEF PairInv, CallInv
  <1>2. QED BY <1>1, <1>p, PTL
=============================================================================
