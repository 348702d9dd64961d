-------------------------- MODULE MCSignalingHub --------------------------
(* SignalingHub on two users.                                              *)
(*                                                                         *)
(* Lifecycle: three connections, c1 and c2 of user a and c3 of user b, so  *)
(* that a reconnects while b broadcasts; nothing is relayed.               *)
(* Relay: two connections, of one user or of two; c2 sends two frames, to  *)
(* the other connection or to its own.                                     *)
EXTENDS SignalingHub, TLC

CONSTANTS a, b, c1, c2, c3

Three == {c1, c2, c3}
Two == {c1, c2}
NoFrames == [c \in Three |-> 0]
SomeFrames == c1 :> 0 @@ c2 :> 2

LifecycleInit == Init /\ id = (c1 :> a @@ c2 :> a @@ c3 :> b)
LifecycleSpec == LifecycleInit /\ [][Next]_vars

RelayInit == Init /\ id \in {c1 :> a @@ c2 :> a, c1 :> a @@ c2 :> b}
RelayFairSpec ==
  /\ RelayInit /\ [][Next]_vars
  /\ \A c \in Conns : WF_vars(HandlerProgress(c)) /\ WF_vars(WriterProgress(c))
=============================================================================
