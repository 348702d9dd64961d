--------------------------- MODULE OrderedRelay ---------------------------
(***************************************************************************)
(* What the signaling server promises about the frames it forwards, told   *)
(* without queues, locks or goroutines: a connection numbers the frames it *)
(* has sent, and every other connection is shown an increasing selection   *)
(* of those numbers.  A frame may be lost; it is never shown twice, never  *)
(* overtaken by an older frame of the same connection and never invented.  *)
(*                                                                         *)
(* SignalingHub implements this specification with its own variables       *)
(* of the same names.                                                      *)
(***************************************************************************)
EXTENDS Naturals

CONSTANT Conns

VARIABLES
  sent,   \* sent[d]: how many frames connection d has handed to the server
  seen,   \* seen[c][d]: number of the last frame of d that was written to c
  got     \* got[c]: how many frames were written to c

relayVars == <<sent, seen, got>>

RelayInit ==
  /\ sent = [d \in Conns |-> 0]
  /\ seen = [c \in Conns |-> [d \in Conns |-> 0]]
  /\ got = [c \in Conns |-> 0]

Send(d) ==
  /\ sent' = [sent EXCEPT ![d] = @ + 1]
  /\ UNCHANGED <<seen, got>>

\* Frame n of d reaches c; the frames between seen[c][d] and n are lost to c.
Deliver(c, d, n) ==
  /\ seen' = [seen EXCEPT ![c] = [@ EXCEPT ![d] = n]]
  /\ got' = [got EXCEPT ![c] = @ + 1]
  /\ UNCHANGED sent

RelayNext ==
  \/ \E d \in Conns : Send(d)
  \/ \E c, d \in Conns : \E n \in (seen[c][d] + 1)..sent[d] : Deliver(c, d, n)

RelaySpec == RelayInit /\ [][RelayNext]_relayVars
=============================================================================
