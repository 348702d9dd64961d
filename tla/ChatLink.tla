------------------------------ MODULE ChatLink ------------------------------
(***************************************************************************)
(* What two clients may take for granted of the data channel between their *)
(* chat sessions: a link comes up only between two clients of which        *)
(* neither still holds an older channel open; a channel opens only on a    *)
(* link that is up, once; and a link that has broken is never the one a    *)
(* channel opens on later.  Text delivery is built on it, the negotiation  *)
(* of chat sessions keeps to it.                                           *)
(***************************************************************************)
CONSTANT Peers

VARIABLES
  link,     \* the two sessions are linked
  chanOpen  \* the clients that hold a channel open

vars == <<link, chanOpen>>

Init == link = FALSE /\ chanOpen = [p \in Peers |-> FALSE]

Establish ==
  /\ ~link /\ \A p \in Peers : ~chanOpen[p]
  /\ link' = TRUE
  /\ UNCHANGED chanOpen

OpenChannel(p) ==
  /\ link /\ ~chanOpen[p]
  /\ chanOpen' = [chanOpen EXCEPT ![p] = TRUE]
  /\ UNCHANGED link

\* One side gives the link up, or the path between them breaks: a side may
\* close its channel with it or find out later.
Break ==
  /\ link' = FALSE
  /\ chanOpen' \in [Peers -> BOOLEAN]
  /\ \A p \in Peers : chanOpen'[p] => chanOpen[p]

Next == Establish \/ Break \/ \E p \in Peers : OpenChannel(p)

Spec == Init /\ [][Next]_vars
=============================================================================
