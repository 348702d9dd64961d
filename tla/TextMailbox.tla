---------------------------- MODULE TextMailbox ----------------------------
(***************************************************************************)
(* What text delivery promises the two people of a conversation, without   *)
(* channels, queues or frames: each client has a log; a message is written *)
(* to its author's log and from there goes to the other client's, once;    *)
(* its author sees it as delivered only when the other client has taken    *)
(* it, and as read only when the other person has had it on screen, or it  *)
(* lies further back than the page of the log that they were shown.  A     *)
(* client that is killed forgets what it had taken and not yet logged, and *)
(* that is the only way a delivery mark can come to be wrong.              *)
(***************************************************************************)
EXTENDS Naturals, Sequences

CONSTANTS
  Peers,     \* the two clients
  Messages,  \* the messages they may write: pairs of the author and a number
  PageSize   \* how much of the end of a log is on screen when it is looked at

VARIABLES
  log,        \* per client, the messages of the conversation in its history
  taken,      \* per client, the incoming messages it has taken
  confirmed,  \* per client, its own messages it shows as delivered
  told,       \* per client, its own messages it shows as read
  shown,      \* per client, the incoming messages that were on its screen
  killed      \* the clients that were ever killed

vars == <<log, taken, confirmed, told, shown, killed>>

Author(m) == m[1]
Logged(p) == {log[p][i] : i \in DOMAIN log[p]}
OnPage(p, i) == i + PageSize > Len(log[p])
LastPage(p) == {log[p][i] : i \in {j \in DOMAIN log[p] : OnPage(p, j)}}
Buried(p) == {log[p][i] : i \in {j \in DOMAIN log[p] : ~OnPage(p, j)}}

Init ==
  /\ log = [p \in Peers |-> << >>]
  /\ taken = [p \in Peers |-> {}]
  /\ confirmed = [p \in Peers |-> {}]
  /\ told = [p \in Peers |-> {}]
  /\ shown = [p \in Peers |-> {}]
  /\ killed = {}

Write(p, m) ==
  /\ Author(m) = p /\ m \notin Logged(p)
  /\ log' = [log EXCEPT ![p] = Append(@, m)]
  /\ UNCHANGED <<taken, confirmed, told, shown, killed>>

\* p takes a message that its author has logged.
Take(p, m) ==
  /\ Author(m) # p /\ m \in Logged(Author(m)) /\ m \notin taken[p]
  /\ taken' = [taken EXCEPT ![p] = @ \cup {m}]
  /\ UNCHANGED <<log, confirmed, told, shown, killed>>

\* p logs a message it has taken; it may appear on screen at once.
Store(p, m) ==
  /\ m \in taken[p] /\ m \notin Logged(p)
  /\ log' = [log EXCEPT ![p] = Append(@, m)]
  /\ \/ shown' = [shown EXCEPT ![p] = @ \cup {m}]
     \/ UNCHANGED shown
  /\ UNCHANGED <<taken, confirmed, told, killed>>

\* The person at p looks at the conversation.
Show(p) ==
  /\ shown' = [shown EXCEPT ![p] = @ \cup {m \in LastPage(p) : Author(m) # p}]
  /\ UNCHANGED <<log, taken, confirmed, told, killed>>

\* The author shows its message as delivered.
Confirm(p, m) ==
  /\ Author(m) = p /\ m \in Logged(p)
  /\ \E q \in Peers \ {p} : m \in taken[q] \/ q \in killed
  /\ confirmed' = [confirmed EXCEPT ![p] = @ \cup {m}]
  /\ UNCHANGED <<log, taken, told, shown, killed>>

\* The author shows messages as read.
Learn(p, ms) ==
  /\ \A m \in ms : Author(m) = p /\ m \in Logged(p)
  /\ \E q \in Peers \ {p} : ms \subseteq shown[q] \cup Buried(q)
  /\ told' = [told EXCEPT ![p] = @ \cup ms]
  /\ UNCHANGED <<log, taken, confirmed, shown, killed>>

Kill(p) ==
  /\ killed' = killed \cup {p}
  /\ taken' = [taken EXCEPT ![p] = @ \cap Logged(p)]
  /\ UNCHANGED <<log, confirmed, told, shown>>

Next ==
  \E p \in Peers :
    \/ Show(p) \/ Kill(p)
    \/ \E m \in Messages : Write(p, m) \/ Take(p, m) \/ Store(p, m) \/ Confirm(p, m)
    \/ \E ms \in SUBSET Messages : Learn(p, ms)

Spec == Init /\ [][Next]_vars
=============================================================================
