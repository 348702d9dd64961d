--------------------------- MODULE SignalingHub ---------------------------
(***************************************************************************)
(* The hub of server/signaling/main.go: the map of registered peers under  *)
(* h.mu, the presence broadcast, the relay, and the two goroutines of a    *)
(* connection (the HTTP handler, which becomes readLoop, and writeLoop).   *)
(*                                                                         *)
(* A connection c stands for one *peer value: it says hello once, is       *)
(* registered once and never comes back; a user who reconnects does so on  *)
(* another connection.  A block between Lock and Unlock is one step; what  *)
(* happens after the unlock (each send of a broadcast, the send of a       *)
(* relay) is a step of its own, because the channel it goes to may have    *)
(* been closed in between.                                                 *)
(***************************************************************************)
EXTENDS Naturals, Sequences, FiniteSets

CONSTANTS
  Users,     \* user ids
  Conns,     \* connections (the *peer values)
  None,      \* no connection (the key is absent from h.peers)
  QCap,      \* capacity of peer.send, 32 in the code
  Quota,     \* bound: how many frames each connection sends to be relayed
  MaxFaults  \* bound: how many links go down, reads or writes fail by themselves

ASSUME HubAssumption ==
  /\ None \notin Conns
  /\ QCap \in Nat \ {0}
  /\ Quota \in [Conns -> Nat]
  /\ MaxFaults \in Nat

VARIABLES
  peers,     \* h.peers: the registered connection of each user, or None
  mu,        \* h.mu: "free", or "lost" when a panic left it locked
  pc,        \* where the handler goroutine of each connection is
  id,        \* peer.id, set from the hello
  open,      \* peer.send has been made and not closed
  queue,     \* contents of peer.send
  writer,    \* the writeLoop goroutine: "none", "running" or "stopped"
  up,        \* the socket still carries frames
  online,    \* broadcastPresence: the user ids of its snapshot
  targets,   \* broadcastPresence: the connections still to be told
  dst,       \* relay: the connection found by the lookup
  sent,      \* number of frames read from the connection and relayed
  seen,      \* seen[c][d]: last frame of d written to c
  got,       \* got[c]: number of relayed frames written to c
  view,      \* the last presence list written to c, {} before the first
  faults     \* how many faults there have been

map     == <<peers, mu>>
locals  == <<online, targets, dst>>
channel == <<open, queue>>
socket  == <<id, writer, up>>
counts  == <<sent, faults>>
client  == <<seen, got, view>>
vars == <<peers, mu, pc, id, open, queue, writer, up, online, targets, dst,
          sent, seen, got, view, faults>>

Stages == {"new", "register", "joinSnap", "joinTell", "reading", "relaying",
           "unregister", "leaveSnap", "leaveTell", "done", "zombie"}

Presence(S)  == [kind |-> "presence", online |-> S]
Relayed(d, n) == [kind |-> "relay", src |-> d, n |-> n]
Frames == [kind : {"presence"}, online : SUBSET Users]
            \cup [kind : {"relay"}, src : Conns, n : Nat]

Registered == {u \in Users : peers[u] # None}
RegisteredConns == {peers[u] : u \in Registered}

Init ==
  /\ peers = [u \in Users |-> None]
  /\ mu = "free"
  /\ pc = [c \in Conns |-> "new"]
  /\ id \in [Conns -> Users]
  /\ open = [c \in Conns |-> FALSE]
  /\ queue = [c \in Conns |-> << >>]
  /\ writer = [c \in Conns |-> "none"]
  /\ up = [c \in Conns |-> TRUE]
  /\ online = [c \in Conns |-> {}]
  /\ targets = [c \in Conns |-> {}]
  /\ dst = [c \in Conns |-> None]
  /\ sent = [c \in Conns |-> 0]
  /\ seen = [c \in Conns |-> [d \in Conns |-> 0]]
  /\ got = [c \in Conns |-> 0]
  /\ view = [c \in Conns |-> {}]
  /\ faults = 0

Fault == faults < MaxFaults /\ faults' = faults + 1

Goto(c, stage) == pc' = [pc EXCEPT ![c] = stage]

\* Mutation of Push: an unbounded queue.
Push_NoLimit(d, f) == queue' = [queue EXCEPT ![d] = Append(@, f)]

\* select { case d.send <- f: default: } on an open channel.
Push(d, f) ==
  queue' = IF Len(queue[d]) < QCap
             THEN [queue EXCEPT ![d] = Append(@, f)]
             ELSE queue

----------------------------------------------------------------------------
(* handleWS: the hello.                                                    *)

\* The upgrade succeeded and the hello carries a user id and the token.
HelloOK(c) ==
  /\ pc[c] = "new"
  /\ open' = [open EXCEPT ![c] = TRUE]
  /\ Goto(c, "register")
  /\ UNCHANGED <<map, socket, queue, locals, counts, client>>

\* No frame within 10 s, a frame that is no hello, or a wrong token.
HelloRejected(c) ==
  /\ pc[c] = "new"
  /\ Goto(c, "done")
  /\ up' = [up EXCEPT ![c] = FALSE]
  /\ UNCHANGED <<map, id, channel, writer, locals, counts, client>>

----------------------------------------------------------------------------
(* register and unregister: one step for the block under h.mu.  Closing a  *)
(* closed channel would panic there, and no defer releases h.mu.           *)

\* register of a user with no entry.
RegisterFirst(c) ==
  /\ pc[c] = "register" /\ mu = "free"
  /\ peers[id[c]] = None
  /\ peers' = [peers EXCEPT ![id[c]] = c]
  /\ Goto(c, "joinSnap")
  /\ UNCHANGED <<mu, socket, channel, locals, counts, client>>

\* Mutation of RegisterReplacing: the older connection keeps its channel.
RegisterReplacing_NoClose(c) ==
  /\ pc[c] = "register" /\ mu = "free"
  /\ peers[id[c]] # None
  /\ up' = [up EXCEPT ![peers[id[c]]] = FALSE]
  /\ peers' = [peers EXCEPT ![id[c]] = c]
  /\ Goto(c, "joinSnap")
  /\ UNCHANGED <<mu, id, channel, writer, locals, counts, client>>

\* register of a user who is still registered: the older connection loses its
\* channel and its socket.
RegisterReplacing(c) ==
  /\ pc[c] = "register" /\ mu = "free"
  /\ peers[id[c]] # None
  /\ LET old == peers[id[c]] IN
       IF open[old]
         THEN /\ open' = [open EXCEPT ![old] = FALSE]
              /\ up' = [up EXCEPT ![old] = FALSE]
              /\ peers' = [peers EXCEPT ![id[c]] = c]
              /\ Goto(c, "joinSnap")
              /\ UNCHANGED mu
         ELSE /\ mu' = "lost"
              /\ Goto(c, "zombie")
              /\ UNCHANGED <<open, up, peers>>
  /\ UNCHANGED <<id, queue, writer, locals, counts, client>>

\* Mutation of Unregister: whatever is registered under the id is removed.
Unregister_AnyConn(c) ==
  /\ pc[c] = "unregister" /\ mu = "free"
  /\ peers' = [peers EXCEPT ![id[c]] = None]
  /\ open' = [open EXCEPT ![c] = FALSE]
  /\ Goto(c, "leaveSnap")
  /\ UNCHANGED <<mu, socket, queue, locals, counts, client>>

\* Mutation of Unregister: the channel is closed and the entry left behind.
Unregister_NoDelete(c) ==
  /\ pc[c] = "unregister" /\ mu = "free"
  /\ open' = [open EXCEPT ![c] = FALSE]
  /\ Goto(c, "leaveSnap")
  /\ UNCHANGED <<map, socket, queue, locals, counts, client>>

\* unregister, whose deferred call runs when readLoop returns or panics.
Unregister(c) ==
  /\ pc[c] = "unregister" /\ mu = "free"
  /\ IF peers[id[c]] # c
       THEN /\ Goto(c, "leaveSnap")
            /\ UNCHANGED <<peers, open, mu>>
       ELSE /\ peers' = [peers EXCEPT ![id[c]] = None]
            /\ IF open[c]
                 THEN /\ open' = [open EXCEPT ![c] = FALSE]
                      /\ Goto(c, "leaveSnap")
                      /\ UNCHANGED mu
                 ELSE /\ mu' = "lost"
                      /\ Goto(c, "done")
                      /\ UNCHANGED open
  /\ UNCHANGED <<socket, queue, locals, counts, client>>

----------------------------------------------------------------------------
(* broadcastPresence.                                                      *)

\* The snapshot goes out of scope.
EndBroadcast(c) == online' = [online EXCEPT ![c] = {}]

\* Mutation of Snapshot: the list goes to everybody and leaves out the user
\* whose change is announced.
Snapshot_OthersOnly(c) ==
  /\ pc[c] \in {"joinSnap", "leaveSnap"} /\ mu = "free"
  /\ Goto(c, IF pc[c] = "joinSnap" THEN "joinTell" ELSE "leaveTell")
  /\ online' = [online EXCEPT ![c] = Registered \ {id[c]}]
  /\ targets' = [targets EXCEPT ![c] = RegisteredConns]
  /\ UNCHANGED <<map, socket, channel, dst, counts, client>>

\* The snapshot under RLock.
Snapshot(c) ==
  /\ pc[c] \in {"joinSnap", "leaveSnap"} /\ mu = "free"
  /\ Goto(c, IF pc[c] = "joinSnap" THEN "joinTell" ELSE "leaveTell")
  /\ online' = [online EXCEPT ![c] = Registered]
  /\ targets' = [targets EXCEPT ![c] = RegisteredConns]
  /\ UNCHANGED <<map, socket, channel, dst, counts, client>>

\* One send of the loop; a full queue drops the update.
Tell(c, d) ==
  /\ pc[c] \in {"joinTell", "leaveTell"}
  /\ d \in targets[c] /\ open[d]
  /\ Push(d, Presence(online[c]))
  /\ targets' = [targets EXCEPT ![c] = @ \ {d}]
  /\ UNCHANGED <<map, pc, socket, open, online, dst, counts, client>>

\* The target was closed after the snapshot: the send panics.  net/http
\* recovers the handler goroutine.  In register the connection stays in the
\* map with neither loop started; in unregister conn.Close is skipped.
TellPanics(c, d) ==
  /\ pc[c] \in {"joinTell", "leaveTell"}
  /\ d \in targets[c] /\ ~open[d]
  /\ Goto(c, IF pc[c] = "joinTell" THEN "zombie" ELSE "done")
  /\ EndBroadcast(c)
  /\ targets' = [targets EXCEPT ![c] = {}]
  /\ UNCHANGED <<map, socket, channel, dst, counts, client>>

\* register returned: handleWS starts writeLoop and enters readLoop.
StartLoops(c) ==
  /\ pc[c] = "joinTell" /\ targets[c] = {}
  /\ writer' = [writer EXCEPT ![c] = "running"]
  /\ EndBroadcast(c)
  /\ Goto(c, "reading")
  /\ UNCHANGED <<map, id, channel, up, targets, dst, counts, client>>

\* unregister returned: the deferred function closes the socket.
CloseConn(c) ==
  /\ pc[c] = "leaveTell" /\ targets[c] = {}
  /\ up' = [up EXCEPT ![c] = FALSE]
  /\ EndBroadcast(c)
  /\ Goto(c, "done")
  /\ UNCHANGED <<map, id, channel, writer, targets, dst, counts, client>>

----------------------------------------------------------------------------
(* readLoop and relay.                                                     *)

\* A frame addressed to user t is read and looked up under RLock.  A socket
\* closed by the server may still yield frames that were buffered before.
ReadFrame(c, t) ==
  /\ pc[c] = "reading" /\ mu = "free"
  /\ sent[c] < Quota[c]
  /\ sent' = [sent EXCEPT ![c] = @ + 1]
  /\ IF peers[t] = None
       THEN UNCHANGED <<pc, dst>>
       ELSE /\ dst' = [dst EXCEPT ![c] = peers[t]]
            /\ Goto(c, "relaying")
  /\ UNCHANGED <<map, socket, channel, online, targets, client, faults>>

\* The destination goes out of scope.
EndRelay(c) == dst' = [dst EXCEPT ![c] = None]

\* Mutation of RelaySend: the send is retried after it has succeeded.
RelaySend_Again(c) ==
  /\ pc[c] = "relaying" /\ open[dst[c]]
  /\ Push(dst[c], Relayed(c, sent[c]))
  /\ UNCHANGED <<map, pc, locals, socket, open, counts, client>>

\* The send after RUnlock; a full queue drops the frame.
RelaySend(c) ==
  /\ pc[c] = "relaying" /\ open[dst[c]]
  /\ Push(dst[c], Relayed(c, sent[c]))
  /\ EndRelay(c)
  /\ Goto(c, "reading")
  /\ UNCHANGED <<map, socket, open, online, targets, counts, client>>

\* The destination was closed after the lookup: the panic unwinds readLoop and
\* runs its deferred unregister.
RelayPanics(c) ==
  /\ pc[c] = "relaying" /\ ~open[dst[c]]
  /\ EndRelay(c)
  /\ Goto(c, "unregister")
  /\ UNCHANGED <<map, socket, channel, online, targets, counts, client>>

\* ReadMessage fails: the socket is closed at either end, or the link is down
\* and no pong has come for 75 s.
ReadFails(c) ==
  /\ pc[c] = "reading" /\ ~up[c]
  /\ Goto(c, "unregister")
  /\ UNCHANGED <<map, socket, channel, locals, counts, client>>

\* ReadMessage fails on a link that is up: a frame of more than 64 KiB, or no pong
\* in time from a client that lives.
ReadCut(c) ==
  /\ pc[c] = "reading" /\ up[c] /\ Fault
  /\ Goto(c, "unregister")
  /\ UNCHANGED <<map, socket, channel, locals, sent, client>>

----------------------------------------------------------------------------
(* writeLoop.                                                              *)

\* The frame at the head reaches the client.
Write(c) ==
  /\ writer[c] = "running" /\ up[c] /\ queue[c] # << >>
  /\ LET f == Head(queue[c]) IN
       IF f.kind = "presence"
         THEN /\ view' = [view EXCEPT ![c] = f.online]
              /\ UNCHANGED <<seen, got>>
         ELSE /\ seen' = [seen EXCEPT ![c] = [@ EXCEPT ![f.src] = f.n]]
              /\ got' = [got EXCEPT ![c] = @ + 1]
              /\ UNCHANGED view
  /\ queue' = [queue EXCEPT ![c] = Tail(@)]
  /\ UNCHANGED <<map, pc, locals, socket, open, counts>>

\* The link is down and the kernel does not know it yet: the frame is lost.
WriteLost(c) ==
  /\ writer[c] = "running" /\ ~up[c] /\ queue[c] # << >>
  /\ queue' = [queue EXCEPT ![c] = Tail(@)]
  /\ UNCHANGED <<map, pc, locals, socket, open, counts, client>>

\* A write, of the frame at the head or of the 30 s ping, fails or times out:
\* writeLoop returns and leaves the connection to its reader.
WriteFails(c) ==
  /\ writer[c] = "running" /\ Fault
  /\ writer' = [writer EXCEPT ![c] = "stopped"]
  /\ \/ UNCHANGED queue
     \/ queue[c] # << >> /\ queue' = [queue EXCEPT ![c] = Tail(@)]
  /\ UNCHANGED <<map, pc, locals, id, open, up, sent, client>>

\* The closed channel is drained: writeLoop returns.
WriterEnds(c) ==
  /\ writer[c] = "running" /\ ~open[c] /\ queue[c] = << >>
  /\ writer' = [writer EXCEPT ![c] = "stopped"]
  /\ UNCHANGED <<map, pc, locals, id, channel, up, counts, client>>

\* The client or the network between drops the link.
LinkDown(c) ==
  /\ up[c] /\ pc[c] # "new" /\ Fault
  /\ up' = [up EXCEPT ![c] = FALSE]
  /\ UNCHANGED <<map, pc, locals, id, channel, writer, sent, client>>

----------------------------------------------------------------------------

Handler(c) ==
  \/ HelloOK(c) \/ HelloRejected(c)
  \/ RegisterFirst(c) \/ RegisterReplacing(c) \/ Unregister(c)
  \/ Snapshot(c)
  \/ \E d \in Conns : Tell(c, d) \/ TellPanics(c, d)
  \/ StartLoops(c) \/ CloseConn(c)
  \/ \E t \in Users : ReadFrame(c, t)
  \/ RelaySend(c) \/ RelayPanics(c) \/ ReadFails(c)

WriterProgress(c) == Write(c) \/ WriteLost(c) \/ WriterEnds(c)

Next ==
  \E c \in Conns :
    Handler(c) \/ WriterProgress(c) \/ WriteFails(c) \/ LinkDown(c) \/ ReadCut(c)

Spec == Init /\ [][Next]_vars

\* The Go scheduler runs every goroutine that can run; a reader whose link is
\* down is woken by the error or by its 75 s deadline.  No hello, frame or write
\* error ever has to happen.
HandlerProgress(c) ==
  \/ RegisterFirst(c) \/ RegisterReplacing(c) \/ Unregister(c)
  \/ Snapshot(c)
  \/ \E d \in Conns : Tell(c, d) \/ TellPanics(c, d)
  \/ StartLoops(c) \/ CloseConn(c)
  \/ RelaySend(c) \/ RelayPanics(c) \/ ReadFails(c)

FairSpec ==
  /\ Spec
  /\ \A c \in Conns : WF_vars(HandlerProgress(c)) /\ WF_vars(WriterProgress(c))

----------------------------------------------------------------------------
(* Properties.                                                             *)

TypeOK ==
  /\ peers \in [Users -> Conns \cup {None}]
  /\ mu \in {"free", "lost"}
  /\ pc \in [Conns -> Stages]
  /\ id \in [Conns -> Users]
  /\ open \in [Conns -> BOOLEAN]
  /\ queue \in [Conns -> Seq(Frames)]
  /\ \A c \in Conns : Len(queue[c]) <= QCap
  /\ writer \in [Conns -> {"none", "running", "stopped"}]
  /\ up \in [Conns -> BOOLEAN]
  /\ online \in [Conns -> SUBSET Users]
  /\ targets \in [Conns -> SUBSET Conns]
  /\ dst \in [Conns -> Conns \cup {None}]
  /\ sent \in [Conns -> Nat]
  /\ seen \in [Conns -> [Conns -> Nat]]
  /\ got \in [Conns -> Nat]
  /\ view \in [Conns -> SUBSET Users]
  /\ faults \in 0..MaxFaults

\* A channel is open exactly while its connection is about to be registered or
\* is the registered one of its user: a reconnect closes the channel it
\* replaces, and the late unregister of a replaced connection touches neither
\* the successor's entry nor its channel (main.go:73-78 and 86-89).
ChannelTracksMap ==
  \A c \in Conns : open[c] <=> pc[c] = "register" \/ peers[id[c]] = c

\* No close of a closed channel ever panics inside register or unregister, which
\* would leave h.mu locked for good and stop the whole server.
MutexNeverLost == mu = "free"

\* Every presence list a client is shown has the client's own user in it: the
\* list and its receivers come from one critical section.
OwnUserInPresence == \A c \in Conns : view[c] # {} => id[c] \in view[c]

\* Relayed frames reach a connection in the order they were read, at most once,
\* whatever is dropped and whoever reconnects.
Relay == INSTANCE OrderedRelay
RelayInOrder == Relay!RelaySpec

\* A connection whose link is down leaves the map (so that the others see its
\* user go), unless its registration was cut short by a panic.
DeadLinkLeaves ==
  \A c \in Conns : ~up[c] ~> peers[id[c]] # c \/ pc[c] = "zombie"

\* The writeLoop of a connection whose handler is gone ends.
NoWriterLeak == \A c \in Conns : pc[c] = "done" ~> writer[c] # "running"

\* main.go:114 says of a presence update dropped on a full queue "they'll get
\* the next update": once nothing is on its way any more, a connection that is
\* being served has been shown the users now registered.
AtRest ==
  \A c \in Conns :
    /\ pc[c] \in {"new", "reading", "done", "zombie"}
    /\ writer[c] = "running" => queue[c] = << >>
PresenceCatchesUp ==
  AtRest => \A c \in RegisteredConns :
              pc[c] = "reading" /\ writer[c] = "running" => view[c] = Registered
=============================================================================
