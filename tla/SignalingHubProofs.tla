------------------------ MODULE SignalingHubProofs ------------------------
(***************************************************************************)
(* What holds of the signaling hub for every set of users and connections, *)
(* every queue capacity and every number of frames and faults.             *)
(***************************************************************************)
EXTENDS SignalingHub, TLAPS

\* Registered connections are registered under their own id, and after their
\* handler passed the register step; this is what makes ChannelTracksMap
\* inductive.
MapInv ==
  \A u \in Users : peers[u] # None =>
    /\ id[peers[u]] = u
    /\ pc[peers[u]] \notin {"new", "register"}

\* A relay in progress has found a connection.
RelayingInv == \A c \in Conns : pc[c] = "relaying" => dst[c] \in Conns

HubInv == TypeOK /\ MapInv /\ ChannelTracksMap /\ MutexNeverLost /\ RelayingInv

LEMMA FramesType ==
  /\ \A S \in SUBSET Users : Presence(S) \in Frames
  /\ \A d \in Conns, n \in Nat : Relayed(d, n) \in Frames
  /\ \A f \in Frames : f.kind = "presence" => f.online \in SUBSET Users
  /\ \A f \in Frames : f.kind # "presence" => f.src \in Conns /\ f.n \in Nat
  BY DEF Presence, Relayed, Frames

\* Push keeps every queue a sequence of frames within the capacity.
LEMMA PushType ==
  ASSUME TypeOK, NEW d \in Conns, NEW f \in Frames, Push(d, f)
  PROVE  /\ queue' \in [Conns -> Seq(Frames)]
         /\ \A c \in Conns : Len(queue'[c]) <= QCap
  <1>1. CASE Len(queue[d]) < QCap
    <2>1. queue' = [queue EXCEPT ![d] = Append(queue[d], f)]
      BY <1>1 DEF Push
    <2>2. Append(queue[d], f) \in Seq(Frames) /\ Len(Append(queue[d], f)) = Len(queue[d]) + 1
      BY DEF TypeOK
    <2>3. Len(queue[d]) \in Nat
      BY DEF TypeOK
    <2>4. QED
      BY <1>1, <2>1, <2>2, <2>3, HubAssumption DEF TypeOK
  <1>2. CASE ~(Len(queue[d]) < QCap)
    BY <1>2 DEF Push, TypeOK
  <1>3. QED BY <1>1, <1>2

\* Taking the head off a queue keeps it a sequence of frames within the capacity.
LEMMA PopType ==
  ASSUME TypeOK, NEW c \in Conns, queue[c] # << >>,
         queue' = [queue EXCEPT ![c] = Tail(queue[c])]
  PROVE  /\ queue' \in [Conns -> Seq(Frames)]
         /\ \A d \in Conns : Len(queue'[d]) <= QCap
  <1>1. /\ Tail(queue[c]) \in Seq(Frames)
        /\ Len(Tail(queue[c])) = Len(queue[c]) - 1
        /\ Len(queue[c]) \in Nat
    BY DEF TypeOK
  <1>2. QED
    BY <1>1, HubAssumption DEF TypeOK

----------------------------------------------------------------------------
(* The map, the channels and the mutex.                                    *)

\* Every step keeps the types, and relays to a connection.
LEMMA TypeStep ==
  ASSUME TypeOK, RelayingInv, NEW c \in Conns,
         Handler(c) \/ WriterProgress(c) \/ WriteFails(c) \/ LinkDown(c) \/ ReadCut(c)
  PROVE  TypeOK' /\ RelayingInv'
  <1> USE HubAssumption DEF TypeOK, RelayingInv, Stages, Goto, map, locals,
          channel, socket, counts, client
  <1>1. CASE HelloOK(c)
    BY <1>1 DEF HelloOK
  <1>2. CASE HelloRejected(c)
    BY <1>2 DEF HelloRejected
  <1>3. CASE RegisterFirst(c)
    BY <1>3 DEF RegisterFirst
  <1>4. CASE RegisterReplacing(c)
    <2>1. peers[id[c]] \in Conns
      BY <1>4 DEF RegisterReplacing
    <2>2. CASE open[peers[id[c]]]
      <3>1. /\ open' = [open EXCEPT ![peers[id[c]]] = FALSE]
            /\ up' = [up EXCEPT ![peers[id[c]]] = FALSE]
            /\ peers' = [peers EXCEPT ![id[c]] = c]
            /\ pc' = [pc EXCEPT ![c] = "joinSnap"]
            /\ UNCHANGED <<mu, id, queue, writer, online, targets, dst, sent,
                           seen, got, view, faults>>
        BY <1>4, <2>2 DEF RegisterReplacing
      <3>2. RelayingInv'
        BY <3>1
      <3>3. QED
        BY <2>1, <3>1, <3>2
    <2>3. CASE ~open[peers[id[c]]]
      <3>1. /\ mu' = "lost"
            /\ pc' = [pc EXCEPT ![c] = "zombie"]
            /\ UNCHANGED <<open, up, peers, id, queue, writer, online, targets, dst,
                           sent, seen, got, view, faults>>
        BY <1>4, <2>3 DEF RegisterReplacing
      <3>2. RelayingInv'
        BY <3>1
      <3>3. QED
        BY <3>1, <3>2
    <2>4. QED
      BY <2>2, <2>3
  <1>5. CASE Unregister(c)
    <2>1. CASE peers[id[c]] # c
      <3>1. /\ pc' = [pc EXCEPT ![c] = "leaveSnap"]
            /\ UNCHANGED <<open, mu, up, peers, id, queue, writer, online, targets,
                           dst, sent, seen, got, view, faults>>
        BY <1>5, <2>1 DEF Unregister
      <3>2. RelayingInv'
        BY <3>1
      <3>3. QED
        BY <3>1, <3>2
    <2>2. CASE peers[id[c]] = c /\ open[c]
      <3>1. /\ open' = [open EXCEPT ![c] = FALSE]
            /\ peers' = [peers EXCEPT ![id[c]] = None]
            /\ pc' = [pc EXCEPT ![c] = "leaveSnap"]
            /\ UNCHANGED <<mu, id, queue, writer, up, online, targets, dst,
                           sent, seen, got, view, faults>>
        BY <1>5, <2>2 DEF Unregister
      <3>2. RelayingInv'
        BY <3>1
      <3>3. QED
        BY <3>1, <3>2
    <2>3. CASE peers[id[c]] = c /\ ~open[c]
      <3>1. /\ mu' = "lost"
            /\ peers' = [peers EXCEPT ![id[c]] = None]
            /\ pc' = [pc EXCEPT ![c] = "done"]
            /\ UNCHANGED <<open, up, id, queue, writer, online, targets, dst, sent,
                           seen, got, view, faults>>
        BY <1>5, <2>3 DEF Unregister
      <3>2. RelayingInv'
        BY <3>1
      <3>3. QED
        BY <3>1, <3>2
    <2>4. QED
      BY <2>1, <2>2, <2>3
  <1>6. CASE Snapshot(c)
    BY <1>6 DEF Snapshot, Registered, RegisteredConns
  <1>7. ASSUME NEW d \in Conns, Tell(c, d)
        PROVE  TypeOK' /\ RelayingInv'
    <2>1. Presence(online[c]) \in Frames
      BY FramesType
    <2>2. queue' \in [Conns -> Seq(Frames)] /\ \A e \in Conns : Len(queue'[e]) <= QCap
      BY <1>7, <2>1, PushType DEF Tell
    <2>3. QED
      BY <1>7, <2>2 DEF Tell
  <1>8. ASSUME NEW d \in Conns, TellPanics(c, d)
        PROVE  TypeOK' /\ RelayingInv'
    BY <1>8 DEF TellPanics, EndBroadcast
  <1>9. CASE StartLoops(c)
    BY <1>9 DEF StartLoops, EndBroadcast
  <1>10. CASE CloseConn(c)
    BY <1>10 DEF CloseConn, EndBroadcast
  <1>11. ASSUME NEW t \in Users, ReadFrame(c, t)
         PROVE  TypeOK' /\ RelayingInv'
    <2>1. CASE peers[t] = None
      BY <1>11, <2>1 DEF ReadFrame
    <2>2. CASE peers[t] # None
      <3>1. /\ dst' = [dst EXCEPT ![c] = peers[t]]
            /\ pc' = [pc EXCEPT ![c] = "relaying"]
            /\ sent' = [sent EXCEPT ![c] = sent[c] + 1]
            /\ UNCHANGED <<peers, mu, id, open, queue, writer, up, online,
                           targets, seen, got, view, faults>>
        BY <1>11, <2>2 DEF ReadFrame
      <3>2. peers[t] \in Conns
        BY <2>2
      <3>3. RelayingInv'
        BY <3>1, <3>2
      <3>4. QED
        BY <3>1, <3>2, <3>3, SMTT(40)
    <2>3. QED
      BY <2>1, <2>2
  <1>12. CASE RelaySend(c)
    <2>1. Relayed(c, sent[c]) \in Frames /\ dst[c] \in Conns
      BY <1>12, FramesType DEF RelaySend
    <2>2. queue' \in [Conns -> Seq(Frames)] /\ \A e \in Conns : Len(queue'[e]) <= QCap
      BY <1>12, <2>1, PushType DEF RelaySend
    <2>3. QED
      BY <1>12, <2>2 DEF RelaySend, EndRelay
  <1>13. CASE RelayPanics(c)
    BY <1>13 DEF RelayPanics, EndRelay
  <1>14. CASE ReadFails(c)
    BY <1>14 DEF ReadFails
  <1>15. CASE Write(c) \/ WriteLost(c)
    <2>1. queue[c] # << >> /\ queue' = [queue EXCEPT ![c] = Tail(@)]
      BY <1>15 DEF Write, WriteLost
    <2>2. queue' \in [Conns -> Seq(Frames)] /\ \A e \in Conns : Len(queue'[e]) <= QCap
      BY <2>1, PopType
    <2>3. CASE Write(c) /\ Head(queue[c]).kind = "presence"
      <3>1. Head(queue[c]).online \in SUBSET Users
        BY <2>1, <2>3, FramesType
      <3>2. QED
        <4>1. /\ view' = [view EXCEPT ![c] = Head(queue[c]).online]
              /\ UNCHANGED <<peers, mu, pc, id, open, writer, up, online,
                             targets, dst, sent, seen, got, faults>>
          BY <2>3 DEF Write
        <4>2. view' \in [Conns -> SUBSET Users] /\ RelayingInv'
          BY <3>1, <4>1
        <4>3. QED
          BY <2>2, <4>1, <4>2
    <2>4. CASE Write(c) /\ Head(queue[c]).kind # "presence"
      <3>1. Head(queue[c]).src \in Conns /\ Head(queue[c]).n \in Nat
        BY <2>1, <2>4, FramesType
      <3>2. QED
        <4>1. /\ seen' = [seen EXCEPT ![c] =
                          [seen[c] EXCEPT ![Head(queue[c]).src] = Head(queue[c]).n]]
              /\ got' = [got EXCEPT ![c] = got[c] + 1]
              /\ UNCHANGED <<peers, mu, pc, id, open, writer, up, online,
                             targets, dst, sent, view, faults>>
          BY <2>4 DEF Write
        <4>2. [seen[c] EXCEPT ![Head(queue[c]).src] = Head(queue[c]).n] \in [Conns -> Nat]
          BY <3>1
        <4>3. seen' \in [Conns -> [Conns -> Nat]]
          BY <4>1, <4>2
        <4>4. got' \in [Conns -> Nat] /\ RelayingInv'
          BY <4>1
        <4>5. QED
          BY <2>2, <4>1, <4>3, <4>4
    <2>5. CASE WriteLost(c)
      BY <2>2, <2>5 DEF WriteLost
    <2>6. QED
      BY <1>15, <2>3, <2>4, <2>5
  <1>16. CASE WriterEnds(c)
    BY <1>16 DEF WriterEnds
  <1>17. CASE WriteFails(c)
    <2>1. queue' \in [Conns -> Seq(Frames)] /\ \A e \in Conns : Len(queue'[e]) <= QCap
      BY <1>17, PopType DEF WriteFails
    <2>2. faults' \in 0..MaxFaults
      BY <1>17 DEF WriteFails, Fault
    <2>3. QED
      BY <1>17, <2>1, <2>2 DEF WriteFails
  <1>18. CASE LinkDown(c)
    BY <1>18 DEF LinkDown, Fault
  <1>19. CASE ReadCut(c)
    BY <1>19 DEF ReadCut, Fault
  <1>20. QED
    BY <1>1, <1>2, <1>3, <1>4, <1>5, <1>6, <1>7, <1>8, <1>9, <1>10, <1>11,
       <1>12, <1>13, <1>14, <1>15, <1>16, <1>17, <1>18, <1>19
       DEF Handler, WriterProgress

\* A step that leaves the map and the channels alone, and moves the handler of c
\* only between stages other than "new" and "register".
Quiet(c) ==
  /\ UNCHANGED <<peers, mu, id, open>>
  /\ \/ UNCHANGED pc
     \/ /\ pc[c] \notin {"new", "register"}
        /\ \E stage \in Stages \ {"new", "register"} : Goto(c, stage)

\* Quiet steps keep the map and the channels consistent.
LEMMA QuietStep ==
  ASSUME HubInv, NEW c \in Conns, Quiet(c)
  PROVE  MapInv' /\ ChannelTracksMap' /\ MutexNeverLost'
  <1>1. MutexNeverLost'
    BY DEF HubInv, Quiet, MutexNeverLost
  <1>2. CASE UNCHANGED pc
    BY <1>2 DEF HubInv, Quiet, MapInv, ChannelTracksMap, MutexNeverLost
  <1>3. ASSUME pc[c] \notin {"new", "register"},
               NEW stage \in Stages \ {"new", "register"}, Goto(c, stage)
        PROVE  MapInv' /\ ChannelTracksMap'
    <2>1. pc' = [pc EXCEPT ![c] = stage]
      BY <1>3 DEF Goto
    <2>2. \A d \in Conns : pc'[d] \in {"new", "register"} <=> pc[d] \in {"new", "register"}
      BY <1>3, <2>1 DEF HubInv, TypeOK
    <2>3. \A d \in Conns : pc'[d] = "register" <=> pc[d] = "register"
      BY <1>3, <2>1 DEF HubInv, TypeOK
    <2>4. QED
      BY <2>2, <2>3 DEF HubInv, TypeOK, Quiet, MapInv, ChannelTracksMap
  <1>4. QED
    BY <1>1, <1>2, <1>3 DEF Quiet

\* Every step keeps the map and the channels consistent.
LEMMA MapStep ==
  ASSUME HubInv, NEW c \in Conns,
         Handler(c) \/ WriterProgress(c) \/ WriteFails(c) \/ LinkDown(c) \/ ReadCut(c)
  PROVE  MapInv' /\ ChannelTracksMap' /\ MutexNeverLost'
  <1> USE DEF HubInv, Goto, map, locals, channel, socket, counts, client
  <1>1. CASE HelloOK(c)
    BY <1>1, HubAssumption, SMTT(30)
       DEF HelloOK, TypeOK, MapInv, ChannelTracksMap, MutexNeverLost
  <1>2. CASE HelloRejected(c)
    BY <1>2, HubAssumption
       DEF HelloRejected, TypeOK, MapInv, ChannelTracksMap, MutexNeverLost
  <1>3. CASE RegisterFirst(c)
    BY <1>3, HubAssumption, SMTT(40)
       DEF RegisterFirst, TypeOK, MapInv, ChannelTracksMap, MutexNeverLost
  <1>4. CASE RegisterReplacing(c)
    <2> DEFINE old == peers[id[c]]
    <2>1. old \in Conns /\ id[old] = id[c] /\ old # c /\ pc[old] # "register"
      BY <1>4 DEF RegisterReplacing, TypeOK, MapInv
    <2>2. open[old]
      BY <2>1 DEF ChannelTracksMap
    <2>3. /\ open' = [open EXCEPT ![old] = FALSE]
          /\ peers' = [peers EXCEPT ![id[c]] = c]
          /\ pc' = [pc EXCEPT ![c] = "joinSnap"]
          /\ UNCHANGED <<mu, id>>
          /\ pc[c] = "register"
      BY <1>4, <2>2 DEF RegisterReplacing
    <2>4. MapInv'
      BY <2>3, HubAssumption, SMTT(30) DEF TypeOK, MapInv
    <2>5. ChannelTracksMap'
      <3> SUFFICES ASSUME NEW d \in Conns
                   PROVE  open'[d] <=> pc'[d] = "register" \/ peers'[id'[d]] = d
        BY DEF ChannelTracksMap
      <3>1. /\ open \in [Conns -> BOOLEAN] /\ pc \in [Conns -> Stages]
            /\ peers \in [Users -> Conns \cup {None}] /\ id \in [Conns -> Users]
        BY DEF TypeOK
      <3>2. open[d] <=> pc[d] = "register" \/ peers[id[d]] = d
        BY DEF ChannelTracksMap
      <3> HIDE DEF HubInv, old
      <3>3. CASE d = c
        <4>1. open[c] /\ ~(d = old)
          BY <2>1, <2>3, <3>2, <3>3
        <4>2. QED
          BY <2>1, <2>3, <3>1, <3>3, <4>1
      <3>4. CASE d = old
        BY <2>1, <2>3, <3>1, <3>4
      <3>5. CASE d # c /\ d # old
        <4>1. open'[d] = open[d] /\ pc'[d] = pc[d] /\ id'[d] = id[d]
          BY <2>3, <3>1, <3>5
        <4>2. peers'[id[d]] = IF id[d] = id[c] THEN c ELSE peers[id[d]]
          BY <2>3, <3>1
        <4>3. id[d] = id[c] => peers[id[d]] = old
          BY DEF old
        <4>4. QED
          BY <3>2, <3>5, <4>1, <4>2, <4>3
      <3>6. QED
        BY <3>3, <3>4, <3>5
    <2>6. QED
      BY <2>3, <2>4, <2>5 DEF MutexNeverLost
  <1>5. CASE Unregister(c) /\ peers[id[c]] # c
    BY <1>5, QuietStep DEF Unregister, Quiet, Stages
  <1>6. CASE Unregister(c) /\ peers[id[c]] = c
    <2>1. open[c]
      BY <1>6 DEF ChannelTracksMap
    <2>2. /\ open' = [open EXCEPT ![c] = FALSE]
          /\ peers' = [peers EXCEPT ![id[c]] = None]
          /\ pc' = [pc EXCEPT ![c] = "leaveSnap"]
          /\ UNCHANGED <<mu, id>>
          /\ pc[c] = "unregister"
      BY <1>6, <2>1 DEF Unregister
    <2>3. MapInv'
      BY <2>2, HubAssumption DEF TypeOK, MapInv
    <2>4. ChannelTracksMap'
      BY <1>6, <2>2, HubAssumption DEF TypeOK, MapInv, ChannelTracksMap
    <2>5. QED
      BY <2>2, <2>3, <2>4 DEF MutexNeverLost
  <1>7. CASE Snapshot(c)
    BY <1>7, QuietStep DEF Snapshot, Quiet, Stages
  <1>8. CASE \E d \in Conns : Tell(c, d) \/ TellPanics(c, d)
    BY <1>8, QuietStep DEF Tell, TellPanics, Quiet, Stages
  <1>9. CASE StartLoops(c) \/ CloseConn(c)
    BY <1>9, QuietStep DEF StartLoops, CloseConn, Quiet, Stages
  <1>10. CASE \E t \in Users : ReadFrame(c, t)
    BY <1>10, QuietStep DEF ReadFrame, Quiet, Stages
  <1>11. CASE RelaySend(c) \/ RelayPanics(c) \/ ReadFails(c) \/ ReadCut(c)
    BY <1>11, QuietStep DEF RelaySend, RelayPanics, ReadFails, ReadCut, Quiet, Stages
  <1>12. CASE WriterProgress(c) \/ WriteFails(c) \/ LinkDown(c)
    BY <1>12, QuietStep
       DEF WriterProgress, Write, WriteLost, WriterEnds, WriteFails, LinkDown, Quiet
  <1>13. QED
    BY <1>1, <1>2, <1>3, <1>4, <1>5, <1>6, <1>7, <1>8, <1>9, <1>10, <1>11,
       <1>12
       DEF Handler

\* HubInv holds of every reachable state.
LEMMA HubInvariant == Spec => []HubInv
  <1>1. Init => HubInv
    BY HubAssumption
       DEF Init, HubInv, TypeOK, MapInv, ChannelTracksMap, MutexNeverLost,
           RelayingInv, Stages
  <1>2. HubInv /\ [Next]_vars => HubInv'
    <2>1. HubInv /\ Next => HubInv'
      BY TypeStep, MapStep DEF Next, HubInv
    <2>2. HubInv /\ UNCHANGED vars => HubInv'
      BY DEF vars, HubInv, TypeOK, MapInv, ChannelTracksMap, MutexNeverLost,
             RelayingInv
    <2>3. QED
      BY <2>1, <2>2
  <1>3. QED
    BY <1>1, <1>2, PTL DEF Spec

\* Every variable has its type, and no queue ever holds more than QCap frames.
THEOREM HubTypeCorrect == Spec => []TypeOK
  <1>1. HubInv => TypeOK
    BY DEF HubInv
  <1>2. QED
    BY <1>1, HubInvariant, PTL

\* A channel is open exactly while its connection registers or is registered.
THEOREM ChannelsTrackTheMap == Spec => []ChannelTracksMap
  <1>1. HubInv => ChannelTracksMap
    BY DEF HubInv
  <1>2. QED
    BY <1>1, HubInvariant, PTL

\* No interleaving of registers and unregisters closes a channel twice, so h.mu
\* is never left locked.
THEOREM MutexIsNeverLost == Spec => []MutexNeverLost
  <1>1. HubInv => MutexNeverLost
    BY DEF HubInv
  <1>2. QED
    BY <1>1, HubInvariant, PTL

----------------------------------------------------------------------------
(* The order of relayed frames.                                            *)

\* Frame numbers of d that may stand in a queue of c: shown to c are smaller
\* ones, and the frame d is relaying has not been queued yet.
Ahead(c, d, n) ==
  /\ seen[c][d] < n
  /\ n <= sent[d]
  /\ pc[d] = "relaying" => n < sent[d]

\* The relayed frames in every queue are ahead of what was shown.
AheadInv ==
  \A c \in Conns : \A i \in 1..Len(queue[c]) :
    queue[c][i].kind # "presence" => Ahead(c, queue[c][i].src, queue[c][i].n)

\* In every queue the numbers of one connection increase.
SortedInv ==
  \A c \in Conns : \A i, j \in 1..Len(queue[c]) :
    /\ i < j
    /\ queue[c][i].kind # "presence" /\ queue[c][j].kind # "presence"
    /\ queue[c][i].src = queue[c][j].src
    => queue[c][i].n < queue[c][j].n

\* What was shown has been sent, and is not being relayed any more.
SeenInv ==
  \A c, d \in Conns :
    /\ seen[c][d] <= sent[d]
    /\ pc[d] = "relaying" => seen[c][d] < sent[d]

FifoInv == AheadInv /\ SortedInv /\ SeenInv

\* Appending the frame being relayed, which is newer than all queued ones of its
\* connection, and ending the relay.
LEMMA FifoRelaySend ==
  ASSUME TypeOK, RelayingInv, FifoInv, NEW c \in Conns, RelaySend(c)
  PROVE  FifoInv'
  <1> DEFINE d == dst[c]
             f == Relayed(c, sent[c])
  <1>1. /\ pc[c] = "relaying" /\ d \in Conns
        /\ pc' = [pc EXCEPT ![c] = "reading"]
        /\ Push(d, f)
        /\ UNCHANGED <<sent, seen>>
    BY DEF RelaySend, RelayingInv, Goto, map, locals, socket, counts, client
  <1>2. /\ f.kind # "presence" /\ f.src = c /\ f.n = sent[c]
        /\ f \in Frames /\ sent[c] \in Nat
    BY FramesType DEF Relayed, TypeOK
  <1>3. SeenInv'
    BY <1>1 DEF FifoInv, SeenInv, TypeOK
  <1>4. CASE Len(queue[d]) < QCap
    <2>1. /\ queue' = [queue EXCEPT ![d] = Append(queue[d], f)]
          /\ Len(queue[d]) \in Nat
          /\ queue[d] \in Seq(Frames)
      BY <1>1, <1>4 DEF Push, TypeOK
    <2>2. /\ Len(queue'[d]) = Len(queue[d]) + 1
          /\ queue'[d][Len(queue[d]) + 1] = f
          /\ \A i \in 1..Len(queue[d]) : queue'[d][i] = queue[d][i]
          /\ \A e \in Conns \ {d} : queue'[e] = queue[e]
      BY <1>1, <1>2, <2>1 DEF TypeOK
    <2>3. \A e \in Conns : \A i \in 1..Len(queue[e]) : queue[e][i] \in Frames
      BY DEF TypeOK
    <2>4. AheadInv'
      <3> SUFFICES ASSUME NEW e \in Conns, NEW i \in 1..Len(queue'[e]),
                          queue'[e][i].kind # "presence"
                   PROVE  Ahead(e, queue[e][i].src, queue[e][i].n)'
        BY DEF AheadInv
      <3>1. CASE e = d /\ i = Len(queue[d]) + 1
        <4>1. queue'[e][i] = f
          BY <2>2, <3>1
        <4>2. seen[d][c] < sent[c] /\ pc'[c] # "relaying"
          BY <1>1 DEF FifoInv, SeenInv, TypeOK
        <4>3. QED
          BY <1>1, <1>2, <3>1, <4>1, <4>2 DEF Ahead
      <3>2. CASE ~(e = d /\ i = Len(queue[d]) + 1)
        <4>1. i \in 1..Len(queue[e]) /\ queue'[e][i] = queue[e][i]
          BY <2>1, <2>2, <3>2
        <4>2. queue[e][i].src \in Conns /\ queue[e][i].n \in Nat
          BY <2>3, <4>1, FramesType
        <4>3. Ahead(e, queue[e][i].src, queue[e][i].n)
          BY <4>1 DEF FifoInv, AheadInv
        <4>4. pc'[queue[e][i].src] = "relaying" => pc[queue[e][i].src] = "relaying"
          BY <1>1, <4>2 DEF TypeOK
        <4>5. QED
          BY <1>1, <4>1, <4>3, <4>4 DEF Ahead
      <3>3. QED
        BY <3>1, <3>2
    <2>5. SortedInv'
      <3> SUFFICES ASSUME NEW e \in Conns,
                          NEW i \in 1..Len(queue'[e]), NEW j \in 1..Len(queue'[e]),
                          i < j, queue'[e][i].kind # "presence",
                          queue'[e][j].kind # "presence",
                          queue'[e][i].src = queue'[e][j].src
                   PROVE  queue'[e][i].n < queue'[e][j].n
        BY DEF SortedInv
      <3>1. CASE e = d /\ j = Len(queue[d]) + 1
        <4>1. i \in 1..Len(queue[d]) /\ queue'[e][i] = queue[d][i]
          BY <2>1, <2>2, <3>1
        <4>2. queue[d][i].src = c /\ queue'[e][j].n = sent[c]
          BY <1>2, <2>2, <3>1, <4>1
        <4>3. queue[d][i].n < sent[c]
          BY <1>1, <3>1, <4>1, <4>2 DEF FifoInv, AheadInv, Ahead
        <4>4. QED
          BY <4>1, <4>2, <4>3
      <3>2. CASE ~(e = d /\ j = Len(queue[d]) + 1)
        <4>1. /\ i \in 1..Len(queue[e]) /\ queue'[e][i] = queue[e][i]
              /\ j \in 1..Len(queue[e]) /\ queue'[e][j] = queue[e][j]
          BY <2>1, <2>2, <3>2
        <4>2. QED
          BY <4>1 DEF FifoInv, SortedInv
      <3>3. QED
        BY <3>1, <3>2
    <2>6. QED
      BY <1>3, <2>4, <2>5 DEF FifoInv
  <1>5. CASE ~(Len(queue[d]) < QCap)
    <2>1. queue' = queue
      BY <1>1, <1>5 DEF Push
    <2>2. SortedInv'
      BY <2>1 DEF FifoInv, SortedInv
    <2>3. AheadInv'
      <3> SUFFICES ASSUME NEW e \in Conns, NEW i \in 1..Len(queue[e]),
                          queue[e][i].kind # "presence"
                   PROVE  Ahead(e, queue[e][i].src, queue[e][i].n)'
        BY <2>1 DEF FifoInv, AheadInv
      <3>1. queue[e][i] \in Frames
        BY DEF TypeOK
      <3>2. queue[e][i].src \in Conns /\ queue[e][i].n \in Nat
        BY <3>1, FramesType
      <3>3. Ahead(e, queue[e][i].src, queue[e][i].n)
        BY DEF FifoInv, AheadInv
      <3>4. QED
        BY <1>1, <2>1, <3>2, <3>3 DEF Ahead, TypeOK
    <2>4. QED
      BY <1>3, <2>2, <2>3 DEF FifoInv
  <1>6. QED
    BY <1>4, <1>5

\* A step that leaves queues, numbers and what was shown alone and starts no
\* relay keeps the order.
LEMMA FifoQuiet ==
  ASSUME TypeOK, FifoInv, UNCHANGED <<queue, sent, seen>>,
         \A d \in Conns : pc'[d] = "relaying" => pc[d] = "relaying"
  PROVE  FifoInv'
  <1>1. SortedInv' /\ SeenInv'
    BY DEF FifoInv, SortedInv, SeenInv
  <1>2. ASSUME NEW c \in Conns, NEW i \in 1..Len(queue[c]),
               queue[c][i].kind # "presence"
        PROVE  Ahead(c, queue[c][i].src, queue[c][i].n)'
    <2>1. queue[c][i].src \in Conns
      BY <1>2, FramesType DEF TypeOK
    <2>2. QED
      BY <1>2, <2>1 DEF FifoInv, AheadInv, Ahead
  <1>3. QED
    BY <1>1, <1>2 DEF FifoInv, AheadInv

\* Queueing a presence update.
LEMMA FifoTell ==
  ASSUME TypeOK, FifoInv, NEW c \in Conns, NEW d \in Conns, Tell(c, d)
  PROVE  FifoInv'
  <1> DEFINE f == Presence(online[c])
  <1>1. Push(d, f) /\ UNCHANGED <<sent, seen, pc>>
    BY DEF Tell, map, socket, counts, client
  <1>2. f.kind = "presence"
    BY DEF Presence
  <1>3. CASE Len(queue[d]) < QCap
    <2>1. /\ queue' = [queue EXCEPT ![d] = Append(queue[d], f)]
          /\ Len(queue[d]) \in Nat
          /\ queue[d] \in Seq(Frames)
      BY <1>1, <1>3 DEF Push, TypeOK
    <2>2. f \in Frames
      BY FramesType DEF TypeOK
    <2>3. \A e \in Conns : \A i \in 1..Len(queue'[e]) :
            queue'[e][i].kind # "presence"
              => i \in 1..Len(queue[e]) /\ queue'[e][i] = queue[e][i]
      <3>1. /\ Len(queue'[d]) = Len(queue[d]) + 1
            /\ queue'[d][Len(queue[d]) + 1] = f
            /\ \A i \in 1..Len(queue[d]) : queue'[d][i] = queue[d][i]
            /\ \A e \in Conns \ {d} : queue'[e] = queue[e]
        BY <2>1, <2>2 DEF TypeOK
      <3>2. QED
        BY <1>2, <2>1, <3>1
    <2>4. AheadInv'
      BY <1>1, <2>3 DEF FifoInv, AheadInv, Ahead
    <2>5. SortedInv'
      BY <2>3, SMTT(40) DEF FifoInv, SortedInv
    <2>6. SeenInv'
      BY <1>1 DEF FifoInv, SeenInv
    <2>7. QED
      BY <2>4, <2>5, <2>6 DEF FifoInv
  <1>4. CASE ~(Len(queue[d]) < QCap)
    BY <1>1, <1>4, FifoQuiet DEF Push
  <1>5. QED
    BY <1>3, <1>4

\* Taking a frame off the head of a queue without showing it.
LEMMA FifoPop ==
  ASSUME TypeOK, FifoInv, NEW c \in Conns, queue[c] # << >>,
         queue' = [queue EXCEPT ![c] = Tail(queue[c])],
         UNCHANGED <<sent, seen, pc>>
  PROVE  /\ FifoInv'
         /\ \A i \in 1..Len(queue'[c]) :
              /\ i + 1 \in 1..Len(queue[c]) /\ 1 < i + 1
              /\ queue'[c][i] = queue[c][i + 1]
  <1>1. queue[c] \in Seq(Frames) /\ Len(queue[c]) \in Nat
    BY DEF TypeOK
  <1>2. /\ Len(queue'[c]) = Len(queue[c]) - 1
        /\ \A i \in 1..Len(queue'[c]) : queue'[c][i] = queue[c][i + 1]
        /\ \A e \in Conns \ {c} : queue'[e] = queue[e]
    BY <1>1 DEF TypeOK
  <1>3. \A i \in 1..Len(queue'[c]) :
          /\ i + 1 \in 1..Len(queue[c]) /\ 1 < i + 1
          /\ queue'[c][i] = queue[c][i + 1]
    BY <1>1, <1>2
  <1>4. AheadInv'
    <2> SUFFICES ASSUME NEW e \in Conns, NEW i \in 1..Len(queue'[e]),
                        queue'[e][i].kind # "presence"
                 PROVE  Ahead(e, queue[e][i].src, queue[e][i].n)'
      BY DEF AheadInv
    <2>1. PICK j \in 1..Len(queue[e]) : queue'[e][i] = queue[e][j]
      BY <1>2, <1>3
    <2>2. Ahead(e, queue[e][j].src, queue[e][j].n)
      BY <2>1 DEF FifoInv, AheadInv
    <2>3. QED
      BY <2>1, <2>2 DEF Ahead
  <1>5. SortedInv'
    <2> SUFFICES ASSUME NEW e \in Conns,
                        NEW i \in 1..Len(queue'[e]), NEW j \in 1..Len(queue'[e]),
                        i < j, queue'[e][i].kind # "presence",
                        queue'[e][j].kind # "presence",
                        queue'[e][i].src = queue'[e][j].src
                 PROVE  queue'[e][i].n < queue'[e][j].n
      BY DEF SortedInv
    <2>1. CASE e = c
      BY <1>3, <2>1 DEF FifoInv, SortedInv
    <2>2. CASE e # c
      BY <1>2, <2>2 DEF FifoInv, SortedInv
    <2>3. QED
      BY <2>1, <2>2
  <1>6. SeenInv'
    BY DEF FifoInv, SeenInv
  <1>7. QED
    BY <1>3, <1>4, <1>5, <1>6 DEF FifoInv

\* Reading the next frame: its number is beyond all others of its connection.
LEMMA FifoReadFrame ==
  ASSUME TypeOK, FifoInv, NEW c \in Conns, NEW t \in Users, ReadFrame(c, t)
  PROVE  FifoInv'
  <1>1. /\ sent' = [sent EXCEPT ![c] = sent[c] + 1]
        /\ UNCHANGED <<queue, seen>>
        /\ \A d \in Conns : d # c => pc'[d] = pc[d]
    BY DEF ReadFrame, Goto, map, channel, socket, client, TypeOK
  <1>2. sent[c] \in Nat /\ sent'[c] = sent[c] + 1
        /\ \A d \in Conns : d # c => sent'[d] = sent[d]
    BY <1>1 DEF TypeOK
  <1>3. SortedInv'
    BY <1>1 DEF FifoInv, SortedInv
  <1>4. SeenInv'
    <2> SUFFICES ASSUME NEW e \in Conns, NEW d \in Conns
                 PROVE  /\ seen'[e][d] <= sent'[d]
                        /\ pc'[d] = "relaying" => seen'[e][d] < sent'[d]
      BY DEF SeenInv
    <2>1. /\ seen[e][d] <= sent[d] /\ seen[e][d] \in Nat
          /\ pc[d] = "relaying" => seen[e][d] < sent[d]
      BY DEF FifoInv, SeenInv, TypeOK
    <2>2. QED
      BY <1>1, <1>2, <2>1
  <1>5. AheadInv'
    <2> SUFFICES ASSUME NEW e \in Conns, NEW i \in 1..Len(queue[e]),
                        queue[e][i].kind # "presence"
                 PROVE  Ahead(e, queue[e][i].src, queue[e][i].n)'
      BY <1>1 DEF AheadInv
    <2>1. queue[e][i].src \in Conns /\ queue[e][i].n \in Nat
      BY FramesType DEF TypeOK
    <2>2. Ahead(e, queue[e][i].src, queue[e][i].n)
      BY DEF FifoInv, AheadInv
    <2>3. QED
      BY <1>1, <1>2, <2>1, <2>2 DEF Ahead
  <1>6. QED
    BY <1>3, <1>4, <1>5 DEF FifoInv

\* Showing the relayed frame at the head of a queue.
LEMMA FifoShow ==
  ASSUME TypeOK, FifoInv, NEW c \in Conns, Write(c),
         Head(queue[c]).kind # "presence"
  PROVE  /\ FifoInv'
         /\ Relay!Deliver(c, Head(queue[c]).src, Head(queue[c]).n)
         /\ Head(queue[c]).src \in Conns
         /\ Head(queue[c]).n \in (seen[c][Head(queue[c]).src] + 1)
                                   ..sent[Head(queue[c]).src]
  <1> DEFINE d == Head(queue[c]).src
             n == Head(queue[c]).n
  <1>1. /\ queue[c] # << >>
        /\ queue' = [queue EXCEPT ![c] = Tail(queue[c])]
        /\ seen' = [seen EXCEPT ![c] = [seen[c] EXCEPT ![d] = n]]
        /\ got' = [got EXCEPT ![c] = got[c] + 1]
        /\ UNCHANGED <<sent, pc>>
    BY DEF Write, map, locals, socket, counts, client
  <1>2. /\ 1 \in 1..Len(queue[c]) /\ queue[c][1] = Head(queue[c])
        /\ Head(queue[c]) \in Frames
    BY <1>1 DEF TypeOK
  <1>3. d \in Conns /\ n \in Nat
    BY <1>2, FramesType
  <1>4. Ahead(c, d, n)
    BY <1>2 DEF FifoInv, AheadInv
  <1>5. /\ seen'[c][d] = n
        /\ \A e, x \in Conns : e # c \/ x # d => seen'[e][x] = seen[e][x]
    BY <1>1, <1>3 DEF TypeOK
  <1>6. SeenInv'
    BY <1>1, <1>4, <1>5 DEF FifoInv, SeenInv, Ahead
  <1> DEFINE q == Tail(queue[c])
  <1>7. queue[c] \in Seq(Frames) /\ Len(queue[c]) \in Nat
    BY DEF TypeOK
  <1>8. /\ Len(queue'[c]) = Len(queue[c]) - 1
        /\ \A i \in 1..Len(queue'[c]) :
             /\ i + 1 \in 1..Len(queue[c]) /\ 1 < i + 1
             /\ queue'[c][i] = queue[c][i + 1]
        /\ \A e \in Conns \ {c} : queue'[e] = queue[e]
    BY <1>1, <1>7 DEF TypeOK
  <1>9. AheadInv'
    <2> SUFFICES ASSUME NEW e \in Conns, NEW i \in 1..Len(queue'[e]),
                        queue'[e][i].kind # "presence"
                 PROVE  Ahead(e, queue[e][i].src, queue[e][i].n)'
      BY DEF AheadInv
    <2>1. CASE e = c
      <3>1. /\ i + 1 \in 1..Len(queue[c]) /\ 1 < i + 1
            /\ queue'[c][i] = queue[c][i + 1]
        BY <1>8, <2>1
      <3>2. /\ queue[c][i + 1] \in Frames /\ queue[c][i + 1].kind # "presence"
            /\ queue[c][i + 1].src \in Conns
        BY <1>7, <2>1, <3>1, FramesType
      <3>3. Ahead(c, queue[c][i + 1].src, queue[c][i + 1].n)
        BY <3>1, <3>2 DEF FifoInv, AheadInv
      <3>4. queue[c][i + 1].src = d => n < queue[c][i + 1].n
        BY <1>2, <3>1, <3>2 DEF FifoInv, SortedInv
      <3>5. QED
        BY <1>1, <1>5, <2>1, <3>1, <3>2, <3>3, <3>4 DEF Ahead
    <2>2. CASE e # c
      <3>1. queue'[e] = queue[e]
        BY <1>8, <2>2
      <3>2. queue[e][i].src \in Conns
        BY <3>1, FramesType DEF TypeOK
      <3>3. Ahead(e, queue[e][i].src, queue[e][i].n)
        BY <3>1 DEF FifoInv, AheadInv
      <3>4. QED
        BY <1>1, <1>5, <2>2, <3>1, <3>2, <3>3 DEF Ahead
    <2>3. QED
      BY <2>1, <2>2
  <1>10. SortedInv'
    <2> SUFFICES ASSUME NEW e \in Conns,
                        NEW i \in 1..Len(queue'[e]), NEW j \in 1..Len(queue'[e]),
                        i < j, queue'[e][i].kind # "presence",
                        queue'[e][j].kind # "presence",
                        queue'[e][i].src = queue'[e][j].src
                 PROVE  queue'[e][i].n < queue'[e][j].n
      BY DEF SortedInv
    <2>1. CASE e = c
      <3>1. /\ i + 1 \in 1..Len(queue[c]) /\ queue'[c][i] = queue[c][i + 1]
            /\ j + 1 \in 1..Len(queue[c]) /\ queue'[c][j] = queue[c][j + 1]
            /\ i + 1 < j + 1
        BY <1>8, <2>1, SMTT(40)
      <3>2. QED
        BY <2>1, <3>1 DEF FifoInv, SortedInv
    <2>2. CASE e # c
      BY <1>8, <2>2 DEF FifoInv, SortedInv
    <2>3. QED
      BY <2>1, <2>2
  <1>11. n \in (seen[c][d] + 1)..sent[d]
    BY <1>3, <1>4, SMTT(40) DEF Ahead, TypeOK
  <1>12. QED
    BY <1>1, <1>3, <1>6, <1>9, <1>10, <1>11 DEF FifoInv, Relay!Deliver

\* Every step keeps the order, and is a step of OrderedRelay or leaves its
\* variables alone.
LEMMA FifoStep ==
  ASSUME TypeOK, RelayingInv, FifoInv, NEW c \in Conns,
         Handler(c) \/ WriterProgress(c) \/ WriteFails(c) \/ LinkDown(c) \/ ReadCut(c)
  PROVE  FifoInv' /\ [Relay!RelayNext]_(Relay!relayVars)
  <1> USE DEF Relay!relayVars, map, locals, channel, socket, counts, client
  <1>1. CASE HelloOK(c) \/ HelloRejected(c)
    BY <1>1, FifoQuiet DEF HelloOK, HelloRejected, Goto, TypeOK
  <1>2. CASE RegisterFirst(c)
    BY <1>2, FifoQuiet DEF RegisterFirst, Goto, TypeOK
  <1>3. CASE RegisterReplacing(c)
    <2>1. UNCHANGED <<queue, sent, seen, got>>
      BY <1>3 DEF RegisterReplacing
    <2>2. \A d \in Conns : pc'[d] = "relaying" => pc[d] = "relaying"
      <3>1. \/ pc' = [pc EXCEPT ![c] = "joinSnap"]
            \/ pc' = [pc EXCEPT ![c] = "zombie"]
        <4>1. open[peers[id[c]]] => Goto(c, "joinSnap")
          BY <1>3, Zenon DEF RegisterReplacing
        <4>2. ~open[peers[id[c]]] => Goto(c, "zombie")
          BY <1>3, Zenon DEF RegisterReplacing
        <4>3. QED
          BY <4>1, <4>2 DEF Goto
      <3>2. QED
        BY <3>1 DEF TypeOK
    <2>3. QED
      BY <2>1, <2>2, FifoQuiet
  <1>4. CASE Unregister(c)
    BY <1>4, FifoQuiet DEF Unregister, Goto, TypeOK
  <1>5. CASE Snapshot(c)
    BY <1>5, FifoQuiet DEF Snapshot, Goto, TypeOK
  <1>6. CASE \E d \in Conns : Tell(c, d)
    BY <1>6, FifoTell DEF Tell
  <1>7. CASE \E d \in Conns : TellPanics(c, d)
    BY <1>7, FifoQuiet DEF TellPanics, Goto, TypeOK
  <1>8. CASE StartLoops(c) \/ CloseConn(c)
    BY <1>8, FifoQuiet DEF StartLoops, CloseConn, Goto, TypeOK
  <1>9. CASE \E t \in Users : ReadFrame(c, t)
    <2>1. Relay!Send(c)
      BY <1>9 DEF ReadFrame, Relay!Send
    <2>2. QED
      BY <1>9, <2>1, FifoReadFrame DEF Relay!RelayNext
  <1>10. CASE RelaySend(c)
    BY <1>10, FifoRelaySend DEF RelaySend
  <1>11. CASE RelayPanics(c) \/ ReadFails(c) \/ ReadCut(c)
    BY <1>11, FifoQuiet DEF RelayPanics, ReadFails, ReadCut, Goto, TypeOK
  <1>12. CASE Write(c) /\ Head(queue[c]).kind = "presence"
    BY <1>12, FifoPop DEF Write
  <1>13. CASE Write(c) /\ Head(queue[c]).kind # "presence"
    BY <1>13, FifoShow DEF Relay!RelayNext
  <1>14. CASE WriteLost(c)
    BY <1>14, FifoPop DEF WriteLost
  <1>15. CASE WriterEnds(c) \/ LinkDown(c)
    BY <1>15, FifoQuiet DEF WriterEnds, LinkDown
  <1>16. CASE WriteFails(c)
    <2>1. CASE UNCHANGED queue
      BY <1>16, <2>1, FifoQuiet DEF WriteFails
    <2>2. CASE queue[c] # << >> /\ queue' = [queue EXCEPT ![c] = Tail(@)]
      BY <1>16, <2>2, FifoPop DEF WriteFails
    <2>3. QED
      BY <1>16, <2>1, <2>2 DEF WriteFails
  <1>17. QED
    BY <1>1, <1>2, <1>3, <1>4, <1>5, <1>6, <1>7, <1>8, <1>9, <1>10, <1>11,
       <1>12, <1>13, <1>14, <1>15, <1>16
       DEF Handler, WriterProgress

\* The hub implements OrderedRelay: whatever is dropped, closed or replaced, the
\* frames of one connection reach another in order and at most once.
THEOREM HubRelaysInOrder == Spec => RelayInOrder
  <1>1. Init => Relay!RelayInit /\ FifoInv
    BY DEF Init, Relay!RelayInit, FifoInv, AheadInv, SortedInv, SeenInv
  <1>2. HubInv /\ FifoInv /\ [Next]_vars
          => FifoInv' /\ [Relay!RelayNext]_(Relay!relayVars)
    <2>1. ASSUME HubInv, FifoInv, Next
          PROVE  FifoInv' /\ [Relay!RelayNext]_(Relay!relayVars)
      BY <2>1, FifoStep DEF Next, HubInv
    <2>2. ASSUME HubInv, FifoInv, UNCHANGED vars
          PROVE  FifoInv' /\ [Relay!RelayNext]_(Relay!relayVars)
      BY <2>2, FifoQuiet DEF vars, HubInv, Relay!relayVars
    <2>3. QED
      BY <2>1, <2>2
  <1>3. QED
    BY <1>1, <1>2, HubInvariant, PTL DEF Spec, RelayInOrder, Relay!RelaySpec

----------------------------------------------------------------------------
(* Presence.                                                               *)

\* Whoever is told a list, now, from a queue or already, is on it.
ListedInv ==
  /\ \A c \in Conns : \A d \in targets[c] : id[d] \in online[c]
  /\ \A c \in Conns : \A i \in 1..Len(queue[c]) :
       queue[c][i].kind = "presence" => id[c] \in queue[c][i].online
  /\ OwnUserInPresence

\* A step that leaves lists and queues alone keeps ListedInv.
LEMMA ListedQuiet ==
  ASSUME ListedInv, UNCHANGED <<id, targets, online, queue, view>>
  PROVE  ListedInv'
  BY DEF ListedInv, OwnUserInPresence

\* A queued or popped frame keeps the queued lists right.
LEMMA ListedPush ==
  ASSUME TypeOK, ListedInv, UNCHANGED id, NEW d \in Conns, NEW f \in Frames,
         Push(d, f), f.kind = "presence" => id[d] \in f.online
  PROVE  \A c \in Conns : \A i \in 1..Len(queue'[c]) :
           queue'[c][i].kind = "presence" => id'[c] \in queue'[c][i].online
  <1>1. CASE Len(queue[d]) < QCap
    <2>1. /\ queue' = [queue EXCEPT ![d] = Append(queue[d], f)]
          /\ Len(queue[d]) \in Nat
          /\ queue[d] \in Seq(Frames)
      BY <1>1 DEF Push, TypeOK
    <2>2. /\ Len(queue'[d]) = Len(queue[d]) + 1
          /\ queue'[d][Len(queue[d]) + 1] = f
          /\ \A i \in 1..Len(queue[d]) : queue'[d][i] = queue[d][i]
          /\ \A e \in Conns \ {d} : queue'[e] = queue[e]
      BY <2>1 DEF TypeOK
    <2>3. QED
      BY <2>1, <2>2 DEF ListedInv
  <1>2. CASE ~(Len(queue[d]) < QCap)
    BY <1>2 DEF Push, ListedInv
  <1>3. QED
    BY <1>1, <1>2

LEMMA ListedPop ==
  ASSUME TypeOK, ListedInv, UNCHANGED id, NEW d \in Conns, queue[d] # << >>,
         queue' = [queue EXCEPT ![d] = Tail(queue[d])]
  PROVE  \A c \in Conns : \A i \in 1..Len(queue'[c]) :
           queue'[c][i].kind = "presence" => id'[c] \in queue'[c][i].online
  <1>1. queue[d] \in Seq(Frames) /\ Len(queue[d]) \in Nat
    BY DEF TypeOK
  <1>2. /\ Len(queue'[d]) = Len(queue[d]) - 1
        /\ \A i \in 1..Len(queue'[d]) :
             i + 1 \in 1..Len(queue[d]) /\ queue'[d][i] = queue[d][i + 1]
        /\ \A e \in Conns \ {d} : queue'[e] = queue[e]
    BY <1>1 DEF TypeOK
  <1>3. QED
    BY <1>2 DEF ListedInv

\* Every step keeps ListedInv.
LEMMA ListedStep ==
  ASSUME HubInv, ListedInv, NEW c \in Conns,
         Handler(c) \/ WriterProgress(c) \/ WriteFails(c) \/ LinkDown(c) \/ ReadCut(c)
  PROVE  ListedInv'
  <1> USE DEF HubInv, map, locals, channel, socket, counts, client
  <1>1. CASE Snapshot(c)
    <2>1. \A d \in RegisteredConns : id[d] \in Registered
      BY DEF MapInv, RegisteredConns, Registered, TypeOK
    <2>2. QED
      BY <1>1, <2>1 DEF Snapshot, ListedInv, OwnUserInPresence, TypeOK
  <1>2. CASE \E d \in Conns : Tell(c, d)
    <2>1. PICK d \in Conns : Tell(c, d)
      BY <1>2
    <2>2. /\ Presence(online[c]) \in Frames
          /\ id[d] \in Presence(online[c]).online
      BY <2>1, FramesType DEF Tell, ListedInv, Presence, TypeOK
    <2>3. \A e \in Conns : \A i \in 1..Len(queue'[e]) :
            queue'[e][i].kind = "presence" => id'[e] \in queue'[e][i].online
      BY <2>1, <2>2, ListedPush DEF Tell
    <2>4. \A e \in Conns : targets'[e] \subseteq targets[e]
      BY <2>1 DEF Tell, TypeOK
    <2>5. QED
      BY <2>1, <2>3, <2>4 DEF Tell, ListedInv, OwnUserInPresence
  <1>3. CASE \E d \in Conns : TellPanics(c, d)
    <2>1. /\ targets' = [targets EXCEPT ![c] = {}]
          /\ online' = [online EXCEPT ![c] = {}]
          /\ UNCHANGED <<id, queue, view>>
      BY <1>3 DEF TellPanics, EndBroadcast
    <2>2. \A e \in Conns : \A d \in targets'[e] : id'[d] \in online'[e]
      BY <2>1 DEF ListedInv, TypeOK
    <2>3. QED
      BY <2>1, <2>2 DEF ListedInv, OwnUserInPresence
  <1>4. CASE StartLoops(c) \/ CloseConn(c)
    BY <1>4
       DEF StartLoops, CloseConn, EndBroadcast, ListedInv, OwnUserInPresence, TypeOK
  <1>5. CASE RelaySend(c)
    <2>1. /\ Relayed(c, sent[c]) \in Frames
          /\ Relayed(c, sent[c]).kind # "presence"
          /\ dst[c] \in Conns
      BY <1>5, FramesType DEF RelaySend, RelayingInv, Relayed, TypeOK
    <2>2. \A e \in Conns : \A i \in 1..Len(queue'[e]) :
            queue'[e][i].kind = "presence" => id'[e] \in queue'[e][i].online
      BY <1>5, <2>1, ListedPush DEF RelaySend
    <2>3. QED
      BY <1>5, <2>2 DEF RelaySend, ListedInv, OwnUserInPresence
  <1>6. CASE Write(c)
    <2>1. /\ queue[c] # << >> /\ queue' = [queue EXCEPT ![c] = Tail(queue[c])]
          /\ UNCHANGED <<id, targets, online>>
      BY <1>6 DEF Write
    <2>2. \A e \in Conns : \A i \in 1..Len(queue'[e]) :
            queue'[e][i].kind = "presence" => id'[e] \in queue'[e][i].online
      BY <2>1, ListedPop
    <2>3. Head(queue[c]).kind = "presence" => id[c] \in Head(queue[c]).online
      BY <2>1 DEF ListedInv, TypeOK
    <2>4. OwnUserInPresence'
      <3>1. \/ view' = [view EXCEPT ![c] = Head(queue[c]).online]
               /\ Head(queue[c]).kind = "presence"
            \/ view' = view
        BY <1>6 DEF Write
      <3>2. view \in [Conns -> SUBSET Users] /\ OwnUserInPresence
        BY DEF ListedInv, TypeOK
      <3>3. QED
        BY <2>1, <2>3, <3>1, <3>2 DEF OwnUserInPresence
    <2>5. QED
      BY <2>1, <2>2, <2>4 DEF ListedInv
  <1>7. CASE WriteLost(c) \/ (WriteFails(c) /\ ~UNCHANGED queue)
    <2>1. /\ queue[c] # << >> /\ queue' = [queue EXCEPT ![c] = Tail(queue[c])]
          /\ UNCHANGED <<id, targets, online, view>>
      BY <1>7 DEF WriteLost, WriteFails
    <2>2. \A e \in Conns : \A i \in 1..Len(queue'[e]) :
            queue'[e][i].kind = "presence" => id'[e] \in queue'[e][i].online
      BY <2>1, ListedPop
    <2>3. QED
      BY <2>1, <2>2 DEF ListedInv, OwnUserInPresence
  <1>8. CASE WriteFails(c) /\ UNCHANGED queue
    BY <1>8, ListedQuiet DEF WriteFails
  <1>9. CASE HelloOK(c) \/ HelloRejected(c) \/ RegisterFirst(c)
    BY <1>9, ListedQuiet DEF HelloOK, HelloRejected, RegisterFirst
  <1>10. CASE RegisterReplacing(c) \/ Unregister(c)
    BY <1>10, ListedQuiet DEF RegisterReplacing, Unregister
  <1>11. CASE \E t \in Users : ReadFrame(c, t)
    BY <1>11, ListedQuiet DEF ReadFrame
  <1>12. CASE \/ RelayPanics(c) \/ ReadFails(c) \/ ReadCut(c)
              \/ WriterEnds(c) \/ LinkDown(c)
    BY <1>12, ListedQuiet DEF RelayPanics, ReadFails, ReadCut, WriterEnds, LinkDown
  <1>13. QED
    BY <1>1, <1>2, <1>3, <1>4, <1>5, <1>6, <1>7, <1>8, <1>9, <1>10, <1>11,
       <1>12
       DEF Handler, WriterProgress

\* A client is never shown a presence list without its own user.
THEOREM PresenceListsItsReader == Spec => []OwnUserInPresence
  <1>1. Init => ListedInv
    BY DEF Init, ListedInv, OwnUserInPresence
  <1>2. HubInv /\ ListedInv /\ [Next]_vars => ListedInv'
    <2>1. HubInv /\ ListedInv /\ Next => ListedInv'
      BY ListedStep DEF Next
    <2>2. ListedInv /\ UNCHANGED vars => ListedInv'
      BY ListedQuiet DEF vars
    <2>3. QED
      BY <2>1, <2>2
  <1>3. ListedInv => OwnUserInPresence
    BY DEF ListedInv
  <1>4. QED
    BY <1>1, <1>2, <1>3, HubInvariant, PTL DEF Spec
=============================================================================
