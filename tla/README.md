# Family Signal in TLA+

A verification of the core of this repository: the Go signaling server
(`src/server/signaling/main.go`) and the Qt/GStreamer client (`src/client/src`).
TLA+ modules model the protocols of the two, TLC checks them on small
instances, and TLAPS proves the main safety properties for every value of the
constants.

## 1. Inventory

Below, `MW` is `MainWindow.cpp`, `WS` `WebRtcSession.cpp`, `SC`
`SignalingClient.cpp`, `MH` `MessageHistory.cpp`, `HC` `HistoryCipher.cpp`.

| component | state | operations | what makes it correct |
|---|---|---|---|
| signaling hub, `main.go` | `h.peers` under `h.mu`; per connection: the channel `send` (32 frames), a reader and a writer goroutine, the socket | hello, register (replaces an older connection of the same user), unregister, presence broadcast, relay, ping and read deadline | a channel is closed once, exactly when its connection leaves the map; no panic with the lock held; frames relayed in order and at most once; dead connections leave; lists are true |
| signaling client, `SC` | web socket state, reconnect timer, ping and its timeout | connect, hello, reconnect, send, dispatch of incoming envelopes | it is always connected, about to be, or has a timer armed; a healthy connection is not dropped |
| calls, `MW` and `WS` | `m_pendingOffer`, `m_activeCallPeer`, `m_autoAcceptPeer`, `m_redialAttempts`, redial timers, the call window; the `WebRtcSession` of calls | call, ring, accept, decline, busy answer, hang up, drop, redial, silent accept, pipeline error | camera and microphone are on only with a peer agreed to and only while shown; sessions that connect belong to the same call; a call that was connected ends when its other side is gone |
| chat sessions, `MW` and `WS` | `m_chatSessions`, one silent `WebRtcSession` per online contact | `ensureChatSession`, `syncChatSessions`, offer, answer, ICE failure, the 2 s retry, teardown | whenever both sides are online a channel comes up; only one side offers; a channel is never opened over an older one |
| text delivery, `MW`, `WS`, `MH` | the history rows with `delivered`, `read`, `read_sent`; the channel; the event queue; the badge | send, flush, ack, dedup, select, receipts | stored once, marks are true, nothing written is forgotten |
| history database, `MH` and `HC` | SQLite file, schema version, key file | open and migrate, append, page, clear | the version never lies about the columns, the seals and the ids; the key file opens the rows; what a crash may break is known |
| contacts and chat models | rows of the views, unread counts | selection, paging, presence, badge | the screen shows the end of the conversation without a gap; no badge on screen |
| configuration and invites | `Config`, its file | load, save, `applyInvite`, the wizard at the start and in the settings | what was saved loads; the program works with what is saved |
| media pipeline, `WS` | GStreamer elements, ducking | build, tear down, duck | - |
| windows, ringtone, logging, packaging, aec-lab, Monocypher | - | - | I/O, drawing, scripts, third-party code |

**Interaction.** Clients talk to the hub by JSON envelopes over a web socket
and to each other, through the hub's relay, by offer, answer, ICE and bye
messages. Two `WebRtcSession`s that have exchanged an offer and an answer carry
media and a data channel. Inside a client the GStreamer threads emit signals
that Qt queues for the main thread; the main thread also gets clicks, socket
messages and timers. The history database is the only state that survives the
process, apart from the configuration.

**What is hard.** In the hub, everything sent after an unlock may meet a
channel closed in between. In the client, a queued signal is handled in a later
state than the one it was emitted in; the frames of one peer are acked on
another thread than the one that stores them; messages of an old call, of an old
offer or of an old peer arrive in a new one; timers outlive what they were
armed for; either process may be killed between any two steps. The list, with
the line each one bites at and the property that watches it, is under `hazards`
in `PROJECT.json`.

## 2. Modules

| module | models | abstract or composed of |
|---|---|---|
| `OrderedRelay` | what the hub promises of relayed frames | abstract specification |
| `SignalingHub` | `main.go` | implements `OrderedRelay` |
| `MCSignalingHub` | instances for TLC | extends `SignalingHub` |
| `SignalingHubProofs` | proofs | extends `SignalingHub` |
| `ChatLink` | the channel two chat sessions give to text delivery | abstract specification |
| `ChatSessions` | signaling clients and the chat sessions of two clients | implements `ChatLink` |
| `MCChatSessions`, `ChatSessionsProofs` | instance, proofs | extend `ChatSessions` |
| `TextMailbox` | what text delivery promises the two people of a conversation | abstract specification |
| `ChatDelivery` | text messages of one conversation | implements `TextMailbox`; its channel steps are the actions of `ChatLink` |
| `MCChatDelivery`, `ChatDeliveryProofs` | instance, proofs | extend `ChatDelivery` |
| `ClientConfig` | `Config.cpp`, the wizard, the settings, the order of `main()` | - |
| `HistoryStore` | the key file, the database and its migrations | extends `ClientConfig` |
| `LocalData` | one client over its files: the two above and the conversation on the screen | extends `HistoryStore` |
| `MCLocalData`, `LocalDataProofs`, `LocalViewProofs` | instance, proofs | extend `LocalData` |
| `CallLifecycle` | calls among any number of clients | takes from the hub that messages of one client to another keep their order and may be lost |
| `MCCallLifecycle`, `CallLifecycleProofs`, `CallPairProofs` | instances, proofs | extend `CallLifecycle` |

Definitions whose names carry a second part after an underscore
(`Push_NoLimit`) are mutations: each is the definition of the first name with a
plausible bug. No specification uses them; put in the place of the original,
they break the property they are listed with in `PROJECT.json`, which shows that
the property can fail.

### SignalingHub

A connection `c` is one `*peer` value. `pc[c]` says where its handler goroutine
is (`handleWS`, then `readLoop`, then the deferred `unregister`), `writer[c]`
whether its `writeLoop` runs. A block between `Lock` and `Unlock` is one step
(`RegisterFirst`, `RegisterReplacing`, `Unregister`, `Snapshot`, the lookup in
`ReadFrame`); each send of a broadcast (`Tell`) and the send of a relay
(`RelaySend`) is a step of its own, because the code does them after the unlock.
A send on a channel closed in between panics: `TellPanics`, `RelayPanics`. A
panic of `Tell` is recovered by `net/http` and ends the handler; in `register`
that leaves a *zombie*: a registered connection with no loops. A panic of the
relay unwinds `readLoop` and runs its deferred function. `h.mu` is unlocked
without `defer`; a panic between the two would set `mu = "lost"`. A read fails because the
link is down (`ReadFails`), or by a fault with the link up (`ReadCut`: a frame over the
64 KiB limit, a pong that comes after the 75 s deadline).

Not modelled: JSON, frames of unknown type (ignored by the code), the HTTP
server around it.

### ChatDelivery

Two clients, one conversation, one data channel at a time. `rows`, `delivered`,
`read`, `readSent` are the table `messages`; `events` is the Qt event queue;
`chanOpen` is each side's belief about the channel and `link` the truth. The
GStreamer thread (`OnOpen`, `OnFrame`, `OnClose`) queues signals and sends acks;
the main thread (`DropDuplicate`, `ReceiveText`, `HandleAck`, `HandleReceipt`,
`HandleOpened`) works on the database. `LinkBreaks` loses everything in flight,
`Crash` also the event queue, the badge and the selection.

`SendText` stores the message before it is sent; `MarkDelivered` and `MarkPeerRead`
are the two UPDATEs by which an ack and a receipt leave their mark. `SelectContact`
shows the last page of the conversation (`Page`, at least `PageSize` messages: the page
is 50 rows, and notes of calls are rows, too) and marks all of it read, as `MW:292-295`
do; `shown` remembers what was on the screen, and the rows before the page are `Buried`.

`TextMailbox` knows no channel: a client has a `log`, the messages it has `taken`,
those of its own it shows as `confirmed` and as `told`; a message goes from its
author's log to the other's once, a mark needs what it claims (a read mark, that the
message was shown or lies beneath the last page), and only a client that was killed may
have forgotten what a mark was about. `ChatDelivery` implements it
with its rows for `log`, its own messages among the marked ones for `confirmed` and
`told`, and for `taken` the incoming messages that are stored or wait in the event
queue: the step that takes a message is `OnFrame`, on the GStreamer thread, before
`ReceiveText` stores it. The mailbox promises no order: a message written between
`on-open` and the queued flush overtakes those that wait (`MW:468`).

`Channel == INSTANCE ChatLink` is the channel: `LinkUp`, `OnOpen`, `OnClose` and
`Break` are that module's actions, with what the step does to frames and signals added.
`LinkUp` waits for both sides to have dropped the older channel, which is a guard of
`ChatLink`; that the negotiation of chat sessions never breaks it is `KeepsToChatLink` of
`ChatSessions`.

Not modelled: the second channel that a call brings (`sendViaAnyChannel` tries
both), messages of a peer too old to send ids, `clearAll`, failing SQL
statements, the older rows a reader scrolls up to (they would be `shown`, too).

### ChatLink and ChatSessions

`ChatLink` is the contract between the two halves of a chat: a link comes up only
while neither side holds an older channel open, a channel opens on a link that is
up, and what has broken does not come back. `ChatSessions` implements it (`link <-
link # 0`), and `ChatDelivery` is built from its actions.

In `ChatSessions` each client has a web socket (`sock`; `alive` says whether it
carries frames, which the client does not know), the reconnect `timer`, the ping
with its single `shot`, the last presence list (`online`) and at most one chat
`session` for the other. `OnPresence` ends in `SyncChatSessions`, with the offer of the
smaller user id in it; `OnOffer` creates a session or gives the offer to the used
one; `OnAnswer` applies the first answer whichever offer it answers;
`ConnectionFailed` stops the session and arms the 2 s `retry` of the smaller id.
`IceConnects` links a caller and a callee that are about the same offer and have
fresh pipelines (a used one fails, `WS:695`). webrtcbin may come back without the
description it was asked for, and `onOfferCreated` and `onAnswerCreated` then return
(`WS:798`, `WS:817`): `NoDescription` records it in `blank`, at any time for a used
pipeline, as a fault for a new one. `IceGivesUp` is the failure of ICE or
the 25 s of grace. The hub is one step: a hello registers the client and sends the
lists, a frame goes to the inbox of the other or is `lost` (a history variable: the
negotiations of which a description was lost). Connections break with notice or
without, the path between the clients breaks and heals, and either program may be
restarted. A ping is a step only on a connection that is dead; a living one that is too
slow to bring the pong within 10 s is cut as by `SocketLost`, and counts as a fault.

Not modelled: ICE candidates, which the code drops when there is no session yet;
a missing webrtcbin; presence lists that overtake each other at the hub, which
`HubPresence` shows.

### ClientConfig, HistoryStore and LocalData

These three are layers of one program: `phase` says where `main()` and
`MainWindow::start` are, `dialog` which dialog of the running program is open.

`ClientConfig`: a document (a JSON object) is a function on some of the fields,
and `FromJson` fills in what the code does when one is missing. `OnAccept` fills the
live configuration before it is known to be valid, and saves it only then. `Save`
truncates the file first: a write that fails or is cut short leaves it `Torn`.

`HistoryStore`: every statement outside the one transaction of
`migrateToEncrypted` commits on its own, so each is a step, and the process may die
between any two. A statement whose result the code does not look at goes on when it
fails. `faults` is the set of the faults that have struck, by kind and place; the
properties use it to say which fault excuses what. A row is the contact it belongs
to, the key it is sealed with, and whether it has a `msg_id`.

`LocalData`: `SelectContact` is a click or a redial (`attemptRedial`, `MW:855`), which
may come while a dialog is open. `view` is the list of row ids on the screen (0 for a
row that could not be stored), `exhausted`, `loading` and `restores` the paging state
with its queued calls. Marks (`ReloadOnMark`) load the newest page again, a cleared
history after its message box; `reloaded` remembers that for `ExhaustedShowsAll`.

Not modelled: the text of invites, the lists of TURN servers and contacts, failing
SELECTs, names and times.

### CallLifecycle

The variables are the call half of `MainWindow` (`pending` is `m_pendingOffer`,
`active` `m_activeCallPeer`, `autoAccept` `m_autoAcceptPeer`, `redials`
`m_redialAttempts`), the screen the window and header show, and the call's
`session`. Each action is one handler of the main thread, with all it calls:
`onAcceptIncomingCall` is part of `ResumeCall`, `hangup` (`EndCall`) part of
`CallDropped`. When `start()` fails, its error signal is handled before it returns:
`onWebRtcError` hangs up and sends a bye to the peer the session had before
(`Abort`, in `DialFails`, `AcceptFails` and `ResumeFails`), which need not be the peer
of the call that failed. `PipelineError` is the same at any time of a call. The other
message of the bus, the end of a stream, is `PipelineEnds`: `onCallEnded` hides the
window and frees the call buttons while the session goes on (`eos`). `Prepared` is the
choice between audio and video: `prepare` tears down a pipeline of the other kind.
`onCallConnected` maximizes the window of a video call, and so shows one that a hang-up
has hidden before the signal was handled (the screen `ghost`: a window with no call
behind it). `timers` counts the redials that are scheduled for a peer, as two may be.
Signals of the GStreamer threads wait in `signals`, messages in `wire`.

A description is reduced to the offer it is or answers: two sessions connect when
they have settled on the same one (`Linked`). A description given to a session
that has one already is `Broken`. `agreed` is a history variable of the
properties: the peers a client has called or accepted and not parted from.

Not modelled: ICE candidates, a description that cannot be parsed (one that is not made
looks like one that is lost), the notes a call leaves in the
history (and the badge they raise), presence (a call button may be pressed at any
time), a client's restart or crash during a call. The 60 s of the silent accept, the
redial's 2 s and the ICE grace of 25 s are steps that may happen at any time.

## 3. Runs

Every `.cfg` says `CHECK_DEADLOCK FALSE`: connections, messages, calls and
faults are bounded, and a system whose bounds are used up rests rightly; the
properties about getting stuck are liveness properties instead. Times are of a
two-worker run.

| run | instance | shows | states |
|---|---|---|---|
| `HubLifecycle` | 2 users, 3 connections (2 of one user), queue of 1, 1 fault | the map, the channels and the lock agree in every interleaving of reconnect, leave and broadcast; a presence list has its reader in it | 774k, 32 s |
| `HubRelay` | 2 connections, of one user or of two, 2 frames, queue of 2, 1 fault, fair | refinement of `OrderedRelay`; dead connections leave; writers end (`TypeOK` is checked by `HubLifecycle`, and proved) | 119k, 54 s |
| `HubPresence` | as `HubLifecycle`, no fault | *violated*: "they'll get the next update" | |
| `Chat` | 2 messages from a to b, page of 1, 2 faults before the second is written, fair | the people see a mailbox: stored once, true marks (refinement of `TextMailbox`); exact badge, delivered in the end | 114k, 60 s |
| `ChatSessions` | 2 clients, 4 numbers of negotiations, 2 faults, fair | refinement of `ChatLink`; only the smaller id offers; an offer that arrives is put to webrtcbin; no ping cuts a new connection; signaling and channel come back | 69k, 30 s |
| `LocalData` | 2 contacts, 2 keys, 3 invites (2 valid), 3 rows (1 of an earlier release), pages of 1, 2 faults of which one is a crash (1, when it strikes `config.json` or a row) | version, seals, ids, key and configuration agree after any crash; the screen shows the end of the conversation, and paging gives up only there | 1.0M, 90 s |
| `ChatAck` | 1 message, 1 fault | *violated*: an ack means received | |
| `Calls` | 2 clients, 2 + 1 calls, 1 fault, fair | only agreed peers are answered, and only clicks agree; calls and rings are shown, connected sessions belong together, a connected call ends when its other side is gone | 605k, 165 s |
| `CallsThree` | 2 callers of one client, 1 fault | only agreed peers are answered, with the busy answer in play | 903k, 80 s |
| `CallAnswer` | 2 clients, no fault | *violated*: the next call starts fresh | |
| `CallBusy` | a calls b twice, b calls c, 1 fault | *violated*: a call is not disturbed by a second caller | |
| `CallBye` | b calls a, c calls b, no fault | *violated*: a bye of somebody else is noise | |

**Why the bounds are enough.** *Hub*: a reconnect race needs a connection, its
successor, and a third party whose broadcast or relay holds the older one; that is
three connections of two users. A queue of 1 is full after one frame, so every drop
happens; the relay run takes 2 so that two frames can be reordered if anything
reorders them. *Chat*: dedup needs a message sent twice, that is, one break; a second
fault covers a restart between the two copies or a break during the re-send. The
second message is written when the faults are spent or do not come: with a page of one
it is what buries the first, and it shares receipts and badge with it. More messages,
longer pages and later faults are covered by the proofs of the safety properties,
which hold for any number of each. *Calls*: crossing calls need one call each; a
second call of the same side meets the left-overs of the first, or is its redial.
Three redials (`RedialLimit`) are beyond the bound of two calls and hold by the proof
of `TypeOK`.

*Chat sessions*: a session is stale when its counterpart was made new, which takes one
fault; the second one strikes during the recovery. Four numbers are enough because a
number is free again when no session and no frame has it. *Local data*: two faults are
a crash and one more in the start that follows; three rows with pages of one are a
page on the screen, one to load, and a new row in between. Two of the invites are
valid and differ in a field that has a default, so that a new one can be applied over
an old one; the third lacks a field that has none. A fault of `config.json`, or
a row that is not stored, is alone in its behaviour: the history does not depend on
which configuration was loaded, nor a start on whether the rows before were stored. Two
failures without a crash are left to the proofs.

**Fairness.** *Hub*: weak fairness of each handler and writer goroutine (the Go
scheduler runs what can run; a reader of a dead link wakes up by its error or its 75 s
deadline). No hello, frame, fault or write error has to happen. *Chat*: weak fairness
of each client's main thread and GStreamer thread, and of `LinkUp`. The last is what
`ChannelComesBack` of `ChatSessions` is about: `EventuallyDelivered` says that the
queue, the flush, the acks and the dedup lose nothing *as long as channels keep coming
up*. *Chat sessions*: threads run, timers fire, the hub finds dead connections, ICE
comes to a result, the path heals, and of the attempts to reach the hub some succeed
(strong fairness of `OnConnected`: an attempt may fail any number of times).
`ChannelComesBack` further assumes `PromptDescriptions`: in the end no description is
still on its way when a 2 s retry fires or ICE gives up. Without it the two can chase
each other for ever: each late offer falls on a used session, which fails and lets the
next one be made. It also excepts a session whose offer or answer was lost or not
made, which is stuck as long as the hub lists the other side: `syncChatSessions` sees
its entry and never offers again (`MW:519`). *Local data*: no liveness is claimed.
*Calls*: weak fairness of the main thread's handling of its signals and of ICE
noticing that the other side of an open channel is gone (the consent checks of
libnice, then `m_iceTimeout`). Users, network and timers owe nothing.

**With three clients** `CallIsShown`, `RingIsShown` and `VoiceGoesToPeer` are
false: the ways are those that `CallBusy` and `CallBye` show. They are therefore
checked, and proved, of two clients that only call each other.

## 4. What does not agree with the code's own words

Five runs end in a counterexample; each refutes a comment of the source.

1. `HubPresence`: a presence update that is dropped on a full queue, overtaken by
   an older one, or cut off by a panic is not repeated (`main.go:114`).
2. `ChatAck`: the ack leaves before the row is written; a receiver killed in
   between has lost a message its sender counts as delivered (`WS:741`).
3. `CallAnswer`: an answer after the hang-up marks the idle session as answered;
   the next call ignores its own answer (`WS:668`, `WS:774`).
4. `CallBusy`: the silent accept is decided before the busy guard, so the redial
   of a dropped call takes over a call with somebody else (`MW:619`, `MW:638`).
5. `CallBye`: the peer of the last call can hide the accept screen of another
   caller with a late bye, after which every call is answered busy (`MW:721`,
   `MW:735`).

Seen while modelling, and stated as what the properties allow rather than by a run,
since no text of the repository says otherwise: a migration that is cut short in one
of the places of `Windows` leaves a history that no later start can open
(`DamageNeedsWindow` says that these are the only ones); a torn key file is reported
at every start and never replaced; a history that failed to open stays in use, so rows
go nowhere; a bad invite accepted in the settings changes the live configuration
although it is rejected, until the next start (`rejected` in `LiveConfigIsSaved`); the
end of a stream hides the window of a call that goes on, with microphone and camera on
(`eos` in `CallIsShown`); a call whose channel has never been open is not ended by
anything but its users: who has accepted a caller whose bye was lost, who waits for an
answer after a decline was lost, and both sides of a glare that wait for each other
stay in the call, and are busy to everybody else (`ConnectedCallEnds` says nothing of
them); messages beneath the page of 50 rows are marked read, and their author is told,
although nobody saw them (`Buried` in `ReadWasShown`); a new chat session for which
webrtcbin makes no description has nothing that could fail and be retried, and waits
as long as the peer is online (`blank` in `UnansweredWasLost`); after a mark or a
cleared history the older rows can no longer be paged in (`reloaded` in
`ExhaustedShowsAll`).

## 5. Proofs

TLAPS proves, for every set of users, connections and clients and every bound:

| theorem | property | assumes |
|---|---|---|
| `HubTypeCorrect`, `ChannelsTrackTheMap`, `MutexIsNeverLost`, `PresenceListsItsReader` | `TypeOK`, `ChannelTracksMap`, `MutexNeverLost`, `OwnUserInPresence` | `HubAssumption` |
| `HubRelaysInOrder` | `RelayInOrder`: `SignalingHub` implements `OrderedRelay` | `HubAssumption` |
| `ChatTypeCorrect`, `MessagesAreStoredOnce`, `DeliveryMarksAreTrue`, `ReadMarksAreTrue`, `BadgeIsExact` | `TypeOK`, `NoDuplicateRow`, `DeliveredIsReceived`, `ReadWasShown`, `BadgeCountsUnread` | `ChatAssumption` |
| `DeliveryKeepsMailbox` | `KeepsMailbox`: `ChatDelivery` implements `TextMailbox` | `ChatAssumption` |
| `SessionsTypeCorrect`, `SignalingNeverGivesUp`, `OffersAreOneSided`, `UnansweredOffersWereLost` | the four invariants of `ChatSessions` | `SessionAssumption`, `NoSessionAssumption` |
| `PingsSpareTheLiving` | `SparesTheLiving`: a connection that carries frames is lost to a fault alone | the same |
| `SessionsKeepToChatLink` | `KeepsToChatLink`: `ChatSessions` implements `ChatLink` | the same |
| `LocalTypeCorrect`, `ConfigurationLoads`, `LiveConfigurationIsSaved`, `VersionNeverAhead`, `NoPlainTextSinceVersion1`, `KeyDecryptsHistory`, `BackfillIsComplete`, `DamageOnlyInWindows`, `PagingIsFreed`, `BadgesAreElsewhere`, `ScreenEndsConversation`, `ExhaustedMeansAll` | the eleven invariants of `LocalData`, and `LoadingEnds` | `ConfigAssumption`, `StoreAssumption`, `ViewAssumption` |
| `CallTypeCorrect`, `SilentAcceptIsAgreed` | `TypeOK`, `AnswersOnlyAgreed` | `CallAssumption` |
| `OnlyClicksLetIn` | `OnlyClicksAgree`: no timer, message or late failure lets a peer in | `CallAssumption` |
| `PairCallsAreShown`, `PairRingsAreShown`, `PairVoiceGoesToPeer` | `CallIsShown`, `RingIsShown`, `VoiceGoesToPeer` | `CallAssumption`, and `Pair`: there are two clients |

`HubAssumption`: `None` is no connection, the queue has room for one frame, the
bounds are numbers. `ChatAssumption`: two distinct clients. `CallAssumption`:
`None` is no client, and nobody is in its own contact list. `SessionAssumption`:
two distinct clients, one of which has the smaller id; numbers of negotiations are
positive. `ConfigAssumption`, `StoreAssumption`, `ViewAssumption`: the marks for no
file, a torn file, no seal and no contact are no documents, keys or contacts, and the
bounds are numbers.

*The hub.* `ChannelTracksMap` alone is not inductive: `register` closes the
channel of the connection it finds in the map, and one must know that this
connection is not itself about to be registered and is filed under its own user.
`HubInv` adds `MapInv` (what is in the map, under which user, and at which stage
of its handler) and `RelayingInv` (a relay has a destination). That no close
panics follows, since a channel in the map is open. For the order of frames,
`FifoInv` says that the numbers of one source in a queue increase, are larger
than what the destination has been shown and not larger than what was sent; a
source that is about to relay has queued nothing with its current number.
For presence, `ListedInv` says that each snapshot, each queued list and each view
has its reader in it, because a snapshot and its receivers come from one critical
section.

*Chat.* The marks are true because every frame and queued event that could set one is:
`FramesSound` says that an ack on its way is of a message the receiver stores or holds
in its event queue (unless it was ever killed), and that a receipt on its way is of
messages shown or buried beneath a page (rows are only ever appended, so what is
buried stays so: `BuriedAppend`). `ChatInv` joins it with `MarksInv` (what is marked
read is stored and was shown or lies beneath a page, what is on screen is marked), the
marks and the badge. `NoDuplicateRow` is inductive together with `TypeOK`. That what
is held or shown only grows is a lemma (`GrowsStep`), from which soundness of
everything an action leaves alone follows (`SoundGrows`).

*The mailbox.* A text on its way must be one that its author has stored, or the
mailbox could not take it: `FramesSound` therefore also says of texts that their author
is the other client and has them in its rows, and of acks and receipts whose messages
they are about. `OnlyWritten` adds that nobody stores what nobody could write.
`TakenStep` says how each action moves what is taken, and `MailboxStep` goes through
the actions once: `SendText` is `Write`, `OnFrame` of a new text `Take` (of one that is
held already, a stutter), `ReceiveText` is `Store`, `SelectContact` is `Show`,
`HandleAck` is `Confirm`, `HandleReceipt` is `Learn`, `Crash` is `Kill`; all else is a
stutter. The flush and every re-send are among the stutters, which is the point.

*Signaling.* `SparesTheLiving` needs that a ping which waits for its pong went over a
connection that carries nothing now (`AwaitsTheDead`): the flag is lowered by every
disconnect and every new connection, so a shot that outlives its socket finds it down;
and, from `NeverGivesUp`, that a socket which is being closed carries nothing.

*Chat sessions.* `RolesInv` carries the one-sidedness: only the smaller id has a
caller's session or a retry armed, and offers travel to the other only. `AccountInv`
follows each offer of the caller's session: it is still owed, or on its way, or the
other side owes the answer, or the answer is on its way or was applied, or one of the
two was lost or not made (`Missing`); `UnansweredWasLost` is the case in which all but
the last are excluded. `ChannelInv` says that a linked pair, and every side that holds
a channel open, still has its session, with ICE not new: a link between two fresh
sessions cannot come up over an open channel, which is what `ChatLink` forbids.

*Local data.* Each migration is first summed up by what a step of it may do
(`Migrations`); `SchemaInv` then says step by step how far the columns have come,
`DamageInv` that half of a migration is on the disk only while `phase` is in it or
after a fault in one of the windows, `IdsInv` and `SealInv` the same for the ids and
the seals. `SealInv` says that all seals are `Plain` or the key in use, that this key
is in the key file unless its write failed unseen, and that nothing is sealed yet
when a key is made.

*The screen.* `EndsIn` says of a list that it is the end of a set of rows. A page is
(`PageIsSuffix`), and never empty while there is an older row: a finite set has a
greatest element, which `Greatest` gets from the well-foundedness of proper subsets.
So a page put in front of the end of a conversation gives a longer end of it
(`OlderEnds`), and an empty one means that nothing is missing. `ViewInv` adds what
holds while the box over a cleared history is open, when old rows may still be on the
screen: either everything stored since is there, too, or a redial has selected a contact
behind the box and the screen is the end of its conversation.

*Calls.* `AgreeInv`: while a session is in a call its peer is the active one and an
agreed one, and a peer of the silent accept is agreed. Both additions are needed:
`ResumeCall` answers whoever `autoAccept` names, and `CallDropped` arms the silent
accept for the active peer, not for the session's. `OnlyClicksLetIn` rests on the same
invariant: the timers of the redial are armed by `CallDropped` for the active peer
while the session is in a call with it, so for one who is let in already.

*Two clients.* `WireInv` and `DeskInv` say, of any number of clients, that nobody
sends to, rings or redials itself and that an offer carries the name of its maker.
With two clients it follows that a bye comes from whoever rings, if anybody does
(`PeerRings`); that is what `ShownInv` needs and what a third caller breaks.
`SettledInv` says that a caller has settled on its own offer and a callee on another's,
so of two connected sessions one is the caller's. Both `ShownInv` and `SettledInv` except a
session whose stream has ended: its window is hidden, and a click on the call button that
is then there makes a caller of a callee in the same session.

**Proved only.** `NoDuplicateRow` is what `KeepsMailbox` says of the rows, so the run
checks the refinement alone; `LoadingEnds` (paging is not blocked by its own guard) is
proved and in no run.

**Model-checked only.** Liveness under fairness (`DeadLinkLeaves`,
`NoWriterLeak`, `EventuallyDelivered`, `ConnectedCallEnds`, `SignalingRecovers`,
`ChannelComesBack`), which with `ENABLED` is out of the prover's reach.
Induction over data and `RECURSIVE` operators cannot be handled by the installed
provers; no module uses them.

## 6. Not modelled, and what may come next

Not modelled: the media pipeline and its ducking (signal processing over samples),
ICE candidates, drawing and ringtone, log files, the third-party cipher, scripts and
packaging, the stand-alone audio lab. They keep no state a protocol property is
about, or their behaviour is that of a library.

What could still be added: a property of its own for the redial that a hang-up does
not cancel (`MW:829`, `MW:860`); chat sessions among three clients; presence lists
that overtake each other in `ChatSessions`; a client's crash during a call.
