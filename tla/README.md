# Verification of SipB

TLA+ models, TLC runs and TLAPS proofs for the two SIP device clients of this
repository: `sipB::SipBClient` (a device of a "SIP-B" video platform: it
registers, answers queries and serves video and talk calls over RTP) and
`gb28181::Gb28181Client` (the GB28181 device: it registers, sends keepalives and
reports its position to subscribers). There are no tests and no documents in the
repository; the comments in the source are its only claims.

`PROJECT.json` lists the components, runs, mutants, findings, hazards and
theorems, and maps every modelling definition to the lines it stands for.

## 1. The system

| Component | State it keeps | Operations | What makes it correct |
|---|---|---|---|
| `SipBClient`: threads and event loop (`SipBClient.cpp`) | `_ex_ctx`, `_running`, `_event_thread`, `_run_list` | `init`, `startRegister`, `stop`, `async`, `eventLoop` | the event thread never uses a quit context; what is posted is run; `stop()` returns |
| `SipBClient`: registration and MESSAGEs | `_status`, `_wait_answer_event`, `_resource_reported`, `_last_register_time` | REGISTER replies, the resource report, the queries, PTZ, snapshots, `sendMessageResponse` | an event is owned by one place and freed once; a request is answered at most once |
| `SipBClient`: calls | `_active_sessions`, `_rtp_port` | `onEventInvite`, `onEventInviteAck`, `closeCall`, socket errors | one session per type; the application's media is started and stopped in step with its session; no session outlives its call |
| `RtpSession` (`RtpSession.cpp`) | tracks, mode, ports, `_client`, `_last_sr_time_ms` | SDP offer and answer, `onStart`, sending, reports, receiving | the preferred track is chosen; the session is what was answered; a stream has a recent report |
| `RtpContext` receive side | `_recv_buffer`, `_expected_seq` | `onRecvRtp` | payloads are played in the order they were sent |
| `RtpContext` packetizer | `_seq` | `inputH264`, `inputH265`, `inputPCMA` | a frame can be put together from its packets; numbers are consecutive |
| `RtcpContext` | sender counters, report blocks | count, build and parse reports | a report tells what was sent; the last report received is kept |
| `Gb28181Client`: life cycle and queries | `_ex_ctx`, `_running`, `_event_thread`, `_status`, the context's lock | `init`, `startRegister`, `stop`, `handleCatalogQuery`, `handleDeviceInfoQuery`, `sendMessage` | nobody uses a quit context or keeps its lock; queries are acknowledged, then answered |
| `Gb28181Client`: registration | `_status`, `_last_register_time`, `_last_keep_alive_time`, `_last_keep_alive_response_time` | `checkKeepAlive`, `checkRefreshRegister`, REGISTER events | the binding is refreshed before it ends; only a silent platform is given up |
| `Gb28181Client`: subscriptions | `_subscribe_list` | `handleSubscribe`, `checkSubscribe` | reports come in time and end with the subscription |
| data types; `SipTools`, `XmlTools`; `main` | none that lasts | XML bodies, logging | formats |

How they interact: the application's *control thread* calls `init`,
`startRegister` and `stop`. `startRegister` starts the client's *event thread*,
which takes events from the eXosip context, and calls the application's
callbacks. The application answers a query later, on *its own threads*, with
`async()`; the *poller threads* of ZLToolKit read the RTP sockets and report
their errors with `async()` too. `async()` appends a closure to `_run_list`,
which the event thread runs at the end of each iteration. A session's application
thread and a poller thread share its socket, its counters and the time of its last
report without a lock. `Gb28181Client` has no run list: the application answers a
query by sending on its own thread, under the eXosip context's recursive lock,
which eXosip's own thread takes as well.

The hard behaviours are the order of arrivals, completions, socket errors,
CANCEL, BYE and ACK around that loop; a run list that is copied and never
emptied; `stop()` and a restart while requests and calls are open; packets
reordered, lost, repeated and wrapped around 16 bits; two threads that send on one
stream; a completion during or after `stop()`; and timers that compare noted times
with now, over a restart too. `PROJECT.json` lists every hazard at its line.

## 2. The modules

| Module | Models | State and actions |
|---|---|---|
| `SipBLoop` | the threads, `async()` and the skeleton of `eventLoop()` | `exCtx` numbers the contexts (0 is `nullptr`); `thread` is the event thread's place: `head` (the loop's test), `poll` (wait and process), `take` (copy of `_run_list`), `run`, `exited`; `posting` is an `async()` between its test and its append; `fault` is how the process died |
| `SipBMessages` | extends it with registration and MESSAGE requests | a request is its transaction id; `waiting` is `_wait_answer_event`; `answered`, `freed` and `notified` count what the client did; `Complete` is the application's completion, `RunAnswer` the closure it posted |
| `SipBCalls` | extends it with calls and sessions | a call is its call id; `call` is eXosip's view, `sessions` the keys of `_active_sessions`, `socket` the sockets alive; `started` and `stopped` count the application's callbacks |
| `RtpReceiver` | `RtpContext::onRecvRtp` and a network that loses, reorders and repeats | packets are named by the order of sending; `First`, `Expected` and `Unexpected` are the three ways through the function |
| `RtpSending` | `RtpSession`'s sending side: packetizer, report counters, first and periodic reports | `app` and `poller` are the places of the two threads; a frame is its length, a packet the bytes of the frame it carries; `handed` and `srAt` note what was given to the socket, `began` and `held` when the callback's report was begun and how long it stood, `wire` how far the peer can follow the TCP stream |
| `RtcpReports` | what `RtcpContext` reads in a datagram | operators only: packets as words, `Inside` and `Visited` (the walk of `parseCompound`), `Stored`, and the same said of packets (`Whole`, `Sent`) |
| `RtpSession` | extends it with the offer, the choice of the track, the answer, and RTCP on a started UDP session | an offer is read line by line, a line is a record; `stage` is how far the session is |
| `Gb28181Context` | `init`, `startRegister`, `stop`, the queries and the lock of the context | as in `SipBLoop`, contexts are numbered; `control` and `thread` are places, `completing` the place of an application thread inside `sendMessage`; `lock` is its holder, `"lost"` when it is never given back; `fault` is who used a context that does not exist |
| `Gb28181Registration` | the timed loop of `Gb28181Client`, over restarts | `now` in seconds; `WaitEvent` is the wait and the checks, `ProcessEvent` the event; `pending` is eXosip's REGISTER transaction, `accepted` whether the platform has accepted it, `bound` the platform's binding |
| `Gb28181Subscription` | the subscription list and the reports | an iteration of the loop is one step: only the event thread uses the list |
| `RequestPromise`, `CallPromise` | abstract specifications: what a platform and an application may rely on for a request and for a call | three actions each: hold, settle, complete; open, play, close |
| `SipBMessagesMC`, `SipBCallsMC` | the symmetry of the threads, requests or calls for TLC | |
| `SipBMessagesProofs`, `SipBCallsProofs`, `RtpReceiverProofs`, `RtpSendingProofs`, `RtpSessionProofs`, `Gb28181ContextProofs`, `Gb28181RegistrationProofs`, `Gb28181SubscriptionProofs` | theorems and proofs | |

`SipBMessages` and `SipBCalls` share the loop and the control thread and
nothing else: a closure or an event of one never touches the state of the
other (`_wait_answer_event` is keyed by tid, `_active_sessions` by cid), so that
each is checked with its own closures. Each implements an abstract specification:
`SipBMessages` maps a request to `held` while it is in `_wait_answer_event` and to
`settled` once it was processed and is no longer there; `SipBCalls` maps a call to
`open` or `playing` while it has a session, and to `closed` once its media was
stopped. `RtpReceiver`, `RtpSending` and `RtpSession` are three views of one
session that share no state: the receive buffer, the sending side, and what is
agreed before; `Gb28181Context`, `Gb28181Registration` and `Gb28181Subscription`
are the GB28181 client's use of its context, its clock and its list.

Operators introduced by "A defect:" are wrong variants of the operator after
them. No action uses them; they show, by taking its place in a mutant run, that
the properties can fail.

### Assumptions about the code's environment

- eXosip's context lock is recursive and its critical sections are those of one
  API call; the ids it gives are never reused in a process; `eXosip_quit` frees
  the queued events and drops the calls; `eXosip_event_wait` returns nothing
  only when the queue is empty; each ACK gives an `EXOSIP_CALL_ACK`. eXosip's own
  thread queues events under the lock, and `eXosip_quit` waits for that thread.
- `eXosip_find_free_port` finds any free port from the one given on, or none: other
  programs hold ports too.
- A ZLToolKit socket reports one error and then is closed. A UDP port may or may
  not be bindable. A TCP socket is open before the callback of its connection runs;
  what is sent before that is lost, what is sent after it arrives in the order of the
  calls. Any time may pass between two steps of the callback.
- An RTCP datagram is a compound of whole 32-bit words, the last packet of which may
  be cut off; an SDP offer has lines the code can read and lines it skips.
- `eXosip_register_build_register` fails while a REGISTER is pending, and sending
  one returns 0. eXosip resends with credentials by itself; a 401 that is final
  is reported as a failure the client ignores. The platform accepts a REGISTER before
  its 200 is there, and the 200 may be lost; all of it takes at most
  `TransactionTimeout`.
- `getCurrentMillisecond()` counts from the start of the program, so that a noted
  time of 0 stands for the program's start as well as for "never". Sessions and
  clients start at any time from then on.
- In the timed modules the event thread handles every event within the second it
  arrives in, and iterates at least once per second (`eXosip_event_wait(…, 1, 0)`).
- Callbacks are set before registering and do not call `stop()`.

## 3. The runs

| Run | Shows | Bounds, and why they are enough |
|---|---|---|
| `messages` | `EventOwnership`, `AnsweredOnce`, `EventThreadHasContext`, `KeepsRequestPromise`; `PostedIsReleased`, `StopReturns` | two threads, one request, two contexts, two completions: a completion can race another, the handler, `stop()` and a restart; requests share no entry, and the theorems lift the safety properties to any number |
| `calls` | `OneSessionPerType`, `MediaFollowsSession`, `NoStaleSession`, `KeepsCallPromise`; `EndedIsCleared`, `BrokenIsCleared` | two calls of equal or different types, two ports, two contexts, two queued events, two ACKs per call: a session is refused, left over or replaced, and an ACK is repeated |
| `rtp_order` | `PlayedConsecutively`, `NothingReadyBuffered`, `ReorderingRepaired` | numbers modulo 11 from 7 on, so that the wrap is crossed, a buffer of 4 that fills up, a network window of 5, the largest the buffer repairs |
| `rtp_sending` | `FramesReassemble`, `ReportRecent`, `ReportsHonest` | MAX_PAYLOAD 6: frames of 4, 10 and 12 bytes, less start codes of 3 and 4, are empty, one packet at and above the limit, and exact multiples of the fragments and one above for both video codecs; numbers modulo 4 wrap within a frame; two frames, a report interval of 2 and a clock that starts at 0 to 3 and goes on to 3: within the program's first interval, at its end and after it, with the callback held up for as long |
| `session_offer` | `TrackPreferred`, `RefusedOnlyUnknown`, `AnswerDescribesSession`, `LastReportKept` | offers of four lines: two sections with a codec each, or three codecs in one; compounds of two packets with up to two blocks, cut off after every word; offers with and without v=0 |
| `gb_context` | `OnlyLateCompletionsFault`, `RespondedAfterAcknowledged`; `StopReturns`, `QueryAcknowledged` | three queries, one of them without a callback, two contexts, two queued events, two completions on other threads |
| `gb_timing` | `BindingRefreshed`, `TimeoutAfterTwo` | keepalives every 2 s, Expires 10 s, transactions of at most 1 s (the smallest Expires with room for them), a start at 0 or at 6, up to second 16, two lives: two bindings, their refresh, a keepalive timeout and a restart fit in |
| `gb_reports` | `ReportedInTime`, `NotifiedWhileGranted` | Expires 0, 1 and 4, intervals 0 and 3, a start at 0 or at 3, up to second 9: grants end, are renewed and cancelled, before and after the program has run for the interval |

CHECK_DEADLOCK is off in every run: the process may die, a client that is
stopped may rest, and the bounds on contexts, events and time end a behaviour.

### Where the code breaks what its comments say

| Run | Claim | What happens |
|---|---|---|
| `messages_notify` | run-list closures are taken (`SipBClient.cpp:1068`) | they are copied, and a snapshot is notified again in every iteration |
| `calls_stop` | `stop()` cleans up (`SipBClient.h:30`) | sessions stay, and their application is not told to stop |
| `rtp_framing` | a length prefix before a report on TCP (`RtpSession.cpp:165`) | prefix and report are two sends, and a packet of the other thread comes between them |
| `gb_timeout` | three keepalives not answered (`Gb28181Client.cpp:223`) | three intervals without an answer are over before the third is sent: the client gives up after two |

The models also reach these states, which no run is spent on because the source
promises little about them:

- after `stop()` the status of `SipBClient` is still `REGISTERED`
  (`SipBClient.cpp:127`), so that a late report closure uses a null context
  (`InvokeReport`, fault `nullContext`);
- a call whose 200 is never acknowledged keeps its session: `EXOSIP_CALL_RELEASED`
  is in the default branch (`released` in `ProcessEvent` of `SipBCalls`);
- two sessions answered before the first ACK have the same RTP port
  (`Acceptable`: nothing is bound until the ACK, `SipBClient.cpp:1030`);
- a second `EXOSIP_CALL_ACK` of a session throws on the event thread
  (`RtpSession.cpp:21`; fault `exception`);
- the success of an un-REGISTER makes the GB28181 client registered
  (`Gb28181Client.cpp:605`; `ProcessEvent` of `Gb28181Registration`);
- the first keepalive timeout needs not even two keepalives: the response time is 0
  until the first 200 is processed, so that the un-REGISTER may follow the first keepalive (`TimedOut`); after a
  restart the response time is that of the life before, and a client restarted
  three intervals later unregisters at its first success; a client whose refresh
  failed and whose next REGISTER, under way already, is accepted three intervals after
  the last 200 does the same, although no keepalive of its was left unanswered;
- the REGISTERED status and the subscription list of the GB28181 client survive
  `stop()`;
- when the initial REGISTER cannot be built the context's lock is kept
  (`Gb28181Client.cpp:161`; `SendInitialRegister` of `Gb28181Context`), and the event
  thread, the application's completions and `stop()` wait for ever;
- a completion during or after `stop()` locks a context that is gone, because
  `sendMessage()` asks for the registration after it locked (line 542); one called
  after a restart answers the new platform;
- a packet that waits in the receive buffer for a lost one is still there when the lost
  one's number comes again, a cycle later, and is played behind the new packet of that
  number (`RtpContext.cpp:264`): `RtpContext.h:35` says payloads are played in order,
  and `PlayedConsecutively` says so of the packets of one cycle only;
- a session that starts within the program's first `SrInterval` sends packets without
  any report (`RtpSession.cpp:181`: the last report's time is 0); a report may be older
  than the interval by the time the connection's callback takes from sending it to
  noting the time (lines 57 and 58); and the two counters of the callback's report may
  be of different moments (`RtcpContext.cpp:246`);
- a GB28181 subscription whose interval is longer than the program has run gets no
  report until it has (`GB28181Def.cpp:132`: the last report's time is 0), although a
  later one is reported at once; and a client gets a first keepalive only when the
  program has run for `_keepalive_interval` (`Gb28181Client.cpp:230`);
- a binding whose Expires is too small for two transactions in its last third runs
  out although every REGISTER is answered in time (`Gb28181Client.cpp:282`, 606);
- on TCP the first packet of a frame may be sent before the connection's first
  report (`RtpSession.cpp:56`), and a session's destination is the last c= address with the
  selected track's port (lines 39 and 53);
- a cancelled GB28181 subscription is reported for the three seconds of grace, and
  a cancellation of one that does not exist creates it (`Entered`).

### Fairness

`SipBMessages` and `SipBCalls` assume weak fairness of the event thread's steps,
of a thread that is inside `async()`, and of `stop()` once it has been called:
they are operating-system threads that are not blocked (`_mtx` is held for one
list operation only). Nothing is assumed of the platform, of the application's
completions, of sockets or of the control thread's next call.

`Gb28181Context` assumes weak fairness of `startRegister()` and `stop()` once
called, of the event thread, and of each application thread inside `sendMessage()`.
The context's mutex is not fair, and the model does not assume it is: completions
are finitely many, so that no thread waits for ever for a lock that others keep
taking. A lock that is never given back is a state of its own, which both liveness
properties name. The other modules have no fairness.

## 4. The proofs

Each proof module states an inductive invariant `IInv`, proves
`Init => IInv` and `IInv /\ [Next]_vars => IInv'` with one step per action, and
concludes `Invariance == Spec => []IInv`; the theorems named after the properties
follow from it. They hold for every value of the constants under the modules'
`ASSUME`s, which TLC evaluates in the runs.

- **Messages.** `IInv == TypeOK /\ EventThreadHasContext /\ QueueInv /\
  OwnershipInv`. `EventOwnership` speaks of handled requests and is not inductive
  alone. `QueueInv` adds where a request is before it is handled: a queued request
  is of a known kind, is not handled, and is queued once. `OwnershipInv` adds that
  a request that is not handled is neither waiting nor freed, and that a request is
  answered at most as often as its event is freed, which is what makes a replayed
  closure harmless and gives `AnsweredOnce`. `EventThreadHasContext` is inductive
  with the types: `stop()` joins the thread before it clears the context.
- **Calls.** `IInv == TypeOK /\ OneSessionPerType /\ InviteInv /\ MediaInv /\
  EndInv`. `InviteInv`: an INVITE is queued once, and nothing has been done about
  its call before (`Fresh`). `MediaInv`: `started` is 1 exactly for sessions with a
  client, and a call without a session has been stopped at most once and at least
  as often as it was started; `MediaFollowsSession` is a consequence. `EndInv`: a call that is
  over and still known to the client, by its session or by an INVITE in the queue,
  has the event of its end in the queue or is one whose end is not reported;
  without the queued INVITE, `NoStaleSession` is not inductive, because a CANCEL
  may be queued while the INVITE it follows has not been handled.
- **Receive buffer.** `IInv == TypeOK /\ NothingReadyBuffered /\ OrderInv /\
  RepairInv`. `OrderInv` relates `played` and `expectedSeq`: within a cycle the
  expected number is that of the packet after the last one played, and `played` is a
  run of consecutive packets, which is `PlayedConsecutively`. The run of buffered
  packets that a flush plays is handled by a lemma on the sequence it appends.
  `ReorderingRepaired` says of every arrived packet with no gap in front of it that it
  was played; `RepairInv` says where all the others are. In a calm network (nothing
  lost or repeated, no packet later than half of the buffer, `Late`) the packet after
  the last one played has not arrived, and as long as it may still come every packet
  behind it that has arrived is in the buffer. That is inductive only if there is
  room, which the invariant must count: a buffered packet is behind the last one
  played, and there are fewer than `Late` numbers it can have, or it is one of at most
  `Late` packets that were overtaken by the first one played (`Fits`).

- **Refinements.** `RequestsKeepPromise` adds `ClosureInv` to the invariant: only a
  request whose completion was called has a closure in `posting`, `_run_list` or the
  batch, so that the step that settles a held request finds it completed.
  `CallsKeepPromise` needs `InviteInv` (an INVITE that is handled finds a call nothing
  has been done about) and `MediaInv` (a session that has no client has not been
  started, and a call that is closed is not stopped again). Both then map each action to a
  step of the promise or to a stutter.
- **Sending.** `IInv == TypeOK /\ PacketsFollow /\ FrameInv /\ CountInv /\
  ReportInv /\ TimeInv`. `FrameInv` says where the frame stands between two packets (the
  bytes cut off, the last packet's end, what is left), from which the last fragment is
  exact for every length and every `MaxPayload`. `CountInv`: the counters lag by the
  packet being sent. `ReportInv` follows the callback's report from one counter's read to
  the next: what was sent for good when it began (`began`) is in both, and neither is
  ahead of what has been sent, however many packets the application sends in between.
  `TimeInv`: the time noted last is no later than its report, or later by no more than
  the callback was held up between the two (`held`); the unsigned difference errs on
  the side of another report.
- **The GB28181 context.** `IInv == TypeOK /\ ControlInv /\ AskInv /\ fault #
  "event"`. `ControlInv` ties the control thread's place to the event thread's and to
  the lock: past the join there is no event thread. `AskInv`: only an acknowledged
  query is asked or completed.
- **Session.** `IInv == TypeOK /\ OfferInv /\ VersionInv /\ ChosenInv /\ AnswerInv /\
  LastReportKept`. `VersionInv`: no line is read before the v=0, which with `OfferInv`
  gives both directions of `RefusedOnlyUnknown`. `TrackPreferred` compares the track with the lines of an offer that
  were read many steps before; `OfferInv` carries them: the tracks are those of the
  usable lines, in their order (`Follow` gives the line of each track), and `media` is
  the section the last line stands in. The loop of `resolveTrack` ends with the first
  track of the highest rank (`BestVideoIs`), so that the first line of the best codec
  is that of the track (`Preferred`). `LastReportKept` compares what the walk over words
  stores with what was sent, packet by packet: a compound's words are the packets' words
  one behind the other (`InDatagram`), the walk visits the begin of each whole packet and
  nothing else (`VisitedIs`), and there it reads that packet's blocks (`ReportIs`). Both
  are inductions over the rounds of a loop. The library's induction theorems
  take an operator and cannot be used; the proofs take a *set* instead, from the fact that
  a set of numbers has a least element (`LeastElement`, `Induct`), and show from it that
  the function a loop is written as exists (`Recursion`).
- **Registration.** `IInv == TypeOK /\ LoopInv /\ BindInv /\ AliveInv`. `BindInv`: while the
  client takes itself for registered, its binding has either a REGISTER under way that
  was sent by `DueBy` (two thirds of Expires after an answer that may be a transaction
  younger than the binding), or a failure about to be handled, or is younger than that.
  A REGISTER takes another transaction until it is accepted; `InTime`, the condition of
  `BindingRefreshed`, says that both and the second an iteration waits fit into the last
  third. `AliveInv`: of a client that was kept alive, the first keepalive
  without an answer is sent within an interval of the last answer, and the second
  within an interval of the first, so that a platform cannot be given up at three
  intervals before two were left unanswered (`TimeoutAfterTwo`). It needs `keptAlive` to
  end with a refusal: a client that is refused while its next REGISTER is already under
  way sends no keepalive until that one is answered.
- **Subscriptions.** `IInv == TypeOK /\ GrantInv /\ SentInv /\ DueInv /\
  ReportedInTime`. `GrantInv`: the entry runs out with the grace after the last grant;
  `SentInv`: the time in the entry is that of the last report sent, or 0; `DueInv`: in a
  second the loop has iterated in, no report is due. The constants leave the start of the
  client and the intervals free, so that an interval may exceed the program's age.

Every safety property of a passing run, invariant or action property, and both
refinements are theorems. Only model-checked: the liveness properties
(`PostedIsReleased`, `EndedIsCleared`, `BrokenIsCleared`, `StopReturns` of both clients,
`QueryAcknowledged`), which rest on fairness and so on ENABLED, which the prover does
not reason about. The violations are counterexamples.

## 5. Not modelled

- **Bytes and texts**: RTP, RTCP and SDP layouts, XML bodies and the data types that
  make them, `SipTools`, `XmlTools`, logging. With them go the bits of the H.265
  fragment header (`RtpContext.cpp:143` takes the layer id's high bit from the wrong
  byte), the 16-bit length of an audio frame above 65523 bytes, the `fraction_lost`
  that `writeBlock` overwrites (`RtcpContext.cpp:62`), the NTP and RTP times of a
  report, and the sequence number of a renewed subscription (`GB28181Def.cpp:120`).
- **Functions nothing calls**: `parseSr`, `parseBye`, `buildRr`, `buildBye`.
- **Reception on TCP**: what is read begins with a length and is dropped as no RTP
  (`RtpSession.cpp:125`); there is nothing behind it to model.
- **The refresh times and SUBSCRIBE list of `SipBClient`**: the same code as in
  `Gb28181Client`, where it is modelled; `SipBMessages` lets a refresh be due in any
  iteration.
- **Lifetimes and data races**: owners that hand over an event, a session or a
  context are modelled; callbacks that capture a raw pointer (`RtpSession.cpp:53`)
  and races on `std::function` members are not. The sender's counters, which two
  threads use, are.
- **Calls the application must not make**: `stop()` from a callback of the event
  thread, callbacks set after registering, `startRegister()` on a running GB28181
  client (in `SipBLoop` it is a fault).
- `main.cpp`, the build files and the libraries, which are the environment.

## 6. Plan

The modules above cover the parts of the code that keep state. What would add most
now, in order: the sequence numbers of subscriptions; the refresh times of
`SipBClient` composed with its requests; and the destruction of a session while its
connection is being made. Of the proofs, what is left are facts about the abstract
specifications (that `RequestPromise` and `CallPromise` give the orders they promise,
and that the clients inherit them) and the exact conditions of the states listed in
section 3, such as when an offer is refused.
