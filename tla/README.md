# TLA+ models of the goldfish radio HAL

This directory holds TLA+ models of the radio HAL in `src/hals/radio` and
`src/unnamed` (the emulator's AT-command modem bridge), the TLC configurations
that check them, and `PROJECT.json`, which maps every model definition to the
source lines it translates and lists the runs, mutants, findings and hazards.

## 1. The system

```
 binder threads ──queueRequester──▶ mRequesterQueue ──▶ request thread (requestLoop)
   (RadioModem, RadioVoice, ...)                         │ getHostChannelPipe: join old reader,
                                                         │   open, start reader, init sequence
                                                         │ requester(pipe): Conversation::operator()
                                                         ▼   arm filter, write, wait_for(3s)
                                                   modem (qemu pipe)
                                                         │
 services' sinks ◀── broadcastResponse ◀── AtResponse::parse ◀── reader thread (readingLoop)
   atResponseSink: Conversation::send, else handleUnsolicited
```

Parts, their state and operations:

| part | source | state | operations |
|---|---|---|---|
| AtChannel | `AtChannel.cpp/.h` | request queue, host fd, reader thread, sink list, own Conversation | queueRequester, addResponseSink, requestLoop, getRequester, getHostChannelPipe, readingLoop, receiveResponses, broadcastResponse |
| Conversation | `AtChannel.cpp` | `mFilter` (pointer to the caller's filter), `mSink` (promise) | operator() (arm, write, wait/timeout, disarm), send |
| AtResponse parser | `AtResponse.cpp`, `Parser.h` | none (pure) | parse, parseCmds, per-tag value parsers |
| IdAllocator | `part_000`, `IdAllocator.h` | `mIdGenerator`, `mReturnedIds` | get, put |
| RadioData | `RadioData.cpp`, `part_000` | data calls, keepalive sessions, the allocator, under `mMtx` | setupDataCall, deactivateDataCall, startKeepalive, stopKeepalive, unsolicited handlers |
| RadioModem | `RadioModem.cpp` | `mRadioState` under `mMtx` | setRadioPower, requestShutdown, getImei, getHardwareConfig, getRadioCapability, +CFUN handler |
| RadioVoice, RadioNetwork, RadioSim, RadioMessaging, RadioConfig | `RadioVoice.cpp`, `part_003`, `part_002`, `RadioMessaging.cpp`, `RadioConfig.cpp` | cached call list, registration, SIM state, the STK command kept until the client reports the STK service running | requesters (each a Conversation or a bare write) and unsolicited handlers |
| main | `part_005` | the service objects | init sequence, registration, sink order |

How they interact: every requester of every service runs on the one request
thread, one at a time. Every response is read and parsed on the reader thread,
then offered to the channel's own Conversation (used only by the init
sequence). After that it goes to each service's sink in the order main()
added them, whether or not the channel's Conversation claimed it. A service's
sink offers the response to the service's own Conversation and handles it as
unsolicited when that Conversation does not claim it. RadioNetwork's sink
differs: it handles the response first and offers it afterwards.

Hard behaviours the code is exposed to:
- the request thread and the reader thread interleave;
- a wait can time out while the reply is being delivered;
- a reply can arrive late, or follow a line that was already claimed (the
  trailing OK);
- the channel is reset while its reader still reads it;
- start-up happens while services already take calls;
- byte chunks split a response anywhere;
- the id allocator is shared between two kinds of id.

## 2. Modules

### AtChannel.tla (with MC_AtChannel.tla)

This module models the channel together with the Conversations.

Each operation of `AtChannel.cpp` is an action:

| action | code |
|---|---|
| `QueueRequester(r)` | queueRequester |
| `AddResponseSink` | addResponseSink, as called by main() |
| `GetRequester` | getRequester and the test of `mHostChannel.ok()` |
| `OpenChannel` | getHostChannelPipe: join, open (which may abort), start the reader, then the init sequence as steps on `InitConv` |
| `ConvSend` | Conversation::operator() up to the write, including the write-error path |
| `Fire` | a bare `requestPipe(cmd)` whose result is ignored |
| `Receive`, `Timeout`, `Disarm` | the ready and timeout branches of operator() |
| `Finish` | the rest of requestLoop, including `mHostChannel.reset()` on false |
| `ReaderRead` | receiveResponses |
| `ReaderDeliver` | one step of broadcastResponse |
| `ReaderNextRead` | the next read: it aborts on a closed fd |

`ServiceSink` models a service's atResponseSink. `Send` models
Conversation::send.

Data is abstracted as follows:
- A response is a record `[id, kind, for]`. `for` is the id of the command
  the modem answered, or 0 if the response was unsolicited. `id` and `for`
  are history fields used only by the properties.
- A filter is the set of kinds it accepts.
- A requester is a program: its service and a sequence of steps, each either
  a Conversation or a fire-and-forget write.
- A step that gets no response ends the requester with `false`, as every
  requester in the code does when a Conversation returns null.

The modem is the environment:
- It answers the commands in order, with one of the response sequences
  `ReplyOf[cmd]` allows.
- It may send an unsolicited response at any time.
- It gets no fairness.

`MC_AtChannel` instantiates the module with:
- RadioModem and RadioVoice as the services;
- `getSupportedRadioTechs` (AT+CTEC=?, which the modem answers with +CTEC
  then OK);
- `dial` (ATD, answered with OK or +CME ERROR);
- `acceptCall` (ATA, fire and forget);
- one init command;
- unsolicited RING.

### AtParser.tla (with MC_AtParser.tla)

This module models the reader thread's framing loop: `receiveResponses`,
`receiveResponsesImpl` and `receiveOneResponse` around the stateless
`AtResponse::parse`, `parseCmds` and the +CMT/+CDS parsers. These are
written as operators over strings of one-character bytes, with the code's
0-based positions. The modem's output is fixed per scenario. Each read
returns any number of its leading bytes, and up to `MaxIntr` reads fail with
EINTR while a partial message is buffered. `MC_AtParser` gives a two-entry
tag table (one ordinary tag, one multiline tag) and eight scenarios:
single-line, multiline, +CMT, +CDS, the "> " prompt, a generic text line,
and CR LF framing.

### ResponseParsers.tla, RatUtils.tla

- `ResponseParsers` models `Parser` (Parser.h, and Parser.cpp inside
  RadioData.cpp): a parser is the record `[s, at, vals]`, with `at = -1`
  for the nullptr position. Skipping a byte or a string, reading an int
  with `std::from_chars` (sign, longest digit run, 32-bit range), reading
  up to a byte, and `remaining` are operators. A chain of `(...)` and
  `.skip(...)` calls is a sequence of steps applied with `FoldLeft`.
- On top of it sit the payload parsers of AtResponse.cpp: CPINR, CRSM,
  CFUN, CREG/CGREG/CEREG, CTEC and `getCurrentModemTechnology`, COPS,
  WRMP, CCSS, CSQ, CLCC, CCFCU, CCWA, CSIM, CGLA, CLIP, CLIR, CMUT, WSOS,
  CSCA, CSCB with `parseIds`, CMGS and CMGW. Each one translates its
  `parse` function, including its error paths (`makeParseErrorFor`).
- `RatUtils` models the ratUtils conversions (RadioData.cpp 756-882).
  A RadioTechnology bitmask is a set of technology names, and a modem
  bitmask is a set of ModemTechnology values 0..6.

`ReplyProbe` holds the properties. Its one variable, `reply`, is a reply
the modem writes: its bytes (`line`) and the values they are written from
(`want`). Each property runs the code's parser on the line and compares
the result with `want`. For the single-field replies `want` is the
response's fields as the code converts them (CFUN's state is OFF iff the
number is 0, CCWA's enable is mode = 1, CMUT, WSOS and CLIP test their
first number against 0), not the raw numbers. A rejection is compared as a rejection only,
because CMGW tags its ParseError as CMGS. The replies cover:
- the four forms of each registration report, with a one-digit cell and
  a multi-digit hex cell;
- the four +COPS forms, with zero to two operators;
- zero to two CLCC calls and CCFCU entries;
- every CSQ length from 1 to 23;
- the integer replies with a field too few or a byte too many;
- CRSM with and without a response;
- CSIM/CGLA with every announced length from 0 to 5;
- every subset of one RadioTechnology per family.

The renderings are constant definitions, so TLC computes them once.

### UsimToSim.tla

This module models iccIoForApp's GET RESPONSE branch (`part_002` 769-778).
The modem's +CRSM response text is a USIM FCP template in hex; the client
expects the 15-byte response of a GSM SIM.
- `Hex2Bin1`, `Hex2Bin`, `Bin2Hex1`, `Bin2Hex` translate hexbin.cpp
  (`part_006` 28-73). A byte is an integer 0..255; `Bin2Hex` uses
  Bitwise's `shiftR` and `&` as the code uses `>>` and `& 0xF`.
- `FindDes` and `FindSize` are the two scanning loops of convertUsimToSim,
  as RECURSIVE operators. The first scans byte by byte for tag 0x82, the
  second skips whole TLVs from there for tag 0x80.
- `ConvertUsimToSim` is the switch on the EF type, with LINEAR_FIXED's
  check of the absolute indices 2 and 3, and `SimResponse` the bytes it
  sets. Reading `bytesUSIM` past its end is undefined behaviour; the model
  records it (`readPastEnd`) and never picks a value for it.

`ReplyProbe` renders, for each file structure (transparent, linear fixed,
cyclic, and a DF), each record length, size and file id, the FCP template
a USIM gives, in upper and lower case hex. Next to it, it gives the
TS 51.011 response, written from the standard's layout rather than from
the code. `UsimResponseConverted` compares the two.

`MC_AtParser` composes the probe with the framing model. An initial state
is either a framing scenario with no reply, or the idle reader (nothing
pending) with one reply. A payload parser sees only the `string_view` after
the tag, so the two checks are independent. The state counts add up to
about 900, rather than multiplying.

### IdAllocator.tla, AbstractAllocator.tla

- `IdAllocator` models `get` and `put` of `IdAllocator` (`part_000`) over
  `mIdGenerator` and `mReturnedIds`, including the compaction of `put`.
- `AbstractAllocator` states what an allocator promises: hand out the
  smallest free id, and take back one in use.
- `RadioData` checks `AllocatorRefinement`: the detailed allocator
  implements the abstract one under `INSTANCE ... WITH inUse <- InUse`.

### RadioData.tla (with MC_RadioData.tla)

This module models setupDataCall, deactivateDataCall, startKeepalive and
stopKeepalive. Setup runs on the request thread: allocate a cid, AT+CGDCONT,
AT+CGCONTRDP, setIpAddr, insert; every failure path releases the id. The
other three run on binder threads. startKeepalive and stopKeepalive take
`mMtx` twice, so other threads can run between their halves. Binder threads
are symmetric model values.

### RadioPower.tla

This module models `setRadioPowerImpl` (RadioModem) on the request thread
and the +CFUN handlers of RadioModem, RadioNetwork and RadioSim on the
reader thread, in main()'s sink order. It also models the channel's opening
with the init sequence's final AT+CFUN?. The question is whether the three
caches agree with the modem, and whether a power request can be lost to a
stale cache.

### Stk.tla (with MC_SimCaches.tla)

This module models RadioSim's SIM Toolkit cache (`part_002`, RadioSim.h).
- `HandleCusatp(kind)` is the locked part of `handleUnsolicited(CUSATP)`.
  The command type picks an action: notify, proactive, or nothing for a
  REFRESH with SIM_RESET, which also clears `mStkServiceRunning`. While the
  service is not running, the command is kept in `mStkUnsolResponse`.
- `Indicate` is the unlocked call to stkEventNotify or stkProactiveCommand.
- `ReportLocked(i)` is the locked part of reportStkServiceIsRunning on a
  binder thread: it sets the flag and `std::move`s the optional out.
  `MovedFrom` leaves the optional engaged with an empty command, number 0.
- `ReportSend(i)` is the unlocked send.

A command is its number in the modem's stream, and the client's
indications are a sequence.

### NetworkCache.tla (with MC_SimCaches.tla)

This module models RadioNetwork's cache of unsolicited reports (`part_003`
1226-1421). A report is its number in the modem's stream.
- `HandleCfun`, `HandleCreg`, `HandleCgreg`, `HandleCsq`, `HandleCops`,
  `HandleCtec`, `HandleCgfpccfg` and `HandleCtzv` are the locked parts of
  the handlers. Each one stores the report and computes what the handler
  will indicate after unlocking: a changed registration state, the signal
  strength and cell info when the radio is on, the physical channel config
  with mCreg's cell id, and the link capacity estimate for a secondary
  cell.
- `ReaderIndicate` is the unlocked part. It tests
  `mRadioNetworkIndication` and, if it is set, sends.
- setResponseFunctions is three steps on a binder thread:
  - `SetIndication` sets the pointers, without the lock;
  - `SnapshotForClient` copies mCsq, mCtzv and the power state under
    mMtx;
  - `SendToClient` sends the copies after unlocking.
- `RegSnapshot(op)` is the locked copy of mCreg made by
  getDataRegistrationState, getVoiceRegistrationState and
  getCellInfoList.
- `RegAnswer` answers from that copy after the requester's Conversations.
  NetworkRequests.tla models those Conversations; here they succeed or
  fail.
- `csqOn` is a history variable, not a variable of the code: the number of
  the last +CSQ stored while the radio was on (0 after +CFUN turns it
  off). `SignalReachesClient` compares the client's indications with it.

`MC_SimCaches.tla` composes Stk, RadioPower and NetworkCache as a disjoint
union. The three share no lock or variable. Each behaviour exercises one
part while the others rest in a reachable state with nothing left to do,
so the state counts add instead of multiplying.

### Requesters.tla and the service modules

`Requesters.tla` is the path every service requester shares:

| definition | code |
|---|---|
| `Call(op)` | a binder call that queues a requester (`queueRequester`) |
| `BinderAnswer(op, s)` | a binder call refused and answered on the binder thread |
| `Ready`, `Begin` | requestLoop takes the next requester; its first `Conversation::operator()` (arm the filter, write; a failed write returns null at once) |
| `ReadResponse` | the reader hands a line to the sinks; the armed filter claims it (`Conversation::send`) or it is turned away |
| `Timeout` | `wait_for(3s)` expires: disarm, return null |
| `Continue` | the requester's next Conversation |
| `Finish`, `Answer`, `Reply` | the requester answers through a response method and returns `status != INTERNAL_ERR`; false stops the model (a reset, modelled in AtChannel.tla) |
| `Abort` | `response->unexpected()`, a LOG_ALWAYS_FATAL |
| `Immediate`, `FireAndForget` | a bare `requestPipe(cmd)` whose result is ignored, answered at once |
| `ModemStep` | the environment: the modem reads one input and answers with any of its replies; AT+CMGS/AT+CMGW switch it to PDU mode |

The service modules give one action (or one table row) per requester, with
the filter and the statuses each accepted kind can give:

- `MessagingRequests`: sendSms and sendSmsExpectMore (prompt, then PDU) and
  writeSmsToSim, plus the one-Conversation requesters.
- `VoiceRequests`: call control (fire and forget), separateConnection,
  dial, emergencyDial and exitEmergencyCallbackMode (`DialRequester`), the
  supplementary-service setters setCallForward, setCallWaiting and setClir
  (`SupplementaryRequester`), the queries, getCurrentCalls, getMute and setMute.
- `SimRequests`: the PIN/PUK requesters with their AT+CPINR follow-up,
  setFacilityLockForApp, getIccCardStatus with its ICCID query,
  iccOpenLogicalChannel and twelve one-Conversation requesters.
- `NetworkRequests`: the getCellIdentityImpl chain (+COPS, then +CTEC) with
  its four callers. The two registration-state requesters ask +CTEC a third
  time. There are eleven one-Conversation requesters.
- `ConfigRequests`: RadioConfig's getSimSlotsStatus. It sends AT+CPIN?; a
  +CPIN or the CME message "14" (busy) goes on to AT+CICCID, "10" (not
  inserted) answers an absent slot, and any other message answers
  INTERNAL_ERR (`goto failed`). The other RadioConfig calls answer on the
  binder thread (`ConfigBinderCall`); setNumOfLiveModems and
  setPreferredDataModem may answer INVALID_ARGUMENTS.
- `ModemRequests`: RadioModem's getImei (AT+CGSN=2, any plain line) and
  getHardwareConfig/getRadioCapability, which both run
  getSupportedRadioTechs (AT+CTEC=?). The other RadioModem calls answer on
  the binder thread (`ModemBinderCall`). setRadioPower and requestShutdown
  are RadioPower.tla's.

`ServiceRequests.tla` composes all six services on the one request
thread. The data is abstracted as follows:
- A response line is its kind plus the number of the input it answers.
- A CME error is "CME", since getErrorAndLog never gives INTERNAL_ERR.
- Where the status depends on a payload (a parse of its text, a CME
  message, +COPS naming no current operator), the requester may answer any
  of the statuses the code gives. An `Unexpected` outcome aborts.

## 3. Runs

| run | cfg | expect | what it shows |
|---|---|---|---|
| atchannel_safety | MC_AtChannel.cfg | pass | `TypeOK`; `NoDanglingFilter`: a filter is armed only while its Conversation is inside operator(); `ConversationReturns`: every armed Conversation is disarmed |
| atchannel_correlation | MC_AtChannel_CorrelatedReply.cfg | violation | a Conversation receives a response to an earlier command: the init sequence's OK is claimed again by `dial` while the reader is still fanning it out |
| atchannel_link_failure | MC_AtChannel_LinkFailureNotFatal.cfg | violation | a failed write makes the requester return false; the reset closes the fd and the old reader's next read aborts the process |
| atchannel_reconnect | MC_AtChannel_RequestsServed.cfg | violation | after that reset the request thread joins a reader that can never exit, so queued requesters starve |
| parser_framing | MC_AtParser.cfg | pass | `NoCorruption`, `AllDelivered`: however reads split the stream, the responses are the modem's, in order. `RegRoundTrip`, `CopsRoundTrip`, `ClccRoundTrip`, `CcfcuRoundTrip`, `CsqFieldsByPosition`, `FieldRepliesRoundTrip`: every bounded reply decodes to the values it was written from. `AllowedTechnologyConsistent`: the technology written with AT+CTEC is the bitmask's most capable one, and it reads back. `UsimResponseConverted`: iccIoForApp turns every FCP template of the probe into the TS 51.011 response a GSM SIM gives, and answers GENERIC_FAILURE for a DF |
| parser_incomplete_fatal | MC_AtParser_IncompleteNeverFatal.cfg | violation | a read ending inside a tag name ("+", "+C") makes parseCmds return -1 and the reader abort |
| parser_interrupted | MC_AtParser_Interrupted.cfg | violation | an EINTR read with a partial message buffered leaves zero bytes inside the next response |
| radiodata_ids | MC_RadioData.cfg | pass | `IdsExclusive`: no cid or session handle is leaked or held twice; `ReturnedBelowGenerator`; `AllocatorRefinement` |
| power_caches | MC_SimCaches.cfg | pass | `CachesAgreeAfterRegistration`: once settled, the three caches agree with the modem; `CommandIndicatedOnce`: no +CUSATP reaches the client twice, however the reader and two reportStkServiceIsRunning calls interleave; `SignalReachesClient`: once setResponseFunctions has returned with the radio on and the reader idle, the client has been told a signal strength at least as new as the last +CSQ stored since power-on, however the unlocked pointer store, the snapshot and the reader's +CSQ handler interleave |
| power_lost_request | RadioPower_Honoured.cfg | violation | a late +CFUN reply rolls RadioModem's cache back, so a later power request is answered success without being sent |
| service_requests | ServiceRequests.cfg | pass | `PduOnlyAtPrompt`: the modem never gets a PDU outside PDU mode or a command inside it; `RequestsAnswered`: every binder call is answered unless the channel is reset or the process aborts |
| getmute_reply | MC_ServiceRequests_GetMute.cfg | violation | `ReplyRecognised`: getMute's filter turns away the reply to its own AT+CLCC and the Conversation times out |

Every property of a passing run has a mutant listed in `PROJECT.json`: an
operator defined just before the mapped definition that it replaces. Under
the run's own cfg, TLC finds the property violated.

### Bounds

- AtChannel: `MaxOpens = 2` is the smallest bound at which a reset
  starts a reopen and so reaches the join. The reopen never completes: the
  join blocks on a reader that does not exit. `MaxUnsol = 1`. Three requesters, each
  queued at most once. Two services, so a response can pass one sink before
  reaching the armed one. About 295,000 states in about 70 s.
- AtParser: eight scenarios cover every branch of receiveOneResponse, and
  `MaxIntr = 1`. The reply probes take about 300 replies. Each value was
  picked to reach a branch of its parser: negative numbers, INT32_MAX,
  multi-digit hex, a name "0", an empty list, and a count just past the
  longest CSQ.
- RadioData: `MaxId = 4`, `MaxSetups = 3` and two binder threads. This is
  enough for a setup, a keepalive and a deactivation to race over the
  shared ids, and for returned ids to be handed out again.
- RadioPower: three power requests, so that the reply to one request can
  arrive after a later request has already updated the cache.
- Stk: `MaxCusatp = 3` and `MaxReports = 2`. Three commands are enough for
  one to be kept, then a SIM reset, then one sent at once. Two reports make
  the second report find the moved-from optional. About 560 states.
- NetworkCache: `MaxUnsol = 3` and `MaxCalls = 2`. Three reports are
  enough for a +CFUN, a +CSQ and a +CREG to land on either side of
  setResponseFunctions' three steps and of a requester's copy and answer.
  The composed run has about 1.2 million states, in about 50 s.
- ServiceRequests: `MaxRequests = 2`. Two queued requesters are what a
  correlation or a reset needs. Every requester of the four services is
  enabled; about 483,000 states in about 150 s.
  `MC_ServiceRequests_GetMute.cfg` restricts `Ops` to getMute.

`CHECK_DEADLOCK FALSE` is set where bounded traffic runs out. The request
thread then waits on an empty queue and the reader in read, which is the
program's idle state. A reset or an abort also stops the model, as it stops
the request path in the code.

### Fairness

- The request thread, the reader and the 3-second timeout are weakly fair.
  They are OS threads that run whenever they are not blocked, and
  `wait_for` always returns.
- The modem and the binder callers get no fairness. The HAL cannot make the
  modem answer or make a client call.

## 4. Findings

Recorded with runs in `PROJECT.json`: the correlation, link-failure and
reconnect findings, the two parser findings, the lost power request, and
getMute.

The following bugs were seen while modelling. They are recorded as hazards,
without runs of their own:
- getRemainingRetries (`part_002:166`) waits for CPINR. But `CPINR::id()`
  is "CPIN" (AtResponse.h:94), so no line parses as CPINR.
  - "+CPIN: type,n,max" fails the CPIN table and becomes a ParseError
    tagged CPIN, which `holds<CPINR>()` accepts. A wrong PIN or a refused
    SIM facility lock is then answered INTERNAL_ERR at once, with no retry
    count, and the channel is reset.
  - A +CME ERROR to AT+CPINR is turned away and waits 3 s. With only
    supplyIccPinForApp enabled, `ReplyRecognised` fails within 9 steps.
- getOperator, getAllowedCarriers and getCellIdentityImpl call
  `unexpected()`, which aborts, when +COPS names no current operator.
  "+COPS: 0,0,0", the answer while not registered, does that.
- getCellIdentityImpl answers INTERNAL_ERR for EVDO, so every caller resets
  the channel.
- setMute answers a timeout through getCurrentCallsResponse.
- setGsmBroadcastConfig answers through setSmscAddressResponse.
- changeIccPin2ForApp answers through supplyIccPin2ForAppResponse.
- setClir writes "AT+CLIR: n".
- writeSmsToSim passes "AT+CMGW=%d,%d" to std::format, which has no printf
  placeholders, so the literal "%d,%d" is written (RadioMessaging.cpp:439).
  sendUssd likewise writes `AT+CUSD=1,"%s"` without the USSD string
  (RadioVoice.cpp:1075). The models write these literal commands and let
  the modem answer them with any reply.

Found with the ResponseParsers operators:
- `CSCB::parseIds` skips the comma after a single id without storing the
  id. `+CSCB: 0,"1,5-7","0"` decodes to the one range 5-7.
  setGsmBroadcastConfig writes exactly such lists, so
  getGsmBroadcastConfig reads back fewer ids than were set.
- `CMGW::parse` tags its ParseError as CMGS. writeSmsToSim's filter
  `holds<CMGW>()` turns it away and waits out the 3 s timeout.
- `CPINR::parse` requires a trailing comma ("S,3,10," and not "S,3,10").
- setAllowedNetworkTypesBitmap writes the current technology as an index
  (`AT+CTEC=5,...` for LTE). `getCurrentModemTechnology` reads the field as
  a bitmask, so an echoed 5 reads back as GSM.
- `CLCK::parse` calls `front()` on a possibly empty payload.

Found with Stk.tla (with a scratch invariant; there is no run for it):
- reportStkServiceIsRunning moves the kept command out of the optional,
  which leaves the optional engaged. A second call, after one +CUSATP was
  kept, sends the client an empty proactive command. The trace has 5 states.
- reportStkServiceIsRunning sends the kept command after unlocking. The
  reader already sees the service running and sends a newer command first,
  so the client gets the commands out of order. The trace has 6 states.

Found with NetworkCache.tla (with a scratch invariant; there is no run
for it):
- setResponseFunctions sends the mCsq it copied under the lock after
  unlocking. The reader already sees `mRadioNetworkIndication` set and
  sends a newer +CSQ first, so the client ends up with the stale signal
  strength until the modem reports again. The trace has 7 states, and
  +CTZV is affected the same way.
- `mRadioNetworkIndication` is written by setResponseFunctions without
  mMtx and read by the reader without it: a data race. The model gives
  the reader either value.

Found with UsimToSim.tla:
- convertUsimToSim's size loop reads `bytesUSIM[i + 1]` when the last TLV
  is a lone tag byte, which reads past the vector. The template 62 05 82 02
  41 21 8A gives this.
- It reads the record length at the absolute index 7 and checks the
  absolute indices 2 and 3, so the result is right only when the
  descriptor is the template's first TLV. This is the case for every
  template a USIM gives.
- hex2bin1 reads any non-hex character as 0, so a malformed +CRSM text
  converts without error.

Found with the RadioConfig and RadioModem requesters (each trace is the one
`ReplyRecognised` gives when `GetMuteOps` in MC_ServiceRequests.tla names
that operation):
- getSimSlotsStatus goes on to AT+CICCID after +CME ERROR 14 (SIM busy).
  The ICCID filter accepts only a plain line, so a +CME ERROR answer waits
  3 s, answers INTERNAL_ERR and resets the channel. The trace has 9 states.
- getImei (AT+CGSN=2) and getSupportedRadioTechs (AT+CTEC=?) reject
  +CME ERROR the same way.
- getImei takes `substr(15, 2)` of the claimed line, which throws
  std::out_of_range for a line shorter than 15 characters and ends the
  process. ModemRequests lets a claimed line be short, so getImei may
  abort.

## 5. Not modelled, and why

- **The destructor and sink removal.** main() never returns and holds every
  service.
- **The init sequence.** Its 15 commands are modelled as one. They share
  one filter and one failure path.
- **Read returning 0 (EOF).** The emulator's pipe does not close. This is
  listed as a hazard.
- **The remaining payload parsers and conversions.** CmeError, CmsError
  and CPIN are string tables that the requester models use as reply
  kinds. CUSAT*, CLCK, CGDCONT, CGCONTRDP, CGFPCCFG, MBAU, CTZV and
  `CSQ::toSignalStrength` only copy fields. parseAuthData and base64 are
  byte conversions over OpenSSL. The requester
  models take any status a payload can give, and the parsers are checked
  apart from them.
- **RadioVoice's call list** and its unsolicited handlers only forward
  payloads. The binder-only flag getters and setters of RadioNetwork (N1
  mode, null cipher, NR dual connectivity) write or read one bool under
  the lock.
- **Binder-only calls.** Many calls answer from a cache under a lock or
  answer at once, and hold no shared protocol state.
- **RadioIms, Sap, ImsMedia.** RadioIms (`part_004`) and ImsMedia answer
  every call at once with a constant, and their sinks ignore every
  response. Only Sap's declaration (`part_004`) is under `src/`. None of
  them touches the channel beyond the sink main() adds.
- **The first revision in RadioVoice.cpp.** Lines 1-500 hold an earlier
  revision of the file, concatenated before the current one (501-1336). Most
  of its calls answer REQUEST_NOT_SUPPORTED. Only the current revision is
  modelled.
- **Out of TLC's reach or not the HAL.** The Java SdkSetup activity and the
  build files.

## 6. Later work

- Violation runs for the parser findings: the CSCB set/get round trip and
  the CMGW error tag.
- The remaining value parsers (CLCK, CUSAT*, CGCONTRDP).
- A property that every call is answered through its own response method.
  It would catch getMute, setMute, setGsmBroadcastConfig and
  changeIccPin2ForApp.
- A run of its own for setResponseFunctions' stale signal strength.
- A property about the registration requesters' copy of mCreg combined
  with the operator of their later +COPS? (`part_003:546`).
