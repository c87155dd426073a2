---------------------------- MODULE RadioPower ----------------------------
(* The radio power state as the HAL keeps it.  The modem holds the real    *)
(* state (AT+CFUN).  Three services cache it in mRadioState under their   *)
(* own mutex:                                                              *)
(*  - RadioModem.cpp, whose setRadioPowerImpl runs on the request thread   *)
(*    for setRadioPower and requestShutdown;                               *)
(*  - RadioNetwork (part_003) and RadioSim (part_002), which learn it only *)
(*    from +CFUN lines delivered by the reader thread.                     *)
(* setRadioPowerImpl returns early when RadioModem's cache already equals *)
(* the request; otherwise it writes AT+CFUN=<n> and AT+CFUN? as bare      *)
(* writes (nobody waits for their replies), and then sets RadioModem's     *)
(* cache itself.  The +CFUN: <n> reply to the query reaches the three      *)
(* sinks later, in main()'s sink order.  The channel is opened by the      *)
(* first requester: the init sequence ends with AT+CFUN? and waits for its *)
(* OK, so its +CFUN line reaches the sinks already added.                  *)
EXTENDS Integers, Sequences

CONSTANTS MaxRequests   \* bound on setRadioPower/requestShutdown calls

\* The services whose sink handles +CFUN, in the order main() adds them.
PowerSinks == <<"RadioModem", "RadioNetwork", "RadioSim">>
Services == {PowerSinks[i] : i \in DOMAIN PowerSinks}

VARIABLES modemOn,      \* the modem's power state
          toModem,      \* commands written and not yet processed
          wire,         \* responses sent and not yet read
          radioState,   \* each service's mRadioState (TRUE = ON)
          nSinks,       \* how many of PowerSinks main() has added
          bcast,        \* the reader's position in broadcastResponse
          queue,        \* queued power requesters (their powerOn)
          nReq,         \* requests made so far
          rt,           \* the request thread's position
          cur,          \* powerOn of the running requester
          opened,       \* the channel is open and initialised
          sinksAtOpen,  \* nSinks when the channel began to open
          lastAck       \* powerOn of the last request answered success

vars == <<modemOn, toModem, wire, radioState, nSinks, bcast, queue, nReq,
          rt, cur, opened, sinksAtOpen, lastAck>>

None == "none"
SetCmd(on) == [cmd |-> "set", on |-> on]
QueryCmd == [cmd |-> "query", on |-> FALSE]
CfunLine(on) == [kind |-> "CFUN", on |-> on]
OKLine == [kind |-> "OK", on |-> FALSE]

Init == /\ modemOn \in BOOLEAN
        /\ toModem = <<>> /\ wire = <<>>
        /\ radioState = [s \in Services |-> FALSE]
        /\ nSinks = 0 /\ bcast = 0
        /\ queue = <<>> /\ nReq = 0
        /\ rt = "idle" /\ cur = FALSE
        /\ opened = FALSE /\ sinksAtOpen = 0
        /\ lastAck = None

\* setRadioPower(powerOn) on a binder thread: queue the requester.
SetRadioPower(on) ==
  /\ nReq < MaxRequests
  /\ queue' = Append(queue, on)
  /\ nReq' = nReq + 1
  /\ UNCHANGED <<modemOn, toModem, wire, radioState, nSinks, bcast, rt, cur,
                 opened, sinksAtOpen, lastAck>>

\* requestShutdown: the same requester with powerOn = false.
RequestShutdown == SetRadioPower(FALSE)

\* main() adds the next sink; it holds mResponseSinksMtx, which the
\* reader also holds for a whole broadcast.
AddResponseSink ==
  /\ nSinks < Len(PowerSinks) /\ bcast = 0
  /\ nSinks' = nSinks + 1
  /\ UNCHANGED <<modemOn, toModem, wire, radioState, bcast, queue, nReq, rt,
                 cur, opened, sinksAtOpen, lastAck>>

\* requestLoop takes the next requester; the first one opens the channel,
\* whose init sequence writes AT+CFUN? and waits for OK.
GetRequester ==
  /\ rt = "idle" /\ queue # <<>>
  /\ cur' = Head(queue) /\ queue' = Tail(queue)
  /\ IF opened
     THEN rt' = "check" /\ UNCHANGED <<toModem, sinksAtOpen>>
     ELSE /\ rt' = "init"
          /\ toModem' = Append(toModem, QueryCmd)
          /\ sinksAtOpen' = nSinks
  /\ UNCHANGED <<modemOn, wire, radioState, nSinks, bcast, nReq, opened,
                 lastAck>>

\* setRadioPowerImpl reads RadioModem's cache under mMtx: if it already
\* equals powerOn, the requester answers success at once.
CheckState ==
  /\ rt = "check"
  /\ IF cur = radioState["RadioModem"]
     THEN rt' = "idle" /\ lastAck' = cur
     ELSE rt' = "writeSet" /\ UNCHANGED lastAck
  /\ UNCHANGED <<modemOn, toModem, wire, radioState, nSinks, bcast, queue,
                 nReq, cur, opened, sinksAtOpen>>

\* requestPipe("AT+CFUN=<n>").
WriteSet ==
  /\ rt = "writeSet"
  /\ toModem' = Append(toModem, SetCmd(cur))
  /\ rt' = "writeQuery"
  /\ UNCHANGED <<modemOn, wire, radioState, nSinks, bcast, queue, nReq, cur,
                 opened, sinksAtOpen, lastAck>>

\* setRadioPowerImpl without the AT+CFUN? write.
WriteQuerySkipped ==
  /\ rt = "writeQuery"
  /\ rt' = "store"
  /\ UNCHANGED <<modemOn, toModem, wire, radioState, nSinks, bcast, queue,
                 nReq, cur, opened, sinksAtOpen, lastAck>>

\* requestPipe("AT+CFUN?"), so that the reader broadcasts the new state.
WriteQuery ==
  /\ rt = "writeQuery"
  /\ toModem' = Append(toModem, QueryCmd)
  /\ rt' = "store"
  /\ UNCHANGED <<modemOn, wire, radioState, nSinks, bcast, queue, nReq, cur,
                 opened, sinksAtOpen, lastAck>>

\* mRadioState = newState under mMtx, then the success response.
StoreState ==
  /\ rt = "store"
  /\ radioState' = [radioState EXCEPT !["RadioModem"] = cur]
  /\ rt' = "idle" /\ lastAck' = cur
  /\ UNCHANGED <<modemOn, toModem, wire, nSinks, bcast, queue, nReq, cur,
                 opened, sinksAtOpen>>

RequestThread == GetRequester \/ CheckState \/ WriteSet \/ WriteQuery
                 \/ StoreState

\* The modem executes the oldest command: AT+CFUN=<n> switches the radio
\* and answers OK; AT+CFUN? answers +CFUN: <n> then OK.
ModemStep ==
  /\ toModem # <<>>
  /\ LET c == Head(toModem) IN
       IF c.cmd = "set"
       THEN modemOn' = c.on /\ wire' = Append(wire, OKLine)
       ELSE wire' = wire \o <<CfunLine(modemOn), OKLine>>
            /\ UNCHANGED modemOn
  /\ toModem' = Tail(toModem)
  /\ UNCHANGED <<radioState, nSinks, bcast, queue, nReq, rt, cur, opened,
                 sinksAtOpen, lastAck>>

\* The reader reads OK: the init sequence's Conversation claims it while
\* it waits; otherwise no sink does anything with it.
ReadOK ==
  /\ bcast = 0 /\ wire # <<>> /\ Head(wire).kind = "OK"
  /\ wire' = Tail(wire)
  /\ IF rt = "init"
     THEN rt' = "check" /\ opened' = TRUE
     ELSE UNCHANGED <<rt, opened>>
  /\ UNCHANGED <<modemOn, toModem, radioState, nSinks, bcast, queue, nReq,
                 cur, sinksAtOpen, lastAck>>

\* The reader reads +CFUN and starts broadcasting it.
ReadCfun ==
  /\ bcast = 0 /\ wire # <<>> /\ Head(wire).kind = "CFUN"
  /\ bcast' = 1
  /\ UNCHANGED <<modemOn, toModem, wire, radioState, nSinks, queue, nReq, rt,
                 cur, opened, sinksAtOpen, lastAck>>

\* broadcastResponse hands +CFUN to the next sink, if main() added it; its
\* handleUnsolicited(CFUN) stores the state under the service's mutex.
DeliverCfun ==
  /\ bcast \in 1..Len(PowerSinks)
  /\ IF bcast <= nSinks
     THEN radioState' = [radioState EXCEPT ![PowerSinks[bcast]] = Head(wire).on]
     ELSE UNCHANGED radioState
  /\ IF bcast = Len(PowerSinks)
     THEN bcast' = 0 /\ wire' = Tail(wire)
     ELSE bcast' = bcast + 1 /\ UNCHANGED wire
  /\ UNCHANGED <<modemOn, toModem, nSinks, queue, nReq, rt, cur, opened,
                 sinksAtOpen, lastAck>>

Reader == ReadOK \/ ReadCfun \/ DeliverCfun

Next == \/ \E on \in BOOLEAN : SetRadioPower(on)
        \/ RequestShutdown
        \/ AddResponseSink
        \/ RequestThread
        \/ ModemStep
        \/ Reader

Spec == Init /\ [][Next]_vars

-----------------------------------------------------------------------------
\* Nothing is in flight: no requester queued or running, no command
\* unprocessed, no response unread.
Quiescent == opened /\ queue = <<>> /\ rt = "idle" /\ toModem = <<>> /\ wire = <<>>
             /\ bcast = 0

(* Once everything in flight has settled, the radio is in the state of    *)
(* the last setRadioPower or requestShutdown that was answered success,   *)
(* even when main() had added every sink before the channel opened.       *)
(* setRadioPowerImpl trusts RadioModem's cache to skip the AT+CFUN=<n>    *)
(* write; the property says that trust is never misplaced.                *)
PowerRequestHonoured ==
  Quiescent /\ sinksAtOpen = Len(PowerSinks) /\ lastAck \in BOOLEAN =>
    modemOn = lastAck

(* Once everything in flight has settled, RadioModem, RadioNetwork and    *)
(* RadioSim all hold the modem's power state, provided main() had added   *)
(* their sinks before the first requester opened the channel.  This is   *)
(* what the AT+CFUN? write after AT+CFUN=<n> is for: the two caches that  *)
(* setRadioPowerImpl does not set learn the new state from the reply.     *)
CachesAgreeAfterRegistration ==
  Quiescent /\ sinksAtOpen = Len(PowerSinks) =>
    \A s \in Services : radioState[s] = modemOn

(* The same without the proviso: the caches agree with the modem however  *)
(* the start-up of main() and the first request interleave.               *)
CachesAgree == Quiescent => \A s \in Services : radioState[s] = modemOn
=============================================================================
