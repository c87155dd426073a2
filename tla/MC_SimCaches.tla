---------------------------- MODULE MC_SimCaches ----------------------------
(* Three caches fed by the reader thread: the radio power state           *)
(* (RadioPower.tla, RadioSim's with RadioModem's and RadioNetwork's), the *)
(* SIM Toolkit command (Stk.tla) and RadioNetwork's registration, signal  *)
(* and NITZ reports (NetworkCache.tla).  They share no lock and no        *)
(* variable, so a behaviour exercises one of them while the others rest   *)
(* in a state the program reaches and from which they have nothing left   *)
(* to do; the states of the three add instead of multiplying.             *)
EXTENDS Integers, Sequences

CONSTANTS MaxRequests, MaxCusatp, MaxReports, MaxUnsol, MaxCalls

VARIABLES modemOn, toModem, wire, radioState, nSinks, bcast, queue, nReq,
          rt, cur, opened, sinksAtOpen, lastAck,
          stkServiceRunning, stkUnsolResponse, nCusatp, reader, report,
          indications,
          radioOn, creg, cgreg, csq, ctzv, operator, radio, primaryBw, secondaryBw,
          indication, nUnsol, netReader, binder, req, nCalls, answers, client, csqOn

Power == INSTANCE RadioPower
Toolkit == INSTANCE Stk
Network == INSTANCE NetworkCache WITH reader <- netReader

powerVars == <<modemOn, toModem, wire, radioState, nSinks, bcast, queue, nReq,
               rt, cur, opened, sinksAtOpen, lastAck>>
stkVars == <<stkServiceRunning, stkUnsolResponse, nCusatp, reader, report,
             indications>>
netVars == <<radioOn, creg, cgreg, csq, ctzv, operator, radio, primaryBw, secondaryBw,
             indication, nUnsol, netReader, binder, req, nCalls, answers, client, csqOn>>

\* Every power request answered and settled after all sinks were added.
PowerAtRest ==
  /\ modemOn = FALSE /\ toModem = <<>> /\ wire = <<>>
  /\ radioState = [s \in Power!Services |-> FALSE]
  /\ nSinks = Len(Power!PowerSinks) /\ bcast = 0
  /\ queue = <<>> /\ nReq = MaxRequests /\ rt = "idle" /\ cur = FALSE
  /\ opened = TRUE /\ sinksAtOpen = Len(Power!PowerSinks) /\ lastAck = FALSE

\* The service reported running before the modem sent anything, then every
\* +CUSATP was a proactive command sent on at once.
StkAtRest ==
  /\ stkServiceRunning = TRUE /\ stkUnsolResponse = Toolkit!NoCmd
  /\ nCusatp = MaxCusatp /\ reader = Toolkit!ReaderIdle
  /\ report = [i \in Toolkit!Reports |-> [pc |-> "done", cmd |-> Toolkit!NoCmd]]
  /\ indications = [k \in 1..MaxCusatp |-> [ind |-> "PROACTIVE_CMD", cmd |-> k]]

\* setResponseFunctions ran while the radio was off, then the modem sent
\* only +CFUN: 0, and every registration requester's conversation failed.
NetAtRest ==
  /\ radioOn = FALSE /\ creg = [n |-> 0, home |-> FALSE]
  /\ cgreg = 0 /\ csq = 0 /\ ctzv = 0 /\ operator = FALSE /\ radio = FALSE
  /\ primaryBw = 0 /\ secondaryBw = 0 /\ indication = TRUE
  /\ nUnsol = MaxUnsol /\ netReader = Network!ReaderIdle
  /\ binder = [pc |-> "done", out |-> <<>>] /\ req = Network!ReqIdle
  /\ nCalls = MaxCalls /\ client = <<>> /\ csqOn = 0
  /\ answers = [k \in 1..MaxCalls |->
                  [op |-> "getCellInfoList", ok |-> FALSE, state |-> 0, cell |-> 0]]

MCInit == \/ Power!Init /\ StkAtRest /\ NetAtRest
          \/ PowerAtRest /\ Toolkit!Init /\ NetAtRest
          \/ PowerAtRest /\ StkAtRest /\ Network!Init

MCNext == \/ Power!Next /\ UNCHANGED <<stkVars, netVars>>
          \/ Toolkit!Next /\ UNCHANGED <<powerVars, netVars>>
          \/ Network!Next /\ UNCHANGED <<powerVars, stkVars>>

MCSpec == MCInit /\ [][MCNext]_<<powerVars, stkVars, netVars>>

(* RadioPower's CachesAgreeAfterRegistration: once everything in flight   *)
(* has settled, the three services' mRadioState equal the modem's state. *)
CachesAgreeAfterRegistration == Power!CachesAgreeAfterRegistration

(* Stk's CommandIndicatedOnce: every +CUSATP reaches the client at most   *)
(* once, however the reader and reportStkServiceIsRunning interleave.     *)
CommandIndicatedOnce == Toolkit!CommandIndicatedOnce

(* NetworkCache's SignalReachesClient: once setResponseFunctions has     *)
(* returned and the reader is idle, a client of a radio that is on has    *)
(* been sent the last +CSQ of this power-on or a newer one, however the   *)
(* unlocked pointer write interleaves with the reader's handlers.         *)
SignalReachesClient == Network!SignalReachesClient
=============================================================================
