---------------------------- MODULE NetworkCache ----------------------------
(* RadioNetwork's cache of the modem's unsolicited reports (part_003).  The *)
(* reader thread hands each +CFUN, +CREG, +CGREG, +CSQ, +COPS, +CTEC,      *)
(* +CGFPCCFG and +CTZV line to its handleUnsolicited, which stores it      *)
(* under mMtx and, after unlocking, indicates the client if                 *)
(* mRadioNetworkIndication is set.  A binder thread's setResponseFunctions *)
(* sets that pointer (without the lock), then copies the signal strength,  *)
(* NITZ and power state under mMtx and indicates them after unlocking.     *)
(* The request thread's getDataRegistrationState, getVoiceRegistration-    *)
(* State and getCellInfoList copy the registration (and signal) under mMtx *)
(* and answer after their Conversations, which NetworkRequests.tla models. *)
(* A report is identified by its number in the modem's stream: mCreg.n is *)
(* the +CREG whose state, area code and cell id the cache holds.           *)
EXTENDS Integers, Sequences

CONSTANTS MaxUnsol,   \* bound on the unsolicited lines the modem sends
          MaxCalls    \* bound on the requesters that read the registration

RegOps == {"getDataRegistrationState", "getVoiceRegistrationState", "getCellInfoList"}

VARIABLES radioOn,     \* mRadioState = ON
          creg,        \* mCreg: [n |-> its report, home |-> state = REG_HOME]
          cgreg,       \* mCgreg
          csq,         \* mCsq
          ctzv,        \* mCtzv (and mCtzvTimestamp)
          operator,    \* mCurrentOperator is engaged
          radio,       \* mCurrentRadio is engaged
          primaryBw,   \* mPrimaryBandwidth, the +CGFPCCFG that set it
          secondaryBw, \* mSecondaryBandwidth
          indication,  \* mRadioNetworkIndication is set
          nUnsol,      \* unsolicited lines read so far
          reader,      \* the reader between its unlock and its indications
          binder,      \* setResponseFunctions' progress and what it will send
          req,         \* the registration requester on the request thread
          nCalls,      \* registration requesters run so far
          answers,     \* what they answered
          client,      \* the indications the client got, in order
          csqOn        \* history: the last +CSQ stored since the radio went on

vars == <<radioOn, creg, cgreg, csq, ctzv, operator, radio, primaryBw, secondaryBw,
          indication, nUnsol, reader, binder, req, nCalls, answers, client, csqOn>>

cacheVars == <<radioOn, creg, cgreg, csq, ctzv, operator, radio, primaryBw, secondaryBw, csqOn>>

ReaderIdle == [pc |-> "idle", out |-> <<>>]
ReqIdle == [pc |-> "idle", op |-> "none", state |-> 0, cell |-> 0]

Init == /\ radioOn = FALSE
        /\ creg = [n |-> 0, home |-> FALSE]
        /\ cgreg = 0 /\ csq = 0 /\ ctzv = 0
        /\ operator = FALSE /\ radio = FALSE
        /\ primaryBw = 0 /\ secondaryBw = 0
        /\ indication = FALSE
        /\ nUnsol = 0
        /\ reader = ReaderIdle
        /\ binder = [pc |-> "none", out |-> <<>>]
        /\ req = ReqIdle
        /\ nCalls = 0
        /\ answers = <<>>
        /\ client = <<>>
        /\ csqOn = 0

Ind(name, v) == [ind |-> name, v |-> v]

-----------------------------------------------------------------------------
(* The reader: the locked part of a handler, then its indications.         *)

\* The reader reads line n (nUnsol + 1) and runs its handler's locked part,
\* leaving out the indications it will send after unlocking.
Handle(n, out) ==
  /\ reader' = IF out = <<>> THEN ReaderIdle ELSE [pc |-> "send", out |-> out]
  /\ nUnsol' = n

Unsolicited == reader.pc = "idle" /\ nUnsol < MaxUnsol

\* handleUnsolicited(CFUN): mRadioState = cfun.state.
HandleCfun(on) ==
  /\ Unsolicited
  /\ radioOn' = on
  /\ csqOn' = IF on THEN csqOn ELSE 0
  /\ Handle(nUnsol + 1, <<>>)
  /\ UNCHANGED <<creg, cgreg, csq, ctzv, operator, radio, primaryBw, secondaryBw,
                 indication, binder, req, nCalls, answers, client>>

\* handleUnsolicited(CREG): store it; a changed state is indicated as
\* networkStateChanged and imsNetworkStateChanged.
HandleCreg(home) ==
  /\ Unsolicited
  /\ creg' = [n |-> nUnsol + 1, home |-> home]
  /\ Handle(nUnsol + 1, IF creg.home # home
                        THEN <<Ind("networkStateChanged", 0), Ind("imsNetworkStateChanged", 0)>>
                        ELSE <<>>)
  /\ UNCHANGED <<radioOn, cgreg, csq, ctzv, operator, radio, primaryBw, secondaryBw,
                 indication, binder, req, nCalls, answers, client, csqOn>>

\* handleUnsolicited(CGREG): mCgreg = cgreg.
HandleCgreg ==
  /\ Unsolicited
  /\ cgreg' = nUnsol + 1
  /\ Handle(nUnsol + 1, <<>>)
  /\ UNCHANGED <<radioOn, creg, csq, ctzv, operator, radio, primaryBw, secondaryBw,
                 indication, binder, req, nCalls, answers, client, csqOn>>

\* handleUnsolicited(CSQ): store it; when powered on, indicate the signal
\* strength and, with an operator and a radio technology known and a cell
\* identity getCellIdentityImpl can build (not for EVDO or an unknown
\* technology), the cell info of the registered cell.
HandleCsq ==
  /\ Unsolicited
  /\ csq' = nUnsol + 1
  /\ csqOn' = IF radioOn THEN nUnsol + 1 ELSE csqOn
  /\ \E cellKnown \in BOOLEAN :
       /\ cellKnown => operator /\ radio
       /\ Handle(nUnsol + 1,
                 IF ~radioOn THEN <<>>
                 ELSE <<Ind("currentSignalStrength", nUnsol + 1)>>
                      \o (IF cellKnown THEN <<Ind("cellInfoList", creg.n)>> ELSE <<>>))
  /\ UNCHANGED <<radioOn, creg, cgreg, ctzv, operator, radio, primaryBw, secondaryBw,
                 indication, binder, req, nCalls, answers, client>>

\* handleUnsolicited(COPS): a list of one operator, the current one, is
\* stored; any other +COPS changes nothing.  handleUnsolicited(CTEC): two
\* values are stored as mCurrentRadio.
HandleCops(current) ==
  /\ Unsolicited
  /\ operator' = (operator \/ current)
  /\ Handle(nUnsol + 1, <<>>)
  /\ UNCHANGED <<radioOn, creg, cgreg, csq, ctzv, radio, primaryBw, secondaryBw,
                 indication, binder, req, nCalls, answers, client, csqOn>>

HandleCtec(pair) ==
  /\ Unsolicited
  /\ radio' = (radio \/ pair)
  /\ Handle(nUnsol + 1, <<>>)
  /\ UNCHANGED <<radioOn, creg, cgreg, csq, ctzv, operator, primaryBw, secondaryBw,
                 indication, binder, req, nCalls, answers, client, csqOn>>

\* handleUnsolicited(CGFPCCFG): a primary serving cell's bandwidth is
\* stored; a secondary one's is stored and indicated with the primary's
\* as the link capacity estimate.  The physical channel config is always
\* indicated, with the cell id of mCreg.
HandleCgfpccfg(primary) ==
  /\ Unsolicited
  /\ primaryBw' = IF primary THEN nUnsol + 1 ELSE primaryBw
  /\ secondaryBw' = IF primary THEN secondaryBw ELSE nUnsol + 1
  /\ Handle(nUnsol + 1,
            <<Ind("currentPhysicalChannelConfigs", creg.n)>>
            \o (IF primary THEN <<>>
                ELSE <<Ind("currentLinkCapacityEstimate", <<primaryBw, nUnsol + 1>>)>>))
  /\ UNCHANGED <<radioOn, creg, cgreg, csq, ctzv, operator, radio,
                 indication, binder, req, nCalls, answers, client, csqOn>>

\* handleUnsolicited(CTZV): store it with the time; indicate nitzTimeReceived.
HandleCtzv ==
  /\ Unsolicited
  /\ ctzv' = nUnsol + 1
  /\ Handle(nUnsol + 1, <<Ind("nitzTimeReceived", nUnsol + 1)>>)
  /\ UNCHANGED <<radioOn, creg, cgreg, csq, operator, radio, primaryBw, secondaryBw,
                 indication, binder, req, nCalls, answers, client, csqOn>>

\* After unlocking: the handler tests mRadioNetworkIndication and, if set,
\* sends its indications.
ReaderIndicate ==
  /\ reader.pc = "send"
  /\ client' = IF indication THEN client \o reader.out ELSE client
  /\ reader' = ReaderIdle
  /\ UNCHANGED <<cacheVars, indication, nUnsol, binder, req, nCalls, answers>>

-----------------------------------------------------------------------------
(* setResponseFunctions on a binder thread.                                *)

\* mRadioNetworkResponse and mRadioNetworkIndication are set, unlocked.
SetIndication ==
  /\ binder.pc = "none"
  /\ indication' = TRUE
  /\ binder' = [binder EXCEPT !.pc = "set"]
  /\ UNCHANGED <<cacheVars, nUnsol, reader, req, nCalls, answers, client>>

\* SnapshotForClient indicating only networkStateChanged and the NITZ.
SnapshotForClientNoSignal ==
  /\ binder.pc = "set"
  /\ binder' = [pc |-> "send",
                out |-> IF radioOn
                        THEN <<Ind("networkStateChanged", 0), Ind("nitzTimeReceived", ctzv)>>
                        ELSE <<>>]
  /\ UNCHANGED <<cacheVars, indication, nUnsol, reader, req, nCalls, answers, client>>

\* Under mMtx: copy mCsq, mCtzv and the power state; when powered on it
\* will indicate networkStateChanged, the signal strength and the NITZ.
SnapshotForClient ==
  /\ binder.pc = "set"
  /\ binder' = [pc |-> "send",
                out |-> IF radioOn
                        THEN <<Ind("networkStateChanged", 0), Ind("currentSignalStrength", csq),
                               Ind("nitzTimeReceived", ctzv)>>
                        ELSE <<>>]
  /\ UNCHANGED <<cacheVars, indication, nUnsol, reader, req, nCalls, answers, client>>

SendToClient ==
  /\ binder.pc = "send"
  /\ client' = client \o binder.out
  /\ binder' = [pc |-> "done", out |-> <<>>]
  /\ UNCHANGED <<cacheVars, indication, nUnsol, reader, req, nCalls, answers>>

-----------------------------------------------------------------------------
(* The registration requesters on the request thread.                      *)

\* Under mMtx: regState (getCellInfoList: registered = REG_HOME, and the
\* signal strength), areaCode and cellId of mCreg.
RegSnapshot(op) ==
  /\ req.pc = "idle" /\ nCalls < MaxCalls
  /\ req' = [pc |-> "converse", op |-> op, state |-> creg.n, cell |-> creg.n]
  /\ nCalls' = nCalls + 1
  /\ UNCHANGED <<cacheVars, indication, nUnsol, reader, binder, answers, client>>

\* After getCellIdentityImpl (and AT+CTEC?): the copied registration and
\* cell identity are answered, or an error with no result.
RegAnswer ==
  /\ req.pc = "converse"
  /\ \E ok \in BOOLEAN :
       answers' = Append(answers,
                    IF ok THEN [op |-> req.op, ok |-> TRUE, state |-> req.state,
                                cell |-> req.cell]
                    ELSE [op |-> req.op, ok |-> FALSE, state |-> 0, cell |-> 0])
  /\ req' = ReqIdle
  /\ UNCHANGED <<cacheVars, indication, nUnsol, reader, binder, nCalls, client>>

Next == \/ \E on \in BOOLEAN : HandleCfun(on) \/ HandleCreg(on) \/ HandleCops(on)
                               \/ HandleCtec(on) \/ HandleCgfpccfg(on)
        \/ HandleCgreg \/ HandleCsq \/ HandleCtzv \/ ReaderIndicate
        \/ SetIndication \/ SnapshotForClient \/ SendToClient
        \/ \E op \in RegOps : RegSnapshot(op)
        \/ RegAnswer

Spec == Init /\ [][Next]_vars

-----------------------------------------------------------------------------
(* A client that registers gets the signal strength: once setResponse-  *)
(* Functions has returned and the reader has sent what it handled, a      *)
(* client of a radio that is on has been sent a signal strength at least  *)
(* as new as the last +CSQ of this power-on.  Either the reader sees      *)
(* mRadioNetworkIndication set and sends the +CSQ itself, or it does not, *)
(* and then the +CSQ was stored before setResponseFunctions set the       *)
(* pointer, so its locked copy of mCsq, taken after, holds it or a newer  *)
(* one; the unlocked pointer write and read leave no gap between the two. *)
SignalReachesClient ==
  (binder.pc = "done" /\ reader.pc = "idle" /\ radioOn /\ csqOn > 0) =>
    \E i \in DOMAIN client : client[i].ind = "currentSignalStrength" /\ client[i].v >= csqOn
=============================================================================
