----------------------------- MODULE SimRequests -----------------------------
(* The requesters of RadioSim (RadioSim.cpp) that reach the modem.  Most    *)
(* hold one Conversation; the PIN/PUK requesters and setFacilityLockForApp *)
(* follow a refused password with AT+CPINR, and getIccCardStatus follows   *)
(* +CPIN with the ICCID.  Payloads are abstracted: where the status depends *)
(* on what a response carries (a parse of its text, a CME message), the    *)
(* requester may answer any of the statuses the code gives it.            *)
EXTENDS Requesters

\* The PIN/PUK requesters around enterOrChangeSimPinPuk and the response
\* method each calls; changeIccPin2ForApp calls supplyIccPin2ForAppResponse.
PinMethod ==
  [changeIccPin2ForApp |-> "supplyIccPin2ForApp",
   changeIccPinForApp  |-> "changeIccPinForApp",
   supplyIccPin2ForApp |-> "supplyIccPin2ForApp",
   supplyIccPinForApp  |-> "supplyIccPinForApp",
   supplyIccPuk2ForApp |-> "supplyIccPuk2ForApp",
   supplyIccPukForApp  |-> "supplyIccPukForApp"]

SimOps ==
  DOMAIN PinMethod \cup
  {"getAllowedCarriers", "getCdmaSubscriptionSource", "getFacilityLockForApp",
   "getIccCardStatus", "getImsiForApp", "iccCloseLogicalChannelWithSessionInfo",
   "iccIoForApp", "iccOpenLogicalChannel", "iccTransmitApduBasicChannel",
   "iccTransmitApduLogicalChannel", "reportStkServiceIsRunning",
   "requestIccSimAuthentication", "sendEnvelope", "sendTerminalResponseToSim",
   "setCdmaSubscriptionSource", "setFacilityLockForApp"}

\* getRemainingRetries: AT+CPINR="<pin type>", whose filter accepts
\* holds<CPINR>().  CPINR::id() is "CPIN", the id of CPIN, so no line parses
\* as CPINR: a "+CPINR:" line matches no parser and ends the reader, and a
\* "+CPIN: <type>,<n>,<max>" line fails CPIN::parse with a ParseError for
\* "CPIN", which holds<CPINR>() accepts; the isParseError branch then
\* returns nullopt, which its callers answer as INTERNAL_ERR.  The modem is
\* given the second answer here; the first is a broken link, which
\* AtChannel.tla models.  A +CME ERROR is turned away.
CpinrAccepts == {"CPINR", "ParseError"}
Cpinr ==
  [name |-> "AT+CPINR", seq |-> 0,
   replies |-> {Reply1(<<"ParseError", "OK">>), Reply1(<<"CmeError">>)}]

\* enterOrChangeSimPinPuk: AT+CPIN / AT+CPWD, OK or +CME ERROR; after
\* +CME ERROR, getRemainingRetries.
EnterOrChangeSimPinPuk ==
  \/ \E op \in DOMAIN PinMethod : Begin(op, Set("AT+CPIN"), {"OK", "CmeError"})
  \/ /\ Returned("wait1", DOMAIN PinMethod)
     /\ IF rt.result = "CmeError"
        THEN Continue("wait2", Cpinr, CpinrAccepts)
        ELSE Finish(PinMethod[Op], [OK |-> {"NONE"}])
  \/ Returned("wait2", DOMAIN PinMethod) /\
     Finish(PinMethod[Op], [CPINR |-> {"PASSWORD_INCORRECT"}, ParseError |-> {"INTERNAL_ERR"}])

\* setFacilityLockForApp: AT+CLCK=<fac>,<lock>,<pwd>[,<class>], OK or
\* +CME ERROR; after +CME ERROR the facilities SC and FD run
\* getRemainingRetries, any other answers INVALID_ARGUMENTS.
SetFacilityLockForApp ==
  \/ Begin("setFacilityLockForApp", Set("AT+CLCK="), {"OK", "CmeError"})
  \/ /\ Returned("wait1", {"setFacilityLockForApp"})
     /\ \E pinFacility \in BOOLEAN :
          IF rt.result = "CmeError" /\ pinFacility
          THEN Continue("wait2", Cpinr, CpinrAccepts)
          ELSE Finish("setFacilityLockForApp",
                      [OK |-> {"NONE"}, CmeError |-> {"INVALID_ARGUMENTS"}])
  \/ Returned("wait2", {"setFacilityLockForApp"}) /\
     Finish("setFacilityLockForApp", [CPINR |-> {"PASSWORD_INCORRECT"},
                                             ParseError |-> {"INTERNAL_ERR"}])

\* getIccCardStatus: AT+CPIN?.  +CPIN (READY, SIM PIN, SIM PUK) and the
\* +CME ERROR "SIM busy" go on to AT+CICCID, whose filter accepts any plain
\* line; "SIM not inserted" answers an absent card; any other CME message
\* answers INTERNAL_ERR.
CardStatusNext == [CPIN |-> {"iccid"}, CmeError |-> {"iccid", "NONE", "INTERNAL_ERR"}]

GetIccCardStatus ==
  \/ Begin("getIccCardStatus", Query("AT+CPIN?", "CPIN"), {"CPIN", "CmeError"})
  \/ /\ Returned("wait1", {"getIccCardStatus"})
     /\ IF rt.result = "null"
        THEN Finish("getIccCardStatus", <<>>)
        ELSE \E next \in CardStatusNext[rt.result] :
               IF next = "iccid"
               THEN Continue("wait2", Query("AT+CICCID", "String"), {"String"})
               ELSE Finish("getIccCardStatus", [CmeError |-> {next}])
  \/ Returned("wait2", {"getIccCardStatus"}) /\
     Finish("getIccCardStatus", [String |-> {"NONE"}])

\* The single-Conversation requesters: the command, the response kinds its
\* filter accepts with the statuses each may give, and the reply kind the
\* modem answers with.  COPS: getAllowedCarriers calls unexpected() unless
\* +COPS names exactly one current operator (it names none while not
\* registered).  A +CSIM or CCHO answer that is not a number gives
\* INTERNAL_ERR; a +CRSM or +CSIM payload that does not convert gives
\* GENERIC_FAILURE.
GetAllowedCarriers ==
  [line |-> "COPS", status |-> [COPS |-> {"NONE", Unexpected}, CmeError |-> {"GENERIC_FAILURE"}]]

GetCdmaSubscriptionSource == [line |-> "CCSS", status |-> [CCSS |-> {"NONE"}]]

GetFacilityLockForApp ==
  [line |-> "CLCK", status |-> [CLCK |-> {"NONE"}, CmeError |-> {"CANCELLED", "INVALID_ARGUMENTS"}]]

GetImsiForApp ==
  [line |-> "String", status |-> [String |-> {"NONE"}, CmeError |-> {"INVALID_SIM_STATE", "CANCELLED"}]]

IccCloseLogicalChannelWithSessionInfo ==
  [line |-> "CCHC", status |-> [CCHC |-> {"NONE"}, CmeError |-> {"INVALID_ARGUMENTS"}]]

IccIoForApp ==
  [line |-> "CRSM", status |-> [CRSM |-> {"NONE", "GENERIC_FAILURE"}, CmeError |-> {"NO_RESOURCES"}]]

IccTransmitApduBasicChannel ==
  [line |-> "CSIM", status |-> [CSIM |-> {"NONE", "GENERIC_FAILURE"}, CmeError |-> {"GENERIC_FAILURE"}]]

IccTransmitApduLogicalChannel ==
  [line |-> "CGLA", status |-> [CGLA |-> {"NONE"}, CmeError |-> {"GENERIC_FAILURE"}]]

ReportStkServiceIsRunning == [line |-> "CUSATD", status |-> [CUSATD |-> {"NONE"}]]

RequestIccSimAuthentication ==
  [line |-> "MBAU", status |-> [MBAU |-> {"NONE"}, CmeError |-> {"GENERIC_FAILURE"}]]

SendEnvelope == [line |-> "CUSATE", status |-> [CUSATE |-> {"NONE"}]]

SendTerminalResponseToSim == [line |-> "CUSATT", status |-> [CUSATT |-> {"NONE"}]]

SimOneShot ==
  [getAllowedCarriers |-> GetAllowedCarriers,
   getCdmaSubscriptionSource |-> GetCdmaSubscriptionSource,
   getFacilityLockForApp |-> GetFacilityLockForApp,
   getImsiForApp |-> GetImsiForApp,
   iccCloseLogicalChannelWithSessionInfo |-> IccCloseLogicalChannelWithSessionInfo,
   iccIoForApp |-> IccIoForApp,
   iccTransmitApduBasicChannel |-> IccTransmitApduBasicChannel,
   iccTransmitApduLogicalChannel |-> IccTransmitApduLogicalChannel,
   reportStkServiceIsRunning |-> ReportStkServiceIsRunning,
   requestIccSimAuthentication |-> RequestIccSimAuthentication,
   sendEnvelope |-> SendEnvelope,
   sendTerminalResponseToSim |-> SendTerminalResponseToSim]

SimOneShotRequester ==
  \E op \in DOMAIN SimOneShot :
    LET q == SimOneShot[op] IN
    OneShot(op, Query(op, q.line), DOMAIN q.status, op, q.status)

\* iccOpenLogicalChannel: with no AID, AT+CSIM=10,"0070000001" and +CSIM;
\* with one, AT+CCHO=<aid> and a plain line with the channel number.
IccOpenLogicalChannel ==
  \/ \E line \in {"CSIM", "String"} :
       Begin("iccOpenLogicalChannel", Query("AT+CCHO", line), {line, "CmeError"})
  \/ Returned("wait1", {"iccOpenLogicalChannel"}) /\
     Finish("iccOpenLogicalChannel",
            [r \in {"CSIM", "String", "CmeError"} |->
               IF r = "CmeError" THEN {"GENERIC_FAILURE"} ELSE {"NONE", "INTERNAL_ERR"}])

\* setCdmaSubscriptionSource: AT+CCSS=<n>, whose filter accepts only OK.
SetCdmaSubscriptionSource ==
  OneShot("setCdmaSubscriptionSource", Set("AT+CCSS="), {"OK"},
          "setCdmaSubscriptionSource", [OK |-> {"NONE"}])

\* requestIccSimAuthentication with authentication data parseAuthData
\* refuses: answered on the binder thread.
RequestIccSimAuthenticationRefused ==
  \E status \in {"INVALID_ARGUMENTS", "REQUEST_NOT_SUPPORTED"} :
    BinderAnswer("requestIccSimAuthentication", status)

SimRequester ==
  \/ EnterOrChangeSimPinPuk \/ SetFacilityLockForApp \/ GetIccCardStatus
  \/ SimOneShotRequester \/ IccOpenLogicalChannel \/ SetCdmaSubscriptionSource
=============================================================================
