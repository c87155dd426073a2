--------------------------- MODULE NetworkRequests ---------------------------
(* The requesters of RadioNetwork (RadioNetwork.cpp) that reach the modem.  *)
(* getCellIdentityImpl asks the operator (+COPS) and then the technology    *)
(* (+CTEC); getBarringInfo and getCellInfoList answer from it, and the two *)
(* registration-state requesters ask +CTEC once more.  The RadioNetwork    *)
(* sink hands every line to handleUnsolicited before offering it to the    *)
(* Conversation; the handlers only update caches read by other calls.      *)
EXTENDS Requesters

CellIdentityOps ==
  {"getBarringInfo", "getCellInfoList", "getDataRegistrationState",
   "getVoiceRegistrationState"}

RegistrationOps == {"getDataRegistrationState", "getVoiceRegistrationState"}

\* The single-Conversation requesters: the command's reply line and the
\* statuses each accepted kind may give.  getOperator calls unexpected()
\* unless +COPS names exactly one current operator.
GetAllowedNetworkTypesBitmap == [line |-> "CTEC", status |-> [CTEC |-> {"NONE"}]]

GetCdmaRoamingPreference == [line |-> "WRMP", status |-> [WRMP |-> {"NONE"}]]

GetNetworkSelectionMode ==
  [line |-> "COPS", status |-> [COPS |-> {"NONE"}, CmeError |-> {"CME"}]]

GetOperator ==
  [line |-> "COPS", status |-> [COPS |-> {"NONE", Unexpected}, CmeError |-> {"CME"}]]

GetVoiceRadioTechnology == [line |-> "CTEC", status |-> [CTEC |-> {"NONE"}]]

\* AT+CTEC=<current>,<preferred> answers +CTEC, which the filter waits for.
SetAllowedNetworkTypesBitmap == [line |-> "CTEC", status |-> [CTEC |-> {"NONE"}]]

NetworkOneShot ==
  [getAllowedNetworkTypesBitmap |-> GetAllowedNetworkTypesBitmap,
   getCdmaRoamingPreference |-> GetCdmaRoamingPreference,
   getNetworkSelectionMode |-> GetNetworkSelectionMode,
   getOperator |-> GetOperator,
   getVoiceRadioTechnology |-> GetVoiceRadioTechnology,
   setAllowedNetworkTypesBitmap |-> SetAllowedNetworkTypesBitmap]

\* The set commands and the statuses of the kinds their filter accepts:
\* AT+CPWD and AT+COPS=1,2,<plmn>[,<ran>] accept OK or +CME ERROR;
\* AT+WRMP, AT+COPS=0 and AT+CSSN accept OK only.
SetBarringPassword == OkOrCme

SetNetworkSelectionModeManual == OkOrCme

SetCdmaRoamingPreference == [OK |-> {"NONE"}]

SetNetworkSelectionModeAutomatic == [OK |-> {"NONE"}]

SetSuppServiceNotifications == [OK |-> {"NONE"}]

NetworkSet ==
  [setBarringPassword |-> SetBarringPassword,
   setNetworkSelectionModeManual |-> SetNetworkSelectionModeManual,
   setCdmaRoamingPreference |-> SetCdmaRoamingPreference,
   setNetworkSelectionModeAutomatic |-> SetNetworkSelectionModeAutomatic,
   setSuppServiceNotifications |-> SetSuppServiceNotifications]

NetworkOps == CellIdentityOps \cup DOMAIN NetworkOneShot \cup DOMAIN NetworkSet

NetworkOneShotRequester ==
  \/ \E op \in DOMAIN NetworkOneShot :
       LET q == NetworkOneShot[op] IN
       OneShot(op, Query(op, q.line), DOMAIN q.status, op, q.status)
  \/ \E op \in DOMAIN NetworkSet :
       OneShot(op, Set(op), DOMAIN NetworkSet[op], op, NetworkSet[op])

Ctec == Query("AT+CTEC?", "CTEC")

\* getCellIdentityImpl: AT+COPS?, +COPS or +CME ERROR.  One current
\* operator goes on to AT+CTEC?; any other +COPS calls unexpected();
\* +CME ERROR is the result, which the caller answers.
GetCellIdentityImpl ==
  \/ \E op \in CellIdentityOps :
       Begin(op, Query("AT+COPS?", "COPS"), {"COPS", "CmeError"})
  \/ /\ Returned("wait1", CellIdentityOps)
     /\ \E next \in IF rt.result = "COPS" THEN {"ctec", Unexpected} ELSE {"answer"} :
          IF next = "ctec"
          THEN Continue("wait2", Ctec, {"CTEC"})
          ELSE Finish(Op, [COPS |-> {Unexpected}, CmeError |-> {"CME"}])

\* The callers after +CTEC: EVDO (or an unknown technology) makes the cell
\* identity INTERNAL_ERR; getBarringInfo and getCellInfoList (whose
\* buildCellInfo always succeeds) answer, the registration-state
\* requesters ask AT+CTEC? again for the RAT.
CellIdentityAnswered ==
  /\ Returned("wait2", CellIdentityOps)
  /\ \E status \in StatusOf([CTEC |-> {"NONE", "INTERNAL_ERR"}]) :
       IF status = "NONE" /\ Op \in RegistrationOps
       THEN Continue("wait3", Ctec, {"CTEC"})
       ELSE Finish(Op, [CTEC |-> {status}])

RegistrationRat ==
  Returned("wait3", RegistrationOps) /\ Finish(Op, [CTEC |-> {"NONE"}])

NetworkRequester ==
  NetworkOneShotRequester \/ GetCellIdentityImpl \/ CellIdentityAnswered \/ RegistrationRat
=============================================================================
