--------------------------- MODULE ConfigRequests ---------------------------
(* The calls of RadioConfig (RadioConfig.cpp).  getSimSlotsStatus is the   *)
(* one that reaches the modem: AT+CPIN?, then AT+CICCID unless the card is *)
(* absent.  The others answer on the binder thread from their arguments.  *)
EXTENDS Requesters

ConfigOps == {"getSimSlotsStatus"}

\* What each +CPIN / +CME ERROR answer to AT+CPIN? leads to: CPIN::parse
\* gives only READY, PIN and PUK, which go on to the ICCID (its ABSENT and
\* NOT_READY, which goto failed, are never parsed); the CME message "10"
\* (not inserted) answers an absent slot at once, "14" (busy) goes on to
\* the ICCID, any other goto failed.
SimSlotsNext ==
  [CPIN |-> {"iccid"}, CmeError |-> {"NONE", "iccid", "INTERNAL_ERR"}]

\* getSimSlotsStatus; the filters accept only what the code handles, so
\* its two unexpected() calls cannot be reached.
GetSimSlotsStatus ==
  \/ Begin("getSimSlotsStatus", Query("AT+CPIN?", "CPIN"), {"CPIN", "CmeError"})
  \/ /\ Returned("wait1", ConfigOps)
     /\ IF rt.result = "null"
        THEN Finish("getSimSlotsStatus", <<>>)
        ELSE \E next \in SimSlotsNext[rt.result] :
               IF next = "iccid"
               THEN Continue("wait2", Query("AT+CICCID", "String"), {"String"})
               ELSE Finish("getSimSlotsStatus", [k \in {rt.result} |-> {next}])
  \/ Returned("wait2", ConfigOps) /\
     Finish("getSimSlotsStatus", [String |-> {"NONE"}])

\* The binder-thread answers: setNumOfLiveModems accepts only 1 and
\* setPreferredDataModem only kLogicalModemId; the rest answer a constant.
ConfigBinderStatus ==
  [getHalDeviceCapabilities |-> {"NONE"}, getNumOfLiveModems |-> {"NONE"},
   getPhoneCapability |-> {"NONE"}, getSimultaneousCallingSupport |-> {"NONE"},
   setNumOfLiveModems |-> {"NONE", "INVALID_ARGUMENTS"},
   setPreferredDataModem |-> {"NONE", "INVALID_ARGUMENTS"},
   setSimSlotsMapping |-> {"NONE"}]

ConfigBinderCall ==
  \E op \in DOMAIN ConfigBinderStatus :
    \E s \in ConfigBinderStatus[op] : BinderAnswer(op, s)

ConfigRequester == GetSimSlotsStatus
=============================================================================
