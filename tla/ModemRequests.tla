--------------------------- MODULE ModemRequests ---------------------------
(* The requesters of RadioModem (RadioModem.cpp) that reach the modem:    *)
(* getImei (AT+CGSN=2), and getHardwareConfig and getRadioCapability,     *)
(* which both ask getSupportedRadioTechs (AT+CTEC=?).  setRadioPower is   *)
(* RadioPower.tla's.  The others answer on the binder thread.             *)
EXTENDS Requesters

ModemOps == {"getImei", "getHardwareConfig", "getRadioCapability"}

\* getImei: its filter accepts any plain line; nullptr answers INTERNAL_ERR.
\* The line's substr(15, 2) throws std::out_of_range for a line shorter
\* than 15 characters, which nothing on the request thread catches: the
\* process ends, as with unexpected().
GetImei ==
  OneShot("getImei", Query("AT+CGSN=2", "String"), {"String"}, "getImei",
          [String |-> {"NONE", Unexpected}])

\* getSupportedRadioTechs: +CTEC gives NONE and the bitmask, nullptr
\* INTERNAL_ERR; its caller answers that status and returns
\* status != INTERNAL_ERR.
SupportedRadioTechs(op) ==
  OneShot(op, Query("AT+CTEC=?", "CTEC"), {"CTEC"}, op, [CTEC |-> {"NONE"}])

GetHardwareConfig == SupportedRadioTechs("getHardwareConfig")

GetRadioCapability == SupportedRadioTechs("getRadioCapability")

\* The binder-thread answers: constants, and REQUEST_NOT_SUPPORTED for
\* setRadioCapability and the deprecated calls
\* (makeRadioResponseInfoUnsupported, makeRadioResponseInfoDeprecated).
ModemBinderStatus ==
  [enableModem |-> {"NONE"}, getBasebandVersion |-> {"NONE"},
   getModemActivityInfo |-> {"NONE"}, getModemStackStatus |-> {"NONE"},
   sendDeviceState |-> {"NONE"}, setRadioCapability |-> {"REQUEST_NOT_SUPPORTED"},
   getDeviceIdentity |-> {"REQUEST_NOT_SUPPORTED"}, nvReadItem |-> {"REQUEST_NOT_SUPPORTED"},
   nvResetConfig |-> {"REQUEST_NOT_SUPPORTED"}, nvWriteCdmaPrl |-> {"REQUEST_NOT_SUPPORTED"},
   nvWriteItem |-> {"REQUEST_NOT_SUPPORTED"}]

ModemBinderCall ==
  \E op \in DOMAIN ModemBinderStatus :
    \E s \in ModemBinderStatus[op] : BinderAnswer(op, s)

ModemRequester == GetImei \/ GetHardwareConfig \/ GetRadioCapability
=============================================================================
