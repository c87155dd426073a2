---------------------------- MODULE VoiceRequests ----------------------------
(* The requesters of RadioVoice (RadioVoice.cpp) that reach the modem.     *)
(* Call control (ATA, ATH, AT+CHLD, AT+VTS, AT+CUSD) is written with the   *)
(* bare RequestPipe and answered NONE at once; its reply from the modem is *)
(* read later by nobody's Conversation.  The supplementary-service and    *)
(* dial requesters hold one Conversation.  A +CME ERROR is answered with   *)
(* the error it carries, abstracted to "CME" (getErrorAndLog never yields *)
(* INTERNAL_ERR, so it never resets the channel).                        *)
EXTENDS Requesters

VoiceOps ==
  {"acceptCall", "cancelPendingUssd", "conference", "hangup",
   "hangupForegroundResumeBackground", "hangupWaitingOrBackground",
   "rejectCall", "sendDtmf", "sendUssd", "switchWaitingOrHoldingAndActive",
   "separateConnection", "dial", "emergencyDial", "exitEmergencyCallbackMode",
   "setCallForward", "setCallWaiting", "setClir", "setMute",
   "getCallForwardStatus", "getCallWaiting", "getClip", "getClir",
   "getCurrentCalls", "getMute"}

\* The call-control requesters and the command each writes.  sendUssd's
\* std::format("AT+CUSD=1,\"%s\"", ussd) writes the "%s" itself, not the
\* USSD string.
CallControl ==
  [acceptCall |-> "ATA", cancelPendingUssd |-> "AT+CUSD=2",
   conference |-> "AT+CHLD=3", hangup |-> "AT+CHLD=1x",
   hangupForegroundResumeBackground |-> "AT+CHLD=1",
   hangupWaitingOrBackground |-> "AT+CHLD=0", rejectCall |-> "ATH",
   sendDtmf |-> "AT+VTS=", sendUssd |-> "AT+CUSD=1,\"%s\"",
   switchWaitingOrHoldingAndActive |-> "AT+CHLD=2"]

\* requestPipe(cmd), the response with NONE, return true.
CallControlRequester ==
  \E op \in DOMAIN CallControl : FireAndForget(op, Set(CallControl[op]))

\* separateConnection: a gsmIndex in 1..9 writes AT+CHLD=2<x> and answers
\* NONE; any other answers GENERIC_FAILURE and writes nothing.
SeparateConnection ==
  \E valid \in BOOLEAN :
    IF valid THEN FireAndForget("separateConnection", Set("AT+CHLD=2x"))
    ELSE Immediate("separateConnection", <<>>, "GENERIC_FAILURE")

\* A requester of one Conversation on a set command: OK or +CME ERROR,
\* answered through its own method.
SetRequester(ops) ==
  \E op \in ops : OneShot(op, Set(op), {"OK", "CmeError"}, op, OkOrCme)

\* dial and emergencyDial (ATD<addr>[@cat,#]<clir>;), exitEmergencyCallbackMode
\* (AT+WSOS=0).
DialRequester ==
  SetRequester({"dial", "emergencyDial", "exitEmergencyCallbackMode"})

\* setCallForward (AT+CCFCU=...), setCallWaiting (AT+CCWA=1,..), setClir
\* (written "AT+CLIR: <n>").
SupplementaryRequester ==
  SetRequester({"setCallForward", "setCallWaiting", "setClir"})

\* The queries: getCallForwardStatus (AT+CCFCU=<reason>,2,...) also accepts
\* a bare OK; getCallWaiting, getClip and getClir wait for their +C line.
GetCallForwardStatus ==
  OneShot("getCallForwardStatus", Query("AT+CCFCU=", "CCFCU"),
          {"CCFCU", "OK", "CmeError"}, "getCallForwardStatus",
          [CCFCU |-> {"NONE"}, OK |-> {"NONE"}, CmeError |-> {"CME"}])

QueryRequester ==
  \E q \in {<<"getCallWaiting", "CCWA">>, <<"getClip", "CLIP">>,
            <<"getClir", "CLIR">>} :
    OneShot(q[1], Query(q[1], q[2]), {q[2], "CmeError"}, q[1],
            [r \in {q[2], "CmeError"} |-> IF r = "CmeError" THEN {"CME"}
                                                             ELSE {"NONE"}])

\* AT+CLCC: +CLCC lines end in OK and make one multi-line response; with
\* no call the modem answers OK alone.
Clcc ==
  [name |-> "AT+CLCC", seq |-> 0,
   replies |-> {Reply1(<<"CLCC">>), Reply1(<<"OK">>), Reply1(<<"CmeError">>)}]

GetCurrentCalls ==
  OneShot("getCurrentCalls", Clcc, {"CLCC", "OK", "CmeError"},
          "getCurrentCalls", [CLCC |-> {"NONE"}, OK |-> {"NONE"}, CmeError |-> {"CME"}])

\* getMute writes atCmds::getCurrentCalls (AT+CLCC) and waits for +CMUT or
\* +CME ERROR; with no response it answers through getCurrentCallsResponse
\* and returns false.
GetMute ==
  \/ Begin("getMute", Clcc, {"CMUT", "CmeError"})
  \/ /\ Returned("wait1", {"getMute"})
     /\ Finish(IF rt.result = "null" THEN "getCurrentCalls" ELSE "getMute",
               [CMUT |-> {"NONE"}, CmeError |-> {"CME"}])

\* setMute: AT+CMUT=<0|1>, OK or +CME ERROR; with no response it answers
\* through getCurrentCallsResponse and returns false.
SetMute ==
  \/ Begin("setMute", Set("AT+CMUT="), {"OK", "CmeError"})
  \/ /\ Returned("wait1", {"setMute"})
     /\ Finish(IF rt.result = "null" THEN "getCurrentCalls" ELSE "setMute",
               OkOrCme)

VoiceRequester ==
  \/ CallControlRequester \/ SeparateConnection
  \/ DialRequester \/ SupplementaryRequester \/ GetCallForwardStatus \/ QueryRequester
  \/ GetCurrentCalls \/ GetMute \/ SetMute
=============================================================================
