-------------------------- MODULE MessagingRequests --------------------------
(* The requesters of RadioMessaging (RadioMessaging.cpp) that reach the    *)
(* modem.  sendSms, sendSmsExpectMore and writeSmsToSim are two            *)
(* Conversations: AT+CMGS / AT+CMGW, whose filter accepts only the "> "    *)
(* prompt, then the PDU ending in Ctrl-Z, whose filter accepts only +CMGS  *)
(* / +CMGW.  The CDMA, IMS and RUIM calls answer at once without state.   *)
EXTENDS Requesters

MessagingOps ==
  {"sendSms", "sendSmsExpectMore", "writeSmsToSim",
   "acknowledgeLastIncomingGsmSms", "deleteSmsOnSim",
   "getGsmBroadcastConfig", "getSmscAddress", "setGsmBroadcastConfig",
   "setSmscAddress"}

\* setGsmBroadcastConfig with an empty configInfo answers INVALID_ARGUMENTS
\* on the binder thread and queues nothing.
SetGsmBroadcastConfigEmpty ==
  BinderAnswer("setGsmBroadcastConfig", "INVALID_ARGUMENTS")

\* sendSmsImpl answering INTERNAL_ERR but keeping the channel.
SendSmsNoReset ==
  \/ Begin("sendSms", PromptCmd("AT+CMGS"), {"Prompt"})
  \/ Begin("sendSmsExpectMore", PromptCmd("AT+CMGS"), {"Prompt"})
  \/ /\ Returned("wait1", {"sendSms", "sendSmsExpectMore"})
     /\ IF rt.result = "null"
        THEN /\ answer' = [answer EXCEPT ![rt.req] =
                  Append(@, [method |-> Op, status |-> "INTERNAL_ERR"])]
             /\ rt' = RtIdle
             /\ UNCHANGED <<reqOp, queue, filter, toModem, wire, modemMode,
                            badInput, reset, nWritten>>
        ELSE Continue("wait2", Pdu("PDU+CMGS", "CMGS"), {"CMGS"})
  \/ /\ Returned("wait2", {"sendSms", "sendSmsExpectMore"})
     /\ Finish(Op, [CMGS |-> {"NONE"}])

\* sendSms and sendSmsExpectMore queue the same requester around
\* sendSmsImpl and differ only in the response method.  AT+CMGS=<len>:
\* without "> " it answers INTERNAL_ERR (done:); with it, it writes SMSC and
\* PDU and waits for +CMGS, which gives the message reference and NONE.
SendSms ==
  \/ Begin("sendSms", PromptCmd("AT+CMGS"), {"Prompt"})
  \/ Begin("sendSmsExpectMore", PromptCmd("AT+CMGS"), {"Prompt"})
  \/ /\ Returned("wait1", {"sendSms", "sendSmsExpectMore"})
     /\ IF rt.result = "null"
        THEN Finish(Op, <<>>)
        ELSE Continue("wait2", Pdu("PDU+CMGS", "CMGS"), {"CMGS"})
  \/ /\ Returned("wait2", {"sendSms", "sendSmsExpectMore"})
     /\ Finish(Op, [CMGS |-> {"NONE"}])

\* writeSmsToSim: std::format("AT+CMGW=%d,%d", ...) writes the text
\* "AT+CMGW=%d,%d" (std::format has no printf placeholders and ignores the
\* arguments); the modem may still answer it with any of its replies, the
\* prompt included.  Then the PDU alone and +CMGW.
WriteSmsToSim ==
  \/ Begin("writeSmsToSim", PromptCmd("AT+CMGW"), {"Prompt"})
  \/ /\ Returned("wait1", {"writeSmsToSim"})
     /\ IF rt.result = "null"
        THEN Finish("writeSmsToSim", <<>>)
        ELSE Continue("wait2", Pdu("PDU+CMGW", "CMGW"), {"CMGW"})
  \/ /\ Returned("wait2", {"writeSmsToSim"})
     /\ Finish("writeSmsToSim", [CMGW |-> {"NONE"}])

\* acknowledgeLastIncomingGsmSms: AT+CNMA=<1|2>, OK; the modem refuses
\* with +CMS ERROR.
AcknowledgeLastIncomingGsmSms ==
  OneShot("acknowledgeLastIncomingGsmSms",
          [name |-> "AT+CNMA", seq |-> 0,
           replies |-> {Reply1(<<"OK">>), Reply1(<<"CmsError">>)}],
          {"OK"}, "acknowledgeLastIncomingGsmSms", [OK |-> {"NONE"}])

\* deleteSmsOnSim: AT+CMGD=<index>; +CME ERROR is INVALID_ARGUMENTS.
DeleteSmsOnSim ==
  OneShot("deleteSmsOnSim", Set("AT+CMGD"), {"OK", "CmeError"},
          "deleteSmsOnSim", [OK |-> {"NONE"}, CmeError |-> {"INVALID_ARGUMENTS"}])

\* getGsmBroadcastConfig: AT+CSCB?, +CSCB.
GetGsmBroadcastConfig ==
  OneShot("getGsmBroadcastConfig", Query("AT+CSCB?", "CSCB"), {"CSCB"},
          "getGsmBroadcastConfig", [CSCB |-> {"NONE"}])

\* getSmscAddress: AT+CSCA?, +CSCA.
GetSmscAddress ==
  OneShot("getSmscAddress", Query("AT+CSCA?", "CSCA"), {"CSCA"},
          "getSmscAddress", [CSCA |-> {"NONE"}])

\* setGsmBroadcastConfig: AT+CSCB=<mode>,"<channels>","<languages>", OK.
\* The requester answers through setSmscAddressResponse.
SetGsmBroadcastConfig ==
  OneShot("setGsmBroadcastConfig", Set("AT+CSCB="), {"OK"},
          "setSmscAddress", [OK |-> {"NONE"}])

\* setSmscAddress: AT+CSCA=<smsc>,0, OK.
SetSmscAddress ==
  OneShot("setSmscAddress", Set("AT+CSCA="), {"OK"},
          "setSmscAddress", [OK |-> {"NONE"}])

MessagingRequester ==
  \/ SendSms \/ WriteSmsToSim
  \/ AcknowledgeLastIncomingGsmSms \/ DeleteSmsOnSim
  \/ GetGsmBroadcastConfig \/ GetSmscAddress
  \/ SetGsmBroadcastConfig \/ SetSmscAddress
=============================================================================
