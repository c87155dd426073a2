--------------------------- MODULE ServiceRequests ---------------------------
(* The requesters of every service on the one request thread of the        *)
(* AtChannel, against one modem.  Each service's requesters are in their   *)
(* own module; Requesters.tla is the path they share.                     *)
EXTENDS MessagingRequests, VoiceRequests, SimRequests, NetworkRequests,
        ConfigRequests, ModemRequests

Ops == MessagingOps \cup VoiceOps \cup SimOps \cup NetworkOps \cup ConfigOps \cup ModemOps

RequestThread == MessagingRequester \/ VoiceRequester \/ SimRequester \/ NetworkRequester
                 \/ ConfigRequester \/ ModemRequester

Next == \/ \E op \in Ops : Call(op)
        \/ SetGsmBroadcastConfigEmpty
        \/ RequestIccSimAuthenticationRefused
        \/ ConfigBinderCall
        \/ ModemBinderCall
        \/ RequestThread
        \/ ReadResponse
        \/ Timeout
        \/ ModemStep

\* The request thread and the reader are scheduled whenever they can run,
\* and wait_for(3s) always returns; nothing forces the modem to answer.
Fairness == /\ WF_vars(RequestThread)
            /\ WF_vars(ReadResponse)
            /\ WF_vars(Timeout)

Spec == Init /\ [][Next]_vars /\ Fairness

-----------------------------------------------------------------------------
(* The modem only ever receives a PDU right after it sent "> ", and never  *)
(* an AT command while it waits for a PDU (which it would take as PDU      *)
(* text).  sendSmsImpl and writeSmsToSim write the PDU only after their   *)
(* Conversation claimed a prompt; a prompt that came too late is never    *)
(* claimed, because its Conversation timed out and the requester's        *)
(* INTERNAL_ERR reset the channel before anything else was written; the   *)
(* fire-and-forget writes of other services never produce a prompt.      *)
PduOnlyAtPrompt == ~badInput

(* Every binder call is answered, however the modem answers or stays      *)
(* silent, unless a requester reset the channel or a response it could    *)
(* not use ended the process: each Conversation is                        *)
(* bounded by wait_for(3s), and a filter that rejects the modem's error   *)
(* reply (+CMS ERROR to AT+CMGS) still ends in the timeout.              *)
(* A call, once made, stays made and an answer stays given, so this is    *)
(* (reqOp[i] # None) ~> answered, in the form TLC checks without a        *)
(* tableau.                                                               *)
RequestsAnswered ==
  \A i \in Requests :
    []<>(reqOp[i] = None \/ answer[i] # <<>> \/ reset \/ rt.pc = "aborted")

(* A Conversation's filter recognises the reply to the request it just    *)
(* wrote: it never times out after a line answering that request was read *)
(* and turned away.  A filter that misses the reply makes the requester   *)
(* wait the full 3 s, answer INTERNAL_ERR and reset the channel.          *)
ReplyRecognised == ~(rt.result = "null" /\ rt.missed)

=============================================================================
