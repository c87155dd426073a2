---------------------------- MODULE MC_AtChannel ----------------------------
(***************************************************************************)
(* Instance of AtChannel for TLC: RadioModem and RadioVoice, in the order   *)
(* main() adds their sinks, one init command, and three requesters taken   *)
(* from the services:                                                      *)
(*  - getRadioCapability (RadioModem): AT+CTEC=? through a Conversation    *)
(*    whose filter accepts CTEC; the modem answers +CTEC then OK;          *)
(*  - dial (RadioVoice): ATD... with a filter accepting OK or +CME ERROR;  *)
(*  - acceptCall (RadioVoice): ATA written with requestPipe alone.         *)
(***************************************************************************)
EXTENDS AtChannel

MCHandlers == <<"RadioModem", "RadioVoice">>

MCRequesters == {"getRadioCapability", "dial", "acceptCall"}

MCProgram ==
  [r \in MCRequesters |->
     CASE r = "getRadioCapability" ->
            [conv |-> "RadioModem",
             steps |-> <<[cmd |-> "AT+CTEC=?", fire |-> FALSE, filter |-> {"CTEC"}]>>]
       [] r = "dial" ->
            [conv |-> "RadioVoice",
             steps |-> <<[cmd |-> "ATD", fire |-> FALSE, filter |-> {"OK", "CME"}]>>]
       [] r = "acceptCall" ->
            [conv |-> "RadioVoice",
             steps |-> <<[cmd |-> "ATA", fire |-> TRUE, filter |-> {}]>>]]

MCInitSteps == <<[cmd |-> "ATE0Q0V1", fire |-> FALSE, filter |-> {"OK"}]>>

MCKinds == {"OK", "CME", "CTEC", "RING"}

MCReplyOf ==
  [c \in {"ATE0Q0V1", "AT+CTEC=?", "ATD", "ATA"} |->
     CASE c = "AT+CTEC=?" -> {<<"CTEC", "OK">>}
       [] c = "ATD"       -> {<<"OK">>, <<"CME">>}
       [] OTHER           -> {<<"OK">>}]

MCUnsolKinds == {"RING"}

=============================================================================
