---------------------------- MODULE MC_AtParser ----------------------------
(* AtParser with two tags of the "+" table of AtResponse::parse, CSQ      *)
(* (single line) and CLCC (multiline), and what the modem writes:         *)
(*  - a +CSQ reply with its OK, and the same with a RING between them;    *)
(*  - a two-call +CLCC list followed by RING;                             *)
(*  - an incoming SMS (+CMT) and an SMS status report (+CDS);             *)
(*  - an SMS prompt answered by ERROR;                                    *)
(*  - a generic text reply (an IMSI-like number);                         *)
(*  - a RING framed by CR LF.                                             *)
(* Beside it, with the reader idle, ReplyProbe's reply: one reply line     *)
(* for the payload parsers, which see only the text after the tag.        *)
EXTENDS AtParser, ReplyProbe

MCValueParsers ==
  "+" :> << [cmd |-> <<"C", "S", "Q">>, id |-> "CSQ", multiline |-> FALSE],
            [cmd |-> <<"C", "L", "C", "C">>, id |-> "CLCC", multiline |-> TRUE] >>

MCDigits == {"1", "2"}

Ring == <<"R", "I", "N", "G", CR>>
OKr == <<"O", "K", CR>>
CsqReply == <<"+", "C", "S", "Q", ":", " ", "1", ",", "2", CR>>
CsqValue == [kind |-> "CSQ", payload |-> <<"1", ",", "2">>]
ClccList == <<"+", "C", "L", "C", "C", ":", " ", "1", CR,
              "+", "C", "L", "C", "C", ":", " ", "2">>
SmsPdu == <<"A", "B">>

MCScenarios ==
  { [bytes |-> CsqReply \o OKr,
     expect |-> << CsqValue, Token("OK") >>],
    [bytes |-> CsqReply \o Ring \o OKr,
     expect |-> << CsqValue, Token("RING"), Token("OK") >>],
    [bytes |-> ClccList \o rOKr \o Ring,
     expect |-> << [kind |-> "CLCC", payload |-> Append(ClccList, CR)], Token("RING") >>],
    [bytes |-> <<"+", "C", "M", "T", ":", " ", "1", CR>> \o SmsPdu \o <<CR>>,
     expect |-> << [kind |-> "CMT", payload |-> <<"1", CR>> \o SmsPdu] >>],
    [bytes |-> <<"+", "C", "D", "S", ":", " ", "2", CR>> \o SmsPdu \o <<CR>>,
     expect |-> << [kind |-> "CDS", payload |-> <<"2", CR>> \o SmsPdu] >>],
    [bytes |-> <<">", " ", CR, "E", "R", "R", "O", "R", CR>>,
     expect |-> << Token("SmsPrompt"), Token("ERROR") >>],
    [bytes |-> <<"1", "2">> \o rOKr,
     expect |-> << [kind |-> "string", payload |-> <<"1", "2">>] >>],
    [bytes |-> <<CR, LF>> \o Ring \o <<LF>>,
     expect |-> << Token("RING") >>] }

NoReply == [kind |-> "none", line |-> <<>>, want |-> 0, x |-> 0]

\* The reader with nothing from the modem, waiting in read().
ReaderIdle ==
  /\ pending = <<>> /\ unconsumed = <<>> /\ out = <<>> /\ expected = <<>>
  /\ aborted = FALSE /\ nIntr = 0

MCInit ==
  \/ Init /\ reply = NoReply
  \/ ReaderIdle /\ reply \in Replies

MCSpec == MCInit /\ [][Next /\ UNCHANGED reply]_<<vars, reply>> /\ WF_vars(Read)
=============================================================================
