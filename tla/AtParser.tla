------------------------------ MODULE AtParser ------------------------------
(***************************************************************************)
(* The framing of the modem's byte stream into responses: the reader       *)
(* thread's buffering loop (AtChannel::receiveResponses,                   *)
(* receiveResponsesImpl, receiveOneResponse) around the stateless line     *)
(* parser (AtResponse::parse, parseCmds, CMT::parse, CDS::parse).          *)
(*                                                                         *)
(* A byte is a one-character string; CR is "\r".  Positions passed to      *)
(* Find, Substr and Drop are 0-based, as in the C++ code.  A value parser  *)
(* (vp->parse on a payload) is a pure function of its payload, so a decoded *)
(* response is its tag and the payload it was given.                       *)
(*                                                                         *)
(* The modem has written `pending`; each read returns any number of its    *)
(* leading bytes, so every way of splitting the stream into chunks is      *)
(* explored.                                                               *)
(***************************************************************************)
EXTENDS Integers, Sequences, SequencesExt

CONSTANTS
  ValueParsers,  \* ValueParsers[sigil]: the table parseCmds scans, in order
  Digits,        \* the bytes std::from_chars accepts as decimal digits
  None,          \* a null AtResponsePtr
  Scenarios,     \* [bytes |-> what the modem writes, expect |-> its responses]
  MaxIntr        \* bound: reads interrupted while a partial message is buffered

CR == "\r"
LF == "\n"
NUL == "NUL"          \* a zero byte, as std::vector::resize appends them
rOKr == <<CR, "O", "K", CR>>

ASSUME MaxIntr \in Nat

VARIABLES
  pending,     \* bytes the modem wrote that no read has returned yet
  unconsumed,  \* the reader's std::vector<char> unconsumed
  out,         \* responses broadcast so far, in order
  aborted,     \* readingLoop reached LOG_ALWAYS_FATAL
  nIntr,       \* interrupted reads so far
  expected     \* the responses the modem's bytes stand for

vars == <<pending, unconsumed, out, aborted, nIntr, expected>>

-----------------------------------------------------------------------------
(* std::string_view operations.                                            *)

\* find(pat, from): the first position >= from where pat occurs, or -1.
Find(s, pat, from) ==
  LET P == {p \in from..(Len(s) - Len(pat)) : SubSeq(s, p + 1, p + Len(pat)) = pat}
  IN IF P = {} THEN -1 ELSE Min(P)

Substr(s, pos, n) == SubSeq(s, pos + 1, pos + n)
Drop(s, n) == SubSeq(s, n + 1, Len(s))

\* ltrim: drop leading bytes <= 0x20.
RECURSIVE LTrim(_)
LTrim(s) == IF s # <<>> /\ Head(s) \in {" ", CR, LF, NUL} THEN LTrim(Tail(s)) ELSE s

-----------------------------------------------------------------------------
(* Parse results: consumed bytes (0: incomplete, -1: terminal) and the     *)
(* response, or None.                                                      *)

Res(n, r) == [n |-> n, resp |-> r]
Incomplete == Res(0, None)
Token(k) == [kind |-> k, payload |-> <<>>]
Value(vp, payload) == [kind |-> vp.id, payload |-> payload]

\* Parser::operator() on an int: the length of the leading run of digits.
DigitRun(s) == Max({i \in 0..Len(s) : \A j \in 1..i : s[j] \in Digits})

\* hex2bin fails only on an odd length.
HexOK(hex) == Len(hex) % 2 = 0

\* CMT::parse and CDS::parse on the ltrimmed text after "+CMT:"/"+CDS:":
\* an integer, CR, then a hex PDU up to the next CR.
SmsParse(id, s) ==
  LET d == DigitRun(s)
  IN IF d = 0 \/ d = Len(s) \/ s[d + 1] # CR
     THEN Res(-1, None)
     ELSE LET e == Find(s, <<CR>>, d + 1)
          IN IF e < 0 THEN Incomplete
             ELSE IF HexOK(Substr(s, d + 1, e - d - 1))
                  THEN Res(e + 1, [kind |-> id, payload |-> SubSeq(s, 1, e)])
                  ELSE Res(-1, None)

\* Mutation of SmsResult: the bytes before the trimmed text not counted.
SmsResultNoPrefix(id, str) ==
  LET r == SmsParse(id, LTrim(Drop(str, 5)))
  IN IF r.n > 0 THEN Res(r.n, r.resp) ELSE Res(r.n, None)

\* AtResponse::parse's handling of "+CMT:" and "+CDS:".
SmsResult(id, str) ==
  LET trimmed == LTrim(Drop(str, 5))
      r == SmsParse(id, trimmed)
  IN IF r.n > 0 THEN Res(r.n + Len(str) - Len(trimmed), r.resp)
     ELSE Res(r.n, None)

\* Mutation of CmdResult: a multiline payload ends at its first CR.
CmdResultFirstCR(str, vp, skip) ==
  LET e == Find(str, <<CR>>, skip)
  IN IF e < 0 THEN Incomplete
     ELSE IF vp.multiline THEN Res(e + 1, Value(vp, SubSeq(str, 1, e + 1)))
     ELSE Res(e + 1, Value(vp, LTrim(Substr(str, skip, e - skip))))

\* The payload of a matched tag: a multiline tag's lines up to "\rOK\r",
\* a single-line tag's text up to the next CR.
CmdResult(str, vp, skip) ==
  IF vp.multiline
  THEN LET e == Find(str, rOKr, skip)
       IN IF e < 0 THEN Incomplete ELSE Res(e + 4, Value(vp, SubSeq(str, 1, e + 1)))
  ELSE LET e == Find(str, <<CR>>, skip)
       IN IF e < 0 THEN Incomplete ELSE Res(e + 1, Value(vp, LTrim(Substr(str, skip, e - skip))))

\* parseCmds: scan the table from entry i; a tag the input is too short to
\* follow sets maybeIncomplete.
RECURSIVE ParseCmdsFrom(_, _, _, _)
ParseCmdsFrom(str, vps, i, maybeIncomplete) ==
  IF i > Len(vps)
  THEN IF maybeIncomplete THEN Incomplete ELSE Res(-1, None)
  ELSE LET cmd == vps[i].cmd
           str1 == Tail(str)
       IN IF ~IsPrefix(cmd, str1) THEN ParseCmdsFrom(str, vps, i + 1, maybeIncomplete)
          ELSE IF Len(str1) <= Len(cmd) THEN ParseCmdsFrom(str, vps, i + 1, TRUE)
          ELSE IF str1[Len(cmd) + 1] = ":" THEN CmdResult(str, vps[i], Len(cmd) + 2)
          ELSE IF str1[Len(cmd) + 1] = CR THEN CmdResult(str, vps[i], Len(cmd) + 1)
          ELSE ParseCmdsFrom(str, vps, i + 1, maybeIncomplete)

\* AtResponse::parse, its early returns in the code's order.
Parse(str) ==
  IF IsPrefix(<<"R", "I", "N", "G", CR>>, str) THEN Res(5, Token("RING"))
  ELSE IF IsPrefix(<<"+", "C", "M", "T", ":">>, str) THEN SmsResult("CMT", str)
  ELSE IF IsPrefix(<<"+", "C", "D", "S", ":">>, str) THEN SmsResult("CDS", str)
  ELSE IF Head(str) \in DOMAIN ValueParsers
       THEN ParseCmdsFrom(str, ValueParsers[Head(str)], 1, FALSE)
  ELSE IF IsPrefix(<<">", " ", CR>>, str) THEN Res(3, Token("SmsPrompt"))
  ELSE IF IsPrefix(<<"O", "K", CR>>, str) THEN Res(3, Token("OK"))
  ELSE IF IsPrefix(<<"E", "R", "R", "O", "R", CR>>, str) THEN Res(6, Token("ERROR"))
  ELSE LET pos == Find(str, rOKr, 0)
       IN IF pos >= 0 THEN Res(pos + 4, [kind |-> "string", payload |-> SubSeq(str, 1, pos)])
          ELSE Incomplete

-----------------------------------------------------------------------------
(* The reader thread.                                                      *)

\* Mutation of ReceiveOneResponse: the null check before broadcasting lost.
ReceiveOneResponseNoNullCheck(buf) ==
  IF Head(buf) \in {CR, LF} THEN [n |-> 1, out |-> <<>>]
  ELSE LET r == Parse(buf) IN [n |-> r.n, out |-> <<r.resp>>]

\* receiveOneResponse: skip a bare CR or LF, else parse and broadcast a
\* non-null response; n is the bytes consumed, -1 for nullptr.
ReceiveOneResponse(buf) ==
  IF Head(buf) \in {CR, LF} THEN [n |-> 1, out |-> <<>>]
  ELSE LET r == Parse(buf)
       IN [n |-> r.n, out |-> IF r.resp # None THEN <<r.resp>> ELSE <<>>]

\* receiveResponsesImpl: parse responses off the front of the buffer; keep
\* an incomplete tail as `unconsumed`; ok = FALSE when a parse is terminal.
RECURSIVE ReceiveResponsesImpl(_, _)
ReceiveResponsesImpl(buf, outs) ==
  IF buf = <<>> THEN [out |-> outs, rest |-> <<>>, ok |-> TRUE]
  ELSE LET r == ReceiveOneResponse(buf)
       IN IF r.n = 0 THEN [out |-> outs \o r.out, rest |-> buf, ok |-> TRUE]
          ELSE IF r.n < 0 THEN [out |-> outs \o r.out, rest |-> buf, ok |-> FALSE]
          ELSE ReceiveResponsesImpl(Drop(buf, r.n), outs \o r.out)

\* The most one read() returns: sizeof(buf) when nothing is buffered, at
\* least 1024 more bytes of the grown vector otherwise.
ReadLimit == IF unconsumed = <<>> THEN 128 ELSE 1024

\* receiveResponses with read() returning k > 0 bytes; readingLoop aborts
\* when it returns false.
Read ==
  /\ ~aborted /\ pending # <<>>
  /\ \E k \in 1..Len(pending) :
       /\ k <= ReadLimit
       /\ LET res == ReceiveResponsesImpl(unconsumed \o SubSeq(pending, 1, k), <<>>)
          IN /\ pending' = Drop(pending, k)
             /\ out' = out \o res.out
             /\ unconsumed' = res.rest
             /\ aborted' = ~res.ok
  /\ UNCHANGED <<nIntr, expected>>

\* receiveResponses when read() fails with EINTR (or returns 0) while a
\* partial message is buffered: the vector was already resized by 1024
\* zero bytes before the read, and nothing shrinks it back.
ReadInterrupted ==
  /\ ~aborted /\ unconsumed # <<>> /\ nIntr < MaxIntr
  /\ unconsumed' = unconsumed \o <<NUL>>
  /\ nIntr' = nIntr + 1
  /\ UNCHANGED <<pending, out, aborted, expected>>

Init ==
  /\ \E sc \in Scenarios : pending = sc.bytes /\ expected = sc.expect
  /\ unconsumed = <<>> /\ out = <<>> /\ aborted = FALSE /\ nIntr = 0

Next == Read \/ ReadInterrupted

Spec == Init /\ [][Next]_vars /\ WF_vars(Read)

-----------------------------------------------------------------------------
(* Properties.                                                             *)

Response == [kind : STRING, payload : Seq(STRING)]

TypeOK ==
  /\ pending \in Seq(STRING) /\ unconsumed \in Seq(STRING)
  /\ out \in Seq(Response) /\ aborted \in BOOLEAN /\ nIntr \in 0..MaxIntr

(* Chunking is transparent (spec sections 4.1 and 8): however read() splits *)
(* the stream, receiveResponsesImpl's buffering of incomplete tails never   *)
(* broadcasts a response the modem did not send, out of order, twice, or    *)
(* with another payload, as long as no read was interrupted.               *)
NoCorruption == nIntr = 0 => IsPrefix(out, expected)

(* Once every byte has been read without an abort or an interrupted read,  *)
(* every response has been broadcast and nothing is left buffered: a       *)
(* multiline reply whose terminator came in a later chunk is still decoded *)
(* exactly once.                                                            *)
AllDelivered ==
  (pending = <<>> /\ ~aborted /\ nIntr = 0) =>
    (out = expected /\ unconsumed = <<>>)

(* A read that fails with EINTR while a partial message is buffered leaves *)
(* the stream as it was: receiveResponses retries, and what is broadcast is *)
(* still only what the modem sent.                                          *)
InterruptedReadHarmless == IsPrefix(out, expected)

(* Spec sections 4.1 and 8: a truncated prefix of a well-formed message is *)
(* "incomplete", never a terminal parse failure, so a chunk boundary alone *)
(* never makes readingLoop abort.                                           *)
IncompleteNeverFatal == ~aborted

=============================================================================
