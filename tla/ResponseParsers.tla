--------------------------- MODULE ResponseParsers ---------------------------
(***************************************************************************)
(* The payload parsers of AtResponse (AtResponse.cpp) and the Parser       *)
(* they are built on (Parser.h, Parser.cpp).  A payload is a sequence of   *)
(* one-character strings, as in AtParser; kCR is "\r".                     *)
(*                                                                         *)
(* A Parser is its input, the number of bytes consumed (mBegin -           *)
(* mImmutableBegin), NoMatch once mBegin is nullptr, and the values its    *)
(* operator() calls have stored so far, in order.  A chain such as         *)
(* parser(&a).skip(',')(&b) is the list of its steps, applied by Chain.    *)
(***************************************************************************)
EXTENDS Integers, Sequences, FiniteSets, SequencesExt

kCR == "\r"
DQ == "\""
NoMatch == -1
IntMax == 2147483647      \* INT32_MAX
IntMin == -IntMax - 1

\* The bytes Parser::skip(' ') passes over: every byte <= ' '.
Blank == {" ", "\t", "\n", kCR, "NUL"}

NewParser(str) == [s |-> str, at |-> 0, vals |-> <<>>]

MatchSoFar(p) == p.at # NoMatch
FullMatch(p) == MatchSoFar(p) /\ p.at = Len(p.s)
HasMore(p) == MatchSoFar(p) /\ p.at < Len(p.s)
FrontChar(p) == IF HasMore(p) THEN p.s[p.at + 1] ELSE "EOF"   \* char(-1)
Consumed(p) == p.at

Failed(p) == [p EXCEPT !.at = NoMatch]
Advance(p, n) == [p EXCEPT !.at = @ + n]
Store(p, n, v) == [p EXCEPT !.at = @ + n, !.vals = Append(@, v)]

RECURSIVE SkipBlanks(_)
SkipBlanks(p) == IF HasMore(p) /\ FrontChar(p) \in Blank THEN SkipBlanks(Advance(p, 1)) ELSE p

\* Parser::skip(char): ' ' skips any run of blanks, another byte must come next.
Skip(p, c) ==
  IF ~MatchSoFar(p) THEN p
  ELSE IF c = " " THEN SkipBlanks(p)
  ELSE IF FrontChar(p) = c THEN Advance(p, 1)
  ELSE Failed(p)

\* Parser::skip(const char*): the input must go on with every byte of str.
RECURSIVE SkipStr(_, _)
SkipStr(p, str) ==
  IF ~MatchSoFar(p) \/ str = <<>> THEN p
  ELSE IF FrontChar(p) = Head(str) THEN SkipStr(Advance(p, 1), Tail(str))
  ELSE Failed(p)

LowerDigits == <<"0", "1", "2", "3", "4", "5", "6", "7", "8", "9", "a", "b", "c", "d", "e", "f">>
UpperDigits == <<"0", "1", "2", "3", "4", "5", "6", "7", "8", "9", "A", "B", "C", "D", "E", "F">>
IsDigit(c, base) == \E i \in 1..base : c = LowerDigits[i] \/ c = UpperDigits[i]
DigitValue(c) == CHOOSE i \in 0..15 : c = LowerDigits[i + 1] \/ c = UpperDigits[i + 1]

\* std::from_chars into an int: an optional '-', the longest run of digits
\* (none: invalid_argument), and result_out_of_range past 32 bits.
FromChars(str, base) ==
  LET neg == str # <<>> /\ Head(str) = "-"
      from == IF neg THEN 1 ELSE 0
      run == Max({k \in 0..(Len(str) - from) : \A j \in 1..k : IsDigit(str[from + j], base)})
      mag == FoldLeft(LAMBDA acc, c : acc * base + DigitValue(c), 0, SubSeq(str, from + 1, from + run))
      v == IF neg THEN -mag ELSE mag
  IN IF run = 0 \/ v < IntMin \/ v > IntMax THEN [ok |-> FALSE, n |-> 0, v |-> 0]
     ELSE [ok |-> TRUE, n |-> from + run, v |-> v]

\* Parser::operator()(int*, base)
ParseInt(p, base) ==
  IF ~MatchSoFar(p) THEN p
  ELSE IF ~HasMore(p) THEN Failed(p)
  ELSE LET r == FromChars(SubSeq(p.s, p.at + 1, Len(p.s)), base)
       IN IF r.ok THEN Store(p, r.n, r.v) ELSE Failed(p)

\* Parser::operator()(std::string_view* / std::string*, end): the bytes up
\* to the next `end`, which is consumed too.
ParseUntil(p, end) ==
  IF ~MatchSoFar(p) THEN p
  ELSE LET Ends == {i \in (p.at + 1)..Len(p.s) : p.s[i] = end}
       IN IF Ends = {} THEN Failed(p)
          ELSE Store(p, Min(Ends) - p.at, SubSeq(p.s, p.at + 1, Min(Ends) - 1))

\* Parser::remaining(): the rest of the input, empty after a failure.
Remaining(p) ==
  IF ~MatchSoFar(p) THEN [p EXCEPT !.vals = Append(@, <<>>)]
  ELSE Store(p, Len(p.s) - p.at, SubSeq(p.s, p.at + 1, Len(p.s)))

\* The steps of a chain of Parser calls.
Num == [op |-> "int", arg |-> 10]
Sk(c) == [op |-> "skip", arg |-> c]
SkS(str) == [op |-> "skipStr", arg |-> str]
To(c) == [op |-> "until", arg |-> c]

Step(p, st) ==
  CASE st.op = "int"     -> ParseInt(p, st.arg)
    [] st.op = "skip"    -> Skip(p, st.arg)
    [] st.op = "skipStr" -> SkipStr(p, st.arg)
    [] st.op = "until"   -> ParseUntil(p, st.arg)

Chain(p, steps) == FoldLeft(Step, p, steps)

\* Chain from a fresh Parser over str.
Run(str, steps) == Chain(NewParser(str), steps)

ParseErrorFor(id) == [id |-> "ParseError", of |-> id]

-----------------------------------------------------------------------------
(* Replies of one or two integers: CFUN, WRMP, CCSS, CMUT, WSOS, CMGS and  *)
(* CMGW take one, CLIP, CLIR and CCWA two; each must match in full.  The   *)
(* decoded reply is its tag and the fields the code makes of the integers. *)
IntsParse(str, nInts) ==
  Run(str, IF nInts = 1 THEN <<Num>> ELSE <<Num, Sk(","), Num>>)

\* The i-th integer read (0 where the parse stopped before it).
IntAt(str, nInts, i) ==
  LET v == IntsParse(str, nInts).vals IN IF i \in DOMAIN v THEN v[i] ELSE 0

IntsReply(id, str, nInts, errId, fields) ==
  IF FullMatch(IntsParse(str, nInts)) THEN [id |-> id] @@ fields
  ELSE ParseErrorFor(errId)

\* The integers stored as they are, or cast to an int-backed enum
\* (CdmaRoamingType, CdmaSubscriptionSource), which keeps the value.
AsInts(str, nInts) == [vals |-> IntsParse(str, nInts).vals]

\* CFUN: state ? RadioState::ON : RadioState::OFF.
CFUN(str) == IntsReply("CFUN", str, 1, "CFUN",
                       [state |-> IF IntAt(str, 1, 1) # 0 THEN "ON" ELSE "OFF"])
WRMP(str) == IntsReply("WRMP", str, 1, "WRMP", AsInts(str, 1))
CCSS(str) == IntsReply("CCSS", str, 1, "CCSS", AsInts(str, 1))
\* CMUT: on = (on != 0).  WSOS: isEmergencyMode = (isEmergencyMode != 0).
CMUT(str) == IntsReply("CMUT", str, 1, "CMUT", [on |-> IntAt(str, 1, 1) # 0])
WSOS(str) == IntsReply("WSOS", str, 1, "WSOS", [isEmergencyMode |-> IntAt(str, 1, 1) # 0])
CMGS(str) == IntsReply("CMGS", str, 1, "CMGS", AsInts(str, 1))
\* CMGW::parse reports its failure as makeParseErrorFor<CMGS>().
CMGW(str) == IntsReply("CMGW", str, 1, "CMGS", AsInts(str, 1))
\* CLIP: enable = enable != 0, and the status cast to ClipStatus.
CLIP(str) == IntsReply("CLIP", str, 2, "CLIP",
                       [enable |-> IntAt(str, 2, 1) # 0, status |-> IntAt(str, 2, 2)])
CLIR(str) == IntsReply("CLIR", str, 2, "CLIR", AsInts(str, 2))
\* CCWA taking any mode but 0 as enabled.
CCWAModeNonZero(str) == IntsReply("CCWA", str, 2, "CCWA",
                                  [enable |-> IntAt(str, 2, 1) # 0, serviceClass |-> IntAt(str, 2, 2)])

\* CCWA: enable = (mode == 1), then the service class.
CCWA(str) == IntsReply("CCWA", str, 2, "CCWA",
                       [enable |-> IntAt(str, 2, 1) = 1, serviceClass |-> IntAt(str, 2, 2)])

\* CPINR::parse: "<code>,<remaining>,<max>," -- the chain ends with skip(',').
CPINR(str) ==
  LET p == Run(str, <<To(","), Num, Sk(","), Num, Sk(",")>>)
  IN IF FullMatch(p) THEN [id |-> "CPINR", vals |-> SubSeq(p.vals, 2, 3)]
     ELSE ParseErrorFor("CPINR")

\* CRSM::parse: "<sw1>,<sw2>" or "<sw1>,<sw2>,<response>".
CRSM(str) ==
  LET p == Run(str, <<Num, Sk(","), Num>>)
      q == Remaining(Skip(p, ","))
  IN IF HasMore(p)
     THEN IF MatchSoFar(Skip(p, ","))
          THEN [id |-> "CRSM", vals |-> p.vals, response |-> q.vals[3]]
          ELSE ParseErrorFor("CRSM")
     ELSE IF ~FullMatch(p) THEN ParseErrorFor("CRSM")
     ELSE [id |-> "CRSM", vals |-> p.vals, response |-> <<>>]

\* Mutation of LenPrefixed: the announced length not compared.
LenPrefixedNoLengthCheck(id, str) ==
  LET p == Run(str, <<Num, Sk(",")>>)
  IN IF MatchSoFar(p) THEN [id |-> id, response |-> Last(Remaining(p).vals)]
     ELSE ParseErrorFor(id)

\* CSIM::parse and CGLA::parse: "<len>,<response>" with len the length of
\* the response.
LenPrefixed(id, str) ==
  LET p == Run(str, <<Num, Sk(",")>>)
      r == Last(Remaining(p).vals)
  IN IF MatchSoFar(p) /\ p.vals[1] = Len(r) THEN [id |-> id, response |-> r]
     ELSE ParseErrorFor(id)

CSIM(str) == LenPrefixed("CSIM", str)
CGLA(str) == LenPrefixed("CGLA", str)

\* CSCA::parse: "<sca>,<tosca>".
CSCA(str) ==
  LET p == Run(str, <<To(","), Num>>)
  IN IF FullMatch(p) THEN [id |-> "CSCA", sca |-> p.vals[1], tosca |-> p.vals[2]]
     ELSE ParseErrorFor("CSCA")

-----------------------------------------------------------------------------
(* +CREG, +CGREG and +CEREG: the number of commas picks the form.          *)

CountOf(str, c) == Cardinality({i \in DOMAIN str : str[i] = c})

\* std::from_chars into areaCode / cellId, whose result is not checked: the
\* field keeps -1 when no hex digit comes first.
HexField(str) == LET r == FromChars(str, 16) IN IF r.ok THEN r.v ELSE -1

RegReply(id, state, areaHex, cellHex, networkType) ==
  [id |-> id, state |-> state, areaCode |-> HexField(areaHex),
   cellId |-> HexField(cellHex), networkType |-> networkType]

\* Mutation of RegParse: the five-field form takes the state from the mode.
RegParseModeAsState(id, str) ==
  LET cell == <<Sk(DQ), To(DQ), Sk(","), Sk(DQ), To(DQ), Sk(","), Num>>
      p0 == Run(str, <<Num>>)
      p1 == Run(str, <<Num, Sk(","), Num>>)
      p3 == Run(str, <<Num, Sk(",")>> \o cell)
      p4 == Run(str, <<Num, Sk(","), Num, Sk(",")>> \o cell)
      n == CountOf(str, ",")
  IN CASE n = 0 /\ FullMatch(p0) -> [id |-> id, state |-> p0.vals[1], areaCode |-> -1, cellId |-> -1, networkType |-> -1]
       [] n = 1 /\ FullMatch(p1) -> [id |-> id, state |-> p1.vals[2], areaCode |-> -1, cellId |-> -1, networkType |-> -1]
       [] n = 3 /\ FullMatch(p3) -> RegReply(id, p3.vals[1], p3.vals[2], p3.vals[3], p3.vals[4])
       [] n = 4 /\ FullMatch(p4) -> RegReply(id, p4.vals[1], p4.vals[3], p4.vals[4], p4.vals[5])
       [] OTHER -> ParseErrorFor(id)

RegParse(id, str) ==
  LET cell == <<Sk(DQ), To(DQ), Sk(","), Sk(DQ), To(DQ), Sk(","), Num>>
      p0 == Run(str, <<Num>>)
      p1 == Run(str, <<Num, Sk(","), Num>>)
      p3 == Run(str, <<Num, Sk(",")>> \o cell)
      p4 == Run(str, <<Num, Sk(","), Num, Sk(",")>> \o cell)
      n == CountOf(str, ",")
  IN CASE n = 0 /\ FullMatch(p0) -> [id |-> id, state |-> p0.vals[1], areaCode |-> -1, cellId |-> -1, networkType |-> -1]
       [] n = 1 /\ FullMatch(p1) -> [id |-> id, state |-> p1.vals[2], areaCode |-> -1, cellId |-> -1, networkType |-> -1]
       [] n = 3 /\ FullMatch(p3) -> RegReply(id, p3.vals[1], p3.vals[2], p3.vals[3], p3.vals[4])
       [] n = 4 /\ FullMatch(p4) -> RegReply(id, p4.vals[2], p4.vals[3], p4.vals[4], p4.vals[5])
       [] OTHER -> ParseErrorFor(id)

CREG(str) == RegParse("CREG", str)
CGREG(str) == RegParse("CGREG", str)
CEREG(str) == RegParse("CEREG", str)

-----------------------------------------------------------------------------
(* +CTEC and the modem technology it names.                                *)

\* CTEC::parse: the comma-separated fields, kept as strings.
RECURSIVE CtecValues(_)
CtecValues(str) ==
  LET commas == {i \in DOMAIN str : str[i] = ","}
  IN IF commas = {} THEN <<str>>
     ELSE <<SubSeq(str, 1, Min(commas) - 1)>> \o CtecValues(SubSeq(str, Min(commas) + 1, Len(str)))

CTEC(str) == [id |-> "CTEC", values |-> CtecValues(str)]

DONE == <<"D", "O", "N", "E">>

\* ratUtils::ModemTechnology, GSM .. NR.
GSM == 0
NR == 6
NoTech == "nullopt"

\* Bit i of an int taken as unsigned, as in mtech & (1U << i): a negative
\* int is the complement of -v - 1.
BitSet(v, i) == IF v >= 0 THEN (v \div 2^i) % 2 = 1 ELSE ((-v - 1) \div 2^i) % 2 = 0

\* CTEC::getCurrentModemTechnology: the lowest technology whose bit is set
\* in the first field, which must be a whole decimal number.
GetCurrentModemTechnology(ctec) ==
  LET vs == ctec.values
      r == FromChars(vs[1], 10)
      bits == {i \in GSM..NR : BitSet(r.v, i)}
  IN IF Len(vs) = 0 \/ Len(vs) > 2 \/ (Len(vs) = 1 /\ vs[1] = DONE) THEN NoTech
     ELSE IF ~r.ok \/ r.n # Len(vs[1]) THEN NoTech
     ELSE IF bits = {} THEN NoTech
     ELSE Min(bits)

IsDONE(ctec) == Len(ctec.values) = 1 /\ ctec.values[1] = DONE

-----------------------------------------------------------------------------
(* +COPS.                                                                  *)

PlusCOPS == <<"+", "C", "O", "P", "S", ":">>
CURRENT == 2   \* COPS::OperatorInfo::State::CURRENT
AUTOMATIC == 0 \* COPS::NetworkSelectionMode::AUTOMATIC

CopsReply(mode, numeric, operators) ==
  [id |-> "COPS", networkSelectionMode |-> mode, numeric |-> numeric,
   operators |-> operators]

\* The while loop over "(state,long,short,numeric)" entries separated by
\* commas; what follows the last entry is not looked at.
RECURSIVE CopsOperators(_, _)
CopsOperators(p, ops) ==
  LET q == Chain([p EXCEPT !.vals = <<>>], <<Sk("("), Num, Sk(","), To(","), To(","), To(")")>>)
      op == [state |-> q.vals[1], longName |-> q.vals[2], shortName |-> q.vals[3],
             numeric |-> q.vals[4]]
  IN IF ~MatchSoFar(q) THEN ParseErrorFor("COPS")
     ELSE IF FrontChar(q) = "," THEN CopsOperators(Skip(q, ","), Append(ops, op))
     ELSE CopsReply(AUTOMATIC, <<>>, Append(ops, op))

\* Mutation of COPS: "m,0,0" recognised without checking it is all.
COPSZeroNoFullMatch(str) ==
  LET p == Chain(SkipStr(NewParser(str), PlusCOPS), <<Sk(" ")>>)
      q == Chain(p, <<Num, Sk(","), Num, Sk(","), To(kCR)>>)
      r == Chain(q, <<SkS(PlusCOPS), Sk(" "), SkS(<<"0", ",", "1", ",">>), To(kCR),
                      SkS(PlusCOPS), Sk(" "), SkS(<<"0", ",", "2", ",">>), To(kCR)>>)
  IN IF ~HasMore(p) THEN ParseErrorFor("COPS")
     ELSE IF FrontChar(p) = "(" THEN CopsOperators(p, <<>>)
     ELSE IF ~MatchSoFar(q) THEN ParseErrorFor("COPS")
     ELSE IF q.vals[2] = 2 /\ FullMatch(q) THEN CopsReply(q.vals[1], q.vals[3], <<>>)
     ELSE IF q.vals[2] # 0 THEN ParseErrorFor("COPS")
     ELSE IF q.vals[3] = <<"0">> THEN CopsReply(q.vals[1], <<>>, <<>>)
     ELSE IF ~FullMatch(r) THEN ParseErrorFor("COPS")
     ELSE CopsReply(AUTOMATIC, <<>>,
                    <<[state |-> CURRENT, longName |-> q.vals[3], shortName |-> r.vals[4],
                       numeric |-> r.vals[5]]>>)

\* COPS::parse.  The three-line form keeps the default selection mode.
COPS(str) ==
  LET p == Chain(SkipStr(NewParser(str), PlusCOPS), <<Sk(" ")>>)
      q == Chain(p, <<Num, Sk(","), Num, Sk(","), To(kCR)>>)
      mode == q.vals[1]
      n == q.vals[2]
      name == q.vals[3]
      r == Chain(q, <<SkS(PlusCOPS), Sk(" "), SkS(<<"0", ",", "1", ",">>), To(kCR),
                      SkS(PlusCOPS), Sk(" "), SkS(<<"0", ",", "2", ",">>), To(kCR)>>)
  IN IF ~HasMore(p) THEN ParseErrorFor("COPS")
     ELSE IF FrontChar(p) = "(" THEN CopsOperators(p, <<>>)
     ELSE IF ~MatchSoFar(q) THEN ParseErrorFor("COPS")
     ELSE IF n = 2 /\ FullMatch(q) THEN CopsReply(mode, name, <<>>)
     ELSE IF n # 0 THEN ParseErrorFor("COPS")
     ELSE IF name = <<"0">> /\ FullMatch(q) THEN CopsReply(mode, <<>>, <<>>)
     ELSE IF ~FullMatch(r) THEN ParseErrorFor("COPS")
     ELSE CopsReply(AUTOMATIC, <<>>,
                    <<[state |-> CURRENT, longName |-> name, shortName |-> r.vals[4],
                       numeric |-> r.vals[5]]>>)

-----------------------------------------------------------------------------
(* +CSQ: 12, 13, 14 or 22 signal values in the order of the CSQ fields.    *)

kMaxSize == 22
kUnknown == IntMax   \* INT32_MAX, what every CSQ field starts as

\* Mutation of CsqValues: the loop bound one short (n < kMaxSize - 1).
RECURSIVE CsqValuesShort(_, _)
CsqValuesShort(p, n) ==
  IF HasMore(p) /\ n < kMaxSize - 1
  THEN LET q == Chain(p, <<Sk(","), Num>>)
       IN IF MatchSoFar(q) THEN CsqValuesShort(q, n + 1) ELSE [p |-> q, n |-> n]
  ELSE [p |-> p, n |-> n]

\* The for loop: another ",<int>" while input remains and n < kMaxSize.
RECURSIVE CsqValues(_, _)
CsqValues(p, n) ==
  IF HasMore(p) /\ n < kMaxSize
  THEN LET q == Chain(p, <<Sk(","), Num>>)
       IN IF MatchSoFar(q) THEN CsqValues(q, n + 1) ELSE [p |-> q, n |-> n]
  ELSE [p |-> p, n |-> n]

\* CSQ::parse: the switch falls through from 22 to 14 to 13 to 12, so the
\* k-th field is set exactly when k <= n; wcdma_rscp and wcdma_ecno (the
\* fields after the 22 values) become 42 and 19 with a known WCDMA signal.
CSQ(str) ==
  LET first == Run(str, <<Num>>)
      loop == CsqValues(first, 1)
      n == loop.n
      v == loop.p.vals
  IN IF ~MatchSoFar(first) \/ ~FullMatch(loop.p) \/ n \notin {12, 13, 14, 22}
     THEN ParseErrorFor("CSQ")
     ELSE [id |-> "CSQ",
           fields |-> [k \in 1..kMaxSize |-> IF k <= n THEN v[k] ELSE kUnknown],
           wcdma |-> IF n = 22 /\ v[15] # kUnknown THEN <<42, 19>> ELSE <<kUnknown, kUnknown>>]

-----------------------------------------------------------------------------
(* Multiline lists: +CLCC and +CCFCU, one line per entry.                  *)

PlusCLCC == <<"+", "C", "L", "C", "C", ":">>
PlusCCFCU == <<"+", "C", "C", "F", "C", "U", ":">>

\* Mutation of ClccCalls: the CR ending each line is not skipped.
RECURSIVE ClccCallsNoCR(_, _)
ClccCallsNoCR(p, calls) ==
  IF ~HasMore(p) THEN [id |-> "CLCC", calls |-> calls]
  ELSE LET q == Chain([p EXCEPT !.vals = <<>>],
                      <<SkS(PlusCLCC), Sk(" "), Num, Sk(","), Num, Sk(","), Num, Sk(","),
                        Num, Sk(","), Num, Sk(","), To(","), Num>>)
           call == [index |-> q.vals[1], isMT |-> q.vals[2] # 0, state |-> q.vals[3],
                    isVoice |-> q.vals[4] = 0, isMpty |-> q.vals[5] # 0,
                    number |-> q.vals[6], toa |-> q.vals[7]]
       IN IF MatchSoFar(q) THEN ClccCallsNoCR(q, Append(calls, call))
          ELSE ParseErrorFor("CLCC")

\* CLCC::parse: while input remains,
\* "+CLCC: <index>,<dir>,<state>,<mode>,<mpty>,<number>,<type>\r".
RECURSIVE ClccCalls(_, _)
ClccCalls(p, calls) ==
  IF ~HasMore(p) THEN [id |-> "CLCC", calls |-> calls]
  ELSE LET q == Chain([p EXCEPT !.vals = <<>>],
                      <<SkS(PlusCLCC), Sk(" "), Num, Sk(","), Num, Sk(","), Num, Sk(","),
                        Num, Sk(","), Num, Sk(","), To(","), Num, Sk(kCR)>>)
           call == [index |-> q.vals[1], isMT |-> q.vals[2] # 0, state |-> q.vals[3],
                    isVoice |-> q.vals[4] = 0, isMpty |-> q.vals[5] # 0,
                    number |-> q.vals[6], toa |-> q.vals[7]]
       IN IF MatchSoFar(q) THEN ClccCalls(q, Append(calls, call))
          ELSE ParseErrorFor("CLCC")

CLCC(str) == ClccCalls(NewParser(str), <<>>)

\* Mutation of CcfcuInfos: two fields ignored before the time, not three.
RECURSIVE CcfcuInfosTwoIgnored(_, _)
CcfcuInfosTwoIgnored(p, infos) ==
  IF ~HasMore(p) THEN [id |-> "CCFCU", callForwardInfos |-> infos]
  ELSE LET q == Chain([p EXCEPT !.vals = <<>>],
                      <<SkS(PlusCCFCU), Sk(" "), Num, Sk(","), Num, Sk(","), Num, Sk(","),
                        Num, Sk(","), Sk(DQ), To(DQ)>>)
           t == Chain(q, <<Sk(","), To(","), To(","), Num, Sk(kCR)>>)
           cfi(time) == [status |-> q.vals[1], serviceClass |-> q.vals[2], toa |-> q.vals[4],
                         number |-> q.vals[5], timeSeconds |-> time]
       IN IF ~MatchSoFar(q) THEN ParseErrorFor("CCFCU")
          ELSE CASE FrontChar(q) = "," /\ MatchSoFar(t) -> CcfcuInfosTwoIgnored(t, Append(infos, cfi(t.vals[8])))
                 [] FrontChar(q) = kCR -> CcfcuInfosTwoIgnored(Skip(q, kCR), Append(infos, cfi(0)))
                 [] OTHER -> ParseErrorFor("CCFCU")

\* CCFCU::parse: while input remains, "+CCFCU: <status>,<class>,<numberType>,
\* <toa>,"<number>"" then CR, or three ignored fields and the time, then CR.
RECURSIVE CcfcuInfos(_, _)
CcfcuInfos(p, infos) ==
  IF ~HasMore(p) THEN [id |-> "CCFCU", callForwardInfos |-> infos]
  ELSE LET q == Chain([p EXCEPT !.vals = <<>>],
                      <<SkS(PlusCCFCU), Sk(" "), Num, Sk(","), Num, Sk(","), Num, Sk(","),
                        Num, Sk(","), Sk(DQ), To(DQ)>>)
           t == Chain(q, <<Sk(","), To(","), To(","), To(","), Num, Sk(kCR)>>)
           cfi(time) == [status |-> q.vals[1], serviceClass |-> q.vals[2], toa |-> q.vals[4],
                         number |-> q.vals[5], timeSeconds |-> time]
       IN IF ~MatchSoFar(q) THEN ParseErrorFor("CCFCU")
          ELSE CASE FrontChar(q) = "," /\ MatchSoFar(t) -> CcfcuInfos(t, Append(infos, cfi(t.vals[9])))
                 [] FrontChar(q) = kCR -> CcfcuInfos(Skip(q, kCR), Append(infos, cfi(0)))
                 [] OTHER -> ParseErrorFor("CCFCU")

CCFCU(str) == CcfcuInfos(NewParser(str), <<>>)

-----------------------------------------------------------------------------
(* +CSCB: the cell broadcast ids and schemes, lists of ranges.             *)

\* CSCB::parseIds: "<from>[-<to>]" entries separated by commas; nullopt is
\* NoIds.
NoIds == "nullopt"
RECURSIVE ParseIds(_, _)
ParseIds(p, ids) ==
  IF ~HasMore(p) THEN ids
  ELSE LET q == ParseInt([p EXCEPT !.vals = <<>>], 10)
           from == q.vals[1]
           r == ParseInt(Skip(q, "-"), 10)
       IN IF ~MatchSoFar(q) THEN NoIds
          ELSE IF FullMatch(q) THEN Append(ids, [from |-> from, to |-> from])
          ELSE CASE FrontChar(q) = "-" ->
                      IF ~MatchSoFar(r) THEN NoIds
                      ELSE IF FullMatch(r) THEN Append(ids, [from |-> from, to |-> r.vals[2]])
                      ELSE IF FrontChar(r) = "," THEN ParseIds(Skip(r, ","), Append(ids, [from |-> from, to |-> r.vals[2]]))
                      ELSE NoIds
                 [] FrontChar(q) = "," -> ParseIds(Skip(q, ","), ids)
                 [] OTHER -> NoIds

\* CSCB::parse: "<mode>,"<ids>","<schemes>"".
CSCB(str) ==
  LET p == Run(str, <<Num, Sk(","), Sk(DQ), To(DQ), Sk(","), Sk(DQ), To(DQ)>>)
      serviceId == ParseIds(NewParser(p.vals[2]), <<>>)
      codeScheme == ParseIds(NewParser(p.vals[3]), <<>>)
  IN IF ~FullMatch(p) \/ serviceId = NoIds \/ codeScheme = NoIds THEN ParseErrorFor("CSCB")
     ELSE [id |-> "CSCB", mode |-> p.vals[1], serviceId |-> serviceId, codeScheme |-> codeScheme]

-----------------------------------------------------------------------------
(* What the modem writes: the renderings the properties feed the parsers.  *)

RECURSIVE Digits10(_)
Digits10(n) == IF n < 10 THEN <<LowerDigits[n + 1]>>
               ELSE Digits10(n \div 10) \o <<LowerDigits[(n % 10) + 1]>>
Dec(n) == IF n < 0 THEN <<"-">> \o Digits10(-n) ELSE Digits10(n)

RECURSIVE Hex(_)
Hex(n) == IF n < 16 THEN <<UpperDigits[n + 1]>> ELSE Hex(n \div 16) \o <<UpperDigits[(n % 16) + 1]>>

RECURSIVE JoinWith(_, _)
JoinWith(parts, sep) ==
  IF Len(parts) <= 1 THEN FlattenSeq(parts)
  ELSE Head(parts) \o sep \o JoinWith(Tail(parts), sep)

Comma(parts) == JoinWith(parts, <<",">>)
Quoted(str) == <<DQ>> \o str \o <<DQ>>

\* Lists of at most two elements of S.
UpTo2(S) == {<<>>} \cup {<<x>> : x \in S} \cup {<<x, y>> : x, y \in S}

=============================================================================
