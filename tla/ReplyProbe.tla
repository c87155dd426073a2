----------------------------- MODULE ReplyProbe -----------------------------
(***************************************************************************)
(* The payload parsers of AtResponse.cpp on one reply at a time.  The      *)
(* reader hands AtResponse::parse the text after the tag as a             *)
(* std::string_view, so a payload parser sees nothing of the framing: the  *)
(* variable reply is one reply the modem writes: its bytes (line) and the  *)
(* values they are written from, as the parser should decode them (want). *)
(* The modem's forms of each reply are the ones the parsers' comments and  *)
(* the AT command set give.                                               *)
(***************************************************************************)
EXTENDS RatUtils, UsimToSim

VARIABLE reply  \* [kind |-> which parser, line |-> the bytes, want |-> their values, x |-> inputs]

\* The lists of at most one element of S: an optional field.
UpTo1(S) == {<<>>} \cup {<<e>> : e \in S}

\* A reply the modem writes: the bytes, and the values they stand for.
Reply(kind, line, want) == [kind |-> kind, line |-> line, want |-> want, x |-> 0]

Names == {<<"0">>, <<"A", "b">>}

\* The registration reports in their four forms: state; mode,state;
\* state,"lac","ci",type; and the same after the mode.  The state and mode
\* come with either the zero cell or one whose hex fields take several digits.
RegLines ==
  LET Long(id, st, c) == [id |-> id, state |-> st, areaCode |-> c[1], cellId |-> c[2], networkType |-> c[3]]
      Short(id, st) == [id |-> id, state |-> st, areaCode |-> -1, cellId |-> -1, networkType |-> -1]
      Cell(st, c) == Comma(<<Dec(st), Quoted(Hex(c[1])), Quoted(Hex(c[2])), Dec(c[3])>>)
      Forms(id, st, m, c) ==
        { Reply("Reg", Dec(st), Short(id, st)),
          Reply("Reg", Comma(<<Dec(m), Dec(st)>>), Short(id, st)),
          Reply("Reg", Cell(st, c), Long(id, st, c)),
          Reply("Reg", Dec(m) \o <<",">> \o Cell(st, c), Long(id, st, c)) }
  IN UNION {Forms(id, 1, 0, <<0, 1, 0>>) \cup Forms(id, 5, 2, <<171, 498, 7>>) :
              id \in {"CREG", "CGREG", "CEREG"}}

\* +COPS: a list of operators; the mode with a numeric name; the mode alone
\* ("m,0,0"); the long, short and numeric names of the current operator.
CopsLines ==
  LET Line(mode, n, x) == PlusCOPS \o <<" ">> \o Comma(<<Dec(mode), Dec(n), x>>) \o <<kCR>>
      Entry(o) == <<"(">> \o Comma(<<Dec(o.state), o.longName, o.shortName, o.numeric>>) \o <<")">>
      Ops == { [state |-> 1, longName |-> <<"0">>, shortName |-> <<"A", "b">>, numeric |-> <<"1", "2">>],
               [state |-> 2, longName |-> <<"A", "b">>, shortName |-> <<"0">>, numeric |-> <<"1", "2">>] }
  IN { Reply("COPS", PlusCOPS \o <<" ">> \o Comma([i \in DOMAIN ops |-> Entry(ops[i])]) \o <<kCR>>,
             CopsReply(AUTOMATIC, <<>>, ops)) : ops \in UpTo2(Ops) \ {<<>>} }
     \cup { Reply("COPS", Line(m, 2, <<"1", "2">>), CopsReply(m, <<"1", "2">>, <<>>)) : m \in {0, 1} }
     \cup { Reply("COPS", Line(m, 0, <<"0">>), CopsReply(m, <<>>, <<>>)) : m \in {0, 1} }
     \cup { Reply("COPS", Line(0, 0, n[1]) \o Line(0, 1, n[2]) \o Line(0, 2, <<"1", "2">>),
                  CopsReply(AUTOMATIC, <<>>, <<[state |-> CURRENT, longName |-> n[1],
                                                shortName |-> n[2], numeric |-> <<"1", "2">>]>>)) :
            n \in Names \X Names }

\* +CLCC lists of up to two calls.
ClccLines ==
  LET Calls == { [index |-> 1, dir |-> 0, state |-> 0, mode |-> 0, mpty |-> 1, number |-> <<>>, type |-> 129],
                 [index |-> 2, dir |-> 1, state |-> 4, mode |-> 1, mpty |-> 1, number |-> <<"+", "1", "2">>, type |-> 145] }
      Line(c) == PlusCLCC \o <<" ">> \o Comma(<<Dec(c.index), Dec(c.dir), Dec(c.state), Dec(c.mode),
                                                Dec(c.mpty), c.number, Dec(c.type)>>) \o <<kCR>>
      Decoded(c) == [index |-> c.index, isMT |-> c.dir # 0, state |-> c.state, isVoice |-> c.mode = 0,
                     isMpty |-> c.mpty # 0, number |-> c.number, toa |-> c.type]
  IN { Reply("CLCC", FlattenSeq([i \in DOMAIN cs |-> Line(cs[i])]),
             [id |-> "CLCC", calls |-> [i \in DOMAIN cs |-> Decoded(cs[i])]]) : cs \in UpTo2(Calls) }

\* +CCFCU lists of up to two entries, with and without the trailing fields.
CcfcuLines ==
  LET Infos == { [status |-> 0, serviceClass |-> 1, toa |-> 129, number |-> <<>>, timeSeconds |-> 0],
                 [status |-> 1, serviceClass |-> 1, toa |-> 145, number |-> <<"+", "1", "2">>, timeSeconds |-> 20] }
      Line(f) == PlusCCFCU \o <<" ">>
                   \o Comma(<<Dec(f.status), Dec(f.serviceClass), <<"0">>, Dec(f.toa), Quoted(f.number)>>)
                   \o (IF f.timeSeconds = 0 THEN <<>> ELSE <<",", ",", ",", ",">> \o Dec(f.timeSeconds))
                   \o <<kCR>>
  IN { Reply("CCFCU", FlattenSeq([i \in DOMAIN fs |-> Line(fs[i])]),
             [id |-> "CCFCU", callForwardInfos |-> fs]) : fs \in UpTo2(Infos) }

\* +CSQ with 1 .. 23 values, the k-th being k: 12, 13, 14 and 22 values
\* fill the fields by position, the rest stay unknown; other counts fail.
CsqLines ==
  { Reply("CSQ", Comma([k \in 1..n |-> Dec(k)]),
          IF n \in {12, 13, 14, 22}
          THEN [id |-> "CSQ", fields |-> [k \in 1..kMaxSize |-> IF k <= n THEN k ELSE kUnknown],
                wcdma |-> IF n = 22 THEN <<42, 19>> ELSE <<kUnknown, kUnknown>>]
          ELSE ParseErrorFor("CSQ")) : n \in 1..(kMaxSize + 1) }

IntVals == {-1, 0, 7, 2147483647}
SimResponses == {<<>>, <<"9", "0", "0", "0">>}

\* What the integers of a field reply mean: a flag (+CMUT, +WSOS, +CLIP's
\* <n>) is set by any value but 0, +CCWA's <status> is active only as 1,
\* +CFUN's <fun> 0 is the radio off and any other level leaves it on; the
\* other fields are numbers or enum values taken as they are.
FieldMeaning(id, v) ==
  CASE id = "CFUN" -> [id |-> id, state |-> IF v[1] = 0 THEN "OFF" ELSE "ON"]
    [] id = "CMUT" -> [id |-> id, on |-> v[1] # 0]
    [] id = "WSOS" -> [id |-> id, isEmergencyMode |-> v[1] # 0]
    [] id = "CLIP" -> [id |-> id, enable |-> v[1] # 0, status |-> v[2]]
    [] id = "CCWA" -> [id |-> id, enable |-> v[1] = 1, serviceClass |-> v[2]]
    [] OTHER -> [id |-> id, vals |-> v]

\* Replies of integer fields, each also with a field too few or a byte too
\* many; +CRSM with and without its response; +CSIM / +CGLA with announced
\* lengths 0 .. 5; +CSCA with and without an address.
FieldLines ==
  LET One == {"CFUN", "WRMP", "CCSS", "CMUT", "WSOS", "CMGS", "CMGW"}
      Two == {"CLIP", "CLIR", "CCWA"}
  IN { Reply("Field", Dec(a), FieldMeaning(id, <<a>>)) : id \in One, a \in IntVals \cup {1} }
     \cup { Reply("Field", Dec(a) \o <<",">>, ParseErrorFor(id)) : id \in One, a \in {-1, 7} }
     \cup { Reply("Field", Comma(<<Dec(a), Dec(b)>>), FieldMeaning(id, <<a, b>>)) :
              id \in Two, a \in {-1, 0, 1, 7}, b \in IntVals }
     \cup { Reply("Field", Dec(a), ParseErrorFor(id)) : id \in Two, a \in {-1, 7} }
     \cup { Reply("Field", Comma(<<Dec(a), Dec(b)>> \o rsp),
                  [id |-> "CRSM", vals |-> <<a, b>>, response |-> IF rsp = <<>> THEN <<>> ELSE rsp[1]]) :
              a, b \in {0, 144}, rsp \in UpTo1(SimResponses) }
     \cup { Reply("Field", Comma(<<Dec(n), rsp>>),
                  IF n = Len(rsp) THEN [id |-> id, response |-> rsp] ELSE ParseErrorFor(id)) :
              id \in {"CSIM", "CGLA"}, rsp \in SimResponses, n \in 0..5 }
     \cup { Reply("Field", Comma(<<sca, Dec(tosca)>>), [id |-> "CSCA", sca |-> sca, tosca |-> tosca]) :
              sca \in {<<>>, Quoted(<<"+", "1", "2">>)}, tosca \in {129, 145} }

\* USIM files as a UICC describes them in its FCP template (TS 102 221): a
\* transparent EF, a linear fixed and a cyclic EF with their record length,
\* and a DF, each with a file id (one holding the byte 0x80) and a size.
UsimFiles ==
  [type : {"transparent", "linear", "cyclic", "DF"}, recLen : {28, 130},
   size : {10, 384}, fid : {<<111, 58>>, <<111, 128>>}]

\* The FCP: 0x62, its length, the file descriptor (0x82), the file id
\* (0x83), the life cycle status (0x8A), the file size (0x80) and the
\* short file id (0x88).
Fcp(f) ==
  LET descriptor ==
        CASE f.type = "transparent" -> <<130, 2, 65, 33>>
          [] f.type = "linear" -> <<130, 5, 66, 33, 0, f.recLen, 4>>
          [] f.type = "cyclic" -> <<130, 5, 70, 33, 0, f.recLen, 4>>
          [] f.type = "DF" -> <<130, 2, 120, 33>>
      body == descriptor \o <<131, 2>> \o f.fid \o <<138, 1, 5>>
                \o <<128, 2, f.size \div 256, f.size % 256>> \o <<136, 1, 16>>
  IN <<98, Len(body)>> \o body

\* The response of a GSM SIM to GET RESPONSE on an EF (TS 51.011 9.2.1),
\* bytes numbered from 1: the file size in bytes 3-4, the type EF (4) in
\* byte 7, the structure in byte 14 (0 transparent, 1 linear fixed, 3
\* cyclic) and the record length in byte 15.
GsmEfResponse(f) ==
  [k \in 1..15 |->
     CASE k = 3 -> f.size \div 256 [] k = 4 -> f.size % 256 [] k = 7 -> 4
       [] k = 14 -> (CASE f.type = "transparent" -> 0 [] f.type = "linear" -> 1
                        [] f.type = "cyclic" -> 3)
       [] k = 15 -> IF f.type = "transparent" THEN 0 ELSE f.recLen
       [] OTHER -> 0]

\* Bytes in hex with the given digits.
HexText(b, digits) ==
  FlattenSeq([k \in DOMAIN b |-> <<digits[(b[k] \div 16) + 1], digits[(b[k] % 16) + 1]>>])

\* The +CRSM response text of GET RESPONSE on each file, in either case,
\* with what iccIoForApp should answer: a DF has no GSM EF response.
FcpLines ==
  { Reply("FCP", HexText(Fcp(f), digits),
          IF f.type = "DF"
          THEN [status |-> "GENERIC_FAILURE", simResponse |-> <<>>, readPastEnd |-> FALSE]
          ELSE [status |-> "NONE", simResponse |-> HexText(GsmEfResponse(f), UpperDigits),
                readPastEnd |-> FALSE]) :
      f \in UsimFiles, digits \in {LowerDigits, UpperDigits} }

\* One RadioTechnology of each family: every bitmask over them is an
\* argument of setAllowedNetworkTypesBitmap.
SampleTechs == {"GPRS", "UMTS", "IS95A", "EHRPD", "TD_SCDMA", "LTE", "NR"}

\* Every reply the properties try.
Replies ==
  RegLines \cup CopsLines \cup ClccLines \cup CcfcuLines \cup CsqLines \cup FieldLines
    \cup FcpLines
    \cup {[kind |-> "CTEC", line |-> <<>>, want |-> 0, x |-> bitmask] : bitmask \in SUBSET SampleTechs}

\* The command a reply is for, also when it is a ParseError.
Tag(r) == IF r.want.id = "ParseError" THEN r.want.of ELSE r.want.id

\* A parser's result matches what was written; a rejection is checked as a
\* rejection only, since CMGW reports its ParseError under the tag CMGS.
Decodes(result, want) ==
  IF want.id = "ParseError" THEN result.id = "ParseError" ELSE result = want

-----------------------------------------------------------------------------
(* The registration reports +CREG, +CGREG and +CEREG, in each of their four *)
(* forms, decode to the state, area code, cell id and network type written: *)
(* CREG::parse picks its chain by the comma count, and reads the hex fields *)
(* in base 16.                                                              *)
RegRoundTrip ==
  reply.kind = "Reg" => Decodes(RegParse(Tag(reply), reply.line), reply.want)

(* +COPS in the four forms COPS::parse's comment lists decodes to what was *)
(* written: a list of operators, the selection mode with a numeric name,   *)
(* the selection mode alone ("m,0,0"), and the three lines of long, short  *)
(* and numeric names of the current operator -- even when the long name is *)
(* itself "0", which the "m,0,0" form must not swallow.                    *)
CopsRoundTrip ==
  reply.kind = "COPS" => Decodes(COPS(reply.line), reply.want)

(* A +CLCC list of up to two calls decodes to the calls written, in order, *)
(* each with its index, direction, state, mode, multiparty flag, number     *)
(* and type of address.                                                     *)
ClccRoundTrip ==
  reply.kind = "CLCC" => Decodes(CLCC(reply.line), reply.want)

(* A +CCFCU list of up to two call-forwarding entries, each with or        *)
(* without the trailing subaddress fields and time, decodes to the entries *)
(* written; an entry without a time reads as 0 seconds.                    *)
CcfcuRoundTrip ==
  reply.kind = "CCFCU" => Decodes(CCFCU(reply.line), reply.want)

(* A +CSQ reply is accepted exactly when it carries 12, 13, 14 or 22      *)
(* values, and then the k-th value lands in the k-th field and every later *)
(* field stays unknown: the fall-through of CSQ::parse's switch drops no  *)
(* value.                                                                   *)
CsqFieldsByPosition ==
  reply.kind = "CSQ" => Decodes(CSQ(reply.line), reply.want)

\* The parser of a reply of one or a few fields.
FieldParse(id, str) ==
  CASE id = "CFUN" -> CFUN(str) [] id = "WRMP" -> WRMP(str) [] id = "CCSS" -> CCSS(str)
    [] id = "CMUT" -> CMUT(str) [] id = "WSOS" -> WSOS(str) [] id = "CMGS" -> CMGS(str)
    [] id = "CMGW" -> CMGW(str) [] id = "CLIP" -> CLIP(str) [] id = "CLIR" -> CLIR(str)
    [] id = "CCWA" -> CCWA(str) [] id = "CRSM" -> CRSM(str) [] id = "CSCA" -> CSCA(str)
    [] id \in {"CSIM", "CGLA"} -> LenPrefixed(id, str)

(* The replies of integer fields decode to what their integers mean,     *)
(* negative ones included: the flags, +CCWA's status and +CFUN's level    *)
(* converted, the other fields as written; a field too few or a byte too  *)
(* many is rejected; +CRSM keeps its response text, +CSIM / +CGLA accept   *)
(* a response exactly when its length is the one announced, and +CSCA      *)
(* keeps the address before the comma.                                     *)
FieldRepliesRoundTrip ==
  reply.kind = "Field" => Decodes(FieldParse(Tag(reply), reply.line), reply.want)

(* setAllowedNetworkTypesBitmap writes AT+CTEC=<current>,"<bitmask>": the  *)
(* current technology is the most capable one of the bitmask written next  *)
(* to it (GSM when the bitmask is empty), the family getAllowedNetwork-    *)
(* TypesBitmap answers for it meets the bitmask the framework set, the     *)
(* technology voiceRadioTechChanged reports for it is of its family, and a *)
(* +CTEC reply whose current field carries its bit reads back as it.       *)
AllowedTechnologyConsistent ==
  reply.kind = "CTEC" =>
    LET bitmask == reply.x
        current == modemTechnologyFromRadioTechnologyBitmask(bitmask)
        techs == modemTechnologyBitmaskFromRadioTechnologyBitmask(bitmask)
    IN /\ IF techs = {} THEN current = GSM
          ELSE current \in techs /\ \A t \in techs : t <= current
       /\ bitmask # {} => supportedRadioTechBitmask(current) \cap bitmask # {}
       /\ currentRadioTechnology(current) \in supportedRadioTechBitmask(current)
       /\ GetCurrentModemTechnology(CTEC(Dec(2^current) \o <<",">> \o Hex(SumSet({2^t : t \in techs}))))
            = current
(* iccIoForApp answers GET RESPONSE on a USIM EF with the GSM SIM response *)
(* the client expects, in upper-case hex, whichever case the modem wrote   *)
(* the FCP in: convertUsimToSim finds the descriptor and walks the TLVs to *)
(* the size, past a file id holding 0x80, without reading past the FCP's  *)
(* end, and puts size, structure and record length at the bytes TS 51.011 *)
(* gives them; a DF is refused with GENERIC_FAILURE.                       *)
UsimResponseConverted ==
  reply.kind = "FCP" => IccIoGetResponse(reply.line) = reply.want
=============================================================================
