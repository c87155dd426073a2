------------------------------ MODULE UsimToSim ------------------------------
(* RadioSim::iccIoForApp on a GET RESPONSE (command 192): the modem's      *)
(* +CRSM response text is a USIM FCP template in hex (hexbin.cpp); the     *)
(* client expects the 15-byte response of a GSM SIM, which                 *)
(* convertUsimToSim (part_002) builds from the FCP's file descriptor (tag *)
(* 0x82) and file size (tag 0x80) and renders in hex again.  A byte is an  *)
(* integer in 0..255, a hex text a sequence of one-character strings.     *)
(* Reading bytesUSIM past its end is undefined behaviour; the conversion   *)
(* records that it happened (readPastEnd) instead of choosing a value.     *)
EXTENDS ResponseParsers, Bitwise

\* hex2bin1: the value of a hex digit of either case; any other character
\* reads as 0.
Hex2Bin1(c) == IF IsDigit(c, 16) THEN DigitValue(c) ELSE 0

\* hex2bin: an odd length fails; otherwise each pair of digits is a byte,
\* (hex2bin1(s[0]) << 4) | hex2bin1(s[1]).
Hex2Bin(hex) ==
  IF Len(hex) % 2 = 1 THEN [ok |-> FALSE, bin |-> <<>>]
  ELSE [ok |-> TRUE,
        bin |-> [k \in 1..(Len(hex) \div 2) |->
                   16 * Hex2Bin1(hex[2 * k - 1]) + Hex2Bin1(hex[2 * k])]]

\* bin2hex1: '0' + x below 10, 'A' + x - 10 above.
Bin2Hex1(x) == UpperDigits[x + 1]

\* bin2hex: each byte as its high nibble (bb >> 4) then its low (bb & 0xF).
Bin2Hex(b) ==
  FlattenSeq([k \in DOMAIN b |-> <<Bin2Hex1(shiftR(b[k], 4)), Bin2Hex1(b[k] & 15)>>])

\* The tags and EF types convertUsimToSim knows (UsimEfType).
USIM_FILE_DES_TAG == 130    \* 0x82
USIM_FILE_SIZE_TAG == 128   \* 0x80
TRANSPARENT == 1
LINEAR_FIXED == 2
CYCLIC == 6

PastEnd == -2  \* a loop read bytesUSIM[i + 1] with i + 1 = size()

\* The first loop: the first byte equal to 0x82, scanning byte by byte from
\* index 0; -1 (return false) when the scan reaches the end.  u[i + 1] is
\* bytesUSIM[i].
RECURSIVE FindDes(_, _)
FindDes(u, i) ==
  IF u[i + 1] = USIM_FILE_DES_TAG THEN i
  ELSE IF i + 1 >= Len(u) THEN -1 ELSE FindDes(u, i + 1)

\* The second loop: from desIndex, skip whole TLVs (i += bytesUSIM[i + 1]
\* + 2) until a 0x80 tag; -1 when i reaches the end.
RECURSIVE FindSize(_, _)
FindSize(u, i) ==
  IF u[i + 1] = USIM_FILE_SIZE_TAG THEN i
  ELSE IF i + 1 >= Len(u) THEN PastEnd
  ELSE LET j == i + u[i + 2] + 2 IN IF j >= Len(u) THEN -1 ELSE FindSize(u, j)

\* The record length the LINEAR_FIXED and CYCLIC cases copy: the low byte
\* at the absolute index USIM_RESPONSE_DATA_FILE_RECORD_LEN_2 (7); the high
\* byte (index 6) is commented out.
RecordLen1(u) == u[6 + 1]

RecordLen(u) == u[7 + 1]

\* bytesSIM: zero but for the file size (indices 2, 3), the file type EF
\* (6), the structure (13) and the record length (14).
SimResponse(type, u, size) ==
  [k \in 1..15 |->
     CASE k - 1 = 2 -> u[size + 2 + 1]
       [] k - 1 = 3 -> u[size + 3 + 1]
       [] k - 1 = 6 -> 4
       [] k - 1 = 13 -> (CASE type = TRANSPARENT -> 0 [] type = LINEAR_FIXED -> 1
                            [] type = CYCLIC -> 3)
       [] k - 1 = 14 -> IF type = TRANSPARENT THEN 0 ELSE RecordLen(u)
       [] OTHER -> 0]

Converted(ok, ub, hex) == [ok |-> ok, readPastEnd |-> ub, hexSIM |-> hex]

\* convertUsimToSim: find the descriptor, then the size TLV, then switch
\* on the EF type in the descriptor's first byte (& 0x07).  LINEAR_FIXED
\* checks the absolute indices 2 and 3 for the tag and a length of 5.
ConvertUsimToSim(u) ==
  LET des == FindDes(u, 0)
      size == FindSize(u, des)
      Beyond(idx) == \E i \in idx : i >= Len(u)
      type == u[des + 2 + 1] & 7
  IN CASE des < 0 -> Converted(FALSE, FALSE, <<>>)
       [] size = PastEnd -> Converted(FALSE, TRUE, <<>>)
       [] size < 0 -> Converted(FALSE, FALSE, <<>>)
       [] Beyond({des + 2}) -> Converted(FALSE, TRUE, <<>>)
       [] type \notin {TRANSPARENT, LINEAR_FIXED, CYCLIC} -> Converted(FALSE, FALSE, <<>>)
       [] type = LINEAR_FIXED /\ (u[2 + 1] # USIM_FILE_DES_TAG \/ u[3 + 1] # 5) ->
            Converted(FALSE, FALSE, <<>>)
       [] Beyond(IF type = TRANSPARENT THEN {size + 2, size + 3}
                 ELSE {7, size + 2, size + 3}) -> Converted(FALSE, TRUE, <<>>)
       [] OTHER -> Converted(TRUE, FALSE, Bin2Hex(SimResponse(type, u, size)))

\* iccIoForApp's GET RESPONSE branch: a response that is hex, not empty
\* and starts with the FCP tag 0x62 is converted; anything else, or a
\* failed conversion, answers GENERIC_FAILURE with an empty result.
IccIoGetResponse(response) ==
  LET h == Hex2Bin(response)
      c == ConvertUsimToSim(h.bin)
  IN IF h.ok /\ h.bin # <<>> /\ h.bin[1] = 98 /\ c.ok
     THEN [status |-> "NONE", simResponse |-> c.hexSIM, readPastEnd |-> FALSE]
     ELSE [status |-> "GENERIC_FAILURE", simResponse |-> <<>>,
           readPastEnd |-> h.ok /\ h.bin # <<>> /\ h.bin[1] = 98 /\ c.readPastEnd]
=============================================================================
