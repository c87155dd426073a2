------------------------------ MODULE RatUtils ------------------------------
(***************************************************************************)
(* ratUtils (ratUtils.h, ratUtils.cpp): the conversions between the        *)
(* modem's technologies (ModemTechnology GSM .. NR, here 0 .. 6) and the   *)
(* framework's RadioTechnology bitmasks, used by RadioNetwork to write     *)
(* AT+CTEC=<current>,"<modem bitmask>" and to answer                       *)
(* getAllowedNetworkTypesBitmap, and by RadioModem for the supported       *)
(* technologies.  A bitmask of RadioTechnology bits is the set of the      *)
(* technologies whose bit is set; a modem bitmask is a set of              *)
(* ModemTechnology values.                                                 *)
(***************************************************************************)
EXTENDS ResponseParsers

WCDMA == 1
CDMA == 2
EVDO == 3
TDSCDMA == 4
LTE == 5
ModemTechnologies == GSM..NR

\* The RadioTechnology bits of each family (ratUtils.h).
kGSM == {"GSM", "GPRS", "EDGE"}
kWCDMA == {"HSUPA", "HSDPA", "HSPA", "HSPAP", "UMTS"}
kCDMA == {"IS95A", "IS95B", "ONE_X_RTT"}
kEVDO == {"EVDO_0", "EVDO_A", "EVDO_B", "EHRPD"}
kTDSCDMA == {"TD_SCDMA"}
kLTE == {"LTE"}
kNR == {"NR"}

\* supportedRadioTechBitmask: the family of a technology, 0 past the table.
supportedRadioTechBitmask(mtech) ==
  LET kTechsBitmask == <<kGSM, kWCDMA, kCDMA, kEVDO, kTDSCDMA, kLTE, kNR>>
  IN IF mtech \in ModemTechnologies THEN kTechsBitmask[mtech + 1] ELSE {}

\* currentRadioTechnology: the technology reported as current, EDGE past
\* the table.
currentRadioTechnology(mtech) ==
  LET kCurrentTech == <<"EDGE", "HSPA", "IS95B", "EVDO_B", "TD_SCDMA", "LTE", "NR">>
  IN IF mtech \in ModemTechnologies THEN kCurrentTech[mtech + 1] ELSE "EDGE"

\* The families in the order the two conversions below test them.
FamilyOrder == <<<<kNR, NR>>, <<kLTE, LTE>>, <<kTDSCDMA, TDSCDMA>>, <<kEVDO, EVDO>>,
                 <<kCDMA, CDMA>>, <<kWCDMA, WCDMA>>>>

\* Mutation of modemTechnologyFromRadioTechnologyBitmask: LTE tested before NR.
modemTechnologyLteFirst(bitmask) ==
  LET order == <<<<kLTE, LTE>>, <<kNR, NR>>>> \o SubSeq(FamilyOrder, 3, 6)
      hits == {i \in DOMAIN order : order[i][1] \cap bitmask # {}}
  IN IF hits = {} THEN GSM ELSE order[Min(hits)][2]

\* modemTechnologyFromRadioTechnologyBitmask: the first family, in
\* FamilyOrder, that the bitmask meets; GSM when none does.
modemTechnologyFromRadioTechnologyBitmask(bitmask) ==
  LET hits == {i \in DOMAIN FamilyOrder : FamilyOrder[i][1] \cap bitmask # {}}
  IN IF hits = {} THEN GSM ELSE FamilyOrder[Min(hits)][2]

\* modemTechnologyBitmaskFromRadioTechnologyBitmask: the bit of every family
\* the bitmask meets, GSM's included.
modemTechnologyBitmaskFromRadioTechnologyBitmask(bitmask) ==
  {FamilyOrder[i][2] : i \in {i \in DOMAIN FamilyOrder : FamilyOrder[i][1] \cap bitmask # {}}}
    \cup (IF kGSM \cap bitmask # {} THEN {GSM} ELSE {})

=============================================================================
