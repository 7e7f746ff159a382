------------------------------ MODULE PduCodec ------------------------------
(***************************************************************************)
(* From a text to the octets of SMS PDUs and back: the alphabets, the      *)
(* packing of septets, the split of long texts, the fields of a PDU, and   *)
(* the two layouts and two header conventions the parser accepts.          *)
(*                                                                         *)
(* A text is a sequence of characters.  The alphabet is a sample of        *)
(* Unicode with one character for each case the code tells apart; "at" is  *)
(* septet 0, what a wrong padding shows as, and "paren" has the code that  *)
(* "brace" has after an escape.  Octet strings are sequences of 0 .. 255.  *)
(***************************************************************************)
EXTENDS Integers, Sequences, SequencesExt, FiniteSetsExt

CONSTANTS GsmSingle,  \* septets of a message of one segment: 160
          GsmCap,     \* septets of a segment with a header: 153
          Ucs2Cap     \* UTF-16 units of a segment: 67

ASSUME CapsAssumption == {GsmSingle, GsmCap, Ucs2Cap} \subseteq Nat \ {0, 1}

-----------------------------------------------------------------------------
(***************************************************************************)
(* Alphabets.                                                              *)
(***************************************************************************)
Esc == 27
Unknown == "?"
Basic == [c \in {"at", "paren", "a", "eacute", "escape"} |->
  CASE c = "at" -> 0 [] c = "paren" -> 40 [] c = "a" -> 97 [] c = "eacute" -> 30 [] c = "escape" -> Esc]
Extension == [c \in {"brace", "bracket"} |-> IF c = "brace" THEN 40 ELSE 60]
Ascii == {"at", "paren", "a", "escape", "brace", "bracket"}

\* UTF-16: one unit, or a surrogate pair.
Bmp == [c \in {"at", "paren", "a", "eacute", "escape", "brace", "bracket", "han"} |->
  CASE c = "at" -> 64 [] c = "paren" -> 40 [] c = "a" -> 97 [] c = "eacute" -> 233
    [] c = "escape" -> 27 [] c = "brace" -> 123 [] c = "bracket" -> 91 [] c = "han" -> 28450]
Emoji == <<55357, 56832>>
Characters == DOMAIN Bmp \cup {"emoji"}
Units == [c \in Characters |-> IF c \in DOMAIN Bmp THEN <<Bmp[c]>> ELSE Emoji]

\* ascii_text_eligible.
AsciiTextEligible(text) ==
  \A i \in DOMAIN text :
    text[i] \in (Ascii \cap (DOMAIN Basic \cup DOMAIN Extension)) \ {"escape"}

SeptetsOf(c) == IF c \in DOMAIN Basic THEN <<Basic[c]>> ELSE <<Esc, Extension[c]>>
Gsm7Septets(text) == FlattenSeq([i \in DOMAIN text |-> SeptetsOf(text[i])])

CharOf(table, code) ==
  IF \E c \in DOMAIN table : table[c] = code THEN CHOOSE c \in DOMAIN table : table[c] = code
  ELSE Unknown

\* Both decoders go through their input once; what was taken together with the element
\* before is skipped.
Start == [text |-> <<>>, skip |-> FALSE]

\* An escape takes the septet behind it with it, known or not.
NextSeptet(d, septets, i) ==
  LET escaped == IF i < Len(septets) THEN CharOf(Extension, septets[i + 1]) ELSE Unknown
  IN  IF d.skip THEN [text |-> d.text, skip |-> FALSE]
      ELSE IF septets[i] # Esc
        THEN [text |-> Append(d.text, CharOf(Basic, septets[i])), skip |-> FALSE]
        ELSE [text |-> IF escaped = Unknown THEN d.text ELSE Append(d.text, escaped), skip |-> TRUE]

Gsm7Decode(septets) ==
  LET upTo[i \in 0 .. Len(septets)] ==
        IF i = 0 THEN Start ELSE NextSeptet(upTo[i - 1], septets, i)
  IN  upTo[Len(septets)].text

OctetsOf(c) == FlattenSeq([k \in DOMAIN Units[c] |-> <<Units[c][k] \div 256, Units[c][k] % 256>>])
Utf16Octets(text) == FlattenSeq([i \in DOMAIN text |-> OctetsOf(text[i])])

\* A pair of units that is no character decodes, like any unit that is none, to one Unknown.
NextUnit(d, units, i) ==
  LET pair == IF i < Len(units) THEN CharOf(Units, <<units[i], units[i + 1]>>) ELSE Unknown
  IN  IF d.skip THEN [text |-> d.text, skip |-> FALSE]
      ELSE IF pair # Unknown
        THEN [text |-> Append(d.text, pair), skip |-> TRUE]
        ELSE [text |-> Append(d.text, CharOf(Units, <<units[i]>>)), skip |-> FALSE]

Utf16Decode(octets) ==
  LET units == [i \in 1 .. Len(octets) \div 2 |-> 256 * octets[2 * i - 1] + octets[2 * i]]
      upTo[i \in 0 .. Len(units)] == IF i = 0 THEN Start ELSE NextUnit(upTo[i - 1], units, i)
  IN  upTo[Len(units)].text

-----------------------------------------------------------------------------
(***************************************************************************)
(* Septets in octets.                                                      *)
(***************************************************************************)
CeilDiv(a, b) == (a + b - 1) \div b

\* n values of width `to` out of the bits of values of width `width`, the least significant
\* first; bits past the end are 0.
Regroup(values, width, to, n) ==
  LET value(k) == IF k <= Len(values) THEN values[k] ELSE 0
      at(j) == to * (j - 1)
      two(j) == value(at(j) \div width + 1) + 2 ^ width * value(at(j) \div width + 2)
  IN  [j \in 1 .. n |-> (two(j) \div 2 ^ (at(j) % width)) % 2 ^ to]

\* unpack_septets.
Unpack(octets, n) == Regroup(octets, 8, 7, n)

\* Variant: no fill bits are counted.
HeaderSeptetsCut(octets) == (octets * 8) \div 7
HeaderSeptets(octets) == (octets * 8 + 6) \div 7

\* pack_septets_with_header, and pack_septets when there is none: the octets of the header
\* are read as septets, the last one filled up with zeros, so that the text starts at a
\* septet boundary.
Pack(header, septets) ==
  LET all == Unpack(header, HeaderSeptets(Len(header))) \o septets
  IN  Regroup(all, 7, 8, CeilDiv(7 * Len(all), 8))

-----------------------------------------------------------------------------
(***************************************************************************)
(* The split of a text.                                                    *)
(***************************************************************************)
\* Variant: every character counts one.
OneEach == [c \in Characters |-> 1]
Septets == [c \in Characters |-> IF c \in DOMAIN Basic THEN 1 ELSE 2]
UnitCount == [c \in Characters |-> Len(Units[c])]

\* The piece being filled is closed by the first character that does not fit.
NextCharacter(p, c, size, cap) ==
  IF p.used > 0 /\ p.used + size[c] > cap
  THEN [done |-> Append(p.done, p.last), last |-> <<c>>, used |-> size[c]]
  ELSE [done |-> p.done, last |-> Append(p.last, c), used |-> p.used + size[c]]

Split(text, size, cap) ==
  LET upTo[n \in 0 .. Len(text)] ==
        IF n = 0 THEN [done |-> <<>>, last |-> <<>>, used |-> 0]
        ELSE NextCharacter(upTo[n - 1], text[n], size, cap)
  IN  Append(upTo[Len(text)].done, upTo[Len(text)].last)

SplitGsm7(text, cap) == Split(text, Septets, cap)
SplitUcs2(text, cap) == Split(text, UnitCount, cap)

-----------------------------------------------------------------------------
(***************************************************************************)
(* SMS-SUBMIT, without the leading SCA octet.                              *)
(***************************************************************************)
NoHeader == <<>>
ConcatUdh(ref, total, seq) == <<5, 0, 3, ref % 256, total, seq>>

\* pdu_address: the digits two by two, the first in the low half, 15 as the pad; a
\* number is [plus, digits].
SemiOctets(digits) ==
  [i \in 1 .. CeilDiv(Len(digits), 2) |->
    digits[2 * i - 1] + 16 * (IF 2 * i <= Len(digits) THEN digits[2 * i] ELSE 15)]
PduAddress(number) ==
  <<Len(number.digits), IF number.plus THEN 145 ELSE 129>> \o SemiOctets(number.digits)

Submit(number, udh, dcs, udl, ud) ==
  <<IF udh = NoHeader THEN 17 ELSE 81, 0>> \o PduAddress(number) \o <<0, dcs, 167, udl>> \o ud

\* ucs2_pdu and gsm7_pdu.
Ucs2Pdu(number, text, udh) ==
  LET ud == udh \o Utf16Octets(text) IN Submit(number, udh, 8, Len(ud), ud)
Gsm7Pdu(number, text, udh) ==
  LET septets == Gsm7Septets(text)
  IN  Submit(number, udh, 0, HeaderSeptets(Len(udh)) + Len(septets), Pack(udh, septets))

-----------------------------------------------------------------------------
(***************************************************************************)
(* The parser.  Malformed stands for the ValueErrors.                      *)
(***************************************************************************)
Malformed == [malformed |-> TRUE]

Drop(s, n) == SubSeq(s, n + 1, Len(s))
Take(s, n) == SubSeq(s, 1, IF n < Len(s) THEN n ELSE Len(s))

\* _parse_pdu_udh: <<ref, total, seq>>.
ParseUdh(header) ==
  IF Len(header) >= 6 /\ Take(header, 3) = <<5, 0, 3>> THEN SubSeq(header, 4, 6) ELSE NoHeader

\* _decode_semi_octet; _norm_number drops the plus sign afterwards.
Digits(octets) ==
  FlattenSeq([i \in DOMAIN octets |->
    IF octets[i] \div 16 = 15 THEN <<octets[i] % 16>> ELSE <<octets[i] % 16, octets[i] \div 16>>])

\* _scts_plausible, on the bytes of a time stamp in swapped decimal digits.
Plausible(scts) ==
  LET n(i) == (scts[i] % 16) * 10 + scts[i] \div 16 IN
  /\ Len(scts) = 7
  /\ \A i \in 1 .. 6 : scts[i] % 16 <= 9 /\ scts[i] \div 16 <= 9
  /\ n(2) \in 1 .. 12 /\ n(3) \in 1 .. 31 /\ n(4) <= 23 /\ n(5) <= 59 /\ n(6) <= 59
  /\ scts[7] % 16 <= 9

\* The user data of a GSM PDU: the header is read octet by octet; if it is none, as
\* older senders packed it, all in one stream of septets.
GsmBody(ud, udl, udhi) ==
  LET octets == ud[1] + 1
      septets == Unpack(ud, udl)
      aligned == ParseUdh(Take(ud, octets))
      stream == ParseUdh(Take(Unpack(Take(ud, octets), octets), 6))
  IN  IF ~(udhi /\ ud # <<>> /\ octets <= Len(ud))
      THEN [part |-> NoHeader, text |-> Gsm7Decode(septets)]
      ELSE IF aligned = NoHeader /\ stream # NoHeader
        THEN [part |-> stream, text |-> Gsm7Decode(Drop(septets, octets))]
        ELSE [part |-> aligned, text |-> Gsm7Decode(Drop(septets, HeaderSeptets(octets)))]

\* The user data of a UCS2 PDU: a header is always taken to be six octets.
Ucs2Body(ud, udhi) ==
  IF udhi /\ Len(ud) >= 6
  THEN [part |-> ParseUdh(Take(ud, 6)), text |-> Utf16Decode(Drop(ud, 6))]
  ELSE [part |-> NoHeader, text |-> Utf16Decode(ud)]

\* _parse_sms_pdu_core, for SMS-DELIVER (0) and SMS-SUBMIT (1).
ParseCore(b) ==
  LET type == b[1] % 4
      at == 2 + type                                \* the address: length, type, digits
      pid == at + 2 + CeilDiv(b[at], 2)
      udlAt == pid + 2 + (IF type = 0 THEN 7 ELSE IF (b[1] \div 16) % 2 = 1 THEN 1 ELSE 0)
      dcs == b[pid + 1] % 16
      ud == Take(Drop(b, udlAt), b[udlAt])
      udhi == (b[1] \div 64) % 2 = 1
      body == CASE dcs = 8 -> Ucs2Body(ud, udhi)
                [] dcs = 0 -> GsmBody(ud, b[udlAt], udhi)
                [] OTHER -> [part |-> NoHeader, text |-> <<>>]
  IN  IF Len(b) < 5 \/ type > 1 THEN Malformed
      ELSE IF udlAt > Len(b) THEN Malformed
      ELSE [sender |-> Digits(SubSeq(b, at + 2, pid - 1)),
            scts |-> IF type = 0 THEN SubSeq(b, pid + 2, pid + 8) ELSE <<>>,
            part |-> body.part, text |-> body.text]

\* parse_sms_pdu: with the message centre in front or without it, whichever has the
\* likelier time stamp, then the one with a text, then the first tried.
Skips(b) == <<1, 1 + b[1], 0>>
Tried(b) ==
  {i \in 1 .. 3 : CASE i = 1 -> b[1] = 0
                   [] i = 2 -> b[1] \in 1 .. 25 /\ b[1] + 2 < Len(b) /\ b[2] >= 128
                   [] i = 3 -> TRUE}
ParseSmsPdu(b) ==
  LET parsed == [i \in Tried(b) |-> ParseCore(Drop(b, Skips(b)[i]))]
      good == {i \in DOMAIN parsed : parsed[i] # Malformed}
      rank(i) == (IF Plausible(parsed[i].scts) THEN 2 ELSE 0) + (IF parsed[i].text # <<>> THEN 1 ELSE 0)
      best == CHOOSE i \in good : \A j \in good : rank(j) < rank(i) \/ (rank(j) = rank(i) /\ i <= j)
  IN  IF Len(b) < 5 \/ good = {} THEN Malformed ELSE parsed[best]
=============================================================================
