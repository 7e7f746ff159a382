---------------------------- MODULE LongSmsProofs ---------------------------
(***************************************************************************)
(* Every PDU fits an SMS, for any text; each is read as it was meant; and  *)
(* the recipient assembles the texts that were sent.                       *)
(***************************************************************************)
EXTENDS LongSms, PduCodecProofs, FiniteSetTheorems

\* The PDUs that fit an SMS.
Fitting == {pdu \in Seq(Byte) : Fits(pdu)}

\* The sizes, as numbers.
LEMMA SizesType ==
  /\ Octets \in Nat /\ Octets <= 255
  /\ GsmSingle \in Nat \ {0, 1} /\ GsmCap \in Nat \ {0, 1} /\ Ucs2Cap \in Nat \ {0, 1}
  /\ HeaderSeptets(0) = 0 /\ HeaderSeptets(6) = 7
  BY SizesAssumption, CapsAssumption DEF HeaderSeptets

\* A PDU whose user data are within the limit, and counted right, fits.
LEMMA FitsOf ==
  ASSUME NEW pdu, NEW digits \in Byte, NEW dcs, NEW udl, NEW ud, Layout(pdu, digits, dcs, udl, ud),
         Len(ud) <= Octets, Len(ud) = IF dcs = 8 THEN udl ELSE CeilDiv(7 * udl, 8)
  PROVE  pdu \in Fitting
  <1>1. PICK m \in Nat : m = CeilDiv(digits, 2)
    <2>1. Byte \subseteq Nat
      BY DEF Byte
    <2>. QED
      BY <2>1, CeilDivType, Zenon
  <1>2. /\ pdu \in Seq(Byte) /\ 8 + m <= Len(pdu)
        /\ pdu[3] = digits /\ pdu[6 + m] = dcs /\ pdu[8 + m] = udl /\ Drop(pdu, 8 + m) = ud
    BY <1>1, Zenon DEF Layout
  <1>3. (8 + m) - 2 = 6 + m
    OBVIOUS
  <1>4. \A i \in DOMAIN pdu : pdu[i] \in 0 .. 255
    <2>1. \A i \in DOMAIN pdu : pdu[i] \in Byte
      BY <1>2
    <2>. QED
      BY <2>1, Zenon DEF Byte
  <1>5. /\ Len(Drop(pdu, 8 + m)) <= Octets
        /\ Len(Drop(pdu, 8 + m)) =
             IF pdu[(8 + m) - 2] = 8 THEN pdu[8 + m] ELSE CeilDiv(7 * pdu[8 + m], 8)
    BY <1>2, <1>3, Zenon
  <1>6. CeilDiv(pdu[3], 2) = m
    BY <1>1, <1>2, Zenon
  <1>7. Fits(pdu)
    BY <1>4, <1>5, <1>6, Zenon DEF Fits
  <1>. QED
    BY <1>2, <1>7, Zenon DEF Fitting

\* A PDU to any number has its layout.
LEMMA SubmitLayout ==
  ASSUME NEW number \in Number, NEW udh, NEW dcs \in Byte, NEW udl \in Byte, NEW ud \in Seq(Byte)
  PROVE  /\ Layout(Submit(number, udh, dcs, udl, ud), Len(number.digits), dcs, udl, ud)
         /\ Addressed(Submit(number, udh, dcs, udl, ud), IF udh = NoHeader THEN 17 ELSE 81,
                      number.digits)
         /\ Len(number.digits) \in Byte
  <1>1. (IF udh = NoHeader THEN 17 ELSE 81) \in Byte
    <2>1. 17 \in Byte /\ 81 \in Byte
      BY DEF Byte
    <2>. QED
      BY <2>1
  <1>2. PICK flag \in Byte : flag = IF udh = NoHeader THEN 17 ELSE 81
    BY <1>1, Zenon
  <1>3. /\ Layout(<<flag, 0>> \o PduAddress(number) \o <<0, dcs, 167, udl>> \o ud,
                  Len(number.digits), dcs, udl, ud)
        /\ Addressed(<<flag, 0>> \o PduAddress(number) \o <<0, dcs, 167, udl>> \o ud,
                     flag, number.digits)
    BY LayoutOf
  <1>4. Submit(number, udh, dcs, udl, ud) =
          <<flag, 0>> \o PduAddress(number) \o <<0, dcs, 167, udl>> \o ud
    BY <1>2, Zenon DEF Submit
  <1>5. Len(number.digits) \in Byte
    <2>1. number.digits \in Seq(0 .. 9) /\ Len(number.digits) <= 255
      BY DEF Number
    <2>2. Len(number.digits) \in Nat
      BY <2>1, LenProperties
    <2>. QED
      BY <2>1, <2>2, ByteOf
  <1>. QED
    BY <1>2, <1>3, <1>4, <1>5, Zenon

\* A PDU of septets that fit behind their header; older builds set the flag of the header
\* afterwards.
LEMMA GsmFits ==
  ASSUME NEW number \in Number, NEW udh \in Seq(Byte), NEW septets \in Seq(Nat),
         NEW n \in Nat, n = HeaderSeptets(Len(udh)) + Len(septets),
         n <= 255, CeilDiv(7 * n, 8) <= Octets, NEW flag \in Byte
  PROVE  /\ Submit(number, udh, 0, n, Pack(udh, septets)) \in Fitting
         /\ [Submit(number, udh, 0, n, Pack(udh, septets)) EXCEPT ![1] = flag] \in Fitting
  <1>1. PICK ud \in Seq(Byte) : ud = Pack(udh, septets) /\ Len(ud) = CeilDiv(7 * n, 8)
    <2>1. /\ Pack(udh, septets) \in Seq(Byte)
          /\ Len(Pack(udh, septets)) = CeilDiv(7 * (HeaderSeptets(Len(udh)) + Len(septets)), 8)
      BY PackType
    <2>. QED
      BY <2>1, Zenon
  <1>2. n \in Byte /\ 0 \in Byte
    <2>1. 0 \in Nat /\ 0 <= 255
      OBVIOUS
    <2>. QED
      BY <2>1, ByteOf, Zenon
  <1>3. PICK pdu : pdu = Submit(number, udh, 0, n, ud)
    OBVIOUS
  <1>4. PICK digits \in Byte : Layout(pdu, digits, 0, n, ud)
    BY <1>2, <1>3, SubmitLayout, Zenon
  <1>5. Layout([pdu EXCEPT ![1] = flag], digits, 0, n, ud)
    BY <1>4, LayoutFlag
  <1>6. 0 # 8
    OBVIOUS
  <1>7. Len(ud) <= Octets /\ Len(ud) = IF 0 = 8 THEN n ELSE CeilDiv(7 * n, 8)
    BY <1>1, <1>6, Zenon
  <1>8. pdu \in Fitting /\ [pdu EXCEPT ![1] = flag] \in Fitting
    BY <1>4, <1>5, <1>7, FitsOf
  <1>. QED
    BY <1>1, <1>3, <1>8, Zenon

\* A PDU of UTF-16 that fits with its header.
LEMMA Ucs2Fits ==
  ASSUME NEW number \in Number, NEW udh, NEW ud \in Seq(Byte), Len(ud) <= Octets
  PROVE  Submit(number, udh, 8, Len(ud), ud) \in Fitting
  <1>1. PICK n \in Nat : n = Len(ud) /\ n <= 255
    BY SizesType
  <1>2. n \in Byte /\ 8 \in Byte
    <2>1. 8 \in Nat /\ 8 <= 255
      OBVIOUS
    <2>. QED
      BY <1>1, <2>1, ByteOf, Zenon
  <1>3. PICK pdu : pdu = Submit(number, udh, 8, n, ud)
    OBVIOUS
  <1>4. PICK digits \in Byte : Layout(pdu, digits, 8, n, ud)
    BY <1>2, <1>3, SubmitLayout, Zenon
  <1>5. Len(ud) <= Octets /\ Len(ud) = IF 8 = 8 THEN n ELSE CeilDiv(7 * n, 8)
    BY <1>1, Zenon
  <1>6. pdu \in Fitting
    BY <1>4, <1>5, FitsOf
  <1>. QED
    BY <1>1, <1>3, <1>6, Zenon

(***************************************************************************)
(* The segments of a text.                                                 *)
(***************************************************************************)

\* More septets are not fewer octets.
LEMMA Monotone == \A a, b \in Nat : a <= b => CeilDiv(7 * a, 8) <= CeilDiv(7 * b, 8)
  BY DEF CeilDiv

\* A piece of split_gsm7 fits behind a header of six octets, aligned (HeaderSeptets) or,
\* as older builds sent it, in the stream of septets.
LEMMA SegmentLimit ==
  ASSUME NEW h \in {0, 6}, NEW k \in Nat, k <= GsmCap
  PROVE  /\ HeaderSeptets(h) + k \in Nat /\ HeaderSeptets(h) + k <= 255
         /\ CeilDiv(7 * (HeaderSeptets(h) + k), 8) <= Octets
         /\ 6 + k \in Nat /\ 6 + k <= 255 /\ CeilDiv(7 * (6 + k), 8) <= Octets
  <1>1. PICK x \in Nat, y \in Nat, z \in Nat : x = HeaderSeptets(h) + k /\ y = 6 + k /\ z = 7 + GsmCap
                     /\ x <= z /\ y <= z
    BY SizesType
  <1>2. z <= 255 /\ CeilDiv(7 * z, 8) <= Octets
    BY <1>1, SizesType, SizesAssumption
  <1>3. CeilDiv(7 * x, 8) <= CeilDiv(7 * z, 8) /\ CeilDiv(7 * y, 8) <= CeilDiv(7 * z, 8)
    BY <1>1, Monotone, Zenon
  <1>4. x <= 255 /\ y <= 255
    BY <1>1, <1>2
  <1>5. PICK p \in Nat, q \in Nat, o \in Nat :
          p = CeilDiv(7 * x, 8) /\ q = CeilDiv(7 * y, 8) /\ o = CeilDiv(7 * z, 8)
    BY CeilDivType, Zenon
  <1>6. p <= Octets /\ q <= Octets
    BY <1>2, <1>3, <1>5, SizesType
  <1>. QED
    BY <1>1, <1>4, <1>5, <1>6, Zenon

\* A message of one segment fits without a header.
LEMMA SingleLimit ==
  ASSUME NEW k \in Nat, k <= GsmSingle
  PROVE  /\ HeaderSeptets(0) + k \in Nat /\ HeaderSeptets(0) + k <= 255
         /\ CeilDiv(7 * (HeaderSeptets(0) + k), 8) <= Octets
  <1>1. HeaderSeptets(0) + k = k
    BY SizesType
  <1>2. GsmSingle \in Nat /\ GsmSingle <= 255 /\ CeilDiv(7 * GsmSingle, 8) <= Octets
    BY SizesType, SizesAssumption
  <1>3. CeilDiv(7 * k, 8) <= CeilDiv(7 * GsmSingle, 8)
    BY <1>2, Monotone
  <1>4. PICK p \in Nat, o \in Nat : p = CeilDiv(7 * k, 8) /\ o = CeilDiv(7 * GsmSingle, 8)
    BY <1>2, CeilDivType
  <1>5. p <= Octets
    BY <1>2, <1>3, <1>4, SizesType
  <1>6. k <= 255
    BY <1>2
  <1>. QED
    BY <1>1, <1>4, <1>5, <1>6, Zenon

\* The septets of a text, as numbers.
LEMMA SeptetsOfText ==
  ASSUME NEW text \in Seq(GsmChars)
  PROVE  Gsm7Septets(text) \in Seq(Nat) /\ Len(Gsm7Septets(text)) \in Nat
  <1>1. Gsm7Septets(text) \in Seq(Septet) /\ Septet \subseteq Nat
    BY GsmType DEF Septet
  <1>2. Gsm7Septets(text) \in Seq(Nat)
    BY <1>1, SeqMonotonic
  <1>. QED
    BY <1>2, LenProperties

\* The PDU of a piece of split_gsm7 fits, with a header and without.
LEMMA GsmPduFits ==
  ASSUME NEW number \in Number, NEW text \in Seq(GsmChars), Len(Gsm7Septets(text)) <= GsmCap,
         NEW udh \in Seq(Byte), Len(udh) \in {0, 6}
  PROVE  Gsm7Pdu(number, text, udh) \in Fitting
  <1>1. PICK s \in Seq(Nat), k \in Nat : s = Gsm7Septets(text) /\ k = Len(s) /\ k <= GsmCap
    BY SeptetsOfText, Zenon
  <1>2. PICK h \in {0, 6} : h = Len(udh)
    OBVIOUS
  <1>3. PICK n \in Nat : n = HeaderSeptets(h) + k /\ n <= 255 /\ CeilDiv(7 * n, 8) <= Octets
    BY <1>1, SegmentLimit, Zenon
  <1>4. Submit(number, udh, 0, n, Pack(udh, s)) \in Fitting
    <2>1. n = HeaderSeptets(Len(udh)) + Len(s) /\ n <= 255 /\ CeilDiv(7 * n, 8) <= Octets
      BY <1>1, <1>2, <1>3, Zenon
    <2>2. PICK flag : flag \in Byte
      BY DEF Byte
    <2>. QED
      BY <2>1, <2>2, GsmFits
  <1>. QED
    BY <1>1, <1>2, <1>3, <1>4, Zenon DEF Gsm7Pdu

\* s has one element.
IsSingle(s, E) == 1 \in DOMAIN s /\ s[1] \in E /\ s = <<s[1]>>

\* A sequence of length 1 has.
LEMMA SingleOf ==
  ASSUME NEW E, NEW s \in Seq(E), Len(s) = 1
  PROVE  IsSingle(s, E)
  BY DEF IsSingle

\* No header is no octets.
LEMMA NoHeaderType == NoHeader \in Seq(Byte) /\ Len(NoHeader) = 0
  BY DEF NoHeader

\* A text that split_gsm7 leaves in one piece fits the PDU of TEXT mode.
LEMMA TextModeFits ==
  ASSUME NEW number \in Number, NEW text \in Seq(GsmChars), Len(SplitGsm7(text, GsmSingle)) = 1
  PROVE  TextModePdu(number, text) \in Fitting
  <1>1. PICK pieces : pieces = SplitGsm7(text, GsmSingle)
    OBVIOUS
  <1>2. /\ pieces \in Seq(Seq(GsmChars)) /\ FlattenSeq(pieces) = text
        /\ \A k \in DOMAIN pieces : Len(Gsm7Septets(pieces[k])) <= GsmSingle
    <2>1. GsmSingle \in Nat \ {0, 1}
      BY SizesType
    <2>. QED
      BY <1>1, <2>1, SplitGsm7Fits
  <1>3. PICK x \in Seq(GsmChars) : pieces = <<x>> /\ x = pieces[1] /\ 1 \in DOMAIN pieces
    <2>1. Len(pieces) = 1
      BY <1>1
    <2>2. IsSingle(pieces, Seq(GsmChars))
      BY <1>2, <2>1, SingleOf
    <2>. QED
      BY <2>2, Zenon DEF IsSingle
  <1>4. text = x
    <2>1. FlattenSeq(<<x>>) = x
      BY FlattenShort, Zenon
    <2>. QED
      BY <1>2, <1>3, <2>1, Zenon
  <1>5. Len(Gsm7Septets(text)) <= GsmSingle
    BY <1>2, <1>3, <1>4, Zenon
  <1>6. PICK s \in Seq(Nat), k \in Nat : s = Gsm7Septets(text) /\ k = Len(s) /\ k <= GsmSingle
    BY <1>5, SeptetsOfText, Zenon
  <1>7. PICK n \in Nat : n = HeaderSeptets(0) + k /\ n <= 255 /\ CeilDiv(7 * n, 8) <= Octets
    BY <1>6, SingleLimit, Zenon
  <1>8. PICK udh \in Seq(Byte) : udh = NoHeader /\ Len(udh) = 0
    BY NoHeaderType, Zenon
  <1>9. Submit(number, udh, 0, n, Pack(udh, s)) \in Fitting
    <2>1. n = HeaderSeptets(Len(udh)) + Len(s) /\ n <= 255 /\ CeilDiv(7 * n, 8) <= Octets
      BY <1>6, <1>7, <1>8, Zenon
    <2>2. PICK flag : flag \in Byte
      BY DEF Byte
    <2>. QED
      BY <2>1, <2>2, GsmFits
  <1>. QED
    BY <1>6, <1>7, <1>8, <1>9, Zenon DEF TextModePdu, Gsm7Pdu

\* The PDU of a piece of split_ucs2 fits, with a header and without.
LEMMA Ucs2PduFits ==
  ASSUME NEW number \in Number, NEW text \in Seq(Characters), Len(Utf16Octets(text)) <= 2 * Ucs2Cap,
         NEW udh \in Seq(Byte), Len(udh) \in {0, 6}
  PROVE  Ucs2Pdu(number, text, udh) \in Fitting
  <1>1. PICK o \in Seq(Byte) : o = Utf16Octets(text)
    BY Ucs2Type, Zenon
  <1>2. PICK ud \in Seq(Byte) : IsJoin(ud, udh, o)
    BY JoinOf
  <1>3. ud = udh \o o /\ Len(ud) = Len(udh) + Len(o)
    BY <1>2, Zenon DEF IsJoin
  <1>4. Len(ud) <= Octets
    <2>1. PICK l \in Nat : l = Len(o) /\ l <= 2 * Ucs2Cap
      BY <1>1, LenProperties
    <2>2. Len(ud) <= 6 + l
      <3>1. PICK k \in {0, 6} : k = Len(udh)
        OBVIOUS
      <3>2. k + l <= 6 + l
        OBVIOUS
      <3>3. Len(ud) = k + l
        BY <1>3, <2>1, <3>1, Zenon
      <3>. QED
        BY <3>2, <3>3, Zenon
    <2>3. 6 + l <= Octets
      BY <2>1, SizesType, SizesAssumption
    <2>4. Len(ud) \in Nat
      BY LenProperties
    <2>. QED
      BY <2>2, <2>3, <2>4, SizesType
  <1>5. Submit(number, udh, 8, Len(ud), ud) \in Fitting
    BY <1>4, Ucs2Fits
  <1>. QED
    BY <1>1, <1>3, <1>5, Zenon DEF Ucs2Pdu

\* The header of a segment, where there is more than one.
HeaderOf(r, n, i) == IF n > 1 THEN ConcatUdh(r, n, i) ELSE NoHeader

\* It is six octets or none.
LEMMA HeaderOfType ==
  ASSUME NEW r \in Nat, NEW n \in Nat, n <= 255, NEW i \in 1 .. n
  PROVE  HeaderOf(r, n, i) \in Seq(Byte) /\ Len(HeaderOf(r, n, i)) \in {0, 6}
  <1>1. i \in Nat /\ i <= 255
    OBVIOUS
  <1>2. n \in Byte /\ i \in Byte
    BY <1>1, ByteOf
  <1>3. ConcatUdh(r, n, i) \in Seq(Byte) /\ Len(ConcatUdh(r, n, i)) = 6
    BY <1>2, HeaderType
  <1>. QED
    BY <1>3, NoHeaderType, Zenon DEF HeaderOf

\* _send_pdu: every segment of a text fits, in either alphabet.
LEMMA SegmentsFitting ==
  ASSUME NEW number \in Number, NEW text \in Seq(Characters), NEW use_gsm7 \in BOOLEAN,
         use_gsm7 => text \in Seq(GsmChars), NEW r \in Nat,
         Len(Segments(number, text, use_gsm7, r)) <= MaxSegments
  PROVE  Segments(number, text, use_gsm7, r) \in Seq(Fitting) \ {<<>>}
  <1>. DEFINE Pdu(piece, h) == IF use_gsm7 THEN Gsm7Pdu(number, piece, h) ELSE Ucs2Pdu(number, piece, h)
              Header(h) == h \in Seq(Byte) /\ Len(h) \in {0, 6}
  <1>1. PICK pieces : pieces = IF use_gsm7 THEN SplitGsm7(text, GsmCap) ELSE SplitUcs2(text, Ucs2Cap)
    OBVIOUS
  <1>2. pieces \in Seq(Seq(Characters)) \ {<<>>}
        /\ \A i \in DOMAIN pieces : \A h : Header(h) => Pdu(pieces[i], h) \in Fitting
    <2>1. CASE use_gsm7
      <3>1. pieces = SplitGsm7(text, GsmCap)
        BY <1>1, <2>1, Zenon
      <3>2. /\ pieces \in Seq(Seq(GsmChars)) /\ pieces # <<>>
            /\ \A k \in DOMAIN pieces : Len(Gsm7Septets(pieces[k])) <= GsmCap
        BY <2>1, <3>1, SizesType, SplitGsm7Fits
      <3>3. ASSUME NEW i \in DOMAIN pieces, NEW h, Header(h) PROVE Pdu(pieces[i], h) \in Fitting
        <4>1. pieces[i] \in Seq(GsmChars) /\ Len(Gsm7Septets(pieces[i])) <= GsmCap
          BY <3>2
        <4>2. Gsm7Pdu(number, pieces[i], h) \in Fitting
          BY <3>3, <4>1, GsmPduFits
        <4>. QED
          BY <2>1, <4>2, Zenon
      <3>4. pieces \in Seq(Seq(Characters))
        <4>1. GsmChars \subseteq Characters
          BY GsmCharacters
        <4>2. \A s \in Seq(GsmChars) : s \in Seq(Characters)
          BY <4>1, SeqMonotonic
        <4>3. Seq(GsmChars) \subseteq Seq(Characters)
          BY <4>2, Zenon
        <4>. QED
          BY <3>2, <4>3, SeqMonotonic
      <3>. QED
        BY <3>2, <3>3, <3>4, Zenon
    <2>2. CASE ~use_gsm7
      <3>1. pieces = SplitUcs2(text, Ucs2Cap)
        BY <1>1, <2>2, Zenon
      <3>2. /\ pieces \in Seq(Seq(Characters)) /\ pieces # <<>>
            /\ \A k \in DOMAIN pieces : Len(Utf16Octets(pieces[k])) <= 2 * Ucs2Cap
        BY <3>1, SizesType, SplitUcs2Fits
      <3>3. ASSUME NEW i \in DOMAIN pieces, NEW h, Header(h) PROVE Pdu(pieces[i], h) \in Fitting
        <4>1. pieces[i] \in Seq(Characters) /\ Len(Utf16Octets(pieces[i])) <= 2 * Ucs2Cap
          BY <3>2
        <4>2. Ucs2Pdu(number, pieces[i], h) \in Fitting
          BY <3>3, <4>1, Ucs2PduFits
        <4>. QED
          BY <2>2, <4>2, Zenon
      <3>. QED
        BY <3>2, <3>3, Zenon
    <2>. QED
      BY <2>1, <2>2
  <1>3. PICK n \in Nat : n = Len(pieces) /\ n # 0 /\ DOMAIN pieces = 1 .. n
    BY <1>2
  <1>4. Segments(number, text, use_gsm7, r) = [i \in 1 .. n |-> Pdu(pieces[i], HeaderOf(r, n, i))]
    BY <1>1, <1>3, Zenon DEF Segments, HeaderOf
  <1>. DEFINE f(i) == Pdu(pieces[i], HeaderOf(r, n, i))
  <1>5. n <= 255
    <2>. HIDE DEF f
    <2>1. Len([i \in 1 .. n |-> f(i)]) = n
      OBVIOUS
    <2>2. Len(Segments(number, text, use_gsm7, r)) = n
      BY <1>4, <2>1, Zenon DEF f
    <2>. QED
      BY <2>2, SizesAssumption
  <1>6. ASSUME NEW i \in 1 .. n PROVE f(i) \in Fitting
    <2>1. Header(HeaderOf(r, n, i))
      BY <1>5, HeaderOfType
    <2>. QED
      BY <1>2, <1>3, <2>1, Zenon
  <1>7. [i \in 1 .. n |-> f(i)] \in Seq(Fitting) \ {<<>>}
    <2>. HIDE DEF f
    <2>. QED
      BY <1>3, <1>6
  <1>. QED
    BY <1>4, <1>7, Zenon

\* Those of older builds do.
LEMMA OldSegmentsFitting ==
  ASSUME NEW number \in Number, NEW text \in Seq(GsmChars), NEW r \in Nat
  PROVE  OldSegments(number, text, r) \in Seq(Fitting) \ {<<>>}
  <1>1. PICK pieces : pieces = SplitGsm7(text, GsmCap)
    OBVIOUS
  <1>2. /\ pieces \in Seq(Seq(GsmChars)) /\ pieces # <<>>
        /\ \A k \in DOMAIN pieces : Len(Gsm7Septets(pieces[k])) <= GsmCap
    BY <1>1, SizesType, SplitGsm7Fits
  <1>3. PICK n \in Nat : n = Len(pieces) /\ n # 0 /\ DOMAIN pieces = 1 .. n
    BY <1>2
  <1>. DEFINE septets(i) == <<5, 0, 3, r % 128, n, i>> \o Gsm7Septets(pieces[i])
              f(i) == [Submit(number, NoHeader, 0, Len(septets(i)), Pack(NoHeader, septets(i)))
                         EXCEPT ![1] = 81]
  <1>4. OldSegments(number, text, r) = [i \in 1 .. n |-> f(i)]
    BY <1>1, <1>3, Zenon DEF OldSegments
  <1>5. ASSUME NEW i \in 1 .. n PROVE f(i) \in Fitting
    <2>1. pieces[i] \in Seq(GsmChars) /\ Len(Gsm7Septets(pieces[i])) <= GsmCap
      <3>1. pieces[i] \in Seq(GsmChars)
        BY <1>2, <1>3, ElementOfSeq
      <3>. QED
        BY <1>2, <1>3, <3>1, Zenon
    <2>2. PICK t \in Seq(Nat), k \in Nat : t = Gsm7Septets(pieces[i]) /\ k = Len(t) /\ k <= GsmCap
      BY <2>1, SeptetsOfText, Zenon
    <2>3. <<5, 0, 3, r % 128, n, i>> \in Seq(Nat) /\ Len(<<5, 0, 3, r % 128, n, i>>) = 6
      <3>1. r % 128 \in Nat /\ i \in Nat
        OBVIOUS
      <3>. QED
        BY <3>1
    <2>4. PICK h \in Seq(Nat) : h = <<5, 0, 3, r % 128, n, i>> /\ Len(h) = 6
      BY <2>3, Zenon
    <2>5. PICK s \in Seq(Nat) : IsJoin(s, h, t)
      BY JoinOf
    <2>6. s = septets(i) /\ Len(s) = 6 + k
      BY <2>2, <2>4, <2>5, Zenon DEF IsJoin
    <2>7. PICK m \in Nat : m = Len(s) /\ m <= 255 /\ CeilDiv(7 * m, 8) <= Octets
      BY <2>2, <2>6, SegmentLimit, Zenon
    <2>8. PICK udh \in Seq(Byte) : udh = NoHeader /\ Len(udh) = 0
      BY NoHeaderType, Zenon
    <2>9. m = HeaderSeptets(Len(udh)) + Len(s)
      BY <2>7, <2>8, SizesType
    <2>10. PICK flag \in Byte : flag = 81
      BY DEF Byte
    <2>11. [Submit(number, udh, 0, m, Pack(udh, s)) EXCEPT ![1] = flag] \in Fitting
      BY <2>7, <2>9, GsmFits
    <2>. QED
      BY <2>6, <2>7, <2>8, <2>10, <2>11, Zenon
  <1>6. [i \in 1 .. n |-> f(i)] \in Seq(Fitting) \ {<<>>}
    <2>. HIDE DEF f
    <2>. QED
      BY <1>3, <1>5
  <1>. QED
    BY <1>4, <1>6, Zenon

(***************************************************************************)
(* The invariant.                                                          *)
(***************************************************************************)

\* A message offered has a number and a text.
LEMMA OfferType ==
  ASSUME NEW m \in DOMAIN Offers, NEW offer \in Offers[m]
  PROVE  /\ offer.number \in Number /\ offer.text \in Seq(Characters) /\ offer.old \in BOOLEAN
         /\ offer.old => AsciiTextEligible(offer.text)
  <1>1. /\ Offers[m] \subseteq Offer
        /\ Len(offer.number.digits) <= 255 /\ (offer.old => AsciiTextEligible(offer.text))
    BY OffersAssumption
  <1>2. offer \in Offer
    BY <1>1
  <1>3. /\ offer.number \in [plus : BOOLEAN, digits : Seq(0 .. 9)]
        /\ offer.text \in Seq(Characters) /\ offer.old \in BOOLEAN
    BY <1>2 DEF Offer
  <1>. QED
    BY <1>1, <1>3, Zenon DEF Number

\* ascii_text_eligible accepts only texts GSM-7 has.
LEMMA Eligible ==
  ASSUME NEW text \in Seq(Characters)
  PROVE  /\ AsciiTextEligible(text) \in BOOLEAN
         /\ AsciiTextEligible(text) => text \in Seq(GsmChars)
  <1>1. AsciiTextEligible(text) \in BOOLEAN
    BY Zenon DEF AsciiTextEligible
  <1>2. ASSUME AsciiTextEligible(text) PROVE text \in Seq(GsmChars)
    <2>1. \A i \in DOMAIN text : text[i] \in GsmChars
      BY <1>2, Zenon DEF AsciiTextEligible, GsmChars
    <2>. QED
      BY <2>1
  <1>. QED
    BY <1>1, <1>2

\* A message being sent.
Messages == {<<>>} \cup [sender : Seq(0 .. 9), text : Seq(Characters)]

\* The inductive invariant: what is still to be submitted fits, so does what is out, and
\* there is something to submit while a send goes on.
SendingInv ==
  /\ ref \in Nat /\ done \in Nat
  /\ sending \in [message : Messages, rest : Seq(Fitting)]
  /\ sending = Idle \/ sending.rest # <<>>
  /\ \A p \in air : p.pdu \in Fitting

\* send_sms keeps it: whatever mode it chooses, the PDUs it makes fit.
LEMMA SendSmsInv == SendingInv /\ SendSms => SendingInv'
  <1>. SUFFICES ASSUME SendingInv, SendSms PROVE SendingInv'
    OBVIOUS
  <1>1. done + 1 \in DOMAIN Offers /\ done' = done + 1 /\ done' \in Nat /\ air' = air
    BY OffersAssumption DEF SendingInv, SendSms
  <1>2. PICK offer \in Offers[done + 1] :
       LET use_gsm7 == AsciiTextEligible(offer.text)
           next == NextRef(ref)
           pdus == Segments(offer.number, offer.text, use_gsm7, next)
       IN  IF offer.old
           THEN /\ sending' = [message |-> Message(offer),
                               rest |-> OldSegments(offer.number, offer.text, ref)]
                /\ UNCHANGED ref
           ELSE IF use_gsm7 /\ Len(SplitGsm7(offer.text, GsmSingle)) = 1
           THEN /\ sending' = [message |-> Message(offer),
                               rest |-> <<TextModePdu(offer.number, offer.text)>>]
                /\ UNCHANGED ref
           ELSE IF Len(pdus) > MaxSegments
           THEN UNCHANGED <<ref, sending>>
           ELSE /\ sending' = [message |-> Message(offer), rest |-> pdus]
                /\ ref' = next
    BY Zenon DEF SendSms
  <1>3. PICK number \in Number, text \in Seq(Characters), use_gsm7 \in BOOLEAN :
          /\ number = offer.number /\ text = offer.text /\ use_gsm7 = AsciiTextEligible(offer.text)
          /\ offer.old => use_gsm7
          /\ use_gsm7 => text \in Seq(GsmChars)
    BY <1>1, OfferType, Eligible, Zenon
  <1>4. PICK next \in Nat : next = NextRef(ref)
    BY DEF SendingInv, NextRef
  <1>5. PICK message \in Messages : message = Message(offer)
    <2>1. [sender |-> number.digits, text |-> text] \in [sender : Seq(0 .. 9), text : Seq(Characters)]
      BY DEF Number
    <2>. QED
      BY <1>3, <2>1, Zenon DEF Message, Messages
  <1>. DEFINE Given(rest) == sending' = [message |-> message, rest |-> rest]
  <1>6. \/ offer.old /\ Given(OldSegments(number, text, ref)) /\ ref' = ref
        \/ /\ use_gsm7 /\ Len(SplitGsm7(text, GsmSingle)) = 1
           /\ Given(<<TextModePdu(number, text)>>) /\ ref' = ref
        \/ ref' = ref /\ sending' = sending
        \/ /\ ~(Len(Segments(number, text, use_gsm7, next)) > MaxSegments)
           /\ Given(Segments(number, text, use_gsm7, next)) /\ ref' = next
    <2>1. CASE offer.old
      BY <1>2, <1>3, <1>4, <1>5, <2>1, Zenon
    <2>2. CASE ~offer.old /\ use_gsm7 /\ Len(SplitGsm7(text, GsmSingle)) = 1
      BY <1>2, <1>3, <1>4, <1>5, <2>2, Zenon
    <2>3. CASE /\ ~offer.old /\ ~(use_gsm7 /\ Len(SplitGsm7(text, GsmSingle)) = 1)
               /\ Len(Segments(number, text, use_gsm7, next)) > MaxSegments
      BY <1>2, <1>3, <1>4, <1>5, <2>3, Zenon
    <2>4. CASE /\ ~offer.old /\ ~(use_gsm7 /\ Len(SplitGsm7(text, GsmSingle)) = 1)
               /\ ~(Len(Segments(number, text, use_gsm7, next)) > MaxSegments)
      BY <1>2, <1>3, <1>4, <1>5, <2>4, Zenon
    <2>. QED
      BY <2>1, <2>2, <2>3, <2>4, Zenon
  <1>7. ASSUME NEW rest \in Seq(Fitting) \ {<<>>}, Given(rest), ref' \in Nat PROVE SendingInv'
    <2>1. sending' \in [message : Messages, rest : Seq(Fitting)] /\ sending'.rest # <<>>
      BY <1>7
    <2>2. \A p \in air' : p.pdu \in Fitting
      BY <1>1 DEF SendingInv
    <2>. QED
      BY <1>1, <1>7, <2>1, <2>2 DEF SendingInv
  <1>8. CASE offer.old /\ Given(OldSegments(number, text, ref)) /\ ref' = ref
    <2>1. ref \in Nat /\ text \in Seq(GsmChars)
      BY <1>3, <1>8 DEF SendingInv
    <2>2. OldSegments(number, text, ref) \in Seq(Fitting) \ {<<>>}
      BY <2>1, OldSegmentsFitting
    <2>. QED
      BY <1>7, <1>8, <2>1, <2>2, Zenon
  <1>9. CASE /\ use_gsm7 /\ Len(SplitGsm7(text, GsmSingle)) = 1
             /\ Given(<<TextModePdu(number, text)>>) /\ ref' = ref
    <2>1. ref \in Nat /\ text \in Seq(GsmChars)
      BY <1>3, <1>9 DEF SendingInv
    <2>2. PICK pdu \in Fitting : pdu = TextModePdu(number, text)
      BY <1>9, <2>1, TextModeFits
    <2>3. <<pdu>> \in Seq(Fitting) \ {<<>>}
      OBVIOUS
    <2>. QED
      BY <1>7, <1>9, <2>1, <2>2, <2>3, Zenon
  <1>10. CASE ref' = ref /\ sending' = sending
    BY <1>1, <1>10 DEF SendingInv
  <1>11. CASE /\ ~(Len(Segments(number, text, use_gsm7, next)) > MaxSegments)
              /\ Given(Segments(number, text, use_gsm7, next)) /\ ref' = next
    <2>1. Segments(number, text, use_gsm7, next) \in Seq(Fitting) \ {<<>>}
      <3>1. Len(Segments(number, text, use_gsm7, next)) \in Nat
        BY DEF Segments
      <3>2. Len(Segments(number, text, use_gsm7, next)) <= MaxSegments
        BY <1>11, <3>1, SizesAssumption
      <3>. QED
        BY <1>3, <3>2, SegmentsFitting
    <2>. QED
      BY <1>7, <1>11, <2>1, Zenon
  <1>. QED
    BY <1>6, <1>8, <1>9, <1>10, <1>11, Zenon

\* The segment that goes out is one of them.
LEMMA AiredFits ==
  ASSUME SendingInv, sending # Idle
  PROVE  \A p \in Aired : p.pdu \in Fitting
  <1>1. Head(sending.rest) \in Fitting
    BY DEF SendingInv
  <1>. QED
    BY <1>1 DEF Aired, SendingInv

\* A send that ended has nothing left.
LEMMA IdleType == Idle \in [message : Messages, rest : Seq(Fitting)]
  BY DEF Idle, Messages

\* The rest of a sequence that has one.
LEMMA TailOf ==
  ASSUME NEW E, NEW s \in Seq(E), s # <<>>, Len(s) # 1
  PROVE  Tail(s) \in Seq(E) /\ Tail(s) # <<>>
  <1>1. Tail(s) \in Seq(E) /\ Len(Tail(s)) = Len(s) - 1
    BY HeadTailProperties
  <1>2. Len(s) \in Nat /\ Len(s) # 0
    OBVIOUS
  <1>3. Len(Tail(s)) # 0
    BY <1>1, <1>2
  <1>. QED
    BY <1>1, <1>3

\* A segment sent keeps it.
LEMMA SegmentSentInv == SendingInv /\ SegmentSent => SendingInv'
  <1>. SUFFICES ASSUME SendingInv, SegmentSent PROVE SendingInv'
    OBVIOUS
  <1>1. ref' \in Nat /\ done' \in Nat
    BY DEF SendingInv, SegmentSent
  <1>2. \A p \in air' : p.pdu \in Fitting
    BY AiredFits DEF SegmentSent
  <1>3. CASE Len(sending.rest) = 1
    BY <1>1, <1>2, <1>3, IdleType DEF SendingInv, SegmentSent
  <1>4. CASE Len(sending.rest) # 1
    <2>1. sending.rest \in Seq(Fitting) /\ sending.rest # <<>>
      BY DEF SendingInv, SegmentSent
    <2>2. Tail(sending.rest) \in Seq(Fitting) /\ Tail(sending.rest) # <<>>
      BY <1>4, <2>1, TailOf
    <2>3. sending' = [sending EXCEPT !.rest = Tail(sending.rest)]
      BY <1>4 DEF SegmentSent
    <2>4. sending' \in [message : Messages, rest : Seq(Fitting)] /\ sending'.rest # <<>>
      BY <2>2, <2>3 DEF SendingInv
    <2>. QED
      BY <1>1, <1>2, <2>4 DEF SendingInv
  <1>. QED
    BY <1>3, <1>4

\* So does one that fails.
LEMMA SegmentFailsInv == SendingInv /\ SegmentFails => SendingInv'
  <1>. SUFFICES ASSUME SendingInv, SegmentFails PROVE SendingInv'
    OBVIOUS
  <1>1. ref' \in Nat /\ done' \in Nat /\ sending' = Idle
    BY DEF SendingInv, SegmentFails
  <1>2. \A p \in air' : p.pdu \in Fitting
    BY AiredFits DEF SegmentFails, SendingInv
  <1>. QED
    BY <1>1, <1>2, IdleType DEF SendingInv

\* The invariant holds in every state.
THEOREM FittingPdus == Spec => []SendingInv
  <1>1. Init => SendingInv
    BY IdleType, SizesAssumption DEF Init, SendingInv
  <1>2. SendingInv /\ [Next]_vars => SendingInv'
    <2>. SUFFICES ASSUME SendingInv, [Next]_vars PROVE SendingInv'
      OBVIOUS
    <2>1. CASE SendSms
      BY <2>1, SendSmsInv
    <2>2. CASE SegmentSent
      BY <2>2, SegmentSentInv
    <2>3. CASE SegmentFails
      BY <2>3, SegmentFailsInv
    <2>4. CASE Reconnect
      BY <2>4, SizesAssumption DEF SendingInv, Reconnect
    <2>5. CASE Arrive
      BY <2>5 DEF SendingInv, Arrive
    <2>6. CASE PollIncoming
      BY <2>6 DEF SendingInv, PollIncoming
    <2>7. CASE UNCHANGED vars
      BY <2>7 DEF SendingInv, vars
    <2>. QED
      BY <2>1, <2>2, <2>3, <2>4, <2>5, <2>6, <2>7 DEF Next
  <1>. QED
    BY <1>1, <1>2, PTL DEF Spec

\* Every PDU on the air fits, to whatever number, whatever the text and wherever it was
\* split: 140 octets of user data, counted by the length octet in the unit of the
\* alphabet, and octets all through.
THEOREM EveryPduFits == Spec => []SegmentsFit
  <1>1. SendingInv => SegmentsFit
    BY DEF SendingInv, SegmentsFit, Fitting
  <1>. QED
    BY <1>1, FittingPdus, PTL

\* The time stamp is seven octets.
LEMMA SctsType == Scts \in Seq(Byte) /\ Len(Scts) = 7
  <1>1. 98 \in Byte /\ 1 \in Byte /\ 81 \in Byte /\ 33 \in Byte /\ 64 \in Byte /\ 97 \in Byte /\ 35 \in Byte
    BY DEF Byte
  <1>. QED
    BY <1>1 DEF Scts

\* t is what s has behind its k-th element, up to the l-th.
IsSlice(t, s, k, l) ==
  t = SubSeq(s, k + 1, l) /\ Len(t) = l - k /\ \A i \in 1 .. l - k : t[i] = s[k + i]

\* There is one.
LEMMA SliceBetween ==
  ASSUME NEW E, NEW s \in Seq(E), NEW k \in Nat, NEW l \in Nat, k < l, l <= Len(s)
  PROVE  \E t \in Seq(E) : IsSlice(t, s, k, l)
  <1>1. \A i \in k + 1 .. l : s[i] \in E
    OBVIOUS
  <1>2. /\ SubSeq(s, k + 1, l) \in Seq(E)
        /\ Len(SubSeq(s, k + 1, l)) = IF k + 1 <= l THEN l - (k + 1) + 1 ELSE 0
        /\ \A i \in 1 .. l - (k + 1) + 1 : SubSeq(s, k + 1, l)[i] = s[k + 1 + i - 1]
    BY <1>1, SubSeqProperties
  <1>3. k + 1 <= l /\ l - (k + 1) + 1 = l - k
    OBVIOUS
  <1>4. PICK t \in Seq(E) : t = SubSeq(s, k + 1, l)
    BY <1>2, Zenon
  <1>5. Len(t) = l - k
    BY <1>2, <1>3, <1>4, Zenon
  <1>6. ASSUME NEW i \in 1 .. l - k PROVE t[i] = s[k + i]
    <2>1. i \in 1 .. l - (k + 1) + 1
      BY <1>3, Zenon
    <2>2. k + 1 + i - 1 = k + i
      OBVIOUS
    <2>. QED
      BY <1>2, <1>4, <2>1, <2>2, Zenon
  <1>7. IsSlice(t, s, k, l)
    BY <1>4, <1>5, <1>6, Zenon DEF IsSlice
  <1>. QED
    BY <1>7, Zenon

\* The network: the octets of an SMS-DELIVER made of an SMS-SUBMIT.
LEMMA DeliverOf ==
  ASSUME NEW pdu, NEW flag \in {17, 81}, NEW digits \in Seq(0 .. 9), Len(digits) \in Byte,
         NEW dcs \in Byte, NEW udl \in Byte, NEW ud,
         Layout(pdu, Len(digits), dcs, udl, ud), Addressed(pdu, flag, digits)
  PROVE  IsDeliver(ToDeliver(pdu), flag - 17, digits, dcs, Scts, udl, ud)
  <1>1. PICK m \in Nat : m = CeilDiv(Len(digits), 2)
    BY CeilDivType
  <1>2. PICK semi \in Seq(Byte) : semi = SemiOctets(digits) /\ Len(semi) = m
    BY <1>1, SemiOctetsType, Zenon
  <1>3. /\ pdu \in Seq(Byte) /\ 8 + m <= Len(pdu)
        /\ pdu[3] = Len(digits) /\ pdu[6 + m] = dcs /\ pdu[8 + m] = udl /\ Drop(pdu, 8 + m) = ud
    BY <1>1, Zenon DEF Layout
  <1>4. pdu[1] = flag /\ \A i \in 1 .. m : pdu[4 + i] = semi[i]
    BY <1>2, Zenon DEF Addressed, Holds
  <1>5. PICK f \in Byte : f = flag - 17
    <2>1. flag - 17 \in Byte
      BY DEF Byte
    <2>. QED
      BY <2>1, Zenon
  <1>6. PICK first \in Seq(Byte) : first = <<f>> /\ Len(first) = 1 /\ first[1] = f
    <2>1. <<f>> \in Seq(Byte) /\ Len(<<f>>) = 1 /\ <<f>>[1] = f
      OBVIOUS
    <2>. QED
      BY <2>1, Zenon
  <1>7. PICK x \in Seq(Byte) : /\ x = SubSeq(pdu, 3, 6 + m) /\ Len(x) = 4 + m
                                /\ \A i \in 1 .. 4 + m : x[i] = pdu[2 + i]
    <2>1. PICK j \in Nat, l \in Nat :
            j = 2 /\ j + 1 = 3 /\ l = 6 + m /\ l - j = 4 + m /\ j < l /\ l <= Len(pdu)
      BY <1>3
    <2>2. PICK x \in Seq(Byte) : IsSlice(x, pdu, j, l)
      BY <1>3, <2>1, SliceBetween, Zenon
    <2>3. x = SubSeq(pdu, 3, 6 + m) /\ Len(x) = 4 + m /\ \A i \in 1 .. 4 + m : x[i] = pdu[2 + i]
      BY <2>1, <2>2, Zenon DEF IsSlice
    <2>. QED
      BY <2>3, Zenon
  <1>8. PICK y \in Seq(Byte) : IsRest(y, pdu, 7 + m)
    <2>1. 7 + m \in Nat /\ 7 + m <= Len(pdu)
      BY <1>3
    <2>. QED
      BY <1>3, <2>1, RestBehind, Zenon
  <1>9. Len(y) >= 1 /\ y[1] = udl /\ Drop(y, 1) = ud
    <2>1. PICK k \in Nat : k = Len(pdu) /\ 8 + m <= k
      <3>1. Len(pdu) \in Nat
        BY <1>3, LenProperties
      <3>. QED
        BY <1>3, <3>1
    <2>2. y = Drop(pdu, 7 + m) /\ Len(y) = k - (7 + m) /\ \A i \in 1 .. k - (7 + m) : y[i] = pdu[(7 + m) + i]
      BY <1>8, <2>1, Zenon DEF IsRest
    <2>3. Len(y) >= 1
      BY <2>1, <2>2
    <2>4. 1 \in 1 .. k - (7 + m) /\ (7 + m) + 1 = 8 + m /\ 7 + m \in Nat /\ (7 + m) + 1 <= Len(pdu)
      BY <2>1
    <2>5. Drop(Drop(pdu, 7 + m), 1) = Drop(pdu, (7 + m) + 1)
      <3>1. PICK q \in Nat : q = 7 + m
        BY <2>4, Zenon
      <3>2. q + 1 <= Len(pdu) /\ pdu \in Seq(Byte)
        BY <1>3, <2>4, <3>1, Zenon
      <3>3. Drop(Drop(pdu, q), 1) = Drop(pdu, q + 1)
        BY <3>2, DropTwice
      <3>. QED
        BY <3>1, <3>3, Zenon
    <2>. QED
      BY <1>3, <2>2, <2>3, <2>4, <2>5, Zenon
  <1>10. PICK a \in Seq(Byte) : IsJoin(a, first, x)
    BY JoinOf
  <1>11. PICK scts \in Seq(Byte) : scts = Scts /\ Len(scts) = 7
    BY SctsType, Zenon
  <1>12. PICK c \in Seq(Byte) : IsJoin(c, a, scts)
    BY JoinOf
  <1>13. PICK b \in Seq(Byte) : IsJoin(b, c, y)
    BY JoinOf
  <1>14. b = ToDeliver(pdu)
    <2>1. b = ((first \o x) \o scts) \o y
      BY <1>10, <1>12, <1>13, Zenon DEF IsJoin
    <2>2. CeilDiv(pdu[3], 2) = m /\ (4 + m) + 2 = 6 + m /\ (4 + m) + 3 = 7 + m
      <3>1. CeilDiv(pdu[3], 2) = m
        BY <1>1, <1>3, Zenon
      <3>2. (4 + m) + 2 = 6 + m /\ (4 + m) + 3 = 7 + m
        OBVIOUS
      <3>. QED
        BY <3>1, <3>2
    <2>3. x = SubSeq(pdu, 3, 6 + m) /\ y = Drop(pdu, 7 + m) /\ first = <<pdu[1] - 17>>
      BY <1>4, <1>5, <1>6, <1>7, <1>8, Zenon DEF IsRest
    <2>4. ToDeliver(pdu) = <<pdu[1] - 17>> \o SubSeq(pdu, 3, (4 + CeilDiv(pdu[3], 2)) + 2) \o Scts
                             \o Drop(pdu, (4 + CeilDiv(pdu[3], 2)) + 3)
      BY Zenon DEF ToDeliver
    <2>. QED
      BY <1>11, <2>1, <2>2, <2>3, <2>4, Zenon
  <1>15. /\ Len(a) = 5 + m /\ a[1] = f /\ \A i \in 1 .. 4 + m : a[1 + i] = pdu[2 + i]
    <2>1. /\ Len(a) = 1 + (4 + m) /\ (\A i \in 1 .. 1 : a[i] = first[i])
          /\ \A i \in 1 .. 4 + m : a[1 + i] = x[i]
      BY <1>6, <1>7, <1>10, Zenon DEF IsJoin
    <2>2. 1 + (4 + m) = 5 + m /\ 1 \in 1 .. 1
      OBVIOUS
    <2>. QED
      BY <1>6, <1>7, <2>1, <2>2, Zenon
  <1>16. /\ Len(c) = 12 + m /\ (\A i \in 1 .. 5 + m : c[i] = a[i])
         /\ \A i \in 1 .. 7 : c[(5 + m) + i] = scts[i]
    <2>1. (5 + m) + 7 = 12 + m
      OBVIOUS
    <2>. QED
      BY <1>11, <1>12, <1>15, <2>1, Zenon DEF IsJoin
  <1>17. /\ Len(b) = (12 + m) + Len(y) /\ (\A i \in 1 .. 12 + m : b[i] = c[i])
         /\ (\A i \in 1 .. Len(y) : b[(12 + m) + i] = y[i]) /\ Drop(b, 12 + m) = y
    BY <1>13, <1>16, Zenon DEF IsJoin
  <1>18. PICK k \in Nat : k = Len(b) /\ 13 + m <= k
    <2>1. Len(b) \in Nat /\ Len(y) \in Nat
      OBVIOUS
    <2>. QED
      BY <1>9, <1>17, <2>1
  <1>19. \A i \in 1 .. 5 + m : b[i] = a[i]
    <2>1. \A i \in 1 .. 5 + m : i \in 1 .. 12 + m
      OBVIOUS
    <2>. QED
      BY <1>16, <1>17, <2>1, Zenon
  <1>20. b[1] = flag - 17 /\ b[2] = Len(digits) /\ b[5 + m] = dcs
    <2>1. 1 \in 1 .. 5 + m /\ 2 \in 1 .. 5 + m /\ 5 + m \in 1 .. 5 + m
      OBVIOUS
    <2>2. 1 \in 1 .. 4 + m /\ 1 + 1 = 2 /\ 2 + 1 = 3
      OBVIOUS
    <2>3. 4 + m \in 1 .. 4 + m /\ 1 + (4 + m) = 5 + m /\ 2 + (4 + m) = 6 + m
      OBVIOUS
    <2>4. a[2] = pdu[3] /\ a[5 + m] = pdu[6 + m]
      BY <1>15, <2>2, <2>3, Zenon
    <2>. QED
      BY <1>3, <1>5, <1>15, <1>19, <2>1, <2>4, Zenon
  <1>21. b[13 + m] = udl
    <2>1. 1 \in 1 .. Len(y) /\ (12 + m) + 1 = 13 + m
      BY <1>9
    <2>. QED
      BY <1>9, <1>17, <2>1, Zenon
  <1>22. SubSeq(b, 4, 3 + m) = semi
    <2>1. ASSUME NEW i \in 1 .. m PROVE b[3 + i] = semi[i]
      <3>1. 3 + i \in 1 .. 5 + m /\ 2 + i \in 1 .. 4 + m /\ 1 + (2 + i) = 3 + i /\ 2 + (2 + i) = 4 + i
        OBVIOUS
      <3>2. b[3 + i] = a[3 + i]
        BY <1>19, <3>1, Zenon
      <3>3. a[1 + (2 + i)] = pdu[2 + (2 + i)]
        BY <1>15, <3>1, Zenon
      <3>4. pdu[2 + (2 + i)] = semi[i]
        BY <1>4, <3>1, Zenon
      <3>. QED
        BY <3>1, <3>2, <3>4, <3>3, Zenon
    <2>2. 3 + m <= Len(b)
      BY <1>18
    <2>3. Holds(b, 3, semi)
      BY <1>2, <2>1, <2>2, Zenon DEF Holds
    <2>4. PICK j \in Nat, l \in Nat : j = 3 /\ l = j + Len(semi) /\ l = 3 + m /\ j + 1 = 4
      BY <1>2
    <2>5. IsBetween(semi, b, j, l)
      BY <2>3, <2>4, SliceOf, Zenon
    <2>. QED
      BY <2>4, <2>5, Zenon DEF IsBetween
  <1>23. SubSeq(b, 6 + m, 12 + m) = scts
    <2>1. ASSUME NEW i \in 1 .. 7 PROVE b[(5 + m) + i] = scts[i]
      <3>1. (5 + m) + i \in 1 .. 12 + m
        OBVIOUS
      <3>. QED
        BY <1>16, <1>17, <3>1, Zenon
    <2>2. (5 + m) + 7 <= Len(b)
      BY <1>18
    <2>3. Holds(b, 5 + m, scts)
      BY <1>11, <2>1, <2>2, Zenon DEF Holds
    <2>4. PICK j \in Nat, l \in Nat : j = 5 + m /\ l = j + Len(scts) /\ l = 12 + m /\ j + 1 = 6 + m
      BY <1>11
    <2>5. IsBetween(scts, b, j, l)
      BY <2>3, <2>4, SliceOf, Zenon
    <2>. QED
      BY <2>4, <2>5, Zenon DEF IsBetween
  <1>24. Drop(b, 13 + m) = ud
    <2>1. 12 + m \in Nat /\ (12 + m) + 1 <= Len(b) /\ (12 + m) + 1 = 13 + m
      BY <1>18
    <2>2. PICK j \in Nat : j = 12 + m /\ j + 1 = 13 + m /\ j + 1 <= Len(b)
      BY <2>1
    <2>3. Drop(Drop(b, j), 1) = Drop(b, j + 1)
      BY <2>2, DropTwice, Zenon
    <2>. QED
      BY <1>9, <1>17, <2>2, <2>3, Zenon
  <1>25. IsDeliver(b, flag - 17, digits, dcs, scts, udl, ud)
    BY <1>1, <1>2, <1>18, <1>20, <1>21, <1>22, <1>23, <1>24, Zenon DEF IsDeliver
  <1>. QED
    BY <1>11, <1>14, <1>25, Zenon

\* A text ascii_text_eligible accepts has no escape of its own.
LEMMA EligibleText ==
  ASSUME NEW text \in Seq(Characters), AsciiTextEligible(text)
  PROVE  text \in Seq(GsmText)
  <1>1. \A i \in DOMAIN text : text[i] \in GsmText
    BY Zenon DEF AsciiTextEligible, GsmText, GsmChars
  <1>2. Len(text) \in Nat /\ text = [i \in 1 .. Len(text) |-> text[i]] /\ DOMAIN text = 1 .. Len(text)
    OBVIOUS
  <1>. DEFINE f(i) == text[i]
  <1>3. [i \in 1 .. Len(text) |-> f(i)] \in Seq(GsmText)
    <2>1. \A i \in 1 .. Len(text) : f(i) \in GsmText
      BY <1>1, <1>2
    <2>. HIDE DEF f
    <2>. QED
      BY <1>2, <2>1
  <1>. QED
    BY <1>2, <1>3

\* What is not longer is taken whole.
LEMMA TakeAll ==
  ASSUME NEW E, NEW s \in Seq(E), NEW n \in Nat, Len(s) <= n
  PROVE  Take(s, n) = s
  <1>1. ~(n < Len(s))
    OBVIOUS
  <1>2. SubSeq(s, 1, Len(s)) = s
    BY SubSeqFull
  <1>. QED
    BY <1>1, <1>2, Zenon DEF Take

\* A PDU arrives as an SMS-DELIVER that says this.
Says(pdu, digits, part, text) ==
  /\ ToDeliver(pdu) \in Seq(Byte) /\ 13 <= Len(ToDeliver(pdu))
  /\ ToDeliver(pdu)[1] = (IF part = NoHeader THEN 0 ELSE 64) /\ ToDeliver(pdu)[2] = Len(digits)
  /\ ParseCore(ToDeliver(pdu)) = Reading(digits, Scts, Read(part, text))

\* An SMS-SUBMIT whose user data are read so.
LEMMA SubmitSays ==
  ASSUME NEW pdu, NEW flag, NEW digits \in Seq(0 .. 9), Len(digits) \in Byte,
         NEW dcs \in {0, 8}, NEW udl \in Byte, NEW ud \in Seq(Byte), Len(ud) <= udl,
         Layout(pdu, Len(digits), dcs, udl, ud), Addressed(pdu, flag, digits),
         NEW part, NEW text, flag = (IF part = NoHeader THEN 17 ELSE 81),
         BodyOf(ud, udl, dcs, part # NoHeader) = Read(part, text)
  PROVE  Says(pdu, digits, part, text)
  <1>1. PICK f : f = flag - 17
    OBVIOUS
  <1>2. /\ f \in {0, 64} /\ f = (IF part = NoHeader THEN 0 ELSE 64) /\ (f = 64) = (part # NoHeader)
        /\ flag \in {17, 81} /\ dcs \in Byte /\ udl \in Nat
    BY <1>1 DEF Byte
  <1>3. PICK b : b = ToDeliver(pdu)
    OBVIOUS
  <1>4. IsDeliver(b, f, digits, dcs, Scts, udl, ud)
    <2>1. IsDeliver(ToDeliver(pdu), flag - 17, digits, dcs, Scts, udl, ud)
      BY <1>2, DeliverOf, SMT
    <2>. QED
      BY <1>1, <1>3, <2>1, Zenon
  <1>5. Take(ud, udl) = ud
    BY <1>2, TakeAll, Zenon
  <1>6. ParseCore(b) = Reading(digits, Scts, BodyOf(ud, udl, dcs, f = 64))
    BY <1>2, <1>4, <1>5, DeliverParsed, SMT
  <1>7. BodyOf(ud, udl, dcs, f = 64) = Read(part, text)
    BY <1>2, Zenon
  <1>8. PICK m \in Nat : m = CeilDiv(Len(digits), 2)
    BY CeilDivType
  <1>9. b \in Seq(Byte) /\ 13 + m <= Len(b) /\ b[1] = f /\ b[2] = Len(digits)
    BY <1>4, <1>8, Zenon DEF IsDeliver
  <1>10. 13 <= Len(b)
    <2>1. Len(b) \in Nat
      BY <1>9, LenProperties
    <2>. QED
      BY <1>8, <1>9, <2>1
  <1>. QED
    BY <1>2, <1>3, <1>6, <1>7, <1>9, <1>10, Zenon DEF Says

\* h is the header that says part, in elements of E.
Heads(h, part, E) ==
  /\ h \in Seq(E)
  /\ \/ h = NoHeader /\ part = NoHeader
     \/ /\ part # NoHeader
        /\ \E x \in Nat, total \in Nat, seq \in Nat : IsHeader(h, x, total, seq) /\ part = <<x, total, seq>>

\* Septets take no more octets than they are.
LEMMA FewerOctets == \A n \in Nat : CeilDiv(7 * n, 8) <= n
  BY DEF CeilDiv

\* gsm7_pdu: a text of GSM-7 arrives as it is.
LEMMA GsmSays ==
  ASSUME NEW number \in Number, NEW text \in Seq(GsmText), NEW udh, NEW part, Heads(udh, part, Byte),
         NEW n \in Nat, n = HeaderSeptets(Len(udh)) + Len(Gsm7Septets(text)), n <= 255
  PROVE  Says(Gsm7Pdu(number, text, udh), number.digits, part, text)
  <1>1. PICK s \in Seq(Septet) : s = Gsm7Septets(text)
    <2>1. GsmText \subseteq GsmChars
      BY DEF GsmText
    <2>2. text \in Seq(GsmChars)
      BY <2>1, SeqMonotonic
    <2>. QED
      BY <2>2, GsmType, Zenon
  <1>2. udh \in Seq(Byte)
    BY Zenon DEF Heads
  <1>3. PICK ud \in Seq(Byte) : ud = Pack(udh, s) /\ Len(ud) = CeilDiv(7 * n, 8)
    <2>1. s \in Seq(Nat)
      BY NumberSequences
    <2>. QED
      BY <1>1, <1>2, <2>1, PackType, Zenon
  <1>4. Len(ud) <= n
    BY <1>3, FewerOctets, Zenon
  <1>5. n \in Byte /\ 0 \in Byte /\ 0 \in {0, 8}
    <2>1. 0 \in Nat /\ 0 <= 255
      OBVIOUS
    <2>. QED
      BY <2>1, ByteOf, Zenon
  <1>6. PICK pdu : pdu = Submit(number, udh, 0, n, ud)
    OBVIOUS
  <1>7. PICK flag : flag = IF udh = NoHeader THEN 17 ELSE 81
    OBVIOUS
  <1>8. /\ Layout(pdu, Len(number.digits), 0, n, ud) /\ Addressed(pdu, flag, number.digits)
        /\ Len(number.digits) \in Byte
    BY <1>5, <1>6, <1>7, SubmitLayout, Zenon
  <1>9. BodyOf(ud, n, 0, part # NoHeader) = Read(part, text) /\ flag = (IF part = NoHeader THEN 17 ELSE 81)
    <2>1. 0 # 8
      OBVIOUS
    <2>2. CASE udh = NoHeader /\ part = NoHeader
      <3>1. n = Len(s)
        <4>1. n = HeaderSeptets(0) + Len(s) /\ HeaderSeptets(0) = 0
          BY <1>1, <2>2, NoHeaderType, SizesType, Zenon
        <4>. QED
          BY <4>1
      <3>2. GsmBody(Pack(NoHeader, s), Len(s), FALSE) = Read(NoHeader, text)
        BY <1>1, GsmWhole, Zenon
      <3>3. (part # NoHeader) = FALSE
        BY <2>2, Zenon
      <3>4. GsmBody(ud, n, FALSE) = Read(NoHeader, text)
        BY <1>3, <2>2, <3>1, <3>2, Zenon
      <3>. QED
        BY <1>7, <2>1, <2>2, <3>3, <3>4, Zenon DEF BodyOf
    <2>3. CASE ~(udh = NoHeader /\ part = NoHeader)
      <3>1. part # NoHeader
            /\ \E x \in Nat, total \in Nat, seq \in Nat : IsHeader(udh, x, total, seq) /\ part = <<x, total, seq>>
        BY <2>3, Zenon DEF Heads
      <3>2. PICK x \in Nat, total \in Nat, seq \in Nat : IsHeader(udh, x, total, seq) /\ part = <<x, total, seq>>
        BY <3>1, Zenon
      <3>3. Len(udh) = 6
        BY <3>2, Zenon DEF IsHeader
      <3>4. udh # NoHeader
        <4>1. 6 # 0
          OBVIOUS
        <4>. QED
          BY <3>3, <4>1, NoHeaderType, Zenon
      <3>5. n = HeaderSeptets(6) + Len(s)
        BY <1>1, <3>3, Zenon
      <3>6. GsmBody(Pack(udh, s), HeaderSeptets(6) + Len(s), TRUE) = Read(<<x, total, seq>>, text)
        <4>1. IsSegment(GsmBody(Pack(udh, s), HeaderSeptets(6) + Len(s), TRUE), x, total, seq, text)
          BY <1>1, <1>2, <3>2, GsmSegment, Zenon
        <4>. QED
          BY <4>1, Zenon DEF IsSegment
      <3>7. (part # NoHeader) = TRUE
        BY <3>1, Zenon
      <3>8. GsmBody(ud, n, TRUE) = Read(part, text)
        BY <1>3, <3>2, <3>5, <3>6, Zenon
      <3>. QED
        BY <1>7, <2>1, <3>1, <3>4, <3>7, <3>8, Zenon DEF BodyOf
    <2>. QED
      BY <2>2, <2>3, Zenon
  <1>10. number.digits \in Seq(0 .. 9)
    BY DEF Number
  <1>11. Says(pdu, number.digits, part, text)
    BY <1>4, <1>5, <1>8, <1>9, <1>10, SubmitSays, Zenon
  <1>. QED
    BY <1>1, <1>3, <1>6, <1>11, Zenon DEF Gsm7Pdu

\* ucs2_pdu: so does any other text.
LEMMA Ucs2Says ==
  ASSUME NEW number \in Number, NEW text \in Seq(Characters), NEW udh, NEW part, Heads(udh, part, Byte),
         Len(udh) + Len(Utf16Octets(text)) <= 255
  PROVE  Says(Ucs2Pdu(number, text, udh), number.digits, part, text)
  <1>1. PICK o \in Seq(Byte) : o = Utf16Octets(text)
    BY Ucs2Type, Zenon
  <1>2. udh \in Seq(Byte)
    BY Zenon DEF Heads
  <1>3. PICK ud \in Seq(Byte) : IsJoin(ud, udh, o)
    BY <1>2, JoinOf
  <1>4. ud = udh \o o /\ Len(ud) = Len(udh) + Len(o)
    BY <1>3, Zenon DEF IsJoin
  <1>5. PICK n \in Nat : n = Len(ud) /\ n <= 255
    <2>1. Len(ud) \in Nat
      BY LenProperties
    <2>. QED
      BY <1>1, <1>4, <2>1, Zenon
  <1>6. n \in Byte /\ 8 \in Byte /\ 8 \in {0, 8} /\ Len(ud) <= n
    <2>1. 8 \in Nat /\ 8 <= 255 /\ n <= n
      OBVIOUS
    <2>. QED
      BY <1>5, <2>1, ByteOf, Zenon
  <1>7. PICK pdu : pdu = Submit(number, udh, 8, n, ud)
    OBVIOUS
  <1>8. PICK flag : flag = IF udh = NoHeader THEN 17 ELSE 81
    OBVIOUS
  <1>9. /\ Layout(pdu, Len(number.digits), 8, n, ud) /\ Addressed(pdu, flag, number.digits)
        /\ Len(number.digits) \in Byte
    BY <1>6, <1>7, <1>8, SubmitLayout, Zenon
  <1>10. BodyOf(ud, n, 8, part # NoHeader) = Read(part, text) /\ flag = (IF part = NoHeader THEN 17 ELSE 81)
    <2>1. CASE udh = NoHeader /\ part = NoHeader
      <3>1. ud = o
        <4>1. <<>> \o o = o
          BY Joining
        <4>. QED
          BY <1>4, <2>1, <4>1, Zenon DEF NoHeader
      <3>2. Ucs2Body(Utf16Octets(text), FALSE) = Read(NoHeader, text)
        BY Ucs2Whole, Zenon
      <3>3. (part # NoHeader) = FALSE
        BY <2>1, Zenon
      <3>. QED
        BY <1>1, <1>8, <2>1, <3>1, <3>2, <3>3, Zenon DEF BodyOf
    <2>2. CASE ~(udh = NoHeader /\ part = NoHeader)
      <3>1. part # NoHeader
            /\ \E x \in Nat, total \in Nat, seq \in Nat : IsHeader(udh, x, total, seq) /\ part = <<x, total, seq>>
        BY <2>2, Zenon DEF Heads
      <3>2. PICK x \in Nat, total \in Nat, seq \in Nat : IsHeader(udh, x, total, seq) /\ part = <<x, total, seq>>
        BY <3>1, Zenon
      <3>3. Len(udh) = 6
        BY <3>2, Zenon DEF IsHeader
      <3>4. udh # NoHeader
        <4>1. 6 # 0
          OBVIOUS
        <4>. QED
          BY <3>3, <4>1, NoHeaderType, Zenon
      <3>5. Ucs2Body(udh \o Utf16Octets(text), TRUE) = Read(<<x, total, seq>>, text)
        <4>1. IsSegment(Ucs2Body(udh \o Utf16Octets(text), TRUE), x, total, seq, text)
          BY <1>2, <3>2, Ucs2Segment, Zenon
        <4>. QED
          BY <4>1, Zenon DEF IsSegment
      <3>6. (part # NoHeader) = TRUE
        BY <3>1, Zenon
      <3>7. Ucs2Body(ud, TRUE) = Read(part, text)
        BY <1>1, <1>4, <3>2, <3>5, Zenon
      <3>. QED
        BY <1>8, <3>1, <3>4, <3>6, <3>7, Zenon DEF BodyOf
    <2>. QED
      BY <2>1, <2>2, Zenon
  <1>11. number.digits \in Seq(0 .. 9)
    BY DEF Number
  <1>12. Says(pdu, number.digits, part, text)
    BY <1>6, <1>9, <1>10, <1>11, SubmitSays, Zenon
  <1>. QED
    BY <1>1, <1>4, <1>5, <1>7, <1>12, Zenon DEF Ucs2Pdu

\* Older builds: the flag is set afterwards, and the header stands in the stream.
LEMMA OldSays ==
  ASSUME NEW number \in Number, NEW text \in Seq(GsmText), NEW h \in Seq(Septet),
         NEW x \in Nat, NEW total \in Nat, NEW seq \in Nat, IsHeader(h, x, total, seq),
         NEW s, s = h \o Gsm7Septets(text), Len(s) <= 255
  PROVE  Says([Submit(number, NoHeader, 0, Len(s), Pack(NoHeader, s)) EXCEPT ![1] = 81],
              number.digits, <<x, total, seq>>, text)
  <1>1. PICK t \in Seq(Septet) : t = Gsm7Septets(text)
    <2>1. GsmText \subseteq GsmChars
      BY DEF GsmText
    <2>2. text \in Seq(GsmChars)
      BY <2>1, SeqMonotonic
    <2>. QED
      BY <2>2, GsmType, Zenon
  <1>2. IsJoin(s, h, t) /\ s \in Seq(Septet)
    <2>1. PICK u \in Seq(Septet) : IsJoin(u, h, t)
      BY JoinOf
    <2>2. u = s
      BY <1>1, <2>1, Zenon DEF IsJoin
    <2>. QED
      BY <2>1, <2>2, Zenon
  <1>3. PICK n \in Nat : n = Len(s) /\ n <= 255
    BY <1>2, LenProperties
  <1>4. PICK ud \in Seq(Byte) : ud = Pack(NoHeader, s) /\ Len(ud) <= n
    <2>1. s \in Seq(Nat)
      BY <1>2, NumberSequences
    <2>2. PICK l \in Nat : l = HeaderSeptets(Len(NoHeader)) + Len(s) /\ l = n
      <3>1. HeaderSeptets(Len(NoHeader)) = 0
        BY NoHeaderType, SizesType, Zenon
      <3>. QED
        BY <1>3, <3>1
    <2>3. Pack(NoHeader, s) \in Seq(Byte) /\ Len(Pack(NoHeader, s)) = CeilDiv(7 * l, 8)
      BY <2>1, <2>2, NoHeaderType, PackType, Zenon
    <2>. QED
      BY <2>2, <2>3, FewerOctets, Zenon
  <1>5. n \in Byte /\ 0 \in Byte /\ 81 \in Byte /\ 0 \in {0, 8} /\ 0 # 8
    <2>1. 0 \in Nat /\ 0 <= 255 /\ 81 \in Nat /\ 81 <= 255 /\ 0 # 8
      OBVIOUS
    <2>2. n \in Byte /\ 0 \in Byte
      BY <1>3, <2>1, ByteOf, Zenon
    <2>3. 81 \in Byte
      BY DEF Byte
    <2>. QED
      BY <2>1, <2>2, <2>3, Zenon
  <1>6. PICK pdu, p : pdu = Submit(number, NoHeader, 0, n, ud) /\ p = [pdu EXCEPT ![1] = 81]
    OBVIOUS
  <1>7. PICK f : f = IF NoHeader = NoHeader THEN 17 ELSE 81
    OBVIOUS
  <1>8. /\ Layout(pdu, Len(number.digits), 0, n, ud) /\ Addressed(pdu, f, number.digits)
        /\ Len(number.digits) \in Byte
    BY <1>5, <1>6, <1>7, SubmitLayout, Zenon
  <1>9. number.digits \in Seq(0 .. 9)
    BY DEF Number
  <1>10. PICK flag \in Byte : flag = 81
    BY <1>5
  <1>11. Layout(p, Len(number.digits), 0, n, ud) /\ Addressed(p, flag, number.digits)
    BY <1>6, <1>8, <1>9, <1>10, LayoutFlag, Zenon
  <1>12. PICK part : part = <<x, total, seq>>
    OBVIOUS
  <1>13. part # NoHeader
    BY <1>12 DEF NoHeader
  <1>14. flag = (IF part = NoHeader THEN 17 ELSE 81)
    BY <1>10, <1>13, Zenon
  <1>15. BodyOf(ud, n, 0, part # NoHeader) = Read(part, text)
    <2>1. GsmBody(Pack(NoHeader, s), Len(s), TRUE) = Read(<<x, total, seq>>, text)
      <3>1. IsSegment(GsmBody(Pack(NoHeader, s), Len(s), TRUE), x, total, seq, text)
        BY <1>1, <1>2, OldSegment, Zenon
      <3>. QED
        BY <3>1, Zenon DEF IsSegment
    <2>2. (part # NoHeader) = TRUE
      BY <1>13, Zenon
    <2>. QED
      BY <1>3, <1>4, <1>5, <1>12, <2>1, <2>2, Zenon DEF BodyOf
  <1>16. Says(p, number.digits, part, text)
    BY <1>4, <1>5, <1>8, <1>9, <1>11, <1>14, <1>15, SubmitSays, Zenon
  <1>. QED
    BY <1>3, <1>4, <1>6, <1>12, <1>16, Zenon

\* The time stamp is a date, and no time stamp is none.
LEMMA DatedScts == Plausible(Scts) /\ ~Plausible(<<>>)
  <1>1. Plausible(Scts)
    BY DEF Plausible, Scts
  <1>2. Len(<<>>) # 7
    OBVIOUS
  <1>. QED
    BY <1>1, <1>2, Zenon DEF Plausible

\* A reading is not the error.
LEMMA ReadingIsNoError ==
  ASSUME NEW digits, NEW scts, NEW body
  PROVE  /\ Reading(digits, scts, body) # Malformed
         /\ Reading(digits, scts, body).scts = scts
  <1>1. "sender" \in DOMAIN Reading(digits, scts, body) /\ "sender" \notin DOMAIN Malformed
    BY DEF Reading, Malformed
  <1>2. Reading(digits, scts, body).scts = scts
    BY DEF Reading
  <1>. QED
    BY <1>1, <1>2, Zenon

\* What parses as a message with a date.
Dated(r) == r # Malformed /\ Plausible(r.scts)

\* The i-th way to read b.
Attempt(b, i) == ParseCore(Drop(b, Skips(b)[i]))

\* Which they are.
LEMMA TriedWays ==
  ASSUME NEW b
  PROVE  /\ Tried(b) \subseteq 1 .. 3
         /\ 1 \in Tried(b) <=> b[1] = 0
         /\ 2 \in Tried(b) <=> b[1] \in 1 .. 25 /\ b[1] + 2 < Len(b) /\ b[2] >= 128
         /\ 3 \in Tried(b)
  <1>1. 1 \in 1 .. 3 /\ 2 \in 1 .. 3 /\ 3 \in 1 .. 3 /\ 1 # 2 /\ 1 # 3 /\ 2 # 3
    OBVIOUS
  <1>2. 1 \in Tried(b) <=> b[1] = 0
    BY <1>1 DEF Tried
  <1>3. 2 \in Tried(b) <=> b[1] \in 1 .. 25 /\ b[1] + 2 < Len(b) /\ b[2] >= 128
    BY <1>1 DEF Tried
  <1>4. 3 \in Tried(b) /\ Tried(b) \subseteq 1 .. 3
    BY <1>1 DEF Tried
  <1>. QED
    BY <1>2, <1>3, <1>4, Zenon

\* parse_sms_pdu takes the only dated one of the ways it tries.
LEMMA BestOf ==
  ASSUME NEW b, ~(Len(b) < 5), NEW t \in Tried(b), Dated(Attempt(b, t)),
         \A j \in Tried(b) : j # t => ~Dated(Attempt(b, j))
  PROVE  ParseSmsPdu(b) = Attempt(b, t)
  <1>. DEFINE parsed == [i \in Tried(b) |-> ParseCore(Drop(b, Skips(b)[i]))]
              good == {i \in DOMAIN parsed : parsed[i] # Malformed}
              rank(i) == (IF Plausible(parsed[i].scts) THEN 2 ELSE 0) + (IF parsed[i].text # <<>> THEN 1 ELSE 0)
              best == CHOOSE i \in good : \A j \in good : rank(j) < rank(i) \/ (rank(j) = rank(i) /\ i <= j)
  <1>1. ParseSmsPdu(b) = IF Len(b) < 5 \/ good = {} THEN Malformed ELSE parsed[best]
    BY Zenon DEF ParseSmsPdu
  <1>2. DOMAIN parsed = Tried(b) /\ \A i \in Tried(b) : parsed[i] = Attempt(b, i)
    BY DEF Attempt
  <1>3. t \in good /\ good \subseteq 1 .. 3
    <2>1. t \in good
      BY <1>2, Zenon DEF Dated
    <2>2. good \subseteq Tried(b)
      BY <1>2, Zenon
    <2>3. Tried(b) \subseteq 1 .. 3
      BY DEF Tried
    <2>. QED
      BY <2>1, <2>2, <2>3, Zenon
  <1>4. Plausible(parsed[t].scts) /\ \A j \in good : j # t => ~Plausible(parsed[j].scts)
    BY <1>2, Zenon DEF Dated
  <1>5. (rank(t) = 2 \/ rank(t) = 3) /\ \A j \in good : j # t => rank(j) = 0 \/ rank(j) = 1
    <2>1. rank(t) = 2 \/ rank(t) = 3
      <3>1. 2 + 1 = 3 /\ 2 + 0 = 2
        OBVIOUS
      <3>. QED
        BY <1>4, <3>1, Zenon
    <2>2. ASSUME NEW j \in good, j # t PROVE rank(j) = 0 \/ rank(j) = 1
      <3>1. 0 + 1 = 1 /\ 0 + 0 = 0
        OBVIOUS
      <3>2. ~Plausible(parsed[j].scts)
        BY <1>4, <2>2, Zenon
      <3>. QED
        BY <3>1, <3>2, Zenon
    <2>. QED
      BY <2>1, <2>2, Zenon
  <1>6. best = t
    <2>. HIDE DEF good, rank
    <2>1. \A j \in good : rank(j) < rank(t) \/ (rank(j) = rank(t) /\ t <= j)
      BY <1>3, <1>5
    <2>2. ASSUME NEW i \in good, \A j \in good : rank(j) < rank(i) \/ (rank(j) = rank(i) /\ i <= j)
          PROVE  i = t
      BY <1>3, <1>5, <2>2
    <2>3. /\ best \in good
          /\ \A j \in good : rank(j) < rank(best) \/ (rank(j) = rank(best) /\ best <= j)
      BY <1>3, <2>1, Zenon
    <2>. QED
      BY <2>2, <2>3, Zenon
  <1>7. good # {}
    BY <1>3, Zenon
  <1>8. parsed[best] = Attempt(b, t)
    BY <1>2, <1>6, Zenon
  <1>. QED
    BY <1>1, <1>7, <1>8, Zenon

\* Without the message centre in front, an SMS-DELIVER whose first octet is 0 is also tried
\* as if that were the length of an absent one; this must not look like a message as well.
Unmistakable(b) == b[1] = 0 => ~Dated(ParseCore(Drop(b, 1)))

\* It does not where the number of digits is no multiple of 4: the type of message would be
\* another one.
LEMMA UnmistakableDigits ==
  ASSUME NEW b \in Seq(Byte), 5 < Len(b), NEW l \in Byte, b[2] = l, l % 4 # 0
  PROVE  Unmistakable(b)
  <1>1. PICK c \in Seq(Byte) : c = Drop(b, 1) /\ c[1] = b[2]
    <2>1. 1 \in Nat /\ 1 <= Len(b)
      OBVIOUS
    <2>2. PICK c \in Seq(Byte) : IsRest(c, b, 1)
      BY <2>1, RestBehind, Zenon
    <2>3. 1 \in 1 .. Len(b) - 1 /\ 1 + 1 = 2
      OBVIOUS
    <2>4. c = Drop(b, 1) /\ c[1] = b[2]
      BY <2>2, <2>3, Zenon DEF IsRest
    <2>. QED
      BY <2>4, Zenon
  <1>2. c[1] % 4 # 0 /\ (c[1] % 4 > 1 \/ c[1] % 4 = 1)
    <2>1. l % 4 > 1 \/ l % 4 = 1
      BY DEF Byte
    <2>. QED
      BY <1>1, <2>1, Zenon
  <1>3. CASE ParseCore(c) = Malformed
    BY <1>1, <1>3, Zenon DEF Unmistakable, Dated
  <1>4. CASE ParseCore(c) # Malformed
    <2>1. ParseCore(c).scts = <<>>
      BY <1>2, <1>4 DEF ParseCore
    <2>. QED
      BY <1>1, <2>1, DatedScts, Zenon DEF Unmistakable, Dated
  <1>. QED
    BY <1>3, <1>4, Zenon

\* What a PDU is parsed to by the receiving bridge.
RecordOf(digits, part, text) == Reading(digits, Scts, Read(part, text))

\* Nothing dropped.
LEMMA DropNone ==
  ASSUME NEW E, NEW s \in Seq(E)
  PROVE  Drop(s, 0) = s
  <1>1. SubSeq(s, 1, Len(s)) = s /\ 0 + 1 = 1
    BY SubSeqFull
  <1>. QED
    BY <1>1, Zenon DEF Drop

\* parse_sms_pdu: with the message centre in front, and without it, the PDU is read as it was
\* meant.
THEOREM ReadAsSent ==
  ASSUME NEW pdu, NEW digits, NEW part, NEW text, Says(pdu, digits, part, text),
         part = NoHeader => Unmistakable(ToDeliver(pdu)),
         NEW front \in {<<>>, MessageCentre}
  PROVE  ParseSmsPdu(front \o ToDeliver(pdu)) = RecordOf(digits, part, text)
  <1>1. PICK d \in Seq(Byte) : d = ToDeliver(pdu) /\ 13 <= Len(d) /\ d[1] = IF part = NoHeader THEN 0 ELSE 64
    BY Zenon DEF Says
  <1>2. Dated(ParseCore(d)) /\ ParseCore(d) = RecordOf(digits, part, text)
    <2>1. ParseCore(d) = Reading(digits, Scts, Read(part, text))
      BY <1>1, Zenon DEF Says
    <2>. QED
      BY <2>1, ReadingIsNoError, DatedScts, Zenon DEF Dated, RecordOf
  <1>3. CASE front = <<>>
    <2>1. front \o d = d
      BY <1>3, Joining, Zenon
    <2>2. Skips(d)[3] = 0 /\ Skips(d)[1] = 1
      BY DEF Skips
    <2>3. Attempt(d, 3) = ParseCore(d) /\ Attempt(d, 1) = ParseCore(Drop(d, 1))
      BY <2>2, DropNone, Zenon DEF Attempt
    <2>4. 3 \in Tried(d) /\ 2 \notin Tried(d) /\ (1 \in Tried(d) => d[1] = 0) /\ Tried(d) \subseteq 1 .. 3
      <3>1. d[1] \notin 1 .. 25
        BY <1>1
      <3>. QED
        BY <3>1, TriedWays, Zenon
    <2>5. d[1] = 0 => part = NoHeader
      BY <1>1
    <2>6. ASSUME NEW j \in Tried(d), j # 3 PROVE ~Dated(Attempt(d, j))
      <3>1. j = 1
        BY <2>4, <2>6
      <3>2. ~Dated(ParseCore(Drop(d, 1)))
        BY <1>1, <2>4, <2>5, <2>6, <3>1, Zenon DEF Unmistakable
      <3>. QED
        BY <2>3, <3>1, <3>2, Zenon
    <2>7. ~(Len(d) < 5)
      BY <1>1
    <2>8. ParseSmsPdu(d) = Attempt(d, 3)
      BY <1>2, <2>3, <2>4, <2>6, <2>7, BestOf, Zenon
    <2>. QED
      BY <1>1, <1>2, <2>1, <2>3, <2>8, Zenon
  <1>4. CASE front = MessageCentre
    <2>1. PICK f \in Seq(Byte) : f = MessageCentre /\ Len(f) = 8 /\ f[1] = 7 /\ f[2] = 145
      <3>1. /\ MessageCentre \in Seq(Byte) /\ Len(MessageCentre) = 8
            /\ MessageCentre[1] = 7 /\ MessageCentre[2] = 145
        <4>1. 7 \in Byte /\ 145 \in Byte /\ 148 \in Byte /\ 113 \in Byte /\ 1 \in Byte /\ 103 \in Byte
              /\ 69 \in Byte /\ 248 \in Byte
          BY DEF Byte
        <4>. QED
          BY <4>1 DEF MessageCentre
      <3>. QED
        BY <3>1, Zenon
    <2>2. PICK b \in Seq(Byte) : IsJoin(b, f, d)
      BY JoinOf
    <2>3. b = MessageCentre \o d /\ Len(b) = 8 + Len(d) /\ b[1] = 7 /\ b[2] = 145 /\ Drop(b, 8) = d
      <3>1. 1 \in 1 .. 8 /\ 2 \in 1 .. 8
        OBVIOUS
      <3>. QED
        BY <2>1, <2>2, <3>1, Zenon DEF IsJoin
    <2>4. Len(b) >= 21
      BY <1>1, <2>3
    <2>5. Skips(b)[2] = 8 /\ Skips(b)[3] = 0
      BY <2>3 DEF Skips
    <2>6. 2 \in Tried(b) /\ 1 \notin Tried(b) /\ Tried(b) \subseteq 1 .. 3
      <3>1. 7 \in 1 .. 25 /\ 145 >= 128 /\ 7 # 0
        OBVIOUS
      <3>2. 7 + 2 < Len(b)
        BY <2>4
      <3>3. b[1] \in 1 .. 25 /\ b[1] + 2 < Len(b) /\ b[2] >= 128 /\ b[1] # 0
        BY <2>3, <3>1, <3>2
      <3>. QED
        BY <3>3, TriedWays, Zenon
    <2>7. Attempt(b, 2) = ParseCore(d) /\ Attempt(b, 3) = ParseCore(b)
      BY <2>3, <2>5, DropNone, Zenon DEF Attempt
    <2>8. ParseCore(b) = Malformed
      <3>1. b[1] % 4 > 1
        BY <2>3
      <3>. QED
        BY <3>1, Zenon DEF ParseCore
    <2>9. ASSUME NEW j \in Tried(b), j # 2 PROVE ~Dated(Attempt(b, j))
      <3>1. j = 3
        BY <2>6, <2>9
      <3>. QED
        BY <2>7, <2>8, <3>1, Zenon DEF Dated
    <2>10. ~(Len(b) < 5)
      BY <2>4
    <2>11. ParseSmsPdu(b) = Attempt(b, 2)
      BY <1>2, <2>6, <2>7, <2>9, <2>10, BestOf, Zenon
    <2>. QED
      BY <1>1, <1>2, <1>4, <2>3, <2>7, <2>11, Zenon
  <1>. QED
    BY <1>3, <1>4, Zenon

\* The code of what can be sent in GSM-7.
TextCode == [c \in GsmText |-> SeptetsOf(c)]

\* Its pieces have no escape of their own either.
LEMMA TextPieces ==
  ASSUME NEW text \in Seq(GsmText), NEW cap \in Nat \ {0, 1}
  PROVE  SplitGsm7(text, cap) \in Seq(Seq(GsmText))
  <1>1. GsmText \subseteq GsmChars
    BY DEF GsmText
  <1>2. TextCode \in Codes(GsmText, Septet)
    <2>1. \A c \in GsmText : SeptetsOf(c) \in Seq(Septet)
      BY <1>1, SeptetsOfType
    <2>. QED
      BY <2>1, Zenon DEF TextCode, Codes
  <1>3. ASSUME NEW c \in GsmText PROVE Septets[c] \in 1 .. 2 /\ Len(TextCode[c]) = 1 * Septets[c]
    <2>1. TextCode[c] = SeptetsOf(c)
      BY Zenon DEF TextCode
    <2>2. Septets[c] \in 1 .. 2 /\ Len(SeptetsOf(c)) = Septets[c]
      BY <1>1, SeptetsOfType
    <2>3. 1 * Septets[c] = Septets[c]
      BY <2>2
    <2>. QED
      BY <2>1, <2>2, <2>3, Zenon
  <1>4. Sized(GsmText, Septet, TextCode, Septets, 1)
    BY <1>2, <1>3 DEF Sized
  <1>5. Pieces(Split(text, Septets, cap), text, GsmText, TextCode, 1 * cap)
    BY <1>4, SplitFits
  <1>. QED
    BY <1>5, Zenon DEF Pieces, SplitGsm7

\* The pieces of a text of GSM characters are pieces of a text.
LEMMA PiecesOfText ==
  ASSUME NEW pieces \in Seq(Seq(GsmChars))
  PROVE  pieces \in Seq(Seq(Characters))
  <1>1. GsmChars \subseteq Characters
    BY GsmCharacters
  <1>2. \A s \in Seq(GsmChars) : s \in Seq(Characters)
    BY <1>1, SeqMonotonic
  <1>3. Seq(GsmChars) \subseteq Seq(Characters)
    BY <1>2, Zenon
  <1>. QED
    BY <1>3, SeqMonotonic

\* The PDUs say, one behind the other, the pieces of the text, with these parts.
Conveyed(pdus, number, text, pieces, part) ==
  \E n \in Nat :
    /\ n # 0 /\ pieces \in Seq(Seq(Characters)) /\ FlattenSeq(pieces) = text
    /\ Len(pieces) = n /\ DOMAIN pieces = 1 .. n
    /\ pdus = [i \in 1 .. n |-> pdus[i]] /\ Len(pdus) = n
    /\ \A i \in 1 .. n : Says(pdus[i], number.digits, part[i], pieces[i])

\* concat_udh: the header of a segment.
LEMMA HeaderSays ==
  ASSUME NEW r \in Nat, NEW n \in Nat, n <= 255, NEW i \in 1 .. n, NEW part,
         part = IF n > 1 THEN <<r % 256, n, i>> ELSE NoHeader
  PROVE  Heads(HeaderOf(r, n, i), part, Byte)
  <1>1. HeaderOf(r, n, i) \in Seq(Byte)
    BY HeaderOfType, Zenon
  <1>2. CASE n > 1
    <2>1. PICK x \in Nat : x = r % 256
      OBVIOUS
    <2>2. IsHeader(ConcatUdh(r, n, i), x, n, i)
      <3>1. ConcatUdh(r, n, i) = <<5, 0, 3, x, n, i>>
        BY <2>1, Zenon DEF ConcatUdh
      <3>2. IsHeader(<<5, 0, 3, x, n, i>>, x, n, i)
        BY DEF IsHeader
      <3>. QED
        BY <3>1, <3>2, Zenon
    <2>3. HeaderOf(r, n, i) = ConcatUdh(r, n, i)
      BY <1>2, Zenon DEF HeaderOf
    <2>4. part = <<x, n, i>>
      BY <1>2, <2>1, Zenon
    <2>5. part # NoHeader /\ i \in Nat
      BY <2>4 DEF NoHeader
    <2>6. PICK h \in Seq(Byte) : h = HeaderOf(r, n, i) /\ IsHeader(h, x, n, i)
      BY <1>1, <2>2, <2>3, Zenon
    <2>7. Heads(h, part, Byte)
      BY <2>4, <2>5, <2>6, Zenon DEF Heads
    <2>. QED
      BY <2>6, <2>7, Zenon
  <1>3. CASE ~(n > 1)
    BY <1>1, <1>3, Zenon DEF Heads, HeaderOf
  <1>. QED
    BY <1>2, <1>3

\* _send_pdu: a text in segments, in either alphabet.
LEMMA SegmentsSay ==
  ASSUME NEW number \in Number, NEW text \in Seq(Characters), NEW use_gsm7 \in BOOLEAN,
         use_gsm7 => AsciiTextEligible(text), NEW r \in Nat, NEW pieces,
         pieces = (IF use_gsm7 THEN SplitGsm7(text, GsmCap) ELSE SplitUcs2(text, Ucs2Cap)),
         NEW part, \A i \in 1 .. Len(pieces) :
                     part[i] = IF Len(pieces) > 1 THEN <<r % 256, Len(pieces), i>> ELSE NoHeader,
         Len(pieces) <= MaxSegments
  PROVE  Conveyed(Segments(number, text, use_gsm7, r), number, text, pieces, part)
  <1>. DEFINE Pdu(piece, h) == IF use_gsm7 THEN Gsm7Pdu(number, piece, h) ELSE Ucs2Pdu(number, piece, h)
              Header(h) == h \in Seq(Byte) /\ Len(h) \in {0, 6}
              Sound(piece) == \A h, t : Header(h) /\ Heads(h, t, Byte)
                                => Says(Pdu(piece, h), number.digits, t, piece)
  <1>1. /\ pieces \in Seq(Seq(Characters)) \ {<<>>} /\ FlattenSeq(pieces) = text
        /\ \A i \in DOMAIN pieces : Sound(pieces[i])
    <2>1. CASE use_gsm7
      <3>1. pieces = SplitGsm7(text, GsmCap) /\ text \in Seq(GsmText) /\ text \in Seq(GsmChars)
        BY <2>1, EligibleText, Eligible, Zenon
      <3>2. /\ pieces \in Seq(Seq(GsmChars)) /\ pieces # <<>> /\ FlattenSeq(pieces) = text
            /\ \A k \in DOMAIN pieces : Len(Gsm7Septets(pieces[k])) <= GsmCap
        BY <3>1, SizesType, SplitGsm7Fits
      <3>3. pieces \in Seq(Seq(GsmText))
        BY <3>1, SizesType, TextPieces, Zenon
      <3>4. ASSUME NEW i \in DOMAIN pieces PROVE Sound(pieces[i])
        <4>1. PICK piece \in Seq(GsmText) : piece = pieces[i]
          BY <3>3
        <4>2. PICK k \in Nat : k = Len(Gsm7Septets(piece)) /\ k <= GsmCap
          <5>1. Len(Gsm7Septets(piece)) \in Nat
            BY <3>2, <4>1, SeptetsOfText
          <5>. QED
            BY <3>2, <4>1, <5>1, Zenon
        <4>3. ASSUME NEW h, NEW t, Header(h), Heads(h, t, Byte)
              PROVE  Says(Pdu(piece, h), number.digits, t, piece)
          <5>1. PICK l \in {0, 6} : l = Len(h)
            BY <4>3
          <5>2. PICK n \in Nat : n = HeaderSeptets(l) + k /\ n <= 255
            BY <4>2, SegmentLimit, Zenon
          <5>3. n = HeaderSeptets(Len(h)) + Len(Gsm7Septets(piece))
            BY <4>2, <5>1, <5>2, Zenon
          <5>4. Says(Gsm7Pdu(number, piece, h), number.digits, t, piece)
            BY <4>3, <5>2, <5>3, GsmSays, Zenon
          <5>. QED
            BY <2>1, <5>4, Zenon
        <4>. QED
          BY <4>1, <4>3, Zenon
      <3>5. pieces \in Seq(Seq(Characters))
        BY <3>2, PiecesOfText, Zenon
      <3>. QED
        BY <3>2, <3>4, <3>5, Zenon
    <2>2. CASE ~use_gsm7
      <3>1. pieces = SplitUcs2(text, Ucs2Cap)
        BY <2>2, Zenon
      <3>2. /\ pieces \in Seq(Seq(Characters)) /\ pieces # <<>> /\ FlattenSeq(pieces) = text
            /\ \A k \in DOMAIN pieces : Len(Utf16Octets(pieces[k])) <= 2 * Ucs2Cap
        BY <3>1, SizesType, SplitUcs2Fits
      <3>3. ASSUME NEW i \in DOMAIN pieces PROVE Sound(pieces[i])
        <4>1. PICK piece \in Seq(Characters) : piece = pieces[i]
          BY <3>2
        <4>2. PICK k \in Nat : k = Len(Utf16Octets(piece)) /\ k <= 2 * Ucs2Cap
          <5>1. Utf16Octets(piece) \in Seq(Byte)
            BY Ucs2Type, Zenon
          <5>2. Len(Utf16Octets(piece)) \in Nat
            BY <5>1, LenProperties
          <5>. QED
            BY <3>2, <4>1, <5>2, Zenon
        <4>3. ASSUME NEW h, NEW t, Header(h), Heads(h, t, Byte)
              PROVE  Says(Pdu(piece, h), number.digits, t, piece)
          <5>1. PICK l \in {0, 6} : l = Len(h)
            BY <4>3
          <5>2. l + k <= 255
            BY <4>2, SizesType, SizesAssumption
          <5>3. Len(h) + Len(Utf16Octets(piece)) <= 255
            BY <4>2, <5>1, <5>2, Zenon
          <5>4. Says(Ucs2Pdu(number, piece, h), number.digits, t, piece)
            BY <4>3, <5>3, Ucs2Says, Zenon
          <5>. QED
            BY <2>2, <5>4, Zenon
        <4>. QED
          BY <4>1, <4>3, Zenon
      <3>. QED
        BY <3>2, <3>3, Zenon
    <2>. QED
      BY <2>1, <2>2
  <1>2. PICK n \in Nat : n = Len(pieces) /\ n # 0 /\ DOMAIN pieces = 1 .. n
    BY <1>1
  <1>3. n <= 255
    BY <1>2, SizesAssumption
  <1>4. PICK pdus : pdus = Segments(number, text, use_gsm7, r)
    OBVIOUS
  <1>5. pdus = [i \in 1 .. n |-> Pdu(pieces[i], HeaderOf(r, n, i))]
    BY <1>2, <1>4, Zenon DEF Segments, HeaderOf
  <1>6. ASSUME NEW i \in 1 .. n PROVE Says(pdus[i], number.digits, part[i], pieces[i])
    <2>1. Header(HeaderOf(r, n, i))
      BY <1>3, HeaderOfType
    <2>2. Heads(HeaderOf(r, n, i), part[i], Byte)
      BY <1>2, <1>3, HeaderSays, Zenon
    <2>3. Sound(pieces[i])
      BY <1>1, <1>2, Zenon
    <2>4. pdus[i] = Pdu(pieces[i], HeaderOf(r, n, i))
      BY <1>5, Zenon
    <2>5. Says(Pdu(pieces[i], HeaderOf(r, n, i)), number.digits, part[i], pieces[i])
      <3>. HIDE DEF Pdu, Header
      <3>. QED
        BY <2>1, <2>2, <2>3, Zenon
    <2>. QED
      BY <2>4, <2>5, Zenon
  <1>7. pdus = [i \in 1 .. n |-> pdus[i]] /\ Len(pdus) = n
    <2>. HIDE DEF Pdu
    <2>1. DOMAIN pdus = 1 .. n
      BY <1>5
    <2>2. Len([i \in 1 .. n |-> Pdu(pieces[i], HeaderOf(r, n, i))]) = n
      OBVIOUS
    <2>. QED
      BY <1>5, <2>1, <2>2, Zenon
  <1>. QED
    BY <1>1, <1>2, <1>4, <1>6, <1>7, Zenon DEF Conveyed

\* A number up to 127 is a septet.
LEMMA SeptetOf == \A n \in Nat : n <= 127 => n \in Septet
  BY DEF Septet

\* s is made of six elements.
IsSextuple(s, a, b, c, d, e, f) ==
  /\ s = <<a, b, c, d, e, f>> /\ Len(s) = 6
  /\ s[1] = a /\ s[2] = b /\ s[3] = c /\ s[4] = d /\ s[5] = e /\ s[6] = f

\* There is one.
LEMMA SextupleOf ==
  ASSUME NEW E, NEW a \in E, NEW b \in E, NEW c \in E, NEW d \in E, NEW e \in E, NEW f \in E
  PROVE  \E s \in Seq(E) : IsSextuple(s, a, b, c, d, e, f)
  <1>1. <<a, b, c, d, e, f>> \in Seq(E)
    OBVIOUS
  <1>2. IsSextuple(<<a, b, c, d, e, f>>, a, b, c, d, e, f)
    BY DEF IsSextuple
  <1>. QED
    BY <1>1, <1>2, Zenon

\* What is left of a reference fits a septet.
LEMMA SeptetRemainder == \A r \in Nat : r % 128 \in Septet
  BY DEF Septet

\* The segments of older builds, where their number is a septet.
LEMMA OldSegmentsSay ==
  ASSUME NEW number \in Number, NEW text \in Seq(GsmText), NEW r \in Nat, NEW pieces,
         pieces = SplitGsm7(text, GsmCap), Len(pieces) <= 127, NEW part,
         \A i \in 1 .. Len(pieces) : part[i] = <<r % 128, Len(pieces), i>>
  PROVE  Conveyed(OldSegments(number, text, r), number, text, pieces, part)
  <1>1. text \in Seq(GsmChars)
    <2>1. GsmText \subseteq GsmChars
      BY DEF GsmText
    <2>. QED
      BY <2>1, SeqMonotonic
  <1>2. /\ pieces \in Seq(Seq(GsmChars)) /\ pieces # <<>> /\ FlattenSeq(pieces) = text
        /\ \A k \in DOMAIN pieces : Len(Gsm7Septets(pieces[k])) <= GsmCap
    BY <1>1, SizesType, SplitGsm7Fits
  <1>3. pieces \in Seq(Seq(GsmText))
    BY SizesType, TextPieces, Zenon
  <1>4. PICK n \in Nat : n = Len(pieces) /\ n # 0 /\ DOMAIN pieces = 1 .. n /\ n <= 127
    BY <1>2
  <1>5. PICK x \in Septet : x = r % 128
    <2>1. r % 128 \in Septet
      BY SeptetRemainder, Zenon
    <2>. QED
      BY <2>1, Zenon
  <1>. DEFINE septets(i) == <<5, 0, 3, x, n, i>> \o Gsm7Septets(pieces[i])
              f(i) == [Submit(number, NoHeader, 0, Len(septets(i)), Pack(NoHeader, septets(i)))
                         EXCEPT ![1] = 81]
  <1>6. PICK pdus : pdus = OldSegments(number, text, r)
    OBVIOUS
  <1>7. pdus = [i \in 1 .. n |-> f(i)]
    BY <1>4, <1>5, <1>6, Zenon DEF OldSegments
  <1>8. ASSUME NEW i \in 1 .. n PROVE Says(f(i), number.digits, <<x, n, i>>, pieces[i])
    <2>1. PICK piece \in Seq(GsmText) : piece = pieces[i]
      BY <1>3, <1>4
    <2>2. PICK k \in Nat, t \in Seq(Septet) : t = Gsm7Septets(piece) /\ k = Len(t) /\ k <= GsmCap
      <3>1. piece \in Seq(GsmChars)
        BY <1>2, <1>4, <2>1, ElementOfSeq
      <3>2. Gsm7Septets(piece) \in Seq(Septet)
        BY <3>1, GsmType, Zenon
      <3>3. Len(Gsm7Septets(piece)) \in Nat
        BY <3>2, LenProperties
      <3>. QED
        BY <1>2, <1>4, <2>1, <3>2, <3>3, Zenon
    <2>3. 5 \in Septet /\ 0 \in Septet /\ 3 \in Septet /\ n \in Septet /\ i \in Septet
          /\ i \in Nat /\ x \in Nat
      <3>1. 5 \in Septet /\ 0 \in Septet /\ 3 \in Septet
        BY DEF Septet
      <3>2. i \in Nat /\ i <= 127
        BY <1>4
      <3>3. n \in Septet /\ i \in Septet /\ x \in Nat
        <4>1. n \in Septet /\ i \in Septet
          BY <1>4, <3>2, SeptetOf, Zenon
        <4>2. x \in Nat
          BY DEF Septet
        <4>. QED
          BY <4>1, <4>2, Zenon
      <3>. QED
        BY <3>1, <3>2, <3>3, Zenon
    <2>4. PICK h \in Seq(Septet) : IsSextuple(h, 5, 0, 3, x, n, i)
      BY <2>3, SextupleOf
    <2>5. h = <<5, 0, 3, x, n, i>> /\ IsHeader(h, x, n, i) /\ Len(h) = 6
      BY <2>4, Zenon DEF IsSextuple, IsHeader
    <2>6. PICK s \in Seq(Septet) : IsJoin(s, h, t)
      BY JoinOf
    <2>7. s = h \o Gsm7Septets(piece) /\ Len(s) = 6 + k
      BY <2>2, <2>5, <2>6, Zenon DEF IsJoin
    <2>8. Len(s) <= 255
      <3>1. 6 + k <= 255
        BY <2>2, SegmentLimit, Zenon
      <3>. QED
        BY <2>7, <3>1
    <2>9. Says([Submit(number, NoHeader, 0, Len(s), Pack(NoHeader, s)) EXCEPT ![1] = 81],
               number.digits, <<x, n, i>>, piece)
      BY <2>3, <2>5, <2>7, <2>8, OldSays
    <2>. QED
      BY <2>1, <2>5, <2>7, <2>9, Zenon
  <1>9. ASSUME NEW i \in 1 .. n PROVE Says(pdus[i], number.digits, part[i], pieces[i])
    <2>1. pdus[i] = f(i)
      BY <1>7, Zenon
    <2>2. part[i] = <<x, n, i>>
      BY <1>4, <1>5, Zenon
    <2>. QED
      BY <1>8, <2>1, <2>2, Zenon
  <1>10. pdus = [i \in 1 .. n |-> pdus[i]] /\ Len(pdus) = n
    <2>. HIDE DEF f
    <2>1. DOMAIN pdus = 1 .. n
      BY <1>7
    <2>2. Len([i \in 1 .. n |-> f(i)]) = n
      OBVIOUS
    <2>. QED
      BY <1>7, <2>1, <2>2, Zenon
  <1>11. pieces \in Seq(Seq(Characters))
    BY <1>2, PiecesOfText, Zenon
  <1>. QED
    BY <1>2, <1>4, <1>6, <1>9, <1>10, <1>11, Zenon DEF Conveyed

\* A text that is one piece.
LEMMA OnePiece ==
  ASSUME NEW E, NEW pieces \in Seq(Seq(E)), Len(pieces) = 1
  PROVE  FlattenSeq(pieces) = pieces[1] /\ pieces[1] \in Seq(E) /\ 1 \in DOMAIN pieces
  <1>1. IsSingle(pieces, Seq(E))
    BY SingleOf
  <1>2. PICK x \in Seq(E) : x = pieces[1] /\ pieces = <<x>> /\ 1 \in DOMAIN pieces
    BY <1>1, Zenon DEF IsSingle
  <1>3. FlattenSeq(<<x>>) = x
    BY FlattenShort, Zenon
  <1>. QED
    BY <1>2, <1>3, Zenon

\* A text given in TEXT mode.
LEMMA TextModeSays ==
  ASSUME NEW number \in Number, NEW text \in Seq(GsmText), Len(SplitGsm7(text, GsmSingle)) = 1,
         NEW part, part[1] = NoHeader
  PROVE  Conveyed(<<TextModePdu(number, text)>>, number, text, <<text>>, part)
  <1>1. text \in Seq(GsmChars)
    <2>1. GsmText \subseteq GsmChars
      BY DEF GsmText
    <2>. QED
      BY <2>1, SeqMonotonic
  <1>2. PICK k \in Nat : k = Len(Gsm7Septets(text)) /\ k <= GsmSingle
    <2>1. PICK pieces : pieces = SplitGsm7(text, GsmSingle)
      OBVIOUS
    <2>2. /\ pieces \in Seq(Seq(GsmChars)) /\ FlattenSeq(pieces) = text
          /\ \A i \in DOMAIN pieces : Len(Gsm7Septets(pieces[i])) <= GsmSingle
      BY <1>1, <2>1, SizesType, SplitGsm7Fits
    <2>3. pieces[1] = text /\ 1 \in DOMAIN pieces
      BY <2>1, <2>2, OnePiece, Zenon
    <2>4. Len(Gsm7Septets(text)) <= GsmSingle
      BY <2>2, <2>3, Zenon
    <2>5. Len(Gsm7Septets(text)) \in Nat
      BY <1>1, SeptetsOfText
    <2>. QED
      BY <2>4, <2>5, Zenon
  <1>3. PICK n \in Nat : n = HeaderSeptets(Len(NoHeader)) + Len(Gsm7Septets(text)) /\ n <= 255
    BY <1>2, SingleLimit, NoHeaderType, Zenon
  <1>4. Heads(NoHeader, part[1], Byte)
    BY NoHeaderType, Zenon DEF Heads
  <1>5. PICK pdu : pdu = TextModePdu(number, text) /\ Says(pdu, number.digits, part[1], text)
    <2>1. Says(Gsm7Pdu(number, text, NoHeader), number.digits, part[1], text)
      BY <1>3, <1>4, GsmSays, Zenon
    <2>. QED
      BY <2>1, Zenon DEF TextModePdu
  <1>6. FlattenSeq(<<text>>) = text
    BY FlattenShort, Zenon
  <1>7. /\ <<pdu>> = [i \in 1 .. 1 |-> <<pdu>>[i]] /\ Len(<<pdu>>) = 1 /\ <<pdu>>[1] = pdu
        /\ Len(<<text>>) = 1 /\ DOMAIN <<text>> = 1 .. 1 /\ <<text>>[1] = text
    OBVIOUS
  <1>8. \A i \in 1 .. 1 : Says(<<pdu>>[i], number.digits, part[i], <<text>>[i])
    <2>1. \A i \in 1 .. 1 : i = 1
      OBVIOUS
    <2>. QED
      BY <1>5, <1>7, <2>1, Zenon
  <1>9. 1 \in Nat /\ 1 # 0
    OBVIOUS
  <1>10. Conveyed(<<pdu>>, number, text, <<text>>, part)
    <2>1. text \in Seq(Characters)
      BY <1>1, GsmCharacters, SeqMonotonic
    <2>2. <<text>> \in Seq(Seq(Characters))
      BY <2>1
    <2>. QED
      BY <1>6, <1>7, <1>8, <1>9, <2>2, Zenon DEF Conveyed
  <1>. QED
    BY <1>5, <1>10, Zenon

(***************************************************************************)
(* A message as it was taken up: what was offered, and _ref_counter's      *)
(* value then.                                                             *)
(***************************************************************************)
InTextMode(offer) ==
  ~offer.old /\ AsciiTextEligible(offer.text) /\ Len(SplitGsm7(offer.text, GsmSingle)) = 1

PiecesOf(offer) ==
  IF InTextMode(offer) THEN <<offer.text>>
  ELSE IF AsciiTextEligible(offer.text) THEN SplitGsm7(offer.text, GsmCap)
  ELSE SplitUcs2(offer.text, Ucs2Cap)

PdusOf(offer, r) ==
  IF offer.old THEN OldSegments(offer.number, offer.text, r)
  ELSE IF InTextMode(offer) THEN <<TextModePdu(offer.number, offer.text)>>
  ELSE Segments(offer.number, offer.text, AsciiTextEligible(offer.text), r)

PartOf(offer, r, n, i) ==
  IF offer.old THEN <<r % 128, n, i>>
  ELSE IF n > 1 THEN <<r % 256, n, i>>
  ELSE NoHeader

\* What was not refused.
Accepted(offer) ==
  InTextMode(offer) \/ Len(PiecesOf(offer)) <= IF offer.old THEN 127 ELSE MaxSegments

\* Every segment of a message says its piece of the text.
THEOREM MessageConveyed ==
  ASSUME NEW m \in DOMAIN Offers, NEW offer \in Offers[m], Accepted(offer), NEW r \in Nat,
         NEW n, n = Len(PiecesOf(offer))
  PROVE  Conveyed(PdusOf(offer, r), offer.number, offer.text, PiecesOf(offer),
                  [i \in 1 .. n |-> PartOf(offer, r, n, i)])
  <1>1. PICK number \in Number, text \in Seq(Characters), use_gsm7 \in BOOLEAN :
          /\ number = offer.number /\ text = offer.text /\ use_gsm7 = AsciiTextEligible(offer.text)
          /\ offer.old => use_gsm7
          /\ use_gsm7 => text \in Seq(GsmText)
    BY OfferType, Eligible, EligibleText, Zenon
  <1>2. PICK part : part = [i \in 1 .. n |-> PartOf(offer, r, n, i)]
    OBVIOUS
  <1>3. PICK pieces : pieces = PiecesOf(offer) /\ Len(pieces) = n
    OBVIOUS
  <1>4. CASE offer.old
    <2>1. pieces = SplitGsm7(text, GsmCap) /\ Len(pieces) <= 127
      BY <1>1, <1>3, <1>4, Zenon DEF PiecesOf, InTextMode, Accepted
    <2>2. \A i \in 1 .. Len(pieces) : part[i] = <<r % 128, Len(pieces), i>>
      BY <1>2, <1>3, <1>4, Zenon DEF PartOf
    <2>3. Conveyed(OldSegments(number, text, r), number, text, pieces, part)
      BY <1>1, <1>4, <2>1, <2>2, OldSegmentsSay, Zenon
    <2>. QED
      BY <1>1, <1>2, <1>3, <1>4, <2>3, Zenon DEF PdusOf
  <1>5. CASE InTextMode(offer)
    <2>1. pieces = <<text>> /\ Len(SplitGsm7(text, GsmSingle)) = 1 /\ text \in Seq(GsmText) /\ ~offer.old
      BY <1>1, <1>3, <1>5, Zenon DEF PiecesOf, InTextMode
    <2>2. n = 1
      BY <1>3, <2>1
    <2>3. part[1] = NoHeader
      <3>1. ~(1 > 1) /\ 1 \in 1 .. 1
        OBVIOUS
      <3>. QED
        BY <1>2, <2>1, <2>2, <3>1, Zenon DEF PartOf
    <2>4. Conveyed(<<TextModePdu(number, text)>>, number, text, <<text>>, part)
      BY <2>1, <2>3, TextModeSays
    <2>. QED
      BY <1>1, <1>2, <1>3, <1>5, <2>1, <2>4, Zenon DEF PdusOf
  <1>6. CASE ~offer.old /\ ~InTextMode(offer)
    <2>1. pieces = (IF use_gsm7 THEN SplitGsm7(text, GsmCap) ELSE SplitUcs2(text, Ucs2Cap))
          /\ Len(pieces) <= MaxSegments
      BY <1>1, <1>3, <1>6, Zenon DEF PiecesOf, Accepted
    <2>2. \A i \in 1 .. Len(pieces) :
            part[i] = IF Len(pieces) > 1 THEN <<r % 256, Len(pieces), i>> ELSE NoHeader
      BY <1>2, <1>3, <1>6, Zenon DEF PartOf
    <2>3. use_gsm7 => AsciiTextEligible(text)
      BY <1>1, Zenon
    <2>4. Conveyed(Segments(number, text, use_gsm7, r), number, text, pieces, part)
      BY <2>1, <2>2, <2>3, SegmentsSay
    <2>. QED
      BY <1>1, <1>2, <1>3, <1>6, <2>4, Zenon DEF PdusOf
  <1>. QED
    BY <1>4, <1>5, <1>6, Zenon

\* As many values as a reference has.
References == 256

\* What the messages offered must be for the recipient to read their segments.  An older
\* build's are no more than a septet counts, and a message without a header must not have a
\* second reading.
Readable ==
  \A m \in DOMAIN Offers : \A offer \in Offers[m] :
    /\ offer.old => Len(PiecesOf(offer)) <= 127
    /\ ~offer.old /\ Len(PiecesOf(offer)) = 1 => Unmistakable(ToDeliver(PdusOf(offer, 0)[1]))

\* What they must be for one counter to tell them apart.  A reference is an octet, so that more
\* than 256 messages would share one.  An older build counts its references by itself, up to
\* 128, and so its number must be another one.
Separated ==
  /\ Len(Offers) <= References
  /\ \A m \in DOMAIN Offers : \A offer \in Offers[m] : offer.old =>
       \A k \in DOMAIN Offers \ {m} : \A other \in Offers[k] :
         other.number.digits # offer.number.digits

\* A message taken up, and not refused: an offer, and the reference.
IsPlan(p, m) ==
  m \in DOMAIN Offers /\ p.offer \in Offers[m] /\ p.ref \in Nat /\ Accepted(p.offer)

\* Its segments: how many, their PDUs, and what they are parsed to.
Count(p) == Len(PiecesOf(p.offer))
Pdus(p) == PdusOf(p.offer, p.ref)
Rec(p, i) == RecordOf(p.offer.number.digits, PartOf(p.offer, p.ref, Count(p), i), PiecesOf(p.offer)[i])

\* They are, in order, as many as the pieces of the text, and each is read as its piece.
IsSent(p) ==
  /\ Count(p) \in Nat /\ Count(p) # 0
  /\ Pdus(p) \in Seq({Pdus(p)[i] : i \in 1 .. Count(p)}) /\ Len(Pdus(p)) = Count(p)
  /\ PiecesOf(p.offer) \in Seq(Seq(Characters)) /\ FlattenSeq(PiecesOf(p.offer)) = p.offer.text
  /\ \A i \in 1 .. Count(p) : \A front \in {<<>>, MessageCentre} :
       Listed(front, Pdus(p)[i]) = Rec(p, i)

\* The PDU of a message without a header does not depend on the reference.
LEMMA SinglePdu ==
  ASSUME NEW offer, ~offer.old, Len(PiecesOf(offer)) = 1, NEW r \in Nat
  PROVE  PdusOf(offer, r)[1] = PdusOf(offer, 0)[1]
  <1>1. CASE InTextMode(offer)
    BY <1>1, Zenon DEF PdusOf
  <1>2. CASE ~InTextMode(offer)
    <2>1. PICK use_gsm7 : use_gsm7 = AsciiTextEligible(offer.text)
      OBVIOUS
    <2>2. PICK pieces : pieces = IF use_gsm7 THEN SplitGsm7(offer.text, GsmCap) ELSE SplitUcs2(offer.text, Ucs2Cap)
      OBVIOUS
    <2>3. ~(Len(pieces) > 1)
      <3>1. Len(pieces) = 1
        BY <1>2, <2>1, <2>2, Zenon DEF PiecesOf
      <3>. QED
        BY <3>1
    <2>4. ASSUME NEW s \in Nat
          PROVE  Segments(offer.number, offer.text, use_gsm7, s)
                   = [i \in DOMAIN pieces |->
                       IF use_gsm7 THEN Gsm7Pdu(offer.number, pieces[i], NoHeader)
                       ELSE Ucs2Pdu(offer.number, pieces[i], NoHeader)]
      BY <2>2, <2>3, Zenon DEF Segments
    <2>5. 0 \in Nat
      OBVIOUS
    <2>6. Segments(offer.number, offer.text, use_gsm7, r) = Segments(offer.number, offer.text, use_gsm7, 0)
      BY <2>4, <2>5, Zenon
    <2>. QED
      BY <1>2, <2>1, <2>6, Zenon DEF PdusOf
  <1>. QED
    BY <1>1, <1>2

\* The PDUs of a message, in order, are read as its segments.
LEMMA SentOf ==
  ASSUME Readable, NEW m, NEW p, IsPlan(p, m)
  PROVE  IsSent(p)
  <1>1. PICK offer \in Offers[m], r \in Nat :
          m \in DOMAIN Offers /\ offer = p.offer /\ r = p.ref /\ Accepted(offer)
    BY Zenon DEF IsPlan
  <1>2. PICK n : n = Len(PiecesOf(offer))
    OBVIOUS
  <1>3. PICK part : part = [i \in 1 .. n |-> PartOf(offer, r, n, i)]
    OBVIOUS
  <1>4. PICK pdus, pieces : pdus = PdusOf(offer, r) /\ pieces = PiecesOf(offer)
    OBVIOUS
  <1>5. Conveyed(pdus, offer.number, offer.text, pieces, part)
    BY <1>1, <1>2, <1>3, <1>4, MessageConveyed, Zenon
  <1>6. /\ n \in Nat /\ n # 0 /\ pieces \in Seq(Seq(Characters)) /\ FlattenSeq(pieces) = offer.text
        /\ pdus = [i \in 1 .. n |-> pdus[i]] /\ Len(pdus) = n
        /\ \A i \in 1 .. n : Says(pdus[i], offer.number.digits, part[i], pieces[i])
    BY <1>2, <1>4, <1>5, Zenon DEF Conveyed
  <1>7. pdus \in Seq({pdus[i] : i \in 1 .. n})
    <2>. DEFINE f(i) == pdus[i]
    <2>1. [i \in 1 .. n |-> f(i)] \in Seq({f(i) : i \in 1 .. n})
      <3>. HIDE DEF f
      <3>. QED
        BY <1>6
    <2>. QED
      BY <1>6, <2>1, Zenon
  <1>8. ASSUME NEW i \in 1 .. n, NEW front \in {<<>>, MessageCentre}
        PROVE  ParseSmsPdu(front \o ToDeliver(pdus[i])) = Rec(p, i)
    <2>1. ASSUME part[i] = NoHeader PROVE Unmistakable(ToDeliver(pdus[i]))
      <3>1. ~offer.old /\ ~(n > 1)
        <4>1. part[i] = PartOf(offer, r, n, i)
          BY <1>3, Zenon
        <4>2. ASSUME NEW x PROVE <<x, n, i>> # NoHeader
          BY DEF NoHeader
        <4>. QED
          BY <2>1, <4>1, <4>2, Zenon DEF PartOf
      <3>2. n = 1 /\ i = 1
        BY <1>6, <3>1
      <3>3. Unmistakable(ToDeliver(PdusOf(offer, 0)[1]))
        BY <1>1, <1>2, <3>1, <3>2, Zenon DEF Readable
      <3>4. PdusOf(offer, r)[1] = PdusOf(offer, 0)[1]
        BY <1>2, <3>1, <3>2, SinglePdu, Zenon
      <3>. QED
        BY <1>4, <3>2, <3>3, <3>4, Zenon
    <2>2. Says(pdus[i], offer.number.digits, part[i], pieces[i])
      BY <1>6, Zenon
    <2>3. ParseSmsPdu(front \o ToDeliver(pdus[i])) = RecordOf(offer.number.digits, part[i], pieces[i])
      <3>1. PICK pdu, digits, t, text :
              pdu = pdus[i] /\ digits = offer.number.digits /\ t = part[i] /\ text = pieces[i]
        OBVIOUS
      <3>2. Says(pdu, digits, t, text) /\ (t = NoHeader => Unmistakable(ToDeliver(pdu)))
        BY <2>1, <2>2, <3>1, Zenon
      <3>3. ParseSmsPdu(front \o ToDeliver(pdu)) = RecordOf(digits, t, text)
        BY <3>2, ReadAsSent, Zenon
      <3>. QED
        BY <3>1, <3>3, Zenon
    <2>4. part[i] = PartOf(offer, r, n, i)
      BY <1>3, Zenon
    <2>. QED
      BY <1>1, <1>2, <1>4, <2>3, <2>4, Zenon DEF Rec, Count
  <1>9. Count(p) = n /\ Pdus(p) = pdus
    BY <1>1, <1>2, <1>4, Zenon DEF Count, Pdus
  <1>. QED
    BY <1>1, <1>4, <1>6, <1>7, <1>8, <1>9, Zenon DEF IsSent, Listed

\* A message that comes with headers, and the reference in them.
Headed(p) == p.offer.old \/ Count(p) > 1
Reference(p) == IF p.offer.old THEN p.ref % 128 ELSE p.ref % References

\* rec is what its i-th segment is parsed to.
IsRecord(rec, p, i) ==
  /\ rec # Malformed
  /\ rec.sender = p.offer.number.digits /\ rec.text = PiecesOf(p.offer)[i]
  /\ ~Headed(p) => rec.part = NoHeader
  /\ Headed(p) => rec.part = <<Reference(p), Count(p), i>> /\ rec.part # NoHeader

\* Its fields.
LEMMA RecordFields ==
  ASSUME NEW p, NEW i
  PROVE  IsRecord(Rec(p, i), p, i)
  <1>1. Rec(p, i) # Malformed
    BY ReadingIsNoError, Zenon DEF Rec, RecordOf
  <1>2. /\ Rec(p, i).sender = p.offer.number.digits /\ Rec(p, i).text = PiecesOf(p.offer)[i]
        /\ Rec(p, i).part = PartOf(p.offer, p.ref, Count(p), i)
    BY DEF Rec, RecordOf, Reading, Read
  <1>3. ASSUME NEW x, NEW y PROVE <<x, y, i>> # NoHeader
    BY DEF NoHeader
  <1>4. References = 256
    BY Zenon DEF References
  <1>. QED
    BY <1>1, <1>2, <1>3, <1>4, Zenon DEF PartOf, Headed, Reference, IsRecord

(***************************************************************************)
(* The messages taken up.                                                  *)
(***************************************************************************)
\* A message that _ref_counter tells from the others.
Numbered(p) == ~p.offer.old /\ Count(p) > 1

\* plan has the messages that were not refused.
Taken(plan, d, r) ==
  /\ d \in 0 .. Len(Offers) /\ r \in Nat
  /\ DOMAIN plan \subseteq 1 .. d
  /\ \A m \in DOMAIN plan : IsPlan(plan[m], m)

\* The numbered ones have different references, as each was followed by at most as many as
\* came after it.
Counted(plan, d, r) ==
  /\ \A m, k \in DOMAIN plan :
       m # k /\ Numbered(plan[m]) /\ Numbered(plan[k]) => Reference(plan[m]) # Reference(plan[k])
  /\ \A m \in DOMAIN plan :
       Numbered(plan[m]) => \E e \in 0 .. d - m : r % References = (Reference(plan[m]) + e) % References

\* Messages whose segments have one key.
Alike(p, q) ==
  /\ Headed(p) /\ Headed(q)
  /\ p.offer.number.digits = q.offer.number.digits
  /\ Reference(p) = Reference(q) /\ Count(p) = Count(q)

\* f, and y at x.
Extended(f, x, y) == [k \in DOMAIN f \cup {x} |-> IF k = x THEN y ELSE f[k]]

\* Two references that are less than 256 steps apart.
LEMMA StepsApart ==
  ASSUME NEW a \in Nat, NEW r \in Nat, NEW e \in 0 .. 254, r % References = (a + e) % References
  PROVE  (r + 1) % References = (a + (e + 1)) % References /\ (r + 1) % References # a % References
  BY DEF References

\* Messages that were counted are not alike.
LEMMA Apart ==
  ASSUME Separated, NEW plan, NEW d, NEW r, Taken(plan, d, r), Counted(plan, d, r),
         NEW m \in DOMAIN plan, NEW k \in DOMAIN plan, Alike(plan[m], plan[k])
  PROVE  m = k
  <1>1. /\ m \in DOMAIN Offers /\ plan[m].offer \in Offers[m]
        /\ k \in DOMAIN Offers /\ plan[k].offer \in Offers[k]
    BY Zenon DEF Taken, IsPlan
  <1>2. CASE plan[m].offer.old \/ plan[k].offer.old
    BY <1>1, <1>2, Zenon DEF Separated, Alike
  <1>3. CASE ~plan[m].offer.old /\ ~plan[k].offer.old
    <2>1. Numbered(plan[m]) /\ Numbered(plan[k])
      BY <1>3, Zenon DEF Alike, Headed, Numbered
    <2>. QED
      BY <2>1, Zenon DEF Counted, Alike
  <1>. QED
    BY <1>2, <1>3, Zenon

\* The first two of three.
LEMMA FirstTwo ==
  ASSUME NEW a, NEW b, NEW i
  PROVE  SubSeq(<<a, b, i>>, 1, 2) = <<a, b>> /\ <<a, b, i>>[2] = b /\ <<a, b, i>>[3] = i
  <1>1. <<a, b, i>>[2] = b /\ <<a, b, i>>[3] = i
    OBVIOUS
  <1>2. <<a, b, i>> \in Seq({a, b, i}) /\ <<a, b>> \in Seq({a, b, i})
    OBVIOUS
  <1>3. PICK t \in Seq({a, b, i}) : t = <<a, b, i>> /\ Len(t) = 3 /\ t[1] = a /\ t[2] = b
    BY <1>2
  <1>4. PICK u \in Seq({a, b, i}) : u = <<a, b>> /\ Len(u) = 2 /\ u[1] = a /\ u[2] = b
    BY <1>2
  <1>5. /\ SubSeq(t, 1, 2) \in Seq({a, b, i}) /\ Len(SubSeq(t, 1, 2)) = 2
        /\ \A k \in 1 .. 2 : SubSeq(t, 1, 2)[k] = t[k]
    BY <1>3, SubSeqProperties
  <1>6. SubSeq(t, 1, 2) = u
    <2>1. \A k \in 1 .. 2 : t[k] = u[k]
      BY <1>3, <1>4
    <2>2. PICK v \in Seq({a, b, i}) : v = SubSeq(t, 1, 2)
      BY <1>5, Zenon
    <2>3. Len(v) = Len(u) /\ \A k \in 1 .. Len(v) : v[k] = u[k]
      BY <1>4, <1>5, <2>1, <2>2, Zenon
    <2>. QED
      BY <2>2, <2>3, SeqEqual, Zenon
  <1>. QED
    BY <1>1, <1>3, <1>4, <1>6, Zenon

\* group_pdu_parts puts segments together when their messages are alike.
LEMMA KeysOfRecords ==
  ASSUME NEW p, NEW q, NEW i, NEW j, NEW x, x = Rec(p, i), NEW y, y = Rec(q, j)
  PROVE  x # Malformed /\ (x.part # NoHeader /\ y.part # NoHeader /\ SameKey(x, y) <=> Alike(p, q))
  <1>1. IsRecord(x, p, i) /\ IsRecord(y, q, j)
    BY RecordFields, Zenon
  <1>2. /\ x # Malformed /\ x.sender = p.offer.number.digits /\ y.sender = q.offer.number.digits
        /\ x.part # NoHeader <=> Headed(p)
        /\ y.part # NoHeader <=> Headed(q)
        /\ Headed(p) => x.part = <<Reference(p), Count(p), i>>
        /\ Headed(q) => y.part = <<Reference(q), Count(q), j>>
    BY <1>1, Zenon DEF IsRecord
  <1>3. PICK a, b, c, e : a = Reference(p) /\ b = Count(p) /\ c = Reference(q) /\ e = Count(q)
    OBVIOUS
  <1>4. <<a, b>> = <<c, e>> <=> a = c /\ b = e
    OBVIOUS
  <1>5. SubSeq(<<a, b, i>>, 1, 2) = <<a, b>> /\ SubSeq(<<c, e, j>>, 1, 2) = <<c, e>>
    BY FirstTwo, Zenon
  <1>6. ASSUME Headed(p), Headed(q)
        PROVE  SubSeq(x.part, 1, 2) = SubSeq(y.part, 1, 2) <=> a = c /\ b = e
    BY <1>2, <1>3, <1>4, <1>5, <1>6, Zenon
  <1>. QED
    BY <1>2, <1>3, <1>6, Zenon DEF SameKey, Alike

\* The offers are a sequence.
LEMMA OffersLength == Len(Offers) \in Nat /\ DOMAIN Offers = 1 .. Len(Offers)
  BY OffersAssumption

\* send_sms takes one more up.
LEMMA TakenOne ==
  ASSUME NEW plan, NEW d, NEW r, Taken(plan, d, r), d < Len(Offers),
         NEW p, IsPlan(p, d + 1), NEW s \in Nat
  PROVE  Taken(Extended(plan, d + 1, p), d + 1, s)
  <1>1. PICK q : q = Extended(plan, d + 1, p)
    OBVIOUS
  <1>2. d \in Nat /\ d + 1 \in 0 .. Len(Offers) /\ DOMAIN plan \subseteq 1 .. d
    BY OffersLength DEF Taken
  <1>3. /\ DOMAIN q = DOMAIN plan \cup {d + 1} /\ q[d + 1] = p
        /\ \A m \in DOMAIN plan : m # d + 1 /\ q[m] = plan[m]
    <2>1. \A m \in DOMAIN plan : m # d + 1
      BY <1>2
    <2>. QED
      BY <1>1, <2>1, Zenon DEF Extended
  <1>4. DOMAIN q \subseteq 1 .. d + 1
    BY <1>2, <1>3
  <1>5. \A m \in DOMAIN q : IsPlan(q[m], m)
    BY <1>3, Zenon DEF Taken
  <1>. QED
    BY <1>1, <1>2, <1>4, <1>5, Zenon DEF Taken

\* _ref_counter stands, or it goes one further and the message has what it comes to.
LEMMA CountedOne ==
  ASSUME Separated, NEW plan, NEW d, NEW r, Taken(plan, d, r), Counted(plan, d, r), d < Len(Offers),
         NEW p, NEW s \in Nat,
         (s = r /\ ~Numbered(p)) \/ (s = (r + 1) % References /\ p.ref = s)
  PROVE  Counted(Extended(plan, d + 1, p), d + 1, s)
  <1>1. PICK n \in Nat : n = Len(Offers) /\ n <= References
    BY OffersLength, Zenon DEF Separated
  <1>2. d \in Nat /\ d + 1 \in 0 .. n /\ d < n
    BY <1>1 DEF Taken
  <1>3. /\ r \in Nat /\ DOMAIN plan \subseteq 1 .. d /\ \A m \in DOMAIN plan : IsPlan(plan[m], m)
        /\ \A m, k \in DOMAIN plan :
             m # k /\ Numbered(plan[m]) /\ Numbered(plan[k]) => Reference(plan[m]) # Reference(plan[k])
        /\ \A m \in DOMAIN plan :
             Numbered(plan[m]) => \E e \in 0 .. d - m : r % References = (Reference(plan[m]) + e) % References
    BY Zenon DEF Taken, Counted
  <1>4. PICK q : q = Extended(plan, d + 1, p)
    OBVIOUS
  <1>5. /\ DOMAIN q = DOMAIN plan \cup {d + 1} /\ q[d + 1] = p
        /\ \A m \in DOMAIN plan : m # d + 1 /\ q[m] = plan[m]
    <2>1. \A m \in DOMAIN plan : m # d + 1
      BY <1>2, <1>3
    <2>. QED
      BY <1>4, <2>1, Zenon DEF Extended
  <1>6. Numbered(p) => s = (r + 1) % References /\ Reference(p) = s % References /\ s % References = s
    <2>1. Numbered(p) => s = (r + 1) % References /\ Reference(p) = s % References
      BY Zenon DEF Numbered, Reference
    <2>2. ((r + 1) % References) % References = (r + 1) % References
      BY <1>3 DEF References
    <2>. QED
      BY <2>1, <2>2, Zenon
  <1>7. ASSUME NEW m \in DOMAIN plan, Numbered(plan[m])
        PROVE  /\ \E e \in 0 .. (d + 1) - m : s % References = (Reference(plan[m]) + e) % References
               /\ Numbered(p) => Reference(plan[m]) # Reference(p)
    <2>1. PICK a \in Nat : a = Reference(plan[m]) /\ a % References = a
      <3>1. plan[m].ref \in Nat /\ ~plan[m].offer.old
        BY <1>3, <1>7, Zenon DEF IsPlan, Numbered
      <3>2. plan[m].ref % References \in Nat /\ (plan[m].ref % References) % References = plan[m].ref % References
        BY <3>1 DEF References
      <3>. QED
        BY <3>1, <3>2, Zenon DEF Reference
    <2>2. PICK e \in 0 .. d - m : r % References = (a + e) % References
      BY <1>3, <1>7, <2>1, Zenon
    <2>3. m \in 1 .. d
      BY <1>3
    <2>4. e \in 0 .. 254 /\ e \in 0 .. (d + 1) - m /\ e + 1 \in 0 .. (d + 1) - m
      BY <1>1, <1>2, <2>3 DEF References
    <2>5. (r + 1) % References = (a + (e + 1)) % References /\ (r + 1) % References # a % References
      <3>1. r \in Nat
        BY <1>3, Zenon
      <3>. QED
        BY <2>2, <2>4, <3>1, StepsApart, Zenon
    <2>6. CASE s = r /\ ~Numbered(p)
      BY <2>1, <2>2, <2>4, <2>6, Zenon
    <2>7. CASE s = (r + 1) % References /\ p.ref = s
      <3>1. s % References = s
        BY <1>3, <2>7 DEF References
      <3>2. s % References = (a + (e + 1)) % References /\ s # a
        BY <2>1, <2>5, <2>7, <3>1, Zenon
      <3>. QED
        BY <1>6, <2>1, <2>4, <3>2, Zenon
    <2>. QED
      BY <2>6, <2>7, Zenon
  <1>8. ASSUME NEW m \in DOMAIN q, NEW k \in DOMAIN q, m # k, Numbered(q[m]), Numbered(q[k])
        PROVE  Reference(q[m]) # Reference(q[k])
    BY <1>3, <1>5, <1>7, <1>8, Zenon
  <1>9. ASSUME NEW m \in DOMAIN q, Numbered(q[m])
        PROVE  \E e \in 0 .. (d + 1) - m : s % References = (Reference(q[m]) + e) % References
    <2>1. CASE m = d + 1
      <3>1. 0 \in 0 .. (d + 1) - m
        BY <1>2, <2>1
      <3>2. Reference(q[m]) = s % References /\ s % References = s
        BY <1>5, <1>6, <1>9, <2>1, Zenon
      <3>3. (s + 0) % References = s % References
        OBVIOUS
      <3>. QED
        BY <3>1, <3>2, <3>3, Zenon
    <2>2. CASE m # d + 1
      BY <1>5, <1>7, <1>9, <2>2, Zenon
    <2>. QED
      BY <2>1, <2>2
  <1>. QED
    BY <1>4, <1>8, <1>9, Zenon DEF Counted

\* A message refused leaves the others.
LEMMA TakenNone ==
  ASSUME NEW plan, NEW d, NEW r, Taken(plan, d, r), d < Len(Offers)
  PROVE  Taken(plan, d + 1, r) /\ (Counted(plan, d, r) => Counted(plan, d + 1, r))
  <1>1. d \in Nat /\ d + 1 \in 0 .. Len(Offers) /\ DOMAIN plan \subseteq 1 .. d + 1
    BY OffersLength DEF Taken
  <1>2. Taken(plan, d + 1, r)
    BY <1>1, Zenon DEF Taken
  <1>3. ASSUME Counted(plan, d, r), NEW m \in DOMAIN plan, Numbered(plan[m])
        PROVE  \E e \in 0 .. (d + 1) - m : r % References = (Reference(plan[m]) + e) % References
    <2>1. PICK e \in 0 .. d - m : r % References = (Reference(plan[m]) + e) % References
      BY <1>3, Zenon DEF Counted
    <2>2. m \in 1 .. d
      BY DEF Taken
    <2>3. e \in 0 .. (d + 1) - m
      BY <1>1, <2>2
    <2>. QED
      BY <2>1, <2>3, Zenon
  <1>. QED
    BY <1>2, <1>3, Zenon DEF Counted

(***************************************************************************)
(* Where their segments are.                                               *)
(***************************************************************************)
\* Those that are on the air as a whole.
Finished(plan, aired) == {m \in DOMAIN plan : aired[m] = Count(plan[m])}

\* The message being submitted is the last taken up, and goes on behind what went out.
Progress(plan, aired, d, going) ==
  going # Idle =>
    /\ d \in DOMAIN plan /\ aired[d] < Count(plan[d])
    /\ going = [message |-> Message(plan[d].offer), rest |-> Drop(Pdus(plan[d]), aired[d])]

\* Slot s holds segment seg[s] of message msg[s], no two the same, and none of a message in
\* whole.
Stored(slots, plan, aired, msg, seg, whole) ==
  /\ IsFiniteSet(DOMAIN slots)
  /\ \A s \in DOMAIN slots :
       /\ msg[s] \in DOMAIN plan \ whole /\ seg[s] \in 1 .. aired[msg[s]]
       /\ slots[s] = Rec(plan[msg[s]], seg[s])
  /\ \A s, t \in DOMAIN slots : msg[s] = msg[t] /\ seg[s] = seg[t] => s = t

\* A slot holds segment i of message m.
Has(slots, msg, seg, m, i) == \E s \in DOMAIN slots : msg[s] = m /\ seg[s] = i

\* Segment i of message m on the air.
AirOf(p, m, i) == [of |-> m, pdu |-> Pdus(p)[i], left |-> Count(p) - i + 1]

\* What is on the air is what went out and did not arrive.
Airborne(there, slots, plan, aired, msg, seg, whole) ==
  /\ \A p \in there : \E m \in DOMAIN plan \ whole : \E i \in 1 .. aired[m] :
       p = AirOf(plan[m], m, i) /\ ~Has(slots, msg, seg, m, i)
  /\ \A m \in DOMAIN plan \ whole : \A i \in 1 .. aired[m] :
       Has(slots, msg, seg, m, i) \/ AirOf(plan[m], m, i) \in there

\* The messages in whole were assembled, and these only.
Assembled(got, plan, aired, whole) ==
  whole \subseteq Finished(plan, aired) /\ got = {Message(plan[m].offer) : m \in whole}

\* Of every other message a segment is missing.
Lacking(slots, plan, msg, seg, whole) ==
  \A m \in DOMAIN plan \ whole : \E i \in 1 .. Count(plan[m]) : ~Has(slots, msg, seg, m, i)

\* Of message m, aired[m] segments went out, in order, and each is somewhere.  Once the SIM
\* was listed (all), a message that is not assembled lacks one.
Kept(slots, there, got, out, all, plan, aired, msg, seg, whole) ==
  /\ Stored(slots, plan, aired, msg, seg, whole)
  /\ Airborne(there, slots, plan, aired, msg, seg, whole)
  /\ Assembled(got, plan, aired, whole)
  /\ \A m \in DOMAIN plan : aired[m] \in 0 .. Count(plan[m])
  /\ out = {Message(plan[m].offer) : m \in Finished(plan, aired)}
  /\ all => Lacking(slots, plan, msg, seg, whole)

\* No message taken up later is like one that is still under way.
Unmixed(plan, aired, whole) ==
  \A m \in DOMAIN plan \ whole : \A k \in DOMAIN plan : m < k /\ aired[m] # 0 => ~Alike(plan[m], plan[k])

Delivery(plan, aired, msg, seg, whole) ==
  /\ Taken(plan, done, ref)
  /\ Separated /\ ~redrawn => Counted(plan, done, ref)
  /\ Unmixed(plan, aired, whole)
  /\ Progress(plan, aired, done, sending)
  /\ Kept(sim, air, received, sent, listed, plan, aired, msg, seg, whole)

\* The inductive invariant: every segment that went out is on the air, in one slot of the SIM,
\* or part of a message that was assembled.
DeliveryInv == ~reused => \E plan, aired, msg, seg, whole : Delivery(plan, aired, msg, seg, whole)

\* At the start there is nothing.
LEMMA DeliveryInit == Init => DeliveryInv
  <1>. SUFFICES ASSUME Init PROVE DeliveryInv
    OBVIOUS
  <1>1. PICK none : none = [m \in {} |-> 0]
    OBVIOUS
  <1>2. DOMAIN none = {}
    BY <1>1
  <1>3. Taken(none, done, ref)
    <2>1. done \in 0 .. Len(Offers) /\ ref \in Nat
      BY OffersLength, SizesAssumption DEF Init
    <2>. QED
      BY <1>2, <2>1, Zenon DEF Taken
  <1>4. Finished(none, none) = {}
    BY <1>2, Zenon DEF Finished
  <1>5. Progress(none, none, done, sending)
    BY Zenon DEF Init, Progress
  <1>6. DOMAIN sim = {}
    BY DEF Init
  <1>7. Stored(sim, none, none, none, none, {})
    BY <1>6, FS_EmptySet, Zenon DEF Stored
  <1>8. Airborne(air, sim, none, none, none, none, {})
    BY <1>2, Zenon DEF Init, Airborne
  <1>9. Assembled(received, none, none, {})
    BY Zenon DEF Init, Assembled
  <1>10. Lacking(sim, none, none, none, {})
    BY <1>2, Zenon DEF Lacking
  <1>11. Kept(sim, air, received, sent, listed, none, none, none, none, {})
    BY <1>2, <1>4, <1>7, <1>8, <1>9, <1>10, Zenon DEF Init, Kept
  <1>12. Counted(none, done, ref) /\ Unmixed(none, none, {})
    BY <1>2, Zenon DEF Counted, Unmixed
  <1>13. Delivery(none, none, none, none, {})
    BY <1>3, <1>5, <1>11, <1>12, Zenon DEF Delivery
  <1>. QED
    BY <1>13, Zenon DEF DeliveryInv

\* plan2 and aired2 have message m too, of which nothing went out.
Begun(plan2, aired2, plan, aired, m, p) ==
  /\ plan2 = Extended(plan, m, p)
  /\ aired2 = [k \in DOMAIN plan2 |-> IF k = m THEN 0 ELSE aired[k]]

\* A message more, of which nothing went out yet, changes nothing else.
LEMMA OneMore ==
  ASSUME NEW plan, NEW aired, NEW msg, NEW seg, NEW whole, NEW m, m \notin DOMAIN plan,
         NEW p, Count(p) \in Nat, Count(p) # 0,
         NEW slots, NEW there, NEW got, NEW out, NEW all,
         Kept(slots, there, got, out, all, plan, aired, msg, seg, whole),
         NEW plan2, NEW aired2, Begun(plan2, aired2, plan, aired, m, p)
  PROVE  Kept(slots, there, got, out, all, plan2, aired2, msg, seg, whole)
  <1>1. /\ Stored(slots, plan, aired, msg, seg, whole)
        /\ Airborne(there, slots, plan, aired, msg, seg, whole)
        /\ Assembled(got, plan, aired, whole)
        /\ \A k \in DOMAIN plan : aired[k] \in 0 .. Count(plan[k])
        /\ out = {Message(plan[k].offer) : k \in Finished(plan, aired)}
        /\ all => Lacking(slots, plan, msg, seg, whole)
    BY Zenon DEF Kept
  <1>2. /\ DOMAIN plan2 = DOMAIN plan \cup {m} /\ plan2[m] = p /\ aired2[m] = 0
        /\ \A k \in DOMAIN plan : k # m /\ plan2[k] = plan[k] /\ aired2[k] = aired[k]
    BY Zenon DEF Begun, Extended
  <1>3. Stored(slots, plan2, aired2, msg, seg, whole)
    BY <1>2, <1>1, Zenon DEF Stored
  <1>4. \A i : i \notin 1 .. aired2[m]
    <2>1. \A i : i \notin 1 .. 0
      OBVIOUS
    <2>. QED
      BY <1>2, <2>1, Zenon
  <1>5. Airborne(there, slots, plan2, aired2, msg, seg, whole)
    <2>1. ASSUME NEW q \in there
          PROVE  \E k \in DOMAIN plan2 \ whole : \E i \in 1 .. aired2[k] :
                   q = AirOf(plan2[k], k, i) /\ ~Has(slots, msg, seg, k, i)
      <3>1. PICK k \in DOMAIN plan \ whole : \E i \in 1 .. aired[k] :
              q = AirOf(plan[k], k, i) /\ ~Has(slots, msg, seg, k, i)
        BY <1>1, Zenon DEF Airborne
      <3>. QED
        BY <1>2, <3>1, Zenon
    <2>2. ASSUME NEW k \in DOMAIN plan2 \ whole, NEW i \in 1 .. aired2[k]
          PROVE  Has(slots, msg, seg, k, i) \/ AirOf(plan2[k], k, i) \in there
      <3>1. k \in DOMAIN plan \ whole /\ i \in 1 .. aired[k] /\ plan2[k] = plan[k]
        BY <1>2, <1>4, <2>2, Zenon
      <3>. QED
        BY <1>1, <3>1, Zenon DEF Airborne
    <2>. QED
      BY <2>1, <2>2, Zenon DEF Airborne
  <1>6. Finished(plan2, aired2) = Finished(plan, aired)
    <2>1. m \notin Finished(plan2, aired2)
      BY <1>2, Zenon DEF Finished
    <2>2. ASSUME NEW k PROVE k \in Finished(plan2, aired2) <=> k \in Finished(plan, aired)
      BY <1>2, <2>1, Zenon DEF Finished
    <2>. QED
      BY <2>2, Zenon
  <1>7. \A k \in Finished(plan, aired) : plan2[k] = plan[k]
    BY <1>2, Zenon DEF Finished
  <1>8. Assembled(got, plan2, aired2, whole)
    <2>1. whole \subseteq Finished(plan, aired) /\ got = {Message(plan[k].offer) : k \in whole}
      BY <1>1, Zenon DEF Assembled
    <2>2. \A k \in whole : plan2[k] = plan[k]
      BY <1>7, <2>1, Zenon
    <2>3. got = {Message(plan2[k].offer) : k \in whole}
      BY <2>1, <2>2, Zenon
    <2>. QED
      BY <1>6, <2>1, <2>3, Zenon DEF Assembled
  <1>9. \A k \in DOMAIN plan2 : aired2[k] \in 0 .. Count(plan2[k])
    <2>1. aired2[m] \in 0 .. Count(plan2[m])
      <3>1. 0 \in 0 .. Count(p)
        OBVIOUS
      <3>. QED
        BY <1>2, <3>1, Zenon
    <2>. QED
      BY <1>2, <1>1, <2>1, Zenon
  <1>10. out = {Message(plan2[k].offer) : k \in Finished(plan2, aired2)}
    BY <1>6, <1>7, <1>1, Zenon
  <1>11. ASSUME Lacking(slots, plan, msg, seg, whole) PROVE Lacking(slots, plan2, msg, seg, whole)
    <2>1. ASSUME m \notin whole PROVE \E i \in 1 .. Count(plan2[m]) : ~Has(slots, msg, seg, m, i)
      <3>1. 1 \in 1 .. Count(plan2[m])
        BY <1>2
      <3>2. ~Has(slots, msg, seg, m, 1)
        BY <1>1, Zenon DEF Has, Stored
      <3>. QED
        BY <3>1, <3>2, Zenon
    <2>2. ASSUME NEW k \in DOMAIN plan \ whole PROVE \E i \in 1 .. Count(plan2[k]) : ~Has(slots, msg, seg, k, i)
      BY <1>2, <1>11, Zenon DEF Lacking
    <2>. QED
      BY <1>2, <2>1, <2>2, Zenon DEF Lacking
  <1>. QED
    BY <1>3, <1>5, <1>8, <1>9, <1>10, <1>11, <1>1, Zenon DEF Kept

\* send_sms: a message is refused, or one more is taken up and begun.
Begins(offer, r, s) ==
  \/ /\ offer.old \/ InTextMode(offer)
     /\ s = r
  \/ /\ ~offer.old /\ ~InTextMode(offer) /\ s = (r + 1) % References

\* What send_sms does, in these terms.
LEMMA SendSmsDoes ==
  ASSUME Readable, SendSms, NEW d \in Nat, d = done, ref \in Nat
  PROVE  /\ sending = Idle /\ d < Len(Offers) /\ done' = d + 1
         /\ air' = air /\ sim' = sim /\ listed' = listed /\ sent' = sent /\ received' = received
         /\ redrawn' = redrawn /\ reused' = (reused \/ Reuses(sending'.rest))
         /\ \/ ref' = ref /\ sending' = Idle
            \/ \E offer \in Offers[d + 1] :
                 LET p == [offer |-> offer, ref |-> ref'] IN
                 /\ Begins(offer, ref, ref') /\ IsPlan(p, d + 1)
                 /\ sending' = [message |-> Message(offer), rest |-> Pdus(p)]
  <1>1. /\ sending = Idle /\ done < Len(Offers) /\ done' = done + 1
        /\ air' = air /\ sim' = sim /\ listed' = listed /\ sent' = sent /\ received' = received
        /\ redrawn' = redrawn /\ reused' = (reused \/ Reuses(sending'.rest))
    BY DEF SendSms
  <1>2. d + 1 \in DOMAIN Offers
    BY <1>1, OffersLength
  <1>3. PICK offer \in Offers[d + 1] :
       LET use_gsm7 == AsciiTextEligible(offer.text)
           next == NextRef(ref)
           pdus == Segments(offer.number, offer.text, use_gsm7, next)
       IN  IF offer.old
           THEN /\ sending' = [message |-> Message(offer),
                               rest |-> OldSegments(offer.number, offer.text, ref)]
                /\ UNCHANGED ref
           ELSE IF use_gsm7 /\ Len(SplitGsm7(offer.text, GsmSingle)) = 1
           THEN /\ sending' = [message |-> Message(offer),
                               rest |-> <<TextModePdu(offer.number, offer.text)>>]
                /\ UNCHANGED ref
           ELSE IF Len(pdus) > MaxSegments
           THEN UNCHANGED <<ref, sending>>
           ELSE /\ sending' = [message |-> Message(offer), rest |-> pdus]
                /\ ref' = next
    BY Zenon DEF SendSms
  <1>4. PICK use_gsm7 : use_gsm7 = AsciiTextEligible(offer.text)
    OBVIOUS
  <1>5. PICK next \in Nat : next = (ref + 1) % References
    <2>1. (ref + 1) % References \in Nat
      BY DEF References
    <2>. QED
      BY <2>1, Zenon
  <1>6. PICK pdus : pdus = Segments(offer.number, offer.text, use_gsm7, next)
    OBVIOUS
  <1>7. /\ use_gsm7 = AsciiTextEligible(offer.text) /\ next = (ref + 1) % References
        /\ pdus = Segments(offer.number, offer.text, use_gsm7, next)
    BY <1>4, <1>5, <1>6, Zenon
  <1>8. next = NextRef(ref)
    BY <1>7 DEF References, NextRef
  <1>9. PICK p : p = [offer |-> offer, ref |-> ref']
    OBVIOUS
  <1>10. p.offer = offer /\ p.ref = ref'
    BY <1>9
  <1>11. CASE offer.old
    <2>1. sending' = [message |-> Message(offer), rest |-> OldSegments(offer.number, offer.text, ref)]
          /\ ref' = ref
      BY <1>3, <1>11, Zenon
    <2>2. Accepted(offer)
      BY <1>2, <1>11, Zenon DEF Readable, Accepted
    <2>3. Begins(offer, ref, ref')
      BY <1>11, <2>1, Zenon DEF Begins
    <2>4. Pdus(p) = OldSegments(offer.number, offer.text, ref)
      BY <1>10, <1>11, <2>1, Zenon DEF Pdus, PdusOf
    <2>5. IsPlan(p, d + 1)
      BY <1>2, <1>10, <2>1, <2>2, Zenon DEF IsPlan
    <2>. QED
      BY <1>1, <1>9, <2>1, <2>3, <2>4, <2>5, Zenon
  <1>12. CASE InTextMode(offer)
    <2>1. ~offer.old /\ use_gsm7 /\ Len(SplitGsm7(offer.text, GsmSingle)) = 1
      BY <1>7, <1>12, Zenon DEF InTextMode
    <2>2. sending' = [message |-> Message(offer), rest |-> <<TextModePdu(offer.number, offer.text)>>]
          /\ ref' = ref
      BY <1>3, <1>7, <2>1, Zenon
    <2>3. Accepted(offer)
      BY <1>12, Zenon DEF Accepted
    <2>4. Begins(offer, ref, ref')
      BY <1>12, <2>2, Zenon DEF Begins
    <2>5. Pdus(p) = <<TextModePdu(offer.number, offer.text)>>
      BY <1>10, <1>12, <2>1, Zenon DEF Pdus, PdusOf
    <2>6. IsPlan(p, d + 1)
      BY <1>2, <1>10, <2>2, <2>3, Zenon DEF IsPlan
    <2>. QED
      BY <1>1, <1>9, <2>2, <2>4, <2>5, <2>6, Zenon
  <1>13. CASE ~offer.old /\ ~InTextMode(offer) /\ Len(pdus) > MaxSegments
    BY <1>1, <1>3, <1>7, <1>8, <1>13, Zenon DEF InTextMode
  <1>14. CASE ~offer.old /\ ~InTextMode(offer) /\ ~(Len(pdus) > MaxSegments)
    <2>1. sending' = [message |-> Message(offer), rest |-> pdus] /\ ref' = next
      BY <1>3, <1>7, <1>8, <1>14, Zenon DEF InTextMode
    <2>2. Accepted(offer)
      <3>1. PICK pieces : pieces = IF use_gsm7 THEN SplitGsm7(offer.text, GsmCap) ELSE SplitUcs2(offer.text, Ucs2Cap)
        OBVIOUS
      <3>2. pieces = PiecesOf(offer)
        BY <1>7, <1>14, <3>1, Zenon DEF PiecesOf
      <3>3. Len(pdus) = Len(pieces) /\ Len(pdus) \in Nat
        <4>1. pdus = [i \in DOMAIN pieces |-> pdus[i]] /\ DOMAIN pdus = DOMAIN pieces
          BY <1>7, <3>1, Zenon DEF Segments
        <4>2. pieces \in Seq(Seq(Characters)) \/ pieces \in Seq(Seq(GsmChars))
          <5>1. offer.text \in Seq(Characters) /\ (use_gsm7 => offer.text \in Seq(GsmChars))
            BY <1>2, <1>7, OfferType, Eligible, Zenon
          <5>. QED
            BY <3>1, <5>1, SizesType, SplitGsm7Fits, SplitUcs2Fits
        <4>3. PICK n \in Nat : n = Len(pieces) /\ DOMAIN pieces = 1 .. n
          BY <4>2
        <4>4. pdus = [i \in 1 .. n |-> pdus[i]]
          BY <4>1, <4>3, Zenon
        <4>5. Len([i \in 1 .. n |-> pdus[i]]) = n
          OBVIOUS
        <4>. QED
          BY <4>3, <4>4, <4>5, Zenon
      <3>4. Len(pieces) <= MaxSegments
        BY <1>14, <3>3, SizesAssumption
      <3>. QED
        BY <1>14, <3>2, <3>4, Zenon DEF Accepted
    <2>3. Begins(offer, ref, ref')
      BY <1>7, <1>14, <2>1, Zenon DEF Begins
    <2>4. Pdus(p) = pdus
      BY <1>7, <1>10, <1>14, <2>1, Zenon DEF Pdus, PdusOf
    <2>5. IsPlan(p, d + 1)
      BY <1>2, <1>10, <2>1, <2>2, Zenon DEF IsPlan
    <2>. QED
      BY <1>1, <1>9, <2>1, <2>3, <2>4, <2>5, Zenon
  <1>. QED
    BY <1>11, <1>12, <1>13, <1>14, Zenon

\* Nothing was submitted of a message just begun.
LEMMA BegunNow ==
  ASSUME NEW p, IsSent(p)
  PROVE  Drop(Pdus(p), 0) = Pdus(p)
  BY DropNone, Zenon DEF IsSent

\* What is under way are the segments that went out of messages not assembled yet.
LEMMA UnderWayOf ==
  ASSUME Readable, NEW plan, NEW aired, NEW msg, NEW seg, NEW whole,
         Delivery(plan, aired, msg, seg, whole)
  PROVE  /\ \A x \in UnderWay : \E k \in DOMAIN plan \ whole : \E i \in 1 .. aired[k] :
              x = Rec(plan[k], i)
         /\ \A k \in DOMAIN plan \ whole : aired[k] # 0 => Rec(plan[k], 1) \in UnderWay
         /\ \A k \in DOMAIN plan : \A i \in 1 .. aired[k] : aired[k] # 0
  <1>1. /\ \A k \in DOMAIN plan : IsSent(plan[k]) /\ aired[k] \in 0 .. Count(plan[k])
        /\ Stored(sim, plan, aired, msg, seg, whole)
        /\ Airborne(air, sim, plan, aired, msg, seg, whole)
    BY SentOf, Zenon DEF Delivery, Taken, Kept
  <1>2. ASSUME NEW k \in DOMAIN plan
        PROVE  /\ \A i \in 1 .. aired[k] : Listed(<<>>, AirOf(plan[k], k, i).pdu) = Rec(plan[k], i)
               /\ aired[k] # 0 => 1 \in 1 .. aired[k]
               /\ \A i \in 1 .. aired[k] : aired[k] # 0
    <2>1. PICK n \in Nat, j \in Nat : n = Count(plan[k]) /\ j = aired[k] /\ j <= n
      <3>1. Count(plan[k]) \in Nat /\ aired[k] \in 0 .. Count(plan[k])
        BY <1>1, Zenon DEF IsSent
      <3>. QED
        BY <3>1
    <2>2. /\ j # 0 => 1 \in 1 .. j
          /\ \A i \in 1 .. j : j # 0 /\ i \in 1 .. n
      BY <2>1
    <2>3. ASSUME NEW i \in 1 .. n PROVE Listed(<<>>, AirOf(plan[k], k, i).pdu) = Rec(plan[k], i)
      <3>1. AirOf(plan[k], k, i).pdu = Pdus(plan[k])[i]
        BY DEF AirOf
      <3>2. Listed(<<>>, Pdus(plan[k])[i]) = Rec(plan[k], i)
        BY <1>1, <2>1, Zenon DEF IsSent
      <3>. QED
        BY <3>1, <3>2, Zenon
    <2>. QED
      BY <2>1, <2>2, <2>3, Zenon
  <1>3. ASSUME NEW x \in UnderWay
        PROVE  \E k \in DOMAIN plan \ whole : \E i \in 1 .. aired[k] : x = Rec(plan[k], i)
    <2>1. CASE \E q \in air : x = Listed(<<>>, q.pdu)
      <3>1. PICK q \in air : x = Listed(<<>>, q.pdu)
        BY <2>1
      <3>2. PICK k \in DOMAIN plan \ whole : \E i \in 1 .. aired[k] : q = AirOf(plan[k], k, i)
        BY <1>1, Zenon DEF Airborne
      <3>. QED
        BY <1>2, <3>1, <3>2, Zenon
    <2>2. CASE \E s \in DOMAIN sim : x = sim[s]
      BY <1>1, <2>2, Zenon DEF Stored
    <2>. QED
      BY <2>1, <2>2, Zenon DEF UnderWay
  <1>4. ASSUME NEW k \in DOMAIN plan \ whole, aired[k] # 0
        PROVE  Rec(plan[k], 1) \in UnderWay
    <2>1. 1 \in 1 .. aired[k]
      BY <1>2, <1>4, Zenon
    <2>2. CASE Has(sim, msg, seg, k, 1)
      <3>1. PICK s \in DOMAIN sim : msg[s] = k /\ seg[s] = 1
        BY <2>2, Zenon DEF Has
      <3>2. sim[s] = Rec(plan[k], 1)
        BY <1>1, <3>1, Zenon DEF Stored
      <3>. QED
        BY <3>2, Zenon DEF UnderWay
    <2>3. CASE AirOf(plan[k], k, 1) \in air
      BY <1>2, <2>1, <2>3, Zenon DEF UnderWay
    <2>. QED
      BY <1>1, <2>1, <2>2, <2>3, Zenon DEF Airborne
  <1>. QED
    BY <1>2, <1>3, <1>4, Zenon

\* A message reuses a reference when it is like one of these.
LEMMA ReusesWhen ==
  ASSUME Readable, NEW plan, NEW aired, NEW msg, NEW seg, NEW whole,
         Delivery(plan, aired, msg, seg, whole), NEW p, IsSent(p)
  PROVE  Reuses(Pdus(p)) <=> \E k \in DOMAIN plan \ whole : aired[k] # 0 /\ Alike(plan[k], p)
  <1>1. PICK pdus, n, E : /\ pdus = Pdus(p) /\ n = Count(p) /\ n \in Nat /\ n # 0
                          /\ pdus \in Seq(E) /\ Len(pdus) = n
    BY Zenon DEF IsSent
  <1>2. pdus # <<>> /\ Head(pdus) = pdus[1] /\ 1 \in 1 .. n
    BY <1>1
  <1>3. Listed(<<>>, pdus[1]) = Rec(p, 1)
    BY <1>1, <1>2, Zenon DEF IsSent
  <1>4. PICK first : first = Rec(p, 1)
    OBVIOUS
  <1>5. Reuses(pdus) <=> \E x \in UnderWay : /\ x # Malformed /\ x.part # NoHeader /\ first.part # NoHeader
                                             /\ SameKey(x, first)
    BY <1>2, <1>3, <1>4, Zenon DEF Reuses
  <1>6. /\ \A x \in UnderWay : \E k \in DOMAIN plan \ whole : \E i \in 1 .. aired[k] :
              x = Rec(plan[k], i)
        /\ \A k \in DOMAIN plan \ whole : aired[k] # 0 => Rec(plan[k], 1) \in UnderWay
        /\ \A k \in DOMAIN plan : \A i \in 1 .. aired[k] : aired[k] # 0
    BY UnderWayOf
  <1>7. ASSUME NEW k \in DOMAIN plan, NEW i, NEW x, x = Rec(plan[k], i)
        PROVE  x # Malformed /\ (x.part # NoHeader /\ first.part # NoHeader /\ SameKey(x, first) <=> Alike(plan[k], p))
    <2>1. PICK q : q = plan[k]
      OBVIOUS
    <2>2. x = Rec(q, i)
      BY <1>7, <2>1, Zenon
    <2>3. x # Malformed /\ (x.part # NoHeader /\ first.part # NoHeader /\ SameKey(x, first) <=> Alike(q, p))
      BY <1>4, <2>2, KeysOfRecords
    <2>. QED
      BY <2>1, <2>3, Zenon
  <1>8. ASSUME Reuses(pdus) PROVE \E k \in DOMAIN plan \ whole : aired[k] # 0 /\ Alike(plan[k], p)
    <2>1. PICK x \in UnderWay : x.part # NoHeader /\ first.part # NoHeader /\ SameKey(x, first)
      BY <1>5, <1>8, Zenon
    <2>2. PICK k \in DOMAIN plan \ whole : \E i \in 1 .. aired[k] : x = Rec(plan[k], i)
      BY <1>6, Zenon
    <2>. QED
      BY <1>6, <1>7, <2>1, <2>2, Zenon
  <1>9. ASSUME NEW k \in DOMAIN plan \ whole, aired[k] # 0, Alike(plan[k], p) PROVE Reuses(pdus)
    <2>1. PICK x : x = Rec(plan[k], 1)
      OBVIOUS
    <2>2. x \in UnderWay
      BY <1>6, <1>9, <2>1, Zenon
    <2>. QED
      BY <1>5, <1>7, <1>9, <2>1, <2>2, Zenon
  <1>. QED
    BY <1>1, <1>8, <1>9, Zenon

\* p is the message that send_sms takes up, and begins.
Starts(p, d) ==
  /\ IsPlan(p, d + 1) /\ IsSent(p) /\ p.ref = ref'
  /\ (ref' = ref /\ ~Numbered(p)) \/ (ref' = (ref + 1) % References)
  /\ sending' = [message |-> Message(p.offer), rest |-> Pdus(p)]
  /\ reused' <=> reused \/ Reuses(Pdus(p))

\* One is, or none.
LEMMA SendSmsStarts ==
  ASSUME Readable, SendSms, NEW d \in Nat, d = done, ref \in Nat
  PROVE  (ref' = ref /\ sending' = Idle /\ (reused' <=> reused)) \/ \E p : Starts(p, d)
  <1>1. /\ reused' = (reused \/ Reuses(sending'.rest))
        /\ \/ ref' = ref /\ sending' = Idle
           \/ \E offer \in Offers[d + 1] :
                LET p == [offer |-> offer, ref |-> ref'] IN
                /\ Begins(offer, ref, ref') /\ IsPlan(p, d + 1)
                /\ sending' = [message |-> Message(offer), rest |-> Pdus(p)]
    BY SendSmsDoes
  <1>2. CASE ref' = ref /\ sending' = Idle
    <2>1. Idle.rest = <<>>
      BY DEF Idle
    <2>2. ~Reuses(sending'.rest)
      BY <1>2, <2>1, Zenon DEF Reuses
    <2>. QED
      BY <1>1, <1>2, <2>2, Zenon
  <1>3. ASSUME NEW offer \in Offers[d + 1], NEW p, p = [offer |-> offer, ref |-> ref'],
               Begins(offer, ref, ref'), IsPlan(p, d + 1),
               sending' = [message |-> Message(offer), rest |-> Pdus(p)]
        PROVE  Starts(p, d)
    <2>1. p.offer = offer /\ p.ref = ref'
      BY <1>3
    <2>2. IsSent(p)
      BY <1>3, SentOf, Zenon
    <2>3. (ref' = ref /\ ~Numbered(p)) \/ (ref' = (ref + 1) % References)
      <3>1. InTextMode(offer) => Count(p) = 1
        <4>1. Len(<<offer.text>>) = 1
          OBVIOUS
        <4>. QED
          BY <2>1, <4>1, Zenon DEF Count, PiecesOf
      <3>2. ~(1 > 1)
        OBVIOUS
      <3>. QED
        BY <1>3, <2>1, <3>1, <3>2, Zenon DEF Begins, Numbered
    <2>4. sending'.rest = Pdus(p)
      BY <1>3
    <2>. QED
      BY <1>1, <1>3, <2>1, <2>2, <2>3, <2>4, Zenon DEF Starts
  <1>. QED
    BY <1>1, <1>2, <1>3, Zenon

\* A message just begun is like none under way, unless its reference is reused; one counter
\* does not reuse any.
LEMMA StartedApart ==
  ASSUME Readable, NEW plan, NEW aired, NEW msg, NEW seg, NEW whole,
         Delivery(plan, aired, msg, seg, whole), NEW d \in Nat, d = done, d < Len(Offers),
         NEW p, Starts(p, d), ~reused,
         NEW plan2, NEW aired2, Begun(plan2, aired2, plan, aired, d + 1, p)
  PROVE  /\ ~reused' => Unmixed(plan2, aired2, whole)
         /\ Separated /\ ~redrawn => Counted(plan2, d + 1, ref') /\ ~reused'
         /\ Taken(plan2, d + 1, ref')
  <1>1. /\ Taken(plan, d, ref) /\ (Separated /\ ~redrawn => Counted(plan, d, ref))
        /\ Unmixed(plan, aired, whole)
    BY Zenon DEF Delivery
  <1>2. PICK m : m = d + 1
    OBVIOUS
  <1>3. d \in Nat /\ DOMAIN plan \subseteq 1 .. d /\ ref \in Nat
    BY <1>1, Zenon DEF Taken
  <1>4. \A k \in DOMAIN plan : k < m /\ ~(m < k) /\ k # m
    BY <1>2, <1>3
  <1>5. /\ DOMAIN plan2 = DOMAIN plan \cup {m} /\ plan2[m] = p /\ aired2[m] = 0
        /\ \A k \in DOMAIN plan : plan2[k] = plan[k] /\ aired2[k] = aired[k]
    BY <1>2, <1>4, Zenon DEF Begun, Extended
  <1>6. IsPlan(p, m) /\ IsSent(p) /\ p.ref = ref' /\ (reused' <=> Reuses(Pdus(p)))
        /\ ((ref' = ref /\ ~Numbered(p)) \/ ref' = (ref + 1) % References)
    BY <1>2, Zenon DEF Starts
  <1>7. Reuses(Pdus(p)) <=> \E k \in DOMAIN plan \ whole : aired[k] # 0 /\ Alike(plan[k], p)
    BY <1>6, ReusesWhen
  <1>8. ASSUME ~reused' PROVE Unmixed(plan2, aired2, whole)
    <2>1. ASSUME NEW j \in DOMAIN plan2 \ whole, NEW k \in DOMAIN plan2, j < k, aired2[j] # 0
          PROVE  ~Alike(plan2[j], plan2[k])
      <3>1. j \in DOMAIN plan \ whole /\ aired[j] # 0 /\ plan2[j] = plan[j]
        BY <1>5, <2>1, Zenon
      <3>2. CASE k = m
        BY <1>5, <1>6, <1>7, <1>8, <3>1, <3>2, Zenon
      <3>3. CASE k \in DOMAIN plan
        BY <1>1, <1>5, <2>1, <3>1, <3>3, Zenon DEF Unmixed
      <3>. QED
        BY <1>5, <3>2, <3>3, Zenon
    <2>. QED
      BY <2>1, Zenon DEF Unmixed
  <1>9. PICK r, s : r = ref /\ s = ref' /\ r \in Nat /\ s \in Nat
    BY <1>3, <1>6, Zenon DEF IsPlan
  <1>10. plan2 = Extended(plan, d + 1, p)
    BY Zenon DEF Begun
  <1>11. Taken(plan2, d + 1, s)
    BY <1>1, <1>2, <1>6, <1>9, <1>10, TakenOne, Zenon
  <1>12. ASSUME Separated, ~redrawn PROVE Counted(plan2, d + 1, s) /\ ~reused'
    <2>1. Taken(plan, d, r) /\ Counted(plan, d, r)
      BY <1>1, <1>9, <1>12, Zenon
    <2>2. (s = r /\ ~Numbered(p)) \/ (s = (r + 1) % References /\ p.ref = s)
      BY <1>6, <1>9, Zenon
    <2>3. Counted(plan2, d + 1, s)
      BY <1>9, <1>10, <1>12, <2>1, <2>2, CountedOne, Zenon
    <2>4. ASSUME NEW k \in DOMAIN plan, Alike(plan[k], p) PROVE FALSE
      <3>1. Alike(plan2[k], plan2[m]) /\ k \in DOMAIN plan2 /\ m \in DOMAIN plan2
        BY <1>5, <2>4, Zenon
      <3>2. PICK e : e = d + 1
        OBVIOUS
      <3>3. Taken(plan2, e, s) /\ Counted(plan2, e, s)
        BY <1>11, <2>3, <3>2, Zenon
      <3>4. k = m
        BY <1>12, <3>1, <3>3, Apart, Zenon
      <3>. QED
        BY <1>4, <3>4, Zenon
    <2>. QED
      BY <1>6, <1>7, <2>3, <2>4, Zenon
  <1>. QED
    BY <1>8, <1>9, <1>11, <1>12, Zenon

\* One ATDevice reuses no reference.
CounterInv == Separated /\ ~redrawn => ~reused

\* send_sms keeps the invariant.
LEMMA SendSmsDelivers ==
  Readable /\ DeliveryInv /\ CounterInv /\ SendSms /\ ~reused => DeliveryInv' /\ CounterInv'
  <1>. SUFFICES ASSUME Readable, DeliveryInv, CounterInv, SendSms, ~reused PROVE DeliveryInv' /\ CounterInv'
    OBVIOUS
  <1>1. PICK plan, aired, msg, seg, whole : Delivery(plan, aired, msg, seg, whole)
    BY Zenon DEF DeliveryInv
  <1>2. PICK d \in Nat : d = done /\ ref \in Nat
    <2>1. done \in Nat /\ ref \in Nat
      BY <1>1, OffersLength DEF Delivery, Taken
    <2>. QED
      BY <2>1, Zenon
  <1>3. /\ Taken(plan, d, ref) /\ (Separated /\ ~redrawn => Counted(plan, d, ref))
        /\ Unmixed(plan, aired, whole)
        /\ Progress(plan, aired, d, sending)
        /\ Kept(sim, air, received, sent, listed, plan, aired, msg, seg, whole)
    BY <1>1, <1>2, Zenon DEF Delivery
  <1>4. /\ sending = Idle /\ d < Len(Offers) /\ done' = d + 1
        /\ air' = air /\ sim' = sim /\ listed' = listed /\ sent' = sent /\ received' = received
        /\ redrawn' = redrawn
    BY <1>2, SendSmsDoes
  <1>5. (ref' = ref /\ sending' = Idle /\ (reused' <=> reused)) \/ \E p : Starts(p, d)
    BY <1>2, SendSmsStarts
  <1>6. CASE ref' = ref /\ sending' = Idle /\ (reused' <=> reused)
    <2>1. Taken(plan, d + 1, ref') /\ (Counted(plan, d, ref) => Counted(plan, d + 1, ref'))
      BY <1>3, <1>4, <1>6, TakenNone, Zenon
    <2>2. Progress(plan, aired, d + 1, sending')
      BY <1>6, Zenon DEF Progress
    <2>3. Delivery(plan, aired, msg, seg, whole)'
      BY <1>3, <1>4, <2>1, <2>2, Zenon DEF Delivery
    <2>. QED
      BY <1>4, <1>6, <2>3, Zenon DEF DeliveryInv, CounterInv
  <1>7. ASSUME NEW p, Starts(p, d)
        PROVE  DeliveryInv' /\ CounterInv'
    <2>1. IsSent(p) /\ sending' = [message |-> Message(p.offer), rest |-> Pdus(p)]
      BY <1>7, Zenon DEF Starts
    <2>2. PICK n \in Nat : n = Count(p) /\ n # 0
      BY <2>1, Zenon DEF IsSent
    <2>3. PICK m : m = d + 1
      OBVIOUS
    <2>4. PICK plan2, aired2 : /\ plan2 = Extended(plan, m, p)
                               /\ aired2 = [k \in DOMAIN plan2 |-> IF k = m THEN 0 ELSE aired[k]]
      OBVIOUS
    <2>5. Begun(plan2, aired2, plan, aired, m, p)
      BY <2>4, Zenon DEF Begun
    <2>6. /\ ~reused' => Unmixed(plan2, aired2, whole)
          /\ Separated /\ ~redrawn => Counted(plan2, d + 1, ref') /\ ~reused'
          /\ Taken(plan2, d + 1, ref')
      BY <1>1, <1>2, <1>4, <1>7, <2>3, <2>5, StartedApart, Zenon
    <2>7. d + 1 \notin DOMAIN plan
      <3>1. DOMAIN plan \subseteq 1 .. d
        BY <1>3, Zenon DEF Taken
      <3>. QED
        BY <1>2, <3>1
    <2>8. Kept(sim, air, received, sent, listed, plan2, aired2, msg, seg, whole)
      <3>1. Count(p) \in Nat /\ Count(p) # 0
        BY <2>2, Zenon
      <3>2. m \notin DOMAIN plan
        BY <2>7, <2>3, Zenon
      <3>. QED
        BY <1>3, <2>5, <3>1, <3>2, OneMore, Zenon
    <2>9. Progress(plan2, aired2, d + 1, sending')
      <3>1. plan2[d + 1] = p /\ aired2[d + 1] = 0 /\ d + 1 \in DOMAIN plan2
        BY <2>4, <2>3, Zenon DEF Extended
      <3>2. 0 < Count(p)
        BY <2>2
      <3>3. sending' = [message |-> Message(p.offer), rest |-> Drop(Pdus(p), 0)]
        BY <2>1, BegunNow, Zenon
      <3>. QED
        BY <2>4, <3>1, <3>2, <3>3, Zenon DEF Progress
    <2>10. ASSUME ~reused' PROVE Delivery(plan2, aired2, msg, seg, whole)'
      BY <1>4, <2>6, <2>8, <2>9, <2>10, Zenon DEF Delivery
    <2>. QED
      BY <1>4, <2>6, <2>10, Zenon DEF DeliveryInv, CounterInv
  <1>. QED
    BY <1>5, <1>6, <1>7, Zenon

\* What is left of a sequence: its first element, its length, and what is left then.
LEMMA LeftOver ==
  ASSUME NEW E, NEW s \in Seq(E), NEW k \in Nat, NEW n \in Nat, n = Len(s), k < n
  PROVE  /\ Head(Drop(s, k)) = s[k + 1] /\ Len(Drop(s, k)) = n - k
         /\ Tail(Drop(s, k)) = Drop(s, k + 1)
  <1>1. k <= Len(s) /\ k + 1 <= Len(s) /\ k + 1 \in Nat
    OBVIOUS
  <1>2. PICK t \in Seq(E) : IsRest(t, s, k)
    BY <1>1, RestBehind, Zenon
  <1>3. PICK u \in Seq(E) : IsRest(u, s, k + 1)
    BY <1>1, RestBehind, Zenon
  <1>4. t = Drop(s, k) /\ Len(t) = n - k /\ \A i \in 1 .. n - k : t[i] = s[k + i]
    BY <1>2, Zenon DEF IsRest
  <1>5. u = Drop(s, k + 1) /\ Len(u) = n - (k + 1) /\ \A i \in 1 .. n - (k + 1) : u[i] = s[(k + 1) + i]
    BY <1>3, Zenon DEF IsRest
  <1>6. t # <<>> /\ 1 \in 1 .. n - k
    BY <1>4
  <1>7. Head(t) = s[k + 1]
    <2>1. Head(t) = t[1]
      BY <1>6
    <2>. QED
      BY <1>4, <1>6, <2>1, Zenon
  <1>8. Tail(t) \in Seq(E) /\ Len(Tail(t)) = Len(t) - 1 /\ \A i \in 1 .. Len(Tail(t)) : Tail(t)[i] = t[i + 1]
    BY <1>6, HeadTailProperties
  <1>9. PICK v \in Seq(E) : v = Tail(t)
    BY <1>8, Zenon
  <1>10. Len(v) = n - (k + 1)
    <2>1. Len(v) = Len(t) - 1
      BY <1>8, <1>9, Zenon
    <2>2. (n - k) - 1 = n - (k + 1)
      OBVIOUS
    <2>. QED
      BY <1>4, <2>1, <2>2, Zenon
  <1>11. ASSUME NEW i \in 1 .. n - (k + 1) PROVE v[i] = u[i]
    <2>1. i + 1 \in 1 .. n - k /\ k + (i + 1) = (k + 1) + i
      OBVIOUS
    <2>2. v[i] = t[i + 1]
      BY <1>8, <1>9, <1>10, Zenon
    <2>3. t[i + 1] = s[k + (i + 1)]
      BY <1>4, <2>1, Zenon
    <2>. QED
      BY <1>5, <2>1, <2>2, <2>3, Zenon
  <1>12. v = u
    BY <1>5, <1>10, <1>11, SeqEqual
  <1>. QED
    BY <1>4, <1>5, <1>7, <1>9, <1>12, Zenon

\* there2, out2 and aired2 after the next segment of message m went out.
AirsNext(there2, out2, aired2, there, out, plan, aired, m) ==
  /\ there2 = there \cup {AirOf(plan[m], m, aired[m] + 1)}
  /\ out2 = IF aired[m] + 1 = Count(plan[m]) THEN out \cup {Message(plan[m].offer)} ELSE out
  /\ aired2 = [k \in DOMAIN plan |-> IF k = m THEN aired[m] + 1 ELSE aired[k]]

\* A segment that goes out is nowhere else.
LEMMA OneSent ==
  ASSUME NEW plan, NEW aired, NEW msg, NEW seg, NEW whole, NEW slots, NEW there, NEW got, NEW out, NEW all,
         Kept(slots, there, got, out, all, plan, aired, msg, seg, whole),
         NEW m \in DOMAIN plan, Count(plan[m]) \in Nat, aired[m] < Count(plan[m]),
         NEW there2, NEW out2, NEW aired2, AirsNext(there2, out2, aired2, there, out, plan, aired, m)
  PROVE  Kept(slots, there2, got, out2, all, plan, aired2, msg, seg, whole)
  <1>1. /\ Stored(slots, plan, aired, msg, seg, whole)
        /\ Airborne(there, slots, plan, aired, msg, seg, whole)
        /\ Assembled(got, plan, aired, whole)
        /\ \A k \in DOMAIN plan : aired[k] \in 0 .. Count(plan[k])
        /\ out = {Message(plan[k].offer) : k \in Finished(plan, aired)}
        /\ all => Lacking(slots, plan, msg, seg, whole)
    BY Zenon DEF Kept
  <1>2. PICK n \in Nat : n = Count(plan[m])
    BY Zenon
  <1>3. PICK i \in 1 .. n : i = aired[m] + 1
    <2>1. aired[m] \in 0 .. n /\ aired[m] < n
      BY <1>1, <1>2, Zenon
    <2>2. aired[m] + 1 \in 1 .. n
      BY <2>1
    <2>. QED
      BY <2>2, Zenon
  <1>4. /\ there2 = there \cup {AirOf(plan[m], m, i)}
        /\ out2 = IF i = n THEN out \cup {Message(plan[m].offer)} ELSE out
        /\ aired2[m] = i
        /\ \A k \in DOMAIN plan : k # m => aired2[k] = aired[k]
    BY <1>2, <1>3, Zenon DEF AirsNext
  <1>5. /\ aired[m] # n /\ i \notin 1 .. aired[m] /\ i \in 1 .. i /\ i \in 0 .. n
        /\ \A j : j \in 1 .. i <=> j \in 1 .. aired[m] \/ j = i
    <2>1. aired[m] \in 0 .. n
      BY <1>1, <1>2, Zenon
    <2>. QED
      BY <1>3, <2>1
  <1>6. m \notin whole /\ m \notin Finished(plan, aired)
    BY <1>1, <1>2, <1>5, Zenon DEF Assembled, Finished
  <1>7. ~Has(slots, msg, seg, m, i)
    BY <1>1, <1>5, Zenon DEF Has, Stored
  <1>8. Stored(slots, plan, aired2, msg, seg, whole)
    <2>1. ASSUME NEW s \in DOMAIN slots PROVE seg[s] \in 1 .. aired2[msg[s]]
      <3>1. msg[s] \in DOMAIN plan /\ seg[s] \in 1 .. aired[msg[s]]
        BY <1>1, Zenon DEF Stored
      <3>2. CASE msg[s] = m
        BY <1>4, <1>5, <3>1, <3>2, Zenon
      <3>3. CASE msg[s] # m
        BY <1>4, <3>1, <3>3, Zenon
      <3>. QED
        BY <3>2, <3>3, Zenon
    <2>. QED
      BY <1>1, <2>1, Zenon DEF Stored
  <1>9. Airborne(there2, slots, plan, aired2, msg, seg, whole)
    <2>1. ASSUME NEW q \in there2
          PROVE  \E k \in DOMAIN plan \ whole : \E j \in 1 .. aired2[k] :
                   q = AirOf(plan[k], k, j) /\ ~Has(slots, msg, seg, k, j)
      <3>1. CASE q \in there
        <4>1. PICK k \in DOMAIN plan \ whole : \E j \in 1 .. aired[k] :
                q = AirOf(plan[k], k, j) /\ ~Has(slots, msg, seg, k, j)
          BY <1>1, <3>1, Zenon DEF Airborne
        <4>2. PICK j \in 1 .. aired[k] : q = AirOf(plan[k], k, j) /\ ~Has(slots, msg, seg, k, j)
          BY <4>1, Zenon
        <4>3. j \in 1 .. aired2[k]
          BY <1>4, <1>5, Zenon
        <4>. QED
          BY <4>2, <4>3, Zenon
      <3>2. CASE q = AirOf(plan[m], m, i)
        BY <1>4, <1>5, <1>6, <1>7, <3>2, Zenon
      <3>. QED
        BY <1>4, <3>1, <3>2, Zenon
    <2>2. ASSUME NEW k \in DOMAIN plan \ whole, NEW j \in 1 .. aired2[k]
          PROVE  Has(slots, msg, seg, k, j) \/ AirOf(plan[k], k, j) \in there2
      <3>1. CASE j \in 1 .. aired[k]
        BY <1>1, <1>4, <3>1, Zenon DEF Airborne
      <3>2. CASE j \notin 1 .. aired[k]
        <4>1. k = m /\ j = i
          BY <1>4, <1>5, <3>2, Zenon
        <4>. QED
          BY <1>4, <4>1, Zenon
      <3>. QED
        BY <3>1, <3>2, Zenon
    <2>. QED
      BY <2>1, <2>2, Zenon DEF Airborne
  <1>10. Assembled(got, plan, aired2, whole)
    BY <1>1, <1>4, <1>6, Zenon DEF Assembled, Finished
  <1>11. \A k \in DOMAIN plan : aired2[k] \in 0 .. Count(plan[k])
    BY <1>1, <1>2, <1>4, <1>5, Zenon
  <1>12. out2 = {Message(plan[k].offer) : k \in Finished(plan, aired2)}
    <2>1. CASE i = n
      <3>1. ASSUME NEW k PROVE k \in Finished(plan, aired2) <=> k \in Finished(plan, aired) \/ k = m
        BY <1>2, <1>4, <2>1, Zenon DEF Finished
      <3>. QED
        BY <1>1, <1>4, <2>1, <3>1, Zenon
    <2>2. CASE i # n
      <3>1. ASSUME NEW k PROVE k \in Finished(plan, aired2) <=> k \in Finished(plan, aired)
        BY <1>2, <1>4, <1>6, <2>2, Zenon DEF Finished
      <3>. QED
        BY <1>1, <1>4, <2>2, <3>1, Zenon
    <2>. QED
      BY <2>1, <2>2, Zenon
  <1>. QED
    BY <1>1, <1>8, <1>9, <1>10, <1>11, <1>12, Zenon DEF Kept

\* Message d is submitted, of whose n segments k went out.
Submitting(plan, aired, d, p, k, n) ==
  /\ d = done /\ d \in DOMAIN plan /\ p = plan[d] /\ k = aired[d] /\ n = Count(p)
  /\ IsPlan(p, d) /\ k \in Nat /\ n \in Nat /\ k < n
  /\ sending.message = Message(p.offer) /\ Len(sending.rest) = n - k
  /\ [sending EXCEPT !.rest = Tail(@)] = [message |-> Message(p.offer), rest |-> Drop(Pdus(p), k + 1)]
  /\ Aired = air \cup {AirOf(p, d, k + 1)}

\* What is being submitted: the next segment, and those behind it.
LEMMA BeingSent ==
  ASSUME Readable, NEW plan, NEW aired, NEW msg, NEW seg, NEW whole,
         Delivery(plan, aired, msg, seg, whole), sending # Idle
  PROVE  \E d, p, k, n : Submitting(plan, aired, d, p, k, n)
  <1>1. PICK d : d = done
    OBVIOUS
  <1>2. PICK p, k : p = plan[d] /\ k = aired[d]
    OBVIOUS
  <1>3. /\ d \in DOMAIN plan /\ k < Count(p)
        /\ sending = [message |-> Message(p.offer), rest |-> Drop(Pdus(p), k)]
    BY <1>1, <1>2, Zenon DEF Delivery, Progress
  <1>4. IsPlan(p, d) /\ k \in 0 .. Count(p)
    BY <1>1, <1>2, <1>3, Zenon DEF Delivery, Taken, Kept
  <1>5. IsSent(p)
    BY <1>4, SentOf, Zenon
  <1>6. PICK n \in Nat : n = Count(p)
    BY <1>5, Zenon DEF IsSent
  <1>7. k \in Nat /\ k < n
    BY <1>3, <1>4, <1>6
  <1>8. PICK pdus, E : pdus = Pdus(p) /\ pdus \in Seq(E) /\ Len(pdus) = n
    BY <1>5, <1>6, Zenon DEF IsSent
  <1>9. /\ Head(Drop(pdus, k)) = pdus[k + 1] /\ Len(Drop(pdus, k)) = n - k
        /\ Tail(Drop(pdus, k)) = Drop(pdus, k + 1)
    BY <1>7, <1>8, LeftOver, Zenon
  <1>10. /\ sending.message = Message(p.offer) /\ sending.rest = Drop(pdus, k)
         /\ [sending EXCEPT !.rest = Tail(@)] = [message |-> Message(p.offer), rest |-> Tail(Drop(pdus, k))]
    <2>1. PICK message, rest : message = Message(p.offer) /\ rest = Drop(pdus, k)
      OBVIOUS
    <2>2. sending = [message |-> message, rest |-> rest]
      BY <1>3, <1>8, <2>1, Zenon
    <2>3. sending.message = message /\ sending.rest = rest
      BY <2>2
    <2>4. PICK tail : tail = Tail(rest)
      OBVIOUS
    <2>5. [sending EXCEPT !.rest = Tail(@)] = [sending EXCEPT !.rest = tail]
      BY <2>3, <2>4, Zenon
    <2>6. [sending EXCEPT !.rest = tail] = [message |-> message, rest |-> tail]
      BY <2>2
    <2>. QED
      BY <2>1, <2>3, <2>4, <2>5, <2>6, Zenon
  <1>11. n - (k + 1) + 1 = n - k
    BY <1>7
  <1>12. Aired = air \cup {AirOf(p, d, k + 1)}
    BY <1>1, <1>6, <1>8, <1>9, <1>10, <1>11, Zenon DEF Aired, AirOf
  <1>13. Submitting(plan, aired, d, p, k, n)
    BY <1>1, <1>2, <1>3, <1>4, <1>6, <1>7, <1>8, <1>9, <1>10, <1>12, Zenon DEF Submitting
  <1>. QED
    BY <1>13, Zenon

\* A message taken up stays so when a segment went out.
LEMMA SegmentDelivers ==
  ASSUME Readable, NEW plan, NEW aired, NEW msg, NEW seg, NEW whole,
         Delivery(plan, aired, msg, seg, whole), sending # Idle, 
         air' = Aired, sent' = IF Len(sending.rest) = 1 THEN sent \cup {sending.message} ELSE sent,
         UNCHANGED <<ref, done, sim, listed, received, redrawn, reused>>,
         \/ sending' = Idle
         \/ Len(sending.rest) # 1 /\ sending' = [sending EXCEPT !.rest = Tail(@)]
  PROVE  DeliveryInv'
  <1>1. PICK d, p, k, n : Submitting(plan, aired, d, p, k, n)
    BY BeingSent, Zenon
  <1>2. /\ d = done /\ d \in DOMAIN plan /\ p = plan[d] /\ k = aired[d] /\ n = Count(p)
           /\ IsPlan(p, d) /\ k \in Nat /\ n \in Nat /\ k < n
           /\ sending.message = Message(p.offer) /\ Len(sending.rest) = n - k
           /\ [sending EXCEPT !.rest = Tail(@)] = [message |-> Message(p.offer), rest |-> Drop(Pdus(p), k + 1)]
           /\ Aired = air \cup {AirOf(p, d, k + 1)}
    BY <1>1, Zenon DEF Submitting
  <1>3. /\ ref' = ref /\ done' = done /\ sim' = sim /\ listed' = listed /\ received' = received
        /\ redrawn' = redrawn
    OBVIOUS
  <1>4. Len(sending.rest) = 1 <=> k + 1 = n
    <2>1. n - k = 1 <=> k + 1 = n
      BY <1>2
    <2>. QED
      BY <1>2, <2>1, Zenon
  <1>5. PICK aired2 : aired2 = [j \in DOMAIN plan |-> IF j = d THEN aired[d] + 1 ELSE aired[j]]
    OBVIOUS
  <1>6. AirsNext(air', sent', aired2, air, sent, plan, aired, d)
    BY <1>2, <1>4, <1>5, Zenon DEF AirsNext
  <1>7. Kept(sim, air', received, sent', listed, plan, aired2, msg, seg, whole)
    <2>1. PICK there2, out2 : there2 = air' /\ out2 = sent'
      OBVIOUS
    <2>2. /\ Kept(sim, air, received, sent, listed, plan, aired, msg, seg, whole)
          /\ AirsNext(there2, out2, aired2, air, sent, plan, aired, d)
          /\ Count(plan[d]) \in Nat /\ aired[d] < Count(plan[d])
      BY <1>2, <1>6, <2>1, Zenon DEF Delivery
    <2>3. Kept(sim, there2, received, out2, listed, plan, aired2, msg, seg, whole)
      BY <1>2, <2>2, OneSent, Zenon
    <2>. QED
      BY <2>1, <2>3, Zenon
  <1>8. d = done'
    BY <1>2, <1>3, Zenon
  <1>9. Progress(plan, aired2, done', sending')
    <2>1. aired2[d] = k + 1
      BY <1>2, <1>5, Zenon
    <2>2. k + 1 # n => k + 1 < n
      BY <1>2
    <2>3. Progress(plan, aired2, d, sending')
      BY <1>2, <1>4, <2>1, <2>2, Zenon DEF Progress
    <2>. QED
      BY <1>8, <2>3, Zenon DEF Progress
  <1>10. /\ Taken(plan, d, ref) /\ Unmixed(plan, aired, whole)
         /\ Separated /\ ~redrawn => Counted(plan, d, ref)
    BY <1>2, Zenon DEF Delivery
  <1>11. Unmixed(plan, aired2, whole)
    <2>1. \A j \in DOMAIN plan : j \in 1 .. d
      BY <1>10, Zenon DEF Taken
    <2>2. d \in Nat
      BY <1>10, OffersLength DEF Taken
    <2>3. \A j \in DOMAIN plan : ~(d < j)
      BY <2>1, <2>2
    <2>. QED
      BY <1>5, <1>10, <2>3, Zenon DEF Unmixed
  <1>12. Delivery(plan, aired2, msg, seg, whole)'
    <2>1. Taken(plan, done', ref')
      <3>1. Taken(plan, d, ref')
        BY <1>3, <1>10, Zenon
      <3>. QED
        BY <1>8, <3>1, Zenon
    <2>2. Separated /\ ~redrawn' => Counted(plan, done', ref')
      <3>1. ~redrawn' => ~redrawn
        BY <1>3
      <3>2. Separated /\ ~redrawn' => Counted(plan, d, ref)
        BY <1>10, <3>1, Zenon
      <3>3. Separated /\ ~redrawn' => Counted(plan, d, ref')
        BY <1>3, <3>2, Zenon
      <3>. QED
        BY <1>8, <3>3, Zenon
    <2>3. Kept(sim', air', received', sent', listed', plan, aired2, msg, seg, whole)
      BY <1>3, <1>7, Zenon
    <2>. QED
      BY <1>9, <1>11, <2>1, <2>2, <2>3, Zenon DEF Delivery
  <1>. QED
    BY <1>12, Zenon DEF DeliveryInv

\* _cmgs_exchange keeps it, whether it ends well or badly.
LEMMA SubmitDelivers ==
  Readable /\ DeliveryInv /\ (SegmentSent \/ SegmentFails) /\ ~reused => DeliveryInv'
  <1>. SUFFICES ASSUME Readable, DeliveryInv, SegmentSent \/ SegmentFails, ~reused PROVE DeliveryInv'
    OBVIOUS
  <1>1. PICK plan, aired, msg, seg, whole : Delivery(plan, aired, msg, seg, whole)
    BY Zenon DEF DeliveryInv
  <1>2. CASE SegmentSent
    BY <1>1, <1>2, SegmentDelivers DEF SegmentSent
  <1>3. CASE SegmentFails
    <2>1. /\ sending # Idle /\ sending' = Idle
          /\ UNCHANGED <<ref, done, sim, listed, received, redrawn, reused>>
      BY <1>3, Zenon DEF SegmentFails
    <2>2. CASE UNCHANGED <<air, sent>>
      <3>1. /\ ref' = ref /\ done' = done /\ sim' = sim /\ listed' = listed /\ received' = received
            /\ air' = air /\ sent' = sent /\ redrawn' = redrawn
        BY <2>1, <2>2
      <3>2. Progress(plan, aired, done', sending')
        BY <2>1, Zenon DEF Progress
      <3>3. Delivery(plan, aired, msg, seg, whole)'
        BY <1>1, <3>1, <3>2, Zenon DEF Delivery
      <3>. QED
        BY <3>3, Zenon DEF DeliveryInv
    <2>3. CASE air' = Aired /\ sent' = IF Len(sending.rest) = 1 THEN sent \cup {sending.message} ELSE sent
      BY <1>1, <2>1, <2>3, SegmentDelivers, Zenon
    <2>. QED
      BY <1>3, <2>2, <2>3, Zenon DEF SegmentFails
  <1>. QED
    BY <1>2, <1>3

\* A new device's counter starts anywhere; what is under way stays.
LEMMA ReconnectDelivers == DeliveryInv /\ Reconnect /\ ~reused => DeliveryInv'
  <1>. SUFFICES ASSUME DeliveryInv, Reconnect, ~reused PROVE DeliveryInv'
    OBVIOUS
  <1>1. PICK plan, aired, msg, seg, whole : Delivery(plan, aired, msg, seg, whole)
    BY Zenon DEF DeliveryInv
  <1>2. /\ ref' \in Nat /\ sending' = sending /\ done' = done /\ air' = air /\ sim' = sim
        /\ listed' = listed /\ sent' = sent /\ received' = received /\ redrawn'
    BY SizesAssumption DEF Reconnect
  <1>3. Taken(plan, done, ref')
    BY <1>1, <1>2, Zenon DEF Delivery, Taken
  <1>4. Delivery(plan, aired, msg, seg, whole)'
    BY <1>1, <1>2, <1>3, Zenon DEF Delivery
  <1>. QED
    BY <1>4, Zenon DEF DeliveryInv

\* slots2, msg2 and seg2 with segment i of message m in slot s.
PutIn(slots2, msg2, seg2, slots, msg, seg, plan, s, m, i) ==
  /\ slots2 = Extended(slots, s, Rec(plan[m], i))
  /\ msg2 = [t \in DOMAIN slots \cup {s} |-> IF t = s THEN m ELSE msg[t]]
  /\ seg2 = [t \in DOMAIN slots \cup {s} |-> IF t = s THEN i ELSE seg[t]]

\* A segment that arrives is in one slot, and not on the air any more.
LEMMA OneArrived ==
  ASSUME NEW plan, NEW aired, NEW msg, NEW seg, NEW whole, NEW slots, NEW there, NEW got, NEW out, NEW all,
         Kept(slots, there, got, out, all, plan, aired, msg, seg, whole),
         \A k \in DOMAIN plan : Count(plan[k]) \in Nat,
         NEW m \in DOMAIN plan \ whole, NEW i \in 1 .. aired[m], ~Has(slots, msg, seg, m, i),
         NEW s, s \notin DOMAIN slots,
         NEW slots2, NEW msg2, NEW seg2, PutIn(slots2, msg2, seg2, slots, msg, seg, plan, s, m, i),
         NEW there2, there2 = there \ {AirOf(plan[m], m, i)}
  PROVE  Kept(slots2, there2, got, out, FALSE, plan, aired, msg2, seg2, whole)
  <1>1. /\ Stored(slots, plan, aired, msg, seg, whole)
        /\ Airborne(there, slots, plan, aired, msg, seg, whole)
        /\ Assembled(got, plan, aired, whole)
        /\ \A k \in DOMAIN plan : aired[k] \in 0 .. Count(plan[k])
        /\ out = {Message(plan[k].offer) : k \in Finished(plan, aired)}
    BY Zenon DEF Kept
  <1>2. /\ DOMAIN slots2 = DOMAIN slots \cup {s} /\ slots2[s] = Rec(plan[m], i) /\ msg2[s] = m /\ seg2[s] = i
        /\ \A t \in DOMAIN slots : t # s /\ slots2[t] = slots[t] /\ msg2[t] = msg[t] /\ seg2[t] = seg[t]
    BY Zenon DEF PutIn, Extended
  <1>3. ASSUME NEW k, NEW j
        PROVE  Has(slots2, msg2, seg2, k, j) <=> Has(slots, msg, seg, k, j) \/ (k = m /\ j = i)
    BY <1>2, Zenon DEF Has
  <1>4. Stored(slots2, plan, aired, msg2, seg2, whole)
    <2>1. IsFiniteSet(DOMAIN slots2)
      BY <1>1, <1>2, FS_AddElement, Zenon DEF Stored
    <2>2. ASSUME NEW t \in DOMAIN slots2
          PROVE  /\ msg2[t] \in DOMAIN plan \ whole /\ seg2[t] \in 1 .. aired[msg2[t]]
                 /\ slots2[t] = Rec(plan[msg2[t]], seg2[t])
      <3>1. CASE t = s
        BY <1>2, <3>1, Zenon
      <3>2. CASE t \in DOMAIN slots
        BY <1>1, <1>2, <3>2, Zenon DEF Stored
      <3>. QED
        BY <1>2, <3>1, <3>2, Zenon
    <2>3. ASSUME NEW t \in DOMAIN slots2, NEW u \in DOMAIN slots2, msg2[t] = msg2[u], seg2[t] = seg2[u]
          PROVE  t = u
      <3>1. ASSUME NEW x \in DOMAIN slots PROVE msg[x] # m \/ seg[x] # i
        BY Zenon DEF Has
      <3>. QED
        BY <1>1, <1>2, <2>3, <3>1, Zenon DEF Stored
    <2>. QED
      BY <2>1, <2>2, <2>3, Zenon DEF Stored
  <1>5. ASSUME NEW k \in DOMAIN plan, NEW j \in 1 .. aired[k], AirOf(plan[m], m, i) = AirOf(plan[k], k, j)
        PROVE  k = m /\ j = i
    <2>1. i \in Nat /\ j \in Nat
      BY <1>1
    <2>2. AirOf(plan[m], m, i).of = m /\ AirOf(plan[k], k, j).of = k
      BY DEF AirOf
    <2>3. m = k
      BY <1>5, <2>2, Zenon
    <2>4. PICK n \in Nat : n = Count(plan[m])
      BY Zenon
    <2>5. AirOf(plan[m], m, i).left = n - i + 1 /\ AirOf(plan[m], m, j).left = n - j + 1
      BY <2>4 DEF AirOf
    <2>6. n - i + 1 = n - j + 1
      BY <1>5, <2>3, <2>5, Zenon
    <2>. QED
      BY <2>1, <2>3, <2>6
  <1>6. Airborne(there2, slots2, plan, aired, msg2, seg2, whole)
    <2>1. ASSUME NEW q \in there2
          PROVE  \E k \in DOMAIN plan \ whole : \E j \in 1 .. aired[k] :
                   q = AirOf(plan[k], k, j) /\ ~Has(slots2, msg2, seg2, k, j)
      <3>1. q \in there /\ q # AirOf(plan[m], m, i)
        OBVIOUS
      <3>2. PICK k \in DOMAIN plan \ whole : \E j \in 1 .. aired[k] :
              q = AirOf(plan[k], k, j) /\ ~Has(slots, msg, seg, k, j)
        BY <1>1, <3>1, Zenon DEF Airborne
      <3>3. PICK j \in 1 .. aired[k] : q = AirOf(plan[k], k, j) /\ ~Has(slots, msg, seg, k, j)
        BY <3>2, Zenon
      <3>4. ~Has(slots2, msg2, seg2, k, j)
        BY <1>3, <3>1, <3>3, Zenon
      <3>. QED
        BY <3>3, <3>4, Zenon
    <2>2. ASSUME NEW k \in DOMAIN plan \ whole, NEW j \in 1 .. aired[k]
          PROVE  Has(slots2, msg2, seg2, k, j) \/ AirOf(plan[k], k, j) \in there2
      <3>1. Has(slots, msg, seg, k, j) \/ AirOf(plan[k], k, j) \in there
        BY <1>1, Zenon DEF Airborne
      <3>2. CASE Has(slots, msg, seg, k, j)
        BY <1>3, <3>2, Zenon
      <3>3. CASE AirOf(plan[k], k, j) \in there
        <4>1. CASE AirOf(plan[k], k, j) = AirOf(plan[m], m, i)
          BY <1>3, <1>5, <4>1, Zenon
        <4>2. CASE AirOf(plan[k], k, j) # AirOf(plan[m], m, i)
          BY <3>3, <4>2, Zenon
        <4>. QED
          BY <4>1, <4>2, Zenon
      <3>. QED
        BY <3>1, <3>2, <3>3, Zenon
    <2>. QED
      BY <2>1, <2>2, Zenon DEF Airborne
  <1>. QED
    BY <1>1, <1>4, <1>6, Zenon DEF Kept

\* There is a slot for it.
LEMMA SlotFree ==
  ASSUME IsFiniteSet(DOMAIN sim)
  PROVE  FreeSlot \notin DOMAIN sim
  <1>1. PICK S : S = DOMAIN sim
    OBVIOUS
  <1>2. PICK n \in Nat : n = Cardinality(S)
    BY <1>1, FS_CardinalityType, Zenon
  <1>3. \E s \in 1 .. n + 1 : s \notin S
    <2>. SUFFICES ASSUME 1 .. n + 1 \in SUBSET S PROVE FALSE
      BY Zenon
    <2>1. Cardinality(1 .. n + 1) = n + 1
      BY FS_Interval
    <2>2. Cardinality(1 .. n + 1) <= Cardinality(S)
      BY <1>1, FS_Subset, Zenon
    <2>. QED
      BY <1>2, <2>1, <2>2
  <1>4. \E s \in 1 .. Cardinality(DOMAIN sim) + 1 : s \notin DOMAIN sim
    BY <1>1, <1>2, <1>3, Zenon
  <1>. QED
    BY <1>4, Zenon DEF FreeSlot

\* The arrival of a segment keeps the invariant.
LEMMA ArriveDelivers == Readable /\ DeliveryInv /\ Arrive /\ ~reused => DeliveryInv'
  <1>. SUFFICES ASSUME Readable, DeliveryInv, Arrive, ~reused PROVE DeliveryInv'
    OBVIOUS
  <1>1. PICK plan, aired, msg, seg, whole : Delivery(plan, aired, msg, seg, whole)
    BY Zenon DEF DeliveryInv
  <1>2. /\ Taken(plan, done, ref) /\ (Separated /\ ~redrawn => Counted(plan, done, ref))
        /\ Unmixed(plan, aired, whole)
        /\ Progress(plan, aired, done, sending)
        /\ Kept(sim, air, received, sent, listed, plan, aired, msg, seg, whole)
    BY <1>1, Zenon DEF Delivery
  <1>3. /\ ref' = ref /\ sending' = sending /\ done' = done /\ sent' = sent /\ received' = received
        /\ listed' = FALSE /\ redrawn' = redrawn
    BY DEF Arrive
  <1>4. PICK q \in air, front \in {<<>>, MessageCentre} :
          /\ air' = air \ {q}
          /\ sim' = [s \in DOMAIN sim \cup {FreeSlot} |->
                      IF s = FreeSlot THEN Listed(front, q.pdu) ELSE sim[s]]
    BY Zenon DEF Arrive
  <1>5. PICK m \in DOMAIN plan \ whole : \E i \in 1 .. aired[m] :
          q = AirOf(plan[m], m, i) /\ ~Has(sim, msg, seg, m, i)
    BY <1>2, Zenon DEF Kept, Airborne
  <1>6. PICK i \in 1 .. aired[m] : q = AirOf(plan[m], m, i) /\ ~Has(sim, msg, seg, m, i)
    BY <1>5, Zenon
  <1>7. ASSUME NEW k \in DOMAIN plan PROVE IsSent(plan[k]) /\ Count(plan[k]) \in Nat
    <2>1. IsPlan(plan[k], k)
      BY <1>2, Zenon DEF Taken
    <2>2. IsSent(plan[k])
      BY <2>1, SentOf, Zenon
    <2>. QED
      BY <2>2, Zenon DEF IsSent
  <1>8. i \in 1 .. Count(plan[m])
    <2>1. aired[m] \in 0 .. Count(plan[m]) /\ Count(plan[m]) \in Nat
      BY <1>2, <1>7, Zenon DEF Kept
    <2>. QED
      BY <2>1
  <1>9. Listed(front, q.pdu) = Rec(plan[m], i)
    <2>1. q.pdu = Pdus(plan[m])[i]
      BY <1>6 DEF AirOf
    <2>2. IsSent(plan[m])
      BY <1>7, Zenon
    <2>3. Listed(front, Pdus(plan[m])[i]) = Rec(plan[m], i)
      BY <1>8, <2>2, Zenon DEF IsSent
    <2>. QED
      BY <2>1, <2>3, Zenon
  <1>10. PICK s : s = FreeSlot
    OBVIOUS
  <1>11. s \notin DOMAIN sim
    BY <1>2, <1>10, SlotFree, Zenon DEF Kept, Stored
  <1>12. PICK msg2, seg2 : /\ msg2 = [t \in DOMAIN sim \cup {s} |-> IF t = s THEN m ELSE msg[t]]
                           /\ seg2 = [t \in DOMAIN sim \cup {s} |-> IF t = s THEN i ELSE seg[t]]
    OBVIOUS
  <1>13. PICK slots2, there2 : slots2 = sim' /\ there2 = air'
    OBVIOUS
  <1>14. PutIn(slots2, msg2, seg2, sim, msg, seg, plan, s, m, i)
    BY <1>4, <1>9, <1>10, <1>12, <1>13, Zenon DEF PutIn, Extended
  <1>15. there2 = air \ {AirOf(plan[m], m, i)}
    BY <1>4, <1>6, <1>13, Zenon
  <1>16. Kept(slots2, there2, received, sent, FALSE, plan, aired, msg2, seg2, whole)
    BY <1>2, <1>6, <1>7, <1>11, <1>14, <1>15, OneArrived, Zenon
  <1>17. Delivery(plan, aired, msg2, seg2, whole)'
    BY <1>2, <1>3, <1>13, <1>16, Zenon DEF Delivery
  <1>. QED
    BY <1>17, Zenon DEF DeliveryInv

\* The messages whose segments are all held.
Full(slots, plan, msg, seg, whole) ==
  {m \in DOMAIN plan \ whole : \A i \in 1 .. Count(plan[m]) : Has(slots, msg, seg, m, i)}

\* The slots of the others.
Staying(slots, plan, msg, seg, whole) == {s \in DOMAIN slots : msg[s] \notin Full(slots, plan, msg, seg, whole)}

\* These are assembled, their segments are deleted, and the others stay.
LEMMA AllListed ==
  ASSUME NEW plan, NEW aired, NEW msg, NEW seg, NEW whole, NEW slots, NEW there, NEW got, NEW out, NEW all,
         Kept(slots, there, got, out, all, plan, aired, msg, seg, whole),
         \A k \in DOMAIN plan : Count(plan[k]) \in Nat /\ Count(plan[k]) # 0,
         NEW full, full = Full(slots, plan, msg, seg, whole),
         NEW slots2, slots2 = [s \in Staying(slots, plan, msg, seg, whole) |-> slots[s]],
         NEW got2, got2 = got \cup {Message(plan[m].offer) : m \in full}
  PROVE  Kept(slots2, there, got2, out, TRUE, plan, aired, msg, seg, whole \cup full)
  <1>1. /\ Stored(slots, plan, aired, msg, seg, whole)
        /\ Airborne(there, slots, plan, aired, msg, seg, whole)
        /\ Assembled(got, plan, aired, whole)
        /\ \A k \in DOMAIN plan : aired[k] \in 0 .. Count(plan[k])
        /\ out = {Message(plan[k].offer) : k \in Finished(plan, aired)}
    BY Zenon DEF Kept
  <1>2. /\ \A s : s \in DOMAIN slots2 <=> s \in DOMAIN slots /\ msg[s] \notin full
        /\ \A s \in DOMAIN slots2 : slots2[s] = slots[s]
    BY Zenon DEF Staying
  <1>3. PICK w : w = whole \cup full
    OBVIOUS
  <1>4. ASSUME NEW m \in DOMAIN plan
        PROVE  1 .. aired[m] \subseteq 1 .. Count(plan[m])
    <2>1. aired[m] \in 0 .. Count(plan[m]) /\ Count(plan[m]) \in Nat
      BY <1>1, Zenon
    <2>. QED
      BY <2>1
  <1>5. ASSUME NEW m \in DOMAIN plan \ w, NEW i
        PROVE  Has(slots2, msg, seg, m, i) <=> Has(slots, msg, seg, m, i)
    BY <1>2, <1>3, Zenon DEF Has
  <1>6. \A m : m \in full <=> m \in DOMAIN plan \ whole /\ \A i \in 1 .. Count(plan[m]) : Has(slots, msg, seg, m, i)
    BY Zenon DEF Full
  <1>7. Stored(slots2, plan, aired, msg, seg, w)
    <2>1. IsFiniteSet(DOMAIN slots2)
      <3>1. DOMAIN slots2 \in SUBSET DOMAIN slots /\ IsFiniteSet(DOMAIN slots)
        BY <1>1, <1>2, Zenon DEF Stored
      <3>. QED
        BY <3>1, FS_Subset, Zenon
    <2>. QED
      BY <1>1, <1>2, <1>3, <2>1, Zenon DEF Stored
  <1>8. Airborne(there, slots2, plan, aired, msg, seg, w)
    <2>1. ASSUME NEW q \in there
          PROVE  \E k \in DOMAIN plan \ w : \E j \in 1 .. aired[k] :
                   q = AirOf(plan[k], k, j) /\ ~Has(slots2, msg, seg, k, j)
      <3>1. PICK k \in DOMAIN plan \ whole : \E j \in 1 .. aired[k] :
              q = AirOf(plan[k], k, j) /\ ~Has(slots, msg, seg, k, j)
        BY <1>1, Zenon DEF Airborne
      <3>2. PICK j \in 1 .. aired[k] : q = AirOf(plan[k], k, j) /\ ~Has(slots, msg, seg, k, j)
        BY <3>1, Zenon
      <3>3. k \in DOMAIN plan \ w
        <4>1. j \in 1 .. Count(plan[k])
          BY <1>4, Zenon
        <4>. QED
          BY <1>3, <1>6, <3>2, <4>1, Zenon
      <3>. QED
        BY <1>5, <3>2, <3>3, Zenon
    <2>2. ASSUME NEW k \in DOMAIN plan \ w, NEW j \in 1 .. aired[k]
          PROVE  Has(slots2, msg, seg, k, j) \/ AirOf(plan[k], k, j) \in there
      BY <1>1, <1>3, <1>5, Zenon DEF Airborne
    <2>. QED
      BY <2>1, <2>2, Zenon DEF Airborne
  <1>9. Assembled(got2, plan, aired, w)
    <2>1. ASSUME NEW m \in full PROVE m \in Finished(plan, aired)
      <3>1. PICK n \in Nat : n = Count(plan[m]) /\ n # 0 /\ aired[m] \in 0 .. n
        BY <1>1, <1>6, Zenon
      <3>2. n \in 1 .. n
        BY <3>1
      <3>3. Has(slots, msg, seg, m, n)
        BY <1>6, <3>1, <3>2, Zenon
      <3>4. n \in 1 .. aired[m]
        BY <1>1, <3>3, Zenon DEF Has, Stored
      <3>5. aired[m] = n
        BY <3>1, <3>4
      <3>. QED
        BY <1>6, <3>1, <3>5, Zenon DEF Finished
    <2>2. whole \subseteq Finished(plan, aired) /\ got = {Message(plan[m].offer) : m \in whole}
      BY <1>1, Zenon DEF Assembled
    <2>3. w \subseteq Finished(plan, aired)
      BY <1>3, <2>1, <2>2, Zenon
    <2>4. got2 = {Message(plan[m].offer) : m \in w}
      BY <1>3, <2>2, Zenon
    <2>. QED
      BY <2>3, <2>4, Zenon DEF Assembled
  <1>10. Lacking(slots2, plan, msg, seg, w)
    <2>1. ASSUME NEW m \in DOMAIN plan \ w
          PROVE  \E i \in 1 .. Count(plan[m]) : ~Has(slots2, msg, seg, m, i)
      <3>1. PICK i \in 1 .. Count(plan[m]) : ~Has(slots, msg, seg, m, i)
        BY <1>3, <1>6, Zenon
      <3>. QED
        BY <1>5, <3>1, Zenon
    <2>. QED
      BY <2>1, Zenon DEF Lacking
  <1>. QED
    BY <1>1, <1>3, <1>7, <1>8, <1>9, <1>10, Zenon DEF Kept

(***************************************************************************)
(* What the poll makes of the slots.                                       *)
(***************************************************************************)
\* Slot s holds segment seg[s] of message msg[s].
Filed(plan, msg, seg) ==
  /\ IsFiniteSet(DOMAIN sim)
  /\ \A m \in DOMAIN plan : IsSent(plan[m])
  /\ \A s \in DOMAIN sim :
       /\ msg[s] \in DOMAIN plan /\ seg[s] \in 1 .. Count(plan[msg[s]])
       /\ sim[s] = Rec(plan[msg[s]], seg[s])
  /\ \A s, t \in DOMAIN sim : msg[s] = msg[t] /\ seg[s] = seg[t] => s = t
  /\ \A s, t \in DOMAIN sim : Alike(plan[msg[s]], plan[msg[t]]) => msg[s] = msg[t]

Held(msg, m) == {s \in DOMAIN sim : msg[s] = m}

\* What is read in a slot that holds segment i of p.
IsSlotOf(s, p, i) ==
  /\ s \in WellFormed
  /\ sim[s].sender = p.offer.number.digits /\ sim[s].text = PiecesOf(p.offer)[i]
  /\ s \in Singles <=> ~Headed(p)
  /\ Headed(p) =>
       /\ SubSeq(sim[s].part, 1, 2) = <<Reference(p), Count(p)>>
       /\ sim[s].part[2] = Count(p) /\ Place(sim[s]) = i

\* Every slot is so read.
LEMMA SlotFields ==
  ASSUME NEW plan, NEW msg, NEW seg, Filed(plan, msg, seg), NEW s \in DOMAIN sim,
         NEW p, p = plan[msg[s]], NEW i, i = seg[s]
  PROVE  IsSlotOf(s, p, i)
  <1>1. IsRecord(sim[s], p, i)
    <2>1. sim[s] = Rec(p, i)
      BY Zenon DEF Filed
    <2>. QED
      BY <2>1, RecordFields, Zenon
  <1>2. /\ sim[s] # Malformed
        /\ sim[s].sender = p.offer.number.digits /\ sim[s].text = PiecesOf(p.offer)[i]
        /\ ~Headed(p) => sim[s].part = NoHeader
        /\ Headed(p) => sim[s].part = <<Reference(p), Count(p), i>> /\ sim[s].part # NoHeader
    BY <1>1, Zenon DEF IsRecord
  <1>3. s \in WellFormed
    BY <1>2, Zenon DEF WellFormed
  <1>4. s \in Singles <=> ~Headed(p)
    BY <1>2, <1>3, Zenon DEF Singles
  <1>5. Headed(p) =>
       /\ SubSeq(sim[s].part, 1, 2) = <<Reference(p), Count(p)>>
       /\ sim[s].part[2] = Count(p) /\ Place(sim[s]) = i
    <2>1. PICK a, b, t : a = Reference(p) /\ b = Count(p) /\ t = <<a, b, i>>
      OBVIOUS
    <2>2. SubSeq(t, 1, 2) = <<a, b>> /\ t[2] = b /\ t[3] = i
      BY FirstTwo, <2>1, Zenon
    <2>3. Headed(p) => sim[s].part = t
      BY <1>2, <2>1, Zenon
    <2>. QED
      BY <2>1, <2>2, <2>3, Zenon DEF Place
  <1>. QED
    BY <1>2, <1>3, <1>4, <1>5, Zenon DEF IsSlotOf

\* group_pdu_parts puts together what belongs to one message.
LEMMA BucketHolds ==
  ASSUME NEW plan, NEW msg, NEW seg, Filed(plan, msg, seg), NEW s \in WellFormed \ Singles
  PROVE  Bucket(s) = Held(msg, msg[s])
  <1>1. WellFormed = DOMAIN sim
    <2>1. \A t \in DOMAIN sim : t \in WellFormed
      BY SlotFields, Zenon DEF IsSlotOf
    <2>. QED
      BY <2>1, Zenon DEF WellFormed
  <1>2. ASSUME NEW t \in DOMAIN sim
        PROVE  /\ msg[t] \in DOMAIN plan
               /\ t \notin Singles <=> Headed(plan[msg[t]])
               /\ sim[t].sender = plan[msg[t]].offer.number.digits
               /\ Headed(plan[msg[t]]) => SubSeq(sim[t].part, 1, 2) = <<Reference(plan[msg[t]]), Count(plan[msg[t]])>>
    <2>1. PICK p, i : p = plan[msg[t]] /\ i = seg[t]
      OBVIOUS
    <2>2. IsSlotOf(t, p, i)
      BY <2>1, SlotFields, Zenon
    <2>3. msg[t] \in DOMAIN plan
      BY Zenon DEF Filed
    <2>. QED
      BY <2>1, <2>2, <2>3, Zenon DEF IsSlotOf
  <1>3. s \in DOMAIN sim /\ Headed(plan[msg[s]])
    BY <1>1, <1>2, Zenon
  <1>4. ASSUME NEW t \in Bucket(s) PROVE t \in Held(msg, msg[s])
    <2>1. /\ t \in WellFormed \ Singles /\ sim[t].sender = sim[s].sender
          /\ SubSeq(sim[t].part, 1, 2) = SubSeq(sim[s].part, 1, 2)
      BY Zenon DEF Bucket, SameKey
    <2>2. t \in DOMAIN sim /\ Headed(plan[msg[t]])
      BY <1>1, <1>2, <2>1, Zenon
    <2>3. ASSUME NEW a, NEW b, NEW c, NEW d, <<a, b>> = <<c, d>> PROVE a = c /\ b = d
      BY <2>3
    <2>4. Alike(plan[msg[t]], plan[msg[s]])
      <3>1. PICK p, q : p = plan[msg[t]] /\ q = plan[msg[s]]
        OBVIOUS
      <3>2. PICK a, b, c, d : a = Reference(p) /\ b = Count(p) /\ c = Reference(q) /\ d = Count(q)
        OBVIOUS
      <3>3. SubSeq(sim[t].part, 1, 2) = <<a, b>> /\ SubSeq(sim[s].part, 1, 2) = <<c, d>>
        BY <1>2, <1>3, <2>2, <3>1, <3>2, Zenon
      <3>4. <<a, b>> = <<c, d>>
        BY <2>1, <3>3, Zenon
      <3>5. a = c /\ b = d
        BY <2>3, <3>4, Zenon
      <3>6. sim[t].sender = p.offer.number.digits /\ sim[s].sender = q.offer.number.digits
        BY <1>2, <1>3, <2>2, <3>1, Zenon
      <3>7. Alike(p, q)
        BY <1>3, <2>1, <2>2, <3>1, <3>2, <3>5, <3>6, Zenon DEF Alike
      <3>. QED
        BY <3>1, <3>7, Zenon
    <2>5. msg[t] = msg[s]
      BY <1>3, <2>2, <2>4, Zenon DEF Filed
    <2>. QED
      BY <2>2, <2>5, Zenon DEF Held
  <1>5. ASSUME NEW t \in Held(msg, msg[s]) PROVE t \in Bucket(s)
    <2>1. t \in DOMAIN sim /\ msg[t] = msg[s]
      BY Zenon DEF Held
    <2>2. t \in WellFormed \ Singles
      BY <1>1, <1>2, <1>3, <2>1, Zenon
    <2>3. sim[t].sender = sim[s].sender /\ SubSeq(sim[t].part, 1, 2) = SubSeq(sim[s].part, 1, 2)
      BY <1>2, <1>3, <2>1, Zenon
    <2>. QED
      BY <2>2, <2>3, Zenon DEF Bucket, SameKey
  <1>. QED
    BY <1>4, <1>5, Zenon

\* A bucket is complete when every segment is in it.
LEMMA CompleteWhen ==
  ASSUME NEW plan, NEW msg, NEW seg, Filed(plan, msg, seg),
         NEW m \in DOMAIN plan, Headed(plan[m]), Held(msg, m) # {}
  PROVE  Complete(Held(msg, m)) <=> \A i \in 1 .. Count(plan[m]) : Has(sim, msg, seg, m, i)
  <1>1. PICK n \in Nat : n = Count(plan[m])
    BY Zenon DEF Filed, IsSent
  <1>2. PICK B : B = Held(msg, m)
    OBVIOUS
  <1>3. IsFiniteSet(B)
    <2>1. B \in SUBSET DOMAIN sim /\ IsFiniteSet(DOMAIN sim)
      BY <1>2, Zenon DEF Held, Filed
    <2>. QED
      BY <2>1, FS_Subset, Zenon
  <1>4. ASSUME NEW s \in B
        PROVE  seg[s] \in 1 .. n /\ sim[s].part[2] = n /\ Place(sim[s]) = seg[s] /\ s \in DOMAIN sim /\ msg[s] = m
    <2>1. s \in DOMAIN sim /\ msg[s] = m
      BY <1>2, Zenon DEF Held
    <2>2. PICK p, i : p = plan[msg[s]] /\ i = seg[s]
      OBVIOUS
    <2>3. IsSlotOf(s, p, i)
      BY <2>1, <2>2, SlotFields, Zenon
    <2>4. sim[s].part[2] = n /\ Place(sim[s]) = seg[s]
      BY <1>1, <2>1, <2>2, <2>3, Zenon DEF IsSlotOf
    <2>5. seg[s] \in 1 .. n
      BY <1>1, <2>1, Zenon DEF Filed
    <2>. QED
      BY <2>1, <2>4, <2>5, Zenon
  <1>5. PICK c : c = Cardinality(B)
    OBVIOUS
  <1>6. Complete(B) <=> (\A s \in B : n = c) /\ {seg[s] : s \in B} = 1 .. c
    <2>1. {Place(sim[s]) : s \in B} = {seg[s] : s \in B}
      <3>1. \A s \in B : Place(sim[s]) = seg[s]
        BY <1>4, Zenon
      <3>. QED
        BY <3>1, Zenon
    <2>2. (\A s \in B : sim[s].part[2] = c) <=> (\A s \in B : n = c)
      BY <1>4, Zenon
    <2>. QED
      BY <1>5, <2>1, <2>2, Zenon DEF Complete
  <1>7. ASSUME Complete(B), NEW i \in 1 .. n PROVE Has(sim, msg, seg, m, i)
    <2>1. n = c /\ {seg[s] : s \in B} = 1 .. c
      BY <1>2, <1>6, <1>7, Zenon
    <2>2. PICK s \in B : seg[s] = i
      BY <2>1, Zenon
    <2>. QED
      BY <1>4, <2>2, Zenon DEF Has
  <1>8. ASSUME \A i \in 1 .. n : Has(sim, msg, seg, m, i) PROVE Complete(B)
    <2>1. \A i \in 1 .. n : \E s \in B : seg[s] = i
      BY <1>2, <1>8, Zenon DEF Has, Held
    <2>2. {seg[s] : s \in B} = 1 .. n
      BY <1>4, <2>1, Zenon
    <2>3. n = c
      <3>1. PICK f : f = [s \in B |-> seg[s]]
        OBVIOUS
      <3>2. f \in [B -> 1 .. n]
        BY <1>4, <3>1
      <3>3. \A s, t \in B : f[s] = f[t] => s = t
        BY <1>4, <3>1, Zenon DEF Filed
      <3>4. \A i \in 1 .. n : \E s \in B : f[s] = i
        BY <2>1, <3>1, Zenon
      <3>5. f \in Injection(B, 1 .. n) /\ f \in Surjection(B, 1 .. n)
        BY <3>2, <3>3, <3>4, Zenon DEF Injection, Surjection, IsInjective
      <3>6. ExistsBijection(B, 1 .. n)
        BY <3>5, Zenon DEF ExistsBijection, Bijection
      <3>7. Cardinality(1 .. n) = Cardinality(B)
        BY <1>3, <3>6, FS_Bijection, Zenon
      <3>8. Cardinality(1 .. n) = n
        BY FS_Interval
      <3>. QED
        BY <1>5, <3>7, <3>8, Zenon
    <2>. QED
      BY <1>6, <2>2, <2>3, Zenon
  <1>. QED
    BY <1>1, <1>2, <1>7, <1>8, Zenon

\* What assembly joins is the text.
LEMMA JoinedText ==
  ASSUME NEW plan, NEW msg, NEW seg, Filed(plan, msg, seg),
         NEW m \in DOMAIN plan, Headed(plan[m]), Complete(Held(msg, m)), Held(msg, m) # {}
  PROVE  [sender |-> sim[CHOOSE s \in Held(msg, m) : TRUE].sender, text |-> Joined(Held(msg, m))]
           = Message(plan[m].offer)
  <1>1. PICK p : p = plan[m]
    OBVIOUS
  <1>2. PICK n \in Nat, pieces \in Seq(Seq(Characters)) :
          n = Count(p) /\ pieces = PiecesOf(p.offer) /\ FlattenSeq(pieces) = p.offer.text
    BY <1>1, Zenon DEF Filed, IsSent
  <1>3. PICK B : B = Held(msg, m)
    OBVIOUS
  <1>4. ASSUME NEW s \in B
        PROVE  /\ sim[s].sender = p.offer.number.digits /\ sim[s].text = pieces[seg[s]]
               /\ sim[s].part[2] = n /\ Place(sim[s]) = seg[s]
    <2>1. s \in DOMAIN sim /\ msg[s] = m
      BY <1>3, Zenon DEF Held
    <2>2. PICK i : i = seg[s]
      OBVIOUS
    <2>3. IsSlotOf(s, p, i)
      BY <1>1, <2>1, <2>2, SlotFields, Zenon
    <2>. QED
      BY <1>1, <1>2, <2>2, <2>3, Zenon DEF IsSlotOf
  <1>5. Cardinality(B) = n /\ {Place(sim[s]) : s \in B} = 1 .. n
    <2>1. \A s \in B : sim[s].part[2] = Cardinality(B)
      BY <1>3, Zenon DEF Complete
    <2>2. PICK s \in B : TRUE
      BY <1>3, Zenon
    <2>3. Cardinality(B) = n
      <3>1. sim[s].part[2] = n /\ sim[s].part[2] = Cardinality(B)
        BY <1>4, <2>1, <2>2, Zenon
      <3>. QED
        BY <3>1, Zenon
    <2>. QED
      BY <1>3, <2>3, Zenon DEF Complete
  <1>6. ASSUME NEW k \in 1 .. n
        PROVE  sim[CHOOSE s \in B : Place(sim[s]) = k].text = pieces[k]
    <2>1. \E s \in B : Place(sim[s]) = k
      BY <1>5, Zenon
    <2>2. PICK s : s = CHOOSE t \in B : Place(sim[t]) = k
      OBVIOUS
    <2>3. s \in B /\ Place(sim[s]) = k
      BY <2>1, <2>2, Zenon
    <2>. QED
      BY <1>4, <2>2, <2>3, Zenon
  <1>7. Joined(B) = p.offer.text
    <2>1. pieces = [k \in 1 .. n |-> pieces[k]]
      <3>1. n = Len(pieces)
        BY <1>2, Zenon DEF Count
      <3>. QED
        BY <3>1
    <2>2. [k \in 1 .. n |-> sim[CHOOSE s \in B : Place(sim[s]) = k].text] = [k \in 1 .. n |-> pieces[k]]
      BY <1>6, Zenon
    <2>. QED
      BY <1>2, <1>5, <2>1, <2>2, Zenon DEF Joined
  <1>8. sim[CHOOSE s \in B : TRUE].sender = p.offer.number.digits
    <2>1. PICK s : s = CHOOSE t \in B : TRUE
      OBVIOUS
    <2>2. s \in B
      BY <1>3, <2>1, Zenon
    <2>. QED
      BY <1>4, <2>1, <2>2, Zenon
  <1>. QED
    BY <1>1, <1>3, <1>7, <1>8, Zenon DEF Message

\* A message without a header is in one slot.
LEMMA SingleText ==
  ASSUME NEW plan, NEW msg, NEW seg, Filed(plan, msg, seg), NEW s \in Singles
  PROVE  /\ [sender |-> sim[s].sender, text |-> sim[s].text] = Message(plan[msg[s]].offer)
         /\ \A i \in 1 .. Count(plan[msg[s]]) : Has(sim, msg, seg, msg[s], i)
  <1>1. s \in DOMAIN sim
    BY Zenon DEF Singles, WellFormed
  <1>2. PICK m, p, i : m = msg[s] /\ p = plan[m] /\ i = seg[s]
    OBVIOUS
  <1>3. IsSlotOf(s, p, i)
    BY <1>1, <1>2, SlotFields, Zenon
  <1>4. PICK n \in Nat, pieces \in Seq(Seq(Characters)) :
          n = Count(p) /\ n # 0 /\ pieces = PiecesOf(p.offer) /\ FlattenSeq(pieces) = p.offer.text
    BY <1>1, <1>2, Zenon DEF Filed, IsSent
  <1>5. n = 1
    <2>1. ~(n > 1)
      BY <1>3, <1>4, Zenon DEF IsSlotOf, Headed
    <2>. QED
      BY <1>4, <2>1
  <1>6. i = 1 /\ \A j \in 1 .. n : j = i
    <2>1. i \in 1 .. n
      BY <1>1, <1>2, <1>4, Zenon DEF Filed
    <2>. QED
      BY <1>5, <2>1
  <1>7. FlattenSeq(pieces) = pieces[1]
    <2>1. Len(pieces) = 1
      BY <1>4, <1>5, Zenon DEF Count
    <2>. QED
      BY <2>1, OnePiece, Zenon
  <1>8. [sender |-> sim[s].sender, text |-> sim[s].text] = Message(p.offer)
    BY <1>3, <1>4, <1>6, <1>7, Zenon DEF IsSlotOf, Message
  <1>9. ASSUME NEW j \in 1 .. n PROVE Has(sim, msg, seg, m, j)
    BY <1>1, <1>2, <1>6, Zenon DEF Has
  <1>. QED
    BY <1>2, <1>4, <1>8, <1>9, Zenon

\* The buckets that the poll assembles, and what is stored of them and of the others.
Buckets == {b \in {Bucket(s) : s \in WellFormed \ Singles} : Complete(b)}
Loose == {[sender |-> sim[s].sender, text |-> sim[s].text] : s \in Singles}
Bound == {[sender |-> sim[CHOOSE s \in b : TRUE].sender, text |-> Joined(b)] : b \in Buckets}

\* The poll assembles the messages whose segments are all held, and deletes these.
LEMMA PollDoes ==
  ASSUME NEW plan, NEW msg, NEW seg, Filed(plan, msg, seg), NEW whole,
         \A s \in DOMAIN sim : msg[s] \notin whole,
         NEW full, full = Full(sim, plan, msg, seg, whole), PollIncoming
  PROVE  /\ ref' = ref /\ sending' = sending /\ done' = done /\ air' = air /\ sent' = sent /\ listed' = TRUE
         /\ redrawn' = redrawn /\ reused' = reused
         /\ received' = received \cup {Message(plan[m].offer) : m \in full}
         /\ sim' = [s \in Staying(sim, plan, msg, seg, whole) |-> sim[s]]
  <1>1. /\ ref' = ref /\ sending' = sending /\ done' = done /\ air' = air /\ sent' = sent /\ listed' = TRUE
        /\ redrawn' = redrawn /\ reused' = reused
        /\ received' = (received \cup Loose) \cup Bound
        /\ sim' = [s \in DOMAIN sim \ (Singles \cup UNION Buckets) |-> sim[s]]
    BY DEF PollIncoming, Buckets, Loose, Bound
  <1>2. \A m : m \in full <=> /\ m \in DOMAIN plan \ whole
                              /\ \A i \in 1 .. Count(plan[m]) : Has(sim, msg, seg, m, i)
    BY Zenon DEF Full
  <1>3. ASSUME NEW s \in DOMAIN sim
        PROVE  s \in WellFormed /\ (s \in Singles <=> ~Headed(plan[msg[s]])) /\ msg[s] \in DOMAIN plan \ whole
    <2>1. PICK p, i : p = plan[msg[s]] /\ i = seg[s]
      OBVIOUS
    <2>2. IsSlotOf(s, p, i)
      BY <2>1, SlotFields, Zenon
    <2>. QED
      BY <2>1, <2>2, Zenon DEF IsSlotOf, Filed
  <1>4. ASSUME NEW s \in Singles
        PROVE  /\ [sender |-> sim[s].sender, text |-> sim[s].text] = Message(plan[msg[s]].offer)
               /\ s \in DOMAIN sim /\ msg[s] \in full
    <2>1. s \in DOMAIN sim
      BY Zenon DEF Singles, WellFormed
    <2>2. \A i \in 1 .. Count(plan[msg[s]]) : Has(sim, msg, seg, msg[s], i)
      BY SingleText, Zenon
    <2>3. [sender |-> sim[s].sender, text |-> sim[s].text] = Message(plan[msg[s]].offer)
      BY SingleText, Zenon
    <2>. QED
      BY <1>2, <1>3, <2>1, <2>2, <2>3, Zenon
  <1>5. ASSUME NEW s \in WellFormed \ Singles
        PROVE  /\ s \in DOMAIN sim /\ s \in Bucket(s) /\ Bucket(s) = Held(msg, msg[s])
               /\ Complete(Bucket(s)) <=> msg[s] \in full
               /\ Complete(Bucket(s)) =>
                    [sender |-> sim[CHOOSE t \in Bucket(s) : TRUE].sender, text |-> Joined(Bucket(s))]
                      = Message(plan[msg[s]].offer)
    <2>1. s \in DOMAIN sim
      BY Zenon DEF WellFormed
    <2>2. Bucket(s) = Held(msg, msg[s])
      BY BucketHolds, Zenon
    <2>3. PICK m \in DOMAIN plan : m = msg[s] /\ Headed(plan[m]) /\ m \notin whole
      BY <1>3, <2>1, Zenon
    <2>4. PICK B : B = Held(msg, m)
      OBVIOUS
    <2>5. s \in B
      BY <2>1, <2>3, <2>4, Zenon DEF Held
    <2>6. Complete(B) <=> \A i \in 1 .. Count(plan[m]) : Has(sim, msg, seg, m, i)
      <3>1. Held(msg, m) # {}
        BY <2>4, <2>5, Zenon
      <3>. QED
        BY <2>3, <2>4, <3>1, CompleteWhen, Zenon
    <2>7. ASSUME Complete(B)
          PROVE  [sender |-> sim[CHOOSE t \in B : TRUE].sender, text |-> Joined(B)] = Message(plan[m].offer)
      <3>1. Held(msg, m) # {} /\ Complete(Held(msg, m))
        BY <2>4, <2>5, <2>7, Zenon
      <3>2. [sender |-> sim[CHOOSE t \in Held(msg, m) : TRUE].sender, text |-> Joined(Held(msg, m))]
              = Message(plan[m].offer)
        BY <2>3, <3>1, JoinedText
      <3>. QED
        BY <2>4, <3>2, Zenon
    <2>8. Bucket(s) = B
      BY <2>2, <2>3, <2>4, Zenon
    <2>. QED
      BY <1>2, <2>1, <2>2, <2>3, <2>5, <2>6, <2>7, <2>8, Zenon
  <1>6. ASSUME NEW s \in DOMAIN sim
        PROVE  s \in Singles \cup UNION Buckets <=> msg[s] \in full
    <2>1. CASE s \in Singles
      BY <1>4, <2>1, Zenon
    <2>2. CASE s \notin Singles
      <3>1. s \in WellFormed \ Singles
        BY <1>3, <2>2, Zenon
      <3>2. ASSUME msg[s] \in full PROVE s \in UNION Buckets
        BY <1>5, <3>1, <3>2, Zenon DEF Buckets
      <3>3. ASSUME s \in UNION Buckets PROVE msg[s] \in full
        <4>1. PICK b \in Buckets : s \in b
          BY <3>3, Zenon
        <4>2. PICK t \in WellFormed \ Singles : b = Bucket(t)
          BY Zenon DEF Buckets
        <4>3. Complete(Bucket(t)) /\ s \in Held(msg, msg[t])
          BY <1>5, <4>1, <4>2, Zenon DEF Buckets
        <4>4. msg[s] = msg[t]
          BY <4>3, Zenon DEF Held
        <4>. QED
          BY <1>5, <4>3, <4>4, Zenon
      <3>. QED
        BY <2>2, <3>2, <3>3, Zenon
    <2>. QED
      BY <2>1, <2>2, Zenon
  <1>7. sim' = [s \in Staying(sim, plan, msg, seg, whole) |-> sim[s]]
    <2>1. Staying(sim, plan, msg, seg, whole) = DOMAIN sim \ (Singles \cup UNION Buckets)
      BY <1>6, Zenon DEF Staying
    <2>. QED
      BY <1>1, <2>1, Zenon
  <1>8. Loose \cup Bound = {Message(plan[m].offer) : m \in full}
    <2>1. ASSUME NEW x \in Loose PROVE x \in {Message(plan[m].offer) : m \in full}
      BY <1>4, Zenon DEF Loose
    <2>2. ASSUME NEW x \in Bound PROVE x \in {Message(plan[m].offer) : m \in full}
      <3>1. PICK b \in Buckets : x = [sender |-> sim[CHOOSE s \in b : TRUE].sender, text |-> Joined(b)]
        BY Zenon DEF Bound
      <3>2. PICK t \in WellFormed \ Singles : b = Bucket(t) /\ Complete(b)
        BY Zenon DEF Buckets
      <3>3. msg[t] \in full /\ x = Message(plan[msg[t]].offer)
        BY <1>5, <3>1, <3>2, Zenon
      <3>. QED
        BY <3>3, Zenon
    <2>3. ASSUME NEW m \in full PROVE Message(plan[m].offer) \in Loose \cup Bound
      <3>1. 1 \in 1 .. Count(plan[m])
        <4>1. Count(plan[m]) \in Nat /\ Count(plan[m]) # 0
          BY <1>2, Zenon DEF Filed, IsSent
        <4>. QED
          BY <4>1
      <3>2. PICK s \in DOMAIN sim : msg[s] = m
        BY <1>2, <3>1, Zenon DEF Has
      <3>3. CASE s \in Singles
        BY <1>4, <3>2, <3>3, Zenon DEF Loose
      <3>4. CASE s \notin Singles
        <4>1. s \in WellFormed \ Singles
          BY <1>3, <3>4, Zenon
        <4>2. PICK b : b = Bucket(s)
          OBVIOUS
        <4>3. b \in Buckets /\ [sender |-> sim[CHOOSE t \in b : TRUE].sender, text |-> Joined(b)] = Message(plan[m].offer)
          BY <1>5, <3>2, <4>1, <4>2, Zenon DEF Buckets
        <4>. QED
          BY <4>3, Zenon DEF Bound
      <3>. QED
        BY <3>3, <3>4, Zenon
    <2>. QED
      BY <2>1, <2>2, <2>3, Zenon
  <1>9. received' = received \cup {Message(plan[m].offer) : m \in full}
    BY <1>1, <1>8, Zenon
  <1>. QED
    BY <1>1, <1>7, <1>9, Zenon

\* Where everything is, in these terms.
LEMMA FiledThere ==
  ASSUME Readable, NEW plan, NEW aired, NEW msg, NEW seg, NEW whole,
         Delivery(plan, aired, msg, seg, whole)
  PROVE  Filed(plan, msg, seg)
  <1>1. /\ Taken(plan, done, ref) /\ Stored(sim, plan, aired, msg, seg, whole)
        /\ \A m \in DOMAIN plan : aired[m] \in 0 .. Count(plan[m])
    BY Zenon DEF Delivery, Kept
  <1>2. \A m \in DOMAIN plan : IsSent(plan[m])
    BY <1>1, SentOf, Zenon DEF Taken
  <1>3. ASSUME NEW s \in DOMAIN sim
        PROVE  /\ msg[s] \in DOMAIN plan /\ seg[s] \in 1 .. Count(plan[msg[s]])
               /\ sim[s] = Rec(plan[msg[s]], seg[s])
    <2>1. /\ msg[s] \in DOMAIN plan /\ seg[s] \in 1 .. aired[msg[s]]
          /\ sim[s] = Rec(plan[msg[s]], seg[s])
      BY <1>1, Zenon DEF Stored
    <2>2. PICK n \in Nat : n = Count(plan[msg[s]]) /\ aired[msg[s]] \in 0 .. n
      BY <1>1, <1>2, <2>1, Zenon DEF IsSent
    <2>3. seg[s] \in 1 .. n
      BY <2>1, <2>2
    <2>. QED
      BY <2>1, <2>2, <2>3, Zenon
  <1>4. ASSUME NEW s \in DOMAIN sim, NEW t \in DOMAIN sim, Alike(plan[msg[s]], plan[msg[t]])
        PROVE  msg[s] = msg[t]
    <2>1. PICK m, k : m = msg[s] /\ k = msg[t]
      OBVIOUS
    <2>2. m \in DOMAIN plan \ whole /\ k \in DOMAIN plan \ whole /\ Alike(plan[m], plan[k]) /\ Alike(plan[k], plan[m])
      BY <1>1, <1>4, <2>1, Zenon DEF Stored, Alike
    <2>3. aired[m] # 0 /\ aired[k] # 0
      <3>1. seg[s] \in 1 .. aired[m] /\ seg[t] \in 1 .. aired[k]
        BY <1>1, <2>1, Zenon DEF Stored
      <3>2. \A j \in DOMAIN plan : \A i \in 1 .. aired[j] : aired[j] # 0
        BY UnderWayOf
      <3>. QED
        BY <2>2, <3>1, <3>2, Zenon
    <2>4. ~(m < k) /\ ~(k < m)
      BY <2>2, <2>3, Zenon DEF Delivery, Unmixed
    <2>5. m \in Nat /\ k \in Nat
      <3>1. DOMAIN plan \subseteq Nat
        BY <1>1 DEF Taken
      <3>. QED
        BY <2>2, <3>1, Zenon
    <2>6. m = k
      BY <2>4, <2>5
    <2>. QED
      BY <2>1, <2>6, Zenon
  <1>. QED
    BY <1>1, <1>2, <1>3, <1>4, Zenon DEF Filed, Stored

\* poll_incoming keeps the invariant.
LEMMA PollDelivers == Readable /\ DeliveryInv /\ PollIncoming /\ ~reused => DeliveryInv'
  <1>. SUFFICES ASSUME Readable, DeliveryInv, PollIncoming, ~reused PROVE DeliveryInv'
    OBVIOUS
  <1>1. PICK plan, aired, msg, seg, whole : Delivery(plan, aired, msg, seg, whole)
    BY Zenon DEF DeliveryInv
  <1>2. /\ Taken(plan, done, ref) /\ (Separated /\ ~redrawn => Counted(plan, done, ref))
        /\ Unmixed(plan, aired, whole)
        /\ Progress(plan, aired, done, sending)
        /\ Kept(sim, air, received, sent, listed, plan, aired, msg, seg, whole)
    BY <1>1, Zenon DEF Delivery
  <1>3. Filed(plan, msg, seg)
    BY <1>1, FiledThere, Zenon
  <1>4. \A s \in DOMAIN sim : msg[s] \notin whole
    BY <1>2, Zenon DEF Kept, Stored
  <1>5. PICK full : full = Full(sim, plan, msg, seg, whole)
    OBVIOUS
  <1>6. /\ ref' = ref /\ sending' = sending /\ done' = done /\ air' = air /\ sent' = sent /\ listed' = TRUE
        /\ redrawn' = redrawn /\ reused' = reused
        /\ received' = received \cup {Message(plan[m].offer) : m \in full}
        /\ sim' = [s \in Staying(sim, plan, msg, seg, whole) |-> sim[s]]
    BY <1>3, <1>4, <1>5, PollDoes
  <1>7. PICK slots2, got2 : slots2 = sim' /\ got2 = received'
    OBVIOUS
  <1>8. /\ slots2 = [s \in Staying(sim, plan, msg, seg, whole) |-> sim[s]]
        /\ got2 = received \cup {Message(plan[m].offer) : m \in full}
        /\ \A k \in DOMAIN plan : Count(plan[k]) \in Nat /\ Count(plan[k]) # 0
    BY <1>3, <1>6, <1>7, Zenon DEF Filed, IsSent
  <1>9. PICK w : w = whole \cup full
    OBVIOUS
  <1>10. Kept(slots2, air, got2, sent, TRUE, plan, aired, msg, seg, w)
    <2>1. Kept(slots2, air, got2, sent, TRUE, plan, aired, msg, seg, whole \cup full)
      BY <1>2, <1>5, <1>8, AllListed
    <2>. QED
      BY <1>9, <2>1, Zenon
  <1>11. Unmixed(plan, aired, w)
    BY <1>2, <1>9, Zenon DEF Unmixed
  <1>12. Delivery(plan, aired, msg, seg, w)'
    BY <1>2, <1>6, <1>7, <1>10, <1>11, Zenon DEF Delivery
  <1>. QED
    BY <1>12, Zenon DEF DeliveryInv

-----------------------------------------------------------------------------
\* Every message the poll assembled is one that went out as a whole; once nothing is on the
\* air and the SIM was listed, each of these was assembled.
LEMMA DeliveryWhole == DeliveryInv => TextsArriveWhole
  <1>. SUFFICES ASSUME DeliveryInv, ~reused
                PROVE  received \subseteq sent /\ (air = {} /\ listed => received = sent)
    BY Zenon DEF TextsArriveWhole
  <1>1. PICK plan, aired, msg, seg, whole : Delivery(plan, aired, msg, seg, whole)
    BY Zenon DEF DeliveryInv
  <1>2. /\ Airborne(air, sim, plan, aired, msg, seg, whole)
        /\ whole \subseteq Finished(plan, aired)
        /\ received = {Message(plan[m].offer) : m \in whole}
        /\ sent = {Message(plan[m].offer) : m \in Finished(plan, aired)}
        /\ listed => Lacking(sim, plan, msg, seg, whole)
    BY <1>1, Zenon DEF Delivery, Kept, Assembled
  <1>3. received \subseteq sent
    BY <1>2, Zenon
  <1>4. ASSUME air = {}, listed PROVE Finished(plan, aired) \subseteq whole
    <2>1. ASSUME NEW m \in Finished(plan, aired), m \notin whole PROVE FALSE
      <3>1. m \in DOMAIN plan \ whole /\ aired[m] = Count(plan[m])
        BY <2>1, Zenon DEF Finished
      <3>2. PICK i \in 1 .. Count(plan[m]) : ~Has(sim, msg, seg, m, i)
        BY <1>2, <1>4, <3>1, Zenon DEF Lacking
      <3>3. AirOf(plan[m], m, i) \in air
        BY <1>2, <3>1, <3>2, Zenon DEF Airborne
      <3>. QED
        BY <1>4, <3>3, Zenon
    <2>. QED
      BY <2>1, Zenon
  <1>5. ASSUME air = {}, listed PROVE received = sent
    BY <1>2, <1>3, <1>4, <1>5, Zenon
  <1>. QED
    BY <1>3, <1>5, Zenon

\* What is not a step changes nothing.
LEMMA DeliveryStutters == DeliveryInv /\ UNCHANGED vars /\ ~reused => DeliveryInv'
  <1>. SUFFICES ASSUME DeliveryInv, UNCHANGED vars, ~reused PROVE DeliveryInv'
    OBVIOUS
  <1>1. PICK plan, aired, msg, seg, whole : Delivery(plan, aired, msg, seg, whole)
    BY Zenon DEF DeliveryInv
  <1>2. /\ ref' = ref /\ sending' = sending /\ done' = done /\ air' = air /\ sim' = sim
        /\ listed' = listed /\ sent' = sent /\ received' = received /\ redrawn' = redrawn
    BY DEF vars
  <1>3. Delivery(plan, aired, msg, seg, whole)'
    BY <1>1, <1>2, Zenon DEF Delivery
  <1>. QED
    BY <1>3, Zenon DEF DeliveryInv

\* The counter is drawn again by Reconnect only, and a reference reused by SendSms only.
LEMMA CounterStays == CounterInv /\ [Next]_vars /\ ~SendSms => CounterInv'
  <1>. SUFFICES ASSUME CounterInv, [Next]_vars, ~SendSms PROVE CounterInv'
    OBVIOUS
  <1>1. CASE Reconnect
    BY <1>1, Zenon DEF Reconnect, CounterInv
  <1>2. CASE ~Reconnect
    <2>1. redrawn' = redrawn /\ reused' = reused
      BY <1>2 DEF Next, SegmentSent, SegmentFails, Arrive, PollIncoming, vars
    <2>. QED
      BY <2>1, Zenon DEF CounterInv
  <1>. QED
    BY <1>1, <1>2

\* A reference once reused stays so.
LEMMA ReusedStays == [Next]_vars /\ reused => reused'
  BY DEF Next, SendSms, SegmentSent, SegmentFails, Reconnect, Arrive, PollIncoming, vars

\* Both invariants hold in every state.
LEMMA Delivers == Readable => (Spec => [](DeliveryInv /\ CounterInv))
  <1>. SUFFICES ASSUME Readable PROVE Spec => [](DeliveryInv /\ CounterInv)
    OBVIOUS
  <1>1. Init => DeliveryInv /\ CounterInv
    BY DeliveryInit DEF Init, CounterInv
  <1>2. DeliveryInv /\ CounterInv /\ [Next]_vars => DeliveryInv' /\ CounterInv'
    <2>. SUFFICES ASSUME DeliveryInv, CounterInv, [Next]_vars PROVE DeliveryInv' /\ CounterInv'
      OBVIOUS
    <2>1. CASE ~reused
      <3>1. CASE SendSms
        BY <2>1, <3>1, SendSmsDelivers, Zenon
      <3>2. CASE ~SendSms
        <4>1. CounterInv'
          BY <3>2, CounterStays, Zenon
        <4>2. CASE SegmentSent \/ SegmentFails
          BY <2>1, <4>1, <4>2, SubmitDelivers, Zenon
        <4>3. CASE Reconnect
          BY <2>1, <4>1, <4>3, ReconnectDelivers, Zenon
        <4>4. CASE Arrive
          BY <2>1, <4>1, <4>4, ArriveDelivers, Zenon
        <4>5. CASE PollIncoming
          BY <2>1, <4>1, <4>5, PollDelivers, Zenon
        <4>6. CASE UNCHANGED vars
          BY <2>1, <4>1, <4>6, DeliveryStutters, Zenon
        <4>. QED
          BY <3>2, <4>2, <4>3, <4>4, <4>5, <4>6, Zenon DEF Next
      <3>. QED
        BY <3>1, <3>2
    <2>2. CASE reused
      <3>1. reused'
        BY <2>2, ReusedStays, Zenon
      <3>2. CounterInv'
        <4>1. redrawn => redrawn'
          BY DEF Next, SendSms, SegmentSent, SegmentFails, Reconnect, Arrive, PollIncoming, vars
        <4>. QED
          BY <2>2, <4>1, Zenon DEF CounterInv
      <3>. QED
        BY <3>1, <3>2, Zenon DEF DeliveryInv
    <2>. QED
      BY <2>1, <2>2
  <1>. QED
    BY <1>1, <1>2, PTL DEF Spec

\* The recipient assembles exactly the texts that went out as a whole, in whatever mode they
\* were sent, in whatever order their segments arrive and however they are listed: however
\* many messages there are and however often the counter is drawn again, as long as no message
\* gets the reference of segments still under way.
THEOREM TextsDelivered == Readable => (Spec => []TextsArriveWhole)
  <1>. SUFFICES ASSUME Readable PROVE Spec => []TextsArriveWhole
    OBVIOUS
  <1>. QED
    BY Delivers, DeliveryWhole, PTL

\* No message does while one ATDevice is in use, of at most 256 messages: its counter tells them
\* apart.
THEOREM CounterSeparates == Readable /\ Separated => (Spec => []OneDeviceNeverReuses)
  <1>. SUFFICES ASSUME Readable, Separated PROVE Spec => []OneDeviceNeverReuses
    OBVIOUS
  <1>1. CounterInv => OneDeviceNeverReuses
    BY Zenon DEF CounterInv, OneDeviceNeverReuses
  <1>. QED
    BY <1>1, Delivers, PTL
===============================================================================
