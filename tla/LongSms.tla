------------------------------- MODULE LongSms -------------------------------
(***************************************************************************)
(* Texts from one bridge to another: send_sms chooses the mode, splits and *)
(* encodes; the network delivers the segments in any order; the poll of    *)
(* the other bridge parses what its SIM holds and assembles the complete   *)
(* messages.  A send may stop after any segment, and the device may be     *)
(* replaced by a new one between two sends, which draws its counter of     *)
(* references anew.                                                        *)
(*                                                                         *)
(* The module and the network are external: a text given in TEXT mode goes *)
(* out as one PDU of septets; a PDU arrives as an SMS-DELIVER with a time  *)
(* stamp, and is listed with the address of the message centre in front or *)
(* without.  The destination's number stands for the sender's, which has   *)
(* the same form.  Dates, storing, and a SIM that is full or keeps what    *)
(* was to be deleted, are SmsReceive's.                                    *)
(***************************************************************************)
EXTENDS PduCodec, FiniteSets

CONSTANTS Offers,       \* Offers[m]: what the m-th message may be: [number, text, old]
          FirstRefs,    \* values _ref_counter may be drawn from
          MaxSegments,  \* 255
          Octets        \* user data of an SMS: 140

\* A message offered: to a number, a text; old when an older build sends it, which knew
\* GSM-7 only.
Offer == [number : [plus : BOOLEAN, digits : Seq(0 .. 9)], text : Seq(Characters), old : BOOLEAN]
ASSUME OffersAssumption ==
  /\ Offers \in Seq(SUBSET Offer)
  /\ \A m \in DOMAIN Offers : \A o \in Offers[m] :
       Len(o.number.digits) <= 255 /\ (o.old => AsciiTextEligible(o.text))

\* What the limits of split_gsm7 and split_ucs2 are chosen for: a whole message, and a
\* segment behind a header of six octets, fit the user data.
ASSUME SizesAssumption ==
  /\ FirstRefs \subseteq Nat /\ MaxSegments \in 0 .. 255 /\ Octets \in 0 .. 255
  /\ GsmSingle <= 255 /\ CeilDiv(7 * GsmSingle, 8) <= Octets
  /\ HeaderSeptets(6) + GsmCap <= 255 /\ CeilDiv(7 * (HeaderSeptets(6) + GsmCap), 8) <= Octets
  /\ 6 + 2 * Ucs2Cap <= Octets

VARIABLES ref,       \* _ref_counter of the ATDevice in use
          sending,   \* segments of the message still to be submitted, with its number
          done,      \* messages taken up
          air,       \* segments in transit
          sim,       \* what the poll parses from the SIM's records, by its slot there
          listed,    \* the SIM was listed since the last arrival
          sent,      \* messages that are on the air as a whole: [sender, text]
          received,  \* messages assembled
          \* For the properties; no action reads them.
          redrawn,   \* the counter was drawn again
          reused     \* a message got the reference of segments still under way

vars == <<ref, sending, done, air, sim, listed, sent, received, redrawn, reused>>

Idle == [message |-> <<>>, rest |-> <<>>]

-----------------------------------------------------------------------------
(***************************************************************************)
(* What the recipient gets of a PDU.                                       *)
(***************************************************************************)
Scts == <<98, 1, 81, 33, 64, 97, 35>>
MessageCentre == <<7, 145, 148, 113, 1, 103, 69, 248>>

ToDeliver(pdu) ==
  LET n == 4 + CeilDiv(pdu[3], 2) IN
  <<pdu[1] - 17>> \o SubSeq(pdu, 3, n + 2) \o Scts \o Drop(pdu, n + 3)

\* What a record of the SIM is parsed to, which is listed with what is in front of the PDU.
Listed(front, pdu) == ParseSmsPdu(front \o ToDeliver(pdu))

\* Segments that group_pdu_parts takes for parts of one message: of the same sender, with the
\* same reference and total.
SameKey(p, q) == p.sender = q.sender /\ SubSeq(p.part, 1, 2) = SubSeq(q.part, 1, 2)

\* Segments on the air or in the SIM have the key of the message that pdus are.
UnderWay == {Listed(<<>>, p.pdu) : p \in air} \cup {sim[s] : s \in DOMAIN sim}
Reuses(pdus) ==
  /\ pdus # <<>>
  /\ LET first == Listed(<<>>, Head(pdus))
     IN  \E p \in UnderWay : /\ p # Malformed /\ p.part # NoHeader /\ first.part # NoHeader
                             /\ SameKey(p, first)

-----------------------------------------------------------------------------
(***************************************************************************)
(* Sending.                                                                *)
(***************************************************************************)
\* _send_pdu: the PDUs of a text; more than MaxSegments raise.
Segments(number, text, use_gsm7, r) ==
  LET pieces == IF use_gsm7 THEN SplitGsm7(text, GsmCap) ELSE SplitUcs2(text, Ucs2Cap)
      udh(i) == IF Len(pieces) > 1 THEN ConcatUdh(r, Len(pieces), i) ELSE NoHeader
  IN  [i \in DOMAIN pieces |->
        IF use_gsm7 THEN Gsm7Pdu(number, pieces[i], udh(i)) ELSE Ucs2Pdu(number, pieces[i], udh(i))]

\* The PDU the module makes of a text it is given in TEXT mode.
TextModePdu(number, text) == Gsm7Pdu(number, text, NoHeader)

\* What older builds sent for a long text: the header in the stream of septets.
OldSegments(number, text, r) ==
  LET pieces == SplitGsm7(text, GsmCap) IN
  [i \in DOMAIN pieces |->
    LET septets == <<5, 0, 3, r % 128, Len(pieces), i>> \o Gsm7Septets(pieces[i])
    IN  [Submit(number, NoHeader, 0, Len(septets), Pack(NoHeader, septets)) EXCEPT ![1] = 81]]

Message(offer) == [sender |-> offer.number.digits, text |-> offer.text]

\* Variant of NextRef: the counter stands.
NextRefStands(r) == r % 256

\* _next_ref.
NextRef(r) == (r + 1) % 256

\* send_sms up to the first AT+CMGS.
SendSms ==
  /\ sending = Idle /\ done < Len(Offers)
  /\ done' = done + 1
  /\ \E offer \in Offers[done + 1] :
       LET use_gsm7 == AsciiTextEligible(offer.text)
           next == NextRef(ref)
           pdus == Segments(offer.number, offer.text, use_gsm7, next)
       IN  IF offer.old
           THEN /\ sending' = [message |-> Message(offer),
                               rest |-> OldSegments(offer.number, offer.text, ref)]
                /\ UNCHANGED ref
           ELSE IF use_gsm7 /\ Len(SplitGsm7(offer.text, GsmSingle)) = 1
           THEN /\ sending' = [message |-> Message(offer),
                               rest |-> <<TextModePdu(offer.number, offer.text)>>]
                /\ UNCHANGED ref
           ELSE IF Len(pdus) > MaxSegments
           THEN UNCHANGED <<ref, sending>>
           ELSE /\ sending' = [message |-> Message(offer), rest |-> pdus]
                /\ ref' = next
  /\ reused' = (reused \/ Reuses(sending'.rest))
  /\ UNCHANGED <<air, sim, listed, sent, received, redrawn>>

Aired == air \cup {[of |-> done, pdu |-> Head(sending.rest), left |-> Len(sending.rest)]}

\* _cmgs_exchange ends well: the segment is out, and the next one's turn.
SegmentSent ==
  /\ sending # Idle
  /\ air' = Aired
  /\ sending' = IF Len(sending.rest) = 1 THEN Idle ELSE [sending EXCEPT !.rest = Tail(@)]
  /\ sent' = IF Len(sending.rest) = 1 THEN sent \cup {sending.message} ELSE sent
  /\ UNCHANGED <<ref, done, sim, listed, received, redrawn, reused>>

\* It ends badly, after the segment went out or before: the rest is not tried.
SegmentFails ==
  /\ sending # Idle
  /\ sending' = Idle
  /\ \/ UNCHANGED <<air, sent>>
     \/ /\ air' = Aired
        /\ sent' = IF Len(sending.rest) = 1 THEN sent \cup {sending.message} ELSE sent
  /\ UNCHANGED <<ref, done, sim, listed, received, redrawn, reused>>

\* connect_and_init opens a new ATDevice after a loss of the port or a restart.  A send that
\* these cut short has failed before.
Reconnect ==
  /\ sending = Idle
  /\ ref' \in FirstRefs
  /\ redrawn' = TRUE
  /\ UNCHANGED <<sending, done, air, sim, listed, sent, received, reused>>

-----------------------------------------------------------------------------
(***************************************************************************)
(* The network and the receiving module.                                   *)
(***************************************************************************)
FreeSlot == CHOOSE s \in 1 .. Cardinality(DOMAIN sim) + 1 : s \notin DOMAIN sim

Arrive ==
  /\ \E p \in air, front \in {<<>>, MessageCentre} :
       /\ air' = air \ {p}
       /\ sim' = [s \in DOMAIN sim \cup {FreeSlot} |->
                   IF s = FreeSlot THEN Listed(front, p.pdu) ELSE sim[s]]
  /\ listed' = FALSE
  /\ UNCHANGED <<ref, sending, done, sent, received, redrawn, reused>>

-----------------------------------------------------------------------------
(***************************************************************************)
(* The poll: group, assemble, delete.  What a record parses to depends on  *)
(* nothing else, so it is parsed when it arrives.                          *)
(***************************************************************************)
Place(p) == p.part[3]

WellFormed == {s \in DOMAIN sim : sim[s] # Malformed}
Singles == {s \in WellFormed : sim[s].part = NoHeader}

\* group_pdu_parts: one bucket for each sender, reference and total.
Bucket(s) == {t \in WellFormed \ Singles : SameKey(sim[t], sim[s])}

Complete(bucket) ==
  /\ \A s \in bucket : sim[s].part[2] = Cardinality(bucket)
  /\ {Place(sim[s]) : s \in bucket} = 1 .. Cardinality(bucket)

\* Sorted by their places, which are 1, 2, ... in a complete one.
Joined(bucket) ==
  FlattenSeq([k \in 1 .. Cardinality(bucket) |-> sim[CHOOSE s \in bucket : Place(sim[s]) = k].text])

PollIncoming ==
  LET complete == {b \in {Bucket(s) : s \in WellFormed \ Singles} : Complete(b)}
  IN  /\ ~listed
      /\ listed' = TRUE
      /\ received' = received
           \cup {[sender |-> sim[s].sender, text |-> sim[s].text] : s \in Singles}
           \cup {[sender |-> sim[CHOOSE s \in b : TRUE].sender, text |-> Joined(b)] : b \in complete}
      /\ sim' = [s \in DOMAIN sim \ (Singles \cup UNION complete) |-> sim[s]]
      /\ UNCHANGED <<ref, sending, done, air, sent, redrawn, reused>>

Init ==
  /\ ref \in FirstRefs
  /\ sending = Idle /\ done = 0
  /\ air = {} /\ sim = <<>> /\ listed = TRUE
  /\ sent = {} /\ received = {}
  /\ redrawn = FALSE /\ reused = FALSE

Next == SendSms \/ SegmentSent \/ SegmentFails \/ Reconnect \/ Arrive \/ PollIncoming

Spec == Init /\ [][Next]_vars

-----------------------------------------------------------------------------
\* atdevice.py, line 464: the recipient assembles exactly the texts that were sent, in
\* whatever mode, order and layout: never a part of one or a mixture of two, and all
\* of them once everything has arrived and was listed.  Not, though, when a message had the
\* reference, the number and the total of segments that were still under way.
TextsArriveWhole ==
  ~reused =>
    /\ received \subseteq sent
    /\ air = {} /\ listed => received = sent

\* _next_ref: one ATDevice gives no message the reference of segments that are still under
\* way.  A new one may, as its counter starts anywhere.
OneDeviceNeverReuses == redrawn \/ ~reused

\* A PDU fits an SMS: its length octet counts its user data in the unit of its alphabet,
\* and these are 140 octets at most.
Fits(pdu) ==
  LET at == 8 + CeilDiv(pdu[3], 2)
      udl == pdu[at]
      ud == Drop(pdu, at)
  IN  /\ Len(ud) <= Octets
      /\ Len(ud) = IF pdu[at - 2] = 8 THEN udl ELSE CeilDiv(7 * udl, 8)
      /\ \A i \in DOMAIN pdu : pdu[i] \in 0 .. 255

\* Every PDU on the air fits, whatever the text and wherever it was split.
SegmentsFit == \A p \in air : Fits(p.pdu)
=============================================================================
