----------------------------- MODULE MCSmsReceive -----------------------------
(***************************************************************************)
(* Instances of SmsReceive: which messages are sent, and which events the  *)
(* environment may cause.                                                  *)
(***************************************************************************)
EXTENDS SmsReceive, TLC

CONSTANTS long, short, odd, ref1

\* A two-segment SMS and a short one.
LongAndShort == {long, short}
\* And one whose PDU is not understood.
LongShortAndOdd == {long, short, odd}

Key == [m \in Sms |-> IF m = long THEN ref1 ELSE NoKey]
Total == [m \in Sms |-> IF m = long THEN 2 ELSE 1]
Body == [m \in Sms |-> m]
NoSms == {}
Odd == {odd}

TwoSlots == 1 .. 2
ThreeSlots == 1 .. 3
NoSlots == {}
FirstSlot == {1}

Quick == {"db", "cmgd", "cmgl", "reconnect", "crash"}
QuickAndDuplicates == Quick \cup {"dup"}
DuplicatesAndTime == {"dup", "tick"}
Time == {"tick"}
=============================================================================
