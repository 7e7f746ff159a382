------------------------------ MODULE SmsReceive ------------------------------
(***************************************************************************)
(* The inbound path: SerialWorker._poll_incoming and what it calls.  The   *)
(* network puts SMS segments into SIM slots at any moment; a poll lists the*)
(* unread slots, reassembles long messages, stores each complete message   *)
(* (unless the same text was stored in the last ten minutes), queues its   *)
(* notification, deletes its slots one by one, and then cleans up: entries *)
(* already read, and the segments of groups that waited too long.          *)
(*                                                                         *)
(* The module follows what worker.py relies on: AT+CMGL returns the unread *)
(* records and leaves them unread, AT+CMGD=1,2 removes the others.         *)
(* Text is abstract: BodyOf gives each SMS its sender and text as one      *)
(* value, a piece is a body with the number of the segment it came from,   *)
(* and a row's content is the sequence of its pieces.  Time is measured in *)
(* ages that saturate.                                                     *)
(***************************************************************************)
EXTENDS Naturals, Sequences, FiniteSets

CONSTANTS Sms,       \* the messages peers may send
          KeyOf,     \* KeyOf[m]: (sender, ref, total) of a long SMS, or NoKey
          TotalOf,   \* TotalOf[m]: its number of segments
          BodyOf,    \* BodyOf[m]: its sender and text
          NoKey,
          Garbled,   \* the single-segment SMS whose PDU parse_sms_pdu rejects
          Slots,     \* the SIM's storage indices
          Leftovers, \* the slots that hold a READ or SENT entry at the start
          Window,    \* _already_stored: ten minutes
          TTL,       \* INCOMPLETE_GROUP_TTL
          MaxCount,  \* row and notification counters stop here
          Events     \* subset of {"dup", "tick", "db", "cmgd", "cmgl", "reconnect", "crash"}

ASSUME SmsAssumption ==
  /\ \A m \in Sms : TotalOf[m] \in Nat \ {0} /\ (KeyOf[m] = NoKey => TotalOf[m] = 1)
  /\ \A m, n \in Sms : KeyOf[m] = KeyOf[n] /\ KeyOf[m] # NoKey => TotalOf[m] = TotalOf[n]
  /\ \A m \in Garbled : KeyOf[m] = NoKey
ASSUME SlotsAssumption == IsFiniteSet(Slots) /\ Slots \subseteq Nat /\ Leftovers \subseteq Slots
ASSUME TimeAssumption == Window \in Nat /\ TTL \in Nat /\ MaxCount \in Nat \ {0}

Parts == UNION {{[sms |-> m, seq |-> i] : i \in 1 .. TotalOf[m]} : m \in Sms}
Keys == {KeyOf[m] : m \in Sms} \ {NoKey}
Copies == IF "dup" \in Events THEN 2 ELSE 1
NoMessage == [content |-> <<>>, slots |-> {}]
Leftover == [sms |-> "leftover", seq |-> 1]

VARIABLES
  sim,         \* the occupied slots: the segment each holds
  delivered,   \* how many copies of each segment the network has put on the SIM
  archive,     \* the 'in' rows: content -> number of rows, age of the youngest
  pushed,      \* content -> notification jobs queued
  pc,          \* where the poll stands
  todo,        \* assembled messages still to be stored
  cur,         \* the message whose slots are being deleted
  incomplete,  \* groups with a missing segment, as listed: [key, slots]
  stale,       \* slots to drop, with the group they were listed for: <<key, slot>>
  fresh,       \* fresh_seen
  tracker      \* self._incomplete: key -> age of "since"

vars == <<sim, delivered, archive, pushed, pc, todo, cur, incomplete, stale, fresh, tracker>>
poll == <<todo, cur, incomplete, stale, fresh>>

Put(f, x, v) == [y \in DOMAIN f \cup {x} |-> IF y = x THEN v ELSE f[y]]
Without(f, S) == [y \in DOMAIN f \ S |-> f[y]]
Older(age, max) == IF age > max THEN age ELSE age + 1
More(n) == IF n < MaxCount THEN n + 1 ELSE n
RowsOf(c) == IF c \in DOMAIN archive THEN archive[c].rows ELSE 0
PushesOf(c) == IF c \in DOMAIN pushed THEN pushed[c] ELSE 0

-----------------------------------------------------------------------------
(***************************************************************************)
(* parse_cmgl_pdu, parse_sms_pdu and group_pdu_parts on a list of records. *)
(***************************************************************************)
Unread(records) == {s \in DOMAIN records : records[s] # Leftover}
Parsed(records) == {s \in Unread(records) : records[s].sms \notin Garbled}
Group(records, k) == {s \in Parsed(records) : KeyOf[records[s].sms] = k}
TotalOfKey(k) == TotalOf[CHOOSE m \in Sms : KeyOf[m] = k]

\* Exactly one record for each sequence number.
Complete(records, k) ==
  /\ Cardinality(Group(records, k)) = TotalOfKey(k)
  /\ {records[s].seq : s \in Group(records, k)} = 1 .. TotalOfKey(k)

Piece(part) == <<BodyOf[part.sms], part.seq>>

\* Variant: the segments joined in the order of their SIM index.
JoinedByIndex(records, k) ==
  LET G == Group(records, k)
      order == CHOOSE f \in [1 .. Cardinality(G) -> G] : \A i, j \in DOMAIN f : i < j => f[i] < f[j]
  IN  [i \in DOMAIN order |-> Piece(records[order[i]])]

\* The segments of the group sorted by their sequence number and joined.
Joined(records, k) ==
  LET G == Group(records, k)
      order == CHOOSE f \in [1 .. Cardinality(G) -> G] :
                 \A i, j \in DOMAIN f : i < j => f[i] # f[j] /\ records[f[i]].seq <= records[f[j]].seq
  IN  [i \in DOMAIN order |-> Piece(records[order[i]])]

Singles(records) ==
  {[content |-> <<Piece(records[s])>>, slots |-> {s}] :
     s \in {x \in Parsed(records) : KeyOf[records[x].sms] = NoKey}}
ListedKeys(records) == {KeyOf[records[s].sms] : s \in Parsed(records)} \ {NoKey}
Assembled(records) ==
  {[content |-> Joined(records, k), slots |-> Group(records, k)] :
     k \in {x \in ListedKeys(records) : Complete(records, x)}}
Incomplete(records) ==
  {[key |-> k, slots |-> Group(records, k)] :
     k \in {x \in ListedKeys(records) : ~Complete(records, x)}}

-----------------------------------------------------------------------------
Init ==
  /\ sim = [s \in Leftovers |-> Leftover]
  /\ delivered = [p \in Parts |-> 0]
  /\ archive = <<>>
  /\ pushed = <<>>
  /\ pc = "idle"
  /\ todo = {} /\ cur = NoMessage
  /\ incomplete = {} /\ stale = {} /\ fresh = FALSE
  /\ tracker = <<>>

\* The network delivers a segment into a free slot of the module's choice; a
\* full SIM makes it wait.  A second copy is a retransmission whose first
\* acknowledgement was lost.
Deliver(p, s) ==
  /\ delivered[p] < Copies
  /\ s \notin DOMAIN sim
  /\ sim' = Put(sim, s, p)
  /\ delivered' = [delivered EXCEPT ![p] = @ + 1]
  /\ UNCHANGED <<archive, pushed, pc, poll, tracker>>

\* AT+CMGF=0, AT+CMGL, parsing and grouping.  A failing command leaves the poll
\* without effect.
List ==
  /\ pc = "idle"
  /\ todo' = Singles(sim) \cup Assembled(sim)
  /\ incomplete' = Incomplete(sim)
  /\ pc' = "store"
  /\ UNCHANGED <<sim, delivered, archive, pushed, cur, stale, fresh, tracker>>

\* An exception leaves _poll_incoming; _poll_forever starts the next cycle.
Abort ==
  /\ pc' = "idle"
  /\ todo' = {} /\ cur' = NoMessage
  /\ incomplete' = {} /\ stale' = {} /\ fresh' = FALSE

\* Variant: no de-duplication.
NeverStored(c) == FALSE

\* _already_stored.
AlreadyStored(c) == c \in DOMAIN archive /\ archive[c].age <= Window

\* Variant: a text met again is announced again.
StoreNotifiesAgain(m) ==
  /\ pc = "store"
  /\ todo' = todo \ {m}
  /\ cur' = m
  /\ pc' = "notify"
  /\ IF AlreadyStored(m.content)
       THEN UNCHANGED archive
       ELSE archive' = Put(archive, m.content, [rows |-> More(RowsOf(m.content)), age |-> 0])
  /\ UNCHANGED <<sim, delivered, pushed, incomplete, stale, fresh, tracker>>

\* _store_incoming up to the INSERT (in an order the model leaves open).
Store(m) ==
  /\ pc = "store"
  /\ todo' = todo \ {m}
  /\ cur' = m
  /\ IF AlreadyStored(m.content)
       THEN pc' = "delete" /\ UNCHANGED archive
       ELSE /\ pc' = "notify"
            /\ archive' = Put(archive, m.content, [rows |-> More(RowsOf(m.content)), age |-> 0])
  /\ UNCHANGED <<sim, delivered, pushed, incomplete, stale, fresh, tracker>>

\* _dispatch_notify with the row just inserted.
Notify ==
  /\ pc = "notify"
  /\ pushed' = Put(pushed, cur.content, More(PushesOf(cur.content)))
  /\ pc' = "delete"
  /\ UNCHANGED <<sim, delivered, archive, poll, tracker>>

\* Variant: the exception is swallowed and the slots are deleted all the same.
StoreFaultDeletes ==
  /\ "db" \in Events
  /\ pc = "store"
  /\ \E m \in todo : todo' = todo \ {m} /\ cur' = m
  /\ pc' = "delete"
  /\ UNCHANGED <<sim, delivered, archive, pushed, incomplete, stale, fresh, tracker>>

\* Variant: the next poll starts with what this one left.
StoreFaultKeepsList ==
  /\ "db" \in Events
  /\ (pc = "store" /\ todo # {}) \/ pc = "notify"
  /\ pc' = "idle"
  /\ UNCHANGED <<sim, delivered, archive, pushed, poll, tracker>>

\* The dedup query or the INSERT raises; or the SELECT of the new row does, and
\* then the row stays while its notification was never queued.
StoreFault ==
  /\ "db" \in Events
  /\ (pc = "store" /\ todo # {}) \/ pc = "notify"
  /\ Abort
  /\ UNCHANGED <<sim, delivered, archive, pushed, tracker>>

\* AT+CMGD=<index>; an error or an exception is ignored.
Removes(S) ==
  \/ sim' = Without(sim, S)
  \/ "cmgd" \in Events /\ UNCHANGED sim

DeleteMsg ==
  /\ pc = "delete"
  /\ \E s \in cur.slots :
       /\ Removes({s})
       /\ IF cur.slots = {s}
            THEN pc' = "store" /\ cur' = NoMessage
            ELSE cur' = [cur EXCEPT !.slots = @ \ {s}] /\ UNCHANGED pc
  /\ UNCHANGED <<delivered, archive, pushed, todo, incomplete, stale, fresh, tracker>>

\* Variant: every poll restarts the group's clock.
TrackRestartsClock ==
  LET old == {g \in incomplete : g.key \in DOMAIN tracker /\ tracker[g.key] > TTL} IN
  /\ pc = "store"
  /\ todo = {}
  /\ stale' = UNION {{<<g.key, s>> : s \in g.slots} : g \in old}
  /\ tracker' = [k \in {g.key : g \in incomplete \ old} |-> 0]
  /\ pc' = "relist"
  /\ UNCHANGED <<sim, delivered, archive, pushed, todo, cur, incomplete, fresh>>

\* _track_incomplete, once every message of the list is stored.  A group keeps
\* the time at which it was first seen incomplete.
Track ==
  LET old == {g \in incomplete : g.key \in DOMAIN tracker /\ tracker[g.key] > TTL} IN
  /\ pc = "store"
  /\ todo = {}
  /\ stale' = UNION {{<<g.key, s>> : s \in g.slots} : g \in old}
  /\ tracker' = [k \in {g.key : g \in incomplete \ old} |-> IF k \in DOMAIN tracker THEN tracker[k] ELSE 0]
  /\ pc' = "relist"
  /\ UNCHANGED <<sim, delivered, archive, pushed, todo, cur, incomplete, fresh>>

\* _purge_safe: the second AT+CMGL.  Whether the command succeeded is not looked
\* at, so a listing that fails or times out counts as far as it got; and it is
\* read up to the first record that is unparseable or of no known group.
Listings ==
  {L \in SUBSET Unread(sim) :
     \/ L = Unread(sim)
     \/ "cmgl" \in Events /\ \A s \in L, t \in Unread(sim) : t < s => t \in L}

\* A stale slot stays on the list only when this listing shows a segment of its
\* group there.
Relist ==
  /\ pc = "relist"
  /\ \E L \in Listings :
       LET known == {g.key : g \in incomplete}
           new == {s \in L : sim[s].sms \in Garbled \/ KeyOf[sim[s].sms] \notin known}
           read == {s \in L : \A x \in new : s <= x}
       IN  /\ fresh' = (new # {})
           /\ stale' = {e \in stale : e[2] \in read /\ KeyOf[sim[e[2]].sms] = e[1]}
  /\ incomplete' = {}
  /\ pc' = "purge"
  /\ UNCHANGED <<sim, delivered, archive, pushed, todo, cur, tracker>>

\* Variant: AT+CMGD=1,4, which takes the unread records as well.
PurgeAll ==
  /\ pc = "purge"
  /\ IF fresh THEN UNCHANGED sim ELSE Removes(DOMAIN sim)
  /\ fresh' = FALSE
  /\ pc' = "drop"
  /\ UNCHANGED <<delivered, archive, pushed, todo, cur, incomplete, stale, tracker>>

\* AT+CMGD=1,2, unless the re-list showed something new.  An exception in
\* _purge_safe skips what is left of it; here, every deletion after it fails.
Purge ==
  /\ pc = "purge"
  /\ IF fresh THEN UNCHANGED sim ELSE Removes(DOMAIN sim \ Unread(sim))
  /\ fresh' = FALSE
  /\ pc' = "drop"
  /\ UNCHANGED <<delivered, archive, pushed, todo, cur, incomplete, stale, tracker>>

\* One slot of a stale group.
DropStale ==
  /\ pc = "drop"
  /\ \E e \in stale : stale' = stale \ {e} /\ Removes({e[2]})
  /\ UNCHANGED <<delivered, archive, pushed, pc, todo, cur, incomplete, fresh, tracker>>

EndPoll ==
  /\ pc = "drop"
  /\ stale = {}
  /\ Abort
  /\ UNCHANGED <<sim, delivered, archive, pushed, tracker>>

\* connect_and_init: the tracker starts empty.
Reconnect ==
  /\ "reconnect" \in Events
  /\ pc = "idle"
  /\ tracker' = <<>>
  /\ UNCHANGED <<sim, delivered, archive, pushed, pc, poll>>

\* The process dies and restarts; the SIM and the database survive.
Crash ==
  /\ "crash" \in Events
  /\ Abort
  /\ tracker' = <<>>
  /\ UNCHANGED <<sim, delivered, archive, pushed>>

\* One unit of time.
Tick ==
  /\ "tick" \in Events
  /\ archive' = [c \in DOMAIN archive |-> [archive[c] EXCEPT !.age = Older(@, Window)]]
  /\ tracker' = [k \in DOMAIN tracker |-> Older(tracker[k], TTL)]
  /\ UNCHANGED <<sim, delivered, pushed, pc, poll>>

PollStep ==
  \/ List \/ (\E m \in todo : Store(m)) \/ Notify \/ DeleteMsg
  \/ Track \/ Relist \/ Purge \/ DropStale \/ EndPoll

Next ==
  \/ \E p \in Parts, s \in Slots : Deliver(p, s)
  \/ PollStep \/ StoreFault \/ Reconnect \/ Crash \/ Tick

Spec == Init /\ [][Next]_vars

\* What a row holds for an SMS that arrived whole.
Content(m) == [i \in 1 .. TotalOf[m] |-> <<BodyOf[m], i>>]

\* The worker thread keeps polling, the clock runs, and the database does not
\* raise for ever when a given text is to be stored.
Fairness ==
  /\ WF_vars(PollStep)
  /\ WF_vars(Tick)
  /\ \A c \in {Content(m) : m \in Sms} : SF_vars(\E m \in todo : m.content = c /\ Store(m))

FairSpec == Spec /\ Fairness

-----------------------------------------------------------------------------
Pieces == {<<BodyOf[p.sms], p.seq>> : p \in Parts}
Messages == [content : Seq(Pieces), slots : SUBSET Slots]

\* Types, and what is empty between polls.
SmsTypeOK ==
  /\ DOMAIN sim \subseteq Slots /\ \A s \in DOMAIN sim : sim[s] \in Parts \cup {Leftover}
  /\ delivered \in [Parts -> 0 .. Copies]
  /\ \A c \in DOMAIN archive : /\ c \in Seq(Pieces)
                               /\ archive[c] \in [rows : 1 .. MaxCount, age : 0 .. Window + 1]
  /\ \A c \in DOMAIN pushed : c \in Seq(Pieces) /\ pushed[c] \in 1 .. MaxCount
  /\ pc \in {"idle", "store", "notify", "delete", "relist", "purge", "drop"}
  /\ todo \subseteq Messages /\ cur \in Messages
  /\ incomplete \subseteq [key : Keys, slots : SUBSET Slots]
  /\ stale \subseteq Keys \X Slots
  /\ fresh \in BOOLEAN
  /\ DOMAIN tracker \subseteq Keys /\ \A k \in DOMAIN tracker : tracker[k] \in 0 .. TTL + 1
  /\ pc = "idle" => todo = {} /\ cur = NoMessage /\ incomplete = {} /\ stale = {} /\ ~fresh

OnSim(m) == \A i \in 1 .. TotalOf[m] : \E s \in DOMAIN sim : sim[s] = [sms |-> m, seq |-> i]

\* A record leaves the SIM only when its piece of text is in the database, or
\* as part of a group that waited longer than TTL; in particular a database
\* error or a crash between two steps loses nothing.
StoredBeforeRemoved ==
  [][\A s \in DOMAIN sim \ DOMAIN sim' :
       \/ sim[s] = Leftover
       \/ \E c \in DOMAIN archive : \E i \in DOMAIN c : c[i] = Piece(sim[s])
       \/ pc = "drop" /\ \E k \in Keys : <<k, s>> \in stale]_vars

\* worker.py, group_pdu_parts: every row is one SMS, whole and in the order it
\* was written, however its segments arrived.
OnlyWholeMessages == \A c \in DOMAIN archive : \E m \in Sms : c = Content(m)

\* A notification is queued for a row, once: never for a text that was not
\* stored, nor again when a record is met a second time.
PushedOncePerRow == \A c \in DOMAIN pushed : pushed[c] <= RowsOf(c)

\* README, "de-duplicate": a text is stored once however often its deletion
\* fails, the poll is cut short, or the process restarts.  Checked without the clock:
\* ten minutes are what the rule covers.
StoredOnce == \A c \in DOMAIN archive : archive[c].rows = 1

\* What the theorems of SmsReceiveProofs rest on, down to WholeMessages.

\* The slots of a listed message hold its own segments.
Intact(e) ==
  \A s \in e.slots : s \in DOMAIN sim /\ \E i \in DOMAIN e.content : e.content[i] = Piece(sim[s])

\* A message that is to be stored or deleted still has its own segments in its slots,
\* and no two share a slot.
SlotsHeld ==
  /\ pc \notin {"store", "notify", "delete"} => todo = {}
  /\ \A e \in todo : Intact(e)
  /\ \A e, f \in todo : e # f => e.slots \cap f.slots = {}
  /\ pc \in {"notify", "delete"} =>
       Intact(cur) /\ cur.content \in DOMAIN archive /\ \A e \in todo : e.slots \cap cur.slots = {}

\* A row whose notification is about to be queued has one to its credit.
RowsAhead ==
  pc = "notify" => PushesOf(cur.content) < RowsOf(cur.content) \/ RowsOf(cur.content) = MaxCount

\* The inductive invariant.
SmsInv == SmsTypeOK /\ SlotsHeld /\ RowsAhead /\ PushedOncePerRow

\* No two messages share a reference.
KeysAreUnique == \A m, n \in Sms : KeyOf[m] = KeyOf[n] /\ KeyOf[m] # NoKey => m = n

\* Nothing but whole messages is in a row or to be stored.
WholeMessages ==
  /\ \A e \in todo : \E m \in Sms : e.content = Content(m)
  /\ OnlyWholeMessages

\* A message whose segments are all on the SIM gets its row, unless a second
\* copy of one of them arrives: then the group has more records than segments
\* and counts as incomplete.
Duplicated(m) == \E i \in 1 .. TotalOf[m] : delivered[[sms |-> m, seq |-> i]] > 1
CompleteIsStored ==
  \A m \in Sms \ Garbled : OnSim(m) ~> Content(m) \in DOMAIN archive \/ Duplicated(m)

\* README, "nothing is kept in module/SIM storage": every slot is freed in the
\* end, also that of a group whose last segment never comes.
SlotsAreFreed == \A s \in Slots : s \in DOMAIN sim ~> s \notin DOMAIN sim

\* README, "if still missing a segment after 24 hours, is explicitly deleted":
\* what is dropped as stale is missing a segment.
DroppedOnlyWhenPartial ==
  [][\A s \in DOMAIN sim \ DOMAIN sim' : pc = "drop" => ~OnSim(sim[s].sms)]_vars
=============================================================================
