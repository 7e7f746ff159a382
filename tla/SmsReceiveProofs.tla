--------------------------- MODULE SmsReceiveProofs ---------------------------
(***************************************************************************)
(* Invariants of the inbound poll, for any messages, SIM and faults: that  *)
(* sorting a complete group gives the text in its order, that nothing      *)
(* leaves the SIM unstored, that rows are whole messages, once, and        *)
(* announced once.                                                         *)
(***************************************************************************)
EXTENDS SmsReceive, FiniteSetTheorems, TLAPS

-----------------------------------------------------------------------------
\* A segment has a message and one of its numbers.
LEMMA PartsFacts ==
  ASSUME NEW p \in Parts
  PROVE  /\ p.sms \in Sms /\ TotalOf[p.sms] \in Nat \ {0}
         /\ p.seq \in 1 .. TotalOf[p.sms]
         /\ Piece(p) = <<BodyOf[p.sms], p.seq>> /\ Piece(p) \in Pieces
  <1>1. PICK m \in Sms : \E i \in 1 .. TotalOf[m] : p = [sms |-> m, seq |-> i]
    BY DEF Parts
  <1>2. PICK i \in 1 .. TotalOf[m] : p = [sms |-> m, seq |-> i]
    BY <1>1
  <1>. QED
    BY <1>2, SmsAssumption DEF Piece, Pieces

\* The total of a group is that of each of its messages.
LEMMA TotalFacts ==
  ASSUME NEW m \in Sms, KeyOf[m] # NoKey
  PROVE  TotalOfKey(KeyOf[m]) = TotalOf[m] /\ TotalOf[m] \in Nat \ {0}
  <1>. DEFINE n == CHOOSE x \in Sms : KeyOf[x] = KeyOf[m]
  <1>1. n \in Sms /\ KeyOf[n] = KeyOf[m]
    OBVIOUS
  <1>. QED
    BY <1>1, SmsAssumption DEF TotalOfKey

\* num numbers the elements of G from 1 to n, every number being taken.
Numbers(num, G, n) ==
  /\ IsFiniteSet(G) /\ n \in Nat /\ Cardinality(G) = n
  /\ num \in [G -> 1 .. n] /\ \A i \in 1 .. n : \E s \in G : num[s] = i

\* f lists its elements once, in the order of their numbers.
InOrder(f, num) == \A i, j \in DOMAIN f : i < j => f[i] # f[j] /\ num[f[i]] <= num[f[j]]

\* As many elements as numbers, and every number taken: then each number is taken
\* once, an order by number exists, and it is the one from 1 to n.
LEMMA SortedInOrder ==
  ASSUME NEW G, NEW n, NEW num, Numbers(num, G, n)
  PROVE  /\ \E f \in [1 .. n -> G] : InOrder(f, num)
         /\ \A f \in [1 .. n -> G] :
              InOrder(f, num) => (\A i \in 1 .. n : num[f[i]] = i) /\ (\A s \in G : f[num[s]] = s)
  <1>. USE DEF Numbers
  <1>1. IsFiniteSet(1 .. n) /\ Cardinality(1 .. n) = n
    BY FS_Interval
  <1>2. num \in Surjection(G, 1 .. n)
    BY DEF Surjection
  <1>3. \A s, t \in G : num[s] = num[t] => s = t
    <2>1. num \in Injection(G, 1 .. n)
      BY <1>1, <1>2, FS_SurjSameCardinalityImpliesInj
    <2>. QED
      BY <2>1 DEF Injection, IsInjective
  <1>4. \E f \in [1 .. n -> G] : InOrder(f, num)
    <2>. DEFINE f == [i \in 1 .. n |-> CHOOSE s \in G : num[s] = i]
    <2>1. \A i \in 1 .. n : f[i] \in G /\ num[f[i]] = i
      OBVIOUS
    <2>2. f \in [1 .. n -> G] /\ DOMAIN f = 1 .. n
      BY <2>1
    <2>3. ASSUME NEW i \in 1 .. n, NEW j \in 1 .. n, i < j
          PROVE  f[i] # f[j] /\ num[f[i]] <= num[f[j]]
      BY <2>1, <2>3
    <2>. HIDE DEF f
    <2>. QED
      BY <2>2, <2>3 DEF InOrder
  <1>5. ASSUME NEW f \in [1 .. n -> G], InOrder(f, num)
        PROVE  \A i \in 1 .. n : num[f[i]] = i
    <2>. DEFINE g == [i \in 1 .. n |-> num[f[i]]]
    <2>1. g \in [1 .. n -> 1 .. n] /\ \A i \in 1 .. n : g[i] = num[f[i]]
      OBVIOUS
    <2>2. ASSUME NEW i \in 1 .. n, NEW j \in 1 .. n, i < j
          PROVE  g[i] < g[j]
      <3>1. f[i] # f[j] /\ num[f[i]] <= num[f[j]] /\ f[i] \in G /\ f[j] \in G
        BY <1>5, <2>2 DEF InOrder
      <3>2. num[f[i]] # num[f[j]] /\ num[f[i]] \in 1 .. n /\ num[f[j]] \in 1 .. n
        BY <1>3, <3>1
      <3>. QED
        BY <2>1, <3>1, <3>2
    <2>. HIDE DEF g
    <2>3. \A i, j \in 1 .. n : g[i] = g[j] => i = j
      <3>. SUFFICES ASSUME NEW i \in 1 .. n, NEW j \in 1 .. n, g[i] = g[j], i # j PROVE FALSE
        OBVIOUS
      <3>1. i < j \/ j < i
        OBVIOUS
      <3>2. g[i] \in Int
        BY <2>1
      <3>. QED
        BY <2>2, <3>1, <3>2
    <2>4. g \in Surjection(1 .. n, 1 .. n)
      <3>1. g \in Injection(1 .. n, 1 .. n)
        BY <2>1, <2>3 DEF Injection, IsInjective
      <3>. QED
        BY <1>1, <3>1, FS_Injection
    <2>5. ASSUME NEW i \in 1 .. n PROVE g[i] = i
      <3>. DEFINE h == [j \in 1 .. (i - 1) |-> g[j]]
      <3>1. g[i] \in 1 .. n /\ i - 1 \in Nat /\ g[i] - 1 \in Nat
        BY <2>1
      <3>2. \A j \in 1 .. (i - 1) : j \in 1 .. n /\ j < i
        OBVIOUS
      <3>3. \A j \in 1 .. (i - 1) : g[j] \in 1 .. (g[i] - 1)
        BY <2>1, <2>2, <3>1, <3>2
      <3>4. h \in [1 .. (i - 1) -> 1 .. (g[i] - 1)] /\ \A j \in 1 .. (i - 1) : h[j] = g[j]
        BY <3>3
      <3>5. \A v \in 1 .. (g[i] - 1) : \E j \in 1 .. (i - 1) : h[j] = v
        <4>. SUFFICES ASSUME NEW v \in 1 .. (g[i] - 1) PROVE \E j \in 1 .. (i - 1) : h[j] = v
          OBVIOUS
        <4>1. v \in 1 .. n /\ v < g[i]
          BY <3>1
        <4>2. PICK j \in 1 .. n : g[j] = v
          BY <2>4, <4>1 DEF Surjection
        <4>3. ~(i < j) /\ i # j
          <5>1. i < j => g[i] < g[j]
            BY <2>2
          <5>. QED
            BY <3>1, <4>1, <4>2, <5>1
        <4>4. j \in 1 .. (i - 1)
          BY <4>3
        <4>. QED
          BY <3>4, <4>2, <4>4
      <3>6. \A j, k \in 1 .. (i - 1) : h[j] = h[k] => j = k
        BY <2>3, <3>2, <3>4
      <3>. HIDE DEF h
      <3>7. h \in Bijection(1 .. (i - 1), 1 .. (g[i] - 1))
        BY <3>4, <3>5, <3>6 DEF Bijection, Injection, Surjection, IsInjective
      <3>8. \A k \in Nat : IsFiniteSet(1 .. k) /\ Cardinality(1 .. k) = k
        <4>. SUFFICES ASSUME NEW k \in Nat PROVE IsFiniteSet(1 .. k) /\ Cardinality(1 .. k) = k
          OBVIOUS
        <4>1. IsFiniteSet(1 .. k) /\ Cardinality(1 .. k) = IF 1 > k THEN 0 ELSE k - 1 + 1
          BY FS_Interval
        <4>. QED
          BY <4>1
      <3>9. Cardinality(1 .. (g[i] - 1)) = Cardinality(1 .. (i - 1))
        BY <3>7, <3>8, FS_Bijection DEF ExistsBijection
      <3>. QED
        BY <3>1, <3>8, <3>9
    <2>. QED
      BY <2>1, <2>5
  <1>6. ASSUME NEW f \in [1 .. n -> G], \A i \in 1 .. n : num[f[i]] = i
        PROVE  \A s \in G : f[num[s]] = s
    BY <1>3, <1>6
  <1>. QED
    BY <1>4, <1>5, <1>6

\* The records parse_cmgl_pdu understands are segments.
LEMMA ParsedFacts ==
  ASSUME NEW records, \A s \in DOMAIN records : records[s] \in Parts \cup {Leftover},
         NEW s \in Parsed(records)
  PROVE  s \in DOMAIN records /\ records[s] \in Parts
  BY DEF Parsed, Unread

\* group_pdu_parts, for a group without a gap: piece i of the joined text is that of
\* the segment with number i.
LEMMA JoinedInOrder ==
  ASSUME NEW records, IsFiniteSet(DOMAIN records),
         \A s \in DOMAIN records : records[s] \in Parts \cup {Leftover},
         NEW k \in Keys, Complete(records, k)
  PROVE  /\ TotalOfKey(k) \in Nat \ {0}
         /\ Joined(records, k) \in Seq(Pieces) 
         /\ Joined(records, k) = [i \in 1 .. TotalOfKey(k) |-> Joined(records, k)[i]]
         /\ \A i \in 1 .. TotalOfKey(k) :
              \E s \in Group(records, k) : records[s].seq = i /\ Joined(records, k)[i] = Piece(records[s])
         /\ \A s \in Group(records, k) :
              records[s].seq \in 1 .. TotalOfKey(k) /\ Joined(records, k)[records[s].seq] = Piece(records[s])
  <1>. DEFINE G == Group(records, k)
              n == TotalOfKey(k)
              num == [s \in G |-> records[s].seq]
              Sorts(f) == \A i, j \in DOMAIN f : i < j => f[i] # f[j] /\ records[f[i]].seq <= records[f[j]].seq
              order == CHOOSE f \in [1 .. Cardinality(G) -> G] : Sorts(f)
  <1>1. n \in Nat \ {0}
    BY TotalFacts DEF Keys
  <1>2. IsFiniteSet(G) /\ Cardinality(G) = n /\ {records[s].seq : s \in G} = 1 .. n
    <2>1. G \subseteq DOMAIN records
      BY DEF Group, Parsed, Unread
    <2>. QED
      BY <2>1, FS_Subset DEF Complete
  <1>3. \A s \in G : records[s] \in Parts
    BY ParsedFacts DEF Group
  <1>4. num \in [G -> 1 .. n] /\ (\A i \in 1 .. n : \E s \in G : num[s] = i) /\ \A s \in G : num[s] = records[s].seq
    BY <1>2
  <1>5. Joined(records, k) = [i \in DOMAIN order |-> Piece(records[order[i]])]
    BY DEF Joined
  <1>. HIDE DEF G, n, num
  <1>6. /\ \E f \in [1 .. n -> G] : InOrder(f, num)
        /\ \A f \in [1 .. n -> G] :
             InOrder(f, num) => (\A i \in 1 .. n : num[f[i]] = i) /\ (\A s \in G : f[num[s]] = s)
    <2>1. Numbers(num, G, n)
      BY <1>1, <1>2, <1>4 DEF Numbers
    <2>. QED
      BY ONLY <2>1, SortedInOrder
  <1>7. \A f \in [1 .. n -> G] : Sorts(f) <=> InOrder(f, num)
    <2>. SUFFICES ASSUME NEW f \in [1 .. n -> G] PROVE Sorts(f) <=> InOrder(f, num)
      OBVIOUS
    <2>1. \A i \in DOMAIN f : num[f[i]] = records[f[i]].seq
      BY <1>4
    <2>. QED
      BY <2>1 DEF InOrder
  <1>8. order \in [1 .. n -> G] /\ Sorts(order)
    <2>1. \E f \in [1 .. Cardinality(G) -> G] : Sorts(f)
      BY <1>2, <1>6, <1>7
    <2>. HIDE DEF Sorts
    <2>. QED
      BY <1>2, <2>1
  <1>. HIDE DEF order
  <1>9. (\A i \in 1 .. n : num[order[i]] = i) /\ \A s \in G : order[num[s]] = s
    BY <1>6, <1>7, <1>8
  <1>10. DOMAIN order = 1 .. n /\ \A i \in 1 .. n : order[i] \in G
    BY <1>8
  <1>11. Joined(records, k) = [i \in 1 .. n |-> Piece(records[order[i]])]
    BY <1>5, <1>10
  <1>12. \A s \in G : Piece(records[s]) \in Pieces
    BY <1>3, PartsFacts
  <1>13. Joined(records, k) \in Seq(Pieces) /\ Joined(records, k) = [i \in 1 .. n |-> Joined(records, k)[i]]
    BY <1>1, <1>10, <1>11, <1>12
  <1>14. \A i \in 1 .. n : records[order[i]].seq = i /\ Joined(records, k)[i] = Piece(records[order[i]])
    BY <1>4, <1>9, <1>10, <1>11
  <1>15. \A s \in G : records[s].seq \in 1 .. n /\ Joined(records, k)[records[s].seq] = Piece(records[s])
    BY <1>4, <1>9, <1>11
  <1>. QED
    BY <1>1, <1>10, <1>13, <1>14, <1>15 DEF G, n

\* A listing yields messages whose segments are in their slots, no slot for two of them.
LEMMA ListedFacts ==
  ASSUME SmsTypeOK
  PROVE  LET listed == Singles(sim) \cup Assembled(sim) IN
         /\ listed \subseteq Messages
         /\ \A e \in listed : Intact(e)
         /\ \A e, f \in listed : e # f => e.slots \cap f.slots = {}
         /\ KeysAreUnique => \A e \in listed : \E m \in Sms : e.content = Content(m)
         /\ Incomplete(sim) \subseteq [key : Keys, slots : SUBSET Slots]
  <1>. USE DEF SmsTypeOK
  <1>1. IsFiniteSet(DOMAIN sim) /\ \A s \in DOMAIN sim : sim[s] \in Parts \cup {Leftover}
    BY SlotsAssumption, FS_Subset
  <1>2. ListedKeys(sim) \subseteq Keys
    <2>1. \A s \in Parsed(sim) : sim[s].sms \in Sms
      BY <1>1, ParsedFacts, PartsFacts
    <2>. QED
      BY <2>1 DEF ListedKeys, Keys
  <1>3. \A k : Group(sim, k) \subseteq DOMAIN sim /\ Group(sim, k) \subseteq Slots
    BY DEF Group, Parsed, Unread
  <1>4. ASSUME NEW e \in Singles(sim)
        PROVE  \E s \in Parsed(sim) : /\ KeyOf[sim[s].sms] = NoKey /\ e.slots = {s}
                                      /\ e = [content |-> <<Piece(sim[s])>>, slots |-> {s}]
    BY <1>4 DEF Singles
  <1>5. ASSUME NEW e \in Assembled(sim)
        PROVE  \E k \in Keys : Complete(sim, k) /\ e = [content |-> Joined(sim, k), slots |-> Group(sim, k)]
    BY <1>2, <1>5 DEF Assembled
  <1>6. ASSUME NEW e \in Singles(sim)
        PROVE  e \in Messages /\ Intact(e) /\ \E m \in Sms : e.content = Content(m)
    <2>. PICK s \in Parsed(sim) : KeyOf[sim[s].sms] = NoKey /\ e = [content |-> <<Piece(sim[s])>>, slots |-> {s}]
      BY <1>4
    <2>1. s \in DOMAIN sim /\ sim[s] \in Parts
      BY <1>1, ParsedFacts
    <2>2. /\ sim[s].sms \in Sms /\ TotalOf[sim[s].sms] = 1 /\ sim[s].seq = 1
          /\ Piece(sim[s]) = <<BodyOf[sim[s].sms], 1>> /\ Piece(sim[s]) \in Pieces
      BY <2>1, PartsFacts, SmsAssumption
    <2>3. e.content = <<Piece(sim[s])>> /\ e.slots = {s}
      OBVIOUS
    <2>4. Intact(e)
      BY <2>1, <2>3 DEF Intact
    <2>5. e.content = Content(sim[s].sms)
      BY <2>2, <2>3 DEF Content
    <2>6. e \in Messages
      BY <2>1, <2>2 DEF Messages
    <2>. QED
      BY <2>2, <2>4, <2>5, <2>6
  <1>7. ASSUME NEW e \in Assembled(sim)
        PROVE  e \in Messages /\ Intact(e) /\ (KeysAreUnique => \E m \in Sms : e.content = Content(m))
    <2>. PICK k \in Keys : Complete(sim, k) /\ e = [content |-> Joined(sim, k), slots |-> Group(sim, k)]
      BY <1>5
    <2>1. /\ TotalOfKey(k) \in Nat \ {0}
          /\ Joined(sim, k) \in Seq(Pieces) /\ Joined(sim, k) = [i \in 1 .. TotalOfKey(k) |-> Joined(sim, k)[i]]
          /\ \A i \in 1 .. TotalOfKey(k) :
               \E s \in Group(sim, k) : sim[s].seq = i /\ Joined(sim, k)[i] = Piece(sim[s])
          /\ \A s \in Group(sim, k) :
               sim[s].seq \in 1 .. TotalOfKey(k) /\ Joined(sim, k)[sim[s].seq] = Piece(sim[s])
      BY <1>1, JoinedInOrder
    <2>2. e.content = Joined(sim, k) /\ e.slots = Group(sim, k)
      OBVIOUS
    <2>3. e \in Messages
      BY <1>3, <2>1 DEF Messages
    <2>4. Intact(e)
      BY <1>3, <2>1, <2>2 DEF Intact
    <2>5. ASSUME KeysAreUnique PROVE \E m \in Sms : e.content = Content(m)
      <3>1. PICK m \in Sms : KeyOf[m] = k /\ k # NoKey
        BY DEF Keys
      <3>2. \A s \in Group(sim, k) : sim[s] \in Parts /\ KeyOf[sim[s].sms] = k
        BY <1>1, ParsedFacts DEF Group
      <3>3. \A s \in Group(sim, k) : sim[s].sms = m /\ Piece(sim[s]) = <<BodyOf[m], sim[s].seq>>
        BY <2>5, <3>1, <3>2, PartsFacts DEF KeysAreUnique
      <3>4. TotalOfKey(k) = TotalOf[m]
        BY <3>1, TotalFacts
      <3>5. \A i \in 1 .. TotalOf[m] : Joined(sim, k)[i] = <<BodyOf[m], i>>
        BY <2>1, <3>3, <3>4
      <3>6. Joined(sim, k) = Content(m)
        BY <2>1, <3>4, <3>5 DEF Content
      <3>. QED
        BY <2>2, <3>6
    <2>. QED
      BY <2>3, <2>4, <2>5
  <1>8. ASSUME NEW e \in Singles(sim) \cup Assembled(sim), NEW f \in Singles(sim) \cup Assembled(sim), e # f
        PROVE  e.slots \cap f.slots = {}
    <2>1. \A k, l : k # l => Group(sim, k) \cap Group(sim, l) = {}
      BY DEF Group
    <2>2. \A k \in Keys : \A s \in Group(sim, k) : KeyOf[sim[s].sms] # NoKey
      BY DEF Group, Keys
    <2>3. CASE e \in Singles(sim) /\ f \in Singles(sim)
      <3>1. PICK s \in Parsed(sim) : e.slots = {s} /\ e = [content |-> <<Piece(sim[s])>>, slots |-> {s}]
        BY <1>4, <2>3
      <3>2. PICK t \in Parsed(sim) : f.slots = {t} /\ f = [content |-> <<Piece(sim[t])>>, slots |-> {t}]
        BY <1>4, <2>3
      <3>3. s # t
        BY <1>8, <3>1, <3>2
      <3>. QED
        BY <3>1, <3>2, <3>3
    <2>4. CASE e \in Singles(sim) /\ f \in Assembled(sim)
      BY <1>4, <1>5, <2>2, <2>4
    <2>5. CASE e \in Assembled(sim) /\ f \in Singles(sim)
      BY <1>4, <1>5, <2>2, <2>5
    <2>6. CASE e \in Assembled(sim) /\ f \in Assembled(sim)
      BY <1>5, <1>8, <2>1, <2>6
    <2>. QED
      BY <2>3, <2>4, <2>5, <2>6
  <1>9. Incomplete(sim) \subseteq [key : Keys, slots : SUBSET Slots]
    BY <1>2, <1>3 DEF Incomplete
  <1>. QED
    BY <1>6, <1>7, <1>8, <1>9

-----------------------------------------------------------------------------
\* A deletion takes at most what it is for, and changes no other record.
LEMMA RemovesFacts ==
  ASSUME NEW S, Removes(S)
  PROVE  /\ DOMAIN sim' \subseteq DOMAIN sim /\ DOMAIN sim \ DOMAIN sim' \subseteq S
         /\ \A s \in DOMAIN sim' : sim'[s] = sim[s]
  BY DEF Removes, Without

\* Nothing is listed or stored yet.
LEMMA InitEstablishesSmsInv == Init => SmsInv /\ WholeMessages
  <1>. SUFFICES ASSUME Init PROVE SmsInv /\ WholeMessages
    OBVIOUS
  <1>. USE DEF Init
  <1>1. SmsTypeOK
    <2>1. NoMessage \in Messages
      BY DEF NoMessage, Messages
    <2>2. DOMAIN sim \subseteq Slots /\ \A s \in DOMAIN sim : sim[s] \in Parts \cup {Leftover}
      BY SlotsAssumption
    <2>3. DOMAIN archive = {} /\ DOMAIN pushed = {} /\ DOMAIN tracker = {}
      OBVIOUS
    <2>4. delivered \in [Parts -> 0 .. Copies]
      BY DEF Copies
    <2>. QED
      BY <2>1, <2>2, <2>3, <2>4 DEF SmsTypeOK
  <1>2. DOMAIN archive = {} /\ DOMAIN pushed = {} /\ todo = {} /\ pc = "idle"
    OBVIOUS
  <1>. QED
    BY <1>1, <1>2 DEF SmsInv, SlotsHeld, RowsAhead, PushedOncePerRow, WholeMessages, OnlyWholeMessages

\* Types.
LEMMA SmsTypePreserved == SmsInv /\ [Next]_vars => SmsTypeOK'
  <1>. SUFFICES ASSUME SmsInv, [Next]_vars PROVE SmsTypeOK'
    OBVIOUS
  <1>. USE DEF SmsInv, SmsTypeOK, poll
  <1>0. NoMessage \in Messages
    BY DEF NoMessage, Messages
  <1>1. ASSUME NEW p \in Parts, NEW s \in Slots, Deliver(p, s) PROVE SmsTypeOK'
    <2>1. DOMAIN sim' \subseteq Slots /\ \A x \in DOMAIN sim' : sim'[x] \in Parts \cup {Leftover}
      BY <1>1 DEF Deliver, Put
    <2>2. delivered' \in [Parts -> 0 .. Copies]
      BY <1>1 DEF Deliver, Copies
    <2>. QED
      BY <1>1, <2>1, <2>2 DEF Deliver
  <1>2. CASE List
    <2>1. todo' \subseteq Messages /\ incomplete' \subseteq [key : Keys, slots : SUBSET Slots]
      BY <1>2, ListedFacts DEF List
    <2>. QED
      BY <1>2, <2>1 DEF List
  <1>3. ASSUME NEW m \in todo, Store(m) PROVE SmsTypeOK'
    <2>1. m \in Messages /\ m.content \in Seq(Pieces)
      BY DEF Messages
    <2>2. \A c \in DOMAIN archive' : /\ c \in Seq(Pieces)
                                     /\ archive'[c] \in [rows : 1 .. MaxCount, age : 0 .. Window + 1]
      <3>1. CASE AlreadyStored(m.content)
        BY <1>3, <3>1 DEF Store
      <3>2. CASE ~AlreadyStored(m.content)
        <4>1. [rows |-> More(RowsOf(m.content)), age |-> 0] \in [rows : 1 .. MaxCount, age : 0 .. Window + 1]
          BY TimeAssumption DEF More, RowsOf
        <4>2. archive' = Put(archive, m.content, [rows |-> More(RowsOf(m.content)), age |-> 0])
          BY <1>3, <3>2 DEF Store
        <4>. QED
          BY <2>1, <4>1, <4>2 DEF Put
      <3>. QED
        BY <3>1, <3>2
    <2>3. pc' \in {"notify", "delete"} /\ todo' \subseteq Messages /\ cur' \in Messages
          /\ UNCHANGED <<sim, delivered, pushed, incomplete, stale, fresh, tracker>>
      BY <1>3, <2>1 DEF Store
    <2>. QED
      BY <2>2, <2>3
  <1>4. CASE Notify
    <2>1. cur.content \in Seq(Pieces)
      BY DEF Messages
    <2>2. More(PushesOf(cur.content)) \in 1 .. MaxCount
      BY TimeAssumption DEF More, PushesOf
    <2>3. \A c \in DOMAIN pushed' : c \in Seq(Pieces) /\ pushed'[c] \in 1 .. MaxCount
      BY <1>4, <2>1, <2>2 DEF Notify, Put
    <2>4. pc' = "delete" /\ UNCHANGED <<sim, delivered, archive, poll, tracker>>
      BY <1>4 DEF Notify
    <2>. QED
      BY <2>3, <2>4
  <1>5. CASE DeleteMsg
    <2>. PICK s \in cur.slots : /\ Removes({s})
                                /\ IF cur.slots = {s}
                                     THEN pc' = "store" /\ cur' = NoMessage
                                     ELSE cur' = [cur EXCEPT !.slots = @ \ {s}] /\ UNCHANGED pc
      BY <1>5 DEF DeleteMsg
    <2>1. cur' \in Messages
      BY <1>0 DEF Messages
    <2>2. pc' \in {"store", "delete"}
      BY <1>5 DEF DeleteMsg
    <2>3. DOMAIN sim' \subseteq Slots /\ \A x \in DOMAIN sim' : sim'[x] \in Parts \cup {Leftover}
      BY RemovesFacts
    <2>4. UNCHANGED <<delivered, archive, pushed, todo, incomplete, stale, fresh, tracker>>
      BY <1>5 DEF DeleteMsg
    <2>. QED
      BY <2>1, <2>2, <2>3, <2>4
  <1>6. CASE Track
    <2>. DEFINE old == {g \in incomplete : g.key \in DOMAIN tracker /\ tracker[g.key] > TTL}
    <2>1. /\ stale' = UNION {{<<g.key, s>> : s \in g.slots} : g \in old}
          /\ tracker' = [k \in {g.key : g \in incomplete \ old} |-> IF k \in DOMAIN tracker THEN tracker[k] ELSE 0]
          /\ pc' = "relist" /\ UNCHANGED <<sim, delivered, archive, pushed, todo, cur, incomplete, fresh>>
      BY <1>6 DEF Track
    <2>2. \A g \in incomplete : g.key \in Keys /\ g.slots \subseteq Slots
      OBVIOUS
    <2>3. stale' \subseteq Keys \X Slots
      BY <2>1, <2>2
    <2>4. DOMAIN tracker' \subseteq Keys
      BY <2>1, <2>2
    <2>5. \A k \in DOMAIN tracker' : tracker'[k] \in 0 .. TTL + 1
      BY <2>1, TimeAssumption
    <2>. QED
      BY <2>1, <2>3, <2>4, <2>5
  <1>7. CASE Relist
    <2>1. stale' \subseteq stale /\ fresh' \in BOOLEAN
      BY <1>7 DEF Relist
    <2>2. incomplete' = {} /\ pc' = "purge"
          /\ UNCHANGED <<sim, delivered, archive, pushed, todo, cur, tracker>>
      BY <1>7 DEF Relist
    <2>. QED
      BY <2>1, <2>2
  <1>8. CASE Purge
    <2>1. DOMAIN sim' \subseteq Slots /\ \A x \in DOMAIN sim' : sim'[x] \in Parts \cup {Leftover}
      <3>1. CASE fresh
        BY <1>8, <3>1 DEF Purge
      <3>2. CASE ~fresh
        BY <1>8, <3>2, RemovesFacts DEF Purge
      <3>. QED
        BY <3>1, <3>2
    <2>. QED
      BY <1>8, <2>1 DEF Purge
  <1>9. CASE DropStale
    <2>1. PICK e \in stale : stale' = stale \ {e} /\ Removes({e[2]})
      BY <1>9 DEF DropStale
    <2>2. DOMAIN sim' \subseteq Slots /\ \A x \in DOMAIN sim' : sim'[x] \in Parts \cup {Leftover}
      BY <2>1, RemovesFacts
    <2>. QED
      BY <1>9, <2>1, <2>2 DEF DropStale
  <1>10. CASE EndPoll
    BY <1>0, <1>10 DEF EndPoll, Abort
  <1>11. CASE StoreFault
    BY <1>0, <1>11 DEF StoreFault, Abort
  <1>12. CASE Reconnect
    BY <1>12 DEF Reconnect
  <1>13. CASE Crash
    <2>1. DOMAIN tracker' = {}
      BY <1>13 DEF Crash
    <2>2. /\ pc' = "idle" /\ todo' = {} /\ cur' = NoMessage /\ incomplete' = {} /\ stale' = {} /\ fresh' = FALSE
          /\ UNCHANGED <<sim, delivered, archive, pushed>>
      BY <1>13 DEF Crash, Abort
    <2>. QED
      BY <1>0, <2>1, <2>2
  <1>14. CASE Tick
    <2>1. \A c \in DOMAIN archive : /\ c \in Seq(Pieces)
                                    /\ archive[c] \in [rows : 1 .. MaxCount, age : 0 .. Window + 1]
      OBVIOUS
    <2>2. \A c \in DOMAIN archive : Older(archive[c].age, Window) \in 0 .. Window + 1
      BY <2>1, TimeAssumption DEF Older
    <2>3. \A c \in DOMAIN archive' : /\ c \in Seq(Pieces)
                                     /\ archive'[c] \in [rows : 1 .. MaxCount, age : 0 .. Window + 1]
      BY <1>14, <2>1, <2>2 DEF Tick
    <2>4. DOMAIN tracker' = DOMAIN tracker /\ \A k \in DOMAIN tracker : tracker'[k] \in 0 .. TTL + 1
      BY <1>14, TimeAssumption DEF Tick, Older
    <2>5. UNCHANGED <<sim, delivered, pushed, pc, poll>>
      BY <1>14 DEF Tick
    <2>. QED
      BY <2>3, <2>4, <2>5
  <1>15. CASE UNCHANGED vars
    BY <1>15 DEF vars
  <1>. QED
    BY <1>1, <1>2, <1>3, <1>4, <1>5, <1>6, <1>7, <1>8, <1>9, <1>10, <1>11, <1>12, <1>13, <1>14, <1>15
       DEF Next, PollStep

-----------------------------------------------------------------------------
\* Slots and messages.
LEMMA SlotsHeldPreserved == SmsInv /\ [Next]_vars => SlotsHeld'
  <1>. SUFFICES ASSUME SmsInv, [Next]_vars PROVE SlotsHeld'
    OBVIOUS
  <1>. USE DEF SmsInv, SlotsHeld, poll
  <1>0. ASSUME NEW e, Intact(e), \A s \in e.slots : s \in DOMAIN sim => s \in DOMAIN sim' /\ sim'[s] = sim[s]
        PROVE  Intact(e)'
    BY <1>0 DEF Intact
  <1>00. ASSUME pc' \notin {"store", "notify", "delete"}, todo' = {} PROVE SlotsHeld'
    BY <1>00
  <1>1. ASSUME NEW p \in Parts, NEW s \in Slots, Deliver(p, s) PROVE SlotsHeld'
    <2>1. \A x \in DOMAIN sim : x \in DOMAIN sim' /\ sim'[x] = sim[x]
      BY <1>1 DEF Deliver, Put
    <2>2. UNCHANGED <<archive, pc, todo, cur>>
      BY <1>1 DEF Deliver
    <2>3. (\A e \in todo : Intact(e)') /\ (pc \in {"notify", "delete"} => Intact(cur)')
      BY <2>1, <2>2 DEF Intact
    <2>. QED
      BY <2>2, <2>3
  <1>2. CASE List
    <2>1. /\ \A e \in todo' : Intact(e)
          /\ \A e, f \in todo' : e # f => e.slots \cap f.slots = {}
      BY <1>2, ListedFacts DEF List
    <2>2. pc' = "store" /\ sim' = sim
      BY <1>2 DEF List
    <2>3. \A e \in todo' : Intact(e)'
      BY <2>1, <2>2 DEF Intact
    <2>. QED
      BY <2>1, <2>2, <2>3
  <1>3. ASSUME NEW m \in todo, Store(m) PROVE SlotsHeld'
    <2>1. /\ pc' \in {"notify", "delete"} /\ todo' = todo \ {m} /\ cur' = m /\ sim' = sim
      BY <1>3 DEF Store
    <2>2. m.content \in DOMAIN archive'
      BY <1>3 DEF Store, AlreadyStored, Put
    <2>3. (\A e \in todo' : Intact(e)') /\ Intact(cur)'
      BY <2>1 DEF Intact
    <2>4. \A e \in todo' : e.slots \cap cur'.slots = {}
      BY <2>1
    <2>5. \A e, f \in todo' : e # f => e.slots \cap f.slots = {}
      BY <2>1
    <2>. QED
      BY <2>1, <2>2, <2>3, <2>4, <2>5
  <1>4. CASE Notify
    <2>1. pc = "notify" /\ pc' = "delete" /\ UNCHANGED <<sim, archive, todo, cur>>
      BY <1>4 DEF Notify
    <2>. QED
      BY <2>1 DEF Intact
  <1>5. CASE DeleteMsg
    <2>. PICK s \in cur.slots : /\ Removes({s})
                                /\ IF cur.slots = {s}
                                     THEN pc' = "store" /\ cur' = NoMessage
                                     ELSE cur' = [cur EXCEPT !.slots = @ \ {s}] /\ UNCHANGED pc
      BY <1>5 DEF DeleteMsg
    <2>1. pc = "delete" /\ UNCHANGED <<archive, todo>>
      BY <1>5 DEF DeleteMsg
    <2>2. \A x \in DOMAIN sim \ {s} : x \in DOMAIN sim' /\ sim'[x] = sim[x]
      BY RemovesFacts
    <2>3. \A e \in todo : s \notin e.slots
      BY <2>1
    <2>4. \A e \in todo : Intact(e)'
      BY <2>1, <2>2, <2>3 DEF Intact
    <2>5. CASE cur.slots = {s}
      BY <2>1, <2>4, <2>5
    <2>6. CASE cur.slots # {s}
      <3>1. pc' = "delete" /\ cur'.content = cur.content /\ cur'.slots = cur.slots \ {s}
        BY <2>1, <2>6 DEF SmsTypeOK, Messages
      <3>2. Intact(cur)'
        BY <2>1, <2>2, <3>1 DEF Intact
      <3>. QED
        BY <2>1, <2>4, <3>1, <3>2
    <2>. QED
      BY <2>5, <2>6
  <1>6. CASE Track
    BY <1>6, <1>00 DEF Track
  <1>7. CASE Relist
    BY <1>7, <1>00 DEF Relist
  <1>8. CASE Purge
    BY <1>8, <1>00 DEF Purge
  <1>9. CASE DropStale
    BY <1>9, <1>00 DEF DropStale
  <1>10. CASE EndPoll \/ StoreFault \/ Crash
    BY <1>10, <1>00 DEF EndPoll, StoreFault, Crash, Abort
  <1>11. CASE Reconnect
    BY <1>11, <1>00 DEF Reconnect
  <1>12. CASE Tick
    <2>1. UNCHANGED <<sim, pc, todo, cur>> /\ DOMAIN archive' = DOMAIN archive
      BY <1>12 DEF Tick
    <2>. QED
      BY <2>1 DEF Intact
  <1>13. CASE UNCHANGED vars
    BY <1>13 DEF vars, Intact
  <1>. QED
    BY <1>1, <1>2, <1>3, <1>4, <1>5, <1>6, <1>7, <1>8, <1>9, <1>10, <1>11, <1>12, <1>13
       DEF Next, PollStep

-----------------------------------------------------------------------------
\* Rows and notifications.
LEMMA RowsAheadPreserved == SmsInv /\ [Next]_vars => RowsAhead' /\ PushedOncePerRow'
  <1>. SUFFICES ASSUME SmsInv, [Next]_vars PROVE RowsAhead' /\ PushedOncePerRow'
    OBVIOUS
  <1>. USE DEF SmsInv, RowsAhead, PushedOncePerRow, poll
  <1>0. /\ MaxCount \in Nat \ {0}
        /\ \A c : RowsOf(c) \in 0 .. MaxCount /\ PushesOf(c) \in 0 .. MaxCount /\ PushesOf(c) <= RowsOf(c)
    BY TimeAssumption DEF SmsTypeOK, RowsOf, PushesOf
  <1>00. ASSUME pc' # "notify", pushed' = pushed, \A c : RowsOf(c)' = RowsOf(c)
         PROVE  RowsAhead' /\ PushedOncePerRow'
    BY <1>00
  <1>1. ASSUME NEW m \in todo, Store(m) PROVE RowsAhead' /\ PushedOncePerRow'
    <2>1. CASE AlreadyStored(m.content)
      <3>1. pc' = "delete" /\ UNCHANGED <<archive, pushed>>
        BY <1>1, <2>1 DEF Store
      <3>. QED
        BY <3>1 DEF RowsOf
    <2>2. CASE ~AlreadyStored(m.content)
      <3>1. /\ archive' = Put(archive, m.content, [rows |-> More(RowsOf(m.content)), age |-> 0])
            /\ pc' = "notify" /\ cur' = m /\ pushed' = pushed
        BY <1>1, <2>2 DEF Store
      <3>2. \A c : RowsOf(c)' = IF c = m.content THEN More(RowsOf(c)) ELSE RowsOf(c)
        BY <3>1 DEF RowsOf, Put
      <3>3. More(RowsOf(m.content)) >= RowsOf(m.content) /\ More(RowsOf(m.content)) \in 0 .. MaxCount
            /\ (RowsOf(m.content) < More(RowsOf(m.content)) \/ More(RowsOf(m.content)) = MaxCount)
        BY <1>0 DEF More
      <3>4. \A c : PushesOf(c)' = PushesOf(c)
        BY <3>1 DEF PushesOf
      <3>5. PushedOncePerRow'
        <4>. SUFFICES ASSUME NEW c \in DOMAIN pushed PROVE pushed[c] <= RowsOf(c)'
          BY <3>1
        <4>1. pushed[c] <= RowsOf(c) /\ pushed[c] \in 0 .. MaxCount /\ RowsOf(c) \in 0 .. MaxCount
          BY <1>0 DEF PushesOf
        <4>2. CASE c = m.content
          BY <3>2, <3>3, <4>1, <4>2
        <4>3. CASE c # m.content
          BY <3>2, <4>1, <4>3
        <4>. QED
          BY <4>2, <4>3
      <3>6. PushesOf(cur.content)' < RowsOf(cur.content)' \/ RowsOf(cur.content)' = MaxCount
        <4>1. RowsOf(cur.content)' = More(RowsOf(m.content)) /\ PushesOf(cur.content)' = PushesOf(m.content)
          BY <3>1, <3>2, <3>4
        <4>2. PushesOf(m.content) <= RowsOf(m.content) /\ PushesOf(m.content) \in 0 .. MaxCount
              /\ RowsOf(m.content) \in 0 .. MaxCount
          BY <1>0
        <4>. QED
          BY <3>3, <4>1, <4>2
      <3>. QED
        BY <3>5, <3>6
    <2>. QED
      BY <2>1, <2>2
  <1>2. CASE Notify
    <2>1. /\ pushed' = Put(pushed, cur.content, More(PushesOf(cur.content)))
          /\ pc = "notify" /\ pc' = "delete" /\ archive' = archive
      BY <1>2 DEF Notify
    <2>2. More(PushesOf(cur.content)) <= RowsOf(cur.content)
      <3>1. /\ PushesOf(cur.content) < RowsOf(cur.content) \/ RowsOf(cur.content) = MaxCount
            /\ PushesOf(cur.content) \in 0 .. MaxCount /\ RowsOf(cur.content) \in 0 .. MaxCount
        BY <1>0, <2>1
      <3>. QED
        BY <1>0, <3>1 DEF More
    <2>3. \A c : RowsOf(c)' = RowsOf(c)
      BY <2>1 DEF RowsOf
    <2>4. \A c \in DOMAIN pushed' : pushed'[c] <= RowsOf(c)
      BY <2>1, <2>2 DEF Put
    <2>. QED
      BY <2>1, <2>3, <2>4
  <1>3. CASE Tick
    <2>1. /\ DOMAIN archive' = DOMAIN archive /\ UNCHANGED <<pushed, pc, cur>>
          /\ \A c \in DOMAIN archive : archive'[c].rows = archive[c].rows
      BY <1>3 DEF Tick, SmsTypeOK
    <2>2. \A c : RowsOf(c)' = RowsOf(c) /\ PushesOf(c)' = PushesOf(c)
      BY <2>1 DEF RowsOf, PushesOf
    <2>. QED
      BY <2>1, <2>2
  <1>4. CASE Reconnect \/ \E p \in Parts, s \in Slots : Deliver(p, s)
    <2>1. UNCHANGED <<archive, pushed, pc, cur>>
      BY <1>4 DEF Reconnect, Deliver
    <2>. QED
      BY <2>1 DEF RowsOf, PushesOf
  <1>5. CASE List \/ DeleteMsg \/ Track \/ Relist \/ Purge \/ DropStale \/ EndPoll \/ StoreFault \/ Crash
    <2>1. pc' # "notify" /\ UNCHANGED <<archive, pushed>>
      BY <1>5 DEF List, DeleteMsg, Track, Relist, Purge, DropStale, EndPoll, StoreFault, Crash, Abort
    <2>2. \A c : RowsOf(c)' = RowsOf(c)
      BY <2>1 DEF RowsOf
    <2>. QED
      BY <1>00, <2>1, <2>2
  <1>6. CASE UNCHANGED vars
    BY <1>6 DEF vars, RowsOf, PushesOf
  <1>. QED
    BY <1>1, <1>2, <1>3, <1>4, <1>5, <1>6 DEF Next, PollStep

\* Whole messages, when no two messages share a reference.
LEMMA WholePreserved == KeysAreUnique /\ SmsInv /\ WholeMessages /\ [Next]_vars => WholeMessages'
  <1>. SUFFICES ASSUME KeysAreUnique, SmsInv, WholeMessages, [Next]_vars PROVE WholeMessages'
    OBVIOUS
  <1>. USE DEF WholeMessages, OnlyWholeMessages, poll
  <1>1. CASE List
    <2>1. \A e \in todo' : \E m \in Sms : e.content = Content(m)
      BY <1>1, ListedFacts DEF List, SmsInv
    <2>. QED
      BY <1>1, <2>1 DEF List
  <1>2. ASSUME NEW e \in todo, Store(e) PROVE WholeMessages'
    <2>1. todo' \subseteq todo /\ DOMAIN archive' \subseteq DOMAIN archive \cup {e.content}
      BY <1>2 DEF Store, Put
    <2>. QED
      BY <2>1
  <1>3. CASE Tick
    BY <1>3 DEF Tick
  <1>4. CASE \/ Notify \/ DeleteMsg \/ Track \/ Relist \/ Purge \/ DropStale \/ EndPoll \/ StoreFault
             \/ Crash \/ Reconnect \/ \E p \in Parts, s \in Slots : Deliver(p, s)
    <2>1. todo' \subseteq todo /\ archive' = archive
      BY <1>4 DEF Notify, DeleteMsg, Track, Relist, Purge, DropStale, EndPoll, StoreFault, Crash, Abort,
                  Reconnect, Deliver
    <2>. QED
      BY <2>1
  <1>5. CASE UNCHANGED vars
    BY <1>5 DEF vars
  <1>. QED
    BY <1>1, <1>2, <1>3, <1>4, <1>5 DEF Next, PollStep

-----------------------------------------------------------------------------
\* SmsInv holds in every reachable state, for any messages, SIM, faults and limits.
THEOREM SmsInvariant == Spec => []SmsInv
  <1>1. SmsInv /\ [Next]_vars => SmsInv'
    BY SmsTypePreserved, SlotsHeldPreserved, RowsAheadPreserved DEF SmsInv
  <1>. QED
    BY InitEstablishesSmsInv, <1>1, PTL DEF Spec

\* SIM, rows, notifications, tracker and the poll's locals have their types, and the
\* locals are empty between polls.
THEOREM SmsTypeCorrect == Spec => []SmsTypeOK
  <1>1. SmsInv => SmsTypeOK
    BY DEF SmsInv
  <1>. QED
    BY SmsInvariant, <1>1, PTL

\* _store_incoming queues a notification only for a row, and once for each.
THEOREM NotificationsHaveRows == Spec => []PushedOncePerRow
  <1>1. SmsInv => PushedOncePerRow
    BY DEF SmsInv
  <1>. QED
    BY SmsInvariant, <1>1, PTL

\* group_pdu_parts: rows are whole messages in the order they were written, whatever
\* the order and the slots in which the segments came, unless two messages share a
\* reference.
THEOREM RowsAreWholeMessages == KeysAreUnique => (Spec => []OnlyWholeMessages)
  <1>. SUFFICES ASSUME KeysAreUnique PROVE Spec => []OnlyWholeMessages
    OBVIOUS
  <1>1. Init => WholeMessages
    BY InitEstablishesSmsInv
  <1>2. SmsInv /\ WholeMessages /\ [Next]_vars => WholeMessages'
    BY WholePreserved
  <1>3. WholeMessages => OnlyWholeMessages
    BY DEF WholeMessages
  <1>. QED
    BY SmsInvariant, <1>1, <1>2, <1>3, PTL DEF Spec

\* _already_stored: within its window a text gets one row, however often its deletion
\* fails, a poll is cut short or the process restarts.
THEOREM OneRowInWindow == "tick" \notin Events => (Spec => []StoredOnce)
  <1>. DEFINE Fresh == StoredOnce /\ \A c \in DOMAIN archive : archive[c].age = 0
  <1>. SUFFICES ASSUME "tick" \notin Events PROVE Spec => []StoredOnce
    OBVIOUS
  <1>1. Init => Fresh
    BY DEF Init, StoredOnce
  <1>2. Fresh /\ [Next]_vars => Fresh'
    <2>. SUFFICES ASSUME Fresh, [Next]_vars PROVE Fresh'
      OBVIOUS
    <2>1. ASSUME NEW e \in todo, Store(e) PROVE Fresh'
      <3>1. CASE e.content \in DOMAIN archive
        BY <2>1, <3>1, TimeAssumption DEF Store, AlreadyStored, StoredOnce
      <3>2. CASE e.content \notin DOMAIN archive
        <4>1. More(RowsOf(e.content)) = 1
          BY <3>2, TimeAssumption DEF More, RowsOf
        <4>2. archive' = Put(archive, e.content, [rows |-> 1, age |-> 0])
          BY <2>1, <3>2, <4>1 DEF Store, AlreadyStored
        <4>. QED
          BY <4>2 DEF Put, StoredOnce
      <3>. QED
        BY <3>1, <3>2
    <2>2. ~Tick
      BY DEF Tick
    <2>3. CASE \/ List \/ Notify \/ DeleteMsg \/ Track \/ Relist \/ Purge \/ DropStale \/ EndPoll
               \/ StoreFault \/ Crash \/ Reconnect \/ \E p \in Parts, s \in Slots : Deliver(p, s)
      <3>1. archive' = archive
        BY <2>3 DEF List, Notify, DeleteMsg, Track, Relist, Purge, DropStale, EndPoll, StoreFault, Crash,
                    Reconnect, Deliver
      <3>. QED
        BY <3>1 DEF StoredOnce
    <2>4. CASE UNCHANGED vars
      BY <2>4 DEF vars, StoredOnce
    <2>. QED
      BY <2>1, <2>2, <2>3, <2>4 DEF Next, PollStep
  <1>3. Fresh => StoredOnce
    OBVIOUS
  <1>. HIDE DEF Fresh
  <1>. QED
    BY <1>1, <1>2, <1>3, PTL DEF Spec

\* Nothing leaves the SIM before its text is in a row, or is given up as stale: no
\* error, reconnect or restart between two steps of a poll loses a record.
THEOREM NothingLostUnstored == Spec => StoredBeforeRemoved
  <1>. DEFINE Kept ==
         \A s \in DOMAIN sim \ DOMAIN sim' :
           \/ sim[s] = Leftover
           \/ \E c \in DOMAIN archive : \E i \in DOMAIN c : c[i] = Piece(sim[s])
           \/ pc = "drop" /\ \E k \in Keys : <<k, s>> \in stale
  <1>1. SmsInv /\ [Next]_vars => [Kept]_vars
    <2>. SUFFICES ASSUME SmsInv, Next PROVE Kept
      OBVIOUS
    <2>1. CASE DeleteMsg
      <3>1. PICK s \in cur.slots : Removes({s})
        BY <2>1 DEF DeleteMsg
      <3>2. Intact(cur) /\ cur.content \in DOMAIN archive
        BY <2>1 DEF DeleteMsg, SmsInv, SlotsHeld
      <3>3. DOMAIN sim \ DOMAIN sim' \subseteq {s}
        BY <3>1, RemovesFacts
      <3>. QED
        BY <3>2, <3>3 DEF Intact
    <2>2. CASE Purge
      <3>1. CASE fresh
        BY <2>2, <3>1 DEF Purge
      <3>2. CASE ~fresh
        <4>1. DOMAIN sim \ DOMAIN sim' \subseteq DOMAIN sim \ Unread(sim)
          BY <2>2, <3>2, RemovesFacts DEF Purge
        <4>. QED
          BY <4>1 DEF Unread
      <3>. QED
        BY <3>1, <3>2
    <2>3. CASE DropStale
      <3>1. PICK e \in stale : Removes({e[2]})
        BY <2>3 DEF DropStale
      <3>2. PICK k \in Keys, s \in Slots : e = <<k, s>>
        BY DEF SmsInv, SmsTypeOK
      <3>3. DOMAIN sim \ DOMAIN sim' \subseteq {s} /\ pc = "drop"
        BY <2>3, <3>1, <3>2, RemovesFacts DEF DropStale
      <3>. QED
        BY <3>2, <3>3
    <2>4. CASE \E p \in Parts, s \in Slots : Deliver(p, s)
      <3>1. DOMAIN sim \subseteq DOMAIN sim'
        BY <2>4 DEF Deliver, Put
      <3>. QED
        BY <3>1
    <2>5. CASE \/ List \/ Notify \/ Track \/ Relist \/ EndPoll \/ StoreFault \/ Crash \/ Reconnect \/ Tick
               \/ \E m \in todo : Store(m)
      <3>1. sim' = sim
        BY <2>5 DEF List, Notify, Track, Relist, EndPoll, StoreFault, Crash, Reconnect, Tick, Store
      <3>. QED
        BY <3>1
    <2>. QED
      BY <2>1, <2>2, <2>3, <2>4, <2>5 DEF Next, PollStep
  <1>. QED
    BY SmsInvariant, <1>1, PTL DEF Spec, StoredBeforeRemoved
=============================================================================
