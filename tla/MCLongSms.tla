------------------------------ MODULE MCLongSms ------------------------------
EXTENDS LongSmsProofs

Odd == [plus |-> TRUE, digits |-> <<4, 9, 1>>]
Even == [plus |-> FALSE, digits |-> <<1, 0, 0, 8>>]

Times(n, c) == [i \in 1 .. n |-> c]
Is(text) == [number |-> Odd, text |-> text, old |-> FALSE]
IsOld(text) == [number |-> Even, text |-> text, old |-> TRUE]

\* Every text of at most two characters, mixtures of characters of one and two
\* septets, and texts around the limits of one, two and three segments, with
\* characters of two septets or two units across a limit.
Short == {<<>>} \cup {<<c>> : c \in Characters} \cup {<<c, d>> : c, d \in Characters}
Mixed == {Times(4, "at") \o t : t \in [1 .. 7 -> {"at", "brace"}]}
Around ==
  {Times(n, "a") \o t : n \in 5 .. 28, t \in {<<>>, <<"brace">>}}
  \cup {Times(n, "han") \o t : n \in 2 .. 13, t \in {<<>>, <<"emoji">>}}
  \cup {Times(3, "a") \o <<"escape", "brace">>, Times(5, "emoji")}
TwoMessages ==
  << {Is(t) : t \in Short \cup Mixed \cup Around}
       \cup {IsOld(t) : t \in {Times(n, "a") \o <<"brace", "at">> : n \in {7, 8, 16, 17}}},
     {Is(t) : t \in {<<"han", "emoji">>, Times(17, "at"), Times(5, "han")}} >>

AtTheWrap == {64254}

\* The messages are such as theorems TextsDelivered and CounterSeparates are about.
ASSUME OffersAreReadable == Readable /\ Separated
=============================================================================
