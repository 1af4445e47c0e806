------------------------------ MODULE MCCorpus -------------------------------
(* Instances of Corpus small enough for TLC. *)
EXTENDS Corpus, TLC

CONSTANTS astro, anafi, limits, revised, sheet, wind, furniture, injected, heat

MCText == limits :> <<wind, injected, injected>> @@ revised :> <<wind, heat, wind>> @@ sheet :> <<furniture, heat>>

MCWords == wind :> {"maximum", "wind", "the"} @@ heat :> {"maximum", "temperature"}
           @@ injected :> {"wind", "temperature"} @@ furniture :> {"wind"}

\* 12.0 m/s, 45 C and, in what is held back, 90 (W).
MCNumbers == wind :> {120} @@ heat :> {450} @@ injected :> {900} @@ furniture :> {}

MCListing == 1 :> [kind |-> "procedure", airframe |-> astro, field |-> None]
             @@ 2 :> [kind |-> "datasheet", airframe |-> anafi, field |-> None]

\* Documents of no airframe, for the run that plans nothing.
GeneralListing == [p \in 1..2 |-> [kind |-> "procedure", airframe |-> None, field |-> None]]

MCCheckout == 1 :> limits @@ 2 :> None
MCCommits == {<<1, revised>>, <<2, sheet>>}
MCOverwrites == {<<2, limits>>}

MCAsked == astro :> <<"max_wind_mps">> @@ anafi :> <<"max_temp_c">>

MCNothingAsked == [a \in {} |-> <<>>]

MCQuery == [max_wind_mps |-> {"maximum", "wind", "speed", "limit"},
            max_temp_c |-> {"maximum", "operating", "temperature"}]

Http(dimension) == [kind |-> "http", id |-> "served", dimension |-> dimension]
Hashing == [kind |-> "hashing", id |-> "hashing-v1", dimension |-> 2]
MCEmbedders == {Http(2), Hashing}
HashingOnly == {Hashing}

MCSimilarities == -1..1

MCWidth == [small |-> 2, large |-> 3]

\* "12 m/s", "90 W", and go-language with 45.0 C.
MCProse == {[go |-> FALSE, states |-> {[tenths |-> 120, decimals |-> 0]}],
            [go |-> FALSE, states |-> {[tenths |-> 900, decimals |-> 0]}],
            [go |-> TRUE, states |-> {[tenths |-> 450, decimals |-> 1]}]}
=============================================================================
