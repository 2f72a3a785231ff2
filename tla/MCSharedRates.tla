--------------------------- MODULE MCSharedRates ----------------------------
(* SharedRates with a plain entry and an overridden one, and two goroutines. *)
EXTENDS SharedRates, TLC

S(x, k) == <<"snapshot", x, k>>
C(x, k) == <<"config", x, k>>
MCFields == {"input", "cacheRead"}
MCBoxes == {"Tiers", "RegionalUplift"}

\* gpt's context tier keeps the base cache rate and has an input rate of its
\* own; azure, which is overridden, inherited gpt's input rate.
MCSnapshot ==
    "gpt" :> [rat |-> "input" :> S("input", "") @@ "cacheRead" :> S("cacheRead", ""),
              box |-> "Tiers" :> S("Tiers", "") @@ "RegionalUplift" :> Nil]
    @@ "azure" :> [rat |-> "input" :> S("input", "") @@ "cacheRead" :> Nil,
                   box |-> "Tiers" :> Nil @@ "RegionalUplift" :> Nil]
MCOverrides ==
    "azure" :> [rat |-> "input" :> C("input", "") @@ "cacheRead" :> Nil,
                box |-> "Tiers" :> Nil @@ "RegionalUplift" :> C("RegionalUplift", "")]
MCCells == S("input", "") :> 1 @@ S("cacheRead", "") :> 2 @@ S("Tiers", "1.input") :> 3
           @@ C("input", "") :> 4 @@ C("RegionalUplift", "eu") :> 3
MCContents ==
    S("Tiers", "") :> ("1.input" :> S("Tiers", "1.input") @@ "1.cacheRead" :> S("cacheRead", ""))
    @@ C("RegionalUplift", "") :> ("eu" :> C("RegionalUplift", "eu"))

Ask(entry, embedded, parts, mult) ==
    [entry |-> entry, embedded |-> embedded, parts |-> parts, mult |-> mult]
Of(x, k, n) == [at |-> <<x, k>>, tokens |-> n]
MCRequests ==
    { Ask("gpt", TRUE, <<Of("Tiers", "1.input", 2), Of("Tiers", "1.cacheRead", 1)>>, <<>>),
      Ask("azure", FALSE, <<Of("input", "", 2)>>, <<"RegionalUplift", "eu">>) }
=============================================================================
