------------------------------- MODULE Prices -------------------------------
(***************************************************************************)
(* packages/sugar/src/prices.ts: getPrices takes the rates of the tokens   *)
(* from a cache the clients of a chain share, and reads what has expired   *)
(* from the oracle in batches, while time passes, tokens are listed and    *)
(* the cache is cleared.  The retries of a read are SugarReads.            *)
(***************************************************************************)
EXTENDS TokenList, Sequences, SequencesExt

CONSTANTS
  Stable,         \* the token the others are priced in
  Emerging,       \* tokens the oracle prices though they are not listed
  BatchSize,      \* priceBatchSize
  RateTimeout,    \* pricingCacheTimeoutSeconds
  ReadTime,       \* the deadline of a batched read
  MaxTokenTime    \* bound

ASSUME PricesAssumption ==
  /\ IsFiniteSet(Tokens) /\ {Native, Stable} \subseteq Tokens
  /\ {RateTimeout, MaxTokenTime} \subseteq Nat
  /\ {BatchSize, ReadTime} \subseteq Nat \ {0}

VARIABLES
  tokenTime,
  rateCache,      \* priceRateCache
  pricing         \* the getPrices call under way, or its answer

marketVars == <<listVars, tokenTime>>
priceVars == <<marketVars, rateCache, pricing>>

\* A rate the oracle gave: whose it is and when; an oracle may know none.
Rates == [of : Tokens, at : 0..MaxTokenTime, known : BOOLEAN]
NoRate == [of |-> NoToken, at |-> 0, known |-> FALSE]
NoPricing == [step |-> "idle", asked |-> {}, since |-> 0, stale |-> {}, batches |-> {},
              rates |-> [t \in {} |-> NoRate]]

PricesTypeOK ==
  /\ listed \in SUBSET Tokens
  /\ \A t \in Tokens : rateCache[t].rate \in Rates \cup {NoRate}
  /\ pricing.step \in {"idle", "reading", "answered", "failed"}

PricesInit ==
  /\ ListInit /\ tokenTime = 0
  /\ rateCache = [t \in Tokens |-> [rate |-> NoRate, expires |-> 0]]
  /\ pricing = NoPricing

-----------------------------------------------------------------------------
\* getPriceRequestTokens, with the native token and the stable anchor.
PriceRequest(asked) ==
  {t \in asked \cup {Native, Stable} : t \in listed \cup Emerging}

\* Faulty variant: what is cached is used however old it is.
EverPriced(t) == rateCache[t].rate # NoRate

StillCached(t) == rateCache[t].rate # NoRate /\ rateCache[t].expires > tokenTime

Chunks(s) ==
  {SubSeq(s, i * BatchSize + 1, Min({Len(s), (i + 1) * BatchSize})) :
     i \in 0..((Len(s) + BatchSize - 1) \div BatchSize - 1)}

\* preparePrices: the anchor has a rate, and a token is worth something in it.
Priced(request) ==
  {t \in request.asked \cap DOMAIN request.rates :
     request.rates[t].known /\ request.rates[Native].known}

PriceAnswered(request) ==
  IF Stable \in DOMAIN request.rates /\ request.rates[Stable].known
  THEN [request EXCEPT !.step = "answered", !.asked = Priced(request)]
  ELSE [NoPricing EXCEPT !.step = "failed"]

\* getPrices: the rates still cached are taken at once.
AskPrices(asked) ==
  /\ pricing.step # "reading" /\ asked # {}
  /\ LET request == PriceRequest(asked)
         cached == {t \in request : StillCached(t)}
         batches == Chunks(SetToSeq(request \ cached))
         new == [step |-> "reading", asked |-> asked, since |-> tokenTime,
                 stale |-> request \ cached, batches |-> batches,
                 rates |-> [t \in cached |-> rateCache[t].rate]] IN
     pricing' = IF batches = {} THEN PriceAnswered(new) ELSE new
  /\ UNCHANGED <<marketVars, rateCache>>

\* One batch comes back: a rate for each of its tokens, in their order.
ReadBatch ==
  /\ pricing.step = "reading"
  /\ \E batch \in pricing.batches, unknown \in SUBSET Tokens :
       LET new == [t \in ToSet(batch) |->
                     [of |-> t, at |-> tokenTime, known |-> t \notin unknown]] IN
       /\ unknown \subseteq ToSet(batch)
       /\ pricing' = [pricing EXCEPT !.batches = @ \ {batch},
            !.rates = [t \in DOMAIN @ \cup ToSet(batch) |->
                         IF t \in ToSet(batch) THEN new[t] ELSE @[t]]]
  /\ UNCHANGED <<marketVars, rateCache>>

\* The reads of getPrices are retried as SugarReads has it; a read that fails
\* for good fails the call.
PricesFail ==
  /\ pricing.step = "reading"
  /\ pricing' = [NoPricing EXCEPT !.step = "failed"]
  /\ UNCHANGED <<marketVars, rateCache>>

\* All batches are read: the rates expire together, counted from now.
StorePrices ==
  /\ pricing.step = "reading" /\ pricing.batches = {}
  /\ rateCache' = [t \in Tokens |->
       IF t \in pricing.stale
       THEN [rate |-> pricing.rates[t], expires |-> tokenTime + RateTimeout]
       ELSE rateCache[t]]
  /\ pricing' = PriceAnswered(pricing)
  /\ UNCHANGED <<marketVars>>

\* invalidateSugarCaches clears the rates, also under a call.
ClearRates ==
  /\ \E t \in Tokens : rateCache[t].rate # NoRate
  /\ rateCache' = [t \in Tokens |-> [rate |-> NoRate, expires |-> 0]]
  /\ UNCHANGED <<marketVars, pricing>>

TokenTick ==
  /\ tokenTime < MaxTokenTime /\ tokenTime' = tokenTime + 1
  /\ pricing.step = "reading" => tokenTime < pricing.since + ReadTime
  /\ UNCHANGED <<listVars, rateCache, pricing>>

PricesNext ==
  \/ \E asked \in SUBSET Tokens : AskPrices(asked)
  \/ ReadBatch \/ PricesFail \/ StorePrices \/ ClearRates
  \/ TokenTick \/ (\E t \in Tokens : ListToken(t) /\ UNCHANGED <<tokenTime, rateCache, pricing>>)

PricesSpec == PricesInit /\ [][PricesNext]_priceVars

-----------------------------------------------------------------------------
\* getPrices: whatever is cleared, listed or read meanwhile, the rate an answer
\* uses for a token is that token's, and was read no longer before the call
\* than the time to live and the duration of the read that fetched it.
RatesAreFresh ==
  pricing.step = "answered" =>
    \A t \in DOMAIN pricing.rates :
      /\ pricing.rates[t].of = t
      /\ pricing.since < pricing.rates[t].at + RateTimeout + ReadTime

=============================================================================
