------------------------------ MODULE Catalog ------------------------------
(***************************************************************************)
(* packages/sugar/src/pools.ts and positions.ts: a client finds a pool and *)
(* an owner's positions by several reads of contracts that move meanwhile. *)
(* The Sugar contract numbers the pools of its factories one after         *)
(* another: a new pool of an early factory shifts the rest, so an offset   *)
(* on file, a cached catalog and a cached count may all be stale.  Every   *)
(* pool here is concentrated; the reads of the catalog itself, and their   *)
(* retries, are SugarReads.                                                *)
(***************************************************************************)
EXTENDS Naturals, FiniteSets, Sequences, SequencesExt, Bags

CONSTANTS
  Pools, Nfts,
  PoolOf,      \* [Nfts -> Pools]: the pool an NFT was minted in
  CatalogClients,
  ScanPage,    \* poolPaginationMaxSize
  NftPage,     \* UNSTAKED_CL_PAGE
  Overscan,    \* pools a scan reads beyond the count
  MaxMoves,    \* bound: what the chain may do
  Nowhere      \* no offset, count or catalog

VARIABLES
  listing,     \* on chain: the pools in the order of the Sugar contract
  homes,       \* on chain: "none", "wallet" or "gauge" for each NFT
  holding,     \* on chain: the NFTs in the wallet, as the manager numbers them
  moves,
  offsetStore, \* poolLocatorStore, shared by the clients
  countCache, catalogCache,
  lookups      \* what each client is doing, and what came of it

poolWorld == <<listing, homes, holding, moves>>
catalogVars == <<poolWorld, offsetStore, countCache, catalogCache, lookups>>

LookupKinds == {"pool", "byPool", "one", "all", "epochs"}
NoLookup == [step |-> "idle", kind |-> "none", pool |-> Nowhere, offset |-> Nowhere,
             pages |-> {}, known |-> {}, balance |-> Nowhere, from |-> 0,
             found |-> EmptyBag, quiet |-> TRUE]

CatalogTypeOK ==
  /\ listing \in Seq(Pools) /\ IsInjective(listing)
  /\ homes \in [Nfts -> {"none", "wallet", "gauge"}]
  /\ IsInjective(holding) /\ ToSet(holding) = {n \in Nfts : homes[n] = "wallet"}
  /\ offsetStore \in [Pools -> Nat \cup {Nowhere}]
  /\ \A c \in CatalogClients :
       /\ lookups[c].step \in {"idle", "locate", "verify", "search", "confirm",
                               "gather", "done", "failed"}
       /\ lookups[c].kind \in LookupKinds \cup {"none"}

CatalogInit ==
  /\ \E p \in Pools : listing = <<p>>
  /\ homes = [n \in Nfts |-> "none"] /\ holding = <<>> /\ moves = 0
  /\ offsetStore = [p \in Pools |-> Nowhere]
  /\ countCache = Nowhere /\ catalogCache = Nowhere
  /\ lookups = [c \in CatalogClients |-> NoLookup]

-----------------------------------------------------------------------------
(* The chain: pools are created, positions minted, staked and unstaked *)

Move ==
  /\ moves < MaxMoves /\ moves' = moves + 1
  /\ lookups' = [c \in CatalogClients |-> [lookups[c] EXCEPT !.quiet = FALSE]]
  /\ UNCHANGED <<offsetStore, countCache, catalogCache>>

\* A pool of one of the factories: it may come before pools listed earlier.
ListPool(p) ==
  /\ Move /\ p \notin ToSet(listing)
  /\ \E i \in 1..(Len(listing) + 1) : listing' = InsertAt(listing, i, p)
  /\ UNCHANGED <<homes, holding>>

\* The manager fills the gap an NFT leaves with the last one.
Without(s, n) ==
  LET i == CHOOSE j \in DOMAIN s : s[j] = n IN
  SubSeq(IF i = Len(s) THEN s ELSE [s EXCEPT ![i] = Last(s)], 1, Len(s) - 1)

MoveNft(n) ==
  /\ Move /\ PoolOf[n] \in ToSet(listing)
  /\ IF homes[n] = "wallet"
     THEN homes' = [homes EXCEPT ![n] = "gauge"] /\ holding' = Without(holding, n)
     ELSE homes' = [homes EXCEPT ![n] = "wallet"] /\ holding' = Append(holding, n)
  /\ UNCHANGED listing

-----------------------------------------------------------------------------
(* Reads *)

\* paginate: whole pages until the count and the overscan are covered.
ScanPages(count) ==
  {<<i * ScanPage, ScanPage>> : i \in 0..((count + Overscan + ScanPage - 1) \div ScanPage - 1)}

Slice(s, page) == SubSeq(s, page[1] + 1, Min({Len(s), page[1] + page[2]}))
PoolsOnPage(page) == Slice(listing, page)

\* rawPoolAtOffset and rawPoolMatches.
PoolMatches(offset, p) == PoolsOnPage(<<offset, 1>>) = <<p>>

\* Sugar's positions: the staked ones in the pools of a page.
StakedOn(page) == {n \in Nfts : homes[n] = "gauge" /\ PoolOf[n] \in ToSet(PoolsOnPage(page))}

CountNow == IF countCache = Nowhere THEN Len(listing) ELSE countCache

\* getRawPools through the shared cache.
RawPools ==
  IF catalogCache # Nowhere THEN catalogCache
  ELSE Slice(listing, <<0, Cardinality(ScanPages(CountNow)) * ScanPage>>)

\* A scan of the catalog needs the count.
ReadRawPools ==
  /\ catalogCache' = RawPools
  /\ countCache' = IF catalogCache = Nowhere THEN CountNow ELSE countCache

\* The time to live of a cache is over, or the client invalidates it.
CacheExpires ==
  /\ \/ countCache # Nowhere /\ countCache' = Nowhere /\ UNCHANGED catalogCache
     \/ catalogCache # Nowhere /\ catalogCache' = Nowhere /\ UNCHANGED countCache
  /\ UNCHANGED <<poolWorld, offsetStore, lookups>>

-----------------------------------------------------------------------------
(* A lookup of one client *)

Look(c, from) == lookups[c].step = from
Becomes(c, new) == lookups' = [lookups EXCEPT ![c] = new]
ChainNow(c) == lookups[c]

\* getPoolByAddress, getPositionsByPool, getPositionByPool, getPositions and
\* getLatestPoolEpochs.
StartLookup(c, kind, p) ==
  /\ lookups[c].step \in {"idle", "done", "failed"}
  /\ LET asked == [NoLookup EXCEPT !.kind = kind] IN
     CASE kind \in {"pool", "byPool", "one"} ->
            /\ Becomes(c, [asked EXCEPT !.step = "locate", !.pool = p])
            /\ UNCHANGED countCache
       [] kind = "all" ->
            /\ Becomes(c, [asked EXCEPT !.step = "search"])
            /\ UNCHANGED countCache
       [] OTHER ->
            /\ Becomes(c, [asked EXCEPT !.step = "gather", !.pages = ScanPages(CountNow),
                                        !.balance = 0])
            /\ countCache' = CountNow
  /\ UNCHANGED <<poolWorld, offsetStore, catalogCache>>

\* storedLocatorOffset: a store that fails has nothing.
ReadStore(c) ==
  /\ Look(c, "locate")
  /\ \E offset \in {offsetStore[ChainNow(c).pool], Nowhere} :
       Becomes(c, [ChainNow(c) EXCEPT !.offset = offset,
                     !.step = IF offset = Nowhere THEN "search" ELSE "verify"])
  /\ UNCHANGED <<poolWorld, offsetStore, countCache, catalogCache>>

\* The pool is where it was looked for: the lookup ends, or positions follow.
Located(look) ==
  IF look.kind = "pool" THEN [look EXCEPT !.step = "done"]
  ELSE [look EXCEPT !.step = "gather", !.pages = {<<look.offset, 1>>}, !.known = {look.pool}]

\* Faulty variant: the offset on file is taken for right.
StandsBlindly(look) == TRUE

StoredStands(look) == PoolMatches(look.offset, look.pool)

\* The offset on file is verified; one that is wrong is deleted if it can be.
VerifyStored(c) ==
  /\ Look(c, "verify")
  /\ IF StoredStands(ChainNow(c))
     THEN Becomes(c, Located(ChainNow(c))) /\ UNCHANGED offsetStore
     ELSE /\ Becomes(c, [ChainNow(c) EXCEPT !.step = "search", !.offset = Nowhere])
          /\ \/ offsetStore' = [offsetStore EXCEPT ![ChainNow(c).pool] = Nowhere]
             \/ UNCHANGED offsetStore
  /\ UNCHANGED <<poolWorld, countCache, catalogCache>>

\* getLatestPoolEpochs: the epochs are read, and told for the pools that are in the catalog.
KnownEpochs(look) == [look EXCEPT !.step = "done", !.known = ToSet(RawPools)]

\* The catalog: for one pool its offset, for all positions the pools to keep.
SearchCatalog(c) ==
  /\ Look(c, "search") /\ ReadRawPools
  /\ LET look == ChainNow(c)
         at == {i \in DOMAIN RawPools : RawPools[i] = look.pool} IN
     Becomes(c, CASE look.kind = "all" ->
                       [look EXCEPT !.step = "gather", !.known = ToSet(RawPools),
                          !.pages = Nowhere,
                          !.balance = IF RawPools = <<>> THEN 0 ELSE Nowhere]
                  [] look.kind = "epochs" -> KnownEpochs(look)
                  [] at = {} -> [look EXCEPT !.step = "done", !.known = {}]
                  [] OTHER -> [look EXCEPT !.step = "confirm",
                                 !.offset = (CHOOSE i \in at : TRUE) - 1])
  /\ UNCHANGED <<poolWorld, offsetStore>>

\* The scan for all positions reads the count again, next to the reads of the
\* wallet.
CountPages(c) ==
  /\ Look(c, "gather") /\ ChainNow(c).pages = Nowhere
  /\ Becomes(c, [ChainNow(c) EXCEPT !.pages = ScanPages(CountNow)])
  /\ countCache' = CountNow
  /\ UNCHANGED <<poolWorld, offsetStore, catalogCache>>

\* The offset found is verified and stored if it can be; a catalog that is
\* stale makes the lookup fail.
ConfirmOffset(c) ==
  /\ Look(c, "confirm")
  /\ IF PoolMatches(ChainNow(c).offset, ChainNow(c).pool)
     THEN /\ Becomes(c, Located(ChainNow(c)))
          /\ \/ offsetStore' = [offsetStore EXCEPT ![ChainNow(c).pool] = ChainNow(c).offset]
             \/ UNCHANGED offsetStore
     ELSE Becomes(c, [ChainNow(c) EXCEPT !.step = "failed"]) /\ UNCHANGED offsetStore
  /\ UNCHANGED <<poolWorld, countCache, catalogCache>>

Found(look, nfts) == [look EXCEPT !.found = @ (+) SetToBag(nfts)]

\* One page of positions, in any order.
ReadPositions(c) ==
  /\ Look(c, "gather") /\ ChainNow(c).pages # Nowhere
  /\ \E page \in ChainNow(c).pages :
       Becomes(c, [Found(ChainNow(c), IF ChainNow(c).kind = "epochs" THEN {} ELSE StakedOn(page))
                     EXCEPT !.pages = @ \ {page}])
  /\ UNCHANGED <<poolWorld, offsetStore, countCache, catalogCache>>

\* unstakedConcentrated: how many NFTs the owner has, then page after page of
\* them; next to the scan for all positions, after it for those of one pool.
ReadUnstaked(c) ==
  /\ Look(c, "gather")
  /\ ChainNow(c).kind # "all" => ChainNow(c).pages = {}
  /\ \/ /\ ChainNow(c).balance = Nowhere
        /\ Becomes(c, [ChainNow(c) EXCEPT !.balance = Len(holding)])
     \/ /\ ChainNow(c).balance # Nowhere /\ ChainNow(c).from < ChainNow(c).balance
        /\ Becomes(c, [Found(ChainNow(c), ToSet(Slice(holding, <<ChainNow(c).from, NftPage>>)))
                         EXCEPT !.from = @ + NftPage])
  /\ UNCHANGED <<poolWorld, offsetStore, countCache, catalogCache>>

\* Faulty variant: an NFT that both reads list is listed twice.
Undeduped(found) == found

Deduped(found) == SetToBag(BagToSet(found))

\* hydratePositions: what is left out has no pool among those read.
Hydrated(look, found) ==
  [n \in {m \in BagToSet(found) : PoolOf[m] \in look.known} |-> found[n]]

\* getPositionByPool wants one position; getPositions takes any number.
AnswerLookup(look, found) ==
  [look EXCEPT !.found = found,
     !.step = IF look.kind = "one" /\ BagCardinality(found) > 1 THEN "failed" ELSE "done"]

\* The answer: each position once, if its pool is the one asked for or in the
\* catalog; epochs still need the catalog.
EndLookup(c) ==
  /\ Look(c, "gather") /\ ChainNow(c).pages = {}
  /\ ChainNow(c).balance # Nowhere /\ ChainNow(c).from >= ChainNow(c).balance
  /\ Becomes(c, IF ChainNow(c).kind = "epochs" THEN [ChainNow(c) EXCEPT !.step = "search"]
                ELSE AnswerLookup(ChainNow(c), Hydrated(ChainNow(c), Deduped(ChainNow(c).found))))
  /\ UNCHANGED <<poolWorld, offsetStore, countCache, catalogCache>>

CatalogNext ==
  \/ \E p \in Pools : ListPool(p)
  \/ \E n \in Nfts : MoveNft(n)
  \/ CacheExpires
  \/ \E c \in CatalogClients :
       \/ \E kind \in LookupKinds, p \in Pools : StartLookup(c, kind, p)
       \/ ReadStore(c) \/ VerifyStored(c) \/ SearchCatalog(c) \/ ConfirmOffset(c)
       \/ CountPages(c) \/ ReadPositions(c) \/ ReadUnstaked(c) \/ EndLookup(c)

CatalogSpec == CatalogInit /\ [][CatalogNext]_catalogVars

-----------------------------------------------------------------------------
\* getPositionsByPool and getPositions: whatever is staked, unstaked, minted or
\* listed between the reads, and however old the offset on file is, an answer
\* has no position twice and none of a pool that was not asked for; if nothing
\* moved during the lookup, it has every position the owner has in the pools
\* it knows, and a pool that was found is at the offset that goes with it.
PositionsAreFound ==
  \A c \in CatalogClients :
    LET look == lookups[c]
        owned == {n \in Nfts : homes[n] # "none" /\ PoolOf[n] \in look.known} IN
    look.step = "done" =>
      /\ \A n \in BagToSet(look.found) : look.found[n] = 1 /\ PoolOf[n] \in look.known
      /\ look.quiet /\ look.kind \in {"byPool", "one", "all"} => BagToSet(look.found) = owned
      /\ look.quiet /\ look.offset # Nowhere => PoolMatches(look.offset, look.pool)
=============================================================================
