# A TLA+ model of llmcost

`llmcost` is a Go library that prices one LLM API response: from a model name and
the raw token counts of the response to an exact amount, rounded up to a whole
nls. Its rates are LiteLLM's, embedded and re-vendored daily by a workflow that
merges by itself when no published price moves. This directory holds TLA+ modules
that model the library, the list price built on it and the workflows around it,
TLC runs that check them on small instances, and TLAPS proofs for every instance.

## The system

| Component | State | Operations | Correct when |
|---|---|---|---|
| Calculator (`llmcost.go`) | none of its own; the locals of a call | `Cost`, `RatesFor` | every token is billed once at the rate that governs it, nothing unpriced is billed as zero, the total is rounded up once |
| Table (`table.go`) | aliases, overrides, a snapshot; fixed at construction | `NewFrom`, `Table.Cost`, `Table.RatesFor` | a bad config panics at construction; an override hides the snapshot's entry; callers cannot write to the table |
| Selector (`selector.go`) | the canonical-name index, built once | `ModelSelector.Key` | one answer per selector, never another provider's key, ambiguous names fail |
| Snapshot (`llmcost.go`) | the parsed price map, built once | `Parse`, `backfillAzureRates` | the result depends on the data and not on map order; no garbage rate is kept |
| List price (`listprice/`) | the price book, built at init | `Of`, `Priceable`, `Markup`, `Book` | what is accepted before a call has a price after it; the book lists what is charged |
| pricediff (`cmd/pricediff`) | none | `diff`, `class` | no class that auto-merges hides a published price that moved |
| Workflows (`.github/workflows`) | main, the sync branch and its pull request, tags | `sync`, `ci`, `tag` | main passes the gate, no published price change merges unapproved, every merge gets a tag, no tag moves |

`Table.Cost` and package-level `Cost` run the same steps (`disjoint`, `tier`,
the lookup, `premium`, `cost`); the package-level one is a table with no aliases
and no overrides. `ModelSelector.Key` reads the parsed snapshot and builds the
index of canonical names over it; a caller prices with the key it returns.
`listprice` configures a Table and calls its `Cost`; `pricediff` compares two
dumps of `listprice.Book`; the sync workflow merges by the class it prints, and
each merge starts a run of the tag workflow.

What is hard here: loops over Go maps, whose order is any order, decide which key
holds a name; goroutines share tables of mutable `big.Rat`s; the checks of `Cost`
come in an order that decides what a request with several defects gets; counts
are int64; a price is promised before a response is seen; and workflow runs
overlap and fail between a push and the policy that goes with it.

## Modules

Components, from the bottom:

- **Rates** is the data: int64 with wrap-around (`Add`, `Sub`), the five parts,
  rates, the three usage types and the methods of the sealed `Usage` interface.
  Money is exact in the code (`big.Rat`), so it is counted in integer quanta.
- **Billing** is the abstract specification: what `Table.Cost` promises, stated
  as one relation, `Due`, between a request and its reply, over mathematical
  integers and without a loop. A usage with a documented sum that no int64 can
  hold (`~Countable`) is outside the promise.
- **TableCost** is the calculator as it runs. `pc` is the statement that comes
  next, and the locals of `Cost` and `cost` are variables: `NewFrom` builds a
  table or panics (`validateOverrideRates` compares each threshold with the one
  before it, where the promise is of all of them); `Cost` takes a request; `Disjoint`, `LookUp`, `Premium`,
  `ScanTier`/`PickTier`, `SumPart` and `Round` are the statements in the order of
  the code; `Return` is the reply. It instantiates Billing under the refinement
  mapping `phase <- pc` (every statement of `Cost` being the phase "ready"), and
  `ImplementsBilling` is Billing's specification.
- **SharedRates** is the memory behind a Table: a `Rates` value is references to
  the cells of its `big.Rat`s and to boxes (the array of `Tiers`, the two maps)
  that hold more of them. `clone`, `NewRats` and `NewBoxes` are `Rates.clone` down
  to each `cpRat`; `NewFrom`, `RatesFor` and `Cost` use it; `Rate`, `Scale` and
  `Return` are the three kinds of write of the sum in `cost`; `Write` and
  `WriteConfig` are callers who do what they like with what they were given or
  what they declared. Cells of a goroutine that is done are collected.
- **KeyGrammar** is the pure part of the selector: ownership, native ids and the
  canonical name of a key. A string is a record of the parts the grammar tells
  apart (prefix, path, geo profile, vendor, base, date, version), so two strings
  are equal exactly when the records are.
- **Selector** is the selector as it runs: `StartBuild`, `Admit` (the body of the
  loop over the table, for any key not yet met) and `Publish` are
  `sync.OnceValue` and the index builder; `Key`, `Exact`, `Scan` and `EndScan`
  are the steps of `Key` for each goroutine; `Restart` ends the process at any
  moment. `answers` collects what every goroutine of every process was told.
- **Snapshot** is `Parse` as it runs. `phase` is the loop it is in, `todo`, `svcs`
  and `left` what that loop has yet to meet, in any order, as with a Go map.
  `ParseModel`, `Service` and `EndModel` are `parseModel`; `Entry`, `Uplift` and
  `Context` the bodies of the loops of `parseProviderMultipliers` and `parseTier`;
  `EndFields` the unstable sort; `Backfill` the body of `backfillAzureRates`. A
  second part of the module reads a price map as a whole, without a loop
  (`Sold`, `SettledBase`, `SettledContext`): `ReadsAsPublished` says that the
  loops, in every order, arrive there. A context takes its gaps from the twin's
  context, or else from the base as the documentation has it; `TwinsMatch` leaves
  out the price maps for which the code does otherwise (finding 3).
- **Book** is what `newBook` makes of a curation and the rows `Book` lists, as
  operators: `newBook`, `entries`, `priced`, `rates`. Where the code appends to a
  slice, an entry says by which `append` (`listing`), so that what a slice has
  twice a set does too.
- **ListPrice** composes Book with the promise of Billing: `NewBook` builds the
  book or panics; `Ask` is `Priceable`; `Of` is the response to the call, with
  whatever only a response reports; `OfExact`, `OfDegraded` and `NoPrice` are
  `book.of`, whose every call of `Table.Cost` gets any reply that is `Due`.
- **PriceDiff** is `diff` and `class` over the rows of two books.
- **Sync** composes PriceDiff, Book and Billing with the workflow: `Start`,
  `Fetch` (with the gate and the merge policy), `Push`, `OpenPR`, `View`, `Apply`
  and `End` are the steps of a run, each of which may `Fail`; runs overlap. `CI` is
  ci.yml as far as the data decides it (`go test`), and `CIFails` is any of its
  other steps failing on whatever data: the latest staticcheck, an install, the
  comparison with upstream. A draft that becomes ready is checked again, and a push
  that only pins a later upstream commit may be. `AutoMerge`, `HumanMerge` and
  `UpstreamCommit` are external.
- **Tag** is the tag workflow: a push to main triggers a run, `Checkout` reads
  the tags, `PushTag` pushes the next one and is refused if it exists, `Lose` is a
  run that fails for any other reason; `TagByHand` is the maintainer. A failed run
  that somebody starts again is not modelled.
- **Release** composes Sync and Tag: a merge of one is the push of the other. Tag
  is also the abstract specification of Release (`ImplementsTag`, under
  `head <- Len(log)`).

**MCTableCost**, **MCSharedRates**, **MCSelector**, **MCSnapshot**,
**MCListPrice**, **MCSync** and **MCRelease** give the constants their values for
TLC; **MCData** is the price data the last two share. **TableCostProofs**,
**SharedRatesProofs**, **SelectorProofs**, **SnapshotProofs**,
**ListPriceProofs**, **SyncProofs**, **TagProofs** and **ReleaseProofs** hold the
theorems.

Definitions called *faulty variant* are plausible bugs of the definition that
follows them; no action uses them. Each property of a passing run is shown to
notice one of them.

## Runs

| Run | Shows |
|---|---|
| `TableCost.cfg` | every reply is the one the documents promise (`ImplementsBilling`), tokens are billed once, use is never free |
| `SharedRates.cfg` | no step writes to what the table refers to, equal requests have equal answers whoever prices or writes meanwhile |
| `Selector.cfg` | the index is fail-closed, the standard form wins, answers are what was asked and do not depend on order, goroutine or process, no date is guessed, a spelling that lost its name still has its native id, every call returns |
| `Snapshot.cfg` | in every order of its loops `Parse` arrives at what the price map publishes; the rates it keeps are sound, before and after the backfill, which fills gaps only |
| `ListPrice.cfg` | the price is the ceiling; a request `Priceable` rejects is never priced, one it accepts is; a degraded price drops exactly what has no rate; the book's rows add up to what is charged, one row per component |
| `Sync.cfg` | main passes the gate; a run that writes alone leaves its policy applied; what merges unattended then moves no published charge; main converges to upstream or to a pull request that waits for a human |
| `Release.cfg` | every tag is at gated data, no tag moves, merges without overlap are all released in order unless their run is lost, and to tag.yml the sync is a series of pushes |
| `TableCostWrap.cfg` | violation: impossible OpenAI counts whose sum wraps are priced |
| `SelectorTie.cfg` | violation: with a tie below the standard form, the answer depends on map order |
| `SnapshotLate.cfg` | violation: a context has no rate where its base has one, which the backfill gave it later |
| `SnapshotThresholds.cfg` | violation: one threshold spelt in two ways is two context tiers |
| `SyncWindow.cfg` | violation: a published price change merges unapproved, through an earlier day's auto-merge |

**Bounds.**
`TableCost.cfg`: int64 is -8..7, so sums wrap within three tokens of the counts in
use; rates are halves of an nls and multipliers halves, so totals fall between, on
and beyond whole nls, and above the largest int64. There are two context tiers,
one of them with an unpriced part, a model with flex rates, one sound and one nil
snapshot, and ten configs of which four build: among the others, thresholds
that repeat and that descend. One request at a time is enough:
what concurrent calls share is SharedRates' question.
`SharedRates.cfg`: two goroutines; an entry with a context tier that shares a rat
with its base, and an Azure entry that shares one with its OpenAI twin and is
overridden by rates with an uplift map; callers write one number, 9, that no rate
has; a goroutine holds the result of one `RatesFor` at a time.
`Selector.cfg`: ten keys in any of their orders: a name with a standard form and a
rival, a name with three rivals and no standard form, two dates of one model, a
geo profile, an aws-region key, the respelled Azure name, Vertex names with `@` and
without the prefix; two goroutines, the smallest number at
which one waits for another; one restart (`MaxRestarts`), so two processes answer.
`Snapshot.cfg`: int64 is -16..15 and `k` stands for 2, so a threshold can overflow
within two digits. The price maps are an OpenAI model with its Azure entry and
that of a data zone, each also replaced by an entry that is garbage, that another
provider owns, that has a context of its own, or a threshold beyond int64; and
maps of the entries that are to be skipped and of one with a threshold in two
spellings. The two violation runs have the same maps. Rates are missing, zero, negative and not numbers; multipliers
too.
`ListPrice.cfg`: int64 is -32..31 and the markup a quarter, so costs lie on both
sides of the largest that has a price. Eight curations, four of which build: with
an alias, an override of a snapshot key, an override of a new key, and one that
collides. Models with a context tier that lacks the one-hour cache rate, without
cache rates, with an uplift, with flex; responses with every combination of geo,
speed and one-hour cache.
`Sync.cfg`: five versions of the data (the first one, an unpublished price
moved, a published rate added, a published model gone, one that does not parse), two
changes upstream (`MaxCommits`), one failed step or check (`MaxFailures`), the scheduled
run and one dispatched by hand once: the least with which a run overlaps another,
a policy is stale and a failure is repaired. `Release.cfg` has no dispatched run
and no failures, but the merges of both changes and a minor version pushed by hand
(`MaxMinor`).

**Fairness.** Only two modules have any; `Cost`, `Parse` and `Of` wait for nothing
and loop over finite data, so that they return is no question.
`Selector!FairSpec` is weak fairness of the builder and of each goroutine's steps:
the Go scheduler runs what is runnable. Restarts are not fair, and there are
finitely many; with no bound on them a call need not return.
`Sync!SyncFairSpec` is weak fairness of the schedule's start, of every run's next
step and of CI, and strong fairness of auto-merge: the cron fires daily, GitHub
runs what it queued, and it merges what it was told to once the checks pass. Weak
fairness would let a push a day, each of which has the same data checked again,
keep auto-merge from ever going first. Upstream and the humans owe nothing, so
`SyncConverges` is content with a pull request that waits for one of them: to
approve, to fix the data, or to look at a check that is red on good data, which
nothing runs again while the head stays.

Deadlock is checked where the system goes on for ever (`SharedRates.cfg`,
`Sync.cfg`, `Release.cfg`). A table or a book may be rejected, `Parse` ends and
callers may stop, so elsewhere it is not.

## Proofs

All theorems are for every value of the constants that meets the named
assumptions, which TLC evaluates in the runs.

- **TableCostProofs.** `Refinement` shows that TableCost implements Billing. The
  inductive invariant `Inv` says how far the call has come and what its locals
  then hold: after `Disjoint` the components are those of the usage, after
  `LookUp` the rates are those of the key, during the scan no threshold passed
  over is exceeded (with ascending thresholds that makes the first hit the
  highest; NewFrom compares neighbours, and `AscendingPairwise` takes that to all
  pairs by the least threshold at which two would part), during the sum the total is that of the parts summed and none of
  them was unpriced. The last step of each call then meets `Due`:
  `DisjointIsBilled` (wrapped arithmetic is exact where the promise holds),
  `ChosenRatesGovern`, `AmountIsCharge`, `Ceiling`. `TypeCorrect`,
  `TokensBilledOnce` and `UseCosts` follow from the same invariant.
- **SharedRatesProofs.** `TableIsImmutable`. The invariant `OwnInv` is one of
  ownership: what the table refers to belongs to the snapshot or to the table's
  own clones, what a goroutine may write to belongs to it, and a box holds cells
  of its owner only. A write goes to something reached from what its writer
  holds, so to an owner that is none of the table's (`Strangers`,
  `TableUntouched`); a clone allocates exactly the cells it refers to
  (`CloneCells`, `CloneOwns`). The proof needs that names of goroutines, entries,
  "snapshot" and "config" differ and that the initial memory has no dangling
  reference (`MemoryAssumption`).
  `SameAnswers` adds what the memory is worth. A step writes to the memory of one
  owner (`OnlyOf`, `Alone`), so what another holds keeps its worth (`WorthKept`)
  and the table is worth what was declared (`WorthInv`); a clone is worth what it
  copies (`CloneWorth`), and a sum is in no cell that is worth something
  (`SumsApart`). So a goroutine half way through has the sum of the parts it has
  done (`SumInv`), which there is one of (`OneSum`, by the least element at which
  two would part). This needs that every part of a request has a rate, since
  cost() refuses one that has none before it multiplies (`RequestAssumption`),
  and that no address is nil or the place of a sum (`AddressAssumption`).
- **SelectorProofs.** `HoldersAreUnique` rests on `IndexInv`: of the claimants met
  so far the holder of a name is strictly the best, and a name without a holder is
  dead or not yet met. `StandardWins` and `AnswersAreDetermined` need
  `NoOutrankedTie`, and `SelectorTie.cfg` shows why. Determinism goes through the
  one answer a selector is owed (`Owed`) and the invariant that a scan's match and
  the names it has yet to meet are exactly the dated variants of the index
  (`OwedInv`). `AnswersAreAsked` needs no assumption about the table.
  `UndatedIsNeverGuessed` reads off `OwedInv` that a key given for lack of a date
  was the only variant; a standard form per date keeps every date in the index.
- **SnapshotProofs.** `TablesAreValid` proves of `Parse` what the theorems about
  Cost assume of a snapshot, for price maps that do not spell a threshold twice. A
  context is met once (`GatheredInv`), so the gathered thresholds differ and
  sorting them makes them ascend; a lent rate was checked where it came from, so
  the backfill keeps rates sound (`Settled`). `RatesStand` follows from the same
  invariant. That the twin has a first context of a given
  threshold is an argument by the least element, which the proof takes from the
  well-foundedness of the natural numbers.
  `TableIsAsPublished` proves that every order of every loop ends with the table
  the price map publishes, if no two of its spellings mean one threshold or region
  and no k takes a threshold beyond int64 (`Plain`), and if a context that leans
  on a base rate of the twin is one the twin has (`TwinsMatch`): the runs
  `SnapshotTwice.cfg`, `SnapshotBeyond.cfg` and `SnapshotLate.cfg` show what happens
  otherwise. It needs a second invariant,
  inductive relative to `Inv` and checked by TLC on the instance of `Snapshot.cfg`
  before it was proved (`FaithInv`): at each point of each loop, what has been built is what the fields already met
  publish (`FieldsInv`), the service tiers built are those for sale of the ones
  already met (`ServicesInv`), and so are the models (`TableInv`). It rests on
  three facts about data. Where names differ when lowered, one more member adds
  exactly one multiplier (`FactorsGrow`). Sorting loses no context and makes up
  none (`SortedKeeps`): an injection of a finite set into itself meets every
  member. And the order of the backfill cannot matter (`TwinHasNoTwin`): the twin
  of an Azure entry is a key of one segment, which has no twin, so a twin still
  has its own rates when they are lent, whether or not it has had its turn. What
  the backfill leaves of any plain price map (`IsFilled`) is the published table
  exactly where `TwinsMatch` holds or no gap is concerned (`FilledIsSettled`).
- **ListPriceProofs.** `MarkupIsCeiling` and `HasMarkupFits`: the markup, computed
  in two parts, is the ceiling for every scale and basis points, and the check
  before the sum passes exactly the costs whose price is an int64;
  `MarkupNeverOverflows`: neither part overflows. On these rests `PriceInv`: `Of`
  works on re-pricings of its own response (`OfInv`), a price is the ceiling of a
  cost that was due. `RejectedIsNeverPriced` follows since a re-pricing has the
  service tier and the speed of the response (`PricedUsages`), and what is priced
  is for sale at them (`PricedIsForSale`). It assumes `Countable`, as do the next
  three.
  `AcceptedHasAPrice` and `DegradesAsLittle` need the order of the re-pricings:
  `TrialInv` says that the response and every re-pricing before the next were
  refused, and that a price is that of the first which was not. A refusal means a
  mode or a component without a rate (`RepliesMean`), one context governs a prompt
  (`OneGoverns`), and dropping a dimension disturbs no other (`WithoutKeeps`), so
  the first re-pricing that is not refused dropped exactly what has no rate
  (`DropsExactly`).
  `BookIsCharged` shows that a listed model has one entry (`OneEntry`) at whose
  key it is charged (`EntryIsCharged`), that a part of the usage has one row among
  those a reader would pick (`OneContext`, `RowIsRate`), and that the row is the
  rate with the factors of `premium`. These three assume of the book what newBook
  demands of a sound curation; of a snapshot what `TestTableInvariants` asserts,
  service tiers included (`BookSnapshotAssumption`); that an override is a `Rates`
  value, which Go does not let be nil (`IsCuration`); that no `litellm_provider`
  belongs to two pricing providers (`OwnerAssumption`: `Provider.owns` compares
  with disjoint names); and that lowering "" gives "" (`LowerAssumption`).
- **SyncProofs.** `GateHolds` is by `GateInv`: CI's verdict is reset by every push
  that changes the data. `PolicyHolds` is by `PolicyInv`: a run is the sole writer
  from its push until another writes; what it then finds on the branch and in the
  pull request is its own, and the commands it has left lead from the pull request
  as it is to its policy (`Leads`). A merge by somebody else in between leaves
  nothing to settle.
  `ChargesAreKept` joins the workflow with the books it vendors. A merge without a
  human has the policy "auto", so no published row left, moved or appeared beside
  others (`AutoIsUnmoved`). The rows under a published id are those of its own
  entry, since `TestBook` lets nothing else be listed there (`OwnRows`), hence both
  versions price its key by the same costs (`PricedAlike`). The costs determine
  the tiers, contexts and fast mode (`SameRates`: multipliers are positive, so a
  product tells its rate), and these what a call without a geo is due
  (`PricedTheSame`, `DueTheSame`). It assumes of a version that passes go test what
  `TestTableInvariants` and `TestBook` assert (`CanaryAssumption`), of any data what
  their Go types say (`DataAssumption`), and of the responses that no geo or region
  they name is priced apart (`BaseGeoAssumption`): those are not in the book.
- **TagProofs.** `ReleasesStay` needs no order; `MergesAreReleased`, of merges whose
  run is not lost, rests on
  `SpacedInv`: without overlap there is one run, of the last commit, and the
  version it has read off is still the next.
- **ReleaseProofs.** `SyncPushesToMain` is the refinement: a merge appends one
  commit, so it is a push to main, and everything else stutters. The theorems of
  TagProofs then carry over to the composition. `ReleasesAreGated` joins `GateInv`
  with Tag's type invariant.

Only model-checked: liveness, as the prover handles neither fairness nor ENABLED
(the selector's `EveryCallReturns`, and `SyncConverges`), and the properties of the violation runs, which TLC refutes.

## Findings

Shown by a violation run:

1. `llmcost.go:349` adds two counts as int64; a sum that wraps passes the guard
   (`TableCostWrap.cfg`).
2. `selector.go:404` lets a tie between outranked spellings kill a name before
   the standard form is met: whether the name resolves depends on map order
   (`SelectorTie.cfg`). The vendored table has no such tie today.
3. `llmcost.go:608` fills the base of an Azure entry after its contexts have
   inherited nil from it, so a context its twin lacks stays without the rate,
   against `llmcost.go:198-199` (`SnapshotLate.cfg`). The vendored data has no such
   context.
4. `llmcost.go:767` keeps two spellings of one threshold, of which map order decides
   the one that bills (`SnapshotThresholds.cfg`); and `llmcost.go:761` multiplies a
   threshold by 1000 after it was found positive, so it can wrap. `table.go:79-83`
   says the parser enforces positive, ascending thresholds; it is the data that has
   them.
5. `sync.yml:162` re-applies the merge policy after the branch was pushed: with an
   earlier day's auto-merge still on, a published price change can merge in
   between (or after a step that failed there), against `sync.yml:22-24`
   (`SyncWindow.cfg`).

Without a run of their own, each an exception that a property of the passing runs
names:

6. `selector.go:225` prefixes every Vertex model, so keys without the prefix that
   lost their name to a `vertex_ai/` twin (about twenty `gemini-*` keys) are reached
   by no selector, against `selector.go:380-381` (`DroppedStaysReachable`).
7. `selector.go:131` judges a date unique on the index, from which ties have been
   dropped: of two dates, one of them spelt in two versions, the undated name is
   given the other, against `selector.go:73-75` (`UndatedNeverGuessed`). In the
   vendored table no other date remains of a name so lost.
8. `tag.yml:23` reads the latest tag without a concurrency group: of two merges
   close together one can get no tag, against `sync.yml:21` and `README.md:212`; or
   the older commit is tagged last (`SpacedMergesAreReleased`).
9. `llmcost.go:336` scales Claude's cache traffic by the geo factor, which the
   comments at 81-82 and 258-259 deny and those at 212 and 311 affirm; `Billing`
   follows the code.

Also seen while modelling, with no run:

- `doc.go:159-161` says any non-zero usage costs at least 1 nls, while an explicit
  zero cache rate is honoured (`llmcost.go:503-511`), so a request of cached
  tokens alone can be free. That is why `UseIsNeverFree` speaks of uncached input
  and output.
- `Of` also prices keys the book lists no row for, such as another cloud's
  (`book.go:84-86` says a model without a row has no list price): `Priceable`
  accepts them too. `BookExplainsCharge` speaks of listed models.
- `Priceable` rejects the empty service tier, which `Of` prices as the standard
  one, and accepts requests whose response can be refused for a nil cache rate:
  `AcceptedIsPriced` names that exception.
- A published id that is another model's key, or an override owned by another
  provider, is not rejected by `newBook`, and gives rows that contradict each
  other. `Plain` excludes such curations.
- `Book` has no rows for inference geos and uplifts, so `pricediff` cannot see
  that one moved, and such a change merges by itself (`sync.yml:111`).
  `UnattendedKeepsCharges` speaks of base-geo responses.

## Not modelled

JSON decoding, decimal parsing, `debug.ReadBuildInfo`, the vendored-commit string
and report formatting: library work, or no state. `Costs` (the book's rows once
more, for the keys the selector resolves on other clouds) and the order of the
book's rows: they are output that nothing in the repository reads back. The
contents of the vendored price map stand behind the constants. Strings are
compared and taken apart as records: the regular expressions of the grammar are
modelled by what they match. Of GitHub there is only what the workflows ask of
it. `doc.go` is documentation without code.

Limits of what is modelled: `StandardFormWins`, `UndatedNeverGuessed` and the
theorems on them speak of tables, or of names, without the ties of findings 2 and
7; `ParsedRatesAreValid` of price maps without the spellings of finding 4;
`SpacedMergesAreReleased` of tag runs that do not overlap. The service tier that
a response leaves empty is the standard one for `Of` and none for `Priceable`, and
is left out of the agreement of the two. The grammar's rarer forms (a commitment
segment behind an aws region, a version behind Vertex's `@` tag, MaaS paths,
`bedrock_mantle`) are modelled and in no table that TLC is given; the theorems
about the selector cover every table.
