# Usufruct protocol SDK: TLA+ models, checks and proofs

The repository is a TypeScript monorepo for the Usufruct rental protocol: an
asset sits in a shared *escrow*, and the right to use it for a while is sold to
one tenant after another.  `packages/sim` is an off-chain mirror of the
protocol: every operation of the escrow as a pure step on a decoded state.
`packages/sdk` is the client: it builds transactions, reads and watches
escrows, and folds their events into ledgers.  The Move contracts themselves
are not in the repository; the mirror is the only executable account of the
protocol in it, so it is the core of this project.

Contents: [Inventory](#inventory) · [Modules](#modules) · [The escrow](#the-escrow)
· [The watches](#the-watches)
· [The ledger](#the-ledger) · [The clients](#the-clients) · [Runs](#runs) · [Proofs](#proofs) · [Findings](#findings)
· [Not modelled](#not-modelled) · [Plan](#plan)

## Inventory

| Component | State it keeps | Operations | What makes it correct |
|---|---|---|---|
| **Escrow steps** `sim/src/sim/actions` | the decoded escrow: asset state (Idle, Occupied, HandoverPending = *Demand*, Descent, Retired, or empty while borrowed), active and pending ensemble, two commitments; the borrow receipt | rent (install, bid, supersede), apply (handover, tenure expiry, auction expiry), retire, claim, borrow/return, extend commitments, update ensemble, refund address, burn, integrate | stakes conserved; terms of a tenant fixed; notice kept; commitments binding; retirement final; settling late is the same as settling on time |
| **Arithmetic** `sim/src/sim/curve.ts` | none | mulDiv, fees, floors, durations, curve heights | no negative share; rescaling exact; heights within the scale |
| **Views** `sim/src/views` | none | projections of a state at a time: agenda, countdown, bid preview, cap roles | agree with what the steps do |
| **Memory source** `sim/src/primitives/memory-source.ts` | a map of escrows with tags, subscribers, inbox | apply, applyTerminal, subscribe, query | what is stored is what is published; queries find what exists |
| **Memory inbox** `memory-inbox.ts`, `actions/collect.ts` | messages per inbox | post, list, collect | nothing lost, nothing collected twice |
| **Poll source and channel** `sdk/src/primitives/source.ts` | last version; buffer, waiter, done | subscribe, push, close, pull | each change seen; close ends the iteration |
| **gRPC source** `grpc-source.ts` | watched ids, last version per id, a checkpoint stream that is reopened | add, remove, close, checkpoint, reconnect | no change missed, no emission after remove, versions never run backwards |
| **Watches** `highlevel/watch.ts`, `watch-many.ts` | dirty set, timer, stopped | tick, flush, add, remove, stop | the last handle shown is not stale for ever; a removed id is not reported |
| **Handles, plans, sending** `highlevel/escrow.ts`, `plan.ts`, `send.ts`, `retry.ts` | a snapshot read earlier; a plan | build, simulate, execute, wait, retry | what was read still holds, or the step aborts; nothing is executed twice |
| **Caps** `highlevel/cap.ts`, `governanceCap.ts` | a cap id; configuration read earlier | borrow, burnIfStale, updates by merge | one consistent reading; no lost update |
| **Inbox, coins** `highlevel/inbox.ts`, `coins.ts` | pages of messages and coins | list, group, collect | every message once |
| **Reader, views, builders, bindings** `sdk/src/read`, `actions`, `codegen` | none | a table of views, each with its calls; batches cut into simulations; the calls of each transaction | every call fits the function it is bound to; every view gets its own returns |
| **Ledger, timeline, history** `highlevel/ledger.ts`, `timeline.ts` | a fold over events | fold | each settlement credited to its tenancy |
| **Indexer** `sdk/src/indexer` | a cursor | paged queries, ordering | a total order consistent with execution |
| **Listings, discovery, formatting** | none | queries over the indexer, rendering | I/O and formatting |

Interactions.  The steps are pure; the *memory source* calls them and publishes
what they return, the settlements they report are posted to the inboxes.  On
chain the same steps run inside transactions which the *builders* encode; the
*sources* observe only that the escrow object has a new version, the *watches*
turn that into reads, and the *ledger* into tenancies.  Everything in the SDK is
asynchronous and single-threaded: interleavings happen at `await`s, between
transactions of different senders, and between the chain and a stream that may
drop and be reopened.

The hard behaviours are: state that trails the clock until somebody settles it,
several boundaries crossed in one call, truncating arithmetic in chains of
handovers, a state carried away in a receipt while time passes, decisions taken
on a state read earlier, and streams with gaps.  `PROJECT.json` lists each at
its line, with the properties that watch it.

## Modules

| Module | What it is |
|---|---|
| `Escrow` | the machine: one action per step of `sim/src/sim/actions`, and its properties |
| `EscrowViews` | `Escrow` with the temporal and seat views, and how they agree with the steps |
| `Tenancy` | abstract specification of the seat: tenant, challenger, caps handed out, retired |
| `EscrowProofs` | the inductive invariant of `Escrow`: types, books, schedules |
| `EscrowPromises` | its step promises: commitments, notice, books, the refinement of `Tenancy`, lazy settlement |
| `EscrowViewsProofs` | that the views announce what the steps do |
| `MCEscrow` | the small instance TLC checks |
| `VersionWatch` | the watch of one escrow: the loop of `watch.ts` over the version stream of `grpc-source.ts`, or polling |
| `VersionWatchProofs` | its inductive invariant and the theorems |
| `PortfolioWatch` | `watchMany` over the demultiplexed version stream |
| `PortfolioWatchProofs` | its inductive invariant and the theorems |
| `Ledger` | the indexer's timeline of an escrow and the two folds of `ledger.ts` |
| `LedgerProofs` | its inductive invariant, what the sort keeps, what the folds compute |
| `MCVersionWatch`, `MCPortfolioWatch`, `MCLedger` | their small instances |
| `Bindings` | the arguments each function of the contract declares, and when a call fits |
| `ReadSpecs` | the table of views, what each asks and is given, and how a batch is cut into simulations |
| `ReadSpecsProofs` | that every simulation fits and decodes each view from its own calls |
| `Transactions` | the calls of the contract each builder appends |
| `Chain` | external: the deployed escrow as others change it |
| `Handles` | the verbs of the handles: their reads, plans, executions, retries |
| `Feeds` | `subscribe` of the polling, the gRPC and the memory source |
| `Client` | `Handles` and `Feeds` over one `Chain`, and what callers are promised |
| `ClientProofs` | the inductive invariants of the feeds and of the callers, and the theorems |
| `MCClient` | its small instance: the calls and companies that are run |

## The escrow

State.  `escrow` is the decoded escrow, `escrow.state` one of the variants of
the asset state as a record with a `phase`; *Demand* stands for the code's
`HandoverPending`.  Inside a borrow bracket the code's state slot is null and
the receipt holds the renting state: `escrow.state = Borrowed` and `receipt`.
`clock` is the time every step is given.  `minted` and `burned` follow the
caps; a fresh cap has the next number.  `books` is a history variable: what a
cap paid and for how many tenures, what settlements paid out for it (the code
returns these as settlements; the refund of a displaced challenger is paid by the
contract and not reported by the mirror's `rent`: the model enters it, so what
`BooksBalance` says of a supersede is about the contract's promise), and
`challenged`, the time of the first bid against it until it is paid out.

Actions.  `Rent` has a disjunct per branch of `rent.ts`: `Install` on Idle or
Descent, `PlaceBid` on Occupied, `Supersede` on Demand.  It does *not* settle
first, as the code does not.  All other writes do: `Settle` composes
`StepHandover`, `StepTenureExpiry` and `StepAuctionExpiry` in the order of
`apply.ts`, each at the boundary crossed and not at the time of the call, and
`Settling` stores the result and enters the settlements.  A step that throws is
a disabled action.  `Tick` moves the clock.

Abstractions.  Ensembles are records of the policies the steps read.  A curve is
a constant function `Height[shape][elapsed][duration]` with values up to
`Scale`; outside its window the code's clamps are modelled.  The payment is the
price asked plus a member of `Overpay`.  A tenure count of zero, which the
mirror accepts and the contract aborts on (`ETenuresZero`), is excluded by
`TenuresAssumption`; an optional argument is always given; caps are distinct,
although `params.capId` lets a caller of the mirror repeat one; 64-bit overflow,
on which `mulDiv` throws, cannot happen within the bounds.  Several borrow
brackets in sequence are modelled; the asset inside one is not, and a receipt is
returned to the bracket it was issued for (`returnAsset` only asks that the slot
is empty and the escrow is its own, so a receipt kept from an earlier bracket
would pass; on chain the receipt cannot outlive its transaction).

Fairness.  None is assumed: in this machine nothing is obliged to happen, a
boundary that has passed waits for any caller, for ever if nobody calls.  So
its promises are safety properties and `LazinessUnobservable`, which says that
the waiting makes no difference.  For the same reason the runs say
`CHECK_DEADLOCK FALSE`: a claimed escrow at the last tick of the clock stops.

## The watches

Both modules put the SDK's single thread, the chain and the transport side by
side.  The chain commits checkpoints, with or without a change of the escrow.
The link is shut, opening, live or broken; only a live one receives what is
committed, nothing older is replayed, and a drop may lose the tail of what was
received.  A read is a call and a return with the chain moving in between: it
is answered with the version at some moment of that interval.  Versions stand
for the objects: a handle shown at version *v* is the escrow as of *v*.

`VersionWatch`.  `pc` is the await at which the composed loop and generator
stand: `tick` (the caller's reading), `idle` (the next checkpoint), `prime` (the
one read of the current version), `scan` (between the changes of a checkpoint),
and in poll mode `poll` and `asleep`.  `last` is `lastVersion`, of the generator
or of the poll loop; `shown` is what the callback was last given.  A generator
that is suspended at a `yield` consumes nothing, so checkpoints queue in
`stream`.  `spoilt` is history: whether a drop or a failed reading has happened.
`Stop` aborts the stream; a read in flight still returns and finds `stopped`.

`PortfolioWatch`.  `watched` and `seen` are the maps of
`escrowVersionChangesMany`, `queued` its channel (as a set: the emitter only
adds ids to a set), `pending`, `timer` and `flights` the coalescing emitter:
each flush in flight is a batch, or after a failed batch the escrows left to be
read one at a time.  `fetches` are the first reads of added ids.  `told` and
`lost` are history: the version an escrow had when the caller was last given a
handle of it, and when a read of it last failed.  A handle reads the chain when
it is asked, so a callback counts as telling the version of its moment.

Not in these modules: a callback that throws (it is caught like a flake), a
checkpoint stream that completes cleanly (it is a drop that loses nothing and is
followed by another stream at once), the length of the backoff, `intervalMs`.

Fairness.  Weak fairness of the runtime's own turns and of the return of every
read, of a link being opened (it becomes live or is dropped), and in
`VersionWatch` of the empty checkpoint: the prime waits for the first checkpoint
after the stream is live, and the chain commits checkpoints whether or not
anything changes the escrow.  The event loop runs every task that is ready, a
promise of the client settles, and the SDK reconnects by itself, so the code
justifies these.  Changes, drops, failures, edits of the set and the stop are
never obliged to happen.  The runs say `CHECK_DEADLOCK FALSE` because a stopped
watch stops.

## The ledger

`Ledger` has the log of transactions, one reader that walks it (`escrowTimeline`)
and the folds `Statement` and `Tenancies`, which are functions of what was
walked.  `NextPage` reads one page at the cursor while transactions go on;
`Timeline` is the sort, by time, then by name, stable.  `Picked` selects places
of a sequence (the query's window, the boundaries, the tenures since a
checkpoint); it, `Emitted`, `Statement` and `Walked` are recursive functions on
the beginnings of a sequence, one step per element as the loops of the code.  The contract that emits
the events is not in the repository: `Transaction` settles what is due (a
handover, an expiry, or one after the other) and then rents or not, which is
what the repository says of every write on chain, and its events have the
fields the folds read.  Beside the log, `chain.accounts` and `chain.held` keep
what each cap paid and got back and who held the seat; the folds never see them.
Governor's share and fee are one amount, `used`.  Checkpoint bounds of a walk
are timestamps; the sender filter is not modelled.  No fairness: the properties
are about a walk that is done.

## The clients

`Client` composes three things over the escrow of `Chain`: callers of the
handles (`Handles`), one subscriber (`Feeds`), and other parties, who rent,
displace, update, retire, claim, collect, burn and settle between any two
requests.

`Handles`.  A caller has a list of calls `todo` and the call it is in, `task`.
A call is the sequence of its parts: one for a verb, several for `u.batch`; a
part is a verb with its arguments.  `got[i]` is what part *i* was answered so
far, and that alone says what it asks next: `BuildReads` and `DecodeReads` are
the `await`s of each verb, `Then` puts one after another, a set of jobs is a
`Promise.all`.  The actions of a caller are `Begin`, `Receive` (one answer),
`Build` (the part's commands are appended; after the last the plan is sent, or
has nothing to send), `Execute`, `Abort` and `Decode`; those of its bad luck are
`Transient` (a request fails on its status), `Truncated` (a simulation comes
back without its results), `NeverSent` and `AnswerLost`.  A request is a
*client* one, which is retried on its status; a *reader* one, a simulation, which
is read again from the start when its answer is truncated; or a *kernel* one,
which is not: `updateMarket`, `claim` and `governs` make readers nobody wrapped,
and sampled curves have none, so its first truncated answer fails the call
(finding 11).  `tries` is what `withRetry` counts, by request and by read; beside
it `missed` is history: how often that request, or that read, has failed in a row.
`Gone` is what cannot be answered: an escrow whose asset was claimed, a burned
cap, the settlement of a tenure where nobody sits, at which the view aborts.
`Signers` are the callers that connected.

`ReadSpecs`, `Transactions` and `Bindings` say what is in a request: the calls of
each view and builder, with the arguments they give, against the arguments the
generated bindings take; and how `runSpecs` packs views into simulations of at
most 40 calls and hands each the returns of its own.

`Feeds`.  One record `feed` in three kinds.  *poll*: fetch, yield when the
version is new, sleep.  *push*: fetch once, then open the stream; a checkpoint
that names another version has the object fetched again; `heard` is the last
version the stream received, `buffer` what the generator has not taken.
*memory*: the store's `set` pumps the new revision into the channel.

`Chain` is external, as the contract is not in the repository: what each
operation asks and leaves is taken from the mirror, the handles and the error
table, with prices and times reduced to what a caller can be wrong about: a floor
one above the standing bid, an auction that falls to the rest price, boundaries
as steps of other parties.  Every transaction gives the object a new version,
`moment`.  `Listed` and `History` are the starts: listed, rented, bid on, handed
over, in auction, retired.

Abstractions.  A value read is what the chain has at the moment of the answer,
for the fields a caller decides on; the others are one value.  Messages and
coins come in one page, coins are an amount (`Purse`) that covers a price or
does not.  Coin metadata only renders, and its failure fails nothing.  A curve is
one request for two points (the calls of each point are those of the code).
`When` is *now*.  The length of backoffs is left out.

Fairness.  Weak fairness of each caller's own next step and of the subscriber's:
a request that does not fail is answered and the event loop runs what is ready.
Other parties, failures, reconnects that drop again and the abort of a feed owe
nothing.  `CHECK_DEADLOCK FALSE`, because a client whose calls are done stops.

## Runs

`MCEscrow` has two ensembles that differ in every policy: *Plain* (two ticks,
fixed handover of one, auction of two, fixed price step) and *Steep* (one tick,
full-tenure handover, no auction, compound price step); tenure counts 1 and 2;
at most three rents; clock 0..4; commitments of one tick, extendable to two;
stakes up to 100; curve heights in 0..100, linear and smoothstep.  Three rents
are the fewest with a tenant, a challenger and a supersede; a tenure of two
ticks twice over spans four, and Plain's handover, tenure end and auction end
can all pass before one settlement.

| Run | Expect | What it shows |
|---|---|---|
| `escrow` | pass | all properties below, over every interleaving |
| `supersede` | violation | `AuctionStartsAtOrAboveFloor` |
| `rent_refusals` | violation | `RentRefusals` |
| `watch` | pass | the properties of `VersionWatch` |
| `watch_gap` | violation | `ResumableWithoutGaps` |
| `portfolio` | pass | the properties of `PortfolioWatch` |
| `portfolio_remove` | violation | `NoEmissionAfterRemove` |
| `ledger` | pass | the properties of `Ledger` |
| `ledger_ties` | violation | `TenanciesAlwaysFaithful` |
| `client` | pass | the properties of `Client` and `Feeds` |
| `update_market` | violation | `UpdateKeepsEarlierPatch` |
| `read_promises` | violation | `ReadsKeepAPromise` |

Of the `escrow` run: `TypeOK`; `BooksBalance` (every mist paid in is the stake of
a seat or was paid out once); `TermsInForce`; `PendingEnsembleWaits`;
`HandoverWithinTenure`; `BurnedCapsUnseated`; `LazinessUnobservable` (settling
now and later equals settling later, escrow and books); `NoEarlyEviction` (a seat
is lost only at the end of the tenure or when the whole notice has run since the
first bid against the tenant, whoever superseded it since);
`TenantKeepsTerms`; `CommitmentsHonoured`; `RetireIsFinal`; `ImplementsTenancy`
(refinement of `Tenancy` with the active and the pending cap); of the views
`AgendaMatchesSettlement`, `CountdownIsExact`, `BidPreviewHonoured` and
`StaleIsFinal`.

`watch` has three versions, two faults and two buffered checkpoints, each with
up to two changes: enough for a prime served between two checkpoints that are
still queued, a change that falls into a drop, and a drop during a flake.  It
checks `TypeOK` (nothing received, read or shown is ahead of the chain),
`ShownForward` (the versions that wake the loop run backwards when the prime
overtakes queued checkpoints, what is shown does not), `SilentAfterStop`,
`SetupGapCovered` (nothing is lost between the first reading and the live
stream), `ChangesAreShown` (until the first drop or failed reading every change
is shown in the end) and `WatchSurvivesFaults` (after any fault a newer change
is shown).

`portfolio` has two escrows, one of them watched from the start, two versions,
two faults, two buffered checkpoints and one `add`, of the other escrow or of
the first after its removal: enough for two flushes in flight, a batch that
fails and then fails for one of its escrows, and a first read that outlives the
removal and the second adding of its id.  It checks `TypeOK`, `SeenOnlyWatched`,
`SilentAfterStop`, `SignalsInHand` (a signal is in the channel, dirty or in a
flush until the caller is told or a read of that escrow failed), and the
liveness of a change received (`DeltasReachCaller`) and of an addition
(`AddedIsReported`).

`ledger` has four transactions of up to three events at three timestamps, stakes
of one or two and pages of two transactions: enough for rent, bid, supersede
and handover of one seat, a handover and an expiry in one transaction, ties
within and between transactions, and a log that grows between two pages.  It
checks `WalkReadsWindow`, `StatementSettles` (the sums do not depend on the
order of ties), and `StatusFaithful` and `TenanciesFaithful`, which do: they are
stated for walks whose boundaries the sort left in order, and `ledger_ties`
shows what happens otherwise.

`client` runs a set of scenarios, each a start, a list of calls per caller, a
budget of moves of others and one of failures: every scalar read; every read and
write verb alone beside one move of another party and up to two failures, from
the starts where it takes its branches; every ensemble shape in what is built
from one; a caller who never connected; two rents, two collects, two updates,
a batch and a burn at once; two updates and two rents in turn or in one batch;
and each kind of feed beside two moves and two failures.  Two attempts per
request are the fewest with a retry, one move is enough to overtake any call,
and two failures use up the attempts of one request or hit two.  A purse of four
does not cover two tenures at every price.  It checks `ReadsAreTrue` (each value
comes from its view's own calls and from the time of the call),
`OutcomeMatchesChain` (a transaction runs at most once, and what the caller is
told fits), `ReceiptTruthful` (a rent returns the cap it minted and its price, a
collect the sum it took), `FailsOnlyForCause` (nothing is bound with wrong
arguments; no transport failure unless the very request, or the very read, that
failed last has failed all of its attempts in a row, the truncated answers of
kernel readers excepted, which `read_promises` is about; no abort of what was
sent on the strength of its reads unless somebody came between, the escrow rents
no more or the cap was burned; of a batch with at most one rent and one collect,
since a second finds what the first left), `PatchKeepsRest` (a partial
update keeps the rest of the market when none is scheduled), `CallsEnd`,
`FeedForward` and `FeedCatchesUp`.

`read_promises` runs three callers side by side, an asset state, a cap's state and
an `updateMarket`, where the one move of others is the handover; its property is
a disjunction, so the state that ends it breaks all three promises.

Each property of a passing run has a mutant: a variant of one step, next to the step it varies
and marked *a slip*, with which TLC finds that property violated.

## Proofs

Every invariant and action property that a passing run checks is proved for
every value of the constants; the proofs rest on the named assumptions of the
modules only.

### The escrow

`EscrowProofs` proves for every set of ensembles, every curve with heights in
`0 .. Scale`, every set of tenure counts and every bound:

- `TypeCorrect`: `Spec => []TypeOK`.  The content is in the books: fees,
  shares and refunds are natural numbers, so no settlement pays a negative
  amount, and the receipt is held exactly while the state slot is empty.
- `TermsStayInForce`: `Spec => []TermsInForce`.
- `HandoverStaysWithinTenure`: `Spec => []HandoverWithinTenure`.

All three follow from `Invariance`, `Spec => []IInv`.  `IInv` is `TypeOK` and
that the state in force is `Sound`: its cycle is the one the active ensemble
resolves to, its schedule is that cycle times its tenure count, the tenancy
began no later than now, and a challenger's expiry lies between the tenancy's
start and end.  `TypeOK` alone is not inductive: a refund is `stake - used`, and
`used <= stake` needs heights bounded on `0 .. MaxMs`, so schedules must be
bounded, which is the product form of the terms; that form survives a handover
only because rescaling an exact multiple is exact (`RescaleExact`), and the
next start is no later than now because handovers are settled only when due.
The proof has a lemma per settlement step, one per action, and lemmas for the
arithmetic.

`EscrowPromises` goes on from there with a stronger invariant, `Kept`: `IInv`;
`Orderly`, which says who is seated (caps minted and not burned, a challenger
who is not the tenant and, by `Noticed`, waits out the notice the tenant has from
the first bid on) and that nothing is scheduled where it could not be adopted;
and `Balanced`, the books of every cap.  `Orderly` speaks of the receipt's state
while a bracket is open: that is where the seats are.  `Balanced` needs
`Orderly`: the stake of a tenant and of a challenger are told apart by their caps.

Every step of the machine either settles first or leaves the seat alone, so the
proofs rest on what a settlement may do, `Outcome`: nothing, seat the
challenger (`Succeeds`), or empty the seat (`Vacates`), with the locks
untouched.  From it each action gets one lemma, that it keeps `Promised`: the
invariant again, `TenantKept` (terms and notice), `Bound` (the commitments and
the retire) and `SeatMoves` (the moves of the abstract tenancy).  Then:

- `ScheduledEnsembleWaits`, `BooksAlwaysBalance`, `BurnedStaysUnseated` read
  `PendingEnsembleWaits`, `BooksBalance` and `BurnedCapsUnseated` off `Kept`;
- `RetireStaysFinal`, `CommitmentsBind`, `TenantTermsKept`, `NoticeHonoured`
  read `RetireIsFinal`, `CommitmentsHonoured`, `TenantKeepsTerms` and
  `NoEarlyEviction` off `Promised`.  For the notice, a seat is left only once it
  has `Lapsed`: `Noticed` says a challenger's expiry is the tenure's end or the
  notice counted from `books[tenant].challenged`, a supersede keeps both
  (`StillInLine`), and a handover makes a new tenant nobody has challenged;
- `EscrowImplementsTenancy`: `Spec => ImplementsTenancy`, the refinement of
  `Tenancy`: its initial states map to initial states and `SeatMoves` maps
  every step to a step of it or a stutter;
- `SettlingIsLazy`: `Spec => []LazinessUnobservable`, by the phase of the state
  and from `IInv` alone: a boundary that is due stays due, and what is done at
  it does not depend on when it is done.

`EscrowViewsProofs` proves `AgendaAgrees`, `CountdownAgrees`, `StaleStaysStale`
and `PreviewHonoured` (`AgendaMatchesSettlement`, `CountdownIsExact`,
`StaleIsFinal`, `BidPreviewHonoured`).  The views and the steps compute the same
boundary (`BoundaryFacts`); a settlement whose boundary has passed changes the
phase (`DueMoves`), and one at the boundary and another later add up to one
later (`AtTheBoundary`, from the lemmas of `SettlingIsLazy`).  They assume that
null is not a number (`NullAssumption`).

### The watches

`VersionWatchProofs` proves for every number of versions, faults and buffered
checkpoints `TypeCorrect` (`TypeOK`), `ShownNeverRunsBackwards`
(`ShownForward`) and `StopSilences` (`SilentAfterStop`).  The invariant is
`TypeOK` and that a reading held at a tick is no older than what is shown: it
is taken after the last one was shown, from a chain that only grows.
`SetupLosesNothing` (`SetupGapCovered`) adds `Setup`: while nothing is spoilt, a
primed loop has a live stream, the prime finds a version the loop has not
recorded and so ticks, what is shown catches up with what woke the loop, and the
current version is shown, about to be read, or among the versions received.

`PortfolioWatchProofs` proves for every set of ids and every bound `TypeCorrect`,
`NothingSeenUnwatched` (`SeenOnlyWatched`), `NoSignalLost` (`SignalsInHand`) and
`StopSilences` (`SilentAfterStop`).  The types carry the weight: nothing seen or
told is ahead of the chain, so an id that leaves the flights told of, or marked
lost, at the version of its moment owes nothing (`FlightStep`); the bag of
flights loses and gains one at a time (`BagMinus`, `BagPlus`).

### The ledger

`LedgerProofs` proves for any prices, any page size and any number of
transactions at any timestamps:

- `WalksReadTheWindow` (`WalkReadsWindow`): what a walk has is a beginning of
  its window, whatever is committed while it goes on;
- `StatementsSettle` (`StatementSettles`): the sums of a statement are those the
  chain settled, in whatever order the sort leaves events of one timestamp;
- `StatusesAreFaithful` (`StatusFaithful`) and `TenanciesAreFaithful`
  (`TenanciesFaithful`), under their condition that the sort left the
  boundaries of the seat in order.

The folds are recursion over data.  They are recursive functions on the
beginnings of a sequence, so each is shown to exist and to take its step
(`Picking`, `Emitting`, `Walks`, `Reading`), and what holds at nought and passes
from each number to the next holds up to the length (`UpTo`, by the least
counterexample, since an induction theorem cannot be instantiated).

The invariant `LedgerInv` is about the chain and the whole log and never about
the sort.  `Booked`: the events tell one *story* of each cap (`Told`): it enters
at one event, wins the seat at one or none, leaves at one or none, in this order,
and no other event names it; and its account is what those three events say
(`Balanced`).  The amounts alone are not inductive: that a cap leaves once, and
as what it was, is what makes its refund the rest of its stake.  `Seated` ties
the tenant and the challenger to their accounts and the open tenure to the
tenant.  `Retold`: for a window that opens at any time, walking its events so
far gives the tenures begun since.  `Walking`: what was read is the window up to
the cursor.  `Sound` holds of the chain between the events of one transaction
too, so each settlement and each kind of rent has its lemma.

The sort is a bijection of places (`TimelineSorted`): the place of an event is
how many come before it, the places are injective into as many, so every event
is there once.  A statement is then a fold over distinct events whose sums do
not depend on their order (`StatementSays`).  Its status and the tenancies do:
when the boundaries of the sorted events are those of the log, each boundary
keeps its rank among them, so the one by which a cap leaves stays behind the one
by which it took the seat (`KeptInOrder`); a bid and the bid that supersedes it
need no order.  For the tenancies, walking skips what is not a boundary
(`WalkedAtBoundaries`).

### The read table and the builders

`ReadSpecsProofs` proves of `runSpecs`, for every sequence of views:
`EverySimulationFits`, that no simulation has more calls than `ChunkCalls` and
every view is in one, and `EachDecodesItsOwn`, that each view is decoded from the
returns of its own calls.  Both are inductions along the batch (`UpTo`), over a
table of which every row makes between one and five calls.

`EveryViewBinds` says of every row that, supplied with what it asks for, each of
its calls is bound to a function with the arguments that function declares: the
rows of the table beside the rows of the bindings, group by group.  That each
builder's calls bind, whatever the configuration, follows piece by piece: what
binds may be joined (`BoundJoin`).  `EveryWriteBinds` in `ClientProofs` is the
sum of it for whatever a verb appends.

### The clients

`ClientProofs` proves, for every set of scenarios `ScenariosAssumption` admits
(any callers, any sequences of calls of `CallType`, any budget of moves and
failures):

- `FeedMovesForward` (`FeedForward`), from `FeedInv`: what was yielded ascends
  and is no newer than `last`, and in the store's channel what waits ascends and
  comes after what was taken.
- `ReadsTellTheTruth` (`ReadsAreTrue`), `CallersKnowWhatRan`
  (`OutcomeMatchesChain`), `ReceiptsAreTruthful` (`ReceiptTruthful`) and
  `PatchesKeepTheRest` (`PatchKeepsRest`), from `ClientInv`.

`ClientInv` is `ChainInv` (the types of the escrow) and `TasksInv`, five
statements of every task.  `TaskShape`: its fields, and that a part is built
before the next.  `TaskRead`: a part that was built has read what it is built
on; without it a rent could be sent with a price nobody read, or a collect seem
idle.  `TaskAnswers`: each answer is the view's own, of a moment of the call, and
a market answered since the last revision is the market.  `TaskOutcome`: how
often it ran, by the stage it is in, also after a failure.  `TaskReceipt`: once
executed, the one cap minted has the price that was paid and what was taken is
the sum of what was found.  The last needs that caps and stakes are never taken
back (`CourseGrows`), and what a transaction of several parts does when only one
of them rents or collects (`SentReceipt`): two caps of one batch cannot be told
apart by their type, so nothing is claimed of two rents.  Reads made after the
execution may repeat names read before it; `Late` and `SameRelied` say that what
a part relies on is not among them.

`FailuresHaveCauses` (`FailsOnlyForCause`, with its exception for readers nobody
wrapped) adds `CauseInv`.  `TaskTries`: no request and no read is counted to have
failed in a row more often than it did (`missed`), so the one that gives up
failed `Attempts` times itself; an answer starts both counts again
(`ReachedTries`), and a failure raises both (`CountedTries`).  `TaskCurrent`: what was
answered at this very moment is what there is to see, since every transaction
is a moment of its own.  `Minted` and `CallMinted`: a cap that is named was
minted.  Nothing fails as unbound because every job a part asks for supplies its
views with what they ask for (`JobsBind`) and everything it appends binds
(`EveryWriteBinds`).  An abort is traced back through the transaction
(`NothingBetween`): what a call sends on the strength of its reads leaves the
price as it was until a rent and the inbox until a collect, so with nobody in
between each operation meets the escrow it was made for.

### Only model-checked

Liveness, which is beyond the prover: `ChangesAreShown`, `WatchSurvivesFaults`,
`DeltasReachCaller`, `AddedIsReported`, `CallsEnd`, `FeedCatchesUp`.

## Findings

1. `rent.ts` supersede replaces the seat of the bid but keeps the displaced
   bid's tenure count and expiry while the price was checked for the new count.
   A supersede for fewer tenures is seated for more, and when it runs out the
   auction opens below the floor; `descendingFloor` then throws, so nobody can
   rent until the auction has expired.
2. A retire flagged in Demand does not stop further supersedes, although the
   error table says the asset can no longer be rented.
3. The mirror's `rent` does not read `tenure_extend`.
4. The mirror's `rent` does not settle a boundary that has passed.  (2 to 4 are one
   run, in which one supersede is accepted that each of the three refusals is
   about: a retire has begun, it is for two tenures where one is allowed, and a
   boundary has passed.)
5. The version stream primes once and not after a reconnect, so a change that is
   committed while the stream is down is shown only with the next one, although
   the stream is described as resumable without gaps.
6. An escrow removed from a portfolio watch can still be reported: a flush that
   awaits its reads, or a signal still in the channel, does not look again.
7. The timeline breaks ties of the timestamp by the event's name.  A rent that
   settles an expired tenure in its own transaction is sorted before that
   settlement; the tenancies then lose the old tenant and close the new one with
   the old one's amounts.

8. `updateMarket` merges its changes into the market in force.  On a rented escrow
   an update is only scheduled, so a second one starts from the old market and
   drops the first.
9. `assetState`, and so `snapshot`, reads the status, the seat and the bid one
   after another: a handover in between yields a demand without a challenger,
   although the API calls it a coherent photo.
10. A cap's `state` has the same gap between its role and its numbers: the cap of
    a tenant displaced in between is reported active with its successor's stake,
    which the documentation of the result rules out.
11. `retry.ts` promises that reads ride through truncated simulations without a
    change at the call site.  The readers that `updateMarket`, `claim` and
    `governs` make for themselves are not wrapped, and sampled curves have no
    reader: the first truncated answer fails the call.  (9 to 11 are one run, whose
    last state shows all three: beside one handover and one truncated answer,
    one caller takes an asset state, one a cap's state, and one updates the market.)

Beside these, `escrowVersionChangesMany` has no prime at all: a change between
the reads of the initial ids and the moment the stream is live waits for the
next one.

## Not modelled

- The decoding of values and the layouts of the generated types: conversions
  without a decision, fixed by the contract's build.
- `runSpecsMulti`, the query over many escrows; listings and discovery;
  `revenueByEscrow`, `history` and the totals of an inbox: queries over the
  indexer or over lists, which end in the same views and folds.
- `subscribeMany` of `grpc-source.ts`, the decoded event stream, and the polling
  fallback of `watchMany`: they repeat the loops of `PortfolioWatch` and
  `VersionWatch` over decoded states.
- `waitFor` and `onEvents`: a watch with a callback of the caller's and a timer.
- `timeline.ts`: the ledger's events with curves sampled on chain.
- The memory source's query with its governor tags; the in-memory inbox.
- The numeric approximations inside a curve (integer roots by Newton's method, a
  truncated exponential) are behind `Height`.
- In the handles: the `retireCommitment` and `ensembleCommitment` that the changes
  of an `updateMarket` may name and that it drops (`Merged`); `expiresAt` of a
  rent's receipt, read after its execution (escrow.ts:286) when others may have
  moved; the error of a cap's `state` for a cap of another escrow (cap.ts:217),
  since callers here ask about caps of this one.  `CallsEnd` is checked with few
  failures, so an unlimited number of retries would not show.
- In the ledger's history variables the times of a tenancy are those of the
  transactions that settled it, which is what the events carry: they are not
  compared with the boundaries that were crossed.
- In the portfolio, `AddedIsReported` is about the first report of an id: one that
  was reported, removed and added again counts as reported.
- The Move contracts, which are not in the repository; examples, scripts and
  tests, which are programs that use the packages.

## Plan

Done: the escrow and its views, the watches, the ledger, the read table, the
clients; every safety property of every run proved.  What would add most next,
in this order:

1. `subscribeMany` over decoded states, with a baseline that rejects.
2. The memory source's store and the in-memory inbox beside `Feeds`.
3. `waitFor` and `onEvents` over `VersionWatch`, with the timer they race.
