# Ralia API: a verification project

Ralia is a marketplace between clients, who pay for WhatsApp-status advertising
campaigns, and promoters, who post them and are paid by delivered views. This
directory holds TLA+ modules translated from the source, TLC configurations
that model-check them on small instances, and theorems checked by TLAPS.
Everything that moves money comes first, for it is what the service cannot
afford to get wrong: the ledger, the price and escrow of a campaign, the life
of a slot from offer to payout, withdrawals, and the payment and review of a
campaign. Around it are the people and rules that decide who is offered what and
who is paid where: briefs and rates, matching and offers, profiles, accounts,
points, the admin team and mail.

All amounts are integers in kobo. The program is a NestJS service over
PostgreSQL (Prisma). Several requests run at once, and each may be suspended at
every `await`. Transactions run at READ COMMITTED; the isolation of each step
below follows from its row locks or its lack of them.

## 1. Inventory

Paths are relative to `src/src/modules/` unless they say otherwise.

### 1.1 Components and their state

| Component | State it keeps | Operations | What makes it correct |
|---|---|---|---|
| Ledger (`ledger/ledger.service.ts`) | accounts, transactions (unique idempotency key), entries, balances | `post`, `getOrCreateAccount` | a posting is indivisible, happens once per key, overdraws nothing, and the answer is true |
| Ledger commands (`ledger/ledger-commands.service.ts`) | none | fund, split, release, withdraw, refund, ... | each set of entries balances and debits the right account |
| Pricing (`../common/pricing/pricing.ts`) | none | unit price, slots that fit, fee, pro-rata settlement | rounding loses no kobo and never promises more than is held |
| Campaign budget (`admin/admin.service.ts` approve, `allocation`) | slots, posts, escrow | quote, fund, approve, reopen, forfeit | escrow covers what is owed; leftover is booked only when nothing can be bought |
| Campaign brief (`campaigns/`) | campaign, targeting, priced slots | create, update, target, quote, preview, duplicate | what can be paid is the price of what the campaign now says |
| Rates (`../common/rate-config/`, `admin/` 1893-1923) | the active row | read, update | escrow survives any change; what was offered is what is paid |
| Matching (`matching/`, `../common/scoring/`, `../common/reach/`) | none | reach, capability, match score, newcomer gate, deadlines | bounded, fair, and never leaves a slot without a candidate it could have |
| Offers (`matching/`, `allocation/`) | offers, slots, assignments | sweep, send by hand, accept, decline, expire | one slot per acceptance, bounded over-offering, slots never wait while somebody can be asked |
| Evidence (`evidence/evidence.service.ts`) | submissions, post status | submit, resubmit | a proof is only accepted for a post that is open |
| Review (`admin/admin.service.ts` 440-730) | submissions, posts, assignments, payouts | approve, reject | a post is paid once, and only what is approved is paid |
| Reclaim and allocation (`allocation/allocation.service.ts`) | same rows | forfeit overdue posts, free slots, offer again | a promoter is penalised once per missed post; slots come back |
| Withdrawals (`wallet/wallet.service.ts`, `admin/` 820-1060) | withdrawal rows | request, approve, fail, pay, reverse | the status tells what the ledger did; requests stay within the balance |
| Campaign lifecycle (`campaigns/`, `payments/`, `admin/` 210-420, `clients/`) | campaign status, escrow, gateway payment | create, quote, edit, pay by card or transfer, review, refund, close account | nothing unpaid is reviewed; one refund; status and money agree |
| Gateway reconciliation (`admin/` 1694-1809) | gateway payment rows | report, settle, flag | a row is settled once, a flag stays, reports match the ledger |
| Identity (`identity/`) | users, sessions, one-time codes | register, login, issue and verify codes, rotate, revoke, reset | a code or a refresh token is good once; nothing lifts a suspension |
| Team (`admin/team.service.ts`) | invitations, capabilities | invite, accept, update, deactivate | somebody can always manage the team |
| Profiles and channels (`profiles/`, `admin/` 85-240 and 1502-1690) | profile and channel status, reach, capability | edit, submit, verify, approve, reject, suspend | whoever is matched was reviewed; no edit undoes a decision |
| Bank accounts (`profiles/bank.service.ts`) | accounts, default flag | add, pick for a withdrawal | a payout never goes to an account that was replaced |
| Points and leaderboard (`leaderboard/`) | point events (unique dedupe key), score rows, snapshots | award, cap, recompute, rebuild, rank, backfill | a score is the sum of its events, nobody earns past the cap, ranks follow points |
| Notifications (`notifications/`) | rows with dedupe key, attempts | notify, dispatch | sent at least once, at most a few attempts |
| Queries, controllers, DTOs, mail, storage, encryption, image hash, click tracking | none or append-only | | not modelled, see section 7 |

### 1.2 How they interact

A client quotes a campaign (pricing), pays (payments or an admin's recorded
transfer: ledger funds the escrow account of the campaign), an admin approves
it (take and budget are split in the ledger), allocation and matching offer its
slots, promoters accept (a slot is claimed, an assignment with its posts is
created) and submit evidence, an admin approves each proof (the ledger releases
escrow to the promoter and the platform; the campaign may reopen slots for
missing reach or book its leftover), and promoters withdraw (an admin moves the
money and the ledger records it). Components share database rows and call each
other in process. There is no message queue. Schedulers run the reclaim
and allocation sweeps, the nightly rebuild of the leaderboard and the mail
dispatch.

### 1.3 What is hard here

- Most services post to the ledger in one transaction and record the outcome in
  another: a crash, a failure or another request can come between.
- Rows are read before the transaction and used in it (status, balance,
  attempts), often without a lock.
- A dedupe key that is taken raises a unique violation which the code catches;
  inside a PostgreSQL transaction the transaction is aborted all the same, so
  what looks like "ignore duplicates" undoes every write of the handler.
- Amounts are rounded per post, while budgets are made per campaign.
- Rates are read live at every stage, while prices, offers and assignments keep
  what they were made with.

The complete list, each at its line with the properties that cover it, is
`hazards` in PROJECT.json.

## 2. Modules

| Module | Models | Composes |
|---|---|---|
| `Postings` | accounts, normal sides, entries, validation, the signed effect of an entry | |
| `LedgerAbstract` | what the ledger promises: a posting happens whole, once per key | |
| `Ledger` | `post()` statement by statement | INSTANCE `LedgerAbstract` |
| `LedgerCommands` | the entries of each money flow | `Postings` |
| `Pricing` | prices, fees, settlement as integer operators | |
| `CampaignBudget` | one campaign's money from quote to last kobo | `Pricing` |
| `Brief` | one campaign while its owner edits, targets, quotes, previews and repeats it | `Pricing` |
| `Rates` | the active rates while they change under a quote, a batch of offers and settlements | INSTANCE `Pricing`, at each card of rates |
| `Delivery` | slots, offers, assignments, posts, proofs, review, reclaim | `Pricing` |
| `Matching` | reach, capability, match score, newcomer gate, deadlines, as operators | |
| `Offers` | who is offered a campaign, by sweeps and by hand, and what they answer | `Matching` |
| `Withdrawals` | withdrawal requests of one promoter | ledger posting as one step |
| `CampaignFunding` | one campaign from draft to review, refund, closing | ledger posting as one step |
| `Reconciliation` | gateway payments: opened, settled, flagged, reported | |
| `Profiles` | one promoter's profile and channels up to review, and admins' decisions | `Matching` |
| `PayoutAccounts` | bank accounts and the one a withdrawal picks | |
| `Accounts` | one account with its codes, sessions and passwords | |
| `PointsRules` | awards, the campaign cap, tiers, seasons, as operators | `Matching` |
| `Leaderboard` | the points of a campaign's reviews, the backfill, the snapshot and ranks | `PointsRules` |
| `Standing` | trust, reliability, point events and score of one promoter | |
| `Team` | invitations, capabilities and suspension of admins | |
| `Notifications` | notification rows and the dispatch of their mail | |
| `MCLedger`, `MCCampaignBudget`, `MCDelivery`, `MCWithdrawals`, `MCCampaignFunding`, `MCPeople` | instances for TLC, section 3 | all but the proofs |
| `Sums` | lemmas: induction over numbers and finite sets, sums over a finite set, the order of a finite set of numbers | |
| `LedgerProofs`, `WithdrawalsProofs` | theorems about the module each is named after | `Sums` |
| `FundingProofs` | theorems about `CampaignFunding` and `Reconciliation` | `MCCampaignFunding`, `Sums` |
| `DeliveryProofs` | theorems about `Delivery` and `Brief` | `MCDelivery`, `Sums` |
| `BudgetProofs` | theorems about `CampaignBudget`, `Offers`, `Rates`, `Matching` and `PointsRules` | `MCCampaignBudget`, `Sums` |
| `PeopleProofs` | theorems about `Standing`, `Team` and `Notifications` | `MCPeople` |
| `PromoterProofs` | theorems about `PayoutAccounts`, `Accounts`, `Profiles` and `Leaderboard` | `MCWithdrawals`, `Sums` |

### 2.1 Ledger

`Ledger` runs any number of callers, each through the steps of `post()`:
validation (lines 44-94), fast-path lookup of the key, claim of the key by
inserting the transaction row (a unique violation is only seen once the other
transaction ends), the locks on account rows in sorted order, writing the
entries and the balances, verifying constrained accounts, and commit. A caller
may crash at each step, which is a rollback by the database. A key that was
found is compared with the request (kind, reference, debit total), and the
call answers "replayed" or "conflict" accordingly.

Abstractions: balances are kept as an accumulator next to the entries, which
`BooksClose` ties to the sum of entries; entries are aggregated per account and
side; the deadline of a database transaction is a crash. Accounts are given:
`getOrCreateAccount` (whose pair `(kind, ownerId)` has no unique constraint) is
outside.

`LedgerAbstract` has two variables, the posted keys and the balances, and one
action, `Post(k)`, that takes effect whole or not at all. The refinement maps
them to the committed part of the detailed state.

### 2.2 Pricing and CampaignBudget

`Pricing` translates the integer arithmetic of `pricing.ts` with its ceilings
and floors. `CampaignBudget` is one campaign whose handlers are single steps:
it asks whether the arithmetic of quote, split, settlement, reopening and
forfeiture adds up over a whole campaign. Interleaving is left to `Delivery`.

### 2.3 Brief and Rates

`Brief` keeps the campaign row and its targeting row apart, as the code does.
An edit or a quote reads and then writes without a condition; `setTargeting()`
writes the targeting, and drops the quote in a second write that a crash can
prevent. `plan()` changes nothing and is compared with `quote()` by a property.
Of the brief's fields those are kept that the price depends on; a reach per slot
and a number of filters stand for the targeting.

`Rates` is about the one row an admin may change at any moment. A quote reads
it for the price per reach and again for the reach of a slot, a batch of offers
for the take and again for the reach, and a settlement for the take and the
floor. `Pricing` is instantiated at the card each of them read. One post to a
slot, no filters, no category floor (`Brief` and `CampaignBudget` have them).

### 2.4 Delivery

The handlers of a live campaign, cut at each point where another request can
come between: accept, decline, submit, approve (read; post to the ledger;
record), reject, the sweep (list; mark; reconcile; penalise), allocation.

- Accept is one step: it runs in a transaction that takes its slot with a row
  lock and SKIP LOCKED. The campaign's status, which it reads without a lock,
  is read in the same step.
- Recording an outcome locks the assignment row from its first write to commit
  (`RowFree`), and fails as a whole when its notification or point key is taken.
- Time is not counted: which listed posts have passed their deadline is an
  arbitrary choice of each sweep.
- Escrow, fee and reopening use `Pricing` with a unit price given by `Unit`.
- `Serial` is chosen per run: with it a request starts only when none is under
  way, which lets longer histories be checked.
- Left out: submissions made before posts existed (no slot), scores, points and
  audit rows written by the same transactions, and a crash before the first
  commit of a handler (it changes nothing).

### 2.5 Matching and Offers

`Matching` holds the formulas with what the code keeps between 0 and 1 in
percent, rounded down, so that ties of the model may be strict orders in the
code and never the reverse. `Offers` takes the order of candidates as given
(promoters are numbered by fit) and cuts a sweep where it awaits: read the
campaign, count the offers out, list candidates, then one offer after another.
Sweeps of several processes overlap each other, the answers of promoters, an
admin's own batches, and changes of who qualifies. An accept after the deadline
rolls its own EXPIRED mark back, and so changes nothing (`Lapse` is the passing
of the deadline). Acceptance is one step here; `Delivery` has its details.

### 2.6 Withdrawals and PayoutAccounts

One promoter, any number of withdrawals and workers (requests under way). A
promoter request is read, check, create; an admin decision reads the row and
then writes it; a payment or a reversal reads, posts to the ledger under the
key of the request, then records. `Crash` drops a worker between its steps. The
variable `alone`, chosen at the start from `Modes`, restricts a behaviour to one
request at a time, so a single run shows what holds under overlap and what
holds only without it.

`PayoutAccounts` cuts the adding of an account into its check, the update that
clears the old default (which sees the rows committed at that moment) and the
insertion; the last two commit together.

### 2.7 CampaignFunding and Reconciliation

One campaign: quote, edit, card payment (initiate, verify by the client or by the
webhook, which share one path), recorded transfer, review with refund,
resubmission, closing of the client's account, each handler cut where it
awaits. Prices are arbitrary members of `Prices`; the arithmetic is in
`CampaignBudget`. Editing a draft changes nothing modelled. The same `alone`
mode applies.

`Reconciliation` has the gateway's rows with the ledger's credits beside them.
Settling and flagging read a row, then write it without a condition; the report
reads the rows first and the ledger after. A charge whose process died before
its row was opened is in the ledger and in no report.

### 2.8 Profiles and Accounts

Both model one person, whose requests and those of admins each read, and later
write what they worked out, unconditionally. Both choose at the start whether
requests overlap. In `Profiles` the fields that decide nothing are one flag
(`filled`); capability and reach come from `Matching`. In `Accounts` a password
is a version number and a session carries the version it began with; codes,
attempts and sessions are bounded per mode (`Plays`).

### 2.9 PointsRules, Leaderboard and Standing

`PointsRules` has what a delivery earns, the cap, tiers and seasons. In
`Leaderboard` an approval reads what was earned so far, and awards in a later
transaction; the backfill awards without the cap, as in the code; a rebuild
ranks the scores it read, deletes the rows it can see and writes its own. Among
equals the order is left open.

In `Standing`, the part of an approval, a rejection or a reclaim that moves a
promoter's standing runs in the transaction of its handler (a hook): trust is
read without a lock, the profile is written, points are awarded, the events are summed, the
score is written, the tier is mirrored onto the profile, commit. A row that was
written is locked until then. An admin's adjustment awards and recomputes
without writing the profile first; the nightly rebuild recomputes outside any
transaction. What a score, a tier or a reliability was computed from is kept as
a set of events instead of its sum, so that a lost or an invented event shows
whatever it is worth. `mode`, chosen at the start, says what may overlap:
nothing, hooks, or everything. Several penalties by one sweep are not modelled.

### 2.10 Team

Every handler of `team.service.ts` reads, decides and then writes, without a
lock, and is cut between the two; a request may die there. Capabilities are
reduced to MANAGE_TEAM, which is all the rail looks at. Whether an invitation
has lapsed is left to the person who may accept it; a lapsed one stays PENDING
in the table, as in the code. `setPromoterStatus()` of `admin.service.ts`
suspends a user who may be an admin too; it is an action of the behaviours whose
requests may overlap, not of those the rail is judged on, because it does not
ask the rail. An account that is closed by its owner is outside.

### 2.11 Notifications

Rows with their dedupe key, status and attempts; dispatchers that list the oldest
pending rows, send each mail, and record what came of it. A process never
overlaps its own dispatch, two processes do. A dispatcher may die in the middle
of a batch, and the record of a mail that was sent may fail, which the code
counts as an attempt that failed. `mailed` and `refused` are history.

## 3. Runs

Parts that share no row need no interleaving with each other. The MC modules
take several such parts together, and a variable `scenario`, chosen at the
start, says which one a behaviour exercises while the others rest: the state
spaces add up instead of multiplying. A property of one part is stated for its
scenario.

| Run | Instance | Shows |
|---|---|---|
| `ledger` | two callers, keys shared, accounts shared in both orders, crashes | refinement of the abstract ledger, no overdraft, true answers, books that close, every call answered |
| `budget` | (a) prices and deliveries that divide evenly and that do not, two posts per slot; (b) three promoters, one slot, two sweepers and an admin's batch; (c) two promoters, up to two slots, two changes of one rate; (d) a grid of inputs | (a) escrow covers what is owed, no kobo lost, fee is a ceiling, closing short only when broke; (b) offers are bounded and go on; (c) escrow, fees and target survive changing rates; (d) the pure rules |
| `delivery` | (a) two promoters, three slots, two workers, one sweeper, one crash, overlapping; (b) a brief of one or two posts, two requests of its owner, a crash | (a) slot pool exact, approvals are paid, one penalty per miss; (b) what is paid is the current price, and what the preview said |
| `withdrawals` | (a) two withdrawals, keys reused, two workers, one crash; (b) two channels; (c) two promoters, two account numbers; (d) two callers, three codes or sessions; (e) three submissions, two reviewers; each with overlap and without | (a) no status claims a transfer that is not there, and alone status and money agree; (b) decisions stand; (c) payouts reach the newest account; (d) codes and tokens are good once; (e) the cap and the ranks hold |
| `funding` | (a) two card references, one transfer key, two workers, one crash, both modes; (b) two promoters, two slots, three posts per slot, resubmission, over-delivery, one request at a time; (c) two charges, two admins, both modes | (a) nothing unpaid is reviewed, one refund, alone status and money agree; (b) posts, proofs, payouts and assignments agree, decisions are final; (c) rows tell what admins did, reports match |
| `people` | (a) four outcomes, an adjustment and a rebuild by two workers; (b) two people, two invitations, two requests; (c) two notifications, two dispatchers, one fault | (a) scores are sums of events and hooks never deadlock; (b) the team is never stranded; (c) mail is recorded truthfully and settles |
| `paid_unrecorded`, `swept_while_owed`, `pulled_revived`, `over_requested`, `closed_with_escrow`, `rates_applied` | one finding each | section 6 |

Why the bounds are enough to meet the cases: two callers are enough for every
pairwise race of the ledger (two lock orders, one key claimed twice, a replay
against a commit and against a rollback), and the theorems hold for any number.
In Delivery, one slot over the initial ones lets the campaign reopen once,
which is the only way new slots appear; two promoters are needed for a slot to be
contested and for one post to be outstanding while another is settled; a second
post per slot makes partial payment, misses beside approvals and rejection of a
sibling possible, and a third one a pulled assignment with a proof still under
review (in `funding`, which has one slot at first). Two withdrawals and a balance that covers only one of them
meet the check at its edge. Two workers are enough for a lost update, a
circle of waiters and a sum that misses an event; the initial trust lets two
penalties meet the bound at zero. Two people and two invitations are enough for
an invitation that is accepted too late to undo another. `MaxAttempts` is 2
where the code has 24: enough for an attempt that is not the last, for one that
is, and for a stale count between two dispatchers; a batch of one row lets a
refused mail stand before another. Three promoters to one slot, of whom two
are offered it at once, leave somebody to ask after a refusal, and two sweepers
count the same offers. Two changes of a rate can lie on both sides of each pair
of reads. Three submissions, two of one promoter, make the cap bind on the
second. Declining is in the serial scenario of `funding` only: overlapping
with everything else it multiplies the states, so the race between a decline
that was read early and an acceptance is a hazard without a property under
overlap. Deadlock checking is off in the runs where the system may stop: a
campaign that is finished, an account closed, no request left to make.

Counters are capped in guards: `MaxCrashes`, the key, submission and slot sets,
`Attempts` (proofs per post), `Views`, `Prices`, `SlotCounts`, `Invite`, `Note`,
`MaxFaults`, `MaxChanges` (changes of standing, releases and manual batches),
`MaxUpdates` (of the rates), `MaxRows` (bank accounts), `Plays` and
`MaxPasswords` (codes, sessions, passwords), two rebuilds of the snapshot;
`refused` stops counting at `MaxAttempts`, an account's `began` at `MaxRows`.

Each property was also tried against a mutated definition (`mutants` in
PROJECT.json): a dropped guard, a missing write, a swapped order. The `Fault*`
operators in the modules are these mutations; no specification uses them.

## 4. Fairness

`Ledger` states `EveryCallAnswered`: a call that began is
answered, or its process died. It assumes weak fairness of each step of each
caller, which a running process justifies, and strong fairness of claiming a
key and of locking a row, because PostgreSQL serves waiters of a row lock and of
a unique-index conflict in order of arrival, so a waiter is not passed over for
ever. No fairness is assumed of crashes or of callers starting.
`Notifications` states `EveryNoteSettles`: each row is in the end sent or given
up. It assumes weak fairness of each dispatcher's next step: the timer of a
running process fires every thirty seconds and each await in the loop returns
or throws. Whether the mail server takes a mail is left open.

`Offers` states `KeepsOffering`: for ever and again enough offers are out, or
nobody is left to ask. It assumes weak fairness of each sweeper: the timer of a
running process fires for ever and each await returns or throws. Promoters may
never answer. The other modules are checked for safety only: nothing in the
service obliges a promoter, a client or an admin to act.

## 5. Proofs

Each invariant was checked by TLC on the run of its component before it was
proved. The theorems hold for every value of the constants that meets the
assumptions, at the end of this section.

### 5.1 Sums and inductions

What the models add up, they add with the community modules' folds, which are
recursive functions that a CHOOSE picks. `Sums` shows that there is such a
function over the subsets of any finite set, that all of them agree, and so what
a sum is of one element more, of one element changed, of two sets, and of terms
that are bounded. The library's induction theorems take an operator as a
parameter, which the installed provers cannot instantiate. `Sums` does without
it: of the numbers (or subsets) for which something has not been shown there is
a least one, by `WFMin` over the numbers, so that `CountInduction` and
`SubsetInduction` are about a set of what has been shown.

### 5.2 Ledger

`LedgerProofs` proves, for every number of callers, accounts, keys and amounts:

- `ProtocolInvariant`: the inductive invariant. Types alone are not
  inductive, nor is the absence of overdrafts: the proof has to know who owns a
  claimed key, that a row lock has one holder, that a caller past its locks holds
  every row it will touch, and that a balance verified under lock cannot change
  before commit. `ProtocolInv` says exactly this;
- `TypeCorrect`, `NeverOverdrawn` (no constrained account is ever committed
  below zero), `HonestAnswers` (what a call was told is so in the ledger), and
  `Implementation`: every step of the protocol is an abstract posting or a
  stutter, so `Spec` implements `LedgerAbstract`;
- `BooksAlwaysClose` (`BooksClose`): each valid request moves as much to debit as
  to credit, and so the sum over all accounts stays nothing whatever commits.

### 5.3 Campaign budget, offers, rates and pure rules

`BudgetProofs` proves, for all prices, rates, reaches and view counts:

- `BudgetInvariant`, the inductive invariant: escrow covers every post still owed
  at full price, no kobo is lost, and before funding nothing is owed and a quote
  never sells more slots than it charges for. The last part is what makes the
  step that funds the campaign preserve the first;
- `BudgetTypeCorrect`, `EscrowAlwaysCovers`, `MoneyConserved`, `FeeCapped`. The
  lemmas under them say what the operators of `Pricing` return and bound;
- `ClosedOnlyWhenBroke` (`ClosedShortOnlyWhenBroke`): when an approval reopens as
  many slots as the deficit asks for and escrow can buy, no slot is reopened
  below the target only if escrow cannot buy one (`ReopensWhatItCan`).

And for any number of promoters, slots and processes that sweep:

- `OffersInvariant`: a sweep counts the offers that are out long before it sends
  the ones it wants. What is bounded at every step is the sum of the offers out
  and of those each sweep still plans (`Pending`), by what one sweep may want at
  most, times the number of processes if their sweeps overlap;
- `OffersAlwaysBounded` (`OffersBounded`).

And for any number of promoters and any rates, changed between any two reads:

- `RatesInvariant`: a quote prices its posts within its price; an offer has the fee
  that its own card gives for the frozen unit price, and a payment that of the card
  of its moment for the part delivered; escrow and what was paid add up to the
  price. Escrow covers the posts not yet settled because no part exceeds the unit
  price, whatever the card (`EscrowOutlivesRates`). `PaidAsOffered` follows from two
  roundings, of the part and of its fee, which lose one kobo at most, and
  `GoalIsReached` from adding up the views of as many posts as there are slots;
- `RulesAlwaysHold` (`RulesHold`), with the rules below for what TLC is given.

The pure rules hold of any input of the types the code admits:

- `GateNeverStarves`, `UnprovenAlwaysCapped`, `RankingAlwaysFair`,
  `SeasonsAlwaysTile`, `BonusAlwaysRelative` and `CapAlwaysExact`, without further
  hypotheses (a season has at least a day: a length of 0 turns seasons off). `RankingAlwaysFair` is about any categories and targeting, and
  `CapAlwaysExact`, by `CountInduction`, about any sequence of awards;
- `DeadlinesAlwaysFit`, for a run with at least one tick for each post (`Roomy`):
  deadlines are spread in whole ticks, so that a run with fewer gives two posts the
  same deadline. The code counts milliseconds, so that only a run
  with fewer of them left than it has posts is left out;
- `TiersAlwaysAscend`, for thresholds in order, as the defaults are. Nothing in the
  code keeps them so (section 6).

### 5.4 Withdrawals

`WithdrawalsProofs` proves, for any number of requests, workers, keys and
crashes, overlapping or not:

- `WithdrawalInvariant`, the inductive invariant. `StatusHasMoney` alone is not
  inductive, for a payment posts to the ledger in one step and records its status
  in a later one, with other requests in between. `Justified` says what a request
  between the two relies on: the posting it is about to record is in the ledger,
  and the ledger never takes a posting back;
- `WithdrawalTypeCorrect`, and `StatusNeverAheadOfLedger` (`StatusHasMoney`);
- `StatusTellsWhatMoved` (`StatusTellsMoney`), for requests that take turns. Its
  invariant `InTurn` speaks of the moments in between too: `Tells` counts what the
  one request under way has posted and not recorded, `OneKey` says that nothing
  moved under two keys, and that no notification was sent for a status the
  withdrawal has not reached, so that no record is refused after its posting;
- `InFlightIsCovered` (`Encumbered`): what is asked for and not yet paid, added
  up, is in the balance. Its invariant adds to that sum what was paid and not yet
  recorded, and what a request has checked and not yet created.

### 5.5 Campaign lifecycle

`FundingProofs` proves, for any number of card references, workers and prices:

- `FundingInvariant`, the inductive invariant. A request that has read a campaign
  as under review writes later on the strength of that reading. `Reviewed` and
  `Justified` say that what it saw, a payment, cannot have been undone since;
- `FundingTypeCorrect`, `NothingUnpaidEver` (`NothingUnpaid`),
  `RefundedAtMostOnce` and `RefundedOnceEver` (`RefundedOnce`): the client's
  wallet holds nothing or the one refund;
- `StatusTellsWhatIsHeld` (`StatusTellsMoney`), for requests that take turns. Its
  invariant `InTurn` gives the campaign's `Books` before its payment, between the
  posting and the record, and after; they show that a campaign under review is
  always linked and priced, so that rejecting it in full always refunds it.

For any number of charges and of admins, overlapping or not:

- `GatewayAlwaysAgrees` (`GatewayAgrees`). A row that two admins have read as
  recorded is settled by each of them. That no more do is not inductive: its
  invariant `GatewayInv` counts with the settlements made those that admins are
  about to make (`Settling`), none of whom can begin once one has written. That a
  flag stays if requests take turns rests on what the one admin under way has read
  being still so.

### 5.6 Delivery

`DeliveryProofs` proves, for any number of promoters, slots, posts, requests,
sweepers and deaths:

- `SlotsAlwaysCounted` (`SlotsCounted`). That one slot has one promoter is not
  inductive. `IInv` says besides: an assignment's record, its posts and its slot
  belong together (`Holding`); a submission is about a post that exists (`Fits`);
  what a request or a sweep has read is no longer exact but is still about the
  same assignment, whose slot it has unless the slot was pulled (`Sees`,
  `Sweeps`); the row lock of an assignment has one holder, who is in the
  middle of its record (`Held`); the counters are the numbers of slots
  (`Counted`), also when several approvals that overlap each open slots of
  their own (`Room`);
- `ApprovedAlwaysPaid` (`ApprovedIsPaid`), by the position of each request: whoever
  is past the payout has its key in the ledger, which keeps it (`PaidInv`);
- `DingedAtMostOnce` (`DingedOnce`): the dings of a promoter and those that
  sweeps have won and not yet given, added up, are at most the posts won
  (`DingInv`).

For requests and sweeps that do not overlap and do not die (`Serial`, no crash),
and any number of everything else:

- `RecordsAlwaysAgree` (`RecordsAgree`) and `DecisionsAreFinal` (`KeepsFinal`).
  Neither is inductive: what a request has read is all that keeps it from filing a
  second proof of a post or approving what a sweep has taken. The invariant `InTurn`
  says that one request or one sweep is under way (`Alone`) and what it has read is
  still so (`Reads`, `Listed`); that a submitted or approved post has the one proof
  that waits or was approved (`ProofsMatch`), and a proof one payout, once it is
  approved or by the request that is about to (`PaidOnce`); that what a sweep has in
  hand is not CANCELLED, and every penalty was keyed to fewer misses than there are
  (`MissesNoted`), so that the key of the next one is free; and that claims and dings
  differ only by what is in hand (`Settled`). The last holds until a review revives a
  pulled assignment, which is finding 2 of section 6.

`FundingProofs` takes these two over to the run that checks them
(`RecordsAlwaysAgree` for `RecordsAgree`, `DecisionsAreFinal` for `Final`) through
an instance of `DeliveryProofs` with the run's rows: lemmas show that the two
instances of `Delivery` have the same initial states, steps and properties
definition by definition, and that `MoneySpec` implements it (`Delivers`).

And of the brief, for any number of its owner's requests:

- `QuoteAlwaysCurrent` (`QuoteIsCurrent`). A quote is worked out on what was read
  and written later. `BriefInv` says that what is about to be written adds up
  whatever happened since (`Adds`); and without overlap that it is of the campaign
  and the targeting as they still are, and that an edit knows whether there is a
  quote to drop (`Fresh`). That a preview costs what it shows is arithmetic on
  `SlotPrice` and its divisions.

### 5.7 Standing, team and mail

`PeopleProofs` proves, for any number of outcomes, adjustments and workers:

- `StandingInvariant`, the inductive invariant. Nothing locks the events, so that
  `ScoreIsSum` needs to know why a sum cannot go stale between being taken and
  being written: a hook holds the profile row from its first write to its
  commit, and so at most one of them is past it;
- `StandingTypeCorrect`, `ScoreAlwaysSum`, `RolledBackNeverCounts`,
  `ReputationAlwaysAdds`, `NoCircleOfHooks`.

For any number of people, invitations and requests:

- `TeamInvariant`. `SomebodyManages` is not inductive: accepting an invitation
  overwrites capabilities, so that it also takes that a pending invitation is the
  only one of its person, who is no admin yet.

For any number of notifications and of processes that dispatch, die and fail:

- `MailInvariant`. A status goes by a count that another process may have
  moved since it was read. So what a dispatcher has in hand was not skipped and
  failed no more often than it was refused (`Listed`, `Failing`), and each mail
  that left is counted by its dispatcher or in the row (`Counted`).

`PeopleInvariant` puts the three together as `MCPeople` does, with
`PeopleTypesCorrect` (`TypesOK`), `TeamNeverStranded` (`SomebodyManages`) and
`StatusAlwaysTellsMail` (`StatusTellsMail`) from it.

### 5.8 Bank accounts, account, profile and points

`PromoterProofs` proves, for any number of users, accounts, codes, sessions,
channels, submissions and requests:

- `BankInvariant`. A payout goes to the newest default. Requests that overlap
  leave several defaults, but the newest account is always one, because a
  request clears only what it saw, which was there before it inserts its own;
- `AccountInvariant`. That the open codes are no more than the requests
  that overlap is not inductive: `Issued` gives each of them a request of its own
  that issued it, a different one for each, since a request sees what it issued
  before. Tries and exchanges are counted together with those that a request is
  about to record (`Tried`, `Exchanged`). `Current` is what holds of a request
  that has no other beside it;
- `ProfileInvariant`. In the first place that a request of the promoter's goes by
  a status that still stands if nothing overlaps (`Turns`), and what every row
  must be for its channel to count (`Fits`). That a score lies between 0 and
  100 for all factors is a sum over the weights (`CapabilityFits`);
- `PointsInvariant`. That a promoter has earned no more than the cap, or that many
  times as approvals overlap, is not inductive: an approval has trimmed its awards
  by what was earned when it looked. What is earned is counted together with what
  the approvals under way are about to award (`CapFits`): a new one adds no more
  than is left by what is earned, and the others have at most the cap each
  (`OthersInHand`). A trimmed award takes the promoter to the cap, and no event
  goes away (`ApprovedFits`). A rebuild that commits deletes the rows it saw,
  which are those of another rebuild whole or not at all (`RebuildFits`).

`PromoterInvariant` puts the four together as `MCWithdrawals` does, with
`PayoutGoesToOwner` (`PaidToOwner`), `AccountAlwaysKept` (`AccountKept`),
`DecisionsAlwaysStand` (`DecisionsStand`) and `PointsAlwaysHold` (`PointsHold`)
from it.

### 5.9 Assumptions

Assumptions on constants are named in the modules that declare them and are
evaluated by every run; those of modules an MC module instantiates are
definitions, which the MC module assumes, and the theorems with it. They say
that bounds are numbers, that prices and rates are in the range the code
admits, that `None` is no value the code has, and that there are finitely many
requests, callers, dispatchers, sweepers, promoters, channels and submissions:
counting them, or taking the largest of them, has a meaning only then.

### 5.10 Model-checked only

- `EveryCallAnswered`, `EveryNoteSettles` and `KeepsOffering`: liveness under
  fairness, and ENABLED, are out of the prover's reach.
- The refutations of section 6.

## 6. Findings

Each is a run that TLC must find violated: with requests that do not overlap,
except `over_requested`, and without a crash, except `paid_unrecorded`.

1. `swept_while_owed`: a post sent back for resubmission is not counted as
   outstanding when a campaign is fulfilled, so its money is booked to revenue
   while it can still be approved.
2. `pulled_revived`: an assignment that is pulled while one of its proofs awaits
   review leaves CANCELLED when that proof is reviewed, for a review writes the
   roll-up whatever the status is. If the proof is sent back and its post missed,
   the sweep finds the one key of the penalty taken, since "the assignment is now
   CANCELLED (terminal)": it rolls back and ends, and gives no ding, neither to
   this promoter nor to those whose misses it had still to reconcile.
3. `over_requested`: two withdrawal requests at once both pass the balance
   check, which takes no lock. The ledger still refuses to pay beyond the balance.
4. `closed_with_escrow`: closing an account cancels campaigns that are under
   review or sent back, though they were paid, and returns nothing.

5. `paid_unrecorded`: the payout of an approval is posted in a transaction of its
   own, before the one that records and notifies it, though the comment there
   says that they are one. When the process dies between the two, the promoter
   is paid and the submission is still PENDING.
6. `rates_applied`: the rates are said never to be applied to a live campaign,
   but an approval takes the take rate and the delivery floor of its own moment.
   A promoter who delivers all that was offered is paid another fee than the
   offer's when the take has changed since.

Behaviours the model showed that contradict no text, so that they are recorded
as hazards and bounded in the properties: the number of slots to reopen is
decided on a balance read before the transaction and may exceed it when two
approvals overlap; a campaign that was refunded, whose record then hits the
dedupe key of an earlier rejection, stays under review without money; a retry
after a crash between payout and record is told that it is already recorded and
leaves the records behind; a withdrawal may be marked FAILED while its debit is
being posted; two hooks of one promoter that overlap lose one trust update, and
an adjustment beside a hook can wait for it in a circle, of which the database
rolls one back; two managers who remove each other at once leave nobody, and so
does suspending the last one as a promoter.

Smaller differences met while modelling, which no run shows:

- `setPromoterStatus()` says that reactivating restores profile and user
  (`admin.service.ts:1627-1629`), but does nothing when the profile is ACTIVE
  already (1636), as after a suspension followed by an approval; and it
  activates a promoter who was never approved.
- A save or a new channel that read the profile before a decision puts it
  forward again after it (`profile.service.ts:106`); a verified code or a reset
  password writes back the status that was read before a suspension
  (`auth.service.ts:241`, `330`).
- Of two codes issued at once both are open, though "only the newest code ever
  works".
- A change of the default reach makes offers promise another reach than the
  campaign was quoted by (`matching.service.ts:274`). `sendOffers()` checks
  neither the profile's status nor the tier the brief asks for.
- A rejected campaign is to be fixed and resubmitted (`campaigns.service.ts:451-455`),
  but only a draft or a quote can be edited. `create()` and `duplicate()` accept
  several posts without an end date, which `update()` refuses; `duplicate()`
  drops the minimum tier and the design brief.
- An assignment that reaches PAID because its last open post is forfeited gets
  neither its payment time nor its on-time mark (`allocation.service.ts:229`),
  which "are stamped once, when the assignment first reaches a paid state".
- Stored reach does not decay: `recomputeReach()` has no caller, and the reach is
  worked out when a channel is added, verified or refused, not when its proof
  grows old.
- The backfill is safe to run again but ignores the campaign's cap; snapshots
  have no unique index, so that rebuilds that overlap leave two; among equals the
  board counts places and the own row counts who is better.
- Nothing keeps the tiers' thresholds in order (`leaderboard.dto.ts:148-150`
  only asks for no negative number); where they are not, the points shown as missing
  (`nextTierProgress()`) do not lead to the next tier.
- A payment that two admins work on at once can be flagged and then overwritten
  as settled; a charge whose row was never opened is missing from the report,
  which still calls itself matched.

## 7. Not modelled

- Reads only: analytics, wallet statements, admin lists. Nothing can go wrong
  in them that is a matter of state.
- Pure input and output behind interfaces: mail, storage, marketing, the gateway's HTTP
  client. The gateway's answers are choices of the environment.
- Routing, guards and swagger, and validation but for the fields of a brief and
  the bounds of the rates.
- Field encryption and perceptual hashing: out of reach of a model checker.
- Click tracking: one insert per click.
- Seeds, scripts and tests.
- `payoutSubmission`, `perPostUnitPrices` and `recomputeReach`, which nothing calls.

## 8. Plan

All parts of the first plan are modelled. What would add most:

1. Theorems state every safety property of the passing runs; what is left to prove is
   what would be new: those of the items below, and that the tiers need ordered
   thresholds, should the code come to check them.
2. The end of a campaign under overlap: two last approvals at once (the hazard at
   `admin.service.ts:654`), for which the code promises nothing yet.
3. A decline that overlaps the acceptance of its own offer, in a run of its own.
4. The remaining columns of the rates (expiry and delivery windows, minimum
   withdrawal) as they change under offers that are out.
