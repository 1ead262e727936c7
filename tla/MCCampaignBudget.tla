--------------------------- MODULE MCCampaignBudget ---------------------------
(***************************************************************************)
(* One campaign for TLC: its budget, at prices that divide evenly and that *)
(* do not, with deliveries below, at and above the floor and the promise   *)
(* (CampaignBudget); who is offered it (Offers); the rates it is priced,   *)
(* offered and settled by, while they change (Rates); and the pure rules   *)
(* of matching and of points (Matching, PointsRules).  No two of these     *)
(* write a row of the other, so a behaviour exercises one while the others *)
(* rest.                                                                   *)
(***************************************************************************)
EXTENDS CampaignBudget, Sequences, FiniteSets

CONSTANTS Promoter, Proven, Slots, Sweeper, ByHand, MaxChanges, None,  \* the offers
          Rpms, Takes, Thresholds, Reaches, Asked, Typed, Reported, MaxUpdates  \* the rates

VARIABLES
  scenario,                                                   \* what this behaviour exercises
  live, headStart, holds, offer, standing, place, task, overlapped, picked, changes,
  card, updates, quoted, promise, assigned, payout, held, quoting, batch,    \* the rates
  probe                                                       \* an input of the rules

R == INSTANCE Rates WITH Promoter <- Proven \cup {1}, Views <- Reported,
                         campaign <- quoted, offer <- promise, escrow <- held
O == INSTANCE Offers
M == INSTANCE Matching
P == INSTANCE PointsRules

ASSUME OffersAssumption == O!OffersAssumption
ASSUME RatesAssumption == R!RatesAssumption

offerVars == <<live, headStart, holds, offer, standing, place, task, overlapped, picked, changes>>
rateVars == <<card, updates, quoted, promise, assigned, payout, held, quoting, batch>>
allVars == <<scenario, vars, offerVars, rateVars, probe>>

MCPrices == {5, 14, 25, 31}
MCSlotCounts == 1 .. 2
MCFilters == {0, 1}
MCViews == {1, 2, 3, 5}
MCByHand == {{3}}

\* A part that rests does so in one of its initial states.
AllInit ==
  /\ scenario \in {"budget", "offers", "rates", "rules"}
  /\ Init
  /\ O!Init /\ (scenario # "offers" => ~headStart)
  /\ R!Init /\ (scenario # "rates" => card = CHOOSE c \in R!Card : TRUE)
  /\ probe \in IF scenario = "rules" THEN 0 .. 40 ELSE {0}

AllNext ==
  \/ scenario = "budget" /\ Next /\ UNCHANGED <<scenario, offerVars, rateVars, probe>>
  \/ scenario = "offers" /\ O!Next /\ UNCHANGED <<scenario, vars, rateVars, probe>>
  \/ scenario = "rates" /\ R!Next /\ UNCHANGED <<scenario, vars, offerVars, probe>>

\* A running scheduler fires for ever, and a sweep it starts goes on (Offers).
Sweeps(z) == scenario = "offers" /\ O!Sweep(z)
AllSpec == AllInit /\ [][AllNext]_allVars /\ \A z \in Sweeper : WF_offerVars(Sweeps(z))

\* allocateCampaign(): never too many offers are out (Offers), ...
OffersBounded == scenario = "offers" => O!TypeOK /\ O!OffersBounded

\* ... and for ever and again enough of them, or there is nobody left to ask (Offers).
KeepsOffering == []<>(scenario # "offers" \/ O!Served)

-------------------------------------------------------------------------------
(* The rules, of every input within a small grid; one input is the probe *)

People == 1 .. 4
Candidate == [reach: {1, 60, 4000}, trust: {20, 70}, reliability: {0, 90}, stored: {50},
              categories: {{}}, perWeek: {4}, thisWeek: {0, 3}, tier: {"SELF"}]
Channels == [group: BOOLEAN, active: {0, 300}, claimed: {100, 90000}, factor: {100, 130},
             tier: {"SELF", "SCREENSHOT", "INSIGHTS"}, age: {-1, 0, 30, 31}]
Windows == [start: {-1, 0, 12, 30}, now: {10}, end: {-1, 9, 16, 24, 60}, window: {4, 24}, buffer: {0, 8}]
Config == [silver |-> 10, gold |-> 20, platinum |-> 30, floor |-> 80, overBase |-> 10, overCapRatio |-> 3]

\* candidates(), generateSlotSchedule(), channelEffectiveReach(), matchScore() (Matching):
\* nobody is held back while a slot could stay empty, deadlines lie ahead, in order and
\* within the run, unproven audiences stay under the cap, the fitter candidate is never
\* behind.  tierFor(), seasonWindow(), deliveryAwards(), applyCampaignCap() (PointsRules):
\* points never lower a tier, every day has one season, the bonus goes by the ratio, and
\* what is kept is what fits.
PureRulesHold == scenario = "rules" =>
  /\ probe \in 0 .. 5 => \A scored, proven \in SUBSET People : M!GateLeavesEnough(scored, proven, probe)
  /\ probe \in 1 .. 4 => \A w \in Windows : M!DeadlinesFit(w, probe)
  /\ \A c \in Channels : M!UnprovenIsCapped(c, 25 * probe, 30)
  /\ probe > 0 => \A p, q \in Candidate : M!RankedFairly(p, q, "DISTRIBUTOR", 10 * probe, {})
  /\ \A reliability \in {0, 79, 80, 100}, more \in {0, 1, 10, 40} :
       P!TierAscends(probe, reliability, more, Config)
  /\ \A length \in {1, 7, 28} : P!SeasonsTile(probe - 20, 0, length)
  /\ \A promised \in 1 .. 12, k \in {1, 2, 10} : P!BonusIsRelative(probe, promised, k, Config)
  /\ \A cap \in {0, 1, 9, 15}, prior \in {-3, 0, 5, 20} :
       P!CapIsExact(<<probe, 4, probe % 3, 6>>, prior, cap)

\* ... and updateRateConfig(), quote(), sendOffers(), settleDelivery(): however the rates
\* change, escrow holds the price of every post still owed, what was paid is within what
\* the offer showed, and offers that keep to the quote reach its target (Rates).
RulesHold ==
  /\ PureRulesHold
  /\ scenario = "rates" => R!TypeOK /\ R!EscrowOutlivesRates /\ R!PaidAsOffered /\ R!GoalIsReached

===============================================================================
