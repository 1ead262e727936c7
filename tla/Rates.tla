--------------------------------- MODULE Rates ---------------------------------
(***************************************************************************)
(* The active row of rate_config while a campaign is quoted, offered and    *)
(* settled (rate-config.service.ts, admin.service.ts).  An admin may change *)
(* a column at any moment.  A quote and a batch of offers each read the row *)
(* more than once; a quoted campaign keeps its price, an offer its fee, but *)
(* a settlement goes by the take and the floor of its own moment.  One post *)
(* to a slot; how a campaign goes on after its last post is the matter of   *)
(* CampaignBudget.                                                          *)
(***************************************************************************)
EXTENDS Integers, FiniteSets, Functions

CONSTANTS Promoter,
          Rpms, Takes, Thresholds, Reaches,   \* what the columns may hold
          Asked, Typed,      \* slot counts and exact prices a client may ask for
          Views,             \* verified views of a post
          MaxUpdates,        \* a bound
          None

\* The columns an admin may change, within the bounds of their validation.
Card == [rpm: Rpms, take: Takes, threshold: Thresholds, reach: Reaches]

\* What an offer promises and what was paid, each under a card; the cards a batch has read.
Promise == [fee: Nat, gross: Nat, promised: Reaches, under: Card]
Payment == [fee: Nat, take: Nat, views: Views, under: Card]
Batch == [card: Card, reach: Reaches \cup {None}]

RatesAssumption ==
  /\ Rpms \subseteq Nat \ {0} /\ Takes \subseteq 0 .. 90 /\ Thresholds \subseteq 1 .. 100
  /\ Reaches \subseteq Nat \ {0} /\ Asked \subseteq Nat \ {0} /\ Typed \subseteq Nat \ {0}
  /\ Views \subseteq Nat /\ MaxUpdates \in Nat /\ IsFiniteSet(Promoter)
  /\ None \notin Card \cup Promise \cup Payment \cup Batch \cup Reaches

\* The arithmetic at the rates of a card, for an objective and targeting that add nothing.
At(c) == INSTANCE Pricing WITH Scale <- 10, Rpm <- c.rpm, ObjectiveMult <- 1, TargetingStep <- 0,
                               TargetingCap <- 1, TakeRate <- c.take, Threshold <- c.threshold

VARIABLES
  card,        \* the active row
  updates,     \* how often it has changed, up to a bound
  campaign,    \* status, price, unit price and number of its slots, target reach
  offer,       \* of each promoter, with the card it was made under
  assigned,    \* promoters who hold a slot
  payout,      \* of each promoter whose post was settled
  escrow,
  quoting,     \* the card a quote under way has read first
  batch        \* the card and the reach a batch of offers under way has read

vars == <<card, updates, campaign, offer, assigned, payout, escrow, quoting, batch>>

Draft == [status |-> "DRAFT", price |-> 0, unit |-> 0, slots |-> 0, goal |-> 0]

TypeOK ==
  /\ card \in Card /\ updates \in 0 .. MaxUpdates /\ escrow \in Nat
  /\ campaign \in [status: {"DRAFT", "QUOTED", "LIVE"}, price: Nat, unit: Nat, slots: Nat, goal: Nat]
  /\ offer \in [Promoter -> Promise \cup {None}] /\ payout \in [Promoter -> Payment \cup {None}]
  /\ assigned \subseteq {p \in Promoter : offer[p] # None}
  /\ {p \in Promoter : payout[p] # None} \subseteq assigned
  /\ quoting \in Card \cup {None} /\ batch \in Batch \cup {None}

Init ==
  /\ card \in Card /\ updates = 0 /\ campaign = Draft
  /\ offer = [p \in Promoter |-> None] /\ assigned = {} /\ payout = [p \in Promoter |-> None]
  /\ escrow = 0 /\ quoting = None /\ batch = None

\* updateRateConfig(): the row is looked up by its id, and only what was sent changes.
UpdateRateConfig ==
  /\ updates < MaxUpdates /\ updates' = updates + 1
  /\ \E c \in Card \ {card} :
       /\ Cardinality({f \in DOMAIN c : c[f] # card[f]}) = 1
       /\ card' = c
  /\ UNCHANGED <<campaign, offer, assigned, payout, escrow, quoting, batch>>

\* quote() reads the price per reach (getPricingConfig()), ...
QuoteRead ==
  /\ campaign.status \in {"DRAFT", "QUOTED"} /\ quoting = None
  /\ quoting' = card
  /\ UNCHANGED <<card, updates, campaign, offer, assigned, payout, escrow, batch>>

\* ... then the reach of a slot (getCategoryDefaults()), and writes.
QuoteWrite(typed, asked) ==
  LET reach == card.reach
      slots == IF typed = None THEN asked ELSE At(quoting)!SlotsForPrice(typed, 0, reach)
      unit == IF typed = None THEN At(quoting)!SlotPrice(reach, 0)
              ELSE At(quoting)!UnitPrice(typed, slots)
  IN
  /\ quoting # None /\ quoting' = None
  /\ campaign' = [status |-> "QUOTED", price |-> IF typed = None THEN unit * slots ELSE typed,
                  unit |-> unit, slots |-> slots, goal |-> slots * reach]
  /\ UNCHANGED <<card, updates, offer, assigned, payout, escrow, batch>>

\* The quote is paid and approved (CampaignFunding).
Fund ==
  /\ campaign.status = "QUOTED" /\ quoting = None /\ campaign.price > 0
  /\ campaign' = [campaign EXCEPT !.status = "LIVE"] /\ escrow' = campaign.price
  /\ UNCHANGED <<card, updates, offer, assigned, payout, quoting, batch>>

\* sendOffers() reads the take, ...
BatchTake ==
  /\ campaign.status = "LIVE" /\ batch = None
  /\ \E p \in Promoter : offer[p] = None
  /\ batch' = [card |-> card, reach |-> None]
  /\ UNCHANGED <<card, updates, campaign, offer, assigned, payout, escrow, quoting>>

\* ... and what a slot promises.
BatchReach ==
  /\ batch # None /\ batch.reach = None
  /\ batch' = [batch EXCEPT !.reach = card.reach]
  /\ UNCHANGED <<card, updates, campaign, offer, assigned, payout, escrow, quoting>>

\* The offers are written, at the unit price of the slots.
SendOffers(promoters) ==
  /\ batch # None /\ batch.reach # None /\ batch' = None
  /\ promoters # {} /\ \A p \in promoters : offer[p] = None
  /\ offer' = [p \in Promoter |-> IF p \notin promoters THEN offer[p]
       ELSE [fee |-> At(batch.card)!PromoterFee(campaign.unit), gross |-> campaign.unit,
             promised |-> batch.reach, under |-> [batch.card EXCEPT !.reach = batch.reach]]]
  /\ UNCHANGED <<card, updates, campaign, assigned, payout, escrow, quoting>>

\* accept(): the assignment copies the offer.
Accept(p) ==
  /\ offer[p] # None /\ p \notin assigned /\ Cardinality(assigned) < campaign.slots
  /\ assigned' = assigned \cup {p}
  /\ UNCHANGED <<card, updates, campaign, offer, payout, escrow, quoting, batch>>

\* approveSubmission() settles by the card as it is now.
Settle(p, views) ==
  LET o == offer[p]
      gross == At(card)!DeliveredGross(o.gross, views, o.promised)
  IN
  /\ p \in assigned /\ payout[p] = None
  /\ At(card)!MeetsThreshold(views, o.promised)
  /\ payout' = [payout EXCEPT ![p] =
       [fee |-> At(card)!PromoterFee(gross), take |-> At(card)!RaliaTake(gross),
        views |-> views, under |-> [card EXCEPT !.reach = o.promised]]]
  /\ escrow' = escrow - gross
  /\ UNCHANGED <<card, updates, campaign, offer, assigned, quoting, batch>>

Next ==
  \/ UpdateRateConfig \/ QuoteRead \/ Fund \/ BatchTake \/ BatchReach
  \/ \E typed \in Typed : QuoteWrite(typed, 1)
  \/ \E asked \in Asked : QuoteWrite(None, asked)
  \/ \E promoters \in SUBSET Promoter : SendOffers(promoters)
  \/ \E p \in Promoter : Accept(p) \/ \E views \in Views : Settle(p, views)

Spec == Init /\ [][Next]_vars

-------------------------------------------------------------------------------
(* Properties *)

Settled == {p \in Promoter : payout[p] # None}
Outgoing == SumFunctionOnSet([p \in Settled |-> payout[p].fee + payout[p].take], Settled)
Seen == SumFunctionOnSet([p \in Settled |-> payout[p].views], Settled)

\* updateRateConfig(), settleDelivery(): however the rates change, and between whichever
\* reads, escrow holds the full price of every post that may still be settled, and what
\* left it is what fees and takes add up to.
EscrowOutlivesRates ==
  campaign.status = "LIVE" =>
    /\ escrow + Outgoing = campaign.price
    /\ escrow >= campaign.unit * (campaign.slots - Cardinality(Settled))

\* offerDetail(): as long as the rates stay as they were when an offer was made, its post
\* is paid within the range the offer shows, from the fee at the floor, but for one kobo
\* of rounding, up to the whole fee for the whole reach.
PaidAsOffered == \A p \in Settled :
  LET o == offer[p]
      lowest == (2 * o.fee * o.under.threshold + 100) \div 200 IN
  payout[p].under = o.under =>
    /\ payout[p].fee \in lowest - 1 .. o.fee
    /\ payout[p].views >= o.promised => payout[p].fee = o.fee

\* quote(), sendOffers(): if every offer promises the reach the campaign was quoted by,
\* delivering all of its slots in full reaches its target.
GoalIsReached ==
  /\ campaign.status = "LIVE" /\ Cardinality(Settled) = campaign.slots
  /\ \A p \in Settled : offer[p].promised * campaign.slots = campaign.goal
                        /\ payout[p].views >= offer[p].promised
  => Seen >= campaign.goal

\* RateConfigService: "Nothing here may be applied retroactively."  A post that delivers
\* all that its offer promised is paid the fee of the offer.
OfferIsHonored ==
  \A p \in Settled : payout[p].views >= offer[p].promised => payout[p].fee = offer[p].fee

===============================================================================
