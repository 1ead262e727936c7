---------------------------- MODULE CampaignBudget ----------------------------
(***************************************************************************)
(* The budget of one campaign, from its quote to its last kobo, with every *)
(* operation indivisible and every post answered once: what quote(), the   *)
(* funding, approveSubmission() and the reclaim sweep do to the money and  *)
(* to the posts it is promised to.  It is the yardstick for the delivery   *)
(* handlers: they serve posts that were sold out of this escrow.           *)
(***************************************************************************)
EXTENDS Pricing

CONSTANTS Prices,         \* exact prices a client may type
          SlotCounts,     \* slot counts a client may ask for instead
          Filters,        \* numbers of active targeting filters
          Reach,          \* promised views of one post
          Posts,          \* posts per slot
          Views,          \* verified views an admin may enter
          Floor           \* the category's minimum price

ASSUME BudgetAssumption == /\ Prices \subseteq Nat /\ Filters \subseteq Nat
                           /\ SlotCounts \subseteq Nat \ {0} /\ Views \subseteq Nat
                           /\ Reach \in Nat \ {0} /\ Posts \in Nat \ {0} /\ Floor \in Nat

VARIABLES phase,          \* of the campaign: draft, quoted, live or fulfilled
          price, unit,    \* the quoted price and the frozen price of one post
          slots,          \* slots_total
          owed,           \* posts sold and neither paid nor forfeited
          verified,       \* verified reach of the approved posts
          target,         \* the reach the client pays for
          escrow, fees, revenue   \* where the kobo are

vars == <<phase, price, unit, slots, owed, verified, target, escrow, fees, revenue>>
quoteVars == <<price, unit, target>>

Phase == {"draft", "quoted", "live", "fulfilled"}

TypeOK ==
  /\ phase \in Phase
  /\ {price, unit, slots, owed, verified, target} \subseteq Nat
  /\ {escrow, fees, revenue} \subseteq Nat

Init ==
  /\ phase = "draft"
  /\ price = 0 /\ unit = 0 /\ slots = 0 /\ target = 0
  /\ owed = 0 /\ verified = 0
  /\ escrow = 0 /\ fees = 0 /\ revenue = 0

\* A quote replaces the one before it, as long as nothing was paid.
Quote(p, u, n) ==
  /\ phase \in {"draft", "quoted"}
  /\ p >= Floor
  /\ phase' = "quoted" /\ price' = p /\ unit' = u /\ slots' = n
  /\ target' = n * Reach * Posts
  /\ UNCHANGED <<owed, verified, escrow, fees, revenue>>

QuoteByPrice(p, filters) ==
  LET n == SlotsForPrice(p, filters, Reach * Posts)
  IN  Quote(p, UnitPrice(p, n * Posts), n)

QuoteBySlots(n, filters) ==
  LET u == SlotPrice(Reach, filters) IN Quote(u * n * Posts, u, n)

\* update(), setTargeting(): an edit drops the quote.
Edit ==
  /\ phase = "quoted"
  /\ phase' = "draft" /\ price' = 0
  /\ UNCHANGED <<unit, slots, target, owed, verified, escrow, fees, revenue>>

\* The exact price is paid into escrow and every slot is on sale.
Fund ==
  /\ phase = "quoted"
  /\ phase' = "live" /\ escrow' = price /\ owed' = slots * Posts
  /\ UNCHANGED <<price, unit, slots, target, verified, fees, revenue>>

\* approveSubmission() of one post with v verified views: it is paid out of
\* escrow, and a live campaign then goes on, buys the missing reach again, or
\* is fulfilled - and its remainder booked to revenue if nothing else is owed.
ApprovePost(v) ==
  LET delivered == DeliveredGross(unit, v, Reach)
      left == owed - 1
      reached == verified + v >= target
      kept == escrow - delivered
      again == IF reached \/ left > 0 THEN 0
               ELSE ReopenCount(target - (verified + v), Reach * Posts, kept, unit * Posts)
      done == reached \/ (left = 0 /\ again = 0)
      booked == IF phase = "live" /\ done /\ left = 0 THEN kept ELSE 0
      opened == IF phase = "live" THEN again ELSE 0
  IN
  /\ phase \in {"live", "fulfilled"} /\ owed > 0
  /\ MeetsThreshold(v, Reach)
  /\ verified' = verified + v
  /\ owed' = left + opened * Posts
  /\ slots' = slots + opened
  /\ phase' = IF phase = "live" /\ done THEN "fulfilled" ELSE phase
  /\ escrow' = kept - booked
  /\ fees' = fees + PromoterFee(delivered)
  /\ revenue' = revenue + RaliaTake(delivered) + booked
  /\ UNCHANGED quoteVars

\* The reclaim sweep lets a single missed post lapse; its money stays in escrow.
ForfeitPost ==
  /\ phase \in {"live", "fulfilled"} /\ owed > 0
  /\ owed' = owed - 1
  /\ UNCHANGED <<phase, slots, verified, escrow, fees, revenue, quoteVars>>

Next ==
  \/ \E f \in Filters, p \in Prices : QuoteByPrice(p, f)
  \/ \E f \in Filters, n \in SlotCounts : QuoteBySlots(n, f)
  \/ Edit \/ Fund \/ ForfeitPost
  \/ \E v \in Views : ApprovePost(v)

Spec == Init /\ [][Next]_vars

-------------------------------------------------------------------------------
(* Properties *)

\* Whatever is approved, forfeited and bought again, in whatever order: escrow can
\* always pay every post still owed at its full price, so no approval of work that
\* was sold can fail for want of money.
EscrowCoversOwed == escrow >= owed * unit

\* Not one kobo is invented or lost to rounding, by the quote, by a pro-rata
\* settlement or by the fee split: what the client paid is in escrow, with the
\* promoters or with the platform.
NoKoboLost == phase \in {"live", "fulfilled"} => escrow + fees + revenue = price

\* The fee the offer promised is a ceiling: no over-delivery pays a post more, and a
\* post below the delivery floor is never paid at all.
FeeIsCeiling ==
  [][ /\ fees' - fees <= PromoterFee(unit)
      /\ fees' # fees => 100 * (verified' - verified) >= Threshold * Reach ]_vars

\* A live campaign is closed short of the reach the client paid for only when its
\* escrow cannot buy one more slot.
ClosedShortOnlyWhenBroke ==
  [][phase = "live" /\ phase' = "fulfilled" /\ verified' < target /\ unit > 0
       => escrow - DeliveredGross(unit, verified' - verified, Reach) < unit * Posts]_vars

===============================================================================
