----------------------------- MODULE BudgetProofs -----------------------------
(***************************************************************************)
(* Proofs about the campaign of MCCampaignBudget: its budget               *)
(* (CampaignBudget), for every price, unit, rate and size; who is offered  *)
(* it (Offers); the rates while they change (Rates); and the pure rules of *)
(* matching and of points (Matching, PointsRules), of any input.  The      *)
(* budget and the rates rest on the same facts about rounding: a quotient  *)
(* is bounded by what was divided, a pro-rata part never exceeds the       *)
(* whole, a fee never exceeds its amount.  Escrow covers the posts owed    *)
(* because a quote never prices its posts above itself.                    *)
(***************************************************************************)
EXTENDS MCCampaignBudget, Sums, TLAPS

\* What integer division returns, the one fact about \div everything else uses.
LEMMA Quotient ==
  ASSUME NEW n \in Nat, NEW d \in Nat \ {0}
  PROVE  /\ n \div d \in Nat
         /\ d * (n \div d) <= n
         /\ n < d * (n \div d) + d
  OBVIOUS

\* A quotient is at most q when what is divided stays below q + 1 divisors.
LEMMA QuotientBound ==
  ASSUME NEW n \in Nat, NEW d \in Nat \ {0}, NEW q \in Nat, n < d * q + d
  PROVE  n \div d <= q
<1> DEFINE r == n \div d
<1>1. r \in Nat /\ d * r <= n
  BY Quotient
<1>2. SUFFICES ASSUME r >= q + 1 PROVE FALSE
  BY <1>1
<1>3. d * r >= d * (q + 1)
  BY <1>1, <1>2
<1>4. d * (q + 1) = d * q + d
  OBVIOUS
<1> QED BY <1>1, <1>3, <1>4

\* divRound() of a part of g: between nothing and g.
LEMMA RoundedPart ==
  ASSUME NEW g \in Nat, NEW m \in Nat, NEW p \in Nat \ {0}, m <= p
  PROVE  DivRound(g * m, p) \in Nat /\ DivRound(g * m, p) <= g
<1> DEFINE n == g * m + p \div 2
<1>1. p \div 2 \in Nat /\ p \div 2 < p
  OBVIOUS
<1>2. g * m \in Nat /\ g * m <= p * g
  OBVIOUS
<1>3. n \in Nat /\ n < p * g + p
  BY <1>1, <1>2
<1>4. n \div p \in Nat
  BY <1>3, Quotient
<1>5. n \div p <= g
  BY <1>3, QuotientBound
<1> QED BY <1>4, <1>5 DEF DivRound

\* splitFee(): fee and take are parts of the amount and add up to it.
LEMMA FeeSplit ==
  ASSUME NEW a \in Nat
  PROVE  /\ PromoterFee(a) \in Nat /\ RaliaTake(a) \in Nat
         /\ PromoterFee(a) + RaliaTake(a) = a
<1>1. 100 - TakeRate \in Nat /\ 100 - TakeRate <= 100
  BY PricingAssumption
<1>2. PromoterFee(a) \in Nat /\ PromoterFee(a) <= a
  BY <1>1, RoundedPart DEF PromoterFee
<1> QED BY <1>2 DEF RaliaTake

\* settleDelivery(): what leaves escrow for a post is never more than its price.
LEMMA DeliveredWithinGross ==
  ASSUME NEW g \in Nat, NEW v \in Nat
  PROVE  /\ DeliveredGross(g, v, Reach) \in Nat
         /\ DeliveredGross(g, v, Reach) <= g
<1>1. Reach \in Nat \ {0}
  BY BudgetAssumption
<1>2. Least(v, Reach) \in Nat /\ Least(v, Reach) <= Reach
  BY <1>1 DEF Least
<1> QED BY <1>1, <1>2, RoundedPart DEF DeliveredGross

\* The slots opened again fit into the escrow they are to be paid from.
LEMMA ReopenFits ==
  ASSUME NEW deficit \in Int, NEW reach \in Nat \ {0}, NEW money \in Nat, NEW cost \in Nat
  PROVE  /\ ReopenCount(deficit, reach, money, cost) \in Nat
         /\ ReopenCount(deficit, reach, money, cost) * cost <= money
<1> DEFINE n == ReopenCount(deficit, reach, money, cost)
<1>1. CASE cost = 0 \/ deficit <= 0
  BY <1>1 DEF ReopenCount
<1>2. CASE cost # 0 /\ deficit > 0
  <2>1. Ceiling(deficit, reach) \in Nat
    BY <1>2, Quotient DEF Ceiling
  <2>2. money \div cost \in Nat /\ cost * (money \div cost) <= money
    BY <1>2, Quotient
  <2>3. n \in Nat /\ n <= money \div cost
    BY <1>2, <2>1, <2>2 DEF ReopenCount, Least
  <2>4. n * cost <= cost * (money \div cost)
    BY <2>2, <2>3
  <2> QED BY <2>2, <2>3, <2>4
<1> QED BY <1>1, <1>2

\* quote(): floored, the posts of a campaign cost at most its price.
LEMMA QuoteWithinPrice ==
  ASSUME NEW p \in Nat, NEW n \in Nat \ {0}
  PROVE  /\ UnitPrice(p, n * Posts) \in Nat
         /\ (n * Posts) * UnitPrice(p, n * Posts) <= p
<1>1. n * Posts \in Nat \ {0}
  BY BudgetAssumption
<1> QED BY <1>1, Quotient DEF UnitPrice
-------------------------------------------------------------------------------
(* The inductive invariant *)

\* Before the money is in nothing is owed, and a quote sells no more than it costs.
BeforeFunding ==
  phase \in {"draft", "quoted"} =>
    /\ owed = 0 /\ verified = 0 /\ escrow = 0 /\ fees = 0 /\ revenue = 0
    /\ phase = "quoted" => (slots * Posts) * unit <= price

IInv == TypeOK /\ EscrowCoversOwed /\ NoKoboLost /\ BeforeFunding

\* A slot count derived from a price is a positive whole number of slots.
LEMMA SizedPositive ==
  ASSUME NEW p \in Nat, NEW f \in Nat, NEW r \in Nat
  PROVE  SlotsForPrice(p, f, r) \in Nat \ {0}
<1> DEFINE basis == Greatest(1, r)
           mult == Rpm * ObjectiveMult * TargetingMult(f)
           reach == TargetReach(p, f)
<1>1. basis \in Nat \ {0}
  BY DEF Greatest
<1>2. TargetingMult(f) \in Nat \ {0}
  <2>1. TargetingStep * f \in Nat
    BY PricingAssumption
  <2> QED BY <2>1, PricingAssumption DEF TargetingMult, Least
<1>3. mult \in Nat \ {0}
  BY <1>2, PricingAssumption
<1>4. reach \in Nat
  <2>1. p * Scale \in Nat /\ mult \div 2 \in Nat
    BY <1>3, PricingAssumption
  <2>2. p * Scale + mult \div 2 \in Nat
    BY <2>1
  <2> QED BY <1>3, <2>2, Quotient DEF TargetReach, DivRound
<1>5. 2 * reach + basis \in Nat /\ 2 * basis \in Nat \ {0}
  BY <1>1, <1>4
<1>6. (2 * reach + basis) \div (2 * basis) \in Nat
  BY <1>5, Quotient
<1> QED BY <1>6 DEF SlotsForPrice, Greatest

\* A price per post is a number of kobo.
LEMMA SlotPriceType ==
  ASSUME NEW f \in Nat
  PROVE  SlotPrice(Reach, f) \in Nat
<1>1. TargetingMult(f) \in Nat
  BY PricingAssumption DEF TargetingMult, Least
<1>2. Reach * Rpm * ObjectiveMult * TargetingMult(f) \in Nat
  BY <1>1, PricingAssumption, BudgetAssumption
<1>3. Scale \in Nat \ {0} /\ Scale \div 2 \in Nat
  BY PricingAssumption
<1>4. Reach * Rpm * ObjectiveMult * TargetingMult(f) + Scale \div 2 \in Nat
  BY <1>2, <1>3
<1> QED BY <1>3, <1>4, Quotient DEF SlotPrice, DivRound

\* Any quote that sells no more than its price keeps the invariant.
LEMMA QuoteKeeps ==
  ASSUME IInv, NEW p \in Nat, NEW u \in Nat, NEW n \in Nat, (n * Posts) * u <= p,
         Quote(p, u, n)
  PROVE  IInv'
<1>1. n * Reach * Posts \in Nat
  BY BudgetAssumption
<1> QED BY <1>1 DEF IInv, TypeOK, Phase, EscrowCoversOwed, NoKoboLost, BeforeFunding, Quote

LEMMA Initial == ASSUME Init PROVE IInv
  BY DEF Init, IInv, TypeOK, Phase, EscrowCoversOwed, NoKoboLost, BeforeFunding

\* An approval: the money that leaves escrow is the post's, at most its price; what
\* is bought again fits into what is left; a remainder is booked only when nothing
\* is owed.
LEMMA ApproveKeeps ==
  ASSUME IInv, NEW v \in Nat, ApprovePost(v)
  PROVE  IInv'
<1> DEFINE delivered == DeliveredGross(unit, v, Reach)
           left == owed - 1
           reached == verified + v >= target
           kept == escrow - delivered
           cost == unit * Posts
           again == IF reached \/ left > 0 THEN 0
                    ELSE ReopenCount(target - (verified + v), Reach * Posts, kept, cost)
           done == reached \/ (left = 0 /\ again = 0)
           booked == IF phase = "live" /\ done /\ left = 0 THEN kept ELSE 0
           opened == IF phase = "live" THEN again ELSE 0
<1>1. /\ owed \in Nat /\ owed > 0 /\ left \in Nat /\ unit \in Nat /\ escrow \in Nat
      /\ fees \in Nat /\ revenue \in Nat /\ verified \in Nat /\ target \in Nat
      /\ slots \in Nat /\ price \in Nat /\ phase \in {"live", "fulfilled"}
      /\ escrow >= owed * unit /\ escrow + fees + revenue = price
  BY DEF IInv, TypeOK, EscrowCoversOwed, NoKoboLost, ApprovePost
<1>2. delivered \in Nat /\ delivered <= unit
  BY <1>1, DeliveredWithinGross
<1>3. PromoterFee(delivered) \in Nat /\ RaliaTake(delivered) \in Nat
      /\ PromoterFee(delivered) + RaliaTake(delivered) = delivered
  BY <1>2, FeeSplit
<1>4. owed * unit = left * unit + unit
  BY <1>1
<1>5. kept \in Nat /\ kept >= left * unit
  BY <1>1, <1>2, <1>4
<1>6. Posts \in Nat \ {0} /\ Reach * Posts \in Nat \ {0} /\ cost \in Nat
  BY <1>1, BudgetAssumption
<1>7. again \in Nat /\ (again # 0 => left = 0 /\ again * cost <= kept)
  <2>1. target - (verified + v) \in Int
    BY <1>1
  <2> DEFINE bought == ReopenCount(target - (verified + v), Reach * Posts, kept, cost)
  <2>2. bought \in Nat /\ bought * cost <= kept
    BY <1>5, <1>6, <2>1, ReopenFits
  <2> HIDE DEF bought, kept, cost
  <2>3. again = IF reached \/ left > 0 THEN 0 ELSE bought
    BY DEF bought
  <2> QED BY <1>1, <2>2, <2>3
<1>8. opened \in Nat /\ (opened # 0 => left = 0 /\ opened * cost <= kept /\ booked = 0)
  BY <1>7
<1>9. booked \in Nat /\ (booked # 0 => left = 0 /\ booked = kept /\ opened = 0)
  BY <1>5, <1>7, <1>8
<1>10. opened * Posts \in Nat /\ (opened * Posts) * unit = opened * cost
  BY <1>1, <1>6, <1>8
<1>11. kept - booked >= (left + opened * Posts) * unit
  <2>1. CASE booked # 0
    <3>1. left + opened * Posts = 0
      BY <2>1, <1>6, <1>9
    <3>2. (left + opened * Posts) * unit = 0
      BY <3>1, <1>1
    <3> QED BY <3>2, <2>1, <1>5, <1>9
  <2>2. CASE booked = 0 /\ opened # 0
    BY <2>2, <1>1, <1>5, <1>8, <1>10
  <2>3. CASE booked = 0 /\ opened = 0
    BY <2>3, <1>1, <1>5, <1>6
  <2> QED BY <2>1, <2>2, <2>3
<1>12. /\ owed' = left + opened * Posts /\ verified' = verified + v
       /\ slots' = slots + opened /\ escrow' = kept - booked
       /\ fees' = fees + PromoterFee(delivered)
       /\ revenue' = revenue + RaliaTake(delivered) + booked
       /\ phase' \in {"live", "fulfilled"}
       /\ price' = price /\ unit' = unit /\ target' = target
  BY DEF ApprovePost, quoteVars
<1>13. EscrowCoversOwed'
  BY <1>11, <1>12 DEF EscrowCoversOwed
<1>14. NoKoboLost'
  <2> DEFINE fee == PromoterFee(delivered)
             take == RaliaTake(delivered)
  <2>1. /\ escrow' = escrow - delivered - booked
        /\ fees' = fees + fee /\ revenue' = revenue + take + booked
    BY <1>12
  <2>2. delivered \in Nat /\ booked \in Nat /\ fee \in Nat /\ take \in Nat /\ fee + take = delivered
    BY <1>2, <1>3, <1>9
  <2>3. escrow \in Nat /\ fees \in Nat /\ revenue \in Nat /\ escrow + fees + revenue = price
    BY <1>1
  <2> HIDE DEF delivered, booked, fee, take
  <2>4. escrow' + fees' + revenue' = price
    BY <2>1, <2>2, <2>3
  <2> QED BY <1>12, <2>4 DEF NoKoboLost
<1>15. TypeOK'
  BY <1>1, <1>2, <1>3, <1>5, <1>8, <1>9, <1>10, <1>12 DEF TypeOK, Phase
<1>16. BeforeFunding'
  BY <1>12 DEF BeforeFunding
<1> QED BY <1>13, <1>14, <1>15, <1>16 DEF IInv

LEMMA Step == ASSUME IInv, [Next]_vars PROVE IInv'
<1> USE DEF IInv
<1>1. ASSUME NEW f \in Filters, NEW p \in Prices, QuoteByPrice(p, f) PROVE IInv'
  <2> DEFINE n == SlotsForPrice(p, f, Reach * Posts)
  <2>1. p \in Nat /\ f \in Nat /\ Reach * Posts \in Nat
    BY BudgetAssumption
  <2>2. n \in Nat \ {0}
    BY <2>1, SizedPositive
  <2>3. UnitPrice(p, n * Posts) \in Nat /\ (n * Posts) * UnitPrice(p, n * Posts) <= p
    BY <2>1, <2>2, QuoteWithinPrice
  <2>4. Quote(p, UnitPrice(p, n * Posts), n)
    BY <1>1 DEF QuoteByPrice
  <2> QED BY <2>1, <2>2, <2>3, <2>4, QuoteKeeps
<1>2. ASSUME NEW f \in Filters, NEW n \in SlotCounts, QuoteBySlots(n, f) PROVE IInv'
  <2> DEFINE u == SlotPrice(Reach, f)
  <2>1. n \in Nat /\ f \in Nat /\ Posts \in Nat
    BY BudgetAssumption
  <2>2. u \in Nat
    BY <2>1, SlotPriceType
  <2>3. u * n * Posts \in Nat /\ (n * Posts) * u <= u * n * Posts
    BY <2>1, <2>2
  <2>4. Quote(u * n * Posts, u, n)
    BY <1>2 DEF QuoteBySlots
  <2> QED BY <2>1, <2>2, <2>3, <2>4, QuoteKeeps
<1>3. ASSUME Edit PROVE IInv'
  BY <1>3 DEF Edit, TypeOK, Phase, EscrowCoversOwed, NoKoboLost, BeforeFunding
<1>4. ASSUME Fund PROVE IInv'
  <2>1. slots * Posts \in Nat
    BY BudgetAssumption DEF TypeOK
  <2> QED BY <1>4, <2>1 DEF Fund, TypeOK, Phase, EscrowCoversOwed, NoKoboLost, BeforeFunding
<1>5. ASSUME ForfeitPost PROVE IInv'
  <2>1. owed * unit = (owed - 1) * unit + unit
    BY DEF TypeOK
  <2> QED BY <1>5, <2>1 DEF ForfeitPost, quoteVars, TypeOK, Phase, EscrowCoversOwed, NoKoboLost, BeforeFunding
<1>6. ASSUME NEW v \in Views, ApprovePost(v) PROVE IInv'
  <2>1. v \in Nat
    BY BudgetAssumption
  <2> QED BY <1>6, <2>1, ApproveKeeps
<1>7. ASSUME UNCHANGED vars PROVE IInv'
  BY <1>7 DEF vars, TypeOK, EscrowCoversOwed, NoKoboLost, BeforeFunding
<1> QED BY <1>1, <1>2, <1>3, <1>4, <1>5, <1>6, <1>7 DEF Next

-------------------------------------------------------------------------------
(* The theorems *)

\* The invariant behind the others holds in every state of every campaign.
THEOREM BudgetInvariant == Spec => []IInv
BY Initial, Step, PTL DEF Spec

\* No amount, count or balance of a campaign ever leaves the natural numbers: in
\* particular no sequence of approvals drives escrow below zero.
THEOREM BudgetTypeCorrect == Spec => []TypeOK
<1>1. IInv => TypeOK
  BY DEF IInv
<1> QED BY <1>1, BudgetInvariant, PTL

\* Escrow always covers the full price of the posts still owed: the flooring of
\* quote(), the cap of settleDelivery() and the affordability bound of a reopen are
\* together enough, for every price, rate, filter count and sequence of views.
THEOREM EscrowAlwaysCovers == Spec => []EscrowCoversOwed
<1>1. IInv => EscrowCoversOwed
  BY DEF IInv
<1> QED BY <1>1, BudgetInvariant, PTL

\* What the client paid is always found again, to the kobo, in escrow, in the
\* promoters' fees and in the platform's revenue.
THEOREM MoneyConserved == Spec => []NoKoboLost
<1>1. IInv => NoKoboLost
  BY DEF IInv
<1> QED BY <1>1, BudgetInvariant, PTL

\* A larger amount never has a smaller fee.
LEMMA FeeMonotone ==
  ASSUME NEW a \in Nat, NEW b \in Nat, a <= b
  PROVE  PromoterFee(a) <= PromoterFee(b)
<1> DEFINE k == 100 - TakeRate
           n == a * k + 50
           m == b * k + 50
<1>1. k \in Nat
  BY PricingAssumption
<1>2. n \in Nat /\ m \in Nat /\ n <= m
  <2>1. a * k \in Nat /\ b * k \in Nat /\ a * k <= b * k
    BY <1>1
  <2> QED BY <2>1
<1> HIDE DEF n, m
<1>3. n \div 100 <= m \div 100
  BY <1>2
<1> QED BY <1>3 DEF PromoterFee, DivRound, n, m

\* No approval pays a promoter more than the fee of the offer, whatever the verified
\* views, and none pays a post below the delivery floor.
THEOREM FeeCapped == Spec => FeeIsCeiling
<1> DEFINE A == /\ fees' - fees <= PromoterFee(unit)
                /\ fees' # fees => 100 * (verified' - verified) >= Threshold * Reach
<1>1. ASSUME IInv, [Next]_vars PROVE [A]_vars
  <2>1. unit \in Nat /\ fees \in Nat /\ verified \in Nat /\ phase \in Phase
    BY <1>1 DEF IInv, TypeOK
  <2>2. PromoterFee(unit) \in Nat
    BY <2>1, FeeSplit
  <2>3. CASE fees' = fees
    BY <2>1, <2>2, <2>3
  <2>4. ASSUME NEW v \in Views, ApprovePost(v) PROVE A
    <3> DEFINE d == DeliveredGross(unit, v, Reach)
    <3>1. v \in Nat /\ Reach \in Nat /\ Threshold \in Nat
      BY BudgetAssumption, PricingAssumption
    <3>2. d \in Nat /\ d <= unit
      BY <2>1, <3>1, DeliveredWithinGross
    <3>3. PromoterFee(d) \in Nat /\ PromoterFee(d) <= PromoterFee(unit)
      BY <2>1, <3>2, FeeMonotone, FeeSplit
    <3>4. fees' = fees + PromoterFee(d) /\ verified' = verified + v
      BY <2>4 DEF ApprovePost
    <3>5. v * 100 >= Threshold * Reach
      BY <2>4 DEF ApprovePost, MeetsThreshold
    <3>6. verified' - verified = v
      BY <2>1, <3>1, <3>4
    <3> HIDE DEF d
    <3>7. fees' - fees <= PromoterFee(unit)
      BY <2>1, <2>2, <3>3, <3>4
    <3> QED BY <3>1, <3>5, <3>6, <3>7
  <2>5. ASSUME UNCHANGED vars PROVE fees' = fees
    BY <2>5 DEF vars
  <2> QED BY <1>1, <2>1, <2>3, <2>4, <2>5 DEF Next, QuoteByPrice, QuoteBySlots, Quote, Edit, Fund, ForfeitPost, vars
<1> QED BY <1>1, BudgetInvariant, PTL DEF Spec, FeeIsCeiling

\* Nothing is bought for reach that is missing only when the money does not buy a slot.
LEMMA ReopensWhatItCan ==
  ASSUME NEW deficit \in Nat \ {0}, NEW reach \in Nat \ {0}, NEW money \in Nat, NEW cost \in Nat \ {0},
         ReopenCount(deficit, reach, money, cost) = 0
  PROVE  money < cost
<1>1. deficit + reach - 1 \in Nat /\ deficit + reach - 1 >= reach
  OBVIOUS
<1>2. PICK n \in Nat : n = deficit + reach - 1 /\ n >= reach
  BY <1>1
<1>3. n \div reach \in Nat /\ n < reach * (n \div reach) + reach
  BY <1>2, Quotient
<1>4. n \div reach # 0
  BY <1>2, <1>3
<1>5. Ceiling(deficit, reach) \in Nat /\ Ceiling(deficit, reach) # 0
  BY <1>2, <1>3, <1>4 DEF Ceiling
<1>6. money \div cost \in Nat /\ money < cost * (money \div cost) + cost
  BY Quotient
<1>7. money \div cost = 0
  BY <1>5, <1>6 DEF ReopenCount, Least
<1> QED BY <1>6, <1>7

\* A live campaign is fulfilled short of its reach only by an approval after which
\* escrow does not buy one more slot, whatever came before.
THEOREM ClosedOnlyWhenBroke == Spec => ClosedShortOnlyWhenBroke
<1> DEFINE A == phase = "live" /\ phase' = "fulfilled" /\ verified' < target /\ unit > 0
                  => escrow - DeliveredGross(unit, verified' - verified, Reach) < unit * Posts
<1>1. ASSUME IInv, [Next]_vars PROVE [A]_vars
  <2>1. ASSUME NEW v \in Views, ApprovePost(v), phase = "live", phase' = "fulfilled", verified' < target, unit > 0
        PROVE  escrow - DeliveredGross(unit, verified' - verified, Reach) < unit * Posts
    <3> DEFINE kept == escrow - DeliveredGross(unit, v, Reach)
               cost == unit * Posts
               missing == target - (verified + v)
               left == owed - 1
               again == IF verified + v >= target \/ left > 0 THEN 0
                        ELSE ReopenCount(missing, Reach * Posts, kept, cost)
    <3>1. /\ unit \in Nat /\ escrow \in Nat /\ verified \in Nat /\ target \in Nat /\ owed \in Nat
          /\ escrow >= owed * unit /\ owed > 0 /\ v \in Nat /\ verified' = verified + v
      BY <1>1, <2>1, BudgetAssumption DEF IInv, TypeOK, EscrowCoversOwed, ApprovePost
    <3>2. verified + v < target
      BY <2>1, <3>1
    <3>3. left = 0 /\ again = 0
      <4>1. verified + v >= target \/ (left = 0 /\ again = 0)
        BY <2>1 DEF ApprovePost
      <4> QED BY <3>1, <3>2, <4>1
    <3>4. DeliveredGross(unit, v, Reach) \in Nat /\ DeliveredGross(unit, v, Reach) <= unit
      BY <3>1, DeliveredWithinGross
    <3>5. owed * unit >= unit
      BY <3>1
    <3>6. kept \in Nat
      BY <3>1, <3>4, <3>5
    <3>7. missing \in Nat \ {0} /\ Reach * Posts \in Nat \ {0} /\ cost \in Nat \ {0}
      BY <2>1, <3>1, <3>2, BudgetAssumption
    <3> HIDE DEF kept, cost, missing
    <3>8. ReopenCount(missing, Reach * Posts, kept, cost) = 0
      BY <3>1, <3>2, <3>3
    <3>9. kept < cost
      BY <3>6, <3>7, <3>8, ReopensWhatItCan
    <3>10. verified' - verified = v
      BY <3>1
    <3> QED BY <3>9, <3>10 DEF kept, cost
  <2>2. ASSUME NEW v \in Views, ApprovePost(v) PROVE A
    BY <2>1, <2>2
  <2> QED BY <1>1, <2>2 DEF Next, QuoteByPrice, QuoteBySlots, Quote, Edit, Fund, ForfeitPost, vars
<1> QED BY <1>1, BudgetInvariant, PTL DEF Spec, ClosedShortOnlyWhenBroke

-------------------------------------------------------------------------------
(* Who is offered a campaign, and how many offers are out (Offers) *)

\* The offers that are out and that no admin picked.
Unpicked == {p \in Promoter : offer[p] = "SENT" /\ p \notin picked}

\* How many offers a sweep may still send.
Pend(z) == CASE place[z] = "list" -> task[z].wanted
             [] place[z] = "send" -> Cardinality(task[z].picks \ picked)
             [] OTHER -> 0
Pending == [z \in Sweeper |-> Pend(z)]

\* The most one sweep wants.
Most == O!OverOfferCount(Slots)
Limit == Most * (IF overlapped THEN Cardinality(Sweeper) ELSE 1)

\* It is at work, and not on an admin's behalf.
Sweeping(z) == place[z] \in {"count", "list"} \/ (place[z] = "send" /\ ~(task[z].picks \subseteq picked))

\* What is out and what is still to be sent, together.
Apart == ~overlapped => \A y, z \in Sweeper : Sweeping(y) /\ Sweeping(z) => y = z
Planned == \A z \in Sweeper : task[z].open <= Slots /\ Pend(z) <= Most /\ (place[z] = "send" => task[z].picks # {})
OffersInv ==
  /\ O!TypeOK /\ Planned /\ Apart
  /\ Cardinality(Unpicked) + SumFunctionOnSet(Pending, Sweeper) <= Limit

\* The operators of other modules, as Offers has them.
LEMMA OfferOperators ==
  /\ \A S : O!IsFiniteSet(S) <=> IsFiniteSet(S)
  /\ \A S : O!Cardinality(S) = Cardinality(S)
  /\ \A S : O!Min(S) = CHOOSE x \in S : \A y \in S : x <= y
  /\ \A a, b : O!Greatest(a, b) = IF a <= b THEN b ELSE a
<1>1. \A S : O!IsFiniteSet(S) <=> IsFiniteSet(S) BY DEF O!IsFiniteSet, IsFiniteSet
<1>2. \A S : O!Cardinality(S) = Cardinality(S) BY DEF O!Cardinality, Cardinality
<1>3. \A S : O!Min(S) = CHOOSE x \in S : \A y \in S : x <= y BY DEF O!Min
<1>4. \A a, b : O!Greatest(a, b) = IF a <= b THEN b ELSE a BY DEF O!Greatest
<1> QED BY <1>1, <1>2, <1>3, <1>4

LEMMA OfferConstants ==
  /\ Promoter \subseteq Nat /\ IsFiniteSet(Promoter) /\ IsFiniteSet(Sweeper)
  /\ \A S \in SUBSET Promoter : IsFiniteSet(S) /\ Cardinality(S) \in Nat
  /\ ByHand \subseteq SUBSET Promoter /\ Slots \in Nat \ {0} /\ MaxChanges \in Nat
  /\ Cardinality(Sweeper) \in Nat
<1>1. /\ Promoter \subseteq Nat /\ IsFiniteSet(Promoter) /\ IsFiniteSet(Sweeper)
      /\ ByHand \subseteq SUBSET Promoter /\ Slots \in Nat \ {0} /\ MaxChanges \in Nat
  BY OffersAssumption, OfferOperators DEF O!OffersAssumption
<1> QED BY <1>1, FS_Subset, FS_CardinalityType

\* overOfferCount() never falls as more slots are open, and never below them.
LEMMA OverOffers ==
  /\ Most \in Nat
  /\ \A n \in 0 .. Slots : /\ O!OverOfferCount(n) \in Nat /\ n <= O!OverOfferCount(n)
                           /\ O!OverOfferCount(n) <= Most
<1>1. \A n \in Nat : O!OverOfferCount(n) = (3 * n + 1) \div 2
  BY DEF O!OverOfferCount
<1>2. \A n \in Nat : (3 * n + 1) \div 2 \in Nat /\ n <= (3 * n + 1) \div 2
  OBVIOUS
<1>3. \A n, m \in Nat : n <= m => (3 * n + 1) \div 2 <= (3 * m + 1) \div 2
  OBVIOUS
<1>4. Slots \in Nat
  BY OfferConstants
<1> QED BY <1>1, <1>2, <1>3, <1>4 DEF Most

\* The figures, of a typed state.
LEMMA OfferFigures ==
  ASSUME O!TypeOK
  PROVE  /\ \A z \in Sweeper :
              /\ task[z] \in [open: Nat, wanted: Nat, picks: SUBSET Promoter]
              /\ task[z].open \in Nat /\ task[z].wanted \in Nat /\ task[z].picks \in SUBSET Promoter
              /\ IsFiniteSet(task[z].picks \ picked) /\ Cardinality(task[z].picks \ picked) \in Nat
              /\ Pend(z) \in Nat /\ Pending[z] = Pend(z)
         /\ SumFunctionOnSet(Pending, Sweeper) \in Nat
         /\ Cardinality(Unpicked) \in Nat /\ IsFiniteSet(Unpicked)
         /\ O!Out \in SUBSET Promoter /\ Cardinality(O!Out) \in Nat /\ Cardinality(Unpicked) <= Cardinality(O!Out)
         /\ O!Open \in 0 .. Slots
         /\ Limit \in Nat
<1>1. ASSUME NEW z \in Sweeper
      PROVE  /\ task[z] \in [open: Nat, wanted: Nat, picks: SUBSET Promoter]
             /\ task[z].open \in Nat /\ task[z].wanted \in Nat /\ task[z].picks \in SUBSET Promoter
             /\ IsFiniteSet(task[z].picks \ picked) /\ Cardinality(task[z].picks \ picked) \in Nat
             /\ Pend(z) \in Nat /\ Pending[z] = Pend(z)
  <2>1. /\ task[z] \in [open: Nat, wanted: Nat, picks: SUBSET Promoter]
        /\ task[z].open \in Nat /\ task[z].wanted \in Nat /\ task[z].picks \in SUBSET Promoter
    BY DEF O!TypeOK
  <2>2. IsFiniteSet(task[z].picks \ picked) /\ Cardinality(task[z].picks \ picked) \in Nat
    BY <2>1, OfferConstants
  <2>3. Pend(z) \in Nat
    BY <2>1, <2>2 DEF Pend
  <2> QED BY <2>1, <2>2, <2>3 DEF Pending
<1>2. SumFunctionOnSet(Pending, Sweeper) \in Nat
  BY <1>1, OfferConstants, SumIsNat
<1>3. Unpicked \in SUBSET O!Out /\ O!Out \in SUBSET Promoter
  BY DEF Unpicked, O!Out
<1>4. /\ Cardinality(Unpicked) \in Nat /\ IsFiniteSet(Unpicked)
      /\ Cardinality(O!Out) \in Nat /\ Cardinality(Unpicked) <= Cardinality(O!Out)
  BY <1>3, OfferConstants, FS_Subset
<1>5. O!Open \in 0 .. Slots
  <2>1. Cardinality(holds) \in Nat /\ Slots \in Nat
    BY OfferConstants DEF O!TypeOK
  <2> QED BY <2>1, OfferOperators DEF O!Open
<1>6. Limit \in Nat
  BY OverOffers, OfferConstants DEF Limit
<1> QED BY <1>1, <1>2, <1>3, <1>4, <1>5, <1>6

LEMMA OffersBoundedByPlan == OffersInv => O!TypeOK /\ O!OffersBounded
<1> SUFFICES ASSUME OffersInv PROVE O!TypeOK /\ O!OffersBounded OBVIOUS
<1>1. O!TypeOK /\ Cardinality(Unpicked) + SumFunctionOnSet(Pending, Sweeper) <= Limit
  BY DEF OffersInv
<1>2. Cardinality(Unpicked) <= Limit
  BY <1>1, OfferFigures
<1>3. O!Out \ picked = Unpicked
  BY DEF O!Out, Unpicked
<1>4. O!Cardinality(O!Out \ picked) = Cardinality(Unpicked)
  BY <1>3, OfferOperators
<1>5. O!Cardinality(Sweeper) = Cardinality(Sweeper)
  BY OfferOperators
<1> QED BY <1>1, <1>2, <1>4, <1>5 DEF O!OffersBounded, Limit, Most

LEMMA OffersInitially == O!Init => OffersInv
<1> SUFFICES ASSUME O!Init PROVE OffersInv OBVIOUS
<1>1. O!TypeOK
  <2>1. O!Nothing \in [open: Nat, wanted: Nat, picks: SUBSET Promoter] /\ 0 \in 0 .. MaxChanges
    BY OfferConstants DEF O!Nothing
  <2>2. /\ [z \in Sweeper |-> O!Nothing] \in [Sweeper -> [open: Nat, wanted: Nat, picks: SUBSET Promoter]]
        /\ [p \in Promoter |-> None] \in [Promoter -> O!Status]
    BY <2>1 DEF O!Status
  <2> QED BY <2>1, <2>2 DEF O!Init, O!TypeOK
<1>2. \A z \in Sweeper : Pend(z) = 0 /\ place[z] = "idle" /\ task[z].open = 0
  BY DEF O!Init, O!Nothing, Pend
<1>3. SumFunctionOnSet(Pending, Sweeper) = 0
  BY <1>2, OfferConstants, SumOfZeros DEF Pending
<1>4. Unpicked = {} /\ Cardinality(Unpicked) = 0
  <2>1. None # "SENT"
    BY OffersAssumption DEF O!OffersAssumption
  <2>2. Unpicked = {}
    BY <2>1 DEF O!Init, Unpicked
  <2> QED BY <2>2, FS_EmptySet
<1>5. Planned /\ Apart
  BY <1>2, OverOffers, OfferConstants DEF Planned, Apart, Sweeping
<1> QED BY <1>1, <1>3, <1>4, <1>5, OfferFigures DEF OffersInv

\* What happens around the sweeps puts no further offers out.
LEMMA AroundSweeps ==
  ASSUME OffersInv, UNCHANGED <<place, task, overlapped, picked>>, O!TypeOK', Unpicked' \subseteq Unpicked
  PROVE  OffersInv'
<1>1. \A z \in Sweeper : Pend(z)' = Pend(z)
  BY DEF Pend
<1>2. Pending' = Pending /\ Limit' = Limit
  BY <1>1 DEF Pending, Limit, Most
<1>3. Cardinality(Unpicked') <= Cardinality(Unpicked) /\ Cardinality(Unpicked') \in Nat
  BY OfferFigures, FS_Subset, FS_CardinalityType DEF OffersInv
<1>4. Cardinality(Unpicked') + SumFunctionOnSet(Pending, Sweeper) <= Limit
  BY <1>3, OfferFigures DEF OffersInv
<1>5. Planned' /\ Apart'
  BY <1>1 DEF OffersInv, Planned, Apart, Sweeping
<1> QED BY <1>2, <1>4, <1>5 DEF OffersInv

\* Sweeper z moves, and no other does.
Moves(z) ==
  /\ \A y \in Sweeper \ {z} : place'[y] = place[y] /\ task'[y] = task[y]
  /\ task'[z].open <= Slots /\ (place'[z] = "send" => task'[z].picks # {})

\* It changes what is planned by what it plans itself.
LEMMA SweeperMoves ==
  ASSUME OffersInv, NEW z \in Sweeper, Moves(z), picked' = picked, O!TypeOK', Apart', Pend(z)' <= Most,
         Cardinality(Unpicked') + SumFunctionOnSet(Pending, Sweeper) + Pend(z)' - Pend(z) <= Limit'
  PROVE  OffersInv'
<1>1. \A y \in Sweeper \ {z} : Pend(y)' = Pend(y)
  BY DEF Moves, Pend
<1>2. /\ \A y \in Sweeper : Pending[y] = Pend(y) /\ Pend(y) \in Nat
      /\ \A y \in Sweeper : Pending'[y] = Pend(y)' /\ Pend(y)' \in Nat
  <2>1. \A y \in Sweeper : Pend(y)' \in Nat
    <3>1. \A y \in Sweeper : task'[y] \in [open: Nat, wanted: Nat, picks: SUBSET Promoter]
      BY DEF O!TypeOK
    <3>2. \A y \in Sweeper : Cardinality(task'[y].picks \ picked') \in Nat
      BY <3>1, OfferConstants
    <3> QED BY <3>1, <3>2 DEF Pend
  <2> QED BY <2>1, OfferFigures DEF OffersInv, Pending
<1>3. SumFunctionOnSet(Pending', Sweeper) = SumFunctionOnSet(Pending, Sweeper) + (Pend(z)' - Pend(z))
  <2>1. PICK f, e : f = Pending /\ e = Pending'
    OBVIOUS
  <2>2. \A y \in Sweeper : f[y] \in Int /\ e[y] \in Int
    BY <1>2, <2>1
  <2>3. \A y \in Sweeper \ {z} : f[y] = e[y]
    BY <1>1, <1>2, <2>1
  <2>4. SumFunctionOnSet(e, Sweeper) = SumFunctionOnSet(f, Sweeper) + (e[z] - f[z])
    BY <2>2, <2>3, OfferConstants, SumChanged
  <2> QED BY <1>2, <2>1, <2>4
<1>4. Cardinality(Unpicked') \in Nat
  <2>1. Unpicked' \in SUBSET Promoter BY DEF Unpicked
  <2> QED BY <2>1, OfferConstants
<1>5. Cardinality(Unpicked') + SumFunctionOnSet(Pending', Sweeper) <= Limit'
  BY <1>2, <1>3, <1>4, OfferFigures DEF OffersInv
<1>6. Planned'
  <2>1. Most' = Most BY DEF Most
  <2>2. ASSUME NEW y \in Sweeper \ {z}
        PROVE  task'[y].open <= Slots /\ Pend(y)' <= Most /\ (place'[y] = "send" => task'[y].picks # {})
    BY <1>1 DEF OffersInv, Planned, Moves
  <2> QED BY <2>1, <2>2 DEF Planned, Moves
<1> QED BY <1>5, <1>6 DEF OffersInv

\* Goto(): where sweeper z goes.
LEMMA GotoMoves ==
  ASSUME OffersInv, NEW z \in Sweeper, NEW to \in {"idle", "count", "list", "send"},
         NEW t \in [open: Nat, wanted: Nat, picks: SUBSET Promoter], O!Goto(z, to, t),
         t.open <= Slots, to = "send" => t.picks # {}
  PROVE  /\ Moves(z) /\ place'[z] = to /\ task'[z] = t
         /\ place' \in [Sweeper -> {"idle", "count", "list", "send"}]
         /\ task' \in [Sweeper -> [open: Nat, wanted: Nat, picks: SUBSET Promoter]]
<1>1. place' = [place EXCEPT ![z] = to] /\ task' = [task EXCEPT ![z] = t]
  BY DEF O!Goto
<1>2. /\ place \in [Sweeper -> {"idle", "count", "list", "send"}]
      /\ task \in [Sweeper -> [open: Nat, wanted: Nat, picks: SUBSET Promoter]]
  BY DEF OffersInv, O!TypeOK
<1> QED BY <1>1, <1>2 DEF Moves

\* Stop(): a sweep that stops plans nothing any more.
LEMMA StopMoves ==
  ASSUME OffersInv, NEW z \in Sweeper, O!Stop(z)
  PROVE  /\ Moves(z) /\ place'[z] = "idle" /\ Pend(z)' = 0
         /\ place' \in [Sweeper -> {"idle", "count", "list", "send"}]
         /\ task' \in [Sweeper -> [open: Nat, wanted: Nat, picks: SUBSET Promoter]]
<1>1. O!Goto(z, "idle", O!Nothing)
  BY DEF O!Stop
<1>2. O!Nothing \in [open: Nat, wanted: Nat, picks: SUBSET Promoter] /\ O!Nothing.open = 0 /\ 0 <= Slots
  BY OfferConstants DEF O!Nothing
<1>3. /\ Moves(z) /\ place'[z] = "idle"
      /\ place' \in [Sweeper -> {"idle", "count", "list", "send"}]
      /\ task' \in [Sweeper -> [open: Nat, wanted: Nat, picks: SUBSET Promoter]]
  BY <1>1, <1>2, GotoMoves
<1> QED BY <1>3 DEF Pend

\* Sweeps that do not overlap stay so, if the one that moves was at work already.
LEMMA ApartStays ==
  ASSUME OffersInv, NEW z \in Sweeper, Moves(z), picked' = picked, overlapped' = overlapped,
         Sweeping(z)' => Sweeping(z)
  PROVE  Apart'
<1>1. \A y \in Sweeper \ {z} : Sweeping(y)' => Sweeping(y)
  BY DEF Moves, Sweeping
<1> QED BY <1>1 DEF OffersInv, Apart

\* allocateCampaign() reads the campaign: from here on another sweep overlaps this one.
LEMMA LookStep ==
  ASSUME OffersInv, NEW z \in Sweeper, O!Look(z)
  PROVE  OffersInv'
<1> DEFINE t == [O!Nothing EXCEPT !.open = O!Open]
<1>1. /\ place[z] = "idle" /\ O!Goto(z, "count", t)
      /\ overlapped' = (overlapped \/ \E y \in Sweeper \ {z} : place[y] # "idle")
      /\ UNCHANGED <<live, headStart, holds, offer, standing, picked, changes>>
  BY DEF O!Look, O!campaign, O!frame
<1>2. t \in [open: Nat, wanted: Nat, picks: SUBSET Promoter] /\ t.open <= Slots
  <2>1. O!Open \in 0 .. Slots /\ Slots \in Nat
    BY OfferFigures, OfferConstants DEF OffersInv
  <2> QED BY <2>1 DEF O!Nothing
<1> HIDE DEF t
<1>3. /\ Moves(z) /\ place'[z] = "count"
      /\ place' \in [Sweeper -> {"idle", "count", "list", "send"}]
      /\ task' \in [Sweeper -> [open: Nat, wanted: Nat, picks: SUBSET Promoter]]
  BY <1>1, <1>2, GotoMoves
<1>4. O!TypeOK'
  BY <1>1, <1>3 DEF OffersInv, O!TypeOK, O!Status
<1>5. Apart'
  <2> SUFFICES ASSUME ~overlapped' PROVE \A y \in Sweeper : Sweeping(y)' => y = z
    BY DEF Apart
  <2>1. \A y \in Sweeper \ {z} : place[y] = "idle"
    BY <1>1
  <2> QED BY <1>3, <2>1 DEF Moves, Sweeping
<1>6. Pend(z)' = 0 /\ Pend(z) = 0
  BY <1>1, <1>3 DEF Pend
<1>7. Unpicked' = Unpicked
  BY <1>1 DEF Unpicked
<1>8. Limit <= Limit' /\ Limit' \in Nat
  <2>1. Cardinality(Sweeper) # 0
    BY OfferConstants, FS_EmptySet
  <2>2. Most \in Nat /\ Cardinality(Sweeper) \in Nat \ {0}
    BY <2>1, OverOffers, OfferConstants
  <2>3. \A n \in Nat \ {0}, m \in Nat : m * n \in Nat /\ m <= m * n
    <3> TAKE n \in Nat \ {0}, m \in Nat
    <3>1. n - 1 \in Nat /\ m * n = m + m * (n - 1) /\ m * (n - 1) \in Nat
      OBVIOUS
    <3> QED BY <3>1
  <2>4. Most <= Most * Cardinality(Sweeper) /\ Most * Cardinality(Sweeper) \in Nat
    BY <2>2, <2>3
  <2>5. Limit' = IF overlapped' THEN Most * Cardinality(Sweeper) ELSE Most
    BY <2>2 DEF Limit, Most
  <2>6. Limit = IF overlapped THEN Most * Cardinality(Sweeper) ELSE Most
    BY <2>2 DEF Limit
  <2>7. overlapped => overlapped'
    BY <1>1
  <2> QED BY <2>2, <2>4, <2>5, <2>6, <2>7
<1>9. Cardinality(Unpicked') + SumFunctionOnSet(Pending, Sweeper) + Pend(z)' - Pend(z) <= Limit'
  BY <1>6, <1>7, <1>8, OfferFigures DEF OffersInv
<1> QED BY <1>1, <1>3, <1>4, <1>5, <1>6, <1>9, OverOffers, SweeperMoves

\* Without overlaps nothing else is planned; otherwise every other sweep plans no more than one may.
LEMMA OthersPlan ==
  ASSUME OffersInv, NEW z \in Sweeper, place[z] = "count"
  PROVE  SumFunctionOnSet(Pending, Sweeper) + Most <= Limit
<1>1. \A y \in Sweeper : Pending[y] = Pend(y) /\ Pend(y) \in Nat /\ Pend(y) <= Most
  BY OfferFigures DEF OffersInv, Planned
<1>2. Pending[z] = 0
  BY <1>1 DEF Pend
<1>3. Most \in Nat /\ Cardinality(Sweeper) \in Nat
  BY OverOffers, OfferConstants
<1>4. CASE ~overlapped
  <2>1. ASSUME NEW y \in Sweeper PROVE Pending[y] = 0
    <3>1. CASE y = z BY <1>2, <3>1
    <3>2. CASE y # z
      <4>1. ~Sweeping(y)
        BY <1>4, <3>2 DEF OffersInv, Apart, Sweeping
      <4>2. CASE place[y] = "send"
        <5>1. task[y].picks \ picked = {} BY <4>1, <4>2 DEF Sweeping
        <5> QED BY <1>1, <4>2, <5>1, FS_EmptySet DEF Pend
      <4>3. CASE place[y] # "send"
        BY <1>1, <4>1, <4>3 DEF Sweeping, Pend
      <4> QED BY <4>2, <4>3
    <3> QED BY <3>1, <3>2
  <2>2. SumFunctionOnSet(Pending, Sweeper) = 0
    BY <2>1, OfferConstants, SumOfZeros
  <2>3. Limit = Most
    BY <1>3, <1>4 DEF Limit
  <2> QED BY <1>3, <2>2, <2>3
<1>5. CASE overlapped
  <2>1. PICK rest \in SUBSET Sweeper : rest = Sweeper \ {z}
    OBVIOUS
  <2>2. IsFiniteSet(rest) /\ Cardinality(rest) \in Nat /\ Cardinality(Sweeper) = Cardinality(rest) + 1
    <3>1. IsFiniteSet(rest) /\ Cardinality(rest) = Cardinality(Sweeper) - 1
      BY <2>1, OfferConstants, FS_RemoveElement, FS_Subset
    <3>2. Cardinality(rest) \in Nat
      BY <3>1, FS_CardinalityType
    <3> QED BY <1>3, <3>1, <3>2
  <2>3. PICK f : f = Pending
    OBVIOUS
  <2>4. \A y \in Sweeper : f[y] \in Int /\ f[y] <= Most
    BY <1>1, <2>3
  <2>5. SumFunctionOnSet(f, rest) <= Most * Cardinality(rest)
    BY <1>3, <2>2, <2>4, SumAtMost
  <2>6. SumFunctionOnSet(f, Sweeper) = f[z] + SumFunctionOnSet(f, rest)
    BY <2>1, <2>4, OfferConstants, SumAny
  <2>7. SumFunctionOnSet(f, rest) \in Int
    BY <2>2, <2>4, SumIsInt
  <2>8. SumFunctionOnSet(Pending, Sweeper) <= Most * Cardinality(rest)
    BY <1>2, <2>3, <2>5, <2>6, <2>7
  <2>9. Limit = Most * Cardinality(rest) + Most
    <3>1. Limit = Most * (Cardinality(rest) + 1)
      BY <1>5, <2>2 DEF Limit
    <3> QED BY <1>3, <2>2, <3>1
  <2>10. Most * Cardinality(rest) \in Nat /\ SumFunctionOnSet(Pending, Sweeper) \in Nat
    BY <1>3, <2>2, OfferFigures DEF OffersInv
  <2> QED BY <1>3, <2>8, <2>9, <2>10
<1> QED BY <1>4, <1>5

\* It wants as many as keep to the limit with those that are out.
LEMMA CountStep ==
  ASSUME OffersInv, NEW z \in Sweeper, O!Count(z)
  PROVE  OffersInv'
<1>1. PICK mine \in [open: Nat, wanted: Nat, picks: SUBSET Promoter] : mine = task[z] /\ mine.open \in 0 .. Slots
  <2>1. task[z] \in [open: Nat, wanted: Nat, picks: SUBSET Promoter] /\ task[z].open \in Nat
    BY OfferFigures DEF OffersInv
  <2>2. task[z].open <= Slots
    BY DEF OffersInv, Planned
  <2>3. task[z].open \in 0 .. Slots
    BY <2>1, <2>2, OfferConstants
  <2> QED BY <2>1, <2>3
<1>2. PICK aim \in Nat : aim = (IF headStart THEN mine.open ELSE O!OverOfferCount(mine.open)) /\ aim <= Most
  BY <1>1, OverOffers
<1>3. PICK out \in Nat : out = O!Cardinality(O!Out) /\ Cardinality(Unpicked) <= out
  BY OfferOperators, OfferFigures DEF OffersInv
<1>4. PICK wanted \in Nat : wanted = O!Greatest(aim - out, 0) /\ (wanted # 0 => wanted + out = aim)
  BY OfferOperators
<1> DEFINE t == [mine EXCEPT !.wanted = wanted]
<1>5. /\ place[z] = "count" /\ UNCHANGED <<live, headStart, holds, offer, standing, picked, changes, overlapped>>
      /\ IF mine.open = 0 \/ wanted = 0 THEN O!Stop(z) ELSE O!Goto(z, "list", t)
  BY <1>1, <1>2, <1>3, <1>4 DEF O!Count, O!campaign, O!frame
<1>6. t \in [open: Nat, wanted: Nat, picks: SUBSET Promoter] /\ t.open <= Slots /\ t.wanted = wanted
  BY <1>1, OfferConstants
<1> HIDE DEF t
<1>7. Unpicked' = Unpicked /\ Pend(z) = 0 /\ Sweeping(z) /\ Limit' = Limit
  BY <1>5 DEF Unpicked, Pend, Sweeping, Limit, Most
<1>8. CASE O!Stop(z)
  <2>1. /\ Moves(z) /\ place'[z] = "idle" /\ Pend(z)' = 0
        /\ place' \in [Sweeper -> {"idle", "count", "list", "send"}]
        /\ task' \in [Sweeper -> [open: Nat, wanted: Nat, picks: SUBSET Promoter]]
    BY <1>8, StopMoves
  <2>2. O!TypeOK' /\ Apart'
    BY <1>5, <1>7, <2>1, ApartStays DEF OffersInv, O!TypeOK, O!Status
  <2>3. Cardinality(Unpicked') + SumFunctionOnSet(Pending, Sweeper) + Pend(z)' - Pend(z) <= Limit'
    BY <1>7, <2>1, OfferFigures DEF OffersInv
  <2> QED BY <1>5, <2>1, <2>2, <2>3, OverOffers, SweeperMoves
<1>9. CASE wanted # 0 /\ O!Goto(z, "list", t)
  <2>1. /\ Moves(z) /\ place'[z] = "list" /\ task'[z] = t
        /\ place' \in [Sweeper -> {"idle", "count", "list", "send"}]
        /\ task' \in [Sweeper -> [open: Nat, wanted: Nat, picks: SUBSET Promoter]]
    BY <1>6, <1>9, GotoMoves
  <2>2. O!TypeOK' /\ Apart'
    BY <1>5, <1>7, <2>1, ApartStays DEF OffersInv, O!TypeOK, O!Status
  <2>3. Pend(z)' = wanted
    BY <1>6, <2>1 DEF Pend
  <2>4. Cardinality(Unpicked) + wanted <= Most /\ wanted <= Most
    BY <1>2, <1>3, <1>4, <1>9, OverOffers, OfferFigures DEF OffersInv
  <2>5. SumFunctionOnSet(Pending, Sweeper) + Most <= Limit
    BY <1>5, OthersPlan
  <2>6. Cardinality(Unpicked') + SumFunctionOnSet(Pending, Sweeper) + Pend(z)' - Pend(z) <= Limit'
    BY <1>7, <2>3, <2>4, <2>5, OverOffers, OfferFigures DEF OffersInv
  <2> QED BY <1>5, <2>1, <2>2, <2>3, <2>4, <2>6, SweeperMoves
<1> QED BY <1>5, <1>8, <1>9

\* The best of the candidates are picked, no more than were wanted.
LEMMA ListStep ==
  ASSUME OffersInv, NEW z \in Sweeper, O!List(z)
  PROVE  OffersInv'
<1>1. PICK mine \in [open: Nat, wanted: Nat, picks: SUBSET Promoter] : mine = task[z] /\ mine.open <= Slots
  BY OfferFigures DEF OffersInv, Planned
<1>2. PICK picks \in SUBSET Promoter : picks = O!Best(O!Candidates, mine.wanted) /\ Cardinality(picks) <= mine.wanted
  <2>1. PICK S \in SUBSET Promoter : S = O!Candidates
    BY DEF O!Candidates, O!Shortlist, O!Qualified
  <2>2. O!Best(S, mine.wanted) = {p \in S : Rank(S, p) < mine.wanted}
    BY OfferOperators DEF O!Best, Rank
  <2>3. S \subseteq Nat /\ IsFiniteSet(S)
    BY OfferConstants
  <2>4. Cardinality({p \in S : Rank(S, p) < mine.wanted}) <= mine.wanted
    BY <2>3, FirstAreFew
  <2> QED BY <2>1, <2>2, <2>4
<1> DEFINE t == [mine EXCEPT !.picks = picks]
<1>3. /\ place[z] = "list" /\ UNCHANGED <<live, headStart, holds, offer, standing, picked, changes, overlapped>>
      /\ IF picks = {} \/ ~live THEN O!Stop(z) ELSE O!Goto(z, "send", t)
  BY <1>1, <1>2 DEF O!List, O!campaign, O!frame
<1>4. t \in [open: Nat, wanted: Nat, picks: SUBSET Promoter] /\ t.open <= Slots /\ t.picks = picks
  BY <1>1
<1> HIDE DEF t
<1>5. Unpicked' = Unpicked /\ Pend(z) = mine.wanted /\ Sweeping(z) /\ Limit' = Limit /\ Pend(z) <= Most
  BY <1>1, <1>3 DEF Unpicked, Pend, Sweeping, Limit, Most, OffersInv, Planned
<1>6. CASE O!Stop(z)
  <2>1. /\ Moves(z) /\ place'[z] = "idle" /\ Pend(z)' = 0
        /\ place' \in [Sweeper -> {"idle", "count", "list", "send"}]
        /\ task' \in [Sweeper -> [open: Nat, wanted: Nat, picks: SUBSET Promoter]]
    BY <1>6, StopMoves
  <2>2. O!TypeOK' /\ Apart'
    BY <1>3, <1>5, <2>1, ApartStays DEF OffersInv, O!TypeOK, O!Status
  <2>3. Cardinality(Unpicked') + SumFunctionOnSet(Pending, Sweeper) + Pend(z)' - Pend(z) <= Limit'
    BY <1>5, <2>1, OfferFigures DEF OffersInv
  <2> QED BY <1>3, <2>1, <2>2, <2>3, OverOffers, SweeperMoves
<1>7. CASE picks # {} /\ O!Goto(z, "send", t)
  <2>1. /\ Moves(z) /\ place'[z] = "send" /\ task'[z] = t
        /\ place' \in [Sweeper -> {"idle", "count", "list", "send"}]
        /\ task' \in [Sweeper -> [open: Nat, wanted: Nat, picks: SUBSET Promoter]]
    BY <1>4, <1>7, GotoMoves
  <2>2. O!TypeOK' /\ Apart'
    BY <1>3, <1>5, <2>1, ApartStays DEF OffersInv, O!TypeOK, O!Status
  <2>3. Pend(z)' = Cardinality(picks \ picked)
    BY <1>3, <1>4, <2>1 DEF Pend
  <2>4. Cardinality(picks \ picked) <= mine.wanted /\ Cardinality(picks \ picked) \in Nat
    <3>1. picks \ picked \in SUBSET picks /\ IsFiniteSet(picks) /\ Cardinality(picks) \in Nat
          /\ Cardinality(picks \ picked) \in Nat
      BY OfferConstants
    <3>2. Cardinality(picks \ picked) <= Cardinality(picks)
      BY <3>1, FS_Subset
    <3> QED BY <1>2, <3>1, <3>2
  <2>5. Cardinality(Unpicked') + SumFunctionOnSet(Pending, Sweeper) + Pend(z)' - Pend(z) <= Limit'
    BY <1>5, <2>3, <2>4, OfferFigures DEF OffersInv
  <2>6. Pend(z)' <= Most
    BY <1>5, <2>3, <2>4, OverOffers
  <2> QED BY <1>3, <2>1, <2>2, <2>5, <2>6, SweeperMoves
<1> QED BY <1>3, <1>6, <1>7

\* What an admin picks counts for no sweep, and neither does what a sweep has of it.
LEMMA ChooseStep ==
  ASSUME OffersInv, NEW z \in Sweeper, NEW picks \in ByHand, O!Choose(z, picks)
  PROVE  OffersInv'
<1> DEFINE t == [O!Nothing EXCEPT !.picks = picks]
<1>1. /\ place[z] = "idle" /\ picks # {} /\ changes < MaxChanges /\ O!Goto(z, "send", t)
      /\ picked' = picked \cup picks /\ changes' = changes + 1
      /\ UNCHANGED <<live, headStart, holds, offer, standing, overlapped>>
  BY DEF O!Choose, O!campaign
<1>2. t \in [open: Nat, wanted: Nat, picks: SUBSET Promoter] /\ t.open <= Slots /\ t.picks = picks
  BY OfferConstants DEF O!Nothing
<1> HIDE DEF t
<1>3. /\ Moves(z) /\ place'[z] = "send" /\ task'[z] = t
      /\ place' \in [Sweeper -> {"idle", "count", "list", "send"}]
      /\ task' \in [Sweeper -> [open: Nat, wanted: Nat, picks: SUBSET Promoter]]
  BY <1>1, <1>2, GotoMoves
<1>4. O!TypeOK'
  <2>1. changes' \in 0 .. MaxChanges /\ picked' \subseteq Promoter
    BY <1>1, OfferConstants DEF OffersInv, O!TypeOK
  <2> QED BY <1>1, <1>3, <2>1 DEF OffersInv, O!TypeOK, O!Status
<1>5. ASSUME NEW y \in Sweeper PROVE /\ Pend(y)' \in Nat /\ Pend(y)' <= Pend(y)
                                     /\ (Sweeping(y)' => Sweeping(y))
                                     /\ task'[y].open <= Slots /\ (place'[y] = "send" => task'[y].picks # {})
  <2>1. CASE y = z
    <3>1. task'[z].picks \ picked' = {} /\ Cardinality(task'[z].picks \ picked') = 0
      <4>1. task'[z].picks \ picked' = {} BY <1>1, <1>2, <1>3
      <4> QED BY <4>1, FS_EmptySet
    <3>2. Pend(z)' = 0 /\ ~Sweeping(z)'
      BY <1>3, <3>1 DEF Pend, Sweeping
    <3>3. Pend(z) \in Nat
      BY OfferFigures DEF OffersInv
    <3>4. Pend(z)' \in Nat /\ Pend(z)' <= Pend(z)
      BY <3>2, <3>3
    <3> QED BY <1>1, <1>2, <1>3, <2>1, <3>2, <3>4
  <2>2. CASE y # z
    <3>1. place'[y] = place[y] /\ task'[y] = task[y]
      BY <1>3, <2>2 DEF Moves
    <3>2. /\ task[y].picks \ picked' \in SUBSET (task[y].picks \ picked)
          /\ IsFiniteSet(task[y].picks \ picked) /\ task[y].wanted \in Nat
          /\ Cardinality(task[y].picks \ picked) \in Nat
      BY <1>1, OfferFigures DEF OffersInv
    <3>3. Cardinality(task[y].picks \ picked') <= Cardinality(task[y].picks \ picked)
          /\ Cardinality(task[y].picks \ picked') \in Nat
      BY <3>2, FS_Subset, FS_CardinalityType
    <3>4. Pend(y)' \in Nat /\ Pend(y)' <= Pend(y)
      BY <3>1, <3>2, <3>3 DEF Pend
    <3> QED BY <1>1, <3>1, <3>4 DEF Sweeping, OffersInv, Planned
  <2> QED BY <2>1, <2>2
<1>6. SumFunctionOnSet(Pending', Sweeper) <= SumFunctionOnSet(Pending, Sweeper)
      /\ SumFunctionOnSet(Pending', Sweeper) \in Nat
  <2>1. PICK f, e : f = Pending' /\ e = Pending
    OBVIOUS
  <2>2. \A y \in Sweeper : f[y] \in Nat /\ e[y] \in Nat /\ f[y] <= e[y]
    BY <1>5, <2>1, OfferFigures DEF OffersInv, Pending
  <2>3. SumFunctionOnSet(f, Sweeper) <= SumFunctionOnSet(e, Sweeper) /\ SumFunctionOnSet(f, Sweeper) \in Nat
    BY <2>2, OfferConstants, SumMonotone, SumIsNat
  <2> QED BY <2>1, <2>3
<1>7. Cardinality(Unpicked') <= Cardinality(Unpicked) /\ Cardinality(Unpicked') \in Nat
  <2>1. Unpicked' \in SUBSET Unpicked /\ IsFiniteSet(Unpicked)
    BY <1>1, OfferFigures DEF Unpicked, OffersInv
  <2> QED BY <2>1, FS_Subset, FS_CardinalityType
<1>8. Limit' = Limit /\ Most' = Most
  BY <1>1 DEF Limit, Most
<1>9. Cardinality(Unpicked') + SumFunctionOnSet(Pending', Sweeper) <= Limit'
  BY <1>6, <1>7, <1>8, OfferFigures DEF OffersInv
<1>10. Planned'
  <2>1. \A y \in Sweeper : Pend(y)' <= Most
    <3> TAKE y \in Sweeper
    <3>1. Pend(y) \in Nat /\ Pend(y) <= Most /\ Most \in Nat
      BY OfferFigures, OverOffers DEF OffersInv, Planned
    <3>2. Pend(y)' \in Nat /\ Pend(y)' <= Pend(y)
      BY <1>5
    <3> QED BY <3>1, <3>2
  <2> QED BY <1>5, <1>8, <2>1 DEF Planned
<1>11. Apart'
  BY <1>1, <1>5 DEF OffersInv, Apart
<1> QED BY <1>4, <1>9, <1>10, <1>11 DEF OffersInv

\* sendOffers() offers to one of the batch: an offer more is out, and one less planned.
LEMMA SendStep ==
  ASSUME OffersInv, NEW z \in Sweeper, O!Send(z)
  PROVE  OffersInv'
<1>1. PICK mine \in [open: Nat, wanted: Nat, picks: SUBSET Promoter] :
           mine = task[z] /\ mine.open <= Slots /\ place[z] = "send" /\ mine.picks # {}
  BY OfferFigures DEF OffersInv, Planned, O!Send
<1>2. PICK p \in mine.picks : p = O!Min(mine.picks)
  <2>1. mine.picks \subseteq Nat
    BY OfferConstants
  <2>2. \E x \in mine.picks : \A y \in mine.picks : x <= y
    BY <1>1, <2>1, SmallestIs
  <2> QED BY <2>2, OfferOperators
<1>3. PICK rest \in SUBSET Promoter : rest = mine.picks \ {p}
  OBVIOUS
<1>4. PICK fails \in BOOLEAN : fails = (standing[p] = "channelless")
  OBVIOUS
<1> DEFINE t == [mine EXCEPT !.picks = rest]
<1>5. /\ UNCHANGED <<live, headStart, holds, standing, picked, changes, overlapped>>
      /\ offer' = IF fails \/ offer[p] # None THEN offer ELSE [offer EXCEPT ![p] = "SENT"]
      /\ IF fails \/ rest = {} THEN O!Stop(z) ELSE O!Goto(z, "send", t)
  BY <1>1, <1>2, <1>3, <1>4 DEF O!Send, O!campaign, O!frame
<1>6. t \in [open: Nat, wanted: Nat, picks: SUBSET Promoter] /\ t.open <= Slots /\ t.picks = rest
  BY <1>1
<1> HIDE DEF t
<1>7. /\ Moves(z) /\ Pend(z)' \in Nat /\ Pend(z)' <= Cardinality(rest \ picked)
      /\ place' \in [Sweeper -> {"idle", "count", "list", "send"}]
      /\ task' \in [Sweeper -> [open: Nat, wanted: Nat, picks: SUBSET Promoter]]
      /\ Sweeping(z)' => ~(rest \subseteq picked)
  <2>1. Cardinality(rest \ picked) \in Nat
    BY OfferConstants
  <2>2. CASE O!Stop(z)
    <3>1. /\ Moves(z) /\ place'[z] = "idle" /\ Pend(z)' = 0
          /\ place' \in [Sweeper -> {"idle", "count", "list", "send"}]
          /\ task' \in [Sweeper -> [open: Nat, wanted: Nat, picks: SUBSET Promoter]]
      BY <2>2, StopMoves
    <3> QED BY <2>1, <3>1 DEF Sweeping
  <2>3. CASE rest # {} /\ O!Goto(z, "send", t)
    <3>1. /\ Moves(z) /\ place'[z] = "send" /\ task'[z] = t
          /\ place' \in [Sweeper -> {"idle", "count", "list", "send"}]
          /\ task' \in [Sweeper -> [open: Nat, wanted: Nat, picks: SUBSET Promoter]]
      BY <1>6, <2>3, GotoMoves
    <3>2. Pend(z)' = Cardinality(rest \ picked)
      BY <1>5, <1>6, <3>1 DEF Pend
    <3> QED BY <1>5, <1>6, <2>1, <3>1, <3>2 DEF Sweeping
  <2> QED BY <1>5, <2>2, <2>3
<1>8. O!TypeOK'
  BY <1>5, <1>7 DEF OffersInv, O!TypeOK, O!Status
<1>9. Pend(z) = Cardinality(mine.picks \ picked) /\ Pend(z) \in Nat /\ Pend(z) <= Most /\ Most \in Nat
      /\ IsFiniteSet(mine.picks \ picked)
  BY <1>1, OfferFigures, OverOffers DEF Pend, OffersInv, Planned
<1>10. Cardinality(Unpicked') + Cardinality(rest \ picked) <= Cardinality(Unpicked) + Pend(z)
       /\ Cardinality(rest \ picked) <= Pend(z) /\ Cardinality(Unpicked') \in Nat
       /\ Cardinality(rest \ picked) \in Nat
  <2>1. /\ rest \ picked \in SUBSET (mine.picks \ picked)
        /\ Cardinality(rest \ picked) \in Nat
    BY <1>3, OfferConstants
  <2>2. Cardinality(rest \ picked) <= Pend(z)
    BY <1>9, <2>1, FS_Subset
  <2>3. Cardinality(Unpicked) \in Nat /\ IsFiniteSet(Unpicked)
    BY OfferFigures DEF OffersInv
  <2>4. CASE fails \/ offer[p] # None \/ p \in picked
    <3>1. Unpicked' = Unpicked
      <4>1. \A q \in Promoter \ {p} : offer'[q] = offer[q]
        BY <1>5 DEF OffersInv, O!TypeOK
      <4>2. p \in picked \/ offer'[p] = offer[p]
        BY <1>5, <2>4
      <4> QED BY <1>5, <4>1, <4>2 DEF Unpicked
    <3> QED BY <1>9, <2>1, <2>2, <2>3, <3>1
  <2>5. CASE ~fails /\ offer[p] = None /\ p \notin picked
    <3>1. offer' = [offer EXCEPT ![p] = "SENT"] /\ None # "SENT" /\ offer \in [Promoter -> O!Status]
      BY <1>5, <2>5, OffersAssumption DEF O!OffersAssumption, OffersInv, O!TypeOK
    <3>2. Unpicked' = Unpicked \cup {p} /\ p \notin Unpicked
      BY <1>5, <2>5, <3>1 DEF Unpicked
    <3>3. Cardinality(Unpicked') = Cardinality(Unpicked) + 1
      BY <2>3, <3>2, FS_AddElement
    <3>4. rest \ picked = (mine.picks \ picked) \ {p} /\ p \in mine.picks \ picked
      BY <1>3, <2>5
    <3>5. Cardinality(rest \ picked) = Pend(z) - 1
      <4>1. PICK S : S = mine.picks \ picked
        OBVIOUS
      <4>2. IsFiniteSet(S) /\ p \in S /\ rest \ picked = S \ {p}
        BY <1>9, <3>4, <4>1
      <4>3. Cardinality(S \ {p}) = Cardinality(S) - 1
        BY <4>2, FS_RemoveElement
      <4> QED BY <1>9, <4>1, <4>2, <4>3
    <3> QED BY <1>9, <2>1, <2>2, <2>3, <3>3, <3>5
  <2> QED BY <2>4, <2>5
<1>11. Cardinality(Unpicked') + SumFunctionOnSet(Pending, Sweeper) + Pend(z)' - Pend(z) <= Limit'
  <2>1. Limit' = Limit /\ Limit \in Nat
    BY <1>5, OfferFigures DEF Limit, Most, OffersInv
  <2>2. PICK s \in Nat : s = SumFunctionOnSet(Pending, Sweeper)
    BY OfferFigures DEF OffersInv
  <2>3. Cardinality(Unpicked) + s <= Limit /\ Cardinality(Unpicked) \in Nat
    BY <2>2, OfferFigures DEF OffersInv
  <2>4. Cardinality(Unpicked') + Pend(z)' <= Cardinality(Unpicked) + Pend(z)
    BY <1>7, <1>9, <1>10, <2>3
  <2> QED BY <1>7, <1>9, <1>10, <2>1, <2>2, <2>3, <2>4
<1>12. Pend(z)' <= Most
  BY <1>7, <1>9, <1>10
<1>13. Apart'
  <2>1. ~(rest \subseteq picked) => Sweeping(z)
    BY <1>1, <1>3 DEF Sweeping
  <2> QED BY <1>5, <1>7, <2>1, ApartStays
<1> QED BY <1>5, <1>7, <1>8, <1>11, <1>12, <1>13, SweeperMoves

\* The answers of promoters and what changes meanwhile.
LEMMA MeanwhileStep ==
  ASSUME OffersInv,
         \/ \E p \in Promoter : \/ O!Accept(p) \/ O!Decline(p) \/ O!Lapse(p) \/ O!Release(p)
                                \/ \E s \in {"fit", "unfit", "channelless"} : O!Change(p, s)
         \/ O!Expire \/ O!HeadStartEnds \/ O!Close
  PROVE  OffersInv'
<1>0. O!TypeOK /\ MaxChanges \in Nat
  BY OfferConstants DEF OffersInv
<1>1. ASSUME NEW p \in Promoter, NEW to \in {"ACCEPTED", "DECLINED", "LAPSED"}, offer' = [offer EXCEPT ![p] = to],
             holds' \subseteq Promoter,
             UNCHANGED <<live, headStart, standing, place, task, overlapped, picked, changes>>
      PROVE  OffersInv'
  <2>1. O!TypeOK'
    BY <1>0, <1>1 DEF O!TypeOK, O!Status
  <2>2. Unpicked' \subseteq Unpicked
    BY <1>0, <1>1 DEF Unpicked, O!TypeOK
  <2> QED BY <1>1, <2>1, <2>2, AroundSweeps
<1>2. ASSUME NEW p \in Promoter, O!Accept(p) \/ O!Decline(p) \/ O!Lapse(p) PROVE OffersInv'
  BY <1>0, <1>1, <1>2 DEF O!Accept, O!Decline, O!Lapse, O!campaign, O!frame, O!TypeOK
<1>3. ASSUME UNCHANGED <<offer, place, task, overlapped, picked>>, O!TypeOK' PROVE OffersInv'
  BY <1>3, AroundSweeps DEF Unpicked
<1>4. ASSUME NEW p \in Promoter, O!Release(p) \/ \E s \in {"fit", "unfit", "channelless"} : O!Change(p, s)
      PROVE  OffersInv'
  <2>1. changes \in 0 .. MaxChanges /\ changes < MaxChanges => changes + 1 \in 0 .. MaxChanges
    BY <1>0
  <2>2. O!TypeOK'
    BY <1>0, <1>4, <2>1 DEF O!Release, O!Change, O!TypeOK, O!campaign, O!Status
  <2> QED BY <1>3, <1>4, <2>2 DEF O!Release, O!Change, O!campaign
<1>5. ASSUME O!Expire PROVE OffersInv'
  <2>1. O!TypeOK'
    BY <1>0, <1>5 DEF O!Expire, O!TypeOK, O!campaign, O!frame, O!Status
  <2>2. Unpicked' \subseteq Unpicked
    BY <1>0, <1>5 DEF O!Expire, Unpicked, O!frame, O!TypeOK
  <2> QED BY <1>5, <2>1, <2>2, AroundSweeps DEF O!Expire, O!frame
<1>6. ASSUME O!HeadStartEnds \/ O!Close PROVE OffersInv'
  BY <1>0, <1>3, <1>6 DEF O!HeadStartEnds, O!Close, O!TypeOK, O!frame, O!Status
<1> QED BY <1>2, <1>4, <1>5, <1>6

LEMMA OffersInductive == OffersInv /\ [O!Next]_offerVars => OffersInv'
<1> SUFFICES ASSUME OffersInv, [O!Next]_offerVars PROVE OffersInv' OBVIOUS
<1>1. CASE UNCHANGED offerVars
  <2>1. O!TypeOK'
    BY <1>1 DEF OffersInv, offerVars, O!TypeOK, O!Status
  <2> QED BY <1>1, <2>1, AroundSweeps DEF offerVars, Unpicked
<1>2. CASE O!Next
  BY <1>2, LookStep, CountStep, ListStep, SendStep, ChooseStep, MeanwhileStep DEF O!Next, O!Sweep
<1> QED BY <1>1, <1>2

\* allocateCampaign(), sendOffers(): sweeps that overlap each other, the answers of
\* promoters and whatever changes who qualifies go on as planned.
THEOREM OffersInvariant == O!Spec => []OffersInv
<1>1. OffersInv /\ [O!Next]_O!vars => OffersInv'
  BY OffersInductive DEF O!vars, offerVars
<1> QED BY <1>1, OffersInitially, PTL DEF O!Spec

\* The offers that are out, those an admin picked left aside, are never more than half as
\* many again as the campaign has slots, or that for each process if their sweeps overlap,
\* for any number of promoters, slots and processes.
THEOREM OffersAlwaysBounded == AllSpec => []OffersBounded
<1>1. AllInit => OffersInv
  BY OffersInitially DEF AllInit
<1>2. OffersInv /\ [AllNext]_allVars => OffersInv'
  <2> SUFFICES ASSUME OffersInv, [AllNext]_allVars PROVE OffersInv' OBVIOUS
  <2>1. [O!Next]_offerVars
    BY DEF AllNext, allVars
  <2> QED BY <2>1, OffersInductive
<1>3. OffersInv => OffersBounded
  BY OffersBoundedByPlan DEF OffersBounded
<1> QED BY <1>1, <1>2, <1>3, PTL DEF AllSpec

-------------------------------------------------------------------------------
(* The rates (Rates) *)

Taker == Proven \cup {1}   \* who may hold an offer

\* The part of a price that views of a promised reach earn.
Part(value, views, promised) == DivRound(value * Least(views, promised), promised)
FeeUnder(c, amount) == DivRound(amount * (100 - c.take), 100)

\* A quote prices its posts within its price, and has one at least.
QuoteFits ==
  /\ quoted.unit * quoted.slots <= quoted.price
  /\ quoted.status # "DRAFT" => quoted.slots > 0

\* Nothing is quoted any more once offers are out, and none is out before.
PhaseFits ==
  /\ quoted.status = "LIVE" => quoting = None
  /\ quoted.status # "LIVE" => batch = None /\ \A p \in Taker : promise[p] = None

\* An offer has the fee of its card for the price of a post; what was paid is the fee, of
\* the card at that moment, for what was delivered, which is above its floor.
PromisesFit ==
  \A p \in Taker : promise[p] # None =>
    /\ promise[p].gross = quoted.unit /\ promise[p].under.reach = promise[p].promised
    /\ promise[p].fee = FeeUnder(promise[p].under, quoted.unit)
PaymentsFit ==
  \A p \in Taker : payout[p] # None =>
    LET o == promise[p]  y == payout[p]  g == Part(quoted.unit, y.views, o.promised) IN
    /\ y.fee = FeeUnder(y.under, g) /\ y.take = g - y.fee
    /\ y.views * 100 >= y.under.threshold * o.promised

SlotsFit == Cardinality(assigned) <= quoted.slots
MoneyFits == quoted.status = "LIVE" => held + R!Outgoing = quoted.price

RatesInv == R!TypeOK /\ QuoteFits /\ PhaseFits /\ PromisesFit /\ PaymentsFit /\ SlotsFit /\ MoneyFits

\* The operators of other modules, as Rates has them.
LEMMA RateOperators ==
  /\ \A S : R!IsFiniteSet(S) <=> IsFiniteSet(S)
  /\ \A S : R!Cardinality(S) = Cardinality(S)
  /\ \A f, S : R!SumFunctionOnSet(f, S) = SumFunctionOnSet(f, S)
<1>1. \A S : R!IsFiniteSet(S) <=> IsFiniteSet(S) BY DEF R!IsFiniteSet, IsFiniteSet
<1>2. \A S : R!Cardinality(S) = Cardinality(S) BY DEF R!Cardinality, Cardinality
<1>3. \A f, S : R!SumFunctionOnSet(f, S) = SumFunctionOnSet(f, S)
  BY Zenon DEF R!SumFunctionOnSet, SumFunctionOnSet, R!FoldFunctionOnSet, FoldFunctionOnSet,
               R!MapThenFoldSet, MapThenFoldSet
<1> QED BY <1>1, <1>2, <1>3

LEMMA RateConstants ==
  /\ IsFiniteSet(Taker) /\ \A S \in SUBSET Taker : IsFiniteSet(S) /\ Cardinality(S) \in Nat
  /\ \A c \in R!Card : /\ c.rpm \in Nat \ {0} /\ c.take \in Nat /\ c.take <= 90
                       /\ c.threshold \in Nat \ {0} /\ c.threshold <= 100
                       /\ c.reach \in Reaches /\ c.reach \in Nat \ {0}
  /\ Reaches \subseteq Nat \ {0} /\ Asked \subseteq Nat \ {0} /\ Typed \subseteq Nat \ {0}
  /\ Reported \subseteq Nat /\ MaxUpdates \in Nat
  /\ None \notin R!Card /\ None \notin R!Promise /\ None \notin R!Payment
  /\ None \notin R!Batch /\ None \notin Reaches
<1>1. /\ Rpms \subseteq Nat \ {0} /\ Takes \subseteq 0 .. 90 /\ Thresholds \subseteq 1 .. 100
      /\ Reaches \subseteq Nat \ {0} /\ Asked \subseteq Nat \ {0} /\ Typed \subseteq Nat \ {0}
      /\ Reported \subseteq Nat /\ MaxUpdates \in Nat /\ R!IsFiniteSet(Taker)
      /\ None \notin R!Card \cup R!Promise \cup R!Payment \cup R!Batch \cup Reaches
  BY RatesAssumption DEF R!RatesAssumption, Taker
<1>2. IsFiniteSet(Taker)
  BY <1>1, RateOperators
<1>3. \A S \in SUBSET Taker : IsFiniteSet(S) /\ Cardinality(S) \in Nat
  BY <1>2, FS_Subset, FS_CardinalityType
<1>4. ASSUME NEW c \in R!Card
      PROVE  /\ c.rpm \in Nat \ {0} /\ c.take \in Nat /\ c.take <= 90
             /\ c.threshold \in Nat \ {0} /\ c.threshold <= 100
             /\ c.reach \in Reaches /\ c.reach \in Nat \ {0}
  <2>1. c.rpm \in Rpms /\ c.take \in Takes /\ c.threshold \in Thresholds /\ c.reach \in Reaches
    BY DEF R!Card
  <2>2. c.take \in 0 .. 90 /\ c.threshold \in 1 .. 100 /\ c.rpm \in Nat \ {0} /\ c.reach \in Nat \ {0}
    BY <1>1, <2>1
  <2> QED BY <2>1, <2>2
<1> QED BY <1>1, <1>2, <1>3, <1>4

\* What the arithmetic comes to under a card.
LEMMA CardArithmetic ==
  ASSUME NEW c \in R!Card
  PROVE  /\ \A a \in Nat : /\ R!At(c)!PromoterFee(a) = FeeUnder(c, a)
                           /\ R!At(c)!RaliaTake(a) = a - FeeUnder(c, a)
                           /\ FeeUnder(c, a) \in Nat /\ FeeUnder(c, a) <= a
         /\ \A a, v, q \in Nat : R!At(c)!DeliveredGross(a, v, q) = Part(a, v, q)
         /\ \A v, q \in Nat : R!At(c)!MeetsThreshold(v, q) <=> v * 100 >= c.threshold * q
         /\ \A t \in Nat, n \in Nat : R!At(c)!UnitPrice(t, n) = t \div n
         /\ \A t, r \in Nat : R!At(c)!SlotsForPrice(t, 0, r) \in Nat \ {0}
         /\ \A r \in Nat : R!At(c)!SlotPrice(r, 0) \in Nat
<1>1. c.rpm \in Nat \ {0} /\ c.take \in Nat /\ 100 - c.take \in Nat /\ 100 - c.take <= 100
  BY RateConstants
<1>2. ASSUME NEW a \in Nat
      PROVE  /\ R!At(c)!PromoterFee(a) = FeeUnder(c, a)
             /\ R!At(c)!RaliaTake(a) = a - FeeUnder(c, a)
             /\ FeeUnder(c, a) \in Nat /\ FeeUnder(c, a) <= a
  <2>1. R!At(c)!PromoterFee(a) = FeeUnder(c, a)
    BY DEF R!At!PromoterFee, R!At!DivRound, FeeUnder, DivRound
  <2>2. R!At(c)!RaliaTake(a) = a - FeeUnder(c, a)
    BY <2>1 DEF R!At!RaliaTake
  <2>3. FeeUnder(c, a) \in Nat /\ FeeUnder(c, a) <= a
    <3>1. PICK m \in Nat : m = 100 - c.take /\ m <= 100
      BY <1>1
    <3>2. PICK d \in Nat \ {0} : d = 100
      OBVIOUS
    <3>3. m <= d
      BY <3>1, <3>2
    <3>4. DivRound(a * m, d) \in Nat /\ DivRound(a * m, d) <= a
      BY <3>3, RoundedPart
    <3> QED BY <3>1, <3>2, <3>4 DEF FeeUnder
  <2> QED BY <2>1, <2>2, <2>3
<1>3. \A a, v, q \in Nat : R!At(c)!DeliveredGross(a, v, q) = Part(a, v, q)
  BY DEF R!At!DeliveredGross, R!At!DivRound, R!At!Least, Part, DivRound, Least
<1>4. \A v, q \in Nat : R!At(c)!MeetsThreshold(v, q) <=> v * 100 >= c.threshold * q
  BY DEF R!At!MeetsThreshold
<1>5. \A t \in Nat, n \in Nat : R!At(c)!UnitPrice(t, n) = t \div n
  BY DEF R!At!UnitPrice
<1>6. \A n \in Nat, d \in Nat \ {0} : R!At(c)!DivRound(n, d) \in Nat
  <2> SUFFICES ASSUME NEW n \in Nat, NEW d \in Nat \ {0} PROVE R!At(c)!DivRound(n, d) \in Nat
    OBVIOUS
  <2>1. n + d \div 2 \in Nat
    OBVIOUS
  <2> QED BY <2>1, Quotient DEF R!At!DivRound
<1>7. R!At(c)!TargetingMult(0) = 1
  BY DEF R!At!TargetingMult, R!At!Least
<1>8. ASSUME NEW t \in Nat, NEW r \in Nat PROVE R!At(c)!SlotsForPrice(t, 0, r) \in Nat \ {0}
  <2>1. R!At(c)!TargetReach(t, 0) \in Nat
    <3>1. t * 10 \in Nat /\ c.rpm * 1 * 1 \in Nat \ {0}
      BY <1>1
    <3> QED BY <1>6, <1>7, <3>1 DEF R!At!TargetReach
  <2>2. R!At(c)!Greatest(1, r) \in Nat \ {0}
    BY DEF R!At!Greatest
  <2>3. PICK b \in Nat \ {0} : b = R!At(c)!Greatest(1, r)
    BY <2>2
  <2>4. PICK x \in Nat : x = R!At(c)!TargetReach(t, 0)
    BY <2>1
  <2>5. 2 * x + b \in Nat /\ 2 * b \in Nat \ {0}
    OBVIOUS
  <2>6. (2 * x + b) \div (2 * b) \in Nat
    BY <2>5, Quotient
  <2>7. R!At(c)!SlotsForPrice(t, 0, r) = R!At(c)!Greatest(1, (2 * x + b) \div (2 * b))
    BY <2>3, <2>4 DEF R!At!SlotsForPrice
  <2> QED BY <2>6, <2>7 DEF R!At!Greatest
<1>9. ASSUME NEW r \in Nat PROVE R!At(c)!SlotPrice(r, 0) \in Nat
  <2>1. r * c.rpm * 1 * 1 \in Nat
    BY <1>1
  <2> QED BY <1>6, <1>7, <2>1 DEF R!At!SlotPrice
<1> QED BY <1>2, <1>3, <1>4, <1>5, <1>8, <1>9

\* A part of a price is a number of kobo, the price at most, and all of it for the promise.
LEMMA PartFits ==
  ASSUME NEW a \in Nat, NEW v \in Nat, NEW q \in Nat \ {0}
  PROVE  /\ Part(a, v, q) \in Nat /\ Part(a, v, q) <= a
         /\ v >= q => Part(a, v, q) = a
<1>1. Least(v, q) \in Nat /\ Least(v, q) <= q
  BY DEF Least
<1>2. Part(a, v, q) \in Nat /\ Part(a, v, q) <= a
  BY <1>1, RoundedPart DEF Part
<1>3. ASSUME v >= q PROVE Part(a, v, q) = a
  <2>1. Least(v, q) = q
    BY <1>3 DEF Least
  <2>2. q \div 2 \in Nat /\ q \div 2 < q
    OBVIOUS
  <2>3. PICK h \in Nat : h = q \div 2 /\ h < q
    BY <2>2
  <2>4. PICK x \in Nat : x = a * q
    OBVIOUS
  <2>5. PICK r \in Nat : r = (x + h) \div q /\ q * r <= x + h /\ x + h < q * r + q
    <3>1. x + h \in Nat
      OBVIOUS
    <3> QED BY <3>1, Quotient
  <2>6. r = a
    <3>1. q * a = x
      BY <2>4
    <3>2. SUFFICES ASSUME r # a PROVE FALSE
      OBVIOUS
    <3>3. CASE r >= a + 1
      <4>1. q * r >= q * (a + 1) /\ q * (a + 1) = q * a + q
        BY <3>3
      <4> QED BY <2>3, <2>5, <3>1, <4>1
    <3>4. CASE r <= a - 1
      <4>1. q * r <= q * (a - 1) /\ q * (a - 1) = q * a - q
        BY <3>4
      <4> QED BY <2>3, <2>5, <3>1, <4>1
    <3> QED BY <3>2, <3>3, <3>4
  <2> QED BY <2>1, <2>3, <2>4, <2>5, <2>6 DEF Part, DivRound
<1> QED BY <1>2, <1>3

\* Of a typed state: what an offer and a payment hold, and who has them.
LEMMA RateTypes ==
  ASSUME R!TypeOK
  PROVE  /\ card \in R!Card /\ held \in Nat
         /\ quoted.price \in Nat /\ quoted.unit \in Nat /\ quoted.slots \in Nat /\ quoted.goal \in Nat
         /\ \A p \in Taker : promise[p] # None =>
              /\ promise[p] \in R!Promise /\ promise[p].under \in R!Card
              /\ promise[p].promised \in Reaches /\ promise[p].promised \in Nat \ {0}
              /\ promise[p].fee \in Nat /\ promise[p].gross \in Nat
         /\ \A p \in Taker : payout[p] # None =>
              /\ payout[p] \in R!Payment /\ payout[p].under \in R!Card /\ payout[p].views \in Nat
              /\ payout[p].fee \in Nat /\ payout[p].take \in Nat
              /\ p \in assigned /\ promise[p] # None
         /\ assigned \in SUBSET Taker /\ R!Settled \in SUBSET assigned
         /\ IsFiniteSet(R!Settled) /\ Cardinality(R!Settled) \in Nat
         /\ IsFiniteSet(assigned) /\ Cardinality(assigned) \in Nat
         /\ Cardinality(R!Settled) <= Cardinality(assigned)
         /\ \A p \in Taker : p \in R!Settled <=> payout[p] # None
<1>1. /\ promise \in [Taker -> R!Promise \cup {None}] /\ payout \in [Taker -> R!Payment \cup {None}]
      /\ assigned \subseteq {p \in Taker : promise[p] # None}
      /\ {p \in Taker : payout[p] # None} \subseteq assigned
  BY DEF R!TypeOK, Taker
<1>2. R!Settled = {p \in Taker : payout[p] # None}
  BY DEF R!Settled, Taker
<1>3. assigned \in SUBSET Taker /\ R!Settled \in SUBSET assigned
  BY <1>1, <1>2
<1>4. /\ IsFiniteSet(R!Settled) /\ Cardinality(R!Settled) \in Nat
      /\ IsFiniteSet(assigned) /\ Cardinality(assigned) \in Nat
      /\ Cardinality(R!Settled) <= Cardinality(assigned)
  BY <1>3, RateConstants, FS_Subset
<1>5. ASSUME NEW p \in Taker, promise[p] # None
      PROVE  /\ promise[p] \in R!Promise /\ promise[p].under \in R!Card
             /\ promise[p].promised \in Reaches /\ promise[p].promised \in Nat \ {0}
             /\ promise[p].fee \in Nat /\ promise[p].gross \in Nat
  <2>1. promise[p] \in R!Promise
    BY <1>1, <1>5
  <2>2. /\ promise[p].under \in R!Card /\ promise[p].promised \in Reaches
        /\ promise[p].fee \in Nat /\ promise[p].gross \in Nat
    BY <2>1 DEF R!Promise
  <2> QED BY <2>1, <2>2, RateConstants
<1>6. ASSUME NEW p \in Taker, payout[p] # None
      PROVE  /\ payout[p] \in R!Payment /\ payout[p].under \in R!Card /\ payout[p].views \in Nat
             /\ payout[p].fee \in Nat /\ payout[p].take \in Nat
             /\ p \in assigned /\ promise[p] # None
  <2>1. payout[p] \in R!Payment /\ p \in assigned /\ promise[p] # None
    BY <1>1, <1>6
  <2>2. /\ payout[p].under \in R!Card /\ payout[p].views \in Reported
        /\ payout[p].fee \in Nat /\ payout[p].take \in Nat
    BY <2>1 DEF R!Payment
  <2> QED BY <2>1, <2>2, RateConstants
<1>7. card \in R!Card /\ held \in Nat
  BY DEF R!TypeOK
<1>8. quoted.price \in Nat /\ quoted.unit \in Nat /\ quoted.slots \in Nat /\ quoted.goal \in Nat
  BY DEF R!TypeOK
<1> QED BY <1>2, <1>3, <1>4, <1>5, <1>6, <1>7, <1>8

\* What was paid for a post is its part of the price, and all that was paid no more than
\* the price of the posts settled.
Spent == [p \in R!Settled |-> payout[p].fee + payout[p].take]

LEMMA SpentFits ==
  ASSUME RatesInv
  PROVE  /\ R!Outgoing = SumFunctionOnSet(Spent, R!Settled)
         /\ \A p \in R!Settled : Spent[p] \in Nat /\ Spent[p] <= quoted.unit
         /\ R!Outgoing \in Nat /\ R!Outgoing <= quoted.unit * Cardinality(R!Settled)
<1>0. R!TypeOK /\ PromisesFit /\ PaymentsFit
  BY DEF RatesInv
<1>1. R!Outgoing = SumFunctionOnSet(Spent, R!Settled)
  BY RateOperators DEF R!Outgoing, Spent
<1>2. ASSUME NEW p \in R!Settled PROVE Spent[p] \in Nat /\ Spent[p] <= quoted.unit
  <2>1. p \in Taker /\ payout[p] # None /\ promise[p] # None
    BY <1>0, RateTypes
  <2>2. PICK g : g = Part(quoted.unit, payout[p].views, promise[p].promised)
    OBVIOUS
  <2>3. /\ payout[p].fee = FeeUnder(payout[p].under, g) /\ payout[p].take = g - payout[p].fee
    BY <1>0, <2>1, <2>2 DEF PaymentsFit
  <2>4. g \in Nat /\ g <= quoted.unit
    BY <1>0, <2>1, <2>2, RateTypes, PartFits
  <2>5. payout[p].fee \in Nat
    BY <1>0, <2>1, RateTypes
  <2>6. Spent[p] = g
    BY <2>3, <2>4, <2>5 DEF Spent
  <2> QED BY <2>4, <2>6
<1>3. IsFiniteSet(R!Settled) /\ quoted.unit \in Nat
  BY <1>0, RateTypes
<1>4. SumFunctionOnSet(Spent, R!Settled) \in Nat
  BY <1>2, <1>3, SumIsNat
<1>5. \A p \in R!Settled : Spent[p] \in Int /\ Spent[p] <= quoted.unit
  BY <1>2
<1>6. SumFunctionOnSet(Spent, R!Settled) <= quoted.unit * Cardinality(R!Settled)
  BY <1>3, <1>5, SumAtMost
<1> QED BY <1>1, <1>2, <1>4, <1>6

-------------------------------------------------------------------------------
(* What the invariant says *)

LEMMA EscrowFollows == RatesInv => R!EscrowOutlivesRates
<1> SUFFICES ASSUME RatesInv, quoted.status = "LIVE"
             PROVE  /\ held + R!Outgoing = quoted.price
                    /\ held >= quoted.unit * (quoted.slots - R!Cardinality(R!Settled))
  BY DEF R!EscrowOutlivesRates
<1>1. R!TypeOK /\ held + R!Outgoing = quoted.price /\ quoted.unit * quoted.slots <= quoted.price
  BY DEF RatesInv, MoneyFits, QuoteFits
<1>2. PICK n \in Nat : n = Cardinality(R!Settled) /\ R!Cardinality(R!Settled) = n
  BY <1>1, RateTypes, RateOperators
<1>3. PICK o \in Nat : o = R!Outgoing /\ o <= quoted.unit * n
  BY <1>2, SpentFits
<1>4. PICK u \in Nat : u = quoted.unit
  BY <1>1, RateTypes
<1>5. PICK s \in Nat : s = quoted.slots
  BY <1>1, RateTypes
<1>6. u * (s - n) = u * s - u * n
  OBVIOUS
<1>7. quoted.price \in Nat /\ held \in Nat
  BY <1>1, RateTypes
<1>8. PICK x \in Nat : x = u * s
  OBVIOUS
<1>9. PICK y \in Nat : y = u * n
  OBVIOUS
<1>10. held >= x - y
  BY <1>1, <1>3, <1>4, <1>5, <1>7, <1>8, <1>9
<1> QED BY <1>1, <1>2, <1>4, <1>5, <1>6, <1>8, <1>9, <1>10

\* A fee never falls as its amount rises.
LEMMA FeesAscend ==
  ASSUME NEW c \in R!Card, NEW a \in Nat, NEW b \in Nat, a <= b
  PROVE  FeeUnder(c, a) <= FeeUnder(c, b)
<1>1. PICK k \in Nat : k = 100 - c.take
  BY RateConstants
<1>2. PICK x \in Nat : x = a * k
  OBVIOUS
<1>3. PICK y \in Nat : y = b * k
  OBVIOUS
<1>4. x <= y
  BY <1>2, <1>3
<1>5. (x + 50) \div 100 <= (y + 50) \div 100
  BY <1>4
<1> QED BY <1>1, <1>2, <1>3, <1>5 DEF FeeUnder, DivRound

\* The fee of what a delivery above the floor earns is that share of the whole fee, but
\* for a kobo.
LEMMA FloorFee ==
  ASSUME NEW c \in R!Card, NEW a \in Nat, NEW v \in Nat, NEW q \in Nat \ {0},
         v * 100 >= c.threshold * q
  PROVE  (2 * FeeUnder(c, a) * c.threshold + 100) \div 200 - 1 <= FeeUnder(c, Part(a, v, q))
<1>1. PICK t \in Nat : t = c.threshold /\ t <= 100
  BY RateConstants
<1>2. PICK k \in Nat : k = 100 - c.take /\ k <= 100
  BY RateConstants
<1>3. PICK m \in Nat : m = Least(v, q) /\ m * 100 >= t * q
  <2>1. Least(v, q) \in Nat
    BY DEF Least
  <2>2. q * 100 >= t * q
    BY <1>1
  <2> QED BY <1>1, <2>1, <2>2 DEF Least
<1>4. PICK d \in Nat : d = Part(a, v, q)
  BY PartFits
<1>5. 100 * d >= a * t - 49
  <2>1. PICK h \in Nat : h = q \div 2 /\ 2 * h >= q - 1
    <3>1. q \div 2 \in Nat /\ 2 * (q \div 2) >= q - 1
      OBVIOUS
    <3> QED BY <3>1
  <2>2. PICK x \in Nat : x = a * m
    OBVIOUS
  <2>3. d = (x + h) \div q
    BY <1>3, <1>4, <2>1, <2>2 DEF Part, DivRound
  <2>4. x + h < q * d + q
    BY <2>3, Quotient
  <2>5. PICK y \in Nat : y = q * d
    OBVIOUS
  <2>6. 100 * x >= a * (t * q)
    <3>1. 100 * x = a * (m * 100)
      BY <2>2
    <3>2. PICK w \in Nat : w = m * 100
      OBVIOUS
    <3>3. PICK z \in Nat : z = t * q
      OBVIOUS
    <3>4. a * w >= a * z
      BY <1>3, <3>2, <3>3
    <3> QED BY <3>1, <3>2, <3>3, <3>4
  <2>7. a * (t * q) = (a * t) * q
    OBVIOUS
  <2>8. PICK b \in Nat : b = a * t
    OBVIOUS
  <2>9. 100 * x >= b * q
    BY <2>6, <2>7, <2>8
  <2>10. 200 * y > 2 * (b * q) - 100 * q
    <3>1. PICK z \in Nat : z = b * q
      OBVIOUS
    <3>2. x + h < y + q /\ 100 * x >= z
      BY <2>4, <2>5, <2>9, <3>1
    <3> QED BY <2>1, <3>1, <3>2
  <2>11. SUFFICES ASSUME 100 * d <= b - 50 PROVE FALSE
    BY <2>8
  <2>12. q * (100 * d) <= q * (b - 50)
    BY <2>11
  <2>13. q * (100 * d) = 100 * y /\ q * (b - 50) = b * q - 50 * q
    BY <2>5
  <2>14. PICK z \in Nat : z = b * q
    OBVIOUS
  <2> QED BY <2>10, <2>12, <2>13, <2>14
<1>6. PICK f \in Nat : f = FeeUnder(c, d) /\ 100 * f >= d * k - 49
  <2>1. PICK x \in Nat : x = d * k
    OBVIOUS
  <2>2. (x + 50) \div 100 \in Nat /\ 100 * ((x + 50) \div 100) >= x - 49
    OBVIOUS
  <2> QED BY <1>2, <2>1, <2>2 DEF FeeUnder, DivRound
<1>7. PICK e \in Nat : e = FeeUnder(c, a) /\ 100 * e <= a * k + 50
  <2>1. PICK x \in Nat : x = a * k
    OBVIOUS
  <2>2. (x + 50) \div 100 \in Nat /\ 100 * ((x + 50) \div 100) <= x + 50
    OBVIOUS
  <2> QED BY <1>2, <2>1, <2>2 DEF FeeUnder, DivRound
<1>8. PICK l \in Nat : l = (2 * e * t + 100) \div 200 /\ 100 * l <= e * t + 50
  <2>1. PICK x \in Nat : x = e * t
    OBVIOUS
  <2>2. (2 * x + 100) \div 200 \in Nat /\ 200 * ((2 * x + 100) \div 200) <= 2 * x + 100
    OBVIOUS
  <2>3. 2 * e * t = 2 * x
    BY <2>1
  <2> QED BY <2>1, <2>2, <2>3
<1>9. PICK g \in Nat : g = (a * t) * k
  OBVIOUS
<1>10. 10000 * l <= g + 10000
  <2>1. (100 * e) * t <= (a * k + 50) * t
    BY <1>7
  <2>2. (a * k + 50) * t = g + 50 * t /\ (100 * e) * t = 100 * (e * t)
    BY <1>9
  <2>3. PICK x \in Nat : x = e * t
    OBVIOUS
  <2> QED BY <1>1, <1>8, <2>1, <2>2, <2>3
<1>11. 10000 * f >= g - 9800
  <2>1. (100 * d) * k >= (a * t - 49) * k
    BY <1>5
  <2>2. (a * t - 49) * k = g - 49 * k /\ (100 * d) * k = 100 * (d * k)
    BY <1>9
  <2>3. PICK x \in Nat : x = d * k
    OBVIOUS
  <2> QED BY <1>2, <1>6, <2>1, <2>2, <2>3
<1>12. l - 1 <= f
  BY <1>10, <1>11
<1> QED BY <1>1, <1>4, <1>6, <1>7, <1>8, <1>12

LEMMA RangeFollows == RatesInv => R!PaidAsOffered
<1> SUFFICES ASSUME RatesInv, NEW p \in R!Settled, payout[p].under = promise[p].under
             PROVE  LET o == promise[p]
                        lowest == (2 * o.fee * o.under.threshold + 100) \div 200
                    IN  /\ payout[p].fee \in lowest - 1 .. o.fee
                        /\ payout[p].views >= o.promised => payout[p].fee = o.fee
  BY DEF R!PaidAsOffered
<1>1. R!TypeOK /\ PromisesFit /\ PaymentsFit
  BY DEF RatesInv
<1>2. p \in Taker /\ payout[p] # None /\ promise[p] # None
  BY <1>1, RateTypes
<1>3. PICK c \in R!Card : c = promise[p].under
  BY <1>1, <1>2, RateTypes
<1>4. PICK q \in Nat \ {0} : q = promise[p].promised
  BY <1>1, <1>2, RateTypes
<1>5. PICK v \in Nat : v = payout[p].views
  BY <1>1, <1>2, RateTypes
<1>6. PICK a \in Nat : a = quoted.unit
  BY <1>1, RateTypes
<1>7. /\ promise[p].fee = FeeUnder(c, a)
      /\ payout[p].fee = FeeUnder(c, Part(a, v, q)) /\ v * 100 >= c.threshold * q
  BY <1>1, <1>2, <1>3, <1>4, <1>5, <1>6 DEF PromisesFit, PaymentsFit
<1>8. (2 * FeeUnder(c, a) * c.threshold + 100) \div 200 - 1 <= FeeUnder(c, Part(a, v, q))
  BY <1>7, FloorFee
<1>9. /\ Part(a, v, q) \in Nat /\ Part(a, v, q) <= a
      /\ v >= q => Part(a, v, q) = a
  BY PartFits
<1>10. FeeUnder(c, Part(a, v, q)) <= FeeUnder(c, a)
  BY <1>9, FeesAscend
<1>11. FeeUnder(c, Part(a, v, q)) \in Nat /\ FeeUnder(c, a) \in Nat /\ c.threshold \in Nat
  BY <1>9, CardArithmetic, RateConstants
<1>12. PICK e \in Nat : e = FeeUnder(c, a)
  BY <1>11
<1>13. PICK f \in Nat : f = FeeUnder(c, Part(a, v, q))
  BY <1>11
<1>14. PICK l \in Int : l = (2 * e * c.threshold + 100) \div 200
  <2>1. PICK t \in Nat : t = c.threshold
    BY <1>11
  <2>2. 2 * e * t + 100 \in Nat
    OBVIOUS
  <2>3. (2 * e * t + 100) \div 200 \in Int
    BY <2>2
  <2> QED BY <2>1, <2>3
<1>15. l - 1 <= f /\ f <= e
  BY <1>8, <1>10, <1>12, <1>13, <1>14
<1>16. f \in l - 1 .. e
  BY <1>15
<1> QED BY <1>3, <1>4, <1>5, <1>7, <1>9, <1>12, <1>13, <1>14, <1>16

LEMMA GoalFollows == RatesInv => R!GoalIsReached
<1> SUFFICES ASSUME RatesInv, quoted.status = "LIVE", R!Cardinality(R!Settled) = quoted.slots,
                    \A p \in R!Settled : /\ promise[p].promised * quoted.slots = quoted.goal
                                         /\ payout[p].views >= promise[p].promised
             PROVE  R!Seen >= quoted.goal
  BY DEF R!GoalIsReached
<1>1. R!TypeOK /\ quoted.slots > 0
  BY DEF RatesInv, QuoteFits
<1>2. PICK n \in Nat \ {0} : n = quoted.slots
  BY <1>1, RateTypes
<1>3. IsFiniteSet(R!Settled) /\ Cardinality(R!Settled) = n
  BY <1>1, <1>2, RateTypes, RateOperators
<1>4. PICK b \in R!Settled : TRUE
  BY <1>3, FS_EmptySet
<1>5. \A p \in R!Settled : /\ p \in Taker /\ payout[p].views \in Nat /\ promise[p].promised \in Nat
  <2> SUFFICES ASSUME NEW p \in R!Settled
               PROVE  p \in Taker /\ payout[p].views \in Nat /\ promise[p].promised \in Nat
    OBVIOUS
  <2>1. p \in Taker /\ payout[p] # None /\ promise[p] # None
    BY <1>1, RateTypes
  <2> QED BY <1>1, <2>1, RateTypes
<1>6. PICK q \in Nat : q = promise[b].promised /\ q * n = quoted.goal
  BY <1>2, <1>4, <1>5
<1>7. ASSUME NEW p \in R!Settled PROVE payout[p].views \in Nat /\ payout[p].views >= q
  <2>1. PICK r \in Nat : r = promise[p].promised /\ r * n = quoted.goal
    BY <1>2, <1>5
  <2>2. r = q
    <3>1. r * n = q * n
      BY <1>6, <2>1
    <3>2. r < q => r * n < q * n
      OBVIOUS
    <3>3. q < r => q * n < r * n
      OBVIOUS
    <3> QED BY <3>1, <3>2, <3>3
  <2>3. payout[p].views \in Nat /\ payout[p].views >= r
    BY <1>5, <2>1
  <2> QED BY <2>2, <2>3
<1>8. PICK f : f = [p \in R!Settled |-> payout[p].views]
  OBVIOUS
<1>9. \A p \in R!Settled : f[p] \in Int /\ f[p] >= q
  BY <1>7, <1>8
<1>10. SumFunctionOnSet(f, R!Settled) >= q * Cardinality(R!Settled)
  BY <1>3, <1>9, SumAtLeast
<1>11. R!Seen = SumFunctionOnSet(f, R!Settled)
  BY <1>8, RateOperators DEF R!Seen
<1> QED BY <1>3, <1>6, <1>10, <1>11

-------------------------------------------------------------------------------
(* The steps of the rates *)

LEMMA RatesInitially == R!Init => RatesInv
<1> SUFFICES ASSUME R!Init PROVE RatesInv OBVIOUS
<1>1. /\ card \in R!Card /\ updates = 0 /\ quoted = R!Draft /\ assigned = {} /\ held = 0
      /\ quoting = None /\ batch = None
      /\ \A p \in Taker : promise[p] = None /\ payout[p] = None
      /\ promise = [p \in Taker |-> None] /\ payout = [p \in Taker |-> None]
  BY DEF R!Init, Taker
<1>2. R!TypeOK
  BY <1>1, RateConstants DEF R!TypeOK, R!Draft, Taker
<1>3. quoted.status = "DRAFT" /\ quoted.unit = 0 /\ quoted.slots = 0 /\ quoted.price = 0
  BY <1>1 DEF R!Draft
<1>4. Cardinality(assigned) = 0
  BY <1>1, FS_EmptySet
<1> QED BY <1>1, <1>2, <1>3, <1>4
        DEF RatesInv, QuoteFits, PhaseFits, PromisesFit, PaymentsFit, SlotsFit, MoneyFits

\* The row, at the reach of an offer.
LEMMA CardWith ==
  ASSUME NEW c \in R!Card, NEW q \in Reaches
  PROVE  LET d == [c EXCEPT !.reach = q] IN
         /\ d \in R!Card /\ d.reach = q /\ d.take = c.take /\ d.threshold = c.threshold
         /\ \A a \in Nat : FeeUnder(d, a) = FeeUnder(c, a)
<1> DEFINE d == [c EXCEPT !.reach = q]
<1>1. /\ c = [rpm |-> c.rpm, take |-> c.take, threshold |-> c.threshold, reach |-> c.reach]
      /\ c.rpm \in Rpms /\ c.take \in Takes /\ c.threshold \in Thresholds
  BY DEF R!Card
<1>2. d = [rpm |-> c.rpm, take |-> c.take, threshold |-> c.threshold, reach |-> q]
  BY <1>1
<1>3. d \in R!Card /\ d.reach = q /\ d.take = c.take /\ d.threshold = c.threshold
  BY <1>1, <1>2 DEF R!Card
<1> QED BY <1>3 DEF FeeUnder

LEMMA FeeOf ==
  ASSUME NEW c \in R!Card, NEW a \in Nat
  PROVE  /\ R!At(c)!PromoterFee(a) = FeeUnder(c, a)
         /\ R!At(c)!RaliaTake(a) = a - FeeUnder(c, a)
         /\ FeeUnder(c, a) \in Nat /\ FeeUnder(c, a) <= a
BY CardArithmetic

\* What only reads, or changes the row of rates.
LEMMA RowStep ==
  ASSUME RatesInv, R!UpdateRateConfig \/ R!QuoteRead \/ R!BatchTake \/ R!BatchReach
  PROVE  RatesInv'
<1>1. R!TypeOK /\ QuoteFits /\ PhaseFits /\ PromisesFit /\ PaymentsFit /\ SlotsFit /\ MoneyFits
  BY DEF RatesInv
<1>2. UNCHANGED <<quoted, promise, assigned, payout, held>>
  BY DEF R!UpdateRateConfig, R!QuoteRead, R!BatchTake, R!BatchReach
<1>3. R!TypeOK'
  <2>1. CASE R!UpdateRateConfig
    <3>1. updates' \in 0 .. MaxUpdates /\ card' \in R!Card /\ UNCHANGED <<quoting, batch>>
      <4>1. updates \in 0 .. MaxUpdates /\ updates < MaxUpdates /\ updates' = updates + 1 /\ MaxUpdates \in Nat
        BY <1>1, <2>1, RateConstants DEF R!UpdateRateConfig, R!TypeOK
      <4>2. card' \in R!Card /\ UNCHANGED <<quoting, batch>>
        BY <2>1 DEF R!UpdateRateConfig
      <4> QED BY <4>1, <4>2
    <3> QED BY <1>1, <1>2, <3>1 DEF R!TypeOK
  <2>2. CASE R!QuoteRead
    BY <1>1, <1>2, <2>2 DEF R!TypeOK, R!QuoteRead
  <2>3. CASE R!BatchTake
    <3>1. batch' \in R!Batch /\ UNCHANGED <<card, updates, quoting>>
      BY <1>1, <2>3 DEF R!TypeOK, R!BatchTake, R!Batch
    <3> QED BY <1>1, <1>2, <3>1 DEF R!TypeOK
  <2>4. CASE R!BatchReach
    <3>1. batch \in R!Batch /\ card.reach \in Reaches
      BY <1>1, <2>4, RateTypes, RateConstants DEF R!TypeOK, R!BatchReach
    <3>2. batch' \in R!Batch /\ UNCHANGED <<card, updates, quoting>>
      BY <2>4, <3>1 DEF R!BatchReach, R!Batch
    <3> QED BY <1>1, <1>2, <3>2 DEF R!TypeOK
  <2> QED BY <2>1, <2>2, <2>3, <2>4
<1>4. PhaseFits'
  <2>1. CASE R!UpdateRateConfig
    BY <1>1, <2>1 DEF PhaseFits, R!UpdateRateConfig
  <2>2. CASE R!QuoteRead
    BY <1>1, <2>2 DEF PhaseFits, R!QuoteRead
  <2>3. CASE R!BatchTake
    BY <1>1, <2>3 DEF PhaseFits, R!BatchTake
  <2>4. CASE R!BatchReach
    BY <1>1, <2>4 DEF PhaseFits, R!BatchReach
  <2> QED BY <2>1, <2>2, <2>3, <2>4
<1>5. QuoteFits' /\ PromisesFit' /\ PaymentsFit' /\ SlotsFit'
  BY <1>1, <1>2 DEF QuoteFits, PromisesFit, PaymentsFit, SlotsFit
<1>6. MoneyFits'
  BY <1>1, <1>2 DEF MoneyFits, R!Outgoing, R!Settled
<1> QED BY <1>3, <1>4, <1>5, <1>6 DEF RatesInv

\* Nobody has an offer, let alone a payment, before the campaign is live.
LEMMA NothingYet ==
  ASSUME RatesInv, quoted.status # "LIVE"
  PROVE  /\ batch = None /\ \A p \in Taker : promise[p] = None /\ payout[p] = None
         /\ assigned = {} /\ Cardinality(assigned) = 0 /\ R!Settled = {} /\ R!Outgoing = 0
<1>1. R!TypeOK /\ batch = None /\ \A p \in Taker : promise[p] = None
  BY DEF RatesInv, PhaseFits
<1>2. \A p \in Taker : payout[p] = None
  BY <1>1, RateTypes
<1>3. assigned = {}
  BY <1>1 DEF R!TypeOK, Taker
<1>4. R!Settled = {}
  BY <1>1, <1>3, RateTypes
<1>5. R!Outgoing = 0
  BY <1>4, SpentFits, SumNothing
<1> QED BY <1>1, <1>2, <1>3, <1>4, <1>5, FS_EmptySet

\* A quote is worth its posts.
LEMMA QuoteWriteStep ==
  ASSUME RatesInv,
         (\E typed \in Typed : R!QuoteWrite(typed, 1)) \/ \E asked \in Asked : R!QuoteWrite(None, asked)
  PROVE  RatesInv'
<1>1. PICK typed \in Typed \cup {None}, asked \in Nat \ {0} : R!QuoteWrite(typed, asked)
  <2>1. CASE \E typed \in Typed : R!QuoteWrite(typed, 1)
    <3>1. 1 \in Nat \ {0}
      OBVIOUS
    <3> QED BY <2>1, <3>1
  <2>2. CASE \E asked \in Asked : R!QuoteWrite(None, asked)
    BY <2>2, RateConstants
  <2> QED BY <2>1, <2>2
<1>2. R!TypeOK /\ quoting \in R!Card /\ quoting' = None /\ quoted.status # "LIVE"
  BY <1>1 DEF RatesInv, PhaseFits, R!QuoteWrite, R!TypeOK
<1>3. UNCHANGED <<card, updates, promise, assigned, payout, held, batch>>
  BY <1>1 DEF R!QuoteWrite
<1>4. PICK r \in Nat \ {0} : r = card.reach
  BY <1>2, RateTypes, RateConstants
<1>5. PICK n \in Nat \ {0} :
        n = IF typed = None THEN asked ELSE R!At(quoting)!SlotsForPrice(typed, 0, r)
  BY <1>2, RateConstants, CardArithmetic
<1>6. PICK u \in Nat :
        /\ u = IF typed = None THEN R!At(quoting)!SlotPrice(r, 0) ELSE R!At(quoting)!UnitPrice(typed, n)
        /\ typed # None => u * n <= typed
  <2>1. CASE typed = None
    <3>1. R!At(quoting)!SlotPrice(r, 0) \in Nat
      BY <1>2, CardArithmetic
    <3> QED BY <2>1, <3>1
  <2>2. CASE typed # None
    <3>1. typed \in Nat /\ R!At(quoting)!UnitPrice(typed, n) = typed \div n
      BY <1>2, <2>2, RateConstants, CardArithmetic
    <3>2. typed \div n \in Nat /\ n * (typed \div n) <= typed
      BY <3>1, Quotient
    <3>3. PICK w \in Nat : w = typed \div n /\ n * w <= typed
      BY <3>2
    <3>4. w * n = n * w
      OBVIOUS
    <3> QED BY <2>2, <3>1, <3>3, <3>4
  <2> QED BY <2>1, <2>2
<1>7. PICK t \in Nat : t = (IF typed = None THEN u * n ELSE typed) /\ u * n <= t
  BY <1>6, RateConstants
<1>8. quoted' = [status |-> "QUOTED", price |-> t, unit |-> u, slots |-> n, goal |-> n * r]
  <2>1. quoted' = [status |-> "QUOTED", price |-> IF typed = None THEN u * n ELSE typed,
                   unit |-> u, slots |-> n, goal |-> n * r]
    BY <1>1, <1>4, <1>5, <1>6 DEF R!QuoteWrite
  <2> QED BY <1>7, <2>1
<1>9. n * r \in Nat
  OBVIOUS
<1>10. R!TypeOK'
  BY <1>2, <1>3, <1>8, <1>9 DEF R!TypeOK
<1>11. /\ batch = None /\ \A p \in Taker : promise[p] = None /\ payout[p] = None
       /\ Cardinality(assigned) = 0
  BY <1>2, NothingYet
<1>12. QuoteFits'
  <2>1. quoted'.unit = u /\ quoted'.slots = n /\ quoted'.price = t
    BY ONLY <1>8
  <2>2. u * n <= t
    BY ONLY <1>7
  <2>3. n > 0
    OBVIOUS
  <2> QED BY ONLY <2>1, <2>2, <2>3 DEF QuoteFits
<1>13. PhaseFits' /\ PromisesFit' /\ PaymentsFit' /\ SlotsFit' /\ MoneyFits'
  BY <1>3, <1>8, <1>11 DEF PhaseFits, PromisesFit, PaymentsFit, SlotsFit, MoneyFits
<1> QED BY <1>10, <1>12, <1>13 DEF RatesInv

\* The price is paid into escrow.
LEMMA FundRatesStep == ASSUME RatesInv, R!Fund PROVE RatesInv'
<1>1. /\ R!TypeOK /\ QuoteFits /\ quoted.status = "QUOTED" /\ quoting = None
      /\ quoted' = [quoted EXCEPT !.status = "LIVE"] /\ held' = quoted.price
      /\ UNCHANGED <<card, updates, promise, assigned, payout, quoting, batch>>
  BY DEF RatesInv, R!Fund
<1>2. /\ batch = None /\ \A p \in Taker : promise[p] = None /\ payout[p] = None
      /\ Cardinality(assigned) = 0 /\ R!Outgoing = 0
  BY <1>1, NothingYet
<1>3. /\ quoted'.status = "LIVE" /\ quoted'.price = quoted.price /\ quoted'.unit = quoted.unit
      /\ quoted'.slots = quoted.slots /\ quoted.price \in Nat /\ quoted.slots \in Nat
  BY <1>1 DEF R!TypeOK
<1>4. R!TypeOK'
  BY <1>1, <1>3 DEF R!TypeOK
<1>5. R!Outgoing' = 0
  BY <1>1, <1>2 DEF R!Outgoing, R!Settled
<1>6. QuoteFits' /\ PhaseFits' /\ PromisesFit' /\ PaymentsFit' /\ SlotsFit' /\ MoneyFits'
  BY <1>1, <1>2, <1>3, <1>5 DEF QuoteFits, PhaseFits, PromisesFit, PaymentsFit, SlotsFit, MoneyFits
<1> QED BY <1>4, <1>6 DEF RatesInv

\* Offers are written at the frozen price of a post.
LEMMA SendOffersStep ==
  ASSUME RatesInv, NEW S \in SUBSET Taker, R!SendOffers(S)
  PROVE  RatesInv'
<1>1. R!TypeOK /\ QuoteFits /\ PhaseFits /\ PromisesFit /\ PaymentsFit /\ SlotsFit /\ MoneyFits
  BY DEF RatesInv
<1>2. /\ batch \in R!Batch /\ batch' = None /\ batch.reach # None /\ \A p \in S : promise[p] = None
      /\ UNCHANGED <<card, updates, quoted, assigned, payout, held, quoting>>
  BY <1>1 DEF R!SendOffers, R!TypeOK
<1>3. PICK c \in R!Card : c = batch.card
  BY <1>2 DEF R!Batch
<1>4. PICK q \in Reaches : q = batch.reach
  BY <1>2 DEF R!Batch
<1>5. PICK u \in Nat : u = quoted.unit
  BY <1>1, RateTypes
<1>6. PICK d \in R!Card : d = [c EXCEPT !.reach = q] /\ d.reach = q
                          /\ FeeUnder(d, u) = FeeUnder(c, u)
  BY CardWith
<1>7. PICK f \in Nat : f = R!At(c)!PromoterFee(u) /\ f = FeeUnder(d, u)
  BY <1>6, FeeOf
<1>8. PICK o \in R!Promise : o = [fee |-> f, gross |-> u, promised |-> q, under |-> d]
  BY DEF R!Promise
<1>9. promise' = [p \in Taker |-> IF p \notin S THEN promise[p] ELSE o]
  BY <1>3, <1>4, <1>5, <1>6, <1>7, <1>8 DEF R!SendOffers, Taker
<1>10. R!TypeOK'
  <2>1. promise' \in [Taker -> R!Promise \cup {None}]
    BY <1>1, <1>9 DEF R!TypeOK, Taker
  <2>2. assigned \subseteq {p \in Taker : promise'[p] # None}
    BY <1>1, <1>8, <1>9, RateConstants DEF R!TypeOK, Taker
  <2> QED BY <1>1, <1>2, <2>1, <2>2 DEF R!TypeOK, Taker
<1>11. \A p \in Taker : promise[p] # None => promise'[p] = promise[p]
  BY <1>2, <1>9
<1>12. PromisesFit'
  <2> SUFFICES ASSUME NEW p \in Taker, promise'[p] # None
               PROVE  /\ promise'[p].gross = u /\ promise'[p].under.reach = promise'[p].promised
                      /\ promise'[p].fee = FeeUnder(promise'[p].under, u)
    BY <1>2, <1>5 DEF PromisesFit
  <2>1. CASE p \in S
    BY <1>6, <1>7, <1>8, <1>9, <2>1
  <2>2. CASE p \notin S
    BY <1>1, <1>5, <1>9, <2>2 DEF PromisesFit
  <2> QED BY <2>1, <2>2
<1>13. PaymentsFit'
  <2>1. \A p \in Taker : payout[p] # None => promise'[p] = promise[p]
    BY <1>1, <1>11, RateTypes
  <2> QED BY <1>1, <1>2, <2>1 DEF PaymentsFit
<1>14. PhaseFits'
  <2>1. batch # None
    BY <1>2, RateConstants
  <2> QED BY <1>1, <1>2, <2>1 DEF PhaseFits
<1>15. QuoteFits' /\ SlotsFit' /\ MoneyFits'
  BY <1>1, <1>2 DEF QuoteFits, SlotsFit, MoneyFits, R!Outgoing, R!Settled
<1> QED BY <1>10, <1>12, <1>13, <1>14, <1>15 DEF RatesInv

\* A slot is taken while there is one.
LEMMA AcceptRatesStep == ASSUME RatesInv, NEW p \in Taker, R!Accept(p) PROVE RatesInv'
<1>1. R!TypeOK /\ QuoteFits /\ PhaseFits /\ PromisesFit /\ PaymentsFit /\ SlotsFit /\ MoneyFits
  BY DEF RatesInv
<1>2. /\ promise[p] # None /\ p \notin assigned /\ R!Cardinality(assigned) < quoted.slots
      /\ assigned' = assigned \cup {p}
      /\ UNCHANGED <<card, updates, quoted, promise, payout, held, quoting, batch>>
  BY DEF R!Accept
<1>3. R!TypeOK'
  BY <1>1, <1>2 DEF R!TypeOK, Taker
<1>4. SlotsFit'
  <2>1. IsFiniteSet(assigned) /\ Cardinality(assigned) \in Nat /\ quoted.slots \in Nat
    BY <1>1, RateTypes
  <2>2. Cardinality(assigned \cup {p}) = Cardinality(assigned) + 1
    BY <1>2, <2>1, FS_AddElement
  <2>3. Cardinality(assigned) < quoted.slots
    BY <1>2, RateOperators
  <2> QED BY <1>2, <2>1, <2>2, <2>3 DEF SlotsFit
<1>5. QuoteFits' /\ PhaseFits' /\ PromisesFit' /\ PaymentsFit' /\ MoneyFits'
  BY <1>1, <1>2 DEF QuoteFits, PhaseFits, PromisesFit, PaymentsFit, MoneyFits, R!Outgoing, R!Settled
<1> QED BY <1>3, <1>4, <1>5 DEF RatesInv

\* A post is settled by the card as it is now, out of what escrow still holds for it.
LEMMA SettleRatesStep ==
  ASSUME RatesInv, NEW p \in Taker, NEW v \in Reported, R!Settle(p, v)
  PROVE  RatesInv'
<1>1. R!TypeOK /\ QuoteFits /\ PhaseFits /\ PromisesFit /\ PaymentsFit /\ SlotsFit /\ MoneyFits
  BY DEF RatesInv
<1>2. p \in assigned /\ payout[p] = None /\ promise[p] # None /\ v \in Nat /\ quoted.status = "LIVE"
  BY <1>1, RateConstants DEF R!Settle, R!TypeOK, Taker, PhaseFits
<1>3. PICK q \in Nat \ {0} : q = promise[p].promised /\ q \in Reaches
  BY <1>1, <1>2, RateTypes
<1>4. PICK u \in Nat : u = quoted.unit /\ u = promise[p].gross
  BY <1>1, <1>2, RateTypes DEF PromisesFit
<1>5. PICK g \in Nat : g = Part(u, v, q) /\ g <= u
  BY <1>2, PartFits
<1>6. card \in R!Card /\ R!At(card)!DeliveredGross(u, v, q) = g /\ v * 100 >= card.threshold * q
  <2>1. card \in R!Card
    BY <1>1, RateTypes
  <2>2. R!At(card)!DeliveredGross(u, v, q) = g
    BY <1>2, <1>5, <2>1, CardArithmetic
  <2>3. R!At(card)!MeetsThreshold(v, q)
    BY <1>3 DEF R!Settle
  <2> QED BY <1>2, <2>1, <2>2, <2>3, CardArithmetic
<1>7. PICK d \in R!Card : /\ d = [card EXCEPT !.reach = q]
                          /\ d.threshold = card.threshold /\ FeeUnder(d, g) = FeeUnder(card, g)
  BY <1>3, <1>6, CardWith
<1>8. PICK f \in Nat : f = R!At(card)!PromoterFee(g) /\ f = FeeUnder(d, g) /\ f <= g
  BY <1>6, <1>7, FeeOf
<1>9. PICK k \in Nat : k = R!At(card)!RaliaTake(g) /\ k = g - f
  <2>1. R!At(card)!RaliaTake(g) = g - f
    <3>1. R!At(card)!RaliaTake(g) = g - FeeUnder(card, g)
      BY <1>6, FeeOf
    <3>2. FeeUnder(card, g) = f
      BY <1>7, <1>8
    <3> QED BY <3>1, <3>2
  <2> QED BY <1>8, <2>1
<1>10. PICK y \in R!Payment : y = [fee |-> f, take |-> k, views |-> v, under |-> d]
  BY DEF R!Payment
<1>11. /\ payout' = [payout EXCEPT ![p] = y] /\ held' = held - g
       /\ UNCHANGED <<card, updates, quoted, promise, assigned, quoting, batch>>
  BY <1>3, <1>4, <1>6, <1>7, <1>8, <1>9, <1>10 DEF R!Settle
<1>12. /\ payout' \in [Taker -> R!Payment \cup {None}] /\ payout'[p] = y /\ y # None
       /\ \A o \in Taker \ {p} : payout'[o] = payout[o]
  BY <1>1, <1>11, RateConstants DEF R!TypeOK, Taker
<1>13. R!Settled' = R!Settled \cup {p} /\ p \notin R!Settled
  BY <1>2, <1>12 DEF R!Settled, Taker
<1>14. R!Outgoing' = R!Outgoing + g
  <2>1. PICK S : S = R!Settled
    OBVIOUS
  <2>2. PICK e : e = [o \in S \cup {p} |-> payout'[o].fee + payout'[o].take]
    OBVIOUS
  <2>3. R!Outgoing' = SumFunctionOnSet(e, S \cup {p})
    BY <1>13, <2>1, <2>2, RateOperators DEF R!Outgoing
  <2>4. IsFiniteSet(S) /\ p \notin S /\ S \in SUBSET Taker
    BY <1>1, <1>13, <2>1, RateTypes
  <2>5. e[p] = g
    <3>1. e[p] = y.fee + y.take
      BY <1>12, <2>2
    <3> QED BY <1>9, <1>10, <3>1
  <2>6. \A o \in S : Spent[o] = e[o] /\ e[o] \in Int
    <3>1. \A o \in S : payout'[o] = payout[o]
      BY <1>12, <2>4
    <3>2. \A o \in S : e[o] = Spent[o]
      BY <2>1, <2>2, <3>1 DEF Spent
    <3>3. \A o \in S : Spent[o] \in Nat
      BY <2>1, SpentFits
    <3> QED BY <3>2, <3>3
  <2>7. SumFunctionOnSet(Spent, S) = SumFunctionOnSet(e, S)
    BY <2>4, <2>6, SumSame
  <2>8. \A o \in S \cup {p} : e[o] \in Int
    BY <2>5, <2>6
  <2>9. SumFunctionOnSet(e, S \cup {p}) = e[p] + SumFunctionOnSet(e, S)
    BY <2>4, <2>8, SumMore
  <2>10. R!Outgoing = SumFunctionOnSet(Spent, S) /\ R!Outgoing \in Nat
    BY <2>1, SpentFits
  <2> QED BY <2>3, <2>5, <2>7, <2>9, <2>10
<1>15. held - g \in Nat
  <2>1. PICK n \in Nat : n = Cardinality(R!Settled) /\ R!Cardinality(R!Settled) = n
    BY <1>1, RateTypes, RateOperators
  <2>2. PICK s \in Nat : s = quoted.slots
    BY <1>1, RateTypes
  <2>3. held >= u * (s - n)
    BY <1>2, <1>4, <2>1, <2>2, EscrowFollows DEF R!EscrowOutlivesRates
  <2>4. s - n >= 1
    <3>1. R!Settled \in SUBSET assigned /\ R!Settled # assigned /\ IsFiniteSet(assigned)
      BY <1>1, <1>2, <1>13, RateTypes
    <3>2. n <= Cardinality(assigned) /\ n # Cardinality(assigned)
      BY <2>1, <3>1, FS_Subset
    <3>3. Cardinality(assigned) \in Nat /\ Cardinality(assigned) <= s
      BY <1>1, <2>2, RateTypes DEF SlotsFit
    <3> QED BY <3>2, <3>3
  <2>5. PICK m \in Nat : m = s - n /\ m >= 1
    BY <2>4
  <2>6. u * m >= u
    BY <2>5
  <2>7. held \in Nat
    BY <1>1, RateTypes
  <2> QED BY <1>5, <2>3, <2>5, <2>6, <2>7
<1>16. R!TypeOK'
  <2>1. {o \in Taker : payout'[o] # None} \subseteq assigned
    BY <1>1, <1>2, <1>12 DEF R!TypeOK, Taker
  <2> QED BY <1>1, <1>11, <1>12, <1>15, <2>1 DEF R!TypeOK, Taker
<1>17. PaymentsFit'
  <2> SUFFICES ASSUME NEW o \in Taker, payout'[o] # None
               PROVE  LET x == payout'[o]  h == Part(u, x.views, promise[o].promised) IN
                      /\ x.fee = FeeUnder(x.under, h) /\ x.take = h - x.fee
                      /\ x.views * 100 >= x.under.threshold * promise[o].promised
    BY <1>4, <1>11 DEF PaymentsFit
  <2>1. CASE o = p
    <3>1. /\ payout'[o] = y /\ y.fee = f /\ y.take = k /\ y.views = v /\ y.under = d
          /\ promise[o].promised = q /\ Part(u, v, q) = g
      BY <1>3, <1>5, <1>10, <1>12, <2>1
    <3>2. f = FeeUnder(d, g) /\ k = g - f /\ v * 100 >= d.threshold * q
      BY <1>6, <1>7, <1>8, <1>9
    <3> QED BY <3>1, <3>2
  <2>2. CASE o # p
    BY <1>1, <1>4, <1>12, <2>2 DEF PaymentsFit
  <2> QED BY <2>1, <2>2
<1>18. MoneyFits'
  <2>1. held \in Nat /\ R!Outgoing \in Nat /\ held + R!Outgoing = quoted.price
    BY <1>1, <1>2, RateTypes, SpentFits DEF MoneyFits
  <2>2. held' + R!Outgoing' = quoted.price
    BY <1>11, <1>14, <2>1
  <2> QED BY <1>11, <2>2 DEF MoneyFits
<1>19. QuoteFits' /\ PhaseFits' /\ PromisesFit' /\ SlotsFit'
  BY <1>1, <1>11 DEF QuoteFits, PhaseFits, PromisesFit, SlotsFit
<1> QED BY <1>16, <1>17, <1>18, <1>19 DEF RatesInv

LEMMA RatesInductive == RatesInv /\ [R!Next]_rateVars => RatesInv'
<1> SUFFICES ASSUME RatesInv, [R!Next]_rateVars PROVE RatesInv' OBVIOUS
<1>1. CASE UNCHANGED rateVars
  <2>1. R!TypeOK' /\ QuoteFits' /\ PhaseFits' /\ SlotsFit'
    BY <1>1 DEF RatesInv, rateVars, R!TypeOK, QuoteFits, PhaseFits, SlotsFit
  <2>2. PromisesFit' /\ PaymentsFit' /\ MoneyFits'
    BY <1>1 DEF RatesInv, rateVars, PromisesFit, PaymentsFit, MoneyFits, R!Outgoing, R!Settled
  <2> QED BY <2>1, <2>2 DEF RatesInv
<1>2. CASE R!Next
  BY <1>2, RowStep, QuoteWriteStep, FundRatesStep, SendOffersStep, AcceptRatesStep, SettleRatesStep
     DEF R!Next, Taker
<1> QED BY <1>1, <1>2

\* quote(), sendOffers(), settleDelivery(): an admin may change any rate between any two
\* reads, and the books of the campaign still fit.
THEOREM RatesInvariant == R!Spec => []RatesInv
<1>1. RatesInv /\ [R!Next]_R!vars => RatesInv'
  BY RatesInductive DEF R!vars, rateVars
<1> QED BY <1>1, RatesInitially, PTL DEF R!Spec

-------------------------------------------------------------------------------
(* The pure rules of matching and of points (Matching, PointsRules), of any input *)

\* The quotient of any number, and what tells it from others.
LEMMA WholeQuotient ==
  ASSUME NEW n \in Int, NEW d \in Nat \ {0}
  PROVE  n \div d \in Int /\ d * (n \div d) <= n /\ n < d * (n \div d) + d
OBVIOUS

LEMMA QuotientIs ==
  ASSUME NEW n \in Int, NEW d \in Nat \ {0}, NEW q \in Int, d * q <= n, n < d * q + d
  PROVE  n \div d = q
<1>1. PICK r \in Int : r = n \div d /\ d * r <= n /\ n < d * r + d
  BY WholeQuotient
<1>2. CASE r >= q + 1
  <2>1. d * r >= d * (q + 1) /\ d * (q + 1) = d * q + d
    BY <1>2
  <2>2. d * q \in Int /\ d * r \in Int
    OBVIOUS
  <2> QED BY <1>1, <2>1, <2>2
<1>3. CASE q >= r + 1
  <2>1. d * q >= d * (r + 1) /\ d * (r + 1) = d * r + d
    BY <1>3
  <2>2. d * q \in Int /\ d * r \in Int
    OBVIOUS
  <2> QED BY <1>1, <2>1, <2>2
<1> QED BY <1>1, <1>2, <1>3

LEMMA QuotientAscends ==
  ASSUME NEW n \in Int, NEW m \in Int, NEW d \in Nat \ {0}, n <= m
  PROVE  n \div d <= m \div d
<1>1. PICK q \in Int : q = n \div d /\ d * q <= n
  BY WholeQuotient
<1>2. PICK r \in Int : r = m \div d /\ m < d * r + d
  BY WholeQuotient
<1>3. CASE q >= r + 1
  <2>1. d * q >= d * (r + 1) /\ d * (r + 1) = d * r + d
    BY <1>3
  <2>2. d * q \in Int /\ d * r \in Int
    OBVIOUS
  <2> QED BY <1>1, <1>2, <2>1, <2>2
<1> QED BY <1>1, <1>2, <1>3

\* candidates(): the gate for newcomers never leaves fewer candidates than the open slots
\* need, of any number of them, and never holds back a proven one.
THEOREM GateNeverStarves ==
  ASSUME NEW scored, NEW proven, IsFiniteSet(scored), NEW open \in Nat
  PROVE  M!GateLeavesEnough(scored, proven, open)
<1> DEFINE short == M!Shortlist(scored, proven, open)
<1>1. \A S : M!Cardinality(S) = Cardinality(S)
  BY DEF M!Cardinality, Cardinality
<1>2. Cardinality(scored) \in Nat
  BY FS_CardinalityType
<1>3. \/ short = scored
      \/ short = scored \cap proven /\ Cardinality(short) >= open
  BY <1>1 DEF M!Shortlist
<1>4. Cardinality(short) >= M!Least(open, Cardinality(scored))
  <2>1. CASE short = scored
    <3> HIDE DEF short
    <3> QED BY <1>2, <2>1 DEF M!Least
  <2>2. CASE short = scored \cap proven /\ Cardinality(short) >= open
    <3>1. IsFiniteSet(short)
      BY <2>2, FS_Subset
    <3>2. Cardinality(short) \in Nat
      BY <3>1, FS_CardinalityType
    <3> HIDE DEF short
    <3> QED BY <1>2, <2>2, <3>2 DEF M!Least
  <2> QED BY <1>3, <2>1, <2>2
<1>5. scored \cap proven \subseteq short
  <2> HIDE DEF short
  <2> QED BY <1>3
<1> QED BY <1>1, <1>4, <1>5 DEF M!GateLeavesEnough

\* generateSlotSchedule(): of any run that leaves a tick for each post, the deadlines come
\* one after another, ahead of now, and within the run.
Window == [start: Int, now: Nat, end: Int, window: Nat \ {0}, buffer: Nat]
Roomy(w, posts) ==
  LET from == M!Greatest(w.start, w.now)
  IN  w.end - w.buffer > from => w.end - w.buffer - from >= posts

THEOREM DeadlinesAlwaysFit ==
  ASSUME NEW w \in Window, NEW posts \in Nat \ {0}, Roomy(w, posts)
  PROVE  M!DeadlinesFit(w, posts)
<1>1. PICK s \in Int, n \in Nat, e \in Int, h \in Nat \ {0}, b \in Nat :
        s = w.start /\ n = w.now /\ e = w.end /\ h = w.window /\ b = w.buffer
  BY DEF Window
<1>2. PICK f \in Nat : f = M!Greatest(s, n) /\ f >= n /\ f >= s
  <2>1. M!Greatest(s, n) \in Nat /\ M!Greatest(s, n) >= n /\ M!Greatest(s, n) >= s
    BY DEF M!Greatest
  <2> QED BY <2>1
<1>3. CASE posts = 1
  <2> DEFINE d == IF e < 0 THEN n + h ELSE M!ResolveDueAt(e, h, b, n)
  <2>1. M!DueDates(w, posts) = <<d>>
    BY <1>1, <1>3 DEF M!DueDates
  <2>2. /\ e < 0 \/ e > n => d > n
        /\ e >= 0 => d <= e
    BY DEF M!ResolveDueAt, M!Least, M!Greatest
  <2>3. posts = 1 /\ 1 .. posts - 1 = {} /\ \A i \in 1 .. posts : i = 1
    BY <1>3
  <2> HIDE DEF d
  <2>4. Len(<<d>>) = 1 /\ <<d>>[1] = d
    OBVIOUS
  <2> QED BY <1>1, <2>1, <2>2, <2>3, <2>4 DEF M!DeadlinesFit
<1>4. CASE posts > 1
  <2>1. PICK z \in Nat : /\ z >= posts
                         /\ e - b > f => z = e - b - f
                         /\ M!DueDates(w, posts) = [i \in 1 .. posts |-> f + (z * i) \div posts]
    <3> DEFINE usable == IF e < 0 THEN f + h * posts ELSE e - b
               z == IF usable > f THEN usable - f ELSE h * posts
    <3>1. M!DueDates(w, posts) = [i \in 1 .. posts |-> f + (z * i) \div posts]
      BY <1>1, <1>2, <1>4 DEF M!DueDates
    <3>2. PICK y \in Nat : y = h * posts /\ y >= posts
      <4>1. h * posts \in Nat /\ h * posts >= posts
        OBVIOUS
      <4> QED BY <4>1
    <3>3. e - b > f => e - b - f >= posts /\ e >= 0
      BY <1>1, <1>2 DEF Roomy
    <3>4. z \in Nat /\ z >= posts /\ (e - b > f => z = e - b - f)
      BY <3>2, <3>3
    <3> HIDE DEF z
    <3> QED BY <3>1, <3>4
  <2>2. PICK due : due = M!DueDates(w, posts)
    OBVIOUS
  <2>3. DOMAIN due = 1 .. posts /\ \A i \in 1 .. posts : due[i] = f + (z * i) \div posts
    BY <2>1, <2>2
  <2>4. Len(due) = posts
    BY <2>1, <2>2
  <2>5. ASSUME NEW i \in Nat PROVE /\ (z * i) \div posts \in Nat
                                   /\ (z * i) \div posts < (z * (i + 1)) \div posts
    <3>1. PICK x \in Nat : x = z * i
      OBVIOUS
    <3>2. z * (i + 1) = x + z
      BY <3>1
    <3>3. x + posts <= x + z /\ x + posts \in Int /\ x + z \in Int
      BY <2>1
    <3>4. (x + posts) \div posts <= (x + z) \div posts
      BY <3>3, QuotientAscends
    <3>5. PICK q \in Nat : q = x \div posts /\ posts * q <= x /\ x < posts * q + posts
      BY Quotient
    <3>6. (x + posts) \div posts = q + 1
      <4>1. PICK y \in Int : y = x + posts
        OBVIOUS
      <4>2. PICK p \in Int : p = q + 1 /\ posts * p = posts * q + posts
        OBVIOUS
      <4>3. posts * p <= y /\ y < posts * p + posts
        BY <3>5, <4>1, <4>2
      <4>4. y \div posts = p
        BY <4>3, QuotientIs
      <4> QED BY <4>1, <4>2, <4>4
    <3>7. PICK r \in Int : r = (x + z) \div posts
      BY WholeQuotient
    <3> QED BY <3>1, <3>2, <3>4, <3>5, <3>6, <3>7
  <2>6. \A i \in Nat \ {0} : (z * i) \div posts >= 1
    <3> SUFFICES ASSUME NEW i \in Nat \ {0} PROVE (z * i) \div posts >= 1
      OBVIOUS
    <3>1. PICK j \in Nat : j + 1 = i
      <4>1. i - 1 \in Nat /\ (i - 1) + 1 = i
        OBVIOUS
      <4> QED BY <4>1
    <3>2. /\ (z * j) \div posts \in Nat /\ (z * i) \div posts \in Nat
          /\ (z * j) \div posts < (z * i) \div posts
      BY <2>5, <3>1
    <3> QED BY <3>2
  <2>7. \A i \in 1 .. posts : due[i] \in Nat /\ due[i] > f
    <3> SUFFICES ASSUME NEW i \in 1 .. posts PROVE due[i] \in Nat /\ due[i] > f
      OBVIOUS
    <3>1. i \in Nat \ {0}
      OBVIOUS
    <3>2. PICK x \in Nat : x = (z * i) \div posts /\ x >= 1
      BY <2>5, <2>6, <3>1
    <3> QED BY <2>3, <3>2
  <2>8. \A i \in 1 .. posts - 1 : due[i] < due[i + 1]
    <3> SUFFICES ASSUME NEW i \in 1 .. posts - 1 PROVE due[i] < due[i + 1]
      OBVIOUS
    <3>1. i \in 1 .. posts /\ i + 1 \in 1 .. posts /\ i \in Nat /\ i + 1 \in Nat
      OBVIOUS
    <3>2. PICK x \in Nat : x = (z * i) \div posts
      BY <2>5, <3>1
    <3>3. PICK y \in Nat : y = (z * (i + 1)) \div posts /\ x < y
      BY <2>5, <3>1, <3>2
    <3>4. due[i] = f + x /\ due[i + 1] = f + y
      BY <2>3, <3>1, <3>2, <3>3
    <3> QED BY <3>3, <3>4
  <2>9. due[posts] = f + z
    <3>1. posts \in 1 .. posts /\ posts * z <= z * posts /\ z * posts < posts * z + posts /\ z * posts \in Int
      OBVIOUS
    <3>2. (z * posts) \div posts = z
      BY <3>1, QuotientIs
    <3> QED BY <2>3, <3>1, <3>2
  <2>10. \A i \in 1 .. posts : due[i] > n
    <3> SUFFICES ASSUME NEW i \in 1 .. posts PROVE due[i] > n
      OBVIOUS
    <3>1. due[i] \in Nat /\ due[i] > f
      BY <2>7
    <3> QED BY <1>2, <3>1
  <2>11. due[1] > s
    <3>1. due[1] \in Nat /\ due[1] > f
      BY <1>4, <2>7
    <3> QED BY <1>2, <3>1
  <2>12. e - b > f => due[posts] <= e - b
    BY <2>1, <2>9
  <2> QED BY <1>1, <1>2, <1>4, <2>2, <2>4, <2>8, <2>10, <2>11, <2>12 DEF M!DeadlinesFit
<1> QED BY <1>3, <1>4

\* channelEffectiveReach(): an audience nobody proved lately counts no more than the cap,
\* whatever is claimed, and a group for those who take part in it.
THEOREM UnprovenAlwaysCapped ==
  ASSUME NEW c, DOMAIN c = {"group", "active", "claimed", "factor", "tier", "age"},
         c.group \in BOOLEAN, c.active \in Nat, c.claimed \in Nat, c.factor \in Nat,
         c.tier \in {"SELF", "SCREENSHOT", "INSIGHTS"}, c.age \in Int,
         NEW cap \in Int, NEW validity \in Int
  PROVE  M!UnprovenIsCapped(c, cap, validity)
<1> DEFINE d == [c EXCEPT !.claimed = 0]
<1>1. ASSUME c.tier = "SELF" \/ c.age \notin 0 .. validity
      PROVE  M!ChannelReach(c, cap, validity) <= cap
  <2>1. M!CurrentTier(c.tier, c.age, validity) = "SELF"
    BY <1>1 DEF M!CurrentTier
  <2> QED BY <2>1 DEF M!ChannelReach, M!Least
<1>2. ASSUME c.group PROVE M!ChannelReach(c, cap, validity) = M!ChannelReach(d, cap, validity)
  <2>1. d.group = c.group /\ d.active = c.active /\ d.factor = c.factor /\ d.tier = c.tier /\ d.age = c.age
    OBVIOUS
  <2> HIDE DEF d
  <2> QED BY <1>2, <2>1 DEF M!ChannelReach
<1> QED BY <1>1, <1>2 DEF M!UnprovenIsCapped

\* Of two fractions the larger is the larger in percent.
LEMMA PercentAscends ==
  ASSUME NEW a \in Nat, NEW b \in Nat \ {0}, NEW c \in Nat, NEW d \in Nat \ {0}, c * b <= a * d
  PROVE  (100 * c) \div d <= (100 * a) \div b
<1>1. PICK x \in Nat : x = (100 * c) \div d /\ d * x <= 100 * c
  <2>1. 100 * c \in Nat
    OBVIOUS
  <2> QED BY <2>1, Quotient
<1>2. PICK y \in Nat : y = (100 * a) \div b /\ 100 * a < b * y + b
  <2>1. 100 * a \in Nat
    OBVIOUS
  <2> QED BY <2>1, Quotient
<1>3. SUFFICES ASSUME x >= y + 1 PROVE FALSE
  BY <1>1, <1>2
<1>4. b * x >= b * y + b
  <2>1. b * x >= b * (y + 1) /\ b * (y + 1) = b * y + b
    BY <1>3
  <2> QED BY <2>1
<1>5. b * x > 100 * a
  <2>1. b * x \in Nat /\ b * y \in Nat
    OBVIOUS
  <2> QED BY <1>2, <1>4, <2>1
<1>6. d * (b * x) > d * (100 * a)
  <2>1. PICK u \in Nat : u = b * x
    OBVIOUS
  <2>2. PICK v \in Nat : v = 100 * a
    OBVIOUS
  <2>3. d * u > d * v
    BY <1>5, <2>1, <2>2
  <2> QED BY <2>1, <2>2, <2>3
<1>7. b * (d * x) <= b * (100 * c)
  <2>1. PICK u \in Nat : u = d * x
    OBVIOUS
  <2>2. PICK v \in Nat : v = 100 * c
    OBVIOUS
  <2>3. b * u <= b * v
    BY <1>1, <2>1, <2>2
  <2> QED BY <2>1, <2>2, <2>3
<1>8. d * (b * x) = b * (d * x) /\ d * (100 * a) = 100 * (a * d) /\ b * (100 * c) = 100 * (c * b)
  OBVIOUS
<1>9. PICK u \in Nat : u = a * d
  OBVIOUS
<1>10. PICK v \in Nat : v = c * b /\ v <= u
  BY <1>9
<1> QED BY <1>6, <1>7, <1>8, <1>9, <1>10

\* matchScore(): of two promoters alike in all else, the one whose audience is nearer to
\* the need, who is more reliable or less busy, is never behind, whatever their scores.
RankedPerson(categories) ==
  [reach: Nat, trust: Int, reliability: Int, stored: Int, categories: SUBSET categories,
   perWeek: Int, thisWeek: Nat, tier: {"SELF", "SCREENSHOT", "INSIGHTS"}]

THEOREM RankingAlwaysFair ==
  ASSUME NEW categories, NEW p \in RankedPerson(categories), NEW q \in RankedPerson(categories),
         NEW role, NEW need \in Nat \ {0}, NEW targeted, IsFiniteSet(targeted)
  PROVE  M!RankedFairly(p, q, role, need, targeted)
<1> SUFFICES ASSUME M!Better(p, q, need)
             PROVE  M!Score(p, role, need, targeted) >= M!Score(q, role, need, targeted)
  BY DEF M!RankedFairly
<1>1. /\ p.reach \in Nat /\ q.reach \in Nat /\ p.trust \in Int /\ q.trust \in Int
      /\ p.reliability \in Int /\ q.reliability \in Int /\ p.stored \in Int /\ q.stored \in Int
      /\ p.thisWeek \in Nat /\ q.thisWeek \in Nat /\ p.perWeek \in Int /\ q.perWeek \in Int
  BY DEF RankedPerson
<1>2. /\ p.trust >= q.trust /\ p.reliability >= q.reliability /\ p.stored = q.stored
      /\ q.stored >= 0 /\ p.perWeek = q.perWeek /\ p.thisWeek <= q.thisWeek
  BY DEF M!Better
<1>3. p.reach \in Nat \ {0} /\ q.reach \in Nat \ {0}
  <2>1. p.reach * q.reach > 0
    BY DEF M!Better
  <2> QED BY <1>1, <2>1
<1>4. PICK x \in Nat \ {0} : x = p.reach
  BY <1>3
<1>5. PICK y \in Nat \ {0} : y = q.reach
  BY <1>3
<1>6. PICK f \in Int : f = M!ReachFit(x, need)
  <2>1. M!ReachFit(x, need) = (100 * M!Least(x, need)) \div M!Greatest(x, need)
    BY DEF M!ReachFit
  <2>2. 100 * M!Least(x, need) \in Int /\ M!Greatest(x, need) \in Nat \ {0}
    BY DEF M!Least, M!Greatest
  <2> QED BY <2>1, <2>2, WholeQuotient
<1>7. PICK g \in Int : g = M!ReachFit(y, need) /\ g <= f
  <2>1. PICK a \in Nat, b \in Nat \ {0} : a = M!Least(x, need) /\ b = M!Greatest(x, need)
    BY DEF M!Least, M!Greatest
  <2>2. PICK c \in Nat, d \in Nat \ {0} : c = M!Least(y, need) /\ d = M!Greatest(y, need)
    BY DEF M!Least, M!Greatest
  <2>3. c * b <= a * d
    <3>1. a * d >= c * b
      BY <1>4, <1>5, <2>1, <2>2 DEF M!Better
    <3> QED BY <3>1
  <2>4. (100 * c) \div d <= (100 * a) \div b
    BY <2>3, PercentAscends
  <2>5. M!ReachFit(y, need) = (100 * c) \div d /\ f = (100 * a) \div b
    BY <1>6, <2>1, <2>2 DEF M!ReachFit
  <2>6. 100 * c \in Int
    OBVIOUS
  <2>7. (100 * c) \div d \in Int
    BY <2>6, WholeQuotient
  <2> QED BY <2>4, <2>5, <2>7
<1>8. PICK i \in Int : i = M!Fatigue(p.thisWeek, p.perWeek)
  <2>1. p.perWeek > 0 => (100 * p.thisWeek) \div p.perWeek \in Int
    BY <1>1, WholeQuotient
  <2>2. M!Fatigue(p.thisWeek, p.perWeek) \in Int
    BY <1>1, <2>1 DEF M!Fatigue, M!Clamp, M!Least, M!Greatest
  <2> QED BY <2>2
<1>9. PICK j \in Int : j = M!Fatigue(q.thisWeek, q.perWeek) /\ i <= j
  <2>1. CASE p.perWeek <= 0
    <3>1. M!Fatigue(q.thisWeek, q.perWeek) = 100 /\ i = 100
      BY <1>2, <1>8, <2>1 DEF M!Fatigue
    <3> QED BY <3>1
  <2>2. CASE p.perWeek > 0
    <3>1. PICK w \in Nat \ {0} : w = p.perWeek
      BY <1>1, <2>2
    <3>2. 100 * p.thisWeek \in Int /\ 100 * q.thisWeek \in Int /\ 100 * p.thisWeek <= 100 * q.thisWeek
      BY <1>1, <1>2
    <3>3. PICK k \in Int : k = (100 * p.thisWeek) \div w
      BY <3>2, WholeQuotient
    <3>4. PICK l \in Int : l = (100 * q.thisWeek) \div w /\ k <= l
      <4>1. (100 * q.thisWeek) \div w \in Int
        BY <3>2, WholeQuotient
      <4>2. (100 * p.thisWeek) \div w <= (100 * q.thisWeek) \div w
        BY <3>2, QuotientAscends
      <4> QED BY <3>3, <4>1, <4>2
    <3>5. M!Clamp(k, 0, 100) \in Int /\ M!Clamp(l, 0, 100) \in Int /\ M!Clamp(k, 0, 100) <= M!Clamp(l, 0, 100)
      BY <3>4 DEF M!Clamp, M!Least, M!Greatest
    <3>6. i = M!Clamp(k, 0, 100) /\ M!Fatigue(q.thisWeek, q.perWeek) = M!Clamp(l, 0, 100)
      BY <1>2, <1>8, <2>2, <3>1, <3>3, <3>4 DEF M!Fatigue
    <3> QED BY <3>5, <3>6
  <2> QED BY <1>1, <2>1, <2>2
<1>10. PICK t \in Int : t = M!Clamp(p.trust, 0, 100)
  BY <1>1 DEF M!Clamp, M!Least, M!Greatest
<1>11. PICK u \in Int : u = M!Clamp(q.trust, 0, 100) /\ u <= t
  BY <1>1, <1>2, <1>10 DEF M!Clamp, M!Least, M!Greatest
<1>12. PICK k \in Int : k = M!Clamp(p.stored, 0, 100) /\ k = M!Clamp(q.stored, 0, 100)
  BY <1>1, <1>2 DEF M!Clamp, M!Least, M!Greatest
<1>13. PICK r \in Int : r = p.reliability
  BY <1>1
<1>14. PICK s \in Int : s = q.reliability /\ s <= r
  BY <1>1, <1>2, <1>13
<1>15. PICK h \in Int : h = M!CategoryFit(p.categories, targeted) /\ p.categories = q.categories
  <2>1. p.categories = q.categories
    BY DEF M!Better
  <2>2. CASE targeted = {}
    BY <2>1, <2>2 DEF M!CategoryFit
  <2>3. CASE targeted # {}
    <3>1. \A S : M!Cardinality(S) = Cardinality(S)
      BY DEF M!Cardinality, Cardinality
    <3>2. IsFiniteSet(p.categories \cap targeted)
      BY FS_Subset
    <3>3. PICK a \in Nat : a = M!Cardinality(p.categories \cap targeted)
      BY <3>1, <3>2, FS_CardinalityType
    <3>4. PICK b \in Nat \ {0} : b = M!Cardinality(targeted)
      <4>1. Cardinality(targeted) \in Nat /\ Cardinality(targeted) # 0
        BY <2>3, FS_CardinalityType, FS_EmptySet
      <4> QED BY <3>1, <4>1
    <3>5. M!CategoryFit(p.categories, targeted) = (100 * a) \div b
      BY <2>3, <3>3, <3>4 DEF M!CategoryFit
    <3>6. 100 * a \in Int
      OBVIOUS
    <3> QED BY <2>1, <3>5, <3>6, WholeQuotient
  <2> QED BY <2>2, <2>3
<1>16. /\ M!Score(p, role, need, targeted)
          = M!Clamp(20 * k + 20 * t + 15 * r + 25 * f + 20 * h - 15 * i, 0, 10000)
       /\ M!Score(q, role, need, targeted)
          = M!Clamp(20 * k + 20 * u + 15 * s + 25 * g + 20 * h - 15 * j, 0, 10000)
  <2>2. p.stored >= 0 /\ q.stored >= 0
    BY <1>1, <1>2
  <2>3. M!Score(p, role, need, targeted)
        = M!Clamp(20 * k + 20 * t + 15 * r + 25 * f + 20 * h - 15 * i, 0, 10000)
    BY <1>4, <1>6, <1>8, <1>10, <1>12, <1>13, <1>15, <2>2 DEF M!Score, M!MatchScore
  <2>4. M!Score(q, role, need, targeted)
        = M!Clamp(20 * k + 20 * u + 15 * s + 25 * g + 20 * h - 15 * j, 0, 10000)
    BY <1>5, <1>7, <1>9, <1>11, <1>12, <1>14, <1>15, <2>2 DEF M!Score, M!MatchScore
  <2> QED BY <2>3, <2>4
<1>17. PICK a \in Int : a = 20 * k + 20 * t + 15 * r + 25 * f + 20 * h - 15 * i
  OBVIOUS
<1>18. PICK b \in Int : b = 20 * k + 20 * u + 15 * s + 25 * g + 20 * h - 15 * j /\ b <= a
  BY <1>7, <1>9, <1>11, <1>14, <1>17
<1>19. M!Clamp(a, 0, 10000) >= M!Clamp(b, 0, 10000)
  BY <1>18 DEF M!Clamp, M!Least, M!Greatest
<1> QED BY <1>16, <1>17, <1>18, <1>19

\* tierFor(), nextTierProgress(): neither more points nor more reliability lowers a tier,
\* and the points still shown as missing are those of the next one, at any thresholds in
\* order.
THEOREM TiersAlwaysAscend ==
  ASSUME NEW c, c.silver \in Int, c.gold \in Int, c.platinum \in Int, c.floor \in Int,
         c.silver < c.gold, c.gold < c.platinum,
         NEW rolling \in Int, NEW reliability \in Int, NEW more \in Nat
  PROVE  P!TierAscends(rolling, reliability, more, c)
<1> DEFINE T(x, y) == P!Tier(x, y, c)
<1>1. ASSUME NEW x \in Int, NEW y \in Int
      PROVE  T(x, y) = IF x >= c.platinum /\ y >= c.floor THEN 3
                       ELSE IF x >= c.gold /\ y >= c.floor THEN 2
                       ELSE IF x >= c.silver THEN 1 ELSE 0
  BY DEF P!Tier
<1> HIDE DEF T
<1>2. rolling + more \in Int /\ reliability + more \in Int
  OBVIOUS
<1>3. T(rolling, reliability) \in 0 .. 3
  BY <1>1
<1>4. T(rolling + more, reliability) \in T(rolling, reliability) .. 3
  BY <1>1, <1>2
<1>5. T(rolling, reliability + more) \in T(rolling, reliability) .. 3
  BY <1>1, <1>2
<1>6. ASSUME T(rolling, reliability) < 3, reliability >= c.floor
      PROVE  T(rolling + P!PointsToGo(T(rolling, reliability), rolling, c), reliability)
             = T(rolling, reliability) + 1
  <2>1. CASE rolling < c.silver
    <3>1. T(rolling, reliability) = 0
      BY <1>1, <2>1
    <3>2. P!PointsToGo(0, rolling, c) = c.silver - rolling
      BY <2>1 DEF P!PointsToGo, P!NextTier, P!Greatest
    <3>3. rolling + (c.silver - rolling) = c.silver
      OBVIOUS
    <3>4. T(c.silver, reliability) = 1
      BY <1>1, <1>6
    <3> QED BY <3>1, <3>2, <3>3, <3>4
  <2>2. CASE rolling >= c.silver /\ rolling < c.gold
    <3>1. T(rolling, reliability) = 1
      BY <1>1, <2>2
    <3>2. P!PointsToGo(1, rolling, c) = c.gold - rolling
      BY <2>2 DEF P!PointsToGo, P!NextTier, P!Greatest
    <3>3. rolling + (c.gold - rolling) = c.gold
      OBVIOUS
    <3>4. T(c.gold, reliability) = 2
      BY <1>1, <1>6
    <3> QED BY <3>1, <3>2, <3>3, <3>4
  <2>3. CASE rolling >= c.gold
    <3>1. T(rolling, reliability) = 2 /\ rolling < c.platinum
      BY <1>1, <1>6, <2>3
    <3>2. P!PointsToGo(2, rolling, c) = c.platinum - rolling
      BY <3>1 DEF P!PointsToGo, P!NextTier, P!Greatest
    <3>3. rolling + (c.platinum - rolling) = c.platinum
      OBVIOUS
    <3>4. T(c.platinum, reliability) = 3
      BY <1>1, <1>6
    <3> QED BY <3>1, <3>2, <3>3, <3>4
  <2> QED BY <2>1, <2>2, <2>3
<1> QED BY <1>4, <1>5, <1>6 DEF T, P!TierAscends, P!TiersAtOrAbove, P!NextTier

\* seasonWindow(): every day is in one season, whatever the epoch and the length.
THEOREM SeasonsAlwaysTile ==
  ASSUME NEW day \in Int, NEW epoch \in Int, NEW length \in Nat \ {0}
  PROVE  P!SeasonsTile(day, epoch, length)
<1>1. PICK n \in Int : n = day - epoch
  OBVIOUS
<1>2. PICK q \in Int : q = n \div length /\ length * q <= n /\ n < length * q + length
  BY WholeQuotient
<1>3. PICK x \in Int : x = length * q
  OBVIOUS
<1>4. (q + 1) * length = x + length
  BY <1>3
<1>5. P!SeasonIndex(day, epoch, length) = q
  BY <1>1, <1>2 DEF P!SeasonIndex
<1>6. PICK e \in Int : e = P!SeasonEnd(day, epoch, length) /\ e = epoch + x + length
  BY <1>4, <1>5 DEF P!SeasonEnd
<1>7. e - length <= day /\ day < e
  BY <1>1, <1>2, <1>3, <1>6
<1>8. P!SeasonIndex(e, epoch, length) = q + 1
  <2>1. PICK m \in Int : m = e - epoch
    OBVIOUS
  <2>2. PICK r \in Int : r = q + 1
    OBVIOUS
  <2>3. length * r = x + length
    BY <1>4, <2>2
  <2>4. length * r <= m /\ m < length * r + length
    BY <1>6, <2>1, <2>3
  <2>5. m \div length = r
    BY <2>4, QuotientIs
  <2> QED BY <2>1, <2>2, <2>5 DEF P!SeasonIndex
<1>9. P!SeasonIndex(e - 1, epoch, length) = q
  <2>1. PICK m \in Int : m = e - 1 - epoch
    OBVIOUS
  <2>2. length * q <= m /\ m < length * q + length
    BY <1>3, <1>6, <2>1
  <2>3. m \div length = q
    BY <2>2, QuotientIs
  <2> QED BY <2>1, <2>3 DEF P!SeasonIndex
<1> QED BY <1>5, <1>6, <1>7, <1>8, <1>9 DEF P!SeasonsTile

\* deliveryAwards(): the bonus goes by the ratio, for every reach, promise and ceiling.
LEMMA RoundedIs ==
  ASSUME NEW n \in Nat, NEW p \in Nat \ {0}
  PROVE  P!Rounded(n, p) \in Nat /\ P!Rounded(n, p) = (2 * n + p) \div (2 * p)
<1>1. 2 * n + p \in Nat /\ 2 * p \in Nat \ {0}
  OBVIOUS
<1> QED BY <1>1, Quotient DEF P!Rounded

LEMMA RoundedAscends ==
  ASSUME NEW n \in Nat, NEW m \in Nat, NEW p \in Nat \ {0}, n <= m
  PROVE  P!Rounded(n, p) <= P!Rounded(m, p)
<1>1. PICK x \in Int : x = 2 * n + p
  OBVIOUS
<1>2. PICK y \in Int : y = 2 * m + p /\ x <= y
  BY <1>1
<1>3. PICK d \in Nat \ {0} : d = 2 * p
  OBVIOUS
<1>4. x \div d <= y \div d
  BY <1>2, QuotientAscends
<1> QED BY <1>1, <1>2, <1>3, <1>4, RoundedIs

LEMMA RoundedScales ==
  ASSUME NEW n \in Nat, NEW p \in Nat \ {0}, NEW k \in Nat \ {0}
  PROVE  P!Rounded(k * n, k * p) = P!Rounded(n, p)
<1>1. PICK x \in Nat : x = 2 * n + p
  OBVIOUS
<1>2. PICK d \in Nat \ {0} : d = 2 * p
  OBVIOUS
<1>3. PICK q \in Nat : q = x \div d /\ d * q <= x /\ x < d * q + d
  BY Quotient
<1>4. PICK y \in Nat : y = k * x /\ y = 2 * (k * n) + k * p
  BY <1>1
<1>5. PICK e \in Nat \ {0} : e = k * d /\ e = 2 * (k * p)
  BY <1>2
<1>6. e * q <= y
  <2>1. PICK z \in Nat : z = d * q
    OBVIOUS
  <2>2. e * q = k * z
    BY <1>5, <2>1
  <2>3. k * z <= k * x
    BY <1>3, <2>1
  <2> QED BY <1>4, <2>2, <2>3
<1>7. y < e * q + e
  <2>1. PICK z \in Nat : z = d * q + d
    OBVIOUS
  <2>2. e * q + e = k * z
    BY <1>5, <2>1
  <2>3. k * x < k * z
    BY <1>3, <2>1
  <2> QED BY <1>4, <2>2, <2>3
<1>8. y \div e = q
  BY <1>6, <1>7, QuotientIs
<1>9. k * n \in Nat /\ k * p \in Nat \ {0}
  OBVIOUS
<1>10. P!Rounded(k * n, k * p) = y \div e
  <2>1. PICK i \in Nat : i = k * n
    BY <1>9
  <2>2. PICK j \in Nat \ {0} : j = k * p
    BY <1>9
  <2>3. P!Rounded(i, j) = (2 * i + j) \div (2 * j)
    BY RoundedIs
  <2> QED BY <1>4, <1>5, <2>1, <2>2, <2>3
<1> QED BY <1>1, <1>2, <1>3, <1>8, <1>10, RoundedIs

LEMMA BonusIs ==
  ASSUME NEW c, NEW b \in Nat, b = c.overBase, NEW v \in Nat, NEW p \in Nat,
         NEW m \in Nat, m = c.overCapRatio * p, NEW x \in Nat, x = P!Least(v, m)
  PROVE  /\ P!OverDelivery(v, p, c) = IF p > 0 /\ x > p THEN P!Rounded(b * (x - p), p) ELSE 0
         /\ P!OverDelivery(v, p, c) \in Nat
<1>1. P!OverDelivery(v, p, c) = IF p > 0 /\ x > p THEN P!Rounded(b * (x - p), p) ELSE 0
  BY DEF P!OverDelivery
<1>2. ASSUME p > 0, x > p PROVE P!Rounded(b * (x - p), p) \in Nat
  <2>1. x - p \in Nat /\ p \in Nat \ {0}
    BY <1>2
  <2>2. b * (x - p) \in Nat
    BY <2>1
  <2> QED BY <2>1, <2>2, RoundedIs
<1> QED BY <1>1, <1>2

THEOREM BonusAlwaysRelative ==
  ASSUME NEW c, c.overBase \in Nat, c.overCapRatio \in Nat \ {0},
         NEW delivered \in Nat, NEW promised \in Nat, NEW k \in Nat \ {0}
  PROVE  P!BonusIsRelative(delivered, promised, k, c)
<1>1. PICK b \in Nat : b = c.overBase
  OBVIOUS
<1>2. PICK r \in Nat \ {0} : r = c.overCapRatio
  OBVIOUS
<1>3. PICK m \in Nat : m = r * promised
  OBVIOUS
<1>4. PICK x \in Nat : x = P!Least(delivered, m)
  BY DEF P!Least
<1>5. P!OverDelivery(delivered, promised, c)
      = IF promised > 0 /\ x > promised THEN P!Rounded(b * (x - promised), promised) ELSE 0
  <2>1. m = c.overCapRatio * promised
    BY <1>2, <1>3
  <2> QED BY <1>1, <1>4, <2>1, BonusIs
<1>6. P!OverDelivery(k * delivered, k * promised, c) = P!OverDelivery(delivered, promised, c)
  <2>1. PICK w \in Nat : w = k * delivered
    OBVIOUS
  <2>2. PICK p \in Nat : p = k * promised
    OBVIOUS
  <2>3. r * p = k * m
    BY <1>3, <2>2
  <2>4. P!Least(w, r * p) = k * x
    <3>1. delivered <= m => k * delivered <= k * m
      OBVIOUS
    <3>2. delivered > m => k * delivered > k * m
      OBVIOUS
    <3> QED BY <1>4, <2>1, <2>3, <3>1, <3>2 DEF P!Least
  <2>5. PICK y \in Nat : y = k * x
    OBVIOUS
  <2>6. P!OverDelivery(w, p, c) = IF p > 0 /\ y > p THEN P!Rounded(b * (y - p), p) ELSE 0
    <3>1. PICK i \in Nat : i = k * m
      OBVIOUS
    <3>2. i = c.overCapRatio * p
      BY <1>2, <2>3, <3>1
    <3>3. y = P!Least(w, i)
      BY <2>3, <2>4, <2>5, <3>1
    <3>4. b = c.overBase
      BY <1>1
    <3> QED BY <3>2, <3>3, <3>4 DEF P!OverDelivery
  <2>7. (p > 0 <=> promised > 0) /\ (y > p <=> x > promised)
    <3>1. promised > 0 => k * promised > 0
      OBVIOUS
    <3>2. x > promised => k * x > k * promised
      OBVIOUS
    <3>3. x <= promised => k * x <= k * promised
      OBVIOUS
    <3> QED BY <2>2, <2>5, <3>1, <3>2, <3>3
  <2>8. ASSUME promised > 0, x > promised
        PROVE  P!Rounded(b * (y - p), p) = P!Rounded(b * (x - promised), promised)
    <3>1. PICK d \in Nat : d = x - promised
      BY <2>8
    <3>2. y - p = k * d
      BY <2>2, <2>5, <3>1
    <3>3. PICK n \in Nat : n = b * d
      OBVIOUS
    <3>4. b * (k * d) = k * n
      BY <3>3
    <3>5. PICK q \in Nat \ {0} : q = promised
      BY <2>8
    <3>6. P!Rounded(k * n, k * q) = P!Rounded(n, q)
      BY RoundedScales
    <3> QED BY <2>2, <3>1, <3>2, <3>3, <3>4, <3>5, <3>6
  <2> QED BY <1>5, <2>1, <2>2, <2>6, <2>7, <2>8
<1>7. P!OverDelivery(delivered + k, promised, c) >= P!OverDelivery(delivered, promised, c)
  <2>1. PICK w \in Nat : w = delivered + k
    OBVIOUS
  <2>2. PICK y \in Nat : y = P!Least(w, m) /\ y >= x
    BY <1>4, <2>1 DEF P!Least
  <2>3. /\ P!OverDelivery(w, promised, c)
           = IF promised > 0 /\ y > promised THEN P!Rounded(b * (y - promised), promised) ELSE 0
        /\ P!OverDelivery(w, promised, c) \in Nat
    <3>1. m = c.overCapRatio * promised
      BY <1>2, <1>3
    <3> QED BY <1>1, <2>2, <3>1, BonusIs
  <2>4. ASSUME promised > 0, x > promised
        PROVE  P!Rounded(b * (y - promised), promised) >= P!Rounded(b * (x - promised), promised)
    <3>1. PICK d \in Nat : d = x - promised
      BY <2>4
    <3>2. PICK e \in Nat : e = y - promised /\ d <= e
      BY <2>2, <2>4, <3>1
    <3>3. PICK n \in Nat : n = b * d
      OBVIOUS
    <3>4. PICK o \in Nat : o = b * e /\ n <= o
      BY <3>2, <3>3
    <3>5. PICK q \in Nat \ {0} : q = promised
      BY <2>4
    <3>6. P!Rounded(n, q) \in Nat /\ P!Rounded(o, q) \in Nat /\ P!Rounded(n, q) <= P!Rounded(o, q)
      BY <3>4, RoundedAscends, RoundedIs
    <3> QED BY <3>1, <3>2, <3>3, <3>4, <3>5, <3>6
  <2>5. CASE promised > 0 /\ x > promised
    BY <1>5, <2>1, <2>2, <2>3, <2>4, <2>5
  <2>6. CASE ~(promised > 0 /\ x > promised)
    BY <1>5, <2>1, <2>3, <2>6
  <2> QED BY <2>5, <2>6
<1>8. P!OverDelivery(delivered, promised, c) <= b * (r - 1)
  <2>1. PICK z \in Nat : z = b * (r - 1)
    <3>1. r - 1 \in Nat
      OBVIOUS
    <3> QED BY <3>1
  <2>2. CASE promised > 0 /\ x > promised
    <3>1. PICK q \in Nat \ {0} : q = promised
      BY <2>2
    <3>2. PICK d \in Nat : d = x - promised
      BY <2>2
    <3>3. PICK e \in Nat : e = m - promised /\ d <= e
      BY <1>4, <2>2, <3>2 DEF P!Least
    <3>4. b * e = q * z
      <4>1. e = (r - 1) * q
        BY <1>3, <3>1, <3>3
      <4> QED BY <2>1, <4>1
    <3>5. PICK n \in Nat : n = b * d
      OBVIOUS
    <3>6. PICK o \in Nat : o = q * z /\ n <= o
      <4>1. b * d <= b * e
        BY <3>3
      <4> QED BY <3>4, <3>5, <4>1
    <3>7. P!Rounded(n, q) <= P!Rounded(o, q) /\ P!Rounded(n, q) \in Nat
      BY <3>6, RoundedAscends, RoundedIs
    <3>8. P!Rounded(o, q) = z
      <4>1. PICK s \in Nat : s = 2 * o + q
        OBVIOUS
      <4>2. PICK t \in Nat \ {0} : t = 2 * q
        OBVIOUS
      <4>3. t * z = 2 * o
        BY <3>6, <4>2
      <4>4. t * z <= s /\ s < t * z + t
        BY <4>1, <4>2, <4>3
      <4>5. s \div t = z
        BY <4>4, QuotientIs
      <4> QED BY <4>1, <4>2, <4>5, RoundedIs
    <3> QED BY <1>5, <2>1, <2>2, <3>1, <3>2, <3>5, <3>7, <3>8
  <2>3. CASE ~(promised > 0 /\ x > promised)
    BY <1>5, <2>1, <2>3
  <2> QED BY <2>2, <2>3
<1> QED BY <1>1, <1>2, <1>6, <1>7, <1>8 DEF P!BonusIsRelative

\* applyCampaignCap(): of any number of awards, what is kept is what fits under the cap.
LEMMA SumOfFirst ==
  ASSUME NEW f, NEW n \in Nat, \A i \in 1 .. n : f[i] \in Int, NEW j \in Nat, j < n
  PROVE  /\ SumFunctionOnSet(f, 1 .. j) \in Int
         /\ SumFunctionOnSet(f, 1 .. j + 1) = f[j + 1] + SumFunctionOnSet(f, 1 .. j)
<1>1. PICK S : S = 1 .. j
  OBVIOUS
<1>2. PICK x \in 1 .. n : x = j + 1
  OBVIOUS
<1>3. x \notin S /\ 1 .. j + 1 = S \cup {x} /\ \A i \in S : i \in 1 .. n
  BY <1>1, <1>2
<1>4. IsFiniteSet(S)
  BY <1>1, FS_Interval
<1>5. \A i \in S \cup {x} : f[i] \in Int
  BY <1>3
<1>6. SumFunctionOnSet(f, S \cup {x}) = f[x] + SumFunctionOnSet(f, S)
  BY <1>3, <1>4, <1>5, SumMore
<1>7. SumFunctionOnSet(f, S) \in Int
  BY <1>4, <1>5, SumIsInt
<1> QED BY <1>1, <1>2, <1>3, <1>6, <1>7

LEMMA SumOfMore ==
  ASSUME NEW f, NEW n \in Nat, \A i \in 1 .. n : f[i] \in Nat, NEW j \in Nat, NEW k \in Nat, j <= k, k <= n
  PROVE  SumFunctionOnSet(f, 1 .. j) <= SumFunctionOnSet(f, 1 .. k)
<1>1. PICK S : S = 1 .. j
  OBVIOUS
<1>2. PICK T : T = j + 1 .. k
  OBVIOUS
<1>3. 1 .. k = S \cup T /\ S \cap T = {} /\ \A i \in S \cup T : i \in 1 .. n
  BY <1>1, <1>2
<1>4. IsFiniteSet(S) /\ IsFiniteSet(T)
  BY <1>1, <1>2, FS_Interval
<1>5. \A i \in S \cup T : f[i] \in Nat
  BY <1>3
<1>6. SumFunctionOnSet(f, S) \in Nat /\ SumFunctionOnSet(f, T) \in Nat
  BY <1>4, <1>5, SumIsNat
<1>7. \A i \in S \cup T : f[i] \in Int
  BY <1>5
<1>8. SumFunctionOnSet(f, S \cup T) = SumFunctionOnSet(f, S) + SumFunctionOnSet(f, T)
  BY <1>3, <1>4, <1>7, SumSplit
<1>9. PICK x \in Nat : x = SumFunctionOnSet(f, S)
  BY <1>6
<1>10. PICK y \in Nat : y = SumFunctionOnSet(f, T)
  BY <1>6
<1>11. SumFunctionOnSet(f, 1 .. j) = x /\ SumFunctionOnSet(f, 1 .. k) = x + y
  BY ONLY <1>1, <1>3, <1>8, <1>9, <1>10
<1> QED BY <1>9, <1>10, <1>11

THEOREM CapAlwaysExact ==
  ASSUME NEW awards \in Seq(Nat), NEW prior \in Int, NEW cap \in Nat
  PROVE  P!CapIsExact(awards, prior, cap)
<1>1. PICK n \in Nat : n = Len(awards)
  OBVIOUS
<1>2. DOMAIN awards = 1 .. n /\ \A i \in 1 .. n : awards[i] \in Nat
  BY <1>1
<1>3. PICK kept : kept = P!ApplyCampaignCap(awards, prior, cap)
  OBVIOUS
<1>4. \A f, S : P!SumFunctionOnSet(f, S) = SumFunctionOnSet(f, S)
  BY Zenon DEF P!SumFunctionOnSet, SumFunctionOnSet, P!FoldFunctionOnSet, FoldFunctionOnSet,
               P!MapThenFoldSet, MapThenFoldSet
<1>5. CASE cap = 0
  <2>1. kept = awards
    BY <1>3, <1>5 DEF P!ApplyCampaignCap
  <2>2. \A i, j \in DOMAIN awards :
          kept[i] <= awards[i] /\ (i < j /\ kept[i] < awards[i] => kept[j] = 0)
    BY <1>2, <2>1
  <2> QED BY <1>3, <1>5, <2>1, <2>2 DEF P!CapIsExact
<1>6. CASE cap > 0
  <2>1. PICK room \in Int : room = cap - P!Greatest(0, prior)
    <3>1. cap - P!Greatest(0, prior) \in Int
      BY DEF P!Greatest
    <3> QED BY <3>1
  <2> DEFINE S(f, j) == SumFunctionOnSet(f, 1 .. j)
  <2>2. DOMAIN kept = 1 .. n /\ \A i \in 1 .. n : kept[i] = P!Clamp(room - S(awards, i - 1), 0, awards[i])
    <3>1. kept = [i \in 1 .. n |->
                    P!Clamp(cap - P!Greatest(0, prior) - P!SumBefore(awards, i), 0, awards[i])]
      BY <1>2, <1>3, <1>6 DEF P!ApplyCampaignCap
    <3>2. \A i : P!SumBefore(awards, i) = S(awards, i - 1)
      BY <1>4 DEF P!SumBefore
    <3> HIDE DEF S
    <3> QED BY <2>1, <3>1, <3>2
  <2>3. \A j \in Nat : j <= n => S(awards, j) \in Nat
    <3> SUFFICES ASSUME NEW j \in Nat, j <= n PROVE S(awards, j) \in Nat
      OBVIOUS
    <3>1. \A i \in 1 .. j : awards[i] \in Nat
      BY <1>2
    <3>2. IsFiniteSet(1 .. j)
      BY FS_Interval
    <3> QED BY <3>1, <3>2, SumIsNat
  <2>4. \A i \in 1 .. n : kept[i] \in Nat /\ kept[i] <= awards[i]
    <3> SUFFICES ASSUME NEW i \in 1 .. n PROVE kept[i] \in Nat /\ kept[i] <= awards[i]
      OBVIOUS
    <3>1. PICK s \in Nat : s = S(awards, i - 1)
      <4>1. i - 1 \in Nat /\ i - 1 <= n
        OBVIOUS
      <4> HIDE DEF S
      <4> QED BY <2>3, <4>1
    <3>2. PICK x \in Nat : x = awards[i]
      BY <1>2
    <3>3. P!Clamp(room - s, 0, x) \in Nat /\ P!Clamp(room - s, 0, x) <= x
      BY DEF P!Clamp, P!Least, P!Greatest
    <3> HIDE DEF S
    <3> QED BY <2>2, <3>1, <3>2, <3>3
  <2> DEFINE shown == {j \in Nat : j <= n => S(kept, j) = P!Least(S(awards, j), P!Greatest(0, room))}
  <2>5. 0 \in shown
    <3>1. 1 .. 0 = {}
      OBVIOUS
    <3>2. S(kept, 0) = 0 /\ S(awards, 0) = 0
      BY <3>1, SumNothing
    <3>3. P!Least(0, P!Greatest(0, room)) = 0
      BY DEF P!Least, P!Greatest
    <3> HIDE DEF S
    <3> QED BY <3>2, <3>3
  <2>6. ASSUME NEW j \in Nat, j \in shown PROVE j + 1 \in shown
    <3> SUFFICES ASSUME j + 1 <= n
                 PROVE  S(kept, j + 1) = P!Least(S(awards, j + 1), P!Greatest(0, room))
      OBVIOUS
    <3>1. PICK i \in 1 .. n : i = j + 1 /\ i - 1 = j
      OBVIOUS
    <3>2. PICK s \in Nat : s = S(awards, j)
      <4> HIDE DEF S
      <4> QED BY <2>3
    <3>3. PICK x \in Nat : x = awards[i]
      BY <1>2
    <3>4. S(awards, j + 1) = x + s
      <4>1. \A k \in 1 .. n : awards[k] \in Int
        BY <1>2
      <4>2. S(awards, j + 1) = awards[j + 1] + S(awards, j)
        BY <4>1, SumOfFirst
      <4> HIDE DEF S
      <4> QED BY <3>1, <3>2, <3>3, <4>2
    <3>5. PICK y \in Nat : y = kept[i] /\ y = P!Clamp(room - s, 0, x)
      <4> HIDE DEF S
      <4> QED BY <2>2, <2>4, <3>1, <3>2, <3>3
    <3>6. PICK t \in Int : t = S(kept, j) /\ t = P!Least(s, P!Greatest(0, room))
      <4>1. S(kept, j) = P!Least(s, P!Greatest(0, room))
        <5>1. j <= n
          BY <3>1
        <5> HIDE DEF S
        <5> QED BY <2>6, <3>2, <5>1
      <4>2. P!Least(s, P!Greatest(0, room)) \in Int
        BY DEF P!Least, P!Greatest
      <4> HIDE DEF S
      <4> QED BY <4>1, <4>2
    <3>7. S(kept, j + 1) = y + t
      <4>1. \A k \in 1 .. n : kept[k] \in Int
        BY <2>4
      <4>2. S(kept, j + 1) = kept[j + 1] + S(kept, j)
        BY <4>1, SumOfFirst
      <4> HIDE DEF S
      <4> QED BY <3>1, <3>5, <3>6, <4>2
    <3>8. y + t = P!Least(x + s, P!Greatest(0, room))
      BY <3>5, <3>6 DEF P!Clamp, P!Least, P!Greatest
    <3> HIDE DEF S
    <3> QED BY <3>4, <3>7, <3>8
  <2>7. \A j \in Nat : j \in shown
    <3> HIDE DEF shown
    <3> QED BY <2>5, <2>6, CountInduction
  <2>8. S(kept, n) = P!Least(S(awards, n), P!Greatest(0, room))
    <3>1. n <= n
      OBVIOUS
    <3> HIDE DEF S
    <3> QED BY <2>7, <3>1
  <2>9. P!Sum(kept) = S(kept, n) /\ P!Sum(awards) = S(awards, n)
    BY <1>2, <1>4, <2>2 DEF P!Sum
  <2>10. ASSUME NEW i \in 1 .. n, NEW j \in 1 .. n, i < j, kept[i] < awards[i] PROVE kept[j] = 0
    <3>1. PICK s \in Nat : s = S(awards, i - 1)
      <4>1. i - 1 \in Nat /\ i - 1 <= n
        OBVIOUS
      <4> HIDE DEF S
      <4> QED BY <2>3, <4>1
    <3>2. PICK t \in Nat : t = S(awards, j - 1)
      <4>1. j - 1 \in Nat /\ j - 1 <= n
        OBVIOUS
      <4> HIDE DEF S
      <4> QED BY <2>3, <4>1
    <3>3. PICK x \in Nat, y \in Nat : x = awards[i] /\ y = awards[j]
      BY <1>2
    <3>4. s + x <= t
      <4>1. S(awards, i) = x + s
        <5>1. PICK k \in Nat : k = i - 1 /\ k + 1 = i /\ k < n
          <6>1. i - 1 \in Nat /\ (i - 1) + 1 = i /\ i - 1 < n
            OBVIOUS
          <6> QED BY <6>1
        <5>2. \A m \in 1 .. n : awards[m] \in Int
          BY <1>2
        <5>3. S(awards, k + 1) = awards[k + 1] + S(awards, k)
          BY <5>1, <5>2, SumOfFirst
        <5> HIDE DEF S
        <5> QED BY <3>1, <3>3, <5>1, <5>3
      <4>2. PICK k \in Nat : k = j - 1 /\ i <= k /\ k <= n
        <5>1. j - 1 \in Nat /\ i <= j - 1 /\ j - 1 <= n
          BY <2>10
        <5> QED BY <5>1
      <4>3. PICK l \in Nat : l = i
        OBVIOUS
      <4>4. S(awards, l) <= S(awards, k)
        BY <1>2, <4>2, <4>3, SumOfMore
      <4> HIDE DEF S
      <4> QED BY <3>2, <4>1, <4>2, <4>3, <4>4
    <3>5. kept[i] = P!Clamp(room - s, 0, x) /\ kept[j] = P!Clamp(room - t, 0, y)
      <4> HIDE DEF S
      <4> QED BY <2>2, <3>1, <3>2, <3>3
    <3>6. P!Clamp(room - s, 0, x) < x => P!Clamp(room - t, 0, y) = 0
      BY <3>4 DEF P!Clamp, P!Least, P!Greatest
    <3> QED BY <2>10, <3>3, <3>5, <3>6
  <2> HIDE DEF S
  <2>11. P!Sum(kept) = P!Least(P!Sum(awards), P!Greatest(0, cap - P!Greatest(0, prior)))
    BY <2>1, <2>8, <2>9
  <2>12. \A i, j \in DOMAIN awards :
          kept[i] <= awards[i] /\ (i < j /\ kept[i] < awards[i] => kept[j] = 0)
    BY <1>2, <2>4, <2>10
  <2> QED BY <1>3, <1>6, <2>11, <2>12 DEF P!CapIsExact
<1> QED BY <1>5, <1>6

\* The inputs TLC is given are some of those.
LEMMA GridHolds == ASSUME probe \in 0 .. 40 PROVE PureRulesHold
<1>1. PICK x \in Nat : x = probe
  OBVIOUS
<1>2. \A scored, proven \in SUBSET People : M!GateLeavesEnough(scored, proven, x)
  <2> SUFFICES ASSUME NEW scored \in SUBSET People, NEW proven \in SUBSET People
               PROVE  M!GateLeavesEnough(scored, proven, x)
    OBVIOUS
  <2>1. IsFiniteSet(People)
    <3>1. PICK a \in Int, b \in Int : a = 1 /\ b = 4
      OBVIOUS
    <3>2. IsFiniteSet(a .. b)
      BY FS_Interval
    <3> QED BY <3>1, <3>2 DEF People
  <2>2. IsFiniteSet(scored)
    BY <2>1, FS_Subset
  <2> QED BY <2>2, GateNeverStarves
<1>3. ASSUME x \in 1 .. 4, NEW w \in Windows PROVE M!DeadlinesFit(w, x)
  <2>1. /\ w.start \in {-1, 0, 12, 30} /\ w.now = 10 /\ w.end \in {-1, 9, 16, 24, 60}
        /\ w.window \in {4, 24} /\ w.buffer \in {0, 8}
    BY DEF Windows
  <2>2. w \in Window
    BY DEF Windows, Window
  <2>3. PICK n \in Nat \ {0} : n = x /\ n <= 4
    BY <1>3
  <2>4. Roomy(w, n)
    BY <2>1, <2>3 DEF Roomy, M!Greatest
  <2> QED BY <2>2, <2>3, <2>4, DeadlinesAlwaysFit
<1>4. ASSUME NEW c \in Channels PROVE M!UnprovenIsCapped(c, 25 * x, 30)
  <2>1. /\ DOMAIN c = {"group", "active", "claimed", "factor", "tier", "age"}
        /\ c.group \in BOOLEAN /\ c.active \in Nat /\ c.claimed \in Nat /\ c.factor \in Nat
        /\ c.tier \in {"SELF", "SCREENSHOT", "INSIGHTS"} /\ c.age \in Int
    BY DEF Channels
  <2>2. PICK cap \in Int, validity \in Int : cap = 25 * x /\ validity = 30
    OBVIOUS
  <2>3. M!UnprovenIsCapped(c, cap, validity)
    BY <2>1, UnprovenAlwaysCapped
  <2> QED BY <2>2, <2>3
<1>5. ASSUME x > 0, NEW p \in Candidate, NEW q \in Candidate
      PROVE  M!RankedFairly(p, q, "DISTRIBUTOR", 10 * x, {})
  <2>1. p \in RankedPerson({}) /\ q \in RankedPerson({})
    <3> SUFFICES ASSUME NEW r \in Candidate PROVE r \in RankedPerson({})
      OBVIOUS
    <3>1. PICK s : s = SUBSET {} /\ {} \in s
      OBVIOUS
    <3>2. /\ r.reach \in {1, 60, 4000} /\ r.trust \in {20, 70} /\ r.reliability \in {0, 90}
          /\ r.stored \in {50} /\ r.categories \in s /\ r.perWeek \in {4} /\ r.thisWeek \in {0, 3}
          /\ r.tier \in {"SELF"}
      BY <3>1 DEF Candidate
    <3>3. r = [reach |-> r.reach, trust |-> r.trust, reliability |-> r.reliability,
               stored |-> r.stored, categories |-> r.categories, perWeek |-> r.perWeek,
               thisWeek |-> r.thisWeek, tier |-> r.tier]
      BY DEF Candidate
    <3>4. /\ r.reach \in Nat /\ r.trust \in Int /\ r.reliability \in Int /\ r.stored \in Int
          /\ r.perWeek \in Int /\ r.thisWeek \in Nat /\ r.tier \in {"SELF", "SCREENSHOT", "INSIGHTS"}
      BY <3>2
    <3> QED BY <3>1, <3>2, <3>3, <3>4 DEF RankedPerson
  <2>2. PICK need \in Nat \ {0} : need = 10 * x
    BY <1>5
  <2>3. PICK targeted : targeted = {} /\ IsFiniteSet(targeted)
    BY FS_EmptySet
  <2>4. M!RankedFairly(p, q, "DISTRIBUTOR", need, targeted)
    BY <2>1, <2>3, RankingAlwaysFair
  <2> QED BY <2>2, <2>3, <2>4
<1>6. ASSUME NEW reliability \in {0, 79, 80, 100}, NEW more \in {0, 1, 10, 40}
      PROVE  P!TierAscends(x, reliability, more, Config)
  <2>1. /\ Config.silver = 10 /\ Config.gold = 20 /\ Config.platinum = 30 /\ Config.floor = 80
    BY DEF Config
  <2>2. PICK i \in Int, r \in Int, m \in Nat : i = x /\ r = reliability /\ m = more
    OBVIOUS
  <2>3. P!TierAscends(i, r, m, Config)
    BY <2>1, TiersAlwaysAscend
  <2> QED BY <2>2, <2>3
<1>7. ASSUME NEW length \in {1, 7, 28} PROVE P!SeasonsTile(x - 20, 0, length)
  <2>1. PICK day \in Int, epoch \in Int, l \in Nat \ {0} : day = x - 20 /\ epoch = 0 /\ l = length
    OBVIOUS
  <2>2. P!SeasonsTile(day, epoch, l)
    BY SeasonsAlwaysTile
  <2> QED BY <2>1, <2>2
<1>8. ASSUME NEW promised \in 1 .. 12, NEW k \in {1, 2, 10} PROVE P!BonusIsRelative(x, promised, k, Config)
  <2>1. Config.overBase \in Nat /\ Config.overCapRatio \in Nat \ {0}
    BY DEF Config
  <2>2. PICK q \in Nat, m \in Nat \ {0} : q = promised /\ m = k
    OBVIOUS
  <2>3. P!BonusIsRelative(x, q, m, Config)
    BY <2>1, BonusAlwaysRelative
  <2> QED BY <2>2, <2>3
<1>9. ASSUME NEW cap \in {0, 1, 9, 15}, NEW prior \in {-3, 0, 5, 20}
      PROVE  P!CapIsExact(<<x, 4, x % 3, 6>>, prior, cap)
  <2>1. PICK awards \in Seq(Nat) : awards = <<x, 4, x % 3, 6>>
    <3>1. x % 3 \in Nat
      OBVIOUS
    <3>2. <<x, 4, x % 3, 6>> \in Seq(Nat)
      BY <3>1
    <3> QED BY <3>2
  <2>2. PICK h \in Nat, j \in Int : h = cap /\ j = prior
    OBVIOUS
  <2>3. P!CapIsExact(awards, j, h)
    BY CapAlwaysExact
  <2> QED BY <2>1, <2>2, <2>3
<1> QED BY <1>1, <1>2, <1>3, <1>4, <1>5, <1>6, <1>7, <1>8, <1>9 DEF PureRulesHold

\* The rules of matching and of points hold for what TLC is given of them, as of any input
\* above; and however the rates change, between whichever reads, escrow holds the price of
\* every post still owed, a post is paid within what its offer showed, and offers that keep
\* to the quote reach its target, at any rates, prices, reaches and number of promoters.
THEOREM RulesAlwaysHold == AllSpec => []RulesHold
<1> DEFINE Kept == RatesInv /\ probe \in 0 .. 40
<1>1. AllInit => Kept
  <2> SUFFICES ASSUME AllInit PROVE Kept OBVIOUS
  <2>1. R!Init
    BY DEF AllInit
  <2>2. probe \in 0 .. 40
    BY DEF AllInit
  <2> QED BY <2>1, <2>2, RatesInitially
<1>2. Kept /\ [AllNext]_allVars => Kept'
  <2> SUFFICES ASSUME Kept, [AllNext]_allVars PROVE Kept' OBVIOUS
  <2>1. [R!Next]_rateVars /\ UNCHANGED probe
    BY DEF AllNext, allVars
  <2> QED BY <2>1, RatesInductive
<1>3. Kept => RulesHold
  <2> SUFFICES ASSUME Kept PROVE RulesHold OBVIOUS
  <2>1. R!TypeOK
    BY DEF RatesInv
  <2> QED BY <2>1, GridHolds, EscrowFollows, RangeFollows, GoalFollows DEF RulesHold
<1> HIDE DEF Kept
<1> QED BY <1>1, <1>2, <1>3, PTL DEF AllSpec

===============================================================================
