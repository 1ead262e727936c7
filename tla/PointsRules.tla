------------------------------ MODULE PointsRules ------------------------------
(***************************************************************************)
(* The pure rules of the leaderboard: what a delivery earns and how a      *)
(* campaign's total is capped (points-rules.ts), tiers and the way to the  *)
(* next one (tier.ts, leaderboard.service.ts), and seasons (season.ts).  A *)
(* configuration c is a record of the columns of leaderboard_config used.  *)
(***************************************************************************)
EXTENDS Matching, SequencesExt

\* The types of a delivery's awards, in their order.
Earning == <<"DELIVERY_COMPLETED", "DELIVERED_ON_TIME", "QUALITY_CLEAN", "OVER_DELIVERY">>

Sum(seq) == SumFunctionOnSet(seq, DOMAIN seq)
SumBefore(seq, i) == SumFunctionOnSet(seq, 1 .. i - 1)

\* The bonus for more views than promised goes by the ratio, up to a ceiling.
OverDelivery(verified, promised, c) ==
  LET counted == Least(verified, c.overCapRatio * promised)
  IN  IF promised > 0 /\ counted > promised
      THEN Rounded(c.overBase * (counted - promised), promised) ELSE 0

\* deliveryAwards(): what is awarded of each type; 0 is no award.
DeliveryAwards(f, c) ==
  LET Scaled(p) == Rounded(p * f.mult, 100)
  IN  <<Scaled(c.completed), IF f.onTime THEN c.onTime ELSE 0,
        IF f.flagged THEN 0 ELSE c.clean, Scaled(OverDelivery(f.verified, f.promised, c))>>

\* Fault: the award that crosses the cap is kept whole.
FaultCampaignCap(awards, prior, cap) ==
  [i \in DOMAIN awards |->
     IF Greatest(0, prior) + SumBefore(awards, i) < cap THEN awards[i] ELSE 0]

\* applyCampaignCap(): in order, as far as there is room; a cap of 0 is no cap.
ApplyCampaignCap(awards, prior, cap) ==
  IF cap = 0 THEN awards
  ELSE [i \in DOMAIN awards |->
          Clamp(cap - Greatest(0, prior) - SumBefore(awards, i), 0, awards[i])]

\* tierFor(), as 0 for BRONZE to 3 for PLATINUM
Tier(rolling, reliability, c) ==
  LET reliable == reliability >= c.floor
  IN  CASE rolling >= c.platinum /\ reliable -> 3
        [] rolling >= c.gold /\ reliable /\ rolling < c.platinum -> 2
        [] rolling >= c.silver /\ (rolling < c.gold \/ ~reliable) -> 1
        [] OTHER -> 0

\* nextTierProgress(): the next tier up, and the points still needed.
NextTier(tier) == tier + 1
PointsToGo(tier, rolling, c) == Greatest(0, <<c.silver, c.gold, c.platinum>>[NextTier(tier)] - rolling)

\* tiersAtOrAbove()
TiersAtOrAbove(tier) == tier .. 3

\* seasonWindow(): the number of the season of a day, and the day the next one begins.
SeasonIndex(day, epoch, length) == (day - epoch) \div length
SeasonEnd(day, epoch, length) == epoch + (SeasonIndex(day, epoch, length) + 1) * length

-------------------------------------------------------------------------------
(* What these rules promise of any input *)

\* applyCampaignCap(): what is kept is what fits under the cap, to the point, no award is
\* raised, and once one is trimmed nothing after it is kept.
CapIsExact(awards, prior, cap) ==
  LET kept == ApplyCampaignCap(awards, prior, cap) IN
  /\ cap > 0 => Sum(kept) = Least(Sum(awards), Greatest(0, cap - Greatest(0, prior)))
  /\ cap = 0 => kept = awards
  /\ \A i, j \in DOMAIN awards :
       kept[i] <= awards[i] /\ (i < j /\ kept[i] < awards[i] => kept[j] = 0)

\* deliveryAwards(): the bonus is "relative, not absolute": the same for a delivery k times
\* as large of a promise k times as large, never less for more views, and never above
\* its ceiling.
BonusIsRelative(verified, promised, k, c) ==
  /\ OverDelivery(k * verified, k * promised, c) = OverDelivery(verified, promised, c)
  /\ OverDelivery(verified + k, promised, c) >= OverDelivery(verified, promised, c)
  /\ OverDelivery(verified, promised, c) <= c.overBase * (c.overCapRatio - 1)

\* tierFor(), nextTierProgress(): neither more points nor more reliability ever lowers the
\* tier, and a reliable promoter who earns the points still needed is in the next tier.
TierAscends(rolling, reliability, more, c) ==
  LET tier == Tier(rolling, reliability, c) IN
  /\ Tier(rolling + more, reliability, c) \in TiersAtOrAbove(tier)
  /\ Tier(rolling, reliability + more, c) \in TiersAtOrAbove(tier)
  /\ tier < 3 /\ reliability >= c.floor =>
       Tier(rolling + PointsToGo(tier, rolling, c), reliability, c) = NextTier(tier)

\* seasonWindow(): every day is in one season, which ends where the next begins, before
\* the epoch as after it.
SeasonsTile(day, epoch, length) ==
  LET end == SeasonEnd(day, epoch, length) IN
  /\ end - length <= day /\ day < end
  /\ SeasonIndex(end, epoch, length) = SeasonIndex(day, epoch, length) + 1
  /\ SeasonIndex(end - 1, epoch, length) = SeasonIndex(day, epoch, length)

===============================================================================
