-------------------------------- MODULE Pricing --------------------------------
(***************************************************************************)
(* The money arithmetic of common/pricing/pricing.ts and of quote(): what  *)
(* a slot costs, how many slots an exact price buys, and how one delivered *)
(* post is settled.  Everything is integer kobo and integer views; rounding*)
(* is the only thing that can lose or invent money here.                   *)
(***************************************************************************)
EXTENDS Integers

CONSTANTS Scale,          \* 1000 views x 100 x 100 hundredths (10,000,000 in the code)
          Rpm,            \* kobo per 1000 views of the category
          ObjectiveMult,  \* objective multiplier, in hundredths
          TargetingStep,  \* hundredths per active filter ...
          TargetingCap,   \* ... up to this
          TakeRate,       \* Ralia's share in percent
          Threshold       \* the delivery floor, in percent of the promised reach

ASSUME PricingAssumption == /\ {Scale, Rpm, ObjectiveMult, TargetingCap} \subseteq Nat \ {0}
                            /\ TargetingStep \in Nat
                            /\ TakeRate \in 0 .. 100
                            /\ Threshold \in 1 .. 100

Least(a, b) == IF a <= b THEN a ELSE b
Greatest(a, b) == IF a <= b THEN b ELSE a

\* divRound(): half up, both arguments positive.
DivRound(n, d) == (n + d \div 2) \div d

Ceiling(n, d) == (n + d - 1) \div d

\* targetingMultHundredths() of the number of active filters.
TargetingMult(filters) == Least(100 + TargetingStep * filters, TargetingCap)

\* slotPriceMinor()
SlotPrice(reach, filters) ==
  DivRound(reach * Rpm * ObjectiveMult * TargetingMult(filters), Scale)

\* slotTargetReach(): the reach a price was budgeted for.
TargetReach(price, filters) ==
  DivRound(price * Scale, Rpm * ObjectiveMult * TargetingMult(filters))

\* sizeFromPrice(): the price is kept to the kobo, only the slot count rounds.
SlotsForPrice(price, filters, reachPerSlot) ==
  LET basis == Greatest(1, reachPerSlot)
  IN  Greatest(1, (2 * TargetReach(price, filters) + basis) \div (2 * basis))

\* Fault: the unit price is rounded up.
FaultUnitRoundedUp(price, units) == Ceiling(price, units)

\* quote(): the exact price spread over slots x posts, floored.
UnitPrice(price, units) == price \div units

\* splitFee(): the promoter's side of an amount; Ralia's is what is left.
PromoterFee(amount) == DivRound(amount * (100 - TakeRate), 100)

\* Fault: the take is rounded by itself instead of being what the fee leaves.
FaultTakeRounded(amount) == DivRound(amount * TakeRate, 100)

RaliaTake(amount) == amount - PromoterFee(amount)

-------------------------------------------------------------------------------
(* settleDelivery() *)

MeetsThreshold(verified, promised) == verified * 100 >= Threshold * promised

\* Fault: over-delivery is not capped at what was promised.
FaultUncapped(gross, verified, promised) == DivRound(gross * verified, promised)

\* The part of gross that leaves escrow; the rest of it stays there.
DeliveredGross(gross, verified, promised) ==
  DivRound(gross * Least(verified, promised), promised)

\* Fault: reopens for the whole deficit, whatever escrow can pay.
FaultReopenUnaffordable(deficit, reachPerSlot, escrow, slotCost) ==
  IF slotCost = 0 THEN 0 ELSE Ceiling(deficit, reachPerSlot)

\* Fault: the deficit is rounded down to whole slots.
FaultDeficitFloored(deficit, reachPerSlot, escrow, slotCost) ==
  IF slotCost = 0 \/ deficit <= 0 THEN 0
  ELSE Least(deficit \div reachPerSlot, escrow \div slotCost)

\* approveSubmission(): the slots to open again for the missing reach, never
\* more than escrow can pay for.
ReopenCount(deficit, reachPerSlot, escrow, slotCost) ==
  IF slotCost = 0 \/ deficit <= 0 THEN 0
  ELSE Least(Ceiling(deficit, reachPerSlot), escrow \div slotCost)

===============================================================================
