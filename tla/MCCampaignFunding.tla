--------------------------- MODULE MCCampaignFunding ---------------------------
(***************************************************************************)
(* The money of a campaign for TLC.  Either a campaign of two possible     *)
(* prices is paid, by card or by transfer, and refunded, with overlapping  *)
(* requests and without; or a paid campaign of one slot, of three posts,   *)
(* is delivered by requests that do not overlap: proofs can be sent back,  *)
(* approvals retried under another key, offers declined, assignments       *)
(* pulled and revived, and 8 views over-deliver a post of 4 kobo for 4     *)
(* views; or admins settle, flag and report what the gateway charged.  No  *)
(* two of the three write a row of the other, so a behaviour exercises one *)
(* while the others rest.                                                  *)
(***************************************************************************)
EXTENDS CampaignFunding, TLC

CONSTANTS
  Promoter, Decliner, SlotId, Submission, Handler, Sweeper,
  Posts, Unit, Reach, InitialSlots, Views, Attempts,
  Admin, Amounts,                                    \* of the gateway's payments
  Scale, Rpm, ObjectiveMult, TargetingStep, TargetingCap, TakeRate, Threshold

VARIABLES
  scenario,                                          \* what this behaviour exercises
  campaign, slot, offer, asg, post, sub, pot, paid,  \* pot and paid are its escrow and posted
  swept, seen, claims, dings, step, read, run, dead, \* noted, pc, job and crashes
  credit, row, settles, flagged, listed, report, sole, at, task

D == INSTANCE Delivery WITH
       escrow <- pot, posted <- paid, noted <- seen, pc <- step, job <- read, crashes <- dead,
       Worker <- Handler, Serial <- TRUE, MaxCrashes <- 0

G == INSTANCE Reconciliation WITH pc <- at, job <- task

ASSUME ReconciliationAssumption == G!ReconciliationAssumption
ASSUME DeliveryAssumption == D!DeliveryAssumption
ASSUME PricingAssumption == D!PricingAssumption

deliveryVars == <<campaign, slot, offer, asg, post, sub, pot, paid, swept, seen, claims, dings,
                  step, read, run, dead>>
gatewayVars == <<credit, row, settles, flagged, listed, report, sole, at, task>>
allVars == <<vars, deliveryVars, gatewayVars, scenario>>

Symmetry == Permutations(Worker) \cup Permutations(Transfer) \cup Permutations(Reference)
              \cup Permutations(Promoter)

\* A part that rests does so in one of its initial states.
MoneyInit ==
  /\ scenario \in {"funding", "delivery", "gateway"}
  /\ Init /\ (scenario # "funding" => alone /\ charge = [r \in Reference |-> CHOOSE p \in Prices : TRUE])
  /\ D!Init
  /\ G!Init /\ (scenario # "gateway" => sole)

MoneyNext ==
  \/ scenario = "funding" /\ Next /\ UNCHANGED <<deliveryVars, gatewayVars, scenario>>
  \/ scenario = "delivery" /\ D!Next /\ UNCHANGED <<vars, gatewayVars, scenario>>
  \/ scenario = "gateway" /\ G!Next /\ UNCHANGED <<vars, deliveryVars, scenario>>

MoneySpec == MoneyInit /\ [][MoneyNext]_allVars

\* The gateway's rows, the ledger, and what admins did with the rows agree (Reconciliation).
GatewayAgrees == scenario = "gateway" => G!TypeOK /\ G!ReportsMatch /\ G!RowTellsHistory

\* And slots, posts, proofs, money and assignments do if requests do not overlap (Delivery).
RecordsAgree == GatewayAgrees /\ (scenario = "delivery" => D!SlotPool /\ D!RecordsAgree)

\* Then nothing that was paid, forfeited or decided is taken back (Delivery).
Final == [][D!KeepsFinal]_deliveryVars

===============================================================================
