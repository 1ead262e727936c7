------------------------------ MODULE MCDelivery ------------------------------
(***************************************************************************)
(* One campaign for TLC, on both sides of its payment.  Either it is       *)
(* delivered, by requests, sweeps and a crash that overlap: a post is      *)
(* worth 4 kobo for 4 views; 3 views meet the 60 percent floor, pay 3 kobo *)
(* and leave 1 in escrow (Delivery).  Or its owner still edits and prices  *)
(* the brief, with requests that overlap or die and without (Brief).  The  *)
(* two share no row, so a behaviour exercises one while the other rests.   *)
(***************************************************************************)
EXTENDS Delivery, TLC

CONSTANTS Overlaps, MaxPosts, Asked, Moments, Reaches, Typed, Minimum    \* the brief

VARIABLES
  scenario,                                                        \* "brief" or "delivery"
  brief, targeting, status, price, slots, goal, calm, doing, seen  \* the brief

B == INSTANCE Brief WITH
       Client <- Worker, Rpm <- 2, ObjectiveMult <- 120, TargetingStep <- 25, TargetingCap <- 120

ASSUME BriefAssumption == B!BriefAssumption

briefVars == <<brief, targeting, status, price, slots, goal, calm, doing, seen>>
allVars == <<vars, briefVars, scenario>>

Symmetry == Permutations(Promoter) \cup Permutations(Worker)

\* A part that rests does so in one of its initial states.
CampaignInit ==
  /\ scenario \in {"brief", "delivery"}
  /\ Init /\ B!Init
  /\ scenario # "brief" => calm /\ brief = CHOOSE b \in {B!WithPosts(dto) : dto \in B!Fields} : TRUE

CampaignNext ==
  \/ scenario = "delivery" /\ Next /\ UNCHANGED <<briefVars, scenario>>
  \/ scenario = "brief" /\ B!Next /\ UNCHANGED <<vars, scenario>>

CampaignSpec == CampaignInit /\ [][CampaignNext]_allVars

\* What quote() committed is what the campaign says, and what plan() showed (Brief).
QuoteIsCurrent == scenario = "brief" => B!TypeOK /\ B!QuoteIsCurrent /\ B!PreviewIsQuote

===============================================================================
