------------------------------- MODULE MCPeople -------------------------------
(***************************************************************************)
(* Standing, Team and Notifications on small instances, in one run.  They  *)
(* share no row, so nothing is lost by letting a behaviour exercise one of *)
(* them while the others rest, and the state spaces add up instead of      *)
(* multiplying.                                                            *)
(***************************************************************************)
EXTENDS Standing, TLC

CONSTANTS
  onTime, late, rejected, noShow,                               \* outcomes
  Person, Founder, Invite, Request, Overlap,                    \* the team
  Note, DedupeKey, Dispatcher, Limit, MaxAttempts, MaxFaults    \* the mail

VARIABLES
  scenario,                                      \* the part this behaviour exercises
  account, manages, invite, alone, step, read,   \* the team; step and read are its pc and job
  note, batch, place, mailed, refused, faults    \* the mail

T == INSTANCE Team WITH Worker <- Request, Modes <- Overlap, pc <- step, job <- read
N == INSTANCE Notifications

ASSUME PeopleAssumption == T!TeamAssumption /\ N!NotificationsAssumption

teamVars == <<account, manages, invite, alone, step, read>>
mailVars == <<note, batch, place, mailed, refused, faults>>
allVars == <<vars, scenario, teamVars, mailVars>>

EventOfOutcome ==
  (onTime :> "ON_TIME_DELIVERY") @@ (late :> "LATE_DELIVERY")
  @@ (rejected :> "REJECTED") @@ (noShow :> "NO_SHOW")

\* A part that rests does so in one of its initial states.
PeopleInit ==
  /\ scenario \in {"standing", "team", "mail"}
  /\ Init /\ (scenario # "standing" => mode = "alone")
  /\ T!Init /\ (scenario # "team" => alone /\ account = [p \in Person |-> "ACTIVE"])
  /\ N!Init

PeopleNext ==
  \/ scenario = "standing" /\ Next /\ UNCHANGED <<scenario, teamVars, mailVars>>
  \/ scenario = "team" /\ T!Next /\ UNCHANGED <<scenario, vars, mailVars>>
  \/ scenario = "mail" /\ N!Next /\ UNCHANGED <<scenario, vars, teamVars>>

\* A mail dispatcher is fair where it runs; elsewhere there is never a mail to send.
PeopleSpec == PeopleInit /\ [][PeopleNext]_allVars /\ N!Fairness

\* The rows and the requests of the three parts keep their shape.
TypesOK == TypeOK /\ T!TypeOK /\ N!TypeOK

\* The safety rail of team.service.ts (Team).
SomebodyManages == T!SomebodyManages

\* dispatchPending() records no more and no less than what happened (Notifications).
StatusTellsMail == N!StatusTellsMail

\* dispatchPending(): no refused mail holds up the others for ever (Notifications).
EveryNoteSettles == N!EveryNoteSettles

===============================================================================
