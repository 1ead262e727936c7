----------------------------- MODULE MCWithdrawals -----------------------------
(***************************************************************************)
(* One promoter for TLC: two withdrawals (Withdrawals), the profile and    *)
(* channels (Profiles), the bank accounts payouts go to (PayoutAccounts),  *)
(* the account with its codes and sessions (Accounts), and the points of a *)
(* campaign (Leaderboard), each with overlapping requests and without.     *)
(* They share no row, so a behaviour exercises one while the others rest.  *)
(***************************************************************************)
EXTENDS Withdrawals, TLC

CONSTANTS
  Channel, Raced, Claims, Cap, Scores,                \* the profile
  User, Number, Named, MaxRows,                       \* the bank accounts
  MaxTries, Plays, MaxPasswords,                      \* the account
  Submission, Facts, PointCap, Points,                \* the points
  ada, obi, gt, uba                                   \* promoters and bank account numbers

VARIABLES
  scenario,                                           \* the part this behaviour exercises
  filled, status, user, capability, channel, told, calm, doing, seen,   \* the profile
  accounts, quiet, at, adding,                                                    \* the bank accounts
  owner, phone, password, barred, codes, sessions, play, turn, held,              \* the account
  events, verdict, snapshot, rebuilds, backfilled, sole, task, note               \* the points

P == INSTANCE Profiles WITH Request <- Worker, Overlaps <- Modes
B == INSTANCE PayoutAccounts WITH Request <- Worker, Overlaps <- Modes
A == INSTANCE Accounts WITH Caller <- Worker
L == INSTANCE Leaderboard WITH Reviewer <- Worker, Overlaps <- Modes

ASSUME PromoterAssumption ==
  P!ProfilesAssumption /\ B!PayoutAccountsAssumption /\ A!AccountsAssumption /\ L!LeaderboardAssumption

profileVars == <<filled, status, user, capability, channel, told, calm, doing, seen>>
bankVars == <<accounts, quiet, at, adding>>
accountVars == <<owner, phone, password, barred, codes, sessions, play, turn, held>>
pointVars == <<events, verdict, snapshot, rebuilds, backfilled, sole, task, note>>
allVars == <<vars, scenario, profileVars, bankVars, accountVars, pointVars>>

Symmetry == Permutations(Worker) \cup Permutations(Key)

\* Overlapping requests issue two codes, or use one code, or rotate three sessions.
Play(overlaps, n, m) == [overlaps |-> overlaps, codes |-> n, sessions |-> m]
MCPlays == {Play(FALSE, 2, 3), Play(TRUE, 2, 0), Play(TRUE, 1, 2), Play(TRUE, 0, 3)}

\* Obi does not hold the account at GT.
MCNamed == (User \X Number) \ {<<obi, gt>>}

\* Ada delivers as promised and then, flagged as a duplicate, four times as much; Obi half more.
Delivered(p, verified, onTime, flagged) ==
  [promoter |-> p, verified |-> verified, promised |-> 10, onTime |-> onTime, flagged |-> flagged, mult |-> 100]
MCFacts == <<Delivered(ada, 10, TRUE, FALSE), Delivered(ada, 40, FALSE, TRUE), Delivered(obi, 15, TRUE, FALSE)>>
MCPoints == [completed |-> 5, onTime |-> 2, clean |-> 1, overBase |-> 3, overCapRatio |-> 3,
             rejected |-> 2, duplicate |-> 3]

\* A part that rests does so in one of its initial states.
PromoterInit ==
  /\ scenario \in {"withdrawals", "profile", "bank", "account", "points"}
  /\ Init /\ (scenario # "withdrawals" => alone)
  /\ P!Init /\ (scenario # "profile" => calm /\ filled)
  /\ B!Init /\ (scenario # "bank" => quiet)
  /\ A!Init /\ (scenario # "account" => play = Play(FALSE, 2, 3))
  /\ L!Init /\ (scenario # "points" => sole)

PromoterNext ==
  \/ scenario = "withdrawals" /\ Next
     /\ UNCHANGED <<scenario, profileVars, bankVars, accountVars, pointVars>>
  \/ scenario = "profile" /\ P!Next /\ UNCHANGED <<scenario, vars, bankVars, accountVars, pointVars>>
  \/ scenario = "bank" /\ B!Next /\ UNCHANGED <<scenario, vars, profileVars, accountVars, pointVars>>
  \/ scenario = "account" /\ A!Next /\ UNCHANGED <<scenario, vars, profileVars, bankVars, pointVars>>
  \/ scenario = "points" /\ L!Next /\ UNCHANGED <<scenario, vars, profileVars, bankVars, accountVars>>

PromoterSpec == PromoterInit /\ [][PromoterNext]_allVars

\* Decisions about a promoter stand, and none is matched unreviewed (Profiles).
DecisionsStand == scenario = "profile" => P!TypeOK /\ P!DecisionsStand /\ P!MatchedIsReviewed

\* Payouts never go to an account the promoter has replaced (PayoutAccounts).
PaidToOwner == scenario = "bank" => B!TypeOK /\ B!PaidToOwner

\* Codes and refresh tokens are good once; changes of password and suspensions hold (Accounts).
AccountKept == scenario = "account" => A!TypeOK /\ A!UsedOnce /\ A!AccountKept

\* No more points than the cap, and standings in their order (Leaderboard).
PointsHold == scenario = "points" => L!TypeOK /\ L!CapHolds /\ L!SnapshotRanks /\ L!BoardAgrees

===============================================================================
