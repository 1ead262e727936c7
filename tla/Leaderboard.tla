------------------------------- MODULE Leaderboard -------------------------------
(***************************************************************************)
(* The points of one campaign's deliveries and the standings               *)
(* (leaderboard.service.ts, points.service.ts, and the reviews in          *)
(* admin.service.ts that award).  An approval reads what the promoter has  *)
(* earned on the campaign and awards in a later transaction; a rebuild     *)
(* reads the scores and replaces the snapshot in a later one.              *)
(* How the score sums the events is the matter of Standing, two decisions  *)
(* on one submission at once are the matter of Delivery.                   *)
(***************************************************************************)
EXTENDS PointsRules

CONSTANTS
  Submission, Facts,   \* the submissions of the campaign, and what each delivered
  Reviewer,            \* concurrent approvals and rebuilds
  Overlaps,            \* may they overlap? (BOOLEAN for both)
  PointCap,            \* perCampaignPointCap
  Points,              \* the point values of leaderboard_config
  None

LeaderboardAssumption ==
  /\ Overlaps \subseteq BOOLEAN /\ PointCap \in Nat
  /\ IsFiniteSet(Submission) /\ IsFiniteSet(Reviewer) /\ None \notin Int
  /\ \A s \in Submission : Facts[s].promised \in Nat \ {0} /\ {Facts[s].verified, Facts[s].mult} \subseteq Nat
  /\ {Points.completed, Points.onTime, Points.clean, Points.overBase, Points.rejected, Points.duplicate} \subseteq Nat
  /\ Points.overCapRatio \in Nat

VARIABLES
  events,      \* of each submission and type, the points of its event, or None
  verdict,     \* submissions.verdict
  snapshot,    \* leaderboard_snapshots: rows, each with the rebuild that wrote it
  rebuilds,    \* how many rebuilds have committed, at most 2 (a bound)
  backfilled,  \* the backfill has run
  sole,        \* nothing overlaps in this behaviour
  task, note   \* of each reviewer: place, and what it has read

vars == <<events, verdict, snapshot, rebuilds, backfilled, sole, task, note>>

Types == ToSet(Earning)
Penalties == {"PENALTY_REJECTED", "PENALTY_DUPLICATE"}
Type == Types \cup Penalties

-------------------------------------------------------------------------------
(* Reviews *)

Promoter == {Facts[s].promoter : s \in Submission}
Of(p) == {s \in Submission : Facts[s].promoter = p}

Worth(s, t) == IF events[s][t] = None THEN 0 ELSE events[s][t]
SumOf(s, types) == SumFunctionOnSet([t \in types |-> Worth(s, t)], types)
Earned(p) == SumFunctionOnSet([s \in Of(p) |-> SumOf(s, Types)], Of(p))
SeasonPoints(p) == SumFunctionOnSet([s \in Of(p) |-> SumOf(s, Type)], Of(p))

TypeOK ==
  /\ events \in [Submission -> [Type -> Int \cup {None}]]
  /\ verdict \in [Submission -> {"PENDING", "APPROVED", "REJECTED"}]
  /\ snapshot \subseteq [promoter: Promoter, rank: Nat, points: Int, by: 1 .. 2]
  /\ rebuilds \in 0 .. 2 /\ backfilled \in BOOLEAN /\ sole \in BOOLEAN
  /\ task \in [Reviewer -> {"idle", "award", "score", "replace", "commit"}]

Init ==
  /\ events = [s \in Submission |-> [t \in Type |-> None]]
  /\ verdict = [s \in Submission |-> "PENDING"]
  /\ snapshot = {} /\ rebuilds = 0 /\ backfilled = FALSE
  /\ sole \in {~o : o \in Overlaps}
  /\ task = [r \in Reviewer |-> "idle"] /\ note = [r \in Reviewer |-> None]

Free(r) == task[r] = "idle" /\ (sole => \A q \in Reviewer : task[q] = "idle")
Goto(r, place, what) == task' = [task EXCEPT ![r] = place] /\ note' = [note EXCEPT ![r] = what]
Done(r) == Goto(r, "idle", None)

\* PointsService.award(): an event there is already stays; nothing earned is no event.
Awarded(row, awards) ==
  [t \in Type |-> IF row[t] = None /\ \E i \in DOMAIN Earning : Earning[i] = t /\ awards[i] > 0
                  THEN awards[CHOOSE i \in DOMAIN Earning : Earning[i] = t] ELSE row[t]]

\* approveSubmission() reads what was earned before, and trims.
ReadPrior(r, s) ==
  /\ Free(r) /\ verdict[s] = "PENDING"
  /\ \A q \in Reviewer : task[q] = "award" => note[q].of # s
  /\ Goto(r, "award", [of |-> s,
                       awards |-> ApplyCampaignCap(DeliveryAwards(Facts[s], Points), Earned(Facts[s].promoter), PointCap)])
  /\ UNCHANGED <<events, verdict, snapshot, rebuilds, backfilled, sole>>

\* The transaction of the approval.
Approve(r) ==
  /\ task[r] = "award"
  /\ verdict' = [verdict EXCEPT ![note[r].of] = "APPROVED"]
  /\ events' = [events EXCEPT ![note[r].of] = Awarded(@, note[r].awards)]
  /\ Done(r)
  /\ UNCHANGED <<snapshot, rebuilds, backfilled, sole>>

\* rejectSubmission(): penalties count against the score, not towards the cap.
Reject(s) ==
  /\ verdict[s] = "PENDING" /\ (sole => \A q \in Reviewer : task[q] = "idle")
  /\ \A q \in Reviewer : task[q] = "award" => note[q].of # s
  /\ verdict' = [verdict EXCEPT ![s] = "REJECTED"]
  /\ events' = [events EXCEPT ![s]["PENALTY_REJECTED"] = 0 - Points.rejected,
                              ![s]["PENALTY_DUPLICATE"] =
                                 IF Facts[s].flagged THEN 0 - Points.duplicate ELSE None]
  /\ UNCHANGED <<snapshot, rebuilds, backfilled, sole, task, note>>

\* backfill(): every approved submission's awards, without the cap; a rebuild follows.
Backfill(r) ==
  /\ Free(r) /\ ~backfilled /\ backfilled' = TRUE
  /\ Goto(r, "score", None)
  /\ events' = [s \in Submission |->
       IF verdict[s] = "APPROVED" THEN Awarded(events[s], DeliveryAwards(Facts[s], Points)) ELSE events[s]]
  /\ UNCHANGED <<verdict, snapshot, rebuilds, sole>>

-------------------------------------------------------------------------------
(* Standings *)

\* Those with a promoter_scores row: the first decision on a submission of theirs adds it.
Scored == {p \in Promoter : \E s \in Of(p) : verdict[s] # "PENDING"}

\* Most season points first; among equals who was updated first, which may be either.
Stands(order) ==
  \A i, j \in DOMAIN order : i < j => SeasonPoints(order[i]) >= SeasonPoints(order[j])

\* rebuildAll() reads the scores it ranks.
ReadScores(r) ==
  /\ Free(r) \/ task[r] = "score"
  /\ rebuilds < 2
  /\ \E order \in SetToSeqs(Scored) : Stands(order) /\
       Goto(r, "replace", [standing |-> {[promoter |-> order[i], rank |-> i,
                                          points |-> SeasonPoints(order[i])] : i \in DOMAIN order}])
  /\ UNCHANGED <<events, verdict, snapshot, rebuilds, backfilled, sole>>

\* The transaction deletes the rows it can see, ...
DeleteSeen(r) ==
  /\ task[r] = "replace"
  /\ Goto(r, "commit", [standing |-> note[r].standing, sees |-> snapshot])
  /\ UNCHANGED <<events, verdict, snapshot, rebuilds, backfilled, sole>>

\* ... and writes its own.
Replace(r) ==
  /\ task[r] = "commit" /\ rebuilds < 2 /\ rebuilds' = rebuilds + 1
  /\ snapshot' = (snapshot \ note[r].sees) \cup
       {[promoter |-> x.promoter, rank |-> x.rank, points |-> x.points, by |-> rebuilds'] :
          x \in note[r].standing}
  /\ Done(r)
  /\ UNCHANGED <<events, verdict, backfilled, sole>>

Next ==
  \/ \E r \in Reviewer : \/ \E s \in Submission : ReadPrior(r, s)
                         \/ Approve(r) \/ Backfill(r)
                         \/ ReadScores(r) \/ DeleteSeen(r) \/ Replace(r)
  \/ \E s \in Submission : Reject(s)

Spec == Init /\ [][Next]_vars

-------------------------------------------------------------------------------
(* Properties *)

\* applyCampaignCap(), as awarded: until a backfill, nobody earns more on a campaign than
\* the cap, or as many times the cap as approvals overlap; nobody earns less than the cap
\* while an award was trimmed.
CapHolds ==
  LET n == IF sole THEN 1 ELSE Cardinality(Reviewer)
      Full(s) == Sum(DeliveryAwards(Facts[s], Points)) IN
  \A p \in Promoter :
    /\ PointCap > 0 /\ ~backfilled => Earned(p) <= n * PointCap
    /\ \A s \in Of(p) : verdict[s] = "APPROVED" /\ PointCap > 0 =>
         SumOf(s, Types) = Full(s) \/ Earned(p) >= PointCap

\* rebuildAll(): whatever overlaps, the rows one rebuild wrote rank each promoter once,
\* without a gap, in the order of the points they show; and if no rebuilds overlap there
\* are no others.
SnapshotRanks ==
  /\ \A n \in {x.by : x \in snapshot} :
       LET rows == {x \in snapshot : x.by = n} IN
       /\ {x.rank : x \in rows} = 1 .. Cardinality(rows)
       /\ Cardinality({x.promoter : x \in rows}) = Cardinality(rows)
       /\ \A x, y \in rows : x.rank < y.rank => x.points >= y.points
  /\ sole => \A x, y \in snapshot : x.by = y.by

\* board(): the rank a viewer is shown never is worse than the place on the board, and is
\* the same without ties.
RankShown(p) == 1 + Cardinality({q \in Scored : SeasonPoints(q) > SeasonPoints(p)})
BoardAgrees ==
  \A order \in SetToSeqs(Scored) : Stands(order) => \A i \in DOMAIN order :
    /\ RankShown(order[i]) <= i
    /\ (\A q \in Scored : SeasonPoints(q) = SeasonPoints(order[i]) => q = order[i])
         => RankShown(order[i]) = i

===============================================================================
