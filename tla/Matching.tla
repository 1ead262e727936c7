------------------------------- MODULE Matching -------------------------------
(***************************************************************************)
(* The pure rules of matching: what a channel counts for                   *)
(* (effective-reach.ts), how a candidate is scored and when newcomers are  *)
(* held back (scoring.ts, matching.service.ts), and by when each post of an *)
(* assignment is due (matching.service.ts).  What the code keeps between 0 *)
(* and 1 is in percent here, rounded down; a moment is a number of hours.  *)
(***************************************************************************)
EXTENDS Integers, Sequences, FiniteSets, FiniteSetsExt

Least(a, b) == IF a <= b THEN a ELSE b
Greatest(a, b) == IF a <= b THEN b ELSE a
Clamp(x, low, high) == Greatest(low, Least(high, x))
Rounded(n, d) == (2 * n + d) \div (2 * d)

-------------------------------------------------------------------------------
(* Reach *)

\* DEFAULT_REACH_FACTORS, in hundredths
TierFactor == [SELF |-> 60, SCREENSHOT |-> 100, INSIGHTS |-> 115]

\* currentTier(): age is in days since the proof was accepted, -1 without one.
CurrentTier(tier, age, validity) ==
  IF tier = "SELF" \/ age < 0 \/ age > validity THEN "SELF" ELSE tier

EffectiveReach(audience, platformFactor, tier) ==
  Rounded(audience * platformFactor * TierFactor[tier], 10000)

\* channelEffectiveReach() of a channel; a group counts its active participants.
ChannelReach(c, cap, validity) ==
  LET tier == CurrentTier(c.tier, c.age, validity)
      reach == EffectiveReach(IF c.group THEN c.active ELSE c.claimed, c.factor, tier)
  IN  IF tier = "SELF" THEN Least(reach, cap) ELSE reach

-------------------------------------------------------------------------------
(* Scores *)

\* CAPABILITY_WEIGHTS, in percent
Weights ==
  [DISTRIBUTOR  |-> [verifiedReach |-> 50, postingFrequency |-> 20, recentPostProof |-> 30],
   CREATOR      |-> [ratedSamples |-> 50, contentBreadth |-> 15, equipment |-> 15,
                     cameraComfort |-> 10, turnaround |-> 10],
   PARTICIPATOR |-> [taskBreadth |-> 30, deviceCoverage |-> 30, multiStepWillingness |-> 20,
                     agedAccounts |-> 20]]

CapabilityRole(role) == IF role = "INFLUENCER" THEN "DISTRIBUTOR" ELSE role

\* capabilityScore(): a factor that is missing counts as nothing.
CapabilityScore(role, factors) ==
  LET w == Weights[role]
      Factor(k) == IF k \in DOMAIN factors THEN Clamp(factors[k], 0, 100) ELSE 0
  IN  Rounded(MapThenSumSet(LAMBDA k : w[k] * Factor(k), DOMAIN w), 100)

ProofStrength(tier) == CASE tier = "INSIGHTS" -> 100 [] tier = "SCREENSHOT" -> 80 [] OTHER -> 50

\* provisionalFactors(): what nobody has measured counts half.
Provisional(role, reachFactor, proof) ==
  [k \in DOMAIN Weights[role] |->
     CASE k = "verifiedReach" -> reachFactor [] k = "recentPostProof" -> proof [] OTHER -> 50]

\* computeCapability(): what it derives overrides what is self-reported.
Capability(role, selfReported, reach, tier, samples) ==
  LET derived == [verifiedReach |-> Clamp(reach \div 30, 0, 100),
                  recentPostProof |-> ProofStrength(tier), ratedSamples |-> samples]
      all == DOMAIN derived \cup DOMAIN selfReported
  IN  CapabilityScore(CapabilityRole(role),
        [k \in all |-> IF k \in DOMAIN derived THEN derived[k] ELSE selfReported[k]])

\* reachFit(): right-sized, not largest.
ReachFit(reach, need) ==
  IF need <= 0 \/ reach <= 0 THEN 0
  ELSE (100 * Least(reach, need)) \div Greatest(reach, need)

CategoryFit(covered, targeted) ==
  IF targeted = {} THEN 100
  ELSE (100 * Cardinality(covered \cap targeted)) \div Cardinality(targeted)

\* fatigueScore()
Fatigue(thisWeek, perWeek) ==
  IF perWeek <= 0 THEN 100 ELSE Clamp((100 * thisWeek) \div perWeek, 0, 100)

\* matchScore(), in hundredths of a percent
MatchScore(i) ==
  Clamp(20 * Clamp(i.capability, 0, 100) + 20 * Clamp(i.trust, 0, 100) + 15 * i.reliability
          + 25 * i.reachFit + 20 * i.categoryFit - 15 * i.fatigue, 0, 10000)

\* scoreCandidate(): the stored capability if an admin has confirmed one (-1: not yet).
Score(p, role, need, targeted) ==
  LET r == CapabilityRole(role)
      capability == IF p.stored >= 0 THEN p.stored
                    ELSE CapabilityScore(r, Provisional(r, Clamp(p.reach \div 30, 0, 100),
                                                        ProofStrength(p.tier)))
  IN  MatchScore([capability |-> capability, trust |-> p.trust, reliability |-> p.reliability,
                  reachFit |-> ReachFit(p.reach, need),
                  categoryFit |-> CategoryFit(p.categories, targeted),
                  fatigue |-> Fatigue(p.thisWeek, p.perWeek)])

-------------------------------------------------------------------------------
(* Supply *)

NewbieGateActive(qualified, open) == open <= 0 \/ qualified >= 3 * open

\* Fault: newcomers are held back whether or not the others can fill the campaign.
FaultGateAlways(scored, proven, open) ==
  IF NewbieGateActive(Cardinality(scored), open) THEN scored \cap proven ELSE scored

\* candidates(): the gate, but never below where proven supply can still fill.
Shortlist(scored, proven, open) ==
  IF /\ NewbieGateActive(Cardinality(scored), open)
     /\ Cardinality(scored \cap proven) >= open
  THEN scored \cap proven ELSE scored

\* overOfferCount()
OverOfferCount(open) == IF open <= 0 THEN 0 ELSE (3 * open + 1) \div 2

-------------------------------------------------------------------------------
(* Deadlines *)

\* resolveDueAt() with an end date; six hours of runway, but never past the end.
ResolveDueAt(end, window, buffer, now) ==
  Least(Greatest(end - buffer, now + Least(window, 6)), end)

\* generateSlotSchedule(): w.end = -1 is no end date, w.start = -1 no start date.
DueDates(w, posts) ==
  LET from == Greatest(w.start, w.now)
      usable == IF w.end < 0 THEN from + w.window * posts ELSE w.end - w.buffer
      span == IF usable > from THEN usable - from ELSE w.window * posts
  IN  IF posts > 1 THEN [i \in 1 .. posts |-> from + (span * i) \div posts]
      ELSE <<IF w.end < 0 THEN w.now + w.window
             ELSE ResolveDueAt(w.end, w.window, w.buffer, w.now)>>

-------------------------------------------------------------------------------
(* What these rules promise of any input *)

\* candidates(): the gate never leaves fewer candidates than the open slots need, as
\* long as there were that many, and only ever holds back the unproven.
GateLeavesEnough(scored, proven, open) ==
  LET short == Shortlist(scored, proven, open) IN
  /\ scored \cap proven \subseteq short
  /\ Cardinality(short) >= Least(open, Cardinality(scored))

\* generateSlotSchedule(): each post gets a deadline after the one before, none of them
\* past when it is given.  If the run has time left before its buffer, several posts are
\* all due within it, after the start; one post is due by the end in any case.
DeadlinesFit(w, posts) ==
  LET due == DueDates(w, posts)
      from == Greatest(w.start, w.now)
  IN
  /\ Len(due) = posts
  /\ \A i \in 1 .. posts : w.end < 0 \/ w.end > w.now => due[i] > w.now
  /\ \A i \in 1 .. posts - 1 : due[i] < due[i + 1]
  /\ posts > 1 => due[1] > w.start
  /\ posts > 1 /\ w.end - w.buffer > from => due[posts] <= w.end - w.buffer
  /\ posts = 1 /\ w.end >= 0 => due[1] <= w.end

\* channelEffectiveReach(): an audience nobody has proved lately counts no more than the
\* cap, however large it is claimed to be, and a group never more than takes part in it.
UnprovenIsCapped(c, cap, validity) ==
  LET fresh == c.tier # "SELF" /\ c.age \in 0 .. validity IN
  /\ ~fresh => ChannelReach(c, cap, validity) <= cap
  /\ c.group => ChannelReach(c, cap, validity) = ChannelReach([c EXCEPT !.claimed = 0], cap, validity)

\* matchScore(): of two promoters alike in all else, the one whose audience is nearer to
\* what the slot needs, who is more reliable, or less busy this week, is never behind.
Better(p, q, need) ==
  /\ p.trust >= q.trust /\ p.reliability >= q.reliability /\ p.stored = q.stored
  /\ q.stored >= 0 /\ p.categories = q.categories /\ p.perWeek = q.perWeek
  /\ p.thisWeek <= q.thisWeek
  /\ p.reach * q.reach > 0
  /\ Least(p.reach, need) * Greatest(q.reach, need) >= Least(q.reach, need) * Greatest(p.reach, need)
RankedFairly(p, q, role, need, targeted) ==
  Better(p, q, need) => Score(p, role, need, targeted) >= Score(q, role, need, targeted)

===============================================================================
