----------------------------- MODULE PeopleProofs -----------------------------
(***************************************************************************)
(* Standing, Team and Notifications for any number of workers, requests    *)
(* and dispatchers: an inductive invariant of each, and the three of them  *)
(* together, as MCPeople composes them.                                    *)
(***************************************************************************)
EXTENDS MCPeople, Sums, SequenceTheorems, TLAPS

-------------------------------------------------------------------------------
(* Standing *)

Writing == {"sum", "upsert", "commit"}      \* places after the profile was written
Summed == {"upsert", "commit"}
Rebuilding == {"store", "mirror"}

\* What a worker has in hand belongs to its place.
Sources == \A w \in Worker :
  /\ pc[w] \in {"read", "write"} => Hooking(w)
  /\ pc[w] \in Writing => job[w].source \in Source
  /\ pc[w] \in Rebuilding => job[w].source = None

\* A hook holds the profile from its write to its end, and nobody else ever does;
\* whoever is about to commit holds the score.
Holders == \A w \in Worker :
  /\ profileLock = w <=> pc[w] \in Writing /\ Hooking(w)
  /\ scoreLock = w <=> pc[w] = "commit"

\* What is about to be written counts nothing but committed events and its own.
InHand == \A w \in Worker :
  /\ pc[w] \in Summed => job[w].sum \subseteq events \cup {job[w].source}
  /\ pc[w] \in Rebuilding => job[w].sum \subseteq events
  /\ Hooking(w) /\ pc[w] \in Writing \cup {"write"} =>
       job[w].counted \subseteq events \cup {job[w].source}

\* Who must be by itself is.
Apart == mode # "free" => \A w, x \in Worker :
  pc[w] # "idle" /\ (mode = "alone" \/ ~Hooking(w)) /\ x # w => pc[x] = "idle"

\* A sum that is about to be written is still the sum.
Fresh == mode # "free" => \A w \in Worker :
  /\ pc[w] \in Summed => job[w].sum = events \cup {job[w].source}
  /\ pc[w] \in Rebuilding => job[w].sum = events

\* So is a reputation, where nothing overlaps.
FreshReputation == mode = "alone" => \A w \in Worker :
  Hooking(w) /\ pc[w] \in Writing \cup {"write"} =>
    /\ job[w].trust = ApplyTrustEvent(trust, EventOf[job[w].source])
    /\ job[w].counted = (events \cap Outcome) \cup {job[w].source}

Inv == /\ TypeOK /\ Sources /\ Holders /\ InHand /\ Apart /\ Fresh /\ FreshReputation
       /\ OnlyCommittedCounts /\ ScoreIsSum /\ ReputationAdds

-----------------------------------------------------------------------------

\* applyTrustEvent() stays within its bounds.
LEMMA TrustClamped ==
  ASSUME NEW current \in Trust, NEW event \in TrustEvent
  PROVE  ApplyTrustEvent(current, event) \in Trust
<1>1. Delta(event) \in Int BY DEF Delta, TrustEvent
<1> QED BY <1>1 DEF ApplyTrustEvent, Trust, MaxTrust

LEMMA Initially == Init => Inv
<1> SUFFICES ASSUME Init PROVE Inv OBVIOUS
<1> USE StandingAssumption
<1>1. TypeOK
  BY DEF Init, TypeOK, Trust, MaxTrust, Job, NoJob, Place
<1>2. \A w \in Worker : pc[w] = "idle" /\ profileLock # w /\ scoreLock # w
  BY DEF Init
<1>3. Sources /\ Holders /\ InHand /\ Apart /\ Fresh /\ FreshReputation
  BY <1>2 DEF Sources, Holders, InHand, Apart, Fresh, FreshReputation, Writing, Summed, Rebuilding
<1>4. OnlyCommittedCounts /\ ScoreIsSum /\ ReputationAdds
  BY DEF Init, OnlyCommittedCounts, ScoreIsSum, ReputationAdds
<1> QED BY <1>1, <1>3, <1>4 DEF Inv

\* A worker goes on: the others keep their places and what they have in hand.
LEMMA GotoFacts ==
  ASSUME TypeOK, NEW w \in Worker, NEW stop \in Place, NEW what \in Job, Goto(w, stop, what)
  PROVE  /\ pc' \in [Worker -> Place] /\ job' \in [Worker -> Job]
         /\ pc'[w] = stop /\ job'[w] = what
         /\ \A x \in Worker \ {w} : pc'[x] = pc[x] /\ job'[x] = job[x]
  BY DEF Goto, TypeOK

LEMMA BeginFacts ==
  ASSUME TypeOK, NEW w \in Worker, NEW stop \in Place, NEW source \in Source \cup {None},
         Begin(w, stop, source)
  PROVE  /\ pc' \in [Worker -> Place] /\ job' \in [Worker -> Job]
         /\ pc[w] = "idle" /\ pc'[w] = stop /\ job'[w].source = source
         /\ \A x \in Worker \ {w} : pc'[x] = pc[x] /\ job'[x] = job[x]
<1>1. [NoJob EXCEPT !.source = source] \in Job
  BY DEF NoJob, Job, Trust, MaxTrust
<1>2. [NoJob EXCEPT !.source = source].source = source
  BY DEF NoJob
<1> QED BY <1>1, <1>2 DEF Begin, TypeOK

LEMMA HookStep ==
  ASSUME Inv, NEW w \in Worker, NEW o \in Outcome, Hook(w, o)
  PROVE  Inv'
<1> USE StandingAssumption
<1>1. /\ pc' \in [Worker -> Place] /\ job' \in [Worker -> Job]
      /\ pc[w] = "idle" /\ pc'[w] = "read" /\ job'[w].source = o
      /\ \A x \in Worker \ {w} : pc'[x] = pc[x] /\ job'[x] = job[x]
  <2>1. Begin(w, "read", o) /\ TypeOK /\ "read" \in Place /\ o \in Source \cup {None}
    BY DEF Hook, Inv, Source, Place
  <2> QED BY <2>1, BeginFacts
<1>2. UNCHANGED <<standing, locks, mode>> BY DEF Hook
<1>3. TypeOK' BY <1>1, <1>2 DEF Inv, TypeOK, standing, locks
<1>4. Sources' BY <1>1 DEF Inv, Sources, Hooking, Writing, Rebuilding
<1>5. Holders' BY <1>1, <1>2 DEF Inv, Holders, Hooking, Writing, locks
<1>6. InHand' BY <1>1, <1>2 DEF Inv, InHand, Hooking, Writing, Summed, Rebuilding, standing
<1>7. Apart' BY <1>1, <1>2 DEF Inv, Apart, Hooking, Hook, Begin, MayBegin, TypeOK
<1>8. Fresh' BY <1>1, <1>2 DEF Inv, Fresh, Summed, Rebuilding, standing
<1>9. FreshReputation' BY <1>1, <1>2 DEF Inv, FreshReputation, Hooking, Writing, standing
<1>10. (OnlyCommittedCounts /\ ScoreIsSum /\ ReputationAdds)'
  BY <1>2 DEF Inv, OnlyCommittedCounts, ScoreIsSum, ReputationAdds, standing
<1> QED BY <1>3, <1>4, <1>5, <1>6, <1>7, <1>8, <1>9, <1>10 DEF Inv

LEMMA ReadTrustStep ==
  ASSUME Inv, NEW w \in Worker, ReadTrust(w)
  PROVE  Inv'
<1> USE StandingAssumption
<1> DEFINE seen == [job[w] EXCEPT !.trust = ApplyTrustEvent(trust, EventOf[job[w].source]),
                                  !.counted = (events \cap Outcome) \cup {job[w].source}]
<1>0. pc[w] = "read" /\ job[w] \in Job /\ job[w].source \in Outcome
  BY DEF ReadTrust, Inv, TypeOK, Sources, Hooking
<1>a. /\ seen \in Job /\ seen.source = job[w].source
      /\ seen.trust = ApplyTrustEvent(trust, EventOf[job[w].source])
      /\ seen.counted = (events \cap Outcome) \cup {job[w].source}
  <2>1. trust \in Trust /\ EventOf[job[w].source] \in TrustEvent BY <1>0 DEF Inv, TypeOK
  <2>2. ApplyTrustEvent(trust, EventOf[job[w].source]) \in Trust BY <2>1, TrustClamped
  <2> QED BY <1>0, <2>2 DEF Job
<1>1. /\ pc' \in [Worker -> Place] /\ job' \in [Worker -> Job]
      /\ pc[w] = "read" /\ pc'[w] = "write" /\ job'[w] = seen
      /\ \A x \in Worker \ {w} : pc'[x] = pc[x] /\ job'[x] = job[x]
  <2>1. Goto(w, "write", seen) /\ TypeOK /\ "write" \in Place BY DEF ReadTrust, Inv, Place
  <2> HIDE DEF seen
  <2> QED BY <1>0, <1>a, <2>1, GotoFacts
<1>2. UNCHANGED <<standing, locks, mode>>
  BY DEF ReadTrust
<1> HIDE DEF seen
<1>3. TypeOK' BY <1>1, <1>2 DEF Inv, TypeOK, standing, locks
<1>4. Sources' BY <1>0, <1>1, <1>2, <1>a DEF Inv, Sources, Hooking, Writing, Rebuilding
<1>5. Holders' BY <1>0, <1>1, <1>2, <1>a DEF Inv, Holders, Sources, Hooking, Writing, locks, TypeOK
<1>6. InHand' BY <1>0, <1>1, <1>2, <1>a DEF Inv, InHand, Hooking, Writing, Summed, Rebuilding, standing
<1>7. Apart' BY <1>0, <1>1, <1>2, <1>a DEF Inv, Apart, Hooking
<1>8. Fresh' BY <1>1, <1>2 DEF Inv, Fresh, Summed, Rebuilding, standing
<1>9. FreshReputation' BY <1>0, <1>1, <1>2, <1>a DEF Inv, FreshReputation, Hooking, Writing, standing
<1>10. (OnlyCommittedCounts /\ ScoreIsSum /\ ReputationAdds)'
  BY <1>2 DEF Inv, OnlyCommittedCounts, ScoreIsSum, ReputationAdds, standing
<1> QED BY <1>3, <1>4, <1>5, <1>6, <1>7, <1>8, <1>9, <1>10 DEF Inv

LEMMA WriteProfileStep ==
  ASSUME Inv, NEW w \in Worker, WriteProfile(w)
  PROVE  Inv'
<1> USE StandingAssumption
<1>1. /\ pc' \in [Worker -> Place] /\ job' = job
      /\ pc[w] = "write" /\ pc'[w] = "sum" /\ Hooking(w) /\ profileLock = None
      /\ \A x \in Worker \ {w} : pc'[x] = pc[x]
  <2>1. Goto(w, "sum", job[w]) /\ TypeOK /\ "sum" \in Place /\ job[w] \in Job
    BY DEF WriteProfile, Inv, Place, TypeOK
  <2> QED BY <2>1 DEF Goto, WriteProfile, Inv, TypeOK, Sources
<1>2. profileLock' = w /\ UNCHANGED <<standing, scoreLock, mode>>
  BY DEF WriteProfile
<1>3. TypeOK' BY <1>1, <1>2 DEF Inv, TypeOK, standing
<1>4. Sources' BY <1>1, <1>2 DEF Inv, Sources, Hooking, Writing, Rebuilding, Source
<1>5. Holders' BY <1>1, <1>2 DEF Inv, Holders, Sources, Hooking, Writing, TypeOK
<1>6. InHand' BY <1>1, <1>2 DEF Inv, InHand, Hooking, Writing, Summed, Rebuilding, standing
<1>7. Apart' BY <1>1, <1>2 DEF Inv, Apart, Hooking
<1>8. Fresh' BY <1>1, <1>2 DEF Inv, Fresh, Summed, Rebuilding, standing
<1>9. FreshReputation' BY <1>1, <1>2 DEF Inv, FreshReputation, Hooking, Writing, standing
<1>10. (OnlyCommittedCounts /\ ScoreIsSum /\ ReputationAdds)'
  BY <1>2 DEF Inv, OnlyCommittedCounts, ScoreIsSum, ReputationAdds, standing
<1> QED BY <1>3, <1>4, <1>5, <1>6, <1>7, <1>8, <1>9, <1>10 DEF Inv

LEMMA AdjustStep ==
  ASSUME Inv, NEW w \in Worker, NEW a \in Adjustment, Adjust(w, a)
  PROVE  Inv'
<1> USE StandingAssumption
<1>1. /\ pc' \in [Worker -> Place] /\ job' \in [Worker -> Job]
      /\ pc[w] = "idle" /\ pc'[w] = "sum" /\ job'[w].source = a
      /\ \A x \in Worker \ {w} : pc'[x] = pc[x] /\ job'[x] = job[x]
  <2>1. Begin(w, "sum", a) /\ TypeOK /\ "sum" \in Place /\ a \in Source \cup {None}
    BY DEF Adjust, Inv, Source, Place
  <2> QED BY <2>1, BeginFacts
<1>2. UNCHANGED <<standing, locks, mode>> /\ a \in Source /\ a \notin Outcome
  BY DEF Adjust, Source
<1>3. TypeOK' BY <1>1, <1>2 DEF Inv, TypeOK, standing, locks
<1>4. Sources' BY <1>1, <1>2 DEF Inv, Sources, Hooking, Writing, Rebuilding
<1>5. Holders' BY <1>1, <1>2 DEF Inv, Holders, Sources, Hooking, Writing, locks, TypeOK
<1>6. InHand' BY <1>1, <1>2 DEF Inv, InHand, Hooking, Writing, Summed, Rebuilding, standing
<1>7. Apart' BY <1>1, <1>2 DEF Inv, Apart, Hooking, Adjust, Begin, MayBegin, TypeOK
<1>8. Fresh' BY <1>1, <1>2 DEF Inv, Fresh, Summed, Rebuilding, standing
<1>9. FreshReputation' BY <1>1, <1>2 DEF Inv, FreshReputation, Hooking, Writing, standing
<1>10. (OnlyCommittedCounts /\ ScoreIsSum /\ ReputationAdds)'
  BY <1>2 DEF Inv, OnlyCommittedCounts, ScoreIsSum, ReputationAdds, standing
<1> QED BY <1>3, <1>4, <1>5, <1>6, <1>7, <1>8, <1>9, <1>10 DEF Inv

LEMMA SumStep ==
  ASSUME Inv, NEW w \in Worker, Sum(w)
  PROVE  Inv'
<1> USE StandingAssumption
<1> DEFINE summed == [job[w] EXCEPT !.sum = events \cup {job[w].source}]
<1>0. pc[w] = "sum" /\ job[w] \in Job /\ job[w].source \in Source /\ events \subseteq Source
  BY DEF Sum, Inv, TypeOK, Sources, Writing
<1>a. /\ summed \in Job /\ summed.source = job[w].source /\ summed.trust = job[w].trust
      /\ summed.counted = job[w].counted /\ summed.sum = events \cup {job[w].source}
  BY <1>0 DEF Job
<1>1. /\ pc' \in [Worker -> Place] /\ job' \in [Worker -> Job]
      /\ pc[w] = "sum" /\ pc'[w] = "upsert" /\ job'[w] = summed
      /\ \A x \in Worker \ {w} : pc'[x] = pc[x] /\ job'[x] = job[x]
  <2>1. Goto(w, "upsert", summed) /\ TypeOK /\ "upsert" \in Place BY DEF Sum, Inv, Place
  <2> HIDE DEF summed
  <2> QED BY <1>0, <1>a, <2>1, GotoFacts
<1>2. UNCHANGED <<standing, locks, mode>>
  BY DEF Sum
<1> HIDE DEF summed
<1>3. TypeOK' BY <1>1, <1>2 DEF Inv, TypeOK, standing, locks
<1>4. Sources' BY <1>0, <1>1, <1>2, <1>a DEF Inv, Sources, Hooking, Writing, Rebuilding
<1>5. Holders' BY <1>0, <1>1, <1>2, <1>a DEF Inv, Holders, Hooking, Writing, locks
<1>6. InHand' BY <1>0, <1>1, <1>2, <1>a DEF Inv, InHand, Hooking, Writing, Summed, Rebuilding, standing
<1>7. Apart' BY <1>0, <1>1, <1>2, <1>a DEF Inv, Apart, Hooking
<1>8. Fresh' BY <1>0, <1>1, <1>2, <1>a DEF Inv, Fresh, Summed, Rebuilding, standing
<1>9. FreshReputation' BY <1>0, <1>1, <1>2, <1>a DEF Inv, FreshReputation, Hooking, Writing, standing
<1>10. (OnlyCommittedCounts /\ ScoreIsSum /\ ReputationAdds)'
  BY <1>2 DEF Inv, OnlyCommittedCounts, ScoreIsSum, ReputationAdds, standing
<1> QED BY <1>3, <1>4, <1>5, <1>6, <1>7, <1>8, <1>9, <1>10 DEF Inv

LEMMA UpsertScoreStep ==
  ASSUME Inv, NEW w \in Worker, UpsertScore(w)
  PROVE  Inv'
<1> USE StandingAssumption
<1>1. /\ pc' \in [Worker -> Place] /\ job' = job
      /\ pc[w] = "upsert" /\ pc'[w] = "commit" /\ scoreLock = None
      /\ \A x \in Worker \ {w} : pc'[x] = pc[x]
  <2>1. Goto(w, "commit", job[w]) /\ TypeOK /\ "commit" \in Place
    BY DEF UpsertScore, Inv, Place
  <2> QED BY <2>1 DEF Goto, UpsertScore, TypeOK
<1>2. scoreLock' = w /\ UNCHANGED <<standing, profileLock, mode>>
  BY DEF UpsertScore
<1>3. TypeOK' BY <1>1, <1>2 DEF Inv, TypeOK, standing
<1>4. Sources' BY <1>1, <1>2 DEF Inv, Sources, Hooking, Writing, Rebuilding
<1>5. Holders' BY <1>1, <1>2 DEF Inv, Holders, Sources, Hooking, Writing, locks, TypeOK
<1>6. InHand' BY <1>1, <1>2 DEF Inv, InHand, Hooking, Writing, Summed, Rebuilding, standing
<1>7. Apart' BY <1>1, <1>2 DEF Inv, Apart, Hooking
<1>8. Fresh' BY <1>1, <1>2 DEF Inv, Fresh, Summed, Rebuilding, standing
<1>9. FreshReputation' BY <1>1, <1>2 DEF Inv, FreshReputation, Hooking, Writing, standing
<1>10. (OnlyCommittedCounts /\ ScoreIsSum /\ ReputationAdds)'
  BY <1>2 DEF Inv, OnlyCommittedCounts, ScoreIsSum, ReputationAdds, standing
<1> QED BY <1>3, <1>4, <1>5, <1>6, <1>7, <1>8, <1>9, <1>10 DEF Inv

LEMMA RollbackStep ==
  ASSUME Inv, NEW w \in Worker, Rollback(w)
  PROVE  Inv'
<1> USE StandingAssumption
<1>1. /\ pc' \in [Worker -> Place] /\ job' \in [Worker -> Job]
      /\ pc[w] \notin {"idle", "store", "mirror"} /\ pc'[w] = "idle" /\ job'[w] = NoJob
      /\ \A x \in Worker \ {w} : pc'[x] = pc[x] /\ job'[x] = job[x]
  <2>1. Goto(w, "idle", NoJob) /\ TypeOK /\ "idle" \in Place /\ NoJob \in Job
    BY DEF Rollback, Inv, Place, NoJob, Job, Trust, MaxTrust
  <2> QED BY <2>1, GotoFacts DEF Rollback
<1>2. /\ profileLock' = IF profileLock = w THEN None ELSE profileLock
      /\ scoreLock' = IF scoreLock = w THEN None ELSE scoreLock
      /\ UNCHANGED <<standing, mode>>
  BY DEF Rollback
<1>3. TypeOK' BY <1>1, <1>2 DEF Inv, TypeOK, standing
<1>4. Sources' BY <1>1, <1>2 DEF Inv, Sources, Hooking, Writing, Rebuilding
<1>5. Holders' BY <1>1, <1>2 DEF Inv, Holders, Sources, Hooking, Writing, TypeOK
<1>6. InHand' BY <1>1, <1>2 DEF Inv, InHand, Hooking, Writing, Summed, Rebuilding, standing
<1>7. Apart' BY <1>1, <1>2 DEF Inv, Apart, Hooking
<1>8. Fresh' BY <1>1, <1>2 DEF Inv, Fresh, Summed, Rebuilding, standing
<1>9. FreshReputation' BY <1>1, <1>2 DEF Inv, FreshReputation, Hooking, Writing, standing
<1>10. (OnlyCommittedCounts /\ ScoreIsSum /\ ReputationAdds)'
  BY <1>2 DEF Inv, OnlyCommittedCounts, ScoreIsSum, ReputationAdds, standing
<1> QED BY <1>3, <1>4, <1>5, <1>6, <1>7, <1>8, <1>9, <1>10 DEF Inv

LEMMA RebuildDiesStep ==
  ASSUME Inv, NEW w \in Worker, RebuildDies(w)
  PROVE  Inv'
<1> USE StandingAssumption
<1>1. /\ pc' \in [Worker -> Place] /\ job' \in [Worker -> Job]
      /\ pc[w] \in {"store", "mirror"} /\ pc'[w] = "idle" /\ job'[w] = NoJob
      /\ \A x \in Worker \ {w} : pc'[x] = pc[x] /\ job'[x] = job[x]
  <2>1. Goto(w, "idle", NoJob) /\ TypeOK /\ "idle" \in Place /\ NoJob \in Job
    BY DEF RebuildDies, Inv, Place, NoJob, Job, Trust, MaxTrust
  <2> QED BY <2>1, GotoFacts DEF RebuildDies
<1>2. UNCHANGED <<standing, locks, mode>>
  BY DEF RebuildDies
<1>3. TypeOK' BY <1>1, <1>2 DEF Inv, TypeOK, standing, locks
<1>4. Sources' BY <1>1, <1>2 DEF Inv, Sources, Hooking, Writing, Rebuilding
<1>5. Holders' BY <1>1, <1>2 DEF Inv, Holders, Sources, Hooking, Writing, locks, TypeOK
<1>6. InHand' BY <1>1, <1>2 DEF Inv, InHand, Hooking, Writing, Summed, Rebuilding, standing
<1>7. Apart' BY <1>1, <1>2 DEF Inv, Apart, Hooking
<1>8. Fresh' BY <1>1, <1>2 DEF Inv, Fresh, Summed, Rebuilding, standing
<1>9. FreshReputation' BY <1>1, <1>2 DEF Inv, FreshReputation, Hooking, Writing, standing
<1>10. (OnlyCommittedCounts /\ ScoreIsSum /\ ReputationAdds)'
  BY <1>2 DEF Inv, OnlyCommittedCounts, ScoreIsSum, ReputationAdds, standing
<1> QED BY <1>3, <1>4, <1>5, <1>6, <1>7, <1>8, <1>9, <1>10 DEF Inv

LEMMA RebuildSumStep ==
  ASSUME Inv, NEW w \in Worker, RebuildSum(w)
  PROVE  Inv'
<1> USE StandingAssumption
<1> DEFINE summed == [NoJob EXCEPT !.sum = events]
<1>0. summed \in Job /\ summed.source = None /\ summed.sum = events
  BY DEF Inv, TypeOK, NoJob, Job, Trust, MaxTrust
<1>1. /\ pc' \in [Worker -> Place] /\ job' \in [Worker -> Job]
      /\ pc[w] = "idle" /\ pc'[w] = "store" /\ job'[w] = summed
      /\ \A x \in Worker \ {w} : pc'[x] = pc[x] /\ job'[x] = job[x]
  <2>1. Goto(w, "store", summed) /\ TypeOK /\ "store" \in Place BY DEF RebuildSum, Inv, Place
  <2> HIDE DEF summed
  <2> QED BY <1>0, <2>1, GotoFacts DEF RebuildSum
<1>2. UNCHANGED <<standing, locks, mode>>
  BY DEF RebuildSum
<1> HIDE DEF summed
<1>3. TypeOK' BY <1>1, <1>2 DEF Inv, TypeOK, standing, locks
<1>4. Sources' BY <1>0, <1>1, <1>2 DEF Inv, Sources, Hooking, Writing, Rebuilding
<1>5. Holders' BY <1>0, <1>1, <1>2 DEF Inv, Holders, Hooking, Writing, locks
<1>6. InHand' BY <1>0, <1>1, <1>2 DEF Inv, InHand, Hooking, Writing, Summed, Rebuilding, standing
<1>7. Apart' BY <1>0, <1>1, <1>2 DEF Inv, Apart, Hooking, RebuildSum, MayBegin, TypeOK
<1>8. Fresh' BY <1>0, <1>1, <1>2 DEF Inv, Fresh, Summed, Rebuilding, standing
<1>9. FreshReputation' BY <1>0, <1>1, <1>2 DEF Inv, FreshReputation, Hooking, Writing, standing
<1>10. (OnlyCommittedCounts /\ ScoreIsSum /\ ReputationAdds)'
  BY <1>2 DEF Inv, OnlyCommittedCounts, ScoreIsSum, ReputationAdds, standing
<1> QED BY <1>3, <1>4, <1>5, <1>6, <1>7, <1>8, <1>9, <1>10 DEF Inv

LEMMA RebuildScoreStep ==
  ASSUME Inv, NEW w \in Worker, RebuildScore(w)
  PROVE  Inv'
<1> USE StandingAssumption
<1>1. /\ pc' \in [Worker -> Place] /\ job' = job
      /\ pc[w] = "store" /\ pc'[w] = "mirror" /\ job[w].sum \subseteq Source
      /\ \A x \in Worker \ {w} : pc'[x] = pc[x]
  <2>1. Goto(w, "mirror", job[w]) /\ TypeOK /\ "mirror" \in Place
    BY DEF RebuildScore, Inv, Place
  <2> QED BY <2>1 DEF Goto, RebuildScore, TypeOK, Job
<1>2. score' = job[w].sum /\ UNCHANGED <<events, trust, counted, mirrored, earned, locks, mode>>
  BY DEF RebuildScore
<1>3. TypeOK' BY <1>1, <1>2 DEF Inv, TypeOK, locks
<1>4. Sources' BY <1>1, <1>2 DEF Inv, Sources, Hooking, Writing, Rebuilding
<1>5. Holders' BY <1>1, <1>2 DEF Inv, Holders, Sources, Hooking, Writing, locks, TypeOK
<1>6. InHand' BY <1>1, <1>2 DEF Inv, InHand, Hooking, Writing, Summed, Rebuilding
<1>7. Apart' BY <1>1, <1>2 DEF Inv, Apart, Hooking
<1>8. Fresh' BY <1>1, <1>2 DEF Inv, Fresh, Summed, Rebuilding
<1>9. FreshReputation' BY <1>1, <1>2 DEF Inv, FreshReputation, Hooking, Writing
<1>10. (OnlyCommittedCounts /\ ScoreIsSum /\ ReputationAdds)'
  BY <1>1, <1>2 DEF Inv, InHand, Fresh, Rebuilding, OnlyCommittedCounts, ScoreIsSum, ReputationAdds
<1> QED BY <1>3, <1>4, <1>5, <1>6, <1>7, <1>8, <1>9, <1>10 DEF Inv

LEMMA RebuildTierStep ==
  ASSUME Inv, NEW w \in Worker, RebuildTier(w)
  PROVE  Inv'
<1> USE StandingAssumption
<1>1. /\ pc' \in [Worker -> Place] /\ job' \in [Worker -> Job]
      /\ pc[w] = "mirror" /\ job[w].sum \subseteq Source /\ pc'[w] = "idle" /\ job'[w] = NoJob
      /\ \A x \in Worker \ {w} : pc'[x] = pc[x] /\ job'[x] = job[x]
  <2>1. Goto(w, "idle", NoJob) /\ TypeOK /\ "idle" \in Place /\ NoJob \in Job
    BY DEF RebuildTier, Inv, Place, NoJob, Job, Trust, MaxTrust
  <2> QED BY <2>1, GotoFacts DEF RebuildTier, TypeOK, Job
<1>2. mirrored' = job[w].sum /\ UNCHANGED <<events, trust, counted, score, earned, locks, mode>>
  BY DEF RebuildTier
<1>3. TypeOK' BY <1>1, <1>2 DEF Inv, TypeOK, locks
<1>4. Sources' BY <1>1, <1>2 DEF Inv, Sources, Hooking, Writing, Rebuilding
<1>5. Holders' BY <1>1, <1>2 DEF Inv, Holders, Sources, Hooking, Writing, locks, TypeOK
<1>6. InHand' BY <1>1, <1>2 DEF Inv, InHand, Hooking, Writing, Summed, Rebuilding
<1>7. Apart' BY <1>1, <1>2 DEF Inv, Apart, Hooking
<1>8. Fresh' BY <1>1, <1>2 DEF Inv, Fresh, Summed, Rebuilding
<1>9. FreshReputation' BY <1>1, <1>2 DEF Inv, FreshReputation, Hooking, Writing
<1>10. (OnlyCommittedCounts /\ ScoreIsSum /\ ReputationAdds)'
  BY <1>1, <1>2 DEF Inv, InHand, Fresh, Rebuilding, OnlyCommittedCounts, ScoreIsSum, ReputationAdds
<1> QED BY <1>3, <1>4, <1>5, <1>6, <1>7, <1>8, <1>9, <1>10 DEF Inv

\* The step that makes a hook or an adjustment visible.
LEMMA CommitStep ==
  ASSUME Inv, NEW w \in Worker, Commit(w)
  PROVE  Inv'
<1> USE StandingAssumption
<1> DEFINE o == job[w].source
<1>1. /\ pc' \in [Worker -> Place] /\ job' \in [Worker -> Job]
      /\ pc[w] = "commit" /\ pc'[w] = "idle" /\ job'[w] = NoJob
      /\ \A x \in Worker \ {w} : pc'[x] = pc[x] /\ job'[x] = job[x]
  <2>1. Goto(w, "idle", NoJob) /\ TypeOK /\ "idle" \in Place /\ NoJob \in Job
    BY DEF Commit, Inv, Place, NoJob, Job, Trust, MaxTrust
  <2> QED BY <2>1, GotoFacts DEF Commit
<1>2. /\ events' = events \cup {o} /\ score' = job[w].sum /\ mirrored' = job[w].sum
      /\ profileLock' = None /\ scoreLock' = None /\ mode' = mode
  BY DEF Commit
<1>3. /\ o \in Source /\ job[w].sum \subseteq events \cup {o}
      /\ job[w].sum \subseteq Source /\ job[w].trust \in Trust
      /\ Hooking(w) => job[w].counted \subseteq events \cup {o}
  BY <1>1 DEF Inv, TypeOK, Job, Sources, InHand, Writing, Summed
<1>4. /\ trust' \in Trust /\ earned' \in Trust
      /\ counted' \subseteq Outcome /\ counted' \subseteq events'
      /\ mode = "alone" => trust' = earned' /\ counted' = events' \cap Outcome
  <2>1. CASE Hooking(w)
    <3>1. /\ trust' = job[w].trust /\ counted' = job[w].counted
          /\ earned' = ApplyTrustEvent(earned, EventOf[o])
      BY <2>1 DEF Commit
    <3>2. earned \in Trust /\ EventOf[o] \in TrustEvent /\ job[w].counted \subseteq Outcome
      BY <2>1 DEF Inv, TypeOK, Hooking, Job
    <3>3. earned' \in Trust
      BY <3>1, <3>2, TrustClamped
    <3>4. mode = "alone" => trust' = earned' /\ counted' = events' \cap Outcome
      BY <1>1, <1>2, <2>1, <3>1 DEF Inv, FreshReputation, ReputationAdds, Writing, Hooking
    <3> QED BY <1>2, <1>3, <2>1, <3>1, <3>2, <3>3, <3>4
  <2>2. CASE ~Hooking(w)
    <3>1. trust' = trust /\ counted' = counted /\ earned' = earned /\ o \notin Outcome
      BY <2>2 DEF Commit, Hooking
    <3> QED BY <1>2, <3>1 DEF Inv, TypeOK, OnlyCommittedCounts, ReputationAdds
  <2> QED BY <2>1, <2>2
<1>5. \A x \in Worker \ {w} : pc[x] \in Writing /\ Hooking(x) => ~Hooking(w) /\ profileLock = x
  BY <1>1 DEF Inv, Holders, Writing
<1>6. mode # "free" => \A x \in Worker \ {w} : pc[x] \notin Summed \cup Rebuilding
  \* Another hook would hold the profile; anybody else is by itself.
  BY <1>1, <1>5 DEF Inv, Apart, Hooking, Sources, Writing, Summed, Rebuilding
<1>7. TypeOK'
  BY <1>1, <1>2, <1>3, <1>4 DEF Inv, TypeOK
<1>8. Sources' /\ Apart'
  BY <1>1, <1>2 DEF Inv, Sources, Apart, Hooking, Writing, Rebuilding
<1>9. Holders'
  <2>1. \A x \in Worker \ {w} : ~(pc[x] \in Writing /\ Hooking(x)) /\ pc[x] # "commit"
    BY <1>1, <1>5 DEF Inv, Holders, Commit, Writing
  <2> QED BY <1>1, <1>2, <2>1 DEF Holders, Hooking, Writing
<1>10. InHand'
  BY <1>1, <1>2 DEF Inv, InHand, Hooking, Writing, Summed, Rebuilding
<1>11. Fresh'
  BY <1>1, <1>2, <1>6 DEF Fresh, Summed, Rebuilding
<1>12. FreshReputation'
  BY <1>1, <1>2 DEF Inv, Apart, FreshReputation, Writing
<1>13. OnlyCommittedCounts' /\ ReputationAdds'
  BY <1>2, <1>3, <1>4 DEF OnlyCommittedCounts, ReputationAdds
<1>14. ScoreIsSum'
  BY <1>1, <1>2 DEF Inv, Fresh, Summed, ScoreIsSum
<1> QED BY <1>7, <1>8, <1>9, <1>10, <1>11, <1>12, <1>13, <1>14 DEF Inv

LEMMA Inductive == Inv /\ [Next]_vars => Inv'
<1> SUFFICES ASSUME Inv, [Next]_vars PROVE Inv' OBVIOUS
<1>1. CASE UNCHANGED vars
  BY <1>1 DEF vars, Inv, TypeOK, Sources, Holders, InHand, Apart, Fresh, FreshReputation,
    OnlyCommittedCounts, ScoreIsSum, ReputationAdds, Hooking
<1>2. CASE Next
  <2>1. PICK w \in Worker : \/ Transaction(w) \/ Rebuild(w)
                            \/ \E o \in Outcome : Hook(w, o)
                            \/ \E a \in Adjustment : Adjust(w, a)
    BY <1>2 DEF Next
  <2>2. CASE Transaction(w)
    BY <2>2, ReadTrustStep, WriteProfileStep, SumStep, UpsertScoreStep, CommitStep, RollbackStep
    DEF Transaction
  <2>3. CASE Rebuild(w)
    BY <2>3, RebuildSumStep, RebuildScoreStep, RebuildTierStep, RebuildDiesStep DEF Rebuild
  <2>4. CASE \E o \in Outcome : Hook(w, o)
    BY <2>4, HookStep
  <2>5. CASE \E a \in Adjustment : Adjust(w, a)
    BY <2>5, AdjustStep
  <2> QED BY <2>1, <2>2, <2>3, <2>4, <2>5
<1> QED BY <1>1, <1>2

\* The inductive invariant of a promoter's standing, for any number of outcomes,
\* adjustments and workers.
THEOREM StandingInvariant == Spec => []Inv
  BY Initially, Inductive, PTL DEF Spec

\* Every column and every worker keeps its type; trust stays between its bounds.
THEOREM StandingTypeCorrect == Spec => []TypeOK
<1>1. Inv => TypeOK BY DEF Inv
<1> QED BY <1>1, StandingInvariant, PTL

\* recomputeScore() in overlapping hooks never loses or invents a point event.
THEOREM ScoreAlwaysSum == Spec => []ScoreIsSum
<1>1. Inv => ScoreIsSum BY DEF Inv
<1> QED BY <1>1, StandingInvariant, PTL

\* Nothing that was rolled back is counted, whatever overlaps.
THEOREM RolledBackNeverCounts == Spec => []OnlyCommittedCounts
<1>1. Inv => OnlyCommittedCounts BY DEF Inv
<1> QED BY <1>1, StandingInvariant, PTL

\* Without overlap the reputation is the outcomes' in their order.
THEOREM ReputationAlwaysAdds == Spec => []ReputationAdds
<1>1. Inv => ReputationAdds BY DEF Inv
<1> QED BY <1>1, StandingInvariant, PTL

\* Any number of hooks on one promoter never wait for each other in a circle of two.
THEOREM NoCircleOfHooks == Spec => []HooksNeverWaitInCircle
<1>1. Inv => HooksNeverWaitInCircle
  <2> SUFFICES ASSUME Inv, mode # "free", NEW w \in Worker, NEW x \in Worker,
                      Waits(w, x), Waits(x, w)
               PROVE  FALSE
    BY DEF HooksNeverWaitInCircle
  <2> USE StandingAssumption
  <2>1. scoreLock = w => pc[w] = "commit" /\ x # w
    BY DEF Inv, Holders, Waits
  <2>2. scoreLock = x => pc[x] = "commit" /\ x # w
    BY DEF Inv, Holders, Waits
  <2>3. ~(profileLock = x /\ profileLock = w /\ x # w)
    OBVIOUS
  <2>4. \A y, z \in Worker : ~(profileLock = z /\ y # z /\ pc[y] = "commit")
    BY DEF Inv, Holders, Apart, Hooking, Writing
  <2> QED BY <2>1, <2>2, <2>3, <2>4 DEF Waits
<1> QED BY <1>1, StandingInvariant, PTL

-------------------------------------------------------------------------------
(* Team *)

Pending(i) == invite[i] # None /\ invite[i].status = "PENDING"

\* While the rail is judged, one request is under way at most.
OneRequest == \A w, x \in Request : step[w] # "idle" /\ x # w => step[x] = "idle"

\* One person has one pending invitation at most, and is no admin meanwhile: accepting
\* it can only add a manager.
Invitations ==
  /\ \A i, j \in Invite : Pending(i) /\ Pending(j) /\ invite[i].email = invite[j].email => i = j
  /\ \A i \in Invite : Pending(i) => manages[invite[i].email] = None

\* What a request has read is still so when it writes.
StillSo == \A w \in Request :
  /\ step[w] \in {"pending", "invite"} => manages[read[w].email] = None
  /\ step[w] = "invite" => T!PendingFor(read[w].email) = {}
  /\ step[w] = "accept" => Pending(read[w].id)
  /\ step[w] \in {"edit", "suspend"} =>
       /\ manages[read[w].person] # None
       /\ ~read[w].value /\ manages[read[w].person] = TRUE => T!NotLastManager(read[w].person)

Rail == OneRequest /\ Invitations /\ StillSo /\ T!Managers # {}
TeamInv == T!TypeOK /\ (alone => Rail)

-------------------------------------------------------------------------------

LEMMA TeamInitially == T!Init => TeamInv
<1> SUFFICES ASSUME T!Init PROVE TeamInv OBVIOUS
<1> USE PeopleAssumption DEF T!TeamAssumption
<1>1. T!TypeOK BY DEF T!Init, T!TypeOK
<1>2. OneRequest /\ Invitations /\ StillSo
  BY DEF T!Init, OneRequest, Invitations, StillSo, Pending
<1>3. T!Managers # {}
  <2>1. PICK p \in Founder : TRUE OBVIOUS
  <2>2. p \in T!Managers BY <2>1 DEF T!Init, T!Managers
  <2> QED BY <2>2
<1> QED BY <1>1, <1>2, <1>3 DEF TeamInv, Rail

\* A request begins: by itself, where the rail is judged.
LEMMA TeamBegins ==
  ASSUME T!TypeOK, NEW w \in Request,
         NEW stop \in {"pending", "revoke", "accept", "edit", "suspend"},
         NEW what \in T!Inviting \cup T!Answering \cup T!Editing, T!Begin(w, stop, what)
  PROVE  /\ step' \in [Request -> {"idle", "pending", "invite", "revoke", "accept", "edit", "suspend"}]
         /\ read' \in [Request -> T!Inviting \cup T!Answering \cup T!Editing \cup {None}]
         /\ step'[w] = stop /\ read'[w] = what
         /\ \A x \in Request \ {w} : step'[x] = step[x] /\ read'[x] = read[x]
         /\ alone => \A x \in Request \ {w} : step'[x] = "idle"
  BY DEF T!Begin, T!TypeOK

\* A request ends.
LEMMA TeamEnds ==
  ASSUME T!TypeOK, NEW w \in Request, T!Done(w)
  PROVE  /\ step' \in [Request -> {"idle", "pending", "invite", "revoke", "accept", "edit", "suspend"}]
         /\ read' \in [Request -> T!Inviting \cup T!Answering \cup T!Editing \cup {None}]
         /\ step'[w] = "idle" /\ \A x \in Request \ {w} : step'[x] = step[x] /\ read'[x] = read[x]
  BY DEF T!Done, T!Goto, T!TypeOK

\* Reading changes nothing but the request's own place.
LEMMA TeamReadStep ==
  ASSUME TeamInv, NEW w \in Request, T!Read(w)
  PROVE  TeamInv'
<1> USE PeopleAssumption DEF T!TeamAssumption
<1>1. UNCHANGED <<account, manages, invite, alone>>
  BY DEF T!Read, T!AcceptRead, T!RevokeRead, T!InviteRead, T!UpdateRead, T!SetActiveRead
<1>2. PICK stop \in {"pending", "revoke", "accept", "edit", "suspend"},
           what \in T!Inviting \cup T!Answering \cup T!Editing :
        /\ T!Begin(w, stop, what)
        /\ stop = "pending" => what \in T!Inviting /\ manages[what.email] = None
        /\ stop \in {"revoke", "accept"} => what \in T!Answering /\ Pending(what.id)
        /\ stop \in {"edit", "suspend"} =>
             /\ what \in T!Editing /\ manages[what.person] # None
             /\ ~what.value /\ manages[what.person] = TRUE => T!NotLastManager(what.person)
  <2>1. CASE \E i \in Invite : T!AcceptRead(w, i)
    BY <2>1 DEF T!AcceptRead, T!Answering, Pending
  <2>2. CASE \E actor \in Person, i \in Invite : T!RevokeRead(w, actor, i)
    BY <2>2 DEF T!RevokeRead, T!Answering, Pending
  <2>3. CASE \E actor, p \in Person, b \in BOOLEAN : T!InviteRead(w, actor, p, b)
    BY <2>3 DEF T!InviteRead, T!Inviting
  <2>4. CASE \E actor, p \in Person, b \in BOOLEAN : T!UpdateRead(w, actor, p, b)
    BY <2>4 DEF T!UpdateRead, T!Editing
  <2>5. CASE \E actor, p \in Person, b \in BOOLEAN : T!SetActiveRead(w, actor, p, b)
    BY <2>5 DEF T!SetActiveRead, T!Editing
  <2> QED BY <2>1, <2>2, <2>3, <2>4, <2>5 DEF T!Read
<1>3. /\ step' \in [Request -> {"idle", "pending", "invite", "revoke", "accept", "edit", "suspend"}]
      /\ read' \in [Request -> T!Inviting \cup T!Answering \cup T!Editing \cup {None}]
      /\ step'[w] = stop /\ read'[w] = what
      /\ \A x \in Request \ {w} : step'[x] = step[x] /\ read'[x] = read[x]
      /\ alone => \A x \in Request \ {w} : step'[x] = "idle"
  BY <1>2, TeamBegins DEF TeamInv
<1>4. T!TypeOK'
  BY <1>1, <1>2, <1>3 DEF TeamInv, T!TypeOK, Pending
<1>5. alone' => Rail'
  <2> SUFFICES ASSUME alone' PROVE Rail' OBVIOUS
  <2>1. Rail /\ alone BY <1>1 DEF TeamInv
  <2>2. OneRequest' BY <1>3, <2>1 DEF OneRequest
  <2>3. Invitations' /\ T!Managers' # {}
    BY <1>1, <2>1 DEF Rail, Invitations, Pending, T!Managers
  <2>4. StillSo'
    BY <1>1, <1>2, <1>3, <2>1 DEF StillSo, T!PendingFor, Pending, T!NotLastManager, T!Managers
  <2> QED BY <2>2, <2>3, <2>4 DEF Rail
<1> QED BY <1>4, <1>5 DEF TeamInv

\* A request that ends, where it was the only one, leaves none under way.
LEMMA NoneUnderWay ==
  ASSUME TeamInv, NEW w \in Request, T!Done(w), step[w] # "idle", alone, alone' = alone
  PROVE  \A x \in Request : step'[x] = "idle"
  BY TeamEnds DEF TeamInv, Rail, OneRequest

LEMMA Quiet ==
  ASSUME \A x \in Request : step'[x] = "idle"
  PROVE  OneRequest' /\ StillSo'
  BY DEF OneRequest, StillSo

LEMMA InviteCheckStep ==
  ASSUME TeamInv, NEW w \in Request, T!InviteCheck(w)
  PROVE  TeamInv'
<1> USE PeopleAssumption DEF T!TeamAssumption
<1>1. UNCHANGED <<account, manages, invite, alone>> /\ step[w] = "pending"
  BY DEF T!InviteCheck
<1>2. CASE T!PendingFor(read[w].email) = {}
  <2>1. /\ read' = read /\ step'[w] = "invite" /\ \A x \in Request \ {w} : step'[x] = step[x]
        /\ step' \in [Request -> {"idle", "pending", "invite", "revoke", "accept", "edit", "suspend"}]
    BY <1>2 DEF T!InviteCheck, T!Goto, TeamInv, T!TypeOK
  <2>2. T!TypeOK' BY <1>1, <2>1 DEF TeamInv, T!TypeOK
  <2>3. alone => OneRequest' /\ StillSo'
    BY <1>1, <1>2, <2>1 DEF TeamInv, Rail, OneRequest, StillSo, T!PendingFor, Pending, T!NotLastManager, T!Managers
  <2>4. alone => Invitations' /\ T!Managers' # {}
    BY <1>1 DEF TeamInv, Rail, Invitations, Pending, T!Managers
  <2> QED BY <1>1, <2>2, <2>3, <2>4 DEF TeamInv, Rail
<1>3. CASE T!PendingFor(read[w].email) # {}
  <2>1. T!Done(w) BY <1>3 DEF T!InviteCheck
  <2>2. T!TypeOK' BY <1>1, <2>1, TeamEnds DEF TeamInv, T!TypeOK
  <2>3. alone => OneRequest' /\ StillSo' BY <1>1, <2>1, NoneUnderWay, Quiet
  <2>4. alone => Invitations' /\ T!Managers' # {}
    BY <1>1 DEF TeamInv, Rail, Invitations, Pending, T!Managers
  <2> QED BY <1>1, <2>2, <2>3, <2>4 DEF TeamInv, Rail
<1> QED BY <1>2, <1>3

LEMMA AbandonStep ==
  ASSUME TeamInv, NEW w \in Request, T!Abandon(w)
  PROVE  TeamInv'
<1> USE PeopleAssumption DEF T!TeamAssumption
<1>1. T!Done(w) /\ step[w] # "idle" /\ alone' = alone /\ UNCHANGED <<account, manages, invite>>
  BY DEF T!Abandon
<1>2. T!TypeOK'
  BY <1>1, TeamEnds DEF TeamInv, T!TypeOK
<1>3. alone => OneRequest' /\ StillSo'
  BY <1>1, NoneUnderWay, Quiet
<1>4. alone => Invitations'
  BY <1>1 DEF TeamInv, Rail, Invitations, Pending
<1>5. alone => T!Managers' # {}
  BY <1>1 DEF TeamInv, Rail, T!Managers
<1> QED BY <1>1, <1>2, <1>3, <1>4, <1>5 DEF TeamInv, Rail

LEMMA InviteCreateStep ==
  ASSUME TeamInv, NEW w \in Request, NEW i \in Invite, T!InviteCreate(w, i)
  PROVE  TeamInv'
<1> USE PeopleAssumption DEF T!TeamAssumption
<1> DEFINE row == [email |-> read[w].email, grant |-> read[w].grant, status |-> "PENDING"]
<1>1. /\ T!Done(w) /\ step[w] # "idle" /\ step[w] = "invite" /\ alone' = alone
      /\ UNCHANGED <<account, manages>>
      /\ invite[i] = None /\ invite' = [invite EXCEPT ![i] = row]
  BY DEF T!InviteCreate
<1>a. row \in T!Row /\ row # None /\ row.email = read[w].email
  <2>1. read[w] \in T!Inviting BY <1>1 DEF TeamInv, T!TypeOK
  <2> QED BY <2>1 DEF T!Inviting, T!Row
<1>b. invite'[i] = row /\ \A j \in Invite \ {i} : invite'[j] = invite[j]
  BY <1>1 DEF TeamInv, T!TypeOK
<1> HIDE DEF row
<1>2. T!TypeOK'
  BY <1>1, <1>a, <1>b, TeamEnds DEF TeamInv, T!TypeOK
<1>3. alone => OneRequest' /\ StillSo'
  BY <1>1, NoneUnderWay, Quiet
<1>4. alone => Invitations'
  <2> SUFFICES ASSUME alone PROVE Invitations' OBVIOUS
  <2>1. T!PendingFor(read[w].email) = {} /\ manages[read[w].email] = None
    BY <1>1 DEF TeamInv, Rail, StillSo
  <2>2. \A j \in Invite \ {i} : Pending(j)' => Pending(j) /\ invite[j].email # row.email
    BY <1>a, <1>b, <2>1 DEF T!PendingFor, Pending
  <2> QED BY <1>1, <1>a, <1>b, <2>1, <2>2 DEF TeamInv, Rail, Invitations
<1>5. alone => T!Managers' # {}
  BY <1>1 DEF TeamInv, Rail, T!Managers
<1> QED BY <1>1, <1>2, <1>3, <1>4, <1>5 DEF TeamInv, Rail

LEMMA RevokeWriteStep ==
  ASSUME TeamInv, NEW w \in Request, T!RevokeWrite(w)
  PROVE  TeamInv'
<1> USE PeopleAssumption DEF T!TeamAssumption
<1> DEFINE i == read[w].id
<1>1. /\ T!Done(w) /\ step[w] # "idle" /\ step[w] = "revoke" /\ alone' = alone
      /\ UNCHANGED <<account, manages>>
      /\ invite' = [invite EXCEPT ![i].status = "REVOKED"]
  BY DEF T!RevokeWrite
<1>a. i \in Invite /\ invite[i] \in T!Row
  BY <1>1 DEF TeamInv, T!TypeOK, T!Answering
<1>b. /\ invite' \in [Invite -> T!Row \cup {None}] /\ invite'[i] # None
      /\ invite'[i].status = "REVOKED" /\ \A j \in Invite \ {i} : invite'[j] = invite[j]
  <2>1. [invite[i] EXCEPT !.status = "REVOKED"] \in T!Row BY <1>a DEF T!Row
  <2> QED BY <1>1, <1>a, <2>1 DEF TeamInv, T!TypeOK, T!Row
<1> HIDE DEF i
<1>2. T!TypeOK'
  BY <1>1, <1>b, TeamEnds DEF TeamInv, T!TypeOK
<1>3. alone => OneRequest' /\ StillSo'
  BY <1>1, NoneUnderWay, Quiet
<1>4. alone => Invitations'
  BY <1>1, <1>a, <1>b DEF TeamInv, Rail, Invitations, Pending
<1>5. alone => T!Managers' # {}
  BY <1>1 DEF TeamInv, Rail, T!Managers
<1> QED BY <1>1, <1>2, <1>3, <1>4, <1>5 DEF TeamInv, Rail

LEMMA AcceptWriteStep ==
  ASSUME TeamInv, NEW w \in Request, T!AcceptWrite(w)
  PROVE  TeamInv'
<1> USE PeopleAssumption DEF T!TeamAssumption
<1> DEFINE i == read[w].id
           p == invite[i].email
<1>1. /\ T!Done(w) /\ step[w] # "idle" /\ step[w] = "accept" /\ alone' = alone
      /\ account' = [account EXCEPT ![p] = "ACTIVE"]
      /\ manages' = [manages EXCEPT ![p] = invite[i].grant]
      /\ invite' = [invite EXCEPT ![i].status = "ACCEPTED"]
  BY DEF T!AcceptWrite
<1>a. i \in Invite /\ invite[i] \in T!Row /\ p \in Person /\ invite[i].grant \in BOOLEAN
  <2>1. i \in Invite /\ invite[i] \in T!Row BY <1>1 DEF TeamInv, T!TypeOK, T!Answering
  <2> QED BY <2>1 DEF T!Row
<1>b. /\ invite' \in [Invite -> T!Row \cup {None}] /\ invite'[i] # None
      /\ invite'[i].status = "ACCEPTED" /\ \A j \in Invite \ {i} : invite'[j] = invite[j]
  <2>1. [invite[i] EXCEPT !.status = "ACCEPTED"] \in T!Row BY <1>a DEF T!Row
  <2> QED BY <1>1, <1>a, <2>1 DEF TeamInv, T!TypeOK, T!Row
<1>c. /\ \A q \in Person \ {p} : account'[q] = account[q] /\ manages'[q] = manages[q]
      /\ alone => manages[p] = None /\ Pending(i)
  BY <1>1, <1>a DEF TeamInv, T!TypeOK, Rail, StillSo, Invitations
<1>d. p = invite[i].email
  OBVIOUS
<1> HIDE DEF i, p
<1>2. T!TypeOK'
  BY <1>1, <1>a, <1>b, TeamEnds DEF TeamInv, T!TypeOK
<1>3. alone => OneRequest' /\ StillSo'
  BY <1>1, NoneUnderWay, Quiet
<1>4. alone => Invitations'
  <2> SUFFICES ASSUME alone PROVE Invitations' OBVIOUS
  <2>1. \A j \in Invite \ {i} : Pending(j)' => Pending(j) /\ invite[j].email # p
    <3> SUFFICES ASSUME NEW j \in Invite \ {i}, Pending(j)'
                 PROVE  Pending(j) /\ invite[j].email # p
      OBVIOUS
    <3>1. Pending(j) BY <1>b DEF Pending
    <3> QED BY <1>a, <1>c, <1>d, <3>1 DEF TeamInv, Rail, Invitations
  <2>2. \A j \in Invite : j = i => ~Pending(j)' BY <1>b DEF Pending
  <2>3. \A j \in Invite : Pending(j)' => j # i /\ Pending(j) /\ invite'[j] = invite[j] /\ invite[j].email \in Person \ {p}
    BY <1>b, <2>1, <2>2 DEF TeamInv, T!TypeOK, Pending, T!Row
  <2> QED BY <1>c, <2>3 DEF TeamInv, Rail, Invitations
<1>5. alone => T!Managers' # {}
  <2> SUFFICES ASSUME alone PROVE T!Managers' # {} OBVIOUS
  <2>1. PICK q \in T!Managers : TRUE BY DEF TeamInv, Rail
  <2>2. q # p BY <1>c, <2>1 DEF T!Managers
  <2> QED BY <1>c, <2>1, <2>2 DEF T!Managers
<1> QED BY <1>1, <1>2, <1>3, <1>4, <1>5 DEF TeamInv, Rail

LEMMA UpdateWriteStep ==
  ASSUME TeamInv, NEW w \in Request, T!UpdateWrite(w)
  PROVE  TeamInv'
<1> USE PeopleAssumption DEF T!TeamAssumption
<1> DEFINE p == read[w].person
           grant == read[w].value
<1>1. /\ T!Done(w) /\ step[w] # "idle" /\ step[w] = "edit" /\ alone' = alone
      /\ UNCHANGED <<account, invite>> /\ manages' = [manages EXCEPT ![p] = grant]
  BY DEF T!UpdateWrite
<1>a. p \in Person /\ grant \in BOOLEAN
  BY <1>1 DEF TeamInv, T!TypeOK, T!Editing
<1>b. /\ manages'[p] = grant /\ \A q \in Person \ {p} : manages'[q] = manages[q]
      /\ alone => manages[p] # None /\ (~grant /\ manages[p] = TRUE => T!NotLastManager(p))
  BY <1>1, <1>a DEF TeamInv, T!TypeOK, Rail, StillSo
<1> HIDE DEF p, grant
<1>2. T!TypeOK'
  BY <1>1, <1>a, TeamEnds DEF TeamInv, T!TypeOK
<1>3. alone => OneRequest' /\ StillSo'
  BY <1>1, NoneUnderWay, Quiet
<1>4. alone => Invitations'
  BY <1>1, <1>a, <1>b DEF TeamInv, T!TypeOK, Rail, Invitations, Pending, T!Row
<1>5. alone => T!Managers' # {}
  <2> SUFFICES ASSUME alone PROVE T!Managers' # {} OBVIOUS
  <2>1. PICK q \in T!Managers : q # p \/ grant = TRUE
    BY <1>a, <1>b DEF TeamInv, Rail, T!NotLastManager, T!Managers
  <2> QED BY <1>1, <1>b, <2>1 DEF T!Managers
<1> QED BY <1>1, <1>2, <1>3, <1>4, <1>5 DEF TeamInv, Rail

LEMMA SetActiveWriteStep ==
  ASSUME TeamInv, NEW w \in Request, T!SetActiveWrite(w)
  PROVE  TeamInv'
<1> USE PeopleAssumption DEF T!TeamAssumption
<1> DEFINE p == read[w].person
           active == read[w].value
<1>1. /\ T!Done(w) /\ step[w] # "idle" /\ step[w] = "suspend" /\ alone' = alone
      /\ UNCHANGED <<manages, invite>>
      /\ account' = [account EXCEPT ![p] = IF active THEN "ACTIVE" ELSE "SUSPENDED"]
  BY DEF T!SetActiveWrite
<1>a. p \in Person /\ active \in BOOLEAN
  BY <1>1 DEF TeamInv, T!TypeOK, T!Editing
<1>b. /\ account'[p] = (IF active THEN "ACTIVE" ELSE "SUSPENDED")
      /\ \A q \in Person \ {p} : account'[q] = account[q]
      /\ alone => (~active /\ manages[p] = TRUE => T!NotLastManager(p))
  BY <1>1, <1>a DEF TeamInv, T!TypeOK, Rail, StillSo
<1> HIDE DEF p, active
<1>2. T!TypeOK'
  BY <1>1, <1>a, TeamEnds DEF TeamInv, T!TypeOK
<1>3. alone => OneRequest' /\ StillSo'
  BY <1>1, NoneUnderWay, Quiet
<1>4. alone => Invitations'
  BY <1>1 DEF TeamInv, Rail, Invitations, Pending
<1>5. alone => T!Managers' # {}
  <2> SUFFICES ASSUME alone PROVE T!Managers' # {} OBVIOUS
  <2>1. PICK q \in T!Managers : q # p \/ active = TRUE
    BY <1>a, <1>b DEF TeamInv, Rail, T!NotLastManager, T!Managers
  <2> QED BY <1>1, <1>b, <2>1 DEF T!Managers
<1> QED BY <1>1, <1>2, <1>3, <1>4, <1>5 DEF TeamInv, Rail

LEMMA TeamInductive == TeamInv /\ [T!Next]_teamVars => TeamInv'
<1> SUFFICES ASSUME TeamInv, [T!Next]_teamVars PROVE TeamInv' OBVIOUS
<1>1. CASE UNCHANGED teamVars
  BY <1>1 DEF teamVars, TeamInv, T!TypeOK, Rail, OneRequest, Invitations, StillSo, Pending, T!PendingFor,
    T!NotLastManager, T!Managers
<1>2. ASSUME NEW w \in Request, T!Read(w) PROVE TeamInv'
  BY <1>2, TeamReadStep
<1>3. ASSUME NEW w \in Request, T!Write(w) PROVE TeamInv'
  BY <1>3, InviteCheckStep, RevokeWriteStep, AcceptWriteStep, UpdateWriteStep, SetActiveWriteStep,
    AbandonStep, InviteCreateStep DEF T!Write
<1>4. ASSUME NEW p \in Person, NEW active \in BOOLEAN, T!SetPromoterStatus(p, active) PROVE TeamInv'
  <2>1. ~alone' /\ UNCHANGED <<manages, invite, step, read>> /\ alone' = alone
    BY <1>4 DEF T!SetPromoterStatus
  <2>2. T!TypeOK' BY <1>4, <2>1 DEF T!SetPromoterStatus, TeamInv, T!TypeOK
  <2> QED BY <2>1, <2>2 DEF TeamInv
<1> QED BY <1>1, <1>2, <1>3, <1>4 DEF T!Next

-------------------------------------------------------------------------------
(* Mail *)

\* The dispatchers that have mailed a notification and not recorded it.
Sending(n) == {d \in Dispatcher : place[d] = "sent" /\ batch[d][1].id = n}

\* What a dispatcher has in hand it may mail, and has failed no more often than it was
\* refused.
Listed(e) ==
  /\ e.id \in N!Written /\ note[e.id].status # "SKIPPED"
  /\ e.attempts < MaxAttempts /\ e.attempts <= refused[e.id]
InHandOf(d) == \A i \in 1 .. Len(batch[d]) : Listed(batch[d][i])
Failing(d) == place[d] = "failed" => batch[d][1].attempts < refused[batch[d][1].id]

\* A mail that left is counted by its dispatcher or in the row.
Counted(n) ==
  /\ Cardinality(Sending(n)) <= mailed[n]
  /\ n \in N!Written => note[n].attempts + Cardinality(Sending(n)) <= mailed[n] + refused[n]

\* Only refusals count towards giving up.
Truthful(n) ==
  /\ n \notin N!Written => mailed[n] = 0 /\ refused[n] = 0
  /\ n \in N!Written =>
       /\ note[n].status = "PENDING" => note[n].attempts < MaxAttempts /\ note[n].attempts <= refused[n]
       /\ note[n].status = "SENT" => mailed[n] >= 1
       /\ note[n].status = "FAILED" => refused[n] >= MaxAttempts
       /\ note[n].status = "SKIPPED" => mailed[n] = 0 /\ refused[n] = 0

MailInv ==
  /\ N!TypeOK
  /\ \A d \in Dispatcher : InHandOf(d) /\ Failing(d)
  /\ \A n \in Note : Counted(n) /\ Truthful(n) /\ refused[n] <= MaxAttempts

\* The community modules' operators, as Notifications has them.
LEMMA SameFinite == \A S : N!IsFiniteSet(S) <=> IsFiniteSet(S)
  BY DEF N!IsFiniteSet, IsFiniteSet

LEMMA SameSize == \A S : N!Cardinality(S) = Cardinality(S)
  BY DEF N!Cardinality, Cardinality

LEMMA SameMin == \A S : N!Min(S) = CHOOSE x \in S : \A y \in S : x =< y
  BY DEF N!Min

LEMMA MailIsTruthful == MailInv => N!StatusTellsMail
<1> SUFFICES ASSUME MailInv, NEW n \in N!Written
             PROVE  /\ note[n].status = "SENT" => mailed[n] >= 1
                    /\ note[n].status = "FAILED" => refused[n] >= MaxAttempts
                    /\ note[n].status = "SKIPPED" => mailed[n] = 0 /\ refused[n] = 0
                    /\ note[n].attempts <= mailed[n] + refused[n]
  BY DEF N!StatusTellsMail
<1>1. n \in Note /\ Counted(n) /\ Truthful(n)
  BY DEF MailInv, N!Written
<1>2. Cardinality(Sending(n)) \in Nat
  BY PeopleAssumption, SameFinite, FS_Subset, FS_CardinalityType DEF N!NotificationsAssumption, Sending
<1>3. note[n].attempts \in Nat /\ mailed[n] \in Nat /\ refused[n] \in Nat
  BY <1>1 DEF MailInv, N!TypeOK, N!Written, N!Row
<1>4. note[n].attempts <= mailed[n] + refused[n]
  BY <1>1, <1>2, <1>3 DEF Counted
<1> QED BY <1>1, <1>4 DEF Truthful

LEMMA MailInitially == N!Init => MailInv
<1> SUFFICES ASSUME N!Init PROVE MailInv OBVIOUS
<1> USE PeopleAssumption DEF N!NotificationsAssumption, N!Init
<1>1. N!TypeOK
  <2>1. \A S : <<>> \in Seq(S) BY EmptySeq
  <2> QED BY <2>1 DEF N!TypeOK
<1>2. \A n \in Note : Sending(n) = {} /\ n \notin N!Written
  BY DEF Sending, N!Written
<1>3. \A n \in Note : Counted(n) /\ Truthful(n) /\ refused[n] <= MaxAttempts
  <2>1. Cardinality({}) = 0 BY FS_EmptySet
  <2>2. \A n \in Note : Cardinality(Sending(n)) = 0 /\ mailed[n] = 0 /\ refused[n] = 0
    BY <1>2, <2>1
  <2>3. \A n \in Note : Counted(n)
    BY <1>2, <2>2 DEF Counted
  <2>4. \A n \in Note : Truthful(n)
    BY <1>2, <2>2 DEF Truthful
  <2> QED BY <2>2, <2>3, <2>4
<1>4. \A d \in Dispatcher : InHandOf(d) /\ Failing(d)
  <2>1. \A d \in Dispatcher : Len(batch[d]) = 0
    BY EmptySeq
  <2> QED BY <2>1 DEF InHandOf, Failing
<1> QED BY <1>1, <1>3, <1>4 DEF MailInv

\* The rows, of a typed state.
LEMMA MailRows ==
  ASSUME MailInv
  PROVE  /\ note \in [Note -> N!Row \cup {None}] /\ None \notin N!Row
         /\ \A n \in Note : n \in N!Written <=> note[n] \in N!Row
         /\ \A n \in N!Written : note[n].attempts \in Nat
         /\ mailed \in [Note -> Nat] /\ refused \in [Note -> Nat]
         /\ \A n \in Note : IsFiniteSet(Sending(n)) /\ Cardinality(Sending(n)) \in Nat
         /\ MaxAttempts \in Nat \ {0}
<1> USE PeopleAssumption DEF N!NotificationsAssumption
<1>1. note \in [Note -> N!Row \cup {None}] /\ None \notin N!Row
  BY DEF MailInv, N!TypeOK
<1>2. \A n \in Note : n \in N!Written <=> note[n] \in N!Row
  BY <1>1 DEF N!Written
<1>3. \A n \in N!Written : note[n].attempts \in Nat
  BY <1>1, <1>2 DEF N!Written, N!Row
<1>4. \A n \in Note : IsFiniteSet(Sending(n)) /\ Cardinality(Sending(n)) \in Nat
  BY SameFinite, FS_Subset, FS_CardinalityType DEF Sending
<1> QED BY <1>1, <1>2, <1>3, <1>4 DEF MailInv, N!TypeOK

\* A busy dispatcher has a row in hand.
LEMMA HasInHand ==
  ASSUME MailInv, NEW d \in Dispatcher, place[d] # "idle"
  PROVE  /\ batch[d] \in Seq([id: Note, attempts: Nat]) /\ Len(batch[d]) \in Nat \ {0}
         /\ batch[d][1] \in [id: Note, attempts: Nat] /\ Listed(batch[d][1])
<1>1. batch[d] \in Seq([id: Note, attempts: Nat]) /\ batch[d] # <<>>
  BY DEF MailInv, N!TypeOK
<1>2. Len(batch[d]) \in Nat \ {0}
  BY <1>1, EmptySeq
<1>3. 1 \in 1 .. Len(batch[d])
  BY <1>2
<1>4. batch[d][1] \in [id: Note, attempts: Nat]
  BY <1>1, <1>3, ElementOfSeq
<1> QED BY <1>1, <1>2, <1>3, <1>4 DEF MailInv, InHandOf

\* What a step of one dispatcher does to the mails sent and not recorded.
LEMMA SendingMoves ==
  ASSUME MailInv, NEW d \in Dispatcher, NEW n \in Note,
         \A o \in Dispatcher \ {d} : place'[o] = place[o] /\ batch'[o] = batch[o]
  PROVE  /\ Cardinality(Sending(n)) \in Nat /\ Cardinality(Sending(n)') \in Nat
         /\ place'[d] # "sent" => Cardinality(Sending(n)') <= Cardinality(Sending(n))
         /\ place'[d] # "sent" /\ place[d] = "sent" /\ batch[d][1].id = n =>
              Cardinality(Sending(n)') = Cardinality(Sending(n)) - 1
         /\ place[d] # "sent" /\ place'[d] = "sent" =>
              Cardinality(Sending(n)') = Cardinality(Sending(n)) + (IF batch'[d][1].id = n THEN 1 ELSE 0)
<1> DEFINE now == Sending(n)
           after == Sending(n)'
<1>1. IsFiniteSet(Dispatcher)
  BY PeopleAssumption, SameFinite DEF N!NotificationsAssumption
<1>2. now \in SUBSET Dispatcher /\ after \in SUBSET Dispatcher
  BY DEF Sending
<1>3. IsFiniteSet(now) /\ IsFiniteSet(after)
  BY <1>1, <1>2, FS_Subset
<1>4. after \ {d} = now \ {d}
  BY DEF Sending
<1>5. /\ d \in now <=> place[d] = "sent" /\ batch[d][1].id = n
      /\ d \in after <=> place'[d] = "sent" /\ batch'[d][1].id = n
  BY DEF Sending
<1>6. Cardinality(now) \in Nat /\ Cardinality(after) \in Nat
  BY <1>3, FS_CardinalityType
<1> HIDE DEF now, after
<1>7. d \in now /\ d \notin after => Cardinality(after) = Cardinality(now) - 1
  <2>1. d \in now /\ d \notin after => after = now \ {d} BY <1>4
  <2> QED BY <1>3, <2>1, FS_RemoveElement
<1>8. d \notin now /\ d \in after => Cardinality(after) = Cardinality(now) + 1
  <2>1. d \notin now /\ d \in after => after = now \cup {d} BY <1>4
  <2> QED BY <1>3, <2>1, FS_AddElement
<1>9. (d \in now <=> d \in after) => after = now
  BY <1>4
<1>10. /\ place'[d] # "sent" => Cardinality(after) <= Cardinality(now)
       /\ place'[d] # "sent" /\ place[d] = "sent" /\ batch[d][1].id = n =>
            Cardinality(after) = Cardinality(now) - 1
       /\ place[d] # "sent" /\ place'[d] = "sent" =>
            Cardinality(after) = Cardinality(now) + (IF batch'[d][1].id = n THEN 1 ELSE 0)
  BY <1>5, <1>6, <1>7, <1>8, <1>9
<1> QED BY <1>6, <1>10 DEF now, after

\* A dispatcher that moves on keeps the rest of what it has in hand.
LEMMA MovesOn ==
  ASSUME MailInv, NEW d \in Dispatcher, place[d] # "idle", N!MoveOn(d),
         \A e \in [id: Note, attempts: Nat] : Listed(e) => Listed(e)',
         \A n \in Note : refused'[n] = refused[n]
  PROVE  /\ batch' \in [Dispatcher -> Seq([id: Note, attempts: Nat])]
         /\ place' \in [Dispatcher -> {"idle", "send", "sent", "failed"}]
         /\ \A o \in Dispatcher : place'[o] = "idle" <=> batch'[o] = <<>>
         /\ \A o \in Dispatcher : InHandOf(o)' /\ Failing(o)'
         /\ place'[d] # "sent"
         /\ \A o \in Dispatcher \ {d} : place'[o] = place[o] /\ batch'[o] = batch[o]
<1> DEFINE Entry == [id: Note, attempts: Nat]
<1>1. batch[d] \in Seq(Entry) /\ Len(batch[d]) \in Nat \ {0} /\ batch[d] # <<>>
  BY HasInHand, EmptySeq
<1>2. /\ batch \in [Dispatcher -> Seq(Entry)] /\ place \in [Dispatcher -> {"idle", "send", "sent", "failed"}]
      /\ \A o \in Dispatcher : place[o] = "idle" <=> batch[o] = <<>>
      /\ \A o \in Dispatcher : InHandOf(o) /\ Failing(o)
  BY DEF MailInv, N!TypeOK
<1>3. /\ batch'[d] = Tail(batch[d]) /\ place'[d] = (IF Len(batch[d]) = 1 THEN "idle" ELSE "send")
      /\ \A o \in Dispatcher \ {d} : place'[o] = place[o] /\ batch'[o] = batch[o]
      /\ batch' = [batch EXCEPT ![d] = Tail(@)]
      /\ place' = [place EXCEPT ![d] = IF Len(batch[d]) = 1 THEN "idle" ELSE "send"]
  BY <1>2 DEF N!MoveOn
<1>4. /\ Tail(batch[d]) \in Seq(Entry) /\ Len(Tail(batch[d])) = Len(batch[d]) - 1
      /\ \A i \in 1 .. Len(Tail(batch[d])) : Tail(batch[d])[i] = batch[d][i + 1]
  BY <1>1, HeadTailProperties
<1>5. Tail(batch[d]) = <<>> <=> Len(batch[d]) = 1
  <2>1. Tail(batch[d]) = <<>> <=> Len(Tail(batch[d])) = 0
    BY <1>4, EmptySeq
  <2> QED BY <1>1, <1>4, <2>1
<1>6. \A o \in Dispatcher : place'[o] = "idle" <=> batch'[o] = <<>>
  BY <1>2, <1>3, <1>5
<1>7. \A o \in Dispatcher : \A i \in 1 .. Len(batch[o]) : \E e \in Entry : e = batch[o][i] /\ Listed(e)'
  <2> SUFFICES ASSUME NEW o \in Dispatcher, NEW i \in 1 .. Len(batch[o])
               PROVE  \E e \in Entry : e = batch[o][i] /\ Listed(e)'
    OBVIOUS
  <2>1. batch[o][i] \in Entry /\ Listed(batch[o][i])
    BY <1>2, ElementOfSeq DEF InHandOf
  <2>2. PICK e \in Entry : e = batch[o][i] /\ Listed(e)
    BY <2>1
  <2> QED BY <2>2
<1>8. ASSUME NEW o \in Dispatcher PROVE InHandOf(o)' /\ Failing(o)'
  <2>1. CASE o = d
    <3>1. Failing(o)' BY <1>3, <2>1 DEF Failing
    <3>2. \A i \in 1 .. Len(batch'[d]) : \E e \in Entry : e = batch'[d][i] /\ Listed(e)'
      <4> SUFFICES ASSUME NEW i \in 1 .. Len(batch'[d])
                   PROVE  \E e \in Entry : e = batch'[d][i] /\ Listed(e)'
        OBVIOUS
      <4>1. i + 1 \in 1 .. Len(batch[d]) BY <1>1, <1>3, <1>4
      <4>2. batch'[d][i] = batch[d][i + 1] BY <1>3, <1>4
      <4> QED BY <1>7, <4>1, <4>2
    <3>3. InHandOf(d)' BY <3>2 DEF InHandOf, Listed
    <3> QED BY <2>1, <3>1, <3>3
  <2>2. CASE o # d
    <3>1. place'[o] = place[o] /\ batch'[o] = batch[o] BY <1>3, <2>2
    <3>2. InHandOf(o)' BY <1>7, <3>1 DEF InHandOf
    <3>3. ASSUME place[o] = "failed" PROVE batch[o][1].id \in Note
      <4>1. place[o] # "idle" BY <3>3
      <4> QED BY <4>1, HasInHand
    <3>4. Failing(o)' BY <1>2, <3>1, <3>3 DEF Failing
    <3> QED BY <3>2, <3>4
  <2> QED BY <2>1, <2>2
<1> QED BY <1>2, <1>3, <1>4, <1>6, <1>8

\* A row that is written is a row, and stays where it is.
LEMMA RowsOfDispatch ==
  ASSUME MailInv, NEW n \in Note
  PROVE  /\ n \in N!Written <=> note[n] \in N!Row
         /\ n \in N!Written =>
              /\ note[n].attempts \in Nat
              /\ note[n].status \in {"PENDING", "SENT", "FAILED", "SKIPPED"}
              /\ note[n].key \in DedupeKey \cup {None}
         /\ mailed[n] \in Nat /\ refused[n] \in Nat /\ refused[n] <= MaxAttempts
         /\ Counted(n) /\ Truthful(n)
<1>1. n \in N!Written <=> note[n] \in N!Row
  BY MailRows
<1>2. note[n] \in N!Row => /\ note[n].attempts \in Nat
                           /\ note[n].status \in {"PENDING", "SENT", "FAILED", "SKIPPED"}
                           /\ note[n].key \in DedupeKey \cup {None}
  BY DEF N!Row, N!EmailStatus
<1>3. mailed[n] \in Nat /\ refused[n] \in Nat
  BY MailRows
<1> QED BY <1>1, <1>2, <1>3 DEF MailInv

\* The dispatcher writes to a row it has in hand: none is added or removed.
LEMMA RecordedRow ==
  ASSUME MailInv, NEW n \in N!Written, note'[n] \in N!Row, \A m \in Note \ {n} : note'[m] = note[m]
  PROVE  \A m \in Note : (m \in N!Written) <=> (m \in N!Written')
<1>1. n \in Note /\ note[n] \in N!Row /\ None \notin N!Row
  BY MailRows DEF N!Written
<1> QED BY <1>1 DEF N!Written

LEMMA CreateStep ==
  ASSUME MailInv, NEW key \in DedupeKey \cup {None}, NEW mail \in BOOLEAN, N!Create(key, mail)
  PROVE  MailInv'
<1> DEFINE free == Note \ N!Written
           status == IF mail THEN "PENDING" ELSE "SKIPPED"
           row == [key |-> key, status |-> status, attempts |-> 0]
<1>1. PICK n \in free : note' = [note EXCEPT ![n] = row]
  <2>1. free \subseteq Nat /\ free # {}
    BY PeopleAssumption DEF N!NotificationsAssumption, N!Create
  <2>2. \E x \in free : \A y \in free : x <= y
    <3> HIDE DEF free
    <3> QED BY <2>1, SmallestIs
  <2>3. N!Min(free) \in free
    <3> HIDE DEF free
    <3> QED BY <2>2, SameMin
  <2> QED BY <2>3 DEF N!Create
<1>2. UNCHANGED <<batch, place, mailed, refused, faults>>
  BY DEF N!Create
<1>3. n \in Note /\ n \notin N!Written /\ note[n] = None
  BY DEF N!Written
<1>4. row \in N!Row /\ row # None /\ row.status = status /\ row.attempts = 0
  BY MailRows DEF N!Row, N!EmailStatus
<1>5. status \in {"PENDING", "SKIPPED"}
  OBVIOUS
<1> HIDE DEF free, row, status
<1>6. /\ note' \in [Note -> N!Row \cup {None}]
      /\ note'[n] = row /\ \A m \in Note \ {n} : note'[m] = note[m]
  BY <1>1, <1>3, <1>4, MailRows
<1>7. /\ n \in N!Written'
      /\ \A m \in Note \ {n} : m \in N!Written' <=> m \in N!Written
  BY <1>3, <1>4, <1>6 DEF N!Written
<1>8. N!TypeOK'
  BY <1>2, <1>6 DEF MailInv, N!TypeOK
<1>9. \A d \in Dispatcher : InHandOf(d)' /\ Failing(d)'
  <2> SUFFICES ASSUME NEW d \in Dispatcher PROVE InHandOf(d)' /\ Failing(d)' OBVIOUS
  <2>1. Failing(d)' BY <1>2 DEF MailInv, Failing
  <2>2. \A e : Listed(e) => Listed(e)'
    BY <1>2, <1>3, <1>6, <1>7 DEF Listed, N!Written
  <2>3. InHandOf(d)' BY <1>2, <2>2 DEF MailInv, InHandOf, Listed
  <2> QED BY <2>1, <2>3
<1>10. ASSUME NEW m \in Note PROVE (Counted(m) /\ Truthful(m) /\ refused[m] <= MaxAttempts)'
  <2>1. Sending(m)' = Sending(m) /\ mailed'[m] = mailed[m] /\ refused'[m] = refused[m]
    BY <1>2 DEF Sending
  <2>2. refused[m] <= MaxAttempts /\ Counted(m) /\ Truthful(m)
    BY RowsOfDispatch
  <2>3. CASE m # n
    BY <1>6, <1>7, <2>1, <2>2, <2>3 DEF Counted, Truthful
  <2>4. CASE m = n
    <3>1. mailed[n] = 0 /\ refused[n] = 0
      BY <1>3, <2>2, <2>4 DEF Truthful
    <3>2. Cardinality(Sending(n)) <= 0 /\ Cardinality(Sending(n)) \in Nat /\ MaxAttempts \in Nat \ {0}
      BY <1>3, <2>2, <2>4, <3>1, MailRows DEF Counted
    <3>3. note'[n].status \in {"PENDING", "SKIPPED"} /\ note'[n].attempts = 0
      BY <1>4, <1>5, <1>6
    <3>4. Counted(n)' BY <2>1, <2>4, <3>1, <3>2, <3>3 DEF Counted
    <3>5. Truthful(n)' BY <1>7, <2>1, <2>4, <3>1, <3>2, <3>3 DEF Truthful
    <3> QED BY <2>1, <2>2, <2>4, <3>4, <3>5
  <2> QED BY <2>3, <2>4
<1> QED BY <1>8, <1>9, <1>10 DEF MailInv

\* What a set holds oldest first are rows of it, with their attempts.
LEMMA OldestListed ==
  ASSUME MailInv, NEW S, S \subseteq N!Written, S # {}
  PROVE  /\ N!Oldest(S) \in Seq([id: Note, attempts: Nat]) /\ N!Oldest(S) # <<>>
         /\ \A i \in 1 .. Len(N!Oldest(S)) :
              N!Oldest(S)[i].id \in S /\ N!Oldest(S)[i].attempts = note[N!Oldest(S)[i].id].attempts
<1> DEFINE taken == {n \in S : N!Cardinality({m \in S : m < n}) < Limit}
           Nth(i) == CHOOSE n \in taken : N!Cardinality({m \in taken : m < n}) = i - 1
           Entry == [id: Note, attempts: Nat]
<1>1. S \subseteq Nat /\ IsFiniteSet(S) /\ S \subseteq Note /\ Limit \in Nat \ {0}
  BY PeopleAssumption, SameFinite, FS_Subset DEF N!NotificationsAssumption, N!Written
<1>2. taken = {n \in S : Rank(S, n) < Limit}
  BY SameSize DEF Rank
<1>3. IsFiniteSet(taken) /\ taken # {} /\ taken \subseteq S /\ taken \subseteq Nat
  <2>1. IsFiniteSet({n \in S : Rank(S, n) < Limit}) /\ {n \in S : Rank(S, n) < Limit} # {}
    BY <1>1, FirstAreFew
  <2> QED BY <1>1, <1>2, <2>1
<1>4. N!Cardinality(taken) = Cardinality(taken) /\ Cardinality(taken) \in Nat \ {0}
  <2> HIDE DEF taken
  <2>1. Cardinality(taken) \in Nat /\ Cardinality(taken) # 0
    BY <1>3, FS_CardinalityType, FS_EmptySet
  <2> QED BY <2>1, SameSize
<1>5. \A i \in 1 .. Cardinality(taken) : Nth(i) \in taken
  <2> SUFFICES ASSUME NEW i \in 1 .. Cardinality(taken) PROVE Nth(i) \in taken OBVIOUS
  <2> HIDE DEF taken
  <2>1. PICK n \in taken : Rank(taken, n) = i - 1
    BY <1>3, RanksAreTaken
  <2>2. N!Cardinality({m \in taken : m < n}) = i - 1
    BY <2>1, SameSize DEF Rank
  <2> QED BY <2>2
<1>6. N!Oldest(S) = [i \in 1 .. Cardinality(taken) |-> [id |-> Nth(i), attempts |-> note[Nth(i)].attempts]]
  BY <1>4 DEF N!Oldest
<1> HIDE DEF taken, Nth
<1>7. \A i \in 1 .. Cardinality(taken) :
        /\ Nth(i) \in S /\ Nth(i) \in Note /\ note[Nth(i)].attempts \in Nat
  BY <1>1, <1>3, <1>5, MailRows
<1>8. N!Oldest(S) \in [1 .. Cardinality(taken) -> Entry]
  BY <1>6, <1>7
<1>9. N!Oldest(S) \in Seq(Entry) /\ Len(N!Oldest(S)) = Cardinality(taken)
  <2> DEFINE size == Cardinality(taken)
  <2>1. size \in Nat /\ N!Oldest(S) \in [1 .. size -> Entry]
    BY <1>4, <1>8
  <2> HIDE DEF size, Entry
  <2>2. N!Oldest(S) \in Seq(Entry)
    BY <2>1, SeqDef
  <2>3. Len(N!Oldest(S)) \in Nat /\ 1 .. Len(N!Oldest(S)) = 1 .. size
    BY <2>1, <2>2, LenProperties
  <2>4. Len(N!Oldest(S)) = size
    BY <2>1, <2>3
  <2> QED BY <2>2, <2>4 DEF size
<1>10. N!Oldest(S) # <<>>
  BY <1>4, <1>9, EmptySeq
<1>11. \A i \in 1 .. Cardinality(taken) :
         N!Oldest(S)[i].id \in S /\ N!Oldest(S)[i].attempts = note[N!Oldest(S)[i].id].attempts
  BY <1>6, <1>7
<1> QED BY <1>9, <1>10, <1>11

LEMMA ListStep ==
  ASSUME MailInv, NEW d \in Dispatcher, N!List(d)
  PROVE  MailInv'
<1> DEFINE listing == N!Oldest(N!Pending)
<1>1. /\ place[d] = "idle" /\ batch' = [batch EXCEPT ![d] = listing]
      /\ place' = [place EXCEPT ![d] = "send"] /\ UNCHANGED <<note, mailed, refused, faults>>
  BY DEF N!List
<1>2. /\ listing \in Seq([id: Note, attempts: Nat]) /\ listing # <<>>
      /\ \A i \in 1 .. Len(listing) :
           listing[i].id \in N!Pending /\ listing[i].attempts = note[listing[i].id].attempts
  <2>1. N!Pending \subseteq N!Written /\ N!Pending # {} BY DEF N!List, N!Pending
  <2> QED BY <2>1, OldestListed
<1>3. \A i \in 1 .. Len(listing) : Listed(listing[i])
  <2> SUFFICES ASSUME NEW i \in 1 .. Len(listing) PROVE Listed(listing[i]) OBVIOUS
  <2> HIDE DEF listing
  <2>1. PICK n \in Note : n = listing[i].id /\ n \in N!Written /\ note[n].status = "PENDING"
    BY <1>2 DEF N!Pending, N!Written
  <2>2. note[n].attempts < MaxAttempts /\ note[n].attempts <= refused[n]
    BY <2>1, RowsOfDispatch DEF Truthful
  <2> QED BY <1>2, <2>1, <2>2 DEF Listed
<1> HIDE DEF listing
<1>4. batch'[d] = listing /\ place'[d] = "send"
      /\ \A o \in Dispatcher \ {d} : place'[o] = place[o] /\ batch'[o] = batch[o]
  BY <1>1 DEF MailInv, N!TypeOK
<1>5. N!TypeOK'
  BY <1>1, <1>2, <1>4 DEF MailInv, N!TypeOK
<1>6. ASSUME NEW o \in Dispatcher PROVE InHandOf(o)' /\ Failing(o)'
  <2>1. \A e : Listed(e) <=> Listed(e)'
    BY <1>1 DEF Listed, N!Written
  <2>2. InHandOf(o)'
    BY <1>3, <1>4, <2>1 DEF MailInv, InHandOf, Listed
  <2> QED BY <1>1, <1>4, <2>2 DEF MailInv, Failing
<1>7. \A n \in Note : Sending(n)' = Sending(n)
  BY <1>1, <1>4 DEF Sending
<1>8. \A n \in Note : (Counted(n) /\ Truthful(n) /\ refused[n] <= MaxAttempts)'
  BY <1>1, <1>7 DEF MailInv, Counted, Truthful, N!Written
<1> QED BY <1>5, <1>6, <1>8 DEF MailInv

LEMMA SendStep ==
  ASSUME MailInv, NEW d \in Dispatcher, N!Send(d)
  PROVE  MailInv'
<1>1. /\ place[d] = "send" /\ UNCHANGED <<note, batch, faults>>
      /\ \/ /\ place' = [place EXCEPT ![d] = "sent"]
            /\ mailed' = [mailed EXCEPT ![batch[d][1].id] = @ + 1] /\ UNCHANGED refused
         \/ /\ place' = [place EXCEPT ![d] = "failed"] /\ UNCHANGED mailed
            /\ refused' = [refused EXCEPT ![batch[d][1].id] = IF @ < MaxAttempts THEN @ + 1 ELSE @]
  BY DEF N!Send, N!CountRefusal
<1>2. PICK e \in [id: Note, attempts: Nat] : e = batch[d][1] /\ Listed(e)
  BY <1>1, HasInHand
<1>3. PICK n \in N!Written : n = e.id
  BY <1>2 DEF Listed
<1>4. n \in Note /\ note[n].status # "SKIPPED" /\ e.attempts < MaxAttempts /\ e.attempts <= refused[n]
      /\ batch[d][1].id = n /\ e.attempts \in Nat /\ MaxAttempts \in Nat \ {0}
  BY <1>2, <1>3, MailRows DEF Listed, N!Written
<1>5. /\ \A o \in Dispatcher \ {d} : place'[o] = place[o] /\ batch'[o] = batch[o]
      /\ place[d] # "sent" /\ batch'[d] = batch[d] /\ place'[d] \in {"sent", "failed"}
      /\ place' \in [Dispatcher -> {"idle", "send", "sent", "failed"}]
  BY <1>1 DEF MailInv, N!TypeOK
<1>6. ASSUME NEW m \in Note
      PROVE  /\ mailed'[m] = mailed[m] + (IF m = n /\ place'[d] = "sent" THEN 1 ELSE 0)
             /\ refused'[m] = refused[m] + (IF m = n /\ place'[d] = "failed" /\ refused[m] < MaxAttempts THEN 1 ELSE 0)
  <2>1. /\ mailed \in [Note -> Nat] /\ refused \in [Note -> Nat] /\ d \in DOMAIN place
        /\ mailed[m] \in Nat /\ refused[m] \in Nat
    BY MailRows DEF MailInv, N!TypeOK
  <2>2. CASE place' = [place EXCEPT ![d] = "sent"] /\ mailed' = [mailed EXCEPT ![batch[d][1].id] = @ + 1]
             /\ UNCHANGED refused
    <3>1. place'[d] = "sent" /\ place'[d] # "failed" BY <2>1, <2>2
    <3>2. mailed'[m] = IF m = n THEN mailed[m] + 1 ELSE mailed[m] BY <1>4, <2>1, <2>2
    <3> QED BY <2>1, <2>2, <3>1, <3>2
  <2>3. CASE place' = [place EXCEPT ![d] = "failed"] /\ UNCHANGED mailed
             /\ refused' = [refused EXCEPT ![batch[d][1].id] = IF @ < MaxAttempts THEN @ + 1 ELSE @]
    <3>1. place'[d] = "failed" /\ place'[d] # "sent" BY <2>1, <2>3
    <3>2. refused'[m] = IF m = n THEN (IF refused[m] < MaxAttempts THEN refused[m] + 1 ELSE refused[m]) ELSE refused[m]
      BY <1>4, <2>1, <2>3
    <3> QED BY <2>1, <2>3, <3>1, <3>2
  <2> QED BY <1>1, <2>2, <2>3
<1>7. \A m \in Note : /\ refused'[m] \in Nat /\ refused'[m] >= refused[m] /\ refused'[m] <= MaxAttempts
                      /\ mailed'[m] \in Nat /\ mailed'[m] >= mailed[m]
  BY <1>4, <1>6, RowsOfDispatch
<1>8. N!TypeOK'
  <2>1. mailed' \in [Note -> Nat] /\ refused' \in [Note -> Nat]
    BY <1>1, <1>7, MailRows
  <2>2. \A o \in Dispatcher : place'[o] = "idle" <=> batch'[o] = <<>>
    BY <1>1, <1>5 DEF MailInv, N!TypeOK
  <2> QED BY <1>1, <1>5, <2>1, <2>2 DEF MailInv, N!TypeOK
<1>9. \A x \in [id: Note, attempts: Nat] : Listed(x) => Listed(x)'
  <2> SUFFICES ASSUME NEW x \in [id: Note, attempts: Nat], Listed(x) PROVE Listed(x)' OBVIOUS
  <2>1. x.id \in Note /\ x.attempts \in Nat /\ x.attempts <= refused[x.id] /\ refused[x.id] \in Nat
    BY RowsOfDispatch DEF Listed
  <2>2. x.attempts <= refused'[x.id]
    BY <1>7, <2>1
  <2> QED BY <1>1, <2>2 DEF Listed, N!Written
<1>10. \A o \in Dispatcher : InHandOf(o)'
  <2> SUFFICES ASSUME NEW o \in Dispatcher PROVE InHandOf(o)' OBVIOUS
  <2>1. ASSUME NEW i \in 1 .. Len(batch[o])
        PROVE  \E x \in [id: Note, attempts: Nat] : x = batch[o][i] /\ Listed(x)
    <3>1. batch[o] \in Seq([id: Note, attempts: Nat]) BY DEF MailInv, N!TypeOK
    <3>2. batch[o][i] \in [id: Note, attempts: Nat] BY <3>1, ElementOfSeq
    <3> QED BY <3>2 DEF MailInv, InHandOf
  <2>2. \A i \in 1 .. Len(batch[o]) : \E x : x = batch[o][i] /\ Listed(x)'
    BY <1>9, <2>1
  <2> QED BY <1>1, <2>2 DEF InHandOf, Listed
<1>11. \A o \in Dispatcher : Failing(o)'
  <2> SUFFICES ASSUME NEW o \in Dispatcher, place'[o] = "failed"
               PROVE  batch[o][1].attempts < refused'[batch[o][1].id]
    BY <1>1 DEF Failing
  <2>1. CASE o = d
    <3>1. refused'[n] = refused[n] + (IF refused[n] < MaxAttempts THEN 1 ELSE 0)
      BY <1>4, <1>6, <2>1
    <3>2. refused[n] \in Nat /\ refused[n] <= MaxAttempts
      BY <1>4, RowsOfDispatch
    <3>3. e.attempts < refused'[n]
      BY <1>4, <3>1, <3>2
    <3> QED BY <1>2, <1>3, <2>1, <3>3
  <2>2. CASE o # d
    <3>1. place[o] = "failed" BY <1>5, <2>2
    <3>2. batch[o][1].id \in Note /\ batch[o][1].attempts \in Nat
      BY <3>1, HasInHand
    <3>3. batch[o][1].attempts < refused[batch[o][1].id]
      BY <3>1 DEF MailInv, Failing
    <3> QED BY <1>7, <3>2, <3>3, RowsOfDispatch
  <2> QED BY <2>1, <2>2
<1>12. ASSUME NEW m \in Note PROVE (Counted(m) /\ Truthful(m) /\ refused[m] <= MaxAttempts)'
  <2>1. /\ Cardinality(Sending(m)) \in Nat /\ Cardinality(Sending(m)') \in Nat
        /\ place'[d] # "sent" => Cardinality(Sending(m)') <= Cardinality(Sending(m))
        /\ place'[d] = "sent" =>
             Cardinality(Sending(m)') = Cardinality(Sending(m)) + (IF n = m THEN 1 ELSE 0)
    BY <1>4, <1>5, SendingMoves
  <2>2. /\ m \in N!Written => note[m].attempts \in Nat
        /\ mailed[m] \in Nat /\ refused[m] \in Nat /\ Counted(m) /\ Truthful(m)
    BY RowsOfDispatch
  <2>3. Counted(m)'
    <3>1. /\ Cardinality(Sending(m)') <= mailed'[m]
          /\ m \in N!Written => note[m].attempts + Cardinality(Sending(m)') <= mailed'[m] + refused'[m]
      BY <1>5, <1>6, <2>1, <2>2 DEF Counted
    <3> QED BY <1>1, <3>1 DEF Counted, N!Written
  <2>4. Truthful(m)'
    <3>1. CASE m = n
      BY <1>1, <1>3, <1>4, <1>6, <1>7, <2>2, <3>1 DEF Truthful, N!Written
    <3>2. CASE m # n
      BY <1>1, <1>6, <2>2, <3>2 DEF Truthful, N!Written
    <3> QED BY <3>1, <3>2
  <2> QED BY <1>7, <2>3, <2>4
<1> QED BY <1>8, <1>10, <1>11, <1>12 DEF MailInv

LEMMA RecordSentStep ==
  ASSUME MailInv, NEW d \in Dispatcher, N!RecordSent(d)
  PROVE  MailInv'
<1>1. PICK e \in [id: Note, attempts: Nat] : e = batch[d][1] /\ Listed(e) /\ place[d] = "sent"
  BY HasInHand DEF N!RecordSent
<1>2. PICK n \in N!Written : n = e.id
  BY <1>1 DEF Listed
<1>3. /\ n \in Note /\ batch[d][1].id = n /\ note[n] \in N!Row /\ note[n].attempts \in Nat
  BY <1>1, <1>2, MailRows DEF N!Written
<1>4. /\ note' = [note EXCEPT ![n].status = "SENT", ![n].attempts = @ + 1]
      /\ N!MoveOn(d) /\ UNCHANGED <<mailed, refused, faults>>
  BY <1>3 DEF N!RecordSent
<1>5. /\ note' \in [Note -> N!Row \cup {None}] /\ note'[n] \in N!Row
      /\ note'[n].status = "SENT" /\ note'[n].attempts = note[n].attempts + 1
      /\ \A m \in Note \ {n} : note'[m] = note[m]
  <2> DEFINE half == [note EXCEPT ![n].status = "SENT"]
  <2>1. /\ half \in [Note -> N!Row \cup {None}] /\ half[n] \in N!Row
        /\ half[n].status = "SENT" /\ half[n].attempts = note[n].attempts
        /\ \A m \in Note \ {n} : half[m] = note[m]
    <3>1. [note[n] EXCEPT !.status = "SENT"] \in N!Row
      BY <1>3 DEF N!Row, N!EmailStatus
    <3> QED BY <1>3, <3>1, MailRows DEF N!Row
  <2>2. note' = [half EXCEPT ![n].attempts = half[n].attempts + 1]
    BY <1>4
  <2>3. half[n].attempts + 1 \in Nat
    BY <1>3, <2>1
  <2> HIDE DEF half
  <2>4. [half[n] EXCEPT !.attempts = half[n].attempts + 1] \in N!Row
    BY <2>1, <2>3 DEF N!Row
  <2> QED BY <1>3, <2>1, <2>2, <2>4 DEF N!Row
<1>6. \A m \in Note : (m \in N!Written) <=> (m \in N!Written')
  BY <1>2, <1>5, RecordedRow
<1>7. \A x \in [id: Note, attempts: Nat] : Listed(x) => Listed(x)'
  BY <1>4, <1>5, <1>6 DEF Listed, N!Written
<1>8. /\ batch' \in [Dispatcher -> Seq([id: Note, attempts: Nat])]
      /\ place' \in [Dispatcher -> {"idle", "send", "sent", "failed"}]
      /\ \A o \in Dispatcher : place'[o] = "idle" <=> batch'[o] = <<>>
      /\ \A o \in Dispatcher : InHandOf(o)' /\ Failing(o)'
      /\ place'[d] # "sent"
      /\ \A o \in Dispatcher \ {d} : place'[o] = place[o] /\ batch'[o] = batch[o]
  BY <1>1, <1>4, <1>7, MovesOn
<1>9. N!TypeOK'
  BY <1>4, <1>5, <1>6, <1>8 DEF MailInv, N!TypeOK
<1>10. ASSUME NEW m \in Note PROVE (Counted(m) /\ Truthful(m) /\ refused[m] <= MaxAttempts)'
  <2>1. /\ Cardinality(Sending(m)) \in Nat /\ Cardinality(Sending(m)') \in Nat
        /\ Cardinality(Sending(m)') <= Cardinality(Sending(m))
        /\ m = n => Cardinality(Sending(m)') = Cardinality(Sending(m)) - 1
    BY <1>1, <1>3, <1>8, SendingMoves
  <2>2. /\ m \in N!Written => note[m].attempts \in Nat
        /\ mailed[m] \in Nat /\ refused[m] \in Nat /\ Counted(m) /\ Truthful(m) /\ refused[m] <= MaxAttempts
    BY RowsOfDispatch
  <2>3. mailed'[m] = mailed[m] /\ refused'[m] = refused[m] /\ (m \in N!Written' <=> m \in N!Written)
    BY <1>4, <1>5, <1>6
  <2>4. CASE m = n
    <3>1. note'[n].attempts + Cardinality(Sending(m)') <= mailed[m] + refused[m] /\ mailed[m] >= 1
          /\ Cardinality(Sending(m)') <= mailed[m]
      BY <1>2, <1>3, <1>5, <1>6, <2>1, <2>2, <2>4 DEF Counted
    <3>2. Counted(m)' BY <2>3, <2>4, <3>1 DEF Counted
    <3>3. Truthful(m)' BY <1>2, <1>5, <1>6, <2>3, <2>4, <3>1 DEF Truthful
    <3> QED BY <2>2, <2>3, <3>2, <3>3
  <2>5. CASE m # n
    <3>1. note'[m] = note[m] BY <1>5, <1>6, <2>5
    <3>2. Counted(m)' BY <2>1, <2>2, <2>3, <3>1 DEF Counted
    <3>3. Truthful(m)' BY <2>2, <2>3, <3>1 DEF Truthful
    <3> QED BY <2>2, <2>3, <3>2, <3>3
  <2> QED BY <2>4, <2>5
<1> QED BY <1>8, <1>9, <1>10 DEF MailInv

LEMMA RecordFailureStep ==
  ASSUME MailInv, NEW d \in Dispatcher, N!RecordFailure(d)
  PROVE  MailInv'
<1>1. PICK e \in [id: Note, attempts: Nat] : e = batch[d][1] /\ Listed(e) /\ place[d] = "failed"
  BY HasInHand DEF N!RecordFailure
<1>2. PICK n \in N!Written : n = e.id
  BY <1>1 DEF Listed
<1>3. /\ n \in Note /\ batch[d][1].id = n /\ batch[d][1].attempts = e.attempts
      /\ e.attempts \in Nat /\ e.attempts < MaxAttempts /\ e.attempts < refused[n]
      /\ note[n].status # "SKIPPED" /\ MaxAttempts \in Nat \ {0}
  BY <1>1, <1>2, MailRows DEF N!Written, Listed, MailInv, Failing
<1> DEFINE status == IF e.attempts + 1 >= MaxAttempts THEN "FAILED" ELSE "PENDING"
<1>4. /\ note' = [note EXCEPT ![n].attempts = e.attempts + 1, ![n].status = status]
      /\ N!MoveOn(d) /\ UNCHANGED <<mailed, refused, faults>>
  BY <1>3 DEF N!RecordFailure
<1>5. /\ status \in N!EmailStatus /\ status # "SKIPPED" /\ status # "SENT"
      /\ status = "FAILED" => e.attempts + 1 >= MaxAttempts
      /\ status = "PENDING" => e.attempts + 1 < MaxAttempts
  BY <1>3 DEF N!EmailStatus
<1> HIDE DEF status
<1>6. /\ note' \in [Note -> N!Row \cup {None}] /\ note'[n] \in N!Row
      /\ note'[n].status = status /\ note'[n].attempts = e.attempts + 1
      /\ \A m \in Note \ {n} : note'[m] = note[m]
  <2> DEFINE half == [note EXCEPT ![n].attempts = e.attempts + 1]
  <2>1. note[n] \in N!Row /\ e.attempts + 1 \in Nat
    BY <1>2, <1>3, MailRows
  <2>2. /\ half \in [Note -> N!Row \cup {None}] /\ half[n] \in N!Row
        /\ half[n].attempts = e.attempts + 1
        /\ \A m \in Note \ {n} : half[m] = note[m]
    <3>1. [note[n] EXCEPT !.attempts = e.attempts + 1] \in N!Row
      BY <2>1 DEF N!Row
    <3> QED BY <1>3, <2>1, <3>1, MailRows DEF N!Row
  <2>3. note' = [half EXCEPT ![n].status = status]
    BY <1>4
  <2> HIDE DEF half
  <2>4. [half[n] EXCEPT !.status = status] \in N!Row
    BY <1>5, <2>2 DEF N!Row
  <2> QED BY <1>3, <2>2, <2>3, <2>4 DEF N!Row
<1>7. \A m \in Note : (m \in N!Written) <=> (m \in N!Written')
  BY <1>2, <1>6, RecordedRow
<1>8. \A x \in [id: Note, attempts: Nat] : Listed(x) => Listed(x)'
  BY <1>4, <1>5, <1>6, <1>7 DEF Listed, N!Written
<1>9. /\ batch' \in [Dispatcher -> Seq([id: Note, attempts: Nat])]
      /\ place' \in [Dispatcher -> {"idle", "send", "sent", "failed"}]
      /\ \A o \in Dispatcher : place'[o] = "idle" <=> batch'[o] = <<>>
      /\ \A o \in Dispatcher : InHandOf(o)' /\ Failing(o)'
      /\ place'[d] # "sent"
      /\ \A o \in Dispatcher \ {d} : place'[o] = place[o] /\ batch'[o] = batch[o]
  BY <1>1, <1>4, <1>8, MovesOn
<1>10. N!TypeOK'
  BY <1>4, <1>6, <1>7, <1>9 DEF MailInv, N!TypeOK
<1>11. ASSUME NEW m \in Note PROVE (Counted(m) /\ Truthful(m) /\ refused[m] <= MaxAttempts)'
  <2>1. /\ Cardinality(Sending(m)) \in Nat /\ Cardinality(Sending(m)') \in Nat
        /\ Cardinality(Sending(m)') <= Cardinality(Sending(m))
    BY <1>9, SendingMoves
  <2>2. /\ m \in N!Written => note[m].attempts \in Nat
        /\ mailed[m] \in Nat /\ refused[m] \in Nat /\ Counted(m) /\ Truthful(m) /\ refused[m] <= MaxAttempts
    BY RowsOfDispatch
  <2>3. mailed'[m] = mailed[m] /\ refused'[m] = refused[m] /\ (m \in N!Written' <=> m \in N!Written)
    BY <1>4, <1>6, <1>7
  <2>4. CASE m = n
    <3>1. note'[n].attempts + Cardinality(Sending(m)') <= mailed[m] + refused[m]
          /\ Cardinality(Sending(m)') <= mailed[m] /\ note'[n].attempts <= refused[m]
      BY <1>3, <1>6, <1>7, <2>1, <2>2, <2>4 DEF Counted
    <3>2. Counted(m)' BY <2>3, <2>4, <3>1 DEF Counted
    <3>3. note'[n].status = "FAILED" => refused[m] >= MaxAttempts
      BY <1>3, <1>5, <1>6, <1>7, <2>2, <2>4
    <3>4. note'[n].status = "PENDING" => note'[n].attempts < MaxAttempts
      BY <1>5, <1>6, <1>7
    <3>5. Truthful(m)' BY <1>2, <1>5, <1>6, <1>7, <2>3, <2>4, <3>1, <3>3, <3>4 DEF Truthful
    <3> QED BY <2>2, <2>3, <3>2, <3>5
  <2>5. CASE m # n
    <3>1. note'[m] = note[m] BY <1>6, <1>7, <2>5
    <3>2. Counted(m)' BY <2>1, <2>2, <2>3, <3>1 DEF Counted
    <3>3. Truthful(m)' BY <2>2, <2>3, <3>1 DEF Truthful
    <3> QED BY <2>2, <2>3, <3>2, <3>3
  <2> QED BY <2>4, <2>5
<1> QED BY <1>9, <1>10, <1>11 DEF MailInv

LEMMA RecordSentFailsStep ==
  ASSUME MailInv, NEW d \in Dispatcher, N!RecordSentFails(d)
  PROVE  MailInv'
<1>1. /\ place[d] = "sent" /\ faults' = faults + 1 /\ UNCHANGED <<note, batch, mailed>>
      /\ place' = [place EXCEPT ![d] = "failed"]
      /\ refused' = [refused EXCEPT ![batch[d][1].id] = IF @ < MaxAttempts THEN @ + 1 ELSE @]
  BY DEF N!RecordSentFails, N!CountRefusal
<1>2. PICK e \in [id: Note, attempts: Nat] : e = batch[d][1] /\ Listed(e)
  BY <1>1, HasInHand
<1>3. PICK n \in N!Written : n = e.id
  BY <1>2 DEF Listed
<1>4. n \in Note /\ note[n].status # "SKIPPED" /\ e.attempts < MaxAttempts /\ e.attempts <= refused[n]
      /\ batch[d][1].id = n /\ e.attempts \in Nat /\ MaxAttempts \in Nat \ {0}
  BY <1>2, <1>3, MailRows DEF Listed, N!Written
<1>5. /\ \A o \in Dispatcher \ {d} : place'[o] = place[o] /\ batch'[o] = batch[o]
      /\ batch'[d] = batch[d] /\ place'[d] = "failed"
      /\ place' \in [Dispatcher -> {"idle", "send", "sent", "failed"}]
  BY <1>1 DEF MailInv, N!TypeOK
<1>6. ASSUME NEW m \in Note
      PROVE  /\ mailed'[m] = mailed[m]
             /\ refused'[m] = refused[m] + (IF m = n /\ refused[m] < MaxAttempts THEN 1 ELSE 0)
  BY <1>1, <1>4, RowsOfDispatch, MailRows
<1>7. \A m \in Note : /\ refused'[m] \in Nat /\ refused'[m] >= refused[m] /\ refused'[m] <= MaxAttempts
                      /\ mailed'[m] \in Nat /\ mailed'[m] >= mailed[m]
  BY <1>4, <1>6, RowsOfDispatch
<1>8. N!TypeOK'
  <2>1. mailed' \in [Note -> Nat] /\ refused' \in [Note -> Nat]
    BY <1>1, <1>7, MailRows
  <2>2. \A o \in Dispatcher : place'[o] = "idle" <=> batch'[o] = <<>>
    BY <1>1, <1>5 DEF MailInv, N!TypeOK
  <2>3. /\ note \in [Note -> N!Row \cup {None}] /\ faults \in Nat
        /\ batch \in [Dispatcher -> Seq([id: Note, attempts: Nat])]
    BY DEF MailInv, N!TypeOK
  <2>4. faults' \in Nat BY <1>1, <2>3
  <2> QED BY <1>1, <1>5, <2>1, <2>2, <2>3, <2>4 DEF N!TypeOK
<1>9. \A x \in [id: Note, attempts: Nat] : Listed(x) => Listed(x)'
  <2> SUFFICES ASSUME NEW x \in [id: Note, attempts: Nat], Listed(x) PROVE Listed(x)' OBVIOUS
  <2>1. x.id \in Note /\ x.attempts \in Nat /\ x.attempts <= refused[x.id] /\ refused[x.id] \in Nat
    BY RowsOfDispatch DEF Listed
  <2>2. x.attempts <= refused'[x.id]
    BY <1>7, <2>1
  <2> QED BY <1>1, <2>2 DEF Listed, N!Written
<1>10. \A o \in Dispatcher : InHandOf(o)'
  <2> SUFFICES ASSUME NEW o \in Dispatcher PROVE InHandOf(o)' OBVIOUS
  <2>1. ASSUME NEW i \in 1 .. Len(batch[o])
        PROVE  \E x \in [id: Note, attempts: Nat] : x = batch[o][i] /\ Listed(x)
    <3>1. batch[o] \in Seq([id: Note, attempts: Nat]) BY DEF MailInv, N!TypeOK
    <3>2. batch[o][i] \in [id: Note, attempts: Nat] BY <3>1, ElementOfSeq
    <3> QED BY <3>2 DEF MailInv, InHandOf
  <2>2. \A i \in 1 .. Len(batch[o]) : \E x : x = batch[o][i] /\ Listed(x)'
    BY <1>9, <2>1
  <2> QED BY <1>1, <2>2 DEF InHandOf, Listed
<1>11. \A o \in Dispatcher : Failing(o)'
  <2> SUFFICES ASSUME NEW o \in Dispatcher, place'[o] = "failed"
               PROVE  batch[o][1].attempts < refused'[batch[o][1].id]
    BY <1>1 DEF Failing
  <2>1. CASE o = d
    <3>1. refused'[n] = refused[n] + (IF refused[n] < MaxAttempts THEN 1 ELSE 0)
      BY <1>4, <1>6, <2>1
    <3>2. refused[n] \in Nat /\ refused[n] <= MaxAttempts
      BY <1>4, RowsOfDispatch
    <3>3. e.attempts < refused'[n]
      BY <1>4, <3>1, <3>2
    <3> QED BY <1>2, <1>3, <2>1, <3>3
  <2>2. CASE o # d
    <3>1. place[o] = "failed" BY <1>5, <2>2
    <3>2. batch[o][1].id \in Note /\ batch[o][1].attempts \in Nat
      BY <3>1, HasInHand
    <3>3. batch[o][1].attempts < refused[batch[o][1].id]
      BY <3>1 DEF MailInv, Failing
    <3> QED BY <1>7, <3>2, <3>3, RowsOfDispatch
  <2> QED BY <2>1, <2>2
<1>12. ASSUME NEW m \in Note PROVE (Counted(m) /\ Truthful(m) /\ refused[m] <= MaxAttempts)'
  <2>1. /\ Cardinality(Sending(m)) \in Nat /\ Cardinality(Sending(m)') \in Nat
        /\ Cardinality(Sending(m)') <= Cardinality(Sending(m))
    BY <1>5, SendingMoves
  <2>2. /\ m \in N!Written => note[m].attempts \in Nat
        /\ mailed[m] \in Nat /\ refused[m] \in Nat /\ Counted(m) /\ Truthful(m)
    BY RowsOfDispatch
  <2>3. Counted(m)'
    <3>1. /\ Cardinality(Sending(m)') <= mailed'[m]
          /\ m \in N!Written => note[m].attempts + Cardinality(Sending(m)') <= mailed'[m] + refused'[m]
      BY <1>5, <1>6, <2>1, <2>2 DEF Counted
    <3> QED BY <1>1, <3>1 DEF Counted, N!Written
  <2>4. Truthful(m)'
    <3>1. CASE m = n
      BY <1>1, <1>3, <1>4, <1>6, <1>7, <2>2, <3>1 DEF Truthful, N!Written
    <3>2. CASE m # n
      BY <1>1, <1>6, <2>2, <3>2 DEF Truthful, N!Written
    <3> QED BY <3>1, <3>2
  <2> QED BY <1>7, <2>3, <2>4
<1> QED BY <1>8, <1>10, <1>11, <1>12 DEF MailInv

LEMMA DieStep ==
  ASSUME MailInv, NEW d \in Dispatcher, N!Die(d)
  PROVE  MailInv'
<1>1. /\ faults' = faults + 1 /\ UNCHANGED <<note, mailed, refused>>
      /\ batch' = [batch EXCEPT ![d] = <<>>] /\ place' = [place EXCEPT ![d] = "idle"]
  BY DEF N!Die
<1>2. /\ batch'[d] = <<>> /\ place'[d] = "idle"
      /\ \A o \in Dispatcher \ {d} : place'[o] = place[o] /\ batch'[o] = batch[o]
  BY <1>1 DEF MailInv, N!TypeOK
<1>3. N!TypeOK'
  <2>1. <<>> \in Seq([id: Note, attempts: Nat]) BY EmptySeq
  <2>2. batch' \in [Dispatcher -> Seq([id: Note, attempts: Nat])]
    BY <1>1, <2>1 DEF MailInv, N!TypeOK
  <2>3. /\ note \in [Note -> N!Row \cup {None}] /\ faults \in Nat
        /\ mailed \in [Note -> Nat] /\ refused \in [Note -> Nat]
        /\ place' \in [Dispatcher -> {"idle", "send", "sent", "failed"}]
    BY <1>1 DEF MailInv, N!TypeOK
  <2>4. \A o \in Dispatcher : place'[o] = "idle" <=> batch'[o] = <<>>
    BY <1>2 DEF MailInv, N!TypeOK
  <2>5. faults' \in Nat BY <1>1, <2>3
  <2> QED BY <1>1, <2>2, <2>3, <2>4, <2>5 DEF N!TypeOK
<1>4. ASSUME NEW o \in Dispatcher PROVE InHandOf(o)' /\ Failing(o)'
  <2>1. CASE o = d
    <3>1. Len(batch'[d]) = 0 BY <1>2, EmptySeq
    <3>2. 1 .. Len(batch'[d]) = {} BY <3>1
    <3> QED BY <1>2, <2>1, <3>2 DEF InHandOf, Failing
  <2>2. CASE o # d
    BY <1>1, <1>2, <2>2 DEF MailInv, InHandOf, Failing, Listed, N!Written
  <2> QED BY <2>1, <2>2
<1>5. ASSUME NEW m \in Note PROVE (Counted(m) /\ Truthful(m) /\ refused[m] <= MaxAttempts)'
  <2>1. /\ Cardinality(Sending(m)) \in Nat /\ Cardinality(Sending(m)') \in Nat
        /\ Cardinality(Sending(m)') <= Cardinality(Sending(m))
    BY <1>2, SendingMoves
  <2>2. /\ m \in N!Written => note[m].attempts \in Nat
        /\ mailed[m] \in Nat /\ refused[m] \in Nat /\ Counted(m) /\ Truthful(m) /\ refused[m] <= MaxAttempts
    BY RowsOfDispatch
  <2>3. Counted(m)' BY <1>1, <2>1, <2>2 DEF Counted, N!Written
  <2>4. Truthful(m)' BY <1>1, <2>2 DEF Truthful, N!Written
  <2> QED BY <1>1, <2>2, <2>3, <2>4
<1> QED BY <1>3, <1>4, <1>5 DEF MailInv

LEMMA MailInductive == MailInv /\ [N!Next]_mailVars => MailInv'
<1> SUFFICES ASSUME MailInv, [N!Next]_mailVars PROVE MailInv' OBVIOUS
<1>1. CASE UNCHANGED mailVars
  BY <1>1 DEF mailVars, MailInv, N!TypeOK, InHandOf, Failing, Listed, Counted, Truthful, Sending, N!Written
<1>2. ASSUME NEW key \in DedupeKey \cup {None}, NEW mail \in BOOLEAN, N!Create(key, mail) PROVE MailInv'
  BY <1>2, CreateStep
<1>3. ASSUME NEW d \in Dispatcher, N!Dispatch(d) PROVE MailInv'
  BY <1>3, ListStep, SendStep, RecordSentStep, RecordFailureStep DEF N!Dispatch
<1>4. ASSUME NEW d \in Dispatcher, N!RecordSentFails(d) PROVE MailInv'
  BY <1>4, RecordSentFailsStep
<1>5. ASSUME NEW d \in Dispatcher, N!Die(d) PROVE MailInv'
  BY <1>5, DieStep
<1> QED BY <1>1, <1>2, <1>3, <1>4, <1>5 DEF N!Next

-------------------------------------------------------------------------------
(* The three parts together *)

\* Team by itself, whatever its requests overlap with.
THEOREM TeamInvariant == T!Spec => []TeamInv
<1>1. TeamInv /\ [T!Next]_T!vars => TeamInv'
  BY TeamInductive DEF T!vars, teamVars
<1> QED BY <1>1, TeamInitially, PTL DEF T!Spec

\* Notifications by itself, whatever its dispatchers overlap with.
THEOREM MailInvariant == N!Spec => []MailInv
<1>1. MailInv /\ [N!Next]_N!vars => MailInv'
  BY MailInductive DEF N!vars, mailVars
<1> QED BY <1>1, MailInitially, PTL DEF N!Spec

\* A step of one part leaves the others as they are.
LEMMA PeopleInductive ==
  Inv /\ TeamInv /\ MailInv /\ [PeopleNext]_allVars => Inv' /\ TeamInv' /\ MailInv'
<1> SUFFICES ASSUME [PeopleNext]_allVars
             PROVE  [Next]_vars /\ [T!Next]_teamVars /\ [N!Next]_mailVars
  BY Inductive, TeamInductive, MailInductive
<1> QED BY DEF PeopleNext, allVars

\* The three parts go on so side by side, as MCPeople has them.
THEOREM PeopleInvariant == PeopleSpec => [](Inv /\ TeamInv /\ MailInv)
<1>1. PeopleInit => Inv /\ TeamInv /\ MailInv
  BY Initially, TeamInitially, MailInitially DEF PeopleInit
<1> QED BY <1>1, PeopleInductive, PTL DEF PeopleSpec

\* Every row, every request and every batch keeps its type, whatever overlaps.
THEOREM PeopleTypesCorrect == PeopleSpec => []TypesOK
<1>1. Inv /\ TeamInv /\ MailInv => TypesOK BY DEF Inv, TeamInv, MailInv, TypesOK
<1> QED BY <1>1, PeopleInvariant, PTL

\* team.service.ts never strands the team, one request at a time.
THEOREM TeamNeverStranded == PeopleSpec => []SomebodyManages
<1>1. TeamInv => SomebodyManages BY DEF TeamInv, Rail, SomebodyManages, T!SomebodyManages
<1> QED BY <1>1, PeopleInvariant, PTL

\* dispatchPending() never records more or less than what happened to a mail, however
\* many processes dispatch, die, or fail to record.
THEOREM StatusAlwaysTellsMail == PeopleSpec => []StatusTellsMail
<1>1. MailInv => StatusTellsMail BY MailIsTruthful DEF StatusTellsMail
<1> QED BY <1>1, PeopleInvariant, PTL

===============================================================================
