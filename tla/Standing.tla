------------------------------- MODULE Standing -------------------------------
(***************************************************************************)
(* The standing of one promoter: trust and reliability on the profile      *)
(* (scoring.service.ts), the append-only point events (points.service.ts)  *)
(* and the score that sums them (leaderboard.service.ts).                  *)
(*                                                                         *)
(* A hook is the part of a review or of a reclaim that moves standing, in  *)
(* the transaction of its caller: read the trust | write the profile and   *)
(* award the points | sum the events | write the score | commit.  A row    *)
(* it has written is locked until it commits, and its own writes are all   *)
(* it sees of what is not committed.  An adjustment by an admin awards and *)
(* recomputes; the nightly rebuild recomputes outside any transaction.     *)
(* Reputation caches and sums are kept as the sets they were taken over.   *)
(***************************************************************************)
EXTENDS Integers, FiniteSets

CONSTANTS Outcome,      \* reviews and missed posts of the promoter, each handled once
          EventOf,      \* the trust event of each
          Adjustment,   \* manual adjustments, each with a key of its own
          Worker,       \* concurrent requests, sweeps and rebuilds
          Modes,        \* which of "alone", "hooks" and "free" a behaviour may be
          InitialTrust, \* in halves of a point, as are all trust figures here
          None

TrustEvent == {"ON_TIME_DELIVERY", "LATE_DELIVERY", "REJECTED", "NO_SHOW"}
MaxTrust == 200

ASSUME StandingAssumption ==
  /\ EventOf \in [Outcome -> TrustEvent]
  /\ Outcome \cap Adjustment = {}
  /\ Modes \subseteq {"alone", "hooks", "free"}
  /\ InitialTrust \in 0 .. MaxTrust
  /\ None \notin Worker \cup Outcome \cup Adjustment

VARIABLES
  events,         \* sources whose point events are committed
  trust,          \* promoter_profiles.trust_score
  counted,        \* the outcomes the cached reliability was computed from
  score,          \* the events promoter_scores sums
  mirrored,       \* the events the tier on the profile was derived from
  profileLock, scoreLock,   \* the open transaction that has written the row, if any
  mode,           \* what may overlap: nothing, hooks, or everything
  pc, job,        \* of each worker: place, and what it has read and not committed
  earned          \* history: the trust of the committed outcomes, one after the other

vars == <<events, trust, counted, score, mirrored, profileLock, scoreLock, mode, pc, job, earned>>
standing == <<events, trust, counted, score, mirrored, earned>>
locks == <<profileLock, scoreLock>>

Source == Outcome \cup Adjustment
Trust == 0 .. MaxTrust
Place == {"idle", "read", "write", "sum", "upsert", "commit", "store", "mirror"}
Job == [source: Source \cup {None}, trust: Trust, counted: SUBSET Outcome, sum: SUBSET Source]

TypeOK ==
  /\ events \subseteq Source /\ score \subseteq Source /\ mirrored \subseteq Source
  /\ trust \in Trust /\ earned \in Trust /\ counted \subseteq Outcome
  /\ profileLock \in Worker \cup {None} /\ scoreLock \in Worker \cup {None}
  /\ mode \in {"alone", "hooks", "free"}
  /\ pc \in [Worker -> Place] /\ job \in [Worker -> Job]

NoJob == [source |-> None, trust |-> 0, counted |-> {}, sum |-> {}]

Init ==
  /\ events = {} /\ score = {} /\ mirrored = {} /\ counted = {}
  /\ trust = InitialTrust /\ earned = InitialTrust
  /\ profileLock = None /\ scoreLock = None /\ mode \in Modes
  /\ pc = [w \in Worker |-> "idle"] /\ job = [w \in Worker |-> NoJob]

-------------------------------------------------------------------------------

Delta(event) == CASE event = "ON_TIME_DELIVERY" -> 4
                  [] event = "LATE_DELIVERY" -> 1
                  [] event = "REJECTED" -> -12
                  [] event = "NO_SHOW" -> -20

\* Fault: trust is not clamped.
FaultUnclamped(current, event) == current + Delta(event)

\* applyTrustEvent()
ApplyTrustEvent(current, event) ==
  LET moved == current + Delta(event)
  IN  IF moved < 0 THEN 0 ELSE IF moved > MaxTrust THEN MaxTrust ELSE moved

Hooking(w) == job[w].source \in Outcome

\* A hook may begin beside other hooks, anything else only by itself, unless
\* everything may overlap.
MayBegin(hook) ==
  \/ mode = "free"
  \/ \A x \in Worker : pc[x] = "idle" \/ (mode = "hooks" /\ hook /\ Hooking(x))

Begin(w, place, source) ==
  /\ pc[w] = "idle" /\ MayBegin(source \in Outcome)
  /\ pc' = [pc EXCEPT ![w] = place] /\ job' = [job EXCEPT ![w] = [NoJob EXCEPT !.source = source]]

Goto(w, place, read) ==
  /\ pc' = [pc EXCEPT ![w] = place] /\ job' = [job EXCEPT ![w] = read]

Taken(s) == s \in events \/ \E x \in Worker : pc[x] # "idle" /\ job[x].source = s

\* An outcome is handled: approveSubmission(), rejectSubmission() or
\* reconcileAfterMisses() reaches the part that moves standing.
Hook(w, o) ==
  /\ ~Taken(o)
  /\ Begin(w, "read", o)
  /\ UNCHANGED <<standing, locks, mode>>

\* recordDeliveryOutcome(): trust and history are read, without a lock.
ReadTrust(w) ==
  /\ pc[w] = "read"
  /\ Goto(w, "write", [job[w] EXCEPT !.trust = ApplyTrustEvent(trust, EventOf[job[w].source]),
                                     !.counted = (events \cap Outcome) \cup {job[w].source}])
  /\ UNCHANGED <<standing, locks, mode>>

\* Fault: the profile is written after the score, not before it.
FaultProfileLater(w) ==
  /\ pc[w] = "write"
  /\ Goto(w, "sum", job[w])
  /\ UNCHANGED <<standing, locks, mode>>

\* Fault: a hook that does not move the trust leaves the profile alone for now.
FaultWriteIfMoved(w) ==
  /\ pc[w] = "write" /\ profileLock = None
  /\ profileLock' = IF job[w].trust = trust THEN None ELSE w
  /\ Goto(w, "sum", job[w])
  /\ UNCHANGED <<standing, scoreLock, mode>>

\* The profile row is written, and so held from here on; the points are awarded.
WriteProfile(w) ==
  /\ pc[w] = "write" /\ profileLock = None
  /\ profileLock' = w
  /\ Goto(w, "sum", job[w])
  /\ UNCHANGED <<standing, scoreLock, mode>>

\* adjustPromoterPoints(): an award, and no write to the profile before the score's.
Adjust(w, a) ==
  /\ ~Taken(a)
  /\ Begin(w, "sum", a)
  /\ UNCHANGED <<standing, locks, mode>>

\* recomputeScore() in the transaction: committed events and its own.
Sum(w) ==
  /\ pc[w] = "sum"
  /\ Goto(w, "upsert", [job[w] EXCEPT !.sum = events \cup {job[w].source}])
  /\ UNCHANGED <<standing, locks, mode>>

\* Fault: the score is written outside the transaction.
FaultUpsertAtOnce(w) ==
  /\ pc[w] = "upsert" /\ scoreLock = None
  /\ score' = job[w].sum
  /\ Goto(w, "commit", job[w])
  /\ UNCHANGED <<events, trust, counted, mirrored, earned, locks, mode>>

UpsertScore(w) ==
  /\ pc[w] = "upsert" /\ scoreLock = None
  /\ scoreLock' = w
  /\ Goto(w, "commit", job[w])
  /\ UNCHANGED <<standing, profileLock, mode>>

\* Fault: trust is left as it was.
FaultKeepTrust(w) ==
  LET o == job[w].source IN
  /\ pc[w] = "commit" /\ profileLock \in {None, w}
  /\ events' = events \cup {o} /\ score' = job[w].sum /\ mirrored' = job[w].sum
  /\ counted' = IF Hooking(w) THEN job[w].counted ELSE counted
  /\ earned' = IF Hooking(w) THEN ApplyTrustEvent(earned, EventOf[o]) ELSE earned
  /\ profileLock' = None /\ scoreLock' = None
  /\ Goto(w, "idle", NoJob)
  /\ UNCHANGED <<trust, mode>>

\* The tier is mirrored onto the profile, which an adjustment has to wait for here,
\* and the transaction commits.
Commit(w) ==
  LET o == job[w].source IN
  /\ pc[w] = "commit" /\ profileLock \in {None, w}
  /\ events' = events \cup {o} /\ score' = job[w].sum /\ mirrored' = job[w].sum
  /\ IF Hooking(w)
     THEN /\ trust' = job[w].trust /\ counted' = job[w].counted
          /\ earned' = ApplyTrustEvent(earned, EventOf[o])
     ELSE UNCHANGED <<trust, counted, earned>>
  /\ profileLock' = None /\ scoreLock' = None
  /\ Goto(w, "idle", NoJob)
  /\ UNCHANGED mode

\* A transaction is rolled back: its process died, a later write of the handler failed,
\* or the database chose it to break a circle of waiters.
Rollback(w) ==
  /\ pc[w] \notin {"idle", "store", "mirror"}
  /\ profileLock' = IF profileLock = w THEN None ELSE profileLock
  /\ scoreLock' = IF scoreLock = w THEN None ELSE scoreLock
  /\ Goto(w, "idle", NoJob)
  /\ UNCHANGED <<standing, mode>>

\* rebuildAll() comes to this promoter, and every statement commits by itself.
RebuildSum(w) ==
  /\ pc[w] = "idle" /\ MayBegin(FALSE) /\ events # {}
  /\ Goto(w, "store", [NoJob EXCEPT !.sum = events])
  /\ UNCHANGED <<standing, locks, mode>>

RebuildScore(w) ==
  /\ pc[w] = "store" /\ scoreLock = None
  /\ score' = job[w].sum
  /\ Goto(w, "mirror", job[w])
  /\ UNCHANGED <<events, trust, counted, mirrored, earned, locks, mode>>

RebuildTier(w) ==
  /\ pc[w] = "mirror" /\ profileLock = None
  /\ mirrored' = job[w].sum
  /\ Goto(w, "idle", NoJob)
  /\ UNCHANGED <<events, trust, counted, score, earned, locks, mode>>

RebuildDies(w) ==
  /\ pc[w] \in {"store", "mirror"}
  /\ Goto(w, "idle", NoJob)
  /\ UNCHANGED <<standing, locks, mode>>

Transaction(w) == ReadTrust(w) \/ WriteProfile(w) \/ Sum(w) \/ UpsertScore(w) \/ Commit(w) \/ Rollback(w)
Rebuild(w) == RebuildSum(w) \/ RebuildScore(w) \/ RebuildTier(w) \/ RebuildDies(w)

Next == \E w \in Worker :
  \/ Transaction(w) \/ Rebuild(w)
  \/ \E o \in Outcome : Hook(w, o)
  \/ \E a \in Adjustment : Adjust(w, a)

Spec == Init /\ [][Next]_vars

-------------------------------------------------------------------------------
(* Properties *)

\* recomputeScore() inside the hooks: however reviews and sweeps of one promoter overlap,
\* score and tier are those of exactly the committed events.  Nothing locks the events;
\* it is the profile row, written before the sum is taken, that makes the hooks queue.
\* A rebuild or an adjustment among them has no such row and is kept apart here.
ScoreIsSum == mode # "free" => score = events /\ mirrored = events

\* The hooks take the two rows in one order, so they never wait for each other in a
\* circle; an adjustment takes them in the other and may close one with a hook.
Waits(w, x) == \/ pc[w] \in {"write", "commit"} /\ profileLock = x /\ x # w
               \/ pc[w] = "upsert" /\ scoreLock = x
HooksNeverWaitInCircle ==
  mode # "free" => \A w, x \in Worker : ~(Waits(w, x) /\ Waits(x, w))

\* Whatever overlaps, adjustments and rebuilds included, no score, tier or reliability
\* counts an event that was rolled back.
OnlyCommittedCounts ==
  score \subseteq events /\ mirrored \subseteq events /\ counted \subseteq events

\* recordDeliveryOutcome(): while nothing overlaps, trust is what the outcomes earned in
\* the order they were recorded and reliability knows of all of them.  Two hooks that
\* overlap may each read the profile before the other's write, and one is then lost.
ReputationAdds ==
  mode = "alone" => trust = earned /\ counted = events \cap Outcome

===============================================================================
