---------------------------- MODULE DeliveryProofs ----------------------------
(***************************************************************************)
(* Proofs about Delivery for every number of promoters, slots, posts,      *)
(* requests and sweepers that overlap and die in any order.                *)
(*   - the pool of slots counts what is there (SlotsCounted);              *)
(*   - an approved submission was paid (ApprovedIsPaid);                   *)
(*   - a missed post is dinged at most once (DingedOnce);                  *)
(*   - requests and sweeps that do not overlap leave records that agree    *)
(*     and never undo a decision (RecordsAgree, KeepsFinal);               *)
(*   - a brief that is priced has the price of its terms (QuoteIsCurrent). *)
(* What a handler has read may be stale when it writes, so the inductive   *)
(* invariant says what of it still holds: posts are laid out once, an      *)
(* assignment never goes back, a slot is only given up under a key that    *)
(* stays in the notifications, a submission keeps the post it is about.    *)
(* When nothing overlaps, what was read is still so when it is used: that  *)
(* is the invariant InTurn.                                                *)
(***************************************************************************)
EXTENDS MCDelivery, Sums, TLAPS

(* The model's operators *)

\* What integer division returns.
LEMMA Quotient ==
  ASSUME NEW n \in Nat, NEW d \in Nat \ {0}
  PROVE  n \div d \in Nat
OBVIOUS

\* A product of counts is a count (the provers are given it by name).
LEMMA Product == ASSUME NEW m \in Nat, NEW n \in Nat PROVE m * n \in Nat
OBVIOUS

\* What a delivered post takes out of escrow is an amount.
LEMMA DeliveredIsNat ==
  ASSUME NEW v \in Nat
  PROVE  DeliveredGross(Unit, v, Reach) \in Nat
<1>1. Reach \in Nat \ {0} /\ Unit \in Nat
  BY DeliveryAssumption
<1>2. Least(v, Reach) \in Nat
  BY <1>1 DEF Least
<1>3. Unit * Least(v, Reach) \in Nat
  BY <1>1, <1>2, Product
<1>4. Reach \div 2 \in Nat
  BY <1>1, Quotient
<1>5. Unit * Least(v, Reach) + Reach \div 2 \in Nat
  BY <1>3, <1>4
<1> QED BY <1>1, <1>5, Quotient DEF DeliveredGross, DivRound

\* A reopening opens a number of slots.
LEMMA ReopenIsNat ==
  ASSUME NEW deficit \in Int, NEW money \in Nat
  PROVE  ReopenCount(deficit, Reach * Posts, money, Unit * Posts) \in Nat
<1> DEFINE reach == Reach * Posts
           cost == Unit * Posts
<1>1. reach \in Nat \ {0} /\ cost \in Nat \ {0}
  BY DeliveryAssumption
<1> HIDE DEF reach, cost
<1>2. CASE deficit <= 0
  <2>1. ReopenCount(deficit, reach, money, cost) = 0
    BY <1>2 DEF ReopenCount
  <2> QED BY <2>1 DEF reach, cost
<1>3. CASE deficit > 0
  <2>1. deficit + reach - 1 \in Nat
    BY <1>1, <1>3
  <2>2. Ceiling(deficit, reach) \in Nat /\ money \div cost \in Nat
    BY <1>1, <2>1, Quotient DEF Ceiling
  <2>3. ReopenCount(deficit, reach, money, cost) \in Nat
    BY <1>1, <2>2 DEF ReopenCount, Least
  <2> QED BY <2>3 DEF reach, cost
<1> QED BY <1>2, <1>3

\* What a list of posts is.
LEMMA Posting ==
  ASSUME NEW p \in Schedule
  PROVE  /\ \E n \in 0 .. Posts : DOMAIN p = 1 .. n /\ p \in [1 .. n -> PostStatus]
         /\ \A i \in DOMAIN p : p[i] \in PostStatus /\ i \in 1 .. Posts
         /\ IsFiniteSet(DOMAIN p)
<1>1. PICK n \in 0 .. Posts : p \in [1 .. n -> PostStatus]
  BY DEF Schedule
<1>2. n \in Nat /\ n <= Posts /\ Posts \in Nat
  BY DeliveryAssumption
<1>3. IsFiniteSet(1 .. n)
  BY <1>2, FS_Interval
<1> QED BY <1>1, <1>2, <1>3

\* Nothing is laid out before an offer is accepted.
LEMMA NoPosts == <<>> \in Schedule /\ DOMAIN <<>> = {}
<1>1. 0 \in 0 .. Posts
  BY DeliveryAssumption
<1>2. <<>> \in [1 .. 0 -> PostStatus] /\ DOMAIN <<>> = {}
  OBVIOUS
<1> QED BY <1>1, <1>2 DEF Schedule

\* The posts of a slot, all still to be made.
LEMMA LaidOut ==
  ASSUME NEW n \in 1 .. Posts, NEW x \in PostStatus
  PROVE  /\ [i \in 1 .. Greatest(1, n) |-> x] \in Schedule
         /\ DOMAIN [i \in 1 .. Greatest(1, n) |-> x] # {}
<1>1. Greatest(1, n) = n /\ n \in 0 .. Posts /\ 1 \in 1 .. n
  BY DeliveryAssumption DEF Greatest
<1> QED BY <1>1 DEF Schedule

\* Changes of status change nothing else of a list of posts.
LEMMA Marked ==
  ASSUME NEW p \in Schedule, NEW e, DOMAIN e = DOMAIN p,
         e = [i \in DOMAIN p |-> e[i]], \A i \in DOMAIN p : e[i] \in PostStatus
  PROVE  e \in Schedule
<1>1. PICK n \in 0 .. Posts : DOMAIN p = 1 .. n
  BY Posting
<1>2. e \in [1 .. n -> PostStatus]
  BY <1>1
<1> QED BY <1>2 DEF Schedule

LEMMA OneMarked ==
  ASSUME NEW p \in Schedule, NEW i, NEW x \in PostStatus
  PROVE  [p EXCEPT ![i] = x] \in Schedule /\ DOMAIN [p EXCEPT ![i] = x] = DOMAIN p
<1> DEFINE e == [p EXCEPT ![i] = x]
<1>1. DOMAIN e = DOMAIN p /\ e = [j \in DOMAIN p |-> e[j]]
  BY Posting
<1>2. \A j \in DOMAIN p : e[j] \in PostStatus
  BY Posting
<1> QED BY <1>1, <1>2, Marked

\* computeAssignmentRollup(): CANCELLED says that every post was missed.
LEMMA RollupIs ==
  ASSUME NEW p \in Schedule
  PROVE  /\ Rollup(p) \in {"IN_PROGRESS", "SUBMITTED", "PAID", "CANCELLED"}
         /\ Rollup(p) = "CANCELLED" => \A i \in DOMAIN p : p[i] = "MISSED"
<1>1. \A i \in DOMAIN p : p[i] \in PostStatus
  BY Posting
<1> QED BY <1>1 DEF Rollup, PostStatus, Submittable

\* A slot is reopened for one to all of its posts.
LEMMA DeficitIs ==
  ASSUME NEW p \in Schedule
  PROVE  /\ Deficit(p) \in 0 .. Posts
         /\ Misses(p) \in Nat
         /\ (\E i \in DOMAIN p : p[i] # "APPROVED") => Deficit(p) > 0
<1> DEFINE left == {i \in DOMAIN p : p[i] # "APPROVED"}
           missed == {i \in DOMAIN p : p[i] = "MISSED"}
<1>1. PICK n \in 0 .. Posts : DOMAIN p = 1 .. n
  BY Posting
<1>2. n \in Nat /\ n <= Posts /\ Posts \in Nat
  BY DeliveryAssumption
<1>3. IsFiniteSet(1 .. n) /\ Cardinality(1 .. n) = n
  BY <1>2, FS_Interval
<1>4. left \in SUBSET (1 .. n) /\ missed \in SUBSET (1 .. n)
  BY <1>1
<1>5. IsFiniteSet(left) /\ Cardinality(left) <= n /\ IsFiniteSet(missed)
  BY <1>3, <1>4, FS_Subset
<1>6. Cardinality(left) \in Nat /\ Cardinality(missed) \in Nat
  BY <1>5, FS_CardinalityType
<1>7. left # {} => Cardinality(left) # 0
  BY <1>5, FS_EmptySet
<1> QED BY <1>2, <1>5, <1>6, <1>7 DEF Deficit, Misses

\* A promoter whose every post was missed has failed.
LEMMA AllMissedIsPulled ==
  ASSUME NEW p \in Schedule, DOMAIN p # {}, \A i \in DOMAIN p : p[i] = "MISSED"
  PROVE  ShouldReallocate(p)
<1>1. PICK n \in 0 .. Posts : DOMAIN p = 1 .. n /\ p \in [1 .. n -> PostStatus]
  BY Posting
<1>2. n \in Nat /\ n > 0
  BY <1>1
<1>3. Deficit(p) > 0
  BY DeficitIs
<1>4. CASE n = 1
  <2>1. Len(p) = 1
    BY <1>1, <1>4
  <2> QED BY <1>3, <2>1 DEF ShouldReallocate
<1>5. CASE n > 1
  <2>1. 1 \in DOMAIN p /\ 1 + 1 \in DOMAIN p
    BY <1>1, <1>2, <1>5
  <2>2. ConsecutiveMisses(p)
    BY <2>1 DEF ConsecutiveMisses
  <2> QED BY <1>3, <2>2 DEF ShouldReallocate
<1> QED BY <1>2, <1>4, <1>5

\* A finite set has subsets of every smaller size.
LEMMA SubsetOfSize ==
  ASSUME NEW S, IsFiniteSet(S)
  PROVE  \A k \in Nat : k <= Cardinality(S) => \E T \in SUBSET S : Cardinality(T) = k
<1> DEFINE G == {k \in Nat : k <= Cardinality(S) => \E T \in SUBSET S : Cardinality(T) = k}
<1>1. Cardinality(S) \in Nat
  BY FS_CardinalityType
<1>2. 0 \in G
  BY FS_EmptySet
<1>3. ASSUME NEW k \in Nat, k \in G, k + 1 <= Cardinality(S)
      PROVE  \E T \in SUBSET S : Cardinality(T) = k + 1
  <2>1. PICK T \in SUBSET S : Cardinality(T) = k
    BY <1>1, <1>3
  <2>2. T # S /\ IsFiniteSet(T)
    BY <1>1, <1>3, <2>1, FS_Subset
  <2>3. PICK x \in S : x \notin T
    BY <2>2
  <2>4. Cardinality(T \cup {x}) = k + 1 /\ T \cup {x} \in SUBSET S
    BY <2>1, <2>2, <2>3, FS_AddElement
  <2> QED BY <2>4
<1>4. \A k \in Nat : k \in G => k + 1 \in G
  BY <1>3
<1> HIDE DEF G
<1>5. \A k \in Nat : k \in G
  BY <1>2, <1>4, CountInduction
<1> QED BY <1>5 DEF G

\* The rows a reopening takes are unused ones, as many as it asks for.
LEMMA NewSlotsAre ==
  ASSUME NEW k \in Nat, k <= Cardinality(UnusedSlots)
  PROVE  NewSlots(k) \in SUBSET UnusedSlots /\ Cardinality(NewSlots(k)) = k
<1>1. IsFiniteSet(UnusedSlots)
  BY DeliveryAssumption, FS_Subset DEF UnusedSlots
<1>2. \E T \in SUBSET UnusedSlots : Cardinality(T) = k
  BY <1>1, SubsetOfSize
<1> QED BY <1>2 DEF NewSlots

\* The next id is an unused one.
NextSubmission == CHOOSE m \in UnusedSubmissions : \A k \in UnusedSubmissions : m <= k
LEMMA NextIsUnused ==
  ASSUME UnusedSubmissions # {}
  PROVE  NextSubmission \in UnusedSubmissions
<1> DEFINE below == OpToRel(<, Nat)
<1>1. UnusedSubmissions \subseteq Nat
  BY DeliveryAssumption DEF UnusedSubmissions
<1>2. \A x, y \in Nat : y < x => <<y, x>> \in below
  BY DEF OpToRel
<1>3. IsWellFoundedOn(below, Nat)
  BY NatLessThanWellFounded
<1> HIDE DEF below
<1>4. PICK x \in UnusedSubmissions : \A y \in UnusedSubmissions : <<y, x>> \notin below
  BY <1>1, <1>3, WFMin
<1>5. \A y \in UnusedSubmissions : x <= y
  <2> SUFFICES ASSUME NEW y \in UnusedSubmissions PROVE x <= y
    OBVIOUS
  <2>1. x \in Nat /\ y \in Nat
    BY <1>1
  <2>2. ~(y < x)
    BY <2>1, <1>2, <1>4
  <2> QED BY <2>1, <2>2
<1> QED BY <1>5 DEF NextSubmission

-------------------------------------------------------------------------------
(* The inductive invariant *)

\* The notification under which an assignment was pulled and gave its slot up.
Pulled(q) == <<"cancelled", q>> \in noted

\* An assignment has its posts and its slot from the start; it loses the slot when it
\* is pulled, and only one that was pulled is CANCELLED.
Holding(q) ==
  /\ offer[q] \in {None, "SENT"} => asg[q].status = None
  /\ asg[q].status = None => asg[q].slot = None /\ DOMAIN post[q] = {} /\ ~Pulled(q)
  /\ asg[q].status # None => DOMAIN post[q] # {} /\ (asg[q].slot = None <=> Pulled(q))
  /\ asg[q].status = "CANCELLED" => Pulled(q)

\* A slot is FILLED when somebody holds it, and nobody else does.
Held ==
  /\ \A s \in SlotId : slot[s].status = "FILLED" <=> \E q \in Promoter : asg[q].slot = s
  /\ \A q, r \in Promoter : asg[q].slot = asg[r].slot /\ asg[q].slot # None => q = r

Filled == {s \in SlotId : slot[s].status = "FILLED"}
Existing == {s \in SlotId : slot[s].status # None}
Counted == campaign.filled = Cardinality(Filled) /\ campaign.total = Cardinality(Existing)

\* A submission is about a post its promoter has.
Fits(n) == sub[n] # None => sub[n].post \in DOMAIN post[sub[n].promoter]

\* What a request has read is about that post as well.
Reviewing == {"reject", "settle", "economics", "decide", "commit"}
Sees(w) ==
  /\ pc[w] = "submit" => /\ job[w].post \in DOMAIN job[w].seen
                         /\ job[w].post \in DOMAIN post[job[w].promoter]
  /\ pc[w] \in Reviewing => /\ sub[job[w].sub] # None
                            /\ sub[job[w].sub].post \in DOMAIN job[w].seen

\* Every request on its way to a submission will find an id for it.
Submitting == {w \in Worker : pc[w] = "submit"}
Room == Cardinality(Submitting) <= Cardinality(UnusedSubmissions)

\* A sweep deals with assignments that exist; the slot it has read is still the
\* assignment's, unless another sweep has pulled it meanwhile.
Sweeps(z) == run[z] # None =>
  /\ \A e \in run[z].todo : asg[e[1]].status # None
  /\ \A q \in Promoter : run[z].won[q] > 0 => asg[q].status # None
  /\ run[z].place = "write" =>
       /\ run[z].promoter \in Promoter /\ DOMAIN run[z].seen # {}
       /\ asg[run[z].promoter].status # None
       /\ run[z].slot = asg[run[z].promoter].slot \/ Pulled(run[z].promoter)

IInv ==
  /\ TypeOK /\ Held /\ Counted /\ Room
  /\ \A q \in Promoter : Holding(q)
  /\ \A n \in Submission : Fits(n)
  /\ \A w \in Worker : Sees(w)
  /\ \A z \in Sweeper : Sweeps(z)

\* What no step takes back: an assignment and its posts, the slot unless it was pulled,
\* what a submission is about, a notification.
Onward ==
  /\ \A q \in Promoter : DOMAIN post[q] # {} => DOMAIN post'[q] = DOMAIN post[q]
  /\ \A q \in Promoter : asg[q].status # None =>
       asg'[q].status # None /\ (asg'[q].slot = asg[q].slot \/ Pulled(q)')
  /\ \A n \in Submission : sub[n] # None =>
       sub'[n] # None /\ sub'[n].promoter = sub[n].promoter /\ sub'[n].post = sub[n].post
  /\ noted \subseteq noted'

-------------------------------------------------------------------------------
(* Rows and what requests and sweeps hold *)

LEMMA RowsAre ==
  ASSUME TypeOK
  PROVE  /\ \A q \in Promoter : /\ asg[q].slot \in {None} \cup SlotId
                                /\ asg[q].stamped \in BOOLEAN
                                /\ asg[q].status \in {None, "IN_PROGRESS", "SUBMITTED", "PAID", "CANCELLED"}
                                /\ post[q] \in Schedule
         /\ \A n \in Submission : sub[n] # None =>
              /\ sub[n] \in Proof
              /\ sub[n].promoter \in Promoter /\ sub[n].post \in 1 .. Posts
              /\ sub[n].views \in Nat
         /\ \A s \in SlotId : slot[s].posts \in 1 .. Posts /\ slot[s].status \in {None, "OPEN", "FILLED"}
<1>1. \A q \in Promoter : /\ asg[q] \in [status: {None, "IN_PROGRESS", "SUBMITTED", "PAID", "CANCELLED"},
                                        slot: {None} \cup SlotId, stamped: BOOLEAN]
                          /\ post[q] \in Schedule
  BY DEF TypeOK
<1>2. \A n \in Submission : sub[n] # None => sub[n] \in Proof
  BY DEF TypeOK
<1>3. \A r \in Proof : r.promoter \in Promoter /\ r.post \in 1 .. Posts /\ r.views \in Nat
  <2>1. \A r \in Proof : r.promoter \in Promoter /\ r.post \in 1 .. Posts /\ r.views \in {0} \cup Views
    BY DEF Proof
  <2>2. {0} \cup Views \subseteq Nat
    BY DeliveryAssumption
  <2> QED BY <2>1, <2>2
<1>4. \A s \in SlotId : slot[s] \in [status: {None, "OPEN", "FILLED"}, posts: 1 .. Posts]
  BY DEF TypeOK
<1> QED BY <1>1, <1>2, <1>3, <1>4

LEMMA JobsAre ==
  ASSUME TypeOK, NEW w \in Worker
  PROVE  /\ pc[w] = "decline" => job[w].promoter \in Promoter
         /\ pc[w] = "submit" => /\ job[w].promoter \in Promoter /\ job[w].post \in 1 .. Posts
                                /\ job[w].seen \in Schedule
         /\ pc[w] \in Reviewing => job[w].sub \in Submission /\ job[w].seen \in Schedule
         /\ pc[w] = "book" => job[w].escrow \in Nat
         /\ pc[w] \in Reviewing \ {"reject"} =>
              /\ job[w] \in ReadByApprove
              /\ job[w].views \in Views /\ job[w].views \in Nat /\ job[w].attempt \in Attempts
              /\ job[w].live \in BOOLEAN /\ job[w].stamped \in BOOLEAN /\ job[w].escrow \in Nat
         /\ pc[w] = "commit" => /\ job[w].plan.open \in Nat
                                /\ job[w].plan.fulfil \in BOOLEAN /\ job[w].plan.book \in BOOLEAN
<1>1. Carries(pc[w], job[w])
  BY DEF TypeOK
<1>2. Views \subseteq Nat
  BY DeliveryAssumption
<1>3. pc[w] = "commit" => job[w].plan \in Plan
  BY <1>1 DEF Carries
<1>4. pc[w] = "commit" => /\ job[w].plan.open \in Nat
                          /\ job[w].plan.fulfil \in BOOLEAN /\ job[w].plan.book \in BOOLEAN
  BY <1>3 DEF Plan
<1>5. pc[w] \in Reviewing \ {"reject"} => job[w] \in ReadByApprove
  BY <1>1 DEF Carries, Reviewing
<1>6. pc[w] = "reject" => job[w] \in ReadByReject
  BY <1>1 DEF Carries
<1>7. pc[w] \in Reviewing => job[w].sub \in Submission /\ job[w].seen \in Schedule
  BY <1>5, <1>6 DEF ReadByApprove, ReadByReject
<1>8. pc[w] \in Reviewing \ {"reject"} =>
        /\ job[w].views \in Views /\ job[w].views \in Nat /\ job[w].attempt \in Attempts
        /\ job[w].live \in BOOLEAN /\ job[w].stamped \in BOOLEAN /\ job[w].escrow \in Nat
  BY <1>2, <1>5 DEF ReadByApprove
<1>9. /\ pc[w] = "decline" => job[w].promoter \in Promoter
      /\ pc[w] = "submit" => /\ job[w].promoter \in Promoter /\ job[w].post \in 1 .. Posts
                             /\ job[w].seen \in Schedule
      /\ pc[w] = "book" => job[w].escrow \in Nat
  BY <1>1 DEF Carries, ReadBySubmit
<1> QED BY <1>4, <1>5, <1>7, <1>8, <1>9

LEMMA RunsAre ==
  ASSUME TypeOK, NEW z \in Sweeper, run[z] # None
  PROVE  /\ run[z] \in Working
         /\ run[z].place \in {"claim", "write"} /\ run[z].todo \in SUBSET (Promoter \X (1 .. Posts))
         /\ run[z].won \in [Promoter -> Nat] /\ run[z].promoter \in {None} \cup Promoter
         /\ run[z].seen \in Schedule /\ run[z].slot \in {None} \cup SlotId
<1>1. run[z] \in Working
  BY DEF TypeOK
<1> QED BY <1>1 DEF Working

\* A worker that goes somewhere leaves the others where they are.
LEMMA WorkerMoves ==
  ASSUME TypeOK, NEW w \in Worker, NEW place \in Place, NEW read, Carries(place, read),
         Goto(w, place, read)
  PROVE  /\ pc' \in [Worker -> Place] /\ DOMAIN job' = Worker
         /\ pc'[w] = place /\ job'[w] = read
         /\ \A x \in Worker \ {w} : pc'[x] = pc[x] /\ job'[x] = job[x]
         /\ \A x \in Worker : Carries(pc'[x], job'[x])
<1>1. /\ pc' \in [Worker -> Place] /\ DOMAIN job' = Worker
      /\ pc'[w] = place /\ job'[w] = read
      /\ \A x \in Worker \ {w} : pc'[x] = pc[x] /\ job'[x] = job[x]
  BY DEF TypeOK, Goto
<1>2. \A x \in Worker : Carries(pc[x], job[x])
  BY DEF TypeOK
<1> QED BY <1>1, <1>2

LEMMA WorkerIsDone ==
  ASSUME TypeOK, NEW w \in Worker, Done(w)
  PROVE  /\ pc' \in [Worker -> Place] /\ DOMAIN job' = Worker
         /\ pc'[w] = "idle" /\ job'[w] = None
         /\ \A x \in Worker \ {w} : pc'[x] = pc[x] /\ job'[x] = job[x]
         /\ \A x \in Worker : Carries(pc'[x], job'[x])
<1>1. "idle" \in Place /\ Carries("idle", None) /\ Goto(w, "idle", None)
  BY DEF Place, Carries, Done
<1> QED BY <1>1, WorkerMoves

\* So does a sweeper.
LEMMA SweeperMoves ==
  ASSUME TypeOK, NEW z \in Sweeper, NEW r \in {None} \cup Working, run' = [run EXCEPT ![z] = r]
  PROVE  /\ run' \in [Sweeper -> {None} \cup Working] /\ run'[z] = r
         /\ \A y \in Sweeper \ {z} : run'[y] = run[y]
BY DEF TypeOK

LEMMA SweeperContinues ==
  ASSUME TypeOK, NEW z \in Sweeper, NEW r \in Working, Continue(z, r)
  PROVE  /\ run' \in [Sweeper -> {None} \cup Working]
         /\ run'[z] = r \/ (run'[z] = None /\ \A q \in Promoter : r.won[q] = 0)
         /\ \A y \in Sweeper \ {z} : run'[y] = run[y]
<1>1. CASE r.todo = {} /\ \A q \in Promoter : r.won[q] = 0
  <2>1. run' = [run EXCEPT ![z] = None]
    BY <1>1 DEF Continue
  <2> QED BY <1>1, <2>1, SweeperMoves
<1>2. CASE ~(r.todo = {} /\ \A q \in Promoter : r.won[q] = 0)
  <2>1. run' = [run EXCEPT ![z] = r]
    BY <1>2 DEF Continue
  <2> QED BY <2>1, SweeperMoves
<1> QED BY <1>1, <1>2

-------------------------------------------------------------------------------
(* What stays true of whom a step leaves alone *)

LEMMA StillSees ==
  ASSUME IInv, Onward, NEW x \in Worker, pc'[x] = pc[x], job'[x] = job[x]
  PROVE  Sees(x)'
<1>1. Sees(x)
  BY DEF IInv
<1>2. pc[x] = "submit" => job[x].promoter \in Promoter
  BY JobsAre DEF IInv
<1>3. pc[x] \in Reviewing => job[x].sub \in Submission
  BY JobsAre DEF IInv
<1>4. pc'[x] = "submit" => /\ job'[x].post \in DOMAIN job'[x].seen
                           /\ job'[x].post \in DOMAIN post'[job'[x].promoter]
  BY <1>1, <1>2 DEF Sees, Onward
<1>5. pc'[x] \in Reviewing => /\ sub'[job'[x].sub] # None
                              /\ sub'[job'[x].sub].post \in DOMAIN job'[x].seen
  BY <1>1, <1>3 DEF Sees, Onward
<1> QED BY <1>4, <1>5 DEF Sees

LEMMA StillSweeps ==
  ASSUME IInv, Onward, NEW z \in Sweeper, run'[z] = run[z]
  PROVE  Sweeps(z)'
<1> SUFFICES ASSUME run[z] # None
             PROVE  /\ \A e \in run[z].todo : asg'[e[1]].status # None
                    /\ \A q \in Promoter : run[z].won[q] > 0 => asg'[q].status # None
                    /\ run[z].place = "write" =>
                         /\ run[z].promoter \in Promoter /\ DOMAIN run[z].seen # {}
                         /\ asg'[run[z].promoter].status # None
                         /\ run[z].slot = asg'[run[z].promoter].slot \/ Pulled(run[z].promoter)'
  BY DEF Sweeps
<1>1. Sweeps(z)
  BY DEF IInv
<1>2. \A e \in run[z].todo : e[1] \in Promoter
  BY RunsAre DEF IInv
<1>3. \A q \in Promoter : Pulled(q) => Pulled(q)'
  BY DEF Pulled, Onward
<1>4. run[z].place = "write" => run[z].promoter \in Promoter
  BY <1>1 DEF Sweeps
<1>5. /\ \A e \in run[z].todo : asg'[e[1]].status # None
      /\ \A q \in Promoter : run[z].won[q] > 0 => asg'[q].status # None
  BY <1>1, <1>2 DEF Sweeps, Onward
<1>6. run[z].place = "write" =>
        /\ run[z].promoter \in Promoter /\ DOMAIN run[z].seen # {}
        /\ asg'[run[z].promoter].status # None
        /\ run[z].slot = asg'[run[z].promoter].slot \/ Pulled(run[z].promoter)'
  BY <1>1, <1>3, <1>4 DEF Sweeps, Onward
<1> QED BY <1>5, <1>6

LEMMA StillRoom ==
  ASSUME IInv, UnusedSubmissions' = UnusedSubmissions,
         \A x \in Worker : pc'[x] = "submit" => pc[x] = "submit"
  PROVE  Room'
<1>1. Submitting' \in SUBSET Submitting
  BY DEF Submitting
<1>2. IsFiniteSet(Submitting)
  BY DeliveryAssumption, FS_Subset DEF Submitting
<1>3. Cardinality(Submitting') <= Cardinality(Submitting) /\ IsFiniteSet(Submitting')
  BY <1>1, <1>2, FS_Subset
<1>4. Cardinality(Submitting) \in Nat /\ Cardinality(Submitting') \in Nat
  BY <1>2, <1>3, FS_CardinalityType
<1>5. IsFiniteSet(UnusedSubmissions)
  BY DeliveryAssumption, FS_Subset DEF UnusedSubmissions
<1>6. Cardinality(UnusedSubmissions) \in Nat
  BY <1>5, FS_CardinalityType
<1>7. Cardinality(Submitting) <= Cardinality(UnusedSubmissions)
  BY DEF IInv, Room
<1>8. Cardinality(Submitting') <= Cardinality(UnusedSubmissions)
  BY <1>3, <1>4, <1>6, <1>7
<1> QED BY <1>8 DEF Room

\* A step that writes no row of the pool, the assignments or the submissions.
QuietRows == UNCHANGED <<campaign, slot, asg, post, sub, noted, claims, dings>>
NoNewOffers == \A q \in Promoter : offer'[q] \in {None, "SENT"} => offer[q] \in {None, "SENT"}

LEMMA QuietKeeps ==
  ASSUME IInv, QuietRows, NoNewOffers
  PROVE  /\ Onward /\ Held' /\ Counted' /\ UnusedSubmissions' = UnusedSubmissions
         /\ \A q \in Promoter : Holding(q)'
         /\ \A n \in Submission : Fits(n)'
<1>1. Onward
  BY DEF Onward, QuietRows
<1>2. Held' /\ Counted'
  BY DEF IInv, QuietRows, Held, Counted, Filled, Existing
<1>3. \A q \in Promoter : Holding(q)'
  BY DEF IInv, QuietRows, NoNewOffers, Holding, Pulled
<1>4. \A n \in Submission : Fits(n)'
  BY DEF IInv, QuietRows, Fits
<1> QED BY <1>1, <1>2, <1>3, <1>4 DEF QuietRows, UnusedSubmissions

\* Such a step of a request.
LEMMA RequestWithRoom ==
  ASSUME IInv, QuietRows, NoNewOffers,
         offer' \in [Promoter -> {None, "SENT", "ACCEPTED", "DECLINED", "EXPIRED"}],
         escrow' \in Nat, posted' \subseteq Submission \X Attempts, swept' \in BOOLEAN,
         crashes' \in Nat, run' = run,
         NEW w \in Worker, NEW place \in Place, NEW read, Carries(place, read),
         Goto(w, place, read), Sees(w)', Room'
  PROVE  IInv'
<1>1. TypeOK
  BY DEF IInv
<1>2. /\ pc' \in [Worker -> Place] /\ DOMAIN job' = Worker
      /\ pc'[w] = place
      /\ \A x \in Worker \ {w} : pc'[x] = pc[x] /\ job'[x] = job[x]
      /\ \A x \in Worker : Carries(pc'[x], job'[x])
  BY <1>1, WorkerMoves
<1>3. TypeOK'
  BY <1>1, <1>2 DEF TypeOK, QuietRows
<1>4. Onward /\ UnusedSubmissions' = UnusedSubmissions
  BY QuietKeeps
<1>5. \A x \in Worker : Sees(x)'
  BY <1>2, <1>4, StillSees
<1>6. \A z \in Sweeper : Sweeps(z)'
  BY <1>4, StillSweeps
<1> QED BY <1>3, <1>5, <1>6, QuietKeeps DEF IInv

\* Such a step of a request that does not come to submit.
LEMMA QuietRequest ==
  ASSUME IInv, QuietRows, NoNewOffers,
         offer' \in [Promoter -> {None, "SENT", "ACCEPTED", "DECLINED", "EXPIRED"}],
         escrow' \in Nat, posted' \subseteq Submission \X Attempts, swept' \in BOOLEAN,
         crashes' \in Nat, run' = run,
         NEW w \in Worker, NEW place \in Place \ {"submit"}, NEW read, Carries(place, read),
         Goto(w, place, read), Sees(w)'
  PROVE  IInv'
<1>1. pc'[w] = place /\ \A x \in Worker \ {w} : pc'[x] = pc[x]
  BY WorkerMoves DEF IInv
<1>2. Room'
  BY <1>1, QuietKeeps, StillRoom
<1> QED BY <1>2, RequestWithRoom

\* Such a step of a sweep.
LEMMA QuietSweep ==
  ASSUME IInv, QuietRows, UNCHANGED <<offer, escrow, posted, swept, pc, job>>, crashes' \in Nat,
         NEW z \in Sweeper, run' \in [Sweeper -> {None} \cup Working],
         \A y \in Sweeper \ {z} : run'[y] = run[y], Sweeps(z)'
  PROVE  IInv'
<1>1. NoNewOffers
  BY DEF NoNewOffers
<1>2. TypeOK'
  BY DEF IInv, TypeOK, QuietRows
<1>3. Onward /\ UnusedSubmissions' = UnusedSubmissions
  BY <1>1, QuietKeeps
<1>4. \A x \in Worker : Sees(x)'
  BY <1>3, StillSees
<1>5. \A y \in Sweeper : Sweeps(y)'
  BY <1>3, StillSweeps
<1>6. Room'
  BY <1>3, StillRoom
<1> QED BY <1>1, <1>2, <1>4, <1>5, <1>6, QuietKeeps DEF IInv

\* And one of nobody's.
LEMMA QuietOffer ==
  ASSUME IInv, QuietRows, NoNewOffers,
         offer' \in [Promoter -> {None, "SENT", "ACCEPTED", "DECLINED", "EXPIRED"}],
         UNCHANGED <<escrow, posted, swept, crashes, pc, job, run>>
  PROVE  IInv'
<1>1. TypeOK'
  BY DEF IInv, TypeOK, QuietRows
<1>2. Onward /\ UnusedSubmissions' = UnusedSubmissions
  BY QuietKeeps
<1>3. \A x \in Worker : Sees(x)'
  BY <1>2, StillSees
<1>4. \A z \in Sweeper : Sweeps(z)'
  BY <1>2, StillSweeps
<1>5. Room'
  BY <1>2, StillRoom
<1> QED BY <1>1, <1>3, <1>4, <1>5, QuietKeeps DEF IInv

-------------------------------------------------------------------------------
(* The steps that write no such row *)

LEMMA OfferKeeps ==
  ASSUME IInv, NEW q \in Promoter, SendOffer(q) \/ ExpireOffer(q)
  PROVE  IInv'
<1>1. offer \in [Promoter -> {None, "SENT", "ACCEPTED", "DECLINED", "EXPIRED"}]
  BY DEF IInv, TypeOK
<1>2. QuietRows /\ UNCHANGED <<escrow, posted, swept, crashes, pc, job, run>>
  BY DEF SendOffer, ExpireOffer, QuietRows, moneyVars, missVars
<1>3. CASE SendOffer(q)
  <2>1. offer[q] = None /\ offer' = [offer EXCEPT ![q] = "SENT"]
    BY <1>3 DEF SendOffer
  <2>2. NoNewOffers /\ offer' \in [Promoter -> {None, "SENT", "ACCEPTED", "DECLINED", "EXPIRED"}]
    BY <1>1, <2>1 DEF NoNewOffers
  <2> QED BY <1>2, <2>2, QuietOffer
<1>4. CASE ExpireOffer(q)
  <2>1. offer[q] = "SENT" /\ offer' = [offer EXCEPT ![q] = "EXPIRED"]
    BY <1>4 DEF ExpireOffer
  <2>2. NoNewOffers /\ offer' \in [Promoter -> {None, "SENT", "ACCEPTED", "DECLINED", "EXPIRED"}]
    BY <1>1, <2>1 DEF NoNewOffers
  <2> QED BY <1>2, <2>2, QuietOffer
<1> QED BY <1>3, <1>4

\* A worker that starts on a request has read what it needs.
LEMMA QuietRead ==
  ASSUME IInv, NEW w \in Worker, NEW place \in Place \ {"submit"}, NEW read, Carries(place, read),
         Goto(w, place, read), Sees(w)', QuietRows,
         UNCHANGED <<offer, escrow, posted, swept, crashes, run>>
  PROVE  IInv'
<1>1. NoNewOffers
  BY DEF NoNewOffers
<1>2. /\ offer' \in [Promoter -> {None, "SENT", "ACCEPTED", "DECLINED", "EXPIRED"}]
      /\ escrow' \in Nat /\ posted' \subseteq Submission \X Attempts /\ swept' \in BOOLEAN
      /\ crashes' \in Nat /\ run' = run
  BY DEF IInv, TypeOK
<1> QED BY <1>1, <1>2, QuietRequest

LEMMA DeclineReadKeeps ==
  ASSUME IInv, NEW w \in Worker, NEW q \in Promoter, DeclineRead(w, q)
  PROVE  IInv'
<1> DEFINE read == [promoter |-> q]
<1>1. Goto(w, "decline", read)
  BY DEF DeclineRead, Begin, Goto
<1>2. "decline" \in Place \ {"submit"} /\ Carries("decline", read)
  BY DEF Place, Carries
<1>3. QuietRows /\ UNCHANGED <<offer, escrow, posted, swept, crashes, run>>
  BY DEF DeclineRead, QuietRows, poolVars, moneyVars, missVars
<1> HIDE DEF read
<1>4. pc'[w] = "decline"
  BY <1>1, <1>2, WorkerMoves DEF IInv
<1>5. Sees(w)'
  BY <1>4 DEF Sees, Reviewing
<1> QED BY <1>1, <1>2, <1>3, <1>5, QuietRead

LEMMA DeclineWriteKeeps ==
  ASSUME IInv, NEW w \in Worker, DeclineWrite(w)
  PROVE  IInv'
<1>1. TypeOK /\ pc[w] = "decline" /\ Done(w)
  BY DEF IInv, DeclineWrite
<1>2. PICK q \in Promoter : q = job[w].promoter
  BY <1>1, JobsAre
<1>3. offer' = [offer EXCEPT ![q] = "DECLINED"]
  BY <1>2 DEF DeclineWrite
<1>4. offer \in [Promoter -> {None, "SENT", "ACCEPTED", "DECLINED", "EXPIRED"}]
  BY <1>1 DEF TypeOK
<1>5. NoNewOffers /\ offer' \in [Promoter -> {None, "SENT", "ACCEPTED", "DECLINED", "EXPIRED"}]
  BY <1>3, <1>4, DeliveryAssumption DEF NoNewOffers
<1>6. QuietRows /\ UNCHANGED <<escrow, posted, swept, crashes, run>>
  BY DEF DeclineWrite, QuietRows, moneyVars, missVars
<1>7. Goto(w, "idle", None) /\ Carries("idle", None) /\ "idle" \in Place \ {"submit"}
  BY <1>1 DEF Done, Carries, Place
<1>8. Sees(w)'
  BY <1>1, WorkerIsDone DEF Sees, Reviewing
<1>9. /\ escrow' \in Nat /\ posted' \subseteq Submission \X Attempts /\ swept' \in BOOLEAN
      /\ crashes' \in Nat
  BY <1>1, <1>6 DEF TypeOK
<1> QED BY <1>5, <1>6, <1>7, <1>8, <1>9, QuietRequest

LEMMA RejectReadKeeps ==
  ASSUME IInv, NEW w \in Worker, NEW n \in Submission, RejectRead(w, n)
  PROVE  IInv'
<1> DEFINE read == [sub |-> n, seen |-> post[sub[n].promoter]]
<1>1. Goto(w, "reject", read) /\ sub[n] # None
  BY DEF RejectRead, Begin, Goto
<1>2. post[sub[n].promoter] \in Schedule
  BY <1>1, RowsAre DEF IInv
<1>3. "reject" \in Place \ {"submit"} /\ Carries("reject", read)
  BY <1>2 DEF Place, Carries, ReadByReject
<1>4. QuietRows /\ UNCHANGED <<offer, escrow, posted, swept, crashes, run>>
  BY DEF RejectRead, QuietRows, poolVars, moneyVars, missVars
<1>5. sub' = sub /\ sub[n].post \in DOMAIN read.seen /\ read.sub = n
  BY <1>1, <1>4 DEF IInv, Fits, QuietRows
<1> HIDE DEF read
<1>6. pc'[w] = "reject" /\ job'[w] = read
  BY <1>1, <1>3, WorkerMoves DEF IInv
<1>7. Sees(w)'
  BY <1>1, <1>5, <1>6 DEF Sees
<1> QED BY <1>1, <1>3, <1>4, <1>7, QuietRead

LEMMA ApproveReadKeeps ==
  ASSUME IInv, NEW w \in Worker, NEW n \in Submission, NEW v \in Views, NEW k \in Attempts,
         ApproveRead(w, n, v, k)
  PROVE  IInv'
<1> DEFINE read == ReadToApprove(n, v, k)
<1>1. Goto(w, "settle", read) /\ sub[n] # None
  BY DEF ApproveRead, Begin, Goto
<1>2. post[sub[n].promoter] \in Schedule /\ asg[sub[n].promoter].stamped \in BOOLEAN
  BY <1>1, RowsAre DEF IInv
<1>3. read \in ReadByApprove
  BY <1>2 DEF ReadToApprove, ReadByApprove
<1>4. "settle" \in Place \ {"submit"} /\ Carries("settle", read)
  BY <1>3 DEF Place, Carries
<1>5. QuietRows /\ UNCHANGED <<offer, escrow, posted, swept, crashes, run>>
  BY DEF ApproveRead, QuietRows, poolVars, moneyVars, missVars
<1>6. sub' = sub /\ sub[n].post \in DOMAIN read.seen /\ read.sub = n
  BY <1>1, <1>5 DEF IInv, Fits, QuietRows, ReadToApprove
<1> HIDE DEF read
<1>7. pc'[w] = "settle" /\ job'[w] = read
  BY <1>1, <1>4, WorkerMoves DEF IInv
<1>8. Sees(w)'
  BY <1>1, <1>6, <1>7 DEF Sees
<1> QED BY <1>1, <1>4, <1>5, <1>8, QuietRead

\* A request that has ended, with or without having moved money.
LEMMA QuietDone ==
  ASSUME IInv, NEW w \in Worker, Done(w), QuietRows, escrow' \in Nat, swept' \in BOOLEAN,
         crashes' \in Nat, UNCHANGED <<offer, posted, run>>
  PROVE  IInv'
<1>1. NoNewOffers
  BY DEF NoNewOffers
<1>2. /\ offer' \in [Promoter -> {None, "SENT", "ACCEPTED", "DECLINED", "EXPIRED"}]
      /\ posted' \subseteq Submission \X Attempts
  BY DEF IInv, TypeOK
<1>3. Goto(w, "idle", None) /\ Carries("idle", None) /\ "idle" \in Place \ {"submit"}
  BY DEF Done, Carries, Place
<1>4. Sees(w)'
  BY WorkerIsDone DEF Sees, Reviewing, IInv
<1> QED BY <1>1, <1>2, <1>3, <1>4, QuietRequest

LEMMA SettleKeeps ==
  ASSUME IInv, NEW w \in Worker, Settle(w)
  PROVE  IInv'
<1> DEFINE key == <<job[w].sub, job[w].attempt>>
           delivered == DeliveredGross(Unit, job[w].views, Reach)
<1>1. TypeOK /\ Sees(w) /\ pc[w] = "settle" /\ QuietRows /\ UNCHANGED <<offer, swept, crashes, run>>
  BY DEF IInv, Settle, QuietRows, poolVars, missVars
<1>2. /\ job[w] \in ReadByApprove /\ key \in Submission \X Attempts
      /\ delivered \in Nat /\ escrow \in Nat /\ swept \in BOOLEAN /\ crashes \in Nat
  BY <1>1, JobsAre, DeliveredIsNat DEF Reviewing, TypeOK
<1>3. CASE key \in posted \/ escrow < delivered
  <2>1. Done(w) /\ UNCHANGED <<escrow, posted>>
    BY <1>3 DEF Settle
  <2> QED BY <1>1, <1>2, <2>1, QuietDone
<1>4. CASE ~(key \in posted \/ escrow < delivered)
  <2>1. /\ Goto(w, "economics", job[w])
        /\ escrow' = escrow - delivered /\ posted' = posted \cup {key}
    BY <1>4 DEF Settle
  <2> HIDE DEF key, delivered
  <2>2. escrow' \in Nat
    BY <1>2, <1>4, <2>1
  <2>3. posted' \subseteq Submission \X Attempts
    BY <1>1, <1>2, <2>1 DEF TypeOK
  <2>4. "economics" \in Place \ {"submit"} /\ Carries("economics", job[w])
    BY <1>2 DEF Place, Carries
  <2>5. pc'[w] = "economics" /\ job'[w] = job[w]
    BY <1>1, <2>1, <2>4, WorkerMoves
  <2>6. Sees(w)'
    BY <1>1, <2>5 DEF Sees, Reviewing, QuietRows
  <2>7. NoNewOffers /\ offer' \in [Promoter -> {None, "SENT", "ACCEPTED", "DECLINED", "EXPIRED"}]
    BY <1>1 DEF NoNewOffers, TypeOK
  <2> QED BY <1>1, <1>2, <2>1, <2>2, <2>3, <2>4, <2>6, <2>7, QuietRequest
<1> QED BY <1>3, <1>4

LEMMA ReadEscrowKeeps ==
  ASSUME IInv, NEW w \in Worker, ReadEscrow(w)
  PROVE  IInv'
<1> DEFINE read == [job[w] EXCEPT !.escrow = escrow]
<1>1. TypeOK /\ Sees(w) /\ pc[w] = "economics" /\ Goto(w, "decide", read)
  BY DEF IInv, ReadEscrow
<1>2. QuietRows /\ UNCHANGED <<offer, escrow, posted, swept, crashes, run>>
  BY DEF ReadEscrow, QuietRows, poolVars, moneyVars, missVars
<1>3. job[w] \in ReadByApprove /\ escrow \in Nat
  BY <1>1, JobsAre DEF Reviewing, TypeOK
<1>4. read \in ReadByApprove /\ read.sub = job[w].sub /\ read.seen = job[w].seen
  BY <1>3 DEF ReadByApprove
<1>5. "decide" \in Place \ {"submit"} /\ Carries("decide", read)
  BY <1>4 DEF Place, Carries
<1> HIDE DEF read
<1>6. pc'[w] = "decide" /\ job'[w] = read
  BY <1>1, <1>5, WorkerMoves
<1>7. Sees(w)'
  BY <1>1, <1>2, <1>4, <1>6 DEF Sees, Reviewing, QuietRows
<1> QED BY <1>1, <1>2, <1>5, <1>7, QuietRead

\* What an approval concludes is a plan.
LEMMA ConclusionIs ==
  ASSUME TypeOK, NEW w \in Worker, pc[w] = "decide"
  PROVE  Conclusion(w) \in Plan
<1> DEFINE n == job[w].sub
           posts == [post EXCEPT ![sub[n].promoter][sub[n].post] = "APPROVED"]
           approved == {m \in Submission \ {n} : sub[m] # None /\ sub[m].verdict = "APPROVED"}
           total == job[w].views + SumFunctionOnSet([m \in approved |-> sub[m].views], approved)
           reached == total >= Target
           inFlight == \/ \E s \in SlotId : slot[s].status = "OPEN"
                       \/ \E q \in Promoter : \E i \in DOMAIN posts[q] :
                             posts[q][i] \in {"PENDING", "SUBMITTED"}
           missing == Target - total
           count == ReopenCount(missing, Reach * Posts, job[w].escrow, Unit * Posts)
           again == IF reached \/ inFlight THEN 0 ELSE count
<1>1. job[w].views \in Nat /\ job[w].escrow \in Nat
  BY JobsAre DEF Reviewing
<1>2. IsFiniteSet(approved)
  BY DeliveryAssumption, FS_Subset
<1>3. total \in Int
  <2> DEFINE f == [m \in approved |-> sub[m].views]
  <2>1. \A m \in approved : f[m] \in Nat
    BY RowsAre
  <2> HIDE DEF f
  <2>2. SumFunctionOnSet(f, approved) \in Nat
    BY <1>2, <2>1, SumIsNat
  <2>3. job[w].views + SumFunctionOnSet(f, approved) \in Int
    BY <1>1, <2>2
  <2> QED BY <2>3 DEF f
<1>4. Target \in Int
  <2>1. InitialSlots \in Nat /\ Posts \in Nat /\ Reach \in Nat
    BY DeliveryAssumption
  <2>2. InitialSlots * Posts \in Nat
    BY <2>1, Product
  <2> QED BY <2>1, <2>2, Product DEF Target
<1> HIDE DEF total
<1>5. count \in Nat
  <2>1. missing \in Int
    BY <1>3, <1>4
  <2> HIDE DEF missing
  <2> QED BY <1>1, <2>1, ReopenIsNat
<1> HIDE DEF reached, inFlight, count
<1>6. again \in Nat /\ (again = 0 /\ (reached \/ ~inFlight)) \in BOOLEAN /\ (~inFlight) \in BOOLEAN
  BY <1>5
<1> HIDE DEF again
<1>7. CASE job[w].live
  <2>1. Conclusion(w) = [open |-> again, fulfil |-> again = 0 /\ (reached \/ ~inFlight), book |-> ~inFlight]
    BY <1>7 DEF Conclusion, again, count, reached, inFlight, total
  <2> QED BY <1>6, <2>1 DEF Plan
<1>8. CASE ~job[w].live
  <2>1. Conclusion(w) = [open |-> 0, fulfil |-> FALSE, book |-> FALSE]
    BY <1>8 DEF Conclusion
  <2> QED BY <2>1 DEF Plan
<1> QED BY <1>7, <1>8

LEMMA DecideKeeps ==
  ASSUME IInv, NEW w \in Worker, Decide(w)
  PROVE  IInv'
<1> DEFINE read == [job[w] EXCEPT !.plan = Conclusion(w)]
<1>1. TypeOK /\ Sees(w) /\ pc[w] = "decide"
  BY DEF IInv, Decide
<1>2. QuietRows /\ UNCHANGED <<offer, escrow, posted, swept, crashes, run>>
  BY DEF Decide, QuietRows, poolVars, moneyVars, missVars
<1>3. CASE Done(w)
  <2>1. escrow' \in Nat /\ swept' \in BOOLEAN /\ crashes' \in Nat
    BY <1>1, <1>2 DEF TypeOK
  <2> QED BY <1>2, <1>3, <2>1, QuietDone
<1>4. CASE Goto(w, "commit", read)
  <2>1. job[w] \in ReadByApprove /\ Conclusion(w) \in Plan
    BY <1>1, JobsAre, ConclusionIs DEF Reviewing
  <2> HIDE DEF read
  <2>2. read \in ReadByApprove /\ read.sub = job[w].sub /\ read.seen = job[w].seen /\ read.plan \in Plan
    BY <2>1 DEF ReadByApprove, read
  <2>3. "commit" \in Place \ {"submit"} /\ Carries("commit", read)
    BY <2>2 DEF Place, Carries
  <2>4. pc'[w] = "commit" /\ job'[w] = read
    BY <1>1, <1>4, <2>3, WorkerMoves
  <2>5. Sees(w)'
    BY <1>1, <1>2, <2>2, <2>4 DEF Sees, Reviewing, QuietRows
  <2> QED BY <1>2, <1>4, <2>3, <2>5, QuietRead
<1> QED BY <1>3, <1>4 DEF Decide

LEMMA ReadRemainderKeeps ==
  ASSUME IInv, NEW w \in Worker, ReadRemainder(w)
  PROVE  IInv'
<1>1. TypeOK /\ escrow \in Nat /\ swept \in BOOLEAN /\ crashes \in Nat
  BY DEF IInv, TypeOK
<1>2. QuietRows /\ UNCHANGED <<offer, escrow, posted, swept, crashes, run>>
  BY DEF ReadRemainder, QuietRows, poolVars, moneyVars, missVars
<1>3. CASE Done(w)
  BY <1>1, <1>2, <1>3, QuietDone
<1>4. CASE Goto(w, "book", [escrow |-> escrow])
  <2>1. "book" \in Place \ {"submit"} /\ Carries("book", [escrow |-> escrow])
    BY <1>1 DEF Place, Carries
  <2>2. pc'[w] = "book"
    BY <1>1, <1>4, <2>1, WorkerMoves
  <2>3. Sees(w)'
    BY <2>2 DEF Sees, Reviewing
  <2> QED BY <1>2, <1>4, <2>1, <2>3, QuietRead
<1> QED BY <1>3, <1>4 DEF ReadRemainder

LEMMA BookRemainderKeeps ==
  ASSUME IInv, NEW w \in Worker, BookRemainder(w)
  PROVE  IInv'
<1>1. TypeOK /\ Done(w) /\ pc[w] = "book" /\ QuietRows /\ UNCHANGED <<offer, posted, crashes, run>>
  BY DEF IInv, BookRemainder, QuietRows, poolVars, missVars
<1>2. job[w].escrow \in Nat /\ escrow \in Nat /\ swept \in BOOLEAN /\ crashes \in Nat
  BY <1>1, JobsAre DEF TypeOK
<1>3. CASE ~swept /\ escrow >= job[w].escrow
  <2>1. escrow' = escrow - job[w].escrow /\ swept' = TRUE
    BY <1>3 DEF BookRemainder
  <2>2. escrow' \in Nat
    BY <1>2, <1>3, <2>1
  <2> QED BY <1>1, <1>2, <2>1, <2>2, QuietDone
<1>4. CASE UNCHANGED <<escrow, swept>>
  <2>1. escrow' \in Nat /\ swept' \in BOOLEAN
    BY <1>2, <1>4
  <2> QED BY <1>1, <1>2, <2>1, QuietDone
<1> QED BY <1>3, <1>4 DEF BookRemainder

LEMMA CrashKeeps ==
  ASSUME IInv, Crash
  PROVE  IInv'
<1>1. TypeOK /\ crashes' \in Nat /\ QuietRows /\ UNCHANGED <<offer, escrow, posted, swept>>
  BY DEF IInv, Crash, QuietRows, TypeOK, poolVars, moneyVars
<1>2. ASSUME NEW w \in Worker, Done(w), UNCHANGED run
      PROVE  IInv'
  <2>1. escrow' \in Nat /\ swept' \in BOOLEAN
    BY <1>1 DEF TypeOK
  <2> QED BY <1>1, <1>2, <2>1, QuietDone
<1>3. ASSUME NEW z \in Sweeper, run' = [run EXCEPT ![z] = None], UNCHANGED <<pc, job>>
      PROVE  IInv'
  <2>1. /\ run' \in [Sweeper -> {None} \cup Working] /\ run'[z] = None
        /\ \A y \in Sweeper \ {z} : run'[y] = run[y]
    BY <1>1, <1>3, SweeperMoves
  <2>2. Sweeps(z)'
    BY <2>1 DEF Sweeps
  <2> QED BY <1>1, <1>3, <2>1, <2>2, QuietSweep
<1> QED BY <1>2, <1>3 DEF Crash

LEMMA SweepListKeeps ==
  ASSUME IInv, NEW z \in Sweeper, NEW passed \in [Promoter -> 0 .. Posts], SweepList(z, passed)
  PROVE  IInv'
<1> DEFINE todo == Overdue(passed)
           r == [place |-> "claim", todo |-> todo, won |-> [q \in Promoter |-> 0],
                 promoter |-> None, seen |-> <<>>, slot |-> None]
<1>1. /\ TypeOK /\ Continue(z, r) /\ QuietRows
      /\ UNCHANGED <<offer, escrow, posted, swept, pc, job, crashes>>
  BY DEF IInv, SweepList, QuietRows, poolVars, moneyVars, missVars
<1>2. todo \in SUBSET (Promoter \X (1 .. Posts)) /\ \A e \in todo : asg[e[1]].status # None
  BY DEF Overdue
<1> HIDE DEF todo
<1>3. r \in Working
  BY <1>2, NoPosts DEF Working
<1>4. r.todo = todo /\ r.place = "claim" /\ \A q \in Promoter : r.won[q] = 0
  OBVIOUS
<1> HIDE DEF r
<1>5. /\ run' \in [Sweeper -> {None} \cup Working] /\ (run'[z] = r \/ run'[z] = None)
      /\ \A y \in Sweeper \ {z} : run'[y] = run[y]
  BY <1>1, <1>3, SweeperContinues
<1>6. Sweeps(z)'
  BY <1>1, <1>2, <1>4, <1>5 DEF Sweeps, QuietRows
<1>7. crashes' \in Nat
  BY <1>1 DEF TypeOK
<1> QED BY <1>1, <1>5, <1>6, <1>7, QuietSweep

LEMMA ReconcileReadKeeps ==
  ASSUME IInv, NEW z \in Sweeper, NEW q \in Promoter, ReconcileRead(z, q)
  PROVE  IInv'
<1>1. /\ TypeOK /\ run[z] # None /\ run[z].place = "claim" /\ run[z].won[q] > 0 /\ QuietRows
      /\ UNCHANGED <<offer, escrow, posted, swept, pc, job, crashes>>
  BY DEF IInv, ReconcileRead, QuietRows, poolVars, moneyVars, missVars
<1>2. run[z] \in Working /\ Sweeps(z) /\ Holding(q) /\ crashes' \in Nat
  BY <1>1, RunsAre DEF IInv, TypeOK
<1>3. asg[q].status # None /\ DOMAIN post[q] # {}
  BY <1>1, <1>2 DEF Sweeps, Holding
<1>4. CASE asg[q].status = "CANCELLED"
  <2> DEFINE r == [run[z] EXCEPT !.won[q] = 0]
  <2>1. Continue(z, r)
    BY <1>4 DEF ReconcileRead
  <2>2. /\ r \in Working /\ r.place = run[z].place /\ r.todo = run[z].todo
        /\ \A p \in Promoter : r.won[p] > 0 => run[z].won[p] > 0
    BY <1>2 DEF Working
  <2> HIDE DEF r
  <2>3. /\ run' \in [Sweeper -> {None} \cup Working] /\ (run'[z] = r \/ run'[z] = None)
        /\ \A y \in Sweeper \ {z} : run'[y] = run[y]
    BY <1>1, <2>1, <2>2, SweeperContinues
  <2>4. Sweeps(z)'
    BY <1>1, <1>2, <2>2, <2>3 DEF Sweeps, QuietRows
  <2> QED BY <1>1, <1>2, <2>3, <2>4, QuietSweep
<1>5. CASE asg[q].status # "CANCELLED"
  <2> DEFINE r == [run[z] EXCEPT !.place = "write", !.promoter = q, !.seen = post[q], !.slot = asg[q].slot]
  <2>1. run' = [run EXCEPT ![z] = r]
    BY <1>5 DEF ReconcileRead
  <2>2. post[q] \in Schedule /\ asg[q].slot \in {None} \cup SlotId
    BY <1>1, RowsAre
  <2>3. /\ r \in Working /\ r.todo = run[z].todo /\ r.won = run[z].won
        /\ r.promoter = q /\ r.seen = post[q] /\ r.slot = asg[q].slot
    BY <1>2, <2>2 DEF Working
  <2> HIDE DEF r
  <2>4. /\ run' \in [Sweeper -> {None} \cup Working] /\ run'[z] = r
        /\ \A y \in Sweeper \ {z} : run'[y] = run[y]
    BY <1>1, <2>1, <2>3, SweeperMoves
  <2>5. Sweeps(z)'
    BY <1>1, <1>2, <1>3, <2>3, <2>4 DEF Sweeps, QuietRows
  <2> QED BY <1>1, <1>2, <2>4, <2>5, QuietSweep
<1> QED BY <1>4, <1>5

\* A request comes to submit only while an id is left for it.
LEMMA SubmitReadKeeps ==
  ASSUME IInv, NEW w \in Worker, NEW q \in Promoter, NEW i \in 1 .. Posts, SubmitRead(w, q, i)
  PROVE  IInv'
<1> DEFINE read == [promoter |-> q, post |-> i, seen |-> post[q]]
<1>1. TypeOK /\ Goto(w, "submit", read) /\ i \in DOMAIN post[q]
  BY DEF IInv, SubmitRead, Begin, Goto
<1>2. QuietRows /\ UNCHANGED <<offer, escrow, posted, swept, crashes, run>>
  BY DEF SubmitRead, QuietRows, poolVars, moneyVars, missVars
<1>3. post[q] \in Schedule
  BY <1>1, RowsAre
<1>4. read \in ReadBySubmit /\ read.promoter = q /\ read.post = i /\ read.seen = post[q]
  BY <1>3 DEF ReadBySubmit
<1>5. "submit" \in Place /\ Carries("submit", read)
  BY <1>4 DEF Place, Carries
<1> HIDE DEF read
<1>6. pc'[w] = "submit" /\ job'[w] = read /\ \A x \in Worker \ {w} : pc'[x] = pc[x]
  BY <1>1, <1>5, WorkerMoves
<1>7. Sees(w)'
  BY <1>1, <1>2, <1>4, <1>6 DEF Sees, Reviewing, QuietRows
<1>8. Room'
  <2>1. Submitting' = Submitting \cup {w}
    BY <1>6 DEF Submitting
  <2>2. IsFiniteSet(Submitting) /\ IsFiniteSet(UnusedSubmissions)
    BY DeliveryAssumption, FS_Subset DEF Submitting, UnusedSubmissions
  <2>3. Cardinality(Submitting) \in Nat /\ Cardinality(UnusedSubmissions) \in Nat
    BY <2>2, FS_CardinalityType
  <2>4. Cardinality(UnusedSubmissions) > Cardinality(Submitting)
    BY DEF SubmitRead, Submitting
  <2>5. Cardinality(Submitting') = Cardinality(Submitting) + 1
    <3>1. w \notin Submitting
      BY DEF SubmitRead, Begin, Submitting
    <3>2. Cardinality(Submitting \cup {w}) = Cardinality(Submitting) + 1
      BY <2>2, <3>1, FS_AddElement
    <3> QED BY <2>1, <3>2
  <2>7. UnusedSubmissions' = UnusedSubmissions
    BY <1>2 DEF UnusedSubmissions, QuietRows
  <2>8. Cardinality(Submitting') <= Cardinality(UnusedSubmissions)
    BY <2>3, <2>4, <2>5
  <2> QED BY <2>7, <2>8 DEF Room
<1>9. /\ NoNewOffers /\ offer' \in [Promoter -> {None, "SENT", "ACCEPTED", "DECLINED", "EXPIRED"}]
      /\ escrow' \in Nat /\ posted' \subseteq Submission \X Attempts /\ swept' \in BOOLEAN
      /\ crashes' \in Nat
  BY <1>1, <1>2 DEF TypeOK, NoNewOffers
<1> QED BY <1>1, <1>2, <1>5, <1>7, <1>8, <1>9, RequestWithRoom

-------------------------------------------------------------------------------
(* The steps that write posts, assignments and slots *)

\* A post changes its status and its list is as long as before.
LEMMA PostMarked ==
  ASSUME TypeOK, NEW q \in Promoter, NEW i, NEW x \in PostStatus, post' = [post EXCEPT ![q][i] = x]
  PROVE  post' \in [Promoter -> Schedule] /\ \A p \in Promoter : DOMAIN post'[p] = DOMAIN post[p]
<1>1. post \in [Promoter -> Schedule]
  BY DEF TypeOK
<1>2. [post[q] EXCEPT ![i] = x] \in Schedule /\ DOMAIN [post[q] EXCEPT ![i] = x] = DOMAIN post[q]
  BY <1>1, OneMarked
<1>3. post' = [post EXCEPT ![q] = [post[q] EXCEPT ![i] = x]]
  OBVIOUS
<1> QED BY <1>1, <1>2, <1>3

\* A submission keeps its post, whatever is said of it.
SubsKept ==
  \A n \in Submission : sub[n] # None =>
    sub'[n] # None /\ sub'[n].promoter = sub[n].promoter /\ sub'[n].post = sub[n].post

\* A roll-up other than CANCELLED leaves the assignment its slot.
LEMMA RolledUp ==
  ASSUME IInv, NEW q \in Promoter, asg[q].status # None,
         NEW st \in {"IN_PROGRESS", "SUBMITTED", "PAID"}, NEW b \in BOOLEAN,
         asg' = [asg EXCEPT ![q] = [status |-> st, slot |-> asg[q].slot, stamped |-> b]],
         \A p \in Promoter : DOMAIN post'[p] = DOMAIN post[p],
         offer' = offer, noted \subseteq noted', \A p \in Promoter : Pulled(p)' <=> Pulled(p), SubsKept
  PROVE  /\ asg' \in [Promoter -> [status: {None, "IN_PROGRESS", "SUBMITTED", "PAID", "CANCELLED"},
                                   slot: {None} \cup SlotId, stamped: BOOLEAN]]
         /\ \A p \in Promoter : asg'[p].slot = asg[p].slot
         /\ Onward
         /\ \A p \in Promoter : Holding(p)'
<1>1. /\ asg \in [Promoter -> [status: {None, "IN_PROGRESS", "SUBMITTED", "PAID", "CANCELLED"},
                               slot: {None} \cup SlotId, stamped: BOOLEAN]]
      /\ asg[q].slot \in {None} \cup SlotId
  BY RowsAre DEF IInv, TypeOK
<1>2. [status |-> st, slot |-> asg[q].slot, stamped |-> b]
        \in [status: {None, "IN_PROGRESS", "SUBMITTED", "PAID", "CANCELLED"},
             slot: {None} \cup SlotId, stamped: BOOLEAN]
  BY <1>1
<1>3. asg' \in [Promoter -> [status: {None, "IN_PROGRESS", "SUBMITTED", "PAID", "CANCELLED"},
                             slot: {None} \cup SlotId, stamped: BOOLEAN]]
  BY <1>1, <1>2
<1>4. /\ asg'[q].status = st /\ asg'[q].slot = asg[q].slot
      /\ \A p \in Promoter \ {q} : asg'[p] = asg[p]
  BY <1>1
<1>5. st # None /\ st # "CANCELLED"
  BY DeliveryAssumption
<1>6. \A p \in Promoter : asg'[p].slot = asg[p].slot
  BY <1>4
<1>7. \A p \in Promoter : asg[p].status # None => asg'[p].status # None
  BY <1>4, <1>5
<1>8. Onward
  BY <1>6, <1>7 DEF Onward, SubsKept
<1>9. ASSUME NEW p \in Promoter PROVE Holding(p)'
  <2>1. Holding(p) /\ (Pulled(p)' <=> Pulled(p)) /\ offer'[p] = offer[p] /\ DOMAIN post'[p] = DOMAIN post[p]
    BY DEF IInv
  <2>2. CASE p = q
    BY <1>4, <1>5, <2>1, <2>2 DEF Holding
  <2>3. CASE p # q
    BY <1>4, <2>1, <2>3 DEF Holding
  <2> QED BY <2>2, <2>3
<1> QED BY <1>3, <1>6, <1>8, <1>9

LEMMA StillHeld ==
  ASSUME IInv, \A s \in SlotId : slot'[s].status = "FILLED" <=> slot[s].status = "FILLED",
         \A p \in Promoter : asg'[p].slot = asg[p].slot
  PROVE  Held'
BY DEF IInv, Held

LEMMA StillFits ==
  ASSUME IInv, Onward, NEW n \in Submission, sub[n] # None
  PROVE  Fits(n)'
<1>1. Fits(n) /\ sub[n].promoter \in Promoter
  BY RowsAre DEF IInv
<1>2. sub'[n].promoter = sub[n].promoter /\ sub'[n].post = sub[n].post
  BY DEF Onward
<1>3. DOMAIN post'[sub[n].promoter] = DOMAIN post[sub[n].promoter]
  BY <1>1 DEF Fits, Onward
<1> QED BY <1>1, <1>2, <1>3 DEF Fits

\* accept(): the slot it takes was nobody's.
LEMMA AcceptKeeps ==
  ASSUME IInv, NEW q \in Promoter, NEW s \in SlotId, Accept(q, s)
  PROVE  IInv'
<1> DEFINE laid == [i \in 1 .. Greatest(1, slot[s].posts) |-> "PENDING"]
           taken == [status |-> "IN_PROGRESS", slot |-> s, stamped |-> FALSE]
<1>1. /\ TypeOK /\ Held /\ Counted /\ Holding(q)
      /\ offer[q] = "SENT" /\ slot[s].status = "OPEN"
      /\ UNCHANGED <<sub, escrow, posted, swept, noted, claims, dings, crashes, pc, job, run>>
  BY DEF IInv, Accept, moneyVars, missVars
<1>2. asg[q].status = None /\ asg[q].slot = None /\ DOMAIN post[q] = {} /\ ~Pulled(q)
  BY <1>1 DEF Holding
<1>3. laid \in Schedule /\ DOMAIN laid # {}
  <2>1. slot[s].posts \in 1 .. Posts /\ "PENDING" \in PostStatus
    BY <1>1, RowsAre DEF PostStatus
  <2> QED BY <2>1, LaidOut
<1> HIDE DEF laid
<1>4. /\ post' \in [Promoter -> Schedule] /\ post'[q] = laid
      /\ \A p \in Promoter \ {q} : post'[p] = post[p]
  <2>1. post' = [post EXCEPT ![q] = laid]
    BY DEF Accept, laid
  <2> QED BY <1>1, <1>3, <2>1 DEF TypeOK
<1>5. /\ asg' \in [Promoter -> [status: {None, "IN_PROGRESS", "SUBMITTED", "PAID", "CANCELLED"},
                                slot: {None} \cup SlotId, stamped: BOOLEAN]]
      /\ asg'[q] = taken
      /\ \A p \in Promoter \ {q} : asg'[p] = asg[p]
  <2>1. asg' = [asg EXCEPT ![q] = taken]
    BY DEF Accept
  <2>2. taken \in [status: {None, "IN_PROGRESS", "SUBMITTED", "PAID", "CANCELLED"},
                   slot: {None} \cup SlotId, stamped: BOOLEAN]
    OBVIOUS
  <2> HIDE DEF taken
  <2> QED BY <1>1, <2>1, <2>2 DEF TypeOK
<1>6. /\ offer' \in [Promoter -> {None, "SENT", "ACCEPTED", "DECLINED", "EXPIRED"}]
      /\ offer'[q] = "ACCEPTED" /\ \A p \in Promoter \ {q} : offer'[p] = offer[p]
  BY <1>1 DEF Accept, TypeOK
<1>7. /\ slot' \in [SlotId -> [status: {None, "OPEN", "FILLED"}, posts: 1 .. Posts]]
      /\ slot'[s].status = "FILLED"
      /\ \A t \in SlotId \ {s} : slot'[t] = slot[t]
  BY <1>1 DEF Accept, TypeOK
<1>8. /\ campaign' \in [status: {"LIVE", "FULFILLED"}, total: Nat, filled: Nat]
      /\ campaign'.filled = campaign.filled + 1 /\ campaign'.total = campaign.total
  <2>1. campaign' = [campaign EXCEPT !.filled = campaign.filled + 1]
    BY DEF Accept
  <2>2. campaign \in [status: {"LIVE", "FULFILLED"}, total: Nat, filled: Nat]
    BY <1>1 DEF TypeOK
  <2>3. campaign.filled + 1 \in Nat
    BY <2>2
  <2> QED BY <2>1, <2>2, <2>3
<1>9. TypeOK'
  BY <1>1, <1>4, <1>5, <1>6, <1>7, <1>8 DEF TypeOK
<1>10. /\ taken.status = "IN_PROGRESS" /\ taken.slot = s
       /\ s # None /\ "IN_PROGRESS" # None /\ "ACCEPTED" # None
  BY DeliveryAssumption
<1> HIDE DEF taken
<1>11. \A p \in Promoter : Pulled(p)' <=> Pulled(p)
  BY <1>1 DEF Pulled
<1>12. Onward
  BY <1>1, <1>2, <1>4, <1>5 DEF Onward
<1>13. ASSUME NEW p \in Promoter PROVE Holding(p)'
  <2>1. CASE p = q
    BY <1>2, <1>3, <1>4, <1>5, <1>6, <1>10, <1>11, <2>1 DEF Holding
  <2>2. CASE p # q
    BY <1>4, <1>5, <1>6, <1>11, <2>2 DEF Holding, IInv
  <2> QED BY <2>1, <2>2
<1>14. Held'
  <2>1. \A p \in Promoter : asg[p].slot # s
    BY <1>1 DEF Held
  <2>2. ASSUME NEW t \in SlotId
        PROVE  slot'[t].status = "FILLED" <=> \E p \in Promoter : asg'[p].slot = t
    <3>1. CASE t = s
      BY <1>5, <1>7, <1>10, <3>1
    <3>2. CASE t # s
      <4>1. None # t
        BY DeliveryAssumption
      <4> QED BY <1>1, <1>2, <1>5, <1>7, <1>10, <3>2, <4>1 DEF Held
    <3> QED BY <3>1, <3>2
  <2>3. \A p, r \in Promoter : asg'[p].slot = asg'[r].slot /\ asg'[p].slot # None => p = r
    BY <1>1, <1>5, <1>10, <2>1 DEF Held
  <2> QED BY <2>2, <2>3 DEF Held
<1>15. Counted'
  <2>1. Filled' = Filled \cup {s} /\ s \notin Filled /\ Existing' = Existing
    <3>1. "OPEN" # None /\ "FILLED" # None
      BY DeliveryAssumption
    <3> QED BY <1>1, <1>7, <3>1 DEF Filled, Existing
  <2>2. IsFiniteSet(Filled)
    BY DeliveryAssumption, FS_Subset DEF Filled
  <2>3. Cardinality(Filled \cup {s}) = Cardinality(Filled) + 1
    BY <2>1, <2>2, FS_AddElement
  <2> QED BY <1>1, <1>8, <2>1, <2>3 DEF Counted
<1>16. \A n \in Submission : Fits(n)'
  <2>1. \A n \in Submission : sub[n] # None => Fits(n)'
    BY <1>12, StillFits
  <2> QED BY <1>1, <2>1 DEF Fits
<1>17. \A x \in Worker : Sees(x)'
  BY <1>1, <1>12, StillSees
<1>18. \A z \in Sweeper : Sweeps(z)'
  BY <1>1, <1>12, StillSweeps
<1>19. Room'
  BY <1>1, StillRoom DEF UnusedSubmissions
<1> QED BY <1>9, <1>13, <1>14, <1>15, <1>16, <1>17, <1>18, <1>19 DEF IInv

\* A request on its way to a submission finds an id for it.
LEMMA FindsAnId ==
  ASSUME IInv, NEW w \in Worker, pc[w] = "submit"
  PROVE  NextSubmission \in UnusedSubmissions
<1>1. IsFiniteSet(Submitting) /\ IsFiniteSet(UnusedSubmissions)
  BY DeliveryAssumption, FS_Subset DEF Submitting, UnusedSubmissions
<1>2. Cardinality(Submitting) \in Nat /\ Cardinality(UnusedSubmissions) \in Nat
  BY <1>1, FS_CardinalityType
<1>3. Submitting # {}
  BY DEF Submitting
<1>4. Cardinality(Submitting) # 0
  BY <1>1, <1>3, FS_EmptySet
<1>5. Cardinality(UnusedSubmissions) # 0
  BY <1>2, <1>4 DEF IInv, Room
<1> QED BY <1>5, FS_EmptySet, NextIsUnused

\* submit(): the proof is about a post its promoter has, under an id of its own.
LEMMA SubmitWriteKeeps ==
  ASSUME IInv, NEW w \in Worker, SubmitWrite(w)
  PROVE  IInv'
<1> DEFINE sched == job[w].seen
<1>1. /\ TypeOK /\ Sees(w) /\ Room /\ pc[w] = "submit" /\ Done(w)
      /\ UNCHANGED <<campaign, slot, offer, escrow, posted, swept, noted, claims, dings, crashes, run>>
  BY DEF IInv, SubmitWrite, poolVars, moneyVars, missVars
<1>2. PICK q \in Promoter : q = job[w].promoter
  BY <1>1, JobsAre
<1>3. PICK i \in 1 .. Posts : i = job[w].post
  BY <1>1, JobsAre
<1>4. sched \in Schedule /\ i \in DOMAIN sched /\ i \in DOMAIN post[q]
  BY <1>1, <1>2, <1>3, JobsAre DEF Sees
<1>5. IsFiniteSet(Submitting) /\ IsFiniteSet(UnusedSubmissions)
  BY DeliveryAssumption, FS_Subset DEF Submitting, UnusedSubmissions
<1>6. Cardinality(Submitting) \in Nat /\ Cardinality(UnusedSubmissions) \in Nat
  BY <1>5, FS_CardinalityType
<1>7. NextSubmission \in UnusedSubmissions
  BY <1>1, FindsAnId
<1>8. PICK n \in UnusedSubmissions : n = NextSubmission
  BY <1>7
<1>9. n \in Submission /\ sub[n] = None
  BY DEF UnusedSubmissions
<1> DEFINE row == [promoter |-> q, post |-> i, verdict |-> "PENDING", views |-> 0]
           st == Rollup([sched EXCEPT ![i] = "SUBMITTED"])
<1>10. /\ sub' = [sub EXCEPT ![n] = row]
       /\ post' = [post EXCEPT ![q][i] = "SUBMITTED"]
       /\ asg' = [asg EXCEPT ![q].status = st]
  BY <1>2, <1>3, <1>8 DEF SubmitWrite, NextSubmission
<1>11. row \in Proof /\ row.promoter = q /\ row.post = i
  BY DEF Proof
<1> HIDE DEF row
<1>12. /\ sub' \in [Submission -> {None} \cup Proof] /\ sub'[n] = row /\ row # None
       /\ \A m \in Submission \ {n} : sub'[m] = sub[m]
  <2>1. row # None
    BY <1>11, DeliveryAssumption
  <2> QED BY <1>1, <1>9, <1>10, <1>11, <2>1 DEF TypeOK
<1>13. SubsKept
  BY <1>9, <1>12 DEF SubsKept
<1>14. /\ post' \in [Promoter -> Schedule]
       /\ \A p \in Promoter : DOMAIN post'[p] = DOMAIN post[p]
  <2>1. "SUBMITTED" \in PostStatus
    BY DEF PostStatus
  <2> QED BY <1>1, <1>10, <2>1, PostMarked
<1>15. st \in {"IN_PROGRESS", "SUBMITTED", "PAID"}
  <2> DEFINE e == [sched EXCEPT ![i] = "SUBMITTED"]
  <2>1. e \in Schedule /\ DOMAIN e = DOMAIN sched
    BY <1>4, OneMarked DEF PostStatus
  <2>2. e[i] = "SUBMITTED"
    BY <1>4, <2>1
  <2> HIDE DEF e
  <2>3. Rollup(e) \in {"IN_PROGRESS", "SUBMITTED", "PAID"}
    BY <1>4, <2>1, <2>2, RollupIs
  <2> QED BY <2>3 DEF e
<1> HIDE DEF st
<1>16. asg[q].status # None
  BY <1>4 DEF IInv, Holding
<1>17. /\ asg[q].stamped \in BOOLEAN
       /\ asg' = [asg EXCEPT ![q] = [status |-> st, slot |-> asg[q].slot, stamped |-> asg[q].stamped]]
  <2>1. asg[q] \in [status: {None, "IN_PROGRESS", "SUBMITTED", "PAID", "CANCELLED"},
                    slot: {None} \cup SlotId, stamped: BOOLEAN]
    BY <1>1 DEF TypeOK
  <2>2. [asg[q] EXCEPT !.status = st] = [status |-> st, slot |-> asg[q].slot, stamped |-> asg[q].stamped]
    BY <2>1
  <2> QED BY <1>10, <2>1, <2>2
<1>18. (\A p \in Promoter : Pulled(p)' <=> Pulled(p)) /\ noted \subseteq noted'
  BY <1>1 DEF Pulled
<1>19. /\ asg' \in [Promoter -> [status: {None, "IN_PROGRESS", "SUBMITTED", "PAID", "CANCELLED"},
                                 slot: {None} \cup SlotId, stamped: BOOLEAN]]
       /\ Onward /\ \A p \in Promoter : asg'[p].slot = asg[p].slot /\ Holding(p)'
  BY <1>1, <1>13, <1>14, <1>15, <1>16, <1>17, <1>18, RolledUp
<1>20. /\ pc' \in [Worker -> Place] /\ DOMAIN job' = Worker
       /\ pc'[w] = "idle"
       /\ \A x \in Worker \ {w} : pc'[x] = pc[x] /\ job'[x] = job[x]
       /\ \A x \in Worker : Carries(pc'[x], job'[x])
  BY <1>1, WorkerIsDone
<1>21. TypeOK'
  BY <1>1, <1>12, <1>14, <1>19, <1>20 DEF TypeOK
<1>22. Held' /\ Counted'
  <2>1. Held'
    BY <1>1, <1>19, StillHeld
  <2> QED BY <1>1, <2>1 DEF IInv, Counted, Filled, Existing
<1>23. ASSUME NEW m \in Submission PROVE Fits(m)'
  <2>1. CASE m = n
    BY <1>4, <1>11, <1>12, <1>14, <2>1 DEF Fits
  <2>2. CASE m # n /\ sub[m] = None
    BY <1>12, <2>2 DEF Fits
  <2>3. CASE m # n /\ sub[m] # None
    BY <1>19, <2>3, StillFits
  <2> QED BY <2>1, <2>2, <2>3
<1>24. ASSUME NEW x \in Worker PROVE Sees(x)'
  <2>1. CASE x = w
    BY <1>20, <2>1 DEF Sees, Reviewing
  <2>2. CASE x # w
    BY <1>19, <1>20, <2>2, StillSees
  <2> QED BY <2>1, <2>2
<1>25. \A z \in Sweeper : Sweeps(z)'
  BY <1>1, <1>19, StillSweeps
<1>26. Room'
  <2>1. Submitting' = Submitting \ {w} /\ w \in Submitting
    BY <1>1, <1>20 DEF Submitting
  <2>2. UnusedSubmissions' = UnusedSubmissions \ {n}
    BY <1>9, <1>12 DEF UnusedSubmissions
  <2>3. Cardinality(Submitting \ {w}) = Cardinality(Submitting) - 1
    BY <1>5, <2>1, FS_RemoveElement
  <2>4. Cardinality(UnusedSubmissions \ {n}) = Cardinality(UnusedSubmissions) - 1
    BY <1>5, FS_RemoveElement
  <2>5. Cardinality(Submitting) <= Cardinality(UnusedSubmissions)
    BY <1>1 DEF Room
  <2>6. Cardinality(Submitting) - 1 <= Cardinality(UnusedSubmissions) - 1
    BY <1>6, <2>5
  <2> QED BY <2>1, <2>2, <2>3, <2>4, <2>6 DEF Room
<1> QED BY <1>19, <1>21, <1>22, <1>23, <1>24, <1>25, <1>26 DEF IInv

\* A claim marks a post and touches nothing else.
LEMMA ClaimKeeps ==
  ASSUME IInv, NEW z \in Sweeper, NEW q \in Promoter, NEW i \in 1 .. Posts, Claim(z, q, i)
  PROVE  IInv'
<1> DEFINE rest == [run[z] EXCEPT !.todo = @ \ {<<q, i>>}]
           more == [rest EXCEPT !.won[q] = @ + 1]
<1>1. /\ TypeOK /\ run[z] # None /\ run[z].place = "claim" /\ <<q, i>> \in run[z].todo
      /\ UNCHANGED <<campaign, slot, offer, asg, sub, escrow, posted, swept, noted, dings, crashes, pc, job>>
  BY DEF IInv, Claim, poolVars, moneyVars
<1>2. run[z] \in Working /\ Sweeps(z)
  BY <1>1, RunsAre DEF IInv
<1>3. asg[q].status # None
  BY <1>1, <1>2 DEF Sweeps
<1>4. /\ rest \in Working /\ rest.place = "claim" /\ rest.todo \subseteq run[z].todo
      /\ rest.won = run[z].won /\ rest.won \in [Promoter -> Nat]
  BY <1>1, <1>2 DEF Working
<1> HIDE DEF rest
<1>5. /\ more \in Working /\ more.place = "claim" /\ more.todo \subseteq run[z].todo
      /\ \A p \in Promoter : more.won[p] > 0 => p = q \/ run[z].won[p] > 0
  <2> DEFINE won == [rest.won EXCEPT ![q] = rest.won[q] + 1]
  <2>1. won \in [Promoter -> Nat] /\ \A p \in Promoter \ {q} : won[p] = run[z].won[p]
    BY <1>4
  <2>2. more = [rest EXCEPT !.won = won]
    OBVIOUS
  <2> HIDE DEF won, more
  <2>3. more \in Working /\ more.place = "claim" /\ more.todo = rest.todo /\ more.won = won
    BY <1>4, <2>1, <2>2 DEF Working
  <2> QED BY <1>4, <2>1, <2>3
<1> HIDE DEF more
<1>6. /\ post' \in [Promoter -> Schedule] /\ \A p \in Promoter : DOMAIN post'[p] = DOMAIN post[p]
      /\ claims' \in [Promoter -> Nat]
      /\ \E r \in {rest, more} : Continue(z, r)
  <2>1. CASE post[q][i] \in Submittable
    <3>1. /\ post' = [post EXCEPT ![q][i] = "MISSED"] /\ claims' = [claims EXCEPT ![q] = @ + 1]
          /\ Continue(z, more)
      BY <2>1 DEF Claim, rest, more
    <3>2. "MISSED" \in PostStatus
      BY DEF PostStatus
    <3>3. claims' \in [Promoter -> Nat]
      BY <1>1, <3>1 DEF TypeOK
    <3> QED BY <1>1, <3>1, <3>2, <3>3, PostMarked
  <2>2. CASE post[q][i] \notin Submittable
    <3>1. Continue(z, rest) /\ UNCHANGED <<post, claims>>
      BY <2>2 DEF Claim, rest
    <3> QED BY <1>1, <3>1 DEF TypeOK
  <2> QED BY <2>1, <2>2
<1>7. PICK r \in Working :
        /\ r.place = "claim" /\ r.todo \subseteq run[z].todo
        /\ \A p \in Promoter : r.won[p] > 0 => p = q \/ run[z].won[p] > 0
        /\ Continue(z, r)
  BY <1>4, <1>5, <1>6
<1>8. /\ run' \in [Sweeper -> {None} \cup Working] /\ (run'[z] = r \/ run'[z] = None)
      /\ \A y \in Sweeper \ {z} : run'[y] = run[y]
  BY <1>1, <1>7, SweeperContinues
<1>9. Sweeps(z)'
  BY <1>1, <1>2, <1>3, <1>7, <1>8 DEF Sweeps
<1>10. Onward
  BY <1>1, <1>6 DEF Onward
<1>11. TypeOK'
  BY <1>1, <1>6, <1>8 DEF TypeOK
<1>12. Held' /\ Counted'
  BY <1>1 DEF IInv, Held, Counted, Filled, Existing
<1>13. \A p \in Promoter : Holding(p)'
  BY <1>1, <1>6 DEF IInv, Holding, Pulled
<1>14. \A m \in Submission : Fits(m)'
  <2>1. \A m \in Submission : sub[m] # None => Fits(m)'
    BY <1>10, StillFits
  <2> QED BY <1>1, <2>1 DEF Fits
<1>15. \A x \in Worker : Sees(x)'
  BY <1>1, <1>10, StillSees
<1>16. \A y \in Sweeper : Sweeps(y)'
  BY <1>8, <1>9, <1>10, StillSweeps
<1>17. Room'
  BY <1>1, StillRoom DEF UnusedSubmissions
<1> QED BY <1>11, <1>12, <1>13, <1>14, <1>15, <1>16, <1>17 DEF IInv

\* What a review reads is a post its promoter has, and its verdict never cancels.
LEMMA Reviewed ==
  ASSUME IInv, NEW w \in Worker, pc[w] \in Reviewing, NEW x \in {"REJECTED", "APPROVED"},
         NEW n, n = job[w].sub
  PROVE  /\ n \in Submission /\ sub[n] # None /\ sub[n] \in Proof
         /\ sub[n].promoter \in Promoter /\ asg[sub[n].promoter].status # None
         /\ sub[n].post \in DOMAIN post[sub[n].promoter]
         /\ Rollup([job[w].seen EXCEPT ![sub[n].post] = x]) \in {"IN_PROGRESS", "SUBMITTED", "PAID"}
<1>1. TypeOK /\ Sees(w)
  BY DEF IInv
<1>2. n \in Submission /\ job[w].seen \in Schedule
  BY <1>1, JobsAre
<1>3. sub[n] # None /\ sub[n].post \in DOMAIN job[w].seen
  BY <1>1 DEF Sees
<1>4. sub[n] \in Proof /\ sub[n].promoter \in Promoter
  BY <1>1, <1>2, <1>3, RowsAre
<1>5. sub[n].post \in DOMAIN post[sub[n].promoter]
  BY <1>2, <1>3 DEF IInv, Fits
<1>6. asg[sub[n].promoter].status # None
  BY <1>4, <1>5 DEF IInv, Holding
<1> DEFINE e == [job[w].seen EXCEPT ![sub[n].post] = x]
<1>7. e \in Schedule /\ DOMAIN e = DOMAIN job[w].seen
  BY <1>2, OneMarked DEF PostStatus
<1>8. e[sub[n].post] = x /\ x # "MISSED"
  BY <1>3, <1>7
<1> HIDE DEF e
<1>9. Rollup(e) \in {"IN_PROGRESS", "SUBMITTED", "PAID"}
  BY <1>3, <1>7, <1>8, RollupIs
<1> QED BY <1>2, <1>3, <1>4, <1>5, <1>6, <1>9 DEF e

\* rejectSubmission()
LEMMA RejectWriteKeeps ==
  ASSUME IInv, NEW w \in Worker, RejectWrite(w)
  PROVE  IInv'
<1>1. /\ TypeOK /\ pc[w] = "reject" /\ Done(w)
      /\ UNCHANGED <<campaign, slot, offer, escrow, posted, swept, claims, dings, crashes, run>>
  BY DEF IInv, RejectWrite, poolVars, moneyVars, missVars
<1>2. PICK n \in Submission : n = job[w].sub
  BY <1>1, JobsAre DEF Reviewing
<1>3. CASE <<"rejected", n>> \in noted
  <2>1. QuietRows
    BY <1>1, <1>2, <1>3 DEF RejectWrite, QuietRows
  <2>2. escrow' \in Nat /\ swept' \in BOOLEAN /\ crashes' \in Nat
    BY <1>1 DEF TypeOK
  <2> QED BY <1>1, <2>1, <2>2, QuietDone
<1>4. CASE <<"rejected", n>> \notin noted
  <2>1. PICK q \in Promoter : q = sub[n].promoter
    BY <1>1, <1>2, Reviewed DEF Reviewing
  <2>2. PICK i : i = sub[n].post
    OBVIOUS
  <2> DEFINE st == Rollup([job[w].seen EXCEPT ![i] = "REJECTED"])
  <2>3. /\ sub' = [sub EXCEPT ![n].verdict = "REJECTED"]
        /\ post' = [post EXCEPT ![q][i] = "REJECTED"]
        /\ asg' = [asg EXCEPT ![q].status = st]
        /\ noted' = noted \cup {<<"rejected", n>>}
    BY <1>2, <1>4, <2>1, <2>2 DEF RejectWrite
  <2>4. sub[n] # None /\ sub[n] \in Proof /\ asg[q].status # None
    BY <1>1, <1>2, <2>1, Reviewed DEF Reviewing
  <2>5. st \in {"IN_PROGRESS", "SUBMITTED", "PAID"}
    BY <1>1, <1>2, <2>2, Reviewed DEF Reviewing
  <2> HIDE DEF st
  <2>6. /\ sub' \in [Submission -> {None} \cup Proof]
        /\ sub'[n] # None /\ sub'[n].promoter = sub[n].promoter /\ sub'[n].post = sub[n].post
        /\ \A m \in Submission \ {n} : sub'[m] = sub[m]
    <3> DEFINE r == [sub[n] EXCEPT !.verdict = "REJECTED"]
    <3>1. r \in Proof /\ r.promoter = sub[n].promoter /\ r.post = sub[n].post
      BY <2>4 DEF Proof
    <3>2. sub' = [sub EXCEPT ![n] = r]
      BY <2>3
    <3> HIDE DEF r
    <3> QED BY <1>1, <2>4, <3>1, <3>2, DeliveryAssumption DEF TypeOK
  <2>7. SubsKept /\ UnusedSubmissions' = UnusedSubmissions
    BY <2>4, <2>6 DEF SubsKept, UnusedSubmissions
  <2>8. /\ post' \in [Promoter -> Schedule]
        /\ \A p \in Promoter : DOMAIN post'[p] = DOMAIN post[p]
    <3>1. "REJECTED" \in PostStatus
      BY DEF PostStatus
    <3> QED BY <1>1, <2>3, <3>1, PostMarked
  <2>9. /\ asg[q].stamped \in BOOLEAN
        /\ asg' = [asg EXCEPT ![q] = [status |-> st, slot |-> asg[q].slot, stamped |-> asg[q].stamped]]
    <3>1. asg[q] \in [status: {None, "IN_PROGRESS", "SUBMITTED", "PAID", "CANCELLED"},
                      slot: {None} \cup SlotId, stamped: BOOLEAN]
      BY <1>1 DEF TypeOK
    <3>2. [asg[q] EXCEPT !.status = st] = [status |-> st, slot |-> asg[q].slot, stamped |-> asg[q].stamped]
      BY <3>1
    <3> QED BY <2>3, <3>1, <3>2
  <2>10. (\A p \in Promoter : Pulled(p)' <=> Pulled(p)) /\ noted \subseteq noted'
    BY <2>3 DEF Pulled
  <2>11. /\ asg' \in [Promoter -> [status: {None, "IN_PROGRESS", "SUBMITTED", "PAID", "CANCELLED"},
                                   slot: {None} \cup SlotId, stamped: BOOLEAN]]
         /\ Onward /\ \A p \in Promoter : asg'[p].slot = asg[p].slot /\ Holding(p)'
    BY <1>1, <2>4, <2>5, <2>7, <2>8, <2>9, <2>10, RolledUp
  <2>12. /\ pc' \in [Worker -> Place] /\ DOMAIN job' = Worker
         /\ pc'[w] = "idle"
         /\ \A x \in Worker \ {w} : pc'[x] = pc[x] /\ job'[x] = job[x]
         /\ \A x \in Worker : Carries(pc'[x], job'[x])
    BY <1>1, WorkerIsDone
  <2>13. TypeOK'
    BY <1>1, <2>6, <2>8, <2>11, <2>12 DEF TypeOK
  <2>14. Held' /\ Counted'
    <3>1. Held'
      BY <1>1, <2>11, StillHeld
    <3> QED BY <1>1, <3>1 DEF IInv, Counted, Filled, Existing
  <2>15. \A m \in Submission : Fits(m)'
    <3>1. \A m \in Submission : sub[m] # None => Fits(m)'
      BY <2>11, StillFits
    <3>2. \A m \in Submission : sub[m] = None => sub'[m] = None
      BY <2>4, <2>6
    <3> QED BY <3>1, <3>2 DEF Fits
  <2>16. \A x \in Worker : Sees(x)'
    <3>1. Sees(w)'
      BY <2>12 DEF Sees, Reviewing
    <3> QED BY <2>11, <2>12, <3>1, StillSees
  <2>17. \A z \in Sweeper : Sweeps(z)'
    BY <1>1, <2>11, StillSweeps
  <2>18. Room'
    BY <2>7, <2>12, StillRoom
  <2> QED BY <2>11, <2>13, <2>14, <2>15, <2>16, <2>17, <2>18 DEF IInv
<1> QED BY <1>3, <1>4

\* approveSubmission(), the commit: a reopening counts what it opens.
LEMMA CommitKeeps ==
  ASSUME IInv, NEW w \in Worker, Commit(w)
  PROVE  IInv'
<1>1. /\ TypeOK /\ pc[w] = "commit"
      /\ UNCHANGED <<offer, escrow, posted, swept, claims, dings, crashes, run>>
  BY DEF IInv, Commit, moneyVars, missVars
<1>2. PICK n \in Submission : n = job[w].sub
  BY <1>1, JobsAre DEF Reviewing
<1> DEFINE plan == job[w].plan
<1>3. CASE plan.fulfil /\ <<"fulfilled">> \in noted
  <2>1. QuietRows /\ Done(w)
    BY <1>1, <1>2, <1>3 DEF Commit, QuietRows
  <2>2. escrow' \in Nat /\ swept' \in BOOLEAN /\ crashes' \in Nat
    BY <1>1 DEF TypeOK
  <2> QED BY <1>1, <2>1, <2>2, QuietDone
<1>4. CASE ~(plan.fulfil /\ <<"fulfilled">> \in noted)
  <2>1. PICK q \in Promoter : q = sub[n].promoter
    BY <1>1, <1>2, Reviewed DEF Reviewing
  <2>2. PICK i : i = sub[n].post
    OBVIOUS
  <2> DEFINE st == Rollup([job[w].seen EXCEPT ![i] = "APPROVED"])
             b == asg[q].stamped \/ (st = "PAID" /\ ~job[w].stamped)
             told == {<<"approved", n>>} \cup (IF plan.fulfil THEN {<<"fulfilled">>} ELSE {})
             open == plan.open
             new == NewSlots(open)
  <2>3. /\ sub' = [sub EXCEPT ![n].verdict = "APPROVED", ![n].views = job[w].views]
        /\ post' = [post EXCEPT ![q][i] = "APPROVED"]
        /\ asg' = [asg EXCEPT ![q].status = st, ![q].stamped = @ \/ (st = "PAID" /\ ~job[w].stamped)]
        /\ noted' = noted \cup {<<"approved", n>>} \cup (IF plan.fulfil THEN {<<"fulfilled">>} ELSE {})
        /\ slot' = [s \in SlotId |-> IF s \in new THEN [status |-> "OPEN", posts |-> Posts] ELSE slot[s]]
        /\ campaign' = [campaign EXCEPT !.total = @ + open,
                                        !.status = IF plan.fulfil THEN "FULFILLED" ELSE @]
        /\ IF plan.fulfil /\ plan.book THEN Goto(w, "remainder", None) ELSE Done(w)
    BY <1>2, <1>4, <2>1, <2>2 DEF Commit
  <2>4. sub[n] # None /\ sub[n] \in Proof /\ asg[q].status # None
    BY <1>1, <1>2, <2>1, Reviewed DEF Reviewing
  <2>5. st \in {"IN_PROGRESS", "SUBMITTED", "PAID"}
    BY <1>1, <1>2, <2>2, Reviewed DEF Reviewing
  <2>6. job[w].views \in Views /\ open \in Nat /\ open <= Cardinality(UnusedSlots)
    BY <1>1, JobsAre DEF Reviewing, Commit
  <2>7. new \in SUBSET UnusedSlots /\ Cardinality(new) = open
    BY <2>6, NewSlotsAre
  <2> HIDE DEF st, told, open, new
  <2>8. /\ sub' \in [Submission -> {None} \cup Proof]
        /\ sub'[n] # None /\ sub'[n].promoter = sub[n].promoter /\ sub'[n].post = sub[n].post
        /\ \A m \in Submission \ {n} : sub'[m] = sub[m]
    <3> DEFINE r == [sub[n] EXCEPT !.verdict = "APPROVED", !.views = job[w].views]
    <3>1. r \in Proof /\ r.promoter = sub[n].promoter /\ r.post = sub[n].post
      BY <2>4, <2>6 DEF Proof
    <3>2. sub' = [sub EXCEPT ![n] = r]
      BY <1>1, <2>3 DEF TypeOK
    <3> HIDE DEF r
    <3> QED BY <1>1, <2>4, <3>1, <3>2, DeliveryAssumption DEF TypeOK
  <2>9. SubsKept /\ UnusedSubmissions' = UnusedSubmissions
    BY <2>4, <2>8 DEF SubsKept, UnusedSubmissions
  <2>10. /\ post' \in [Promoter -> Schedule]
         /\ \A p \in Promoter : DOMAIN post'[p] = DOMAIN post[p]
    <3>1. "APPROVED" \in PostStatus
      BY DEF PostStatus
    <3> QED BY <1>1, <2>3, <3>1, PostMarked
  <2>11. b \in BOOLEAN /\ asg' = [asg EXCEPT ![q] = [status |-> st, slot |-> asg[q].slot, stamped |-> b]]
    <3>1. asg[q] \in [status: {None, "IN_PROGRESS", "SUBMITTED", "PAID", "CANCELLED"},
                      slot: {None} \cup SlotId, stamped: BOOLEAN]
      BY <1>1 DEF TypeOK
    <3>2. b \in BOOLEAN
      OBVIOUS
    <3>3. asg' = [asg EXCEPT ![q] = [asg[q] EXCEPT !.status = st, !.stamped = b]]
      BY <1>1, <2>3 DEF TypeOK
    <3> HIDE DEF b
    <3>4. [asg[q] EXCEPT !.status = st, !.stamped = b] = [status |-> st, slot |-> asg[q].slot, stamped |-> b]
      <4> DEFINE r == [asg[q] EXCEPT !.status = st]
      <4>1. r = [status |-> st, slot |-> asg[q].slot, stamped |-> asg[q].stamped]
        BY <3>1
      <4>2. [asg[q] EXCEPT !.status = st, !.stamped = b] = [r EXCEPT !.stamped = b]
        OBVIOUS
      <4> HIDE DEF r
      <4>3. [r EXCEPT !.stamped = b] = [status |-> st, slot |-> asg[q].slot, stamped |-> b]
        BY <4>1
      <4> QED BY <4>2, <4>3
    <3> QED BY <3>2, <3>3, <3>4
  <2> HIDE DEF b
  <2>12. (\A p \in Promoter : Pulled(p)' <=> Pulled(p)) /\ noted \subseteq noted'
    BY <2>3 DEF Pulled
  <2>13. /\ asg' \in [Promoter -> [status: {None, "IN_PROGRESS", "SUBMITTED", "PAID", "CANCELLED"},
                                   slot: {None} \cup SlotId, stamped: BOOLEAN]]
         /\ Onward /\ \A p \in Promoter : asg'[p].slot = asg[p].slot /\ Holding(p)'
    BY <1>1, <2>4, <2>5, <2>9, <2>10, <2>11, <2>12, RolledUp
  <2>14. PICK place \in {"idle", "remainder"} : Goto(w, place, None)
    BY <2>3 DEF Done
  <2>15. /\ pc' \in [Worker -> Place] /\ DOMAIN job' = Worker
         /\ pc'[w] = place
         /\ \A x \in Worker \ {w} : pc'[x] = pc[x] /\ job'[x] = job[x]
         /\ \A x \in Worker : Carries(pc'[x], job'[x])
    <3>1. place \in Place /\ Carries(place, None)
      BY DEF Place, Carries
    <3> QED BY <1>1, <2>14, <3>1, WorkerMoves
  <2>16. /\ \A s \in new : s \in SlotId /\ slot[s].status = None
         /\ \A s \in new : slot'[s] = [status |-> "OPEN", posts |-> Posts]
         /\ \A s \in SlotId \ new : slot'[s] = slot[s]
    BY <2>3, <2>7 DEF UnusedSlots
  <2>17. slot' \in [SlotId -> [status: {None, "OPEN", "FILLED"}, posts: 1 .. Posts]]
    <3>1. Posts \in 1 .. Posts
      BY DeliveryAssumption
    <3>2. [status |-> "OPEN", posts |-> Posts] \in [status: {None, "OPEN", "FILLED"}, posts: 1 .. Posts]
      BY <3>1
    <3> QED BY <1>1, <2>3, <2>16, <3>2 DEF TypeOK
  <2>18. /\ campaign' \in [status: {"LIVE", "FULFILLED"}, total: Nat, filled: Nat]
         /\ campaign'.total = campaign.total + open /\ campaign'.filled = campaign.filled
    <3> DEFINE t == campaign.total + open
               c == IF plan.fulfil THEN "FULFILLED" ELSE campaign.status
    <3>1. campaign' = [campaign EXCEPT !.total = t, !.status = c]
      BY <1>1, <2>3 DEF TypeOK
    <3>2. campaign \in [status: {"LIVE", "FULFILLED"}, total: Nat, filled: Nat]
      BY <1>1 DEF TypeOK
    <3>3. t \in Nat /\ c \in {"LIVE", "FULFILLED"}
      BY <2>6, <3>2
    <3> HIDE DEF t, c
    <3>4. /\ campaign' \in [status: {"LIVE", "FULFILLED"}, total: Nat, filled: Nat]
          /\ campaign'.total = t /\ campaign'.filled = campaign.filled
      BY <3>1, <3>2, <3>3
    <3> QED BY <3>4 DEF t
  <2>19. TypeOK'
    BY <1>1, <2>8, <2>10, <2>13, <2>15, <2>17, <2>18 DEF TypeOK
  <2>20. /\ "OPEN" # None /\ "FILLED" # None /\ "OPEN" # "FILLED"
         /\ \A s \in SlotId : slot'[s].status = "FILLED" <=> slot[s].status = "FILLED"
    BY <2>16, DeliveryAssumption
  <2>21. Held'
    BY <2>13, <2>20, StillHeld
  <2>22. Counted'
    <3>1. Filled' = Filled
      BY <2>20 DEF Filled
    <3>2. Existing' = Existing \cup new /\ Existing \cap new = {}
      BY <2>16, <2>20 DEF Existing
    <3>3. IsFiniteSet(Existing) /\ IsFiniteSet(new)
      BY <2>7, DeliveryAssumption, FS_Subset DEF Existing, UnusedSlots
    <3>4. Cardinality(Existing \cup new) = Cardinality(Existing) + Cardinality(new)
      <4>1. Cardinality(Existing \cup new) = Cardinality(Existing) + Cardinality(new) - Cardinality(Existing \cap new)
        BY <3>3, FS_Union
      <4>2. Cardinality(Existing \cap new) = 0
        BY <3>2, FS_EmptySet
      <4>3. Cardinality(Existing) \in Nat /\ Cardinality(new) \in Nat
        BY <3>3, FS_CardinalityType
      <4> QED BY <4>1, <4>2, <4>3
    <3>5. campaign.total = Cardinality(Existing) /\ campaign.filled = Cardinality(Filled)
      BY DEF IInv, Counted
    <3> QED BY <2>7, <2>18, <3>1, <3>2, <3>4, <3>5 DEF Counted
  <2>23. \A m \in Submission : Fits(m)'
    <3>1. \A m \in Submission : sub[m] # None => Fits(m)'
      BY <2>13, StillFits
    <3>2. \A m \in Submission : sub[m] = None => sub'[m] = None
      BY <2>4, <2>8
    <3> QED BY <3>1, <3>2 DEF Fits
  <2>24. \A x \in Worker : Sees(x)'
    <3>1. Sees(w)'
      BY <2>15 DEF Sees, Reviewing
    <3> QED BY <2>13, <2>15, <3>1, StillSees
  <2>25. \A z \in Sweeper : Sweeps(z)'
    BY <1>1, <2>13, StillSweeps
  <2>26. Room'
    BY <2>9, <2>15, StillRoom
  <2> QED BY <2>13, <2>19, <2>21, <2>22, <2>23, <2>24, <2>25, <2>26 DEF IInv
<1> QED BY <1>3, <1>4

\* reconcileAfterMisses(): the slot it opens again is the one the assignment gives up.
LEMMA PulledKeeps ==
  ASSUME IInv, NEW q \in Promoter, NEW s \in SlotId, NEW k \in 1 .. Posts,
         asg[q].status # None, asg[q].slot = s, ~Pulled(q),
         post' = [post EXCEPT ![q] = [i \in DOMAIN @ |-> IF @[i] \in Submittable THEN "MISSED" ELSE @[i]]],
         asg' = [asg EXCEPT ![q].status = "CANCELLED", ![q].slot = None],
         slot' = [slot EXCEPT ![s] = [status |-> "OPEN", posts |-> k]],
         campaign' = [campaign EXCEPT !.filled = @ - 1],
         noted' = noted \cup {<<"cancelled", q>>}, UNCHANGED <<offer, sub>>
  PROVE  /\ campaign' \in [status: {"LIVE", "FULFILLED"}, total: Nat, filled: Nat]
         /\ slot' \in [SlotId -> [status: {None, "OPEN", "FILLED"}, posts: 1 .. Posts]]
         /\ asg' \in [Promoter -> [status: {None, "IN_PROGRESS", "SUBMITTED", "PAID", "CANCELLED"},
                                   slot: {None} \cup SlotId, stamped: BOOLEAN]]
         /\ post' \in [Promoter -> Schedule]
         /\ Onward /\ Held' /\ Counted' /\ \A p \in Promoter : Holding(p)'
<1>1. TypeOK /\ Held /\ Counted
  BY DEF IInv
<1>2. \A p \in Promoter \ {q} : asg[p].slot # s
  BY <1>1, DeliveryAssumption DEF Held
<1>3. slot[s].status = "FILLED"
  BY <1>1 DEF Held
<1> DEFINE rest == [i \in DOMAIN post[q] |-> IF post[q][i] \in Submittable THEN "MISSED" ELSE post[q][i]]
<1>4. rest \in Schedule /\ DOMAIN rest = DOMAIN post[q]
  <2>1. post[q] \in Schedule /\ \A i \in DOMAIN post[q] : post[q][i] \in PostStatus
    BY <1>1, RowsAre, Posting
  <2>2. DOMAIN rest = DOMAIN post[q] /\ rest = [i \in DOMAIN post[q] |-> rest[i]]
    OBVIOUS
  <2>3. \A i \in DOMAIN post[q] : rest[i] \in PostStatus
    BY <2>1 DEF PostStatus
  <2> HIDE DEF rest
  <2> QED BY <2>1, <2>2, <2>3, Marked
<1>5. post' \in [Promoter -> Schedule] /\ \A p \in Promoter : DOMAIN post'[p] = DOMAIN post[p]
  <2>1. post \in [Promoter -> Schedule] /\ post' = [post EXCEPT ![q] = rest]
    BY <1>1 DEF TypeOK
  <2> HIDE DEF rest
  <2> QED BY <1>4, <2>1
<1> HIDE DEF rest
<1>6. /\ asg' \in [Promoter -> [status: {None, "IN_PROGRESS", "SUBMITTED", "PAID", "CANCELLED"},
                                slot: {None} \cup SlotId, stamped: BOOLEAN]]
      /\ asg'[q].status = "CANCELLED" /\ asg'[q].slot = None
      /\ \A p \in Promoter \ {q} : asg'[p] = asg[p]
  <2> DEFINE gone == [asg[q] EXCEPT !.status = "CANCELLED", !.slot = None]
  <2>1. /\ asg \in [Promoter -> [status: {None, "IN_PROGRESS", "SUBMITTED", "PAID", "CANCELLED"},
                                 slot: {None} \cup SlotId, stamped: BOOLEAN]]
        /\ asg' = [asg EXCEPT ![q] = gone]
    BY <1>1 DEF TypeOK
  <2>2. /\ gone \in [status: {None, "IN_PROGRESS", "SUBMITTED", "PAID", "CANCELLED"},
                     slot: {None} \cup SlotId, stamped: BOOLEAN]
        /\ gone.status = "CANCELLED" /\ gone.slot = None
    BY <2>1
  <2> HIDE DEF gone
  <2> QED BY <2>1, <2>2
<1>7. /\ slot' \in [SlotId -> [status: {None, "OPEN", "FILLED"}, posts: 1 .. Posts]]
      /\ slot'[s].status = "OPEN"
      /\ \A t \in SlotId \ {s} : slot'[t] = slot[t]
  <2> DEFINE free == [status |-> "OPEN", posts |-> k]
  <2>1. /\ slot \in [SlotId -> [status: {None, "OPEN", "FILLED"}, posts: 1 .. Posts]]
        /\ slot' = [slot EXCEPT ![s] = free]
    BY <1>1 DEF TypeOK
  <2>2. free \in [status: {None, "OPEN", "FILLED"}, posts: 1 .. Posts] /\ free.status = "OPEN"
    BY <1>1
  <2> HIDE DEF free
  <2> QED BY <2>1, <2>2
<1>8. /\ "OPEN" # None /\ "FILLED" # None /\ "CANCELLED" # None /\ None \notin SlotId
  BY DeliveryAssumption
<1>9. \A p \in Promoter : (Pulled(p)' <=> Pulled(p) \/ p = q)
  BY DEF Pulled
<1>10. Onward
  BY <1>5, <1>6, <1>8, <1>9 DEF Onward
<1>11. ASSUME NEW p \in Promoter PROVE Holding(p)'
  <2>1. Holding(p) /\ offer'[p] = offer[p]
    BY DEF IInv
  <2>2. CASE p = q
    BY <1>5, <1>6, <1>8, <1>9, <2>1, <2>2 DEF Holding
  <2>3. CASE p # q
    BY <1>5, <1>6, <1>9, <2>1, <2>3 DEF Holding
  <2> QED BY <2>2, <2>3
<1>12. Held'
  <2>1. ASSUME NEW t \in SlotId
        PROVE  slot'[t].status = "FILLED" <=> \E p \in Promoter : asg'[p].slot = t
    <3>1. CASE t = s
      <4>1. \A p \in Promoter : asg'[p].slot # s
        BY <1>2, <1>6, <1>8
      <4> QED BY <1>7, <3>1, <4>1
    <3>2. CASE t # s
      <4>1. slot[t].status = "FILLED" <=> \E p \in Promoter : asg[p].slot = t
        BY <1>1 DEF Held
      <4>2. \A p \in Promoter : asg'[p].slot = t <=> asg[p].slot = t
        BY <1>6, <1>8, <3>2
      <4> QED BY <1>7, <3>2, <4>1, <4>2
    <3> QED BY <3>1, <3>2
  <2>2. \A p, r \in Promoter : asg'[p].slot = asg'[r].slot /\ asg'[p].slot # None => p = r
    BY <1>1, <1>6 DEF Held
  <2> QED BY <2>1, <2>2 DEF Held
<1>13. Filled' = Filled \ {s} /\ s \in Filled /\ Existing' = Existing
  BY <1>3, <1>7, <1>8 DEF Filled, Existing
<1>14. IsFiniteSet(Filled)
  BY DeliveryAssumption, FS_Subset DEF Filled
<1>15. Cardinality(Filled \ {s}) = Cardinality(Filled) - 1
  BY <1>13, <1>14, FS_RemoveElement
<1>16. Cardinality(Filled \ {s}) \in Nat
  BY <1>14, FS_RemoveElement, FS_CardinalityType
<1>17. /\ campaign' \in [status: {"LIVE", "FULFILLED"}, total: Nat, filled: Nat]
       /\ campaign'.filled = campaign.filled - 1 /\ campaign'.total = campaign.total
  <2>1. campaign' = [campaign EXCEPT !.filled = campaign.filled - 1]
    OBVIOUS
  <2>2. campaign \in [status: {"LIVE", "FULFILLED"}, total: Nat, filled: Nat]
    BY <1>1 DEF TypeOK
  <2>3. campaign.filled - 1 \in Nat
    BY <1>1, <1>15, <1>16 DEF Counted
  <2> QED BY <2>1, <2>2, <2>3
<1>18. Counted'
  BY <1>1, <1>13, <1>15, <1>17 DEF Counted
<1> QED BY <1>5, <1>6, <1>7, <1>10, <1>11, <1>12, <1>17, <1>18

LEMMA ReconcileWriteKeeps ==
  ASSUME IInv, NEW z \in Sweeper, ReconcileWrite(z)
  PROVE  IInv'
<1>1. /\ TypeOK /\ run[z] # None /\ run[z].place = "write"
      /\ UNCHANGED <<offer, sub, escrow, posted, swept, claims, crashes, pc, job>>
  BY DEF IInv, ReconcileWrite, moneyVars
<1>2. run[z] \in Working /\ Sweeps(z) /\ run[z].seen \in Schedule
  BY <1>1, RunsAre DEF IInv
<1>3. PICK q \in Promoter : q = run[z].promoter
  BY <1>1, <1>2 DEF Sweeps
<1> DEFINE sched == run[z].seen
           pulled == ShouldReallocate(sched)
           key == IF pulled THEN <<"cancelled", q>> ELSE <<"missed", q, Misses(sched)>>
<1>4. asg[q].status # None /\ DOMAIN sched # {} /\ (run[z].slot = asg[q].slot \/ Pulled(q))
  BY <1>1, <1>2, <1>3 DEF Sweeps
<1>5. CASE key \in noted
  <2>1. /\ run' = [run EXCEPT ![z] = None]
        /\ UNCHANGED <<asg, post, slot, campaign, dings, noted>>
    BY <1>3, <1>5 DEF ReconcileWrite
  <2>2. /\ run' \in [Sweeper -> {None} \cup Working] /\ run'[z] = None
        /\ \A y \in Sweeper \ {z} : run'[y] = run[y]
    BY <1>1, <2>1, SweeperMoves
  <2>3. Sweeps(z)'
    BY <2>2 DEF Sweeps
  <2>4. QuietRows /\ crashes' \in Nat
    BY <1>1, <2>1 DEF QuietRows, TypeOK
  <2> QED BY <1>1, <2>2, <2>3, <2>4, QuietSweep
<1>6. CASE key \notin noted
  <2> DEFINE r == [run[z] EXCEPT !.place = "claim", !.won[q] = 0, !.promoter = None,
                                 !.seen = <<>>, !.slot = None]
             won == [run[z].won EXCEPT ![q] = 0]
  <2>1. /\ noted' = noted \cup {key} /\ dings' = [dings EXCEPT ![q] = @ + run[z].won[q]]
        /\ Continue(z, r)
    BY <1>3, <1>6 DEF ReconcileWrite
  <2>2. /\ r \in Working /\ r.place = "claim" /\ r.todo = run[z].todo
        /\ \A p \in Promoter : r.won[p] > 0 => run[z].won[p] > 0
    <3>1. won \in [Promoter -> Nat] /\ \A p \in Promoter : won[p] > 0 => run[z].won[p] > 0
      BY <1>1, RunsAre
    <3>2. r = [run[z] EXCEPT !.place = "claim", !.won = won, !.promoter = None, !.seen = <<>>, !.slot = None]
      OBVIOUS
    <3> HIDE DEF won, r
    <3>3. r \in Working /\ r.place = "claim" /\ r.todo = run[z].todo /\ r.won = won
      BY <1>2, <3>1, <3>2, NoPosts DEF Working
    <3> QED BY <3>1, <3>3
  <2> HIDE DEF r, won
  <2>3. /\ run' \in [Sweeper -> {None} \cup Working] /\ (run'[z] = r \/ run'[z] = None)
        /\ \A y \in Sweeper \ {z} : run'[y] = run[y]
    BY <1>1, <2>1, <2>2, SweeperContinues
  <2>4. dings' \in [Promoter -> Nat]
    <3>1. run[z].won[q] \in Nat /\ dings \in [Promoter -> Nat]
      BY <1>1, RunsAre DEF TypeOK
    <3>2. dings[q] + run[z].won[q] \in Nat
      BY <3>1
    <3> QED BY <2>1, <3>1, <3>2
  <2>5. /\ campaign' \in [status: {"LIVE", "FULFILLED"}, total: Nat, filled: Nat]
        /\ slot' \in [SlotId -> [status: {None, "OPEN", "FILLED"}, posts: 1 .. Posts]]
        /\ asg' \in [Promoter -> [status: {None, "IN_PROGRESS", "SUBMITTED", "PAID", "CANCELLED"},
                                  slot: {None} \cup SlotId, stamped: BOOLEAN]]
        /\ post' \in [Promoter -> Schedule]
        /\ Onward /\ Held' /\ Counted' /\ \A p \in Promoter : Holding(p)'
    <3>1. CASE pulled
      <4>1. key = <<"cancelled", q>> /\ ~Pulled(q) /\ noted' = noted \cup {<<"cancelled", q>>}
        BY <1>6, <2>1, <3>1 DEF Pulled
      <4>2. run[z].slot = asg[q].slot /\ asg[q].slot # None
        BY <1>4, <4>1 DEF IInv, Holding
      <4>3. PICK s \in SlotId : s = run[z].slot
        BY <1>1, <4>2, RowsAre
      <4>4. s # None
        BY DeliveryAssumption
      <4>5. PICK k \in 1 .. Posts : k = Deficit(sched)
        <5>1. Deficit(sched) > 0
          BY <3>1 DEF ShouldReallocate
        <5>2. Deficit(sched) \in 0 .. Posts /\ Posts \in Nat
          BY <1>2, DeficitIs, DeliveryAssumption
        <5> QED BY <5>1, <5>2
      <4>6. /\ post' = [post EXCEPT ![q] =
                  [i \in DOMAIN @ |-> IF @[i] \in Submittable THEN "MISSED" ELSE @[i]]]
            /\ asg' = [asg EXCEPT ![q].status = "CANCELLED", ![q].slot = None]
            /\ slot' = [slot EXCEPT ![s] = [status |-> "OPEN", posts |-> k]]
            /\ campaign' = [campaign EXCEPT !.filled = @ - 1]
        BY <1>3, <1>6, <3>1, <4>3, <4>4, <4>5 DEF ReconcileWrite
      <4> QED BY <1>1, <1>4, <4>1, <4>2, <4>3, <4>6, PulledKeeps
    <3>2. CASE ~pulled
      <4> DEFINE st == Rollup(sched)
      <4>1. asg' = [asg EXCEPT ![q].status = st] /\ UNCHANGED <<post, slot, campaign>>
        BY <1>3, <1>6, <3>2 DEF ReconcileWrite
      <4>2. noted' = noted \cup {<<"missed", q, Misses(sched)>>}
        BY <2>1, <3>2
      <4>3. (\A p \in Promoter : Pulled(p)' <=> Pulled(p)) /\ noted \subseteq noted'
        BY <4>2 DEF Pulled
      <4>4. st \in {"IN_PROGRESS", "SUBMITTED", "PAID"}
        BY <1>2, <1>4, <3>2, RollupIs, AllMissedIsPulled
      <4> HIDE DEF st
      <4>5. /\ asg[q].stamped \in BOOLEAN
            /\ asg' = [asg EXCEPT ![q] = [status |-> st, slot |-> asg[q].slot, stamped |-> asg[q].stamped]]
        <5>1. asg[q] \in [status: {None, "IN_PROGRESS", "SUBMITTED", "PAID", "CANCELLED"},
                          slot: {None} \cup SlotId, stamped: BOOLEAN]
          BY <1>1 DEF TypeOK
        <5>2. [asg[q] EXCEPT !.status = st] = [status |-> st, slot |-> asg[q].slot, stamped |-> asg[q].stamped]
          BY <5>1
        <5> QED BY <4>1, <5>1, <5>2
      <4>6. SubsKept
        BY <1>1 DEF SubsKept
      <4>7. /\ asg' \in [Promoter -> [status: {None, "IN_PROGRESS", "SUBMITTED", "PAID", "CANCELLED"},
                                      slot: {None} \cup SlotId, stamped: BOOLEAN]]
            /\ Onward /\ \A p \in Promoter : asg'[p].slot = asg[p].slot /\ Holding(p)'
        BY <1>1, <1>4, <4>1, <4>3, <4>4, <4>5, <4>6, RolledUp
      <4>8. Held'
        BY <4>1, <4>7, StillHeld
      <4>9. Counted'
        BY <4>1 DEF IInv, Counted, Filled, Existing
      <4> QED BY <1>1, <4>1, <4>7, <4>8, <4>9 DEF TypeOK
    <3> QED BY <3>1, <3>2
  <2>6. TypeOK'
    BY <1>1, <2>3, <2>4, <2>5 DEF TypeOK
  <2>7. Sweeps(z)'
    <3>1. \A e \in r.todo : e[1] \in Promoter
      BY <2>2 DEF Working
    <3> QED BY <1>2, <1>1, <2>2, <2>3, <2>5, <3>1 DEF Sweeps, Onward
  <2>8. \A m \in Submission : Fits(m)'
    <3>1. \A m \in Submission : sub[m] # None => Fits(m)'
      BY <2>5, StillFits
    <3> QED BY <1>1, <3>1 DEF Fits
  <2>9. \A x \in Worker : Sees(x)'
    BY <1>1, <2>5, StillSees
  <2>10. \A y \in Sweeper : Sweeps(y)'
    BY <2>3, <2>5, <2>7, StillSweeps
  <2>11. Room'
    BY <1>1, StillRoom DEF UnusedSubmissions
  <2> QED BY <2>5, <2>6, <2>8, <2>9, <2>10, <2>11 DEF IInv
<1> QED BY <1>5, <1>6

-------------------------------------------------------------------------------
(* Theorem 1: the pool counts what is there *)

LEMMA InitHolds == Init => IInv
<1> SUFFICES ASSUME Init PROVE IInv
  OBVIOUS
<1>1. /\ campaign = [status |-> "LIVE", total |-> InitialSlots, filled |-> 0]
      /\ slot = [s \in SlotId |-> [status |-> IF s <= InitialSlots THEN "OPEN" ELSE None,
                                  posts |-> Posts]]
      /\ offer = [q \in Promoter |-> None]
      /\ asg = [q \in Promoter |-> [status |-> None, slot |-> None, stamped |-> FALSE]]
      /\ post = [q \in Promoter |-> <<>>]
      /\ sub = [n \in Submission |-> None]
      /\ escrow = InitialSlots * Posts * Unit /\ posted = {} /\ swept = FALSE /\ noted = {}
      /\ claims = [q \in Promoter |-> 0] /\ dings = [q \in Promoter |-> 0]
      /\ pc = [w \in Worker |-> "idle"] /\ job = [w \in Worker |-> None]
      /\ run = [z \in Sweeper |-> None] /\ crashes = 0
  BY DEF Init
<1>2. TypeOK
  <2>1. InitialSlots \in Nat /\ Posts \in Nat /\ Unit \in Nat /\ Posts \in 1 .. Posts
    BY DeliveryAssumption
  <2>2. InitialSlots * Posts \in Nat
    BY <2>1, Product
  <2>3. escrow \in Nat
    BY <1>1, <2>1, <2>2, Product
  <2>4. <<>> \in Schedule
    BY NoPosts
  <2>5. "idle" \in Place /\ Carries("idle", None)
    BY DEF Place, Carries
  <2>6. /\ pc \in [Worker -> Place] /\ DOMAIN job = Worker
        /\ \A w \in Worker : Carries(pc[w], job[w])
    BY <1>1, <2>5
  <2>7. /\ asg \in [Promoter -> [status: {None, "IN_PROGRESS", "SUBMITTED", "PAID", "CANCELLED"},
                                 slot: {None} \cup SlotId, stamped: BOOLEAN]]
        /\ post \in [Promoter -> Schedule]
    BY <1>1, <2>4
  <2>8. campaign \in [status: {"LIVE", "FULFILLED"}, total: Nat, filled: Nat]
    BY <1>1, <2>1
  <2>9. slot \in [SlotId -> [status: {None, "OPEN", "FILLED"}, posts: 1 .. Posts]]
    BY <1>1, <2>1
  <2> QED BY <1>1, <2>3, <2>6, <2>7, <2>8, <2>9 DEF TypeOK
<1>3. None \notin {"OPEN", "FILLED", "CANCELLED"} /\ None \notin SlotId
  BY DeliveryAssumption
<1>4. \A q \in Promoter : Holding(q)
  BY <1>1, <1>3, NoPosts DEF Holding, Pulled
<1>5. Held
  BY <1>1, <1>3 DEF Held
<1>6. Counted
  <2>1. Filled = {}
    BY <1>1, <1>3 DEF Filled
  <2>2. Existing = 1 .. InitialSlots
    <3>1. Existing = {s \in SlotId : s <= InitialSlots}
      BY <1>1, <1>3 DEF Existing
    <3>2. SlotId \subseteq Nat \ {0} /\ 1 .. InitialSlots \subseteq SlotId /\ InitialSlots \in Nat
      BY DeliveryAssumption
    <3>3. ASSUME NEW s \in SlotId PROVE s <= InitialSlots <=> s \in 1 .. InitialSlots
      <4>1. s \in Nat /\ s # 0
        BY <3>2
      <4> QED BY <3>2, <4>1
    <3>4. \A s \in 1 .. InitialSlots : s \in SlotId
      BY <3>2
    <3> QED BY <3>1, <3>3, <3>4
  <2>3. InitialSlots \in Nat \ {0}
    BY DeliveryAssumption
  <2>4. Cardinality(1 .. InitialSlots) = InitialSlots /\ Cardinality({}) = 0
    BY <2>3, FS_Interval, FS_EmptySet
  <2> QED BY <1>1, <2>1, <2>2, <2>4 DEF Counted
<1>7. Room
  <2>1. Submitting = {}
    BY <1>1 DEF Submitting
  <2>2. IsFiniteSet(UnusedSubmissions)
    BY DeliveryAssumption, FS_Subset DEF UnusedSubmissions
  <2>3. Cardinality(UnusedSubmissions) \in Nat /\ Cardinality({}) = 0
    BY <2>2, FS_CardinalityType, FS_EmptySet
  <2> QED BY <2>1, <2>3 DEF Room
<1>8. /\ \A n \in Submission : Fits(n)
      /\ \A w \in Worker : Sees(w)
      /\ \A z \in Sweeper : Sweeps(z)
  BY <1>1 DEF Fits, Sees, Sweeps, Reviewing
<1> QED BY <1>2, <1>4, <1>5, <1>6, <1>7, <1>8 DEF IInv

LEMMA StepHolds == IInv /\ [Next]_vars => IInv'
<1> SUFFICES ASSUME IInv, [Next]_vars PROVE IInv'
  OBVIOUS
<1>1. ASSUME NEW q \in Promoter, SendOffer(q) \/ ExpireOffer(q) PROVE IInv'
  BY <1>1, OfferKeeps
<1>2. ASSUME NEW q \in Promoter, NEW s \in SlotId, Accept(q, s) PROVE IInv'
  BY <1>2, AcceptKeeps
<1>3. ASSUME NEW w \in Worker, Continuation(w) PROVE IInv'
  BY <1>3, DeclineWriteKeeps, SubmitWriteKeeps, RejectWriteKeeps, SettleKeeps, ReadEscrowKeeps,
     DecideKeeps, CommitKeeps, ReadRemainderKeeps, BookRemainderKeeps DEF Continuation
<1>4. ASSUME NEW w \in Worker, NEW q \in Promoter, DeclineRead(w, q) PROVE IInv'
  BY <1>4, DeclineReadKeeps
<1>5. ASSUME NEW w \in Worker, NEW q \in Promoter, NEW i \in 1 .. Posts, SubmitRead(w, q, i) PROVE IInv'
  BY <1>5, SubmitReadKeeps
<1>6. ASSUME NEW w \in Worker, NEW n \in Submission, RejectRead(w, n) PROVE IInv'
  BY <1>6, RejectReadKeeps
<1>7. ASSUME NEW w \in Worker, NEW n \in Submission, NEW v \in Views, NEW k \in Attempts,
             ApproveRead(w, n, v, k)
      PROVE  IInv'
  BY <1>7, ApproveReadKeeps
<1>8. ASSUME NEW z \in Sweeper, Sweep(z) PROVE IInv'
  BY <1>8, SweepListKeeps, ReconcileWriteKeeps, ReconcileReadKeeps, ClaimKeeps DEF Sweep
<1>9. CASE Crash
  BY <1>9, CrashKeeps
<1>10. CASE UNCHANGED vars
  <2>1. /\ QuietRows /\ NoNewOffers /\ UNCHANGED <<escrow, posted, swept, crashes, pc, job, run>>
        /\ offer' = offer
    BY <1>10 DEF vars, QuietRows, NoNewOffers
  <2>2. offer' \in [Promoter -> {None, "SENT", "ACCEPTED", "DECLINED", "EXPIRED"}]
    BY <2>1 DEF IInv, TypeOK
  <2> QED BY <2>1, <2>2, QuietOffer
<1> QED BY <1>1, <1>2, <1>3, <1>4, <1>5, <1>6, <1>7, <1>8, <1>9, <1>10 DEF Next

\* The invariant says what the pool holds.
LEMMA PoolFollows == IInv => SlotsCounted
<1> SUFFICES ASSUME IInv PROVE SlotPool
  BY DEF IInv, SlotsCounted
<1>1. Held /\ Counted
  BY DEF IInv
<1>2. ASSUME NEW s \in SlotId
      PROVE  Cardinality(Holders(s)) = IF slot[s].status = "FILLED" THEN 1 ELSE 0
  <2>1. s # None
    BY DeliveryAssumption
  <2>2. CASE slot[s].status = "FILLED"
    <3>1. PICK q \in Promoter : asg[q].slot = s
      BY <1>1, <2>2 DEF Held
    <3>2. Holders(s) = {q}
      BY <1>1, <2>1, <3>1 DEF Held, Holders
    <3> QED BY <2>2, <3>2, FS_Singleton
  <2>3. CASE slot[s].status # "FILLED"
    <3>1. Holders(s) = {}
      BY <1>1, <2>3 DEF Held, Holders
    <3> QED BY <2>3, <3>1, FS_EmptySet
  <2> QED BY <2>2, <2>3
<1>3. \A q \in Promoter : asg[q].status = "CANCELLED" => asg[q].slot = None
  BY DeliveryAssumption DEF IInv, Holding
<1> QED BY <1>1, <1>2, <1>3 DEF SlotPool, Counted, Filled, Existing

LEMMA Invariant == Spec => []IInv
BY InitHolds, StepHolds, PTL DEF Spec

\* However requests, sweeps and deaths overlap, a slot of the pool is FILLED exactly
\* when one assignment holds it, a cancelled assignment holds none, slots_filled and
\* slots_total count what is there, and every record keeps its shape: for any number
\* of promoters, slots, posts, requests, sweepers and deaths (accept(), approve(),
\* reconcileAfterMisses()).
THEOREM SlotsAlwaysCounted == Spec => []SlotsCounted
BY Invariant, PoolFollows, PTL

-------------------------------------------------------------------------------
(* Theorem 2: an approved submission was paid *)

\* Whoever is past the payout has its key in the ledger.
Paying == {"economics", "decide", "commit"}
PaidFirst == \A w \in Worker : pc[w] \in Paying => <<job[w].sub, job[w].attempt>> \in posted
PaidInv == PaidFirst /\ ApprovedIsPaid

\* Nothing leaves the ledger, no request comes to be past its payout without one, and
\* no other step approves.
LEMMA PaidKept ==
  ASSUME PaidInv, posted \subseteq posted',
         \A x \in Worker : pc'[x] \in Paying =>
           \/ pc[x] \in Paying /\ job'[x].sub = job[x].sub /\ job'[x].attempt = job[x].attempt
           \/ <<job'[x].sub, job'[x].attempt>> \in posted',
         \A n \in Submission : sub'[n] # None /\ sub'[n].verdict = "APPROVED" =>
           \/ sub[n] # None /\ sub[n].verdict = "APPROVED"
           \/ \E k \in Attempts : <<n, k>> \in posted'
  PROVE  PaidInv'
<1>1. PaidFirst'
  BY DEF PaidInv, PaidFirst
<1>2. ApprovedIsPaid'
  BY DEF PaidInv, ApprovedIsPaid
<1> QED BY <1>1, <1>2 DEF PaidInv

\* A request that goes somewhere past its payout carries the key it had.
LEMMA PaidMoves ==
  ASSUME IInv, PaidInv, NEW w \in Worker, NEW place \in Place, NEW read, Goto(w, place, read),
         place \in Paying => \/ pc[w] \in Paying /\ read.sub = job[w].sub /\ read.attempt = job[w].attempt
                             \/ <<read.sub, read.attempt>> \in posted',
         posted \subseteq posted',
         \A n \in Submission : sub'[n] # None /\ sub'[n].verdict = "APPROVED" =>
           \/ sub[n] # None /\ sub[n].verdict = "APPROVED"
           \/ \E k \in Attempts : <<n, k>> \in posted'
  PROVE  PaidInv'
<1>1. /\ pc'[w] = place /\ job'[w] = read
      /\ \A x \in Worker \ {w} : pc'[x] = pc[x] /\ job'[x] = job[x]
  BY DEF IInv, TypeOK, Goto
<1>2. \A x \in Worker : pc'[x] \in Paying =>
         \/ pc[x] \in Paying /\ job'[x].sub = job[x].sub /\ job'[x].attempt = job[x].attempt
         \/ <<job'[x].sub, job'[x].attempt>> \in posted'
  BY <1>1
<1> QED BY <1>2, PaidKept

\* And one that ends or does something else carries none.
LEMMA PaidElsewhere ==
  ASSUME IInv, PaidInv, NEW w \in Worker, NEW place \in Place \ Paying, NEW read, Goto(w, place, read),
         UNCHANGED <<posted, sub>>
  PROVE  PaidInv'
BY PaidMoves

LEMMA RequestPays ==
  ASSUME IInv, PaidInv, NEW w \in Worker, Continuation(w)
  PROVE  PaidInv'
<1>1. TypeOK
  BY DEF IInv
<1>2. "idle" \in Place \ Paying /\ "remainder" \in Place \ Paying /\ "book" \in Place \ Paying
  BY DEF Place, Paying
<1>3. CASE DeclineWrite(w)
  <2>1. Goto(w, "idle", None) /\ UNCHANGED <<posted, sub>>
    BY <1>3 DEF DeclineWrite, Done, moneyVars
  <2> QED BY <1>2, <2>1, PaidElsewhere
<1>4. CASE SubmitWrite(w)
  <2>1. PICK n : \E q, i : sub' = [sub EXCEPT ![n] = [promoter |-> q, post |-> i, verdict |-> "PENDING", views |-> 0]]
    BY <1>4 DEF SubmitWrite
  <2>2. PICK q, i : sub' = [sub EXCEPT ![n] = [promoter |-> q, post |-> i, verdict |-> "PENDING", views |-> 0]]
    BY <2>1
  <2>3. \A m \in Submission : sub'[m] # None /\ sub'[m].verdict = "APPROVED" =>
           sub[m] # None /\ sub[m].verdict = "APPROVED"
    BY <1>1, <2>2 DEF TypeOK
  <2>4. Goto(w, "idle", None) /\ posted' = posted
    BY <1>4 DEF SubmitWrite, Done, moneyVars
  <2> QED BY <1>2, <2>3, <2>4, PaidMoves
<1>5. CASE RejectWrite(w)
  <2>1. Goto(w, "idle", None) /\ posted' = posted
    BY <1>5 DEF RejectWrite, Done, moneyVars
  <2>2. PICK n \in Submission : n = job[w].sub
    BY <1>1, <1>5, JobsAre DEF RejectWrite, Reviewing
  <2>3. sub[n] \in Proof
    BY <1>5, <2>2, Reviewed DEF RejectWrite, Reviewing
  <2>4. sub' = sub \/ sub' = [sub EXCEPT ![n].verdict = "REJECTED"]
    BY <1>5, <2>2 DEF RejectWrite
  <2>5. \A m \in Submission : sub'[m] # None /\ sub'[m].verdict = "APPROVED" =>
           sub[m] # None /\ sub[m].verdict = "APPROVED"
    <3>1. CASE sub' = sub
      BY <3>1
    <3>2. CASE sub' = [sub EXCEPT ![n].verdict = "REJECTED"]
      <4> DEFINE r == [sub[n] EXCEPT !.verdict = "REJECTED"]
      <4>1. r.verdict = "REJECTED" /\ sub' = [sub EXCEPT ![n] = r]
        BY <2>3, <3>2 DEF Proof
      <4> HIDE DEF r
      <4> QED BY <1>1, <4>1 DEF TypeOK
    <3> QED BY <2>4, <3>1, <3>2
  <2> QED BY <1>2, <2>1, <2>5, PaidMoves
<1>6. CASE Settle(w)
  <2> DEFINE key == <<job[w].sub, job[w].attempt>>
  <2>1. sub' = sub /\ pc[w] = "settle"
    BY <1>6 DEF Settle
  <2>2. CASE Done(w) /\ posted' = posted
    <3>1. Goto(w, "idle", None)
      BY <2>2 DEF Done
    <3> QED BY <1>2, <2>1, <2>2, <3>1, PaidElsewhere
  <2>3. CASE Goto(w, "economics", job[w]) /\ posted' = posted \cup {key}
    <3>1. "economics" \in Place /\ key \in posted' /\ posted \subseteq posted'
      BY <2>3 DEF Place
    <3> QED BY <2>1, <2>3, <3>1, PaidMoves
  <2> QED BY <1>6, <2>2, <2>3 DEF Settle
<1>7. CASE ReadEscrow(w)
  <2>1. /\ pc[w] = "economics" /\ Goto(w, "decide", [job[w] EXCEPT !.escrow = escrow])
        /\ UNCHANGED <<posted, sub>>
    BY <1>7 DEF ReadEscrow, moneyVars
  <2>2. job[w] \in ReadByApprove
    BY <1>1, <2>1, JobsAre DEF Reviewing
  <2> DEFINE read == [job[w] EXCEPT !.escrow = escrow]
  <2>3. read.sub = job[w].sub /\ read.attempt = job[w].attempt
    BY <2>2 DEF ReadByApprove
  <2> HIDE DEF read
  <2>4. pc[w] \in Paying /\ "decide" \in Place /\ Goto(w, "decide", read)
    BY <2>1 DEF Paying, Place, read
  <2> QED BY <2>1, <2>3, <2>4, PaidMoves
<1>8. CASE Decide(w)
  <2> DEFINE read == [job[w] EXCEPT !.plan = Conclusion(w)]
  <2>1. /\ pc[w] = "decide" /\ UNCHANGED <<posted, sub>>
        /\ Goto(w, "idle", None) \/ Goto(w, "commit", read)
    BY <1>8 DEF Decide, Done, moneyVars
  <2>2. job[w] \in ReadByApprove
    BY <1>1, <2>1, JobsAre DEF Reviewing
  <2>3. read.sub = job[w].sub /\ read.attempt = job[w].attempt
    BY <2>2 DEF ReadByApprove
  <2> HIDE DEF read
  <2>4. pc[w] \in Paying /\ "commit" \in Place
    BY <2>1 DEF Paying, Place
  <2>5. CASE Goto(w, "idle", None)
    BY <1>2, <2>1, <2>5, PaidElsewhere
  <2>6. CASE Goto(w, "commit", read)
    BY <2>1, <2>3, <2>4, <2>6, PaidMoves
  <2> QED BY <2>1, <2>5, <2>6
<1>9. CASE Commit(w)
  <2>1. pc[w] = "commit" /\ posted' = posted
    BY <1>9 DEF Commit, moneyVars
  <2>2. PICK n \in Submission : n = job[w].sub
    BY <1>1, <2>1, JobsAre DEF Reviewing
  <2>3. PICK place \in {"idle", "remainder"} : Goto(w, place, None)
    BY <1>9 DEF Commit, Done
  <2>4. job[w].attempt \in Attempts /\ <<n, job[w].attempt>> \in posted
    BY <1>1, <2>1, <2>2, JobsAre DEF Reviewing, PaidInv, PaidFirst, Paying
  <2>5. sub' = sub \/ sub' = [sub EXCEPT ![n].verdict = "APPROVED", ![n].views = job[w].views]
    BY <1>9, <2>2 DEF Commit
  <2>6. \A m \in Submission \ {n} : sub'[m] = sub[m]
    BY <1>1, <2>5 DEF TypeOK
  <2>7. \A m \in Submission : sub'[m] # None /\ sub'[m].verdict = "APPROVED" =>
           \/ sub[m] # None /\ sub[m].verdict = "APPROVED"
           \/ \E k \in Attempts : <<m, k>> \in posted'
    BY <2>1, <2>4, <2>6
  <2> QED BY <1>2, <2>1, <2>3, <2>7, PaidMoves
<1>10. CASE ReadRemainder(w)
  <2>1. /\ UNCHANGED <<posted, sub>>
        /\ Goto(w, "book", [escrow |-> escrow]) \/ Goto(w, "idle", None)
    BY <1>10 DEF ReadRemainder, Done, moneyVars
  <2> QED BY <1>2, <2>1, PaidElsewhere
<1>11. CASE BookRemainder(w)
  <2>1. Goto(w, "idle", None) /\ UNCHANGED <<posted, sub>>
    BY <1>11 DEF BookRemainder, Done
  <2> QED BY <1>2, <2>1, PaidElsewhere
<1> QED BY <1>3, <1>4, <1>5, <1>6, <1>7, <1>8, <1>9, <1>10, <1>11 DEF Continuation

LEMMA RequestBegins ==
  ASSUME IInv, PaidInv, NEW w \in Worker, NEW place \in {"decline", "submit", "reject", "settle"},
         NEW read, Begin(w, place, read), UNCHANGED <<posted, sub>>
  PROVE  PaidInv'
<1>1. place \in Place \ Paying /\ Goto(w, place, read)
  BY DEF Place, Paying, Begin, Goto
<1> QED BY <1>1, PaidElsewhere

LEMMA InitPays == Init => PaidInv
BY DEF Init, PaidInv, PaidFirst, ApprovedIsPaid, Paying

LEMMA StepPays == IInv /\ PaidInv /\ [Next]_vars => PaidInv'
<1> SUFFICES ASSUME IInv, PaidInv, [Next]_vars PROVE PaidInv'
  OBVIOUS
<1>1. ASSUME UNCHANGED <<posted, sub, pc, job>> PROVE PaidInv'
  BY <1>1, PaidKept
<1>2. ASSUME NEW q \in Promoter, SendOffer(q) \/ ExpireOffer(q) PROVE PaidInv'
  BY <1>1, <1>2 DEF SendOffer, ExpireOffer, moneyVars
<1>3. ASSUME NEW q \in Promoter, NEW s \in SlotId, Accept(q, s) PROVE PaidInv'
  BY <1>1, <1>3 DEF Accept, moneyVars
<1>4. ASSUME NEW w \in Worker, Continuation(w) PROVE PaidInv'
  BY <1>4, RequestPays
<1>5. ASSUME NEW w \in Worker, NEW q \in Promoter, DeclineRead(w, q) PROVE PaidInv'
  <2>1. Begin(w, "decline", [promoter |-> q]) /\ UNCHANGED <<posted, sub>>
    BY <1>5 DEF DeclineRead, moneyVars
  <2> QED BY <2>1, RequestBegins
<1>6. ASSUME NEW w \in Worker, NEW q \in Promoter, NEW i \in 1 .. Posts, SubmitRead(w, q, i)
      PROVE  PaidInv'
  <2>1. Begin(w, "submit", [promoter |-> q, post |-> i, seen |-> post[q]]) /\ UNCHANGED <<posted, sub>>
    BY <1>6 DEF SubmitRead, moneyVars
  <2> QED BY <2>1, RequestBegins
<1>7. ASSUME NEW w \in Worker, NEW n \in Submission, RejectRead(w, n) PROVE PaidInv'
  <2>1. Begin(w, "reject", [sub |-> n, seen |-> post[sub[n].promoter]]) /\ UNCHANGED <<posted, sub>>
    BY <1>7 DEF RejectRead, moneyVars
  <2> QED BY <2>1, RequestBegins
<1>8. ASSUME NEW w \in Worker, NEW n \in Submission, NEW v \in Views, NEW k \in Attempts,
             ApproveRead(w, n, v, k)
      PROVE  PaidInv'
  <2>1. Begin(w, "settle", ReadToApprove(n, v, k)) /\ UNCHANGED <<posted, sub>>
    BY <1>8 DEF ApproveRead, moneyVars
  <2> QED BY <2>1, RequestBegins
<1>9. ASSUME NEW z \in Sweeper, Sweep(z) PROVE PaidInv'
  BY <1>1, <1>9 DEF Sweep, SweepList, ReconcileWrite, ReconcileRead, Claim, moneyVars
<1>10. CASE Crash
  <2>1. UNCHANGED <<posted, sub>>
    BY <1>10 DEF Crash, moneyVars
  <2>2. ASSUME NEW w \in Worker, Done(w) PROVE PaidInv'
    <3>1. "idle" \in Place \ Paying /\ Goto(w, "idle", None)
      BY <2>2 DEF Place, Paying, Done
    <3> QED BY <2>1, <3>1, PaidElsewhere
  <2>3. ASSUME UNCHANGED <<pc, job>> PROVE PaidInv'
    BY <1>1, <2>1, <2>3
  <2> QED BY <1>10, <2>2, <2>3 DEF Crash
<1>11. CASE UNCHANGED vars
  BY <1>1, <1>11 DEF vars
<1> QED BY <1>2, <1>3, <1>4, <1>5, <1>6, <1>7, <1>8, <1>9, <1>10, <1>11 DEF Next

\* No submission says APPROVED whose payout is not in the ledger, whatever raced with
\* the approval and whoever died in it: for any number of requests, submissions and
\* idempotency keys (approveSubmission()).
THEOREM ApprovedAlwaysPaid == Spec => []ApprovedIsPaid
<1>1. PaidInv => ApprovedIsPaid
  BY DEF PaidInv
<1> QED BY <1>1, InitPays, StepPays, Invariant, PTL DEF Spec

-------------------------------------------------------------------------------
(* Theorem 3: a missed post is dinged at most once *)

\* What each sweeper has won of a promoter's posts and not dealt with.
Has(z, q) == IF run[z] = None THEN 0 ELSE run[z].won[q]
Pending(q) == [z \in Sweeper |-> Has(z, q)]
Dinged(q) == dings[q] + SumFunctionOnSet(Pending(q), Sweeper) <= claims[q]
DingInv == \A q \in Promoter : Dinged(q)

LEMMA HasIsNat ==
  ASSUME TypeOK, NEW z \in Sweeper, NEW q \in Promoter
  PROVE  Has(z, q) \in Nat
<1>1. CASE run[z] = None
  BY <1>1 DEF Has
<1>2. CASE run[z] # None
  <2>1. run[z].won \in [Promoter -> Nat]
    BY <1>2, RunsAre
  <2> QED BY <1>2, <2>1 DEF Has
<1> QED BY <1>1, <1>2

\* Sweepers that hold nothing count for nothing.
LEMMA DingFollows == TypeOK /\ DingInv => DingedOnce
<1> SUFFICES ASSUME TypeOK, DingInv, NEW q \in Promoter
             PROVE  LET working == {z \in Sweeper : run[z] # None}
                    IN  dings[q] + SumFunctionOnSet([z \in working |-> run[z].won[q]], working) <= claims[q]
  BY DEF DingedOnce
<1> DEFINE working == {z \in Sweeper : run[z] # None}
           resting == {z \in Sweeper : run[z] = None}
           f == [z \in working |-> run[z].won[q]]
           e == Pending(q)
<1>1. IsFiniteSet(working) /\ IsFiniteSet(resting) /\ working \cup resting = Sweeper /\ working \cap resting = {}
  BY DeliveryAssumption, FS_Subset
<1>2. /\ \A z \in working : f[z] = e[z] /\ z \in Sweeper
      /\ \A z \in resting : e[z] = 0
      /\ \A z \in Sweeper : e[z] \in Int
  BY HasIsNat DEF Pending, Has
<1>3. dings[q] + SumFunctionOnSet(e, Sweeper) <= claims[q]
  BY DEF DingInv, Dinged
<1>4. dings[q] \in Int /\ claims[q] \in Int
  BY DEF TypeOK
<1> HIDE DEF working, resting, f, e
<1>5. SumFunctionOnSet(f, working) = SumFunctionOnSet(e, working)
  BY <1>1, <1>2, SumSame
<1>6. SumFunctionOnSet(e, resting) = 0
  BY <1>1, <1>2, SumOfZeros
<1>7. SumFunctionOnSet(e, working \cup resting) = SumFunctionOnSet(e, working) + SumFunctionOnSet(e, resting)
  <2>1. \A z \in working \cup resting : e[z] \in Int
    BY <1>1, <1>2
  <2> QED BY <1>1, <2>1, SumSplit
<1>8. SumFunctionOnSet(e, working) \in Int
  BY <1>1, <1>2, SumIsInt
<1>9. dings[q] + SumFunctionOnSet(f, working) <= claims[q]
  <2>1. SumFunctionOnSet(e, Sweeper) = SumFunctionOnSet(e, working \cup resting)
    BY <1>1
  <2>2. SumFunctionOnSet(e, Sweeper) = SumFunctionOnSet(e, working)
    BY <1>6, <1>7, <1>8, <2>1
  <2> QED BY <1>3, <1>5, <2>2
<1> QED BY <1>9 DEF f, working

\* A step that adds no more to one sweeper's posts and the dings together than to the
\* claims keeps the count.
LEMMA DingMoves ==
  ASSUME IInv, IInv', DingInv, NEW z \in Sweeper, \A y \in Sweeper \ {z} : run'[y] = run[y],
         \A q \in Promoter : dings'[q] + Has(z, q)' + claims[q] <= dings[q] + Has(z, q) + claims'[q]
  PROVE  DingInv'
<1> SUFFICES ASSUME NEW q \in Promoter PROVE Dinged(q)'
  BY DEF DingInv
<1> DEFINE f == Pending(q)
           e == Pending(q)'
           was == Has(z, q)
           is == Has(z, q)'
<1>1. IsFiniteSet(Sweeper)
  BY DeliveryAssumption
<1>2. TypeOK /\ TypeOK'
  BY DEF IInv
<1>3. \A y \in Sweeper : Has(y, q) \in Nat
  BY <1>2, HasIsNat
<1>4. \A y \in Sweeper : Has(y, q)' \in Nat
  <2> SUFFICES ASSUME NEW y \in Sweeper PROVE Has(y, q)' \in Nat
    OBVIOUS
  <2>1. CASE run'[y] = None
    BY <2>1 DEF Has
  <2>2. CASE run'[y] # None
    <3>1. run'[y] \in Working
      BY <1>2, <2>2 DEF TypeOK
    <3>2. run'[y].won \in [Promoter -> Nat]
      BY <3>1 DEF Working
    <3> QED BY <2>2, <3>2 DEF Has
  <2> QED BY <2>1, <2>2
<1>5. /\ \A y \in Sweeper : f[y] \in Int /\ e[y] \in Int
      /\ f[z] = was /\ e[z] = is
      /\ \A y \in Sweeper \ {z} : f[y] = e[y]
  BY <1>3, <1>4 DEF Pending, Has
<1>6. was \in Int /\ is \in Int
  BY <1>3, <1>4
<1>7. dings[q] \in Int /\ claims[q] \in Int /\ dings'[q] \in Int /\ claims'[q] \in Int
  BY <1>2 DEF TypeOK
<1>8. dings[q] + SumFunctionOnSet(f, Sweeper) <= claims[q]
  BY DEF DingInv, Dinged
<1>9. dings'[q] + is + claims[q] <= dings[q] + was + claims'[q]
  OBVIOUS
<1> HIDE DEF f, e, was, is
<1>10. SumFunctionOnSet(e, Sweeper) = SumFunctionOnSet(f, Sweeper) + (is - was)
  BY <1>1, <1>5, SumChanged
<1>11. SumFunctionOnSet(f, Sweeper) \in Int
  BY <1>1, <1>5, SumIsInt
<1>12. dings'[q] + SumFunctionOnSet(e, Sweeper) <= claims'[q]
  BY <1>6, <1>7, <1>8, <1>9, <1>10, <1>11
<1> QED BY <1>12 DEF e, Dinged

LEMMA DingSame ==
  ASSUME DingInv, UNCHANGED <<run, dings, claims>>
  PROVE  DingInv'
BY DEF DingInv, Dinged, Pending, Has

\* What a sweeper has after it went on with r.
LEMMA HasNow ==
  ASSUME TypeOK, NEW z \in Sweeper, NEW r \in Working, Continue(z, r)
  PROVE  /\ \A q \in Promoter : Has(z, q)' = r.won[q]
         /\ \A y \in Sweeper \ {z} : run'[y] = run[y]
<1>1. /\ run'[z] = r \/ (run'[z] = None /\ \A q \in Promoter : r.won[q] = 0)
      /\ \A y \in Sweeper \ {z} : run'[y] = run[y]
  BY SweeperContinues
<1>2. r # None
  BY DeliveryAssumption
<1> QED BY <1>1, <1>2 DEF Has

\* A sweeper that stops or dies has nothing any more.
LEMMA DingDropped ==
  ASSUME IInv, IInv', DingInv, NEW z \in Sweeper, run' = [run EXCEPT ![z] = None],
         UNCHANGED <<dings, claims>>
  PROVE  DingInv'
<1>1. run'[z] = None /\ \A y \in Sweeper \ {z} : run'[y] = run[y]
  BY DEF IInv, TypeOK
<1>2. ASSUME NEW q \in Promoter
      PROVE  dings'[q] + Has(z, q)' + claims[q] <= dings[q] + Has(z, q) + claims'[q]
  <2>1. Has(z, q)' = 0
    BY <1>1 DEF Has
  <2>2. Has(z, q) \in Nat /\ dings[q] \in Nat /\ claims[q] \in Nat
    BY HasIsNat DEF IInv, TypeOK
  <2> QED BY <2>1, <2>2
<1> QED BY <1>1, <1>2, DingMoves

LEMMA ClaimDings ==
  ASSUME IInv, IInv', DingInv, NEW z \in Sweeper, NEW q \in Promoter, NEW i \in 1 .. Posts,
         Claim(z, q, i)
  PROVE  DingInv'
<1> DEFINE rest == [run[z] EXCEPT !.todo = @ \ {<<q, i>>}]
           won == [run[z].won EXCEPT ![q] = run[z].won[q] + 1]
           more == [rest EXCEPT !.won = won]
<1>1. TypeOK /\ run[z] # None /\ dings' = dings
  BY DEF IInv, Claim
<1>2. run[z] \in Working /\ run[z].won \in [Promoter -> Nat]
  BY <1>1, RunsAre
<1>3. rest \in Working /\ rest.won = run[z].won
  BY <1>2 DEF Working
<1>4. \A p \in Promoter : Has(z, p) = run[z].won[p] /\ run[z].won[p] \in Nat
  BY <1>1, <1>2 DEF Has
<1>5. /\ won \in [Promoter -> Nat] /\ won[q] = run[z].won[q] + 1
      /\ \A p \in Promoter \ {q} : won[p] = run[z].won[p]
  BY <1>2
<1>6. dings \in [Promoter -> Nat] /\ claims \in [Promoter -> Nat]
  BY <1>1 DEF TypeOK
<1>7. CASE post[q][i] \in Submittable
  <2>1. claims' = [claims EXCEPT ![q] = @ + 1] /\ Continue(z, more)
    BY <1>3, <1>7 DEF Claim
  <2> HIDE DEF rest, won
  <2>2. more \in Working /\ more.won = won
    BY <1>3, <1>5 DEF Working
  <2> HIDE DEF more
  <2>3. /\ \A p \in Promoter : Has(z, p)' = won[p]
        /\ \A y \in Sweeper \ {z} : run'[y] = run[y]
    BY <1>1, <2>1, <2>2, HasNow
  <2>4. ASSUME NEW p \in Promoter
        PROVE  dings'[p] + Has(z, p)' + claims[p] <= dings[p] + Has(z, p) + claims'[p]
    <3>1. dings[p] \in Nat /\ claims[p] \in Nat /\ run[z].won[p] \in Nat
      BY <1>4, <1>6
    <3>2. CASE p = q
      <4>1. claims'[p] = claims[p] + 1 /\ Has(z, p)' = run[z].won[p] + 1 /\ Has(z, p) = run[z].won[p]
        BY <1>4, <1>5, <1>6, <2>1, <2>3, <3>2
      <4> QED BY <1>1, <3>1, <4>1
    <3>3. CASE p # q
      <4>1. claims'[p] = claims[p] /\ Has(z, p)' = run[z].won[p] /\ Has(z, p) = run[z].won[p]
        BY <1>4, <1>5, <1>6, <2>1, <2>3, <3>3
      <4> QED BY <1>1, <3>1, <4>1
    <3> QED BY <3>2, <3>3
  <2> QED BY <2>3, <2>4, DingMoves
<1>8. CASE post[q][i] \notin Submittable
  <2>1. claims' = claims /\ Continue(z, rest)
    BY <1>8 DEF Claim
  <2> HIDE DEF rest
  <2>2. /\ \A p \in Promoter : Has(z, p)' = run[z].won[p]
        /\ \A y \in Sweeper \ {z} : run'[y] = run[y]
    BY <1>1, <1>3, <2>1, HasNow
  <2>3. ASSUME NEW p \in Promoter
        PROVE  dings'[p] + Has(z, p)' + claims[p] <= dings[p] + Has(z, p) + claims'[p]
    <3>1. dings[p] \in Nat /\ claims[p] \in Nat /\ run[z].won[p] \in Nat
      BY <1>4, <1>6
    <3>2. Has(z, p)' = run[z].won[p] /\ Has(z, p) = run[z].won[p]
      BY <1>4, <2>2
    <3> QED BY <1>1, <2>1, <3>1, <3>2
  <2> QED BY <2>2, <2>3, DingMoves
<1> QED BY <1>7, <1>8

LEMMA ReconcileReadDings ==
  ASSUME IInv, IInv', DingInv, NEW z \in Sweeper, NEW q \in Promoter, ReconcileRead(z, q)
  PROVE  DingInv'
<1>1. TypeOK /\ run[z] # None /\ UNCHANGED <<dings, claims>>
  BY DEF IInv, ReconcileRead, missVars
<1>2. run[z] \in Working /\ run[z].won \in [Promoter -> Nat]
  BY <1>1, RunsAre
<1>3. \A p \in Promoter : Has(z, p) = run[z].won[p] /\ run[z].won[p] \in Nat
  BY <1>1, <1>2 DEF Has
<1>4. dings \in [Promoter -> Nat] /\ claims \in [Promoter -> Nat]
  BY <1>1 DEF TypeOK
<1>5. /\ \A p \in Promoter : Has(z, p)' \in {0, run[z].won[p]}
      /\ \A y \in Sweeper \ {z} : run'[y] = run[y]
  <2>1. CASE asg[q].status = "CANCELLED"
    <3> DEFINE won == [run[z].won EXCEPT ![q] = 0]
               r == [run[z] EXCEPT !.won = won]
    <3>1. Continue(z, r)
      BY <2>1 DEF ReconcileRead
    <3>2. won \in [Promoter -> Nat] /\ \A p \in Promoter : won[p] \in {0, run[z].won[p]}
      BY <1>2
    <3> HIDE DEF won
    <3>3. r \in Working /\ r.won = won
      BY <1>2, <3>2 DEF Working
    <3> HIDE DEF r
    <3> QED BY <1>1, <3>1, <3>2, <3>3, HasNow
  <2>2. CASE asg[q].status # "CANCELLED"
    <3> DEFINE r == [run[z] EXCEPT !.place = "write", !.promoter = q, !.seen = post[q], !.slot = asg[q].slot]
    <3>1. run' = [run EXCEPT ![z] = r]
      BY <2>2 DEF ReconcileRead
    <3>2. r.won = run[z].won
      BY <1>2 DEF Working
    <3> HIDE DEF r
    <3>3. run'[z] = r /\ \A y \in Sweeper \ {z} : run'[y] = run[y]
      BY <1>1, <3>1 DEF TypeOK
    <3> QED BY <3>2, <3>3 DEF Has
  <2> QED BY <2>1, <2>2
<1>6. ASSUME NEW p \in Promoter
      PROVE  dings'[p] + Has(z, p)' + claims[p] <= dings[p] + Has(z, p) + claims'[p]
  <2>1. dings[p] \in Nat /\ claims[p] \in Nat /\ run[z].won[p] \in Nat
    BY <1>3, <1>4
  <2> QED BY <1>1, <1>3, <1>5, <2>1
<1> QED BY <1>5, <1>6, DingMoves

\* The dings go out with the posts they are for: what was won is then dealt with.
LEMMA ReconcileWriteDings ==
  ASSUME IInv, IInv', DingInv, NEW z \in Sweeper, ReconcileWrite(z)
  PROVE  DingInv'
<1>1. TypeOK /\ run[z] # None /\ run[z].place = "write" /\ claims' = claims
  BY DEF IInv, ReconcileWrite
<1>2. run[z] \in Working /\ run[z].won \in [Promoter -> Nat] /\ Sweeps(z)
  BY <1>1, RunsAre DEF IInv
<1>3. PICK q \in Promoter : q = run[z].promoter
  BY <1>1, <1>2 DEF Sweeps
<1>4. CASE run' = [run EXCEPT ![z] = None] /\ dings' = dings
  BY <1>1, <1>4, DingDropped
<1> DEFINE won == [run[z].won EXCEPT ![q] = 0]
           r == [run[z] EXCEPT !.place = "claim", !.won = won, !.promoter = None,
                               !.seen = <<>>, !.slot = None]
<1>5. CASE Continue(z, r) /\ dings' = [dings EXCEPT ![q] = @ + run[z].won[q]]
  <2>1. /\ won \in [Promoter -> Nat] /\ won[q] = 0
        /\ \A p \in Promoter \ {q} : won[p] = run[z].won[p]
    BY <1>2
  <2> HIDE DEF won
  <2>2. r \in Working /\ r.won = won
    BY <1>2, <2>1, NoPosts DEF Working
  <2> HIDE DEF r
  <2>3. /\ \A p \in Promoter : Has(z, p)' = won[p]
        /\ \A y \in Sweeper \ {z} : run'[y] = run[y]
    BY <1>1, <1>5, <2>2, HasNow
  <2>4. dings \in [Promoter -> Nat] /\ claims \in [Promoter -> Nat]
    BY <1>1 DEF TypeOK
  <2>5. ASSUME NEW p \in Promoter
        PROVE  dings'[p] + Has(z, p)' + claims[p] <= dings[p] + Has(z, p) + claims'[p]
    <3>1. dings[p] \in Nat /\ claims[p] \in Nat /\ run[z].won[p] \in Nat /\ Has(z, p) = run[z].won[p]
      BY <1>1, <1>2, <2>4 DEF Has
    <3>2. CASE p = q
      <4>1. dings'[p] = dings[p] + run[z].won[p] /\ Has(z, p)' = 0
        BY <1>5, <2>1, <2>3, <2>4, <3>2
      <4> QED BY <1>1, <3>1, <4>1
    <3>3. CASE p # q
      <4>1. dings'[p] = dings[p] /\ Has(z, p)' = run[z].won[p]
        BY <1>5, <2>1, <2>3, <2>4, <3>3
      <4> QED BY <1>1, <3>1, <4>1
    <3> QED BY <3>2, <3>3
  <2> QED BY <2>3, <2>5, DingMoves
<1> QED BY <1>3, <1>4, <1>5 DEF ReconcileWrite

LEMMA StepDings == IInv /\ IInv' /\ DingInv /\ [Next]_vars => DingInv'
<1> SUFFICES ASSUME IInv, IInv', DingInv, [Next]_vars PROVE DingInv'
  OBVIOUS
<1>1. ASSUME UNCHANGED <<run, dings, claims>> PROVE DingInv'
  BY <1>1, DingSame
<1>2. ASSUME NEW q \in Promoter, SendOffer(q) \/ ExpireOffer(q) PROVE DingInv'
  BY <1>1, <1>2 DEF SendOffer, ExpireOffer, missVars
<1>3. ASSUME NEW q \in Promoter, NEW s \in SlotId, Accept(q, s) PROVE DingInv'
  BY <1>1, <1>3 DEF Accept, missVars
<1>4. ASSUME NEW w \in Worker, Continuation(w) PROVE DingInv'
  BY <1>1, <1>4 DEF Continuation, DeclineWrite, SubmitWrite, RejectWrite, Settle, ReadEscrow,
                    Decide, Commit, ReadRemainder, BookRemainder, missVars
<1>5. ASSUME NEW w \in Worker, NEW q \in Promoter, DeclineRead(w, q) PROVE DingInv'
  BY <1>1, <1>5 DEF DeclineRead, missVars
<1>6. ASSUME NEW w \in Worker, NEW q \in Promoter, NEW i \in 1 .. Posts, SubmitRead(w, q, i)
      PROVE  DingInv'
  BY <1>1, <1>6 DEF SubmitRead, missVars
<1>7. ASSUME NEW w \in Worker, NEW n \in Submission, RejectRead(w, n) PROVE DingInv'
  BY <1>1, <1>7 DEF RejectRead, missVars
<1>8. ASSUME NEW w \in Worker, NEW n \in Submission, NEW v \in Views, NEW k \in Attempts,
             ApproveRead(w, n, v, k)
      PROVE  DingInv'
  BY <1>1, <1>8 DEF ApproveRead, missVars
<1>9. ASSUME NEW z \in Sweeper, Sweep(z) PROVE DingInv'
  <2>1. ASSUME NEW passed \in [Promoter -> 0 .. Posts], SweepList(z, passed) PROVE DingInv'
    <3> DEFINE r == [place |-> "claim", todo |-> Overdue(passed), won |-> [q \in Promoter |-> 0],
                     promoter |-> None, seen |-> <<>>, slot |-> None]
    <3>1. TypeOK /\ run[z] = None /\ Continue(z, r) /\ UNCHANGED <<dings, claims>>
      BY <2>1 DEF SweepList, missVars, IInv
    <3>2. Overdue(passed) \in SUBSET (Promoter \X (1 .. Posts))
      BY DEF Overdue
    <3>3. r \in Working /\ \A q \in Promoter : r.won[q] = 0
      BY <3>2, NoPosts DEF Working
    <3> HIDE DEF r
    <3>4. /\ \A q \in Promoter : Has(z, q)' = 0 /\ Has(z, q) = 0
          /\ \A y \in Sweeper \ {z} : run'[y] = run[y]
      BY <3>1, <3>3, HasNow DEF Has
    <3>5. \A q \in Promoter : dings[q] \in Nat /\ claims[q] \in Nat
      BY <3>1 DEF TypeOK
    <3>6. \A q \in Promoter : dings'[q] + Has(z, q)' + claims[q] <= dings[q] + Has(z, q) + claims'[q]
      BY <3>1, <3>4, <3>5
    <3> QED BY <3>4, <3>6, DingMoves
  <2> QED BY <1>9, <2>1, ReconcileWriteDings, ReconcileReadDings, ClaimDings DEF Sweep
<1>10. CASE Crash
  <2>1. UNCHANGED <<dings, claims>>
    BY <1>10 DEF Crash
  <2>2. ASSUME UNCHANGED run PROVE DingInv'
    BY <1>1, <2>1, <2>2
  <2>3. ASSUME NEW z \in Sweeper, run' = [run EXCEPT ![z] = None] PROVE DingInv'
    BY <2>1, <2>3, DingDropped
  <2> QED BY <1>10, <2>2, <2>3 DEF Crash
<1>11. CASE UNCHANGED vars
  BY <1>1, <1>11 DEF vars
<1> QED BY <1>2, <1>3, <1>4, <1>5, <1>6, <1>7, <1>8, <1>9, <1>10, <1>11 DEF Next

\* However many sweeps list the same posts, and wherever they die, a promoter has at
\* most one no-show ding for each post some sweep has won, those a sweep has still to
\* deal with included (markMissed(), reconcileAfterMisses()).
THEOREM DingedAtMostOnce == Spec => []DingedOnce
<1>1. Init => DingInv
  <2> SUFFICES ASSUME Init, NEW q \in Promoter PROVE Dinged(q)
    BY DEF DingInv
  <2> DEFINE f == Pending(q)
  <2>1. IsFiniteSet(Sweeper) /\ \A z \in Sweeper : f[z] = 0
    BY DeliveryAssumption DEF Init, Pending, Has
  <2> HIDE DEF f
  <2>2. SumFunctionOnSet(f, Sweeper) = 0
    BY <2>1, SumOfZeros
  <2>3. dings[q] = 0 /\ claims[q] = 0
    BY DEF Init
  <2> QED BY <2>2, <2>3 DEF Dinged, f
<1>2. IInv /\ DingInv => DingedOnce
  BY DingFollows DEF IInv
<1> QED BY <1>1, <1>2, StepDings, Invariant, PTL DEF Spec

-------------------------------------------------------------------------------
(* Theorems 4 and 5: requests and sweeps that do not overlap *)

\* One request or one sweep is under way at most.
Alone ==
  /\ \A x, y \in Worker : pc[x] # "idle" /\ pc[y] # "idle" => x = y
  /\ \A y, z \in Sweeper : run[y] # None /\ run[z] # None => y = z
  /\ \A x \in Worker, z \in Sweeper : pc[x] = "idle" \/ run[z] = None

\* A post is SUBMITTED or APPROVED when it has one proof that awaits review or was
\* approved, and that has no other.
Stands(n) == sub[n] # None /\ sub[n].verdict # "REJECTED"
ProofsMatch ==
  /\ \A n \in Submission : Stands(n) =>
       post[sub[n].promoter][sub[n].post] = IF sub[n].verdict = "PENDING" THEN "SUBMITTED" ELSE "APPROVED"
  /\ \A q \in Promoter : \A i \in DOMAIN post[q] : post[q][i] \in {"SUBMITTED", "APPROVED"} =>
       \E n \in Submission : Stands(n) /\ sub[n].promoter = q /\ sub[n].post = i
  /\ \A n, m \in Submission :
       Stands(n) /\ Stands(m) /\ sub[n].promoter = sub[m].promoter /\ sub[n].post = sub[m].post => n = m

\* A proof was paid under one key, and is approved or about to be.
PaidOnce ==
  /\ \A key \in posted : /\ key[1] \in Submission /\ sub[key[1]] # None
                         /\ \/ sub[key[1]].verdict = "APPROVED"
                            \/ \E w \in Worker : pc[w] \in Paying /\ job[w].sub = key[1]
  /\ \A j, k \in posted : j[1] = k[1] => j = k

\* What a request has read is still so.
Reads(w) ==
  /\ pc[w] = "submit" => LET p == post[job[w].promoter] IN
                         job[w].seen = p /\ job[w].post \in DOMAIN p /\ p[job[w].post] \in Submittable
  /\ pc[w] \in Reviewing => /\ sub[job[w].sub] # None /\ sub[job[w].sub].verdict = "PENDING"
                            /\ job[w].seen = post[sub[job[w].sub].promoter]
  /\ pc[w] \in Reviewing \ {"reject"} /\ job[w].live => campaign.status = "LIVE"
  /\ pc[w] = "commit" /\ job[w].plan.fulfil => job[w].live

\* No verdict and no end of the campaign is notified ahead.
Verdicts ==
  /\ \A n \in Submission : sub[n] = None \/ sub[n].verdict = "PENDING" =>
       <<"approved", n>> \notin noted /\ <<"rejected", n>> \notin noted
  /\ <<"fulfilled">> \in noted => campaign.status = "FULFILLED"

\* What a sweep deals with is not CANCELLED, and what it has read is still so.
Listed(z) == run[z] # None =>
  /\ \A e \in run[z].todo : asg[e[1]].status # "CANCELLED" /\ e[2] \in DOMAIN post[e[1]]
  /\ \A q \in Promoter : run[z].won[q] > 0 => asg[q].status # "CANCELLED"
  /\ run[z].place = "write" => /\ run[z].todo = {} /\ run[z].won[run[z].promoter] > 0
                               /\ run[z].seen = post[run[z].promoter]

\* A penalty is keyed to a number of misses there were before those in hand.
MissesNoted ==
  \A q \in Promoter, k \in Nat : <<"missed", q, k>> \in noted =>
    \A z \in Sweeper : k + Has(z, q) <= Misses(post[q])

\* Until an assignment is revived, statuses and dings agree but for the misses in hand.
Agrees(q) == asg[q].status \in {None, "CANCELLED", Rollup(post[q])}
Settled == (\A r \in Promoter : ~Revived(r)) => \A q \in Promoter :
  /\ Agrees(q) \/ \E z \in Sweeper : Has(z, q) > 0
  /\ \A z \in Sweeper : run[z] # None => dings[q] + Has(z, q) = claims[q]
  /\ (\A z \in Sweeper : run[z] = None) => dings[q] = claims[q]

InTurn ==
  /\ Alone /\ ProofsMatch /\ PaidOnce /\ Verdicts /\ MissesNoted /\ Settled
  /\ \A w \in Worker : Reads(w)
  /\ \A z \in Sweeper : Listed(z)

\* A request under way has no other beside it, and no sweep.
LEMMA Solo ==
  ASSUME Alone, NEW w \in Worker, pc[w] # "idle"
  PROVE  (\A x \in Worker \ {w} : pc[x] = "idle") /\ (\A z \in Sweeper : run[z] = None)
BY DEF Alone

LEMMA SweepsSolo ==
  ASSUME Alone, NEW z \in Sweeper, run[z] # None
  PROVE  (\A x \in Worker : pc[x] = "idle") /\ (\A y \in Sweeper \ {z} : run[y] = None)
BY DEF Alone

\* A step of the only request there is.
LEMMA RequestTurn ==
  ASSUME IInv, InTurn, NEW w \in Worker, \A x \in Worker \ {w} : pc[x] = "idle",
         \A z \in Sweeper : run[z] = None,
         NEW place \in Place, NEW read, Goto(w, place, read), UNCHANGED <<run, claims, dings>>,
         ProofsMatch', PaidOnce', Verdicts', Reads(w)',
         \A q \in Promoter, k \in Nat : <<"missed", q, k>> \in noted' => <<"missed", q, k>> \in noted,
         \A q \in Promoter : Misses(post'[q]) = Misses(post[q]),
         \A q \in Promoter : Revived(q) => Revived(q)',
         \A q \in Promoter : Agrees(q) => Agrees(q)'
  PROVE  InTurn'
<1>1. /\ pc'[w] = place /\ job'[w] = read
      /\ \A x \in Worker \ {w} : pc'[x] = pc[x] /\ job'[x] = job[x]
  BY DEF IInv, TypeOK, Goto
<1>2. Alone'
  BY <1>1 DEF Alone
<1>3. \A x \in Worker : Reads(x)'
  <2>1. \A x \in Worker \ {w} : pc'[x] = "idle"
    BY <1>1
  <2>2. \A x \in Worker \ {w} : Reads(x)'
    BY <2>1 DEF Reads, Reviewing
  <2> QED BY <2>2
<1>4. \A z \in Sweeper : Listed(z)'
  BY DEF Listed
<1>5. \A z \in Sweeper, q \in Promoter : Has(z, q)' = Has(z, q) /\ Has(z, q) = 0
  BY DEF Has
<1>6. MissesNoted'
  BY <1>5 DEF InTurn, MissesNoted
<1>7. Settled'
  <2> SUFFICES ASSUME \A r \in Promoter : ~Revived(r)', NEW q \in Promoter
               PROVE  Agrees(q)' /\ dings'[q] = claims'[q]
    BY DEF Settled
  <2>1. \A r \in Promoter : ~Revived(r)
    OBVIOUS
  <2>2. Agrees(q) /\ dings[q] = claims[q]
    BY <1>5, <2>1 DEF InTurn, Settled
  <2> QED BY <2>2
<1> QED BY <1>2, <1>3, <1>4, <1>6, <1>7 DEF InTurn

\* One that writes none of the rows.
LEMMA QuietTurn ==
  ASSUME IInv, InTurn, NEW w \in Worker, \A x \in Worker \ {w} : pc[x] = "idle",
         \A z \in Sweeper : run[z] = None,
         NEW place \in Place, NEW read, Goto(w, place, read), run' = run, QuietRows,
         PaidOnce', Reads(w)'
  PROVE  InTurn'
<1>1. UNCHANGED <<campaign, slot, asg, post, sub, noted, claims, dings>>
  BY DEF QuietRows
<1>2. ProofsMatch' /\ Verdicts'
  BY <1>1 DEF InTurn, ProofsMatch, Stands, Verdicts
<1>3. \A q \in Promoter : (Revived(q) => Revived(q)') /\ (Agrees(q) => Agrees(q)')
  BY <1>1 DEF Revived, Agrees
<1> QED BY <1>1, <1>2, <1>3, RequestTurn

\* A step of the only sweep there is.
LEMMA SweepTurn ==
  ASSUME IInv, IInv', InTurn, NEW z \in Sweeper, \A x \in Worker : pc[x] = "idle",
         \A y \in Sweeper \ {z} : run[y] = None /\ run'[y] = run[y],
         UNCHANGED <<pc, job, sub, posted>>, campaign'.status = campaign.status,
         ProofsMatch', Listed(z)',
         \A n \in Submission : /\ <<"approved", n>> \in noted' => <<"approved", n>> \in noted
                               /\ <<"rejected", n>> \in noted' => <<"rejected", n>> \in noted,
         <<"fulfilled">> \in noted' => <<"fulfilled">> \in noted,
         \A q \in Promoter, k \in Nat : <<"missed", q, k>> \in noted' => k + Has(z, q)' <= Misses(post'[q]),
         \A q \in Promoter : Revived(q) => Revived(q)',
         (\A r \in Promoter : ~Revived(r)') => \A q \in Promoter :
           /\ Agrees(q)' \/ Has(z, q)' > 0
           /\ dings'[q] + Has(z, q)' + claims[q] = dings[q] + Has(z, q) + claims'[q]
  PROVE  InTurn'
<1>1. Alone'
  BY DEF Alone
<1>2. PaidOnce'
  BY DEF InTurn, PaidOnce, Paying
<1>3. Verdicts'
  BY DEF InTurn, Verdicts
<1>4. \A x \in Worker : Reads(x)'
  BY DEF Reads, Reviewing
<1>5. \A y \in Sweeper : Listed(y)'
  BY DEF Listed
<1>6. \A y \in Sweeper \ {z}, q \in Promoter : Has(y, q)' = 0 /\ Has(y, q) = 0
  BY DEF Has
<1>7. \A y \in Sweeper, q \in Promoter : Has(y, q) \in Nat
  BY HasIsNat DEF IInv
<1>8. ASSUME NEW q \in Promoter PROVE Has(z, q)' \in Nat
  <2>1. run'[z] # None => run'[z].won \in [Promoter -> Nat]
    BY DEF IInv, TypeOK, Working
  <2> QED BY <2>1 DEF Has
<1>9. MissesNoted'
  <2> SUFFICES ASSUME NEW q \in Promoter, NEW k \in Nat, <<"missed", q, k>> \in noted', NEW y \in Sweeper
               PROVE  k + Has(y, q)' <= Misses(post'[q])
    BY DEF MissesNoted
  <2>1. k + Has(z, q)' <= Misses(post'[q])
    OBVIOUS
  <2>2. CASE y = z
    BY <2>1, <2>2
  <2>3. CASE y # z
    <3>1. post'[q] \in Schedule
      BY DEF IInv, TypeOK
    <3>2. Misses(post'[q]) \in Nat
      BY <3>1, DeficitIs
    <3>3. Has(y, q)' = 0 /\ Has(z, q)' \in Nat
      BY <1>6, <1>8, <2>3
    <3> QED BY <2>1, <3>2, <3>3
  <2> QED BY <2>2, <2>3
<1>10. Settled'
  <2> SUFFICES ASSUME \A r \in Promoter : ~Revived(r)', NEW q \in Promoter
               PROVE  /\ Agrees(q)' \/ \E y \in Sweeper : Has(y, q)' > 0
                      /\ \A y \in Sweeper : run'[y] # None => dings'[q] + Has(y, q)' = claims'[q]
                      /\ (\A y \in Sweeper : run'[y] = None) => dings'[q] = claims'[q]
    BY DEF Settled
  <2>1. /\ Agrees(q)' \/ Has(z, q)' > 0
        /\ dings'[q] + Has(z, q)' + claims[q] = dings[q] + Has(z, q) + claims'[q]
    OBVIOUS
  <2>2. dings[q] \in Nat /\ claims[q] \in Nat /\ dings'[q] \in Nat /\ claims'[q] \in Nat
    BY DEF IInv, TypeOK
  <2>3. dings[q] + Has(z, q) = claims[q]
    <3>1. \A r \in Promoter : ~Revived(r)
      OBVIOUS
    <3>2. /\ \A y \in Sweeper : run[y] # None => dings[q] + Has(y, q) = claims[q]
          /\ (\A y \in Sweeper : run[y] = None) => dings[q] = claims[q]
      BY <3>1 DEF InTurn, Settled
    <3>3. CASE run[z] # None
      BY <3>2, <3>3
    <3>4. CASE run[z] = None
      <4>1. Has(z, q) = 0 /\ dings[q] = claims[q]
        BY <3>2, <3>4 DEF Has
      <4> QED BY <2>2, <4>1
    <3> QED BY <3>3, <3>4
  <2>4. dings'[q] + Has(z, q)' = claims'[q]
    <3>1. Has(z, q) \in Nat /\ Has(z, q)' \in Nat
      BY <1>7, <1>8
    <3> QED BY <2>1, <2>2, <2>3, <3>1
  <2>5. run'[z] = None => Has(z, q)' = 0
    BY DEF Has
  <2>6. (\A y \in Sweeper : run'[y] = None) => dings'[q] = claims'[q]
    BY <2>2, <2>4, <2>5
  <2>7. \A y \in Sweeper : run'[y] # None => y = z
    OBVIOUS
  <2> QED BY <2>1, <2>4, <2>6, <2>7
<1> QED BY <1>1, <1>2, <1>3, <1>4, <1>5, <1>9, <1>10 DEF InTurn

\* A request that begins: nothing else is under way.
LEMMA BeginsTurn ==
  ASSUME IInv, InTurn, Serial, NEW w \in Worker, NEW place \in {"decline", "submit", "reject", "settle"},
         NEW read, Begin(w, place, read), QuietRows, UNCHANGED <<run, posted>>,
         pc'[w] = place /\ job'[w] = read => Reads(w)'
  PROVE  InTurn'
<1>1. place \in Place /\ Goto(w, place, read)
  BY DEF Place, Begin, Goto
<1>2. (\A x \in Worker : pc[x] = "idle") /\ (\A z \in Sweeper : run[z] = None)
  BY DEF Begin, Resting
<1>3. pc'[w] = place /\ job'[w] = read
  BY <1>1, WorkerMoves DEF IInv, TypeOK, Goto
<1>4. PaidOnce'
  BY <1>2 DEF InTurn, PaidOnce, Paying, QuietRows
<1> QED BY <1>1, <1>2, <1>3, <1>4, QuietTurn

LEMMA RequestBeginsInTurn ==
  ASSUME IInv, InTurn, Serial, NEW w \in Worker,
         \/ \E q \in Promoter : DeclineRead(w, q) \/ \E i \in 1 .. Posts : SubmitRead(w, q, i)
         \/ \E n \in Submission : \/ RejectRead(w, n)
                                  \/ \E v \in Views, k \in Attempts : ApproveRead(w, n, v, k)
  PROVE  InTurn'
<1>1. ASSUME NEW q \in Promoter, DeclineRead(w, q) PROVE InTurn'
  <2>1. Begin(w, "decline", [promoter |-> q]) /\ QuietRows /\ UNCHANGED <<run, posted>>
    BY <1>1 DEF DeclineRead, QuietRows, poolVars, moneyVars, missVars
  <2>2. pc'[w] = "decline" => Reads(w)'
    BY DEF Reads, Reviewing
  <2> QED BY <2>1, <2>2, BeginsTurn
<1>2. ASSUME NEW q \in Promoter, NEW i \in 1 .. Posts, SubmitRead(w, q, i) PROVE InTurn'
  <2> DEFINE read == [promoter |-> q, post |-> i, seen |-> post[q]]
  <2>1. Begin(w, "submit", read) /\ QuietRows /\ UNCHANGED <<run, posted>>
    BY <1>2 DEF SubmitRead, QuietRows, poolVars, moneyVars, missVars
  <2>2. pc'[w] = "submit" /\ job'[w] = read => Reads(w)'
    BY <1>2, <2>1 DEF SubmitRead, Reads, Reviewing, QuietRows
  <2> HIDE DEF read
  <2> QED BY <2>1, <2>2, BeginsTurn
<1>3. ASSUME NEW n \in Submission, RejectRead(w, n) PROVE InTurn'
  <2> DEFINE read == [sub |-> n, seen |-> post[sub[n].promoter]]
  <2>1. Begin(w, "reject", read) /\ QuietRows /\ UNCHANGED <<run, posted>>
    BY <1>3 DEF RejectRead, QuietRows, poolVars, moneyVars, missVars
  <2>2. pc'[w] = "reject" /\ job'[w] = read => Reads(w)'
    BY <1>3, <2>1 DEF RejectRead, Reads, Reviewing, QuietRows
  <2> HIDE DEF read
  <2> QED BY <2>1, <2>2, BeginsTurn
<1>4. ASSUME NEW n \in Submission, NEW v \in Views, NEW k \in Attempts, ApproveRead(w, n, v, k)
      PROVE  InTurn'
  <2> DEFINE read == ReadToApprove(n, v, k)
  <2>1. Begin(w, "settle", read) /\ QuietRows /\ UNCHANGED <<run, posted>>
    BY <1>4 DEF ApproveRead, QuietRows, poolVars, moneyVars, missVars
  <2>2. /\ read.sub = n /\ read.seen = post[sub[n].promoter]
        /\ read.live => campaign.status = "LIVE"
    BY DEF ReadToApprove
  <2> HIDE DEF read
  <2>3. pc'[w] = "settle" /\ job'[w] = read => Reads(w)'
    BY <1>4, <2>1, <2>2 DEF ApproveRead, Reads, Reviewing, QuietRows
  <2> QED BY <2>1, <2>3, BeginsTurn
<1> QED BY <1>1, <1>2, <1>3, <1>4

\* A request goes on and writes none of the rows.
LEMMA RequestGoesOn ==
  ASSUME IInv, InTurn, NEW w \in Worker, pc[w] # "idle", NEW place \in Place, NEW read,
         Goto(w, place, read), QuietRows, UNCHANGED <<run, posted>>, pc[w] \in Paying => place \in Paying,
         place \in Reviewing =>
           /\ pc[w] \in Reviewing \ {"reject"} /\ place # "reject"
           /\ read.sub = job[w].sub /\ read.seen = job[w].seen /\ read.live = job[w].live,
         place # "submit", place = "commit" => (read.plan.fulfil => read.live)
  PROVE  InTurn'
<1>1. (\A x \in Worker \ {w} : pc[x] = "idle") /\ (\A z \in Sweeper : run[z] = None)
  BY Solo DEF InTurn
<1>2. pc'[w] = place /\ job'[w] = read
  BY DEF IInv, TypeOK, Goto
<1>3. Reads(w)
  BY DEF InTurn
<1>4. PaidOnce'
  <2>1. ASSUME NEW key \in posted, sub[key[1]].verdict # "APPROVED", key[1] \in Submission, sub[key[1]] # None
        PROVE  pc'[w] \in Paying /\ job'[w].sub = key[1]
    <3>1. PICK x \in Worker : pc[x] \in Paying /\ job[x].sub = key[1]
      BY <2>1 DEF InTurn, PaidOnce
    <3>2. x = w
      BY <1>1, <3>1 DEF Paying
    <3> QED BY <1>2, <3>1, <3>2 DEF Paying, Reviewing
  <2> QED BY <2>1 DEF InTurn, PaidOnce, QuietRows
<1>5. Reads(w)'
  BY <1>2, <1>3 DEF Reads, QuietRows, Reviewing
<1> QED BY <1>1, <1>4, <1>5, QuietTurn

\* The payout: the proof in hand awaits its verdict, so no key has paid it.
LEMMA SettleTurn ==
  ASSUME IInv, InTurn, NEW w \in Worker, Settle(w)
  PROVE  InTurn'
<1> DEFINE key == <<job[w].sub, job[w].attempt>>
<1>1. pc[w] = "settle" /\ QuietRows /\ run' = run
  BY DEF Settle, QuietRows, poolVars, missVars
<1>2. CASE Done(w) /\ posted' = posted
  <2>1. "idle" \in Place /\ Goto(w, "idle", None) /\ pc[w] \notin Paying
    BY <1>1, <1>2 DEF Place, Done, Paying
  <2> QED BY <1>1, <1>2, <2>1, RequestGoesOn DEF Reviewing
<1>3. CASE Goto(w, "economics", job[w]) /\ posted' = posted \cup {key}
  <2>1. (\A x \in Worker \ {w} : pc[x] = "idle") /\ (\A z \in Sweeper : run[z] = None)
    BY <1>1, Solo DEF InTurn
  <2>2. pc'[w] = "economics" /\ job'[w] = job[w] /\ "economics" \in Place
    BY <1>3 DEF IInv, TypeOK, Goto, Place
  <2>3. /\ job[w].sub \in Submission /\ sub[job[w].sub] # None
        /\ sub[job[w].sub].verdict = "PENDING"
    BY <1>1, JobsAre DEF IInv, InTurn, Reads, Reviewing
  <2>4. \A k \in posted : k[1] \in Submission /\ sub[k[1]] # None /\ sub[k[1]].verdict = "APPROVED"
    BY <1>1, <2>1 DEF InTurn, PaidOnce, Paying
  <2>5. \A k \in posted : k[1] # key[1]
    BY <2>3, <2>4
  <2>6. PaidOnce'
    <3>1. key[1] = job[w].sub /\ sub' = sub
      BY <1>1 DEF QuietRows
    <3>2. pc'[w] \in Paying /\ job'[w].sub = key[1]
      BY <2>2 DEF Paying
    <3>3. \A j, k \in posted : j[1] = k[1] => j = k
      BY DEF InTurn, PaidOnce
    <3> HIDE DEF key
    <3>4. \A k \in posted' : /\ k[1] \in Submission /\ sub'[k[1]] # None
                             /\ \/ sub'[k[1]].verdict = "APPROVED"
                                \/ \E x \in Worker : pc'[x] \in Paying /\ job'[x].sub = k[1]
      BY <1>3, <2>3, <2>4, <3>1, <3>2
    <3>5. \A j, k \in posted' : j[1] = k[1] => j = k
      BY <1>3, <2>5, <3>3
    <3> QED BY <3>4, <3>5 DEF PaidOnce
  <2>7. Reads(w)'
    BY <1>1, <2>2 DEF InTurn, Reads, QuietRows, Reviewing
  <2> HIDE DEF key
  <2> QED BY <1>1, <1>3, <2>1, <2>2, <2>6, <2>7, QuietTurn
<1> QED BY <1>2, <1>3 DEF Settle

LEMMA QuietContinues ==
  ASSUME IInv, InTurn, NEW w \in Worker,
         \/ DeclineWrite(w) \/ Settle(w) \/ ReadEscrow(w) \/ Decide(w)
         \/ ReadRemainder(w) \/ BookRemainder(w)
  PROVE  InTurn'
<1>1. "idle" \in Place /\ "book" \in Place /\ "idle" \notin Reviewing /\ "book" \notin Reviewing
  BY DEF Place, Reviewing
<1>2. CASE DeclineWrite(w)
  <2>1. pc[w] = "decline" /\ Goto(w, "idle", None) /\ QuietRows /\ UNCHANGED <<run, posted>>
    BY <1>2 DEF DeclineWrite, Done, QuietRows, moneyVars, missVars
  <2> QED BY <1>1, <2>1, RequestGoesOn DEF Paying
<1>3. CASE Settle(w)
  BY <1>3, SettleTurn
<1>4. CASE ReadEscrow(w)
  <2> DEFINE read == [job[w] EXCEPT !.escrow = escrow]
  <2>1. pc[w] = "economics" /\ Goto(w, "decide", read) /\ QuietRows /\ UNCHANGED <<run, posted>>
    BY <1>4 DEF ReadEscrow, QuietRows, poolVars, moneyVars, missVars
  <2>2. job[w] \in ReadByApprove
    BY <2>1, JobsAre DEF IInv, Reviewing
  <2>3. read.sub = job[w].sub /\ read.seen = job[w].seen /\ read.live = job[w].live
    BY <2>2 DEF ReadByApprove
  <2>4. "decide" \in Place /\ "decide" \in Paying /\ pc[w] \in Reviewing \ {"reject"}
    BY <2>1 DEF Place, Paying, Reviewing
  <2> HIDE DEF read
  <2> QED BY <2>1, <2>3, <2>4, RequestGoesOn
<1>5. CASE Decide(w)
  <2> DEFINE n == job[w].sub
             read == [job[w] EXCEPT !.plan = Conclusion(w)]
  <2>1. pc[w] = "decide" /\ QuietRows /\ UNCHANGED <<run, posted>>
    BY <1>5 DEF Decide, QuietRows, poolVars, moneyVars, missVars
  <2>2. /\ n \in Submission /\ sub[n].verdict = "PENDING" /\ job[w] \in ReadByApprove
    BY <2>1, JobsAre DEF IInv, InTurn, Reads, Reviewing
  <2>3. <<"approved", n>> \notin noted
    BY <2>2 DEF InTurn, Verdicts
  <2>4. Goto(w, "commit", read)
    BY <1>5, <2>3 DEF Decide
  <2>5. /\ read.sub = job[w].sub /\ read.seen = job[w].seen /\ read.live = job[w].live
        /\ read.plan = Conclusion(w)
    BY <2>2 DEF ReadByApprove
  <2>6. Conclusion(w).fulfil => job[w].live
    BY DEF Conclusion
  <2>7. "commit" \in Place /\ "commit" \in Paying /\ pc[w] \in Reviewing \ {"reject"}
    BY <2>1 DEF Place, Paying, Reviewing
  <2> HIDE DEF read
  <2> QED BY <2>1, <2>4, <2>5, <2>6, <2>7, RequestGoesOn
<1>6. CASE ReadRemainder(w)
  <2>1. /\ pc[w] = "remainder" /\ QuietRows /\ UNCHANGED <<run, posted>>
        /\ Goto(w, "book", [escrow |-> escrow]) \/ Goto(w, "idle", None)
    BY <1>6 DEF ReadRemainder, Done, QuietRows, poolVars, moneyVars, missVars
  <2> QED BY <1>1, <2>1, RequestGoesOn DEF Paying
<1>7. CASE BookRemainder(w)
  <2>1. /\ pc[w] = "book" /\ QuietRows /\ UNCHANGED <<run, posted>> /\ Goto(w, "idle", None)
    BY <1>7 DEF BookRemainder, Done, QuietRows, poolVars, missVars
  <2> QED BY <1>1, <2>1, RequestGoesOn DEF Paying
<1> QED BY <1>2, <1>3, <1>4, <1>5, <1>6, <1>7

\* What a verdict makes of the post it is about.
Makes(v) == IF v = "PENDING" THEN "SUBMITTED" ELSE v

\* A request writes a proof and its post, and rolls the assignment up.
LEMMA WriteTurn ==
  ASSUME IInv, InTurn, NEW w \in Worker, pc[w] # "idle",
         NEW place \in {"idle", "remainder"}, Goto(w, place, None), UNCHANGED <<run, claims, dings>>,
         NEW n \in Submission, NEW q \in Promoter, NEW i \in DOMAIN post[q],
         NEW v \in {"PENDING", "REJECTED", "APPROVED"},
         \/ sub[n] = None /\ post[q][i] \in Submittable
         \/ Stands(n) /\ sub[n].verdict = "PENDING" /\ sub[n].promoter = q /\ sub[n].post = i,
         sub'[n] # None, sub'[n].verdict = v, sub'[n].promoter = q, sub'[n].post = i,
         \A m \in Submission \ {n} : sub'[m] = sub[m],
         post' = [post EXCEPT ![q][i] = Makes(v)],
         asg'[q].status = Rollup(post'[q]), \A p \in Promoter \ {q} : asg'[p] = asg[p],
         noted \subseteq noted',
         \A p \in Promoter, k \in Nat : <<"missed", p, k>> \in noted' => <<"missed", p, k>> \in noted,
         PaidOnce', Verdicts'
  PROVE  InTurn' /\ KeepsFinal
<1>1. (\A x \in Worker \ {w} : pc[x] = "idle") /\ (\A z \in Sweeper : run[z] = None)
  BY Solo DEF InTurn
<1>2. /\ post[q][i] \in {"PENDING", "REJECTED", "SUBMITTED"}
      /\ \A m \in Submission \ {n} : Stands(m) => ~(sub[m].promoter = q /\ sub[m].post = i)
  <2>1. CASE sub[n] = None /\ post[q][i] \in Submittable
    <3>1. \A m \in Submission : Stands(m) => post[sub[m].promoter][sub[m].post] \notin Submittable
      BY DEF InTurn, ProofsMatch, Submittable
    <3> QED BY <2>1, <3>1 DEF Submittable
  <2>2. CASE Stands(n) /\ sub[n].verdict = "PENDING" /\ sub[n].promoter = q /\ sub[n].post = i
    BY <2>2 DEF InTurn, ProofsMatch
  <2> QED BY <2>1, <2>2
<1>3. /\ post'[q][i] = Makes(v) /\ DOMAIN post'[q] = DOMAIN post[q] /\ post'[q] \in Schedule
      /\ \A j \in DOMAIN post[q] \ {i} : post'[q][j] = post[q][j]
      /\ \A p \in Promoter \ {q} : post'[p] = post[p]
      /\ Makes(v) \in {"SUBMITTED", "REJECTED", "APPROVED"}
  <2>1. Makes(v) \in {"SUBMITTED", "REJECTED", "APPROVED"} /\ Makes(v) \in PostStatus
    BY DEF Makes, PostStatus
  <2>2. post' \in [Promoter -> Schedule] /\ \A p \in Promoter : DOMAIN post'[p] = DOMAIN post[p]
    BY <2>1, PostMarked DEF IInv
  <2> QED BY <2>1, <2>2 DEF IInv, TypeOK
<1>4. \A m \in Submission : Stands(m) => /\ sub[m].promoter \in Promoter
                                         /\ sub[m].post \in DOMAIN post[sub[m].promoter]
  BY RowsAre DEF IInv, Fits, Stands
<1>5. \A m \in Submission \ {n} : Stands(m)' <=> Stands(m)
  BY DEF Stands
<1>6. ProofsMatch'
  <2>1. ASSUME NEW m \in Submission, Stands(m)'
        PROVE  post'[sub'[m].promoter][sub'[m].post] = Makes(sub'[m].verdict) /\ sub'[m].verdict # "REJECTED"
    <3>1. CASE m = n
      BY <1>3, <2>1, <3>1 DEF Stands
    <3>2. CASE m # n
      <4>1. Stands(m) /\ sub'[m] = sub[m] /\ sub[m].verdict \in {"PENDING", "APPROVED"}
        BY <1>5, <2>1, <3>2, RowsAre DEF IInv, Stands, Proof
      <4>2. post[sub[m].promoter][sub[m].post] = Makes(sub[m].verdict)
        BY <4>1 DEF InTurn, ProofsMatch, Makes
      <4> QED BY <1>2, <1>3, <1>4, <3>2, <4>1, <4>2
    <3> QED BY <3>1, <3>2
  <2>2. ASSUME NEW p \in Promoter, NEW j \in DOMAIN post'[p], post'[p][j] \in {"SUBMITTED", "APPROVED"}
        PROVE  \E m \in Submission : Stands(m)' /\ sub'[m].promoter = p /\ sub'[m].post = j
    <3>1. CASE p = q /\ j = i
      <4>1. v # "REJECTED"
        BY <1>3, <2>2, <3>1 DEF Makes
      <4> QED BY <3>1, <4>1 DEF Stands
    <3>2. CASE ~(p = q /\ j = i)
      <4>1. j \in DOMAIN post[p] /\ post[p][j] \in {"SUBMITTED", "APPROVED"}
        BY <1>3, <2>2, <3>2
      <4>2. PICK m \in Submission : Stands(m) /\ sub[m].promoter = p /\ sub[m].post = j
        BY <4>1 DEF InTurn, ProofsMatch
      <4>3. m # n
        BY <3>2, <4>2 DEF Stands
      <4> QED BY <1>5, <4>2, <4>3
    <3> QED BY <3>1, <3>2
  <2>3. ASSUME NEW m \in Submission, NEW k \in Submission, Stands(m)', Stands(k)',
               sub'[m].promoter = sub'[k].promoter, sub'[m].post = sub'[k].post
        PROVE  m = k
    <3>1. CASE m = n \/ k = n
      BY <1>2, <1>5, <2>3, <3>1
    <3>2. CASE m # n /\ k # n
      BY <1>5, <2>3, <3>2 DEF InTurn, ProofsMatch
    <3> QED BY <3>1, <3>2
  <2>4. \A m \in Submission : Stands(m)' =>
          post'[sub'[m].promoter][sub'[m].post] = IF sub'[m].verdict = "PENDING" THEN "SUBMITTED" ELSE "APPROVED"
    <3>1. ASSUME NEW m \in Submission, Stands(m)' PROVE sub'[m].verdict \in {"PENDING", "APPROVED"}
      <4>1. CASE m = n
        BY <2>1, <3>1, <4>1
      <4>2. CASE m # n
        BY <1>5, <3>1, <4>2, RowsAre DEF IInv, Stands, Proof
      <4> QED BY <4>1, <4>2
    <3> QED BY <2>1, <3>1 DEF Makes
  <2> QED BY <2>2, <2>3, <2>4 DEF ProofsMatch
<1>7. Reads(w)'
  <2>1. pc'[w] = place
    BY DEF IInv, TypeOK, Goto
  <2> QED BY <2>1 DEF Reads, Reviewing
<1>8. \A p \in Promoter : Misses(post'[p]) = Misses(post[p])
  <2>1. {j \in DOMAIN post'[q] : post'[q][j] = "MISSED"} = {j \in DOMAIN post[q] : post[q][j] = "MISSED"}
    BY <1>2, <1>3
  <2>2. Misses(post'[q]) = Misses(post[q])
    BY <2>1 DEF Misses
  <2>3. \A p \in Promoter \ {q} : Misses(post'[p]) = Misses(post[p])
    BY <1>3
  <2> QED BY <2>2, <2>3
<1>9. \A p \in Promoter : (Revived(p) => Revived(p)') /\ (Agrees(p) => Agrees(p)')
  <2>1. asg'[q].status # "CANCELLED"
    BY <1>3, RollupIs
  <2>2. Revived(q) => Revived(q)'
    BY <2>1 DEF Revived
  <2>3. Agrees(q)'
    BY DEF Agrees
  <2> QED BY <1>3, <2>2, <2>3 DEF Revived, Agrees
<1>10. KeepsFinal
  <2>1. \A p \in Promoter, j \in 1 .. Posts :
          j \in DOMAIN post[p] /\ post[p][j] \in {"APPROVED", "MISSED"} => post'[p][j] = post[p][j]
    BY <1>2, <1>3
  <2> QED BY <2>1 DEF KeepsFinal
<1>11. place \in Place
  BY DEF Place
<1> QED BY <1>1, <1>6, <1>7, <1>8, <1>9, <1>10, <1>11, RequestTurn

LEMMA SubmitWriteTurn ==
  ASSUME IInv, InTurn, NEW w \in Worker, SubmitWrite(w)
  PROVE  InTurn' /\ KeepsFinal
<1>1. /\ pc[w] = "submit" /\ Goto(w, "idle", None)
      /\ UNCHANGED <<campaign, posted, noted, claims, dings, run>>
  BY DEF SubmitWrite, Done, poolVars, moneyVars, missVars
<1>2. PICK q \in Promoter : q = job[w].promoter
  BY <1>1, JobsAre DEF IInv
<1>3. PICK i \in DOMAIN post[q] : i = job[w].post /\ post[q][i] \in Submittable /\ job[w].seen = post[q]
  BY <1>1, <1>2 DEF InTurn, Reads
<1>4. PICK n \in Submission : n = NextSubmission /\ sub[n] = None
  BY <1>1, FindsAnId DEF UnusedSubmissions
<1> DEFINE made == [promoter |-> q, post |-> i, verdict |-> "PENDING", views |-> 0]
           p == [post[q] EXCEPT ![i] = "SUBMITTED"]
<1>5. /\ sub' = [sub EXCEPT ![n] = made]
      /\ post' = [post EXCEPT ![q][i] = "SUBMITTED"]
      /\ asg' = [asg EXCEPT ![q].status = Rollup(p)]
  BY <1>2, <1>3, <1>4 DEF SubmitWrite, NextSubmission
<1>6. /\ sub'[n] = made /\ made # None
      /\ \A m \in Submission \ {n} : sub'[m] = sub[m]
  <2>1. made \in Proof
    <3>1. i \in 1 .. Posts
      BY RowsAre, Posting DEF IInv
    <3> QED BY <3>1 DEF Proof
  <2> HIDE DEF made
  <2> QED BY <1>5, <2>1, DeliveryAssumption DEF IInv, TypeOK
<1>7. made.promoter = q /\ made.post = i /\ made.verdict = "PENDING"
  OBVIOUS
<1> HIDE DEF made
<1>8. asg'[q].status = Rollup(post'[q]) /\ \A r \in Promoter \ {q} : asg'[r] = asg[r]
  <2>1. post'[q] = p
    BY <1>5 DEF IInv, TypeOK
  <2> HIDE DEF p
  <2>2. asg \in [Promoter -> [status: {None, "IN_PROGRESS", "SUBMITTED", "PAID", "CANCELLED"},
                              slot: {None} \cup SlotId, stamped: BOOLEAN]]
    BY DEF IInv, TypeOK
  <2> QED BY <1>5, <2>1, <2>2
<1>9. PaidOnce'
  <2>1. \A x \in Worker : pc[x] \notin Paying
    BY <1>1, Solo DEF InTurn, Paying
  <2>2. \A key \in posted : /\ key[1] \in Submission /\ sub[key[1]] # None
                            /\ sub[key[1]].verdict = "APPROVED"
    BY <2>1 DEF InTurn, PaidOnce
  <2>3. \A key \in posted : sub'[key[1]] = sub[key[1]]
    BY <1>4, <1>6, <2>2
  <2> QED BY <1>1, <2>2, <2>3 DEF InTurn, PaidOnce
<1>10. Verdicts'
  <2>1. \A m \in Submission : sub'[m] = None \/ sub'[m].verdict = "PENDING" =>
                              sub[m] = None \/ sub[m].verdict = "PENDING"
    BY <1>4, <1>6
  <2> QED BY <1>1, <2>1 DEF InTurn, Verdicts
<1>11. post' = [post EXCEPT ![q][i] = Makes("PENDING")]
  BY <1>5 DEF Makes
<1> QED BY <1>1, <1>3, <1>4, <1>6, <1>7, <1>8, <1>9, <1>10, <1>11, WriteTurn

\* What a review holds is a proof that awaits it.
LEMMA InReview ==
  ASSUME IInv, InTurn, NEW w \in Worker, pc[w] \in Reviewing, NEW n, n = job[w].sub
  PROVE  /\ n \in Submission /\ Stands(n) /\ sub[n].verdict = "PENDING" /\ sub[n] \in Proof
         /\ sub[n].promoter \in Promoter /\ sub[n].post \in DOMAIN post[sub[n].promoter]
         /\ job[w].seen = post[sub[n].promoter]
<1>1. /\ n \in Submission /\ sub[n] # None /\ sub[n] \in Proof
      /\ sub[n].promoter \in Promoter /\ sub[n].post \in DOMAIN post[sub[n].promoter]
  BY Reviewed
<1> QED BY <1>1 DEF InTurn, Reads, Stands

LEMMA RejectWriteTurn ==
  ASSUME IInv, InTurn, NEW w \in Worker, RejectWrite(w)
  PROVE  InTurn' /\ KeepsFinal
<1>1. /\ pc[w] = "reject" /\ pc[w] \in Reviewing /\ Goto(w, "idle", None)
      /\ UNCHANGED <<campaign, posted, claims, dings, run>>
  BY DEF RejectWrite, Done, poolVars, moneyVars, missVars, Reviewing
<1>2. PICK n \in Submission : n = job[w].sub /\ Stands(n) /\ sub[n].verdict = "PENDING" /\ sub[n] \in Proof
  BY <1>1, InReview
<1>3. PICK q \in Promoter : q = sub[n].promoter /\ job[w].seen = post[q]
  BY <1>1, <1>2, InReview
<1>4. PICK i \in DOMAIN post[q] : i = sub[n].post
  BY <1>1, <1>2, <1>3, InReview
<1>5. <<"rejected", n>> \notin noted
  BY <1>2 DEF InTurn, Verdicts
<1> DEFINE p == [post[q] EXCEPT ![i] = "REJECTED"]
<1>6. /\ sub' = [sub EXCEPT ![n].verdict = "REJECTED"]
      /\ post' = [post EXCEPT ![q][i] = "REJECTED"]
      /\ asg' = [asg EXCEPT ![q].status = Rollup(p)]
      /\ noted' = noted \cup {<<"rejected", n>>}
  BY <1>2, <1>3, <1>4, <1>5 DEF RejectWrite
<1>7. /\ sub'[n] # None /\ sub'[n].promoter = q /\ sub'[n].post = i /\ sub'[n].verdict = "REJECTED"
      /\ \A m \in Submission \ {n} : sub'[m] = sub[m]
  <2> DEFINE r == [sub[n] EXCEPT !.verdict = "REJECTED"]
  <2>1. r \in Proof /\ r.promoter = q /\ r.post = i /\ r.verdict = "REJECTED"
    BY <1>2, <1>3, <1>4 DEF Proof
  <2>2. sub' = [sub EXCEPT ![n] = r]
    BY <1>6
  <2> HIDE DEF r
  <2> QED BY <2>1, <2>2, DeliveryAssumption DEF IInv, TypeOK
<1>8. asg'[q].status = Rollup(post'[q]) /\ \A r \in Promoter \ {q} : asg'[r] = asg[r]
  <2>1. post'[q] = p
    BY <1>6 DEF IInv, TypeOK
  <2> HIDE DEF p
  <2>2. asg \in [Promoter -> [status: {None, "IN_PROGRESS", "SUBMITTED", "PAID", "CANCELLED"},
                              slot: {None} \cup SlotId, stamped: BOOLEAN]]
    BY DEF IInv, TypeOK
  <2> QED BY <1>6, <2>1, <2>2
<1>9. PaidOnce'
  <2>1. \A x \in Worker : pc[x] \notin Paying
    BY <1>1, Solo DEF InTurn, Paying
  <2>2. \A key \in posted : /\ key[1] \in Submission /\ sub[key[1]] # None
                            /\ sub[key[1]].verdict = "APPROVED"
    BY <2>1 DEF InTurn, PaidOnce
  <2>3. \A key \in posted : sub'[key[1]] = sub[key[1]]
    BY <1>2, <1>7, <2>2
  <2> QED BY <1>1, <2>2, <2>3 DEF InTurn, PaidOnce
<1>10. Verdicts'
  <2>1. \A m \in Submission : sub'[m] = None \/ sub'[m].verdict = "PENDING" =>
                              m # n /\ (sub[m] = None \/ sub[m].verdict = "PENDING")
    BY <1>7
  <2> QED BY <1>1, <1>6, <2>1 DEF InTurn, Verdicts
<1>11. post' = [post EXCEPT ![q][i] = Makes("REJECTED")]
  BY <1>6 DEF Makes
<1>12. /\ noted \subseteq noted'
       /\ \A r \in Promoter, k \in Nat : <<"missed", r, k>> \in noted' => <<"missed", r, k>> \in noted
  BY <1>6
<1> QED BY <1>1, <1>2, <1>3, <1>4, <1>7, <1>8, <1>9, <1>10, <1>11, <1>12, WriteTurn

LEMMA CommitTurn ==
  ASSUME IInv, InTurn, NEW w \in Worker, Commit(w)
  PROVE  InTurn' /\ KeepsFinal
<1> DEFINE plan == job[w].plan
<1>1. pc[w] = "commit" /\ pc[w] \in Reviewing /\ UNCHANGED <<posted, claims, dings, run>>
  BY DEF Commit, moneyVars, missVars, Reviewing
<1>2. PICK n \in Submission : n = job[w].sub /\ Stands(n) /\ sub[n].verdict = "PENDING" /\ sub[n] \in Proof
  BY <1>1, InReview
<1>3. PICK q \in Promoter : q = sub[n].promoter /\ job[w].seen = post[q]
  BY <1>1, <1>2, InReview
<1>4. PICK i \in DOMAIN post[q] : i = sub[n].post
  BY <1>1, <1>2, <1>3, InReview
<1>5. ~(plan.fulfil /\ <<"fulfilled">> \in noted)
  <2>1. plan.fulfil => campaign.status = "LIVE"
    BY <1>1 DEF InTurn, Reads
  <2> QED BY <2>1 DEF InTurn, Verdicts
<1> DEFINE p == [post[q] EXCEPT ![i] = "APPROVED"]
<1>6. /\ sub' = [sub EXCEPT ![n].verdict = "APPROVED", ![n].views = job[w].views]
      /\ post' = [post EXCEPT ![q][i] = "APPROVED"]
      /\ asg' = [asg EXCEPT ![q].status = Rollup(p),
                            ![q].stamped = @ \/ (Rollup(p) = "PAID" /\ ~job[w].stamped)]
      /\ noted' = noted \cup {<<"approved", n>>} \cup (IF plan.fulfil THEN {<<"fulfilled">>} ELSE {})
      /\ campaign' = [campaign EXCEPT !.total = @ + plan.open,
                                      !.status = IF plan.fulfil THEN "FULFILLED" ELSE @]
      /\ IF plan.fulfil /\ plan.book THEN Goto(w, "remainder", None) ELSE Done(w)
  BY <1>2, <1>3, <1>4, <1>5 DEF Commit
<1>7. PICK place \in {"idle", "remainder"} : Goto(w, place, None)
  BY <1>6 DEF Done
<1>8. /\ sub'[n] # None /\ sub'[n].promoter = q /\ sub'[n].post = i /\ sub'[n].verdict = "APPROVED"
      /\ \A m \in Submission \ {n} : sub'[m] = sub[m]
  <2> DEFINE r == [sub[n] EXCEPT !.verdict = "APPROVED", !.views = job[w].views]
  <2>1. job[w].views \in Views
    BY <1>1, JobsAre DEF IInv, Reviewing
  <2>2. r \in Proof /\ r.promoter = q /\ r.post = i /\ r.verdict = "APPROVED"
    BY <1>2, <1>3, <1>4, <2>1 DEF Proof
  <2>3. sub' = [sub EXCEPT ![n] = r]
    BY <1>6 DEF IInv, TypeOK
  <2> HIDE DEF r
  <2> QED BY <2>2, <2>3, DeliveryAssumption DEF IInv, TypeOK
<1>9. asg'[q].status = Rollup(post'[q]) /\ \A r \in Promoter \ {q} : asg'[r] = asg[r]
  <2>1. post'[q] = p
    BY <1>6 DEF IInv, TypeOK
  <2> HIDE DEF p
  <2>2. asg \in [Promoter -> [status: {None, "IN_PROGRESS", "SUBMITTED", "PAID", "CANCELLED"},
                              slot: {None} \cup SlotId, stamped: BOOLEAN]]
    BY DEF IInv, TypeOK
  <2> DEFINE b == asg[q].stamped \/ (Rollup(p) = "PAID" /\ ~job[w].stamped)
  <2>3. asg' = [asg EXCEPT ![q] = [asg[q] EXCEPT !.status = Rollup(p), !.stamped = b]]
    BY <1>6, <2>2
  <2> HIDE DEF b
  <2> QED BY <2>1, <2>2, <2>3
<1> HIDE DEF p
<1>10. PaidOnce'
  <2>1. \A key \in posted : /\ key[1] \in Submission /\ sub[key[1]] # None
                            /\ sub[key[1]].verdict = "APPROVED" \/ key[1] = n
    <3>1. \A x \in Worker : pc[x] \in Paying => x = w
      BY <1>1, Solo DEF InTurn, Paying
    <3> QED BY <1>2, <3>1 DEF InTurn, PaidOnce
  <2>2. \A key \in posted : sub'[key[1]] # None /\ sub'[key[1]].verdict = "APPROVED"
    BY <1>8, <2>1
  <2> QED BY <1>1, <2>1, <2>2 DEF InTurn, PaidOnce
<1>11. Verdicts'
  <2>1. \A m \in Submission : sub'[m] = None \/ sub'[m].verdict = "PENDING" =>
                              m # n /\ (sub[m] = None \/ sub[m].verdict = "PENDING")
    BY <1>8
  <2>2. \A m \in Submission \ {n} : /\ <<"approved", m>> \in noted' => <<"approved", m>> \in noted
                                    /\ <<"rejected", m>> \in noted' => <<"rejected", m>> \in noted
    BY <1>6
  <2>3. <<"fulfilled">> \in noted' => campaign'.status = "FULFILLED"
    <3>1. campaign' = [[campaign EXCEPT !.total = @ + plan.open]
                          EXCEPT !.status = IF plan.fulfil THEN "FULFILLED" ELSE campaign.status]
      BY <1>6 DEF IInv, TypeOK
    <3>2. campaign'.status = IF plan.fulfil THEN "FULFILLED" ELSE campaign.status
      BY <3>1 DEF IInv, TypeOK
    <3>3. CASE plan.fulfil
      BY <3>2, <3>3
    <3>4. CASE ~plan.fulfil
      <4>1. <<"fulfilled">> \in noted' => <<"fulfilled">> \in noted
        BY <1>6, <3>4
      <4> QED BY <3>2, <3>4, <4>1 DEF InTurn, Verdicts
    <3> QED BY <3>3, <3>4
  <2> QED BY <2>1, <2>2, <2>3 DEF InTurn, Verdicts
<1>12. post' = [post EXCEPT ![q][i] = Makes("APPROVED")]
  BY <1>6 DEF Makes
<1>13. /\ noted \subseteq noted'
       /\ \A r \in Promoter, k \in Nat : <<"missed", r, k>> \in noted' => <<"missed", r, k>> \in noted
  BY <1>6
<1> QED BY <1>1, <1>2, <1>3, <1>4, <1>7, <1>8, <1>9, <1>10, <1>11, <1>12, <1>13, WriteTurn

\* accept(): the assignment is new, and nothing under way knows of it.
LEMMA AcceptTurn ==
  ASSUME IInv, IInv', InTurn, NEW q \in Promoter, NEW s \in SlotId, Accept(q, s)
  PROVE  InTurn' /\ KeepsFinal
<1> DEFINE laid == [i \in 1 .. Greatest(1, slot[s].posts) |-> "PENDING"]
           taken == [status |-> "IN_PROGRESS", slot |-> s, stamped |-> FALSE]
<1>1. /\ TypeOK /\ Holding(q) /\ offer[q] = "SENT" /\ slot[s].status = "OPEN"
      /\ UNCHANGED <<sub, posted, noted, claims, dings, pc, job, run>>
  BY DEF IInv, Accept, moneyVars, missVars
<1>2. asg[q].status = None /\ DOMAIN post[q] = {} /\ ~Pulled(q)
  BY <1>1 DEF Holding
<1>3. laid \in Schedule /\ DOMAIN laid # {} /\ \A i \in DOMAIN laid : laid[i] = "PENDING"
  <2>1. slot[s].posts \in 1 .. Posts /\ "PENDING" \in PostStatus
    BY <1>1, RowsAre DEF PostStatus
  <2> QED BY <2>1, LaidOut
<1> HIDE DEF laid
<1>4. post'[q] = laid /\ \A p \in Promoter \ {q} : post'[p] = post[p]
  <2>1. post' = [post EXCEPT ![q] = laid]
    BY DEF Accept, laid
  <2> QED BY <1>1, <2>1 DEF TypeOK
<1>5. asg'[q].status = "IN_PROGRESS" /\ \A p \in Promoter \ {q} : asg'[p] = asg[p]
  <2>1. asg' = [asg EXCEPT ![q] = taken] /\ taken.status = "IN_PROGRESS"
    BY DEF Accept
  <2> HIDE DEF taken
  <2> QED BY <1>1, <2>1 DEF TypeOK
<1>6. campaign'.status = campaign.status
  BY <1>1 DEF Accept, TypeOK
<1>7. \A n \in Submission : sub[n] # None => /\ sub[n].promoter \in Promoter \ {q}
                                             /\ post'[sub[n].promoter] = post[sub[n].promoter]
  BY <1>1, <1>2, <1>4, RowsAre DEF IInv, Fits
<1>8. ProofsMatch'
  <2>1. \A n \in Submission : Stands(n)' <=> Stands(n)
    BY <1>1 DEF Stands
  <2>2. \A n \in Submission : Stands(n) => post'[sub[n].promoter] = post[sub[n].promoter]
    BY <1>7 DEF Stands
  <2>3. ASSUME NEW p \in Promoter, NEW i \in DOMAIN post'[p], post'[p][i] \in {"SUBMITTED", "APPROVED"}
        PROVE  \E n \in Submission : Stands(n) /\ sub[n].promoter = p /\ sub[n].post = i
    <3>1. p # q
      BY <1>3, <1>4, <2>3
    <3> QED BY <1>4, <2>3, <3>1 DEF InTurn, ProofsMatch
  <2> QED BY <1>1, <2>1, <2>2, <2>3 DEF InTurn, ProofsMatch
<1>9. PaidOnce' /\ Verdicts' /\ Alone'
  BY <1>1, <1>6 DEF InTurn, PaidOnce, Verdicts, Alone, Paying
<1>10. ASSUME NEW w \in Worker PROVE Reads(w)'
  <2>1. Reads(w) /\ Sees(w)
    BY DEF IInv, InTurn
  <2>2. pc[w] = "submit" => job[w].promoter \in Promoter \ {q}
    BY <1>1, <1>2, <2>1, JobsAre DEF Sees
  <2>3. pc[w] \in Reviewing => post'[sub[job[w].sub].promoter] = post[sub[job[w].sub].promoter]
    BY <1>1, <1>7, <2>1, JobsAre DEF Sees
  <2> QED BY <1>1, <1>4, <1>6, <2>1, <2>2, <2>3 DEF Reads
<1>11. ASSUME NEW z \in Sweeper PROVE Listed(z)'
  <2>1. Listed(z) /\ Sweeps(z)
    BY DEF IInv, InTurn
  <2>2. \A p \in Promoter : asg[p].status # "CANCELLED" => asg'[p].status # "CANCELLED"
    BY <1>5
  <2>3. run[z] # None => \A e \in run[z].todo : e[1] \in Promoter \ {q}
    BY <1>1, <1>2, <2>1, RunsAre DEF Sweeps
  <2>4. run[z] # None /\ run[z].place = "write" => run[z].promoter \in Promoter \ {q}
    BY <1>2, <2>1 DEF Sweeps
  <2> QED BY <1>1, <1>4, <2>1, <2>2, <2>3, <2>4 DEF Listed
<1>12. MissesNoted'
  <2> SUFFICES ASSUME NEW p \in Promoter, NEW k \in Nat, <<"missed", p, k>> \in noted, NEW z \in Sweeper
               PROVE  k + Has(z, p) <= Misses(post'[p])
    BY <1>1 DEF MissesNoted, Has
  <2>1. k + Has(z, p) <= Misses(post[p]) /\ Has(z, p) \in Nat
    BY <1>1, HasIsNat DEF InTurn, MissesNoted
  <2>2. CASE p = q
    <3>1. {i \in DOMAIN post[q] : post[q][i] = "MISSED"} = {}
      BY <1>2
    <3>2. Misses(post[q]) = 0
      BY <3>1, FS_EmptySet DEF Misses
    <3>3. Misses(post'[q]) \in Nat
      BY <1>3, <1>4, DeficitIs
    <3> QED BY <2>1, <2>2, <3>2, <3>3
  <2>3. CASE p # q
    BY <1>4, <2>1, <2>3
  <2> QED BY <2>2, <2>3
<1>13. Settled'
  <2>1. Agrees(q)'
    <3>1. Rollup(laid) = "IN_PROGRESS"
      BY <1>3 DEF Rollup, PostStatus, Submittable
    <3> QED BY <1>4, <1>5, <3>1 DEF Agrees
  <2>2. \A p \in Promoter \ {q} : (Agrees(p)' <=> Agrees(p)) /\ (Revived(p)' <=> Revived(p))
    BY <1>1, <1>4, <1>5 DEF Agrees, Revived
  <2>3. ~Revived(q)' /\ ~Revived(q)
    BY <1>1, <1>2 DEF Revived, Pulled
  <2>4. \A p \in Promoter, z \in Sweeper : Has(z, p)' = Has(z, p)
    BY <1>1 DEF Has
  <2> SUFFICES ASSUME \A r \in Promoter : ~Revived(r)', NEW p \in Promoter
               PROVE  /\ Agrees(p)' \/ \E z \in Sweeper : Has(z, p)' > 0
                      /\ \A z \in Sweeper : run'[z] # None => dings'[p] + Has(z, p)' = claims'[p]
                      /\ (\A z \in Sweeper : run'[z] = None) => dings'[p] = claims'[p]
    BY DEF Settled
  <2>5. \A r \in Promoter : ~Revived(r)
    BY <2>2, <2>3
  <2>6. /\ Agrees(p) \/ \E z \in Sweeper : Has(z, p) > 0
        /\ \A z \in Sweeper : run[z] # None => dings[p] + Has(z, p) = claims[p]
        /\ (\A z \in Sweeper : run[z] = None) => dings[p] = claims[p]
    BY <2>5 DEF InTurn, Settled
  <2>7. Agrees(p)' \/ \E z \in Sweeper : Has(z, p)' > 0
    BY <2>1, <2>2, <2>4, <2>6
  <2> QED BY <1>1, <2>4, <2>6, <2>7
<1>14. KeepsFinal
  BY <1>1, <1>2, <1>4 DEF KeepsFinal
<1> QED BY <1>8, <1>9, <1>10, <1>11, <1>12, <1>13, <1>14 DEF InTurn

\* A step that changes an offer at most.
LEMMA OfferTurn ==
  ASSUME InTurn, UNCHANGED <<campaign, asg, post, sub, posted, noted, claims, dings, pc, job, run>>
  PROVE  InTurn'
<1>1. Alone' /\ ProofsMatch' /\ PaidOnce' /\ Verdicts'
  BY DEF InTurn, Alone, ProofsMatch, Stands, PaidOnce, Verdicts
<1>2. MissesNoted' /\ Settled'
  BY DEF InTurn, MissesNoted, Settled, Has, Agrees, Revived
<1>3. (\A w \in Worker : Reads(w)') /\ (\A z \in Sweeper : Listed(z)')
  BY DEF InTurn, Reads, Listed
<1> QED BY <1>1, <1>2, <1>3 DEF InTurn

\* Statuses agree but for what the only sweep has in hand.
LEMMA WasSettled ==
  ASSUME InTurn, NEW z \in Sweeper, \A y \in Sweeper \ {z} : run[y] = None,
         \A r \in Promoter : ~Revived(r), NEW q \in Promoter
  PROVE  Agrees(q) \/ Has(z, q) > 0
<1>1. Agrees(q) \/ \E y \in Sweeper : Has(y, q) > 0
  BY DEF InTurn, Settled
<1>2. \A y \in Sweeper \ {z} : ~(Has(y, q) > 0)
  BY DEF Has
<1> QED BY <1>1, <1>2

LEMMA SweepListTurn ==
  ASSUME IInv, IInv', InTurn, Serial, NEW z \in Sweeper, NEW passed \in [Promoter -> 0 .. Posts],
         SweepList(z, passed)
  PROVE  InTurn'
<1> DEFINE r == [place |-> "claim", todo |-> Overdue(passed), won |-> [q \in Promoter |-> 0],
                 promoter |-> None, seen |-> <<>>, slot |-> None]
<1>1. /\ run[z] = None /\ Continue(z, r)
      /\ UNCHANGED <<campaign, asg, post, sub, posted, noted, claims, dings, pc, job>>
  BY DEF SweepList, poolVars, moneyVars, missVars
<1>2. (\A x \in Worker : pc[x] = "idle") /\ (\A y \in Sweeper : run[y] = None)
  BY DEF SweepList, Resting
<1>3. /\ r.place = "claim" /\ \A q \in Promoter : r.won[q] = 0
      /\ \A e \in r.todo : asg[e[1]].status # "CANCELLED" /\ e[2] \in DOMAIN post[e[1]]
  BY DEF Overdue
<1>4. r \in Working
  <2>1. Overdue(passed) \in SUBSET (Promoter \X (1 .. Posts))
    BY DEF Overdue
  <2> QED BY <2>1, NoPosts DEF Working
<1> HIDE DEF r
<1>5. /\ \A q \in Promoter : Has(z, q)' = 0 /\ Has(z, q) = 0
      /\ \A y \in Sweeper \ {z} : run'[y] = run[y]
      /\ run'[z] \in {r, None}
  BY <1>1, <1>3, <1>4, HasNow, SweeperContinues DEF IInv, Has
<1>6. Listed(z)'
  BY <1>1, <1>3, <1>5 DEF Listed
<1>7. ProofsMatch' /\ \A q \in Promoter : (Revived(q)' <=> Revived(q)) /\ (Agrees(q)' <=> Agrees(q))
  BY <1>1 DEF InTurn, ProofsMatch, Stands, Revived, Agrees
<1>8. ASSUME NEW q \in Promoter, NEW k \in Nat, <<"missed", q, k>> \in noted'
      PROVE  k + Has(z, q)' <= Misses(post'[q])
  <2>1. k + Has(z, q) <= Misses(post[q])
    BY <1>1, <1>8 DEF InTurn, MissesNoted
  <2> QED BY <1>1, <1>5, <2>1
<1>9. ASSUME \A p \in Promoter : ~Revived(p)', NEW q \in Promoter
      PROVE  /\ Agrees(q)' \/ Has(z, q)' > 0
             /\ dings'[q] + Has(z, q)' + claims[q] = dings[q] + Has(z, q) + claims'[q]
  <2>1. Agrees(q)
    BY <1>2, <1>5, <1>7, <1>9, WasSettled
  <2> QED BY <1>1, <1>5, <1>7, <2>1
<1> QED BY <1>1, <1>2, <1>5, <1>6, <1>7, <1>8, <1>9, SweepTurn

\* A post is missed that no proof stands for.
LEMMA Forfeits ==
  ASSUME IInv, InTurn, sub' = sub, NEW q \in Promoter, \A p \in Promoter \ {q} : post'[p] = post[p],
         DOMAIN post'[q] = DOMAIN post[q],
         \A j \in DOMAIN post[q] : \/ post'[q][j] = post[q][j]
                                   \/ post[q][j] \in Submittable /\ post'[q][j] = "MISSED"
  PROVE  ProofsMatch' /\ KeepsFinal
<1>1. \A p \in Promoter : /\ DOMAIN post'[p] = DOMAIN post[p]
                          /\ \A j \in DOMAIN post[p] :
                               \/ post'[p][j] = post[p][j]
                               \/ post[p][j] \in Submittable /\ post'[p][j] = "MISSED"
  OBVIOUS
<1>2. \A n \in Submission : Stands(n)' <=> Stands(n)
  BY DEF Stands
<1>3. ASSUME NEW n \in Submission, Stands(n)
      PROVE  post'[sub[n].promoter][sub[n].post] = post[sub[n].promoter][sub[n].post]
  <2>1. sub[n].promoter \in Promoter /\ sub[n].post \in DOMAIN post[sub[n].promoter]
    BY <1>3, RowsAre DEF IInv, Fits, Stands
  <2>2. post[sub[n].promoter][sub[n].post] \in {"SUBMITTED", "APPROVED"}
    BY <1>3 DEF InTurn, ProofsMatch
  <2> QED BY <1>1, <2>1, <2>2 DEF Submittable
<1>4. ASSUME NEW p \in Promoter, NEW j \in DOMAIN post'[p], post'[p][j] \in {"SUBMITTED", "APPROVED"}
      PROVE  \E n \in Submission : Stands(n) /\ sub[n].promoter = p /\ sub[n].post = j
  <2>1. j \in DOMAIN post[p] /\ post[p][j] \in {"SUBMITTED", "APPROVED"}
    BY <1>1, <1>4
  <2> QED BY <2>1 DEF InTurn, ProofsMatch
<1>5. ProofsMatch'
  BY <1>2, <1>3, <1>4 DEF InTurn, ProofsMatch
<1>6. KeepsFinal
  BY <1>1 DEF KeepsFinal, Submittable
<1> QED BY <1>5, <1>6

\* A claim is one more miss and one more in hand.
LEMMA ClaimTurn ==
  ASSUME IInv, IInv', InTurn, NEW z \in Sweeper, NEW q \in Promoter, NEW i \in 1 .. Posts,
         Claim(z, q, i)
  PROVE  InTurn' /\ KeepsFinal
<1> DEFINE rest == [run[z] EXCEPT !.todo = @ \ {<<q, i>>}]
           won == [run[z].won EXCEPT ![q] = run[z].won[q] + 1]
           more == [rest EXCEPT !.won = won]
<1>1. /\ TypeOK /\ run[z] # None /\ run[z].place = "claim" /\ <<q, i>> \in run[z].todo
      /\ UNCHANGED <<campaign, asg, sub, posted, noted, dings, pc, job>>
  BY DEF IInv, Claim, poolVars, moneyVars
<1>2. /\ (\A x \in Worker : pc[x] = "idle") /\ (\A y \in Sweeper \ {z} : run[y] = None)
      /\ Listed(z)
  BY <1>1, SweepsSolo DEF InTurn
<1>3. run[z] \in Working /\ run[z].won \in [Promoter -> Nat]
  BY <1>1, RunsAre
<1>4. rest \in Working /\ rest.won = run[z].won /\ rest.place = "claim" /\ rest.todo \subseteq run[z].todo
  BY <1>1, <1>3 DEF Working
<1>5. /\ won \in [Promoter -> Nat] /\ won[q] = run[z].won[q] + 1
      /\ \A p \in Promoter \ {q} : won[p] = run[z].won[p]
  BY <1>3
<1>6. more \in Working /\ more.won = won /\ more.place = "claim" /\ more.todo \subseteq run[z].todo
  <2> HIDE DEF won, rest
  <2> QED BY <1>4, <1>5 DEF Working
<1>7. \A p \in Promoter : /\ Has(z, p) = run[z].won[p] /\ Has(z, p) \in Nat
                          /\ dings[p] \in Nat /\ claims[p] \in Nat
  BY <1>1, <1>3 DEF Has, TypeOK
<1>8. asg[q].status # "CANCELLED" /\ i \in DOMAIN post[q]
  <2>1. <<q, i>>[1] = q /\ <<q, i>>[2] = i
    OBVIOUS
  <2> QED BY <1>1, <1>2, <2>1 DEF Listed
<1>9. \A p \in Promoter : Revived(p)' <=> Revived(p)
  BY <1>1 DEF Revived
<1> HIDE DEF rest, won, more
<1>10. CASE post[q][i] \in Submittable
  <2>1. post' = [post EXCEPT ![q][i] = "MISSED"] /\ claims' = [claims EXCEPT ![q] = @ + 1]
        /\ Continue(z, more)
    BY <1>4, <1>10 DEF Claim, rest, more, won
  <2>2. /\ \A p \in Promoter : Has(z, p)' = won[p]
        /\ \A y \in Sweeper \ {z} : run'[y] = run[y]
        /\ run'[z] \in {more, None}
    BY <1>1, <1>6, <2>1, HasNow, SweeperContinues
  <2>3. /\ post'[q][i] = "MISSED" /\ DOMAIN post'[q] = DOMAIN post[q]
        /\ \A j \in DOMAIN post[q] \ {i} : post'[q][j] = post[q][j]
        /\ \A p \in Promoter \ {q} : post'[p] = post[p]
    <3>1. \A p \in Promoter : DOMAIN post'[p] = DOMAIN post[p]
      BY <1>1, <2>1, PostMarked DEF PostStatus
    <3> QED BY <1>1, <1>8, <2>1, <3>1 DEF TypeOK
  <2>4. /\ Misses(post[q]) \in Nat /\ Misses(post'[q]) = Misses(post[q]) + 1
        /\ \A p \in Promoter \ {q} : Misses(post'[p]) = Misses(post[p])
    <3> DEFINE was == {j \in DOMAIN post[q] : post[q][j] = "MISSED"}
    <3>1. post[q] \in Schedule /\ IsFiniteSet(DOMAIN post[q])
      BY <1>1, RowsAre, Posting
    <3>2. IsFiniteSet(was)
      BY <3>1, FS_Subset
    <3>3. i \notin was
      BY <1>10 DEF Submittable
    <3>4. {j \in DOMAIN post'[q] : post'[q][j] = "MISSED"} = was \cup {i}
      BY <1>8, <2>3
    <3>5. Misses(post'[q]) = Cardinality(was \cup {i}) /\ Misses(post[q]) = Cardinality(was)
      BY <3>4 DEF Misses
    <3> HIDE DEF was
    <3>6. Misses(post'[q]) = Misses(post[q]) + 1
      BY <3>2, <3>3, <3>5, FS_AddElement
    <3> QED BY <2>3, <3>1, <3>6, DeficitIs
  <2>5. ProofsMatch' /\ KeepsFinal
    BY <1>1, <1>10, <2>3, Forfeits
  <2>6. Listed(z)'
    <3>1. run'[z] # None => run'[z] = more
      BY <2>2
    <3>2. \A e \in run[z].todo : e[1] \in Promoter
      BY <1>3 DEF Working
    <3>3. \A e \in more.todo : asg[e[1]].status # "CANCELLED" /\ e[2] \in DOMAIN post'[e[1]]
      BY <1>1, <1>2, <1>6, <2>3, <3>2 DEF Listed
    <3>4. \A p \in Promoter : more.won[p] > 0 => asg[p].status # "CANCELLED"
      BY <1>1, <1>2, <1>5, <1>6, <1>8 DEF Listed
    <3> QED BY <1>1, <1>6, <3>1, <3>3, <3>4 DEF Listed
  <2>7. /\ Has(z, q)' = Has(z, q) + 1
        /\ \A p \in Promoter \ {q} : Has(z, p)' = Has(z, p)
    BY <1>5, <1>7, <2>2
  <2>8. ASSUME NEW p \in Promoter, NEW k \in Nat, <<"missed", p, k>> \in noted'
        PROVE  k + Has(z, p)' <= Misses(post'[p])
    <3>1. k + Has(z, p) <= Misses(post[p])
      BY <1>1, <2>8 DEF InTurn, MissesNoted
    <3>2. CASE p = q
      BY <1>7, <2>4, <2>7, <3>1, <3>2
    <3>3. CASE p # q
      BY <2>4, <2>7, <3>1, <3>3
    <3> QED BY <3>2, <3>3
  <2>9. ASSUME \A p \in Promoter : ~Revived(p)', NEW p \in Promoter
        PROVE  /\ Agrees(p)' \/ Has(z, p)' > 0
               /\ dings'[p] + Has(z, p)' + claims[p] = dings[p] + Has(z, p) + claims'[p]
    <3>1. claims'[q] = claims[q] + 1 /\ \A r \in Promoter \ {q} : claims'[r] = claims[r]
      BY <1>1, <2>1 DEF TypeOK
    <3>2. CASE p = q
      BY <1>1, <1>7, <2>7, <3>1, <3>2
    <3>3. CASE p # q
      <4>1. Agrees(p) \/ Has(z, p) > 0
        BY <1>2, <1>9, <2>9, WasSettled
      <4>2. Agrees(p)' <=> Agrees(p)
        BY <1>1, <2>3, <3>3 DEF Agrees
      <4> QED BY <1>1, <1>7, <2>7, <3>1, <3>3, <4>1, <4>2
    <3> QED BY <3>2, <3>3
  <2> QED BY <1>1, <1>2, <1>9, <2>2, <2>5, <2>6, <2>8, <2>9, SweepTurn
<1>11. CASE post[q][i] \notin Submittable
  <2>1. Continue(z, rest) /\ UNCHANGED <<post, claims>>
    BY <1>11 DEF Claim, rest
  <2>2. /\ \A p \in Promoter : Has(z, p)' = Has(z, p)
        /\ \A y \in Sweeper \ {z} : run'[y] = run[y]
        /\ run'[z] \in {rest, None}
    BY <1>1, <1>4, <1>7, <2>1, HasNow, SweeperContinues
  <2>3. Listed(z)'
    BY <1>1, <1>2, <1>4, <2>1, <2>2 DEF Listed
  <2>4. ProofsMatch' /\ \A p \in Promoter : Agrees(p)' <=> Agrees(p)
    BY <1>1, <2>1 DEF InTurn, ProofsMatch, Stands, Agrees
  <2>5. ASSUME NEW p \in Promoter, NEW k \in Nat, <<"missed", p, k>> \in noted'
        PROVE  k + Has(z, p)' <= Misses(post'[p])
    <3>1. k + Has(z, p) <= Misses(post[p])
      BY <1>1, <2>5 DEF InTurn, MissesNoted
    <3> QED BY <2>1, <2>2, <3>1
  <2>6. ASSUME \A p \in Promoter : ~Revived(p)', NEW p \in Promoter
        PROVE  /\ Agrees(p)' \/ Has(z, p)' > 0
               /\ dings'[p] + Has(z, p)' + claims[p] = dings[p] + Has(z, p) + claims'[p]
    <3>1. Agrees(p) \/ Has(z, p) > 0
      BY <1>2, <1>9, <2>6, WasSettled
    <3> QED BY <1>1, <2>1, <2>2, <2>4, <3>1
  <2>7. KeepsFinal
    BY <1>1, <2>1 DEF KeepsFinal
  <2> QED BY <1>1, <1>2, <1>9, <2>2, <2>3, <2>4, <2>5, <2>6, <2>7, SweepTurn
<1> QED BY <1>10, <1>11

\* What is in hand is not CANCELLED, so the sweep goes on to write.
LEMMA ReconcileReadTurn ==
  ASSUME IInv, IInv', InTurn, NEW z \in Sweeper, NEW q \in Promoter, ReconcileRead(z, q)
  PROVE  InTurn'
<1> DEFINE r == [run[z] EXCEPT !.place = "write", !.promoter = q, !.seen = post[q], !.slot = asg[q].slot]
<1>1. /\ TypeOK /\ run[z] # None /\ run[z].todo = {} /\ run[z].won[q] > 0
      /\ UNCHANGED <<campaign, asg, post, sub, posted, noted, claims, dings, pc, job>>
  BY DEF IInv, ReconcileRead, poolVars, moneyVars, missVars
<1>2. /\ (\A x \in Worker : pc[x] = "idle") /\ (\A y \in Sweeper \ {z} : run[y] = None)
      /\ Listed(z)
  BY <1>1, SweepsSolo DEF InTurn
<1>3. asg[q].status # "CANCELLED"
  BY <1>1, <1>2 DEF Listed
<1>4. run' = [run EXCEPT ![z] = r]
  BY <1>3 DEF ReconcileRead
<1>5. /\ r.won = run[z].won /\ r.todo = run[z].todo /\ r.place = "write"
      /\ r.promoter = q /\ r.seen = post[q] /\ r # None
  <2>1. run[z] \in Working /\ post[q] \in Schedule /\ asg[q].slot \in {None} \cup SlotId
    BY <1>1, RunsAre, RowsAre
  <2>2. r \in Working
    BY <2>1 DEF Working
  <2> QED BY <2>1, <2>2, DeliveryAssumption DEF Working
<1> HIDE DEF r
<1>6. run'[z] = r /\ \A y \in Sweeper \ {z} : run'[y] = run[y]
  BY <1>1, <1>4 DEF TypeOK
<1>7. Listed(z)'
  <2>1. \A p \in Promoter : r.won[p] > 0 => asg[p].status # "CANCELLED"
    BY <1>1, <1>2, <1>5 DEF Listed
  <2> QED BY <1>1, <1>5, <1>6, <2>1 DEF Listed
<1>8. /\ ProofsMatch'
      /\ \A p \in Promoter : (Revived(p)' <=> Revived(p)) /\ (Agrees(p)' <=> Agrees(p))
  BY <1>1 DEF InTurn, ProofsMatch, Stands, Revived, Agrees
<1>9. \A p \in Promoter : Has(z, p)' = Has(z, p)
  BY <1>1, <1>5, <1>6 DEF Has
<1>10. ASSUME NEW p \in Promoter, NEW k \in Nat, <<"missed", p, k>> \in noted'
       PROVE  k + Has(z, p)' <= Misses(post'[p])
  <2>1. k + Has(z, p) <= Misses(post[p])
    BY <1>1, <1>10 DEF InTurn, MissesNoted
  <2> QED BY <1>1, <1>9, <2>1
<1>11. ASSUME \A p \in Promoter : ~Revived(p)', NEW p \in Promoter
       PROVE  /\ Agrees(p)' \/ Has(z, p)' > 0
              /\ dings'[p] + Has(z, p)' + claims[p] = dings[p] + Has(z, p) + claims'[p]
  <2>1. Agrees(p) \/ Has(z, p) > 0
    BY <1>2, <1>8, <1>11, WasSettled
  <2> QED BY <1>1, <1>8, <1>9, <2>1
<1> QED BY <1>1, <1>2, <1>6, <1>7, <1>8, <1>10, <1>11, SweepTurn

\* The penalty: what was won is dealt with, and the status is that of the posts.
LEMMA ReconcileWriteTurn ==
  ASSUME IInv, IInv', InTurn, NEW z \in Sweeper, ReconcileWrite(z)
  PROVE  InTurn' /\ KeepsFinal
<1>1. /\ TypeOK /\ run[z] # None /\ run[z].place = "write"
      /\ UNCHANGED <<sub, posted, claims, pc, job>>
  BY DEF IInv, ReconcileWrite, moneyVars
<1>2. /\ (\A x \in Worker : pc[x] = "idle") /\ (\A y \in Sweeper \ {z} : run[y] = None)
      /\ Listed(z) /\ Sweeps(z)
  BY <1>1, SweepsSolo DEF IInv, InTurn
<1>3. run[z] \in Working /\ run[z].won \in [Promoter -> Nat]
  BY <1>1, RunsAre
<1>4. PICK q \in Promoter : q = run[z].promoter
  BY <1>1, <1>2 DEF Sweeps
<1> DEFINE sched == run[z].seen
           pulled == ShouldReallocate(sched)
           key == IF pulled THEN <<"cancelled", q>> ELSE <<"missed", q, Misses(sched)>>
           won == [run[z].won EXCEPT ![q] = 0]
           r == [run[z] EXCEPT !.place = "claim", !.won = won, !.promoter = None,
                               !.seen = <<>>, !.slot = None]
<1>5. /\ sched = post[q] /\ run[z].todo = {} /\ run[z].won[q] > 0 /\ asg[q].status # "CANCELLED"
      /\ \A p \in Promoter : run[z].won[p] > 0 => asg[p].status # "CANCELLED"
  BY <1>1, <1>2, <1>4 DEF Listed
<1>6. post[q] \in Schedule /\ DOMAIN post[q] # {} /\ IsFiniteSet(DOMAIN post[q])
  BY <1>1, <1>2, <1>4, <1>5, RowsAre, Posting DEF Sweeps
<1>7. \A p \in Promoter : /\ Has(z, p) = run[z].won[p] /\ Has(z, p) \in Nat /\ Misses(post[p]) \in Nat
                          /\ dings[p] \in Nat /\ claims[p] \in Nat
  BY <1>1, <1>3, RowsAre, DeficitIs DEF Has, TypeOK
<1>8. \A p \in Promoter, k \in Nat : <<"missed", p, k>> \in noted => k + Has(z, p) <= Misses(post[p])
  BY DEF InTurn, MissesNoted
<1>9. CASE key \in noted
  <2>1. /\ run' = [run EXCEPT ![z] = None] /\ UNCHANGED <<asg, post, campaign, dings, noted>>
    BY <1>4, <1>9 DEF ReconcileWrite
  <2>2. run'[z] = None /\ (\A y \in Sweeper \ {z} : run'[y] = run[y])
        /\ \A p \in Promoter : Has(z, p)' = 0
    BY <1>1, <2>1 DEF TypeOK, Has
  <2>3. pulled
    <3> SUFFICES ASSUME ~pulled PROVE FALSE
      OBVIOUS
    <3>1. <<"missed", q, Misses(post[q])>> \in noted
      BY <1>5, <1>9
    <3>2. Misses(post[q]) + Has(z, q) <= Misses(post[q])
      BY <1>7, <1>8, <3>1
    <3> QED BY <1>5, <1>7, <3>2
  <2>4. Revived(q) /\ Revived(q)'
    BY <1>5, <1>9, <2>1, <2>3 DEF Revived
  <2>5. Listed(z)'
    BY <2>2 DEF Listed
  <2>6. ProofsMatch' /\ KeepsFinal /\ \A p \in Promoter : Revived(p)' <=> Revived(p)
    BY <1>1, <2>1 DEF InTurn, ProofsMatch, Stands, Revived, KeepsFinal
  <2>7. \A p \in Promoter, k \in Nat : <<"missed", p, k>> \in noted' => k + Has(z, p)' <= Misses(post'[p])
    BY <1>7, <1>8, <2>1, <2>2
  <2> HIDE DEF sched, pulled, key, won, r
  <2> QED BY <1>1, <1>2, <2>1, <2>2, <2>4, <2>5, <2>6, <2>7, SweepTurn
<1>10. CASE key \notin noted
  <2>1. /\ noted' = noted \cup {key} /\ dings' = [dings EXCEPT ![q] = @ + run[z].won[q]]
        /\ Continue(z, r)
    BY <1>4, <1>10 DEF ReconcileWrite
  <2>2. won \in [Promoter -> Nat] /\ won[q] = 0 /\ \A p \in Promoter \ {q} : won[p] = run[z].won[p]
    BY <1>3
  <2>3. r \in Working /\ r.place = "claim" /\ r.todo = {} /\ r.won = won
    <3> HIDE DEF won
    <3> QED BY <1>3, <1>5, <2>2, NoPosts DEF Working
  <2>4. /\ \A y \in Sweeper \ {z} : run'[y] = run[y]
        /\ run'[z] \in {r, None}
        /\ \A p \in Promoter : Has(z, p)' = won[p]
    <3> HIDE DEF won, r
    <3> QED BY <1>1, <2>1, <2>3, HasNow, SweeperContinues
  <2>5. Has(z, q)' = 0 /\ \A p \in Promoter \ {q} : Has(z, p)' = Has(z, p)
    BY <1>7, <2>2, <2>4
  <2>6. /\ dings'[q] = dings[q] + Has(z, q)
        /\ \A p \in Promoter \ {q} : dings'[p] = dings[p]
    BY <1>1, <1>7, <2>1 DEF TypeOK
  <2>7. /\ DOMAIN post'[q] = DOMAIN post[q]
        /\ \A p \in Promoter \ {q} : post'[p] = post[p] /\ asg'[p] = asg[p]
        /\ \A j \in DOMAIN post[q] : \/ post'[q][j] = post[q][j]
                                     \/ post[q][j] \in Submittable /\ post'[q][j] = "MISSED"
        /\ campaign'.status = campaign.status /\ (~pulled => post' = post)
        /\ asg'[q].status = IF pulled THEN "CANCELLED" ELSE Rollup(post[q])
    <3>1. CASE pulled
      <4> DEFINE rest == [j \in DOMAIN post[q] |-> IF post[q][j] \in Submittable THEN "MISSED" ELSE post[q][j]]
                 gone == [asg[q] EXCEPT !.status = "CANCELLED", !.slot = None]
      <4>1. /\ post' = [post EXCEPT ![q] = [j \in DOMAIN @ |-> IF @[j] \in Submittable THEN "MISSED" ELSE @[j]]]
            /\ asg' = [asg EXCEPT ![q].status = "CANCELLED", ![q].slot = None]
            /\ campaign' = campaign \/ campaign' = [campaign EXCEPT !.filled = @ - 1]
        BY <1>4, <1>10, <3>1 DEF ReconcileWrite
      <4>2. post' = [post EXCEPT ![q] = rest] /\ asg' = [asg EXCEPT ![q] = gone]
        BY <1>1, <4>1 DEF TypeOK
      <4>3. gone.status = "CANCELLED"
        BY <1>1 DEF TypeOK
      <4>4. campaign'.status = campaign.status
        BY <1>1, <4>1 DEF TypeOK
      <4>5. /\ DOMAIN rest = DOMAIN post[q]
            /\ \A j \in DOMAIN post[q] : \/ rest[j] = post[q][j]
                                         \/ post[q][j] \in Submittable /\ rest[j] = "MISSED"
        OBVIOUS
      <4> HIDE DEF rest, gone
      <4>6. /\ post'[q] = rest /\ asg'[q] = gone
            /\ \A p \in Promoter \ {q} : post'[p] = post[p] /\ asg'[p] = asg[p]
        BY <1>1, <4>2 DEF TypeOK
      <4> HIDE DEF pulled
      <4> QED BY <3>1, <4>3, <4>4, <4>5, <4>6
    <3>2. CASE ~pulled
      <4>1. asg' = [asg EXCEPT ![q].status = Rollup(sched)] /\ UNCHANGED <<post, campaign>>
        BY <1>4, <1>10, <3>2 DEF ReconcileWrite
      <4> DEFINE st == Rollup(post[q])
      <4>2. asg' = [asg EXCEPT ![q].status = st]
        BY <1>5, <4>1
      <4> HIDE DEF st, sched, pulled, key
      <4>3. asg'[q].status = st /\ \A p \in Promoter \ {q} : asg'[p] = asg[p]
        BY <1>1, <4>2 DEF TypeOK
      <4> QED BY <3>2, <4>1, <4>3 DEF st
    <3> QED BY <3>1, <3>2
  <2>8. ProofsMatch' /\ KeepsFinal
    BY <1>1, <2>7, Forfeits
  <2>9. Listed(z)'
    <3>1. \A p \in Promoter : r.won[p] > 0 => asg'[p].status # "CANCELLED"
      <4> HIDE DEF r, won
      <4> QED BY <1>5, <2>2, <2>3, <2>7
    <3> HIDE DEF r, won
    <3> QED BY <2>3, <2>4, <3>1 DEF Listed
  <2>10. \A p \in Promoter : /\ Misses(post'[p]) \in Nat /\ Misses(post[p]) <= Misses(post'[p])
    <3>1. ASSUME NEW p \in Promoter PROVE post'[p] \in Schedule /\ IsFiniteSet(DOMAIN post'[p])
      <4>1. post'[p] \in Schedule
        BY DEF IInv, TypeOK
      <4> QED BY <4>1, Posting
    <3> DEFINE was == {j \in DOMAIN post[q] : post[q][j] = "MISSED"}
               is == {j \in DOMAIN post'[q] : post'[q][j] = "MISSED"}
    <3>2. was \subseteq is
      BY <2>7
    <3>3. IsFiniteSet(is)
      BY <3>1, FS_Subset
    <3>4. Misses(post[q]) = Cardinality(was) /\ Misses(post'[q]) = Cardinality(is)
      BY DEF Misses
    <3> HIDE DEF was, is
    <3>5. Misses(post[q]) <= Misses(post'[q])
      BY <3>2, <3>3, <3>4, FS_Subset
    <3>6. \A p \in Promoter : Misses(post'[p]) \in Nat
      BY <3>1, DeficitIs
    <3> QED BY <1>7, <2>7, <3>5, <3>6
  <2>11. ASSUME NEW p \in Promoter, NEW k \in Nat, <<"missed", p, k>> \in noted'
         PROVE  k + Has(z, p)' <= Misses(post'[p])
    <3>1. CASE <<"missed", p, k>> \in noted
      <4>1. k + Has(z, p) <= Misses(post[p]) /\ Has(z, p)' <= Has(z, p) /\ Has(z, p)' \in Nat
        BY <1>7, <1>8, <2>5, <3>1
      <4>2. Misses(post[p]) \in Nat /\ Misses(post'[p]) \in Nat /\ Has(z, p) \in Nat
            /\ Misses(post[p]) <= Misses(post'[p])
        BY <1>7, <2>10
      <4> QED BY <4>1, <4>2
    <3>2. CASE <<"missed", p, k>> \notin noted
      <4>1. <<"missed", p, k>> = key
        BY <2>1, <2>11, <3>2
      <4>2. p = q /\ k = Misses(post[q])
        BY <1>5, <4>1
      <4> QED BY <1>7, <2>5, <2>10, <4>2
    <3> QED BY <3>1, <3>2
  <2>12. ASSUME NEW p \in Promoter, Revived(p) PROVE Revived(p)'
    <3>1. CASE p = q
      <4>1. ~pulled
        BY <1>10, <2>12, <3>1 DEF Revived
      <4>2. Rollup(post[q]) # "CANCELLED"
        BY <1>5, <1>6, <4>1, RollupIs, AllMissedIsPulled
      <4> QED BY <2>1, <2>7, <2>12, <3>1, <4>1, <4>2 DEF Revived
    <3>2. CASE p # q
      BY <2>1, <2>7, <2>12, <3>2 DEF Revived
    <3> QED BY <3>1, <3>2
  <2>13. ASSUME \A p \in Promoter : ~Revived(p)', NEW p \in Promoter
         PROVE  /\ Agrees(p)' \/ Has(z, p)' > 0
                /\ dings'[p] + Has(z, p)' + claims[p] = dings[p] + Has(z, p) + claims'[p]
    <3>1. CASE p = q
      <4>1. Agrees(q)'
        BY <2>7 DEF Agrees
      <4> QED BY <1>1, <1>7, <2>5, <2>6, <3>1, <4>1
    <3>2. CASE p # q
      <4>1. \A m \in Promoter : ~Revived(m)
        BY <2>12, <2>13
      <4>2. Agrees(p) \/ Has(z, p) > 0
        BY <1>2, <4>1, WasSettled
      <4>3. Agrees(p)' <=> Agrees(p)
        BY <2>7, <3>2 DEF Agrees
      <4> QED BY <1>1, <2>5, <2>6, <3>2, <4>2, <4>3
    <3> QED BY <3>1, <3>2
  <2>14. /\ \A n \in Submission : /\ <<"approved", n>> \in noted' => <<"approved", n>> \in noted
                                  /\ <<"rejected", n>> \in noted' => <<"rejected", n>> \in noted
         /\ <<"fulfilled">> \in noted' => <<"fulfilled">> \in noted
    BY <2>1
  <2> HIDE DEF sched, pulled, key, won, r
  <2> QED BY <1>1, <1>2, <2>4, <2>7, <2>8, <2>9, <2>11, <2>12, <2>13, <2>14, SweepTurn
<1> QED BY <1>9, <1>10

\* A step of requests and sweeps that do not overlap, in processes that do not die.
LEMMA StepInTurn ==
  ASSUME Serial, MaxCrashes = 0, IInv, IInv', InTurn, [Next]_vars
  PROVE  InTurn' /\ (KeepsFinal \/ UNCHANGED vars)
<1>1. ASSUME UNCHANGED <<post, sub>> PROVE KeepsFinal
  BY <1>1 DEF KeepsFinal
<1>2. ASSUME NEW q \in Promoter, SendOffer(q) \/ ExpireOffer(q) PROVE InTurn' /\ KeepsFinal
  BY <1>1, <1>2, OfferTurn DEF SendOffer, ExpireOffer, moneyVars, missVars
<1>3. ASSUME NEW q \in Promoter, NEW s \in SlotId, Accept(q, s) PROVE InTurn' /\ KeepsFinal
  BY <1>3, AcceptTurn
<1>4. ASSUME NEW w \in Worker, Continuation(w) PROVE InTurn' /\ KeepsFinal
  <2>1. CASE SubmitWrite(w) \/ RejectWrite(w) \/ Commit(w)
    BY <2>1, SubmitWriteTurn, RejectWriteTurn, CommitTurn
  <2>2. CASE \/ DeclineWrite(w) \/ Settle(w) \/ ReadEscrow(w) \/ Decide(w)
             \/ ReadRemainder(w) \/ BookRemainder(w)
    <3>1. UNCHANGED <<post, sub>>
      BY <2>2 DEF DeclineWrite, Settle, ReadEscrow, Decide, ReadRemainder, BookRemainder
    <3> QED BY <1>1, <2>2, <3>1, QuietContinues
  <2> QED BY <1>4, <2>1, <2>2 DEF Continuation
<1>5. ASSUME NEW w \in Worker,
             \/ \E q \in Promoter : DeclineRead(w, q) \/ \E i \in 1 .. Posts : SubmitRead(w, q, i)
             \/ \E n \in Submission : \/ RejectRead(w, n)
                                      \/ \E v \in Views, k \in Attempts : ApproveRead(w, n, v, k)
      PROVE  InTurn' /\ KeepsFinal
  <2>1. UNCHANGED <<post, sub>>
    BY <1>5 DEF DeclineRead, SubmitRead, RejectRead, ApproveRead
  <2> QED BY <1>1, <1>5, <2>1, RequestBeginsInTurn
<1>6. ASSUME NEW z \in Sweeper, Sweep(z) PROVE InTurn' /\ KeepsFinal
  <2>1. ASSUME NEW passed \in [Promoter -> 0 .. Posts], SweepList(z, passed)
        PROVE  InTurn' /\ KeepsFinal
    BY <1>1, <2>1, SweepListTurn DEF SweepList
  <2>2. ASSUME NEW q \in Promoter, ReconcileRead(z, q) PROVE InTurn' /\ KeepsFinal
    BY <1>1, <2>2, ReconcileReadTurn DEF ReconcileRead
  <2> QED BY <1>6, <2>1, <2>2, ReconcileWriteTurn, ClaimTurn DEF Sweep
<1>7. ~Crash
  BY DEF IInv, TypeOK, Crash
<1>8. CASE UNCHANGED vars
  BY <1>8, OfferTurn DEF vars
<1> QED BY <1>2, <1>3, <1>4, <1>5, <1>6, <1>7, <1>8 DEF Next

LEMMA StartsInTurn == Init => InTurn
<1> SUFFICES ASSUME Init PROVE InTurn
  OBVIOUS
<1>1. (\A w \in Worker : pc[w] = "idle") /\ \A z \in Sweeper : run[z] = None
  BY DEF Init
<1>2. /\ \A q \in Promoter : DOMAIN post[q] = {} /\ asg[q].status = None
                             /\ dings[q] = 0 /\ claims[q] = 0
      /\ \A n \in Submission : sub[n] = None
      /\ posted = {} /\ noted = {}
  BY NoPosts DEF Init
<1>3. Alone /\ PaidOnce /\ Verdicts /\ MissesNoted
  BY <1>1, <1>2 DEF Alone, PaidOnce, Verdicts, MissesNoted
<1>4. ProofsMatch
  BY <1>2 DEF ProofsMatch, Stands
<1>5. Settled
  BY <1>1, <1>2 DEF Settled, Agrees
<1>6. (\A w \in Worker : Reads(w)) /\ \A z \in Sweeper : Listed(z)
  BY <1>1 DEF Reads, Reviewing, Listed
<1> QED BY <1>3, <1>4, <1>5, <1>6 DEF InTurn

\* A set with one element, or none.
LEMMA OneOrNone ==
  ASSUME NEW S, NEW b \in BOOLEAN, b => \E x \in S : TRUE, ~b => S = {},
         \A x, y \in S : x = y
  PROVE  Cardinality(S) = IF b THEN 1 ELSE 0
<1>1. CASE b
  <2>1. PICK x \in S : TRUE
    BY <1>1
  <2>2. S = {x}
    BY <2>1
  <2> QED BY <1>1, <2>2, FS_Singleton
<1>2. CASE ~b
  BY <1>2, FS_EmptySet
<1> QED BY <1>1, <1>2

LEMMA TurnFollows == IInv /\ PaidInv /\ InTurn => RecordsAgree
<1> SUFFICES ASSUME IInv, PaidInv, InTurn, Resting, NEW q \in Promoter
             PROVE  /\ \A i \in DOMAIN post[q] :
                         /\ Cardinality(Payouts(q, i)) = IF post[q][i] = "APPROVED" THEN 1 ELSE 0
                         /\ Cardinality(Awaiting(q, i)) = IF post[q][i] = "SUBMITTED" THEN 1 ELSE 0
                    /\ (\A r \in Promoter : ~Revived(r)) =>
                         asg[q].status \in {None, "CANCELLED", Rollup(post[q])} /\ dings[q] = claims[q]
  BY DEF RecordsAgree
<1>1. \A key \in posted : /\ key[1] \in Submission /\ sub[key[1]] # None
                          /\ sub[key[1]].verdict = "APPROVED"
  BY DEF InTurn, PaidOnce, Resting, Paying
<1>2. \A n \in Submission : Stands(n) =>
        post[sub[n].promoter][sub[n].post] = IF sub[n].verdict = "PENDING" THEN "SUBMITTED" ELSE "APPROVED"
  BY DEF InTurn, ProofsMatch
<1>3. \A n \in Submission : Stands(n) => sub[n].verdict \in {"PENDING", "APPROVED"}
  BY RowsAre DEF IInv, Stands, Proof
<1>4. ASSUME NEW i \in DOMAIN post[q]
      PROVE  Cardinality(Payouts(q, i)) = IF post[q][i] = "APPROVED" THEN 1 ELSE 0
  <2>1. \A x, y \in Payouts(q, i) : x = y
    <3>1. \A x \in Payouts(q, i) : /\ x \in posted /\ x[1] \in Submission /\ Stands(x[1])
                                   /\ sub[x[1]].promoter = q /\ sub[x[1]].post = i
      BY <1>1 DEF Payouts, Stands
    <3>2. \A x, y \in Payouts(q, i) : x[1] = y[1]
      BY <3>1 DEF InTurn, ProofsMatch
    <3> QED BY <3>1, <3>2 DEF InTurn, PaidOnce
  <2>2. ASSUME post[q][i] = "APPROVED" PROVE \E x \in Payouts(q, i) : TRUE
    <3>1. PICK n \in Submission : Stands(n) /\ sub[n].promoter = q /\ sub[n].post = i
      BY <2>2 DEF InTurn, ProofsMatch
    <3>2. sub[n] # None /\ sub[n].verdict = "APPROVED"
      BY <1>2, <1>3, <2>2, <3>1 DEF Stands
    <3>3. PICK k \in Attempts : <<n, k>> \in posted
      BY <3>2 DEF PaidInv, ApprovedIsPaid
    <3>4. <<n, k>>[1] = n
      OBVIOUS
    <3> QED BY <3>1, <3>3, <3>4 DEF Payouts
  <2>3. ASSUME post[q][i] # "APPROVED" PROVE Payouts(q, i) = {}
    <3>1. \A x \in posted : sub[x[1]].promoter = q /\ sub[x[1]].post = i => post[q][i] = "APPROVED"
      BY <1>1, <1>2 DEF Stands
    <3> QED BY <2>3, <3>1 DEF Payouts
  <2> DEFINE b == post[q][i] = "APPROVED"
  <2>4. b \in BOOLEAN /\ (b => \E x \in Payouts(q, i) : TRUE) /\ (~b => Payouts(q, i) = {})
    BY <2>2, <2>3
  <2>5. Cardinality(Payouts(q, i)) = IF b THEN 1 ELSE 0
    <3> HIDE DEF b
    <3> QED BY <2>1, <2>4, OneOrNone
  <2> QED BY <2>5
<1>5. ASSUME NEW i \in DOMAIN post[q]
      PROVE  Cardinality(Awaiting(q, i)) = IF post[q][i] = "SUBMITTED" THEN 1 ELSE 0
  <2>1. \A n \in Awaiting(q, i) : n \in Submission /\ Stands(n) /\ sub[n].promoter = q /\ sub[n].post = i
    BY DEF Awaiting, Stands
  <2>2. \A x, y \in Awaiting(q, i) : x = y
    BY <2>1 DEF InTurn, ProofsMatch
  <2>3. ASSUME post[q][i] = "SUBMITTED" PROVE \E x \in Awaiting(q, i) : TRUE
    <3>1. PICK n \in Submission : Stands(n) /\ sub[n].promoter = q /\ sub[n].post = i
      BY <2>3 DEF InTurn, ProofsMatch
    <3>2. sub[n] # None /\ sub[n].verdict = "PENDING"
      BY <1>2, <2>3, <3>1 DEF Stands
    <3> QED BY <3>1, <3>2 DEF Awaiting
  <2>4. ASSUME post[q][i] # "SUBMITTED" PROVE Awaiting(q, i) = {}
    <3>1. \A n \in Awaiting(q, i) : sub[n].verdict = "PENDING"
      BY DEF Awaiting
    <3>2. \A n \in Awaiting(q, i) : post[q][i] = "SUBMITTED"
      BY <1>2, <2>1, <3>1
    <3> QED BY <2>4, <3>2
  <2> DEFINE b == post[q][i] = "SUBMITTED"
  <2>5. b \in BOOLEAN /\ (b => \E x \in Awaiting(q, i) : TRUE) /\ (~b => Awaiting(q, i) = {})
    BY <2>3, <2>4
  <2>6. Cardinality(Awaiting(q, i)) = IF b THEN 1 ELSE 0
    <3> HIDE DEF b
    <3> QED BY <2>2, <2>5, OneOrNone
  <2> QED BY <2>6
<1>6. (\A r \in Promoter : ~Revived(r)) =>
        asg[q].status \in {None, "CANCELLED", Rollup(post[q])} /\ dings[q] = claims[q]
  <2>1. \A z \in Sweeper : run[z] = None /\ ~(Has(z, q) > 0)
    BY DEF Resting, Has
  <2> QED BY <2>1 DEF InTurn, Settled, Agrees
<1> QED BY <1>4, <1>5, <1>6

LEMMA InvariantInTurn ==
  ASSUME Serial, MaxCrashes = 0
  PROVE  Spec => [](IInv /\ PaidInv /\ InTurn)
<1>1. Init => IInv /\ PaidInv /\ InTurn
  BY InitHolds, InitPays, StartsInTurn
<1>2. (IInv /\ PaidInv /\ InTurn) /\ [Next]_vars => (IInv /\ PaidInv /\ InTurn)'
  BY StepHolds, StepPays, StepInTurn
<1> QED BY <1>1, <1>2, PTL DEF Spec

\* One request and one sweep at a time, and nothing dies: posts, proofs, payouts and
\* assignments agree whenever nothing is under way, and until the review of a proof has
\* revived a pulled assignment every missed post has its ding (submit(),
\* approveSubmission(), rejectSubmission(), reconcileAfterMisses()).
THEOREM RecordsAlwaysAgree ==
  ASSUME Serial, MaxCrashes = 0
  PROVE  Spec => []RecordsAgree
BY InvariantInTurn, TurnFollows, PTL

\* Then a post that was paid or forfeited stays so, and so does a verdict.
THEOREM DecisionsAreFinal ==
  ASSUME Serial, MaxCrashes = 0
  PROVE  Spec => [][KeepsFinal]_vars
<1>1. Spec => [](IInv /\ PaidInv /\ InTurn) /\ []IInv
  BY InvariantInTurn, PTL
<1>2. (IInv /\ PaidInv /\ InTurn) /\ IInv' /\ [Next]_vars => [KeepsFinal]_vars
  BY StepInTurn
<1> QED BY <1>1, <1>2, PTL DEF Spec

-------------------------------------------------------------------------------
(* The brief of a campaign while it is edited and priced (Brief) *)

\* The constants of the brief, and the row and the targeting it may hold.
BriefRow == [cadence: B!Cadence, posts: 1 .. B!Greatest(2, MaxPosts), asked: Nat \ {0},
             start: Moments, end: Moments]

\* A quote whose slots add up to its price, but for what the division leaves.
Adds(q) ==
  LET units == q.slots.count * q.slots.posts IN
  /\ q.price \in Nat /\ q.price >= Minimum /\ q.goal \in Nat
  /\ q.slots \in [count: Nat \ {0}, unit: Nat, posts: Nat \ {0}]
  /\ q.price - q.slots.unit * units \in 0 .. units - 1

\* The campaign row and its slots are a quote of what the brief and the targeting say.
Current ==
  /\ slots.count = brief.asked /\ slots.posts = brief.posts
  /\ goal = (slots.count * slots.posts) * targeting.reach
  /\ \E typed \in {None, price} : /\ B!QuoteFor(brief, targeting, typed).price = price
                                /\ B!QuoteFor(brief, targeting, typed).slots = slots

\* What a request that has read will write.
Writes(c) ==
  /\ doing[c] = "quote" => Adds(seen[c])
  /\ doing[c] = "update" => seen[c].to \in BriefRow
  /\ doing[c] = "target" => seen[c].to \in B!Target

\* What it has read still holds if no two requests overlap.
Fresh(c) ==
  /\ doing[c] = "quote" => \E typed \in Typed \cup {None} : seen[c] = B!QuoteFor(brief, targeting, typed)
  /\ doing[c] \in {"update", "target"} => (seen[c].drop <=> status = "QUOTED")
  /\ doing[c] # "idle" => B!Editable

BriefInv ==
  /\ B!TypeOK /\ brief \in BriefRow /\ DOMAIN seen = Worker
  /\ status # "DRAFT" => Adds([price |-> price, slots |-> slots, goal |-> goal])
  /\ \A c \in Worker : Writes(c)
  /\ calm => /\ \A c \in Worker : Fresh(c)
             /\ \A c, d \in Worker : doing[c] # "idle" /\ doing[d] # "idle" => c = d
             /\ status # "DRAFT" /\ (\A c \in Worker : doing[c] # "drop") => Current

LEMMA BriefConstants ==
  /\ MaxPosts \in Nat \ {0} /\ Asked \subseteq Nat \ {0} /\ Moments \subseteq Nat /\ 0 \in Moments
  /\ Reaches \subseteq Nat \ {0} /\ Typed \subseteq Nat /\ Minimum \in Nat /\ None \notin Nat
  /\ Overlaps \subseteq BOOLEAN /\ Scale \in Nat \ {0}
  /\ B!Target = [reach: Reaches, filters: 0 .. 1]
BY BriefAssumption, PricingAssumption DEF B!BriefAssumption, B!Target

\* What integer division returns, with its remainder.
LEMMA Division ==
  ASSUME NEW n \in Nat, NEW d \in Nat \ {0}
  PROVE  /\ n \div d \in Nat
         /\ d * (n \div d) <= n
         /\ n < d * (n \div d) + d
OBVIOUS

LEMMA DivRoundIsNat == ASSUME NEW n \in Nat, NEW d \in Nat \ {0} PROVE B!DivRound(n, d) \in Nat
<1>1. d \div 2 \in Nat
  OBVIOUS
<1>2. n + d \div 2 \in Nat
  BY <1>1
<1> QED BY <1>2, Quotient DEF B!DivRound

\* slotPriceMinor() is an amount, and a typed price buys at least one slot.
LEMMA BriefPricing ==
  ASSUME NEW f \in 0 .. 1
  PROVE  /\ \A r \in Nat : B!SlotPrice(r, f) \in Nat
         /\ \A p, r \in Nat : B!SlotsForPrice(p, f, r) \in Nat \ {0}
<1>1. PICK mult \in Nat \ {0} : mult = B!TargetingMult(f)
  BY DEF B!TargetingMult, B!Least
<1>2. ASSUME NEW r \in Nat PROVE B!SlotPrice(r, f) \in Nat
  <2>1. r * 2 * 120 * mult \in Nat
    BY <1>1
  <2>2. B!DivRound(r * 2 * 120 * mult, Scale) \in Nat
    BY <2>1, BriefConstants, DivRoundIsNat
  <2> QED BY <1>1, <2>2 DEF B!SlotPrice
<1>3. ASSUME NEW p \in Nat, NEW r \in Nat PROVE B!SlotsForPrice(p, f, r) \in Nat \ {0}
  <2>1. p * Scale \in Nat /\ 2 * 120 * mult \in Nat \ {0}
    BY <1>1, BriefConstants
  <2>2. PICK reach \in Nat : reach = B!TargetReach(p, f)
    BY <1>1, <2>1, DivRoundIsNat DEF B!TargetReach
  <2>3. PICK basis \in Nat \ {0} : basis = B!Greatest(1, r)
    BY DEF B!Greatest
  <2>4. 2 * reach + basis \in Nat /\ 2 * basis \in Nat \ {0}
    OBVIOUS
  <2>5. PICK bought \in Nat : bought = (2 * reach + basis) \div (2 * basis)
    BY <2>4, Quotient
  <2> QED BY <2>2, <2>3, <2>5 DEF B!SlotsForPrice, B!Greatest
<1> QED BY <1>2, <1>3

\* quote(): the slots of every quote add up to its price.
LEMMA QuoteAdds ==
  ASSUME NEW b \in BriefRow, NEW t \in B!Target, NEW typed \in Typed \cup {None},
         B!QuoteFor(b, t, typed).price >= Minimum
  PROVE  Adds(B!QuoteFor(b, t, typed))
<1>1. /\ b.posts \in Nat \ {0} /\ b.asked \in Nat \ {0} /\ t.reach \in Nat \ {0} /\ t.filters \in 0 .. 1
  <2>1. B!Greatest(2, MaxPosts) \in Nat
    BY BriefConstants DEF B!Greatest
  <2>2. b.posts \in Nat \ {0} /\ b.asked \in Nat \ {0}
    BY <2>1 DEF BriefRow
  <2>3. t.reach \in Reaches /\ t.filters \in 0 .. 1
    BY BriefConstants
  <2> QED BY <2>2, <2>3, BriefConstants
<1>2. PICK posts \in Nat \ {0} : posts = b.posts
  BY <1>1
<1>3. PICK reach \in Nat \ {0} : reach = t.reach
  BY <1>1
<1>4. reach * posts \in Nat
  OBVIOUS
<1>5. PICK count \in Nat \ {0} :
        count = IF typed = None THEN b.asked ELSE B!SlotsForPrice(typed, t.filters, t.reach * b.posts)
  BY <1>1, <1>2, <1>3, <1>4, BriefConstants, BriefPricing
<1>6. count * posts \in Nat \ {0} /\ count * reach * posts \in Nat
  OBVIOUS
<1>7. PICK units \in Nat \ {0} : units = count * posts
  BY <1>6
<1>8. PICK unit \in Nat : unit = IF typed = None THEN B!SlotPrice(t.reach, t.filters) ELSE B!UnitPrice(typed, count * b.posts)
  BY <1>1, <1>2, <1>6, BriefConstants, BriefPricing, Quotient DEF B!UnitPrice
<1>9. PICK p : p = IF typed = None THEN unit * count * posts ELSE typed
  OBVIOUS
<1>10. B!QuoteFor(b, t, typed) = [price |-> p, slots |-> [count |-> count, unit |-> unit, posts |-> posts],
                                  goal |-> count * reach * posts]
  BY <1>2, <1>3, <1>5, <1>8, <1>9 DEF B!QuoteFor
<1>11. p \in Nat /\ p - unit * units \in 0 .. units - 1
  <2>1. CASE typed = None
    <3>1. unit * count * posts = unit * units /\ unit * units \in Nat
      BY <1>7
    <3> QED BY <2>1, <3>1, <1>9
  <2>2. CASE typed # None
    <3>1. typed \in Nat /\ p = typed
      BY <2>2, <1>9, BriefConstants
    <3>2. unit = p \div units
      BY <2>2, <3>1, <1>2, <1>7, <1>8 DEF B!UnitPrice
    <3>3. units * unit <= p /\ p < units * unit + units
      BY <3>1, <3>2, Division
    <3>4. unit * units = units * unit /\ units * unit \in Nat
      OBVIOUS
    <3> QED BY <3>1, <3>3, <3>4
  <2> QED BY <2>1, <2>2
<1>12. p >= Minimum
  BY <1>10
<1> QED BY <1>6, <1>7, <1>10, <1>11, <1>12 DEF Adds

LEMMA BriefRowIs ==
  ASSUME NEW b, b \in BriefRow
  PROVE  /\ b.cadence \in B!Cadence /\ b.posts \in Nat \ {0} /\ b.asked \in Nat \ {0}
         /\ b.start \in Moments /\ b.end \in Moments
<1>1. B!Greatest(2, MaxPosts) \in Nat
  BY BriefConstants DEF B!Greatest
<1> QED BY <1>1 DEF BriefRow

\* normalizePostsRequired(): a row stays a row.
LEMMA NormalizedRow ==
  ASSUME NEW b \in [cadence: B!Cadence, posts: 1 .. B!Greatest(2, MaxPosts), asked: Nat \ {0},
                    start: Moments, end: Moments]
  PROVE  B!WithPosts(b) \in BriefRow
<1>1. PICK k \in 1 .. B!Greatest(2, MaxPosts) : k = b.posts
  OBVIOUS
<1>2. B!Normalized(b.cadence, k) \in 1 .. B!Greatest(2, MaxPosts)
  BY BriefConstants DEF B!Normalized, B!Greatest
<1> QED BY <1>1, <1>2 DEF B!WithPosts, BriefRow

LEMMA EditedRow == ASSUME BriefInv, NEW e \in B!Edited PROVE B!WithPosts(e) \in BriefRow
<1>1. 1 .. MaxPosts \subseteq 1 .. B!Greatest(2, MaxPosts)
  BY BriefConstants DEF B!Greatest
<1>2. brief \in BriefRow
  BY DEF BriefInv
<1>3. e \in BriefRow
  BY <1>1, <1>2, BriefConstants DEF B!Edited, BriefRow
<1> QED BY <1>3, NormalizedRow DEF BriefRow

\* A quote only depends on the posts of the brief, and on the slots it asks for.
LEMMA SameQuote ==
  ASSUME NEW b, NEW e, NEW t, NEW typed, b.posts = e.posts, typed = None => b.asked = e.asked
  PROVE  B!QuoteFor(b, t, typed) = B!QuoteFor(e, t, typed)
BY DEF B!QuoteFor

\* One request takes a step while the others rest.
LEMMA BriefStep ==
  ASSUME BriefInv, NEW c \in Worker, calm' = calm,
         doing' \in [Worker -> {"idle", "update", "target", "drop", "quote"}], DOMAIN seen' = Worker,
         \A d \in Worker : d # c => doing'[d] = doing[d] /\ seen'[d] = seen[d],
         calm => doing[c] # "idle" \/ \A d \in Worker : doing[d] = "idle",
         Writes(c)', calm => Fresh(c)',
         brief' \in BriefRow, targeting' \in B!Target,
         status' \in {"DRAFT", "QUOTED", "PENDING_APPROVAL"}, price' \in Nat \cup {None},
         slots' \in [count: Nat, unit: Nat, posts: Nat], goal' \in Nat,
         status' # "DRAFT" => Adds([price |-> price', slots |-> slots', goal |-> goal']),
         calm /\ status' # "DRAFT" /\ (\A d \in Worker : doing'[d] # "drop") => Current'
  PROVE  BriefInv'
<1>1. B!TypeOK'
  BY DEF B!TypeOK, BriefRow
<1>2. \A d \in Worker : Writes(d)'
  BY DEF Writes, BriefInv
<1>3. calm => \A d \in Worker : d # c => doing[d] = "idle"
  BY DEF BriefInv
<1>4. calm => \A d \in Worker : Fresh(d)'
  BY <1>3 DEF Fresh
<1>5. calm => \A d, e \in Worker : doing'[d] # "idle" /\ doing'[e] # "idle" => d = e
  BY <1>3
<1> QED BY <1>1, <1>2, <1>4, <1>5 DEF BriefInv

\* It reads, and will write what it has worked out.
LEMMA BriefReads ==
  ASSUME BriefInv, NEW c \in Worker, NEW place \in {"update", "target", "quote"}, NEW what,
         B!Begin(c, place, what), UNCHANGED <<brief, targeting, status, price, slots, goal, calm>>,
         B!Editable,
         place = "quote" => Adds(what) /\ \E typed \in Typed \cup {None} : what = B!QuoteFor(brief, targeting, typed),
         place = "update" => what.to \in BriefRow,
         place = "target" => what.to \in B!Target,
         place # "quote" => (what.drop <=> status = "QUOTED")
  PROVE  BriefInv'
<1>1. /\ doing \in [Worker -> {"idle", "update", "target", "drop", "quote"}] /\ DOMAIN seen = Worker
      /\ brief \in BriefRow /\ targeting \in B!Target
      /\ status \in {"DRAFT", "QUOTED", "PENDING_APPROVAL"} /\ price \in Nat \cup {None}
      /\ slots \in [count: Nat, unit: Nat, posts: Nat] /\ goal \in Nat
  BY DEF BriefInv, B!TypeOK
<1>2. /\ doing[c] = "idle" /\ (calm => \A d \in Worker : doing[d] = "idle")
      /\ doing' = [doing EXCEPT ![c] = place] /\ seen' = [seen EXCEPT ![c] = what]
  BY DEF B!Begin
<1>3. /\ doing'[c] = place /\ seen'[c] = what
      /\ doing' \in [Worker -> {"idle", "update", "target", "drop", "quote"}] /\ DOMAIN seen' = Worker
      /\ \A d \in Worker : d # c => doing'[d] = doing[d] /\ seen'[d] = seen[d]
  BY <1>1, <1>2
<1>4. Writes(c)'
  BY <1>3 DEF Writes
<1>5. Fresh(c)'
  BY <1>3 DEF Fresh, B!Editable
<1>6. status' # "DRAFT" => Adds([price |-> price', slots |-> slots', goal |-> goal'])
  BY DEF BriefInv
<1>7. calm /\ status' # "DRAFT" /\ (\A d \in Worker : doing'[d] # "drop") => Current'
  <2>1. (\A d \in Worker : doing'[d] # "drop") => \A d \in Worker : doing[d] # "drop"
    BY <1>2, <1>3
  <2>2. calm /\ status # "DRAFT" /\ (\A d \in Worker : doing[d] # "drop") => Current
    BY DEF BriefInv
  <2>3. Current => Current'
    BY DEF Current
  <2> QED BY <2>1, <2>2, <2>3
<1> QED BY <1>1, <1>2, <1>3, <1>4, <1>5, <1>6, <1>7, BriefStep

\* It is done.
LEMMA BriefDone ==
  ASSUME BriefInv, NEW c \in Worker, doing[c] # "idle", B!Done(c)
  PROVE  /\ doing' \in [Worker -> {"idle", "update", "target", "drop", "quote"}] /\ DOMAIN seen' = Worker
         /\ \A d \in Worker : d # c => doing'[d] = doing[d] /\ seen'[d] = seen[d]
         /\ Writes(c)' /\ Fresh(c)'
<1>1. /\ doing \in [Worker -> {"idle", "update", "target", "drop", "quote"}] /\ DOMAIN seen = Worker
  BY DEF BriefInv, B!TypeOK
<1>2. doing' = [doing EXCEPT ![c] = "idle"] /\ seen' = [seen EXCEPT ![c] = None]
  BY DEF B!Done
<1>3. doing'[c] = "idle"
  BY <1>1, <1>2
<1> QED BY <1>1, <1>2, <1>3 DEF Writes, Fresh

LEMMA UpdateReads == ASSUME BriefInv, NEW c \in Worker, B!UpdateRead(c) PROVE BriefInv'
<1>1. PICK b \in {B!WithPosts(e) : e \in B!Edited} :
        B!Begin(c, "update", [fields |-> {f \in DOMAIN b : b[f] # brief[f]}, to |-> b,
                              drop |-> status = "QUOTED"])
  BY DEF B!UpdateRead
<1>2. b \in BriefRow
  BY EditedRow
<1>3. PICK what : what = [fields |-> {f \in DOMAIN b : b[f] # brief[f]}, to |-> b, drop |-> status = "QUOTED"]
  OBVIOUS
<1>4. what.to = b /\ (what.drop <=> status = "QUOTED")
  BY <1>3
<1>5. B!Editable /\ UNCHANGED <<brief, targeting, status, price, slots, goal, calm>>
  BY DEF B!UpdateRead, B!quoted
<1>6. B!Begin(c, "update", what)
  BY <1>1, <1>3
<1> QED BY <1>2, <1>4, <1>5, <1>6, BriefReads

LEMMA TargetReads == ASSUME BriefInv, NEW c \in Worker, B!TargetRead(c) PROVE BriefInv'
<1>1. PICK t \in B!Target : B!Begin(c, "target", [to |-> t, drop |-> status = "QUOTED"])
  BY DEF B!TargetRead
<1>2. PICK what : what = [to |-> t, drop |-> status = "QUOTED"]
  OBVIOUS
<1>3. what.to = t /\ (what.drop <=> status = "QUOTED")
  BY <1>2
<1>4. B!Editable /\ UNCHANGED <<brief, targeting, status, price, slots, goal, calm>>
  BY DEF B!TargetRead, B!quoted
<1>5. B!Begin(c, "target", what)
  BY <1>1, <1>2
<1> QED BY <1>3, <1>4, <1>5, BriefReads

LEMMA QuoteReads ==
  ASSUME BriefInv, NEW c \in Worker, NEW typed \in Typed \cup {None}, B!QuoteRead(c, typed)
  PROVE  BriefInv'
<1>1. PICK q : q = B!QuoteFor(brief, targeting, typed)
  OBVIOUS
<1>2. B!Editable /\ UNCHANGED <<brief, targeting, status, price, slots, goal, calm>>
      /\ q.price >= Minimum /\ B!Begin(c, "quote", q)
  BY <1>1 DEF B!QuoteRead, B!quoted
<1>3. brief \in BriefRow /\ targeting \in B!Target
  BY DEF BriefInv, B!TypeOK
<1>4. Adds(q)
  BY <1>1, <1>2, <1>3, QuoteAdds
<1> QED BY <1>1, <1>2, <1>4, BriefReads

\* update(): only what was edited is written, and a quote that was there is dropped.
LEMMA UpdateWrites == ASSUME BriefInv, NEW c \in Worker, B!UpdateWrite(c) PROVE BriefInv'
<1>1. /\ doing[c] = "update" /\ B!Done(c) /\ UNCHANGED <<targeting, slots, goal, calm>>
      /\ brief' = [f \in DOMAIN brief |-> IF f \in seen[c].fields THEN seen[c].to[f] ELSE brief[f]]
      /\ IF seen[c].drop THEN status' = "DRAFT" /\ price' = None ELSE UNCHANGED <<status, price>>
  BY DEF B!UpdateWrite, B!quoted, B!DropQuote
<1>2. /\ brief \in BriefRow /\ targeting \in B!Target
      /\ status \in {"DRAFT", "QUOTED", "PENDING_APPROVAL"} /\ price \in Nat \cup {None}
      /\ slots \in [count: Nat, unit: Nat, posts: Nat] /\ goal \in Nat
  BY DEF BriefInv, B!TypeOK
<1>3. seen[c].to \in BriefRow
  BY <1>1 DEF BriefInv, Writes
<1>4. brief' \in BriefRow
  <2>1. PICK to \in BriefRow : to = seen[c].to
    BY <1>3
  <2>2. PICK fields : fields = seen[c].fields
    OBVIOUS
  <2>3. brief' = [f \in DOMAIN brief |-> IF f \in fields THEN to[f] ELSE brief[f]]
    BY <1>1, <2>1, <2>2
  <2>4. DOMAIN brief = {"cadence", "posts", "asked", "start", "end"}
    BY <1>2 DEF BriefRow
  <2> QED BY <1>2, <2>1, <2>3, <2>4 DEF BriefRow
<1>5. calm => status' = "DRAFT"
  <2>1. calm => Fresh(c)
    BY DEF BriefInv
  <2> QED BY <1>1, <2>1 DEF Fresh, B!Editable
<1>6. status' # "DRAFT" => Adds([price |-> price', slots |-> slots', goal |-> goal'])
  BY <1>1 DEF BriefInv
<1>7. /\ status' \in {"DRAFT", "QUOTED", "PENDING_APPROVAL"} /\ price' \in Nat \cup {None}
      /\ slots' = slots /\ goal' = goal /\ targeting' = targeting /\ calm' = calm
  BY <1>1, <1>2
<1> QED BY <1>1, <1>2, <1>4, <1>5, <1>6, <1>7, BriefDone, BriefStep

\* setTargeting(): the targeting row is written; the quote that was there is dropped next.
LEMMA TargetWrites == ASSUME BriefInv, NEW c \in Worker, B!TargetWrite(c) PROVE BriefInv'
<1>1. /\ doing[c] = "target" /\ UNCHANGED <<brief, status, price, slots, goal, calm>>
      /\ targeting' = seen[c].to
      /\ IF seen[c].drop THEN doing' = [doing EXCEPT ![c] = "drop"] /\ UNCHANGED seen ELSE B!Done(c)
  BY DEF B!TargetWrite, B!quoted
<1>2. /\ brief \in BriefRow /\ DOMAIN seen = Worker
      /\ doing \in [Worker -> {"idle", "update", "target", "drop", "quote"}]
      /\ status \in {"DRAFT", "QUOTED", "PENDING_APPROVAL"} /\ price \in Nat \cup {None}
      /\ slots \in [count: Nat, unit: Nat, posts: Nat] /\ goal \in Nat
  BY DEF BriefInv, B!TypeOK
<1>3. targeting' \in B!Target
  BY <1>1 DEF BriefInv, Writes
<1>4. status' # "DRAFT" => Adds([price |-> price', slots |-> slots', goal |-> goal'])
  BY <1>1 DEF BriefInv
<1>5. calm => Fresh(c)
  BY DEF BriefInv
<1>6. CASE seen[c].drop
  <2>1. /\ doing' \in [Worker -> {"idle", "update", "target", "drop", "quote"}] /\ DOMAIN seen' = Worker
        /\ doing'[c] = "drop" /\ \A d \in Worker : d # c => doing'[d] = doing[d] /\ seen'[d] = seen[d]
    BY <1>1, <1>2, <1>6
  <2>2. Writes(c)'
    BY <2>1 DEF Writes
  <2>3. calm => Fresh(c)'
    BY <1>1, <1>5, <2>1 DEF Fresh, B!Editable
  <2> QED BY <1>1, <1>2, <1>3, <1>4, <2>1, <2>2, <2>3, BriefStep
<1>7. CASE ~seen[c].drop
  <2>1. B!Done(c)
    BY <1>1, <1>7
  <2>2. calm => status' = "DRAFT"
    BY <1>1, <1>5, <1>7 DEF Fresh, B!Editable
  <2> QED BY <1>1, <1>2, <1>3, <1>4, <2>1, <2>2, BriefDone, BriefStep
<1> QED BY <1>6, <1>7

\* It drops the quote, or dies before it does.
LEMMA TargetEnds == ASSUME BriefInv, NEW c \in Worker, B!TargetDrop(c) \/ B!Die(c) PROVE BriefInv'
<1>1. /\ doing[c] = "drop" /\ B!Done(c) /\ UNCHANGED <<brief, targeting, slots, goal, calm>>
      /\ \/ status' = "DRAFT" /\ price' = None
         \/ ~calm /\ UNCHANGED <<status, price>>
  BY DEF B!TargetDrop, B!Die, B!quoted, B!DropQuote
<1>2. /\ brief \in BriefRow /\ targeting \in B!Target
      /\ status \in {"DRAFT", "QUOTED", "PENDING_APPROVAL"} /\ price \in Nat \cup {None}
      /\ slots \in [count: Nat, unit: Nat, posts: Nat] /\ goal \in Nat
  BY DEF BriefInv, B!TypeOK
<1>3. status' # "DRAFT" => Adds([price |-> price', slots |-> slots', goal |-> goal'])
  BY <1>1 DEF BriefInv
<1>4. calm => status' = "DRAFT"
  BY <1>1
<1> QED BY <1>1, <1>2, <1>3, <1>4, BriefDone, BriefStep

\* quote(): slots, price and target reach are replaced together.
LEMMA QuoteWrites == ASSUME BriefInv, NEW c \in Worker, B!QuoteWrite(c) PROVE BriefInv'
<1>1. PICK q : q = seen[c]
  OBVIOUS
<1>2. /\ doing[c] = "quote" /\ B!Done(c) /\ UNCHANGED <<targeting, calm>>
      /\ status' = "QUOTED" /\ price' = q.price /\ slots' = q.slots /\ goal' = q.goal
      /\ brief' = [brief EXCEPT !.asked = q.slots.count]
  BY <1>1 DEF B!QuoteWrite
<1>3. Adds(q)
  BY <1>1, <1>2 DEF BriefInv, Writes
<1>4. /\ brief \in BriefRow /\ targeting \in B!Target
  BY DEF BriefInv, B!TypeOK
<1>5. PICK s \in [count: Nat \ {0}, unit: Nat, posts: Nat \ {0}] : s = q.slots
  BY <1>3 DEF Adds
<1>6. brief' \in BriefRow /\ brief'.asked = s.count /\ brief'.posts = brief.posts
  BY <1>2, <1>4, <1>5 DEF BriefRow
<1>7. price' \in Nat /\ slots' \in [count: Nat, unit: Nat, posts: Nat] /\ goal' \in Nat
  BY <1>2, <1>3, <1>5 DEF Adds
<1>8. Adds([price |-> price', slots |-> slots', goal |-> goal'])
  BY <1>2, <1>3 DEF Adds
<1>9. ASSUME calm PROVE Current'
  <2>1. PICK typed \in Typed \cup {None} : q = B!QuoteFor(brief, targeting, typed)
    BY <1>1, <1>2, <1>9 DEF BriefInv, Fresh
  <2>2. /\ s.posts = brief.posts /\ q.goal = s.count * targeting.reach * brief.posts
        /\ typed = None => s.count = brief.asked
        /\ typed # None => q.price = typed
    BY <1>5, <2>1 DEF B!QuoteFor
  <2>3. q = B!QuoteFor(brief', targeting', typed)
    <3>1. B!QuoteFor(brief', targeting, typed) = B!QuoteFor(brief, targeting, typed)
      BY <1>6, <2>2, SameQuote
    <3> QED BY <1>2, <2>1, <3>1
  <2>4. typed \in {None, price'}
    BY <1>2, <2>2
  <2>5. goal' = (slots'.count * slots'.posts) * targeting'.reach
    <3>1. PICK n \in Nat, k \in Nat, r \in Nat : n = s.count /\ k = s.posts /\ r = targeting.reach
      BY <1>4, <1>5, BriefConstants
    <3>2. n * r * k = (n * k) * r
      OBVIOUS
    <3> QED BY <1>2, <1>5, <2>2, <3>1, <3>2
  <2>6. slots'.count = brief'.asked /\ slots'.posts = brief'.posts
    BY <1>2, <1>5, <1>6, <2>2
  <2>7. \E x \in {None, price'} : /\ B!QuoteFor(brief', targeting', x).price = price'
                                  /\ B!QuoteFor(brief', targeting', x).slots = slots'
    BY <1>2, <2>3, <2>4
  <2> QED BY <2>5, <2>6, <2>7 DEF Current
<1>10. /\ doing' \in [Worker -> {"idle", "update", "target", "drop", "quote"}] /\ DOMAIN seen' = Worker
       /\ \A d \in Worker : d # c => doing'[d] = doing[d] /\ seen'[d] = seen[d]
       /\ Writes(c)' /\ Fresh(c)'
  BY <1>2, BriefDone
<1>11. /\ status' \in {"DRAFT", "QUOTED", "PENDING_APPROVAL"} /\ targeting' \in B!Target /\ calm' = calm
       /\ doing[c] # "idle" /\ price' \in Nat \cup {None}
  BY <1>2, <1>4, <1>7
<1> QED BY <1>6, <1>7, <1>8, <1>9, <1>10, <1>11, BriefStep

\* The quote is paid.
LEMMA BriefPaid == ASSUME BriefInv, B!Pay PROVE BriefInv'
<1>1. /\ status = "QUOTED" /\ (calm => \A d \in Worker : doing[d] = "idle")
      /\ status' = "PENDING_APPROVAL"
      /\ UNCHANGED <<brief, targeting, price, slots, goal, calm, doing, seen>>
  BY DEF B!Pay, B!quoted
<1>2. B!TypeOK' /\ brief' \in BriefRow /\ DOMAIN seen' = Worker
  BY <1>1 DEF BriefInv, B!TypeOK
<1>3. Adds([price |-> price', slots |-> slots', goal |-> goal'])
  BY <1>1 DEF BriefInv
<1>4. \A c \in Worker : Writes(c)'
  BY <1>1 DEF BriefInv, Writes
<1>5. ASSUME calm PROVE \A c \in Worker : doing'[c] = "idle" /\ Fresh(c)'
  BY <1>1, <1>5 DEF Fresh
<1>6. ASSUME calm PROVE Current'
  <2>1. Current
    BY <1>1, <1>6 DEF BriefInv
  <2> QED BY <1>1, <2>1 DEF Current
<1> QED BY <1>1, <1>2, <1>3, <1>4, <1>5, <1>6 DEF BriefInv

\* The campaign is run again, from a copy without dates.
LEMMA BriefDuplicated == ASSUME BriefInv, B!Duplicate PROVE BriefInv'
<1>1. /\ \A d \in Worker : doing[d] = "idle"
      /\ brief' = [brief EXCEPT !.start = 0, !.end = 0]
      /\ status' = "DRAFT" /\ price' = None
      /\ slots' = [count |-> 0, unit |-> 0, posts |-> 1] /\ goal' = 0
      /\ UNCHANGED <<targeting, calm, doing, seen>>
  BY DEF B!Duplicate
<1>2. brief' \in BriefRow
  BY <1>1, BriefConstants DEF BriefInv, BriefRow
<1>3. B!TypeOK' /\ DOMAIN seen' = Worker
  BY <1>1, <1>2 DEF BriefInv, B!TypeOK, BriefRow
<1>4. \A c \in Worker : doing'[c] = "idle" /\ Writes(c)' /\ Fresh(c)'
  BY <1>1 DEF Writes, Fresh
<1> QED BY <1>1, <1>2, <1>3, <1>4 DEF BriefInv

LEMMA BriefStarts == B!Init => BriefInv
<1> SUFFICES ASSUME B!Init PROVE BriefInv
  OBVIOUS
<1>1. PICK dto \in B!Fields : brief = B!WithPosts(dto)
  BY DEF B!Init
<1>2. brief \in BriefRow
  <2>1. 1 .. MaxPosts \subseteq 1 .. B!Greatest(2, MaxPosts)
    BY BriefConstants DEF B!Greatest
  <2>2. dto \in [cadence: B!Cadence, posts: 1 .. B!Greatest(2, MaxPosts), asked: Nat \ {0},
                 start: Moments, end: Moments]
    BY <2>1, BriefConstants DEF B!Fields
  <2> QED BY <1>1, <2>2, NormalizedRow
<1>3. /\ targeting \in B!Target /\ status = "DRAFT" /\ price = None
      /\ slots = [count |-> 0, unit |-> 0, posts |-> 1] /\ goal = 0
      /\ doing = [c \in Worker |-> "idle"] /\ seen = [c \in Worker |-> None]
  BY DEF B!Init
<1>4. B!TypeOK /\ DOMAIN seen = Worker
  BY <1>2, <1>3 DEF B!TypeOK, BriefRow
<1>5. \A c \in Worker : doing[c] = "idle"
  BY <1>3
<1> QED BY <1>2, <1>3, <1>4, <1>5 DEF BriefInv, Writes, Fresh

LEMMA BriefInductive == BriefInv /\ [B!Next]_briefVars => BriefInv'
<1> SUFFICES ASSUME BriefInv, [B!Next]_briefVars PROVE BriefInv'
  OBVIOUS
<1>1. CASE UNCHANGED briefVars
  BY <1>1 DEF briefVars, BriefInv, B!TypeOK, Writes, Fresh, Current, B!Editable
<1>2. ASSUME NEW c \in Worker,
             \/ B!UpdateRead(c) \/ B!UpdateWrite(c)
             \/ B!TargetRead(c) \/ B!TargetWrite(c) \/ B!TargetDrop(c) \/ B!Die(c)
             \/ \E typed \in Typed \cup {None} : B!QuoteRead(c, typed)
             \/ B!QuoteWrite(c)
      PROVE  BriefInv'
  BY <1>2, UpdateReads, UpdateWrites, TargetReads, TargetWrites, TargetEnds, QuoteReads, QuoteWrites
<1> QED BY <1>1, <1>2, BriefPaid, BriefDuplicated DEF B!Next

\* Of n slots, at a price per slot, those that cost at least a minimum are those from
\* the minimum divided by the price, rounded up.
LEMMA MinimumIsMet ==
  ASSUME NEW least \in Nat, NEW cost \in Nat \ {0}, NEW n \in Nat
  PROVE  /\ B!Ceiling(least, cost) \in Nat
         /\ cost * n >= least <=> n >= B!Ceiling(least, cost)
<1>1. least + cost - 1 \in Nat
  OBVIOUS
<1>2. PICK m \in Nat : m = B!Ceiling(least, cost)
  BY <1>1, Quotient DEF B!Ceiling
<1>3. m = (least + cost - 1) \div cost
  BY <1>2 DEF B!Ceiling
<1>4. cost * m <= least + cost - 1 /\ least + cost - 1 < cost * m + cost
  BY <1>1, <1>3, Division
<1>5. ASSUME n >= m PROVE cost * n >= least
  <2>1. cost * n >= cost * m /\ cost * n \in Nat /\ cost * m \in Nat
    BY <1>5
  <2> QED BY <1>4, <2>1
<1>6. ASSUME n < m PROVE cost * n < least
  <2>1. n + 1 <= m
    BY <1>6
  <2>2. cost * (n + 1) <= cost * m /\ cost * (n + 1) = cost * n + cost
    BY <2>1
  <2>3. cost * n \in Nat /\ cost * m \in Nat
    OBVIOUS
  <2> QED BY <1>4, <2>2, <2>3
<1>7. cost * n \in Nat
  OBVIOUS
<1> QED BY <1>2, <1>5, <1>6, <1>7

\* plan(): the preview is the quote.
LEMMA PreviewHolds == BriefInv => B!PreviewIsQuote
<1> SUFFICES ASSUME BriefInv PROVE B!PreviewIsQuote
  OBVIOUS
<1>1. /\ brief \in BriefRow /\ targeting \in B!Target /\ targeting.filters \in 0 .. 1
      /\ targeting.reach \in Nat /\ brief.posts \in Nat \ {0}
  BY BriefConstants, BriefRowIs DEF BriefInv, B!TypeOK
<1>2. PICK unit \in Nat : unit = B!SlotPrice(targeting.reach, targeting.filters)
  BY <1>1, BriefPricing
<1>3. PICK posts \in Nat \ {0} : posts = brief.posts
  BY <1>1
<1>4. unit * posts \in Nat
  OBVIOUS
<1>5. PICK cost \in Nat : cost = unit * posts /\ cost = B!SlotCost
  BY <1>2, <1>3, <1>4 DEF B!SlotCost
<1>6. ASSUME NEW b \in Typed
      PROVE  LET plan == B!PlanForBudget(b)
                 quote == B!QuoteFor([brief EXCEPT !.asked = plan.slots], targeting, None)
             IN  plan.total <= b /\ quote.price = plan.total /\ (plan.accepted <=> quote.price >= Minimum)
  <2>1. b \in Nat
    BY BriefConstants
  <2>2. PICK n \in Nat : n = B!PlanSlots(b) /\ cost * n <= b
    <3>1. CASE cost = 0
      BY <1>5, <2>1, <3>1 DEF B!PlanSlots
    <3>2. CASE cost # 0
      <4>1. b \div cost \in Nat /\ cost * (b \div cost) <= b
        BY <2>1, <3>2, Division
      <4>2. PICK k \in Nat : k = b \div cost /\ cost * k <= b
        BY <4>1
      <4>3. PICK n \in Nat : n = B!PlanSlots(b) /\ n <= k
        BY <1>5, <3>2, <4>2 DEF B!PlanSlots, B!Least
      <4>4. cost * n <= cost * k /\ cost * n \in Nat /\ cost * k \in Nat
        BY <4>3
      <4> QED BY <2>1, <4>2, <4>3, <4>4
    <3> QED BY <3>1, <3>2
  <2>3. B!PlanForBudget(b) = [slots |-> n, total |-> cost * n, accepted |-> cost * n >= Minimum]
    BY <1>5, <2>2 DEF B!PlanForBudget
  <2>4. PICK e : e = [brief EXCEPT !.asked = n]
    OBVIOUS
  <2>5. e.posts = posts /\ e.asked = n
    BY <1>1, <1>3, <2>4 DEF BriefRow
  <2>6. B!QuoteFor(e, targeting, None).price = unit * n * posts
    BY <1>2, <2>5 DEF B!QuoteFor
  <2>7. unit * n * posts = cost * n
    BY <1>5
  <2>8. /\ B!PlanForBudget(b).slots = n /\ B!PlanForBudget(b).total = cost * n
        /\ B!PlanForBudget(b).accepted = (cost * n >= Minimum)
    BY <2>3
  <2>9. B!QuoteFor([brief EXCEPT !.asked = n], targeting, None).price = cost * n
    BY <2>4, <2>6, <2>7
  <2> QED BY <2>2, <2>8, <2>9
<1>7. ASSUME NEW p \in Typed
      PROVE  LET plan == B!PlanForPrice(p)
                 quote == B!QuoteFor(brief, targeting, p)
             IN  plan.total = quote.price /\ plan.slots = quote.slots.count
  <2>1. p # None
    BY BriefConstants
  <2> QED BY <2>1 DEF B!PlanForPrice, B!QuoteFor
<1>8. ASSUME cost > 0, NEW n \in 0 .. B!MinSlots + 1 PROVE (cost * n >= Minimum) <=> n >= B!MinSlots
  <2>1. B!MinSlots = B!Ceiling(Minimum, cost)
    BY <1>5, <1>8 DEF B!MinSlots
  <2>2. n \in Nat
    BY <1>8, <2>1, BriefConstants, MinimumIsMet
  <2> QED BY <1>8, <2>1, <2>2, BriefConstants, MinimumIsMet
<1> QED BY <1>5, <1>6, <1>7, <1>8 DEF B!PreviewIsQuote

\* The campaign row is a quote of what the brief says.
LEMMA BriefFollows == BriefInv => B!QuoteIsCurrent
<1> SUFFICES ASSUME BriefInv, status \in {"QUOTED", "PENDING_APPROVAL"} PROVE B!QuoteIsCurrent
  BY DEF B!QuoteIsCurrent
<1>1. Adds([price |-> price, slots |-> slots, goal |-> goal])
  BY DEF BriefInv
<1>2. price \in Nat /\ price >= Minimum
      /\ price - slots.unit * (slots.count * slots.posts) \in 0 .. (slots.count * slots.posts) - 1
  BY <1>1 DEF Adds
<1>3. ASSUME calm, \A c \in Worker : doing[c] # "drop" PROVE Current
  BY <1>3 DEF BriefInv
<1> QED BY <1>2, <1>3 DEF B!QuoteIsCurrent, Current

\* The invariant behind them, of the brief next to the delivery.
LEMMA BriefInvariant == CampaignSpec => []BriefInv
<1>1. CampaignInit => BriefInv
  BY BriefStarts DEF CampaignInit
<1>2. BriefInv /\ [CampaignNext]_allVars => BriefInv'
  BY BriefInductive DEF CampaignNext, allVars
<1> QED BY <1>1, <1>2, PTL DEF CampaignSpec

\* quote(), update(), setTargeting(), plan(): for every price, targeting and number of
\* posts, however requests overlap, the slots of a priced campaign add up to its price but
\* for what the division leaves; if requests neither overlap nor die, what can be paid is
\* the price of what the brief now says; and committing a preview costs what it showed.
THEOREM QuoteAlwaysCurrent == CampaignSpec => []QuoteIsCurrent
<1>1. BriefInv => QuoteIsCurrent
  BY PreviewHolds, BriefFollows DEF QuoteIsCurrent, BriefInv
<1> QED BY <1>1, BriefInvariant, PTL

===============================================================================
