------------------------------- MODULE Delivery -------------------------------
(***************************************************************************)
(* One live campaign while it is delivered: offers, the pool of slots,     *)
(* assignments and their scheduled posts, proofs, reviews, payouts from    *)
(* escrow and the reclaim sweep (matching, evidence, admin and allocation  *)
(* services).  The handlers run at once on PostgreSQL at READ COMMITTED    *)
(* and read most of what they decide on before the transaction they write  *)
(* in, so each is split where another may come between:                    *)
(*   submit   read the assignment | write                                  *)
(*   reject   read the submission | write                                  *)
(*   decline  read the offer | write                                       *)
(*   approve  read | ledger | read escrow | decide | commit | read the     *)
(*            remainder | book it                                          *)
(*   sweep    list | claim each post | per assignment: read | write        *)
(* A ledger posting is one step (LedgerAbstract).  An assignment is named  *)
(* by its promoter: offers are unique per campaign and promoter, and       *)
(* assignments per offer.                                                  *)
(***************************************************************************)
EXTENDS Pricing, Sequences, FiniteSets, Functions

CONSTANTS Promoter,
          Decliner,       \* the promoters who may decline an offer, a bound
          SlotId,         \* campaign_slots, the bound on reopening
          Submission,     \* submission ids in the order they are given out, a bound
          Worker,         \* concurrent requests
          Sweeper,        \* processes that run the allocation scheduler
          Posts, Unit, Reach,    \* posts per slot; price and promised views of a post
          InitialSlots,   \* slots sold by the quote
          Views,          \* verified views an admin may enter
          Attempts,       \* idempotency keys an admin may use per submission
          Serial,         \* TRUE: a request or sweep starts only when nothing else runs
          MaxCrashes,     \* how often a process may die between two steps, a bound
          None

PostStatus == {"PENDING", "SUBMITTED", "APPROVED", "REJECTED", "MISSED"}
Submittable == {"PENDING", "REJECTED"}      \* also what a sweep may reclaim
Schedule == UNION {[1 .. n -> PostStatus] : n \in 0 .. Posts}

\* A row of submissions, and what a sweep holds while it works.
Proof == [promoter: Promoter, post: 1 .. Posts, views: {0} \cup Views,
          verdict: {"PENDING", "APPROVED", "REJECTED"}]
Working == [place: {"claim", "write"}, todo: SUBSET (Promoter \X (1 .. Posts)),
            won: [Promoter -> Nat], promoter: {None} \cup Promoter,
            seen: Schedule, slot: {None} \cup SlotId]

\* None is a null; ids, rows and status names are not null.
ASSUME DeliveryAssumption ==
  /\ SlotId \subseteq Nat \ {0} /\ 1 .. InitialSlots \subseteq SlotId
  /\ Submission \subseteq Nat /\ Attempts \subseteq Nat
  /\ IsFiniteSet(SlotId) /\ IsFiniteSet(Submission)
  /\ IsFiniteSet(Worker) /\ IsFiniteSet(Sweeper)
  /\ Posts \in Nat \ {0} /\ Unit \in Nat \ {0} /\ Reach \in Nat \ {0}
  /\ Decliner \subseteq Promoter
  /\ InitialSlots \in Nat \ {0} /\ Views \subseteq Nat
  /\ Serial \in BOOLEAN /\ MaxCrashes \in Nat
  /\ None \notin SlotId /\ None \notin Proof /\ None \notin Working
  /\ None \notin {"OPEN", "FILLED", "SENT", "ACCEPTED", "DECLINED", "EXPIRED",
                  "IN_PROGRESS", "SUBMITTED", "PAID", "CANCELLED"}

Target == InitialSlots * Posts * Reach

VARIABLES
  campaign,   \* status, slots_total and slots_filled
  slot,       \* campaign_slots: status and posts_required
  offer,      \* status of each promoter's offer
  asg,        \* assignments: status, slot_id and whether paid_at is stamped
  post,       \* delivery_slots of each assignment, in order
  sub,        \* submissions: whose, which post, verdict and verified views
  escrow,     \* balance of the campaign's escrow account
  posted,     \* keys of the payouts in the ledger, <<submission, attempt>>
  swept,      \* the remainder was booked to revenue (key campaign.retain)
  noted,      \* dedupe keys of the notifications and point events written
  claims, dings,   \* posts marked MISSED by a sweep, and no-show dings, per promoter
  pc, job,    \* of each worker: place, and what it has read
  run,        \* of each sweeper: place, what it listed, won and read
  crashes     \* how many processes have died

vars == <<campaign, slot, offer, asg, post, sub, escrow, posted, swept, noted,
          claims, dings, pc, job, run, crashes>>
poolVars == <<campaign, slot, offer>>
moneyVars == <<escrow, posted, swept>>
missVars == <<claims, dings, crashes>>

\* computeAssignmentRollup()
Rollup(p) ==
  LET Some(statuses) == \E i \in DOMAIN p : p[i] \in statuses
  IN  IF ~Some(PostStatus \ {"APPROVED", "MISSED"})
      THEN IF Some({"APPROVED"}) THEN "PAID" ELSE "CANCELLED"
      ELSE IF Some(Submittable) THEN "IN_PROGRESS" ELSE "SUBMITTED"

\* hasConsecutiveMisses(), threshold 2
ConsecutiveMisses(p) ==
  \E i \in DOMAIN p : i + 1 \in DOMAIN p /\ p[i] = "MISSED" /\ p[i + 1] = "MISSED"

Deficit(p) == Cardinality({i \in DOMAIN p : p[i] # "APPROVED"})
Misses(p) == Cardinality({i \in DOMAIN p : p[i] = "MISSED"})

Init ==
  /\ campaign = [status |-> "LIVE", total |-> InitialSlots, filled |-> 0]
  /\ slot = [s \in SlotId |-> [status |-> IF s <= InitialSlots THEN "OPEN" ELSE None,
                               posts |-> Posts]]
  /\ offer = [q \in Promoter |-> None]
  /\ asg = [q \in Promoter |-> [status |-> None, slot |-> None, stamped |-> FALSE]]
  /\ post = [q \in Promoter |-> <<>>]
  /\ sub = [n \in Submission |-> None]
  /\ escrow = InitialSlots * Posts * Unit /\ posted = {} /\ swept = FALSE
  /\ noted = {}
  /\ claims = [q \in Promoter |-> 0] /\ dings = [q \in Promoter |-> 0]
  /\ pc = [w \in Worker |-> "idle"] /\ job = [w \in Worker |-> None]
  /\ run = [z \in Sweeper |-> None] /\ crashes = 0

-------------------------------------------------------------------------------

Resting == (\A w \in Worker : pc[w] = "idle") /\ (\A z \in Sweeper : run[z] = None)

\* A worker takes a request up, and is done with one.
Begin(w, place, read) ==
  /\ pc[w] = "idle" /\ (Serial => Resting)
  /\ pc' = [pc EXCEPT ![w] = place] /\ job' = [job EXCEPT ![w] = read]

Goto(w, place, read) ==
  pc' = [pc EXCEPT ![w] = place] /\ job' = [job EXCEPT ![w] = read]

Done(w) == Goto(w, "idle", None)

\* A write to the assignment waits for the open transaction that has updated it.
RowFree(q) == \A w \in Worker : pc[w] = "commit" => sub[job[w].sub].promoter # q

-------------------------------------------------------------------------------
(* Offers (matching.service.ts, allocation.service.ts) *)

\* overOfferCount(), 1.5 offers per open slot
OverOfferCount(open) == Ceiling(3 * open, 2)

\* One offer of an allocation pass over a live campaign with open slots.
SendOffer(q) ==
  /\ campaign.status = "LIVE" /\ offer[q] = None
  /\ Cardinality({r \in Promoter : offer[r] = "SENT"})
       < OverOfferCount(campaign.total - campaign.filled)
  /\ offer' = [offer EXCEPT ![q] = "SENT"]
  /\ UNCHANGED <<campaign, slot, asg, post, sub, moneyVars, noted, missVars, pc, job, run>>

\* expireStaleOffers(): conditional, so an accepted offer is not touched.
ExpireOffer(q) ==
  /\ offer[q] = "SENT"
  /\ offer' = [offer EXCEPT ![q] = "EXPIRED"]
  /\ UNCHANGED <<campaign, slot, asg, post, sub, moneyVars, noted, missVars, pc, job, run>>

\* Fault: accept() takes a slot without looking at its status.
FaultAcceptAnySlot(q, s) ==
  /\ offer[q] = "SENT" /\ campaign.status = "LIVE" /\ slot[s].status # None
  /\ slot' = [slot EXCEPT ![s].status = "FILLED"]
  /\ offer' = [offer EXCEPT ![q] = "ACCEPTED"]
  /\ asg' = [asg EXCEPT ![q] = [status |-> "IN_PROGRESS", slot |-> s, stamped |-> FALSE]]
  /\ post' = [post EXCEPT ![q] = [i \in 1 .. Greatest(1, slot[s].posts) |-> "PENDING"]]
  /\ campaign' = [campaign EXCEPT !.filled = @ + 1]
  /\ UNCHANGED <<sub, moneyVars, noted, missVars, pc, job, run>>

\* accept(): one transaction under the offer's row lock.  FOR UPDATE SKIP LOCKED
\* gives it some open slot that no concurrent accept holds.
Accept(q, s) ==
  /\ offer[q] = "SENT" /\ campaign.status = "LIVE" /\ slot[s].status = "OPEN"
  /\ slot' = [slot EXCEPT ![s].status = "FILLED"]
  /\ offer' = [offer EXCEPT ![q] = "ACCEPTED"]
  /\ asg' = [asg EXCEPT ![q] = [status |-> "IN_PROGRESS", slot |-> s, stamped |-> FALSE]]
  /\ post' = [post EXCEPT ![q] = [i \in 1 .. Greatest(1, slot[s].posts) |-> "PENDING"]]
  /\ campaign' = [campaign EXCEPT !.filled = @ + 1]
  /\ UNCHANGED <<sub, moneyVars, noted, missVars, pc, job, run>>

\* decline(): read, then an unconditional update.
DeclineRead(w, q) ==
  /\ q \in Decliner /\ offer[q] = "SENT"
  /\ Begin(w, "decline", [promoter |-> q])
  /\ UNCHANGED <<poolVars, asg, post, sub, moneyVars, noted, missVars, run>>

DeclineWrite(w) ==
  /\ pc[w] = "decline"
  /\ offer' = [offer EXCEPT ![job[w].promoter] = "DECLINED"]
  /\ Done(w)
  /\ UNCHANGED <<campaign, slot, asg, post, sub, moneyVars, noted, missVars, run>>

-------------------------------------------------------------------------------
(* Proof (evidence.service.ts) *)

UnusedSubmissions == {n \in Submission : sub[n] = None}

\* Fault: the status of the post named by the promoter is not looked at.
FaultSubmitAnyPost(w, q, i) ==
  /\ asg[q].status \notin {None, "CANCELLED"} /\ i \in DOMAIN post[q]
  /\ Cardinality(UnusedSubmissions) > Cardinality({x \in Worker : pc[x] = "submit"})
  /\ Begin(w, "submit", [promoter |-> q, post |-> i, seen |-> post[q]])
  /\ UNCHANGED <<poolVars, asg, post, sub, moneyVars, noted, missVars, run>>

\* submit(): the checks, then hashing and uploading the screenshot.
SubmitRead(w, q, i) ==
  /\ asg[q].status \notin {None, "CANCELLED"}
  /\ i \in DOMAIN post[q] /\ post[q][i] \in Submittable
  /\ Cardinality(UnusedSubmissions) > Cardinality({x \in Worker : pc[x] = "submit"})
  /\ Begin(w, "submit", [promoter |-> q, post |-> i, seen |-> post[q]])
  /\ UNCHANGED <<poolVars, asg, post, sub, moneyVars, noted, missVars, run>>

SubmitWrite(w) ==
  LET q == job[w].promoter
      i == job[w].post
      n == CHOOSE m \in UnusedSubmissions : \A k \in UnusedSubmissions : m <= k
  IN
  /\ pc[w] = "submit" /\ RowFree(q)
  /\ sub' = [sub EXCEPT ![n] = [promoter |-> q, post |-> i, verdict |-> "PENDING", views |-> 0]]
  /\ post' = [post EXCEPT ![q][i] = "SUBMITTED"]
  /\ asg' = [asg EXCEPT ![q].status = Rollup([job[w].seen EXCEPT ![i] = "SUBMITTED"])]
  /\ Done(w)
  /\ UNCHANGED <<poolVars, moneyVars, noted, missVars, run>>

-------------------------------------------------------------------------------
(* Review (admin.service.ts) *)

\* rejectSubmission()
RejectRead(w, n) ==
  /\ sub[n] # None /\ sub[n].verdict = "PENDING"
  /\ Begin(w, "reject", [sub |-> n, seen |-> post[sub[n].promoter]])
  /\ UNCHANGED <<poolVars, asg, post, sub, moneyVars, noted, missVars, run>>

\* A second rejection of one submission fails on its dedupe keys and is rolled back.
RejectWrite(w) ==
  LET n == job[w].sub
      q == sub[n].promoter
      i == sub[n].post
  IN
  /\ pc[w] = "reject" /\ RowFree(q)
  /\ Done(w)
  /\ IF <<"rejected", n>> \in noted
     THEN UNCHANGED <<sub, post, asg, noted>>
     ELSE /\ sub' = [sub EXCEPT ![n].verdict = "REJECTED"]
          /\ post' = [post EXCEPT ![q][i] = "REJECTED"]
          /\ asg' = [asg EXCEPT ![q].status = Rollup([job[w].seen EXCEPT ![i] = "REJECTED"])]
          /\ noted' = noted \cup {<<"rejected", n>>}
  /\ UNCHANGED <<poolVars, moneyVars, missVars, run>>

\* What an approval carries from its reads to its writes.
ReadToApprove(n, v, k) ==
  [sub |-> n, views |-> v, attempt |-> k, seen |-> post[sub[n].promoter],
   live |-> campaign.status = "LIVE", stamped |-> asg[sub[n].promoter].stamped,
   escrow |-> 0, plan |-> None]

\* Fault: a submission that has its verdict is approved again under a new key.
FaultApproveAnyVerdict(w, n, v, k) ==
  /\ sub[n] # None /\ <<n, k>> \notin posted /\ MeetsThreshold(v, Reach)
  /\ Begin(w, "settle", ReadToApprove(n, v, k))
  /\ UNCHANGED <<poolVars, asg, post, sub, moneyVars, noted, missVars, run>>

\* approveSubmission(): what is read and checked before any money moves.
ApproveRead(w, n, v, k) ==
  /\ sub[n] # None /\ <<n, k>> \notin posted
  /\ sub[n].verdict = "PENDING"
  /\ MeetsThreshold(v, Reach)
  /\ Begin(w, "settle", ReadToApprove(n, v, k))
  /\ UNCHANGED <<poolVars, asg, post, sub, moneyVars, noted, missVars, run>>

\* Fault: the records are written first and the payout is left for later.
FaultSettleLater(w) ==
  /\ pc[w] = "settle"
  /\ Goto(w, "economics", job[w])
  /\ UNCHANGED <<poolVars, asg, post, sub, moneyVars, noted, missVars, run>>

\* The payout.  A replay ends the request without touching any record, and so does
\* an escrow that cannot pay.
Settle(w) ==
  LET key == <<job[w].sub, job[w].attempt>>
      delivered == DeliveredGross(Unit, job[w].views, Reach)
  IN
  /\ pc[w] = "settle"
  /\ IF key \in posted \/ escrow < delivered
     THEN Done(w) /\ UNCHANGED <<escrow, posted>>
     ELSE /\ Goto(w, "economics", job[w])
          /\ escrow' = escrow - delivered
          /\ posted' = posted \cup {key}
  /\ UNCHANGED <<poolVars, asg, post, sub, swept, noted, missVars, run>>

\* The balance a reopening is decided on, read before the transaction.
ReadEscrow(w) ==
  /\ pc[w] = "economics"
  /\ Goto(w, "decide", [job[w] EXCEPT !.escrow = escrow])
  /\ UNCHANGED <<poolVars, asg, post, sub, moneyVars, noted, missVars, run>>

\* What an approval concludes from the committed rows and its own writes: how many
\* slots to open again, whether the campaign is fulfilled, and whether nothing is in
\* flight then.  A REJECTED post is not counted as in flight.
Conclusion(w) ==
  LET n == job[w].sub
      posts == [post EXCEPT ![sub[n].promoter][sub[n].post] = "APPROVED"]
      approved == {m \in Submission \ {n} : sub[m] # None /\ sub[m].verdict = "APPROVED"}
      total == job[w].views + SumFunctionOnSet([m \in approved |-> sub[m].views], approved)
      reached == total >= Target
      inFlight == \/ \E s \in SlotId : slot[s].status = "OPEN"
                  \/ \E q \in Promoter : \E i \in DOMAIN posts[q] :
                        posts[q][i] \in {"PENDING", "SUBMITTED"}
      again == IF reached \/ inFlight THEN 0
               ELSE ReopenCount(Target - total, Reach * Posts, job[w].escrow, Unit * Posts)
  IN IF job[w].live
     THEN [open |-> again, fulfil |-> again = 0 /\ (reached \/ ~inFlight), book |-> ~inFlight]
     ELSE [open |-> 0, fulfil |-> FALSE, book |-> FALSE]

\* In the transaction: the rows of the submission and its assignment are updated (and
\* so locked), then the campaign is looked at.  The approval of a submission another
\* request has approved meanwhile fails on its dedupe keys.
Decide(w) ==
  LET n == job[w].sub IN
  /\ pc[w] = "decide" /\ RowFree(sub[n].promoter)
  /\ IF <<"approved", n>> \in noted
     THEN Done(w)
     ELSE Goto(w, "commit", [job[w] EXCEPT !.plan = Conclusion(w)])
  /\ UNCHANGED <<poolVars, asg, post, sub, moneyVars, noted, missVars, run>>

\* The rows a reopening creates: which ids they get does not matter.
UnusedSlots == {s \in SlotId : slot[s].status = None}
NewSlots(k) == CHOOSE new \in SUBSET UnusedSlots : Cardinality(new) = k

\* The commit.  A second request that fulfils the campaign fails on the dedupe key
\* campaign.fulfilled and loses everything it wrote.
Commit(w) ==
  LET n == job[w].sub
      q == sub[n].promoter
      i == sub[n].post
      plan == job[w].plan
      rollup == Rollup([job[w].seen EXCEPT ![i] = "APPROVED"])
  IN
  /\ pc[w] = "commit" /\ plan.open <= Cardinality(UnusedSlots)    \* SlotId, a bound
  /\ IF plan.fulfil /\ <<"fulfilled">> \in noted
     THEN Done(w) /\ UNCHANGED <<campaign, slot, sub, post, asg, noted>>
     ELSE /\ IF plan.fulfil /\ plan.book THEN Goto(w, "remainder", None) ELSE Done(w)
          /\ sub' = [sub EXCEPT ![n].verdict = "APPROVED", ![n].views = job[w].views]
          /\ post' = [post EXCEPT ![q][i] = "APPROVED"]
          /\ asg' = [asg EXCEPT ![q].status = rollup,
                                ![q].stamped = @ \/ (rollup = "PAID" /\ ~job[w].stamped)]
          /\ noted' = noted \cup {<<"approved", n>>}
                            \cup (IF plan.fulfil THEN {<<"fulfilled">>} ELSE {})
          /\ LET new == NewSlots(plan.open)
             IN  slot' = [s \in SlotId |-> IF s \in new THEN [status |-> "OPEN", posts |-> Posts]
                                           ELSE slot[s]]
          /\ campaign' = [campaign EXCEPT !.total = @ + plan.open,
                                          !.status = IF plan.fulfil THEN "FULFILLED" ELSE @]
  /\ UNCHANGED <<offer, moneyVars, missVars, run>>

\* After the transaction: what is left in escrow is read, then booked to revenue.
ReadRemainder(w) ==
  /\ pc[w] = "remainder"
  /\ IF escrow > 0 THEN Goto(w, "book", [escrow |-> escrow]) ELSE Done(w)
  /\ UNCHANGED <<poolVars, asg, post, sub, moneyVars, noted, missVars, run>>

BookRemainder(w) ==
  /\ pc[w] = "book"
  /\ Done(w)
  /\ IF ~swept /\ escrow >= job[w].escrow
     THEN escrow' = escrow - job[w].escrow /\ swept' = TRUE
     ELSE UNCHANGED <<escrow, swept>>
  /\ UNCHANGED <<poolVars, asg, post, sub, posted, noted, missVars, run>>

-------------------------------------------------------------------------------
(* The reclaim sweep (allocation.service.ts) *)

\* The posts listed when the first passed[q] deadlines of each assignment are behind.
Overdue(passed) ==
  LET Late(q, i) == /\ asg[q].status \notin {None, "CANCELLED", "PAID"}
                    /\ i \in DOMAIN post[q] /\ i <= passed[q] /\ post[q][i] \in Submittable
  IN  {e \in Promoter \X (1 .. Posts) : Late(e[1], e[2])}

\* What a sweep does next: it ends when nothing is listed and nothing won is left.
Continue(z, r) ==
  run' = [run EXCEPT ![z] = IF r.todo = {} /\ \A q \in Promoter : r.won[q] = 0 THEN None ELSE r]

SweepList(z, passed) ==
  /\ run[z] = None /\ (Serial => Resting)
  /\ Overdue(passed) # {}
  /\ Continue(z, [place |-> "claim", todo |-> Overdue(passed), won |-> [q \in Promoter |-> 0],
                  promoter |-> None, seen |-> <<>>, slot |-> None])
  /\ UNCHANGED <<poolVars, asg, post, sub, moneyVars, noted, missVars, pc, job>>

\* Fault: the claim does not look at the status it finds.
FaultClaimUnconditional(z, q, i) ==
  /\ run[z] # None /\ run[z].place = "claim" /\ <<q, i>> \in run[z].todo
  /\ post' = [post EXCEPT ![q][i] = "MISSED"]
  /\ claims' = [claims EXCEPT ![q] = IF post[q][i] \in Submittable THEN @ + 1 ELSE @]
  /\ Continue(z, [run[z] EXCEPT !.todo = @ \ {<<q, i>>}, !.won[q] = @ + 1])
  /\ UNCHANGED <<poolVars, asg, sub, moneyVars, noted, dings, crashes, pc, job>>

\* One conditional update: only the sweep that finds the post reclaimable wins it.
Claim(z, q, i) ==
  /\ run[z] # None /\ run[z].place = "claim" /\ <<q, i>> \in run[z].todo
  /\ LET rest == [run[z] EXCEPT !.todo = @ \ {<<q, i>>}] IN
     IF post[q][i] \in Submittable
     THEN /\ post' = [post EXCEPT ![q][i] = "MISSED"]
          /\ claims' = [claims EXCEPT ![q] = @ + 1]
          /\ Continue(z, [rest EXCEPT !.won[q] = @ + 1])
     ELSE Continue(z, rest) /\ UNCHANGED <<post, claims>>
  /\ UNCHANGED <<poolVars, asg, sub, moneyVars, noted, dings, crashes, pc, job>>

\* reconcileAfterMisses(), the read: a cancelled assignment was dealt with already.
ReconcileRead(z, q) ==
  /\ run[z] # None /\ run[z].place = "claim" /\ run[z].todo = {} /\ run[z].won[q] > 0
  /\ IF asg[q].status = "CANCELLED"
     THEN Continue(z, [run[z] EXCEPT !.won[q] = 0])
     ELSE run' = [run EXCEPT ![z].place = "write", ![z].promoter = q,
                             ![z].seen = post[q], ![z].slot = asg[q].slot]
  /\ UNCHANGED <<poolVars, asg, post, sub, moneyVars, noted, missVars, pc, job>>

\* The promoter has failed: a missed one-off, or two posts missed in a row.
ShouldReallocate(p) == Deficit(p) > 0 /\ (Len(p) = 1 \/ ConsecutiveMisses(p))

\* reconcileAfterMisses(), the writes, all or nothing: a dedupe key that is taken
\* rolls them back and its exception ends the sweep.
ReconcileWrite(z) ==
  LET q == run[z].promoter
      seen == run[z].seen
      pulled == ShouldReallocate(seen)
      key == IF pulled THEN <<"cancelled", q>> ELSE <<"missed", q, Misses(seen)>>
      s == run[z].slot
  IN
  /\ run[z] # None /\ run[z].place = "write" /\ RowFree(q)
  /\ IF key \in noted
     THEN run' = [run EXCEPT ![z] = None] /\ UNCHANGED <<asg, post, slot, campaign, dings, noted>>
     ELSE /\ noted' = noted \cup {key}
          /\ dings' = [dings EXCEPT ![q] = @ + run[z].won[q]]
          /\ Continue(z, [run[z] EXCEPT !.place = "claim", !.won[q] = 0, !.promoter = None,
                                        !.seen = <<>>, !.slot = None])
          /\ IF pulled
             THEN /\ post' = [post EXCEPT ![q] =
                       [i \in DOMAIN @ |-> IF @[i] \in Submittable THEN "MISSED" ELSE @[i]]]
                  /\ asg' = [asg EXCEPT ![q].status = "CANCELLED", ![q].slot = None]
                  /\ IF s # None
                     THEN /\ slot' = [slot EXCEPT ![s] = [status |-> "OPEN", posts |-> Deficit(seen)]]
                          /\ campaign' = [campaign EXCEPT !.filled = @ - 1]
                     ELSE UNCHANGED <<slot, campaign>>
             ELSE /\ asg' = [asg EXCEPT ![q].status = Rollup(seen)]
                  /\ UNCHANGED <<post, slot, campaign>>
  /\ UNCHANGED <<offer, sub, moneyVars, claims, crashes, pc, job>>

-------------------------------------------------------------------------------

\* A process dies between two steps; what it had not committed is gone.  A death
\* before the first commit leaves what a request nobody sent leaves: it is left out.
HalfDone(w) == pc[w] \in {"economics", "decide", "commit", "remainder", "book"}

Crash ==
  /\ crashes < MaxCrashes /\ crashes' = crashes + 1
  /\ \/ \E w \in Worker : HalfDone(w) /\ Done(w) /\ UNCHANGED run
     \/ \E z \in Sweeper : /\ run[z] # None /\ \E q \in Promoter : run[z].won[q] > 0
                           /\ run' = [run EXCEPT ![z] = None]
                           /\ UNCHANGED <<pc, job>>
  /\ UNCHANGED <<poolVars, asg, post, sub, moneyVars, noted, claims, dings>>

Continuation(w) == \/ DeclineWrite(w) \/ SubmitWrite(w) \/ RejectWrite(w) \/ Settle(w)
                   \/ ReadEscrow(w) \/ Decide(w) \/ Commit(w) \/ ReadRemainder(w) \/ BookRemainder(w)

Sweep(z) == \/ \E passed \in [Promoter -> 0 .. Posts] : SweepList(z, passed)
            \/ ReconcileWrite(z)
            \/ \E q \in Promoter : ReconcileRead(z, q) \/ \E i \in 1 .. Posts : Claim(z, q, i)

Next ==
  \/ \E q \in Promoter : \/ SendOffer(q) \/ ExpireOffer(q)
                         \/ \E s \in SlotId : Accept(q, s)
  \/ \E w \in Worker : \/ Continuation(w)
                       \/ \E q \in Promoter : DeclineRead(w, q) \/ \E i \in 1 .. Posts : SubmitRead(w, q, i)
                       \/ \E n \in Submission : \/ RejectRead(w, n)
                                               \/ \E v \in Views, k \in Attempts : ApproveRead(w, n, v, k)
  \/ \E z \in Sweeper : Sweep(z)
  \/ Crash

Spec == Init /\ [][Next]_vars

-------------------------------------------------------------------------------
(* Type *)

ReadBySubmit == [promoter: Promoter, post: 1 .. Posts, seen: Schedule]
ReadByReject == [sub: Submission, seen: Schedule]
Plan == [open: Nat, fulfil: BOOLEAN, book: BOOLEAN]
ReadByApprove == [sub: Submission, views: Views, attempt: Attempts, seen: Schedule,
                  live: BOOLEAN, stamped: BOOLEAN, escrow: Nat, plan: {None} \cup Plan]

Place == {"idle", "decline", "submit", "reject", "settle", "economics", "decide", "commit",
          "remainder", "book"}
Carries(place, read) ==
  /\ place \in {"idle", "remainder"} => read = None
  /\ place = "decline" => read \in [promoter: Promoter]
  /\ place = "submit" => read \in ReadBySubmit
  /\ place = "reject" => read \in ReadByReject
  /\ place = "book" => read \in [escrow: Nat]
  /\ place \in {"settle", "economics", "decide", "commit"} => read \in ReadByApprove
  /\ place = "commit" => read.plan \in Plan

TypeOK ==
  /\ campaign \in [status: {"LIVE", "FULFILLED"}, total: Nat, filled: Nat]
  /\ slot \in [SlotId -> [status: {None, "OPEN", "FILLED"}, posts: 1 .. Posts]]
  /\ offer \in [Promoter -> {None, "SENT", "ACCEPTED", "DECLINED", "EXPIRED"}]
  /\ asg \in [Promoter -> [status: {None, "IN_PROGRESS", "SUBMITTED", "PAID", "CANCELLED"},
                           slot: {None} \cup SlotId, stamped: BOOLEAN]]
  /\ post \in [Promoter -> Schedule]
  /\ sub \in [Submission -> {None} \cup Proof]
  /\ escrow \in Nat /\ posted \subseteq Submission \X Attempts /\ swept \in BOOLEAN
  /\ claims \in [Promoter -> Nat] /\ dings \in [Promoter -> Nat] /\ crashes \in Nat
  /\ pc \in [Worker -> Place] /\ DOMAIN job = Worker /\ \A w \in Worker : Carries(pc[w], job[w])
  /\ run \in [Sweeper -> {None} \cup Working]

-------------------------------------------------------------------------------
(* Properties of every interleaving, with crashes *)

\* The pool is never oversold and never leaks: a slot is FILLED exactly when one
\* assignment holds it, a cancelled assignment holds none, and slots_filled and
\* slots_total, which allocation goes by, count what is there.
Holders(s) == {q \in Promoter : asg[q].slot = s}
SlotPool ==
  /\ \A s \in SlotId : Cardinality(Holders(s)) = IF slot[s].status = "FILLED" THEN 1 ELSE 0
  /\ \A q \in Promoter : asg[q].status = "CANCELLED" => asg[q].slot = None
  /\ campaign.filled = Cardinality({s \in SlotId : slot[s].status = "FILLED"})
  /\ campaign.total = Cardinality({s \in SlotId : slot[s].status # None})

\* The same, and every record keeps its shape.
SlotsCounted == TypeOK /\ SlotPool

\* No record says a promoter was paid who was not: an approved submission has its
\* payout in the ledger, whatever raced with its approval.
ApprovedIsPaid ==
  \A n \in Submission : sub[n] # None /\ sub[n].verdict = "APPROVED"
                          => \E k \in Attempts : <<n, k>> \in posted

\* A no-show is never dinged twice: a promoter has at most one ding for each post
\* some sweep has won, those a sweep has still to deal with included.
DingedOnce ==
  \A q \in Promoter :
    LET working == {z \in Sweeper : run[z] # None}
    IN  dings[q] + SumFunctionOnSet([z \in working |-> run[z].won[q]], working) <= claims[q]

(* Properties of requests that do not overlap *)

Payouts(q, i) == {key \in posted : sub[key[1]].promoter = q /\ sub[key[1]].post = i}
Awaiting(q, i) == {n \in Submission : /\ sub[n] # None /\ sub[n].verdict = "PENDING"
                                      /\ sub[n].promoter = q /\ sub[n].post = i}

\* The review of a proof it still had has taken a pulled assignment out of CANCELLED.
Revived(q) == <<"cancelled", q>> \in noted /\ asg[q].status # "CANCELLED"

\* Posts, proofs, money and assignments agree: a post is APPROVED exactly when it was
\* paid once, never twice, under whatever keys, and SUBMITTED exactly when one proof
\* awaits review.  Until an assignment is revived, the status of each that was not pulled
\* is the roll-up of its posts, and each post that was missed has its ding.
RecordsAgree == Resting => \A q \in Promoter :
  /\ \A i \in DOMAIN post[q] :
       /\ Cardinality(Payouts(q, i)) = IF post[q][i] = "APPROVED" THEN 1 ELSE 0
       /\ Cardinality(Awaiting(q, i)) = IF post[q][i] = "SUBMITTED" THEN 1 ELSE 0
  /\ (\A r \in Promoter : ~Revived(r)) =>
       asg[q].status \in {None, "CANCELLED", Rollup(post[q])} /\ dings[q] = claims[q]

\* A step keeps a post that was paid or forfeited as it is, and a verdict is final.
KeepsFinal ==
  /\ \A q \in Promoter, i \in 1 .. Posts :
       i \in DOMAIN post[q] /\ post[q][i] \in {"APPROVED", "MISSED"} => post'[q][i] = post[q][i]
  /\ \A n \in Submission : sub[n] # None /\ sub[n].verdict # "PENDING" => sub'[n] = sub[n]

(* What the code's comments say of itself *)

\* The remainder is booked only when nothing in flight could still be paid from it.
Payable(q, i) == asg[q].status # "CANCELLED" /\ post[q][i] \in Submittable \cup {"SUBMITTED"}
SweptMeansNothingOwed ==
  swept /\ Resting => \A q \in Promoter : \A i \in DOMAIN post[q] : ~Payable(q, i)

\* A promoter is never paid without the record of why: once no request is under way,
\* every payout in the ledger belongs to a submission that says APPROVED.
PaidIsRecorded == Resting => \A key \in posted : sub[key[1]].verdict = "APPROVED"

\* A pulled assignment is terminal, so that one key for its penalty is enough: every post
\* a sweep has missed is dinged by the time it ends.
MissesAreDinged == Resting => \A q \in Promoter : dings[q] = claims[q]

===============================================================================
