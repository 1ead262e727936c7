-------------------------------- MODULE Offers --------------------------------
(***************************************************************************)
(* Who is offered one campaign, and when (allocation.service.ts,           *)
(* matching.service.ts).  A sweep, which an admin may also start, reads the *)
(* campaign | counts the offers that are out | lists the candidates |      *)
(* offers to one promoter after the other.  Sweeps of several processes    *)
(* overlap each other, the answers of promoters, and whatever changes who  *)
(* qualifies.  Promoters are numbered by how well they fit, the best first. *)
(***************************************************************************)
EXTENDS Matching

CONSTANTS Promoter,     \* numbers, the best fit first
          Proven,       \* those the newbie gate never holds back
          Slots,        \* slots_total
          Sweeper,      \* processes that allocate
          ByHand,       \* what an admin may pick for sendOffers(), sets of promoters
          MaxChanges,   \* changes of standing, releases and manual batches, a bound
          None

OffersAssumption == /\ Promoter \subseteq Nat /\ IsFiniteSet(Promoter) /\ Proven \subseteq Promoter
                    /\ ByHand \subseteq SUBSET Promoter /\ IsFiniteSet(Sweeper)
                    /\ Slots \in Nat \ {0} /\ MaxChanges \in Nat
                    /\ None \notin {"SENT", "LAPSED", "ACCEPTED", "DECLINED", "EXPIRED"}

VARIABLES
  live,       \* the campaign is LIVE
  headStart,  \* still within headStartHours of its approval
  holds,      \* the promoters who hold a slot
  offer,      \* the one offer of each promoter; LAPSED is SENT past its expiry
  standing,   \* "fit", "unfit" (status, trust, tier, weekly cap) or "channelless"
  place, task,    \* of each sweeper: place, and what it has read
  overlapped,     \* two sweeps have overlapped
  picked, changes \* promoters offered by hand; bounded events so far

vars == <<live, headStart, holds, offer, standing, place, task, overlapped, picked, changes>>
campaign == <<live, headStart, holds>>
frame == <<standing, picked, changes>>

Status == {None, "SENT", "LAPSED", "ACCEPTED", "DECLINED", "EXPIRED"}
Out == {p \in Promoter : offer[p] = "SENT"}
Open == Greatest(Slots - Cardinality(holds), 0)

TypeOK ==
  /\ live \in BOOLEAN /\ headStart \in BOOLEAN /\ overlapped \in BOOLEAN
  /\ holds \subseteq Promoter /\ offer \in [Promoter -> Status]
  /\ standing \in [Promoter -> {"fit", "unfit", "channelless"}]
  /\ place \in [Sweeper -> {"idle", "count", "list", "send"}]
  /\ task \in [Sweeper -> [open: Nat, wanted: Nat, picks: SUBSET Promoter]]
  /\ picked \subseteq Promoter /\ changes \in 0 .. MaxChanges

Nothing == [open |-> 0, wanted |-> 0, picks |-> {}]

Init ==
  /\ live = TRUE /\ headStart \in BOOLEAN /\ holds = {}
  /\ offer = [p \in Promoter |-> None]
  /\ standing = [p \in Promoter |-> "fit"]
  /\ place = [z \in Sweeper |-> "idle"] /\ task = [z \in Sweeper |-> Nothing]
  /\ overlapped = FALSE /\ picked = {} /\ changes = 0

Goto(z, to, t) == place' = [place EXCEPT ![z] = to] /\ task' = [task EXCEPT ![z] = t]
Stop(z) == Goto(z, "idle", Nothing)

-------------------------------------------------------------------------------
(* A sweep *)

\* allocateCampaign() reads the campaign.
Look(z) ==
  /\ place[z] = "idle" /\ live
  /\ Goto(z, "count", [Nothing EXCEPT !.open = Open])
  /\ overlapped' = (overlapped \/ \E y \in Sweeper \ {z} : place[y] # "idle")
  /\ UNCHANGED <<campaign, offer, frame>>

\* Fault: the offers that are out are not taken off what is wanted.
FaultCount(z) ==
  LET target == IF headStart THEN task[z].open ELSE OverOfferCount(task[z].open) IN
  /\ place[z] = "count"
  /\ IF target = 0 THEN Stop(z) ELSE Goto(z, "list", [task[z] EXCEPT !.wanted = target])
  /\ UNCHANGED <<campaign, offer, frame, overlapped>>

\* It counts the offers that are out, and works out how many more it wants.
Count(z) ==
  LET target == IF headStart THEN task[z].open ELSE OverOfferCount(task[z].open)
      wanted == Greatest(target - Cardinality(Out), 0) IN
  /\ place[z] = "count"
  /\ IF task[z].open = 0 \/ wanted = 0 THEN Stop(z)
     ELSE Goto(z, "list", [task[z] EXCEPT !.wanted = wanted])
  /\ UNCHANGED <<campaign, offer, frame, overlapped>>

\* buildEligibility() and the weekly cap
Qualified == {p \in Promoter : standing[p] = "fit"}

\* Fault: those who declined or let an offer lapse are listed again.
FaultEngaged == {p \in Promoter : offer[p] \in {"SENT", "LAPSED", "ACCEPTED"}}

\* engagedPromoterIds(): anyone with an offer of this campaign, of any status.
Engaged == {p \in Promoter : offer[p] # None}

Candidates == Shortlist(Qualified \ Engaged, Proven, Open)

\* The n best of a set.
Best(S, n) == {p \in S : Cardinality({q \in S : q < p}) < n}

\* The candidates are listed; sendOffers() then wants the campaign to be live still.
List(z) ==
  LET picks == Best(Candidates, task[z].wanted) IN
  /\ place[z] = "list"
  /\ IF picks = {} \/ ~live THEN Stop(z) ELSE Goto(z, "send", [task[z] EXCEPT !.picks = picks])
  /\ UNCHANGED <<campaign, offer, frame, overlapped>>

\* An admin picks the promoters.
Choose(z, picks) ==
  /\ place[z] = "idle" /\ live /\ picks # {} /\ changes < MaxChanges
  /\ Goto(z, "send", [Nothing EXCEPT !.picks = picks])
  /\ picked' = picked \cup picks /\ changes' = changes + 1
  /\ UNCHANGED <<campaign, offer, standing, overlapped>>

\* The next promoter of the batch.  One without a qualifying channel ends the batch
\* with an error; one who has an offer of this campaign is passed over.
Send(z) ==
  LET p == Min(task[z].picks)
      rest == task[z].picks \ {p}
      fails == standing[p] = "channelless" IN
  /\ place[z] = "send"
  /\ offer' = IF fails \/ offer[p] # None THEN offer ELSE [offer EXCEPT ![p] = "SENT"]
  /\ IF fails \/ rest = {} THEN Stop(z) ELSE Goto(z, "send", [task[z] EXCEPT !.picks = rest])
  /\ UNCHANGED <<campaign, frame, overlapped>>

-------------------------------------------------------------------------------
(* What happens meanwhile *)

\* accept(): within the window, of a live campaign, while a slot is open.
Accept(p) ==
  /\ offer[p] = "SENT" /\ live /\ Open > 0
  /\ offer' = [offer EXCEPT ![p] = "ACCEPTED"] /\ holds' = holds \cup {p}
  /\ UNCHANGED <<live, headStart, place, task, overlapped, frame>>

\* decline(): whether or not the window has passed.
Decline(p) ==
  /\ offer[p] \in {"SENT", "LAPSED"}
  /\ offer' = [offer EXCEPT ![p] = "DECLINED"]
  /\ UNCHANGED <<campaign, place, task, overlapped, frame>>

\* The window of an offer passes.  Accepting it now answers with an error, and leaves
\* it as it was: the transaction that marked it is rolled back.
Lapse(p) ==
  /\ offer[p] = "SENT"
  /\ offer' = [offer EXCEPT ![p] = "LAPSED"]
  /\ UNCHANGED <<campaign, place, task, overlapped, frame>>

\* expireStaleOffers()
Expire ==
  /\ \E p \in Promoter : offer[p] = "LAPSED"
  /\ offer' = [p \in Promoter |-> IF offer[p] = "LAPSED" THEN "EXPIRED" ELSE offer[p]]
  /\ UNCHANGED <<campaign, place, task, overlapped, frame>>

\* reconcileAfterMisses() gives a slot back; the promoter keeps the accepted offer.
Release(p) ==
  /\ p \in holds /\ changes < MaxChanges /\ changes' = changes + 1
  /\ holds' = holds \ {p}
  /\ UNCHANGED <<live, headStart, offer, standing, place, task, overlapped, picked>>

\* A promoter is reviewed, frozen, reinstated or has had enough for the week.
Change(p, s) ==
  /\ standing[p] # s /\ changes < MaxChanges /\ changes' = changes + 1
  /\ standing' = [standing EXCEPT ![p] = s]
  /\ UNCHANGED <<campaign, offer, place, task, overlapped, picked>>

HeadStartEnds ==
  /\ headStart /\ headStart' = FALSE
  /\ UNCHANGED <<live, holds, offer, place, task, overlapped, frame>>

\* The campaign is fulfilled.
Close ==
  /\ live /\ live' = FALSE
  /\ UNCHANGED <<headStart, holds, offer, place, task, overlapped, frame>>

Sweep(z) == Look(z) \/ Count(z) \/ List(z) \/ Send(z)

Next ==
  \/ \E z \in Sweeper : Sweep(z) \/ \E picks \in ByHand : Choose(z, picks)
  \/ \E p \in Promoter : Accept(p) \/ Decline(p) \/ Lapse(p) \/ Release(p)
       \/ \E s \in {"fit", "unfit", "channelless"} : Change(p, s)
  \/ Expire \/ HeadStartEnds \/ Close

Spec == Init /\ [][Next]_vars

\* The scheduler of a running process fires for ever, and a sweep it starts goes on.
Fairness == \A z \in Sweeper : WF_vars(Sweep(z))
FairSpec == Spec /\ Fairness

-------------------------------------------------------------------------------
(* Properties *)

\* allocateCampaign(): the offers that are out, those an admin picked left aside, are
\* never more than half as many again as the campaign has slots; only sweeps that
\* overlap can each add as many, because each counted before the other sent.
OffersBounded ==
  Cardinality(Out \ picked) <= OverOfferCount(Slots) * (IF overlapped THEN Cardinality(Sweeper) ELSE 1)

\* allocateAll(): a live campaign with open slots is never left waiting while there is
\* somebody to ask: for ever and again enough offers are out or no candidate is left,
\* however many were declined, lapsed or lost their channel in the middle of a batch.
Served == \/ ~live \/ Open = 0 \/ Candidates = {}
          \/ Cardinality(Out) >= (IF headStart THEN Open ELSE OverOfferCount(Open))
KeepsOffering == []<>Served

===============================================================================
