---------------------------- MODULE CampaignFunding ----------------------------
(***************************************************************************)
(* One campaign from draft to live: pricing it, paying for it by card or   *)
(* by bank transfer, review, rejection and refund, and the closing of the  *)
(* client's account (campaigns, payments, admin and clients services).     *)
(* Every handler reads the campaign first; those that move money then post *)
(* to the ledger, in one step here (LedgerAbstract); the record follows in *)
(* a transaction of its own, unconditional on the status, that fails if a  *)
(* notification in it was sent before.                                     *)
(***************************************************************************)
EXTENDS Integers, FiniteSets, FiniteSetsExt, Functions

CONSTANTS Transfer,       \* idempotency keys of recorded bank transfers
          Reference,      \* gateway references, which are the keys of card payments
          Worker,         \* concurrent requests
          Prices,         \* prices a quote may come to
          Modes,          \* may requests overlap? (BOOLEAN for both)
          MaxCrashes,     \* a bound
          Refund, None    \* the key refund:<campaign>; no price, no posting

Funding == Transfer \cup Reference
Key == Funding \cup {Refund}

ASSUME FundingAssumption ==
  /\ Transfer \cap Reference = {} /\ Refund \notin Funding /\ None \notin Key
  /\ Prices \subseteq Nat \ {0} /\ None \notin Prices
  /\ Modes \subseteq BOOLEAN /\ MaxCrashes \in Nat

VARIABLES
  status, price,  \* of the campaign
  linked,         \* is escrow_account_id set?
  escrow, wallet, \* balances of CAMPAIGN_ESCROW and of the client's wallet
  posted,         \* what moved under each key: None or the amount
  charge,         \* what the gateway charged under each reference
  gateway,        \* gateway_payments: references with a reconciliation row
  noted,          \* dedupe keys of the notifications written
  open,           \* the client's account has not been deleted
  alone,          \* TRUE: no two requests of this behaviour overlap
  pc, job, crashes

vars == <<status, price, linked, escrow, wallet, posted, charge, gateway, noted, open,
          alone, pc, job, crashes>>
money == <<escrow, wallet, posted>>
record == <<status, price, linked, gateway, noted, open>>
frame == <<charge, alone, crashes>>

Editable == {"DRAFT", "QUOTED"}
Cancellable == {"DRAFT", "QUOTED", "PENDING_APPROVAL", "REJECTED"}

Resting == \A w \in Worker : pc[w] = "idle"

Begin(w, place, read) ==
  /\ pc[w] = "idle" /\ (alone => Resting)
  /\ pc' = [pc EXCEPT ![w] = place] /\ job' = [job EXCEPT ![w] = read]

Goto(w, place) == pc' = [pc EXCEPT ![w] = place] /\ UNCHANGED job
Done(w) == pc' = [pc EXCEPT ![w] = "idle"] /\ job' = [job EXCEPT ![w] = None]

Init ==
  /\ status = "DRAFT" /\ price = None /\ linked = FALSE
  /\ escrow = 0 /\ wallet = 0 /\ posted = [k \in Key |-> None]
  /\ charge \in [Reference -> Prices] /\ gateway = {} /\ noted = {}
  /\ open = TRUE /\ alone \in Modes
  /\ pc = [w \in Worker |-> "idle"] /\ job = [w \in Worker |-> None] /\ crashes = 0

-------------------------------------------------------------------------------
(* The client *)

\* quote(), at whatever price it comes to
QuoteRead(w, p) ==
  /\ open /\ status \in Editable
  /\ Begin(w, "quote", [price |-> p])
  /\ UNCHANGED <<record, money, frame>>

QuoteWrite(w) ==
  /\ pc[w] = "quote"
  /\ status' = "QUOTED" /\ price' = job[w].price
  /\ Done(w)
  /\ UNCHANGED <<linked, gateway, noted, open, money, frame>>

\* update() and setTargeting() of a quoted campaign: the quote is dropped.
EditRead(w) ==
  /\ open /\ status = "QUOTED"
  /\ Begin(w, "edit", None)
  /\ UNCHANGED <<record, money, frame>>

EditWrite(w) ==
  /\ pc[w] = "edit"
  /\ status' = "DRAFT" /\ price' = None
  /\ Done(w)
  /\ UNCHANGED <<linked, gateway, noted, open, money, frame>>

\* submitForApproval(): a campaign sent back for changes goes to review again.
ResubmitRead(w) ==
  /\ open /\ status = "REJECTED"
  /\ Begin(w, "resubmit", None)
  /\ UNCHANGED <<record, money, frame>>

ResubmitWrite(w) ==
  /\ pc[w] = "resubmit"
  /\ status' = "PENDING_APPROVAL"
  /\ Done(w)
  /\ UNCHANGED <<price, linked, gateway, noted, open, money, frame>>

\* deleteAccount(): a live campaign forbids it.
DeleteRead(w) ==
  /\ open /\ status # "LIVE"
  /\ Begin(w, "delete", None)
  /\ UNCHANGED <<record, money, frame>>

DeleteWrite(w) ==
  /\ pc[w] = "delete"
  /\ status' = IF status \in Cancellable THEN "CANCELLED" ELSE status
  /\ open' = FALSE
  /\ Done(w)
  /\ UNCHANGED <<price, linked, gateway, noted, money, frame>>

-------------------------------------------------------------------------------
(* Payment: fundCampaign() of the admin, settleCharge() of the gateway *)

\* The amount a card was charged, or an admin enters, must be the price.
FundRead(w, k) ==
  /\ posted[k] = None
  /\ status = "QUOTED" /\ price # None
  /\ k \in Reference => charge[k] = price
  /\ Begin(w, "fund", [key |-> k, amount |-> price])
  /\ UNCHANGED <<record, money, frame>>

\* Fault: the record is written first, the ledger is left for later.
FaultFundPostLater(w) ==
  /\ pc[w] = "fund" /\ Goto(w, "funded")
  /\ UNCHANGED <<record, money, frame>>

\* A replay ends the request.
FundPost(w) ==
  LET k == job[w].key IN
  /\ pc[w] = "fund"
  /\ IF posted[k] # None
     THEN Done(w) /\ UNCHANGED money
     ELSE /\ posted' = [posted EXCEPT ![k] = job[w].amount]
          /\ escrow' = escrow + job[w].amount
          /\ UNCHANGED wallet
          /\ Goto(w, "funded")
  /\ UNCHANGED <<record, frame>>

\* A card payment also opens a reconciliation row and tells the client.
FundRecord(w) ==
  LET reference == {job[w].key} \cap Reference IN
  /\ pc[w] = "funded"
  /\ status' = "PENDING_APPROVAL" /\ linked' = TRUE
  /\ gateway' = gateway \cup reference
  /\ noted' = noted \cup {<<"payment_received", k>> : k \in reference}
  /\ Done(w)
  /\ UNCHANGED <<price, open, money, frame>>

-------------------------------------------------------------------------------
(* Review *)

\* approveCampaign()
ApproveRead(w) ==
  /\ status = "PENDING_APPROVAL"
  /\ Begin(w, "approve", None)
  /\ UNCHANGED <<record, money, frame>>

ApproveWrite(w) ==
  /\ pc[w] = "approve"
  /\ Done(w)
  /\ IF <<"live">> \in noted
     THEN UNCHANGED <<status, noted>>
     ELSE status' = "LIVE" /\ noted' = noted \cup {<<"live">>}
  /\ UNCHANGED <<price, linked, gateway, open, money, frame>>

\* Fault: a campaign rejected in full is refunded whether or not it has a price.
FaultRejectReadUnpriced(w, terminal) ==
  /\ status = "PENDING_APPROVAL"
  /\ Begin(w, IF terminal THEN "refund" ELSE "reject",
           [amount |-> price, next |-> IF terminal THEN "CANCELLED" ELSE "REJECTED"])
  /\ UNCHANGED <<record, money, frame>>

\* rejectCampaign(): terminal with a refund, or sent back for changes
RejectRead(w, terminal) ==
  /\ status = "PENDING_APPROVAL"
  /\ Begin(w, IF terminal /\ linked /\ price # None THEN "refund" ELSE "reject",
           [amount |-> price, next |-> IF terminal THEN "CANCELLED" ELSE "REJECTED"])
  /\ UNCHANGED <<record, money, frame>>

\* Fault: a rejection in full leaves the money in escrow.
FaultNoRefund(w) ==
  /\ pc[w] = "refund" /\ Goto(w, "reject")
  /\ UNCHANGED <<record, money, frame>>

\* Fault: every refund has a key of its own.
FaultRefundAgain(w) ==
  /\ pc[w] = "refund"
  /\ IF escrow < job[w].amount
     THEN Done(w) /\ UNCHANGED money
     ELSE /\ posted' = [posted EXCEPT ![Refund] = job[w].amount]
          /\ escrow' = escrow - job[w].amount /\ wallet' = wallet + job[w].amount
          /\ Goto(w, "reject")
  /\ UNCHANGED <<record, frame>>

\* A replay goes on to the record; a replay of another amount and an escrow that
\* cannot pay end the request.
RefundPost(w) ==
  LET n == job[w].amount IN
  /\ pc[w] = "refund"
  /\ IF posted[Refund] = None
     THEN IF escrow < n
          THEN Done(w) /\ UNCHANGED money
          ELSE /\ posted' = [posted EXCEPT ![Refund] = n]
               /\ escrow' = escrow - n /\ wallet' = wallet + n
               /\ Goto(w, "reject")
     ELSE /\ UNCHANGED money
          /\ IF posted[Refund] = n THEN Goto(w, "reject") ELSE Done(w)
  /\ UNCHANGED <<record, frame>>

\* The notification has one dedupe key for both kinds of rejection.
RejectWrite(w) ==
  /\ pc[w] = "reject"
  /\ Done(w)
  /\ IF <<"rejected">> \in noted
     THEN UNCHANGED <<status, noted>>
     ELSE status' = job[w].next /\ noted' = noted \cup {<<"rejected">>}
  /\ UNCHANGED <<price, linked, gateway, open, money, frame>>

-------------------------------------------------------------------------------

\* A process dies after the ledger committed and before the record did.
HalfDone(w) == pc[w] = "funded" \/ (pc[w] = "reject" /\ job[w].next = "CANCELLED")

Crash(w) ==
  /\ crashes < MaxCrashes /\ HalfDone(w)
  /\ crashes' = crashes + 1 /\ Done(w)
  /\ UNCHANGED <<record, money, charge, alone>>

Next == \E w \in Worker :
  \/ \E p \in Prices : QuoteRead(w, p)
  \/ \E k \in Funding : FundRead(w, k)
  \/ \E terminal \in BOOLEAN : RejectRead(w, terminal)
  \/ EditRead(w) \/ ResubmitRead(w) \/ DeleteRead(w) \/ ApproveRead(w)
  \/ QuoteWrite(w) \/ EditWrite(w) \/ ResubmitWrite(w) \/ DeleteWrite(w)
  \/ FundPost(w) \/ FundRecord(w) \/ ApproveWrite(w) \/ RefundPost(w) \/ RejectWrite(w)
  \/ Crash(w)

Spec == Init /\ [][Next]_vars

-------------------------------------------------------------------------------

Quoting == [price: Prices]
Paying == [key: Funding, amount: Prices]
Rejecting == [amount: Prices \cup {None}, next: {"CANCELLED", "REJECTED"}]

\* What a request has read by the time it is where it is.
Carries(w) ==
  \/ pc[w] \in {"idle", "edit", "resubmit", "delete", "approve"} /\ job[w] = None
  \/ pc[w] = "quote" /\ job[w] \in Quoting
  \/ pc[w] \in {"fund", "funded"} /\ job[w] \in Paying
  \/ pc[w] = "refund" /\ job[w] \in Rejecting /\ job[w].amount # None
  \/ pc[w] = "reject" /\ job[w] \in Rejecting

Place == {"idle", "edit", "resubmit", "delete", "approve", "quote", "fund", "funded",
          "refund", "reject"}

\* Escrow and wallet never fall below zero, and every record has its shape.
TypeOK ==
  /\ status \in {"DRAFT", "QUOTED", "PENDING_APPROVAL", "LIVE", "REJECTED", "CANCELLED"}
  /\ price \in Prices \cup {None} /\ linked \in BOOLEAN
  /\ escrow \in Nat /\ wallet \in Nat
  /\ posted \in [Key -> Prices \cup {None}]
  /\ charge \in [Reference -> Prices] /\ gateway \subseteq Reference
  /\ noted \subseteq ({<<"live">>, <<"rejected">>} \cup ({"payment_received"} \X Reference))
  /\ open \in BOOLEAN /\ alone \in BOOLEAN /\ crashes \in Nat
  /\ pc \in [Worker -> Place]
  /\ job \in [Worker -> Quoting \cup Paying \cup Rejecting \cup {None}]
  /\ \A w \in Worker : Carries(w)

Paid == {k \in Funding : posted[k] # None}

\* Nothing is ever live, or credited in the reconciliation, that nobody paid for: a
\* campaign that was reviewed has a funding in the ledger, and a reconciliation row
\* has the posting of its reference for what was charged; whatever raced or died.
NothingUnpaid ==
  /\ status \in {"LIVE", "REJECTED"} => Paid # {}
  /\ \A k \in gateway : posted[k] = charge[k]

WalletIsRefund == wallet = IF posted[Refund] = None THEN 0 ELSE posted[Refund]

\* The refund is made at most once, however often a campaign is paid and rejected by
\* whatever admins at once; what was paid twice stays in escrow.
RefundedOnce ==
  /\ WalletIsRefund
  /\ escrow + wallet = SumFunctionOnSet(posted, Paid)

\* While requests do not overlap and none died half-way, status and money agree: one
\* payment of the price is held from payment on, none before, and the price is back in
\* the wallet after a rejection in full; every card payment has its row.  Left out is
\* an account that was closed, and a second rejection, whose record fails.
StatusTellsMoney ==
  alone /\ crashes = 0 /\ Resting /\ open /\ (posted[Refund] = None \/ status = "CANCELLED") =>
    /\ status \in {"DRAFT", "QUOTED"} => Paid = {} /\ escrow = 0
    /\ status \notin {"DRAFT", "QUOTED"} => Cardinality(Paid) = 1
    /\ status \in {"PENDING_APPROVAL", "REJECTED", "LIVE"} => escrow = price /\ wallet = 0
    /\ status = "CANCELLED" => escrow = 0 /\ wallet = price
    /\ gateway = Paid \cap Reference

\* An account is closed only when no money of its campaigns is in flight.
ClosedHoldsNothing == ~open /\ Resting => escrow = 0

===============================================================================
