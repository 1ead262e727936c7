----------------------------- MODULE FundingProofs -----------------------------
(***************************************************************************)
(* What a campaign's status says about its money, for any number of        *)
(* requests, payments, prices, retries and crashes.  A request between its *)
(* read and its write acts on a status that may be gone: what carries the  *)
(* proof is that what it once saw, a payment, can never be undone.         *)
(* And what the gateway's rows say of its charges (Reconciliation), and    *)
(* what the records of a delivery say of each other when its requests take *)
(* turns, from the theorems of DeliveryProofs.                             *)
(***************************************************************************)
EXTENDS MCCampaignFunding, Sums, TLAPS

\* A campaign that waits for review, or was ever reviewed, has been paid for.
Reviewed == status \in {"PENDING_APPROVAL", "LIVE", "REJECTED"} => Paid # {}

\* A card payment is for what was charged; what is recorded has been posted; a review
\* is of a campaign that was paid for.
Justified(w) ==
  /\ pc[w] \in {"fund", "funded"} /\ job[w].key \in Reference
       => job[w].amount = charge[job[w].key]
  /\ pc[w] = "funded" => posted[job[w].key] = job[w].amount
  /\ pc[w] \in {"resubmit", "approve", "refund", "reject"} => Paid # {}

IInv == /\ TypeOK /\ Reviewed /\ NothingUnpaid /\ WalletIsRefund
        /\ \A w \in Worker : Justified(w)

-------------------------------------------------------------------------------

LEMMA Initial == ASSUME Init PROVE IInv
<1>1. TypeOK
  BY FundingAssumption DEF Init, TypeOK, Carries, Place
<1>2. WalletIsRefund
  BY DEF Init, WalletIsRefund, Key
<1> QED BY <1>1, <1>2 DEF Init, IInv, Reviewed, NothingUnpaid, Justified

\* A payment, once posted, stays: the refund has a key of its own and no key is
\* posted twice.
PostingsStay == \A k \in Key : posted[k] # None => posted'[k] = posted[k]

LEMMA PaidStays == ASSUME TypeOK, PostingsStay, Paid # {} PROVE Paid' # {}
<1>1. PICK k \in Funding : posted[k] # None
  BY DEF Paid
<1>2. posted'[k] # None
  BY <1>1 DEF PostingsStay, Key
<1> QED BY <1>2 DEF Paid

\* What a request relies on, the steps of others leave alone.
LEMMA OthersKeepJustified ==
  ASSUME TypeOK, PostingsStay, charge' = charge, NEW x \in Worker, Justified(x),
         pc'[x] = pc[x], job'[x] = job[x]
  PROVE  Carries(x)' /\ Justified(x)'
<1>1. Carries(x)' /\ Carries(x)
  BY DEF TypeOK, Carries
<1>2. pc[x] = "funded" => posted'[job[x].key] = job[x].amount
  BY <1>1, FundingAssumption DEF Carries, Paying, Justified, PostingsStay, Key
<1>3. pc[x] \in {"resubmit", "approve", "refund", "reject"} => Paid' # {}
  BY PaidStays DEF Justified
<1> QED BY <1>1, <1>2, <1>3 DEF Justified

\* One request moves; the records and balances it leaves behind are for its action to show.
LEMMA OneRequestMoves ==
  ASSUME IInv, PostingsStay, charge' = charge, NEW w \in Worker, NEW place \in Place, NEW what,
         what \in Quoting \cup Paying \cup Rejecting \cup {None},
         pc' = [pc EXCEPT ![w] = place], job' = [job EXCEPT ![w] = what],
         Carries(w)', Justified(w)'
  PROVE  /\ pc' \in [Worker -> Place]
         /\ job' \in [Worker -> Quoting \cup Paying \cup Rejecting \cup {None}]
         /\ \A x \in Worker : Carries(x)' /\ Justified(x)'
<1>1. \A x \in Worker \ {w} : pc'[x] = pc[x] /\ job'[x] = job[x]
  BY DEF IInv, TypeOK
<1>2. \A x \in Worker \ {w} : Carries(x)' /\ Justified(x)'
  BY <1>1, OthersKeepJustified DEF IInv
<1> QED BY <1>2 DEF IInv, TypeOK

\* A step that reads, or that ends a request without a trace.
LEMMA ReadKeeps ==
  ASSUME IInv, NEW w \in Worker, NEW place \in Place, NEW what,
         what \in Quoting \cup Paying \cup Rejecting \cup {None},
         pc' = [pc EXCEPT ![w] = place], job' = [job EXCEPT ![w] = what],
         UNCHANGED <<record, money, charge, alone>>, crashes' \in Nat,
         Carries(w)', Justified(w)'
  PROVE  IInv'
<1> USE DEF record, money
<1>1. PostingsStay
  BY DEF PostingsStay
<1>2. TypeOK'
  BY <1>1, OneRequestMoves DEF IInv, TypeOK
<1>3. Reviewed' /\ NothingUnpaid' /\ WalletIsRefund'
  BY DEF IInv, Reviewed, NothingUnpaid, WalletIsRefund, Paid
<1> QED BY <1>1, <1>2, <1>3, OneRequestMoves DEF IInv

LEMMA EndKeeps ==
  ASSUME IInv, NEW w \in Worker, Done(w),
         UNCHANGED <<record, money, charge, alone>>, crashes' \in Nat
  PROVE  IInv'
<1>1. pc'[w] = "idle" /\ job'[w] = None
  BY DEF Done, IInv, TypeOK
<1>2. Carries(w)' /\ Justified(w)'
  BY <1>1 DEF Carries, Justified
<1> QED BY <1>2, ReadKeeps DEF Done, Place

\* A step that ends a request by writing records, with the ledger as it was.
LEMMA WriteKeeps ==
  ASSUME IInv, NEW w \in Worker, Done(w),
         UNCHANGED <<money, charge, alone, crashes>>,
         status' \in {"DRAFT", "QUOTED", "PENDING_APPROVAL", "LIVE", "REJECTED", "CANCELLED"},
         price' \in Prices \cup {None}, linked' \in BOOLEAN, gateway' \subseteq Reference,
         noted' \subseteq ({<<"live">>, <<"rejected">>} \cup ({"payment_received"} \X Reference)),
         open' \in BOOLEAN, Reviewed', NothingUnpaid'
  PROVE  IInv'
<1> USE DEF money
<1>1. PostingsStay
  BY DEF PostingsStay
<1>2. pc'[w] = "idle" /\ job'[w] = None
  BY DEF Done, IInv, TypeOK
<1>3. Carries(w)' /\ Justified(w)'
  BY <1>2 DEF Carries, Justified
<1>4. /\ pc' \in [Worker -> Place]
      /\ job' \in [Worker -> Quoting \cup Paying \cup Rejecting \cup {None}]
      /\ \A x \in Worker : Carries(x)' /\ Justified(x)'
  BY <1>1, <1>3, OneRequestMoves DEF Done, Place
<1>5. TypeOK'
  BY <1>4 DEF IInv, TypeOK
<1>6. WalletIsRefund'
  BY DEF IInv, WalletIsRefund
<1> QED BY <1>4, <1>5, <1>6 DEF IInv

-------------------------------------------------------------------------------
(* The handlers read ... *)

\* What a request that begins has read, and what it may rely on.
LEMMA BeginKeeps ==
  ASSUME IInv, NEW w \in Worker, NEW place \in Place, NEW what, Begin(w, place, what),
         UNCHANGED <<record, money, frame>>,
         what \in Quoting \cup Paying \cup Rejecting \cup {None},
         pc'[w] = place /\ job'[w] = what => Carries(w)' /\ Justified(w)'
  PROVE  IInv'
<1>1. pc'[w] = place /\ job'[w] = what
  BY DEF Begin, IInv, TypeOK
<1> QED BY <1>1, ReadKeeps DEF Begin, frame, IInv, TypeOK

LEMMA ReadsKeep ==
  ASSUME IInv, NEW w \in Worker,
         \/ \E p \in Prices : QuoteRead(w, p)
         \/ EditRead(w) \/ ResubmitRead(w) \/ DeleteRead(w) \/ ApproveRead(w)
  PROVE  IInv'
<1> USE DEF Place, Carries, Justified
<1>1. ASSUME NEW p \in Prices, QuoteRead(w, p) PROVE IInv'
  <2>1. [price |-> p] \in Quoting
    BY DEF Quoting
  <2> QED BY <1>1, <2>1, BeginKeeps DEF QuoteRead
<1>2. CASE EditRead(w)
  BY <1>2, BeginKeeps DEF EditRead
<1>3. CASE DeleteRead(w)
  BY <1>3, BeginKeeps DEF DeleteRead
<1>4. CASE ResubmitRead(w) \/ ApproveRead(w)
  <2>1. Paid # {} /\ Paid' = Paid
    BY <1>4 DEF ResubmitRead, ApproveRead, IInv, Reviewed, money, Paid
  <2> QED BY <1>4, <2>1, BeginKeeps DEF ResubmitRead, ApproveRead
<1> QED BY <1>1, <1>2, <1>3, <1>4

LEMMA FundReadKeeps ==
  ASSUME IInv, NEW w \in Worker, NEW k \in Funding, FundRead(w, k)
  PROVE  IInv'
<1> DEFINE what == [key |-> k, amount |-> price]
<1>1. what \in Paying
  BY DEF FundRead, IInv, TypeOK, Paying
<1>2. pc'[w] = "fund" /\ job'[w] = what => Carries(w)'
  BY <1>1 DEF Carries
<1>3. pc'[w] = "fund" /\ job'[w] = what => Justified(w)'
  BY DEF FundRead, frame, Justified
<1> QED BY <1>1, <1>2, <1>3, BeginKeeps DEF FundRead, Place

LEMMA RejectReadKeeps ==
  ASSUME IInv, NEW w \in Worker, NEW terminal \in BOOLEAN, RejectRead(w, terminal)
  PROVE  IInv'
<1> DEFINE place == IF terminal /\ linked /\ price # None THEN "refund" ELSE "reject"
           what == [amount |-> price, next |-> IF terminal THEN "CANCELLED" ELSE "REJECTED"]
<1>1. what \in Rejecting /\ place \in Place /\ place \in {"refund", "reject"}
  BY DEF IInv, TypeOK, Rejecting, Place
<1>2. place = "refund" => what.amount # None
  OBVIOUS
<1>3. Paid # {} /\ Paid' = Paid
  BY DEF RejectRead, IInv, Reviewed, money, Paid
<1>4. pc'[w] = place /\ job'[w] = what => Carries(w)' /\ Justified(w)'
  BY <1>1, <1>2, <1>3 DEF Carries, Justified
<1> QED BY <1>1, <1>4, BeginKeeps DEF RejectRead

-------------------------------------------------------------------------------
(* ... they write ... *)

LEMMA ClientWritesKeep ==
  ASSUME IInv, NEW w \in Worker,
         QuoteWrite(w) \/ EditWrite(w) \/ ResubmitWrite(w) \/ DeleteWrite(w)
  PROVE  IInv'
<1> USE DEF IInv, TypeOK, Reviewed, NothingUnpaid, Paid, money, frame
<1>1. CASE QuoteWrite(w)
  <2>1. job[w].price \in Prices
    BY <1>1 DEF QuoteWrite, Carries, Quoting
  <2> QED BY <1>1, <2>1, WriteKeeps DEF QuoteWrite
<1>2. CASE EditWrite(w)
  BY <1>2, WriteKeeps DEF EditWrite
<1>3. CASE ResubmitWrite(w)
  <2>1. Paid # {}
    BY <1>3 DEF ResubmitWrite, Justified
  <2> QED BY <1>3, <2>1, WriteKeeps DEF ResubmitWrite
<1>4. CASE DeleteWrite(w)
  BY <1>4, WriteKeeps DEF DeleteWrite
<1> QED BY <1>1, <1>2, <1>3, <1>4

LEMMA FundRecordKeeps ==
  ASSUME IInv, NEW w \in Worker, FundRecord(w)
  PROVE  IInv'
<1> DEFINE k == job[w].key
<1>1. /\ k \in Funding /\ posted[k] \in Prices /\ posted[k] # None
      /\ k \in Reference => posted[k] = charge[k]
  BY FundingAssumption DEF FundRecord, IInv, TypeOK, Carries, Paying, Justified
<1>2. Paid' # {} /\ Reviewed'
  BY <1>1 DEF FundRecord, money, Paid, Reviewed
<1>3. NothingUnpaid'
  BY <1>1, <1>2 DEF FundRecord, money, frame, IInv, NothingUnpaid
<1>4. gateway' \subseteq Reference
  BY DEF FundRecord, IInv, TypeOK
<1>5. noted' \subseteq ({<<"live">>, <<"rejected">>} \cup ({"payment_received"} \X Reference))
  BY DEF FundRecord, IInv, TypeOK
<1> QED BY <1>2, <1>3, <1>4, <1>5, WriteKeeps DEF FundRecord, frame, IInv, TypeOK

LEMMA ReviewWritesKeep ==
  ASSUME IInv, NEW w \in Worker, ApproveWrite(w) \/ RejectWrite(w)
  PROVE  IInv'
<1>1. Paid # {} /\ Paid' = Paid
  BY DEF ApproveWrite, RejectWrite, IInv, Justified, money, Paid
<1>2. pc[w] = "reject" => job[w].next \in {"CANCELLED", "REJECTED"}
  BY DEF IInv, TypeOK, Carries, Rejecting
<1>3. Reviewed' /\ NothingUnpaid'
  BY <1>1 DEF ApproveWrite, RejectWrite, IInv, Reviewed, NothingUnpaid, money, frame
<1> QED BY <1>2, <1>3, WriteKeeps DEF ApproveWrite, RejectWrite, frame, IInv, TypeOK

-------------------------------------------------------------------------------
(* ... and, in between, post. *)

LEMMA FundPostKeeps ==
  ASSUME IInv, NEW w \in Worker, FundPost(w)
  PROVE  IInv'
<1> DEFINE k == job[w].key
           n == job[w].amount
<1>1. pc[w] = "fund" /\ job[w] \in Paying /\ k \in Funding /\ n \in Prices /\ Justified(w)
  BY DEF FundPost, IInv, TypeOK, Carries, Paying
<1>2. CASE posted[k] # None
  BY <1>2, EndKeeps DEF FundPost, frame, IInv, TypeOK
<1>3. CASE posted[k] = None
  <2>1. /\ posted' = [posted EXCEPT ![k] = n] /\ escrow' = escrow + n /\ wallet' = wallet
        /\ pc' = [pc EXCEPT ![w] = "funded"] /\ job' = job
        /\ UNCHANGED <<record, frame>>
    BY <1>3 DEF FundPost, Goto
  <2>2. /\ posted'[k] = n
        /\ \A j \in Key \ {k} : posted'[j] = posted[j]
    BY <1>1, <2>1 DEF IInv, TypeOK, Key
  <2>3. PostingsStay
    BY <1>3, <2>2 DEF PostingsStay
  <2>4. job' = [job EXCEPT ![w] = job[w]] /\ pc'[w] = "funded" /\ charge' = charge
    BY <2>1 DEF IInv, TypeOK, frame
  <2>5. Carries(w)' /\ Justified(w)'
    BY <1>1, <2>1, <2>2, <2>4 DEF Carries, Justified
  <2>6. /\ pc' \in [Worker -> Place]
        /\ job' \in [Worker -> Quoting \cup Paying \cup Rejecting \cup {None}]
        /\ \A x \in Worker : Carries(x)' /\ Justified(x)'
    BY <1>1, <2>1, <2>3, <2>4, <2>5, OneRequestMoves DEF Place
  <2>7. escrow' \in Nat /\ posted' \in [Key -> Prices \cup {None}]
    <3>1. n \in Nat /\ escrow \in Nat
      BY <1>1, FundingAssumption DEF IInv, TypeOK
    <3>2. escrow' \in Nat
      BY <2>1, <3>1
    <3>3. posted' \in [Key -> Prices \cup {None}]
      BY <1>1, <2>1 DEF IInv, TypeOK
    <3> QED BY <3>2, <3>3
  <2>8. TypeOK'
    BY <2>1, <2>6, <2>7 DEF IInv, TypeOK, record, frame
  <2>9. Reviewed'
    BY <2>1, <2>3, PaidStays DEF IInv, Reviewed, record
  <2>10. \A j \in gateway : posted'[j] = charge[j]
    BY <2>3, FundingAssumption DEF IInv, TypeOK, NothingUnpaid, PostingsStay, Key, Funding
  <2>11. NothingUnpaid'
    BY <2>1, <2>4, <2>10, <2>3, PaidStays DEF IInv, NothingUnpaid, record
  <2>12. WalletIsRefund'
    BY <1>1, <2>1, <2>2, FundingAssumption DEF IInv, WalletIsRefund, Key
  <2> QED BY <2>6, <2>8, <2>9, <2>11, <2>12 DEF IInv
<1> QED BY <1>2, <1>3

LEMMA RefundPostKeeps ==
  ASSUME IInv, NEW w \in Worker, RefundPost(w)
  PROVE  IInv'
<1> DEFINE n == job[w].amount
<1>1. /\ pc[w] = "refund" /\ job[w] \in Rejecting /\ n \in Prices /\ Justified(w)
      /\ Paid # {} /\ charge' = charge
  BY DEF RefundPost, IInv, TypeOK, Carries, Rejecting, Justified, frame
<1>2. CASE Done(w) /\ UNCHANGED money
  BY <1>2, EndKeeps DEF RefundPost, frame, IInv, TypeOK
<1>3. CASE Goto(w, "reject") /\ UNCHANGED money
  <2>1. job' = [job EXCEPT ![w] = job[w]] /\ pc'[w] = "reject" /\ job' = job
    BY <1>3 DEF Goto, IInv, TypeOK
  <2>2. Carries(w)' /\ Justified(w)'
    BY <1>1, <1>3, <2>1 DEF Carries, Justified, money, Paid
  <2> QED BY <1>1, <1>3, <2>1, <2>2, ReadKeeps DEF RefundPost, Goto, frame, Place, IInv, TypeOK
<1>4. CASE /\ posted[Refund] = None /\ ~(escrow < n)
           /\ posted' = [posted EXCEPT ![Refund] = n]
           /\ escrow' = escrow - n /\ wallet' = wallet + n
           /\ Goto(w, "reject")
  <2>1. /\ pc' = [pc EXCEPT ![w] = "reject"] /\ job' = job /\ UNCHANGED <<record, frame>>
    BY <1>4 DEF RefundPost, Goto
  <2>2. /\ posted'[Refund] = n
        /\ \A j \in Key \ {Refund} : posted'[j] = posted[j]
    BY <1>1, <1>4 DEF IInv, TypeOK, Key
  <2>3. PostingsStay
    BY <1>4, <2>2 DEF PostingsStay
  <2>4. job' = [job EXCEPT ![w] = job[w]] /\ pc'[w] = "reject"
    BY <2>1 DEF IInv, TypeOK
  <2>5. Paid' # {}
    BY <1>1, <2>3, PaidStays DEF IInv
  <2>6. Carries(w)' /\ Justified(w)'
    BY <1>1, <2>1, <2>4, <2>5 DEF Carries, Justified
  <2>7. /\ pc' \in [Worker -> Place]
        /\ job' \in [Worker -> Quoting \cup Paying \cup Rejecting \cup {None}]
        /\ \A x \in Worker : Carries(x)' /\ Justified(x)'
    BY <1>1, <2>1, <2>3, <2>4, <2>6, OneRequestMoves DEF Place
  <2>8. /\ escrow' \in Nat /\ wallet' \in Nat /\ n # None
        /\ posted' \in [Key -> Prices \cup {None}]
    <3>1. n \in Nat /\ n # None /\ escrow \in Nat /\ wallet \in Nat
      BY <1>1, FundingAssumption DEF IInv, TypeOK
    <3>2. escrow' \in Nat /\ wallet' \in Nat
      BY <1>4, <3>1
    <3>3. posted' \in [Key -> Prices \cup {None}]
      BY <1>1, <1>4 DEF IInv, TypeOK
    <3> QED BY <3>1, <3>2, <3>3
  <2>9. TypeOK'
    BY <2>1, <2>7, <2>8 DEF IInv, TypeOK, record, frame
  <2>10. Reviewed'
    BY <2>5 DEF Reviewed
  <2>11. \A j \in gateway : posted'[j] = charge[j]
    BY <2>2, FundingAssumption DEF IInv, TypeOK, NothingUnpaid, Key, Funding
  <2>12. NothingUnpaid'
    BY <1>1, <2>1, <2>5, <2>11 DEF NothingUnpaid, record
  <2>13. WalletIsRefund'
    <3>1. wallet = 0 /\ n \in Nat
      BY <1>1, <1>4, FundingAssumption DEF IInv, WalletIsRefund
    <3>2. wallet' = n
      BY <1>4, <3>1
    <3> QED BY <2>2, <2>8, <3>2 DEF WalletIsRefund
  <2> QED BY <2>7, <2>9, <2>10, <2>12, <2>13 DEF IInv
<1> QED BY <1>2, <1>3, <1>4 DEF RefundPost

LEMMA Step == ASSUME IInv, [Next]_vars PROVE IInv'
<1>1. CASE UNCHANGED vars
  <2> USE <1>1 DEF vars
  <2>1. TypeOK'
    BY DEF IInv, TypeOK, Carries
  <2> QED BY <2>1 DEF IInv, Reviewed, NothingUnpaid, WalletIsRefund, Justified, Paid
<1>2. ASSUME NEW w \in Worker, Crash(w) PROVE IInv'
  BY <1>2, EndKeeps DEF Crash, IInv, TypeOK
<1> QED
  BY <1>1, <1>2, ReadsKeep, FundReadKeeps, RejectReadKeeps, ClientWritesKeep,
     FundRecordKeeps, ReviewWritesKeep, FundPostKeeps, RefundPostKeeps DEF Next

-------------------------------------------------------------------------------

\* The invariant of the handlers that pay for a campaign and review it.
THEOREM FundingInvariant == Spec => []IInv
<1>1. Init => IInv
  BY Initial
<1>2. IInv /\ [Next]_vars => IInv'
  BY Step
<1> QED BY <1>1, <1>2, PTL DEF Spec

\* Escrow and wallet never fall below zero, and every record and request has its shape.
THEOREM FundingTypeCorrect == Spec => []TypeOK
<1>1. IInv => TypeOK
  BY DEF IInv
<1> QED BY <1>1, FundingInvariant, PTL

\* fundCampaign(), settleCharge() and the review handlers: nothing is live, sent back or
\* credited for reconciliation that was not paid for, for any number of requests at
\* once, webhooks, retries and crashes.
THEOREM NothingUnpaidEver == Spec => []NothingUnpaid
<1>1. IInv => NothingUnpaid
  BY DEF IInv
<1> QED BY <1>1, FundingInvariant, PTL

\* rejectCampaign(): the wallet holds the one refund that was posted and no more,
\* however many admins reject at once or again.
THEOREM RefundedAtMostOnce == Spec => []WalletIsRefund
<1>1. IInv => WalletIsRefund
  BY DEF IInv
<1> QED BY <1>1, FundingInvariant, PTL

-------------------------------------------------------------------------------
(* What was paid is in escrow or back in the wallet. *)

Kept == IsFiniteSet(Paid) /\ escrow + wallet = SumFunctionOnSet(posted, Paid)

\* A payment adds its amount to the escrow and to what was paid.
LEMMA FundPostCounts ==
  ASSUME IInv, Kept, NEW w \in Worker, FundPost(w)
  PROVE  Kept'
<1> DEFINE k == job[w].key
           n == job[w].amount
<1>1. pc[w] = "fund" /\ k \in Funding /\ n \in Prices
  BY DEF FundPost, IInv, TypeOK, Carries, Paying
<1>2. CASE posted[k] # None
  BY <1>2 DEF FundPost, money, Kept, Paid
<1>3. CASE posted[k] = None
  <2>1. posted' = [posted EXCEPT ![k] = n] /\ escrow' = escrow + n /\ wallet' = wallet
    BY <1>3 DEF FundPost
  <2>2. posted'[k] = n /\ \A j \in Key \ {k} : posted'[j] = posted[j]
    BY <1>1, <2>1 DEF IInv, TypeOK, Key
  <2>3. /\ k \notin Paid /\ Paid' = Paid \cup {k}
        /\ \A j \in Paid : posted'[j] = posted[j]
    BY <1>1, <1>3, <2>2, FundingAssumption DEF Paid, Key
  <2>4. \A j \in Paid \cup {k} : posted'[j] \in Int
    <3>1. \A j \in Paid : posted[j] \in Prices
      BY DEF IInv, TypeOK, Paid, Key
    <3>2. Prices \subseteq Nat
      BY FundingAssumption
    <3>3. \A j \in Paid \cup {k} : posted'[j] \in Prices
      BY <1>1, <2>2, <2>3, <3>1
    <3>4. \A x \in Prices : x \in Int
      BY <3>2
    <3> QED BY <3>3, <3>4
  <2>5. IsFiniteSet(Paid) /\ IsFiniteSet(Paid \cup {k})
    BY FS_AddElement DEF Kept
  <2>6. n \in Nat /\ escrow \in Nat /\ wallet \in Nat
    BY <1>1, FundingAssumption DEF IInv, TypeOK
  <2> HIDE DEF k, n
  <2>7. SumFunctionOnSet(posted', Paid \cup {k}) = posted'[k] + SumFunctionOnSet(posted', Paid)
    BY <2>3, <2>4, <2>5, SumMore
  <2>8. SumFunctionOnSet(posted', Paid) = SumFunctionOnSet(posted, Paid)
    BY <2>3, <2>5, SumSame
  <2>9. escrow + wallet = SumFunctionOnSet(posted, Paid)
    BY DEF Kept
  <2>10. escrow' + wallet' = n + SumFunctionOnSet(posted, Paid)
    BY <2>1, <2>6, <2>9
  <2> QED BY <2>2, <2>3, <2>5, <2>7, <2>8, <2>10 DEF Kept
<1> QED BY <1>2, <1>3

\* A refund moves its amount and pays for nothing.
LEMMA RefundPostCounts ==
  ASSUME IInv, Kept, NEW w \in Worker, RefundPost(w)
  PROVE  Kept'
<1> DEFINE n == job[w].amount
<1>1. n \in Nat /\ escrow \in Nat /\ wallet \in Nat
  BY FundingAssumption DEF RefundPost, IInv, TypeOK, Carries, Rejecting
<1>2. CASE UNCHANGED money
  BY <1>2 DEF money, Kept, Paid
<1>3. CASE /\ posted' = [posted EXCEPT ![Refund] = n]
           /\ escrow' = escrow - n /\ wallet' = wallet + n
  <2>1. \A j \in Funding : posted'[j] = posted[j]
    BY <1>3, FundingAssumption DEF IInv, TypeOK, Key
  <2>2. Paid' = Paid /\ \A j \in Paid : posted'[j] = posted[j]
    BY <2>1 DEF Paid
  <2>3. IsFiniteSet(Paid) /\ escrow + wallet = SumFunctionOnSet(posted, Paid)
    BY DEF Kept
  <2>4. SumFunctionOnSet(posted', Paid) = SumFunctionOnSet(posted, Paid)
    BY <2>2, <2>3, SumSame
  <2>5. escrow' + wallet' = escrow + wallet
    BY <1>1, <1>3
  <2> QED BY <2>2, <2>3, <2>4, <2>5 DEF Kept
<1> QED BY <1>2, <1>3 DEF RefundPost

LEMMA StepCounts == ASSUME IInv, Kept, [Next]_vars PROVE Kept'
<1>1. CASE UNCHANGED money
  BY <1>1 DEF money, Kept, Paid
<1> QED
  BY <1>1, FundPostCounts, RefundPostCounts
  DEF Next, vars, money, QuoteRead, FundRead, RejectRead, EditRead, ResubmitRead, DeleteRead,
      ApproveRead, QuoteWrite, EditWrite, ResubmitWrite, DeleteWrite, FundRecord,
      ApproveWrite, RejectWrite, Crash

\* RefundedOnce: whatever races, is retried or dies, everything that was paid for a
\* campaign is in its escrow but for the one refund, which is in the wallet.
THEOREM RefundedOnceEver == Spec => []RefundedOnce
<1>1. Init => Kept
  <2> SUFFICES ASSUME Init PROVE Kept
    OBVIOUS
  <2>1. Paid = {} /\ escrow + wallet = 0
    BY DEF Init, Paid, Key
  <2> QED BY <2>1, SumNothing, FS_EmptySet DEF Kept
<1>2. IInv /\ Kept /\ [Next]_vars => Kept'
  BY StepCounts
<1>3. IInv /\ Kept => RefundedOnce
  BY DEF IInv, Kept, RefundedOnce
<1> QED BY <1>1, <1>2, <1>3, FundingInvariant, PTL DEF Spec

-------------------------------------------------------------------------------
(* Requests that do not overlap: what the status says is exactly what was paid and
   given back.  Between a posting and its record the books are ahead of the status. *)

\* At most one request is under way.
Sole == \A w, x \in Worker : pc[w] # "idle" /\ pc[x] # "idle" => w = x

\* A payment has been posted that the campaign does not show yet.
Recording == \E w \in Worker : pc[w] = "funded"

PaidOnce == \E k \in Funding : Paid = {k}

Before == Paid = {} /\ escrow = 0 /\ posted[Refund] = None /\ gateway = {}
Between == PaidOnce /\ escrow = price /\ posted[Refund] = None /\ gateway = {}
After == /\ linked /\ price # None /\ PaidOnce /\ gateway = Paid \cap Reference
         /\ posted[Refund] \in {None, price}
         /\ escrow = IF posted[Refund] = None THEN price ELSE 0

Books ==
  IF status \in Editable
  THEN IF Recording THEN Between ELSE Before
  ELSE After /\ (status = "CANCELLED" => posted[Refund] # None)

\* What the request under way has read is still so.
Current(w) ==
  /\ pc[w] = "quote" => status \in Editable
  /\ pc[w] = "edit" => status = "QUOTED"
  /\ pc[w] = "resubmit" => status = "REJECTED"
  /\ pc[w] \in {"approve", "refund", "reject"} => status = "PENDING_APPROVAL"
  /\ pc[w] \in {"fund", "funded"} => status = "QUOTED" /\ price # None
  /\ pc[w] \in {"fund", "funded", "refund", "reject"} => job[w].amount = price
  /\ pc[w] = "refund" => job[w].next = "CANCELLED"
  /\ pc[w] = "reject" /\ job[w].next = "CANCELLED" => posted[Refund] # None

Orderly == Sole /\ Books /\ \A w \in Worker : Current(w)

InTurn == alone /\ crashes = 0 /\ open => Orderly

\* Where a step of a request that was under way starts from, and of one that begins.
LEMMA OthersIdle ==
  ASSUME Orderly, IInv, NEW w \in Worker, pc[w] # "idle",
         NEW place, pc' = [pc EXCEPT ![w] = place]
  PROVE  \A x \in Worker \ {w} : pc[x] = "idle" /\ pc'[x] = "idle"
BY DEF Orderly, Sole, IInv, TypeOK

LEMMA OthersRest ==
  ASSUME IInv, alone, NEW w \in Worker, NEW place, NEW what, Begin(w, place, what)
  PROVE  /\ \A x \in Worker \ {w} : pc[x] = "idle" /\ pc'[x] = "idle"
         /\ pc[w] = "idle" /\ pc'[w] = place /\ job'[w] = what
BY DEF Begin, Resting, IInv, TypeOK

\* The one request's step keeps the order if it keeps the books and its own reading.
LEMMA StillOrderly ==
  ASSUME NEW w \in Worker, \A x \in Worker \ {w} : pc'[x] = "idle", Current(w)', Books'
  PROVE  Orderly'
<1>1. Sole'
  BY DEF Sole
<1>2. \A x \in Worker \ {w} : Current(x)'
  BY DEF Current
<1> QED BY <1>1, <1>2 DEF Orderly

\* A step that neither moves money nor writes a record keeps the books.
LEMMA BooksKept ==
  ASSUME Books, UNCHANGED <<record, money>>, Recording' <=> Recording
  PROVE  Books'
BY DEF record, money, Books, Before, Between, After, PaidOnce, Paid

\* A request that begins has read what is so.
LEMMA BeginInTurn ==
  ASSUME IInv, Orderly, alone, NEW w \in Worker, NEW place, NEW what, Begin(w, place, what),
         UNCHANGED <<record, money>>, place # "funded",
         pc'[w] = place /\ job'[w] = what => Current(w)'
  PROVE  Orderly'
<1>1. /\ \A x \in Worker \ {w} : pc[x] = "idle" /\ pc'[x] = "idle"
      /\ pc[w] = "idle" /\ pc'[w] = place /\ job'[w] = what
  BY OthersRest
<1>2. ~Recording /\ ~Recording'
  BY <1>1 DEF Recording
<1> QED BY <1>1, <1>2, BooksKept, StillOrderly DEF Orderly

LEMMA ReadsInTurn ==
  ASSUME IInv, Orderly, alone, NEW w \in Worker,
         \/ \E p \in Prices : QuoteRead(w, p)
         \/ \E k \in Funding : FundRead(w, k)
         \/ EditRead(w) \/ ResubmitRead(w) \/ DeleteRead(w) \/ ApproveRead(w)
  PROVE  Orderly'
<1> USE DEF Current, record
<1>1. ASSUME NEW p \in Prices, QuoteRead(w, p) PROVE Orderly'
  BY <1>1, BeginInTurn DEF QuoteRead
<1>2. ASSUME NEW k \in Funding, FundRead(w, k) PROVE Orderly'
  BY <1>2, BeginInTurn DEF FundRead
<1>3. CASE EditRead(w)
  BY <1>3, BeginInTurn DEF EditRead
<1>4. CASE ResubmitRead(w)
  BY <1>4, BeginInTurn DEF ResubmitRead
<1>5. CASE DeleteRead(w)
  BY <1>5, BeginInTurn DEF DeleteRead
<1>6. CASE ApproveRead(w)
  BY <1>6, BeginInTurn DEF ApproveRead
<1> QED BY <1>1, <1>2, <1>3, <1>4, <1>5, <1>6

\* A campaign under review is linked and has a price, so that rejecting it in full
\* always refunds it.
LEMMA RejectReadInTurn ==
  ASSUME IInv, Orderly, alone, NEW w \in Worker, NEW terminal \in BOOLEAN,
         RejectRead(w, terminal)
  PROVE  Orderly'
<1>1. status = "PENDING_APPROVAL" /\ linked /\ price # None
  BY DEF RejectRead, Orderly, Books, Editable, After
<1>2. CASE terminal
  <2> DEFINE what == [amount |-> price, next |-> "CANCELLED"]
  <2>1. Begin(w, "refund", what) /\ UNCHANGED <<record, money>>
    BY <1>1, <1>2 DEF RejectRead
  <2>2. pc'[w] = "refund" /\ job'[w] = what => Current(w)'
    BY <1>1, <2>1 DEF Current, record
  <2> QED BY <2>1, <2>2, BeginInTurn
<1>3. CASE ~terminal
  <2> DEFINE what == [amount |-> price, next |-> "REJECTED"]
  <2>1. Begin(w, "reject", what) /\ UNCHANGED <<record, money>>
    BY <1>1, <1>3 DEF RejectRead
  <2>2. pc'[w] = "reject" /\ job'[w] = what => Current(w)'
    BY <1>1, <2>1 DEF Current, record
  <2> QED BY <2>1, <2>2, BeginInTurn
<1> QED BY <1>2, <1>3

\* A request that ends, with the books in order, leaves nothing under way.
LEMMA EndInTurn ==
  ASSUME IInv, Orderly, NEW w \in Worker, pc[w] # "idle", Done(w), ~Recording' => Books'
  PROVE  Orderly'
<1>1. /\ \A x \in Worker \ {w} : pc[x] = "idle" /\ pc'[x] = "idle"
      /\ pc'[w] = "idle"
  BY OthersIdle DEF Done, IInv, TypeOK
<1>2. ~Recording' /\ Current(w)'
  BY <1>1 DEF Recording, Current
<1> QED BY <1>1, <1>2, StillOrderly

LEMMA WritesInTurn ==
  ASSUME IInv, Orderly, NEW w \in Worker,
         \/ QuoteWrite(w) \/ EditWrite(w) \/ ResubmitWrite(w)
         \/ ApproveWrite(w) \/ RejectWrite(w)
  PROVE  Orderly'
<1>1. /\ pc[w] \in {"quote", "edit", "resubmit", "approve", "reject"} /\ Done(w)
      /\ UNCHANGED <<linked, gateway, money>>
  BY DEF QuoteWrite, EditWrite, ResubmitWrite, ApproveWrite, RejectWrite
<1>2. ~Recording
  <2>1. \A x \in Worker \ {w} : pc[x] = "idle"
    BY <1>1, OthersIdle DEF Done
  <2> QED BY <1>1, <2>1 DEF Recording
<1>3. CASE QuoteWrite(w) \/ EditWrite(w)
  <2>1. status \in Editable /\ status' \in Editable
    BY <1>3 DEF QuoteWrite, EditWrite, Orderly, Current, Editable
  <2>2. Before /\ Before'
    BY <1>1, <1>2, <2>1 DEF Orderly, Books, Before, Paid, money
  <2>3. ~Recording' => Books'
    BY <2>1, <2>2 DEF Books
  <2> QED BY <1>1, <2>3, EndInTurn
<1>4. CASE ResubmitWrite(w) \/ ApproveWrite(w) \/ RejectWrite(w)
  <2>1. /\ status \notin Editable /\ status' \notin Editable /\ price' = price
        /\ status' = "CANCELLED" => posted[Refund] # None
    <3>1. /\ status \in {"PENDING_APPROVAL", "REJECTED"} /\ price' = price
          /\ pc[w] = "reject" =>
               /\ job[w].next \in {"CANCELLED", "REJECTED"}
               /\ job[w].next = "CANCELLED" => posted[Refund] # None
      BY <1>4 DEF ResubmitWrite, ApproveWrite, RejectWrite, Orderly, Current, IInv, TypeOK,
                  Carries, Rejecting
    <3> QED BY <1>4, <3>1 DEF ResubmitWrite, ApproveWrite, RejectWrite, Editable
  <2>2. After /\ After'
    BY <1>1, <2>1 DEF Orderly, Books, After, PaidOnce, Paid, money
  <2>3. Books'
    BY <1>1, <2>1, <2>2 DEF Books, money
  <2> QED BY <1>1, <2>3, EndInTurn
<1> QED BY <1>3, <1>4

\* A quoted campaign has not been paid for, so that the posting is its first.
LEMMA FundPostInTurn ==
  ASSUME IInv, Orderly, NEW w \in Worker, FundPost(w)
  PROVE  Orderly'
<1>1. PICK k \in Funding :
        /\ k = job[w].key /\ pc[w] = "fund" /\ job[w].amount = price /\ price \in Prices
        /\ status = "QUOTED"
  BY DEF FundPost, IInv, TypeOK, Carries, Paying, Orderly, Current
<1>2. /\ \A x \in Worker \ {w} : pc[x] = "idle" /\ pc'[x] = "idle"
      /\ UNCHANGED record
  BY <1>1, OthersIdle DEF FundPost, Done, Goto
<1>3. Before
  BY <1>1, <1>2 DEF Orderly, Books, Editable, Recording
<1>4. posted[k] = None
  BY <1>3 DEF Before, Paid
<1>5. /\ posted' = [posted EXCEPT ![k] = price] /\ escrow' = escrow + price
      /\ pc'[w] = "funded" /\ job' = job
  BY <1>1, <1>4 DEF FundPost, Goto, IInv, TypeOK
<1>6. /\ posted'[k] = price /\ price # None
      /\ \A j \in Key \ {k} : posted'[j] = posted[j]
  BY <1>1, <1>5, FundingAssumption DEF IInv, TypeOK, Key
<1>7. Paid' = {k}
  BY <1>3, <1>6 DEF Before, Paid, Key
<1>8. posted'[Refund] = None
  BY <1>3, <1>6, FundingAssumption DEF Before, Key
<1>9. escrow' = price
  <2>1. price \in Nat /\ escrow = 0
    BY <1>1, <1>3, FundingAssumption DEF Before
  <2> QED BY <1>5, <2>1
<1>10. Between'
  BY <1>2, <1>3, <1>7, <1>8, <1>9 DEF Between, Before, PaidOnce, record
<1>11. Books'
  BY <1>1, <1>2, <1>5, <1>10 DEF Books, Recording, Editable, record
<1>12. Current(w)'
  BY <1>1, <1>2, <1>5, <1>6 DEF Current, record
<1> QED BY <1>2, <1>11, <1>12, StillOrderly

LEMMA FundRecordInTurn ==
  ASSUME IInv, Orderly, NEW w \in Worker, FundRecord(w)
  PROVE  Orderly'
<1>1. /\ pc[w] = "funded" /\ status = "QUOTED" /\ price # None /\ job[w].key \in Funding
      /\ posted[job[w].key] # None
  BY FundingAssumption
     DEF FundRecord, IInv, TypeOK, Carries, Paying, Justified, Orderly, Current
<1>2. Between
  BY <1>1 DEF Orderly, Books, Recording, Editable
<1>3. Paid = {job[w].key}
  BY <1>1, <1>2 DEF Between, PaidOnce, Paid
<1>4. /\ status' = "PENDING_APPROVAL" /\ linked' /\ gateway' = Paid \cap Reference
      /\ UNCHANGED <<price, money>>
  BY <1>2, <1>3 DEF FundRecord, Between
<1>5. After'
  BY <1>1, <1>2, <1>4 DEF Between, After, PaidOnce, Paid, money
<1>6. Books'
  BY <1>4, <1>5 DEF Books, Editable
<1> QED BY <1>1, <1>6, EndInTurn DEF FundRecord

LEMMA RefundPostInTurn ==
  ASSUME IInv, Orderly, NEW w \in Worker, RefundPost(w)
  PROVE  Orderly'
<1>1. /\ pc[w] = "refund" /\ status = "PENDING_APPROVAL" /\ job[w].amount = price
      /\ job[w].next = "CANCELLED" /\ price \in Prices
  BY DEF RefundPost, IInv, TypeOK, Carries, Rejecting, Orderly, Current
<1>2. /\ \A x \in Worker \ {w} : pc[x] = "idle" /\ pc'[x] = "idle"
      /\ UNCHANGED record
  BY <1>1, OthersIdle DEF RefundPost, Done, Goto
<1>3. After
  BY <1>1 DEF Orderly, Books, Editable
<1>4. price \in Nat /\ price # None
  BY <1>1, FundingAssumption
<1>5. CASE posted[Refund] = None
  <2>1. escrow = price /\ ~(escrow < price)
    BY <1>3, <1>4, <1>5 DEF After
  <2>2. /\ posted' = [posted EXCEPT ![Refund] = price] /\ escrow' = escrow - price
        /\ pc'[w] = "reject" /\ job' = job
    BY <1>1, <1>5, <2>1 DEF RefundPost, Goto, IInv, TypeOK
  <2>3. /\ posted'[Refund] = price
        /\ \A j \in Funding : posted'[j] = posted[j]
    BY <2>2, FundingAssumption DEF IInv, TypeOK, Key
  <2>4. escrow' = 0
    BY <1>4, <2>1, <2>2
  <2>5. Paid' = Paid
    BY <2>3 DEF Paid
  <2>6. After'
    BY <1>2, <1>3, <1>4, <2>3, <2>4, <2>5 DEF After, PaidOnce, record
  <2>7. Books'
    BY <1>1, <1>2, <2>6 DEF Books, Editable, record
  <2>8. Current(w)'
    BY <1>1, <1>2, <1>4, <2>2, <2>3 DEF Current, record
  <2> QED BY <1>2, <2>7, <2>8, StillOrderly
<1>6. CASE posted[Refund] # None
  <2>1. posted[Refund] = price
    BY <1>3, <1>6 DEF After
  <2>2. pc'[w] = "reject" /\ job' = job /\ UNCHANGED money
    BY <1>1, <1>6, <2>1 DEF RefundPost, Goto, IInv, TypeOK
  <2>3. ~Recording /\ ~Recording'
    BY <1>1, <1>2, <2>2 DEF Recording
  <2>4. Books'
    BY <1>2, <2>2, <2>3, BooksKept DEF Orderly
  <2>5. Current(w)'
    BY <1>1, <1>2, <1>6, <2>2 DEF Current, record, money
  <2> QED BY <1>2, <2>4, <2>5, StillOrderly
<1> QED BY <1>5, <1>6

LEMMA StepInTurn == ASSUME IInv, InTurn, [Next]_vars PROVE InTurn'
<1> SUFFICES ASSUME alone', crashes' = 0, open' PROVE Orderly'
  BY DEF InTurn
<1>1. CASE UNCHANGED vars
  BY <1>1 DEF vars, InTurn, Orderly, Sole, Books, Before, Between, After, PaidOnce, Paid,
              Recording, Current
<1>2. ASSUME NEW w \in Worker,
             \/ \E p \in Prices : QuoteRead(w, p)
             \/ \E k \in Funding : FundRead(w, k)
             \/ EditRead(w) \/ ResubmitRead(w) \/ DeleteRead(w) \/ ApproveRead(w)
      PROVE  Orderly'
  <2>1. UNCHANGED <<record, frame>>
    BY <1>2 DEF QuoteRead, FundRead, EditRead, ResubmitRead, DeleteRead, ApproveRead
  <2> QED BY <1>2, <2>1, ReadsInTurn DEF InTurn, record, frame
<1>3. ASSUME NEW w \in Worker, NEW terminal \in BOOLEAN, RejectRead(w, terminal) PROVE Orderly'
  BY <1>3, RejectReadInTurn DEF InTurn, RejectRead, record, frame
<1>4. ASSUME NEW w \in Worker,
             \/ QuoteWrite(w) \/ EditWrite(w) \/ ResubmitWrite(w)
             \/ ApproveWrite(w) \/ RejectWrite(w)
      PROVE  Orderly'
  <2>1. UNCHANGED <<open, frame>>
    BY <1>4 DEF QuoteWrite, EditWrite, ResubmitWrite, ApproveWrite, RejectWrite
  <2> QED BY <1>4, <2>1, WritesInTurn DEF InTurn, frame
<1>5. ASSUME NEW w \in Worker, DeleteWrite(w) \/ Crash(w) PROVE FALSE
  BY <1>5 DEF DeleteWrite, Crash, IInv, TypeOK
<1>6. ASSUME NEW w \in Worker, FundPost(w) PROVE Orderly'
  BY <1>6, FundPostInTurn DEF InTurn, FundPost, record, frame
<1>7. ASSUME NEW w \in Worker, FundRecord(w) PROVE Orderly'
  BY <1>7, FundRecordInTurn DEF InTurn, FundRecord, frame
<1>8. ASSUME NEW w \in Worker, RefundPost(w) PROVE Orderly'
  BY <1>8, RefundPostInTurn DEF InTurn, RefundPost, record, frame
<1> QED BY <1>1, <1>2, <1>3, <1>4, <1>5, <1>6, <1>7, <1>8 DEF Next

\* Requests in turn find what they read of a campaign unchanged, and its books in order.
THEOREM RequestsInTurn == Spec => []InTurn
<1>1. Init => InTurn
  BY FundingAssumption DEF Init, InTurn, Orderly, Sole, Books, Before, Recording, Paid,
                           Current, Editable, Key
<1>2. IInv /\ InTurn /\ [Next]_vars => InTurn'
  BY StepInTurn
<1> QED BY <1>1, <1>2, FundingInvariant, PTL DEF Spec

\* quote(), fundCampaign(), settleCharge() and the review handlers, one request at a
\* time: from its payment on a campaign holds its price, once, before it nothing, and
\* a rejection in full gives the price back, for any number of prices, keys, workers,
\* edits and resubmissions.
THEOREM StatusTellsWhatIsHeld == Spec => []StatusTellsMoney
<1>1. IInv /\ InTurn => StatusTellsMoney
  <2> SUFFICES ASSUME IInv, Orderly, Resting, posted[Refund] = None \/ status = "CANCELLED"
               PROVE  /\ status \in {"DRAFT", "QUOTED"} => Paid = {} /\ escrow = 0
                      /\ status \notin {"DRAFT", "QUOTED"} => Cardinality(Paid) = 1
                      /\ status \in {"PENDING_APPROVAL", "REJECTED", "LIVE"}
                           => escrow = price /\ wallet = 0
                      /\ status = "CANCELLED" => escrow = 0 /\ wallet = price
                      /\ gateway = Paid \cap Reference
    BY DEF InTurn, StatusTellsMoney
  <2>1. ~Recording
    BY DEF Resting, Recording
  <2>2. CASE status \in Editable
    BY <2>1, <2>2 DEF Orderly, Books, Before, Editable
  <2>3. CASE status \notin Editable
    <3>1. After /\ (status = "CANCELLED" => posted[Refund] # None)
      BY <2>3 DEF Orderly, Books
    <3>2. Cardinality(Paid) = 1
      BY <3>1, FS_Singleton DEF After, PaidOnce
    <3> QED BY <2>3, <3>1, <3>2 DEF After, IInv, WalletIsRefund, Editable
  <2> QED BY <2>2, <2>3
<1> QED BY <1>1, FundingInvariant, RequestsInTurn, PTL

-------------------------------------------------------------------------------
(* The rows of the gateway's payments (Reconciliation) *)

\* The admins who are about to settle a row.
Settling(r) == {a \in Admin : at[a] = "settle" /\ task[a] = r}

\* A row is of a charge that was credited, and holds what was credited.
Credited(r) ==
  /\ row[r] # None => credit[r] # None /\ row[r].gateway = credit[r]
  /\ row[r] = None => settles[r] = 0

\* A row says what was done with it; each admin settles it at most once, since all of
\* them have read it before the first of them wrote.
History(r) == row[r] # None =>
  /\ row[r].status = "RECORDED" <=> settles[r] = 0 /\ r \notin flagged
  /\ row[r].settled = None <=> settles[r] = 0
  /\ row[r].status = "MISMATCH" => r \in flagged
  /\ settles[r] + Cardinality(Settling(r)) <= Cardinality(Admin)
  /\ sole => settles[r] <= 1 /\ (r \in flagged => row[r].status = "MISMATCH")

\* Without overlap an admin who is about to write finds the row as it was read.
InTurnOnly == sole =>
  /\ \A a, b \in Admin : at[a] # "idle" /\ at[b] # "idle" => a = b
  /\ \A a \in Admin : at[a] = "settle" => row[task[a]].status = "RECORDED"

GatewayInv ==
  /\ G!TypeOK /\ G!ReportsMatch /\ InTurnOnly
  /\ at \in [Admin -> {"idle", "settle", "flag"}] /\ DOMAIN task = Admin
  /\ listed # None => \A r \in DOMAIN listed : listed[r] = credit[r]
  /\ \A r \in Reference : Credited(r) /\ History(r)

LEMMA GatewayConstants ==
  /\ Amounts \subseteq Nat \ {0} /\ Modes \subseteq BOOLEAN /\ IsFiniteSet(Admin)
  /\ None \notin Amounts /\ None \notin G!Row /\ Cardinality(Admin) \in Nat
  /\ G!Row = [gateway: Amounts, status: {"RECORDED", "SETTLED", "MISMATCH"}, settled: Amounts \cup {None}]
  /\ \A S : G!Cardinality(S) = Cardinality(S)
<1>1. \A S : G!IsFiniteSet(S) <=> IsFiniteSet(S)
  BY DEF G!IsFiniteSet, IsFiniteSet
<1>2. \A S : G!Cardinality(S) = Cardinality(S)
  BY DEF G!Cardinality, Cardinality
<1>3. IsFiniteSet(Admin)
  BY <1>1, ReconciliationAssumption DEF G!ReconciliationAssumption
<1> QED BY <1>2, <1>3, FS_CardinalityType, ReconciliationAssumption DEF G!ReconciliationAssumption, G!Row

\* Those who are about to settle a row are some of the admins.
LEMMA SettlingIsSome ==
  ASSUME NEW r
  PROVE  /\ IsFiniteSet(Settling(r)) /\ Cardinality(Settling(r)) \in Nat
         /\ Cardinality(Settling(r)) <= Cardinality(Admin)
BY GatewayConstants, FS_Subset, FS_CardinalityType DEF Settling

\* What of the invariant a step takes for granted.
LEMMA GatewayFacts ==
  ASSUME GatewayInv
  PROVE  /\ credit \in [Reference -> Amounts \cup {None}] /\ row \in [Reference -> G!Row \cup {None}]
         /\ settles \in [Reference -> Nat] /\ flagged \subseteq {r \in Reference : row[r] # None}
         /\ \A a \in Admin : at[a] # "idle" => task[a] \in Reference /\ row[task[a]] # None
         /\ \A r \in Reference : row[r] = None => Settling(r) = {} /\ Cardinality(Settling(r)) = 0
<1>1. /\ credit \in [Reference -> Amounts \cup {None}] /\ row \in [Reference -> G!Row \cup {None}]
      /\ settles \in [Reference -> Nat] /\ flagged \subseteq {r \in Reference : row[r] # None}
      /\ \A a \in Admin : at[a] # "idle" => task[a] \in Reference /\ row[task[a]] # None
  BY GatewayConstants DEF GatewayInv, G!TypeOK, G!Opened
<1>2. \A r \in Reference : row[r] = None => Settling(r) = {}
  BY <1>1 DEF Settling
<1> QED BY <1>1, <1>2, FS_EmptySet

\* Nobody settles a row more often than before: its history is what it was.
LEMMA GatewayRests ==
  ASSUME GatewayInv, UNCHANGED <<row, settles, flagged, at, task, sole>>,
         credit' \in [Reference -> Amounts \cup {None}],
         \A r \in Reference : credit[r] # None => credit'[r] = credit[r],
         listed' = None \/ (/\ DOMAIN listed' \subseteq {r \in Reference : row[r] # None}
                            /\ \A r \in DOMAIN listed' : listed'[r] = credit[r]),
         report' \in {None, TRUE}
  PROVE  GatewayInv'
<1>1. \A r \in Reference : row[r] # None => credit'[r] = credit[r]
  BY DEF GatewayInv, Credited
<1>2. G!TypeOK'
  BY <1>1 DEF GatewayInv, G!TypeOK, G!Opened, G!ReportsMatch
<1>3. \A r \in Reference : Credited(r)'
  BY <1>1 DEF GatewayInv, Credited
<1>4. \A r \in Reference : History(r)'
  BY DEF GatewayInv, History, Settling
<1>5. InTurnOnly'
  BY DEF GatewayInv, InTurnOnly
<1>6. listed' # None => \A r \in DOMAIN listed' : listed'[r] = credit'[r]
  BY <1>1
<1> QED BY <1>2, <1>3, <1>4, <1>5, <1>6 DEF GatewayInv, G!ReportsMatch

LEMMA CreditKeeps == ASSUME GatewayInv, NEW r \in Reference, NEW amount \in Amounts, G!Credit(r, amount) PROVE GatewayInv'
<1>1. /\ credit[r] = None /\ credit' = [credit EXCEPT ![r] = amount]
      /\ UNCHANGED <<row, settles, flagged, at, task, sole, listed, report>>
  BY DEF G!Credit, G!reporting
<1>2. /\ credit' \in [Reference -> Amounts \cup {None}]
      /\ \A q \in Reference : credit[q] # None => credit'[q] = credit[q]
  BY <1>1, GatewayFacts
<1>3. listed' = None \/ (/\ DOMAIN listed' \subseteq {q \in Reference : row[q] # None}
                         /\ \A q \in DOMAIN listed' : listed'[q] = credit[q])
  BY <1>1 DEF GatewayInv, G!TypeOK, G!Opened
<1>4. report' \in {None, TRUE}
  BY <1>1 DEF GatewayInv, G!ReportsMatch
<1> QED BY <1>1, <1>2, <1>3, <1>4, GatewayRests

LEMMA ReportKeeps == ASSUME GatewayInv, G!ReportRead \/ G!ReportAnswer PROVE GatewayInv'
<1>1. UNCHANGED <<row, settles, flagged, at, task, sole, credit>>
  BY DEF G!ReportRead, G!ReportAnswer
<1>2. /\ credit' \in [Reference -> Amounts \cup {None}]
      /\ \A q \in Reference : credit[q] # None => credit'[q] = credit[q]
  BY <1>1, GatewayFacts
<1>3. CASE G!ReportRead
  <2>1. listed' = [r \in {q \in Reference : row[q] # None} |-> row[r].gateway] /\ report' = report
    BY <1>3 DEF G!ReportRead, G!Opened
  <2>2. \A r \in DOMAIN listed' : listed'[r] = credit[r]
    BY <2>1 DEF GatewayInv, Credited
  <2>3. report' \in {None, TRUE}
    BY <2>1 DEF GatewayInv, G!ReportsMatch
  <2> QED BY <1>1, <1>2, <2>1, <2>2, <2>3, GatewayRests
<1>4. CASE G!ReportAnswer
  <2>1. listed # None /\ listed' = None /\ report' = \A r \in DOMAIN listed : credit[r] = listed[r]
    BY <1>4 DEF G!ReportAnswer
  <2>2. report' = TRUE
    BY <2>1 DEF GatewayInv
  <2> QED BY <1>1, <1>2, <2>1, <2>2, GatewayRests
<1> QED BY <1>3, <1>4

\* settleCharge() opens the row.
LEMMA OpenKeeps == ASSUME GatewayInv, NEW r \in Reference, G!Open(r) PROVE GatewayInv'
<1>1. PICK amount \in Amounts : amount = credit[r]
  BY GatewayFacts DEF G!Open
<1>2. PICK new \in G!Row : new = [gateway |-> amount, status |-> "RECORDED", settled |-> None]
  BY <1>1, GatewayConstants
<1>3. /\ row[r] = None /\ row' = [row EXCEPT ![r] = new]
      /\ UNCHANGED <<credit, settles, flagged, listed, report, sole, at, task>>
  BY <1>1, <1>2 DEF G!Open, G!reporting
<1>4. /\ row' \in [Reference -> G!Row \cup {None}] /\ row'[r] = new /\ new # None
      /\ \A q \in Reference : q # r => row'[q] = row[q]
  BY <1>2, <1>3, GatewayConstants, GatewayFacts
<1>5. \A q \in Reference : row[q] # None => row'[q] # None
  BY <1>3, <1>4
<1>6. G!TypeOK'
  BY <1>3, <1>4, <1>5 DEF GatewayInv, G!TypeOK, G!Opened
<1>7. \A q \in Reference : Credited(q)'
  <2>1. Credited(r)'
    BY <1>1, <1>2, <1>3, <1>4, GatewayConstants DEF GatewayInv, Credited
  <2>2. ASSUME NEW q \in Reference, q # r PROVE Credited(q)'
    BY <1>3, <1>4, <2>2 DEF GatewayInv, Credited
  <2> QED BY <2>1, <2>2
<1>8. \A q \in Reference : History(q)'
  <2>1. settles[r] = 0 /\ r \notin flagged /\ Cardinality(Settling(r)) = 0
    BY <1>3, GatewayFacts DEF GatewayInv, Credited
  <2>2. Settling(r)' = Settling(r)
    BY <1>3 DEF Settling
  <2>3. History(r)'
    <3>1. row'[r].status = "RECORDED" /\ row'[r].settled = None
      BY <1>2, <1>4
    <3>2. settles'[r] = 0 /\ r \notin flagged' /\ Cardinality(Settling(r)') = 0
      BY <1>3, <2>1, <2>2
    <3> QED BY <3>1, <3>2, GatewayConstants DEF History
  <2>4. ASSUME NEW q \in Reference, q # r PROVE History(q)'
    <3>1. row'[q] = row[q] /\ settles' = settles /\ flagged' = flagged /\ sole' = sole /\ Settling(q)' = Settling(q)
      BY <1>3, <1>4, <2>4 DEF Settling
    <3> QED BY <3>1 DEF GatewayInv, History
  <2> QED BY <2>3, <2>4
<1>9. InTurnOnly'
  <2>1. \A a \in Admin : at[a] # "idle" => task[a] # r /\ task[a] \in Reference
    BY <1>3, GatewayFacts
  <2> QED BY <1>3, <1>4, <2>1 DEF GatewayInv, InTurnOnly
<1> QED BY <1>3, <1>6, <1>7, <1>8, <1>9 DEF GatewayInv, G!ReportsMatch

\* An admin reads a row.
LEMMA GatewayReads ==
  ASSUME GatewayInv, NEW a \in Admin, NEW r \in Reference, NEW place \in {"settle", "flag"},
         row[r] # None, place = "settle" => row[r].status = "RECORDED", G!Read(a, r, place)
  PROVE  GatewayInv'
<1>1. /\ at[a] = "idle" /\ (sole => \A b \in Admin : at[b] = "idle")
      /\ at' = [at EXCEPT ![a] = place] /\ task' = [task EXCEPT ![a] = r]
      /\ UNCHANGED <<credit, row, settles, flagged, listed, report, sole>>
  BY DEF G!Read, G!reporting
<1>2. /\ at' \in [Admin -> {"idle", "settle", "flag"}] /\ DOMAIN task' = Admin
      /\ at'[a] = place /\ task'[a] = r
      /\ \A b \in Admin : b # a => at'[b] = at[b] /\ task'[b] = task[b]
  BY <1>1 DEF GatewayInv
<1>3. G!TypeOK'
  BY <1>1, <1>2 DEF GatewayInv, G!TypeOK, G!Opened
<1>4. \A q \in Reference : Credited(q)'
  BY <1>1 DEF GatewayInv, Credited
<1>5. ASSUME NEW q \in Reference PROVE History(q)'
  <2>1. CASE q = r /\ place = "settle"
    <3>1. settles[q] = 0
      BY <2>1 DEF GatewayInv, History
    <3>2. Cardinality(Settling(q)') \in Nat /\ Cardinality(Settling(q)') <= Cardinality(Admin)
      <4>1. Settling(q)' \subseteq Admin
        BY DEF Settling
      <4> QED BY <4>1, GatewayConstants, FS_Subset, FS_CardinalityType
    <3>3. settles[q] + Cardinality(Settling(q)') <= Cardinality(Admin)
      BY <3>1, <3>2, GatewayConstants
    <3> QED BY <1>1, <3>3 DEF GatewayInv, History
  <2>2. CASE q # r \/ place = "flag"
    <3>1. Settling(q)' = Settling(q)
      BY <1>1, <1>2, <2>2 DEF Settling
    <3> QED BY <1>1, <3>1 DEF GatewayInv, History
  <2> QED BY <2>1, <2>2
<1>6. InTurnOnly'
  BY <1>1, <1>2 DEF GatewayInv, InTurnOnly
<1>7. listed' # None => \A q \in DOMAIN listed' : listed'[q] = credit'[q]
  BY <1>1 DEF GatewayInv
<1>8. G!ReportsMatch'
  BY <1>1 DEF GatewayInv, G!ReportsMatch
<1> QED BY <1>2, <1>3, <1>4, <1>5, <1>6, <1>7, <1>8 DEF GatewayInv

\* It writes the row it has read, and is done.
LEMMA GatewayWrites ==
  ASSUME GatewayInv, NEW a \in Admin, at[a] # "idle", NEW r \in Reference, r = task[a],
         NEW new \in G!Row, row' = [row EXCEPT ![r] = new], new.gateway = row[r].gateway,
         at' = [at EXCEPT ![a] = "idle"], task' = [task EXCEPT ![a] = None],
         UNCHANGED <<credit, listed, report, sole>>,
         settles' \in [Reference -> Nat], flagged' \subseteq {q \in Reference : row[q] # None},
         \A q \in Reference : q # r => settles'[q] = settles[q] /\ (q \in flagged' <=> q \in flagged),
         History(r)'
  PROVE  GatewayInv'
<1>1. /\ row' \in [Reference -> G!Row \cup {None}] /\ row'[r] = new /\ new # None
      /\ \A q \in Reference : q # r => row'[q] = row[q]
      /\ row[r] # None
  BY GatewayConstants, GatewayFacts
<1>2. \A q \in Reference : row'[q] # None <=> row[q] # None
  BY <1>1
<1>3. /\ at' \in [Admin -> {"idle", "settle", "flag"}] /\ DOMAIN task' = Admin
      /\ at'[a] = "idle" /\ \A b \in Admin : b # a => at'[b] = at[b] /\ task'[b] = task[b]
  BY DEF GatewayInv
<1>4. \A q \in Reference : q # r => Settling(q)' = Settling(q)
  BY <1>3 DEF Settling
<1>5. ASSUME NEW q \in Reference PROVE History(q)'
  <2>1. CASE q = r
    BY <2>1
  <2>2. CASE q # r
    <3>1. History(q)
      BY DEF GatewayInv
    <3> QED BY <1>1, <1>4, <2>2, <3>1 DEF History
  <2> QED BY <2>1, <2>2
<1>6. settles' \in [Reference -> 0 .. G!Cardinality(Admin)]
  <2>1. ASSUME NEW q \in Reference PROVE settles'[q] <= Cardinality(Admin)
    <3>1. CASE row[q] = None
      <4>1. settles[q] = 0 /\ q # r
        BY <1>1, <3>1 DEF GatewayInv, Credited
      <4> QED BY <4>1, GatewayConstants
    <3>2. CASE row[q] # None
      <4>1. settles'[q] + Cardinality(Settling(q)') <= Cardinality(Admin)
        BY <1>2, <1>5, <3>2 DEF History
      <4>2. Cardinality(Settling(q)') \in Nat
        <5>1. Settling(q)' \subseteq Admin
          BY DEF Settling
        <5> QED BY <5>1, GatewayConstants, FS_Subset, FS_CardinalityType
      <4> QED BY <4>1, <4>2, GatewayConstants
    <3> QED BY <3>1, <3>2
  <2> QED BY <2>1, GatewayConstants
<1>7. \A b \in Admin : at'[b] # "idle" => task'[b] \in {q \in Reference : row'[q] # None}
  BY <1>2, <1>3, GatewayFacts
<1>8. G!TypeOK'
  BY <1>1, <1>2, <1>6, <1>7 DEF GatewayInv, G!TypeOK, G!Opened
<1>9. \A q \in Reference : Credited(q)'
  <2>1. Credited(r)'
    BY <1>1 DEF GatewayInv, Credited
  <2>2. ASSUME NEW q \in Reference, q # r PROVE Credited(q)'
    BY <1>1, <2>2 DEF GatewayInv, Credited
  <2> QED BY <2>1, <2>2
<1>10. InTurnOnly'
  <2>1. sole => \A b \in Admin : at'[b] = "idle"
    BY <1>3 DEF GatewayInv, InTurnOnly
  <2> QED BY <2>1 DEF InTurnOnly
<1>11. listed' # None => \A q \in DOMAIN listed' : listed'[q] = credit'[q]
  BY DEF GatewayInv
<1>12. G!ReportsMatch'
  BY DEF GatewayInv, G!ReportsMatch
<1> QED BY <1>3, <1>5, <1>8, <1>9, <1>10, <1>11, <1>12 DEF GatewayInv

LEMMA SettleKeeps ==
  ASSUME GatewayInv, NEW a \in Admin, NEW amount \in Amounts, G!SettleWrite(a, amount)
  PROVE  GatewayInv'
<1>1. PICK r \in Reference : r = task[a] /\ row[r] # None /\ row[r] \in G!Row
  BY GatewayFacts DEF G!SettleWrite
<1>2. PICK new \in G!Row : new = [row[r] EXCEPT !.status = "SETTLED", !.settled = amount]
  BY <1>1, GatewayConstants
<1>3. /\ at[a] = "settle" /\ row' = [row EXCEPT ![r] = new] /\ settles' = [settles EXCEPT ![r] = @ + 1]
      /\ at' = [at EXCEPT ![a] = "idle"] /\ task' = [task EXCEPT ![a] = None]
      /\ UNCHANGED <<flagged, credit, listed, report, sole>>
  BY <1>1, <1>2, GatewayFacts DEF G!SettleWrite, G!Written, G!reporting
<1>4. new.gateway = row[r].gateway /\ new.status = "SETTLED" /\ new.settled = amount
  BY <1>1, <1>2, GatewayConstants
<1>5. /\ settles' \in [Reference -> Nat] /\ settles'[r] = settles[r] + 1 /\ settles[r] \in Nat
      /\ \A q \in Reference : q # r => settles'[q] = settles[q]
      /\ flagged' \subseteq {q \in Reference : row[q] # None}
  BY <1>3, GatewayFacts
<1>6. row'[r] = new
  BY <1>3, GatewayFacts
<1>7. settles'[r] + Cardinality(Settling(r)') <= Cardinality(Admin)
  <2>1. a \in Settling(r) /\ Settling(r)' = Settling(r) \ {a}
    BY <1>1, <1>3 DEF Settling, GatewayInv
  <2>2. IsFiniteSet(Settling(r)) /\ Cardinality(Settling(r)) \in Nat
    BY SettlingIsSome
  <2>3. Cardinality(Settling(r)') = Cardinality(Settling(r)) - 1
    BY <2>1, <2>2, FS_RemoveElement
  <2>4. settles[r] + Cardinality(Settling(r)) <= Cardinality(Admin)
    BY <1>1 DEF GatewayInv, History
  <2> QED BY <1>5, <2>2, <2>3, <2>4, GatewayConstants
<1>8. History(r)'
  <2>1. sole => settles[r] = 0 /\ r \notin flagged
    BY <1>1, <1>3 DEF GatewayInv, InTurnOnly, History
  <2>2. amount # None /\ settles'[r] # 0
    BY <1>5, GatewayConstants
  <2>3. sole => settles'[r] <= 1 /\ r \notin flagged
    BY <1>5, <2>1
  <2> QED BY <1>3, <1>4, <1>6, <1>7, <2>2, <2>3 DEF History
<1> QED BY <1>1, <1>3, <1>4, <1>5, <1>8, GatewayWrites

LEMMA FlagKeeps == ASSUME GatewayInv, NEW a \in Admin, G!FlagWrite(a) PROVE GatewayInv'
<1>1. PICK r \in Reference : r = task[a] /\ row[r] # None /\ row[r] \in G!Row
  BY GatewayFacts DEF G!FlagWrite
<1>2. PICK new \in G!Row : new = [row[r] EXCEPT !.status = "MISMATCH"]
  BY <1>1, GatewayConstants
<1>3. /\ at[a] = "flag" /\ row' = [row EXCEPT ![r] = new] /\ flagged' = flagged \cup {r}
      /\ at' = [at EXCEPT ![a] = "idle"] /\ task' = [task EXCEPT ![a] = None]
      /\ UNCHANGED <<settles, credit, listed, report, sole>>
  BY <1>1, <1>2, GatewayFacts DEF G!FlagWrite, G!Written, G!reporting
<1>4. new.gateway = row[r].gateway /\ new.status = "MISMATCH" /\ new.settled = row[r].settled
  BY <1>1, <1>2, GatewayConstants
<1>5. /\ settles' \in [Reference -> Nat] /\ flagged' \subseteq {q \in Reference : row[q] # None}
      /\ \A q \in Reference : q # r => settles'[q] = settles[q] /\ (q \in flagged' <=> q \in flagged)
  BY <1>1, <1>3, GatewayFacts
<1>6. row'[r] = new
  BY <1>3, GatewayFacts
<1>7. Settling(r)' = Settling(r)
  BY <1>3 DEF Settling, GatewayInv
<1>8. History(r)'
  BY <1>1, <1>3, <1>4, <1>6, <1>7 DEF GatewayInv, History
<1> QED BY <1>1, <1>3, <1>4, <1>5, <1>8, GatewayWrites

LEMMA GatewayStarts == G!Init => GatewayInv
<1> SUFFICES ASSUME G!Init PROVE GatewayInv
  OBVIOUS
<1>1. /\ credit = [r \in Reference |-> None] /\ row = [r \in Reference |-> None]
      /\ settles = [r \in Reference |-> 0] /\ flagged = {} /\ listed = None /\ report = None
      /\ at = [a \in Admin |-> "idle"] /\ task = [a \in Admin |-> None]
  BY DEF G!Init
<1>2. G!TypeOK
  BY <1>1, GatewayConstants DEF G!TypeOK, G!Opened
<1> QED BY <1>1, <1>2 DEF GatewayInv, G!ReportsMatch, InTurnOnly, Credited, History

LEMMA GatewayInductive == GatewayInv /\ [G!Next]_gatewayVars => GatewayInv'
<1> SUFFICES ASSUME GatewayInv, [G!Next]_gatewayVars PROVE GatewayInv'
  OBVIOUS
<1>1. CASE UNCHANGED gatewayVars
  <2>1. UNCHANGED <<credit, row, settles, flagged, listed, report, sole, at, task>>
    BY <1>1 DEF gatewayVars
  <2>2. G!TypeOK' /\ G!ReportsMatch'
    BY <2>1 DEF GatewayInv, G!TypeOK, G!Opened, G!ReportsMatch
  <2>3. InTurnOnly'
    BY <2>1 DEF GatewayInv, InTurnOnly
  <2>4. \A r \in Reference : Credited(r)' /\ History(r)'
    BY <2>1 DEF GatewayInv, Credited, History, Settling
  <2> QED BY <2>1, <2>2, <2>3, <2>4 DEF GatewayInv
<1>2. ASSUME NEW a \in Admin, NEW r \in Reference, G!SettleRead(a, r) \/ G!FlagRead(a, r)
      PROVE  GatewayInv'
  BY <1>2, GatewayReads DEF G!SettleRead, G!FlagRead, G!Opened
<1> QED BY <1>1, <1>2, CreditKeeps, OpenKeeps, ReportKeeps, SettleKeeps, FlagKeeps DEF G!Next

\* The invariant behind it, of the gateway's rows next to the campaign's money.
LEMMA GatewayInvariant == MoneySpec => []GatewayInv
<1>1. MoneyInit => GatewayInv
  BY GatewayStarts DEF MoneyInit
<1>2. GatewayInv /\ [MoneyNext]_allVars => GatewayInv'
  BY GatewayInductive DEF MoneyNext, allVars
<1> QED BY <1>1, <1>2, PTL DEF MoneySpec

\* reconciliationReport(), settleGatewayPayment(), flagGatewayPayment(): for any number of
\* payments and admins, whatever comes between two reads, every row a report lists is
\* matched by the ledger, and a row says what was done with it: settled once by each admin
\* at most, and when requests do not overlap settled once, and flagged for good.
THEOREM GatewayAlwaysAgrees == MoneySpec => []GatewayAgrees
<1>1. GatewayInv => GatewayAgrees
  <2> SUFFICES ASSUME GatewayInv, NEW r \in Reference, row[r] # None
               PROVE  /\ row[r].status = "RECORDED" <=> settles[r] = 0 /\ r \notin flagged
                      /\ row[r].settled = None <=> settles[r] = 0
                      /\ row[r].status = "MISMATCH" => r \in flagged
                      /\ settles[r] <= G!Cardinality(Admin)
                      /\ sole => settles[r] <= 1 /\ (r \in flagged => row[r].status = "MISMATCH")
    BY DEF GatewayAgrees, GatewayInv, G!RowTellsHistory, G!Opened
  <2>1. settles[r] <= G!Cardinality(Admin)
    <3>1. settles[r] \in 0 .. G!Cardinality(Admin)
      BY DEF GatewayInv, G!TypeOK
    <3> QED BY <3>1, GatewayConstants
  <2> QED BY <2>1 DEF GatewayInv, History
<1> QED BY <1>1, GatewayInvariant, PTL

-------------------------------------------------------------------------------

(* Deliveries by requests that do not overlap *)

\* DeliveryProofs with this module's rows, one request or sweep at a time and no crash.  Its
\* brief plays no part: anything may stand for it.
P == INSTANCE DeliveryProofs WITH
       escrow <- pot, posted <- paid, noted <- seen, pc <- step, job <- read, crashes <- dead,
       Worker <- Handler, Serial <- TRUE, MaxCrashes <- 0,
       Overlaps <- {FALSE}, MaxPosts <- 1, Asked <- {1}, Moments <- {0}, Reaches <- {1},
       Typed <- {1}, Minimum <- 1, brief <- scenario, targeting <- scenario, status <- scenario,
       price <- scenario, slots <- scenario, goal <- scenario, calm <- scenario,
       doing <- scenario, seen <- scenario

\* The assumptions its theorems rest on.
LEMMA DeliveryConstants == P!DeliveryAssumption
BY DeliveryAssumption, Zenon
   DEF P!DeliveryAssumption, D!DeliveryAssumption, P!IsFiniteSet, D!IsFiniteSet, P!Proof, D!Proof,
       P!Working, D!Working, P!Schedule, D!Schedule, P!PostStatus, D!PostStatus

LEMMA PricingConstants == P!PricingAssumption
BY PricingAssumption DEF P!PricingAssumption, D!PricingAssumption

LEMMA BriefConstants == P!B!BriefAssumption
<1>1. None \notin Nat
  BY ReconciliationAssumption DEF G!ReconciliationAssumption
<1> QED BY <1>1 DEF P!B!BriefAssumption

\* D is the Delivery that P proves things about: definition by definition the same.
LEMMA SameInit == D!Init <=> P!Init
BY Zenon DEF D!Init, P!Init

LEMMA SameNext == D!Next <=> P!Next
BY Zenon
   DEF D!PostStatus, P!PostStatus, D!Submittable, P!Submittable, D!Target, P!Target, D!Rollup,
       P!Rollup, D!ConsecutiveMisses, P!ConsecutiveMisses, D!Deficit, P!Deficit, D!Misses,
       P!Misses, D!Resting, P!Resting, D!Begin, P!Begin, D!Goto, P!Goto, D!Done, P!Done,
       D!RowFree, P!RowFree, D!OverOfferCount, P!OverOfferCount, D!SendOffer, P!SendOffer,
       D!ExpireOffer, P!ExpireOffer, D!Accept, P!Accept, D!DeclineRead, P!DeclineRead,
       D!DeclineWrite, P!DeclineWrite, D!UnusedSubmissions, P!UnusedSubmissions, D!SubmitRead,
       P!SubmitRead, D!SubmitWrite, P!SubmitWrite, D!RejectRead, P!RejectRead, D!RejectWrite,
       P!RejectWrite, D!ReadToApprove, P!ReadToApprove, D!ApproveRead, P!ApproveRead, D!Settle,
       P!Settle, D!ReadEscrow, P!ReadEscrow, D!Conclusion, P!Conclusion, D!Decide, P!Decide,
       D!UnusedSlots, P!UnusedSlots, D!NewSlots, P!NewSlots, D!Commit, P!Commit,
       D!ReadRemainder, P!ReadRemainder, D!BookRemainder, P!BookRemainder, D!Overdue, P!Overdue,
       D!Continue, P!Continue, D!SweepList, P!SweepList, D!Claim, P!Claim, D!ReconcileRead,
       P!ReconcileRead, D!ShouldReallocate, P!ShouldReallocate, D!ReconcileWrite,
       P!ReconcileWrite, D!HalfDone, P!HalfDone, D!Crash, P!Crash, D!Continuation,
       P!Continuation, D!Sweep, P!Sweep, D!Next, P!Next, D!vars, P!vars, D!poolVars, P!poolVars,
       D!moneyVars, P!moneyVars, D!missVars, P!missVars, D!Least, P!Least, D!Greatest,
       P!Greatest, D!DivRound, P!DivRound, D!Ceiling, P!Ceiling, D!MeetsThreshold,
       P!MeetsThreshold, D!DeliveredGross, P!DeliveredGross, D!ReopenCount, P!ReopenCount,
       D!Cardinality, P!Cardinality, D!SumFunctionOnSet, P!SumFunctionOnSet,
       D!FoldFunctionOnSet, P!FoldFunctionOnSet, D!MapThenFoldSet, P!MapThenFoldSet

LEMMA SameRecords == D!RecordsAgree <=> P!RecordsAgree
BY Zenon
   DEF D!RecordsAgree, P!RecordsAgree, D!Payouts, P!Payouts, D!Awaiting, P!Awaiting, D!Revived,
       P!Revived, D!Rollup, P!Rollup, D!Submittable, P!Submittable, D!PostStatus, P!PostStatus,
       D!Cardinality, P!Cardinality, D!Resting, P!Resting

LEMMA SamePool == D!SlotPool <=> P!SlotPool
BY Zenon DEF D!SlotPool, P!SlotPool, D!Holders, P!Holders, D!Cardinality, P!Cardinality

LEMMA SameFinal == D!KeepsFinal <=> P!KeepsFinal
BY Zenon DEF D!KeepsFinal, P!KeepsFinal

LEMMA SameSteps == [D!Next]_deliveryVars => [P!Next]_P!vars
<1>1. UNCHANGED deliveryVars => UNCHANGED P!vars
  BY DEF deliveryVars, P!vars
<1> QED BY <1>1, SameNext

\* Whatever else the money does, a campaign is delivered, or rests, as Delivery says.
LEMMA Delivers == MoneySpec => P!Spec
<1>1. MoneyInit => P!Init
  BY SameInit DEF MoneyInit
<1>2. [MoneyNext]_allVars => [P!Next]_P!vars
  <2>1. [MoneyNext]_allVars => [D!Next]_deliveryVars
    BY DEF MoneyNext, allVars
  <2> QED BY <2>1, SameSteps
<1> QED BY <1>1, <1>2, PTL DEF MoneySpec, P!Spec

\* submitProof(), approveSubmission(), rejectSubmission(), reclaimExpiredSlots(), pulls and
\* revivals, for any number of promoters, slots, posts, requests and sweeps: as long as they do
\* not overlap, slots, posts, proofs, money and assignments agree when nothing runs; and what
\* the gateway charged agrees with the ledger whether they overlap or not.
THEOREM RecordsAlwaysAgree == MoneySpec => []RecordsAgree
<1>1. 0 = 0
  OBVIOUS
<1>2. P!Spec => []P!RecordsAgree
  BY <1>1, P!RecordsAlwaysAgree, DeliveryConstants, PricingConstants, BriefConstants, PTL
<1>3. P!Spec => []P!SlotsCounted
  BY P!SlotsAlwaysCounted, DeliveryConstants, PricingConstants, BriefConstants, PTL
<1>4. P!RecordsAgree /\ P!SlotsCounted /\ GatewayAgrees => RecordsAgree
  BY SameRecords, SamePool DEF RecordsAgree, P!SlotsCounted
<1> QED BY <1>2, <1>3, <1>4, Delivers, GatewayAlwaysAgrees, PTL

\* The same requests and sweeps: a post that was approved or forfeited stays so, and a proof
\* that was decided is never decided again.
THEOREM DecisionsAreFinal == MoneySpec => Final
<1>1. 0 = 0
  OBVIOUS
<1>2. P!Spec => [][P!KeepsFinal]_P!vars
  BY <1>1, P!DecisionsAreFinal, DeliveryConstants, PricingConstants, BriefConstants, PTL
<1>3. [P!KeepsFinal]_P!vars => [D!KeepsFinal]_deliveryVars
  <2>1. UNCHANGED P!vars => UNCHANGED deliveryVars
    BY DEF deliveryVars, P!vars
  <2> QED BY <2>1, SameFinal
<1> QED BY <1>2, <1>3, Delivers, PTL DEF Final

===============================================================================
