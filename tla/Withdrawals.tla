------------------------------ MODULE Withdrawals ------------------------------
(***************************************************************************)
(* The withdrawals of one promoter, from request to bank transfer          *)
(* (wallet.service.ts and the withdrawal handlers of admin.service.ts).    *)
(* A request reads the balance, then what is in flight, then writes.  An   *)
(* admin decision reads the withdrawal, posts to the ledger if money       *)
(* moves, and then writes the record in a transaction of its own, which    *)
(* fails if the notification it announces was sent before.  Posting is     *)
(* one step (LedgerAbstract).                                              *)
(***************************************************************************)
EXTENDS Integers, FiniteSets, FiniteSetsExt, Functions

CONSTANTS Withdrawal,     \* withdrawal ids in the order they are given out, a bound
          Key,            \* idempotency keys of record-paid and reverse
          Worker,         \* concurrent requests
          Amounts,        \* amounts a promoter may ask for
          Minimum,        \* rate_config.withdrawal_minimum_minor
          Earnings,       \* what approved submissions credit in the end, a bound
          Modes,          \* may requests overlap? (BOOLEAN for both)
          MaxCrashes,     \* a bound
          None

Status == {"REQUESTED", "APPROVED", "FAILED", "PAID", "REVERSED"}

\* A withdrawal row, and a ledger posting made for one.
Row == [status: Status, amount: Amounts]
Posting == {"PAID", "REVERSED"} \X Withdrawal

ASSUME WithdrawalsAssumption ==
  /\ Withdrawal \subseteq Nat /\ IsFiniteSet(Withdrawal)
  /\ Amounts \subseteq Nat /\ Minimum \in Nat \ {0}
  /\ Earnings \in Nat /\ Modes \subseteq BOOLEAN /\ MaxCrashes \in Nat
  /\ None \notin Key \cup Row \cup Posting

VARIABLES
  available,  \* balance of the promoter's PROMOTER_AVAILABLE account
  earned,     \* what was credited to it
  wd,         \* withdrawals: status and amount
  kyc,        \* is the promoter KYC-verified?
  posted,     \* what moved under each key: None or <<kind, withdrawal>>
  noted,      \* dedupe keys of the notifications written
  alone,      \* TRUE: no two requests of this behaviour overlap
  pc, job,    \* of each worker: place, and what it has read
  crashes     \* how many requests have died

vars == <<available, earned, wd, kyc, posted, noted, alone, pc, job, crashes>>
frame == <<earned, kyc, alone, crashes>>

InFlight == {"REQUESTED", "APPROVED"}

\* What is asked for and not yet paid, refused or failed.
Pending ==
  LET open == {n \in Withdrawal : wd[n] # None /\ wd[n].status \in InFlight}
  IN  SumFunctionOnSet([n \in open |-> wd[n].amount], open)

Resting == \A w \in Worker : pc[w] = "idle"

Begin(w, place, read) ==
  /\ pc[w] = "idle" /\ (alone => Resting)
  /\ pc' = [pc EXCEPT ![w] = place] /\ job' = [job EXCEPT ![w] = read]

Goto(w, place, read) == pc' = [pc EXCEPT ![w] = place] /\ job' = [job EXCEPT ![w] = read]
Done(w) == Goto(w, "idle", None)

Init ==
  /\ available = 0 /\ earned = 0 /\ kyc = FALSE
  /\ wd = [n \in Withdrawal |-> None]
  /\ posted = [k \in Key |-> None] /\ noted = {}
  /\ alone \in Modes
  /\ pc = [w \in Worker |-> "idle"] /\ job = [w \in Worker |-> None] /\ crashes = 0

\* An approved submission credits the promoter.
Earn(a) ==
  /\ earned + a <= Earnings
  /\ available' = available + a /\ earned' = earned + a
  /\ UNCHANGED <<wd, kyc, posted, noted, alone, pc, job, crashes>>

\* setKyc()
SetKyc(verified) ==
  /\ kyc' = verified /\ kyc # verified
  /\ UNCHANGED <<available, earned, wd, posted, noted, alone, pc, job, crashes>>

-------------------------------------------------------------------------------
(* requestWithdrawal() *)

Unused == {n \in Withdrawal : wd[n] = None}

RequestRead(w, a) ==
  /\ a >= Minimum
  /\ Cardinality(Unused) > Cardinality({x \in Worker : pc[x] \in {"check", "create"}})
  /\ Begin(w, "check", [amount |-> a, available |-> available])
  /\ UNCHANGED <<available, wd, posted, noted, frame>>

\* Fault: approved withdrawals are taken for paid ones.
FaultRequestCheckRequestedOnly(w) ==
  LET open == {n \in Withdrawal : wd[n] # None /\ wd[n].status = "REQUESTED"}
      pending == SumFunctionOnSet([n \in open |-> wd[n].amount], open)
  IN
  /\ pc[w] = "check"
  /\ IF job[w].amount > job[w].available - pending
     THEN Done(w) ELSE Goto(w, "create", job[w])
  /\ UNCHANGED <<available, wd, posted, noted, frame>>

RequestCheck(w) ==
  /\ pc[w] = "check"
  /\ IF job[w].amount > job[w].available - Pending
     THEN Done(w) ELSE Goto(w, "create", job[w])
  /\ UNCHANGED <<available, wd, posted, noted, frame>>

RequestCreate(w) ==
  /\ pc[w] = "create"
  /\ wd' = [wd EXCEPT ![Min(Unused)] = [status |-> "REQUESTED", amount |-> job[w].amount]]
  /\ Done(w)
  /\ UNCHANGED <<available, posted, noted, frame>>

-------------------------------------------------------------------------------
(* The decisions: approveWithdrawal(), failWithdrawal(), recordWithdrawalPaid() and
   reverseWithdrawal(), each named by the status it leads to. *)

Allows(decision) == CASE decision = "APPROVED" -> {"REQUESTED"}
                      [] decision = "FAILED"   -> InFlight
                      [] decision = "PAID"     -> {"APPROVED"}
                      [] decision = "REVERSED" -> {"PAID"}

DecideRead(w, decision, n) ==
  /\ wd[n] # None /\ wd[n].status \in Allows(decision)
  /\ Begin(w, "record", [decision |-> decision, id |-> n, key |-> None])
  /\ UNCHANGED <<available, wd, posted, noted, frame>>

ApproveRead(w, n) == kyc /\ DecideRead(w, "APPROVED", n)
FailRead(w, n) == DecideRead(w, "FAILED", n)

\* Fault: a withdrawal that bounced once may be reversed again.
FaultMoveReadAgain(w, decision, n, k) ==
  /\ wd[n] # None /\ posted[k] = None
  /\ wd[n].status \in Allows(decision) \cup ({"REVERSED"} \cap {decision})
  /\ Begin(w, "post", [decision |-> decision, id |-> n, key |-> k])
  /\ UNCHANGED <<available, wd, posted, noted, frame>>

\* A key that was used returns "Already recorded" whatever the status.
MoveRead(w, decision, n, k) ==
  /\ wd[n] # None /\ posted[k] = None
  /\ wd[n].status \in Allows(decision)
  /\ Begin(w, "post", [decision |-> decision, id |-> n, key |-> k])
  /\ UNCHANGED <<available, wd, posted, noted, frame>>

PayRead(w, n, k) == MoveRead(w, "PAID", n, k)
ReverseRead(w, n, k) == MoveRead(w, "REVERSED", n, k)

Change(decision, n) == IF decision = "PAID" THEN -wd[n].amount ELSE wd[n].amount

\* Fault: the record is written first, the ledger is left for later.
FaultMovePostLater(w) ==
  /\ pc[w] = "post"
  /\ Goto(w, "record", job[w])
  /\ UNCHANGED <<available, wd, posted, noted, frame>>

\* Fault: the account is debited whatever it holds.
FaultMovePostUnchecked(w) ==
  LET d == job[w].decision
      n == job[w].id
      k == job[w].key
  IN
  /\ pc[w] = "post"
  /\ IF posted[k] # None
     THEN Done(w) /\ UNCHANGED <<available, posted>>
     ELSE /\ available' = available + Change(d, n)
          /\ posted' = [posted EXCEPT ![k] = <<d, n>>]
          /\ Goto(w, "record", job[w])
  /\ UNCHANGED <<wd, noted, frame>>

\* A replay, a key used for something else and an overdraft all end the request.
MovePost(w) ==
  LET d == job[w].decision
      n == job[w].id
      k == job[w].key
  IN
  /\ pc[w] = "post"
  /\ IF posted[k] # None \/ available + Change(d, n) < 0
     THEN Done(w) /\ UNCHANGED <<available, posted>>
     ELSE /\ available' = available + Change(d, n)
          /\ posted' = [posted EXCEPT ![k] = <<d, n>>]
          /\ Goto(w, "record", job[w])
  /\ UNCHANGED <<wd, noted, frame>>

\* Unconditional on the status, but the notification must be new.
Record(w) ==
  LET d == job[w].decision
      n == job[w].id
  IN
  /\ pc[w] = "record"
  /\ Done(w)
  /\ IF <<d, n>> \in noted
     THEN UNCHANGED <<wd, noted>>
     ELSE wd' = [wd EXCEPT ![n].status = d] /\ noted' = noted \cup {<<d, n>>}
  /\ UNCHANGED <<available, posted, frame>>

-------------------------------------------------------------------------------

\* A process dies after the ledger committed and before the record did.
Crash(w) ==
  /\ crashes < MaxCrashes /\ pc[w] = "record" /\ job[w].key # None
  /\ crashes' = crashes + 1 /\ Done(w)
  /\ UNCHANGED <<available, earned, wd, kyc, posted, noted, alone>>

Next ==
  \/ \E a \in Amounts : Earn(a)
  \/ \E verified \in BOOLEAN : SetKyc(verified)
  \/ \E w \in Worker :
       \/ \E a \in Amounts : RequestRead(w, a)
       \/ RequestCheck(w) \/ RequestCreate(w)
       \/ \E n \in Withdrawal : ApproveRead(w, n) \/ FailRead(w, n)
       \/ \E n \in Withdrawal, k \in Key : PayRead(w, n, k) \/ ReverseRead(w, n, k)
       \/ MovePost(w) \/ Record(w) \/ Crash(w)

Spec == Init /\ [][Next]_vars

-------------------------------------------------------------------------------

Asking == [amount: Amounts, available: Nat]
Deciding == [decision: Status \ {"REQUESTED"}, id: Withdrawal, key: Key \cup {None}]

\* What a request has read by the time it is where it is.
Carries(w) ==
  \/ pc[w] = "idle" /\ job[w] = None
  \/ pc[w] \in {"check", "create"} /\ job[w] \in Asking
  \/ pc[w] \in {"post", "record"} /\ job[w] \in Deciding

\* The balance never falls below zero, and every record has its shape.
TypeOK ==
  /\ available \in Nat /\ earned \in Nat /\ kyc \in BOOLEAN /\ alone \in BOOLEAN
  /\ wd \in [Withdrawal -> Row \cup {None}]
  /\ posted \in [Key -> Posting \cup {None}]
  /\ noted \subseteq Status \X Withdrawal
  /\ crashes \in Nat
  /\ pc \in [Worker -> {"idle", "check", "create", "post", "record"}]
  /\ job \in [Worker -> Asking \cup Deciding \cup {None}]
  /\ \A w \in Worker : Carries(w)

HasMoved(decision, n) == \E k \in Key : posted[k] = <<decision, n>>

\* A withdrawal that says PAID was debited, one that says REVERSED was debited and
\* credited back, and nothing is credited back that was never debited: under races of
\* any number of admins, retries and crashes.
StatusHasMoney == \A n \in Withdrawal :
  /\ wd[n] # None /\ wd[n].status \in {"PAID", "REVERSED"} => HasMoved(wd[n].status, n)
  /\ HasMoved("REVERSED", n) => HasMoved("PAID", n)

Moved(decision, n) == Cardinality({k \in Key : posted[k] = <<decision, n>>})

\* As long as requests do not overlap and none died half-way, a withdrawal's status
\* tells exactly what moved: debited once if it was paid, credited back once if it was
\* reversed, and no money moved otherwise.
StatusTellsMoney == alone /\ crashes = 0 /\ Resting => \A n \in Withdrawal :
  wd[n] # None =>
    /\ Moved("PAID", n) = IF wd[n].status \in {"PAID", "REVERSED"} THEN 1 ELSE 0
    /\ Moved("REVERSED", n) = IF wd[n].status = "REVERSED" THEN 1 ELSE 0

\* What is asked for is there: withdrawals in flight never exceed the balance.
NotOverRequested == Resting => Pending <= available

\* The same, for requests that do not overlap while none dies half-way.
Encumbered == alone /\ crashes = 0 => NotOverRequested

===============================================================================
