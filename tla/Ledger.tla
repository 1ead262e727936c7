-------------------------------- MODULE Ledger --------------------------------
(***************************************************************************)
(* LedgerService.post (src/modules/ledger/ledger.service.ts), the one      *)
(* primitive through which all money moves, called by many requests at     *)
(* once on PostgreSQL at READ COMMITTED.                                   *)
(*                                                                         *)
(* One request p goes through these places:                                *)
(*   "idle"    no call in progress; answer[p] is what the last one got     *)
(*   "find"    validated, about to look the key up (the fast path)         *)
(*   "claim"   in the transaction, inserting the ledger_transactions row   *)
(*   "lock"    SELECT .. ORDER BY id FOR UPDATE, one row at a time         *)
(*   "verify"  entries written, reading each constrained balance           *)
(*   "reread"  lost the key (P2002), rolled back, reading the winner       *)
(* A row inserted by an open transaction is invisible to the others; an    *)
(* insert of the same key waits for it, and so does FOR UPDATE on a row    *)
(* lock.  A transaction whose process dies is rolled back by the database. *)
(***************************************************************************)
EXTENDS Postings

CONSTANTS Request,      \* concurrent callers of post()
          Input,        \* the postings they may ask for
          Existing,     \* the account ids that have a row in accounts
          NoPosting,    \* a key nothing was posted under
          Nobody        \* a key or a row no transaction holds

ASSUME LedgerAssumption == /\ Input \subseteq PostInput
                           /\ Existing \subseteq Account
                           /\ NoPosting \notin Input
                           /\ Nobody \notin Request

VARIABLES posted,       \* committed ledger_transactions, by idempotency_key
          balance,      \* what the committed ledger_entries of each account sum to
          claimant,     \* the open transaction that has inserted a key, if any
          locker,       \* the open transaction that holds an account row, if any
          pc, call, verified,   \* of each request: place, input, balances checked
          answer        \* what the last finished call of each request returned

vars == <<posted, balance, claimant, locker, pc, call, verified, answer>>

Place == {"idle", "find", "claim", "lock", "verify", "reread"}
Answer == {"none", "invalid", "posted", "replayed", "conflict", "missing",
           "insufficient", "error"}

TypeOK ==
  /\ posted \in [Key -> Input \cup {NoPosting}]
  /\ balance \in [Account -> Int]
  /\ claimant \in [Key -> Request \cup {Nobody}]
  /\ locker \in [Account -> Request \cup {Nobody}]
  /\ pc \in [Request -> Place]
  /\ call \in [Request -> Input \cup {NoPosting}]
  /\ verified \in [Request -> SUBSET Account]
  /\ answer \in [Request -> Answer]

Init ==
  /\ posted = [k \in Key |-> NoPosting]
  /\ balance = [a \in Account |-> 0]
  /\ claimant = [k \in Key |-> Nobody]
  /\ locker = [a \in Account |-> Nobody]
  /\ pc = [p \in Request |-> "idle"]
  /\ call = [p \in Request |-> NoPosting]
  /\ verified = [p \in Request |-> {}]
  /\ answer = [p \in Request |-> "none"]

-------------------------------------------------------------------------------

Return(p, result) == /\ pc' = [pc EXCEPT ![p] = "idle"]
                     /\ answer' = [answer EXCEPT ![p] = result]

Goto(p, place) == pc' = [pc EXCEPT ![p] = place] /\ UNCHANGED answer

\* The end of p's transaction, either way: its claim and its row locks go.
EndTransaction(p) ==
  /\ claimant' = [k \in Key |-> IF claimant[k] = p THEN Nobody ELSE claimant[k]]
  /\ locker' = [a \in Account |-> IF locker[a] = p THEN Nobody ELSE locker[a]]
  /\ verified' = [verified EXCEPT ![p] = {}]

\* Fault: a replay is accepted without comparing it to the original.
FaultReplayUnchecked(p) == "replayed"

\* What a caller finding a committed row under its key is told.
ReplayAnswer(p) ==
  IF SamePosting(posted[call[p].key], call[p]) THEN "replayed" ELSE "conflict"

\* A caller enters post(), for the first time or as a retry.
Call(p, input) ==
  /\ pc[p] = "idle"
  /\ call' = [call EXCEPT ![p] = input]
  /\ IF Valid(input) THEN Goto(p, "find") ELSE Return(p, "invalid")
  /\ UNCHANGED <<posted, balance, claimant, locker, verified>>

\* The fast path: a committed key is answered without a transaction.
FindExisting(p) ==
  /\ pc[p] = "find"
  /\ IF posted[call[p].key] # NoPosting THEN Return(p, ReplayAnswer(p))
                                       ELSE Goto(p, "claim")
  /\ UNCHANGED <<posted, balance, claimant, locker, call, verified>>

\* Fault: the key is claimed without a unique index behind the insert.
FaultClaimWithoutIndex(p) ==
  /\ pc[p] = "claim"
  /\ Goto(p, "lock")
  /\ claimant' = [claimant EXCEPT ![call[p].key] = p]
  /\ UNCHANGED <<posted, balance, locker, call, verified>>

\* Insert the transaction row.  Waits while another open transaction holds the
\* key; a committed key fails the unique index and ends the transaction.
ClaimKey(p) ==
  LET key == call[p].key IN
  /\ pc[p] = "claim"
  /\ claimant[key] = Nobody
  /\ IF posted[key] # NoPosting
     THEN Goto(p, "reread") /\ UNCHANGED claimant
     ELSE Goto(p, "lock") /\ claimant' = [claimant EXCEPT ![key] = p]
  /\ UNCHANGED <<posted, balance, locker, call, verified>>

\* Fault: the rows are locked in whatever order the scan meets them.
FaultUnorderedRow(p, a) == a \in {b \in Touched(call[p]) \cap Existing : locker[b] # p}

\* The next row SELECT .. ORDER BY id FOR UPDATE reaches.
IsNextRow(p, a) ==
  LET unlocked == {b \in Touched(call[p]) \cap Existing : locker[b] # p}
  IN  a \in unlocked /\ \A b \in unlocked : a <= b

\* Fault: the rows are read without FOR UPDATE, so nothing waits.
FaultLockNoWait(p, a) ==
  /\ pc[p] = "lock"
  /\ IsNextRow(p, a)
  /\ locker' = [locker EXCEPT ![a] = p]
  /\ UNCHANGED <<posted, balance, claimant, pc, call, verified, answer>>

LockRow(p, a) ==
  /\ pc[p] = "lock"
  /\ IsNextRow(p, a)
  /\ locker[a] = Nobody
  /\ locker' = [locker EXCEPT ![a] = p]
  /\ UNCHANGED <<posted, balance, claimant, pc, call, verified, answer>>

\* Every row there is is locked: the entries are inserted, still uncommitted,
\* unless one names an account that does not exist.
WriteEntries(p) ==
  /\ pc[p] = "lock"
  /\ \A a \in Touched(call[p]) \cap Existing : locker[a] = p
  /\ IF Touched(call[p]) \subseteq Existing
     THEN Goto(p, "verify") /\ UNCHANGED <<claimant, locker, verified>>
     ELSE Return(p, "missing") /\ EndTransaction(p)
  /\ UNCHANGED <<posted, balance, call>>

Constrained(p) == Touched(call[p]) \cap NonNegative

\* One balanceOf(): the committed entries plus the transaction's own.
VerifyBalance(p, a) ==
  /\ pc[p] = "verify"
  /\ a \in Constrained(p) \ verified[p]
  /\ IF balance[a] + Delta(call[p], a) >= 0
     THEN /\ verified' = [verified EXCEPT ![p] = @ \cup {a}]
          /\ UNCHANGED <<claimant, locker, pc, answer>>
     ELSE Return(p, "insufficient") /\ EndTransaction(p)
  /\ UNCHANGED <<posted, balance, call>>

\* Fault: the row is committed before its credit entries are written.
FaultCommitHalf(p) ==
  /\ pc[p] = "verify"
  /\ verified[p] = Constrained(p)
  /\ posted' = [posted EXCEPT ![call[p].key] =
                  [call[p] EXCEPT !.credit = [a \in Account |-> 0]]]
  /\ balance' = [a \in Account |-> balance[a] + Delta(call[p], a)]
  /\ EndTransaction(p)
  /\ Return(p, "posted")
  /\ UNCHANGED call

Commit(p) ==
  /\ pc[p] = "verify"
  /\ verified[p] = Constrained(p)
  /\ posted' = [posted EXCEPT ![call[p].key] = call[p]]
  /\ balance' = [a \in Account |-> balance[a] + Delta(call[p], a)]
  /\ EndTransaction(p)
  /\ Return(p, "posted")
  /\ UNCHANGED call

\* The loser of a key race answers from the winner's row; without one it rethrows.
RereadWinner(p) ==
  /\ pc[p] = "reread"
  /\ IF posted[call[p].key] # NoPosting THEN Return(p, ReplayAnswer(p))
                                       ELSE Return(p, "error")
  /\ UNCHANGED <<posted, balance, claimant, locker, call, verified>>

\* The process dies anywhere before the commit, or the answer is lost after it.
Crash(p) ==
  /\ pc[p] # "idle"
  /\ EndTransaction(p)
  /\ Return(p, "none")
  /\ call' = [call EXCEPT ![p] = NoPosting]
  /\ UNCHANGED <<posted, balance>>

Step(p) ==
  \/ FindExisting(p) \/ ClaimKey(p) \/ WriteEntries(p) \/ Commit(p) \/ RereadWinner(p)
  \/ \E a \in Account : LockRow(p, a) \/ VerifyBalance(p, a)

Next == \E p \in Request :
  \/ \E input \in Input : Call(p, input)
  \/ Step(p)
  \/ Crash(p)

Spec == Init /\ [][Next]_vars

\* A transaction that is not blocked proceeds, and PostgreSQL hands a lock to
\* its waiters in the order they came, so no waiter is passed over for ever.
FairSpec == Spec /\ \A p \in Request :
                      /\ WF_vars(FindExisting(p) \/ WriteEntries(p) \/ Commit(p) \/ RereadWinner(p))
                      /\ WF_vars(\E a \in Account : VerifyBalance(p, a))
                      /\ SF_vars(ClaimKey(p))
                      /\ SF_vars(\E a \in Account : LockRow(p, a))


-------------------------------------------------------------------------------
(* Properties *)

\* No interleaving of postings, crashes and retries ever commits a constrained
\* account below zero: the check runs after the write, under the row locks.
NonNegativeBalances == \A a \in NonNegative : balance[a] >= 0

\* Why the check can be trusted: from its insert to its commit a transaction owns
\* its key, from the write on it owns every row it has an entry on, and so a
\* balance it has verified still verifies when it commits.
RequestInv(p) ==
  /\ pc[p] # "idle" => call[p] \in Input /\ Valid(call[p])
  /\ pc[p] = "reread" => posted[call[p].key] # NoPosting
  /\ pc[p] \in {"lock", "verify"} => claimant[call[p].key] = p
  /\ pc[p] = "verify" => /\ Touched(call[p]) \subseteq Existing
                         /\ \A a \in Touched(call[p]) : locker[a] = p
                         /\ verified[p] \subseteq Constrained(p)
  /\ pc[p] # "verify" => verified[p] = {}
  /\ \A a \in verified[p] : balance[a] + Delta(call[p], a) >= 0

ProtocolInv == /\ \A k \in Key : posted[k] # NoPosting => claimant[k] = Nobody
               /\ \A p \in Request : RequestInv(p)

\* The books close: every balance is the sum of the entries committed on the
\* account (there is no balance column to drift), and over all accounts the
\* credit balances equal the debit balances.
Committed == {k \in Key : posted[k] # NoPosting}
CreditSide == {a \in Account : CreditNormal(KindOf[a])}
BooksClose ==
  /\ \A a \in Account :
       balance[a] = SumFunctionOnSet([k \in Committed |-> Delta(posted[k], a)], Committed)
  /\ SumFunctionOnSet(balance, CreditSide) = SumFunctionOnSet(balance, Account \ CreditSide)

\* What a caller is told is true of the committed books, for the winner of a key
\* race, for its losers and for retries; and the loser of a race always finds the
\* winner's row, so post() never ends in the rethrow behind the reread.
Truthful(p) == pc[p] = "idle" /\ call[p] # NoPosting =>
  LET row == posted[call[p].key] IN
  /\ answer[p] # "error"
  /\ answer[p] \in {"posted", "replayed"} => row # NoPosting /\ SamePosting(row, call[p])
  /\ answer[p] = "conflict" => row # NoPosting /\ ~SamePosting(row, call[p])

AnswersAreTrue == \A p \in Request : Truthful(p)

\* The posting protocol implements the atomic, at-most-once ledger.
Abstract == INSTANCE LedgerAbstract
ImplementsAbstract == Abstract!Spec

\* The key is claimed before any row and rows are locked in id order, so callers
\* never wait for each other in a circle: every call is answered.
EveryCallAnswered == \A p \in Request : pc[p] # "idle" ~> pc[p] = "idle"

===============================================================================
