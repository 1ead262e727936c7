------------------------------- MODULE Postings -------------------------------
(***************************************************************************)
(* The data of the double-entry ledger: accounts, what one posting asks    *)
(* for, and the pure rules `LedgerService.post` applies to it.  The state  *)
(* machines over this data are Ledger (the posting protocol, many requests *)
(* at once) and LedgerAbstract (what the protocol promises).               *)
(*                                                                         *)
(* A posting's entries are kept as two functions, the kobo debited and the *)
(* kobo credited per account; 0 says the posting has no such entry.        *)
(***************************************************************************)
EXTENDS Integers, FiniteSets, Functions

CONSTANTS Account,      \* account ids, ordered as the row locks are taken
          KindOf,       \* the AccountKind of each account
          Key,          \* idempotency keys
          Ref           \* what a posting is about: kind, referenceType, referenceId

AccountKind == {"CLIENT_WALLET", "CAMPAIGN_ESCROW", "PROMOTER_AVAILABLE",
                "RALIA_REVENUE", "BANK_CLEARING"}

ASSUME AccountAssumption == /\ Account \subseteq Nat
                            /\ IsFiniteSet(Account)
                            /\ KindOf \in [Account -> AccountKind]

\* ACCOUNT_RULES: the direction that increases an account of this kind ...
CreditNormal(kind) == kind # "BANK_CLEARING"

\* ... and whether its balance may never fall below zero.
NonNegativeKind(kind) ==
  kind \in {"CLIENT_WALLET", "CAMPAIGN_ESCROW", "PROMOTER_AVAILABLE"}

NonNegative == {a \in Account : NonNegativeKind(KindOf[a])}

PostInput == [key: Key, ref: Ref, debit: [Account -> Int], credit: [Account -> Int]]

-------------------------------------------------------------------------------

\* The accounts a posting has an entry on.
Touched(input) == {a \in Account : input.debit[a] # 0 \/ input.credit[a] # 0}

\* What a posting adds to the balance of account a.
Delta(input, a) ==
  IF CreditNormal(KindOf[a]) THEN input.credit[a] - input.debit[a]
                             ELSE input.debit[a] - input.credit[a]

\* The debit total, the only amount a replay compares.
Total(input) == SumFunction(input.debit)

\* Fault: validate() forgets to compare the debits with the credits.
FaultValidUnbalanced(input) ==
  /\ \A a \in Account : input.debit[a] >= 0 /\ input.credit[a] >= 0
  /\ Total(input) > 0

\* validate(): entries are positive, there are some, and debits equal credits.
Valid(input) ==
  /\ \A a \in Account : input.debit[a] >= 0 /\ input.credit[a] >= 0
  /\ Total(input) = SumFunction(input.credit)
  /\ Total(input) > 0

\* assertReplayMatches(): a replay is accepted when the reference and the
\* debit total agree; the accounts and the split of the credits are not looked at.
SamePosting(existing, input) ==
  /\ existing.ref = input.ref
  /\ Total(existing) = Total(input)

===============================================================================
