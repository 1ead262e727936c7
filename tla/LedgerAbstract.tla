---------------------------- MODULE LedgerAbstract ----------------------------
(***************************************************************************)
(* What the ledger promises its callers: a posting takes effect in one     *)
(* indivisible step, at most once per idempotency key, only if it is well  *)
(* formed and leaves no constrained account below zero.  Everything the    *)
(* protocol of module Ledger does in between is invisible.                 *)
(***************************************************************************)
EXTENDS Integers

CONSTANTS Account,      \* account ids
          NonNegative,  \* the accounts whose balance may never fall below zero
          Existing,     \* the account ids that have a row in accounts
          Key,          \* idempotency keys
          Input,        \* the postings callers may ask for
          NoPosting,    \* a key nothing was posted under
          Valid(_),     \* is a posting well formed?
          Touched(_),   \* the accounts a posting has an entry on
          Delta(_, _)   \* what a posting adds to the balance of an account

VARIABLES posted,       \* ledger_transactions by idempotency_key, with their entries
          balance       \* what the committed entries of each account sum to

avars == <<posted, balance>>

Init == /\ posted = [k \in Key |-> NoPosting]
        /\ balance = [a \in Account |-> 0]

Apply(input) ==
  /\ Valid(input)
  /\ Touched(input) \subseteq Existing
  /\ posted[input.key] = NoPosting
  /\ \A a \in Touched(input) \cap NonNegative : balance[a] + Delta(input, a) >= 0
  /\ posted' = [posted EXCEPT ![input.key] = input]
  /\ balance' = [a \in Account |-> balance[a] + Delta(input, a)]

Next == \E input \in Input : Apply(input)

Spec == Init /\ [][Next]_avars

===============================================================================
