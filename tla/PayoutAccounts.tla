----------------------------- MODULE PayoutAccounts -----------------------------
(***************************************************************************)
(* The bank accounts promoters are paid to (bank.service.ts) and the one a *)
(* withdrawal picks (wallet.service.ts).  Adding an account looks for the  *)
(* same account under another user | clears the user's default, which only *)
(* sees the rows there are at that moment | inserts.  The last two are one *)
(* transaction.                                                            *)
(***************************************************************************)
EXTENDS Integers, Sequences, FiniteSets, FiniteSetsExt

CONSTANTS User, Number,  \* promoters and bank account numbers
          Named,         \* <<user, number>>: the holder's name shares a word with the user's
          Request, Overlaps, MaxRows, None

PayoutAccountsAssumption ==
  /\ Named \subseteq User \X Number /\ Overlaps \subseteq BOOLEAN /\ MaxRows \in Nat \ {0}
  /\ IsFiniteSet(Request)

VARIABLES
  accounts,    \* promoter_bank_accounts in the order of their creation
  quiet,       \* requests of this behaviour do not overlap
  at, adding   \* of each request: place, and what it adds and has seen

vars == <<accounts, quiet, at, adding>>

Account == [user: User, number: Number, default: BOOLEAN, began: 0 .. MaxRows]

TypeOK ==
  /\ accounts \in Seq(Account) /\ Len(accounts) <= MaxRows /\ quiet \in BOOLEAN
  /\ at \in [Request -> {"idle", "clear", "insert"}]

Init ==
  /\ accounts = <<>> /\ quiet \in {~o : o \in Overlaps}
  /\ at = [r \in Request |-> "idle"] /\ adding = [r \in Request |-> None]

Of(u) == {i \in DOMAIN accounts : accounts[i].user = u}

\* create(): the name must match, and no other user may have the account.
Check(r, u, n) ==
  /\ at[r] = "idle" /\ (quiet => \A q \in Request : at[q] = "idle")
  /\ Len(accounts) + Cardinality({q \in Request : at[q] # "idle"}) < MaxRows
  /\ <<u, n>> \in Named
  /\ \A i \in DOMAIN accounts : accounts[i].number = n => accounts[i].user = u
  /\ at' = [at EXCEPT ![r] = "clear"]
  /\ adding' = [adding EXCEPT ![r] = [user |-> u, number |-> n, sees |-> {}, began |-> Len(accounts)]]
  /\ UNCHANGED <<accounts, quiet>>

\* "One default at a time": the update sees the rows that are committed now.
Clear(r) ==
  /\ at[r] = "clear"
  /\ at' = [at EXCEPT ![r] = "insert"]
  /\ adding' = [adding EXCEPT ![r].sees = Of(adding[r].user)]
  /\ UNCHANGED <<accounts, quiet>>

\* Fault: the user's first account stays the default.
FaultInsert(r) ==
  LET a == adding[r] IN
  /\ at[r] = "insert"
  /\ accounts' = Append(accounts, [user |-> a.user, number |-> a.number,
                                   default |-> a.sees = {}, began |-> a.began])
  /\ at' = [at EXCEPT ![r] = "idle"] /\ adding' = [adding EXCEPT ![r] = None]
  /\ UNCHANGED quiet

\* The transaction commits.
Insert(r) ==
  LET a == adding[r] IN
  /\ at[r] = "insert"
  /\ accounts' = Append([i \in DOMAIN accounts |->
                           IF i \in a.sees THEN [accounts[i] EXCEPT !.default = FALSE] ELSE accounts[i]],
                        [user |-> a.user, number |-> a.number, default |-> TRUE, began |-> a.began])
  /\ at' = [at EXCEPT ![r] = "idle"] /\ adding' = [adding EXCEPT ![r] = None]
  /\ UNCHANGED quiet

Next ==
  \E r \in Request : \/ \E u \in User, n \in Number : Check(r, u, n)
                     \/ Clear(r) \/ Insert(r)

Spec == Init /\ [][Next]_vars

\* requestWithdrawal(): a default before any other, and the newest of them.
PayoutAccount(u) ==
  LET defaults == {i \in Of(u) : accounts[i].default}
  IN  Max(IF defaults # {} THEN defaults ELSE Of(u))

\* create(), requestWithdrawal(): a payout never goes to an account the user has replaced,
\* even if overlapping requests left two defaults or took turns at clearing them; without
\* overlaps there is one default, and nobody else is paid to the same account.
PaidToOwner ==
  /\ \A u \in {v \in User : Of(v) # {}} : \A i \in Of(u) : accounts[i].began < PayoutAccount(u)
  /\ \A u \in User : Of(u) # {} => \E i \in Of(u) : accounts[i].default
  /\ quiet =>
       /\ \A u \in User : Cardinality({i \in Of(u) : accounts[i].default}) <= 1
       /\ \A i, j \in DOMAIN accounts :
            accounts[i].number = accounts[j].number => accounts[i].user = accounts[j].user

===============================================================================
