----------------------------- MODULE LedgerProofs -----------------------------
(***************************************************************************)
(* Theorems about the posting protocol, for every set of requests,         *)
(* accounts, keys and postings.  The inductive invariant is TypeOK and     *)
(* ProtocolInv: it says who owns which key and which rows, and that a      *)
(* verified balance stays verified because nobody else can commit entries  *)
(* on a row that is locked.                                                *)
(***************************************************************************)
EXTENDS Ledger, Sums, TLAPS

\* What a posting adds to a balance is an integer.
LEMMA DeltaIsInt ==
  ASSUME NEW input \in Input, NEW a \in Account
  PROVE  Delta(input, a) \in Int
BY LedgerAssumption DEF Delta, PostInput

\* A posting leaves alone the accounts it has no entry on.
LEMMA DeltaOutside ==
  ASSUME NEW input \in Input, NEW a \in Account, a \notin Touched(input)
  PROVE  Delta(input, a) = 0
BY LedgerAssumption DEF Delta, PostInput, Touched

LEMMA KeyOfInput == ASSUME NEW input \in Input PROVE input.key \in Key
BY LedgerAssumption DEF PostInput

-------------------------------------------------------------------------------

\* The variables keep their types: TypeOK of module Ledger is inductive together
\* with the part of ProtocolInv that says a call in progress has an input.
LEMMA TypeStep == TypeOK /\ ProtocolInv /\ [Next]_vars => TypeOK'
<1> SUFFICES ASSUME TypeOK, ProtocolInv, [Next]_vars PROVE TypeOK'
  OBVIOUS
<1> USE LedgerAssumption DEF TypeOK, Return, Goto, EndTransaction, Place, Answer
<1>1. ASSUME NEW p \in Request, NEW input \in Input, Call(p, input) PROVE TypeOK'
  BY <1>1 DEF Call
<1>2. ASSUME NEW p \in Request, FindExisting(p) PROVE TypeOK'
  BY <1>2 DEF FindExisting, ReplayAnswer
<1>3. ASSUME NEW p \in Request, ClaimKey(p) PROVE TypeOK'
  BY <1>3 DEF ClaimKey
<1>4. ASSUME NEW p \in Request, NEW a \in Account, LockRow(p, a) PROVE TypeOK'
  BY <1>4 DEF LockRow
<1>5. ASSUME NEW p \in Request, WriteEntries(p) PROVE TypeOK'
  BY <1>5 DEF WriteEntries
<1>6. ASSUME NEW p \in Request, NEW a \in Account, VerifyBalance(p, a) PROVE TypeOK'
  BY <1>6 DEF VerifyBalance
<1>7. ASSUME NEW p \in Request, Commit(p) PROVE TypeOK'
  <2>1. call[p] \in Input
    BY <1>7 DEF Commit, ProtocolInv, RequestInv
  <2>2. posted' \in [Key -> Input \cup {NoPosting}]
    BY <1>7, <2>1 DEF Commit
  <2>3. balance' \in [Account -> Int]
    <3> SUFFICES ASSUME NEW a \in Account PROVE balance[a] + Delta(call[p], a) \in Int
      BY <1>7 DEF Commit
    <3> QED
      BY <2>1, DeltaIsInt
  <2> QED
    BY <1>7, <2>2, <2>3 DEF Commit
<1>8. ASSUME NEW p \in Request, RereadWinner(p) PROVE TypeOK'
  BY <1>8 DEF RereadWinner, ReplayAnswer
<1>9. ASSUME NEW p \in Request, Crash(p) PROVE TypeOK'
  BY <1>9 DEF Crash
<1>10. CASE UNCHANGED vars
  BY <1>10 DEF vars
<1> QED
  BY <1>1, <1>2, <1>3, <1>4, <1>5, <1>6, <1>7, <1>8, <1>9, <1>10 DEF Next, Step

-------------------------------------------------------------------------------

\* Ending p's transaction keeps the ownership of everyone else's keys and rows.
LEMMA OthersKeepOwnership ==
  ASSUME TypeOK, NEW p \in Request, NEW q \in Request, q # p, EndTransaction(p)
  PROVE  /\ \A k \in Key : claimant[k] = q => claimant'[k] = q
         /\ \A a \in Account : locker[a] = q => locker'[a] = q
         /\ verified'[q] = verified[q]
BY LedgerAssumption DEF TypeOK, EndTransaction

\* After it ends, no key and no row is p's, and it has verified nothing.
LEMMA TransactionEnds ==
  ASSUME TypeOK, NEW p \in Request, EndTransaction(p)
  PROVE  /\ \A k \in Key : claimant'[k] # p /\ (claimant[k] = Nobody => claimant'[k] = Nobody)
         /\ verified'[p] = {}
BY LedgerAssumption DEF TypeOK, EndTransaction

\* Two transactions in "verify" have no account in common.
LEMMA DisjointRows ==
  ASSUME ProtocolInv, NEW p \in Request, NEW q \in Request, p # q,
         pc[p] = "verify", pc[q] = "verify"
  PROVE  Touched(call[p]) \cap Touched(call[q]) = {}
BY DEF ProtocolInv, RequestInv, Touched

\* A request is not disturbed by a step that leaves its place, its input, what it
\* has verified, its key, its rows and the balances it depends on alone.
LEMMA Undisturbed ==
  ASSUME TypeOK, NEW q \in Request, RequestInv(q),
         pc'[q] = pc[q], call'[q] = call[q], verified'[q] = verified[q],
         \A k \in Key : posted[k] # NoPosting => posted'[k] # NoPosting,
         \A k \in Key : claimant[k] = q => claimant'[k] = q,
         \A a \in Account : locker[a] = q => locker'[a] = q,
         \A a \in verified[q] : balance'[a] = balance[a]
  PROVE  RequestInv(q)'
<1>1. CASE pc[q] = "idle"
  BY <1>1 DEF RequestInv
<1>2. CASE pc[q] # "idle"
  <2>1. call[q] \in Input /\ call[q].key \in Key
    BY <1>2, KeyOfInput DEF RequestInv
  <2>2. Touched(call[q]) \subseteq Account /\ Touched(call'[q]) = Touched(call[q])
    BY DEF Touched
  <2>3. Constrained(q)' = Constrained(q)
    BY DEF Constrained, Touched, NonNegative
  <2>4. \A a \in Account : Delta(call'[q], a) = Delta(call[q], a)
    BY DEF Delta
  <2>5. verified[q] \subseteq Account
    BY DEF TypeOK
  <2>6. Valid(call'[q]) = Valid(call[q])
    OBVIOUS
  <2> QED
    BY <1>2, <2>1, <2>2, <2>3, <2>4, <2>5, <2>6 DEF RequestInv
<1> QED
  BY <1>1, <1>2

\* Each step keeps the discipline of the request that takes it, by what its guard
\* established, and disturbs no other: the entries it commits are on rows it holds.
LEMMA ProtocolStep == TypeOK /\ ProtocolInv /\ [Next]_vars => ProtocolInv'
<1> SUFFICES ASSUME TypeOK, ProtocolInv, [Next]_vars PROVE ProtocolInv'
  OBVIOUS
<1> USE LedgerAssumption
<1>1. ASSUME NEW p \in Request, NEW input \in Input, Call(p, input) PROVE ProtocolInv'
  <2>1. RequestInv(p)'
    BY <1>1 DEF Call, Return, Goto, TypeOK, ProtocolInv, RequestInv
  <2>2. ASSUME NEW q \in Request, q # p PROVE RequestInv(q)'
    BY <1>1, <2>2, Undisturbed DEF Call, Return, Goto, TypeOK, ProtocolInv
  <2> QED
    BY <1>1, <2>1, <2>2 DEF Call, ProtocolInv
<1>2. ASSUME NEW p \in Request, FindExisting(p) PROVE ProtocolInv'
  <2>1. RequestInv(p)'
    BY <1>2 DEF FindExisting, Return, Goto, TypeOK, ProtocolInv, RequestInv, Valid, Total
  <2>2. ASSUME NEW q \in Request, q # p PROVE RequestInv(q)'
    BY <1>2, <2>2, Undisturbed DEF FindExisting, Return, Goto, TypeOK, ProtocolInv
  <2> QED
    BY <1>2, <2>1, <2>2 DEF FindExisting, ProtocolInv
<1>3. ASSUME NEW p \in Request, ClaimKey(p) PROVE ProtocolInv'
  <2>1. RequestInv(p)'
    BY <1>3, KeyOfInput DEF ClaimKey, Goto, TypeOK, ProtocolInv, RequestInv
  <2>2. ASSUME NEW q \in Request, q # p PROVE RequestInv(q)'
    <3>1. pc'[q] = pc[q] /\ \A k \in Key : claimant[k] = q => claimant'[k] = q
      BY <1>3, <2>2 DEF ClaimKey, Goto, TypeOK
    <3> QED
      BY <1>3, <3>1, Undisturbed DEF ClaimKey, ProtocolInv
  <2> QED
    BY <1>3, <2>1, <2>2, KeyOfInput DEF ClaimKey, Goto, TypeOK, ProtocolInv, RequestInv
<1>4. ASSUME NEW p \in Request, NEW a \in Account, LockRow(p, a) PROVE ProtocolInv'
  <2>1. ASSUME NEW q \in Request PROVE RequestInv(q)'
    <3>1. \A b \in Account : locker[b] = q => locker'[b] = q
      BY <1>4 DEF LockRow, TypeOK
    <3> QED
      BY <1>4, <3>1, Undisturbed DEF LockRow, ProtocolInv
  <2> QED
    BY <1>4, <2>1 DEF LockRow, ProtocolInv
<1>5. ASSUME NEW p \in Request, WriteEntries(p) PROVE ProtocolInv'
  <2>1. RequestInv(p)'
    <3>1. CASE Touched(call[p]) \subseteq Existing
      BY <1>5, <3>1 DEF WriteEntries, Goto, TypeOK, ProtocolInv, RequestInv
    <3>2. CASE ~(Touched(call[p]) \subseteq Existing)
      BY <1>5, <3>2, TransactionEnds DEF WriteEntries, Return, TypeOK, RequestInv
    <3> QED
      BY <3>1, <3>2
  <2>2. ASSUME NEW q \in Request, q # p PROVE RequestInv(q)'
    <3>1. /\ pc'[q] = pc[q] /\ call'[q] = call[q] /\ verified'[q] = verified[q]
          /\ \A k \in Key : claimant[k] = q => claimant'[k] = q
          /\ \A a \in Account : locker[a] = q => locker'[a] = q
      BY <1>5, <2>2, OthersKeepOwnership DEF WriteEntries, Return, Goto, TypeOK
    <3> QED
      BY <1>5, <3>1, Undisturbed DEF WriteEntries, ProtocolInv
  <2> QED
    BY <1>5, <2>1, <2>2, TransactionEnds DEF WriteEntries, ProtocolInv
<1>6. ASSUME NEW p \in Request, NEW a \in Account, VerifyBalance(p, a) PROVE ProtocolInv'
  <2>1. RequestInv(p)'
    <3>1. CASE balance[a] + Delta(call[p], a) >= 0
      BY <1>6, <3>1 DEF VerifyBalance, TypeOK, ProtocolInv, RequestInv, Constrained
    <3>2. CASE ~(balance[a] + Delta(call[p], a) >= 0)
      BY <1>6, <3>2, TransactionEnds DEF VerifyBalance, Return, TypeOK, RequestInv
    <3> QED
      BY <3>1, <3>2
  <2>2. ASSUME NEW q \in Request, q # p PROVE RequestInv(q)'
    <3>1. /\ pc'[q] = pc[q] /\ call'[q] = call[q] /\ verified'[q] = verified[q]
          /\ \A k \in Key : claimant[k] = q => claimant'[k] = q
          /\ \A b \in Account : locker[b] = q => locker'[b] = q
      BY <1>6, <2>2, OthersKeepOwnership DEF VerifyBalance, Return, TypeOK
    <3> QED
      BY <1>6, <3>1, Undisturbed DEF VerifyBalance, ProtocolInv
  <2> QED
    BY <1>6, <2>1, <2>2, TransactionEnds DEF VerifyBalance, ProtocolInv
<1>7. ASSUME NEW p \in Request, Commit(p) PROVE ProtocolInv'
  <2>0. call[p] \in Input /\ call[p].key \in Key /\ call[p] # NoPosting
    BY <1>7, KeyOfInput DEF Commit, ProtocolInv, RequestInv
  <2>1. RequestInv(p)'
    BY <1>7, TransactionEnds DEF Commit, Return, TypeOK, RequestInv
  <2>2. ASSUME NEW q \in Request, q # p PROVE RequestInv(q)'
    <3>1. /\ pc'[q] = pc[q] /\ call'[q] = call[q] /\ verified'[q] = verified[q]
          /\ \A k \in Key : claimant[k] = q => claimant'[k] = q
          /\ \A a \in Account : locker[a] = q => locker'[a] = q
      BY <1>7, <2>2, OthersKeepOwnership DEF Commit, Return, TypeOK
    <3>2. \A k \in Key : posted[k] # NoPosting => posted'[k] # NoPosting
      BY <1>7, <2>0 DEF Commit, TypeOK
    <3>3. ASSUME NEW a \in verified[q] PROVE balance'[a] = balance[a]
      <4>1. pc[q] = "verify" /\ a \in Account /\ a \in Touched(call[q])
        BY <3>3 DEF ProtocolInv, RequestInv, Constrained, TypeOK
      <4>2. a \notin Touched(call[p])
        BY <1>7, <2>2, <4>1, DisjointRows DEF Commit
      <4> QED
        BY <1>7, <2>0, <4>1, <4>2, DeltaOutside DEF Commit, TypeOK
    <3> QED
      BY <3>1, <3>2, <3>3, Undisturbed DEF ProtocolInv
  <2>3. \A k \in Key : posted'[k] # NoPosting => claimant'[k] = Nobody
    <3> SUFFICES ASSUME NEW k \in Key, posted'[k] # NoPosting PROVE claimant'[k] = Nobody
      OBVIOUS
    <3>1. CASE k = call[p].key
      BY <1>7, <3>1 DEF Commit, EndTransaction, ProtocolInv, RequestInv, TypeOK
    <3>2. CASE k # call[p].key
      BY <1>7, <3>2, TransactionEnds DEF Commit, ProtocolInv, TypeOK
    <3> QED
      BY <3>1, <3>2
  <2> QED
    BY <2>1, <2>2, <2>3 DEF ProtocolInv
<1>8. ASSUME NEW p \in Request, RereadWinner(p) PROVE ProtocolInv'
  <2>1. RequestInv(p)'
    BY <1>8 DEF RereadWinner, Return, TypeOK, ProtocolInv, RequestInv
  <2>2. ASSUME NEW q \in Request, q # p PROVE RequestInv(q)'
    BY <1>8, <2>2, Undisturbed DEF RereadWinner, Return, TypeOK, ProtocolInv
  <2> QED
    BY <1>8, <2>1, <2>2 DEF RereadWinner, ProtocolInv
<1>9. ASSUME NEW p \in Request, Crash(p) PROVE ProtocolInv'
  <2>1. RequestInv(p)'
    BY <1>9, TransactionEnds DEF Crash, Return, TypeOK, RequestInv
  <2>2. ASSUME NEW q \in Request, q # p PROVE RequestInv(q)'
    <3>1. /\ pc'[q] = pc[q] /\ call'[q] = call[q] /\ verified'[q] = verified[q]
          /\ \A k \in Key : claimant[k] = q => claimant'[k] = q
          /\ \A a \in Account : locker[a] = q => locker'[a] = q
      BY <1>9, <2>2, OthersKeepOwnership DEF Crash, Return, TypeOK
    <3> QED
      BY <1>9, <3>1, Undisturbed DEF Crash, ProtocolInv
  <2> QED
    BY <1>9, <2>1, <2>2, TransactionEnds DEF Crash, ProtocolInv
<1>10. CASE UNCHANGED vars
  <2>1. ASSUME NEW q \in Request PROVE RequestInv(q)'
    BY <1>10, Undisturbed DEF vars, ProtocolInv
  <2> QED
    BY <1>10, <2>1 DEF vars, ProtocolInv
<1> QED
  BY <1>1, <1>2, <1>3, <1>4, <1>5, <1>6, <1>7, <1>8, <1>9, <1>10 DEF Next, Step

-------------------------------------------------------------------------------

LEMMA InitInv == Init => TypeOK /\ ProtocolInv
BY LedgerAssumption
   DEF Init, TypeOK, Place, Answer, ProtocolInv, RequestInv

\* TypeOK of the posting protocol, for every instance: all the variables of
\* LedgerService.post's state keep their types, together with the inductive
\* invariant that says which transaction owns which key and which rows.
THEOREM ProtocolInvariant == Spec => [](TypeOK /\ ProtocolInv)
<1>1. TypeOK /\ ProtocolInv /\ [Next]_vars => (TypeOK /\ ProtocolInv)'
  BY TypeStep, ProtocolStep
<1> QED
  BY InitInv, <1>1, PTL DEF Spec

THEOREM TypeCorrect == Spec => []TypeOK
BY ProtocolInvariant, PTL

\* Only a commit moves a balance, and it has verified every constrained account
\* it moves.
LEMMA NonNegativeStep ==
  TypeOK /\ ProtocolInv /\ NonNegativeBalances /\ [Next]_vars => NonNegativeBalances'
<1> SUFFICES ASSUME TypeOK, ProtocolInv, NonNegativeBalances, [Next]_vars,
                    NEW a \in NonNegative
             PROVE  balance'[a] >= 0
  BY DEF NonNegativeBalances, NonNegative
<1>0. a \in Account /\ balance[a] \in Int /\ balance[a] >= 0
  BY DEF NonNegative, NonNegativeBalances, TypeOK
<1>1. ASSUME NEW p \in Request, Commit(p) PROVE balance'[a] >= 0
  <2>1. balance'[a] = balance[a] + Delta(call[p], a)
    BY <1>0, <1>1 DEF Commit
  <2>2. CASE a \in Touched(call[p])
    BY <1>1, <2>1, <2>2 DEF Commit, Constrained, ProtocolInv, RequestInv
  <2>3. CASE a \notin Touched(call[p])
    <3>1. Delta(call[p], a) = 0
      BY <1>0, <1>1, <2>3, DeltaOutside DEF Commit, ProtocolInv, RequestInv
    <3> QED
      BY <1>0, <2>1, <3>1
  <2> QED
    BY <2>2, <2>3
<1>2. CASE UNCHANGED balance
  BY <1>0, <1>2
<1> QED
  BY <1>1, <1>2
  DEF Next, Step, Call, FindExisting, ClaimKey, LockRow, WriteEntries, VerifyBalance,
      RereadWinner, Crash, vars

\* NonNegativeBalances: however many postings race, crash and are retried, no
\* constrained account of the committed books is ever below zero.
THEOREM NeverOverdrawn == Spec => []NonNegativeBalances
<1>1. Init => NonNegativeBalances
  BY DEF Init, NonNegativeBalances, NonNegative
<1>2. TypeOK /\ ProtocolInv /\ NonNegativeBalances /\ [Next]_vars => NonNegativeBalances'
  BY NonNegativeStep
<1> QED
  BY ProtocolInvariant, <1>1, <1>2, PTL DEF Spec

-------------------------------------------------------------------------------

\* A commit is the one step the abstract ledger sees.
LEMMA CommitApplies ==
  ASSUME TypeOK, ProtocolInv, NEW p \in Request, Commit(p)
  PROVE  Abstract!Apply(call[p]) /\ call[p] \in Input
<1>1. call[p] \in Input /\ call[p].key \in Key /\ Valid(call[p])
  BY KeyOfInput DEF Commit, ProtocolInv, RequestInv
<1>2. posted[call[p].key] = NoPosting
  BY <1>1, LedgerAssumption DEF Commit, ProtocolInv, RequestInv
<1>3. \A a \in Touched(call[p]) \cap NonNegative : balance[a] + Delta(call[p], a) >= 0
  BY DEF Commit, Constrained, ProtocolInv, RequestInv
<1>4. Touched(call[p]) \subseteq Existing
  BY DEF Commit, ProtocolInv, RequestInv
<1> QED
  BY <1>1, <1>2, <1>3, <1>4 DEF Commit, Abstract!Apply

\* ImplementsAbstract: seen from the committed rows alone, every execution of
\* post() by any number of requests is one of atomic, at-most-once postings.
THEOREM Implementation == Spec => ImplementsAbstract
<1>1. Init => Abstract!Init
  BY DEF Init, Abstract!Init
<1>2. TypeOK /\ ProtocolInv /\ [Next]_vars => [Abstract!Next]_(Abstract!avars)
  <2> SUFFICES ASSUME TypeOK, ProtocolInv, [Next]_vars
               PROVE  Abstract!Next \/ UNCHANGED <<posted, balance>>
    BY DEF Abstract!avars
  <2>1. ASSUME NEW p \in Request, Commit(p) PROVE Abstract!Next
    BY <2>1, CommitApplies DEF Abstract!Next
  <2>2. CASE UNCHANGED <<posted, balance>>
    BY <2>2
  <2> QED
    BY <2>1, <2>2
    DEF Next, Step, Call, FindExisting, ClaimKey, LockRow, WriteEntries, VerifyBalance,
        RereadWinner, Crash, vars
<1> QED
  BY ProtocolInvariant, <1>1, <1>2, PTL DEF Spec, ImplementsAbstract, Abstract!Spec

-------------------------------------------------------------------------------

\* A committed row is never written again: the key it would take is claimed by
\* the writer, and a committed key is claimed by nobody.
LEMMA PostedIsFinal ==
  ASSUME TypeOK, ProtocolInv, [Next]_vars, NEW k \in Key, posted[k] # NoPosting
  PROVE  posted'[k] = posted[k]
<1>1. ASSUME NEW p \in Request, Commit(p) PROVE posted'[k] = posted[k]
  <2>1. claimant[call[p].key] = p
    BY <1>1 DEF Commit, ProtocolInv, RequestInv
  <2>2. call[p].key # k
    BY <2>1, LedgerAssumption DEF ProtocolInv
  <2> QED
    BY <1>1, <2>2 DEF Commit, TypeOK
<1>2. CASE UNCHANGED posted
  BY <1>2
<1> QED
  BY <1>1, <1>2
  DEF Next, Step, Call, FindExisting, ClaimKey, LockRow, WriteEntries, VerifyBalance,
      RereadWinner, Crash, vars

\* An answer stays true while the request makes no new call.
LEMMA TruthKept ==
  ASSUME TypeOK, ProtocolInv, [Next]_vars, NEW q \in Request, Truthful(q),
         pc'[q] = pc[q], call'[q] = call[q], answer'[q] = answer[q]
  PROVE  Truthful(q)'
<1> SUFFICES ASSUME pc'[q] = "idle", call'[q] # NoPosting PROVE Truthful(q)'
  BY DEF Truthful
<1>1. call[q] \in Input /\ call[q].key \in Key
  BY KeyOfInput DEF TypeOK
<1>2. posted[call[q].key] # NoPosting => posted'[call[q].key] = posted[call[q].key]
  BY <1>1, PostedIsFinal
<1> QED
  BY <1>1, <1>2 DEF Truthful, SamePosting

LEMMA TruthStep ==
  TypeOK /\ ProtocolInv /\ AnswersAreTrue /\ [Next]_vars => AnswersAreTrue'
<1> SUFFICES ASSUME TypeOK, ProtocolInv, [Next]_vars, \A p \in Request : Truthful(p),
                    NEW q \in Request
             PROVE  Truthful(q)'
  BY DEF AnswersAreTrue
<1>0. CASE pc'[q] = pc[q] /\ call'[q] = call[q] /\ answer'[q] = answer[q]
  BY <1>0, TruthKept
<1>1. ASSUME NEW input \in Input, Call(q, input) PROVE Truthful(q)'
  BY <1>1 DEF Call, Goto, Return, TypeOK, Truthful
<1>2. CASE FindExisting(q)
  BY <1>2 DEF FindExisting, ReplayAnswer, Goto, Return, TypeOK, Truthful, SamePosting
<1>3. CASE ClaimKey(q)
  BY <1>3 DEF ClaimKey, Goto, TypeOK, Truthful
<1>4. CASE WriteEntries(q)
  BY <1>4 DEF WriteEntries, Goto, Return, TypeOK, Truthful
<1>5. ASSUME NEW a \in Account, VerifyBalance(q, a) PROVE Truthful(q)'
  BY <1>5 DEF VerifyBalance, Return, TypeOK, Truthful
<1>6. CASE Commit(q)
  <2>1. call[q] \in Input /\ call[q].key \in Key /\ call[q] # NoPosting
    BY <1>6, KeyOfInput, LedgerAssumption DEF Commit, ProtocolInv, RequestInv
  <2>2. posted'[call'[q].key] = call[q] /\ call'[q] = call[q] /\ answer'[q] = "posted"
    BY <1>6, <2>1 DEF Commit, Return, TypeOK
  <2> QED
    BY <2>1, <2>2 DEF Truthful, SamePosting
<1>7. CASE RereadWinner(q)
  <2>1. posted[call[q].key] # NoPosting
    BY <1>7 DEF RereadWinner, ProtocolInv, RequestInv
  <2> QED
    BY <1>7, <2>1
    DEF RereadWinner, ReplayAnswer, Return, TypeOK, Truthful, SamePosting
<1>8. CASE Crash(q)
  BY <1>8 DEF Crash, Return, TypeOK, Truthful
<1>9. CASE UNCHANGED <<pc, call, answer>>
  BY <1>0, <1>9
<1>10. ASSUME NEW p \in Request, p # q,
              \/ \E input \in Input : Call(p, input)
              \/ Step(p)
              \/ Crash(p)
       PROVE  pc'[q] = pc[q] /\ call'[q] = call[q] /\ answer'[q] = answer[q]
  BY <1>10 DEF Step, Call, FindExisting, ClaimKey, LockRow, WriteEntries, VerifyBalance,
               Commit, RereadWinner, Crash, Goto, Return, TypeOK
<1>11. ASSUME NEW a \in Account, LockRow(q, a) PROVE UNCHANGED <<pc, call, answer>>
  BY <1>11 DEF LockRow
<1> QED
  BY <1>0, <1>1, <1>2, <1>3, <1>4, <1>5, <1>6, <1>7, <1>8, <1>9, <1>10, <1>11
  DEF Next, Step, vars

\* AnswersAreTrue: whatever a caller of post() is told, as the winner of a key
\* race, as its loser or on a retry, is true of the committed books, and the
\* loser of a race always finds the winner's row.
THEOREM HonestAnswers == Spec => []AnswersAreTrue
<1>1. Init => AnswersAreTrue
  BY DEF Init, AnswersAreTrue, Truthful
<1>2. TypeOK /\ ProtocolInv /\ AnswersAreTrue /\ [Next]_vars => AnswersAreTrue'
  BY TruthStep
<1> QED
  BY ProtocolInvariant, <1>1, <1>2, PTL DEF Spec

-------------------------------------------------------------------------------

\* The entries of a well-formed posting move both sides of the books alike: what
\* it adds to the credit balances it adds to the debit balances.
LEMMA SidesMoveAlike ==
  ASSUME NEW input \in Input, Valid(input), NEW d \in [Account -> Int],
         \A a \in Account : d[a] = Delta(input, a)
  PROVE  SumFunctionOnSet(d, CreditSide) = SumFunctionOnSet(d, Account \ CreditSide)
<1> DEFINE other == Account \ CreditSide
           debit == input.debit
           credit == input.credit
<1>1. /\ IsFiniteSet(CreditSide) /\ IsFiniteSet(other) /\ IsFiniteSet(Account)
      /\ CreditSide \cup other = Account /\ CreditSide \cap other = {}
  BY AccountAssumption, FS_Subset DEF CreditSide
<1>2. debit \in [Account -> Int] /\ credit \in [Account -> Int]
  BY LedgerAssumption DEF PostInput
<1>3. SumFunctionOnSet(debit, Account) = SumFunctionOnSet(credit, Account)
  BY <1>2 DEF Valid, Total, SumFunction
<1>4. \A a \in CreditSide : credit[a] = d[a] + debit[a]
  <2> SUFFICES ASSUME NEW a \in CreditSide PROVE credit[a] = d[a] + debit[a]
    OBVIOUS
  <2>1. a \in Account /\ d[a] = credit[a] - debit[a]
    BY DEF CreditSide, Delta
  <2> QED BY <1>2, <2>1
<1>5. \A a \in other : debit[a] = d[a] + credit[a]
  <2> SUFFICES ASSUME NEW a \in other PROVE debit[a] = d[a] + credit[a]
    OBVIOUS
  <2>1. a \in Account /\ d[a] = debit[a] - credit[a]
    BY DEF CreditSide, Delta
  <2> QED BY <1>2, <2>1
<1> HIDE DEF other, debit, credit
<1>6. /\ \A a \in CreditSide : d[a] \in Int /\ debit[a] \in Int /\ credit[a] \in Int
      /\ \A a \in other : d[a] \in Int /\ debit[a] \in Int /\ credit[a] \in Int
  BY <1>1, <1>2
<1>7. SumFunctionOnSet(credit, CreditSide)
        = SumFunctionOnSet(d, CreditSide) + SumFunctionOnSet(debit, CreditSide)
  BY <1>1, <1>4, <1>6, SumPlus
<1>8. SumFunctionOnSet(debit, other)
        = SumFunctionOnSet(d, other) + SumFunctionOnSet(credit, other)
  BY <1>1, <1>5, <1>6, SumPlus
<1>9. /\ SumFunctionOnSet(debit, Account)
           = SumFunctionOnSet(debit, CreditSide) + SumFunctionOnSet(debit, other)
      /\ SumFunctionOnSet(credit, Account)
           = SumFunctionOnSet(credit, CreditSide) + SumFunctionOnSet(credit, other)
  BY <1>1, <1>6, SumSplit
<1>10. /\ SumFunctionOnSet(d, CreditSide) \in Int /\ SumFunctionOnSet(d, other) \in Int
       /\ SumFunctionOnSet(debit, CreditSide) \in Int /\ SumFunctionOnSet(debit, other) \in Int
       /\ SumFunctionOnSet(credit, CreditSide) \in Int /\ SumFunctionOnSet(credit, other) \in Int
  BY <1>1, <1>6, SumIsInt
<1>11. SumFunctionOnSet(d, CreditSide) = SumFunctionOnSet(d, other)
  <2> DEFINE dC == SumFunctionOnSet(d, CreditSide)
             dO == SumFunctionOnSet(d, other)
             bC == SumFunctionOnSet(debit, CreditSide)
             bO == SumFunctionOnSet(debit, other)
             cC == SumFunctionOnSet(credit, CreditSide)
             cO == SumFunctionOnSet(credit, other)
  <2>1. bC + bO = cC + cO /\ cC = dC + bC /\ bO = dO + cO
    BY <1>3, <1>7, <1>8, <1>9
  <2>2. /\ dC \in Int /\ dO \in Int /\ bC \in Int /\ bO \in Int /\ cC \in Int /\ cO \in Int
    BY <1>10
  <2> HIDE DEF dC, dO, bC, bO, cC, cO
  <2>3. dC = dO
    BY <2>1, <2>2
  <2> QED BY <2>3 DEF dC, dO
<1> QED BY <1>11 DEF other

\* A commit adds one posting under a key that had none.
LEMMA CommitAdds ==
  ASSUME TypeOK, ProtocolInv, NEW p \in Request, Commit(p)
  PROVE  /\ call[p] \in Input /\ Valid(call[p])
         /\ call[p].key \in Key \ Committed
         /\ Committed' = Committed \cup {call[p].key}
         /\ posted'[call[p].key] = call[p]
         /\ \A k \in Committed : posted'[k] = posted[k]
<1>1. call[p] \in Input /\ call[p].key \in Key /\ Valid(call[p]) /\ call[p] # NoPosting
  BY KeyOfInput, LedgerAssumption DEF Commit, ProtocolInv, RequestInv
<1>2. posted[call[p].key] = NoPosting
  BY <1>1, LedgerAssumption DEF Commit, ProtocolInv, RequestInv
<1>3. /\ posted'[call[p].key] = call[p]
      /\ \A k \in Key : k # call[p].key => posted'[k] = posted[k]
  BY <1>1 DEF Commit, TypeOK
<1> QED BY <1>1, <1>2, <1>3 DEF Committed

\* Finitely many postings have been committed, so that they have a sum.
FinitelyMany == IsFiniteSet(Committed)

\* Only a commit changes the committed books.
LEMMA BooksKept ==
  ASSUME [Next]_vars
  PROVE  (\E p \in Request : Commit(p)) \/ (posted' = posted /\ balance' = balance)
BY DEF Next, Step, Call, FindExisting, ClaimKey, LockRow, WriteEntries, VerifyBalance,
       RereadWinner, Crash, vars

\* A commit keeps each balance the sum of its entries.
LEMMA BalanceFollows ==
  ASSUME TypeOK, ProtocolInv, FinitelyMany, NEW p \in Request, Commit(p), NEW a \in Account,
         balance[a] = SumFunctionOnSet([k \in Committed |-> Delta(posted[k], a)], Committed)
  PROVE  balance'[a] = SumFunctionOnSet([k \in Committed' |-> Delta(posted'[k], a)], Committed')
<1> DEFINE key == call[p].key
           more == Committed \cup {key}
           old == [k \in Committed |-> Delta(posted[k], a)]
           new == [k \in more |-> Delta(posted'[k], a)]
<1>1. /\ call[p] \in Input /\ key \notin Committed /\ Committed' = more
      /\ posted'[key] = call[p] /\ \A k \in Committed : posted'[k] = posted[k]
  BY CommitAdds
<1>2. IsFiniteSet(Committed)
  BY DEF FinitelyMany
<1>3. new[key] = Delta(call[p], a) /\ new[key] \in Int
  BY <1>1, DeltaIsInt
<1>4. \A k \in Committed : new[k] = old[k] /\ old[k] \in Int
  BY <1>1, DeltaIsInt DEF TypeOK, Committed
<1>5. balance'[a] = balance[a] + Delta(call[p], a)
  BY DEF Commit
<1>6. balance[a] \in Int
  BY DEF TypeOK
<1>7. SumFunctionOnSet(old, Committed) = balance[a]
  OBVIOUS
<1> HIDE DEF key, old, new
<1>8. \A k \in Committed \cup {key} : new[k] \in Int
  BY <1>3, <1>4
<1>9. SumFunctionOnSet(new, more) = new[key] + SumFunctionOnSet(new, Committed)
  BY <1>1, <1>2, <1>8, SumMore
<1>10. SumFunctionOnSet(new, Committed) = SumFunctionOnSet(old, Committed)
  BY <1>2, <1>4, SumSame
<1>11. balance'[a] = SumFunctionOnSet(new, more)
  BY <1>3, <1>5, <1>6, <1>7, <1>9, <1>10
<1> QED BY <1>1, <1>11 DEF new

\* A commit keeps the two sides of the books equal.
LEMMA SidesFollow ==
  ASSUME TypeOK, ProtocolInv, NEW p \in Request, Commit(p),
         SumFunctionOnSet(balance, CreditSide)
           = SumFunctionOnSet(balance, Account \ CreditSide)
  PROVE  SumFunctionOnSet(balance', CreditSide)
           = SumFunctionOnSet(balance', Account \ CreditSide)
<1> DEFINE other == Account \ CreditSide
           d == [a \in Account |-> Delta(call[p], a)]
<1>1. call[p] \in Input /\ Valid(call[p])
  BY CommitAdds
<1>2. IsFiniteSet(CreditSide) /\ IsFiniteSet(other) /\ CreditSide \subseteq Account
  BY AccountAssumption, FS_Subset DEF CreditSide
<1>3. d \in [Account -> Int]
  BY <1>1, DeltaIsInt
<1>4. \A a \in Account : /\ balance[a] \in Int /\ d[a] \in Int
                         /\ balance'[a] = balance[a] + d[a]
  BY <1>3 DEF Commit, TypeOK
<1>5. SumFunctionOnSet(d, CreditSide) = SumFunctionOnSet(d, other)
  BY <1>1, <1>3, SidesMoveAlike
<1> HIDE DEF d
<1>6. SumFunctionOnSet(balance', CreditSide)
        = SumFunctionOnSet(balance, CreditSide) + SumFunctionOnSet(d, CreditSide)
  BY <1>2, <1>4, SumPlus
<1>7. SumFunctionOnSet(balance', other)
        = SumFunctionOnSet(balance, other) + SumFunctionOnSet(d, other)
  BY <1>2, <1>4, SumPlus
<1> QED BY <1>5, <1>6, <1>7

LEMMA BooksStep ==
  TypeOK /\ ProtocolInv /\ FinitelyMany /\ BooksClose /\ [Next]_vars
    => (FinitelyMany /\ BooksClose)'
<1> SUFFICES ASSUME TypeOK, ProtocolInv, FinitelyMany, BooksClose, [Next]_vars
             PROVE  (FinitelyMany /\ BooksClose)'
  OBVIOUS
<1>1. ASSUME NEW p \in Request, Commit(p) PROVE (FinitelyMany /\ BooksClose)'
  <2>1. IsFiniteSet(Committed \cup {call[p].key}) /\ Committed' = Committed \cup {call[p].key}
    BY <1>1, CommitAdds, FS_AddElement DEF FinitelyMany
  <2>2. FinitelyMany'
    BY <2>1 DEF FinitelyMany
  <2>3. \A a \in Account : balance'[a]
          = SumFunctionOnSet([k \in Committed' |-> Delta(posted'[k], a)], Committed')
    BY <1>1, BalanceFollows DEF BooksClose
  <2>4. SumFunctionOnSet(balance', CreditSide)
          = SumFunctionOnSet(balance', Account \ CreditSide)
    BY <1>1, SidesFollow DEF BooksClose
  <2> QED BY <2>2, <2>3, <2>4 DEF BooksClose, CreditSide
<1>2. CASE posted' = posted /\ balance' = balance
  BY <1>2 DEF FinitelyMany, BooksClose, Committed
<1> QED BY <1>1, <1>2, BooksKept

\* BooksClose: after any number of postings, races, crashes and retries every
\* balance is the sum of the entries committed on its account, and the credit
\* balances together equal the debit balances.
THEOREM BooksAlwaysClose == Spec => []BooksClose
<1>1. Init => FinitelyMany /\ BooksClose
  <2> SUFFICES ASSUME Init PROVE FinitelyMany /\ BooksClose
    OBVIOUS
  <2>1. Committed = {} /\ FinitelyMany
    BY FS_EmptySet DEF Init, Committed, FinitelyMany
  <2>2. \A a \in Account : balance[a] = 0
    BY DEF Init
  <2>3. \A a \in Account :
          SumFunctionOnSet([k \in Committed |-> Delta(posted[k], a)], Committed) = 0
    BY <2>1, SumNothing
  <2>4. IsFiniteSet(CreditSide) /\ IsFiniteSet(Account \ CreditSide)
    BY AccountAssumption, FS_Subset DEF CreditSide
  <2>5. /\ SumFunctionOnSet(balance, CreditSide) = 0
        /\ SumFunctionOnSet(balance, Account \ CreditSide) = 0
    BY <2>2, <2>4, SumOfZeros DEF CreditSide
  <2> QED BY <2>1, <2>2, <2>3, <2>5 DEF BooksClose
<1>2. TypeOK /\ ProtocolInv /\ FinitelyMany /\ BooksClose /\ [Next]_vars
        => (FinitelyMany /\ BooksClose)'
  BY BooksStep
<1> QED BY ProtocolInvariant, <1>1, <1>2, PTL DEF Spec

===============================================================================
