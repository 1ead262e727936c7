---------------------------- MODULE PromoterProofs ----------------------------
(***************************************************************************)
(* The bank accounts, the account and the profile of a promoter, and the   *)
(* points of a campaign, for any number of users, accounts, codes,         *)
(* sessions, channels, submissions and concurrent requests: an inductive   *)
(* invariant of each, as MCWithdrawals composes them.                      *)
(***************************************************************************)
EXTENDS MCWithdrawals, Sums, SequenceTheorems, TLAPS

\* A function on the indices of a sequence is a sequence of the same length.
LEMMA MappedSeq ==
  ASSUME NEW S, NEW s \in Seq(S), NEW T, NEW f \in [DOMAIN s -> T]
  PROVE  f \in Seq(T) /\ Len(f) = Len(s) /\ DOMAIN f = 1 .. Len(s)
<1>1. DOMAIN s = 1 .. Len(s) /\ Len(s) \in Nat
  BY LenProperties
<1>2. f \in Seq(T)
  BY <1>1, SeqDef
<1>3. Len(f) \in Nat /\ DOMAIN f = 1 .. Len(f)
  BY <1>2, LenProperties
<1>4. 1 .. Len(f) = 1 .. Len(s)
  BY <1>1, <1>3
<1>5. Len(f) = Len(s)
  BY <1>1, <1>3, <1>4
<1> QED BY <1>2, <1>3, <1>5

\* One element of a sequence is replaced.
LEMMA SeqExcept ==
  ASSUME NEW S, NEW s \in Seq(S), NEW k \in 1 .. Len(s), NEW to \in S, NEW t, t = [s EXCEPT ![k] = to]
  PROVE  /\ t \in Seq(S) /\ Len(t) = Len(s) /\ t[k] = to
         /\ \A i \in 1 .. Len(s) : i # k => t[i] = s[i]
BY ExceptSeq

\* A set of numbers with a bound has a largest member.
LEMMA LargestIs ==
  ASSUME NEW S, S \subseteq Nat, S # {}, NEW n \in Nat, \A x \in S : x <= n
  PROVE  \E x \in S : \A y \in S : y <= x
<1> DEFINE T == {n - x : x \in S}
<1>1. T \subseteq Nat /\ T # {}
  <2>1. \A x \in S : x \in Nat /\ n - x \in Nat
    OBVIOUS
  <2> QED BY <2>1
<1>2. PICK t \in T : \A y \in T : t <= y
  <2> HIDE DEF T
  <2> QED BY <1>1, SmallestIs
<1>3. PICK x \in S : t = n - x
  BY <1>2
<1>4. ASSUME NEW y \in S PROVE y <= x
  <2>1. n - y \in T
    OBVIOUS
  <2>2. n - x <= n - y
    BY <1>2, <1>3, <2>1
  <2>3. x \in Nat /\ y \in Nat
    OBVIOUS
  <2> QED BY <2>2, <2>3
<1> QED BY <1>4

\* A set whose members are all the same has one at most.
LEMMA OneAtMost ==
  ASSUME NEW S, \A x, y \in S : x = y
  PROVE  Cardinality(S) <= 1 /\ Cardinality(S) \in Nat
<1>1. S = {} \/ \E x \in S : S = {x}
  OBVIOUS
<1>2. Cardinality({}) = 0 /\ \A x : Cardinality({x}) = 1
  BY FS_EmptySet, FS_Singleton
<1>3. Cardinality(S) \in {0, 1}
  BY <1>1, <1>2
<1> QED BY <1>3

-------------------------------------------------------------------------------
(* The bank accounts *)

\* The community modules' operators, as PayoutAccounts has them.
LEMMA BankOperators ==
  /\ \A S : B!IsFiniteSet(S) <=> IsFiniteSet(S)
  /\ \A S : B!Cardinality(S) = Cardinality(S)
  /\ \A S : B!Max(S) = CHOOSE x \in S : \A y \in S : x >= y
<1>1. \A S : B!IsFiniteSet(S) <=> IsFiniteSet(S) BY DEF B!IsFiniteSet, IsFiniteSet
<1>2. \A S : B!Cardinality(S) = Cardinality(S) BY DEF B!Cardinality, Cardinality
<1>3. \A S : B!Max(S) = CHOOSE x \in S : \A y \in S : x >= y BY DEF B!Max
<1> QED BY <1>1, <1>2, <1>3

\* The requests that are adding an account.
Adding == {r \in Worker : at[r] # "idle"}

\* What a request adds belongs to a promoter, and it has seen accounts of his only.
Asked == [user: User, number: Number, sees: SUBSET Nat, began: Nat]
InHand ==
  /\ adding \in [Worker -> Asked \cup {None}]
  /\ \A r \in Adding :
       /\ adding[r] \in Asked /\ adding[r].began <= Len(accounts)
       /\ adding[r].sees \subseteq B!Of(adding[r].user)

\* The newest account of a promoter is a default.
NewestIsDefault == \A i \in 1 .. Len(accounts) :
  (\A j \in 1 .. Len(accounts) : accounts[j].user = accounts[i].user => j <= i) => accounts[i].default

\* Without overlaps a request goes by what is still so.
OneAtATime == quiet =>
  /\ \A r, q \in Adding : r = q
  /\ \A r \in Adding : at[r] = "insert" => adding[r].sees = B!Of(adding[r].user)
  /\ \A r \in Adding : \A i \in 1 .. Len(accounts) :
       accounts[i].number = adding[r].number => accounts[i].user = adding[r].user
  /\ \A i, j \in 1 .. Len(accounts) :
       accounts[i].number = accounts[j].number => accounts[i].user = accounts[j].user
  /\ \A i, j \in 1 .. Len(accounts) :
       accounts[i].default /\ accounts[j].default /\ accounts[i].user = accounts[j].user => i = j

BankInv ==
  /\ accounts \in Seq(B!Account) /\ quiet \in BOOLEAN
  /\ at \in [Worker -> {"idle", "clear", "insert"}]
  /\ Len(accounts) + Cardinality(Adding) <= MaxRows
  /\ InHand /\ NewestIsDefault /\ OneAtATime
  /\ \A i \in 1 .. Len(accounts) : accounts[i].began < i

\* The rows, of a typed state.
LEMMA BankRows ==
  ASSUME BankInv
  PROVE  /\ Len(accounts) \in Nat /\ DOMAIN accounts = 1 .. Len(accounts)
         /\ \A i \in 1 .. Len(accounts) :
              /\ accounts[i] \in B!Account /\ accounts[i].user \in User /\ accounts[i].number \in Number
              /\ accounts[i].default \in BOOLEAN /\ accounts[i].began \in Nat
         /\ IsFiniteSet(Adding) /\ Cardinality(Adding) \in Nat /\ MaxRows \in Nat
         /\ Len(accounts) <= MaxRows
         /\ \A u : B!Of(u) = {i \in 1 .. Len(accounts) : accounts[i].user = u}
<1>1. Len(accounts) \in Nat /\ DOMAIN accounts = 1 .. Len(accounts)
  BY LenProperties DEF BankInv
<1>2. ASSUME NEW i \in 1 .. Len(accounts)
      PROVE  /\ accounts[i] \in B!Account /\ accounts[i].user \in User /\ accounts[i].number \in Number
             /\ accounts[i].default \in BOOLEAN /\ accounts[i].began \in Nat
  <2>1. accounts[i] \in B!Account BY ElementOfSeq DEF BankInv
  <2> QED BY <2>1 DEF B!Account
<1>3. IsFiniteSet(Adding) /\ Cardinality(Adding) \in Nat /\ MaxRows \in Nat
  <2>1. IsFiniteSet(Worker) /\ MaxRows \in Nat
    BY PromoterAssumption, BankOperators DEF B!PayoutAccountsAssumption
  <2> QED BY <2>1, FS_Subset, FS_CardinalityType DEF Adding
<1>4. Len(accounts) <= MaxRows
  BY <1>1, <1>3 DEF BankInv
<1>5. \A u : B!Of(u) = {i \in 1 .. Len(accounts) : accounts[i].user = u}
  BY <1>1 DEF B!Of
<1> QED BY <1>1, <1>2, <1>3, <1>4, <1>5

\* The newest account of a promoter is the one a withdrawal is paid to.
LEMMA NewestIsPaid ==
  ASSUME BankInv, NEW u \in User, B!Of(u) # {}
  PROVE  \E n \in B!Of(u) : B!PayoutAccount(u) = n /\ accounts[n].default /\ \A j \in B!Of(u) : j <= n
<1>1. B!Of(u) \subseteq Nat /\ \A x \in B!Of(u) : x <= Len(accounts) /\ x \in 1 .. Len(accounts)
  BY BankRows
<1>2. PICK n \in B!Of(u) : \A j \in B!Of(u) : j <= n
  BY <1>1, LargestIs, BankRows
<1>3. accounts[n].default
  <2>1. n \in 1 .. Len(accounts) /\ B!Of(u) = {i \in 1 .. Len(accounts) : accounts[i].user = u}
    BY <1>1, BankRows
  <2>2. \A j \in 1 .. Len(accounts) : accounts[j].user = accounts[n].user => j <= n
    BY <1>2, <2>1
  <2> QED BY <2>1, <2>2 DEF BankInv, NewestIsDefault
<1> DEFINE defaults == {i \in B!Of(u) : accounts[i].default}
<1>4. n \in defaults /\ defaults # {} /\ \A y \in defaults : y <= n
  BY <1>2, <1>3
<1>5. B!PayoutAccount(u) = B!Max(defaults)
  BY <1>4 DEF B!PayoutAccount
<1>6. \A y \in defaults : y \in Nat
  BY <1>1
<1> HIDE DEF defaults
<1>7. B!Max(defaults) = CHOOSE x \in defaults : \A y \in defaults : x >= y
  BY BankOperators
<1>8. \A x \in defaults : (\A y \in defaults : x >= y) => x = n
  BY <1>4, <1>6
<1>9. B!Max(defaults) = n
  BY <1>4, <1>6, <1>7, <1>8
<1> QED BY <1>2, <1>3, <1>5, <1>9

LEMMA BankKept == BankInv => B!TypeOK /\ B!PaidToOwner
<1> SUFFICES ASSUME BankInv PROVE B!TypeOK /\ B!PaidToOwner OBVIOUS
<1>1. B!TypeOK
  BY BankRows DEF BankInv, B!TypeOK
<1>2. ASSUME NEW u \in User, B!Of(u) # {}, NEW i \in B!Of(u)
      PROVE  accounts[i].began < B!PayoutAccount(u)
  <2>1. PICK n \in B!Of(u) : B!PayoutAccount(u) = n /\ \A j \in B!Of(u) : j <= n
    BY <1>2, NewestIsPaid
  <2>2. i \in Nat /\ n \in Nat /\ accounts[i].began \in Nat /\ accounts[i].began < i /\ i <= n
    BY <1>2, <2>1, BankRows DEF BankInv
  <2> QED BY <2>1, <2>2
<1>3. ASSUME NEW u \in User, B!Of(u) # {} PROVE \E i \in B!Of(u) : accounts[i].default
  BY <1>3, NewestIsPaid
<1>4. ASSUME quiet, NEW u \in User PROVE B!Cardinality({i \in B!Of(u) : accounts[i].default}) <= 1
  <2> DEFINE D == {i \in B!Of(u) : accounts[i].default}
  <2>1. \A i, j \in D : i = j
    BY <1>4, BankRows DEF BankInv, OneAtATime
  <2> HIDE DEF D
  <2>3. Cardinality(D) <= 1
    BY <2>1, OneAtMost
  <2> QED BY <2>3, BankOperators DEF D
<1>5. ASSUME quiet, NEW i \in DOMAIN accounts, NEW j \in DOMAIN accounts, accounts[i].number = accounts[j].number
      PROVE  accounts[i].user = accounts[j].user
  BY <1>5, BankRows DEF BankInv, OneAtATime
<1> QED BY <1>1, <1>2, <1>3, <1>4, <1>5 DEF B!PaidToOwner

LEMMA BankInitially == B!Init => BankInv
<1> SUFFICES ASSUME B!Init PROVE BankInv OBVIOUS
<1> USE DEF B!Init
<1>1. accounts \in Seq(B!Account) /\ Len(accounts) = 0
  BY EmptySeq
<1>2. 1 .. Len(accounts) = {}
  BY <1>1
<1>3. Adding = {} /\ Cardinality(Adding) = 0
  BY FS_EmptySet DEF Adding
<1>4. MaxRows \in Nat /\ quiet \in BOOLEAN
  BY PromoterAssumption DEF B!PayoutAccountsAssumption
<1> QED BY <1>1, <1>2, <1>3, <1>4 DEF BankInv, InHand, NewestIsDefault, OneAtATime

LEMMA CheckStep ==
  ASSUME BankInv, NEW r \in Worker, NEW u \in User, NEW n \in Number, B!Check(r, u, n)
  PROVE  BankInv'
<1> DEFINE ask == [user |-> u, number |-> n, sees |-> {}, began |-> Len(accounts)]
<1>1. /\ at[r] = "idle" /\ (quiet => \A q \in Worker : at[q] = "idle")
      /\ Len(accounts) + Cardinality(Adding) < MaxRows
      /\ \A i \in DOMAIN accounts : accounts[i].number = n => accounts[i].user = u
      /\ at' = [at EXCEPT ![r] = "clear"] /\ adding' = [adding EXCEPT ![r] = ask]
      /\ UNCHANGED <<accounts, quiet>>
  BY BankOperators DEF B!Check, Adding
<1>2. ask \in Asked /\ ask.user = u /\ ask.number = n /\ ask.sees = {} /\ ask.began = Len(accounts)
  BY BankRows DEF Asked
<1> HIDE DEF ask
<1>3. /\ at' \in [Worker -> {"idle", "clear", "insert"}] /\ adding' \in [Worker -> Asked \cup {None}]
      /\ at'[r] = "clear" /\ adding'[r] = ask
      /\ \A q \in Worker \ {r} : at'[q] = at[q] /\ adding'[q] = adding[q]
  BY <1>1, <1>2 DEF BankInv, InHand
<1>4. Adding' = Adding \cup {r} /\ r \notin Adding
  BY <1>1, <1>3 DEF Adding
<1>5. Len(accounts') + Cardinality(Adding') <= MaxRows
  <2>1. Cardinality(Adding') = Cardinality(Adding) + 1
    BY <1>4, FS_AddElement, BankRows
  <2> QED BY <1>1, <2>1, BankRows
<1>6. InHand'
  BY <1>1, <1>2, <1>3, <1>4, BankRows DEF BankInv, InHand, B!Of
<1>7. NewestIsDefault'
  BY <1>1 DEF BankInv, NewestIsDefault
<1>8. OneAtATime'
  <2> SUFFICES ASSUME quiet PROVE OneAtATime'
    BY <1>1 DEF OneAtATime
  <2>1. Adding' = {r}
    BY <1>1, <1>4 DEF Adding
  <2>2. DOMAIN accounts = 1 .. Len(accounts)
    BY BankRows
  <2> QED BY <1>1, <1>2, <1>3, <2>1, <2>2 DEF BankInv, OneAtATime
<1> QED BY <1>1, <1>3, <1>5, <1>6, <1>7, <1>8 DEF BankInv

LEMMA ClearStep ==
  ASSUME BankInv, NEW r \in Worker, B!Clear(r)
  PROVE  BankInv'
<1>1. PICK ask \in Asked : ask = adding[r] /\ ask.began <= Len(accounts) /\ r \in Adding
  BY DEF B!Clear, BankInv, InHand, Adding
<1> DEFINE saw == [ask EXCEPT !.sees = B!Of(ask.user)]
<1>2. /\ at' = [at EXCEPT ![r] = "insert"] /\ adding' = [adding EXCEPT ![r] = saw]
      /\ UNCHANGED <<accounts, quiet>>
  BY <1>1 DEF B!Clear
<1>3. /\ saw \in Asked /\ saw.user = ask.user /\ saw.number = ask.number /\ saw.began = ask.began
      /\ saw.sees = B!Of(ask.user)
  <2>1. B!Of(ask.user) \in SUBSET Nat BY BankRows
  <2> QED BY <2>1 DEF Asked
<1> HIDE DEF saw
<1>4. /\ at' \in [Worker -> {"idle", "clear", "insert"}] /\ adding' \in [Worker -> Asked \cup {None}]
      /\ at'[r] = "insert" /\ adding'[r] = saw
      /\ \A q \in Worker \ {r} : at'[q] = at[q] /\ adding'[q] = adding[q]
  BY <1>2, <1>3 DEF BankInv, InHand
<1>5. Adding' = Adding
  BY <1>1, <1>4 DEF Adding
<1>6. \A u : B!Of(u)' = B!Of(u)
  BY <1>2 DEF B!Of
<1>7. InHand'
  BY <1>1, <1>2, <1>3, <1>4, <1>5 DEF BankInv, InHand, B!Of
<1>8. NewestIsDefault'
  BY <1>2 DEF BankInv, NewestIsDefault
<1>9. OneAtATime'
  <2> SUFFICES ASSUME quiet PROVE OneAtATime'
    BY <1>2 DEF OneAtATime
  <2>1. \A q \in Adding : q = r
    BY <1>1 DEF BankInv, OneAtATime
  <2> QED BY <1>1, <1>2, <1>3, <1>4, <1>5, <2>1 DEF BankInv, OneAtATime, B!Of
<1> QED BY <1>2, <1>4, <1>5, <1>7, <1>8, <1>9 DEF BankInv

LEMMA InsertStep ==
  ASSUME BankInv, NEW r \in Worker, B!Insert(r)
  PROVE  BankInv'
<1>1. PICK ask \in Asked : ask = adding[r] /\ ask.began <= Len(accounts) /\ r \in Adding /\ at[r] = "insert"
                           /\ ask.sees \subseteq B!Of(ask.user)
  BY DEF B!Insert, BankInv, InHand, Adding
<1> DEFINE cleared == [i \in DOMAIN accounts |->
                         IF i \in ask.sees THEN [accounts[i] EXCEPT !.default = FALSE] ELSE accounts[i]]
           row == [user |-> ask.user, number |-> ask.number, default |-> TRUE, began |-> ask.began]
           n == Len(accounts) + 1
<1>2. /\ accounts' = Append(cleared, row)
      /\ at' = [at EXCEPT ![r] = "idle"] /\ adding' = [adding EXCEPT ![r] = None] /\ quiet' = quiet
  BY <1>1 DEF B!Insert
<1>3. /\ Len(accounts) \in Nat /\ Cardinality(Adding) \in Nat /\ Cardinality(Adding) # 0
      /\ Len(accounts) < MaxRows /\ MaxRows \in Nat /\ n \in Nat /\ n <= MaxRows
  <2>1. Cardinality(Adding) # 0
    BY <1>1, BankRows, FS_EmptySet
  <2> QED BY <2>1, BankRows DEF BankInv
<1>4. row \in B!Account /\ row.user = ask.user /\ row.number = ask.number /\ row.default /\ row.began = ask.began
  <2>1. ask.began \in 0 .. MaxRows BY <1>1, <1>3 DEF Asked
  <2> QED BY <2>1 DEF Asked, B!Account
<1>5. ASSUME NEW i \in 1 .. Len(accounts)
      PROVE  /\ cleared[i] \in B!Account /\ cleared[i].user = accounts[i].user
             /\ cleared[i].number = accounts[i].number /\ cleared[i].began = accounts[i].began
             /\ cleared[i].default = (accounts[i].default /\ i \notin ask.sees)
  <2>1. accounts[i] \in B!Account /\ i \in DOMAIN accounts BY BankRows
  <2> QED BY <2>1 DEF B!Account
<1>6. cleared \in Seq(B!Account) /\ Len(cleared) = Len(accounts)
  <2>1. cleared \in [DOMAIN accounts -> B!Account]
    BY <1>5, BankRows
  <2> HIDE DEF cleared
  <2> QED BY <2>1, MappedSeq DEF BankInv
<1> HIDE DEF cleared, row
<1>7. /\ accounts' \in Seq(B!Account) /\ Len(accounts') = n /\ accounts'[n] = row
      /\ \A i \in 1 .. Len(accounts) : accounts'[i] = cleared[i]
  BY <1>2, <1>4, <1>6, AppendProperties
<1>8. /\ \A i \in 1 .. Len(accounts') : i = n \/ i \in 1 .. Len(accounts)
      /\ \A i \in 1 .. Len(accounts) : i \in Nat /\ i < n /\ i \in 1 .. Len(accounts')
      /\ n \in 1 .. Len(accounts')
  BY <1>3, <1>7
<1> HIDE DEF n
<1>9. /\ at' \in [Worker -> {"idle", "clear", "insert"}] /\ adding' \in [Worker -> Asked \cup {None}]
      /\ at'[r] = "idle" /\ \A q \in Worker \ {r} : at'[q] = at[q] /\ adding'[q] = adding[q]
  BY <1>2 DEF BankInv, InHand
<1>10. Adding' = Adding \ {r}
  BY <1>9 DEF Adding
<1>11. Len(accounts') + Cardinality(Adding') <= MaxRows
  <2>1. Cardinality(Adding') = Cardinality(Adding) - 1
    BY <1>1, <1>10, FS_RemoveElement, BankRows
  <2> QED BY <1>3, <1>7, <2>1 DEF BankInv, n
<1>12. \A u : B!Of(u) \subseteq B!Of(u)'
  <2>1. DOMAIN accounts' = 1 .. Len(accounts')
    BY <1>7, LenProperties
  <2> QED BY <1>5, <1>7, <1>8, <2>1, BankRows DEF B!Of
<1>13. InHand'
  <2>1. Len(accounts) <= Len(accounts') BY <1>3, <1>7 DEF n
  <2>2. ASSUME NEW q \in Adding'
        PROVE  /\ adding'[q] \in Asked /\ adding'[q].began <= Len(accounts')
               /\ \E u : u = adding'[q].user /\ adding'[q].sees \subseteq B!Of(u)'
    <3>1. PICK other \in Asked : other = adding'[q] /\ other.began <= Len(accounts)
                                 /\ other.sees \subseteq B!Of(other.user)
      <4>1. q \in Adding /\ q \in Worker /\ q # r BY <1>10 DEF Adding
      <4>2. adding'[q] = adding[q] BY <1>9, <4>1
      <4>3. adding[q] \in Asked /\ adding[q].began <= Len(accounts) /\ adding[q].sees \subseteq B!Of(adding[q].user)
        BY <4>1 DEF BankInv, InHand
      <4> QED BY <4>2, <4>3
    <3>2. other.began <= Len(accounts')
      BY <1>3, <1>7, <2>1, <3>1 DEF Asked, n
    <3> QED BY <1>12, <3>1, <3>2
  <2> QED BY <1>9, <2>2 DEF InHand, B!Of
<1>14. NewestIsDefault'
  <2> SUFFICES ASSUME NEW i \in 1 .. Len(accounts'),
                      \A j \in 1 .. Len(accounts') : accounts'[j].user = accounts'[i].user => j <= i
               PROVE  accounts'[i].default
    BY DEF NewestIsDefault
  <2>1. CASE i = n
    BY <1>4, <1>7, <2>1
  <2>2. CASE i # n
    <3>1. i \in 1 .. Len(accounts) /\ accounts'[i] = cleared[i]
      BY <1>7, <1>8, <2>2
    <3>2. ~(n <= i)
      BY <1>3, <1>8, <3>1
    <3>3. accounts[i].user # ask.user
      BY <1>4, <1>5, <1>7, <1>8, <3>1, <3>2
    <3>4. i \notin ask.sees
      BY <1>1, <3>3 DEF B!Of
    <3>5. \A j \in 1 .. Len(accounts) : accounts[j].user = accounts[i].user => j <= i
      BY <1>5, <1>7, <1>8, <3>1
    <3>6. accounts[i].default
      BY <3>1, <3>5 DEF BankInv, NewestIsDefault
    <3> QED BY <1>5, <3>1, <3>4, <3>6
  <2> QED BY <2>1, <2>2
<1>15. OneAtATime'
  <2> SUFFICES ASSUME quiet PROVE OneAtATime'
    BY <1>2 DEF OneAtATime
  <2>1. Adding' = {}
    BY <1>1, <1>10 DEF BankInv, OneAtATime
  <2>2. /\ ask.sees = B!Of(ask.user)
        /\ \A i \in 1 .. Len(accounts) : accounts[i].number = ask.number => accounts[i].user = ask.user
    BY <1>1 DEF BankInv, OneAtATime
  <2>3. \A i \in 1 .. Len(accounts) : accounts'[i].user = ask.user => ~accounts'[i].default
    <3> SUFFICES ASSUME NEW i \in 1 .. Len(accounts), accounts'[i].user = ask.user
                 PROVE  ~accounts'[i].default
      OBVIOUS
    <3>1. accounts'[i] = cleared[i] /\ accounts[i].user = ask.user BY <1>5, <1>7
    <3>2. i \in ask.sees BY <2>2, <3>1, BankRows
    <3>3. cleared[i].default = FALSE BY <1>5, <3>2
    <3> QED BY <3>1, <3>3
  <2>4. ASSUME NEW i \in 1 .. Len(accounts'), NEW j \in 1 .. Len(accounts'),
               accounts'[i].number = accounts'[j].number
        PROVE  accounts'[i].user = accounts'[j].user
    BY <1>4, <1>5, <1>7, <1>8, <2>2, <2>4 DEF BankInv, OneAtATime
  <2>5. ASSUME NEW i \in 1 .. Len(accounts'), NEW j \in 1 .. Len(accounts'),
               accounts'[i].default, accounts'[j].default, accounts'[i].user = accounts'[j].user
        PROVE  i = j
    <3>1. CASE i = n /\ j = n BY <3>1
    <3>2. CASE i = n /\ j # n
      <4>1. j \in 1 .. Len(accounts) /\ accounts'[j].user = ask.user BY <1>4, <1>7, <1>8, <2>5, <3>2
      <4> QED BY <2>3, <2>5, <4>1
    <3>3. CASE i # n /\ j = n
      <4>1. i \in 1 .. Len(accounts) /\ accounts'[i].user = ask.user BY <1>4, <1>7, <1>8, <2>5, <3>3
      <4> QED BY <2>3, <2>5, <4>1
    <3>4. CASE i # n /\ j # n
      <4>1. /\ i \in 1 .. Len(accounts) /\ accounts'[i] = cleared[i]
            /\ j \in 1 .. Len(accounts) /\ accounts'[j] = cleared[j]
        BY <1>7, <1>8, <3>4
      <4>2. cleared[i].default /\ cleared[j].default /\ cleared[i].user = cleared[j].user
        BY <2>5, <4>1
      <4>3. accounts[i].default /\ accounts[j].default /\ accounts[i].user = accounts[j].user
        BY <1>5, <4>1, <4>2
      <4> QED BY <4>1, <4>3 DEF BankInv, OneAtATime
    <3> QED BY <3>1, <3>2, <3>3, <3>4
  <2> QED BY <2>1, <2>4, <2>5 DEF OneAtATime
<1>16. \A i \in 1 .. Len(accounts') : accounts'[i].began < i
  <2> SUFFICES ASSUME NEW i \in 1 .. Len(accounts') PROVE accounts'[i].began < i OBVIOUS
  <2>1. CASE i = n
    <3>1. ask.began \in Nat /\ ask.began <= Len(accounts) BY <1>1 DEF Asked
    <3> QED BY <1>3, <1>4, <1>7, <2>1, <3>1 DEF n
  <2>2. CASE i # n
    BY <1>5, <1>7, <1>8, <2>2 DEF BankInv
  <2> QED BY <2>1, <2>2
<1> QED BY <1>2, <1>7, <1>9, <1>11, <1>13, <1>14, <1>15, <1>16 DEF BankInv

LEMMA BankInductive == BankInv /\ [B!Next]_bankVars => BankInv'
<1> SUFFICES ASSUME BankInv, [B!Next]_bankVars PROVE BankInv' OBVIOUS
<1>1. CASE UNCHANGED bankVars
  BY <1>1 DEF bankVars, BankInv, InHand, NewestIsDefault, OneAtATime, Adding, B!Of
<1> QED BY <1>1, CheckStep, ClearStep, InsertStep DEF B!Next

-------------------------------------------------------------------------------
(* The account *)

\* What a request has read.
Holding == [purpose: A!Purpose \cup {None}, status: {None, "PENDING", "ACTIVE", "SUSPENDED"},
            code: Nat, sees: SUBSET Nat, by: 0 .. MaxPasswords, of: Nat]

\* What a request has read belongs to its place.
Placed == \A r \in Worker :
  /\ turn[r] \in {"issue", "commit", "verify", "miss", "spend"} => held[r].purpose \in A!Purpose
  /\ turn[r] \in {"miss", "spend"} => held[r].code \in 1 .. Len(codes)
  /\ turn[r] = "rotate" => held[r].of \in 1 .. Len(sessions)
  /\ turn[r] = "session" => held[r].of \in 0 .. Len(sessions)
  /\ turn[r] = "activate" => held[r].of = 0

OneRequest == A!Solo => \A r, q \in Worker : turn[r] # "idle" /\ turn[q] # "idle" => r = q

\* Each open code was issued by a request of its own: a request sees those it issued
\* before, whoever commits in between.
IssuedBy(f) ==
  /\ \A i, j \in 1 .. Len(codes) :
       codes[i].open /\ codes[j].open /\ codes[i].purpose = codes[j].purpose /\ f[i] = f[j] => i = j
  /\ \A r \in Worker : turn[r] = "commit" =>
       \A i \in A!Open(held[r].purpose) : f[i] = r => i \in held[r].sees
Issued ==
  /\ \E f \in [1 .. Len(codes) -> Worker] : IssuedBy(f)
  /\ A!Solo =>
       /\ \A i, j \in 1 .. Len(codes) :
            codes[i].open /\ codes[j].open /\ codes[i].purpose = codes[j].purpose => i = j
       /\ \A r \in Worker : turn[r] = "commit" => held[r].sees = A!Open(held[r].purpose)

\* The requests about to count a wrong guess.
Missing(i) == {r \in Worker : turn[r] = "miss" /\ held[r].code = i}
Tried == \A i \in 1 .. Len(codes) : codes[i].tries + Cardinality(Missing(i)) <= MaxTries - 1 + A!AtOnce

\* The requests that exchange a refresh token.
Exchanging(s) == {r \in Worker : turn[r] \in {"rotate", "session"} /\ held[r].of = s}
Exchanged ==
  /\ \A s \in 1 .. Len(sessions) :
       /\ sessions[s].live => sessions[s].successors = 0
       /\ sessions[s].successors + Cardinality(Exchanging(s)) <= A!AtOnce
  /\ \A r \in Worker : turn[r] = "session" /\ held[r].of # 0 => ~sessions[held[r].of].live

\* Without overlaps, a request goes by the password and the status there still are.
Current == A!Solo =>
  /\ \A s \in 1 .. Len(sessions) :
       sessions[s].live => sessions[s].by = password \/ \E r \in Worker : turn[r] = "wipe"
  /\ \A r \in Worker :
       /\ turn[r] \in {"rotate", "session", "activate"} => held[r].by = password
       /\ turn[r] \in {"verify", "miss", "spend", "confirm", "renew"} => held[r].status = owner
       /\ turn[r] = "activate" => owner = "PENDING"
  /\ barred <=> owner = "SUSPENDED"

AccountInv ==
  /\ A!TypeOK /\ held \in [Worker -> Holding]
  /\ Placed /\ OneRequest /\ Issued /\ Tried /\ Exchanged /\ Current

\* The community modules' operators, as Accounts has them, and how many requests there are.
LEMMA AccountOperators ==
  /\ \A S : A!IsFiniteSet(S) <=> IsFiniteSet(S)
  /\ \A S : A!Cardinality(S) = Cardinality(S)
  /\ IsFiniteSet(Worker)
  /\ A!AtOnce \in Nat /\ A!AtOnce = IF A!Solo THEN 1 ELSE Cardinality(Worker)
<1>1. \A S : A!IsFiniteSet(S) <=> IsFiniteSet(S) BY DEF A!IsFiniteSet, IsFiniteSet
<1>2. \A S : A!Cardinality(S) = Cardinality(S) BY DEF A!Cardinality, Cardinality
<1>3. IsFiniteSet(Worker)
  BY <1>1, PromoterAssumption DEF A!AccountsAssumption
<1>4. A!AtOnce \in Nat /\ A!AtOnce = IF A!Solo THEN 1 ELSE Cardinality(Worker)
  <2>1. Cardinality(Worker) \in Nat BY <1>3, FS_CardinalityType
  <2> QED BY <1>2, <2>1 DEF A!AtOnce
<1> QED BY <1>1, <1>2, <1>3, <1>4

\* The requests at some place are no more than may be under way at once.
LEMMA AtOnceAtMost ==
  ASSUME NEW S \in SUBSET Worker, A!Solo => \A x, y \in S : x = y
  PROVE  IsFiniteSet(S) /\ Cardinality(S) \in Nat /\ Cardinality(S) <= A!AtOnce
<1>1. IsFiniteSet(S) /\ Cardinality(S) \in Nat /\ Cardinality(S) <= Cardinality(Worker)
  BY AccountOperators, FS_Subset, FS_CardinalityType
<1>2. A!Solo => Cardinality(S) <= 1
  BY OneAtMost
<1> QED BY <1>1, <1>2, AccountOperators

\* The rows, of a typed state.
LEMMA AccountRows ==
  ASSUME A!TypeOK
  PROVE  /\ Len(codes) \in Nat /\ DOMAIN codes = 1 .. Len(codes)
         /\ \A i \in 1 .. Len(codes) :
              /\ codes[i] \in A!Code /\ codes[i].purpose \in A!Purpose /\ codes[i].tries \in Nat
              /\ codes[i].open \in BOOLEAN /\ codes[i].expired \in BOOLEAN
         /\ \A p : A!Open(p) = {i \in 1 .. Len(codes) : codes[i].purpose = p /\ codes[i].open}
         /\ Len(sessions) \in Nat /\ DOMAIN sessions = 1 .. Len(sessions)
         /\ \A s \in 1 .. Len(sessions) :
              /\ sessions[s] \in A!Session /\ sessions[s].live \in BOOLEAN
              /\ sessions[s].by \in 0 .. MaxPasswords /\ sessions[s].successors \in Nat
<1>1. /\ Len(codes) \in Nat /\ DOMAIN codes = 1 .. Len(codes)
      /\ Len(sessions) \in Nat /\ DOMAIN sessions = 1 .. Len(sessions)
  BY LenProperties DEF A!TypeOK
<1>2. ASSUME NEW i \in 1 .. Len(codes)
      PROVE  /\ codes[i] \in A!Code /\ codes[i].purpose \in A!Purpose /\ codes[i].tries \in Nat
             /\ codes[i].open \in BOOLEAN /\ codes[i].expired \in BOOLEAN
  <2>1. codes[i] \in A!Code BY ElementOfSeq DEF A!TypeOK
  <2> QED BY <2>1 DEF A!Code
<1>3. ASSUME NEW s \in 1 .. Len(sessions)
      PROVE  /\ sessions[s] \in A!Session /\ sessions[s].live \in BOOLEAN
             /\ sessions[s].by \in 0 .. MaxPasswords /\ sessions[s].successors \in Nat
  <2>1. sessions[s] \in A!Session BY ElementOfSeq DEF A!TypeOK
  <2> QED BY <2>1 DEF A!Session
<1>4. \A p : A!Open(p) = {i \in 1 .. Len(codes) : codes[i].purpose = p /\ codes[i].open}
  BY <1>1 DEF A!Open
<1> QED BY <1>1, <1>2, <1>3, <1>4

LEMMA AccountIsKept == AccountInv => A!TypeOK /\ A!UsedOnce /\ A!AccountKept
<1> SUFFICES ASSUME AccountInv PROVE A!UsedOnce /\ A!AccountKept
  BY DEF AccountInv
<1>a. A!TypeOK /\ OneRequest /\ Issued /\ Tried /\ Exchanged /\ Current
  BY DEF AccountInv
<1>1. ASSUME NEW p \in A!Purpose PROVE A!Cardinality(A!Open(p)) <= A!AtOnce
  <2>1. CASE A!Solo
    <3>1. \A i, j \in A!Open(p) : i = j
      BY <1>a, <2>1, AccountRows DEF Issued
    <3> QED BY <2>1, <3>1, OneAtMost, AccountOperators
  <2>2. CASE ~A!Solo
    <3>1. PICK f \in [1 .. Len(codes) -> Worker] : IssuedBy(f)
      BY <1>a DEF Issued
    <3> DEFINE g == [i \in A!Open(p) |-> f[i]]
    <3>2. g \in Injection(A!Open(p), Worker)
      <4>1. \A i \in A!Open(p) : i \in 1 .. Len(codes) /\ codes[i].open /\ codes[i].purpose = p
        BY <1>a, AccountRows
      <4>2. \A i, j \in A!Open(p) : f[i] = f[j] => i = j
        BY <3>1, <4>1 DEF IssuedBy
      <4> QED BY <4>1, <4>2 DEF Injection, IsInjective
    <3>3. Cardinality(A!Open(p)) <= Cardinality(Worker)
      <4> HIDE DEF g
      <4> QED BY <3>2, FS_Injection, AccountOperators
    <3> QED BY <2>2, <3>3, AccountOperators
  <2> QED BY <2>1, <2>2
<1>2. ASSUME NEW i \in 1 .. Len(codes) PROVE codes[i].tries <= MaxTries + A!AtOnce - 1
  <2>1. Cardinality(Missing(i)) \in Nat
    <3>1. Missing(i) \in SUBSET Worker BY DEF Missing
    <3> QED BY <3>1, FS_Subset, FS_CardinalityType, AccountOperators
  <2>2. codes[i].tries \in Nat /\ A!AtOnce \in Nat /\ MaxTries \in Nat
    BY <1>a, AccountRows, AccountOperators, PromoterAssumption DEF A!AccountsAssumption
  <2>3. codes[i].tries + Cardinality(Missing(i)) <= MaxTries - 1 + A!AtOnce
    BY <1>a DEF Tried
  <2> QED BY <2>1, <2>2, <2>3
<1>3. ASSUME NEW s \in 1 .. Len(sessions) PROVE sessions[s].successors <= A!AtOnce
  <2>1. Cardinality(Exchanging(s)) \in Nat
    <3>1. Exchanging(s) \in SUBSET Worker BY DEF Exchanging
    <3> QED BY <3>1, FS_Subset, FS_CardinalityType, AccountOperators
  <2>2. sessions[s].successors \in Nat /\ A!AtOnce \in Nat
    BY <1>a, AccountRows, AccountOperators
  <2>3. sessions[s].successors + Cardinality(Exchanging(s)) <= A!AtOnce
    BY <1>a DEF Exchanged
  <2> QED BY <2>1, <2>2, <2>3
<1>4. A!UsedOnce
  BY <1>a, <1>1, <1>2, <1>3, AccountRows DEF A!UsedOnce
<1>5. A!AccountKept
  BY <1>a, AccountRows DEF A!AccountKept, Current
<1> QED BY <1>4, <1>5

LEMMA AccountInitially == A!Init => AccountInv
<1> SUFFICES ASSUME A!Init PROVE AccountInv OBVIOUS
<1> USE DEF A!Init
<1>1. codes \in Seq(A!Code) /\ Len(codes) = 0 /\ sessions \in Seq(A!Session) /\ Len(sessions) = 0
  BY EmptySeq
<1>2. 1 .. Len(codes) = {} /\ 1 .. Len(sessions) = {}
  BY <1>1
<1>3. A!TypeOK
  <2>1. 0 \in 0 .. MaxPasswords
    BY PromoterAssumption DEF A!AccountsAssumption
  <2>2. turn \in [Worker -> A!Places]
    BY DEF A!Places
  <2> QED BY <1>1, <2>1, <2>2 DEF A!TypeOK
<1>4. held \in [Worker -> Holding]
  <2>1. A!Blank \in Holding
    BY PromoterAssumption DEF A!Blank, Holding, A!AccountsAssumption
  <2> QED BY <2>1
<1>5. Issued
  <2>1. [i \in 1 .. Len(codes) |-> CHOOSE r \in Worker : TRUE] \in [1 .. Len(codes) -> Worker]
    BY <1>2
  <2>2. \A f : IssuedBy(f)
    BY <1>2 DEF IssuedBy
  <2> QED BY <1>2, <2>1, <2>2 DEF Issued
<1>6. Placed /\ OneRequest /\ Tried /\ Exchanged
  BY <1>2 DEF Placed, OneRequest, Tried, Exchanged
<1>7. Current
  <2>1. None # "SUSPENDED"
    BY PromoterAssumption DEF A!AccountsAssumption
  <2> QED BY <1>2, <2>1 DEF Current
<1> QED BY <1>3, <1>4, <1>5, <1>6, <1>7 DEF AccountInv

\* Request r goes on, and no other does.
Goes(r) ==
  /\ turn' \in [Worker -> A!Places] /\ held' \in [Worker -> Holding]
  /\ \A q \in Worker \ {r} : turn'[q] = turn[q] /\ held'[q] = held[q]
  /\ turn[r] = "idle" /\ A!Solo => \A q \in Worker : turn[q] = "idle"
  /\ play' = play

\* It is then the only one, without overlaps.
LEMMA GoesAlone ==
  ASSUME AccountInv, NEW r \in Worker, Goes(r)
  PROVE  /\ A!Solo => \A q \in Worker \ {r} : turn[q] = "idle" /\ turn'[q] = "idle"
         /\ OneRequest' /\ A!Solo' = A!Solo /\ A!AtOnce' = A!AtOnce
<1>1. A!Solo' = A!Solo /\ A!AtOnce' = A!AtOnce
  BY DEF Goes, A!Solo, A!AtOnce
<1>2. A!Solo => \A q \in Worker \ {r} : turn[q] = "idle"
  BY DEF AccountInv, OneRequest, Goes
<1>3. OneRequest'
  BY <1>1, <1>2 DEF OneRequest, Goes
<1> QED BY <1>1, <1>2, <1>3 DEF Goes

\* Who goes on without touching the codes issues at most what it has seen, and misses at
\* most a code that was not tried too often.
LEMMA CodesStay ==
  ASSUME AccountInv, NEW r \in Worker, Goes(r), codes' = codes,
         turn'[r] = "commit" => held'[r].sees = A!Open(held'[r].purpose),
         turn'[r] = "miss" => codes[held'[r].code].tries < MaxTries
  PROVE  Issued' /\ Tried'
<1>1. \A p : A!Open(p)' = A!Open(p)
  BY DEF A!Open
<1>2. Issued'
  <2>1. PICK f \in [1 .. Len(codes) -> Worker] : IssuedBy(f)
    BY DEF AccountInv, Issued
  <2>2. \A q \in Worker : turn'[q] = "commit" =>
          \A i \in A!Open(held'[q].purpose) : f[i] = q => i \in held'[q].sees
    BY <2>1 DEF IssuedBy, Goes
  <2>3. IssuedBy(f)'
    BY <2>1, <2>2 DEF IssuedBy, A!Open
  <2>4. A!Solo => \A q \in Worker : turn'[q] = "commit" => held'[q].sees = A!Open(held'[q].purpose)
    BY DEF AccountInv, Issued, Goes
  <2> QED BY <2>3, <2>4, GoesAlone DEF AccountInv, Issued, A!Open
<1>3. ASSUME NEW i \in 1 .. Len(codes) PROVE codes[i].tries + Cardinality(Missing(i)') <= MaxTries - 1 + A!AtOnce
  <2>1. codes[i].tries \in Nat /\ MaxTries \in Nat /\ A!AtOnce \in Nat
    BY AccountRows, AccountOperators, PromoterAssumption DEF AccountInv, A!AccountsAssumption
  <2>2. Missing(i)' \in SUBSET Worker /\ Missing(i) \in SUBSET Worker
    BY DEF Missing
  <2>3. A!Solo => \A x, y \in Missing(i)' : x = y
    BY GoesAlone DEF OneRequest, Missing
  <2>4. Cardinality(Missing(i)') \in Nat /\ Cardinality(Missing(i)') <= A!AtOnce
    BY <2>2, <2>3, AtOnceAtMost
  <2>5. CASE r \in Missing(i)'
    <3>1. codes[i].tries < MaxTries
      BY <2>5 DEF Missing
    <3> QED BY <2>1, <2>4, <3>1
  <2>6. CASE r \notin Missing(i)'
    <3>1. Missing(i)' \in SUBSET Missing(i) /\ IsFiniteSet(Missing(i))
      BY <2>2, <2>6, FS_Subset, AccountOperators DEF Missing, Goes
    <3>2. Cardinality(Missing(i)') <= Cardinality(Missing(i)) /\ Cardinality(Missing(i)) \in Nat
      BY <3>1, FS_Subset, FS_CardinalityType
    <3>3. codes[i].tries + Cardinality(Missing(i)) <= MaxTries - 1 + A!AtOnce
      BY DEF AccountInv, Tried
    <3> QED BY <2>1, <2>4, <3>2, <3>3
  <2> QED BY <2>5, <2>6
<1>4. Tried'
  BY <1>3, GoesAlone DEF Tried
<1> QED BY <1>2, <1>4

\* Who goes on without touching the sessions exchanges a token that is good, or none.
LEMMA SessionsStay ==
  ASSUME AccountInv, NEW r \in Worker, Goes(r), sessions' = sessions,
         turn'[r] = "rotate" => held'[r].of \in 1 .. Len(sessions) /\ sessions[held'[r].of].live,
         turn'[r] = "session" => held'[r].of = 0
  PROVE  Exchanged'
<1>1. ASSUME NEW s \in 1 .. Len(sessions)
      PROVE  sessions[s].successors + Cardinality(Exchanging(s)') <= A!AtOnce
  <2>1. sessions[s].successors \in Nat /\ A!AtOnce \in Nat
    BY AccountRows, AccountOperators DEF AccountInv
  <2>2. Exchanging(s)' \in SUBSET Worker /\ Exchanging(s) \in SUBSET Worker
    BY DEF Exchanging
  <2>3. A!Solo => \A x, y \in Exchanging(s)' : x = y
    BY GoesAlone DEF OneRequest, Exchanging
  <2>4. Cardinality(Exchanging(s)') \in Nat /\ Cardinality(Exchanging(s)') <= A!AtOnce
    BY <2>2, <2>3, AtOnceAtMost
  <2>5. CASE r \in Exchanging(s)'
    <3>1. s # 0 /\ sessions[s].live
      BY <2>5 DEF Exchanging
    <3>2. sessions[s].successors = 0
      BY <3>1 DEF AccountInv, Exchanged
    <3> QED BY <2>1, <2>4, <3>2
  <2>6. CASE r \notin Exchanging(s)'
    <3>1. Exchanging(s)' \in SUBSET Exchanging(s) /\ IsFiniteSet(Exchanging(s))
      BY <2>2, <2>6, FS_Subset, AccountOperators DEF Exchanging, Goes
    <3>2. Cardinality(Exchanging(s)') <= Cardinality(Exchanging(s)) /\ Cardinality(Exchanging(s)) \in Nat
      BY <3>1, FS_Subset, FS_CardinalityType
    <3>3. sessions[s].successors + Cardinality(Exchanging(s)) <= A!AtOnce
      BY DEF AccountInv, Exchanged
    <3> QED BY <2>1, <2>4, <3>2, <3>3
  <2> QED BY <2>5, <2>6
<1>2. \A q \in Worker : turn'[q] = "session" /\ held'[q].of # 0 => ~sessions[held'[q].of].live
  BY DEF AccountInv, Exchanged, Goes
<1> QED BY <1>1, <1>2, GoesAlone DEF AccountInv, Exchanged

\* What has been read is good for the place it was read for.
Good(r) ==
  /\ turn[r] \in {"issue", "commit", "verify", "miss", "spend"} => held[r].purpose \in A!Purpose
  /\ turn[r] \in {"miss", "spend"} => held[r].code \in 1 .. Len(codes)
  /\ turn[r] \in {"session", "activate"} => held[r].of = 0
  /\ A!Solo =>
       /\ turn[r] \in {"rotate", "session", "activate"} => held[r].by = password
       /\ turn[r] \in {"verify", "miss", "spend", "confirm", "renew"} => held[r].status = owner
       /\ turn[r] = "activate" => owner = "PENDING"

\* A request that touches neither codes nor sessions.
LEMMA MoveStep ==
  ASSUME AccountInv, NEW r \in Worker, Goes(r), Good(r)', UNCHANGED <<codes, sessions>>,
         owner' \in {None, "PENDING", "ACTIVE", "SUSPENDED"},
         phone' \in {"none", "unverified", "verified"}, password' \in 0 .. MaxPasswords, barred' \in BOOLEAN,
         turn'[r] = "commit" => held'[r].sees = A!Open(held'[r].purpose),
         turn'[r] = "miss" => codes[held'[r].code].tries < MaxTries,
         turn'[r] = "rotate" => held'[r].of \in 1 .. Len(sessions) /\ sessions[held'[r].of].live,
         A!Solo => /\ turn'[r] = "wipe" \/ (password' = password /\ turn[r] # "wipe")
                   /\ barred' <=> owner' = "SUSPENDED"
  PROVE  AccountInv'
<1>1. A!TypeOK' /\ held' \in [Worker -> Holding]
  BY DEF AccountInv, A!TypeOK, Goes
<1>2. Placed'
  BY DEF AccountInv, Placed, Goes, Good
<1>3. Issued' /\ Tried'
  BY CodesStay
<1>4. Exchanged'
  BY SessionsStay DEF Good
<1>5. Current'
  <2> SUFFICES ASSUME A!Solo PROVE Current'
    BY GoesAlone DEF Current
  <2>1. \A q \in Worker \ {r} : turn[q] = "idle" /\ turn'[q] = "idle"
    BY GoesAlone
  <2>2. /\ turn'[r] \in {"rotate", "session", "activate"} => held'[r].by = password'
        /\ turn'[r] \in {"verify", "miss", "spend", "confirm", "renew"} => held'[r].status = owner'
        /\ turn'[r] = "activate" => owner' = "PENDING"
    BY GoesAlone DEF Good
  <2>3. ASSUME NEW s \in 1 .. Len(sessions), sessions[s].live
        PROVE  sessions[s].by = password' \/ turn'[r] = "wipe"
    BY <2>1, <2>3 DEF AccountInv, Current
  <2> QED BY <2>1, <2>2, <2>3 DEF Current
<1> QED BY <1>1, <1>2, <1>3, <1>4, <1>5, GoesAlone DEF AccountInv

\* A request goes to a place with what it has read.
LEMMA GotoGoes ==
  ASSUME AccountInv, NEW r \in Worker, NEW to \in A!Places, NEW what \in Holding, A!Goto(r, to, what),
         turn[r] = "idle" => A!Free(r), play' = play
  PROVE  Goes(r) /\ turn'[r] = to /\ held'[r] = what
<1>1. turn' = [turn EXCEPT ![r] = to] /\ held' = [held EXCEPT ![r] = what]
  BY DEF A!Goto
<1>2. turn \in [Worker -> A!Places] /\ held \in [Worker -> Holding]
  BY DEF AccountInv, A!TypeOK
<1>3. turn[r] = "idle" /\ A!Solo => \A q \in Worker : turn[q] = "idle"
  BY DEF A!Free
<1> QED BY <1>1, <1>2, <1>3 DEF Goes

\* Of what it holds in hand, nothing or one thing is known at first.
LEMMA Blanks ==
  /\ A!Blank \in Holding /\ A!Blank.of = 0
  /\ \A p \in A!Purpose : /\ [A!Blank EXCEPT !.purpose = p] \in Holding
                          /\ [A!Blank EXCEPT !.purpose = p].purpose = p
  /\ \A k \in 0 .. MaxPasswords : /\ [A!Blank EXCEPT !.by = k] \in Holding
                                  /\ [A!Blank EXCEPT !.by = k].by = k /\ [A!Blank EXCEPT !.by = k].of = 0
  /\ \A x \in {None, "PENDING", "ACTIVE", "SUSPENDED"} :
       /\ [A!Blank EXCEPT !.status = x] \in Holding /\ [A!Blank EXCEPT !.status = x].status = x
<1>1. A!Blank = [purpose |-> None, status |-> None, code |-> 0, sees |-> {}, by |-> 0, of |-> 0]
  BY DEF A!Blank
<1>2. 0 \in 0 .. MaxPasswords
  BY PromoterAssumption DEF A!AccountsAssumption
<1>3. A!Blank \in Holding /\ A!Blank.of = 0
  BY <1>1, <1>2 DEF Holding
<1> QED BY <1>3 DEF Holding

\* The account, of a typed state.
LEMMA AccountUser ==
  ASSUME AccountInv
  PROVE  /\ owner \in {None, "PENDING", "ACTIVE", "SUSPENDED"}
         /\ phone \in {"none", "unverified", "verified"}
         /\ password \in 0 .. MaxPasswords /\ barred \in BOOLEAN
         /\ \A r \in Worker : held[r] \in Holding /\ turn[r] \in A!Places
         /\ \A r \in Worker : /\ held[r].status \in {None, "PENDING", "ACTIVE", "SUSPENDED"}
                              /\ held[r].by \in 0 .. MaxPasswords
  BY DEF AccountInv, A!TypeOK, Holding

LEMMA RegisterStep ==
  ASSUME AccountInv, NEW r \in Worker, A!Register(r)
  PROVE  AccountInv'
<1> DEFINE what == [A!Blank EXCEPT !.purpose = "PHONE_VERIFY"]
<1>1. /\ A!Free(r) /\ owner = None /\ owner' = "PENDING" /\ phone' = "unverified"
      /\ A!Goto(r, "issue", what) /\ UNCHANGED <<password, barred, codes, sessions, play>>
  BY DEF A!Register
<1>2. what \in Holding /\ what.purpose \in A!Purpose
  BY Blanks DEF A!Purpose
<1>3. Goes(r) /\ turn'[r] = "issue" /\ held'[r] = what
  <2>1. "issue" \in A!Places BY DEF A!Places
  <2> HIDE DEF what
  <2> QED BY <1>1, <1>2, <2>1, GotoGoes
<1> HIDE DEF what
<1>4. Good(r)'
  BY <1>2, <1>3 DEF Good
<1>5. A!Solo => turn[r] # "wipe" /\ (barred' <=> owner' = "SUSPENDED")
  BY <1>1, PromoterAssumption DEF AccountInv, Current, A!Free, A!AccountsAssumption
<1> QED BY <1>1, <1>3, <1>4, <1>5, MoveStep, AccountUser

LEMMA LoginStep ==
  ASSUME AccountInv, NEW r \in Worker, A!Login(r)
  PROVE  AccountInv'
<1> DEFINE what == [A!Blank EXCEPT !.by = password]
<1>1. /\ A!Free(r) /\ A!Goto(r, "session", what)
      /\ UNCHANGED <<owner, phone, password, barred, codes, sessions, play>>
  BY DEF A!Login, A!user
<1>2. what \in Holding /\ what.by = password /\ what.of = 0
  BY Blanks, AccountUser
<1>3. Goes(r) /\ turn'[r] = "session" /\ held'[r] = what
  <2>1. "session" \in A!Places BY DEF A!Places
  <2> HIDE DEF what
  <2> QED BY <1>1, <1>2, <2>1, GotoGoes
<1> HIDE DEF what
<1>4. Good(r)'
  BY <1>1, <1>2, <1>3 DEF Good
<1>5. A!Solo => turn[r] # "wipe" /\ (barred' <=> owner' = "SUSPENDED")
  BY <1>1 DEF AccountInv, Current, A!Free
<1> QED BY <1>1, <1>3, <1>4, <1>5, MoveStep, AccountUser

LEMMA GoogleSignUpStep ==
  ASSUME AccountInv, NEW r \in Worker, A!GoogleSignUp(r)
  PROVE  AccountInv'
<1> DEFINE what == [A!Blank EXCEPT !.by = password]
<1>1. /\ A!Free(r) /\ owner = None /\ owner' = "ACTIVE" /\ A!Goto(r, "session", what)
      /\ UNCHANGED <<phone, password, barred, codes, sessions, play>>
  BY DEF A!GoogleSignUp, A!Done
<1>2. what \in Holding /\ what.by = password /\ what.of = 0
  BY Blanks, AccountUser
<1>3. Goes(r) /\ turn'[r] = "session" /\ held'[r] = what
  <2>1. "session" \in A!Places BY DEF A!Places
  <2> HIDE DEF what
  <2> QED BY <1>1, <1>2, <2>1, GotoGoes
<1> HIDE DEF what
<1>4. Good(r)'
  BY <1>1, <1>2, <1>3 DEF Good
<1>5. A!Solo => turn[r] # "wipe" /\ (barred' <=> owner' = "SUSPENDED")
  BY <1>1, PromoterAssumption DEF AccountInv, Current, A!Free, A!AccountsAssumption
<1> QED BY <1>1, <1>3, <1>4, <1>5, MoveStep, AccountUser

LEMMA GoogleSignInStep ==
  ASSUME AccountInv, NEW r \in Worker, A!GoogleSignIn(r)
  PROVE  AccountInv'
<1> DEFINE what == [A!Blank EXCEPT !.by = password]
           to == IF owner = "PENDING" THEN "activate" ELSE "session"
<1>1. /\ A!Free(r) /\ A!Goto(r, to, what)
      /\ UNCHANGED <<owner, phone, password, barred, codes, sessions, play>>
  BY DEF A!GoogleSignIn, A!user
<1>2. to \in {"activate", "session"} /\ (to = "activate" => owner = "PENDING")
      /\ what \in Holding /\ what.by = password /\ what.of = 0
  BY Blanks, AccountUser
<1>3. Goes(r) /\ turn'[r] = to /\ held'[r] = what
  <2>1. to \in A!Places BY <1>2 DEF A!Places
  <2> HIDE DEF what, to
  <2> QED BY <1>1, <1>2, <2>1, GotoGoes
<1> HIDE DEF what, to
<1>4. Good(r)'
  BY <1>1, <1>2, <1>3 DEF Good
<1>5. A!Solo => turn[r] # "wipe" /\ (barred' <=> owner' = "SUSPENDED")
  BY <1>1 DEF AccountInv, Current, A!Free
<1> QED BY <1>1, <1>2, <1>3, <1>4, <1>5, MoveStep, AccountUser

LEMMA ActivateStep ==
  ASSUME AccountInv, NEW r \in Worker, A!Activate(r)
  PROVE  AccountInv'
<1> DEFINE what == held[r]
<1>1. /\ turn[r] = "activate" /\ owner' = "ACTIVE" /\ A!Goto(r, "session", what)
      /\ UNCHANGED <<phone, password, barred, codes, sessions, play>>
  BY DEF A!Activate, A!Done
<1>2. what \in Holding /\ what.of = 0 /\ (A!Solo => what.by = password /\ owner = "PENDING" /\ ~barred)
  BY <1>1, AccountUser DEF AccountInv, Placed, Current
<1>3. Goes(r) /\ turn'[r] = "session" /\ held'[r] = what
  <2>1. "session" \in A!Places BY DEF A!Places
  <2> HIDE DEF what
  <2> QED BY <1>1, <1>2, <2>1, GotoGoes
<1> HIDE DEF what
<1>4. Good(r)'
  BY <1>1, <1>2, <1>3, GoesAlone DEF Good
<1>5. A!Solo => turn[r] # "wipe" /\ (barred' <=> owner' = "SUSPENDED")
  BY <1>1, <1>2
<1> QED BY <1>1, <1>3, <1>4, <1>5, MoveStep, AccountUser

LEMMA AskForCodeStep ==
  ASSUME AccountInv, NEW r \in Worker, NEW purpose \in A!Purpose, A!AskForCode(r, purpose)
  PROVE  AccountInv'
<1> DEFINE what == [A!Blank EXCEPT !.purpose = purpose]
<1>1. /\ A!Free(r) /\ A!Goto(r, "issue", what)
      /\ UNCHANGED <<owner, phone, password, barred, codes, sessions, play>>
  BY DEF A!AskForCode, A!user
<1>2. what \in Holding /\ what.purpose \in A!Purpose
  BY Blanks
<1>3. Goes(r) /\ turn'[r] = "issue" /\ held'[r] = what
  <2>1. "issue" \in A!Places BY DEF A!Places
  <2> HIDE DEF what
  <2> QED BY <1>1, <1>2, <2>1, GotoGoes
<1> HIDE DEF what
<1>4. Good(r)'
  BY <1>1, <1>2, <1>3 DEF Good
<1>5. A!Solo => turn[r] # "wipe" /\ (barred' <=> owner' = "SUSPENDED")
  BY <1>1 DEF AccountInv, Current, A!Free
<1> QED BY <1>1, <1>3, <1>4, <1>5, MoveStep, AccountUser

LEMMA PresentCodeStep ==
  ASSUME AccountInv, NEW r \in Worker, NEW purpose \in A!Purpose, A!PresentCode(r, purpose)
  PROVE  AccountInv'
<1> DEFINE what == [A!Blank EXCEPT !.purpose = purpose, !.status = owner]
<1>1. /\ A!Free(r) /\ A!Goto(r, "verify", what)
      /\ UNCHANGED <<owner, phone, password, barred, codes, sessions, play>>
  BY DEF A!PresentCode, A!user
<1>2. what \in Holding /\ what.purpose = purpose /\ what.status = owner
  <2> DEFINE half == [A!Blank EXCEPT !.purpose = purpose]
  <2>1. half \in Holding /\ half.purpose = purpose /\ what = [half EXCEPT !.status = owner]
    BY Blanks
  <2> HIDE DEF half
  <2>2. [half EXCEPT !.status = owner] \in Holding /\ [half EXCEPT !.status = owner].purpose = purpose
        /\ [half EXCEPT !.status = owner].status = owner
    BY <2>1, AccountUser DEF Holding
  <2> QED BY <2>1, <2>2
<1>3. Goes(r) /\ turn'[r] = "verify" /\ held'[r] = what
  <2>1. "verify" \in A!Places BY DEF A!Places
  <2> HIDE DEF what
  <2> QED BY <1>1, <1>2, <2>1, GotoGoes
<1> HIDE DEF what
<1>4. Good(r)'
  BY <1>1, <1>2, <1>3 DEF Good
<1>5. A!Solo => turn[r] # "wipe" /\ (barred' <=> owner' = "SUSPENDED")
  BY <1>1 DEF AccountInv, Current, A!Free
<1> QED BY <1>1, <1>3, <1>4, <1>5, MoveStep, AccountUser

LEMMA IssueStartStep ==
  ASSUME AccountInv, NEW r \in Worker, A!IssueStart(r)
  PROVE  AccountInv'
<1> DEFINE what == [held[r] EXCEPT !.sees = A!Open(held[r].purpose)]
<1>1. /\ turn[r] = "issue" /\ A!Goto(r, "commit", what)
      /\ UNCHANGED <<owner, phone, password, barred, codes, sessions, play>>
  BY DEF A!IssueStart, A!user
<1>2. what \in Holding /\ what.purpose \in A!Purpose /\ what.sees = A!Open(what.purpose)
  <2>1. held[r] \in Holding /\ held[r].purpose \in A!Purpose
    BY <1>1, AccountUser DEF AccountInv, Placed
  <2>2. A!Open(held[r].purpose) \in SUBSET Nat
    BY AccountRows DEF AccountInv
  <2> QED BY <2>1, <2>2 DEF Holding
<1>3. Goes(r) /\ turn'[r] = "commit" /\ held'[r] = what
  <2>1. "commit" \in A!Places BY DEF A!Places
  <2> HIDE DEF what
  <2> QED BY <1>1, <1>2, <2>1, GotoGoes
<1> HIDE DEF what
<1>4. Good(r)'
  BY <1>1, <1>2, <1>3 DEF Good
<1>5. A!Solo => turn[r] # "wipe" /\ (barred' <=> owner' = "SUSPENDED")
  BY <1>1 DEF AccountInv, Current, A!Free
<1>6. held'[r].sees = A!Open(held'[r].purpose)
  BY <1>2, <1>3
<1> QED BY <1>1, <1>3, <1>4, <1>5, <1>6, MoveStep, AccountUser

LEMMA ConfirmStep ==
  ASSUME AccountInv, NEW r \in Worker, A!Confirm(r)
  PROVE  AccountInv'
<1> DEFINE what == [A!Blank EXCEPT !.by = password]
<1>1. /\ turn[r] = "confirm" /\ owner' = A!Activated(held[r].status) /\ phone' = "verified"
      /\ A!Goto(r, "session", what) /\ UNCHANGED <<password, barred, codes, sessions, play>>
  BY DEF A!Confirm, A!Done
<1>2. what \in Holding /\ what.by = password /\ what.of = 0
  BY Blanks, AccountUser
<1>3. Goes(r) /\ turn'[r] = "session" /\ held'[r] = what
  <2>1. "session" \in A!Places BY DEF A!Places
  <2> HIDE DEF what
  <2> QED BY <1>1, <1>2, <2>1, GotoGoes
<1> HIDE DEF what
<1>4. Good(r)'
  BY <1>1, <1>2, <1>3 DEF Good
<1>5. A!Solo => turn[r] # "wipe" /\ (barred' <=> owner' = "SUSPENDED")
  BY <1>1 DEF AccountInv, Current, A!Activated
<1>6. owner' \in {None, "PENDING", "ACTIVE", "SUSPENDED"}
  BY <1>1, AccountUser DEF A!Activated
<1> QED BY <1>1, <1>3, <1>4, <1>5, <1>6, MoveStep, AccountUser

LEMMA ChangePasswordStep ==
  ASSUME AccountInv, NEW r \in Worker, A!ChangePassword(r)
  PROVE  AccountInv'
<1> DEFINE what == A!Blank
<1>1. /\ A!Free(r) /\ password < MaxPasswords /\ password' = password + 1 /\ A!Goto(r, "wipe", what)
      /\ UNCHANGED <<owner, phone, barred, codes, sessions, play>>
  BY DEF A!ChangePassword, A!Done
<1>2. what \in Holding
  BY Blanks
<1>3. Goes(r) /\ turn'[r] = "wipe" /\ held'[r] = what
  <2>1. "wipe" \in A!Places BY DEF A!Places
  <2> HIDE DEF what
  <2> QED BY <1>1, <1>2, <2>1, GotoGoes
<1> HIDE DEF what
<1>4. Good(r)'
  BY <1>1, <1>2, <1>3 DEF Good
<1>5. A!Solo => turn[r] # "wipe" /\ (barred' <=> owner' = "SUSPENDED")
  BY <1>1 DEF AccountInv, Current, A!Free
<1>6. password' \in 0 .. MaxPasswords
  BY <1>1, AccountUser, PromoterAssumption DEF A!AccountsAssumption
<1> QED BY <1>1, <1>3, <1>4, <1>5, <1>6, MoveStep, AccountUser

LEMMA RenewStep ==
  ASSUME AccountInv, NEW r \in Worker, A!Renew(r)
  PROVE  AccountInv'
<1> DEFINE what == A!Blank
<1>1. /\ turn[r] = "renew" /\ password < MaxPasswords /\ password' = password + 1 /\ phone' = "verified"
      /\ owner' = A!Activated(held[r].status) /\ A!Goto(r, "wipe", what)
      /\ UNCHANGED <<barred, codes, sessions, play>>
  BY DEF A!Renew, A!Done
<1>2. what \in Holding
  BY Blanks
<1>3. Goes(r) /\ turn'[r] = "wipe" /\ held'[r] = what
  <2>1. "wipe" \in A!Places BY DEF A!Places
  <2> HIDE DEF what
  <2> QED BY <1>1, <1>2, <2>1, GotoGoes
<1> HIDE DEF what
<1>4. Good(r)'
  BY <1>1, <1>2, <1>3 DEF Good
<1>5. A!Solo => turn[r] # "wipe" /\ (barred' <=> owner' = "SUSPENDED")
  BY <1>1 DEF AccountInv, Current, A!Activated
<1>6. /\ password' \in 0 .. MaxPasswords
      /\ owner' \in {None, "PENDING", "ACTIVE", "SUSPENDED"}
  BY <1>1, AccountUser, PromoterAssumption DEF A!AccountsAssumption, A!Activated
<1> QED BY <1>1, <1>3, <1>4, <1>5, <1>6, MoveStep, AccountUser

\* verify() finds the newest open code.
LEMMA VerifyStep ==
  ASSUME AccountInv, NEW r \in Worker, NEW right \in BOOLEAN, A!Verify(r, right)
  PROVE  AccountInv'
<1> DEFINE open == A!Open(held[r].purpose)
           i == CHOOSE x \in open : \A y \in open : y <= x
           found == [held[r] EXCEPT !.code = i]
           to == IF right THEN "spend" ELSE "miss"
<1>1. /\ turn[r] = "verify" /\ UNCHANGED <<owner, phone, password, barred, codes, sessions, play>>
      /\ \/ A!Goto(r, "idle", A!Blank)
         \/ open # {} /\ ~(codes[i].tries >= MaxTries) /\ A!Goto(r, to, found)
  BY DEF A!Verify, A!user, A!Done
<1>2. CASE A!Goto(r, "idle", A!Blank)
  <2>1. Goes(r) /\ turn'[r] = "idle"
    <3>1. "idle" \in A!Places BY DEF A!Places
    <3> QED BY <1>1, <1>2, <3>1, Blanks, GotoGoes
  <2>2. Good(r)'
    BY <2>1 DEF Good
  <2>3. A!Solo => turn[r] # "wipe" /\ (barred' <=> owner' = "SUSPENDED")
    BY <1>1 DEF AccountInv, Current
  <2> QED BY <1>1, <2>1, <2>2, <2>3, MoveStep, AccountUser
<1>3. CASE open # {} /\ ~(codes[i].tries >= MaxTries) /\ A!Goto(r, to, found)
  <2>1. i \in open
    <3>1. open \subseteq Nat /\ \A x \in open : x <= Len(codes)
      BY AccountRows DEF AccountInv
    <3>2. Len(codes) \in Nat
      BY AccountRows DEF AccountInv
    <3> HIDE DEF open
    <3>3. \E x \in open : \A y \in open : y <= x
      BY <1>3, <3>1, <3>2, LargestIs
    <3> QED BY <3>3
  <2> HIDE DEF i
  <2>2. i \in 1 .. Len(codes) /\ i \in Nat /\ codes[i].tries \in Nat
    BY <2>1, AccountRows DEF AccountInv
  <2>3. codes[i].tries < MaxTries
    BY <1>3, <2>2, PromoterAssumption DEF A!AccountsAssumption
  <2>4. held[r] \in Holding /\ held[r].purpose \in A!Purpose /\ (A!Solo => held[r].status = owner)
    BY <1>1, AccountUser DEF AccountInv, Placed, Current
  <2>5. found \in Holding /\ found.purpose \in A!Purpose /\ found.code = i /\ (A!Solo => found.status = owner)
    BY <2>2, <2>4 DEF Holding
  <2>6. to \in {"spend", "miss"}
    OBVIOUS
  <2> HIDE DEF found, to
  <2>7. Goes(r) /\ turn'[r] = to /\ held'[r] = found
    <3>1. to \in A!Places BY <2>6 DEF A!Places
    <3> QED BY <1>1, <1>3, <2>5, <3>1, GotoGoes
  <2>8. Good(r)'
    BY <1>1, <2>2, <2>5, <2>6, <2>7, GoesAlone DEF Good
  <2>9. A!Solo => turn[r] # "wipe" /\ (barred' <=> owner' = "SUSPENDED")
    BY <1>1 DEF AccountInv, Current
  <2> QED BY <1>1, <2>3, <2>5, <2>6, <2>7, <2>8, <2>9, MoveStep, AccountUser
<1> QED BY <1>1, <1>2, <1>3

\* rotate() reads a session, and goes on to exchange it or to revoke them all.
LEMMA ReadSessionStep ==
  ASSUME AccountInv, NEW r \in Worker, NEW s \in Nat, A!ReadSession(r, s)
  PROVE  AccountInv'
<1> DEFINE found == [A!Blank EXCEPT !.of = s, !.by = sessions[s].by]
<1>1. /\ A!Free(r) /\ UNCHANGED <<owner, phone, password, barred, codes, sessions, play>>
      /\ s \in 1 .. Len(sessions)
      /\ \/ sessions[s].live /\ A!Goto(r, "rotate", found)
         \/ A!Goto(r, "wipe", A!Blank)
  BY AccountRows DEF A!ReadSession, A!user, AccountInv
<1>2. A!Solo => turn[r] # "wipe" /\ (barred' <=> owner' = "SUSPENDED")
  BY <1>1 DEF AccountInv, Current, A!Free
<1>3. CASE A!Goto(r, "wipe", A!Blank)
  <2>1. Goes(r) /\ turn'[r] = "wipe"
    <3>1. "wipe" \in A!Places BY DEF A!Places
    <3> QED BY <1>1, <1>3, <3>1, Blanks, GotoGoes
  <2>2. Good(r)'
    BY <2>1 DEF Good
  <2> QED BY <1>1, <1>2, <2>1, <2>2, MoveStep, AccountUser
<1>4. CASE sessions[s].live /\ A!Goto(r, "rotate", found)
  <2>1. sessions[s].by \in 0 .. MaxPasswords
    BY <1>1, AccountRows DEF AccountInv
  <2>2. found \in Holding /\ found.of = s /\ found.by = sessions[s].by
    <3> DEFINE half == [A!Blank EXCEPT !.of = s]
    <3>1. half \in Holding /\ half.of = s /\ found = [half EXCEPT !.by = sessions[s].by]
      BY Blanks DEF Holding
    <3> HIDE DEF half
    <3>2. [half EXCEPT !.by = sessions[s].by] \in Holding /\ [half EXCEPT !.by = sessions[s].by].of = s
          /\ [half EXCEPT !.by = sessions[s].by].by = sessions[s].by
      BY <2>1, <3>1 DEF Holding
    <3> QED BY <3>1, <3>2
  <2> HIDE DEF found
  <2>3. Goes(r) /\ turn'[r] = "rotate" /\ held'[r] = found
    <3>1. "rotate" \in A!Places BY DEF A!Places
    <3> QED BY <1>1, <1>4, <2>2, <3>1, GotoGoes
  <2>4. A!Solo => sessions[s].by = password
    BY <1>1, <1>4 DEF AccountInv, Current, A!Free
  <2>5. Good(r)'
    BY <1>1, <2>2, <2>3, <2>4, GoesAlone DEF Good
  <2> QED BY <1>1, <1>2, <1>4, <2>2, <2>3, <2>5, MoveStep, AccountUser
<1> QED BY <1>1, <1>3, <1>4

\* A step leaves current what it was, when the account itself stays as it is.
LEMMA CurrentStays ==
  ASSUME AccountInv, NEW r \in Worker, Goes(r), UNCHANGED <<owner, password, barred>>,
         turn'[r] \notin {"rotate", "activate", "verify", "miss", "spend"},
         A!Solo =>
           /\ turn'[r] = "session" => held'[r].by = password
           /\ turn'[r] \in {"confirm", "renew"} => held'[r].status = owner
           /\ \A s \in 1 .. Len(sessions') : sessions'[s].live =>
                \/ sessions'[s].by = password
                \/ /\ turn[r] # "wipe" /\ s \in 1 .. Len(sessions)
                   /\ sessions[s].live /\ sessions'[s].by = sessions[s].by
  PROVE  Current'
<1> SUFFICES ASSUME A!Solo PROVE Current'
  BY GoesAlone DEF Current
<1>1. \A q \in Worker \ {r} : turn[q] = "idle" /\ turn'[q] = "idle"
  BY GoesAlone
<1>2. turn[r] # "wipe" => \A s \in 1 .. Len(sessions) : sessions[s].live => sessions[s].by = password
  BY <1>1 DEF AccountInv, Current
<1>3. \A s \in 1 .. Len(sessions') : sessions'[s].live => sessions'[s].by = password
  BY <1>2
<1>4. barred <=> owner = "SUSPENDED"
  BY DEF AccountInv, Current
<1> QED BY <1>1, <1>3, <1>4 DEF Current

\* A request that writes codes, and is then through with them.
LEMMA CodesStep ==
  ASSUME AccountInv, NEW r \in Worker, Goes(r), turn[r] # "wipe", turn'[r] \in {"idle", "confirm", "renew"},
         A!Solo /\ turn'[r] # "idle" => held'[r].status = owner,
         UNCHANGED <<owner, phone, password, barred, sessions>>,
         codes' \in Seq(A!Code), Len(codes) <= Len(codes'), Issued', Tried'
  PROVE  AccountInv'
<1>1. A!TypeOK' /\ held' \in [Worker -> Holding]
  BY DEF AccountInv, A!TypeOK, Goes
<1>2. Placed'
  <2>1. Len(codes) \in Nat /\ Len(codes') \in Nat
    BY LenProperties DEF AccountInv, A!TypeOK
  <2>2. \A i \in 1 .. Len(codes) : i \in 1 .. Len(codes')
    BY <2>1
  <2> QED BY <2>2 DEF AccountInv, Placed, Goes
<1>3. Exchanged'
  BY SessionsStay
<1>4. Current'
  BY CurrentStays
<1> QED BY <1>1, <1>2, <1>3, <1>4, GoesAlone DEF AccountInv

\* Codes that are only consumed or tried are still issued as they were.
LEMMA IssuedStays ==
  ASSUME AccountInv, NEW r \in Worker, Goes(r), turn'[r] # "commit",
         codes' \in Seq(A!Code), Len(codes') = Len(codes),
         \A i \in 1 .. Len(codes) : codes'[i].purpose = codes[i].purpose /\ (codes'[i].open => codes[i].open)
  PROVE  Issued'
<1>1. PICK f \in [1 .. Len(codes) -> Worker] : IssuedBy(f)
  BY DEF AccountInv, Issued
<1>2. DOMAIN codes' = 1 .. Len(codes) /\ DOMAIN codes = 1 .. Len(codes)
  BY LenProperties, AccountRows DEF AccountInv
<1>4. \A i, j \in 1 .. Len(codes) :
        codes'[i].open /\ codes'[j].open /\ codes'[i].purpose = codes'[j].purpose /\ f[i] = f[j] => i = j
  BY <1>1 DEF IssuedBy
<1>5. ASSUME NEW q \in Worker, turn'[q] = "commit"
      PROVE  \A i \in 1 .. Len(codes) :
               codes'[i].purpose = held'[q].purpose /\ codes'[i].open /\ f[i] = q => i \in held'[q].sees
  <2>1. turn[q] = "commit" /\ held'[q] = held[q]
    BY <1>5 DEF Goes
  <2>2. \A i \in A!Open(held[q].purpose) : f[i] = q => i \in held[q].sees
    BY <1>1, <2>1 DEF IssuedBy
  <2> QED BY <1>2, <2>1, <2>2 DEF A!Open
<1>6. IssuedBy(f)'
  BY <1>2, <1>4, <1>5 DEF IssuedBy, A!Open
<1>7. A!Solo => \A i, j \in 1 .. Len(codes) :
        codes'[i].open /\ codes'[j].open /\ codes'[i].purpose = codes'[j].purpose => i = j
  BY DEF AccountInv, Issued
<1>8. A!Solo => \A q \in Worker : turn'[q] # "commit"
  BY GoesAlone
<1> QED BY <1>1, <1>6, <1>7, <1>8, GoesAlone DEF Issued

\* issue(): the codes sent before are consumed, and a new one is added.
LEMMA IssueCommitStep ==
  ASSUME AccountInv, NEW r \in Worker, A!IssueCommit(r)
  PROVE  AccountInv'
<1>1. PICK mine \in Holding : mine = held[r] /\ mine.purpose \in A!Purpose
  BY AccountUser DEF A!IssueCommit, AccountInv, Placed
<1> DEFINE consumed == [i \in DOMAIN codes |->
                          IF i \in mine.sees THEN [codes[i] EXCEPT !.open = FALSE] ELSE codes[i]]
           new == [purpose |-> mine.purpose, tries |-> 0, open |-> TRUE, expired |-> FALSE]
<1>n. PICK n \in Nat : n = Len(codes) + 1
  BY AccountRows DEF AccountInv
<1>2. /\ turn[r] = "commit" /\ codes' = Append(consumed, new) /\ A!Goto(r, "idle", A!Blank)
      /\ UNCHANGED <<owner, phone, password, barred, sessions, play>>
  BY <1>1 DEF A!IssueCommit, A!Done, A!user
<1>3. Goes(r) /\ turn'[r] = "idle"
  <2>1. "idle" \in A!Places BY DEF A!Places
  <2> QED BY <1>2, <2>1, Blanks, GotoGoes
<1>4. new \in A!Code /\ new.purpose = mine.purpose /\ new.tries = 0 /\ new.open
  BY <1>1 DEF A!Code
<1>5. ASSUME NEW i \in 1 .. Len(codes)
      PROVE  /\ consumed[i] \in A!Code /\ consumed[i].purpose = codes[i].purpose
             /\ consumed[i].tries = codes[i].tries
             /\ consumed[i].open = (codes[i].open /\ i \notin mine.sees)
  <2>1. codes[i] \in A!Code /\ i \in DOMAIN codes
    BY AccountRows DEF AccountInv
  <2> QED BY <2>1 DEF A!Code
<1>6. consumed \in Seq(A!Code) /\ Len(consumed) = Len(codes) /\ Len(codes) \in Nat
  <2>1. consumed \in [DOMAIN codes -> A!Code]
    BY <1>5, AccountRows DEF AccountInv
  <2> HIDE DEF consumed
  <2> QED BY <2>1, MappedSeq, AccountRows DEF AccountInv, A!TypeOK
<1> HIDE DEF consumed, new
<1>7. /\ codes' \in Seq(A!Code) /\ Len(codes') = n /\ codes'[n] = new
      /\ \A i \in 1 .. Len(codes) : codes'[i] = consumed[i]
  BY <1>2, <1>4, <1>6, <1>n, AppendProperties
<1>8. /\ \A i \in 1 .. Len(codes') : i = n \/ i \in 1 .. Len(codes)
      /\ \A i \in 1 .. Len(codes) : i \in Nat /\ i < n /\ i # n /\ i \in 1 .. Len(codes')
      /\ n \in 1 .. Len(codes') /\ n \notin 1 .. Len(codes) /\ Len(codes) <= Len(codes')
  BY <1>6, <1>7, <1>n
<1>9. /\ \A i \in 1 .. Len(codes) : /\ codes'[i].purpose = codes[i].purpose /\ codes'[i].tries = codes[i].tries
                                    /\ codes'[i].open = (codes[i].open /\ i \notin mine.sees)
      /\ codes'[n].purpose = mine.purpose /\ codes'[n].tries = 0 /\ codes'[n].open
  BY <1>4, <1>5, <1>7
<1>10. DOMAIN codes' = 1 .. Len(codes') /\ DOMAIN codes = 1 .. Len(codes)
  BY <1>7, LenProperties, AccountRows DEF AccountInv
<1>11. Issued'
  <2>1. PICK f \in [1 .. Len(codes) -> Worker] : IssuedBy(f)
    BY DEF AccountInv, Issued
  <2>2. PICK g \in [1 .. Len(codes') -> Worker] : g[n] = r /\ \A i \in 1 .. Len(codes) : g[i] = f[i]
    <3> DEFINE f2 == [i \in 1 .. Len(codes') |-> IF i = n THEN r ELSE f[i]]
    <3>1. f2 \in [1 .. Len(codes') -> Worker] /\ f2[n] = r /\ \A i \in 1 .. Len(codes) : f2[i] = f[i]
      BY <1>8, <2>1
    <3> HIDE DEF f2
    <3> QED BY <3>1
  <2>3. \A i \in 1 .. Len(codes) : codes'[i].open /\ codes'[i].purpose = mine.purpose => f[i] # r
    <3>1. \A i \in A!Open(mine.purpose) : f[i] = r => i \in mine.sees
      BY <1>1, <1>2, <2>1 DEF IssuedBy
    <3> QED BY <1>9, <1>10, <3>1 DEF A!Open
  <2>4. ASSUME NEW i \in 1 .. Len(codes'), NEW j \in 1 .. Len(codes'), codes'[i].open, codes'[j].open,
               codes'[i].purpose = codes'[j].purpose, g[i] = g[j]
        PROVE  i = j
    <3>1. CASE i = n /\ j = n BY <3>1
    <3>2. CASE i = n /\ j # n
      <4>1. j \in 1 .. Len(codes) /\ g[j] = f[j] BY <1>8, <2>2, <3>2
      <4> QED BY <1>9, <2>2, <2>3, <2>4, <3>2, <4>1
    <3>3. CASE i # n /\ j = n
      <4>1. i \in 1 .. Len(codes) /\ g[i] = f[i] BY <1>8, <2>2, <3>3
      <4> QED BY <1>9, <2>2, <2>3, <2>4, <3>3, <4>1
    <3>4. CASE i # n /\ j # n
      <4>1. i \in 1 .. Len(codes) /\ j \in 1 .. Len(codes) /\ f[i] = f[j] BY <1>8, <2>2, <2>4, <3>4
      <4>2. codes[i].open /\ codes[j].open /\ codes[i].purpose = codes[j].purpose BY <1>9, <2>4, <4>1
      <4> QED BY <2>1, <4>1, <4>2 DEF IssuedBy
    <3> QED BY <3>1, <3>2, <3>3, <3>4
  <2>5. ASSUME NEW q \in Worker, turn'[q] = "commit", NEW i \in 1 .. Len(codes'),
               codes'[i].purpose = held'[q].purpose, codes'[i].open, g[i] = q
        PROVE  i \in held'[q].sees
    <3>1. q # r /\ turn[q] = "commit" /\ held'[q] = held[q]
      BY <1>3, <2>5 DEF Goes
    <3>2. i \in 1 .. Len(codes) /\ f[i] = q
      BY <1>8, <2>2, <2>5, <3>1
    <3>3. i \in A!Open(held[q].purpose)
      BY <1>9, <1>10, <2>5, <3>1, <3>2 DEF A!Open
    <3> QED BY <2>1, <3>1, <3>2, <3>3 DEF IssuedBy
  <2>6. IssuedBy(g)'
    BY <1>10, <2>4, <2>5 DEF IssuedBy, A!Open
  <2>7. ASSUME A!Solo PROVE \A q \in Worker : turn'[q] # "commit"
    BY <1>3, <2>7, GoesAlone
  <2>8. ASSUME A!Solo, NEW i \in 1 .. Len(codes'), NEW j \in 1 .. Len(codes'),
               codes'[i].open, codes'[j].open, codes'[i].purpose = codes'[j].purpose
        PROVE  i = j
    <3>1. mine.sees = A!Open(mine.purpose)
      BY <1>1, <1>2, <2>8 DEF AccountInv, Issued
    <3>2. \A k \in 1 .. Len(codes) : codes'[k].open => codes'[k].purpose # mine.purpose
      BY <1>9, <1>10, <3>1 DEF A!Open
    <3>3. CASE i = n \/ j = n
      BY <1>8, <1>9, <2>8, <3>2, <3>3
    <3>4. CASE i # n /\ j # n
      <4>1. i \in 1 .. Len(codes) /\ j \in 1 .. Len(codes) BY <1>8, <3>4
      <4>2. codes[i].open /\ codes[j].open /\ codes[i].purpose = codes[j].purpose BY <1>9, <2>8, <4>1
      <4> QED BY <2>8, <4>1, <4>2 DEF AccountInv, Issued
    <3> QED BY <3>3, <3>4
  <2> QED BY <1>3, <2>2, <2>6, <2>7, <2>8, GoesAlone DEF Issued
<1>12. Tried'
  <2>1. \A i \in 1 .. Len(codes) : Missing(i)' = Missing(i)
    BY <1>2, <1>3 DEF Missing, Goes
  <2>2. Missing(n)' = {}
    <3>1. \A q \in Worker : turn'[q] = "miss" => turn[q] = "miss" /\ held'[q] = held[q]
      BY <1>3 DEF Goes
    <3>2. \A q \in Worker : turn[q] = "miss" => held[q].code \in 1 .. Len(codes)
      BY DEF AccountInv, Placed
    <3> QED BY <1>8, <3>1, <3>2 DEF Missing
  <2>3. 0 <= MaxTries - 1 + A!AtOnce
    BY AccountOperators, PromoterAssumption DEF A!AccountsAssumption
  <2>4. ASSUME NEW i \in 1 .. Len(codes')
        PROVE  codes'[i].tries + Cardinality(Missing(i)') <= MaxTries - 1 + A!AtOnce
    <3>1. CASE i = n
      <4>1. Cardinality(Missing(n)') = 0 BY <2>2, FS_EmptySet
      <4> QED BY <1>9, <2>3, <3>1, <4>1
    <3>2. CASE i # n
      <4>1. i \in 1 .. Len(codes) BY <1>8, <3>2
      <4>2. Missing(i)' = Missing(i) /\ codes'[i].tries = codes[i].tries BY <1>9, <2>1, <4>1
      <4> QED BY <4>1, <4>2 DEF AccountInv, Tried
    <3> QED BY <3>1, <3>2
  <2> QED BY <1>3, <2>4, GoesAlone DEF Tried
<1> QED BY <1>2, <1>3, <1>7, <1>8, <1>11, <1>12, CodesStep

\* verify() counts a wrong guess.
LEMMA MissStep ==
  ASSUME AccountInv, NEW r \in Worker, A!Miss(r)
  PROVE  AccountInv'
<1>1. PICK k \in 1 .. Len(codes) : k = held[r].code /\ turn[r] = "miss"
  BY DEF A!Miss, AccountInv, Placed
<1>2. codes[k] \in A!Code /\ codes[k].tries \in Nat
  BY AccountRows DEF AccountInv
<1> DEFINE to == [codes[k] EXCEPT !.tries = @ + 1]
<1>3. /\ codes' = [codes EXCEPT ![k] = to] /\ A!Goto(r, "idle", A!Blank)
      /\ UNCHANGED <<owner, phone, password, barred, sessions, play>>
  BY <1>1 DEF A!Miss, A!Done, A!user
<1>4. to \in A!Code /\ to.purpose = codes[k].purpose /\ to.open = codes[k].open /\ to.tries = codes[k].tries + 1
  BY <1>2 DEF A!Code
<1> HIDE DEF to
<1>5. /\ codes' \in Seq(A!Code) /\ Len(codes') = Len(codes) /\ codes'[k] = to
      /\ \A i \in 1 .. Len(codes) : i # k => codes'[i] = codes[i]
  BY <1>3, <1>4, SeqExcept, AccountRows DEF AccountInv, A!TypeOK
<1>6. Goes(r) /\ turn'[r] = "idle"
  <2>1. "idle" \in A!Places BY DEF A!Places
  <2> QED BY <1>1, <1>3, <2>1, Blanks, GotoGoes
<1>7. Issued'
  BY <1>4, <1>5, <1>6, IssuedStays
<1>8. Tried'
  <2>1. ASSUME NEW i \in 1 .. Len(codes)
        PROVE  codes'[i].tries + Cardinality(Missing(i)') <= MaxTries - 1 + A!AtOnce
    <3>1. codes[i].tries + Cardinality(Missing(i)) <= MaxTries - 1 + A!AtOnce
      BY DEF AccountInv, Tried
    <3>2. CASE i = k
      <4>1. Missing(i)' = Missing(i) \ {r} /\ r \in Missing(i)
        BY <1>1, <1>6, <3>2 DEF Missing, Goes
      <4>2. Missing(i) \in SUBSET Worker
        BY DEF Missing
      <4>3. IsFiniteSet(Missing(i)) /\ Cardinality(Missing(i)) \in Nat
        BY <4>2, FS_Subset, FS_CardinalityType, AccountOperators
      <4>4. Cardinality(Missing(i)') = Cardinality(Missing(i)) - 1
        BY <4>1, <4>3, FS_RemoveElement
      <4>5. codes'[i].tries = codes[i].tries + 1 /\ codes[i].tries \in Nat
        BY <1>2, <1>4, <1>5, <3>2
      <4>6. codes'[i].tries + Cardinality(Missing(i)') = codes[i].tries + Cardinality(Missing(i))
        BY <4>3, <4>4, <4>5
      <4> QED BY <3>1, <4>6
    <3>3. CASE i # k
      <4>1. Missing(i)' = Missing(i)
        BY <1>1, <1>6, <3>3 DEF Missing, Goes
      <4> QED BY <1>5, <3>1, <3>3, <4>1
    <3> QED BY <3>2, <3>3
  <2> QED BY <1>5, <1>6, <2>1, GoesAlone DEF Tried
<1>9. Len(codes) <= Len(codes')
  BY <1>5, AccountRows DEF AccountInv
<1> QED BY <1>1, <1>3, <1>5, <1>6, <1>7, <1>8, <1>9, CodesStep

\* verify() consumes the code.
LEMMA SpendStep ==
  ASSUME AccountInv, NEW r \in Worker, A!Spend(r)
  PROVE  AccountInv'
<1>1. PICK k \in 1 .. Len(codes) : k = held[r].code /\ turn[r] = "spend"
  BY DEF A!Spend, AccountInv, Placed
<1>2. codes[k] \in A!Code
  BY AccountRows DEF AccountInv
<1> DEFINE to == [codes[k] EXCEPT !.open = FALSE]
           place == IF held[r].purpose = "PHONE_VERIFY" THEN "confirm" ELSE "renew"
           what == [A!Blank EXCEPT !.status = held[r].status]
<1>3. /\ codes' = [codes EXCEPT ![k] = to] /\ A!Goto(r, place, what)
      /\ UNCHANGED <<owner, phone, password, barred, sessions, play>>
  BY <1>1 DEF A!Spend, A!user
<1>4. to \in A!Code /\ to.purpose = codes[k].purpose /\ ~to.open /\ to.tries = codes[k].tries
  BY <1>2 DEF A!Code
<1>5. what \in Holding /\ what.status = held[r].status /\ place \in {"confirm", "renew"}
  BY AccountUser, Blanks
<1> HIDE DEF to, what, place
<1>6. /\ codes' \in Seq(A!Code) /\ Len(codes') = Len(codes) /\ codes'[k] = to
      /\ \A i \in 1 .. Len(codes) : i # k => codes'[i] = codes[i]
  BY <1>3, <1>4, SeqExcept, AccountRows DEF AccountInv, A!TypeOK
<1>7. Goes(r) /\ turn'[r] = place /\ held'[r] = what
  <2>1. place \in A!Places BY <1>5 DEF A!Places
  <2> QED BY <1>1, <1>3, <1>5, <2>1, GotoGoes
<1>8. Issued'
  BY <1>4, <1>5, <1>6, <1>7, IssuedStays
<1>9. Tried'
  <2>1. \A i \in 1 .. Len(codes) : Missing(i)' = Missing(i)
    BY <1>1, <1>5, <1>7 DEF Missing, Goes
  <2>2. \A i \in 1 .. Len(codes) : codes'[i].tries = codes[i].tries
    BY <1>4, <1>6
  <2> QED BY <1>6, <1>7, <2>1, <2>2, GoesAlone DEF AccountInv, Tried
<1>10. Len(codes) <= Len(codes')
  BY <1>6, AccountRows DEF AccountInv
<1>11. A!Solo => held'[r].status = owner
  BY <1>1, <1>5, <1>7 DEF AccountInv, Current
<1> QED BY <1>1, <1>3, <1>5, <1>6, <1>7, <1>8, <1>9, <1>10, <1>11, CodesStep

\* A code expires.
LEMMA ExpireStep ==
  ASSUME AccountInv, NEW k \in Nat, A!Expire(k)
  PROVE  AccountInv'
<1>1. k \in 1 .. Len(codes) /\ codes[k] \in A!Code
  BY AccountRows DEF A!Expire, AccountInv
<1> DEFINE to == [codes[k] EXCEPT !.expired = TRUE]
<1>2. codes' = [codes EXCEPT ![k] = to]
  BY DEF A!Expire
<1>3. /\ A!Solo /\ UNCHANGED <<owner, phone, password, barred, sessions, play, turn, held>>
  BY DEF A!Expire, A!user
<1>4. to \in A!Code /\ to.purpose = codes[k].purpose /\ to.open = codes[k].open /\ to.tries = codes[k].tries
  BY <1>1 DEF A!Code
<1> HIDE DEF to
<1>5. /\ codes' \in Seq(A!Code) /\ Len(codes') = Len(codes) /\ codes'[k] = to
      /\ \A i \in 1 .. Len(codes) : i # k => codes'[i] = codes[i]
  BY <1>1, <1>2, <1>4, SeqExcept, AccountRows DEF AccountInv, A!TypeOK
<1>6. \A i \in 1 .. Len(codes) : /\ codes'[i].purpose = codes[i].purpose /\ codes'[i].open = codes[i].open
                                 /\ codes'[i].tries = codes[i].tries
  BY <1>4, <1>5
<1>7. A!Solo' = A!Solo /\ A!AtOnce' = A!AtOnce
  BY <1>3 DEF A!Solo, A!AtOnce
<1>8. \A p : A!Open(p)' = A!Open(p)
  <2>1. DOMAIN codes' = 1 .. Len(codes) /\ DOMAIN codes = 1 .. Len(codes)
    BY <1>5, LenProperties, AccountRows DEF AccountInv
  <2> QED BY <1>6, <2>1 DEF A!Open
<1>9. A!TypeOK' /\ held' \in [Worker -> Holding] /\ Placed' /\ OneRequest'
  BY <1>3, <1>5, <1>7 DEF AccountInv, A!TypeOK, Placed, OneRequest
<1>10. Issued'
  <2>1. PICK f \in [1 .. Len(codes) -> Worker] : IssuedBy(f)
    BY DEF AccountInv, Issued
  <2>2. \A i, j \in 1 .. Len(codes) :
          codes'[i].open /\ codes'[j].open /\ codes'[i].purpose = codes'[j].purpose /\ f[i] = f[j] => i = j
    BY <1>6, <2>1 DEF IssuedBy
  <2>3. \A q \in Worker : turn[q] = "commit" => \A i \in A!Open(held[q].purpose) : f[i] = q => i \in held[q].sees
    BY <2>1 DEF IssuedBy
  <2>4. \A q \in Worker : turn[q] = "commit" => held[q].sees = A!Open(held[q].purpose)
    BY <1>3 DEF AccountInv, Issued
  <2>5. \A q \in Worker : A!Open(held[q].purpose)' = A!Open(held[q].purpose)
    BY <1>3, <1>8
  <2>6. IssuedBy(f)'
    BY <1>3, <1>5, <2>2, <2>3, <2>5 DEF IssuedBy
  <2>7. \A i, j \in 1 .. Len(codes) :
          codes'[i].open /\ codes'[j].open /\ codes'[i].purpose = codes'[j].purpose => i = j
    BY <1>3, <1>6 DEF AccountInv, Issued
  <2> QED BY <1>3, <1>5, <2>1, <2>4, <2>5, <2>6, <2>7 DEF Issued
<1>11. Tried'
  BY <1>3, <1>5, <1>6, <1>7 DEF AccountInv, Tried, Missing
<1>12. Exchanged' /\ Current'
  BY <1>3, <1>7 DEF AccountInv, Exchanged, Exchanging, Current
<1> QED BY <1>9, <1>10, <1>11, <1>12 DEF AccountInv

\* A request that writes sessions, and is then through with them or goes on to issue one.
LEMMA SessionsStep ==
  ASSUME AccountInv, NEW r \in Worker, Goes(r), turn'[r] \in {"idle", "session"},
         UNCHANGED <<owner, phone, password, barred, codes>>,
         sessions' \in Seq(A!Session), Len(sessions) <= Len(sessions'), Exchanged',
         turn'[r] = "session" => held'[r].of \in 0 .. Len(sessions),
         A!Solo =>
           /\ turn'[r] = "session" => held'[r].by = password
           /\ \A s \in 1 .. Len(sessions') : sessions'[s].live =>
                \/ sessions'[s].by = password
                \/ /\ turn[r] # "wipe" /\ s \in 1 .. Len(sessions)
                   /\ sessions[s].live /\ sessions'[s].by = sessions[s].by
  PROVE  AccountInv'
<1>1. A!TypeOK' /\ held' \in [Worker -> Holding]
  BY DEF AccountInv, A!TypeOK, Goes
<1>2. Placed'
  <2>1. Len(sessions) \in Nat /\ Len(sessions') \in Nat
    BY LenProperties DEF AccountInv, A!TypeOK
  <2>2. /\ \A i \in 1 .. Len(sessions) : i \in 1 .. Len(sessions')
        /\ \A i \in 0 .. Len(sessions) : i \in 0 .. Len(sessions')
    BY <2>1
  <2>3. ASSUME NEW q \in Worker
        PROVE  /\ turn'[q] \in {"issue", "commit", "verify", "miss", "spend"} => held'[q].purpose \in A!Purpose
               /\ turn'[q] \in {"miss", "spend"} => held'[q].code \in 1 .. Len(codes')
               /\ turn'[q] = "rotate" => held'[q].of \in 1 .. Len(sessions')
               /\ turn'[q] = "session" => held'[q].of \in 0 .. Len(sessions')
               /\ turn'[q] = "activate" => held'[q].of = 0
    <3>1. CASE q = r BY <2>2, <3>1
    <3>2. CASE q # r BY <2>2, <3>2 DEF AccountInv, Placed, Goes
    <3> QED BY <3>1, <3>2
  <2> QED BY <2>3 DEF Placed
<1>3. Issued' /\ Tried'
  BY CodesStay
<1>4. Current'
  BY CurrentStays
<1> QED BY <1>1, <1>2, <1>3, <1>4, GoesAlone DEF AccountInv

\* issue() adds a session, and rotate() has it follow the one exchanged.
LEMMA IssueSessionStep ==
  ASSUME AccountInv, NEW r \in Worker, A!IssueSession(r)
  PROVE  AccountInv'
<1>1. PICK mine \in Holding : mine = held[r] /\ turn[r] = "session" /\ mine.of \in 0 .. Len(sessions)
  BY AccountUser DEF A!IssueSession, AccountInv, Placed
<1> DEFINE followed == [s \in DOMAIN sessions |->
             IF s = mine.of THEN [sessions[s] EXCEPT !.successors = @ + 1] ELSE sessions[s]]
           new == [live |-> TRUE, by |-> mine.by, successors |-> 0]
<1>n. PICK n \in Nat : n = Len(sessions) + 1
  BY AccountRows DEF AccountInv
<1>2. /\ sessions' = Append(followed, new) /\ A!Goto(r, "idle", A!Blank)
      /\ UNCHANGED <<owner, phone, password, barred, codes, play>>
  BY <1>1 DEF A!IssueSession, A!Done, A!user
<1>3. Goes(r) /\ turn'[r] = "idle"
  <2>1. "idle" \in A!Places BY DEF A!Places
  <2> QED BY <1>1, <1>2, <2>1, Blanks, GotoGoes
<1>4. new \in A!Session /\ new.live /\ new.by = mine.by /\ new.successors = 0
  BY <1>1 DEF A!Session, Holding
<1>5. ASSUME NEW s \in 1 .. Len(sessions)
      PROVE  /\ followed[s] \in A!Session /\ followed[s].live = sessions[s].live /\ followed[s].by = sessions[s].by
             /\ followed[s].successors = IF s = mine.of THEN sessions[s].successors + 1 ELSE sessions[s].successors
  <2>1. sessions[s] \in A!Session /\ s \in DOMAIN sessions
    BY AccountRows DEF AccountInv
  <2> QED BY <2>1 DEF A!Session
<1>6. followed \in Seq(A!Session) /\ Len(followed) = Len(sessions) /\ Len(sessions) \in Nat
  <2>1. followed \in [DOMAIN sessions -> A!Session]
    BY <1>5, AccountRows DEF AccountInv
  <2> HIDE DEF followed
  <2> QED BY <2>1, MappedSeq, AccountRows DEF AccountInv, A!TypeOK
<1> HIDE DEF followed, new
<1>7. /\ sessions' \in Seq(A!Session) /\ Len(sessions') = n /\ sessions'[n] = new
      /\ \A s \in 1 .. Len(sessions) : sessions'[s] = followed[s]
  BY <1>2, <1>4, <1>6, <1>n, AppendProperties
<1>8. /\ \A s \in 1 .. Len(sessions') : s = n \/ s \in 1 .. Len(sessions)
      /\ \A s \in 0 .. Len(sessions) : s # n /\ (s # 0 => s \in 1 .. Len(sessions))
      /\ n # 0 /\ Len(sessions) <= Len(sessions')
  BY <1>6, <1>7, <1>n
<1>9. /\ \A s \in 1 .. Len(sessions) :
           /\ sessions'[s].live = sessions[s].live /\ sessions'[s].by = sessions[s].by
           /\ sessions'[s].successors = IF s = mine.of THEN sessions[s].successors + 1 ELSE sessions[s].successors
      /\ sessions'[n].by = mine.by /\ sessions'[n].successors = 0
  BY <1>4, <1>5, <1>7
<1>10. mine.of # 0 => ~sessions[mine.of].live
  BY <1>1 DEF AccountInv, Exchanged
<1>11. ASSUME NEW s \in 1 .. Len(sessions)
       PROVE  /\ sessions'[s].live => sessions'[s].successors = 0
              /\ sessions'[s].successors + Cardinality(Exchanging(s)') <= A!AtOnce
  <2>1. /\ sessions[s].live => sessions[s].successors = 0
        /\ sessions[s].successors + Cardinality(Exchanging(s)) <= A!AtOnce
    BY DEF AccountInv, Exchanged
  <2>2. CASE s = mine.of
    <3>1. ~sessions'[s].live
      <4>1. s # 0 OBVIOUS
      <4> QED BY <1>9, <1>10, <2>2, <4>1
    <3>2. Exchanging(s)' = Exchanging(s) \ {r} /\ r \in Exchanging(s)
      BY <1>1, <1>3, <2>2 DEF Exchanging, Goes
    <3>3. Exchanging(s) \in SUBSET Worker
      BY DEF Exchanging
    <3>4. IsFiniteSet(Exchanging(s)) /\ Cardinality(Exchanging(s)) \in Nat
      BY <3>3, FS_Subset, FS_CardinalityType, AccountOperators
    <3>5. Cardinality(Exchanging(s)') = Cardinality(Exchanging(s)) - 1
      BY <3>2, <3>4, FS_RemoveElement
    <3>6. sessions'[s].successors = sessions[s].successors + 1 /\ sessions[s].successors \in Nat
      BY <1>9, <2>2, AccountRows DEF AccountInv
    <3>7. sessions'[s].successors + Cardinality(Exchanging(s)') = sessions[s].successors + Cardinality(Exchanging(s))
      BY <3>4, <3>5, <3>6
    <3> QED BY <2>1, <3>1, <3>7
  <2>3. CASE s # mine.of
    <3>1. Exchanging(s)' = Exchanging(s)
      BY <1>1, <1>3, <2>3 DEF Exchanging, Goes
    <3> QED BY <1>9, <2>1, <2>3, <3>1
  <2> QED BY <2>2, <2>3
<1>12. Exchanging(n)' = {}
  <2>1. ASSUME NEW q \in Worker, turn'[q] \in {"rotate", "session"} PROVE held'[q].of # n
    <3>1. turn[q] \in {"rotate", "session"} /\ held'[q] = held[q]
      BY <1>3, <2>1 DEF Goes
    <3>2. held[q].of \in 0 .. Len(sessions)
      BY <3>1, <1>6 DEF AccountInv, Placed
    <3> QED BY <1>8, <3>1, <3>2
  <2> QED BY <2>1 DEF Exchanging
<1>13. 0 + Cardinality(Exchanging(n)') <= A!AtOnce
  BY <1>12, FS_EmptySet, AccountOperators
<1>14. ASSUME NEW q \in Worker, turn'[q] = "session", held'[q].of # 0
       PROVE  ~sessions'[held'[q].of].live
  <2>1. turn[q] = "session" /\ held'[q] = held[q]
    BY <1>3, <1>14 DEF Goes
  <2>2. held[q].of \in 1 .. Len(sessions)
    BY <1>8, <1>14, <2>1 DEF AccountInv, Placed
  <2>3. ~sessions[held[q].of].live
    BY <1>14, <2>1 DEF AccountInv, Exchanged
  <2> QED BY <1>9, <2>1, <2>2, <2>3
<1>15. Exchanged'
  <2>1. ASSUME NEW s \in 1 .. Len(sessions')
        PROVE  /\ sessions'[s].live => sessions'[s].successors = 0
               /\ sessions'[s].successors + Cardinality(Exchanging(s)') <= A!AtOnce
    <3>1. CASE s = n BY <1>9, <1>13, <3>1
    <3>2. CASE s # n BY <1>8, <1>11, <3>2
    <3> QED BY <3>1, <3>2
  <2> QED BY <1>3, <1>14, <2>1, GoesAlone DEF Exchanged
<1>16. ASSUME A!Solo, NEW s \in 1 .. Len(sessions'), sessions'[s].live
       PROVE  \/ sessions'[s].by = password
              \/ /\ turn[r] # "wipe" /\ s \in 1 .. Len(sessions)
                 /\ sessions[s].live /\ sessions'[s].by = sessions[s].by
  <2>1. mine.by = password
    BY <1>1, <1>16 DEF AccountInv, Current
  <2> QED BY <1>1, <1>8, <1>9, <1>16, <2>1
<1> QED BY <1>2, <1>3, <1>7, <1>8, <1>15, <1>16, SessionsStep

\* Sessions that are revoked, and requests that exchange no token they did not.
LEMMA ExchangedStays ==
  ASSUME AccountInv, A!AtOnce' = A!AtOnce, Len(sessions') = Len(sessions),
         \A s \in 1 .. Len(sessions) : /\ sessions'[s].successors = sessions[s].successors
                                       /\ sessions'[s].live => sessions[s].live
                                       /\ Exchanging(s)' = Exchanging(s),
         \A q \in Worker : turn'[q] = "session" /\ held'[q].of # 0 =>
           /\ held'[q].of \in 1 .. Len(sessions)
           /\ \/ turn[q] = "session" /\ held[q] = held'[q]
              \/ ~sessions'[held'[q].of].live
  PROVE  Exchanged'
<1>1. ASSUME NEW s \in 1 .. Len(sessions)
      PROVE  /\ sessions'[s].live => sessions'[s].successors = 0
             /\ sessions'[s].successors + Cardinality(Exchanging(s)') <= A!AtOnce
  BY <1>1 DEF AccountInv, Exchanged
<1>2. \A q \in Worker : turn'[q] = "session" /\ held'[q].of # 0 => ~sessions'[held'[q].of].live
  BY DEF AccountInv, Exchanged
<1> QED BY <1>1, <1>2 DEF Exchanged

\* One session is revoked.
Revokes(k) == sessions' = [sessions EXCEPT ![k].live = FALSE]
LEMMA Revoked ==
  ASSUME AccountInv, NEW k \in 1 .. Len(sessions), Revokes(k)
  PROVE  /\ sessions' \in Seq(A!Session) /\ Len(sessions') = Len(sessions) /\ ~sessions'[k].live
         /\ \A s \in 1 .. Len(sessions) : /\ sessions'[s].successors = sessions[s].successors
                                          /\ sessions'[s].by = sessions[s].by
                                          /\ sessions'[s].live => sessions[s].live
<1>1. sessions[k] \in A!Session /\ sessions \in Seq(A!Session)
  BY AccountRows DEF AccountInv, A!TypeOK
<1>2. PICK to \in A!Session : /\ sessions' = [sessions EXCEPT ![k] = to]
                              /\ ~to.live /\ to.by = sessions[k].by /\ to.successors = sessions[k].successors
  <2> DEFINE revoked == [sessions[k] EXCEPT !.live = FALSE]
  <2>1. sessions' = [sessions EXCEPT ![k] = revoked]
    BY DEF Revokes
  <2>2. revoked \in A!Session /\ ~revoked.live /\ revoked.by = sessions[k].by
        /\ revoked.successors = sessions[k].successors
    BY <1>1 DEF A!Session
  <2> HIDE DEF revoked
  <2> QED BY <2>1, <2>2
<1>3. /\ sessions' \in Seq(A!Session) /\ Len(sessions') = Len(sessions)
      /\ sessions'[k] = to /\ \A s \in 1 .. Len(sessions) : s # k => sessions'[s] = sessions[s]
  BY <1>1, <1>2, SeqExcept
<1> QED BY <1>2, <1>3

\* rotate() revokes the session that was presented.
LEMMA RotateStep ==
  ASSUME AccountInv, NEW r \in Worker, A!Rotate(r)
  PROVE  AccountInv'
<1>1. PICK k \in 1 .. Len(sessions) : k = held[r].of /\ turn[r] = "rotate"
  BY DEF A!Rotate, AccountInv, Placed
<1> DEFINE what == held[r]
<1>2. /\ sessions' = [sessions EXCEPT ![k].live = FALSE] /\ A!Goto(r, "session", what)
      /\ UNCHANGED <<owner, phone, password, barred, codes, play>>
  BY <1>1 DEF A!Rotate, A!user
<1>3. what \in Holding /\ what.of = k /\ what = held[r] /\ (A!Solo => what.by = password)
  BY <1>1, AccountUser DEF AccountInv, Current
<1> HIDE DEF what
<1>4. Goes(r) /\ turn'[r] = "session" /\ held'[r] = what
  <2>1. "session" \in A!Places BY DEF A!Places
  <2> QED BY <1>1, <1>2, <1>3, <2>1, GotoGoes
<1>5. /\ sessions' \in Seq(A!Session) /\ Len(sessions') = Len(sessions) /\ ~sessions'[k].live
      /\ \A s \in 1 .. Len(sessions) : /\ sessions'[s].successors = sessions[s].successors
                                       /\ sessions'[s].by = sessions[s].by
                                       /\ sessions'[s].live => sessions[s].live
  BY <1>2, Revoked DEF Revokes
<1>6. Len(sessions) \in Nat /\ k \in Nat /\ \A s \in 0 .. Len(sessions) : s # 0 => s \in 1 .. Len(sessions)
  BY AccountRows DEF AccountInv
<1>7. Exchanged'
  <2>1. \A s : Exchanging(s)' = Exchanging(s)
    BY <1>1, <1>3, <1>4 DEF Exchanging, Goes
  <2>2. ASSUME NEW q \in Worker, turn'[q] = "session", held'[q].of # 0
        PROVE  /\ held'[q].of \in 1 .. Len(sessions)
               /\ \/ turn[q] = "session" /\ held[q] = held'[q]
                  \/ ~sessions'[held'[q].of].live
    <3>1. CASE q = r BY <1>3, <1>4, <1>5, <3>1
    <3>2. CASE q # r
      <4>1. turn[q] = "session" /\ held'[q] = held[q] BY <1>4, <2>2, <3>2 DEF Goes
      <4>2. held[q].of \in 0 .. Len(sessions) BY <4>1 DEF AccountInv, Placed
      <4> QED BY <1>6, <2>2, <4>1, <4>2
    <3> QED BY <3>1, <3>2
  <2> QED BY <1>4, <1>5, <2>1, <2>2, GoesAlone, ExchangedStays
<1>8. held'[r].of \in 0 .. Len(sessions)
  BY <1>3, <1>4, <1>6
<1>9. Len(sessions) <= Len(sessions')
  BY <1>5, <1>6
<1>10. A!Solo => held'[r].by = password
  BY <1>3, <1>4
<1> QED BY <1>1, <1>2, <1>4, <1>5, <1>7, <1>8, <1>9, <1>10, SessionsStep

\* revokeAllForUser()
LEMMA WipeStep ==
  ASSUME AccountInv, NEW r \in Worker, A!Wipe(r)
  PROVE  AccountInv'
<1> DEFINE wiped == [s \in DOMAIN sessions |-> [sessions[s] EXCEPT !.live = FALSE]]
<1>1. /\ turn[r] = "wipe" /\ sessions' = wiped /\ A!Goto(r, "idle", A!Blank)
      /\ UNCHANGED <<owner, phone, password, barred, codes, play>>
  BY DEF A!Wipe, A!Done, A!user
<1>2. Goes(r) /\ turn'[r] = "idle"
  <2>1. "idle" \in A!Places BY DEF A!Places
  <2> QED BY <1>1, <2>1, Blanks, GotoGoes
<1>3. ASSUME NEW s \in 1 .. Len(sessions)
      PROVE  /\ wiped[s] \in A!Session /\ ~wiped[s].live /\ wiped[s].successors = sessions[s].successors
  <2>1. sessions[s] \in A!Session /\ s \in DOMAIN sessions
    BY AccountRows DEF AccountInv
  <2> QED BY <2>1 DEF A!Session
<1>4. wiped \in Seq(A!Session) /\ Len(wiped) = Len(sessions) /\ Len(sessions) \in Nat
  <2>1. wiped \in [DOMAIN sessions -> A!Session]
    BY <1>3, AccountRows DEF AccountInv
  <2> HIDE DEF wiped
  <2> QED BY <2>1, MappedSeq, AccountRows DEF AccountInv, A!TypeOK
<1>5. /\ sessions' \in Seq(A!Session) /\ Len(sessions') = Len(sessions)
      /\ \A s \in 1 .. Len(sessions) : ~sessions'[s].live /\ sessions'[s].successors = sessions[s].successors
  BY <1>1, <1>3, <1>4
<1> HIDE DEF wiped
<1>6. \A s \in 0 .. Len(sessions) : s # 0 => s \in 1 .. Len(sessions)
  BY <1>4
<1>7. Exchanged'
  <2>1. \A s : Exchanging(s)' = Exchanging(s)
    BY <1>1, <1>2 DEF Exchanging, Goes
  <2>2. \A q \in Worker : turn'[q] = "session" => turn[q] = "session" /\ held'[q] = held[q]
    BY <1>2 DEF Goes
  <2>3. \A q \in Worker : turn[q] = "session" => held[q].of \in 0 .. Len(sessions)
    BY DEF AccountInv, Placed
  <2> QED BY <1>2, <1>5, <1>6, <2>1, <2>2, <2>3, GoesAlone, ExchangedStays
<1>8. Len(sessions) <= Len(sessions') /\ \A s \in 1 .. Len(sessions') : ~sessions'[s].live
  BY <1>4, <1>5
<1> QED BY <1>1, <1>2, <1>5, <1>7, <1>8, SessionsStep

\* revoke(): somebody logs out.
LEMMA RevokeStep ==
  ASSUME AccountInv, NEW k \in Nat, A!Revoke(k)
  PROVE  AccountInv'
<1>1. k \in 1 .. Len(sessions) /\ sessions' = [sessions EXCEPT ![k].live = FALSE]
      /\ UNCHANGED <<owner, phone, password, barred, codes, play, turn, held>>
  BY AccountRows DEF A!Revoke, A!user, AccountInv
<1>2. /\ sessions' \in Seq(A!Session) /\ Len(sessions') = Len(sessions)
      /\ \A s \in 1 .. Len(sessions) : /\ sessions'[s].successors = sessions[s].successors
                                       /\ sessions'[s].by = sessions[s].by
                                       /\ sessions'[s].live => sessions[s].live
  BY <1>1, Revoked DEF Revokes
<1>3. A!Solo' = A!Solo /\ A!AtOnce' = A!AtOnce
  BY <1>1 DEF A!Solo, A!AtOnce
<1>4. A!TypeOK' /\ held' \in [Worker -> Holding] /\ Placed' /\ OneRequest'
  BY <1>1, <1>2, <1>3 DEF AccountInv, A!TypeOK, Placed, OneRequest
<1>5. Issued' /\ Tried'
  <2>1. \A p : A!Open(p)' = A!Open(p)
    BY <1>1 DEF A!Open
  <2> QED BY <1>1, <1>3, <2>1 DEF AccountInv, Issued, IssuedBy, A!Open, Tried, Missing
<1>6. Exchanged'
  <2>1. \A s : Exchanging(s)' = Exchanging(s)
    BY <1>1 DEF Exchanging
  <2>2. \A s \in 0 .. Len(sessions) : s # 0 => s \in 1 .. Len(sessions)
    BY AccountRows DEF AccountInv
  <2>3. \A q \in Worker : turn[q] = "session" => held[q].of \in 0 .. Len(sessions)
    BY DEF AccountInv, Placed
  <2> QED BY <1>1, <1>2, <1>3, <2>1, <2>2, <2>3, ExchangedStays
<1>7. Current'
  <2> SUFFICES ASSUME A!Solo PROVE Current' BY <1>3 DEF Current
  <2>1. \A s \in 1 .. Len(sessions) : sessions[s].live => sessions[s].by = password \/ \E r \in Worker : turn[r] = "wipe"
    BY DEF AccountInv, Current
  <2>2. \A s \in 1 .. Len(sessions') : sessions'[s].live => sessions'[s].by = password \/ \E r \in Worker : turn[r] = "wipe"
    BY <1>2, <2>1
  <2>3. /\ \A r \in Worker :
             /\ turn[r] \in {"rotate", "session", "activate"} => held[r].by = password
             /\ turn[r] \in {"verify", "miss", "spend", "confirm", "renew"} => held[r].status = owner
             /\ turn[r] = "activate" => owner = "PENDING"
        /\ barred <=> owner = "SUSPENDED"
    BY DEF AccountInv, Current
  <2> QED BY <1>1, <2>2, <2>3 DEF Current
<1> QED BY <1>4, <1>5, <1>6, <1>7 DEF AccountInv

\* An admin suspends the account or reinstates it.
LEMMA SuspensionStep ==
  ASSUME AccountInv, A!Suspend \/ A!Reinstate
  PROVE  AccountInv'
<1>1. /\ A!Solo => \A q \in Worker : turn[q] = "idle"
      /\ UNCHANGED <<phone, password, codes, sessions, play, turn, held>>
      /\ \/ owner' = "SUSPENDED" /\ barred' = TRUE
         \/ owner' = "ACTIVE" /\ barred' = FALSE
  BY DEF A!Suspend, A!Reinstate
<1>2. A!Solo' = A!Solo /\ A!AtOnce' = A!AtOnce
  BY <1>1 DEF A!Solo, A!AtOnce
<1>3. A!TypeOK' /\ held' \in [Worker -> Holding] /\ Placed' /\ OneRequest'
  BY <1>1, <1>2 DEF AccountInv, A!TypeOK, Placed, OneRequest
<1>4. Issued' /\ Tried'
  BY <1>1, <1>2 DEF AccountInv, Issued, IssuedBy, A!Open, Tried, Missing
<1>5. Exchanged'
  BY <1>1, <1>2 DEF AccountInv, Exchanged, Exchanging
<1>6. Current'
  BY <1>1, <1>2 DEF AccountInv, Current
<1> QED BY <1>3, <1>4, <1>5, <1>6 DEF AccountInv

LEMMA AccountInductive == AccountInv /\ [A!Next]_accountVars => AccountInv'
<1> SUFFICES ASSUME AccountInv, [A!Next]_accountVars PROVE AccountInv' OBVIOUS
<1>1. CASE UNCHANGED accountVars
  <2>1. UNCHANGED <<owner, phone, password, barred, codes, sessions, play, turn, held>>
    BY <1>1 DEF accountVars
  <2>2. A!Solo' = A!Solo /\ A!AtOnce' = A!AtOnce
    BY <2>1 DEF A!Solo, A!AtOnce
  <2>3. A!TypeOK' /\ held' \in [Worker -> Holding] /\ Placed' /\ OneRequest'
    BY <2>1, <2>2 DEF AccountInv, A!TypeOK, Placed, OneRequest
  <2>4. Issued' /\ Tried'
    BY <2>1, <2>2 DEF AccountInv, Issued, IssuedBy, A!Open, Tried, Missing
  <2>5. Exchanged' /\ Current'
    BY <2>1, <2>2 DEF AccountInv, Exchanged, Exchanging, Current
  <2> QED BY <2>3, <2>4, <2>5 DEF AccountInv
<1>2. ASSUME NEW r \in Worker, A!Register(r) \/ A!Login(r) \/ A!GoogleSignUp(r) \/ A!GoogleSignIn(r) \/ A!Activate(r)
      PROVE  AccountInv'
  BY <1>2, RegisterStep, LoginStep, GoogleSignUpStep, GoogleSignInStep, ActivateStep
<1>3. ASSUME NEW r \in Worker, NEW purpose \in A!Purpose, A!AskForCode(r, purpose) \/ A!PresentCode(r, purpose)
      PROVE  AccountInv'
  BY <1>3, AskForCodeStep, PresentCodeStep
<1>4. ASSUME NEW r \in Worker,
             \/ A!IssueStart(r) \/ A!IssueCommit(r) \/ A!Miss(r) \/ A!Spend(r) \/ A!Confirm(r)
             \/ \E right \in BOOLEAN : A!Verify(r, right)
      PROVE  AccountInv'
  BY <1>4, IssueStartStep, IssueCommitStep, MissStep, SpendStep, ConfirmStep, VerifyStep
<1>5. play.sessions \in Nat /\ play.codes \in Nat
  BY PromoterAssumption DEF AccountInv, A!TypeOK, A!AccountsAssumption
<1>6. ASSUME NEW r \in Worker,
             \/ A!IssueSession(r) \/ A!Rotate(r) \/ A!Wipe(r)
             \/ \E s \in 1 .. play.sessions : A!ReadSession(r, s)
             \/ A!ChangePassword(r) \/ A!Renew(r)
      PROVE  AccountInv'
  BY <1>5, <1>6, IssueSessionStep, RotateStep, WipeStep, ReadSessionStep, ChangePasswordStep, RenewStep
<1>7. ASSUME \/ \E i \in 1 .. play.codes : A!Expire(i)
             \/ \E s \in 1 .. play.sessions : A!Revoke(s)
             \/ A!Suspend \/ A!Reinstate
      PROVE  AccountInv'
  BY <1>5, <1>7, ExpireStep, RevokeStep, SuspensionStep
<1>8. CASE A!Next
  BY <1>2, <1>3, <1>4, <1>6, <1>7, <1>8 DEF A!Next
<1> QED BY <1>1, <1>8

-------------------------------------------------------------------------------
(* The profile *)

\* A finite set has a member of which some number is the largest.
LEMMA LargestOf ==
  ASSUME NEW S, IsFiniteSet(S), S # {}, NEW f, \A x \in S : f[x] \in Nat
  PROVE  \E x \in S : \A y \in S : f[x] >= f[y]
<1> DEFINE shown == {T \in SUBSET S : T = {} \/ \E x \in T : \A y \in T : f[x] >= f[y]}
<1>1. ASSUME NEW T \in SUBSET S, \A U \in SUBSET T : U # T => U \in shown
      PROVE  T \in shown
  <2> SUFFICES ASSUME T # {} PROVE \E x \in T : \A y \in T : f[x] >= f[y]
    OBVIOUS
  <2>1. PICK z \in T : TRUE
    OBVIOUS
  <2>2. T \ {z} \in shown
    BY <1>1, <2>1
  <2>3. CASE T \ {z} = {}
    BY <2>1, <2>3
  <2>4. CASE T \ {z} # {}
    <3>1. PICK x \in T \ {z} : \A y \in T \ {z} : f[x] >= f[y]
      BY <2>2, <2>4
    <3>2. CASE f[x] >= f[z] BY <3>1, <3>2
    <3>3. CASE ~(f[x] >= f[z])
      <4>1. \A y \in T : f[z] >= f[y]
        <5> TAKE y \in T
        <5>1. f[x] \in Nat /\ f[y] \in Nat /\ f[z] \in Nat OBVIOUS
        <5>2. CASE y = z BY <5>1, <5>2
        <5>3. CASE y # z
          <6>1. f[x] >= f[y] BY <3>1, <5>3
          <6> QED BY <3>3, <5>1, <6>1
        <5> QED BY <5>2, <5>3
      <4> QED BY <2>1, <4>1
    <3> QED BY <3>2, <3>3
  <2> QED BY <2>3, <2>4
<1>2. \A T \in SUBSET S : T \in shown
  <2> HIDE DEF shown
  <2> QED BY <1>1, SubsetInduction
<1> QED BY <1>2

\* What capabilityScore() of a distributor adds up.
Counted == {"verifiedReach", "postingFrequency", "recentPostProof"}
Portion(factors, k) ==
  P!Weights["DISTRIBUTOR"][k] * (IF k \in DOMAIN factors THEN P!Clamp(factors[k], 0, 100) ELSE 0)
CapabilitySums(g, factors, S) ==
  g = [s \in SUBSET S |-> IF s = {} THEN 0 ELSE Portion(factors, FirstOf(s)) + g[s \ {FirstOf(s)}]]

LEMMA CapabilityIsChosen ==
  ASSUME NEW factors
  PROVE  P!CapabilityScore("DISTRIBUTOR", factors)
           = P!Rounded((CHOOSE g : CapabilitySums(g, factors, DOMAIN P!Weights["DISTRIBUTOR"]))
                         [DOMAIN P!Weights["DISTRIBUTOR"]], 100)
BY DEF P!CapabilityScore, P!MapThenSumSet, P!MapThenFoldSet, CapabilitySums, Portion, FirstOf

LEMMA OneSum ==
  ASSUME NEW f, NEW S, IsFiniteSet(S), NEW g, NEW h, SumsOver(g, f, SUBSET S), SumsOver(h, f, SUBSET S)
  PROVE  g[S] = h[S]
<1>1. S \subseteq S /\ \A x \in S : f[x] = f[x]
  OBVIOUS
<1> QED BY <1>1, SumsAgree

\* Each counts for as much as its weight, at most.
LEMMA PortionIs ==
  ASSUME NEW factors, \A k \in DOMAIN factors : factors[k] \in Int
  PROVE  /\ Portion(factors, "verifiedReach") \in Nat /\ Portion(factors, "verifiedReach") <= 5000
         /\ Portion(factors, "postingFrequency") \in Nat /\ Portion(factors, "postingFrequency") <= 2000
         /\ Portion(factors, "recentPostProof") \in Nat /\ Portion(factors, "recentPostProof") <= 3000
<1> DEFINE part(k) == IF k \in DOMAIN factors THEN P!Clamp(factors[k], 0, 100) ELSE 0
<1>1. \A k : part(k) \in 0 .. 100
  BY DEF P!Clamp, P!Greatest, P!Least
<1>2. \A k : Portion(factors, k) = P!Weights["DISTRIBUTOR"][k] * part(k)
  BY DEF Portion
<1> HIDE DEF part
<1>3. Portion(factors, "verifiedReach") \in Nat /\ Portion(factors, "verifiedReach") <= 5000
  <2>1. Portion(factors, "verifiedReach") = 50 * part("verifiedReach")
    BY <1>2 DEF P!Weights
  <2> QED BY <1>1, <2>1
<1>4. Portion(factors, "postingFrequency") \in Nat /\ Portion(factors, "postingFrequency") <= 2000
  <2>1. Portion(factors, "postingFrequency") = 20 * part("postingFrequency")
    BY <1>2 DEF P!Weights
  <2> QED BY <1>1, <2>1
<1>5. Portion(factors, "recentPostProof") \in Nat /\ Portion(factors, "recentPostProof") <= 3000
  <2>1. Portion(factors, "recentPostProof") = 30 * part("recentPostProof")
    BY <1>2 DEF P!Weights
  <2> QED BY <1>1, <2>1
<1> QED BY <1>3, <1>4, <1>5

\* A capability score is between 0 and 100, whatever the factors say.
LEMMA CapabilityFits ==
  ASSUME NEW factors, \A k \in DOMAIN factors : factors[k] \in Int
  PROVE  P!CapabilityScore("DISTRIBUTOR", factors) \in 0 .. 100
<1> DEFINE f == [k \in Counted |-> Portion(factors, k)]
           g == CHOOSE g : CapabilitySums(g, factors, Counted)
           h == CHOOSE h : SumsOver(h, f, SUBSET Counted)
           n == SumFunctionOnSet(f, Counted)
<1>1. DOMAIN P!Weights["DISTRIBUTOR"] = Counted
  BY DEF P!Weights, Counted
<1>2. IsFiniteSet(Counted)
  <2>1. Counted = (({} \cup {"verifiedReach"}) \cup {"postingFrequency"}) \cup {"recentPostProof"}
    BY DEF Counted
  <2>2. IsFiniteSet(({} \cup {"verifiedReach"}) \cup {"postingFrequency"})
    BY FS_EmptySet, FS_AddElement
  <2> QED BY <2>1, <2>2, FS_AddElement
<1>3. PICK a, b, c : /\ Counted = {a, b, c} /\ a # b /\ a # c /\ b # c
                     /\ Portion(factors, a) \in Nat /\ Portion(factors, a) <= 5000
                     /\ Portion(factors, b) \in Nat /\ Portion(factors, b) <= 2000
                     /\ Portion(factors, c) \in Nat /\ Portion(factors, c) <= 3000
  <2>1. "verifiedReach" # "postingFrequency" /\ "verifiedReach" # "recentPostProof"
        /\ "postingFrequency" # "recentPostProof"
    OBVIOUS
  <2> HIDE DEF f, g, h, n
  <2> QED BY <2>1, PortionIs DEF Counted
<1>4. SumsOver(h, f, SUBSET Counted)
  <2> HIDE DEF f
  <2> QED BY <1>2, SumsExist
<1>5. CapabilitySums(h, factors, Counted)
  <2>1. \A s \in SUBSET Counted : s # {} => f[FirstOf(s)] = Portion(factors, FirstOf(s))
    BY FirstOfIsIn
  <2> HIDE DEF f, h
  <2> QED BY <1>4, <2>1 DEF CapabilitySums, SumsOver
<1>6. CapabilitySums(g, factors, Counted)
  <2> HIDE DEF h
  <2> QED BY <1>5
<1>7. SumsOver(g, f, SUBSET Counted)
  <2>1. \A s \in SUBSET Counted : s # {} => f[FirstOf(s)] = Portion(factors, FirstOf(s))
    BY FirstOfIsIn
  <2> HIDE DEF f, g
  <2> QED BY <1>6, <2>1 DEF CapabilitySums, SumsOver
<1>8. g[Counted] = n
  <2>1. n = h[Counted]
    BY SumIsChosen
  <2> HIDE DEF f, g, h, n
  <2> QED BY <1>2, <1>4, <1>7, <2>1, OneSum
<1>9. P!CapabilityScore("DISTRIBUTOR", factors) = P!Rounded(n, 100)
  BY <1>1, <1>8, CapabilityIsChosen
<1>10. n \in Nat /\ n <= 10000
  <2> DEFINE one == {} \cup {a}
             two == one \cup {b}
  <2>1. IsFiniteSet(one) /\ IsFiniteSet(two) /\ two \cup {c} = Counted /\ b \notin one /\ c \notin two
    <3>1. IsFiniteSet(one) /\ IsFiniteSet(two) BY FS_EmptySet, FS_AddElement
    <3> QED BY <1>3, <3>1
  <2>2. f[a] \in Nat /\ f[a] <= 5000 /\ f[b] \in Nat /\ f[b] <= 2000 /\ f[c] \in Nat /\ f[c] <= 3000
    BY <1>3
  <2>3. one \cup {b} \subseteq Counted /\ two \cup {c} \subseteq Counted /\ {} \cup {a} \subseteq Counted
    BY <1>3
  <2> HIDE DEF f, n
  <2>4. \A k \in Counted : f[k] \in Int
    BY <1>3, <2>2
  <2>5. SumFunctionOnSet(f, one) = f[a]
    <3>1. SumFunctionOnSet(f, one) = f[a] + SumFunctionOnSet(f, {})
      BY FS_EmptySet, SumMore, <2>3, <2>4
    <3> QED BY <3>1, <2>2, SumNothing
  <2> HIDE DEF one
  <2>6. SumFunctionOnSet(f, two) = f[b] + SumFunctionOnSet(f, one)
    BY <2>1, <2>3, <2>4, SumMore
  <2> HIDE DEF two
  <2>7. n = f[c] + SumFunctionOnSet(f, two)
    BY <2>1, <2>3, <2>4, SumMore DEF n
  <2> QED BY <2>2, <2>5, <2>6, <2>7
<1> HIDE DEF n
<1>11. (2 * n + 100) \div 200 \in 0 .. 100
  BY <1>10
<1> QED BY <1>9, <1>11 DEF P!Rounded

\* What admins' decisions store as a distributor's capability.
LEMMA ComputedFits ==
  ASSUME NEW reach \in Nat, NEW tier
  PROVE  P!Capability("DISTRIBUTOR", [k \in {} |-> 0], reach, tier, 50) \in 0 .. 100
<1> DEFINE derived == [verifiedReach |-> P!Clamp(reach \div 30, 0, 100),
                       recentPostProof |-> P!ProofStrength(tier), ratedSamples |-> 50]
           none == [k \in {} |-> 0]
           factors == [k \in DOMAIN derived \cup DOMAIN none |->
                         IF k \in DOMAIN derived THEN derived[k] ELSE none[k]]
<1>1. \A k \in DOMAIN factors : factors[k] \in Int
  <2>1. P!Clamp(reach \div 30, 0, 100) \in Int BY DEF P!Clamp, P!Greatest, P!Least
  <2>2. P!ProofStrength(tier) \in Int BY DEF P!ProofStrength
  <2>3. DOMAIN factors = {"verifiedReach", "recentPostProof", "ratedSamples"} OBVIOUS
  <2>4. factors["verifiedReach"] \in Int /\ factors["recentPostProof"] \in Int /\ factors["ratedSamples"] \in Int
    BY <2>1, <2>2
  <2> HIDE DEF factors
  <2> QED BY <2>3, <2>4
<1>2. P!Capability("DISTRIBUTOR", none, reach, tier, 50) = P!CapabilityScore("DISTRIBUTOR", factors)
  BY DEF P!Capability, P!CapabilityRole
<1> HIDE DEF factors
<1>3. P!CapabilityScore("DISTRIBUTOR", factors) \in 0 .. 100
  BY <1>1, CapabilityFits
<1> QED BY <1>2, <1>3

\* The reach of a channel at a tier an admin sets, or none: at most the cap for the latter.
LEMMA ReachFits ==
  ASSUME NEW claimed \in Nat, NEW tier \in {"SELF", "SCREENSHOT", "INSIGHTS"}, NEW cap \in Nat
  PROVE  LET reach == P!ChannelReach([group |-> FALSE, active |-> 0, claimed |-> claimed, factor |-> 100,
                                      tier |-> tier, age |-> 0], cap, 30)
         IN  reach \in Nat /\ (tier = "SELF" => reach <= cap)
<1> DEFINE reach == P!EffectiveReach(claimed, 100, tier)
<1>1. reach \in Nat
  <2>1. P!TierFactor[tier] \in {60, 100, 115} BY DEF P!TierFactor
  <2>2. \A t \in {60, 100, 115} : (2 * (claimed * 100 * t) + 10000) \div 20000 \in Nat
    OBVIOUS
  <2> QED BY <2>1, <2>2 DEF P!EffectiveReach, P!Rounded
<1>2. P!CurrentTier(tier, 0, 30) = tier
  BY DEF P!CurrentTier
<1> HIDE DEF reach
<1> QED BY <1>1, <1>2 DEF P!ChannelReach, P!Least, reach

\* The row of a channel: it counts for more than the cap only at a tier an admin set, and is
\* matched on only once its evidence was decided on.
Fits(row) ==
  row \in P!Row /\ (row.reach > Cap => row.tier # "SELF") /\ (row.status = "ACTIVE" => ~row.fresh)

ChannelsFit(ch) ==
  ch \in [Channel -> P!Row \cup {None}] /\ \A c \in Channel : ch[c] # None => Fits(ch[c])

\* Whoever can be matched has a score.
Scored(ch, score) == (\E c \in Channel : ch[c] # None /\ ch[c].status = "ACTIVE") => score # None

\* Without overlaps a request of the promoter goes by a profile that is still so.
Turns == calm =>
  /\ \A r, q \in Worker : doing[r] # "idle" /\ doing[q] # "idle" => r = q
  /\ \A r \in Worker : doing[r] = "submit" => seen[r].status = status /\ (seen[r].filled => filled)

ProfileInv ==
  /\ P!TypeOK /\ DOMAIN seen = Worker
  /\ ChannelsFit(channel) /\ Scored(channel, capability) /\ Turns /\ P!DecisionsStand

LEMMA ProfileNumbers ==
  Claims \subseteq Nat /\ Cap \in Nat /\ Scores \subseteq 0 .. 100 /\ None \notin Nat /\ IsFiniteSet(Channel)
<1>1. \A S : P!IsFiniteSet(S) <=> IsFiniteSet(S)
  BY DEF P!IsFiniteSet, IsFiniteSet
<1> QED BY <1>1, PromoterAssumption DEF P!ProfilesAssumption

LEMMA RowFields ==
  ASSUME NEW row \in P!Row
  PROVE  /\ row.claimed \in Claims /\ row.tier \in {"SELF", "SCREENSHOT", "INSIGHTS"} /\ row.reach \in Nat
         /\ row.status \in {"PENDING_REVIEW", "ACTIVE", "REJECTED"} /\ row.fresh \in BOOLEAN
BY DEF P!Row

\* The score of any channels is a number from 0 to 100.
LEMMA ScoreFits ==
  ASSUME NEW ch, ChannelsFit(ch)
  PROVE  P!ScoreOf(ch) \in 0 .. 100 /\ P!ScoreOf(ch) # None
<1> DEFINE owned == {c \in Channel : ch[c] # None}
           best == CHOOSE c \in owned : \A d \in owned : ch[c].reach >= ch[d].reach
           none == [k \in {} |-> 0]
<1>1. \A c \in owned : ch[c].reach \in Nat
  BY RowFields DEF ChannelsFit, Fits
<1>2. CASE owned = {}
  <2>1. P!ScoreOf(ch) = P!Capability("DISTRIBUTOR", none, 0, "SELF", 50)
    BY <1>2 DEF P!ScoreOf
  <2>2. P!Capability("DISTRIBUTOR", none, 0, "SELF", 50) \in 0 .. 100
    BY ComputedFits
  <2> HIDE DEF none
  <2> QED BY <2>1, <2>2, ProfileNumbers
<1>3. CASE owned # {}
  <2>1. IsFiniteSet(owned)
    BY ProfileNumbers, FS_Subset
  <2> DEFINE r == [c \in owned |-> ch[c].reach]
  <2>2. \E c \in owned : \A d \in owned : r[c] >= r[d]
    <3>1. \A c \in owned : r[c] \in Nat BY <1>1
    <3> HIDE DEF r, owned
    <3> QED BY <1>3, <2>1, <3>1, LargestOf
  <2>3. \E c \in owned : \A d \in owned : ch[c].reach >= ch[d].reach
    <3> HIDE DEF owned
    <3> QED BY <2>2
  <2>4. best \in owned
    <3> HIDE DEF owned
    <3> QED BY <2>3
  <2>5. P!ScoreOf(ch) = P!Capability("DISTRIBUTOR", none, ch[best].reach, ch[best].tier, 50)
    BY <1>3 DEF P!ScoreOf
  <2>6. ch[best].reach \in Nat
    BY <1>1, <2>4
  <2> HIDE DEF best
  <2>7. P!Capability("DISTRIBUTOR", none, ch[best].reach, ch[best].tier, 50) \in 0 .. 100
    BY <2>6, ComputedFits
  <2> HIDE DEF none
  <2> QED BY <2>5, <2>7, ProfileNumbers
<1> QED BY <1>2, <1>3

LEMMA ReachAtFits ==
  ASSUME NEW claimed \in Claims, NEW tier \in {"SELF", "SCREENSHOT", "INSIGHTS"}
  PROVE  P!ReachAt(claimed, tier) \in Nat /\ (P!ReachAt(claimed, tier) > Cap => tier # "SELF")
<1>1. claimed \in Nat /\ Cap \in Nat
  BY ProfileNumbers
<1> DEFINE reach == P!ReachAt(claimed, tier)
<1>2. reach \in Nat /\ (tier = "SELF" => reach <= Cap)
  BY <1>1, ReachFits DEF P!ReachAt
<1> HIDE DEF reach
<1>3. reach > Cap => tier # "SELF"
  BY <1>1, <1>2
<1> QED BY <1>2, <1>3 DEF reach

\* The row of one channel changes.
LEMMA RowChanged ==
  ASSUME NEW ch, ChannelsFit(ch), NEW c \in Channel, NEW row, row = None \/ Fits(row)
  PROVE  /\ ChannelsFit([ch EXCEPT ![c] = row])
         /\ \A d \in Channel : [ch EXCEPT ![c] = row][d] = IF d = c THEN row ELSE ch[d]
<1> DEFINE to == [ch EXCEPT ![c] = row]
<1>1. \A d \in Channel : to[d] = IF d = c THEN row ELSE ch[d]
  BY DEF ChannelsFit
<1>2. to \in [Channel -> P!Row \cup {None}]
  BY DEF ChannelsFit, Fits
<1>3. \A d \in Channel : to[d] # None => Fits(to[d])
  <2> HIDE DEF to
  <2> QED BY <1>1 DEF ChannelsFit
<1> HIDE DEF to
<1>4. ChannelsFit(to)
  BY <1>2, <1>3 DEF ChannelsFit
<1> QED BY <1>1, <1>4 DEF to

\* A decision about a channel, or new evidence.
LEMMA RowMarked ==
  ASSUME NEW row, Fits(row), NEW s \in {"PENDING_REVIEW", "ACTIVE", "REJECTED"},
         NEW b \in BOOLEAN, s = "ACTIVE" => ~b
  PROVE  LET to == [[row EXCEPT !.status = s] EXCEPT !.fresh = b] IN Fits(to) /\ to.status = s
<1> DEFINE half == [row EXCEPT !.status = s]
           to == [half EXCEPT !.fresh = b]
<1>1. half \in P!Row /\ half.reach = row.reach /\ half.tier = row.tier /\ half.status = s
  BY DEF Fits, P!Row
<1> HIDE DEF half
<1>2. to \in P!Row /\ to.reach = row.reach /\ to.tier = row.tier /\ to.status = s /\ to.fresh = b
  BY <1>1 DEF P!Row
<1> HIDE DEF to
<1>3. Fits(to) /\ to.status = s
  BY <1>2 DEF Fits
<1> QED BY <1>3 DEF to, half

\* A request goes on, or is done.
LEMMA PlaceChanged ==
  ASSUME ProfileInv, NEW r \in Worker, NEW place \in P!Places, NEW what, P!Goto(r, place, what)
  PROVE  /\ doing' \in [Worker -> P!Places] /\ DOMAIN seen' = Worker
         /\ doing'[r] = place /\ seen'[r] = what
         /\ \A q \in Worker \ {r} : doing'[q] = doing[q] /\ seen'[q] = seen[q]
BY DEF ProfileInv, P!TypeOK, P!Goto

\* Without overlaps it is this request's turn.
LEMMA TurnTaken ==
  ASSUME NEW r \in Worker, calm' = calm,
         calm => \A q \in Worker \ {r} : doing[q] = "idle",
         \A q \in Worker \ {r} : doing'[q] = doing[q],
         doing'[r] = "submit" => seen'[r].status = status' /\ (seen'[r].filled => filled')
  PROVE  Turns'
BY DEF Turns

LEMMA TurnOf ==
  ASSUME ProfileInv, NEW r \in Worker, doing[r] # "idle" \/ P!Free(r)
  PROVE  calm => \A q \in Worker \ {r} : doing[q] = "idle"
BY DEF ProfileInv, Turns, P!Free

LEMMA ProfileParts ==
  ASSUME ProfileInv
  PROVE  /\ filled \in BOOLEAN /\ calm \in BOOLEAN
         /\ status \in {"PROFILE_INCOMPLETE", "AWAITING_APPROVAL", "ACTIVE", "REJECTED", "SUSPENDED"}
         /\ user \in {"ACTIVE", "SUSPENDED"} /\ capability \in 0 .. 100 \cup {None}
         /\ told \in {None, "approved", "rejected", "suspended", "reactivated"}
         /\ doing \in [Worker -> P!Places] /\ DOMAIN seen = Worker
         /\ ChannelsFit(channel) /\ Scored(channel, capability) /\ Turns /\ P!DecisionsStand
         /\ P!Owned = {c \in Channel : channel[c] # None}
BY DEF ProfileInv, P!TypeOK, P!Owned

LEMMA SaveProfileStep ==
  ASSUME ProfileInv, NEW r \in Worker, P!SaveProfile(r)
  PROVE  ProfileInv'
<1> DEFINE read == [P!Profile EXCEPT !.filled = TRUE]
<1>1. /\ P!Free(r) /\ filled' = TRUE /\ P!Goto(r, "submit", read)
      /\ UNCHANGED <<status, user, capability, channel, told, calm>>
  BY DEF P!SaveProfile
<1>2. read.status = status
  BY DEF P!Profile
<1> HIDE DEF read
<1>3. "submit" \in P!Places
  BY DEF P!Places
<1>4. /\ doing' \in [Worker -> P!Places] /\ DOMAIN seen' = Worker /\ seen'[r] = read
      /\ \A q \in Worker \ {r} : doing'[q] = doing[q]
  BY <1>1, <1>3, PlaceChanged
<1>5. Turns'
  <2>1. calm => \A q \in Worker \ {r} : doing[q] = "idle"
    BY <1>1, TurnOf
  <2> QED BY <1>1, <1>2, <1>4, <2>1, TurnTaken
<1>6. P!DecisionsStand'
  BY <1>1, ProfileParts DEF P!DecisionsStand
<1>7. ChannelsFit(channel') /\ Scored(channel', capability')
  BY <1>1, ProfileParts
<1> QED BY <1>1, <1>4, <1>5, <1>6, <1>7, ProfileParts DEF ProfileInv, P!TypeOK, ChannelsFit

LEMMA SubmitStep ==
  ASSUME ProfileInv, NEW r \in Worker, P!Submit(r)
  PROVE  ProfileInv'
<1>1. /\ doing[r] = "submit" /\ P!Goto(r, "idle", None)
      /\ UNCHANGED <<filled, user, capability, channel, told, calm>>
      /\ \/ status' = status
         \/ status' = "AWAITING_APPROVAL" /\ seen[r].filled /\ seen[r].status = "PROFILE_INCOMPLETE"
  BY DEF P!Submit, P!Done
<1>2. "idle" \in P!Places
  BY DEF P!Places
<1>3. /\ doing' \in [Worker -> P!Places] /\ DOMAIN seen' = Worker /\ doing'[r] = "idle"
      /\ \A q \in Worker \ {r} : doing'[q] = doing[q]
  BY <1>1, <1>2, PlaceChanged
<1>4. Turns'
  <2>1. calm => \A q \in Worker \ {r} : doing[q] = "idle"
    BY <1>1, TurnOf
  <2> QED BY <1>1, <1>3, <2>1, TurnTaken
<1>5. P!DecisionsStand'
  <2>1. calm => seen[r].status = status /\ (seen[r].filled => filled)
    BY <1>1, ProfileParts DEF Turns
  <2>2. CASE status' = status
    BY <1>1, <2>2, ProfileParts DEF P!DecisionsStand
  <2>3. CASE status' = "AWAITING_APPROVAL" /\ seen[r].filled /\ seen[r].status = "PROFILE_INCOMPLETE"
    BY <1>1, <2>1, <2>3, ProfileParts DEF P!DecisionsStand
  <2> QED BY <1>1, <2>2, <2>3
<1>6. ChannelsFit(channel') /\ Scored(channel', capability')
  BY <1>1, ProfileParts
<1> QED BY <1>1, <1>3, <1>4, <1>5, <1>6, ProfileParts DEF ProfileInv, P!TypeOK, ChannelsFit

\* The row of a channel changes, and nothing that was decided about the promoter does.
LEMMA ChannelStep ==
  ASSUME ProfileInv, NEW c \in Channel, NEW row, row = None \/ Fits(row),
         row # None /\ row.status = "ACTIVE" => channel[c] # None /\ channel[c].status = "ACTIVE",
         channel' = [channel EXCEPT ![c] = row],
         UNCHANGED <<filled, status, user, capability, told, calm>>,
         doing' \in [Worker -> P!Places], DOMAIN seen' = Worker, Turns'
  PROVE  ProfileInv'
<1> DEFINE to == [channel EXCEPT ![c] = row]
<1>1. ChannelsFit(channel') /\ \A d \in Channel : channel'[d] = IF d = c THEN row ELSE channel[d]
  <2>1. ChannelsFit(channel)
    BY ProfileParts
  <2>2. ChannelsFit(to)
    BY <2>1, RowChanged
  <2>3. \A d \in Channel : to[d] = IF d = c THEN row ELSE channel[d]
    BY <2>1 DEF ChannelsFit
  <2>4. channel' = to
    OBVIOUS
  <2> HIDE DEF to
  <2> QED BY <2>2, <2>3, <2>4
<1> HIDE DEF to
<1>2. Scored(channel', capability')
  BY <1>1, ProfileParts DEF Scored
<1>3. P!DecisionsStand'
  BY ProfileParts DEF P!DecisionsStand
<1> QED BY <1>1, <1>2, <1>3, ProfileParts DEF ProfileInv, P!TypeOK, ChannelsFit

LEMMA TurnKept ==
  ASSUME ProfileInv, UNCHANGED <<filled, status, calm, doing, seen>>
  PROVE  Turns'
BY DEF ProfileInv, Turns

LEMMA AddChannelStep ==
  ASSUME ProfileInv, NEW r \in Worker, NEW c \in Channel, NEW claimed \in Claims,
         P!AddChannel(r, c, claimed)
  PROVE  ProfileInv'
<1> DEFINE row == [claimed |-> claimed, tier |-> "SELF", reach |-> P!ReachAt(claimed, "SELF"),
                   status |-> "PENDING_REVIEW", fresh |-> TRUE]
<1>1. /\ P!Free(r) /\ channel' = [channel EXCEPT ![c] = row] /\ P!Goto(r, "submit", P!Profile)
      /\ UNCHANGED <<filled, status, user, capability, told, calm>>
  BY DEF P!AddChannel
<1>2. Fits(row) /\ row.status # "ACTIVE"
  <2>1. P!ReachAt(claimed, "SELF") \in Nat /\ ~(P!ReachAt(claimed, "SELF") > Cap)
    BY ReachAtFits
  <2> QED BY <2>1 DEF Fits, P!Row
<1> HIDE DEF row
<1>3. "submit" \in P!Places /\ P!Profile.status = status /\ P!Profile.filled = filled
  BY DEF P!Places, P!Profile
<1>4. /\ doing' \in [Worker -> P!Places] /\ DOMAIN seen' = Worker /\ seen'[r] = P!Profile
      /\ \A q \in Worker \ {r} : doing'[q] = doing[q]
  BY <1>1, <1>3, PlaceChanged
<1>5. Turns'
  <2>1. calm => \A q \in Worker \ {r} : doing[q] = "idle"
    BY <1>1, TurnOf
  <2> QED BY <1>1, <1>3, <1>4, <2>1, TurnTaken
<1> QED BY <1>1, <1>2, <1>4, <1>5, ChannelStep

LEMMA AttachStep ==
  ASSUME ProfileInv, NEW r \in Worker, NEW c \in Channel, P!AttachEvidence(r, c)
  PROVE  ProfileInv'
<1> DEFINE row == [[channel[c] EXCEPT !.status = "PENDING_REVIEW"] EXCEPT !.fresh = TRUE]
<1>1. channel[c] # None /\ UNCHANGED <<filled, status, user, capability, told, calm, doing, seen>>
  BY DEF P!AttachEvidence, P!Owned
<1>2. channel' = [channel EXCEPT ![c] = row]
  BY ProfileParts DEF P!AttachEvidence, ChannelsFit
<1>3. Fits(row) /\ row.status # "ACTIVE"
  BY <1>1, RowMarked, ProfileParts DEF ChannelsFit
<1> HIDE DEF row
<1>4. Turns' /\ doing' \in [Worker -> P!Places] /\ DOMAIN seen' = Worker
  BY <1>1, TurnKept, ProfileParts
<1> QED BY <1>1, <1>2, <1>3, <1>4, ChannelStep

LEMMA RemoveStep ==
  ASSUME ProfileInv, NEW r \in Worker, NEW c \in Channel, P!RemoveChannel(r, c)
  PROVE  ProfileInv'
<1>1. /\ channel' = [channel EXCEPT ![c] = None]
      /\ UNCHANGED <<filled, status, user, capability, told, calm, doing, seen>>
  BY DEF P!RemoveChannel
<1>2. Turns' /\ doing' \in [Worker -> P!Places] /\ DOMAIN seen' = Worker
  BY <1>1, TurnKept, ProfileParts
<1> QED BY <1>1, <1>2, ChannelStep

LEMMA SetTierStep ==
  ASSUME ProfileInv, NEW r \in Worker, NEW c \in Channel, NEW tier \in {"SELF", "SCREENSHOT", "INSIGHTS"},
         P!SetTier(r, c, tier)
  PROVE  ProfileInv'
<1> DEFINE half == [channel[c] EXCEPT !.tier = tier]
           row == [half EXCEPT !.reach = P!ReachAt(channel[c].claimed, tier)]
<1>1. channel[c] # None /\ UNCHANGED <<filled, status, user, capability, told, calm, doing, seen>>
  BY DEF P!SetTier, P!Owned
<1>2. channel' = [channel EXCEPT ![c] = row]
  BY ProfileParts DEF P!SetTier, ChannelsFit
<1>3. Fits(channel[c]) /\ channel[c].claimed \in Claims
  BY <1>1, RowFields, ProfileParts DEF ChannelsFit, Fits
<1>4. P!ReachAt(channel[c].claimed, tier) \in Nat /\ (P!ReachAt(channel[c].claimed, tier) > Cap => tier # "SELF")
  BY <1>3, ReachAtFits
<1>5. half \in P!Row /\ half.tier = tier /\ half.status = channel[c].status /\ half.fresh = channel[c].fresh
  BY <1>3 DEF Fits, P!Row
<1> HIDE DEF half
<1>6. row \in P!Row /\ row.tier = tier /\ row.status = channel[c].status /\ row.fresh = channel[c].fresh
      /\ row.reach = P!ReachAt(channel[c].claimed, tier)
  BY <1>4, <1>5 DEF P!Row
<1> HIDE DEF row
<1>7. Fits(row)
  BY <1>3, <1>4, <1>6 DEF Fits
<1>8. Turns' /\ doing' \in [Worker -> P!Places] /\ DOMAIN seen' = Worker
  BY <1>1, TurnKept, ProfileParts
<1> QED BY <1>1, <1>2, <1>6, <1>7, <1>8, ChannelStep

LEMMA LookStep ==
  ASSUME ProfileInv, NEW r \in Worker, NEW place \in {"take", "refuse", "approve", "suspend", "reactivate"},
         NEW what, P!Free(r), P!Goto(r, place, what),
         UNCHANGED <<filled, status, user, capability, channel, told, calm>>
  PROVE  ProfileInv'
<1>1. place \in P!Places /\ place # "submit"
  BY DEF P!Places
<1>2. /\ doing' \in [Worker -> P!Places] /\ DOMAIN seen' = Worker /\ doing'[r] = place
      /\ \A q \in Worker \ {r} : doing'[q] = doing[q]
  BY <1>1, PlaceChanged
<1>3. Turns'
  <2>1. calm => \A q \in Worker \ {r} : doing[q] = "idle"
    BY TurnOf
  <2> QED BY <1>1, <1>2, <2>1, TurnTaken
<1>4. P!DecisionsStand'
  BY ProfileParts DEF P!DecisionsStand
<1>5. ChannelsFit(channel') /\ Scored(channel', capability')
  BY ProfileParts
<1> QED BY <1>2, <1>3, <1>4, <1>5, ProfileParts DEF ProfileInv, P!TypeOK, ChannelsFit

\* A request is done.
LEMMA TurnOver ==
  ASSUME ProfileInv, NEW r \in Worker, doing[r] # "idle", P!Done(r), calm' = calm
  PROVE  doing' \in [Worker -> P!Places] /\ DOMAIN seen' = Worker /\ Turns'
<1>1. "idle" \in P!Places /\ P!Goto(r, "idle", None)
  BY DEF P!Places, P!Done
<1>2. /\ doing' \in [Worker -> P!Places] /\ DOMAIN seen' = Worker /\ doing'[r] = "idle"
      /\ \A q \in Worker \ {r} : doing'[q] = doing[q]
  BY <1>1, PlaceChanged
<1>3. calm => \A q \in Worker \ {r} : doing[q] = "idle"
  BY TurnOf
<1>4. Turns'
  BY <1>2, <1>3, TurnTaken
<1> QED BY <1>2, <1>4

\* A transaction decides about channels, and scores them as they then are.
LEMMA DecidedStep ==
  ASSUME ProfileInv, ChannelsFit(channel'), capability' = P!ScoreOf(channel'),
         UNCHANGED <<filled, user, calm>>,
         \/ status' = "ACTIVE" /\ told' = "approved"
         \/ status' = status /\ told' = told,
         doing' \in [Worker -> P!Places], DOMAIN seen' = Worker, Turns'
  PROVE  ProfileInv'
<1>1. capability' \in 0 .. 100 /\ capability' # None
  BY ScoreFits
<1>2. Scored(channel', capability')
  BY <1>1 DEF Scored
<1>3. P!DecisionsStand'
  BY ProfileParts DEF P!DecisionsStand
<1> QED BY <1>1, <1>2, <1>3, ProfileParts DEF ProfileInv, P!TypeOK, ChannelsFit

LEMMA TakeStep ==
  ASSUME ProfileInv, NEW r \in Worker, P!TakeChannel(r)
  PROVE  ProfileInv'
<1>1. PICK c \in Channel : c = seen[r] /\ channel[c] # None
  BY DEF P!TakeChannel, P!Owned
<1> DEFINE row == [[channel[c] EXCEPT !.status = "ACTIVE"] EXCEPT !.fresh = FALSE]
           to == [channel EXCEPT ![c] = row]
<1>2. channel' = to
  BY <1>1, ProfileParts DEF P!TakeChannel, ChannelsFit
<1>3. Fits(row)
  BY <1>1, RowMarked, ProfileParts DEF ChannelsFit
<1> HIDE DEF row
<1>4. ChannelsFit(channel')
  <2>1. ChannelsFit(channel) BY ProfileParts
  <2>2. ChannelsFit(to) BY <1>3, <2>1, RowChanged
  <2> QED BY <1>2, <2>2
<1>5. /\ doing[r] # "idle" /\ P!Done(r) /\ UNCHANGED <<filled, user, calm>>
      /\ capability' = P!ScoreOf(channel')
      /\ \/ status' = "ACTIVE" /\ told' = "approved"
         \/ status' = status /\ told' = told
  BY DEF P!TakeChannel
<1>6. doing' \in [Worker -> P!Places] /\ DOMAIN seen' = Worker /\ Turns'
  BY <1>5, TurnOver
<1> QED BY <1>4, <1>5, <1>6, DecidedStep

LEMMA RefuseStep ==
  ASSUME ProfileInv, NEW r \in Worker, P!RefuseChannel(r)
  PROVE  ProfileInv'
<1>1. PICK c \in Channel : c = seen[r] /\ channel[c] # None
  BY DEF P!RefuseChannel, P!Owned
<1> DEFINE row == [[channel[c] EXCEPT !.status = "REJECTED"] EXCEPT !.fresh = FALSE]
           to == [channel EXCEPT ![c] = row]
<1>2. channel' = to
  BY <1>1, ProfileParts DEF P!RefuseChannel, ChannelsFit
<1>3. Fits(row)
  BY <1>1, RowMarked, ProfileParts DEF ChannelsFit
<1> HIDE DEF row
<1>4. ChannelsFit(channel')
  <2>1. ChannelsFit(channel) BY ProfileParts
  <2>2. ChannelsFit(to) BY <1>3, <2>1, RowChanged
  <2> QED BY <1>2, <2>2
<1>5. /\ doing[r] # "idle" /\ P!Done(r) /\ UNCHANGED <<filled, user, calm, status, told>>
      /\ capability' = P!ScoreOf(channel')
  BY DEF P!RefuseChannel
<1>6. doing' \in [Worker -> P!Places] /\ DOMAIN seen' = Worker /\ Turns'
  BY <1>5, TurnOver
<1> QED BY <1>4, <1>5, <1>6, DecidedStep

LEMMA ApprovePromoterStep ==
  ASSUME ProfileInv, NEW r \in Worker, P!ApprovePromoter(r)
  PROVE  ProfileInv'
<1> DEFINE taken(c) == [[channel[c] EXCEPT !.status = "ACTIVE"] EXCEPT !.fresh = FALSE]
           to == [c \in Channel |-> IF channel[c] # None /\ channel[c].status = "PENDING_REVIEW"
                                    THEN taken(c) ELSE channel[c]]
<1>1. channel' = to
  <2>1. P!Owned = {c \in Channel : channel[c] # None}
    BY DEF P!Owned
  <2> QED BY <2>1 DEF P!ApprovePromoter
<1>2. \A c \in Channel : channel[c] # None => Fits(taken(c)) /\ Fits(channel[c])
  <2>1. \A c \in Channel : channel[c] # None => Fits(channel[c])
    BY ProfileParts DEF ChannelsFit
  <2> QED BY <2>1, RowMarked
<1> HIDE DEF taken
<1>3. ChannelsFit(channel')
  <2>1. \A c \in Channel : to[c] = None \/ Fits(to[c])
    BY <1>2
  <2>2. to \in [Channel -> P!Row \cup {None}]
    BY <2>1 DEF Fits
  <2> HIDE DEF to
  <2> QED BY <1>1, <2>1, <2>2 DEF ChannelsFit
<1>4. /\ doing[r] # "idle" /\ P!Done(r) /\ UNCHANGED <<filled, user, calm>>
      /\ capability' = P!ScoreOf(channel') /\ status' = "ACTIVE" /\ told' = "approved"
  BY DEF P!ApprovePromoter
<1>5. doing' \in [Worker -> P!Places] /\ DOMAIN seen' = Worker /\ Turns'
  BY <1>4, TurnOver
<1> HIDE DEF to
<1> QED BY <1>3, <1>4, <1>5, DecidedStep

\* An admin's decision about the promoter, or about the score.
LEMMA StandingStep ==
  ASSUME ProfileInv, UNCHANGED <<filled, channel, calm>>,
         doing' \in [Worker -> P!Places], DOMAIN seen' = Worker, Turns',
         capability' = capability \/ capability' \in Scores,
         \/ UNCHANGED <<status, user, told>>
         \/ status' = "REJECTED" /\ told' = "rejected" /\ user' = user
         \/ status' = "SUSPENDED" /\ told' = "suspended" /\ user' = "SUSPENDED"
         \/ status' = "ACTIVE" /\ told' = "reactivated" /\ user' = "ACTIVE"
  PROVE  ProfileInv'
<1>1. capability' \in 0 .. 100 \cup {None} /\ Scored(channel', capability')
  BY ProfileNumbers, ProfileParts DEF Scored
<1>2. P!DecisionsStand'
  BY ProfileParts DEF P!DecisionsStand
<1>3. ChannelsFit(channel')
  BY ProfileParts
<1>4. /\ status' \in {"PROFILE_INCOMPLETE", "AWAITING_APPROVAL", "ACTIVE", "REJECTED", "SUSPENDED"}
      /\ user' \in {"ACTIVE", "SUSPENDED"} /\ told' \in {None, "approved", "rejected", "suspended", "reactivated"}
  BY ProfileParts
<1> QED BY <1>1, <1>2, <1>3, <1>4, ProfileParts DEF ProfileInv, P!TypeOK, ChannelsFit

LEMMA SetStatusStep ==
  ASSUME ProfileInv, NEW r \in Worker, P!Suspend(r) \/ P!Reactivate(r)
  PROVE  ProfileInv'
<1>1. /\ doing[r] # "idle" /\ P!Done(r) /\ UNCHANGED <<filled, capability, channel, calm>>
      /\ \/ UNCHANGED <<status, user, told>>
         \/ status' = "SUSPENDED" /\ told' = "suspended" /\ user' = "SUSPENDED"
         \/ status' = "ACTIVE" /\ told' = "reactivated" /\ user' = "ACTIVE"
  BY DEF P!Suspend, P!Reactivate, P!SetStatus
<1>2. doing' \in [Worker -> P!Places] /\ DOMAIN seen' = Worker /\ Turns'
  BY <1>1, TurnOver
<1> QED BY <1>1, <1>2, StandingStep

LEMMA RejectStep ==
  ASSUME ProfileInv, NEW r \in Worker, P!RejectPromoter(r)
  PROVE  ProfileInv'
<1>1. /\ status' = "REJECTED" /\ told' = "rejected" /\ P!Free(r)
      /\ UNCHANGED <<filled, user, capability, channel, calm, doing, seen>>
  BY DEF P!RejectPromoter
<1>2. Turns' /\ doing' \in [Worker -> P!Places] /\ DOMAIN seen' = Worker
  BY <1>1, ProfileParts DEF P!Free, Turns
<1> QED BY <1>1, <1>2, StandingStep

LEMMA SetCapabilityStep ==
  ASSUME ProfileInv, NEW r \in Worker, NEW score \in Scores, P!SetCapability(r, score)
  PROVE  ProfileInv'
<1>1. capability' = score /\ UNCHANGED <<filled, status, user, channel, told, calm, doing, seen>>
  BY DEF P!SetCapability
<1>2. Turns' /\ doing' \in [Worker -> P!Places] /\ DOMAIN seen' = Worker
  BY <1>1, TurnKept, ProfileParts
<1> QED BY <1>1, <1>2, StandingStep

LEMMA ChannelGoneStep ==
  ASSUME ProfileInv, NEW r \in Worker, P!ChannelGone(r)
  PROVE  ProfileInv'
<1>1. doing[r] # "idle" /\ P!Done(r) /\ UNCHANGED <<filled, status, user, capability, channel, told, calm>>
  BY DEF P!ChannelGone, P!rows
<1>2. doing' \in [Worker -> P!Places] /\ DOMAIN seen' = Worker /\ Turns'
  BY <1>1, TurnOver
<1> QED BY <1>1, <1>2, StandingStep

LEMMA ProfileInductive == ProfileInv /\ [P!Next]_profileVars => ProfileInv'
<1> SUFFICES ASSUME ProfileInv, [P!Next]_profileVars PROVE ProfileInv' OBVIOUS
<1>1. CASE UNCHANGED profileVars
  <2>1. /\ UNCHANGED <<filled, status, calm, doing, seen, user, capability, channel, told>>
    BY <1>1 DEF profileVars
  <2>2. Turns' /\ doing' \in [Worker -> P!Places] /\ DOMAIN seen' = Worker
    BY <2>1, TurnKept, ProfileParts
  <2> QED BY <2>1, <2>2, StandingStep
<1>2. CASE P!Next
  <2>1. PICK r \in Worker :
          \/ P!SaveProfile(r) \/ P!Submit(r)
          \/ \E c \in Channel :
               \/ \E claimed \in Claims : P!AddChannel(r, c, claimed)
               \/ P!AttachEvidence(r, c) \/ P!RemoveChannel(r, c)
               \/ \E tier \in {"SELF", "SCREENSHOT", "INSIGHTS"} : P!SetTier(r, c, tier)
               \/ \E place \in {"take", "refuse"} : P!LookAtChannel(r, c, place)
          \/ P!TakeChannel(r) \/ P!RefuseChannel(r) \/ P!ChannelGone(r)
          \/ \E place \in {"approve", "suspend", "reactivate"} : P!LookAtProfile(r, place)
          \/ P!ApprovePromoter(r) \/ P!RejectPromoter(r) \/ P!Suspend(r) \/ P!Reactivate(r)
          \/ \E score \in Scores : P!SetCapability(r, score)
    BY <1>2 DEF P!Next
  <2>2. CASE P!SaveProfile(r) BY <2>2, SaveProfileStep
  <2>3. CASE P!Submit(r) BY <2>3, SubmitStep
  <2>4. ASSUME NEW c \in Channel, NEW claimed \in Claims, P!AddChannel(r, c, claimed) PROVE ProfileInv'
    BY <2>4, AddChannelStep
  <2>5. ASSUME NEW c \in Channel, P!AttachEvidence(r, c) PROVE ProfileInv'
    BY <2>5, AttachStep
  <2>6. ASSUME NEW c \in Channel, P!RemoveChannel(r, c) PROVE ProfileInv'
    BY <2>6, RemoveStep
  <2>7. ASSUME NEW c \in Channel, NEW tier \in {"SELF", "SCREENSHOT", "INSIGHTS"}, P!SetTier(r, c, tier)
        PROVE  ProfileInv'
    BY <2>7, SetTierStep
  <2>8. ASSUME NEW c \in Channel, NEW place \in {"take", "refuse"}, P!LookAtChannel(r, c, place)
        PROVE  ProfileInv'
    <3>1. P!Free(r) /\ P!Goto(r, place, c) /\ UNCHANGED <<filled, status, user, capability, channel, told, calm>>
      BY <2>8 DEF P!LookAtChannel, P!rows
    <3> QED BY <3>1, LookStep
  <2>9. CASE P!TakeChannel(r) BY <2>9, TakeStep
  <2>10. CASE P!RefuseChannel(r) BY <2>10, RefuseStep
  <2>11. CASE P!ChannelGone(r) BY <2>11, ChannelGoneStep
  <2>12. ASSUME NEW place \in {"approve", "suspend", "reactivate"}, P!LookAtProfile(r, place)
         PROVE  ProfileInv'
    <3>1. /\ P!Free(r) /\ P!Goto(r, place, P!Profile)
          /\ UNCHANGED <<filled, status, user, capability, channel, told, calm>>
      BY <2>12 DEF P!LookAtProfile, P!rows
    <3> QED BY <3>1, LookStep
  <2>13. CASE P!ApprovePromoter(r) BY <2>13, ApprovePromoterStep
  <2>14. CASE P!RejectPromoter(r) BY <2>14, RejectStep
  <2>15. CASE P!Suspend(r) \/ P!Reactivate(r) BY <2>15, SetStatusStep
  <2>16. ASSUME NEW score \in Scores, P!SetCapability(r, score) PROVE ProfileInv'
    BY <2>16, SetCapabilityStep
  <2> QED BY <2>1, <2>2, <2>3, <2>4, <2>5, <2>6, <2>7, <2>8, <2>9, <2>10, <2>11, <2>12, <2>13, <2>14, <2>15, <2>16
<1> QED BY <1>1, <1>2

LEMMA ProfileInitially == P!Init => ProfileInv
<1> SUFFICES ASSUME P!Init PROVE ProfileInv OBVIOUS
<1> USE DEF P!Init
<1>1. P!TypeOK /\ DOMAIN seen = Worker
  BY PromoterAssumption DEF P!TypeOK, P!Places, P!ProfilesAssumption
<1>2. ChannelsFit(channel) /\ Scored(channel, capability)
  BY DEF ChannelsFit, Scored
<1>3. Turns /\ P!DecisionsStand
  BY DEF Turns, P!DecisionsStand
<1> QED BY <1>1, <1>2, <1>3 DEF ProfileInv

LEMMA ProfileKept == ProfileInv => P!TypeOK /\ P!DecisionsStand /\ P!MatchedIsReviewed
<1> SUFFICES ASSUME ProfileInv PROVE P!TypeOK /\ P!DecisionsStand /\ P!MatchedIsReviewed OBVIOUS
<1>1. P!Owned = {c \in Channel : channel[c] # None}
  BY DEF P!Owned
<1>2. P!MatchedIsReviewed
  BY <1>1 DEF ProfileInv, ChannelsFit, Fits, Scored, P!MatchedIsReviewed
<1> QED BY <1>2 DEF ProfileInv

-------------------------------------------------------------------------------
(* The points of a campaign *)

\* What a submission earns if nothing is trimmed, what it has earned, and how many
\* approvals may be under way.
Due(s) == L!DeliveryAwards(Facts[s], Points)
Got(s) == L!SumOf(s, L!Types)
Value(row, t) == IF row[t] = None THEN 0 ELSE row[t]
Hands == IF sole THEN 1 ELSE Cardinality(Worker)

\* An event is of a decision: no award before it, none that a rejection gives, and never
\* more than is due.
EventsFit ==
  \A s \in Submission :
    /\ verdict[s] = "PENDING" => \A t \in L!Type : events[s][t] = None
    /\ verdict[s] # "APPROVED" => \A i \in 1 .. 4 : events[s][L!Earning[i]] = None
    /\ \A i \in 1 .. 4 : Value(events[s], L!Earning[i]) \in 0 .. Due(s)[i]

\* Awards as they were trimmed: no more than is due and than the cap, all of it or as much
\* as the cap leaves.
AwardFits(r) ==
  LET s == note[r].of  p == Facts[s].promoter  a == note[r].awards IN
  task[r] = "award" =>
    /\ s \in Submission /\ verdict[s] = "PENDING"
    /\ DOMAIN a = 1 .. 4 /\ \A i \in 1 .. 4 : a[i] \in 0 .. Due(s)[i]
    /\ PointCap > 0 => /\ L!Sum(a) <= PointCap
                       /\ L!Sum(a) = L!Sum(Due(s)) \/ L!Earned(p) + L!Sum(a) >= PointCap

\* What each request is about to award a promoter, and what that comes to at most.
Awarding(p) ==
  [r \in Worker |-> IF task[r] = "award" /\ Facts[note[r].of].promoter = p THEN L!Sum(note[r].awards) ELSE 0]
CapFits ==
  \A p \in L!Promoter : PointCap > 0 /\ ~backfilled =>
    L!Earned(p) + SumFunctionOnSet(Awarding(p), Worker) <= Hands * PointCap

\* An approved submission has earned what is due, or the promoter the cap.
ApprovedFits ==
  \A s \in Submission : verdict[s] = "APPROVED" /\ PointCap > 0 =>
    Got(s) = L!Sum(Due(s)) \/ L!Earned(Facts[s].promoter) >= PointCap

\* Rows that rank n promoters.
Ranked(rows, n) ==
  /\ {x.rank : x \in rows} = 1 .. n
  /\ \A x, y \in rows : /\ x.rank = y.rank \/ x.promoter = y.promoter => x = y
                        /\ x.rank < y.rank => x.points >= y.points
Rankings(rows) == \E n \in 0 .. Cardinality(Submission) : Ranked(rows, n)
Of(n) == {x \in snapshot : x.by = n}

\* A rebuild leaves the rows of another as they are or deletes them all.
RebuildFits(r) ==
  /\ task[r] \in {"replace", "commit"} =>
       /\ note[r].standing \subseteq [promoter : L!Promoter, rank : Nat, points : Int]
       /\ Rankings(note[r].standing)
  /\ task[r] = "commit" => /\ \A x, y \in snapshot : x.by = y.by /\ x \in note[r].sees => y \in note[r].sees
                           /\ sole => note[r].sees = snapshot
                           /\ \A x \in note[r].sees : x.by \in 1 .. rebuilds

SnapshotFits ==
  /\ \A n \in 1 .. 2 : Rankings(Of(n))
  /\ \A x \in snapshot : x.by <= rebuilds
  /\ sole => \A x, y \in snapshot : x.by = y.by

\* When nothing overlaps one request is under way at most.
OneReview == sole => \A q, r \in Worker : task[q] # "idle" /\ task[r] # "idle" => q = r
NoneTwice == \A q, r \in Worker : task[q] = "award" /\ task[r] = "award" /\ note[q].of = note[r].of => q = r

PointsInv ==
  /\ L!TypeOK /\ note = [r \in Worker |-> note[r]]
  /\ EventsFit /\ CapFits /\ ApprovedFits /\ SnapshotFits /\ OneReview /\ NoneTwice
  /\ \A r \in Worker : AwardFits(r) /\ RebuildFits(r)

-------------------------------------------------------------------------------

\* The operators an instance brings are those of the library.
LEMMA SameSum == ASSUME NEW f, NEW S PROVE L!SumFunctionOnSet(f, S) = SumFunctionOnSet(f, S)
BY Zenon DEF L!SumFunctionOnSet, L!FoldFunctionOnSet, L!MapThenFoldSet,
             SumFunctionOnSet, FoldFunctionOnSet, MapThenFoldSet

LEMMA SameCardinality == ASSUME NEW S PROVE L!Cardinality(S) = Cardinality(S)
BY Zenon DEF L!Cardinality, Cardinality

LEMMA FewAreFinite ==
  \A a, b, c, d : /\ IsFiniteSet({}) /\ IsFiniteSet({a}) /\ IsFiniteSet({a, b})
                  /\ IsFiniteSet({a, b, c}) /\ IsFiniteSet({a, b, c, d})
<1> TAKE a, b, c, d
<1>1. IsFiniteSet({}) /\ IsFiniteSet({a})
  BY FS_EmptySet, FS_Singleton
<1>2. IsFiniteSet({a} \cup {b})
  BY <1>1, FS_AddElement
<1>3. IsFiniteSet(({a} \cup {b}) \cup {c})
  BY <1>2, FS_AddElement
<1>4. IsFiniteSet((({a} \cup {b}) \cup {c}) \cup {d})
  BY <1>3, FS_AddElement
<1>5. /\ {a} \cup {b} = {a, b} /\ ({a} \cup {b}) \cup {c} = {a, b, c}
      /\ (({a} \cup {b}) \cup {c}) \cup {d} = {a, b, c, d}
  OBVIOUS
<1> QED BY <1>1, <1>2, <1>3, <1>4, <1>5

\* The assumptions on the points, and the four types of awards.
LEMMA PointsConstants ==
  /\ IsFiniteSet(Submission) /\ IsFiniteSet(Worker) /\ None \notin Int /\ PointCap \in Nat
  /\ \A s \in Submission : Facts[s].promised \in Nat \ {0} /\ Facts[s].verified \in Nat /\ Facts[s].mult \in Nat
  /\ Points.completed \in Nat /\ Points.onTime \in Nat /\ Points.clean \in Nat
  /\ Points.overBase \in Nat /\ Points.overCapRatio \in Nat
  /\ Points.rejected \in Nat /\ Points.duplicate \in Nat
<1>1. L!LeaderboardAssumption
  BY PromoterAssumption
<1>2. \A S : L!IsFiniteSet(S) <=> IsFiniteSet(S)
  BY Zenon DEF L!IsFiniteSet, IsFiniteSet
<1> QED BY <1>1, <1>2 DEF L!LeaderboardAssumption

LEMMA EarningTypes ==
  /\ L!Types = {L!Earning[1], L!Earning[2], L!Earning[3], L!Earning[4]}
  /\ \A i, j \in 1 .. 4 : i # j => L!Earning[i] # L!Earning[j]
  /\ L!Types \subseteq L!Type /\ "PENALTY_REJECTED" \notin L!Types /\ "PENALTY_DUPLICATE" \notin L!Types
  /\ \A i \in 1 .. 4 : L!Earning[i] \in L!Types
  /\ IsFiniteSet(L!Type) /\ IsFiniteSet(L!Types)
<1>1. L!Types = {L!Earning[1], L!Earning[2], L!Earning[3], L!Earning[4]}
  <2>1. DOMAIN L!Earning = 1 .. 4
    BY DEF L!Earning
  <2> QED BY <2>1 DEF L!Types, L!ToSet
<1>2. \A i, j \in 1 .. 4 : i # j => L!Earning[i] # L!Earning[j]
  BY DEF L!Earning
<1>3. "PENALTY_REJECTED" \notin L!Types /\ "PENALTY_DUPLICATE" \notin L!Types
  BY <1>1 DEF L!Earning
<1>4. IsFiniteSet(L!Types)
  BY <1>1, FewAreFinite
<1>5. IsFiniteSet({"PENALTY_REJECTED", "PENALTY_DUPLICATE"})
  BY FewAreFinite
<1>6. IsFiniteSet(L!Type)
  BY <1>4, <1>5, FS_Union DEF L!Type, L!Penalties
<1> QED BY <1>1, <1>2, <1>3, <1>4, <1>6 DEF L!Type

\* A sum of four.
LEMMA FourAdded ==
  ASSUME NEW f, NEW e, NEW S, \A x : x \in S <=> x \in {e[1], e[2], e[3], e[4]},
         \A i, j \in 1 .. 4 : i # j => e[i] # e[j], \A i \in 1 .. 4 : f[e[i]] \in Int
  PROVE  SumFunctionOnSet(f, S) = f[e[1]] + f[e[2]] + f[e[3]] + f[e[4]]
<1> PICK a, b, c, d : a = e[1] /\ b = e[2] /\ c = e[3] /\ d = e[4]
  OBVIOUS
<1>0. /\ a # b /\ a # c /\ a # d /\ b # c /\ b # d /\ c # d
      /\ f[a] \in Int /\ f[b] \in Int /\ f[c] \in Int /\ f[d] \in Int
  OBVIOUS
<1>1. PICK one : one = {} \cup {a}
  OBVIOUS
<1>2. PICK two : two = one \cup {b}
  OBVIOUS
<1>3. PICK three : three = two \cup {c}
  OBVIOUS
<1>4. one = {a} /\ two = {a, b} /\ three = {a, b, c} /\ S = three \cup {d} /\ S = {a, b, c, d}
  BY <1>1, <1>2, <1>3
<1>5. IsFiniteSet({}) /\ IsFiniteSet(one) /\ IsFiniteSet(two) /\ IsFiniteSet(three)
  <2>1. IsFiniteSet({})
    BY FS_EmptySet
  <2>2. IsFiniteSet(one)
    BY <1>1, <2>1, FS_AddElement
  <2>3. IsFiniteSet(two)
    BY <1>2, <2>2, FS_AddElement
  <2> QED BY <1>3, <2>1, <2>2, <2>3, FS_AddElement
<1>6. /\ a \notin {} /\ \A x \in {} \cup {a} : f[x] \in Int
      /\ b \notin one /\ \A x \in one \cup {b} : f[x] \in Int
      /\ c \notin two /\ \A x \in two \cup {c} : f[x] \in Int
      /\ d \notin three /\ \A x \in three \cup {d} : f[x] \in Int
  BY <1>0, <1>4
<1>7. SumFunctionOnSet(f, {} \cup {a}) = f[a] + SumFunctionOnSet(f, {})
  BY <1>5, <1>6, SumMore
<1>8. SumFunctionOnSet(f, one \cup {b}) = f[b] + SumFunctionOnSet(f, one)
  BY <1>5, <1>6, SumMore
<1>9. SumFunctionOnSet(f, two \cup {c}) = f[c] + SumFunctionOnSet(f, two)
  BY <1>5, <1>6, SumMore
<1>10. SumFunctionOnSet(f, three \cup {d}) = f[d] + SumFunctionOnSet(f, three)
  BY <1>5, <1>6, SumMore
<1>11. SumFunctionOnSet(f, {}) = 0
  BY SumNothing
<1>12. SumFunctionOnSet(f, S) = f[d] + SumFunctionOnSet(f, three)
  BY <1>4, <1>10
<1>13. SumFunctionOnSet(f, three) = f[c] + SumFunctionOnSet(f, two)
  BY <1>3, <1>9
<1>14. SumFunctionOnSet(f, two) = f[b] + SumFunctionOnSet(f, one)
  BY <1>2, <1>8
<1>15. SumFunctionOnSet(f, one) = f[a] + 0
  BY <1>1, <1>7, <1>11
<1> QED BY <1>12, <1>13, <1>14, <1>15

LEMMA AwardSum ==
  ASSUME NEW a, DOMAIN a = 1 .. 4, \A i \in 1 .. 4 : a[i] \in Int
  PROVE  L!Sum(a) = a[1] + a[2] + a[3] + a[4]
<1>1. PICK e : e = [i \in 1 .. 4 |-> i]
  OBVIOUS
<1>2. \A x : x \in 1 .. 4 <=> x \in {e[1], e[2], e[3], e[4]}
  BY <1>1
<1>3. \A i \in 1 .. 4 : e[i] = i
  BY <1>1
<1>4. (\A i, j \in 1 .. 4 : i # j => e[i] # e[j]) /\ \A i \in 1 .. 4 : a[e[i]] \in Int
  BY <1>3
<1>5. SumFunctionOnSet(a, 1 .. 4) = a[e[1]] + a[e[2]] + a[e[3]] + a[e[4]]
  BY ONLY <1>2, <1>4, FourAdded
<1> QED BY <1>3, <1>5, SameSum DEF L!Sum

\* What the events of a submission earn.
RowGot(row) == Value(row, L!Earning[1]) + Value(row, L!Earning[2])
               + Value(row, L!Earning[3]) + Value(row, L!Earning[4])

LEMMA RowSum ==
  ASSUME NEW row, \A i \in 1 .. 4 : Value(row, L!Earning[i]) \in Int
  PROVE  SumFunctionOnSet([t \in L!Types |-> Value(row, t)], L!Types) = RowGot(row)
<1> DEFINE f == [t \in L!Types |-> Value(row, t)]
<1>1. \A i \in 1 .. 4 : f[L!Earning[i]] = Value(row, L!Earning[i])
  BY EarningTypes
<1> HIDE DEF f
<1>2. PICK e, S : e = L!Earning /\ S = L!Types
  OBVIOUS
<1>3. \A x : x \in S <=> x \in {e[1], e[2], e[3], e[4]}
  BY <1>2, EarningTypes
<1>4. \A i, j \in 1 .. 4 : i # j => e[i] # e[j]
  BY <1>2, EarningTypes
<1>5. \A i \in 1 .. 4 : f[e[i]] \in Int
  BY <1>1, <1>2
<1>6. SumFunctionOnSet(f, S) = f[e[1]] + f[e[2]] + f[e[3]] + f[e[4]]
  BY ONLY <1>3, <1>4, <1>5, FourAdded
<1>7. SumFunctionOnSet(f, L!Types) = RowGot(row)
  BY <1>1, <1>2, <1>6 DEF RowGot
<1> QED BY <1>7 DEF f

\* What comes before the next award.
LEMMA SumNext ==
  ASSUME NEW f, NEW n \in Nat, \A i \in 1 .. n + 1 : f[i] \in Int
  PROVE  SumFunctionOnSet(f, 1 .. n + 1) = f[n + 1] + SumFunctionOnSet(f, 1 .. n)
<1>1. PICK S : S = 1 .. n
  OBVIOUS
<1>2. IsFiniteSet(S)
  BY <1>1, FS_Interval
<1>3. PICK x \in Nat : x = n + 1
  OBVIOUS
<1>4. x \notin S /\ \A y \in S \cup {x} : f[y] \in Int
  BY <1>1, <1>3
<1>5. SumFunctionOnSet(f, S \cup {x}) = f[x] + SumFunctionOnSet(f, S)
  BY <1>2, <1>4, SumMore
<1>6. PICK T : T = 1 .. n + 1
  OBVIOUS
<1>7. T = S \cup {x}
  BY <1>1, <1>3, <1>6
<1> QED BY <1>1, <1>3, <1>5, <1>6, <1>7

LEMMA BeforeSum ==
  ASSUME NEW a, DOMAIN a = 1 .. 4, \A i \in 1 .. 4 : a[i] \in Int
  PROVE  /\ L!SumBefore(a, 1) = 0 /\ L!SumBefore(a, 2) = a[1]
         /\ L!SumBefore(a, 3) = a[1] + a[2] /\ L!SumBefore(a, 4) = a[1] + a[2] + a[3]
<1>1. \A i : L!SumBefore(a, i) = SumFunctionOnSet(a, 1 .. i - 1)
  BY SameSum DEF L!SumBefore
<1>2. L!SumBefore(a, 1) = 0
  <2>1. 1 .. 1 - 1 = {}
    OBVIOUS
  <2> PICK S : S = 1 .. 1 - 1
    OBVIOUS
  <2>2. SumFunctionOnSet(a, S) = 0
    BY <2>1, SumNothing
  <2> QED BY <1>1, <2>2
<1>3. ASSUME NEW i \in 1 .. 3 PROVE L!SumBefore(a, i + 1) = a[i] + L!SumBefore(a, i)
  <2>1. PICK n \in Nat : n = i - 1
    OBVIOUS
  <2>2. n + 1 = i /\ (i + 1) - 1 = n + 1 /\ \A j \in 1 .. n + 1 : a[j] \in Int
    BY <2>1
  <2>3. SumFunctionOnSet(a, 1 .. n + 1) = a[n + 1] + SumFunctionOnSet(a, 1 .. n)
    BY <2>2, SumNext
  <2> QED BY <1>1, <2>1, <2>2, <2>3
<1>4. /\ L!SumBefore(a, 1 + 1) = a[1] + L!SumBefore(a, 1)
      /\ L!SumBefore(a, 2 + 1) = a[2] + L!SumBefore(a, 2)
      /\ L!SumBefore(a, 3 + 1) = a[3] + L!SumBefore(a, 3)
  BY <1>3
<1>5. 1 + 1 = 2 /\ 2 + 1 = 3 /\ 3 + 1 = 4
  OBVIOUS
<1> QED BY <1>2, <1>4, <1>5

\* applyCampaignCap(): what is kept is what fits under the cap.
LEMMA KeptFits ==
  ASSUME NEW a, DOMAIN a = 1 .. 4, \A i \in 1 .. 4 : a[i] \in Nat, NEW prior \in Nat, NEW cap \in Nat,
         NEW kept, kept = L!ApplyCampaignCap(a, prior, cap)
  PROVE  /\ DOMAIN kept = 1 .. 4 /\ \A i \in 1 .. 4 : kept[i] \in 0 .. a[i]
         /\ L!Sum(kept) \in Nat
         /\ cap > 0 => /\ L!Sum(kept) <= L!Sum(a)
                       /\ L!Sum(kept) = L!Sum(a) \/ prior + L!Sum(kept) >= cap
                       /\ L!Sum(kept) = 0 \/ prior + L!Sum(kept) <= cap
<1>1. PICK x \in Nat, y \in Nat, z \in Nat, u \in Nat : x = a[1] /\ y = a[2] /\ z = a[3] /\ u = a[4]
  OBVIOUS
<1>2. L!Sum(a) = x + y + z + u
  BY <1>1, AwardSum
<1>3. CASE cap = 0
  <2>1. kept = a
    BY <1>3 DEF L!ApplyCampaignCap
  <2> QED BY <1>1, <1>2, <1>3, <2>1
<1>4. CASE cap > 0
  <2> DEFINE Keep(before, award) == L!Clamp(cap - prior - before, 0, award)
  <2>1. L!Greatest(0, prior) = prior
    BY DEF L!Greatest
  <2>2. kept = [i \in 1 .. 4 |-> Keep(L!SumBefore(a, i), a[i])]
    BY <1>4, <2>1 DEF L!ApplyCampaignCap
  <2>3. /\ kept[1] = Keep(0, x) /\ kept[2] = Keep(x, y)
        /\ kept[3] = Keep(x + y, z) /\ kept[4] = Keep(x + y + z, u)
    BY <1>1, <2>2, BeforeSum
  <2>4. \A b \in Nat, w \in Nat : Keep(b, w) \in 0 .. w
    BY DEF L!Clamp, L!Greatest, L!Least
  <2> HIDE DEF Keep
  <2>5. kept[1] \in 0 .. x /\ kept[2] \in 0 .. y /\ kept[3] \in 0 .. z /\ kept[4] \in 0 .. u
    <3>1. 0 \in Nat /\ x + y \in Nat /\ x + y + z \in Nat
      OBVIOUS
    <3> QED BY <2>3, <2>4, <3>1
  <2>6. DOMAIN kept = 1 .. 4 /\ \A i \in 1 .. 4 : kept[i] \in 0 .. a[i]
    BY <1>1, <2>2, <2>5
  <2>7. L!Sum(kept) = kept[1] + kept[2] + kept[3] + kept[4]
    BY <2>6, AwardSum
  <2>8. PICK p \in Nat, q \in Nat, r \in Nat, t \in Nat :
           p = Keep(0, x) /\ q = Keep(x, y) /\ r = Keep(x + y, z) /\ t = Keep(x + y + z, u)
    BY <2>3, <2>5
  <2>9. /\ p + q + r + t <= x + y + z + u
        /\ p + q + r + t = x + y + z + u \/ prior + (p + q + r + t) >= cap
        /\ p + q + r + t = 0 \/ prior + (p + q + r + t) <= cap
    BY <1>4, <2>8 DEF Keep, L!Clamp, L!Greatest, L!Least
  <2>10. L!Sum(kept) = p + q + r + t
    BY <2>3, <2>7, <2>8
  <2> QED BY <1>2, <2>6, <2>9, <2>10
<1> QED BY <1>3, <1>4

\* deliveryAwards(): four awards, none of them negative.
LEMMA DueIs ==
  ASSUME NEW s \in Submission
  PROVE  /\ DOMAIN Due(s) = 1 .. 4 /\ \A i \in 1 .. 4 : Due(s)[i] \in Nat
         /\ L!Sum(Due(s)) = Due(s)[1] + Due(s)[2] + Due(s)[3] + Due(s)[4]
<1>1. \A n \in Nat, d \in Nat \ {0} : L!Rounded(n, d) \in Nat
  BY DEF L!Rounded
<1>2. \A m, n \in Nat : m * n \in Nat
  OBVIOUS
<1>3. \A p \in Nat : L!Rounded(p * Facts[s].mult, 100) \in Nat
  <2> SUFFICES ASSUME NEW p \in Nat PROVE L!Rounded(p * Facts[s].mult, 100) \in Nat
    OBVIOUS
  <2>1. p * Facts[s].mult \in Nat
    BY <1>2, PointsConstants
  <2> QED BY <1>1, <2>1
<1>4. L!OverDelivery(Facts[s].verified, Facts[s].promised, Points) \in Nat
  <2> DEFINE counted == L!Least(Facts[s].verified, Points.overCapRatio * Facts[s].promised)
  <2>1. counted \in Nat
    BY <1>2, PointsConstants DEF L!Least
  <2> HIDE DEF counted
  <2>2. ASSUME counted > Facts[s].promised
        PROVE  L!Rounded(Points.overBase * (counted - Facts[s].promised), Facts[s].promised) \in Nat
    <3>1. counted - Facts[s].promised \in Nat
      BY <2>1, <2>2, PointsConstants
    <3>2. Points.overBase * (counted - Facts[s].promised) \in Nat
      BY <1>2, <3>1, PointsConstants
    <3> QED BY <1>1, <3>2, PointsConstants
  <2> QED BY <2>2 DEF L!OverDelivery, counted
<1>5. DOMAIN Due(s) = 1 .. 4 /\ \A i \in 1 .. 4 : Due(s)[i] \in Nat
  <2>1. /\ L!Rounded(Points.completed * Facts[s].mult, 100) \in Nat
        /\ L!Rounded(L!OverDelivery(Facts[s].verified, Facts[s].promised, Points) * Facts[s].mult, 100) \in Nat
    BY <1>3, <1>4, PointsConstants
  <2> QED BY <2>1, PointsConstants DEF Due, L!DeliveryAwards
<1> QED BY <1>5, AwardSum

-------------------------------------------------------------------------------

\* What a promoter has earned, of any events.
Total(ev, p) == SumFunctionOnSet([s \in L!Of(p) |-> RowGot(ev[s])], L!Of(p))
Countable(ev) == \A s \in Submission : \A i \in 1 .. 4 : Value(ev[s], L!Earning[i]) \in Nat

LEMMA RowIsNat ==
  ASSUME NEW ev, Countable(ev), NEW s \in Submission
  PROVE  RowGot(ev[s]) \in Nat
BY DEF Countable, RowGot

LEMMA SubmissionsOf == \A p : L!Of(p) \subseteq Submission /\ IsFiniteSet(L!Of(p))
<1>1. \A p : L!Of(p) \subseteq Submission
  BY DEF L!Of
<1> QED BY <1>1, PointsConstants, FS_Subset

LEMMA TotalIsNat ==
  ASSUME NEW ev, Countable(ev), NEW p
  PROVE  Total(ev, p) \in Nat
<1> PICK S, f : S = L!Of(p) /\ f = [s \in L!Of(p) |-> RowGot(ev[s])]
  OBVIOUS
<1>1. IsFiniteSet(S) /\ \A s \in S : f[s] \in Nat
  BY SubmissionsOf, RowIsNat
<1>2. SumFunctionOnSet(f, S) \in Nat
  BY <1>1, SumIsNat
<1> QED BY <1>2 DEF Total

LEMMA TotalGrows ==
  ASSUME NEW ev, NEW new, Countable(ev), Countable(new), NEW p,
         \A s \in Submission : RowGot(ev[s]) <= RowGot(new[s])
  PROVE  Total(ev, p) <= Total(new, p)
<1> PICK S, f, g : S = L!Of(p) /\ f = [s \in L!Of(p) |-> RowGot(ev[s])] /\ g = [s \in L!Of(p) |-> RowGot(new[s])]
  OBVIOUS
<1>1. IsFiniteSet(S) /\ \A s \in S : f[s] \in Int /\ g[s] \in Int /\ f[s] <= g[s]
  BY SubmissionsOf, RowIsNat
<1>2. SumFunctionOnSet(f, S) <= SumFunctionOnSet(g, S)
  BY <1>1, SumMonotone
<1> QED BY <1>2 DEF Total

LEMMA TotalChanged ==
  ASSUME NEW ev, NEW new, Countable(ev), Countable(new), NEW s \in Submission,
         \A x \in Submission \ {s} : new[x] = ev[x]
  PROVE  /\ Total(new, Facts[s].promoter)
              = Total(ev, Facts[s].promoter) + (RowGot(new[s]) - RowGot(ev[s]))
         /\ \A p : p # Facts[s].promoter => Total(new, p) = Total(ev, p)
<1>1. Total(new, Facts[s].promoter) = Total(ev, Facts[s].promoter) + (RowGot(new[s]) - RowGot(ev[s]))
  <2> PICK S, f, g : /\ S = L!Of(Facts[s].promoter) /\ f = [x \in S |-> RowGot(ev[x])]
                     /\ g = [x \in S |-> RowGot(new[x])]
    OBVIOUS
  <2>0. s \in S
    BY DEF L!Of
  <2>1. IsFiniteSet(S) /\ s \in S /\ \A x \in S : f[x] \in Int /\ g[x] \in Int
    BY <2>0, SubmissionsOf, RowIsNat
  <2>2. \A x \in S \ {s} : f[x] = g[x]
    BY SubmissionsOf
  <2>3. SumFunctionOnSet(g, S) = SumFunctionOnSet(f, S) + (g[s] - f[s])
    BY <2>1, <2>2, SumChanged
  <2> QED BY <2>1, <2>3 DEF Total
<1>2. ASSUME NEW p, p # Facts[s].promoter PROVE Total(new, p) = Total(ev, p)
  <2> PICK S, f, g : /\ S = L!Of(p) /\ f = [x \in S |-> RowGot(ev[x])] /\ g = [x \in S |-> RowGot(new[x])]
    OBVIOUS
  <2>1. IsFiniteSet(S) /\ \A x \in S : f[x] = g[x]
    BY <1>2, SubmissionsOf DEF L!Of
  <2>2. SumFunctionOnSet(f, S) = SumFunctionOnSet(g, S)
    BY <2>1, SumSame
  <2> QED BY <2>2 DEF Total
<1> QED BY <1>1, <1>2

\* These are the sums of the model.
LEMMA GotIs ==
  /\ Countable(events) => \A s \in Submission : Got(s) = RowGot(events[s])
  /\ Countable(events') => \A s \in Submission : Got(s)' = RowGot(events'[s])
<1>1. \A s : Got(s) = SumFunctionOnSet([t \in L!Types |-> Value(events[s], t)], L!Types)
  BY SameSum DEF Got, L!SumOf, L!Worth, Value
<1>2. \A s : Got(s)' = SumFunctionOnSet([t \in L!Types |-> Value(events'[s], t)], L!Types)
  BY SameSum DEF Got, L!SumOf, L!Worth, Value, L!Types
<1>3. ASSUME NEW ev, Countable(ev), NEW s \in Submission
      PROVE  SumFunctionOnSet([t \in L!Types |-> Value(ev[s], t)], L!Types) = RowGot(ev[s])
  <2> PICK row : row = ev[s]
    OBVIOUS
  <2>1. \A i \in 1 .. 4 : Value(row, L!Earning[i]) \in Int
    BY <1>3 DEF Countable
  <2> QED BY <2>1, RowSum
<1> QED BY <1>1, <1>2, <1>3

LEMMA EarnedIs ==
  /\ Countable(events) => \A p : L!Earned(p) = Total(events, p)
  /\ Countable(events') => \A p : L!Earned(p)' = Total(events', p)
<1>1. \A p : L!Earned(p) = SumFunctionOnSet([s \in L!Of(p) |-> Got(s)], L!Of(p))
  BY SameSum DEF Got, L!Earned
<1>2. \A p : L!Earned(p)' = SumFunctionOnSet([s \in L!Of(p) |-> Got(s)'], L!Of(p))
  BY SameSum DEF Got, L!Earned, L!Of
<1>3. ASSUME Countable(events), NEW p
      PROVE  [s \in L!Of(p) |-> Got(s)] = [s \in L!Of(p) |-> RowGot(events[s])]
  BY <1>3, GotIs, SubmissionsOf
<1>4. ASSUME Countable(events'), NEW p
      PROVE  [s \in L!Of(p) |-> Got(s)'] = [s \in L!Of(p) |-> RowGot(events'[s])]
  BY <1>4, GotIs, SubmissionsOf
<1> QED BY <1>1, <1>2, <1>3, <1>4 DEF Total

LEMMA EventsCount == EventsFit => Countable(events)
BY DueIs DEF EventsFit, Countable

-------------------------------------------------------------------------------

\* What a request is about to award, a number that fits under the cap.
LEMMA AwardIsNat ==
  ASSUME NEW r \in Worker, AwardFits(r), task[r] = "award"
  PROVE  /\ note[r].of \in Submission /\ L!Sum(note[r].awards) \in Nat
         /\ PointCap > 0 => L!Sum(note[r].awards) <= PointCap
<1> PICK s, a : s = note[r].of /\ a = note[r].awards
  OBVIOUS
<1>1. s \in Submission /\ DOMAIN a = 1 .. 4 /\ \A i \in 1 .. 4 : a[i] \in 0 .. Due(s)[i]
  BY DEF AwardFits
<1>2. \A i \in 1 .. 4 : a[i] \in Nat
  BY <1>1, DueIs
<1>5. DOMAIN a = 1 .. 4 /\ \A i \in 1 .. 4 : a[i] \in Int
  BY <1>1, <1>2
<1>3. L!Sum(a) = a[1] + a[2] + a[3] + a[4]
  BY ONLY <1>5, AwardSum
<1>4. L!Sum(a) \in Nat
  BY <1>2, <1>3
<1> QED BY <1>1, <1>4 DEF AwardFits

LEMMA HandsAreNat ==
  ASSUME \A r \in Worker : AwardFits(r), NEW p
  PROVE  /\ \A r \in Worker : Awarding(p)[r] \in Nat /\ (PointCap > 0 => Awarding(p)[r] <= PointCap)
         /\ SumFunctionOnSet(Awarding(p), Worker) \in Nat
<1>1. ASSUME NEW r \in Worker
      PROVE  Awarding(p)[r] \in Nat /\ (PointCap > 0 => Awarding(p)[r] <= PointCap)
  BY AwardIsNat, PointsConstants DEF Awarding
<1> PICK f : f = Awarding(p)
  OBVIOUS
<1>2. IsFiniteSet(Worker) /\ \A r \in Worker : f[r] \in Nat
  BY <1>1, PointsConstants
<1>3. SumFunctionOnSet(f, Worker) \in Nat
  BY <1>2, SumIsNat
<1> QED BY <1>1, <1>3

\* One request moves: what is in hand changes by what it has.
LEMMA HandMoves ==
  ASSUME \A r \in Worker : AwardFits(r), NEW p, NEW r \in Worker,
         \A q \in Worker \ {r} : task'[q] = task[q] /\ note'[q] = note[q],
         Awarding(p)'[r] \in Int
  PROVE  SumFunctionOnSet(Awarding(p)', Worker)
           = SumFunctionOnSet(Awarding(p), Worker) + (Awarding(p)'[r] - Awarding(p)[r])
<1> PICK f, g : f = Awarding(p) /\ g = Awarding(p)'
  OBVIOUS
<1>1. \A q \in Worker \ {r} : g[q] = f[q]
  BY DEF Awarding, L!Sum
<1>2. IsFiniteSet(Worker) /\ \A q \in Worker : f[q] \in Int /\ g[q] \in Int
  BY <1>1, HandsAreNat, PointsConstants
<1>3. SumFunctionOnSet(g, Worker) = SumFunctionOnSet(f, Worker) + (g[r] - f[r])
  BY <1>1, <1>2, SumChanged
<1> QED BY <1>3

\* The others have at most the cap each in hand, and nothing if requests take turns.
LEMMA OthersInHand ==
  ASSUME PointsInv, PointCap > 0, NEW p, NEW r \in Worker, sole => \A q \in Worker : task[q] = "idle"
  PROVE  SumFunctionOnSet(Awarding(p), Worker) - Awarding(p)[r] <= Hands * PointCap - PointCap
<1> PICK f, R : f = Awarding(p) /\ R = Worker \ {r}
  OBVIOUS
<1>1. IsFiniteSet(Worker) /\ \A q \in Worker : f[q] \in Nat /\ f[q] <= PointCap
  BY HandsAreNat, PointsConstants DEF PointsInv
<1>2. IsFiniteSet(R) /\ Cardinality(R) = Cardinality(Worker) - 1 /\ Cardinality(R) \in Nat
  BY <1>1, FS_RemoveElement, FS_CardinalityType
<1>3. SumFunctionOnSet(f, Worker) = f[r] + SumFunctionOnSet(f, R)
  BY <1>1, SumAny
<1>4. SumFunctionOnSet(f, R) \in Nat
  BY <1>1, <1>2, SumIsNat
<1>5. CASE sole
  <2>1. \A q \in R : f[q] = 0
    BY <1>5 DEF Awarding
  <2>2. SumFunctionOnSet(f, R) = 0
    BY <1>2, <2>1, SumOfZeros
  <2>3. Hands = 1
    BY <1>5 DEF Hands
  <2> QED BY <1>1, <1>3, <2>2, <2>3, PointsConstants
<1>6. CASE ~sole
  <2>1. SumFunctionOnSet(f, R) <= PointCap * Cardinality(R)
    BY <1>1, <1>2, SumAtMost, PointsConstants
  <2>2. PICK n \in Nat, c \in Nat : n = Cardinality(R) /\ c = PointCap
    BY <1>2, PointsConstants
  <2>3. Hands = n + 1
    BY <1>2, <1>6, <2>2, FS_CardinalityType, PointsConstants DEF Hands
  <2>4. (n + 1) * c - c = c * n
    BY <2>2
  <2> QED BY <1>1, <1>3, <1>4, <2>1, <2>2, <2>3, <2>4
<1> QED BY <1>5, <1>6

\* An award under way goes on as long as its submission waits and nobody loses points.
LEMMA AwardGoesOn ==
  ASSUME NEW r \in Worker, AwardFits(r), task'[r] = task[r], note'[r] = note[r],
         task[r] = "award" => verdict'[note[r].of] = verdict[note[r].of],
         Countable(events), Countable(events'), \A p : Total(events, p) <= Total(events', p)
  PROVE  AwardFits(r)'
<1> SUFFICES ASSUME task[r] = "award" PROVE AwardFits(r)'
  BY DEF AwardFits
<1> PICK s, p, a : s = note[r].of /\ p = Facts[s].promoter /\ a = note[r].awards
  OBVIOUS
<1>1. L!Earned(p) = Total(events, p) /\ L!Earned(p)' = Total(events', p)
  BY EarnedIs
<1>2. Total(events, p) \in Nat /\ Total(events', p) \in Nat /\ L!Sum(a) \in Nat
  BY TotalIsNat, AwardIsNat
<1>3. L!Earned(p) + L!Sum(a) >= PointCap => L!Earned(p)' + L!Sum(a) >= PointCap
  BY <1>1, <1>2, PointsConstants
<1>4. /\ s \in Submission /\ verdict'[s] = "PENDING"
      /\ DOMAIN a = 1 .. 4 /\ \A i \in 1 .. 4 : a[i] \in 0 .. Due(s)[i]
      /\ PointCap > 0 => /\ L!Sum(a) <= PointCap
                         /\ L!Sum(a) = L!Sum(Due(s)) \/ L!Earned(p) + L!Sum(a) >= PointCap
  BY DEF AwardFits
<1>5. L!Sum(a)' = L!Sum(a) /\ L!Sum(Due(s))' = L!Sum(Due(s)) /\ Due(s)' = Due(s)
  BY DEF L!Sum, Due, L!DeliveryAwards
<1>6. PICK e : e = L!Earned(p)'
  OBVIOUS
<1> QED BY <1>3, <1>4, <1>5, <1>6 DEF AwardFits

-------------------------------------------------------------------------------

\* A request goes somewhere, the others stay where they are.
LEMMA RequestMoves ==
  ASSUME PointsInv, NEW r \in Worker, NEW place, NEW what, L!Goto(r, place, what),
         place \in {"idle", "award", "score", "replace", "commit"},
         L!Free(r) \/ task[r] # "idle", sole' = sole
  PROVE  /\ task' \in [Worker -> {"idle", "award", "score", "replace", "commit"}]
         /\ note' = [q \in Worker |-> note'[q]]
         /\ task'[r] = place /\ note'[r] = what
         /\ \A q \in Worker \ {r} : task'[q] = task[q] /\ note'[q] = note[q]
         /\ OneReview'
         /\ place # "award" => NoneTwice'
<1>1. task \in [Worker -> {"idle", "award", "score", "replace", "commit"}]
  BY DEF PointsInv, L!TypeOK
<1>2. note = [q \in Worker |-> note[q]]
  BY DEF PointsInv
<1>3. task' = [task EXCEPT ![r] = place] /\ note' = [note EXCEPT ![r] = what]
  BY DEF L!Goto
<1>4. /\ task' \in [Worker -> {"idle", "award", "score", "replace", "commit"}] /\ task'[r] = place
      /\ \A q \in Worker \ {r} : task'[q] = task[q]
  BY <1>1, <1>3
<1>5. /\ DOMAIN note = Worker /\ note'[r] = what
      /\ \A q \in Worker \ {r} : note'[q] = note[q]
  BY <1>2, <1>3
<1>6. note' = [q \in Worker |-> note'[q]]
  BY <1>3, <1>5
<1>7. sole => \A q \in Worker \ {r} : task[q] = "idle"
  BY DEF PointsInv, OneReview, L!Free
<1>8. OneReview'
  BY <1>4, <1>7 DEF OneReview
<1>9. place # "award" => NoneTwice'
  BY <1>4, <1>5 DEF PointsInv, NoneTwice
<1> QED BY <1>4, <1>5, <1>6, <1>8, <1>9

\* The events and the decisions stay, and what they are told of.
LEMMA EventsStay ==
  ASSUME PointsInv, events' = events, verdict' = verdict
  PROVE  /\ EventsFit' /\ ApprovedFits'
         /\ Countable(events) /\ Countable(events') /\ \A p : Total(events, p) <= Total(events', p)
         /\ \A p : L!Earned(p) \in Nat /\ L!Earned(p)' = L!Earned(p)
<1>1. Countable(events) /\ Countable(events')
  BY EventsCount DEF PointsInv
<1>2. \A p : L!Earned(p)' = L!Earned(p)
  BY <1>1, EarnedIs
<1>3. \A s : Got(s)' = Got(s) /\ Due(s)' = Due(s) /\ L!Sum(Due(s))' = L!Sum(Due(s))
  BY DEF Got, L!SumOf, L!Worth, L!Types, Due, L!Sum, L!DeliveryAwards
<1>4. EventsFit'
  BY <1>3 DEF PointsInv, EventsFit, Value, L!Type, L!Types, L!Earning, L!Penalties
<1>5. ApprovedFits'
  BY <1>2, <1>3 DEF PointsInv, ApprovedFits
<1>6. \A p : Total(events, p) \in Nat
  BY <1>1, TotalIsNat
<1>7. \A p : L!Earned(p) \in Nat /\ Total(events, p) <= Total(events', p)
  BY <1>1, <1>6, EarnedIs
<1> QED BY <1>1, <1>2, <1>4, <1>5, <1>7

\* Whoever is not awarding has nothing in hand.
LEMMA NothingInHand ==
  ASSUME NEW p, NEW r \in Worker
  PROVE  /\ task[r] # "award" => Awarding(p)[r] = 0
         /\ task'[r] # "award" => Awarding(p)'[r] = 0
BY DEF Awarding

LEMMA CapStays ==
  ASSUME PointsInv, events' = events, verdict' = verdict, UNCHANGED <<backfilled, sole>>,
         NEW r \in Worker, task[r] # "award", task'[r] # "award",
         \A q \in Worker \ {r} : task'[q] = task[q] /\ note'[q] = note[q]
  PROVE  CapFits' /\ \A q \in Worker : AwardFits(q)'
<1>1. ASSUME NEW p PROVE SumFunctionOnSet(Awarding(p)', Worker) = SumFunctionOnSet(Awarding(p), Worker)
  <2>1. Awarding(p)[r] = 0 /\ Awarding(p)'[r] = 0
    BY NothingInHand
  <2>2. \A q \in Worker : AwardFits(q)
    BY DEF PointsInv
  <2>3. SumFunctionOnSet(Awarding(p)', Worker)
          = SumFunctionOnSet(Awarding(p), Worker) + (Awarding(p)'[r] - Awarding(p)[r])
    BY <2>1, <2>2, HandMoves
  <2>4. SumFunctionOnSet(Awarding(p), Worker) \in Nat
    BY <2>2, HandsAreNat
  <2> QED BY <2>1, <2>3, <2>4
<1>2. CapFits'
  <2>1. Hands' = Hands
    BY DEF Hands
  <2> QED BY <1>1, <2>1, EventsStay DEF PointsInv, CapFits
<1>3. ASSUME NEW q \in Worker PROVE AwardFits(q)'
  <2>1. CASE q = r
    BY <2>1 DEF AwardFits
  <2>2. CASE q # r
    <3>1. task'[q] = task[q] /\ note'[q] = note[q] /\ AwardFits(q)
      BY <2>2 DEF PointsInv
    <3> QED BY <3>1, EventsStay, AwardGoesOn
  <2> QED BY <2>1, <2>2
<1> QED BY <1>2, <1>3

\* A rebuild goes on as long as nobody touches the snapshot.
LEMMA RebuildGoesOn ==
  ASSUME NEW r \in Worker, RebuildFits(r), task'[r] = task[r], note'[r] = note[r],
         UNCHANGED <<snapshot, rebuilds, sole>>
  PROVE  RebuildFits(r)'
BY DEF RebuildFits, Rankings, Ranked

LEMMA SnapshotStays ==
  ASSUME SnapshotFits, UNCHANGED <<snapshot, rebuilds, sole>>
  PROVE  SnapshotFits'
BY DEF SnapshotFits, Of, Rankings, Ranked

-------------------------------------------------------------------------------

\* ReadPrior(): what fits under the cap, on top of what the others have in hand.
LEMMA ReadPriorStep ==
  ASSUME PointsInv, NEW r \in Worker, NEW s \in Submission, L!ReadPrior(r, s)
  PROVE  PointsInv'
<1> DEFINE p == Facts[s].promoter
           a == L!ApplyCampaignCap(Due(s), L!Earned(p), PointCap)
           what == [of |-> s, awards |-> a]
<1>1. /\ L!Free(r) /\ verdict[s] = "PENDING" /\ L!Goto(r, "award", what)
      /\ \A q \in Worker : task[q] = "award" => note[q].of # s
      /\ UNCHANGED <<events, verdict, snapshot, rebuilds, backfilled, sole>>
  BY DEF L!ReadPrior, Due
<1>2. /\ task' \in [Worker -> {"idle", "award", "score", "replace", "commit"}]
      /\ note' = [q \in Worker |-> note'[q]]
      /\ task'[r] = "award" /\ note'[r] = what
      /\ \A q \in Worker \ {r} : task'[q] = task[q] /\ note'[q] = note[q]
      /\ OneReview'
  <2> HIDE DEF what
  <2> QED BY <1>1, RequestMoves
<1>3. /\ EventsFit' /\ ApprovedFits'
      /\ Countable(events) /\ Countable(events') /\ \A x : Total(events, x) <= Total(events', x)
      /\ \A x : L!Earned(x) \in Nat /\ L!Earned(x)' = L!Earned(x)
  <2> HIDE DEF what
  <2> QED BY <1>1, EventsStay
<1>4. /\ DOMAIN a = 1 .. 4 /\ \A i \in 1 .. 4 : a[i] \in 0 .. Due(s)[i]
      /\ L!Sum(a) \in Nat
      /\ PointCap > 0 => /\ L!Sum(a) = L!Sum(Due(s)) \/ L!Earned(p) + L!Sum(a) >= PointCap
                         /\ L!Sum(a) = 0 \/ L!Earned(p) + L!Sum(a) <= PointCap
  <2>1. L!Earned(p) \in Nat /\ PointCap \in Nat
    BY <1>3, PointsConstants
  <2>2. DOMAIN Due(s) = 1 .. 4 /\ \A i \in 1 .. 4 : Due(s)[i] \in Nat
    BY DueIs
  <2> PICK d, k, e : d = Due(s) /\ k = a /\ e = L!Earned(p)
    OBVIOUS
  <2>3. /\ DOMAIN k = 1 .. 4 /\ \A i \in 1 .. 4 : k[i] \in 0 .. d[i]
        /\ L!Sum(k) \in Nat
        /\ PointCap > 0 => /\ L!Sum(k) <= L!Sum(d)
                           /\ L!Sum(k) = L!Sum(d) \/ e + L!Sum(k) >= PointCap
                           /\ L!Sum(k) = 0 \/ e + L!Sum(k) <= PointCap
    BY <2>1, <2>2, KeptFits
  <2> QED BY <2>3
<1> PICK k : k = a
  OBVIOUS
<1> HIDE DEF a
<1>5. L!Sum(k)' = L!Sum(k) /\ Due(s)' = Due(s) /\ L!Sum(Due(s))' = L!Sum(Due(s))
  BY DEF L!Sum, Due, L!DeliveryAwards
<1>6. note'[r].of = s /\ note'[r].awards = k
  BY <1>2
<1>7. PointCap > 0 => L!Sum(k) <= PointCap
  BY <1>3, <1>4, PointsConstants
<1>8. AwardFits(r)'
  <2> PICK e : e = L!Earned(p)
    OBVIOUS
  <2>1. L!Earned(p)' = e
    BY <1>3
  <2>2. PointCap > 0 => L!Sum(k) = L!Sum(Due(s)) \/ e + L!Sum(k) >= PointCap
    BY <1>4
  <2>3. verdict'[s] = "PENDING"
    BY <1>1
  <2> QED BY <1>4, <1>5, <1>6, <1>7, <2>1, <2>2, <2>3 DEF AwardFits
<1>9. ASSUME NEW q \in Worker PROVE AwardFits(q)' /\ RebuildFits(q)'
  <2>1. CASE q = r
    BY <1>2, <1>8, <2>1 DEF RebuildFits
  <2>2. CASE q # r
    <3>1. task'[q] = task[q] /\ note'[q] = note[q] /\ AwardFits(q) /\ RebuildFits(q)
      BY <1>2, <2>2 DEF PointsInv
    <3>2. AwardFits(q)'
      BY <1>1, <1>3, <3>1, AwardGoesOn
    <3> QED BY <1>1, <3>1, <3>2, RebuildGoesOn
  <2> QED BY <2>1, <2>2
<1>10. NoneTwice'
  BY <1>1, <1>2, <1>6 DEF PointsInv, NoneTwice
<1>11. CapFits'
  <2> SUFFICES ASSUME NEW x \in L!Promoter, PointCap > 0, ~backfilled
               PROVE  L!Earned(x)' + SumFunctionOnSet(Awarding(x)', Worker) <= Hands * PointCap
    BY <1>1 DEF CapFits, Hands, L!Promoter
  <2>1. \A q \in Worker : AwardFits(q)
    BY DEF PointsInv
  <2>2. Awarding(x)[r] = 0
    BY <1>1, NothingInHand DEF L!Free
  <2>3. Awarding(x)'[r] = IF x = p THEN L!Sum(k) ELSE 0
    BY <1>2, <1>5, <1>6 DEF Awarding
  <2>4. SumFunctionOnSet(Awarding(x)', Worker)
          = SumFunctionOnSet(Awarding(x), Worker) + (Awarding(x)'[r] - Awarding(x)[r])
    <3>1. Awarding(x)'[r] \in Int
      BY <1>4, <2>3
    <3> QED BY <1>2, <2>1, <3>1, HandMoves
  <2>5. SumFunctionOnSet(Awarding(x), Worker) \in Nat /\ L!Earned(x) \in Nat
    BY <1>3, <2>1, HandsAreNat
  <2>6. L!Earned(x) + SumFunctionOnSet(Awarding(x), Worker) <= Hands * PointCap
    BY DEF PointsInv, CapFits
  <2>7. SumFunctionOnSet(Awarding(x), Worker) - Awarding(x)[r] <= Hands * PointCap - PointCap
    BY <1>1, OthersInHand DEF L!Free
  <2>8. Hands * PointCap \in Int
    <3>1. Hands \in Nat
      BY PointsConstants, FS_CardinalityType DEF Hands
    <3> QED BY <3>1, PointsConstants
  <2> PICK h, m : h = SumFunctionOnSet(Awarding(x), Worker) /\ m = Hands * PointCap
    OBVIOUS
  <2>9. CASE x = p /\ L!Sum(k) # 0
    <3>1. L!Earned(x) + L!Sum(k) <= PointCap
      BY <1>4, <2>9
    <3> QED BY <1>3, <1>4, <2>2, <2>3, <2>4, <2>5, <2>7, <2>8, <2>9, <3>1, PointsConstants
  <2>10. CASE ~(x = p /\ L!Sum(k) # 0)
    <3>1. Awarding(x)'[r] = 0
      BY <2>3, <2>10
    <3> QED BY <1>3, <2>2, <2>4, <2>5, <2>6, <2>8, <3>1
  <2> QED BY <2>9, <2>10
<1>12. SnapshotFits'
  BY <1>1, SnapshotStays DEF PointsInv
<1>13. L!TypeOK'
  BY <1>1, <1>2 DEF PointsInv, L!TypeOK, L!Type, L!Types, L!Earning, L!Penalties, L!Promoter
<1> QED BY <1>2, <1>3, <1>9, <1>10, <1>11, <1>12, <1>13 DEF PointsInv

-------------------------------------------------------------------------------

\* PointsService.award(): the awards of a row that has none are its values.
LEMMA AwardedIs ==
  ASSUME NEW row \in [L!Type -> Int \cup {None}], NEW a, DOMAIN a = 1 .. 4, \A i \in 1 .. 4 : a[i] \in Nat
  PROVE  /\ L!Awarded(row, a) \in [L!Type -> Int \cup {None}]
         /\ \A i \in 1 .. 4 : L!Awarded(row, a)[L!Earning[i]]
              = IF row[L!Earning[i]] = None /\ a[i] > 0 THEN a[i] ELSE row[L!Earning[i]]
<1>1. DOMAIN L!Earning = 1 .. 4
  BY DEF L!Earning
<1>3. ASSUME NEW i \in 1 .. 4
      PROVE  L!Awarded(row, a)[L!Earning[i]]
               = IF row[L!Earning[i]] = None /\ a[i] > 0 THEN a[i] ELSE row[L!Earning[i]]
  <2>1. L!Earning[i] \in L!Type
    BY EarningTypes
  <2>2. (\E j \in DOMAIN L!Earning : L!Earning[j] = L!Earning[i] /\ a[j] > 0) <=> a[i] > 0
    BY <1>1, EarningTypes
  <2> PICK E : E = L!Earning
    OBVIOUS
  <2> PICK t : t = E[i]
    OBVIOUS
  <2>3. L!Awarded(row, a)[t] = IF row[t] = None /\ \E j \in DOMAIN E : E[j] = t /\ a[j] > 0
                               THEN a[CHOOSE j \in DOMAIN E : E[j] = t] ELSE row[t]
    BY <2>1 DEF L!Awarded
  <2>4. (CHOOSE j \in DOMAIN E : E[j] = t) = i
    BY <1>1, EarningTypes
  <2>5. (\E j \in DOMAIN E : E[j] = t /\ a[j] > 0) <=> a[i] > 0
    BY <2>2
  <2>6. L!Awarded(row, a)[t] = IF row[t] = None /\ a[i] > 0 THEN a[i] ELSE row[t]
    BY ONLY <2>3, <2>4, <2>5
  <2> QED BY <2>6
<1>4. ASSUME NEW t \in L!Type PROVE L!Awarded(row, a)[t] \in Int \cup {None}
  <2>1. CASE \E i \in 1 .. 4 : L!Earning[i] = t
    BY <1>3, <2>1
  <2>2. CASE ~\E i \in 1 .. 4 : L!Earning[i] = t
    <3>1. L!Awarded(row, a)[t] = row[t]
      BY <1>1, <2>2 DEF L!Awarded
    <3> QED BY <3>1
  <2> QED BY <2>1, <2>2
<1>5. L!Awarded(row, a) = [t \in L!Type |-> L!Awarded(row, a)[t]]
  BY DEF L!Awarded
<1> QED BY <1>3, <1>4, <1>5

\* Points are only ever added.
LEMMA TotalsGrow ==
  ASSUME Countable(events), Countable(events'),
         \A s \in Submission : RowGot(events[s]) <= RowGot(events'[s])
  PROVE  /\ \A p : Total(events, p) <= Total(events', p)
         /\ \A p : L!Earned(p) \in Nat /\ L!Earned(p)' \in Nat /\ L!Earned(p) <= L!Earned(p)'
<1>1. \A p : Total(events, p) <= Total(events', p)
  BY TotalGrows
<1>2. \A p : Total(events, p) \in Nat /\ Total(events', p) \in Nat
  BY TotalIsNat
<1> QED BY <1>1, <1>2, EarnedIs

\* rejectSubmission(): the penalties leave what is earned as it is.
LEMMA RejectSubmissionStep ==
  ASSUME PointsInv, NEW s \in Submission, L!Reject(s)
  PROVE  PointsInv'
<1>1. /\ verdict[s] = "PENDING"
      /\ \A q \in Worker : task[q] = "award" => note[q].of # s
      /\ verdict' = [verdict EXCEPT ![s] = "REJECTED"]
      /\ UNCHANGED <<snapshot, rebuilds, backfilled, sole, task, note>>
  BY DEF L!Reject
<1>2. /\ events \in [Submission -> [L!Type -> Int \cup {None}]]
      /\ verdict \in [Submission -> {"PENDING", "APPROVED", "REJECTED"}]
  BY DEF PointsInv, L!TypeOK
<1>3. /\ events' \in [Submission -> [L!Type -> Int \cup {None}]]
      /\ \A x \in Submission \ {s} : events'[x] = events[x]
      /\ \A t \in L!Type : t \notin L!Penalties => events'[s][t] = events[s][t]
  <2> PICK u, v : u = 0 - Points.rejected /\ v = IF Facts[s].flagged THEN 0 - Points.duplicate ELSE None
    OBVIOUS
  <2>1. u \in Int /\ v \in Int \cup {None}
    BY PointsConstants
  <2>2. events' = [events EXCEPT ![s] = [@ EXCEPT !["PENALTY_REJECTED"] = u, !["PENALTY_DUPLICATE"] = v]]
    BY DEF L!Reject
  <2> PICK row : row = [events[s] EXCEPT !["PENALTY_REJECTED"] = u, !["PENALTY_DUPLICATE"] = v]
    OBVIOUS
  <2>3. row \in [L!Type -> Int \cup {None}]
    BY <1>2, <2>1
  <2>4. events' = [events EXCEPT ![s] = row]
    BY <2>2
  <2>5. events' \in [Submission -> [L!Type -> Int \cup {None}]] /\ events'[s] = row
        /\ \A x \in Submission \ {s} : events'[x] = events[x]
    BY <1>2, <2>3, <2>4
  <2>6. \A t \in L!Type : t # "PENALTY_REJECTED" /\ t # "PENALTY_DUPLICATE" => row[t] = events[s][t]
    BY <1>2
  <2> QED BY <2>5, <2>6 DEF L!Penalties
<1>4. \A i \in 1 .. 4 : L!Earning[i] \in L!Type /\ L!Earning[i] \notin L!Penalties
  BY EarningTypes DEF L!Penalties
<1>5. \A x \in Submission : \A i \in 1 .. 4 : events'[x][L!Earning[i]] = events[x][L!Earning[i]]
  BY <1>3, <1>4
<1>6. \A x \in Submission : RowGot(events'[x]) = RowGot(events[x])
  BY <1>5 DEF RowGot, Value
<1>7. Countable(events) /\ Countable(events')
  <2>1. Countable(events)
    BY EventsCount DEF PointsInv
  <2> QED BY <1>5, <2>1 DEF Countable, Value
<1>8. /\ \A p : Total(events, p) <= Total(events', p)
      /\ \A p : L!Earned(p) \in Nat /\ L!Earned(p)' \in Nat /\ L!Earned(p) <= L!Earned(p)'
  <2>1. \A x \in Submission : RowGot(events[x]) <= RowGot(events'[x])
    BY <1>6, <1>7, RowIsNat
  <2> QED BY <1>7, <2>1, TotalsGrow
<1>9. \A p : L!Earned(p)' = L!Earned(p)
  <2>1. \A p : Total(events', p) <= Total(events, p)
    <3>1. \A x \in Submission : RowGot(events'[x]) <= RowGot(events[x])
      BY <1>6, <1>7, RowIsNat
    <3> QED BY <1>7, <3>1, TotalGrows
  <2>2. \A p : L!Earned(p)' <= L!Earned(p)
    BY <1>7, <2>1, EarnedIs
  <2> QED BY <1>8, <2>2
<1>10. \A x \in Submission : Got(x)' = Got(x)
  BY <1>6, <1>7, GotIs
<1>11. \A x : Due(x)' = Due(x) /\ L!Sum(Due(x))' = L!Sum(Due(x))
  BY DEF Due, L!Sum, L!DeliveryAwards
<1>12. /\ verdict'[s] = "REJECTED" /\ \A x \in Submission \ {s} : verdict'[x] = verdict[x]
       /\ verdict' \in [Submission -> {"PENDING", "APPROVED", "REJECTED"}]
  BY <1>1, <1>2
<1>13. EventsFit'
  <2> SUFFICES ASSUME NEW x \in Submission
               PROVE  /\ verdict'[x] = "PENDING" => \A t \in L!Type : events'[x][t] = None
                      /\ verdict'[x] # "APPROVED" => \A i \in 1 .. 4 : events'[x][L!Earning[i]] = None
                      /\ \A i \in 1 .. 4 : Value(events'[x], L!Earning[i]) \in 0 .. Due(x)[i]
    BY <1>11 DEF EventsFit, L!Type, L!Types, L!Earning, L!Penalties, Value
  <2>1. verdict'[x] = "PENDING" => x # s
    BY <1>12
  <2>2. verdict'[x] # "APPROVED" => verdict[x] # "APPROVED"
    BY <1>1, <1>12
  <2>3. /\ verdict[x] = "PENDING" => \A t \in L!Type : events[x][t] = None
        /\ verdict[x] # "APPROVED" => \A i \in 1 .. 4 : events[x][L!Earning[i]] = None
        /\ \A i \in 1 .. 4 : Value(events[x], L!Earning[i]) \in 0 .. Due(x)[i]
    BY DEF PointsInv, EventsFit
  <2> QED BY <1>3, <1>5, <1>12, <2>1, <2>2, <2>3 DEF Value
<1>14. ApprovedFits'
  <2>1. \A x \in Submission : verdict'[x] = "APPROVED" => verdict[x] = "APPROVED"
    BY <1>12
  <2> QED BY <1>9, <1>10, <1>11, <2>1 DEF PointsInv, ApprovedFits
<1>15. CapFits'
  <2>1. \A p : Awarding(p)' = Awarding(p)
    BY <1>1 DEF Awarding, L!Sum
  <2>2. Hands' = Hands
    BY <1>1 DEF Hands
  <2> QED BY <1>1, <1>9, <2>1, <2>2 DEF PointsInv, CapFits, L!Promoter
<1>16. ASSUME NEW q \in Worker PROVE AwardFits(q)' /\ RebuildFits(q)'
  <2>1. /\ task'[q] = task[q] /\ note'[q] = note[q] /\ AwardFits(q) /\ RebuildFits(q)
        /\ task[q] = "award" => verdict'[note[q].of] = verdict[note[q].of]
    BY <1>1, <1>12 DEF PointsInv, AwardFits
  <2>2. AwardFits(q)'
    BY <1>7, <1>8, <2>1, AwardGoesOn
  <2> QED BY <1>1, <2>1, <2>2, RebuildGoesOn
<1>17. SnapshotFits'
  BY <1>1, SnapshotStays DEF PointsInv
<1>18. OneReview' /\ NoneTwice'
  BY <1>1 DEF PointsInv, OneReview, NoneTwice
<1>19. L!TypeOK' /\ note' = [r \in Worker |-> note'[r]]
  <2>1. L!Type' = L!Type /\ L!Promoter' = L!Promoter
    BY DEF L!Type, L!Types, L!Earning, L!Penalties, L!Promoter
  <2> QED BY <1>1, <1>3, <1>12, <2>1 DEF PointsInv, L!TypeOK
<1> QED BY <1>13, <1>14, <1>15, <1>16, <1>17, <1>18, <1>19 DEF PointsInv

\* backfill(): what lacks is awarded whole; the cap is of no more account.
LEMMA BackfillStep ==
  ASSUME PointsInv, NEW r \in Worker, L!Backfill(r)
  PROVE  PointsInv'
<1>1. /\ L!Free(r) /\ backfilled' = TRUE /\ L!Goto(r, "score", None)
      /\ UNCHANGED <<verdict, snapshot, rebuilds, sole>>
      /\ events' = [s \in Submission |->
           IF verdict[s] = "APPROVED" THEN L!Awarded(events[s], Due(s)) ELSE events[s]]
  BY DEF L!Backfill, Due
<1>2. /\ task' \in [Worker -> {"idle", "award", "score", "replace", "commit"}]
      /\ note' = [q \in Worker |-> note'[q]]
      /\ task'[r] = "score"
      /\ \A q \in Worker \ {r} : task'[q] = task[q] /\ note'[q] = note[q]
      /\ OneReview' /\ NoneTwice'
  BY <1>1, RequestMoves
<1>3. \A s \in Submission : /\ events[s] \in [L!Type -> Int \cup {None}]
                            /\ DOMAIN Due(s) = 1 .. 4 /\ \A i \in 1 .. 4 : Due(s)[i] \in Nat
                            /\ L!Sum(Due(s)) = Due(s)[1] + Due(s)[2] + Due(s)[3] + Due(s)[4]
  BY DueIs DEF PointsInv, L!TypeOK
<1>4. ASSUME NEW s \in Submission
      PROVE  /\ events'[s] \in [L!Type -> Int \cup {None}]
             /\ verdict[s] # "APPROVED" => events'[s] = events[s]
             /\ \A i \in 1 .. 4 : /\ Value(events[s], L!Earning[i]) \in 0 .. Due(s)[i]
                                  /\ Value(events'[s], L!Earning[i]) \in 0 .. Due(s)[i]
                                  /\ Value(events[s], L!Earning[i]) <= Value(events'[s], L!Earning[i])
  <2> PICK row, new, d : row = events[s] /\ new = events'[s] /\ d = Due(s)
    OBVIOUS
  <2>1. /\ row \in [L!Type -> Int \cup {None}]
        /\ DOMAIN d = 1 .. 4 /\ \A i \in 1 .. 4 : d[i] \in Nat
    BY <1>3
  <2>2. /\ L!Awarded(row, d) \in [L!Type -> Int \cup {None}]
        /\ \A i \in 1 .. 4 : L!Awarded(row, d)[L!Earning[i]]
             = IF row[L!Earning[i]] = None /\ d[i] > 0 THEN d[i] ELSE row[L!Earning[i]]
    BY <2>1, AwardedIs
  <2>3. new = IF verdict[s] = "APPROVED" THEN L!Awarded(row, d) ELSE row
    BY <1>1
  <2>4. new \in [L!Type -> Int \cup {None}]
    BY <2>1, <2>2, <2>3
  <2>5. ASSUME NEW i \in 1 .. 4
        PROVE  /\ Value(row, L!Earning[i]) \in 0 .. d[i] /\ Value(new, L!Earning[i]) \in 0 .. d[i]
               /\ Value(row, L!Earning[i]) <= Value(new, L!Earning[i])
    <3> PICK t : t = L!Earning[i]
      OBVIOUS
    <3>1. Value(row, t) \in 0 .. d[i] /\ d[i] \in Nat
      BY <2>1 DEF PointsInv, EventsFit
    <3>2. new[t] = row[t] \/ (row[t] = None /\ new[t] = d[i])
      BY <2>2, <2>3
    <3>3. Value(new, t) = Value(row, t) \/ (Value(row, t) = 0 /\ Value(new, t) = d[i])
      BY <3>1, <3>2, PointsConstants DEF Value
    <3> QED BY <3>1, <3>3
  <2> QED BY <2>3, <2>4, <2>5
<1>5. Countable(events) /\ Countable(events')
  BY <1>3, <1>4 DEF Countable
<1>6. /\ \A p : Total(events, p) <= Total(events', p)
      /\ \A p : L!Earned(p) \in Nat /\ L!Earned(p)' \in Nat /\ L!Earned(p) <= L!Earned(p)'
  <2>1. ASSUME NEW s \in Submission PROVE RowGot(events[s]) <= RowGot(events'[s])
    <3>1. \A i \in 1 .. 4 : /\ Value(events[s], L!Earning[i]) \in Nat /\ Value(events'[s], L!Earning[i]) \in Nat
                            /\ Value(events[s], L!Earning[i]) <= Value(events'[s], L!Earning[i])
      BY <1>4, <1>5 DEF Countable
    <3> QED BY <3>1 DEF RowGot
  <2> QED BY <1>5, <2>1, TotalsGrow
<1>7. \A x : Due(x)' = Due(x) /\ L!Sum(Due(x))' = L!Sum(Due(x))
  BY DEF Due, L!Sum, L!DeliveryAwards
<1>8. EventsFit'
  <2> SUFFICES ASSUME NEW x \in Submission
               PROVE  /\ verdict'[x] = "PENDING" => \A t \in L!Type : events'[x][t] = None
                      /\ verdict'[x] # "APPROVED" => \A i \in 1 .. 4 : events'[x][L!Earning[i]] = None
                      /\ \A i \in 1 .. 4 : Value(events'[x], L!Earning[i]) \in 0 .. Due(x)[i]
    BY <1>7 DEF EventsFit, L!Type, L!Types, L!Earning, L!Penalties, Value
  <2>1. /\ verdict[x] = "PENDING" => \A t \in L!Type : events[x][t] = None
        /\ verdict[x] # "APPROVED" => \A i \in 1 .. 4 : events[x][L!Earning[i]] = None
    BY DEF PointsInv, EventsFit
  <2>2. verdict'[x] = verdict[x] /\ (verdict[x] = "PENDING" => verdict[x] # "APPROVED")
    BY <1>1
  <2> QED BY <1>4, <2>1, <2>2
<1>9. ApprovedFits'
  <2> SUFFICES ASSUME NEW s \in Submission, verdict[s] = "APPROVED", PointCap > 0
               PROVE  Got(s)' = L!Sum(Due(s)) \/ L!Earned(Facts[s].promoter)' >= PointCap
    BY <1>1, <1>7 DEF ApprovedFits
  <2>1. Got(s) = L!Sum(Due(s)) \/ L!Earned(Facts[s].promoter) >= PointCap
    BY DEF PointsInv, ApprovedFits
  <2>2. CASE L!Earned(Facts[s].promoter) >= PointCap
    BY <1>6, <2>2, PointsConstants
  <2>3. CASE Got(s) = L!Sum(Due(s))
    <3> PICK row, new, d, e : row = events[s] /\ new = events'[s] /\ d = Due(s) /\ e = L!Earning
      OBVIOUS
    <3>1. Got(s) = RowGot(row) /\ Got(s)' = RowGot(new)
      BY <1>5, GotIs
    <3>2. \A i \in 1 .. 4 : /\ d[i] \in Nat /\ Value(row, e[i]) \in 0 .. d[i] /\ Value(new, e[i]) \in 0 .. d[i]
                            /\ Value(row, e[i]) <= Value(new, e[i])
      BY <1>3, <1>4
    <3>3. Value(row, e[1]) + Value(row, e[2]) + Value(row, e[3]) + Value(row, e[4]) = d[1] + d[2] + d[3] + d[4]
      BY <1>3, <2>3, <3>1 DEF RowGot
    <3>4. \A i \in 1 .. 4 : /\ d[i] \in Nat /\ Value(row, e[i]) \in Int /\ Value(new, e[i]) \in Int
                            /\ Value(row, e[i]) <= Value(new, e[i]) /\ Value(new, e[i]) <= d[i]
      BY <3>2
    <3>5. PICK x, y, z, w : x = Value(row, e[1]) /\ y = Value(row, e[2]) /\ z = Value(row, e[3]) /\ w = Value(row, e[4])
      OBVIOUS
    <3>6. PICK k, l, m, n : k = Value(new, e[1]) /\ l = Value(new, e[2]) /\ m = Value(new, e[3]) /\ n = Value(new, e[4])
      OBVIOUS
    <3>7. PICK f, g, h, i : f = d[1] /\ g = d[2] /\ h = d[3] /\ i = d[4]
      OBVIOUS
    <3>8. /\ x \in Int /\ k \in Int /\ f \in Nat /\ x <= k /\ k <= f
          /\ y \in Int /\ l \in Int /\ g \in Nat /\ y <= l /\ l <= g
          /\ z \in Int /\ m \in Int /\ h \in Nat /\ z <= m /\ m <= h
          /\ w \in Int /\ n \in Int /\ i \in Nat /\ w <= n /\ n <= i
      BY <3>4, <3>5, <3>6, <3>7
    <3>9. x + y + z + w = f + g + h + i
      BY <3>3, <3>5, <3>7
    <3>10. k + l + m + n = f + g + h + i
      BY ONLY <3>8, <3>9
    <3>11. L!Sum(Due(s)) = d[1] + d[2] + d[3] + d[4]
      BY <1>3
    <3>12. RowGot(new) = k + l + m + n
      BY <3>6 DEF RowGot
    <3> QED BY <3>1, <3>7, <3>10, <3>11, <3>12
  <2> QED BY <2>1, <2>2, <2>3
<1>10. CapFits'
  BY <1>1 DEF CapFits
<1>11. ASSUME NEW q \in Worker PROVE AwardFits(q)' /\ RebuildFits(q)'
  <2>1. CASE q = r
    BY <1>2, <2>1 DEF AwardFits, RebuildFits
  <2>2. CASE q # r
    <3>1. task'[q] = task[q] /\ note'[q] = note[q] /\ AwardFits(q) /\ RebuildFits(q)
      BY <1>2, <2>2 DEF PointsInv
    <3>2. AwardFits(q)'
      BY <1>1, <1>5, <1>6, <3>1, AwardGoesOn
    <3> QED BY <1>1, <3>1, <3>2, RebuildGoesOn
  <2> QED BY <2>1, <2>2
<1>12. SnapshotFits'
  BY <1>1, SnapshotStays DEF PointsInv
<1>13. L!TypeOK'
  <2>1. L!Type' = L!Type /\ L!Promoter' = L!Promoter
    BY DEF L!Type, L!Types, L!Earning, L!Penalties, L!Promoter
  <2>2. events' \in [Submission -> [L!Type -> Int \cup {None}]]
    BY <1>1, <1>4
  <2> QED BY <1>1, <1>2, <2>1, <2>2 DEF PointsInv, L!TypeOK
<1> QED BY <1>2, <1>8, <1>9, <1>10, <1>11, <1>12, <1>13 DEF PointsInv

\* The transaction of an approval: what was in hand is earned.
LEMMA ApproveStep ==
  ASSUME PointsInv, NEW r \in Worker, L!Approve(r)
  PROVE  PointsInv'
<1> PICK s, a : s = note[r].of /\ a = note[r].awards
  OBVIOUS
<1>1. /\ task[r] = "award" /\ L!Goto(r, "idle", None)
      /\ verdict' = [verdict EXCEPT ![s] = "APPROVED"]
      /\ events' = [events EXCEPT ![s] = L!Awarded(events[s], a)]
      /\ UNCHANGED <<snapshot, rebuilds, backfilled, sole>>
  BY DEF L!Approve, L!Done
<1>2. /\ task' \in [Worker -> {"idle", "award", "score", "replace", "commit"}]
      /\ note' = [q \in Worker |-> note'[q]]
      /\ task'[r] = "idle"
      /\ \A q \in Worker \ {r} : task'[q] = task[q] /\ note'[q] = note[q]
      /\ OneReview' /\ NoneTwice'
  BY <1>1, RequestMoves
<1>3. /\ s \in Submission /\ verdict[s] = "PENDING" /\ L!Sum(a) \in Nat
      /\ DOMAIN a = 1 .. 4 /\ \A i \in 1 .. 4 : a[i] \in 0 .. Due(s)[i]
      /\ PointCap > 0 => L!Sum(a) = L!Sum(Due(s)) \/ L!Earned(Facts[s].promoter) + L!Sum(a) >= PointCap
  <2>1. AwardFits(r)
    BY DEF PointsInv
  <2>2. L!Sum(a) \in Nat
    BY <1>1, <2>1, AwardIsNat
  <2> QED BY <1>1, <2>1, <2>2 DEF AwardFits
<1>4. /\ events \in [Submission -> [L!Type -> Int \cup {None}]]
      /\ verdict \in [Submission -> {"PENDING", "APPROVED", "REJECTED"}]
      /\ \A i \in 1 .. 4 : a[i] \in Nat
  BY <1>3, DueIs DEF PointsInv, L!TypeOK
<1>5. /\ verdict'[s] = "APPROVED" /\ \A x \in Submission \ {s} : verdict'[x] = verdict[x]
      /\ verdict' \in [Submission -> {"PENDING", "APPROVED", "REJECTED"}]
  BY <1>1, <1>3, <1>4
<1>6. /\ events' \in [Submission -> [L!Type -> Int \cup {None}]]
      /\ \A x \in Submission \ {s} : events'[x] = events[x]
      /\ \A i \in 1 .. 4 : /\ Value(events'[s], L!Earning[i]) = a[i]
                           /\ Value(events[s], L!Earning[i]) = 0
  <2> PICK row : row = events[s]
    OBVIOUS
  <2>1. row \in [L!Type -> Int \cup {None}] /\ \A i \in 1 .. 4 : row[L!Earning[i]] = None
    BY <1>3, <1>4 DEF PointsInv, EventsFit
  <2> PICK new : new = L!Awarded(row, a)
    OBVIOUS
  <2>2. /\ new \in [L!Type -> Int \cup {None}]
        /\ \A i \in 1 .. 4 : new[L!Earning[i]]
             = IF row[L!Earning[i]] = None /\ a[i] > 0 THEN a[i] ELSE row[L!Earning[i]]
    <3>1. row \in [L!Type -> Int \cup {None}]
      BY <2>1
    <3>2. DOMAIN a = 1 .. 4 /\ \A i \in 1 .. 4 : a[i] \in Nat
      BY <1>3, <1>4
    <3>3. /\ L!Awarded(row, a) \in [L!Type -> Int \cup {None}]
          /\ \A i \in 1 .. 4 : L!Awarded(row, a)[L!Earning[i]]
               = IF row[L!Earning[i]] = None /\ a[i] > 0 THEN a[i] ELSE row[L!Earning[i]]
      BY ONLY <3>1, <3>2, AwardedIs
    <3> QED BY <3>3
  <2>3. events' = [events EXCEPT ![s] = new]
    BY <1>1
  <2>4. \A i \in 1 .. 4 : Value(new, L!Earning[i]) = a[i] /\ Value(row, L!Earning[i]) = 0
    BY <1>4, <2>1, <2>2, PointsConstants DEF Value
  <2> QED BY <1>3, <1>4, <2>2, <2>3, <2>4
<1>7. Countable(events) /\ Countable(events')
  <2>1. Countable(events)
    BY EventsCount DEF PointsInv
  <2>2. ASSUME NEW x \in Submission, NEW i \in 1 .. 4 PROVE Value(events'[x], L!Earning[i]) \in Nat
    BY <1>4, <1>6, <2>1 DEF Countable
  <2> QED BY <2>1, <2>2 DEF Countable
<1>8. RowGot(events[s]) = 0 /\ RowGot(events'[s]) = L!Sum(a)
  <2>1. \A i \in 1 .. 4 : a[i] \in Int
    BY <1>4
  <2>2. DOMAIN a = 1 .. 4
    BY <1>3
  <2>3. L!Sum(a) = a[1] + a[2] + a[3] + a[4]
    BY ONLY <2>1, <2>2, AwardSum
  <2> QED BY <1>6, <2>3 DEF RowGot
<1>9. /\ \A p : Total(events, p) <= Total(events', p)
      /\ \A p : L!Earned(p) \in Nat /\ L!Earned(p)' \in Nat /\ L!Earned(p) <= L!Earned(p)'
  <2>1. \A x \in Submission : RowGot(events[x]) <= RowGot(events'[x])
    <3>1. \A x \in Submission : RowGot(events[x]) \in Nat
      BY <1>7, RowIsNat
    <3> QED BY <1>3, <1>6, <1>8, <3>1
  <2> QED BY <1>7, <2>1, TotalsGrow
<1>10. /\ L!Earned(Facts[s].promoter)' = L!Earned(Facts[s].promoter) + L!Sum(a)
       /\ \A p : p # Facts[s].promoter => L!Earned(p)' = L!Earned(p)
  <2> PICK p : p = Facts[s].promoter
    OBVIOUS
  <2>1. /\ Total(events', p) = Total(events, p) + (RowGot(events'[s]) - RowGot(events[s]))
        /\ \A x : x # p => Total(events', x) = Total(events, x)
    BY <1>3, <1>6, <1>7, TotalChanged
  <2>2. \A x : L!Earned(x) = Total(events, x) /\ L!Earned(x)' = Total(events', x)
    BY <1>7, EarnedIs
  <2>3. L!Earned(p)' = L!Earned(p) + L!Sum(a)
    BY <1>3, <1>8, <1>9, <2>1, <2>2
  <2> QED BY <2>1, <2>2, <2>3
<1>11. \A x : Due(x)' = Due(x) /\ L!Sum(Due(x))' = L!Sum(Due(x))
  BY DEF Due, L!Sum, L!DeliveryAwards
<1>12. EventsFit'
  <2> SUFFICES ASSUME NEW x \in Submission
               PROVE  /\ verdict'[x] = "PENDING" => \A t \in L!Type : events'[x][t] = None
                      /\ verdict'[x] # "APPROVED" => \A i \in 1 .. 4 : events'[x][L!Earning[i]] = None
                      /\ \A i \in 1 .. 4 : Value(events'[x], L!Earning[i]) \in 0 .. Due(x)[i]
    BY <1>11 DEF EventsFit, L!Type, L!Types, L!Earning, L!Penalties, Value
  <2>1. CASE x = s
    <3>1. \A i \in 1 .. 4 : Value(events'[x], L!Earning[i]) \in 0 .. Due(x)[i]
      BY <1>3, <1>6, <2>1
    <3> QED BY <1>5, <2>1, <3>1
  <2>2. CASE x # s
    <3>1. events'[x] = events[x] /\ verdict'[x] = verdict[x]
      BY <1>5, <1>6, <2>2
    <3> QED BY <3>1 DEF PointsInv, EventsFit
  <2> QED BY <2>1, <2>2
<1>13. ApprovedFits'
  <2> SUFFICES ASSUME NEW x \in Submission, verdict'[x] = "APPROVED", PointCap > 0
               PROVE  Got(x)' = L!Sum(Due(x)) \/ L!Earned(Facts[x].promoter)' >= PointCap
    BY <1>11 DEF ApprovedFits
  <2>1. \A y \in Submission : Got(y)' = RowGot(events'[y]) /\ Got(y) = RowGot(events[y])
    BY <1>7, GotIs
  <2>2. CASE x = s
    BY <1>3, <1>8, <1>10, <2>1, <2>2
  <2>3. CASE x # s
    <3>1. Got(x)' = Got(x) /\ verdict[x] = "APPROVED"
      BY <1>5, <1>6, <2>1, <2>3
    <3>2. Got(x) = L!Sum(Due(x)) \/ L!Earned(Facts[x].promoter) >= PointCap
      BY <3>1 DEF PointsInv, ApprovedFits
    <3> QED BY <1>9, <3>1, <3>2, PointsConstants
  <2> QED BY <2>2, <2>3
<1>14. CapFits'
  <2> SUFFICES ASSUME NEW x \in L!Promoter, PointCap > 0, ~backfilled
               PROVE  L!Earned(x)' + SumFunctionOnSet(Awarding(x)', Worker) <= Hands * PointCap
    BY <1>1 DEF CapFits, Hands, L!Promoter
  <2>1. \A q \in Worker : AwardFits(q)
    BY DEF PointsInv
  <2>2. Awarding(x)[r] = (IF x = Facts[s].promoter THEN L!Sum(a) ELSE 0) /\ Awarding(x)'[r] = 0
    BY <1>1, <1>2 DEF Awarding
  <2>3. SumFunctionOnSet(Awarding(x)', Worker)
          = SumFunctionOnSet(Awarding(x), Worker) + (Awarding(x)'[r] - Awarding(x)[r])
    BY <1>2, <2>1, <2>2, HandMoves
  <2>4. SumFunctionOnSet(Awarding(x), Worker) \in Nat /\ L!Earned(x) \in Nat
    BY <1>9, <2>1, HandsAreNat
  <2>5. L!Earned(x) + SumFunctionOnSet(Awarding(x), Worker) <= Hands * PointCap
    BY <1>1 DEF PointsInv, CapFits
  <2>6. L!Earned(x)' + SumFunctionOnSet(Awarding(x)', Worker)
          = L!Earned(x) + SumFunctionOnSet(Awarding(x), Worker)
    BY <1>3, <1>10, <2>2, <2>3, <2>4
  <2> QED BY <2>5, <2>6
<1>15. ASSUME NEW q \in Worker PROVE AwardFits(q)' /\ RebuildFits(q)'
  <2>1. CASE q = r
    BY <1>2, <2>1 DEF AwardFits, RebuildFits
  <2>2. CASE q # r
    <3>1. task'[q] = task[q] /\ note'[q] = note[q] /\ AwardFits(q) /\ RebuildFits(q)
      BY <1>2, <2>2 DEF PointsInv
    <3>2. task[q] = "award" => verdict'[note[q].of] = verdict[note[q].of]
      BY <1>1, <1>5, <2>2, <3>1 DEF PointsInv, NoneTwice, AwardFits
    <3>3. AwardFits(q)'
      BY <1>7, <1>9, <3>1, <3>2, AwardGoesOn
    <3> QED BY <1>1, <3>1, <3>3, RebuildGoesOn
  <2> QED BY <2>1, <2>2
<1>16. SnapshotFits'
  BY <1>1, SnapshotStays DEF PointsInv
<1>17. L!TypeOK'
  <2>1. L!Type' = L!Type /\ L!Promoter' = L!Promoter
    BY DEF L!Type, L!Types, L!Earning, L!Penalties, L!Promoter
  <2> QED BY <1>1, <1>2, <1>5, <1>6, <2>1 DEF PointsInv, L!TypeOK
<1> QED BY <1>2, <1>12, <1>13, <1>14, <1>15, <1>16, <1>17 DEF PointsInv

-------------------------------------------------------------------------------

\* Those with a score are promoters of submissions, no more than there are of these.
LEMMA ScoredAreFew ==
  /\ L!Scored \subseteq L!Promoter /\ IsFiniteSet(L!Scored)
  /\ Cardinality(L!Scored) \in 0 .. Cardinality(Submission)
<1> DEFINE f == [s \in Submission |-> Facts[s].promoter]
<1>1. f \in [Submission -> L!Promoter] /\ \A p \in L!Promoter : \E s \in Submission : f[s] = p
  BY DEF L!Promoter
<1>2. f \in Surjection(Submission, L!Promoter)
  BY <1>1 DEF Surjection
<1> HIDE DEF f
<1>3. IsFiniteSet(L!Promoter) /\ Cardinality(L!Promoter) <= Cardinality(Submission)
  BY <1>2, PointsConstants, FS_Surjection
<1>4. L!Scored \subseteq L!Promoter
  BY DEF L!Scored
<1>5. IsFiniteSet(L!Scored) /\ Cardinality(L!Scored) <= Cardinality(L!Promoter)
  BY <1>3, <1>4, FS_Subset
<1>6. Cardinality(L!Scored) \in Nat /\ Cardinality(L!Promoter) \in Nat /\ Cardinality(Submission) \in Nat
  BY <1>3, <1>5, FS_CardinalityType, PointsConstants
<1> QED BY <1>3, <1>4, <1>5, <1>6

\* An order of them names each once.
LEMMA OrderIs ==
  ASSUME NEW order \in L!SetToSeqs(L!Scored)
  PROVE  \E n \in 0 .. Cardinality(Submission) :
           /\ DOMAIN order = 1 .. n /\ \A i \in 1 .. n : order[i] \in L!Scored
           /\ \A i, j \in 1 .. n : i # j => order[i] # order[j]
           /\ \A p \in L!Scored : \E i \in 1 .. n : order[i] = p
<1> DEFINE n == Cardinality(L!Scored)
<1>1. L!Cardinality(L!Scored) = n
  BY SameCardinality
<1>2. order \in [1 .. n -> L!Scored] /\ \A i, j \in 1 .. n : i # j => order[i] # order[j]
  BY <1>1 DEF L!SetToSeqs
<1>3. n \in Nat /\ n \in 0 .. Cardinality(Submission) /\ IsFiniteSet(L!Scored)
  BY ScoredAreFew
<1> HIDE DEF n
<1>4. order \in Injection(1 .. n, L!Scored)
  BY <1>2 DEF Injection, IsInjective
<1>5. Cardinality(1 .. n) = n
  BY <1>3, FS_Interval
<1>6. Cardinality(1 .. n) = Cardinality(L!Scored)
  BY <1>5 DEF n
<1>7. order \in Surjection(1 .. n, L!Scored)
  BY <1>3, <1>4, <1>6, FS_Injection
<1>8. \A p \in L!Scored : \E i \in 1 .. n : order[i] = p
  BY <1>7 DEF Surjection
<1> QED BY <1>2, <1>3, <1>8

\* A score is a whole number.
LEMMA ScoresAreWhole ==
  ASSUME L!TypeOK, NEW p
  PROVE  L!SeasonPoints(p) \in Int
<1>1. ASSUME NEW s \in Submission PROVE L!SumOf(s, L!Type) \in Int
  <2> PICK f : f = [t \in L!Type |-> L!Worth(s, t)]
    OBVIOUS
  <2>1. \A t \in L!Type : f[t] \in Int
    BY DEF L!Worth, L!TypeOK
  <2>2. SumFunctionOnSet(f, L!Type) \in Int
    BY <2>1, EarningTypes, SumIsInt
  <2> QED BY <2>2, SameSum DEF L!SumOf
<1> PICK S : S = L!Of(p)
  OBVIOUS
<1> PICK f : f = [s \in S |-> L!SumOf(s, L!Type)]
  OBVIOUS
<1>2. IsFiniteSet(S) /\ \A s \in S : f[s] \in Int
  BY <1>1, SubmissionsOf
<1>3. SumFunctionOnSet(f, S) \in Int
  BY <1>2, SumIsInt
<1> QED BY <1>3, SameSum DEF L!SeasonPoints

\* rebuildAll() reads the scores: they rank the promoters.
LEMMA ReadScoresStep ==
  ASSUME PointsInv, NEW r \in Worker, L!ReadScores(r)
  PROVE  PointsInv'
<1> PICK order \in L!SetToSeqs(L!Scored) :
      /\ L!Stands(order)
      /\ L!Goto(r, "replace", [standing |-> {[promoter |-> order[i], rank |-> i,
                                              points |-> L!SeasonPoints(order[i])] : i \in DOMAIN order}])
  BY DEF L!ReadScores
<1> DEFINE rows == {[promoter |-> order[i], rank |-> i, points |-> L!SeasonPoints(order[i])] : i \in DOMAIN order}
<1> PICK n \in 0 .. Cardinality(Submission) :
      /\ DOMAIN order = 1 .. n /\ \A i \in 1 .. n : order[i] \in L!Scored
      /\ \A i, j \in 1 .. n : i # j => order[i] # order[j]
  BY OrderIs
<1>1. rows \subseteq [promoter : L!Promoter, rank : Nat, points : Int]
  <2>1. \A i \in 1 .. n : order[i] \in L!Promoter /\ i \in Nat /\ L!SeasonPoints(order[i]) \in Int
    BY ScoredAreFew, ScoresAreWhole DEF PointsInv
  <2> QED BY <2>1
<1>2. Ranked(rows, n)
  <2>1. {x.rank : x \in rows} = 1 .. n
    <3> DEFINE row(i) == [promoter |-> order[i], rank |-> i, points |-> L!SeasonPoints(order[i])]
    <3> PICK D : D = 1 .. n
      OBVIOUS
    <3>1. rows = {row(i) : i \in D} /\ \A i : row(i).rank = i
      OBVIOUS
    <3> HIDE DEF row, rows
    <3>2. {x.rank : x \in rows} = D
      BY ONLY <3>1
    <3> QED BY <3>2
  <2>2. ASSUME NEW x \in rows, NEW y \in rows
        PROVE  /\ x.rank = y.rank \/ x.promoter = y.promoter => x = y
               /\ x.rank < y.rank => x.points >= y.points
    <3>1. PICK i \in 1 .. n : x = [promoter |-> order[i], rank |-> i, points |-> L!SeasonPoints(order[i])]
      OBVIOUS
    <3>2. PICK j \in 1 .. n : y = [promoter |-> order[j], rank |-> j, points |-> L!SeasonPoints(order[j])]
      OBVIOUS
    <3>3. i < j => L!SeasonPoints(order[i]) >= L!SeasonPoints(order[j])
      BY DEF L!Stands
    <3> QED BY <3>1, <3>2, <3>3
  <2> QED BY <2>1, <2>2 DEF Ranked
<1> PICK what : what = [standing |-> rows]
  OBVIOUS
<1>3. what.standing = rows /\ L!Goto(r, "replace", what)
  OBVIOUS
<1> PICK standing : standing = rows
  OBVIOUS
<1> HIDE DEF rows
<1>4. /\ task[r] # "award" /\ (L!Free(r) \/ task[r] # "idle")
      /\ UNCHANGED <<events, verdict, snapshot, rebuilds, backfilled, sole>>
  BY DEF L!ReadScores, L!Free
<1>5. /\ task' \in [Worker -> {"idle", "award", "score", "replace", "commit"}]
      /\ note' = [q \in Worker |-> note'[q]]
      /\ task'[r] = "replace" /\ note'[r] = what
      /\ \A q \in Worker \ {r} : task'[q] = task[q] /\ note'[q] = note[q]
      /\ OneReview' /\ NoneTwice'
  BY <1>3, <1>4, RequestMoves
<1>6. EventsFit' /\ ApprovedFits'
  BY <1>4, EventsStay
<1>7. CapFits' /\ \A q \in Worker : AwardFits(q)'
  BY <1>4, <1>5, CapStays
<1>8. ASSUME NEW q \in Worker PROVE RebuildFits(q)'
  <2>1. CASE q = r
    <3>1. Rankings(standing) /\ Rankings(standing)' = Rankings(standing)
      BY <1>2 DEF Rankings, Ranked
    <3>2. note'[r].standing = standing
      BY <1>3, <1>5
    <3> QED BY <1>1, <1>5, <2>1, <3>1, <3>2 DEF RebuildFits, L!Promoter
  <2>2. CASE q # r
    BY <1>4, <1>5, <2>2, RebuildGoesOn DEF PointsInv
  <2> QED BY <2>1, <2>2
<1>9. SnapshotFits'
  BY <1>4, SnapshotStays DEF PointsInv
<1>10. L!TypeOK'
  BY <1>4, <1>5 DEF PointsInv, L!TypeOK, L!Type, L!Types, L!Earning, L!Penalties, L!Promoter
<1> QED BY <1>5, <1>6, <1>7, <1>8, <1>9, <1>10 DEF PointsInv

\* The transaction deletes the rows there are: all those of a rebuild.
LEMMA DeleteSeenStep ==
  ASSUME PointsInv, NEW r \in Worker, L!DeleteSeen(r)
  PROVE  PointsInv'
<1> PICK what : what = [standing |-> note[r].standing, sees |-> snapshot]
  OBVIOUS
<1>1. /\ task[r] = "replace" /\ L!Goto(r, "commit", what)
      /\ what.standing = note[r].standing /\ what.sees = snapshot
      /\ UNCHANGED <<events, verdict, snapshot, rebuilds, backfilled, sole>>
  BY DEF L!DeleteSeen
<1>2. /\ task' \in [Worker -> {"idle", "award", "score", "replace", "commit"}]
      /\ note' = [q \in Worker |-> note'[q]]
      /\ task'[r] = "commit" /\ note'[r] = what
      /\ \A q \in Worker \ {r} : task'[q] = task[q] /\ note'[q] = note[q]
      /\ OneReview' /\ NoneTwice'
  BY <1>1, RequestMoves
<1>3. EventsFit' /\ ApprovedFits'
  BY <1>1, EventsStay
<1>4. CapFits' /\ \A q \in Worker : AwardFits(q)'
  BY <1>1, <1>2, CapStays
<1>5. ASSUME NEW q \in Worker PROVE RebuildFits(q)'
  <2>1. CASE q = r
    <3> PICK standing : standing = note[r].standing
      OBVIOUS
    <3>1. standing \subseteq [promoter : L!Promoter, rank : Nat, points : Int] /\ Rankings(standing)
      BY <1>1 DEF PointsInv, RebuildFits
    <3>2. Rankings(standing)' = Rankings(standing)
      BY DEF Rankings, Ranked
    <3>3. note'[r].standing = standing /\ note'[r].sees = snapshot
      BY <1>1, <1>2
    <3>4. \A x \in snapshot : x.by \in 1 .. rebuilds
      <4>1. \A x \in snapshot : x.by \in 1 .. 2 /\ x.by <= rebuilds
        BY DEF PointsInv, L!TypeOK, SnapshotFits
      <4>2. rebuilds \in 0 .. 2
        BY DEF PointsInv, L!TypeOK
      <4> QED BY <4>1, <4>2
    <3> QED BY <1>1, <1>2, <2>1, <3>1, <3>2, <3>3, <3>4 DEF RebuildFits, L!Promoter
  <2>2. CASE q # r
    BY <1>1, <1>2, <2>2, RebuildGoesOn DEF PointsInv
  <2> QED BY <2>1, <2>2
<1>6. SnapshotFits'
  BY <1>1, SnapshotStays DEF PointsInv
<1>7. L!TypeOK'
  BY <1>1, <1>2 DEF PointsInv, L!TypeOK, L!Type, L!Types, L!Earning, L!Penalties, L!Promoter
<1> QED BY <1>2, <1>3, <1>4, <1>5, <1>6, <1>7 DEF PointsInv

\* ... and writes its own.
LEMMA ReplaceStep ==
  ASSUME PointsInv, NEW r \in Worker, L!Replace(r)
  PROVE  PointsInv'
<1> PICK standing, sees, k : standing = note[r].standing /\ sees = note[r].sees /\ k = rebuilds + 1
  OBVIOUS
<1> DEFINE written == {[promoter |-> x.promoter, rank |-> x.rank, points |-> x.points, by |-> k] : x \in standing}
<1>1. /\ task[r] = "commit" /\ rebuilds < 2 /\ rebuilds' = k /\ L!Goto(r, "idle", None)
      /\ snapshot' = (snapshot \ sees) \cup written
      /\ UNCHANGED <<events, verdict, backfilled, sole>>
  BY DEF L!Replace, L!Done
<1>2. /\ standing \subseteq [promoter : L!Promoter, rank : Nat, points : Int] /\ Rankings(standing)
      /\ \A x, y \in snapshot : x.by = y.by /\ x \in sees => y \in sees
      /\ sole => sees = snapshot
  BY <1>1 DEF PointsInv, RebuildFits
<1>3. /\ snapshot \subseteq [promoter : L!Promoter, rank : Nat, points : Int, by : 1 .. 2]
      /\ rebuilds \in 0 .. 2 /\ \A x \in snapshot : x.by <= rebuilds
  BY DEF PointsInv, L!TypeOK, SnapshotFits
<1>4. k \in 1 .. 2
  BY <1>1, <1>3
<1>5. written \subseteq [promoter : L!Promoter, rank : Nat, points : Int, by : 1 .. 2] /\ \A x \in written : x.by = k
  BY <1>2, <1>4
<1>6. Rankings(written)
  <2> PICK n \in 0 .. Cardinality(Submission) : Ranked(standing, n)
    BY <1>2 DEF Rankings
  <2>1. {x.rank : x \in written} = {x.rank : x \in standing}
    <3> DEFINE row(x) == [promoter |-> x.promoter, rank |-> x.rank, points |-> x.points, by |-> k]
    <3>1. written = {row(x) : x \in standing} /\ \A x : row(x).rank = x.rank
      OBVIOUS
    <3> HIDE DEF row, written
    <3> QED BY <3>1
  <2>2. \A x, y \in standing : /\ x.rank = y.rank \/ x.promoter = y.promoter => x = y
                               /\ x.rank < y.rank => x.points >= y.points
    BY DEF Ranked
  <2>3. \A x, y \in written : /\ x.rank = y.rank \/ x.promoter = y.promoter => x = y
                              /\ x.rank < y.rank => x.points >= y.points
    BY <2>2
  <2> HIDE DEF written
  <2>4. Ranked(written, n)
    BY <2>1, <2>3 DEF Ranked
  <2> QED BY <2>4 DEF Rankings
<1> PICK new : new = written
  OBVIOUS
<1> HIDE DEF written
<1>7. snapshot' \subseteq [promoter : L!Promoter, rank : Nat, points : Int, by : 1 .. 2]
  BY <1>1, <1>3, <1>5
<1>8. /\ task' \in [Worker -> {"idle", "award", "score", "replace", "commit"}]
      /\ note' = [q \in Worker |-> note'[q]]
      /\ task'[r] = "idle"
      /\ \A q \in Worker \ {r} : task'[q] = task[q] /\ note'[q] = note[q]
      /\ OneReview' /\ NoneTwice'
  BY <1>1, RequestMoves
<1>9. EventsFit' /\ ApprovedFits'
  BY <1>1, EventsStay
<1>10. CapFits' /\ \A q \in Worker : AwardFits(q)'
  BY <1>1, <1>8, CapStays
<1>11. \A x \in snapshot' : x.by <= k /\ (x.by # k => x \in snapshot) /\ (x.by = k => x \in new)
  BY <1>1, <1>3, <1>4, <1>5
<1>12. SnapshotFits'
  <2>1. ASSUME NEW n \in 1 .. 2 PROVE Rankings({x \in snapshot' : x.by = n})
    <3>1. CASE n = k
      <4>1. {x \in snapshot' : x.by = n} = new
        BY <1>1, <1>5, <1>11, <3>1
      <4> QED BY <1>6, <4>1
    <3>2. CASE n # k /\ \E y \in snapshot : y.by = n /\ y \in sees
      <4>1. {x \in snapshot' : x.by = n} = {}
        BY <1>1, <1>2, <1>5, <3>2
      <4>2. Ranked({}, 0)
        BY DEF Ranked
      <4>3. 0 \in 0 .. Cardinality(Submission)
        BY FS_CardinalityType, PointsConstants
      <4> QED BY <4>1, <4>2, <4>3 DEF Rankings
    <3>3. CASE n # k /\ ~\E y \in snapshot : y.by = n /\ y \in sees
      <4>1. {x \in snapshot' : x.by = n} = {x \in snapshot : x.by = n}
        BY <1>1, <1>5, <3>3
      <4> QED BY <4>1 DEF PointsInv, SnapshotFits, Of
    <3> QED BY <3>1, <3>2, <3>3
  <2>2. sole => \A x, y \in snapshot' : x.by = y.by
    BY <1>1, <1>2, <1>5
  <2>3. \A n \in 1 .. 2 : Rankings(Of(n))'
    BY <2>1 DEF Rankings, Ranked, Of
  <2> QED BY <1>1, <1>11, <2>2, <2>3 DEF SnapshotFits
<1>13. ASSUME NEW q \in Worker PROVE RebuildFits(q)'
  <2>1. CASE q = r
    BY <1>8, <2>1 DEF RebuildFits
  <2>2. CASE q # r
    <3> PICK s, v : s = note[q].standing /\ v = note[q].sees
      OBVIOUS
    <3>1. /\ task'[q] = task[q] /\ note'[q] = note[q] /\ RebuildFits(q)
          /\ sole => task[q] = "idle"
      BY <1>1, <1>8, <2>2 DEF PointsInv, OneReview
    <3>2. task[q] \in {"replace", "commit"} =>
            s \subseteq [promoter : L!Promoter, rank : Nat, points : Int] /\ Rankings(s)
      BY <3>1 DEF RebuildFits
    <3>3. Rankings(s)' = Rankings(s)
      BY DEF Rankings, Ranked
    <3>4. ASSUME task[q] = "commit"
          PROVE  /\ \A x, y \in snapshot' : x.by = y.by /\ x \in v => y \in v
                 /\ \A x \in v : x.by \in 1 .. k
      <4>1. /\ \A x, y \in snapshot : x.by = y.by /\ x \in v => y \in v
            /\ \A x \in v : x.by \in 1 .. rebuilds
        BY <3>1, <3>4 DEF RebuildFits
      <4>2. k \notin 1 .. rebuilds
        BY <1>3
      <4>3. \A x \in v : x.by # k
        BY <4>1, <4>2
      <4>4. \A x, y \in snapshot' : x.by = y.by /\ x \in v => y \in v
        BY <1>11, <4>1, <4>3
      <4>5. \A n : n \in 1 .. rebuilds => n \in 1 .. k
        BY <1>3
      <4> QED BY <4>1, <4>4, <4>5
    <3> QED BY <1>1, <3>1, <3>2, <3>3, <3>4 DEF RebuildFits, L!Promoter
  <2> QED BY <2>1, <2>2
<1>14. L!TypeOK'
  <2>1. L!Type' = L!Type /\ L!Promoter' = L!Promoter
    BY DEF L!Type, L!Types, L!Earning, L!Penalties, L!Promoter
  <2>2. rebuilds' \in 0 .. 2
    BY <1>1, <1>4
  <2> QED BY <1>1, <1>7, <1>8, <2>1, <2>2 DEF PointsInv, L!TypeOK
<1> QED BY <1>8, <1>9, <1>10, <1>12, <1>13, <1>14 DEF PointsInv

-------------------------------------------------------------------------------

LEMMA PointsInitially == L!Init => PointsInv
<1> SUFFICES ASSUME L!Init PROVE PointsInv
  OBVIOUS
<1>1. /\ events = [s \in Submission |-> [t \in L!Type |-> None]]
      /\ verdict = [s \in Submission |-> "PENDING"]
      /\ snapshot = {} /\ rebuilds = 0 /\ backfilled = FALSE
      /\ task = [r \in Worker |-> "idle"] /\ note = [r \in Worker |-> None]
  BY DEF L!Init
<1>2. L!TypeOK
  <2>1. sole \in BOOLEAN /\ 0 \in 0 .. 2
    <3>1. PICK o \in Modes : sole = ~o
      BY DEF L!Init
    <3> QED BY <3>1
  <2>2. /\ events \in [Submission -> [L!Type -> Int \cup {None}]]
        /\ verdict \in [Submission -> {"PENDING", "APPROVED", "REJECTED"}]
        /\ task \in [Worker -> {"idle", "award", "score", "replace", "commit"}]
    BY <1>1
  <2>3. \A S : snapshot \subseteq S
    BY <1>1
  <2>4. rebuilds \in 0 .. 2 /\ backfilled \in BOOLEAN
    BY <1>1, <2>1
  <2> QED BY <2>1, <2>2, <2>3, <2>4 DEF L!TypeOK
<1>3. note = [r \in Worker |-> note[r]]
  BY <1>1
<1>4. \A s \in Submission : \A i \in 1 .. 4 : /\ events[s][L!Earning[i]] = None
                                              /\ Value(events[s], L!Earning[i]) = 0
  BY <1>1, EarningTypes DEF Value
<1>5. EventsFit
  <2>1. \A s \in Submission : \A i \in 1 .. 4 : 0 \in 0 .. Due(s)[i]
    BY DueIs
  <2> QED BY <1>1, <1>4, <2>1 DEF EventsFit
<1>6. ApprovedFits
  BY <1>1 DEF ApprovedFits
<1>7. CapFits
  <2> SUFFICES ASSUME NEW p \in L!Promoter
               PROVE  L!Earned(p) + SumFunctionOnSet(Awarding(p), Worker) <= Hands * PointCap
    BY DEF CapFits
  <2>1. Countable(events) /\ \A s \in Submission : RowGot(events[s]) = 0
    BY <1>4 DEF Countable, RowGot
  <2>2. L!Earned(p) = 0
    <3> PICK S : S = L!Of(p)
      OBVIOUS
    <3> PICK f : f = [s \in S |-> RowGot(events[s])]
      OBVIOUS
    <3>1. IsFiniteSet(S) /\ \A s \in S : f[s] = 0
      BY <2>1, SubmissionsOf
    <3>2. SumFunctionOnSet(f, S) = 0
      BY <3>1, SumOfZeros
    <3> QED BY <2>1, <3>2, EarnedIs DEF Total
  <2>3. SumFunctionOnSet(Awarding(p), Worker) = 0
    <3> PICK f : f = Awarding(p)
      OBVIOUS
    <3>1. IsFiniteSet(Worker) /\ \A r \in Worker : f[r] = 0
      BY <1>1, PointsConstants DEF Awarding
    <3>2. SumFunctionOnSet(f, Worker) = 0
      BY <3>1, SumOfZeros
    <3> QED BY <3>2
  <2>4. Hands \in Nat /\ PointCap \in Nat
    BY PointsConstants, FS_CardinalityType DEF Hands
  <2>5. \A m, n \in Nat : 0 <= m * n
    OBVIOUS
  <2> QED BY <2>2, <2>3, <2>4, <2>5
<1>8. SnapshotFits
  <2>1. \A n : Of(n) = {}
    BY <1>1 DEF Of
  <2>2. Ranked({}, 0)
    BY DEF Ranked
  <2>3. 0 \in 0 .. Cardinality(Submission)
    BY FS_CardinalityType, PointsConstants
  <2> QED BY <1>1, <2>1, <2>2, <2>3 DEF SnapshotFits, Rankings
<1>9. OneReview /\ NoneTwice
  BY <1>1 DEF OneReview, NoneTwice
<1>10. \A r \in Worker : AwardFits(r) /\ RebuildFits(r)
  BY <1>1 DEF AwardFits, RebuildFits
<1> QED BY <1>2, <1>3, <1>5, <1>6, <1>7, <1>8, <1>9, <1>10 DEF PointsInv

LEMMA PointsStay == PointsInv /\ UNCHANGED pointVars => PointsInv'
<1> SUFFICES ASSUME PointsInv, UNCHANGED pointVars PROVE PointsInv'
  OBVIOUS
<1>1. UNCHANGED <<events, verdict, snapshot, rebuilds, backfilled, sole, task, note>>
  BY DEF pointVars
<1>2. EventsFit' /\ ApprovedFits'
  BY <1>1, EventsStay
<1>3. ASSUME NEW q \in Worker PROVE AwardFits(q)' /\ RebuildFits(q)'
  <2>1. AwardFits(q) /\ RebuildFits(q) /\ task'[q] = task[q] /\ note'[q] = note[q]
    BY <1>1 DEF PointsInv
  <2>2. /\ Countable(events) /\ Countable(events') /\ \A p : Total(events, p) <= Total(events', p)
        /\ task[q] = "award" => verdict'[note[q].of] = verdict[note[q].of]
    BY <1>1, EventsStay
  <2>3. AwardFits(q)'
    BY <2>1, <2>2, AwardGoesOn
  <2> QED BY <1>1, <2>1, <2>3, RebuildGoesOn
<1>4. CapFits'
  <2>1. \A p : Awarding(p)' = Awarding(p)
    BY <1>1 DEF Awarding, L!Sum
  <2>2. Hands' = Hands /\ \A p : L!Earned(p)' = L!Earned(p)
    BY <1>1, EventsStay DEF Hands
  <2> QED BY <1>1, <2>1, <2>2 DEF PointsInv, CapFits, L!Promoter
<1>5. SnapshotFits'
  BY <1>1, SnapshotStays DEF PointsInv
<1>6. OneReview' /\ NoneTwice'
  BY <1>1 DEF PointsInv, OneReview, NoneTwice
<1>7. L!TypeOK' /\ note' = [r \in Worker |-> note'[r]]
  BY <1>1 DEF PointsInv, L!TypeOK, L!Type, L!Types, L!Earning, L!Penalties, L!Promoter
<1> QED BY <1>2, <1>3, <1>4, <1>5, <1>6, <1>7 DEF PointsInv

LEMMA PointsInductive == PointsInv /\ [L!Next]_pointVars => PointsInv'
<1> SUFFICES ASSUME PointsInv, L!Next PROVE PointsInv'
  BY PointsStay
<1>1. CASE \E r \in Worker, s \in Submission : L!ReadPrior(r, s)
  BY <1>1, ReadPriorStep
<1>2. CASE \E r \in Worker : L!Approve(r)
  BY <1>2, ApproveStep
<1>3. CASE \E r \in Worker : L!Backfill(r)
  BY <1>3, BackfillStep
<1>4. CASE \E r \in Worker : L!ReadScores(r)
  BY <1>4, ReadScoresStep
<1>5. CASE \E r \in Worker : L!DeleteSeen(r)
  BY <1>5, DeleteSeenStep
<1>6. CASE \E r \in Worker : L!Replace(r)
  BY <1>6, ReplaceStep
<1>7. CASE \E s \in Submission : L!Reject(s)
  BY <1>7, RejectSubmissionStep
<1> QED BY <1>1, <1>2, <1>3, <1>4, <1>5, <1>6, <1>7 DEF L!Next

\* The rows of one rebuild are as many as their ranks and their promoters.
LEMMA RowsCount ==
  ASSUME NEW rows, NEW m \in Nat, Ranked(rows, m)
  PROVE  /\ {x.rank : x \in rows} = 1 .. Cardinality(rows)
         /\ Cardinality({x.promoter : x \in rows}) = Cardinality(rows)
         /\ \A x, y \in rows : x.rank < y.rank => x.points >= y.points
<1>1. /\ {x.rank : x \in rows} = 1 .. m
      /\ \A x, y \in rows : /\ x.rank = y.rank \/ x.promoter = y.promoter => x = y
                            /\ x.rank < y.rank => x.points >= y.points
  BY DEF Ranked
<1> PICK M, N : M = 1 .. m /\ N = {x.promoter : x \in rows}
  OBVIOUS
<1>2. IsFiniteSet(M) /\ Cardinality(M) = m
  BY FS_Interval
<1> PICK f : f = [x \in rows |-> x.rank]
  OBVIOUS
<1>3. f \in [rows -> M] /\ (\A x, y \in rows : f[x] = f[y] => x = y) /\ \A i \in M : \E x \in rows : f[x] = i
  BY <1>1
<1>4. f \in Injection(rows, M) /\ f \in Surjection(rows, M)
  BY <1>3 DEF Injection, IsInjective, Surjection
<1>5. IsFiniteSet(rows) /\ Cardinality(rows) = m
  BY <1>2, <1>4, FS_Injection
<1> PICK g : g = [x \in rows |-> x.promoter]
  OBVIOUS
<1>6. g \in [rows -> N] /\ (\A x, y \in rows : g[x] = g[y] => x = y) /\ \A p \in N : \E x \in rows : g[x] = p
  BY <1>1
<1>7. g \in Injection(rows, N) /\ g \in Surjection(rows, N)
  BY <1>6 DEF Injection, IsInjective, Surjection
<1>8. Cardinality(N) = Cardinality(rows)
  BY <1>5, <1>7, FS_Surjection
<1> QED BY <1>1, <1>5, <1>8

\* Those above a place are those who come before it, if nobody ties.
LEMMA PlacesAbove ==
  ASSUME PointsInv, NEW order \in L!SetToSeqs(L!Scored), L!Stands(order), NEW i \in DOMAIN order
  PROVE  /\ L!RankShown(order[i]) <= i
         /\ (\A q \in L!Scored : L!SeasonPoints(q) = L!SeasonPoints(order[i]) => q = order[i])
              => L!RankShown(order[i]) = i
<1> PICK n \in Nat :
      /\ DOMAIN order = 1 .. n /\ \A j \in 1 .. n : order[j] \in L!Scored
      /\ \A j, k \in 1 .. n : j # k => order[j] # order[k]
      /\ \A p \in L!Scored : \E j \in 1 .. n : order[j] = p
  BY OrderIs
<1> PICK above, D : above = {q \in L!Scored : L!SeasonPoints(q) > L!SeasonPoints(order[i])} /\ D = 1 .. i - 1
  OBVIOUS
<1> PICK first : first = {order[j] : j \in D}
  OBVIOUS
<1> PICK f : f = [j \in D |-> order[j]]
  OBVIOUS
<1>1. i \in 1 .. n /\ i \in Nat /\ i # 0
  OBVIOUS
<1>2. IsFiniteSet(D) /\ Cardinality(D) = i - 1 /\ D \subseteq 1 .. n
  <2> PICK k : k = i - 1
    OBVIOUS
  <2>1. IsFiniteSet(1 .. k) /\ Cardinality(1 .. k) = IF 1 > k THEN 0 ELSE k - 1 + 1
    <3>1. 1 \in Int /\ k \in Int
      BY <1>1
    <3> QED BY ONLY <3>1, FS_Interval
  <2>2. k \in Nat /\ D = 1 .. k /\ k < n + 1 /\ (IF 1 > k THEN 0 ELSE k - 1 + 1) = k
    BY <1>1
  <2>3. \A j \in 1 .. k : j \in 1 .. n
    BY <2>2
  <2> QED BY <2>1, <2>2, <2>3
<1>3. f \in [D -> first] /\ (\A j, k \in D : f[j] = f[k] => j = k) /\ \A p \in first : \E j \in D : f[j] = p
  BY <1>2
<1>4. f \in Injection(D, first) /\ f \in Surjection(D, first)
  BY <1>3 DEF Injection, IsInjective, Surjection
<1>5. IsFiniteSet(first) /\ Cardinality(first) = i - 1
  BY <1>2, <1>4, FS_Surjection
<1>6. \A p : L!SeasonPoints(p) \in Int
  BY ScoresAreWhole DEF PointsInv
<1>7. above \subseteq first
  <2> SUFFICES ASSUME NEW q \in L!Scored, L!SeasonPoints(q) > L!SeasonPoints(order[i])
               PROVE  q \in first
    OBVIOUS
  <2>1. PICK j \in 1 .. n : order[j] = q
    OBVIOUS
  <2>2. ~(i < j)
    BY <1>1, <1>6, <2>1 DEF L!Stands
  <2>3. i # j
    BY <1>6, <2>1
  <2>4. j \in D
    BY <1>1, <2>2, <2>3
  <2> QED BY <2>1, <2>4
<1>8. IsFiniteSet(above) /\ Cardinality(above) <= i - 1 /\ Cardinality(above) \in Nat
  BY <1>5, <1>7, FS_Subset, FS_CardinalityType
<1>9. L!RankShown(order[i]) = 1 + Cardinality(above)
  BY SameCardinality DEF L!RankShown
<1>10. ASSUME \A q \in L!Scored : L!SeasonPoints(q) = L!SeasonPoints(order[i]) => q = order[i]
       PROVE  Cardinality(above) = i - 1
  <2>1. ASSUME NEW j \in D PROVE order[j] \in above
    <3>1. j \in 1 .. n /\ j < i /\ order[j] # order[i] /\ order[j] \in L!Scored
      BY <1>1, <1>2
    <3>2. L!SeasonPoints(order[j]) >= L!SeasonPoints(order[i])
      BY <3>1 DEF L!Stands
    <3>3. L!SeasonPoints(order[j]) # L!SeasonPoints(order[i])
      BY <1>10, <3>1
    <3> QED BY <1>6, <3>1, <3>2, <3>3
  <2>2. above = first
    BY <1>7, <2>1
  <2> QED BY <1>5, <2>2
<1> QED BY <1>1, <1>8, <1>9, <1>10

LEMMA PointsKept == PointsInv => L!TypeOK /\ L!CapHolds /\ L!SnapshotRanks /\ L!BoardAgrees
<1> SUFFICES ASSUME PointsInv PROVE L!TypeOK /\ L!CapHolds /\ L!SnapshotRanks /\ L!BoardAgrees
  OBVIOUS
<1>1. L!TypeOK
  BY DEF PointsInv
<1>2. L!CapHolds
  <2>1. Hands = IF sole THEN 1 ELSE L!Cardinality(Worker)
    BY SameCardinality DEF Hands
  <2>2. ASSUME NEW p \in L!Promoter, PointCap > 0, ~backfilled PROVE L!Earned(p) <= Hands * PointCap
    <3>1. L!Earned(p) + SumFunctionOnSet(Awarding(p), Worker) <= Hands * PointCap
      BY <2>2 DEF PointsInv, CapFits
    <3>2. SumFunctionOnSet(Awarding(p), Worker) \in Nat
      BY HandsAreNat DEF PointsInv
    <3>3. L!Earned(p) \in Nat
      <4>1. Countable(events)
        BY EventsCount DEF PointsInv
      <4> QED BY <4>1, TotalIsNat, EarnedIs
    <3>4. Hands * PointCap \in Int
      <4>1. Hands \in Nat
        BY PointsConstants, FS_CardinalityType DEF Hands
      <4> QED BY <4>1, PointsConstants
    <3> QED BY <3>1, <3>2, <3>3, <3>4
  <2>3. \A p \in L!Promoter : \A s \in L!Of(p) : verdict[s] = "APPROVED" /\ PointCap > 0 =>
          L!SumOf(s, L!Types) = L!Sum(L!DeliveryAwards(Facts[s], Points)) \/ L!Earned(p) >= PointCap
    BY DEF PointsInv, ApprovedFits, Got, Due, L!Of
  <2> QED BY <2>1, <2>2, <2>3 DEF L!CapHolds
<1>3. L!SnapshotRanks
  <2>1. ASSUME NEW n \in {x.by : x \in snapshot}
        PROVE  LET rows == {x \in snapshot : x.by = n} IN
               /\ {x.rank : x \in rows} = 1 .. L!Cardinality(rows)
               /\ L!Cardinality({x.promoter : x \in rows}) = L!Cardinality(rows)
               /\ \A x, y \in rows : x.rank < y.rank => x.points >= y.points
    <3> PICK rows : rows = {x \in snapshot : x.by = n}
      OBVIOUS
    <3>1. n \in 1 .. 2
      BY <1>1 DEF L!TypeOK
    <3>2. PICK m \in Nat : Ranked(rows, m)
      <4>1. Rankings(rows)
        BY <3>1 DEF PointsInv, SnapshotFits, Of
      <4> QED BY <4>1 DEF Rankings
    <3>3. /\ {x.rank : x \in rows} = 1 .. L!Cardinality(rows)
          /\ L!Cardinality({x.promoter : x \in rows}) = L!Cardinality(rows)
          /\ \A x, y \in rows : x.rank < y.rank => x.points >= y.points
      BY <3>2, RowsCount, SameCardinality
    <3> QED BY <3>3
  <2>2. sole => \A x, y \in snapshot : x.by = y.by
    BY DEF PointsInv, SnapshotFits
  <2> QED BY <2>1, <2>2 DEF L!SnapshotRanks
<1>4. L!BoardAgrees
  BY PlacesAbove DEF L!BoardAgrees
<1> QED BY <1>1, <1>2, <1>3, <1>4

-------------------------------------------------------------------------------
(* The theorems *)

\* The bank accounts, of any promoters and however many requests add to them at once, go
\* on as create() of bank-accounts.service.ts has it.
THEOREM BankInvariant == B!Spec => []BankInv
<1>1. BankInv /\ [B!Next]_B!vars => BankInv'
  BY BankInductive DEF B!vars, bankVars
<1> QED BY <1>1, BankInitially, PTL DEF B!Spec

\* So does the account with its codes and sessions (auth.service.ts, otp.service.ts,
\* session.service.ts).
THEOREM AccountInvariant == A!Spec => []AccountInv
<1>1. AccountInv /\ [A!Next]_A!vars => AccountInv'
  BY AccountInductive DEF A!vars, accountVars
<1> QED BY <1>1, AccountInitially, PTL DEF A!Spec

\* And the profile with its channels and what admins decide about them (profile.service.ts,
\* channels.service.ts, admin.service.ts).
THEOREM ProfileInvariant == P!Spec => []ProfileInv
<1>1. ProfileInv /\ [P!Next]_P!vars => ProfileInv'
  BY ProfileInductive DEF P!vars, profileVars
<1> QED BY <1>1, ProfileInitially, PTL DEF P!Spec

\* And the points of a campaign with its standings (points.service.ts,
\* leaderboard.service.ts, admin.service.ts), however many approvals and rebuilds overlap.
THEOREM PointsInvariant == L!Spec => []PointsInv
<1>1. PointsInv /\ [L!Next]_L!vars => PointsInv'
  BY PointsInductive DEF L!vars, pointVars
<1> QED BY <1>1, PointsInitially, PTL DEF L!Spec

\* The four parts go on so side by side, as MCWithdrawals has them.
THEOREM PromoterInvariant == PromoterSpec => [](BankInv /\ AccountInv /\ ProfileInv /\ PointsInv)
<1>1. PromoterInit => BankInv /\ AccountInv /\ ProfileInv /\ PointsInv
  BY BankInitially, AccountInitially, ProfileInitially, PointsInitially DEF PromoterInit
<1>2. BankInv /\ AccountInv /\ ProfileInv /\ PointsInv /\ [PromoterNext]_allVars
        => (BankInv /\ AccountInv /\ ProfileInv /\ PointsInv)'
  <2> SUFFICES ASSUME BankInv, AccountInv, ProfileInv, PointsInv, [PromoterNext]_allVars
               PROVE  BankInv' /\ AccountInv' /\ ProfileInv' /\ PointsInv'
    OBVIOUS
  <2>1. [B!Next]_bankVars /\ [A!Next]_accountVars /\ [P!Next]_profileVars /\ [L!Next]_pointVars
    BY DEF PromoterNext, allVars
  <2> QED BY <2>1, BankInductive, AccountInductive, ProfileInductive, PointsInductive
<1> QED BY <1>1, <1>2, PTL DEF PromoterSpec

\* A payout goes to the newest account of the promoter, whoever adds accounts at the same
\* time, and never to one there was before a request began; if requests do not overlap a
\* promoter has one default, and a number one holder.
THEOREM PayoutGoesToOwner == PromoterSpec => []PaidToOwner
<1>1. BankInv => PaidToOwner
  BY BankKept DEF PaidToOwner
<1> QED BY <1>1, PromoterInvariant, PTL

\* Requests that overlap multiply the codes that are good, the tries of a code and the
\* sessions that follow one by no more than their number; if they do not overlap each is
\* one, no session outlives a change of password, and nothing lifts a suspension.
THEOREM AccountAlwaysKept == PromoterSpec => []AccountKept
<1>1. AccountInv => AccountKept
  BY AccountIsKept DEF AccountKept
<1> QED BY <1>1, PromoterInvariant, PTL

\* What was decided about a promoter last is how the profile stands and what he was told, as
\* long as requests do not overlap; and whoever can be matched has been scored by an admin's
\* decision, with no channel above the cap at a tier nobody checked, even if they do.
THEOREM DecisionsAlwaysStand == PromoterSpec => []DecisionsStand
<1>1. ProfileInv => DecisionsStand
  BY ProfileKept DEF DecisionsStand
<1> QED BY <1>1, PromoterInvariant, PTL

\* Until a backfill nobody earns more than the cap on a campaign, or as many times the cap
\* as approvals overlap, and no award is trimmed below it; the rows a rebuild wrote rank
\* each promoter once, in the order of their points, and the rank shown agrees.
THEOREM PointsAlwaysHold == PromoterSpec => []PointsHold
<1>1. PointsInv => PointsHold
  BY PointsKept DEF PointsHold
<1> QED BY <1>1, PromoterInvariant, PTL

===============================================================================
