--------------------------- MODULE WithdrawalsProofs ---------------------------
(***************************************************************************)
(* What a withdrawal's status says about the ledger, for any number of     *)
(* withdrawals, requests, keys, retries and crashes.  Types and the        *)
(* property alone are not inductive: between the posting and the record it *)
(* is the request under way that knows what moved.                         *)
(***************************************************************************)
EXTENDS Withdrawals, Sums, TLAPS

\* A request about to post or record is about a withdrawal that exists, and what it
\* takes for granted has moved: a bounce follows a payment, a record follows its posting.
Justified(w) ==
  /\ pc[w] \in {"post", "record"} => wd[job[w].id] # None
  /\ pc[w] = "post" =>
       /\ job[w].key \in Key
       /\ job[w].decision = "PAID" \/ (job[w].decision = "REVERSED" /\ HasMoved("PAID", job[w].id))
  /\ pc[w] = "record" /\ job[w].decision \in {"PAID", "REVERSED"}
       => HasMoved(job[w].decision, job[w].id)

IInv == TypeOK /\ StatusHasMoney /\ \A w \in Worker : Justified(w)

LEMMA Initial == ASSUME Init PROVE IInv
<1>1. TypeOK
  BY WithdrawalsAssumption DEF Init, TypeOK, Carries
<1>2. StatusHasMoney
  BY WithdrawalsAssumption DEF Init, StatusHasMoney, HasMoved, Posting
<1> QED BY <1>1, <1>2 DEF Init, IInv, Justified

\* A step that only moves one request along keeps what its new place is justified by.
LEMMA OneRequestMoves ==
  ASSUME IInv, NEW w \in Worker, NEW place, NEW read,
         pc' = [pc EXCEPT ![w] = place], job' = [job EXCEPT ![w] = read],
         UNCHANGED <<available, earned, wd, kyc, posted, noted, alone>>, crashes' \in Nat,
         place \in {"idle", "check", "create", "post", "record"},
         read \in Asking \cup Deciding \cup {None},
         Carries(w)', Justified(w)'
  PROVE  IInv'
<1>1. \A x \in Worker \ {w} : pc'[x] = pc[x] /\ job'[x] = job[x]
  BY DEF IInv, TypeOK
<1>2. \A x \in Worker : Carries(x)'
  BY <1>1 DEF IInv, TypeOK, Carries
<1>3. \A x \in Worker : Justified(x)'
  BY <1>1 DEF IInv, Justified, HasMoved
<1>4. TypeOK'
  BY <1>2 DEF IInv, TypeOK
<1>5. StatusHasMoney'
  BY DEF IInv, StatusHasMoney, HasMoved
<1> QED BY <1>3, <1>4, <1>5 DEF IInv

\* A request that is over justifies nothing.
LEMMA OneRequestEnds ==
  ASSUME IInv, NEW w \in Worker, Done(w),
         UNCHANGED <<available, earned, wd, kyc, posted, noted, alone>>, crashes' \in Nat
  PROVE  IInv'
<1>1. pc'[w] = "idle" /\ job'[w] = None
  BY DEF IInv, TypeOK, Done, Goto
<1>2. Carries(w)' /\ Justified(w)'
  BY <1>1 DEF Carries, Justified
<1> QED BY <1>2, OneRequestMoves DEF Done, Goto

\* Nothing that moved is ever forgotten.
LEMMA MovedStays ==
  ASSUME TypeOK, NEW k \in Key, posted[k] = None, NEW p, posted' = [posted EXCEPT ![k] = p]
  PROVE  \A d \in {"PAID", "REVERSED"}, n \in Withdrawal : HasMoved(d, n) => HasMoved(d, n)'
<1> SUFFICES ASSUME NEW d \in {"PAID", "REVERSED"}, NEW n \in Withdrawal, HasMoved(d, n)
             PROVE  HasMoved(d, n)'
  OBVIOUS
<1>1. PICK j \in Key : posted[j] = <<d, n>>
  BY DEF HasMoved
<1>2. j # k
  BY <1>1, WithdrawalsAssumption DEF Posting
<1>3. posted'[j] = <<d, n>>
  BY <1>1, <1>2 DEF TypeOK
<1> QED BY <1>3 DEF HasMoved

LEMMA RequestReadKeeps ==
  ASSUME IInv, NEW w \in Worker, NEW a \in Amounts, RequestRead(w, a)
  PROVE  IInv'
<1> DEFINE read == [amount |-> a, available |-> available]
<1>1. read \in Asking
  BY DEF IInv, TypeOK, Asking
<1>2. pc'[w] = "check" /\ job'[w] = read
  BY DEF RequestRead, Begin, IInv, TypeOK
<1>3. Carries(w)' /\ Justified(w)'
  BY <1>1, <1>2 DEF Carries, Justified
<1> QED BY <1>1, <1>3, OneRequestMoves DEF RequestRead, Begin, frame, IInv, TypeOK

LEMMA RequestCheckKeeps ==
  ASSUME IInv, NEW w \in Worker, RequestCheck(w)
  PROVE  IInv'
<1> USE DEF RequestCheck, frame
<1>1. crashes' \in Nat
  BY DEF IInv, TypeOK
<1>2. CASE Done(w)
  BY <1>1, <1>2, OneRequestEnds
<1>3. CASE Goto(w, "create", job[w])
  <2>1. job[w] \in Asking
    BY DEF IInv, TypeOK, Carries
  <2>2. pc'[w] = "create" /\ job'[w] = job[w]
    BY <1>3 DEF Goto, IInv, TypeOK
  <2>3. Carries(w)' /\ Justified(w)'
    BY <2>1, <2>2 DEF Carries, Justified
  <2> QED BY <1>1, <1>3, <2>1, <2>3, OneRequestMoves DEF Goto
<1> QED BY <1>2, <1>3

LEMMA RequestCreateKeeps ==
  ASSUME IInv, NEW w \in Worker, RequestCreate(w)
  PROVE  IInv'
<1> USE DEF RequestCreate, frame, Done, Goto
<1> DEFINE row == [status |-> "REQUESTED", amount |-> job[w].amount]
<1>1. row \in Row
  BY DEF IInv, TypeOK, Carries, Asking, Row, Status
<1>2. \A n \in Withdrawal : wd'[n] = wd[n] \/ wd'[n] = row
  BY DEF IInv, TypeOK
<1>3. \A n \in Withdrawal : wd[n] # None => wd'[n] # None
  BY <1>1, <1>2, WithdrawalsAssumption
<1>4. \A x \in Worker \ {w} : pc'[x] = pc[x] /\ job'[x] = job[x]
  BY DEF IInv, TypeOK
<1>5. pc'[w] = "idle" /\ job'[w] = None
  BY DEF IInv, TypeOK
<1>6. \A x \in Worker : Carries(x)'
  BY <1>4, <1>5 DEF IInv, TypeOK, Carries
<1>7. wd' \in [Withdrawal -> Row \cup {None}]
  BY <1>1 DEF IInv, TypeOK
<1>8. TypeOK'
  BY <1>6, <1>7 DEF IInv, TypeOK
<1>9. StatusHasMoney'
  <2> SUFFICES ASSUME NEW n \in Withdrawal
               PROVE  /\ wd'[n] # None /\ wd'[n].status \in {"PAID", "REVERSED"}
                           => HasMoved(wd[n].status, n)'
                      /\ HasMoved("REVERSED", n)' => HasMoved("PAID", n)'
    BY DEF StatusHasMoney
  <2>1. \A d : HasMoved(d, n)' <=> HasMoved(d, n)
    BY DEF HasMoved
  <2>2. row.status = "REQUESTED"
    OBVIOUS
  <2>3. CASE wd'[n] = row
    BY <2>1, <2>2, <2>3 DEF IInv, StatusHasMoney
  <2>4. CASE wd'[n] = wd[n]
    BY <2>1, <2>4 DEF IInv, StatusHasMoney
  <2> QED BY <1>2, <2>3, <2>4
<1>10. \A x \in Worker \ {w} : Justified(x)'
  <2> SUFFICES ASSUME NEW x \in Worker \ {w} PROVE Justified(x)'
    OBVIOUS
  <2>1. Justified(x) /\ Carries(x)
    BY DEF IInv, TypeOK
  <2>2. pc[x] \in {"post", "record"} => job[x].id \in Withdrawal
    BY <2>1 DEF Carries, Deciding
  <2> QED BY <1>3, <1>4, <2>1, <2>2 DEF Justified, HasMoved
<1>11. Justified(w)'
  BY <1>5 DEF Justified
<1> QED BY <1>8, <1>9, <1>10, <1>11 DEF IInv

LEMMA DecideReadKeeps ==
  ASSUME IInv, NEW w \in Worker, NEW d \in {"APPROVED", "FAILED"}, NEW n \in Withdrawal,
         DecideRead(w, d, n)
  PROVE  IInv'
<1> DEFINE read == [decision |-> d, id |-> n, key |-> None]
<1>1. read \in Deciding
  BY DEF Deciding, Status
<1>2. pc'[w] = "record" /\ job'[w] = read /\ wd' = wd
  BY DEF DecideRead, Begin, IInv, TypeOK
<1>3. Carries(w)' /\ Justified(w)'
  BY <1>1, <1>2 DEF Carries, Justified, DecideRead
<1> QED BY <1>1, <1>3, OneRequestMoves DEF DecideRead, Begin, frame, IInv, TypeOK

LEMMA MoveReadKeeps ==
  ASSUME IInv, NEW w \in Worker, NEW d \in {"PAID", "REVERSED"}, NEW n \in Withdrawal,
         NEW k \in Key, MoveRead(w, d, n, k)
  PROVE  IInv'
<1> USE DEF MoveRead, Begin
<1> DEFINE read == [decision |-> d, id |-> n, key |-> k]
<1>1. read \in Deciding
  BY DEF Deciding, Status
<1>2. pc'[w] = "post" /\ job'[w] = read /\ wd' = wd /\ posted' = posted
  BY DEF IInv, TypeOK
<1>3. d = "REVERSED" => HasMoved("PAID", n)
  BY DEF IInv, StatusHasMoney, Allows
<1>4. Carries(w)'
  BY <1>1, <1>2 DEF Carries
<1>5. Justified(w)'
  BY <1>2, <1>3 DEF Justified, HasMoved
<1> QED BY <1>1, <1>4, <1>5, OneRequestMoves DEF frame, IInv, TypeOK

LEMMA MovePostKeeps ==
  ASSUME IInv, NEW w \in Worker, MovePost(w)
  PROVE  IInv'
<1> DEFINE d == job[w].decision
           n == job[w].id
           k == job[w].key
<1>1. /\ pc[w] = "post" /\ job[w] \in Deciding /\ wd[n] \in Row /\ n \in Withdrawal
      /\ k \in Key /\ d \in {"PAID", "REVERSED"}
      /\ d = "REVERSED" => HasMoved("PAID", n)
  BY DEF MovePost, IInv, TypeOK, Carries, Justified, Deciding
<1>2. CASE Done(w) /\ UNCHANGED <<available, posted>>
  BY <1>2, OneRequestEnds DEF MovePost, frame, IInv, TypeOK
<1>3. CASE /\ posted[k] = None /\ ~(available + Change(d, n) < 0)
           /\ available' = available + Change(d, n)
           /\ posted' = [posted EXCEPT ![k] = <<d, n>>]
           /\ Goto(w, "record", job[w])
  <2> USE <1>3
  <2>1. /\ UNCHANGED <<wd, noted, earned, kyc, alone, crashes, job>>
        /\ pc' = [pc EXCEPT ![w] = "record"]
    BY DEF MovePost, frame, Goto, IInv, TypeOK
  <2>2. available' \in Nat
    <3>1. wd[n].amount \in Nat
      BY <1>1, WithdrawalsAssumption DEF Row
    <3>2. Change(d, n) \in Int
      BY <1>1, <3>1 DEF Change
    <3>3. available \in Nat
      BY DEF IInv, TypeOK
    <3> QED BY <3>2, <3>3
  <2>3. posted' \in [Key -> Posting \cup {None}]
    BY <1>1 DEF Posting, IInv, TypeOK
  <2>4. \A x \in Worker : Carries(x)'
    BY <2>1, <1>1 DEF IInv, TypeOK, Carries
  <2>5. TypeOK'
    BY <2>1, <2>2, <2>3, <2>4 DEF IInv, TypeOK
  <2>6. \A c \in {"PAID", "REVERSED"}, m \in Withdrawal : HasMoved(c, m) => HasMoved(c, m)'
    BY <1>1, MovedStays DEF IInv
  <2>7. posted'[k] = <<d, n>>
    BY <1>1 DEF IInv, TypeOK
  <2>8. job' = job /\ HasMoved(d, n)'
    BY <1>1, <2>1, <2>7 DEF HasMoved
  <2>9. \A m \in Withdrawal : HasMoved("REVERSED", m)' => HasMoved("PAID", m)'
    <3> SUFFICES ASSUME NEW m \in Withdrawal, NEW j \in Key, posted'[j] = <<"REVERSED", m>>
                 PROVE  HasMoved("PAID", m)'
      BY DEF HasMoved
    <3>1. CASE j = k
      BY <3>1, <1>1, <2>6, <2>7
    <3>2. CASE j # k
      <4>1. posted[j] = <<"REVERSED", m>>
        BY <3>2, <1>1 DEF IInv, TypeOK
      <4> QED BY <4>1, <2>6 DEF IInv, StatusHasMoney, HasMoved
    <3> QED BY <3>1, <3>2
  <2>10. StatusHasMoney'
    BY <2>1, <2>6, <2>9 DEF IInv, StatusHasMoney
  <2>11. \A x \in Worker : Justified(x)'
    <3> SUFFICES ASSUME NEW x \in Worker PROVE Justified(x)'
      OBVIOUS
    <3>1. CASE x = w
      BY <3>1, <1>1, <2>1, <2>8 DEF Justified, IInv, TypeOK
    <3>2. CASE x # w
      <4>1. pc'[x] = pc[x] /\ job'[x] = job[x] /\ wd' = wd
        BY <3>2, <2>1 DEF IInv, TypeOK
      <4>2. pc[x] \in {"post", "record"} => job[x].id \in Withdrawal
        BY DEF IInv, TypeOK, Carries, Deciding
      <4> QED BY <4>1, <4>2, <2>6 DEF Justified, IInv
    <3> QED BY <3>1, <3>2
  <2> QED BY <2>5, <2>10, <2>11 DEF IInv
<1> QED BY <1>2, <1>3 DEF MovePost

LEMMA RecordKeeps ==
  ASSUME IInv, NEW w \in Worker, Record(w)
  PROVE  IInv'
<1> DEFINE d == job[w].decision
           n == job[w].id
<1>1. /\ pc[w] = "record" /\ n \in Withdrawal /\ wd[n] \in Row /\ d \in Status
      /\ d \in {"PAID", "REVERSED"} => HasMoved(d, n)
  BY DEF Record, IInv, TypeOK, Carries, Justified, Deciding
<1>2. CASE UNCHANGED <<wd, noted>>
  BY <1>2, OneRequestEnds DEF Record, frame, IInv, TypeOK
<1>3. CASE wd' = [wd EXCEPT ![n].status = d] /\ noted' = noted \cup {<<d, n>>}
  <2> USE <1>3
  <2>1. /\ UNCHANGED <<available, posted, earned, kyc, alone, crashes>>
        /\ pc' = [pc EXCEPT ![w] = "idle"] /\ job' = [job EXCEPT ![w] = None]
    BY DEF Record, frame, Done, Goto
  <2>2. /\ wd'[n] \in Row /\ wd'[n].status = d
        /\ \A m \in Withdrawal \ {n} : wd'[m] = wd[m]
    BY <1>1 DEF IInv, TypeOK, Row
  <2>3. wd' \in [Withdrawal -> Row \cup {None}]
    BY <2>2 DEF IInv, TypeOK
  <2>4. \A x \in Worker : Carries(x)'
    BY <2>1 DEF IInv, TypeOK, Carries
  <2>5. noted' \subseteq Status \X Withdrawal
    BY <1>1 DEF IInv, TypeOK
  <2>6. TypeOK'
    BY <2>1, <2>3, <2>4, <2>5 DEF IInv, TypeOK
  <2>7. StatusHasMoney'
    BY <1>1, <2>1, <2>2 DEF IInv, StatusHasMoney, HasMoved
  <2>8. \A m \in Withdrawal : wd[m] # None => wd'[m] # None
    BY <2>2, WithdrawalsAssumption
  <2>9. \A x \in Worker : Justified(x)'
    <3> SUFFICES ASSUME NEW x \in Worker, x # w PROVE Justified(x)'
      BY <2>1 DEF Justified, IInv, TypeOK
    <3>1. pc'[x] = pc[x] /\ job'[x] = job[x]
      BY <2>1 DEF IInv, TypeOK
    <3>2. pc[x] \in {"post", "record"} => job[x].id \in Withdrawal
      BY DEF IInv, TypeOK, Carries, Deciding
    <3> QED BY <3>1, <3>2, <2>1, <2>8 DEF Justified, IInv, HasMoved
  <2> QED BY <2>6, <2>7, <2>9 DEF IInv
<1> QED BY <1>2, <1>3 DEF Record

LEMMA Step == ASSUME IInv, [Next]_vars PROVE IInv'
<1>1. CASE UNCHANGED vars
  <2> USE <1>1 DEF vars
  <2>1. TypeOK'
    BY DEF IInv, TypeOK, Carries
  <2>2. StatusHasMoney'
    BY DEF IInv, StatusHasMoney, HasMoved
  <2> QED BY <2>1, <2>2 DEF IInv, Justified, HasMoved
<1>2. ASSUME NEW a \in Amounts, Earn(a) PROVE IInv'
  <2> USE <1>2 DEF Earn
  <2>1. available' \in Nat /\ earned' \in Nat
    BY WithdrawalsAssumption DEF IInv, TypeOK
  <2>2. TypeOK'
    BY <2>1 DEF IInv, TypeOK, Carries
  <2> QED BY <2>2 DEF IInv, StatusHasMoney, Justified, HasMoved
<1>3. ASSUME NEW verified \in BOOLEAN, SetKyc(verified) PROVE IInv'
  BY <1>3 DEF SetKyc, IInv, TypeOK, Carries, StatusHasMoney, Justified, HasMoved
<1>4. ASSUME NEW w \in Worker, Crash(w) PROVE IInv'
  BY <1>4, OneRequestEnds DEF Crash, IInv, TypeOK
<1>5. ASSUME NEW w \in Worker, NEW n \in Withdrawal, ApproveRead(w, n) \/ FailRead(w, n)
      PROVE  IInv'
  BY <1>5, DecideReadKeeps DEF ApproveRead, FailRead
<1>6. ASSUME NEW w \in Worker, NEW n \in Withdrawal, NEW k \in Key,
             PayRead(w, n, k) \/ ReverseRead(w, n, k)
      PROVE  IInv'
  BY <1>6, MoveReadKeeps DEF PayRead, ReverseRead
<1> QED
  BY <1>1, <1>2, <1>3, <1>4, <1>5, <1>6, RequestReadKeeps, RequestCheckKeeps,
     RequestCreateKeeps, MovePostKeeps, RecordKeeps DEF Next

\* The invariant of the withdrawal handlers (wallet.service.ts, admin.service.ts).
THEOREM WithdrawalInvariant == Spec => []IInv
<1>1. Init => IInv
  BY Initial
<1>2. IInv /\ [Next]_vars => IInv'
  BY Step
<1> QED BY <1>1, <1>2, PTL DEF Spec

\* Withdrawals and the requests on them keep their shape, and no payment, however it
\* races with others, takes the promoter's balance below zero.
THEOREM WithdrawalTypeCorrect == Spec => []TypeOK
<1>1. IInv => TypeOK
  BY DEF IInv
<1> QED BY <1>1, WithdrawalInvariant, PTL

\* recordWithdrawalPaid() and reverseWithdrawal(): a status that claims a transfer is
\* never ahead of the ledger, and nothing is credited back that was not debited, for
\* any number of admins, keys, retries and crashes.
THEOREM StatusNeverAheadOfLedger == Spec => []StatusHasMoney
<1>1. IInv => StatusHasMoney
  BY DEF IInv
<1> QED BY <1>1, WithdrawalInvariant, PTL

-------------------------------------------------------------------------------
(* Requests that do not overlap: the status says exactly what moved.  The property is
   about moments at rest; between them the one request under way has posted what the
   status does not say yet, and its record must not be refused after its posting. *)

\* At most one request is under way.
Sole == \A w, x \in Worker : pc[w] # "idle" /\ pc[x] # "idle" => w = x

\* The request under way has posted this and not recorded it yet.
Recording(d, n) == \E w \in Worker : pc[w] = "record" /\ job[w].decision = d /\ job[w].id = n

\* Nothing moved under two keys.
OneKey == \A j, k \in Key : posted[j] # None /\ posted[j] = posted[k] => j = k

\* What moved for a withdrawal is what its status says, with what is being recorded;
\* a notification was sent only for a status the withdrawal has reached.
Tells(n) ==
  /\ wd[n] = None => \A d \in {"PAID", "REVERSED"} : ~HasMoved(d, n) /\ <<d, n>> \notin noted
  /\ wd[n] # None =>
       /\ HasMoved("PAID", n) <=> wd[n].status \in {"PAID", "REVERSED"} \/ Recording("PAID", n)
       /\ HasMoved("REVERSED", n) <=> wd[n].status = "REVERSED" \/ Recording("REVERSED", n)
       /\ <<"PAID", n>> \in noted => wd[n].status \in {"PAID", "REVERSED"}
       /\ <<"REVERSED", n>> \in noted => wd[n].status = "REVERSED"

\* What the request under way has read is still so.
Current(w) ==
  /\ pc[w] \in {"check", "create"} => Unused # {}
  /\ pc[w] \in {"post", "record"} => wd[job[w].id].status \in Allows(job[w].decision)

Orderly == Sole /\ OneKey /\ (\A n \in Withdrawal : Tells(n)) /\ \A w \in Worker : Current(w)

InTurn == alone /\ crashes = 0 => Orderly

Moves == {"PAID", "REVERSED"}

LEMMA OrderlyAtFirst == ASSUME Init PROVE Orderly
<1>1. \A d \in Moves, n \in Withdrawal : ~HasMoved(d, n)
  BY WithdrawalsAssumption DEF Init, HasMoved, Posting, Moves
<1> QED BY <1>1 DEF Init, Orderly, Sole, OneKey, Tells, Current, Moves

\* While one request is under way, what is being recorded is what it records.
LEMMA TheOneRecords ==
  ASSUME NEW w \in Worker, \A x \in Worker \ {w} : pc[x] = "idle" /\ pc'[x] = "idle"
  PROVE  \A d, n :
           /\ Recording(d, n) <=> pc[w] = "record" /\ job[w].decision = d /\ job[w].id = n
           /\ Recording(d, n)' <=> pc'[w] = "record" /\ job'[w].decision = d /\ job'[w].id = n
BY DEF Recording

\* After a step of the one request, it is still the only one.
LEMMA StillSole ==
  ASSUME NEW w \in Worker, \A x \in Worker \ {w} : pc'[x] = "idle", Current(w)'
  PROVE  Sole' /\ \A x \in Worker : Current(x)'
<1>1. Sole'
  BY DEF Sole
<1>2. \A x \in Worker \ {w} : Current(x)'
  BY DEF Current
<1> QED BY <1>1, <1>2

\* A step that moves nothing and records nothing keeps what the statuses tell.
LEMMA NothingTold ==
  ASSUME Orderly, NEW w \in Worker, UNCHANGED <<wd, posted, noted>>,
         \A x \in Worker \ {w} : pc[x] = "idle" /\ pc'[x] = "idle",
         Current(w)',
         pc[w] = "record" => job[w].decision \notin Moves,
         pc'[w] = "record" => job'[w].decision \notin Moves
  PROVE  Orderly'
<1>1. \A d \in Moves, n \in Withdrawal : ~Recording(d, n) /\ ~Recording(d, n)'
  BY TheOneRecords
<1>2. \A d, n : HasMoved(d, n)' <=> HasMoved(d, n)
  BY DEF HasMoved
<1>3. \A n \in Withdrawal : Tells(n)'
  BY <1>1, <1>2 DEF Orderly, Tells, Moves
<1>4. OneKey'
  BY DEF Orderly, OneKey
<1> QED BY <1>3, <1>4, StillSole DEF Orderly

\* Where a step of a request that was under way starts from.
LEMMA OthersIdle ==
  ASSUME Orderly, IInv, NEW w \in Worker, pc[w] # "idle",
         NEW place, pc' = [pc EXCEPT ![w] = place]
  PROVE  \A x \in Worker \ {w} : pc[x] = "idle" /\ pc'[x] = "idle"
BY DEF Orderly, Sole, IInv, TypeOK

\* And of one that begins.
LEMMA OthersRest ==
  ASSUME IInv, alone, NEW w \in Worker, NEW place, NEW read, Begin(w, place, read)
  PROVE  /\ \A x \in Worker \ {w} : pc[x] = "idle" /\ pc'[x] = "idle"
         /\ pc[w] = "idle" /\ pc'[w] = place /\ job'[w] = read
BY DEF Begin, Resting, IInv, TypeOK

LEMMA RequestReadInTurn ==
  ASSUME IInv, Orderly, alone, NEW w \in Worker, NEW a \in Amounts, RequestRead(w, a)
  PROVE  Orderly'
<1> DEFINE read == [amount |-> a, available |-> available]
<1>1. /\ \A x \in Worker \ {w} : pc[x] = "idle" /\ pc'[x] = "idle"
      /\ pc[w] = "idle" /\ pc'[w] = "check"
  BY OthersRest DEF RequestRead
<1>2. {x \in Worker : pc[x] \in {"check", "create"}} = {}
  BY <1>1
<1>3. Unused # {}
  BY <1>2, FS_EmptySet DEF RequestRead
<1>4. Unused' = Unused
  BY DEF RequestRead, Unused
<1>5. Current(w)'
  BY <1>1, <1>3, <1>4 DEF Current
<1> QED BY <1>1, <1>5, NothingTold DEF RequestRead

LEMMA RequestCheckInTurn ==
  ASSUME IInv, Orderly, NEW w \in Worker, RequestCheck(w)
  PROVE  Orderly'
<1>1. /\ \A x \in Worker \ {w} : pc[x] = "idle" /\ pc'[x] = "idle"
      /\ pc[w] = "check" /\ pc'[w] \in {"idle", "create"}
  BY OthersIdle DEF RequestCheck, Done, Goto, IInv, TypeOK
<1>2. Unused # {}
  BY <1>1 DEF Orderly, Current
<1>3. Unused' = Unused
  BY DEF RequestCheck, Unused
<1>4. Current(w)'
  BY <1>1, <1>2, <1>3 DEF Current
<1> QED BY <1>1, <1>4, NothingTold DEF RequestCheck

\* The withdrawal a request creates is one of those not used yet.
LEMMA NextUnused == ASSUME Unused # {} PROVE Min(Unused) \in Unused
<1> DEFINE below == OpToRel(<, Nat)
<1>1. Unused \subseteq Nat
  BY WithdrawalsAssumption DEF Unused
<1>2. \A x, y \in Nat : y < x => <<y, x>> \in below
  BY DEF OpToRel
<1>3. IsWellFoundedOn(below, Nat)
  BY NatLessThanWellFounded
<1> HIDE DEF below
<1>4. PICK x \in Unused : \A y \in Unused : <<y, x>> \notin below
  BY <1>1, <1>3, WFMin
<1>5. \A y \in Unused : x =< y
  <2> SUFFICES ASSUME NEW y \in Unused PROVE x =< y
    OBVIOUS
  <2>1. x \in Nat /\ y \in Nat
    BY <1>1
  <2>2. ~(y < x)
    BY <2>1, <1>2, <1>4
  <2> QED BY <2>1, <2>2
<1> QED BY <1>5 DEF Min

LEMMA RequestCreateInTurn ==
  ASSUME IInv, Orderly, NEW w \in Worker, RequestCreate(w)
  PROVE  Orderly'
<1>1. /\ \A x \in Worker \ {w} : pc[x] = "idle" /\ pc'[x] = "idle"
      /\ pc[w] = "create" /\ pc'[w] = "idle"
  BY OthersIdle DEF RequestCreate, Done, Goto, IInv, TypeOK
<1>2. PICK m \in Withdrawal : m = Min(Unused) /\ wd[m] = None
  <2>1. Unused # {}
    BY <1>1 DEF Orderly, Current
  <2> QED BY <2>1, NextUnused DEF Unused
<1>3. /\ \A n \in Withdrawal \ {m} : wd'[n] = wd[n]
      /\ wd'[m] = [status |-> "REQUESTED", amount |-> job[w].amount]
  BY <1>2 DEF RequestCreate, IInv, TypeOK
<1>4. wd'[m] # None /\ wd'[m].status = "REQUESTED"
  <2>1. job[w].amount \in Amounts
    BY <1>1 DEF IInv, TypeOK, Carries, Asking
  <2>2. wd'[m] \in Row
    BY <1>3, <2>1 DEF Row, Status
  <2> QED BY <1>3, <2>2, WithdrawalsAssumption
<1>5. \A d, n : ~Recording(d, n) /\ ~Recording(d, n)'
  BY <1>1, TheOneRecords
<1>6. \A d, n : HasMoved(d, n)' <=> HasMoved(d, n)
  BY DEF RequestCreate, HasMoved
<1>7. noted' = noted
  BY DEF RequestCreate
<1>8. Tells(m)'
  BY <1>2, <1>4, <1>5, <1>6, <1>7 DEF Orderly, Tells
<1>9. \A n \in Withdrawal \ {m} : Tells(n)'
  BY <1>3, <1>5, <1>6, <1>7 DEF Orderly, Tells
<1>10. OneKey'
  BY DEF Orderly, OneKey, RequestCreate
<1>11. Current(w)'
  BY <1>1 DEF Current
<1> QED BY <1>1, <1>8, <1>9, <1>10, <1>11, StillSole DEF Orderly

LEMMA DecideReadInTurn ==
  ASSUME IInv, Orderly, alone, NEW w \in Worker, NEW d \in {"APPROVED", "FAILED"},
         NEW n \in Withdrawal, DecideRead(w, d, n)
  PROVE  Orderly'
<1> DEFINE read == [decision |-> d, id |-> n, key |-> None]
<1>1. /\ \A x \in Worker \ {w} : pc[x] = "idle" /\ pc'[x] = "idle"
      /\ pc[w] = "idle" /\ pc'[w] = "record" /\ job'[w] = read
  BY OthersRest DEF DecideRead
<1>2. Current(w)'
  BY <1>1 DEF Current, DecideRead
<1> QED BY <1>1, <1>2, NothingTold DEF DecideRead, Moves

LEMMA MoveReadInTurn ==
  ASSUME IInv, Orderly, alone, NEW w \in Worker, NEW d \in Moves,
         NEW n \in Withdrawal, NEW k \in Key, MoveRead(w, d, n, k)
  PROVE  Orderly'
<1> DEFINE read == [decision |-> d, id |-> n, key |-> k]
<1>1. /\ \A x \in Worker \ {w} : pc[x] = "idle" /\ pc'[x] = "idle"
      /\ pc[w] = "idle" /\ pc'[w] = "post" /\ job'[w] = read
  BY OthersRest DEF MoveRead
<1>2. Current(w)'
  BY <1>1 DEF Current, MoveRead
<1> QED BY <1>1, <1>2, NothingTold DEF MoveRead

LEMMA MovePostInTurn ==
  ASSUME IInv, Orderly, NEW w \in Worker, MovePost(w)
  PROVE  Orderly'
<1>1. PICK d \in Moves, n \in Withdrawal, k \in Key :
        /\ d = job[w].decision /\ n = job[w].id /\ k = job[w].key
        /\ pc[w] = "post" /\ wd[n] # None /\ wd[n].status \in Allows(d)
  BY DEF MovePost, IInv, TypeOK, Carries, Justified, Deciding, Moves, Orderly, Current
<1>2. /\ wd' = wd /\ noted' = noted
      /\ \A x \in Worker \ {w} : pc[x] = "idle" /\ pc'[x] = "idle"
  BY <1>1, OthersIdle DEF MovePost, Done, Goto
<1>3. CASE Done(w) /\ UNCHANGED <<available, posted>>
  <2>1. pc'[w] = "idle"
    BY <1>3 DEF Done, Goto, IInv, TypeOK
  <2>2. Current(w)'
    BY <2>1 DEF Current
  <2> QED BY <1>1, <1>2, <1>3, <2>1, <2>2, NothingTold
<1>4. CASE /\ posted[k] = None
           /\ posted' = [posted EXCEPT ![k] = <<d, n>>]
           /\ Goto(w, "record", job[w])
  <2>1. pc'[w] = "record" /\ job'[w] = job[w]
    BY <1>4 DEF Goto, IInv, TypeOK
  <2>2. \A c, m : ~Recording(c, m) /\ (Recording(c, m)' <=> c = d /\ m = n)
    BY <1>1, <1>2, <2>1, TheOneRecords
  <2>3. ~HasMoved(d, n)
    BY <1>1, <2>2 DEF Orderly, Tells, Moves, Allows
  <2>4. posted'[k] = <<d, n>> /\ \A j \in Key \ {k} : posted'[j] = posted[j]
    BY <1>1, <1>4 DEF IInv, TypeOK
  <2>5. HasMoved(d, n)'
    BY <1>1, <2>4 DEF HasMoved
  <2>6. \A c \in Moves, m \in Withdrawal :
          c # d \/ m # n => (HasMoved(c, m)' <=> HasMoved(c, m))
    <3> SUFFICES ASSUME NEW c \in Moves, NEW m \in Withdrawal, c # d \/ m # n
                 PROVE  HasMoved(c, m)' <=> HasMoved(c, m)
      OBVIOUS
    <3>1. <<c, m>> # <<d, n>> /\ <<c, m>> # None
      BY WithdrawalsAssumption DEF Posting, Moves
    <3>2. \A j \in Key : posted'[j] = <<c, m>> <=> posted[j] = <<c, m>>
      BY <1>4, <2>4, <3>1
    <3> QED BY <3>2 DEF HasMoved
  <2>7. OneKey'
    BY <1>1, <2>3, <2>4 DEF OneKey, Orderly, HasMoved
  <2>8. Tells(n)'
    BY <1>1, <1>2, <2>2, <2>5, <2>6 DEF Orderly, Tells, Moves, Allows
  <2>9. \A m \in Withdrawal \ {n} : Tells(m)'
    BY <1>2, <2>2, <2>6 DEF Orderly, Tells, Moves
  <2>10. Current(w)'
    BY <1>1, <1>2, <2>1 DEF Current
  <2> QED BY <1>2, <2>7, <2>8, <2>9, <2>10, StillSole DEF Orderly
<1> QED BY <1>1, <1>3, <1>4 DEF MovePost

LEMMA RecordInTurn ==
  ASSUME IInv, Orderly, NEW w \in Worker, Record(w)
  PROVE  Orderly'
<1>1. PICK d \in Status \ {"REQUESTED"}, n \in Withdrawal :
        /\ d = job[w].decision /\ n = job[w].id
        /\ pc[w] = "record" /\ wd[n] \in Row /\ wd[n] # None /\ wd[n].status \in Allows(d)
  BY DEF Record, IInv, TypeOK, Carries, Justified, Deciding, Orderly, Current
<1>2. /\ posted' = posted /\ pc'[w] = "idle"
      /\ \A x \in Worker \ {w} : pc[x] = "idle" /\ pc'[x] = "idle"
  BY <1>1, OthersIdle DEF Record, Done, Goto, IInv, TypeOK
<1>3. Current(w)'
  BY <1>2 DEF Current
<1>4. \A c, m : /\ Recording(c, m) <=> c = d /\ m = n
                /\ ~Recording(c, m)'
  BY <1>1, <1>2, TheOneRecords
<1>5. CASE <<d, n>> \in noted /\ UNCHANGED <<wd, noted>>
  <2>1. d \notin Moves
    BY <1>1, <1>5 DEF Orderly, Tells, Moves, Allows
  <2> QED BY <1>1, <1>2, <1>3, <1>5, <2>1, NothingTold
<1>6. CASE wd' = [wd EXCEPT ![n].status = d] /\ noted' = noted \cup {<<d, n>>}
  <2>1. /\ wd'[n] # None /\ wd'[n].status = d
        /\ \A m \in Withdrawal \ {n} : wd'[m] = wd[m]
    <3>1. wd'[n] \in Row /\ wd'[n].status = d
      BY <1>1, <1>6 DEF IInv, TypeOK, Row
    <3> QED BY <1>1, <1>6, <3>1, WithdrawalsAssumption DEF IInv, TypeOK
  <2>2. \A c, m : HasMoved(c, m)' <=> HasMoved(c, m)
    BY <1>2 DEF HasMoved
  <2>3. Tells(n)'
    <3>1. Tells(n)
      BY DEF Orderly
    <3>2. \A c : <<c, n>> \in noted' <=> <<c, n>> \in noted \/ c = d
      BY <1>6
    <3>3. CASE d = "APPROVED" \/ d = "FAILED"
      BY <1>1, <1>4, <2>1, <2>2, <3>1, <3>2, <3>3 DEF Tells, Allows, InFlight
    <3>4. CASE d = "PAID"
      BY <1>1, <1>4, <2>1, <2>2, <3>1, <3>2, <3>4 DEF Tells, Allows
    <3>5. CASE d = "REVERSED"
      BY <1>1, <1>4, <2>1, <2>2, <3>1, <3>2, <3>5 DEF Tells, Allows
    <3> QED BY <1>1, <3>3, <3>4, <3>5 DEF Status
  <2>4. \A m \in Withdrawal \ {n} : Tells(m)'
    BY <1>4, <1>6, <2>1, <2>2 DEF Orderly, Tells
  <2>5. OneKey'
    BY <1>2 DEF Orderly, OneKey
  <2> QED BY <1>2, <1>3, <2>3, <2>4, <2>5, StillSole DEF Orderly
<1> QED BY <1>1, <1>5, <1>6 DEF Record

LEMMA StepInTurn == ASSUME IInv, InTurn, [Next]_vars PROVE InTurn'
<1> SUFFICES ASSUME alone', crashes' = 0 PROVE Orderly'
  BY DEF InTurn
<1>1. CASE UNCHANGED <<wd, posted, noted, alone, pc, job, crashes>>
  BY <1>1 DEF InTurn, Orderly, Sole, OneKey, Tells, Current, Recording, HasMoved, Unused
<1>2. CASE UNCHANGED vars
  BY <1>1, <1>2 DEF vars
<1>3. ASSUME NEW a \in Amounts, Earn(a) PROVE Orderly'
  BY <1>1, <1>3 DEF Earn
<1>4. ASSUME NEW verified \in BOOLEAN, SetKyc(verified) PROVE Orderly'
  BY <1>1, <1>4 DEF SetKyc
<1>5. ASSUME NEW w \in Worker, NEW a \in Amounts, RequestRead(w, a) PROVE Orderly'
  BY <1>5, RequestReadInTurn DEF InTurn, RequestRead, frame
<1>6. ASSUME NEW w \in Worker, RequestCheck(w) PROVE Orderly'
  BY <1>6, RequestCheckInTurn DEF InTurn, RequestCheck, frame
<1>7. ASSUME NEW w \in Worker, RequestCreate(w) PROVE Orderly'
  BY <1>7, RequestCreateInTurn DEF InTurn, RequestCreate, frame
<1>8. ASSUME NEW w \in Worker, NEW d \in {"APPROVED", "FAILED"}, NEW n \in Withdrawal,
             DecideRead(w, d, n)
      PROVE  Orderly'
  BY <1>8, DecideReadInTurn DEF InTurn, DecideRead, frame
<1>9. ASSUME NEW w \in Worker, NEW d \in Moves, NEW n \in Withdrawal, NEW k \in Key,
             MoveRead(w, d, n, k)
      PROVE  Orderly'
  BY <1>9, MoveReadInTurn DEF InTurn, MoveRead, frame
<1>10. ASSUME NEW w \in Worker, MovePost(w) PROVE Orderly'
  BY <1>10, MovePostInTurn DEF InTurn, MovePost, frame
<1>11. ASSUME NEW w \in Worker, Record(w) PROVE Orderly'
  BY <1>11, RecordInTurn DEF InTurn, Record, frame
<1>12. ASSUME NEW w \in Worker, Crash(w) PROVE FALSE
  BY <1>12 DEF Crash, IInv, TypeOK
<1> QED
  BY <1>2, <1>3, <1>4, <1>5, <1>6, <1>7, <1>8, <1>9, <1>10, <1>11, <1>12
     DEF Next, ApproveRead, FailRead, PayRead, ReverseRead, Moves

\* Requests in turn (wallet.service.ts, admin.service.ts) find what they read unchanged.
THEOREM RequestsInTurn == Spec => []InTurn
<1>1. Init => InTurn
  BY OrderlyAtFirst DEF InTurn
<1>2. IInv /\ InTurn /\ [Next]_vars => InTurn'
  BY StepInTurn
<1> QED BY <1>1, <1>2, WithdrawalInvariant, PTL DEF Spec

\* With one posting per key, a movement is counted once or not at all.
LEMMA CountedOnce ==
  ASSUME OneKey, NEW d \in Moves, NEW n \in Withdrawal
  PROVE  Moved(d, n) = IF HasMoved(d, n) THEN 1 ELSE 0
<1> DEFINE keys == {k \in Key : posted[k] = <<d, n>>}
<1>1. CASE HasMoved(d, n)
  <2>1. PICK k \in Key : posted[k] = <<d, n>>
    BY <1>1 DEF HasMoved
  <2>2. <<d, n>> # None
    BY WithdrawalsAssumption DEF Posting, Moves
  <2>3. keys = {k}
    BY <2>1, <2>2 DEF OneKey
  <2> QED BY <1>1, <2>3, FS_Singleton DEF Moved
<1>2. CASE ~HasMoved(d, n)
  <2>1. keys = {}
    BY <1>2 DEF HasMoved
  <2> QED BY <1>2, <2>1, FS_EmptySet DEF Moved
<1> QED BY <1>1, <1>2

\* recordWithdrawalPaid() and reverseWithdrawal(): as long as requests take turns and
\* none dies between its posting and its record, a status tells exactly what moved, each
\* movement once, whatever keys are reused and however often a payment bounces or is
\* refused, for any number of withdrawals and promoter requests.
THEOREM StatusTellsWhatMoved == Spec => []StatusTellsMoney
<1>1. InTurn => StatusTellsMoney
  <2> SUFFICES ASSUME Orderly, Resting, NEW n \in Withdrawal, wd[n] # None
               PROVE  /\ Moved("PAID", n) = IF wd[n].status \in {"PAID", "REVERSED"} THEN 1 ELSE 0
                      /\ Moved("REVERSED", n) = IF wd[n].status = "REVERSED" THEN 1 ELSE 0
    BY DEF InTurn, StatusTellsMoney
  <2>1. \A d : ~Recording(d, n)
    BY DEF Resting, Recording
  <2>2. /\ HasMoved("PAID", n) <=> wd[n].status \in {"PAID", "REVERSED"}
        /\ HasMoved("REVERSED", n) <=> wd[n].status = "REVERSED"
    BY <2>1 DEF Orderly, Tells
  <2> QED BY <2>2, CountedOnce DEF Orderly, Moves
<1> QED BY <1>1, RequestsInTurn, PTL

-------------------------------------------------------------------------------
(* Requests that do not overlap: what is asked for is there.  At rest the property is
   about what is in flight; in between, a payment that is posted and not recorded yet
   has left the balance and no longer counts. *)

Open(n) == wd[n] # None /\ wd[n].status \in InFlight

\* What the balance must still cover for each withdrawal.
Owed == [n \in Withdrawal |-> IF Open(n) /\ ~Recording("PAID", n) THEN wd[n].amount ELSE 0]
AllOwed == SumFunctionOnSet(Owed, Withdrawal)

\* What a request that asks has read and checked is still true of the balance.
Checked(w) ==
  /\ pc[w] = "check" => job[w].available <= available
  /\ pc[w] = "create" => AllOwed + job[w].amount <= available

Covered == AllOwed <= available /\ \A w \in Worker : Checked(w)

CoveredInTurn == alone /\ crashes = 0 => Covered

LEMMA OwedIsNat ==
  ASSUME IInv
  PROVE  (\A n \in Withdrawal : Owed[n] \in Nat) /\ AllOwed \in Nat
<1>1. \A n \in Withdrawal : Owed[n] \in Nat
  <2> SUFFICES ASSUME NEW n \in Withdrawal, Open(n) PROVE wd[n].amount \in Nat
    BY DEF Owed
  <2> QED BY WithdrawalsAssumption DEF Open, IInv, TypeOK, Row
<1> QED BY <1>1, SumIsNat, WithdrawalsAssumption DEF AllOwed

\* With no payment between its posting and its record, what is owed is what is pending.
LEMMA OwedIsPending ==
  ASSUME IInv, \A n \in Withdrawal : ~Recording("PAID", n)
  PROVE  AllOwed = Pending
<1> DEFINE open == {n \in Withdrawal : wd[n] # None /\ wd[n].status \in InFlight}
           rest == Withdrawal \ open
           amounts == [n \in open |-> wd[n].amount]
<1>1. /\ IsFiniteSet(open) /\ IsFiniteSet(rest)
      /\ open \cap rest = {} /\ Withdrawal = open \cup rest
  BY FS_Subset, WithdrawalsAssumption
<1>2. (\A n \in open : Owed[n] = amounts[n]) /\ \A n \in rest : Owed[n] = 0
  BY DEF Owed, Open
<1>3. Pending = SumFunctionOnSet(amounts, open)
  BY DEF Pending
<1> HIDE DEF open, rest, amounts
<1>4. /\ SumFunctionOnSet(Owed, open) = SumFunctionOnSet(amounts, open)
      /\ SumFunctionOnSet(Owed, rest) = 0
  BY <1>1, <1>2, SumSame, SumOfZeros
<1>5. \A n \in open \cup rest : Owed[n] \in Int
  BY <1>1, OwedIsNat
<1>6. /\ AllOwed = SumFunctionOnSet(Owed, open) + SumFunctionOnSet(Owed, rest)
      /\ SumFunctionOnSet(Owed, open) \in Int
  BY <1>1, <1>5, SumSplit, SumIsInt DEF AllOwed
<1> QED BY <1>3, <1>4, <1>6

\* One withdrawal's part of what is owed changes.
LEMMA OneOwedChanges ==
  ASSUME IInv, IInv', NEW m \in Withdrawal, \A n \in Withdrawal \ {m} : Owed'[n] = Owed[n]
  PROVE  AllOwed' = AllOwed + (Owed'[m] - Owed[m])
<1>1. \A n \in Withdrawal : Owed[n] \in Int
  BY OwedIsNat
<1>2. \A n \in Withdrawal : Owed'[n] \in Int
  <2>1. IInv' => (\A n \in Withdrawal : Owed[n] \in Nat)'
    BY OwedIsNat, PTL
  <2> QED BY <2>1
<1>3. SumFunctionOnSet(Owed', Withdrawal)
        = SumFunctionOnSet(Owed, Withdrawal) + (Owed'[m] - Owed[m])
  <2> DEFINE f == Owed
             e == Owed'
  <2>1. /\ IsFiniteSet(Withdrawal) /\ \A n \in Withdrawal : f[n] \in Int /\ e[n] \in Int
        /\ \A n \in Withdrawal \ {m} : e[n] = f[n]
    BY <1>1, <1>2, WithdrawalsAssumption
  <2> HIDE DEF f, e
  <2>2. SumFunctionOnSet(e, Withdrawal) = SumFunctionOnSet(f, Withdrawal) + (e[m] - f[m])
    BY <2>1, SumChanged
  <2> QED BY <2>2 DEF f, e
<1> QED BY <1>3 DEF AllOwed

\* None does.
LEMMA OwedKept ==
  ASSUME wd' = wd, \A n \in Withdrawal : Recording("PAID", n)' <=> Recording("PAID", n)
  PROVE  Owed' = Owed /\ AllOwed' = AllOwed
<1>1. \A n \in Withdrawal : Open(n)' <=> Open(n)
  BY DEF Open
<1>2. Owed' = Owed
  BY <1>1 DEF Owed
<1> QED BY <1>2 DEF AllOwed

\* The request under way keeps the balance covered if what is owed is, and it read true.
LEMMA StillCovered ==
  ASSUME NEW w \in Worker, \A x \in Worker \ {w} : pc'[x] = "idle",
         AllOwed' <= available', Checked(w)'
  PROVE  Covered'
<1>1. \A x \in Worker \ {w} : Checked(x)'
  BY DEF Checked
<1> QED BY <1>1 DEF Covered

\* A step that leaves withdrawals and balance alone, with no payment half-way.
LEMMA NothingOwed ==
  ASSUME Covered, NEW w \in Worker, UNCHANGED <<wd, available>>,
         \A x \in Worker \ {w} : pc[x] = "idle" /\ pc'[x] = "idle",
         pc[w] = "record" => job[w].decision # "PAID",
         pc'[w] = "record" => job'[w].decision # "PAID",
         AllOwed' = AllOwed => Checked(w)'
  PROVE  Covered'
<1>1. \A n : ~Recording("PAID", n) /\ ~Recording("PAID", n)'
  BY TheOneRecords
<1>2. AllOwed' = AllOwed
  BY <1>1, OwedKept
<1> QED BY <1>2, StillCovered DEF Covered

LEMMA RequestReadCovered ==
  ASSUME IInv, Covered, alone, NEW w \in Worker, NEW a \in Amounts, RequestRead(w, a)
  PROVE  Covered'
<1>1. /\ \A x \in Worker \ {w} : pc[x] = "idle" /\ pc'[x] = "idle"
      /\ pc[w] = "idle" /\ pc'[w] = "check" /\ job'[w].available = available
  BY OthersRest DEF RequestRead
<1>2. Checked(w)'
  <2>1. available' = available /\ available \in Nat
    BY DEF RequestRead, IInv, TypeOK
  <2> QED BY <1>1, <2>1 DEF Checked
<1> QED BY <1>1, <1>2, NothingOwed DEF RequestRead

LEMMA RequestCheckCovered ==
  ASSUME IInv, Orderly, Covered, NEW w \in Worker, RequestCheck(w)
  PROVE  Covered'
<1>1. /\ \A x \in Worker \ {w} : pc[x] = "idle" /\ pc'[x] = "idle"
      /\ pc[w] = "check" /\ pc'[w] \in {"idle", "create"}
  BY OthersIdle DEF RequestCheck, Done, Goto, IInv, TypeOK
<1>2. AllOwed = Pending /\ AllOwed \in Nat
  BY <1>1, TheOneRecords, OwedIsPending, OwedIsNat
<1>3. /\ job[w].amount \in Nat /\ job[w].available \in Nat /\ available \in Nat
      /\ job[w].available <= available
  BY <1>1, WithdrawalsAssumption DEF IInv, TypeOK, Carries, Asking, Covered, Checked
<1>4. ASSUME AllOwed' = AllOwed PROVE Checked(w)'
  <2>1. CASE pc'[w] = "idle"
    BY <2>1 DEF Checked
  <2>2. CASE pc'[w] = "create"
    <3>1. job'[w] = job[w] /\ available' = available
      BY <1>1, <2>2 DEF RequestCheck, Done, Goto, IInv, TypeOK
    <3>2. ~(job[w].amount > job[w].available - AllOwed)
      BY <1>2, <2>2 DEF RequestCheck, Done, Goto, IInv, TypeOK
    <3>3. AllOwed + job[w].amount <= available
      BY <1>2, <1>3, <3>2
    <3> QED BY <1>4, <2>2, <3>1, <3>3 DEF Checked
  <2> QED BY <1>1, <2>1, <2>2
<1> QED BY <1>1, <1>4, NothingOwed DEF RequestCheck

\* The withdrawal created is owed from here on; the check left room for it.
LEMMA RequestCreateCovered ==
  ASSUME IInv, IInv', Orderly, Covered, NEW w \in Worker, RequestCreate(w)
  PROVE  Covered'
<1>1. /\ \A x \in Worker \ {w} : pc[x] = "idle" /\ pc'[x] = "idle"
      /\ pc[w] = "create" /\ pc'[w] = "idle"
  BY OthersIdle DEF RequestCreate, Done, Goto, IInv, TypeOK
<1>2. PICK m \in Withdrawal : m = Min(Unused) /\ wd[m] = None
  <2>1. Unused # {}
    BY <1>1 DEF Orderly, Current
  <2> QED BY <2>1, NextUnused DEF Unused
<1>3. PICK n \in Nat : n = job[w].amount
  BY <1>1, WithdrawalsAssumption DEF IInv, TypeOK, Carries, Asking
<1>4. /\ \A x \in Withdrawal \ {m} : wd'[x] = wd[x]
      /\ wd'[m] = [status |-> "REQUESTED", amount |-> n] /\ wd'[m] # None
  <2>1. /\ \A x \in Withdrawal \ {m} : wd'[x] = wd[x]
        /\ wd'[m] = [status |-> "REQUESTED", amount |-> n]
    BY <1>2, <1>3 DEF RequestCreate, IInv, TypeOK
  <2>2. n \in Amounts
    BY <1>1, <1>3 DEF IInv, TypeOK, Carries, Asking
  <2> QED BY <2>1, <2>2, WithdrawalsAssumption DEF Row, Status
<1>5. \A d, x : ~Recording(d, x) /\ ~Recording(d, x)'
  BY <1>1, TheOneRecords
<1>6. /\ \A x \in Withdrawal \ {m} : Owed'[x] = Owed[x]
      /\ Owed[m] = 0 /\ Owed'[m] = n
  BY <1>2, <1>4, <1>5 DEF Owed, Open, InFlight
<1>7. AllOwed' = AllOwed + (Owed'[m] - Owed[m])
  BY <1>6, OneOwedChanges
<1>8. AllOwed + n <= available /\ available' = available
  BY <1>1, <1>3 DEF Covered, Checked, RequestCreate
<1>9. AllOwed' <= available'
  BY <1>6, <1>7, <1>8, OwedIsNat
<1>10. Checked(w)'
  BY <1>1 DEF Checked
<1> QED BY <1>1, <1>9, <1>10, StillCovered

LEMMA DecideReadCovered ==
  ASSUME IInv, Covered, alone, NEW w \in Worker, NEW d \in {"APPROVED", "FAILED"},
         NEW n \in Withdrawal, DecideRead(w, d, n)
  PROVE  Covered'
<1>1. /\ \A x \in Worker \ {w} : pc[x] = "idle" /\ pc'[x] = "idle"
      /\ pc[w] = "idle" /\ pc'[w] = "record" /\ job'[w].decision = d
  BY OthersRest DEF DecideRead
<1>2. Checked(w)'
  BY <1>1 DEF Checked
<1> QED BY <1>1, <1>2, NothingOwed DEF DecideRead

LEMMA MoveReadCovered ==
  ASSUME IInv, Covered, alone, NEW w \in Worker, NEW d \in Moves,
         NEW n \in Withdrawal, NEW k \in Key, MoveRead(w, d, n, k)
  PROVE  Covered'
<1>1. /\ \A x \in Worker \ {w} : pc[x] = "idle" /\ pc'[x] = "idle"
      /\ pc[w] = "idle" /\ pc'[w] = "post"
  BY OthersRest DEF MoveRead
<1>2. Checked(w)'
  BY <1>1 DEF Checked
<1> QED BY <1>1, <1>2, NothingOwed DEF MoveRead

\* A payment leaves the balance and what is owed at once; a bounce comes back to it.
LEMMA MovePostCovered ==
  ASSUME IInv, IInv', Orderly, Covered, NEW w \in Worker, MovePost(w)
  PROVE  Covered'
<1>1. PICK d \in Moves, n \in Withdrawal, k \in Key :
        /\ d = job[w].decision /\ n = job[w].id /\ k = job[w].key
        /\ pc[w] = "post" /\ wd[n] # None /\ wd[n].status \in Allows(d)
  BY DEF MovePost, IInv, TypeOK, Carries, Justified, Deciding, Moves, Orderly, Current
<1>2. /\ wd' = wd /\ \A x \in Worker \ {w} : pc[x] = "idle" /\ pc'[x] = "idle"
  BY <1>1, OthersIdle DEF MovePost, Done, Goto
<1>3. PICK a \in Nat : a = wd[n].amount
  BY <1>1, WithdrawalsAssumption DEF IInv, TypeOK, Row
<1>4. AllOwed \in Nat /\ available \in Nat /\ AllOwed <= available
  BY OwedIsNat DEF IInv, TypeOK, Covered
<1>5. CASE Done(w) /\ UNCHANGED <<available, posted>>
  <2>1. pc'[w] = "idle"
    BY <1>5 DEF Done, Goto, IInv, TypeOK
  <2>2. Checked(w)'
    BY <2>1 DEF Checked
  <2> QED BY <1>1, <1>2, <1>5, <2>1, <2>2, NothingOwed
<1>6. CASE available' = available + Change(d, n) /\ Goto(w, "record", job[w])
  <2>1. pc'[w] = "record" /\ job'[w] = job[w]
    BY <1>6 DEF Goto, IInv, TypeOK
  <2>2. \A c, m : ~Recording(c, m) /\ (Recording(c, m)' <=> c = d /\ m = n)
    BY <1>1, <1>2, <2>1, TheOneRecords
  <2>3. Checked(w)'
    BY <2>1 DEF Checked
  <2>4. CASE d = "PAID"
    <3>1. Open(n) /\ \A m \in Withdrawal : Open(m)' <=> Open(m)
      BY <1>1, <1>2, <2>4 DEF Open, Allows, InFlight
    <3>2. /\ \A m \in Withdrawal \ {n} : Owed'[m] = Owed[m]
          /\ Owed[n] = a /\ Owed'[n] = 0
      BY <1>1, <1>2, <1>3, <2>2, <2>4, <3>1 DEF Owed
    <3>3. AllOwed' = AllOwed + (Owed'[n] - Owed[n])
      BY <3>2, OneOwedChanges
    <3>4. available' = available - a
      BY <1>3, <1>4, <1>6, <2>4 DEF Change
    <3>5. AllOwed' <= available'
      BY <1>4, <3>2, <3>3, <3>4
    <3> QED BY <1>2, <2>3, <3>5, StillCovered
  <2>5. CASE d = "REVERSED"
    <3>1. AllOwed' = AllOwed
      BY <1>2, <2>2, <2>5, OwedKept
    <3>2. available' = available + a
      BY <1>3, <1>6, <2>5 DEF Change
    <3>3. AllOwed' <= available'
      BY <1>4, <3>1, <3>2
    <3> QED BY <1>2, <2>3, <3>3, StillCovered
  <2> QED BY <2>4, <2>5 DEF Moves
<1> QED BY <1>1, <1>5, <1>6 DEF MovePost

\* A record takes a withdrawal out of what is owed or leaves it there; one of a payment
\* is never refused, so that what was paid does not stay in flight.
LEMMA RecordCovered ==
  ASSUME IInv, IInv', Orderly, Covered, NEW w \in Worker, Record(w)
  PROVE  Covered'
<1>1. PICK d \in Status \ {"REQUESTED"}, n \in Withdrawal :
        /\ d = job[w].decision /\ n = job[w].id
        /\ pc[w] = "record" /\ wd[n] \in Row /\ wd[n] # None /\ wd[n].status \in Allows(d)
  BY DEF Record, IInv, TypeOK, Carries, Justified, Deciding, Orderly, Current
<1>2. /\ available' = available /\ pc'[w] = "idle"
      /\ \A x \in Worker \ {w} : pc[x] = "idle" /\ pc'[x] = "idle"
  BY <1>1, OthersIdle DEF Record, Done, Goto, IInv, TypeOK
<1>3. Checked(w)'
  BY <1>2 DEF Checked
<1>4. \A c, m : /\ Recording(c, m) <=> c = d /\ m = n
                /\ ~Recording(c, m)'
  BY <1>1, <1>2, TheOneRecords
<1>5. AllOwed \in Nat /\ available \in Nat /\ AllOwed <= available
  BY OwedIsNat DEF IInv, TypeOK, Covered
<1>6. CASE <<d, n>> \in noted /\ UNCHANGED <<wd, noted>>
  <2>1. d # "PAID"
    BY <1>1, <1>6 DEF Orderly, Tells, Allows
  <2> QED BY <1>1, <1>2, <1>3, <1>6, <2>1, NothingOwed
<1>7. CASE wd' = [wd EXCEPT ![n].status = d] /\ noted' = noted \cup {<<d, n>>}
  <2>1. /\ wd'[n] \in Row /\ wd'[n] # None /\ wd'[n].status = d /\ wd'[n].amount = wd[n].amount
        /\ \A m \in Withdrawal \ {n} : wd'[m] = wd[m]
    <3>1. wd'[n] \in Row /\ wd'[n].status = d /\ wd'[n].amount = wd[n].amount
      BY <1>1, <1>7 DEF IInv, TypeOK, Row
    <3> QED BY <1>1, <1>7, <3>1, WithdrawalsAssumption DEF IInv, TypeOK
  <2>2. \A m \in Withdrawal \ {n} : Owed'[m] = Owed[m]
    BY <1>4, <2>1 DEF Owed, Open
  <2>3. Owed'[n] = Owed[n] \/ Owed'[n] = 0
    <3>1. CASE d \in {"PAID", "REVERSED", "FAILED"}
      <4>1. ~Open(n)'
        BY <2>1, <3>1 DEF Open, InFlight
      <4> QED BY <4>1 DEF Owed
    <3>2. CASE d = "APPROVED"
      <4>1. Open(n) /\ Open(n)' /\ ~Recording("PAID", n)
        BY <1>1, <1>4, <2>1, <3>2 DEF Open, InFlight, Allows
      <4> QED BY <1>4, <2>1, <4>1 DEF Owed
    <3> QED BY <3>1, <3>2 DEF Status
  <2>4. AllOwed' = AllOwed + (Owed'[n] - Owed[n]) /\ Owed[n] \in Nat
    BY <2>2, OneOwedChanges, OwedIsNat
  <2>5. AllOwed' <= available'
    BY <1>2, <1>5, <2>3, <2>4
  <2> QED BY <1>2, <1>3, <2>5, StillCovered
<1> QED BY <1>1, <1>6, <1>7 DEF Record

\* An approved submission only adds to the balance.
LEMMA EarnCovered ==
  ASSUME IInv, Covered, NEW a \in Amounts, Earn(a)
  PROVE  Covered'
<1>1. AllOwed' = AllOwed /\ pc' = pc /\ job' = job
  BY OwedKept DEF Earn, Recording
<1>2. /\ a \in Nat /\ AllOwed \in Nat /\ available \in Nat /\ available' = available + a
  BY OwedIsNat, WithdrawalsAssumption DEF Earn, IInv, TypeOK
<1>3. \A w \in Worker : /\ pc[w] = "check" => job[w].available \in Nat
                        /\ pc[w] = "create" => job[w].amount \in Nat
  BY WithdrawalsAssumption DEF IInv, TypeOK, Carries, Asking
<1>4. AllOwed' <= available'
  BY <1>1, <1>2 DEF Covered
<1>5. ASSUME NEW w \in Worker PROVE Checked(w)'
  <2>1. CASE pc[w] = "check"
    BY <1>1, <1>2, <1>3, <2>1 DEF Covered, Checked
  <2>2. CASE pc[w] = "create"
    <3>1. PICK b \in Nat : b = job[w].amount
      BY <1>3, <2>2
    <3>2. AllOwed + b <= available
      BY <2>2, <3>1 DEF Covered, Checked
    <3>3. AllOwed' + b <= available'
      BY <1>1, <1>2, <3>2
    <3> QED BY <1>1, <2>2, <3>1, <3>3 DEF Checked
  <2>3. CASE pc[w] \notin {"check", "create"}
    BY <1>1, <2>3 DEF Checked
  <2> QED BY <2>1, <2>2, <2>3
<1> QED BY <1>4, <1>5 DEF Covered

LEMMA StepCovered ==
  ASSUME IInv, IInv', InTurn, CoveredInTurn, [Next]_vars
  PROVE  CoveredInTurn'
<1> SUFFICES ASSUME alone', crashes' = 0 PROVE Covered'
  BY DEF CoveredInTurn
<1>1. CASE UNCHANGED <<available, wd, alone, pc, job, crashes>>
  <2>1. Covered /\ AllOwed' = AllOwed
    BY <1>1, OwedKept DEF CoveredInTurn, Recording
  <2> QED BY <1>1, <2>1 DEF Covered, Checked
<1>2. CASE UNCHANGED vars
  BY <1>1, <1>2 DEF vars
<1>3. ASSUME NEW a \in Amounts, Earn(a) PROVE Covered'
  BY <1>3, EarnCovered DEF CoveredInTurn, Earn
<1>4. ASSUME NEW verified \in BOOLEAN, SetKyc(verified) PROVE Covered'
  BY <1>1, <1>4 DEF SetKyc
<1> USE DEF InTurn, CoveredInTurn, frame
<1>5. ASSUME NEW w \in Worker, NEW a \in Amounts, RequestRead(w, a) PROVE Covered'
  BY <1>5, RequestReadCovered DEF RequestRead
<1>6. ASSUME NEW w \in Worker, RequestCheck(w) PROVE Covered'
  BY <1>6, RequestCheckCovered DEF RequestCheck
<1>7. ASSUME NEW w \in Worker, RequestCreate(w) PROVE Covered'
  BY <1>7, RequestCreateCovered DEF RequestCreate
<1>8. ASSUME NEW w \in Worker, NEW d \in {"APPROVED", "FAILED"}, NEW n \in Withdrawal,
             DecideRead(w, d, n)
      PROVE  Covered'
  BY <1>8, DecideReadCovered DEF DecideRead
<1>9. ASSUME NEW w \in Worker, NEW d \in Moves, NEW n \in Withdrawal, NEW k \in Key,
             MoveRead(w, d, n, k)
      PROVE  Covered'
  BY <1>9, MoveReadCovered DEF MoveRead
<1>10. ASSUME NEW w \in Worker, MovePost(w) PROVE Covered'
  BY <1>10, MovePostCovered DEF MovePost
<1>11. ASSUME NEW w \in Worker, Record(w) PROVE Covered'
  BY <1>11, RecordCovered DEF Record
<1>12. ASSUME NEW w \in Worker, Crash(w) PROVE FALSE
  BY <1>12 DEF Crash, IInv, TypeOK
<1> QED
  BY <1>2, <1>3, <1>4, <1>5, <1>6, <1>7, <1>8, <1>9, <1>10, <1>11, <1>12
     DEF Next, ApproveRead, FailRead, PayRead, ReverseRead, Moves

\* requestWithdrawal() with the decisions on what it created: as long as requests take
\* turns and none dies half-way, what is in flight is always covered by the balance, for
\* any number of withdrawals, approvals, failures, payments and bounces.
THEOREM InFlightIsCovered == Spec => []Encumbered
<1>1. Init => CoveredInTurn
  <2> SUFFICES ASSUME Init PROVE Covered
    BY DEF CoveredInTurn
  <2>1. \A n \in Withdrawal : Owed[n] = 0
    BY DEF Init, Owed, Open
  <2>2. AllOwed = 0
    BY <2>1, SumOfZeros, WithdrawalsAssumption DEF AllOwed
  <2> QED BY <2>2 DEF Init, Covered, Checked
<1>2. IInv /\ IInv' /\ InTurn /\ CoveredInTurn /\ [Next]_vars => CoveredInTurn'
  BY StepCovered
<1>3. IInv /\ CoveredInTurn => Encumbered
  <2> SUFFICES ASSUME IInv, Covered, Resting PROVE Pending <= available
    BY DEF CoveredInTurn, Encumbered, NotOverRequested
  <2>1. \A n : ~Recording("PAID", n)
    BY DEF Resting, Recording
  <2> QED BY <2>1, OwedIsPending DEF Covered
<1> QED BY <1>1, <1>2, <1>3, WithdrawalInvariant, RequestsInTurn, PTL DEF Spec

===============================================================================
