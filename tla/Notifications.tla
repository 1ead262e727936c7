----------------------------- MODULE Notifications -----------------------------
(***************************************************************************)
(* Notifications and their mail (notification.service.ts).  create() writes *)
(* a row, at most one per dedupe key.  dispatchPending(), run by a timer in *)
(* each process, lists the oldest PENDING rows and mails them one by one:  *)
(* send, then record what came of it, each an await.  Within a process the *)
(* timer never overlaps itself (notification.scheduler.ts); two processes  *)
(* do overlap, and one may die in the middle of a batch and start again.   *)
(***************************************************************************)
EXTENDS Naturals, Sequences, FiniteSets, FiniteSetsExt

CONSTANTS Note,         \* notification ids in the order they are created, a bound
          DedupeKey,    \* the dedupe keys events carry
          Dispatcher,   \* processes that run the timer
          Limit,        \* rows one dispatch takes
          MaxAttempts,  \* MAX_ATTEMPTS
          MaxFaults,    \* how often a process dies or a record of success fails, a bound
          None

EmailStatus == {"PENDING", "SENT", "FAILED", "SKIPPED"}
Row == [key: DedupeKey \cup {None}, status: EmailStatus, attempts: Nat]

NotificationsAssumption ==
  /\ Note \subseteq Nat /\ IsFiniteSet(Note) /\ IsFiniteSet(Dispatcher)
  /\ Limit \in Nat \ {0} /\ MaxAttempts \in Nat \ {0} /\ MaxFaults \in Nat
  /\ None \notin Row

VARIABLES
  note,       \* rows: dedupe key, email status and attempts; None is no row yet
  batch,      \* what each dispatcher has still to mail, with the attempts it read
  place,      \* of each dispatcher: "idle", "send", "sent" or "failed"
  mailed,     \* mails that left, of each notification
  refused,    \* failures counted against each notification, MaxAttempts at most
  faults      \* how many deaths and failed records there have been

vars == <<note, batch, place, mailed, refused, faults>>

TypeOK ==
  /\ note \in [Note -> Row \cup {None}]
  /\ batch \in [Dispatcher -> Seq([id: Note, attempts: Nat])]
  /\ place \in [Dispatcher -> {"idle", "send", "sent", "failed"}]
  /\ \A d \in Dispatcher : place[d] = "idle" <=> batch[d] = <<>>
  /\ mailed \in [Note -> Nat] /\ refused \in [Note -> Nat] /\ faults \in Nat

Init ==
  /\ note = [n \in Note |-> None]
  /\ batch = [d \in Dispatcher |-> <<>>]
  /\ place = [d \in Dispatcher |-> "idle"]
  /\ mailed = [n \in Note |-> 0] /\ refused = [n \in Note |-> 0]
  /\ faults = 0

Written == {n \in Note : note[n] # None}
Pending == {n \in Written : note[n].status = "PENDING"}

\* create(): a key that is taken is swallowed, and no key is never taken.  mail is
\* FALSE for a notification that is shown in the app only.
Create(key, mail) ==
  /\ key = None \/ \A n \in Written : note[n].key # key
  /\ Note \ Written # {}
  /\ note' = [note EXCEPT ![Min(Note \ Written)] =
                [key |-> key, status |-> IF mail THEN "PENDING" ELSE "SKIPPED", attempts |-> 0]]
  /\ UNCHANGED <<batch, place, mailed, refused, faults>>

\* The oldest rows of a set, in order, with the attempts they have had.
Oldest(S) ==
  LET taken == {n \in S : Cardinality({m \in S : m < n}) < Limit}
      Nth(i) == CHOOSE n \in taken : Cardinality({m \in taken : m < n}) = i - 1
  IN  [i \in 1 .. Cardinality(taken) |-> [id |-> Nth(i), attempts |-> note[Nth(i)].attempts]]

\* The timer fires while no dispatch of the process runs.
List(d) ==
  /\ place[d] = "idle" /\ Pending # {}
  /\ batch' = [batch EXCEPT ![d] = Oldest(Pending)]
  /\ place' = [place EXCEPT ![d] = "send"]
  /\ UNCHANGED <<note, mailed, refused, faults>>

CountRefusal(n) == refused' = [refused EXCEPT ![n] = IF @ < MaxAttempts THEN @ + 1 ELSE @]

\* The mail server takes the mail, or it refuses it.
Send(d) ==
  LET n == batch[d][1].id IN
  /\ place[d] = "send"
  /\ \/ place' = [place EXCEPT ![d] = "sent"] /\ mailed' = [mailed EXCEPT ![n] = @ + 1]
        /\ UNCHANGED refused
     \/ place' = [place EXCEPT ![d] = "failed"] /\ CountRefusal(n)
        /\ UNCHANGED mailed
  /\ UNCHANGED <<note, batch, faults>>

\* The batch moves on to its next row, or ends.
MoveOn(d) ==
  /\ batch' = [batch EXCEPT ![d] = Tail(@)]
  /\ place' = [place EXCEPT ![d] = IF Len(batch[d]) = 1 THEN "idle" ELSE "send"]

RecordSent(d) ==
  LET n == batch[d][1].id IN
  /\ place[d] = "sent"
  /\ note' = [note EXCEPT ![n].status = "SENT", ![n].attempts = @ + 1]
  /\ MoveOn(d)
  /\ UNCHANGED <<mailed, refused, faults>>

\* The update to SENT throws inside the same try: the mail that left is then counted
\* as an attempt that failed.
RecordSentFails(d) ==
  /\ place[d] = "sent" /\ faults < MaxFaults /\ faults' = faults + 1
  /\ place' = [place EXCEPT ![d] = "failed"]
  /\ CountRefusal(batch[d][1].id)
  /\ UNCHANGED <<note, batch, mailed>>

\* Fault: the attempts are not written back.
FaultForgetAttempt(d) ==
  /\ place[d] = "failed"
  /\ MoveOn(d)
  /\ UNCHANGED <<note, mailed, refused, faults>>

\* Fault: a notification is given up one attempt early.
FaultGiveUpEarly(d) ==
  LET n == batch[d][1].id
      attempts == batch[d][1].attempts + 1 IN
  /\ place[d] = "failed"
  /\ note' = [note EXCEPT ![n].attempts = attempts,
                ![n].status = IF attempts + 1 >= MaxAttempts THEN "FAILED" ELSE "PENDING"]
  /\ MoveOn(d)
  /\ UNCHANGED <<mailed, refused, faults>>

\* The catch block: unconditional, and counted from the attempts that were listed.
RecordFailure(d) ==
  LET n == batch[d][1].id
      attempts == batch[d][1].attempts + 1 IN
  /\ place[d] = "failed"
  /\ note' = [note EXCEPT ![n].attempts = attempts,
                ![n].status = IF attempts >= MaxAttempts THEN "FAILED" ELSE "PENDING"]
  /\ MoveOn(d)
  /\ UNCHANGED <<mailed, refused, faults>>

\* A process dies in the middle of a batch and starts again with nothing in hand.
Die(d) ==
  /\ place[d] # "idle" /\ faults < MaxFaults /\ faults' = faults + 1
  /\ batch' = [batch EXCEPT ![d] = <<>>] /\ place' = [place EXCEPT ![d] = "idle"]
  /\ UNCHANGED <<note, mailed, refused>>

Dispatch(d) == List(d) \/ Send(d) \/ RecordSent(d) \/ RecordFailure(d)

Next ==
  \/ \E key \in DedupeKey \cup {None}, mail \in BOOLEAN : Create(key, mail)
  \/ \E d \in Dispatcher : Dispatch(d) \/ RecordSentFails(d) \/ Die(d)

Spec == Init /\ [][Next]_vars

\* The timer of a running process fires for ever, and a dispatch it starts goes on.
Fairness == \A d \in Dispatcher : WF_vars(Dispatch(d))
FairSpec == Spec /\ Fairness

-------------------------------------------------------------------------------
(* Properties *)

\* dispatchPending(): a status is never better or worse than what happened.  SENT was
\* mailed; FAILED was refused MaxAttempts times; SKIPPED was never mailed; and no
\* notification has more attempts on record than it has had, whoever else is
\* dispatching, dying or recording late.
StatusTellsMail == \A n \in Written :
  /\ note[n].status = "SENT" => mailed[n] >= 1
  /\ note[n].status = "FAILED" => refused[n] >= MaxAttempts
  /\ note[n].status = "SKIPPED" => mailed[n] = 0 /\ refused[n] = 0
  /\ note[n].attempts <= mailed[n] + refused[n]

\* dispatchPending(): one failing message never blocks the others.  Oldest first and
\* Limit at a time, each notification is in the end sent or given up for good, however
\* many older ones the mail server keeps refusing.
Settled(n) == note[n] # None /\ note[n].status # "PENDING"
EveryNoteSettles == \A n \in Note : (note[n] # None) ~> [](Settled(n))

===============================================================================
