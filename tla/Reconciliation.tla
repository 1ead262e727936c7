---------------------------- MODULE Reconciliation ----------------------------
(***************************************************************************)
(* The rows of gateway_payments (payments.service.ts, admin.service.ts):   *)
(* one is opened for a charge whose escrow credit is in the ledger, admins *)
(* settle or flag it, and a report compares the rows with the ledger.      *)
(* Settling and flagging read the row first and write it unconditionally.  *)
(***************************************************************************)
EXTENDS Integers, FiniteSets

CONSTANTS Reference, Admin,
          Amounts,      \* what a charge, and a settlement, may come to
          Modes,        \* may requests overlap? (BOOLEAN for both)
          None

Row == [gateway: Amounts, status: {"RECORDED", "SETTLED", "MISMATCH"}, settled: Amounts \cup {None}]

\* None is a null; numbers and rows are not.
ReconciliationAssumption ==
  /\ Amounts \subseteq Nat \ {0} /\ Modes \subseteq BOOLEAN /\ IsFiniteSet(Admin)
  /\ None \notin Nat /\ None \notin Row

VARIABLES
  credit,     \* of each reference: the escrow credit in the ledger
  row,        \* of each reference: the gateway payment, if one was opened
  settles,    \* how often each row was settled
  flagged,    \* references of the rows an admin has flagged
  listed,     \* a report under way: the charges of the rows it has read
  report,     \* did the last report find every row matched?
  sole,       \* TRUE: no two admins' requests of this behaviour overlap
  pc, job     \* of each admin

vars == <<credit, row, settles, flagged, listed, report, sole, pc, job>>
reporting == <<listed, report>>

Opened == {r \in Reference : row[r] # None}

TypeOK ==
  /\ credit \in [Reference -> Amounts \cup {None}]
  /\ row \in [Reference -> Row \cup {None}]
  /\ settles \in [Reference -> 0 .. Cardinality(Admin)] /\ flagged \subseteq Opened
  /\ listed = None \/ DOMAIN listed \subseteq Opened
  /\ report \in BOOLEAN \cup {None}
  /\ \A a \in Admin : pc[a] # "idle" => job[a] \in Opened

Init ==
  /\ credit = [r \in Reference |-> None] /\ row = [r \in Reference |-> None]
  /\ settles = [r \in Reference |-> 0] /\ flagged = {}
  /\ listed = None /\ report = None /\ sole \in Modes
  /\ pc = [a \in Admin |-> "idle"] /\ job = [a \in Admin |-> None]

\* fundCampaign() credits the escrow with what the gateway reported, ...
Credit(r, amount) ==
  /\ credit[r] = None
  /\ credit' = [credit EXCEPT ![r] = amount]
  /\ UNCHANGED <<row, settles, flagged, reporting, sole, pc, job>>

\* Fault: the row is opened before the ledger is asked.
FaultOpen(r) ==
  /\ row[r] = None
  /\ \E amount \in Amounts :
       row' = [row EXCEPT ![r] = [gateway |-> amount, status |-> "RECORDED", settled |-> None]]
  /\ UNCHANGED <<credit, settles, flagged, reporting, sole, pc, job>>

\* ... and settleCharge() opens the row after it, if it does not crash.
Open(r) ==
  /\ credit[r] # None /\ row[r] = None
  /\ row' = [row EXCEPT ![r] = [gateway |-> credit[r], status |-> "RECORDED", settled |-> None]]
  /\ UNCHANGED <<credit, settles, flagged, reporting, sole, pc, job>>

Read(a, r, place) ==
  /\ pc[a] = "idle" /\ (sole => \A b \in Admin : pc[b] = "idle")
  /\ pc' = [pc EXCEPT ![a] = place] /\ job' = [job EXCEPT ![a] = r]
  /\ UNCHANGED <<credit, row, settles, flagged, reporting, sole>>

Written(a) ==
  /\ pc' = [pc EXCEPT ![a] = "idle"] /\ job' = [job EXCEPT ![a] = None]
  /\ UNCHANGED <<credit, reporting, sole>>

\* Fault: only a settled row is refused.
FaultSettleRead(a, r) == r \in Opened /\ row[r].status # "SETTLED" /\ Read(a, r, "settle")

\* settleGatewayPayment()
SettleRead(a, r) == r \in Opened /\ row[r].status = "RECORDED" /\ Read(a, r, "settle")

SettleWrite(a, amount) ==
  LET r == job[a] IN
  /\ pc[a] = "settle"
  /\ row' = [row EXCEPT ![r].status = "SETTLED", ![r].settled = amount]
  /\ settles' = [settles EXCEPT ![r] = @ + 1]
  /\ UNCHANGED flagged
  /\ Written(a)

\* flagGatewayPayment(): of a settled row, too
FlagRead(a, r) == r \in Opened /\ row[r].status # "MISMATCH" /\ Read(a, r, "flag")

FlagWrite(a) ==
  LET r == job[a] IN
  /\ pc[a] = "flag"
  /\ row' = [row EXCEPT ![r].status = "MISMATCH"]
  /\ flagged' = flagged \cup {r}
  /\ UNCHANGED settles
  /\ Written(a)

\* reconciliationReport(): the rows are read first, ...
ReportRead ==
  /\ listed = None
  /\ listed' = [r \in Opened |-> row[r].gateway]
  /\ UNCHANGED <<credit, row, settles, flagged, report, sole, pc, job>>

\* ... the ledger after them.
ReportAnswer ==
  /\ listed # None /\ listed' = None
  /\ report' = \A r \in DOMAIN listed : credit[r] = listed[r]
  /\ UNCHANGED <<credit, row, settles, flagged, sole, pc, job>>

Next ==
  \/ ReportRead \/ ReportAnswer
  \/ \E r \in Reference : Open(r) \/ \E amount \in Amounts : Credit(r, amount)
  \/ \E a \in Admin :
       \/ \E r \in Reference : SettleRead(a, r) \/ FlagRead(a, r)
       \/ FlagWrite(a) \/ \E amount \in Amounts : SettleWrite(a, amount)

Spec == Init /\ [][Next]_vars

-------------------------------------------------------------------------------
(* Properties *)

\* reconciliationReport(): whatever is funded, settled or flagged between its two reads, a
\* report finds every row it lists matched by the ledger.
ReportsMatch == report \in {None, TRUE}

\* settleGatewayPayment(), flagGatewayPayment(): a row that was never flagged says whether
\* it was settled, and each admin settles a row at most once, since no write makes it
\* RECORDED again.  When their requests do not overlap, a row is settled at most once, and
\* once it is flagged it stays flagged.
RowTellsHistory == \A r \in Opened :
  /\ row[r].status = "RECORDED" <=> settles[r] = 0 /\ r \notin flagged
  /\ row[r].settled = None <=> settles[r] = 0
  /\ row[r].status = "MISMATCH" => r \in flagged
  /\ settles[r] <= Cardinality(Admin)
  /\ sole => settles[r] <= 1 /\ (r \in flagged => row[r].status = "MISMATCH")

===============================================================================
