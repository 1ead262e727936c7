--------------------------------- MODULE Team ---------------------------------
(***************************************************************************)
(* The admin team (team.service.ts): invitations, capabilities and         *)
(* suspension, with the safety rail that keeps somebody who can manage it. *)
(* Every handler reads, decides and then writes without a lock, so each is *)
(* cut between the two.  Of a capability set only MANAGE_TEAM matters.     *)
(* Whether an invitation has lapsed is left to the person who may accept   *)
(* it; a lapsed invitation stays PENDING in the table.                     *)
(***************************************************************************)
EXTENDS FiniteSets, Integers

CONSTANTS Person,       \* people, each an email address
          Founder,      \* the admins a seed script made
          Invite,       \* invitation ids, a bound
          Worker,       \* concurrent requests
          Modes,        \* may requests overlap? (BOOLEAN for both)
          None

Row == [email: Person, grant: BOOLEAN, status: {"PENDING", "ACCEPTED", "REVOKED"}]

TeamAssumption ==
  /\ Founder \subseteq Person /\ Founder # {} /\ Modes \subseteq BOOLEAN
  /\ None \notin BOOLEAN \cup Row

VARIABLES
  account,    \* user status of each person, None without an account
  manages,    \* the ADMIN role: None, or does it hold MANAGE_TEAM?
  invite,     \* invitations: email, whether they grant MANAGE_TEAM, status
  alone,      \* TRUE: no two requests overlap and no promoter is suspended
  pc, job     \* of each worker: place, and what it has read

vars == <<account, manages, invite, alone, pc, job>>

Inviting == [email: Person, grant: BOOLEAN]
Answering == [id: Invite]
Editing == [person: Person, value: BOOLEAN]

TypeOK ==
  /\ account \in [Person -> {None, "PENDING", "ACTIVE", "SUSPENDED"}]
  /\ manages \in [Person -> BOOLEAN \cup {None}]
  /\ invite \in [Invite -> Row \cup {None}]
  /\ alone \in BOOLEAN
  /\ pc \in [Worker -> {"idle", "pending", "invite", "revoke", "accept", "edit", "suspend"}]
  /\ job \in [Worker -> Inviting \cup Answering \cup Editing \cup {None}]
  /\ \A w \in Worker :
       /\ pc[w] \in {"pending", "invite"} => job[w] \in Inviting
       /\ pc[w] \in {"revoke", "accept"} => job[w] \in Answering /\ invite[job[w].id] # None
       /\ pc[w] \in {"edit", "suspend"} => job[w] \in Editing

\* Other people have no account yet, or one of their own, suspended or not.
Init ==
  /\ account \in [Person -> {None, "PENDING", "ACTIVE", "SUSPENDED"}]
  /\ \A p \in Founder : account[p] = "ACTIVE"
  /\ manages = [p \in Person |-> IF p \in Founder THEN TRUE ELSE None]
  /\ invite = [i \in Invite |-> None]
  /\ alone \in Modes
  /\ pc = [w \in Worker |-> "idle"] /\ job = [w \in Worker |-> None]

Begin(w, place, read) ==
  /\ pc[w] = "idle" /\ (alone => \A x \in Worker : pc[x] = "idle")
  /\ pc' = [pc EXCEPT ![w] = place] /\ job' = [job EXCEPT ![w] = read]

Goto(w, place, read) ==
  /\ pc' = [pc EXCEPT ![w] = place] /\ job' = [job EXCEPT ![w] = read]

Done(w) == Goto(w, "idle", None)

\* Active admins with MANAGE_TEAM: who the guards let in, and who the rail counts.
Managers == {p \in Person : manages[p] = TRUE /\ account[p] = "ACTIVE"}

-------------------------------------------------------------------------------

\* invite(): refused for someone who is an admin; then the pending ones are looked up.
InviteRead(w, actor, p, grant) ==
  /\ actor \in Managers /\ manages[p] = None
  /\ Begin(w, "pending", [email |-> p, grant |-> grant])
  /\ UNCHANGED <<account, manages, invite, alone>>

PendingFor(p) == {i \in Invite : invite[i] # None /\ invite[i].email = p /\ invite[i].status = "PENDING"}

\* Fault: pending invitations are not looked up.
FaultInviteAgain(w) ==
  /\ pc[w] = "pending"
  /\ Goto(w, "invite", job[w])
  /\ UNCHANGED <<account, manages, invite, alone>>

InviteCheck(w) ==
  /\ pc[w] = "pending"
  /\ IF PendingFor(job[w].email) = {} THEN Goto(w, "invite", job[w]) ELSE Done(w)
  /\ UNCHANGED <<account, manages, invite, alone>>

InviteCreate(w, i) ==
  /\ pc[w] = "invite" /\ invite[i] = None
  /\ invite' = [invite EXCEPT ![i] =
                  [email |-> job[w].email, grant |-> job[w].grant, status |-> "PENDING"]]
  /\ Done(w)
  /\ UNCHANGED <<account, manages, alone>>

\* revokeInvite(): the update does not look at the status again.
RevokeRead(w, actor, i) ==
  /\ actor \in Managers /\ invite[i] # None /\ invite[i].status = "PENDING"
  /\ Begin(w, "revoke", [id |-> i])
  /\ UNCHANGED <<account, manages, invite, alone>>

RevokeWrite(w) ==
  /\ pc[w] = "revoke"
  /\ invite' = [invite EXCEPT ![job[w].id].status = "REVOKED"]
  /\ Done(w)
  /\ UNCHANGED <<account, manages, alone>>

\* accept(): found PENDING by its token, then one transaction.
AcceptRead(w, i) ==
  /\ invite[i] # None /\ invite[i].status = "PENDING"
  /\ Begin(w, "accept", [id |-> i])
  /\ UNCHANGED <<account, manages, invite, alone>>

\* An account is made, or an existing one becomes an ACTIVE admin; what an ADMIN role
\* held before is overwritten.
AcceptWrite(w) ==
  LET row == invite[job[w].id] IN
  /\ pc[w] = "accept"
  /\ account' = [account EXCEPT ![row.email] = "ACTIVE"]
  /\ manages' = [manages EXCEPT ![row.email] = row.grant]
  /\ invite' = [invite EXCEPT ![job[w].id].status = "ACCEPTED"]
  /\ Done(w)
  /\ UNCHANGED alone

\* assertNotLastManager()
NotLastManager(p) == Managers \ {p} # {}

\* updateCapabilities(): the role is read and, where MANAGE_TEAM goes, the others are
\* counted.
UpdateRead(w, actor, p, grant) ==
  /\ actor \in Managers /\ manages[p] # None
  /\ manages[p] = TRUE /\ ~grant => NotLastManager(p)
  /\ Begin(w, "edit", [person |-> p, value |-> grant])
  /\ UNCHANGED <<account, manages, invite, alone>>

UpdateWrite(w) ==
  /\ pc[w] = "edit"
  /\ manages' = [manages EXCEPT ![job[w].person] = job[w].value]
  /\ Done(w)
  /\ UNCHANGED <<account, invite, alone>>

\* setActive(): nobody suspends themselves.
SetActiveRead(w, actor, p, active) ==
  /\ actor \in Managers /\ manages[p] # None
  /\ ~active => actor # p
  /\ ~active /\ manages[p] = TRUE => NotLastManager(p)
  /\ Begin(w, "suspend", [person |-> p, value |-> active])
  /\ UNCHANGED <<account, manages, invite, alone>>

SetActiveWrite(w) ==
  /\ pc[w] = "suspend"
  /\ account' = [account EXCEPT ![job[w].person] = IF job[w].value THEN "ACTIVE" ELSE "SUSPENDED"]
  /\ Done(w)
  /\ UNCHANGED <<manages, invite, alone>>

\* setPromoterStatus() in admin.service.ts: the account of a promoter is suspended or
\* reactivated.  A promoter may be an admin too, and the rail is not asked, so it is
\* kept out of the behaviours the rail is judged on.
SetPromoterStatus(p, active) ==
  /\ ~alone /\ account[p] # None
  /\ account' = [account EXCEPT ![p] = IF active THEN "ACTIVE" ELSE "SUSPENDED"]
  /\ UNCHANGED <<manages, invite, alone, pc, job>>

\* A request dies between its read and its write.
Abandon(w) ==
  /\ pc[w] # "idle"
  /\ Done(w)
  /\ UNCHANGED <<account, manages, invite, alone>>

Write(w) == \/ InviteCheck(w) \/ RevokeWrite(w) \/ AcceptWrite(w) \/ UpdateWrite(w)
            \/ SetActiveWrite(w) \/ Abandon(w)
            \/ \E i \in Invite : InviteCreate(w, i)

Read(w) ==
  \/ \E i \in Invite : AcceptRead(w, i)
  \/ \E actor \in Person, i \in Invite : RevokeRead(w, actor, i)
  \/ \E actor, p \in Person, b \in BOOLEAN :
       InviteRead(w, actor, p, b) \/ UpdateRead(w, actor, p, b) \/ SetActiveRead(w, actor, p, b)

Next ==
  \/ \E w \in Worker : Read(w) \/ Write(w)
  \/ \E p \in Person, active \in BOOLEAN : SetPromoterStatus(p, active)

Spec == Init /\ [][Next]_vars

-------------------------------------------------------------------------------
(* Properties *)

\* The safety rail: while its requests do not overlap and no promoter is suspended,
\* somebody can always manage the team, through every sequence of invitations, edits
\* and suspensions.  It takes more than the rail: an invitation accepted late would
\* overwrite the capabilities of somebody who is an admin by then, if two could be
\* pending for one person.
SomebodyManages == alone => Managers # {}

===============================================================================
