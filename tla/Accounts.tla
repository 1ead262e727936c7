-------------------------------- MODULE Accounts --------------------------------
(***************************************************************************)
(* One account (auth.service.ts) with its one-time codes (otp.service.ts)  *)
(* and sessions (session.service.ts).  A request is a chain of reads and   *)
(* writes, each a step here; what it read first it still goes by when it   *)
(* writes.  Requests overlap unless the behaviour is calm.  A password is  *)
(* a version number, and a session carries the version its first sign-in   *)
(* went by.  The welcome is sent once for good (Notifications).            *)
(***************************************************************************)
EXTENDS Integers, Sequences, FiniteSets

CONSTANTS Caller,       \* concurrent requests
          MaxTries,     \* MAX_ATTEMPTS
          Plays,        \* may requests overlap, and bounds on codes and sessions
          MaxPasswords, \* a bound
          None

AccountsAssumption ==
  /\ Plays \subseteq [overlaps: BOOLEAN, codes: Nat, sessions: Nat]
  /\ MaxTries \in Nat \ {0} /\ MaxPasswords \in Nat
  /\ IsFiniteSet(Caller) /\ None \notin {"PENDING", "ACTIVE", "SUSPENDED"}

VARIABLES
  owner,      \* users.status, None before registration
  phone,      \* "none", "unverified" or "verified"
  password,   \* how often it has changed
  barred,     \* an admin has suspended the account and not reinstated it
  codes,      \* otp_codes in the order of their creation
  sessions,   \* sessions in the order of their creation
  play,       \* the bounds of this behaviour, and whether its requests overlap
  turn, held  \* of each request: place, and what it has read

vars == <<owner, phone, password, barred, codes, sessions, play, turn, held>>
user == <<owner, phone, password, barred>>

Purpose == {"PHONE_VERIFY", "PASSWORD_RESET"}
Code == [purpose: Purpose, tries: Nat, open: BOOLEAN, expired: BOOLEAN]
Session == [live: BOOLEAN, by: 0 .. MaxPasswords, successors: Nat]
Places == {"idle", "issue", "commit", "verify", "miss", "spend", "confirm", "renew", "wipe",
           "activate", "rotate", "session"}

TypeOK ==
  /\ owner \in {None, "PENDING", "ACTIVE", "SUSPENDED"}
  /\ phone \in {"none", "unverified", "verified"} /\ password \in 0 .. MaxPasswords
  /\ barred \in BOOLEAN /\ play \in Plays
  /\ codes \in Seq(Code) /\ sessions \in Seq(Session)
  /\ turn \in [Caller -> Places]

Blank == [purpose |-> None, status |-> None, code |-> 0, sees |-> {}, by |-> 0, of |-> 0]

Init ==
  /\ owner = None /\ phone = "none" /\ password = 0 /\ barred = FALSE
  /\ codes = <<>> /\ sessions = <<>> /\ play \in Plays
  /\ turn = [r \in Caller |-> "idle"] /\ held = [r \in Caller |-> Blank]

Solo == ~play.overlaps
Free(r) == turn[r] = "idle" /\ (Solo => \A q \in Caller : turn[q] = "idle")
Goto(r, place, what) == turn' = [turn EXCEPT ![r] = place] /\ held' = [held EXCEPT ![r] = what]
Done(r) == Goto(r, "idle", Blank)

\* JwtAuthGuard, login(), rotate(): the account as it is now.
MayEnter == owner \in {"PENDING", "ACTIVE"}

-------------------------------------------------------------------------------
(* Codes *)

Open(purpose) == {i \in DOMAIN codes : codes[i].purpose = purpose /\ codes[i].open}

\* issue(): one transaction, whose update sees the codes that are committed now, ...
IssueStart(r) ==
  /\ turn[r] = "issue"
  /\ Goto(r, "commit", [held[r] EXCEPT !.sees = Open(held[r].purpose)])
  /\ UNCHANGED <<user, codes, sessions, play>>

\* Fault: the codes sent before stay good.
FaultIssueCommit(r) ==
  /\ turn[r] = "commit" /\ Len(codes) < play.codes
  /\ codes' = Append(codes, [purpose |-> held[r].purpose, tries |-> 0, open |-> TRUE, expired |-> FALSE])
  /\ Done(r)
  /\ UNCHANGED <<user, sessions, play>>

\* ... consumes those, and adds the new one.
IssueCommit(r) ==
  /\ turn[r] = "commit" /\ Len(codes) < play.codes
  /\ codes' = Append([i \in DOMAIN codes |->
                        IF i \in held[r].sees THEN [codes[i] EXCEPT !.open = FALSE] ELSE codes[i]],
                     [purpose |-> held[r].purpose, tries |-> 0, open |-> TRUE, expired |-> FALSE])
  /\ Done(r)
  /\ UNCHANGED <<user, sessions, play>>

\* verify() looks at the newest open code; an expired one, or one tried too often, fails.
Verify(r, right) ==
  /\ turn[r] = "verify"
  /\ LET open == Open(held[r].purpose)
         i == CHOOSE x \in open : \A y \in open : y <= x
     IN  IF open = {} \/ codes[i].expired \/ codes[i].tries >= MaxTries THEN Done(r)
         ELSE Goto(r, IF right THEN "spend" ELSE "miss", [held[r] EXCEPT !.code = i])
  /\ UNCHANGED <<user, codes, sessions, play>>

Miss(r) ==
  /\ turn[r] = "miss"
  /\ codes' = [codes EXCEPT ![held[r].code].tries = @ + 1]
  /\ Done(r)
  /\ UNCHANGED <<user, sessions, play>>

Spend(r) ==
  /\ turn[r] = "spend"
  /\ codes' = [codes EXCEPT ![held[r].code].open = FALSE]
  /\ Goto(r, IF held[r].purpose = "PHONE_VERIFY" THEN "confirm" ELSE "renew",
          [Blank EXCEPT !.status = held[r].status])
  /\ UNCHANGED <<user, sessions, play>>

\* OTP_TTL_SECONDS pass (a bound: only where requests do not overlap).
Expire(i) ==
  /\ Solo /\ i \in DOMAIN codes /\ codes[i].open /\ ~codes[i].expired
  /\ codes' = [codes EXCEPT ![i].expired = TRUE]
  /\ UNCHANGED <<user, sessions, play, turn, held>>

-------------------------------------------------------------------------------
(* Signing up and in *)

\* register(): the account is created, then a code is issued.
Register(r) ==
  /\ Free(r) /\ owner = None
  /\ owner' = "PENDING" /\ phone' = "unverified"
  /\ Goto(r, "issue", [Blank EXCEPT !.purpose = "PHONE_VERIFY"])
  /\ UNCHANGED <<password, barred, codes, sessions, play>>

\* requestOtp() and forgotPassword()
AskForCode(r, purpose) ==
  /\ Free(r) /\ owner # None
  /\ purpose = "PHONE_VERIFY" => phone = "unverified"
  /\ Goto(r, "issue", [Blank EXCEPT !.purpose = purpose])
  /\ UNCHANGED <<user, codes, sessions, play>>

\* verifyOtp() and resetPassword() read the account.
PresentCode(r, purpose) ==
  /\ Free(r) /\ owner # None
  /\ purpose = "PHONE_VERIFY" => phone # "none"
  /\ Goto(r, "verify", [Blank EXCEPT !.purpose = purpose, !.status = owner])
  /\ UNCHANGED <<user, codes, sessions, play>>

Activated(status) == IF status = "PENDING" THEN "ACTIVE" ELSE status

\* verifyOtp(): the status written is worked out from the one that was read.
Confirm(r) ==
  /\ turn[r] = "confirm"
  /\ owner' = Activated(held[r].status) /\ phone' = "verified"
  /\ Goto(r, "session", [Blank EXCEPT !.by = password])
  /\ UNCHANGED <<password, barred, codes, sessions, play>>

\* login()
Login(r) ==
  /\ Free(r) /\ MayEnter /\ phone = "verified"
  /\ Goto(r, "session", [Blank EXCEPT !.by = password])
  /\ UNCHANGED <<user, codes, sessions, play>>

\* googleSignIn() for the first time
GoogleSignUp(r) ==
  /\ Free(r) /\ owner = None
  /\ owner' = "ACTIVE"
  /\ Goto(r, "session", [Blank EXCEPT !.by = password])
  /\ UNCHANGED <<phone, password, barred, codes, sessions, play>>

\* googleSignIn() of an account there is
GoogleSignIn(r) ==
  /\ Free(r) /\ owner # None
  /\ Goto(r, IF owner = "PENDING" THEN "activate" ELSE "session", [Blank EXCEPT !.by = password])
  /\ UNCHANGED <<user, codes, sessions, play>>

Activate(r) ==
  /\ turn[r] = "activate"
  /\ owner' = "ACTIVE"
  /\ Goto(r, "session", held[r])
  /\ UNCHANGED <<phone, password, barred, codes, sessions, play>>

-------------------------------------------------------------------------------
(* Sessions *)

\* SessionService.issue()
IssueSession(r) ==
  /\ turn[r] = "session" /\ Len(sessions) < play.sessions
  /\ sessions' = Append([s \in DOMAIN sessions |->
                           IF s = held[r].of THEN [sessions[s] EXCEPT !.successors = @ + 1] ELSE sessions[s]],
                        [live |-> TRUE, by |-> held[r].by, successors |-> 0])
  /\ Done(r)
  /\ UNCHANGED <<user, codes, play>>

\* rotate() reads the session and the account.  A token used before revokes them all.
ReadSession(r, s) ==
  /\ Free(r) /\ s \in DOMAIN sessions
  /\ sessions[s].live => MayEnter
  /\ IF sessions[s].live THEN Goto(r, "rotate", [Blank EXCEPT !.of = s, !.by = sessions[s].by])
     ELSE Goto(r, "wipe", Blank)
  /\ UNCHANGED <<user, codes, sessions, play>>

\* The token presented is revoked; a new session follows.
Rotate(r) ==
  /\ turn[r] = "rotate"
  /\ sessions' = [sessions EXCEPT ![held[r].of].live = FALSE]
  /\ Goto(r, "session", held[r])
  /\ UNCHANGED <<user, codes, play>>

\* revoke(), logging out
Revoke(s) ==
  /\ s \in DOMAIN sessions /\ sessions[s].live /\ (Solo => \A q \in Caller : turn[q] = "idle")
  /\ sessions' = [sessions EXCEPT ![s].live = FALSE]
  /\ UNCHANGED <<user, codes, play, turn, held>>

\* revokeAllForUser()
Wipe(r) ==
  /\ turn[r] = "wipe"
  /\ sessions' = [s \in DOMAIN sessions |-> [sessions[s] EXCEPT !.live = FALSE]]
  /\ Done(r)
  /\ UNCHANGED <<user, codes, play>>

-------------------------------------------------------------------------------
(* Passwords and suspension *)

\* changePassword() of somebody signed in; the sessions follow.
ChangePassword(r) ==
  /\ Free(r) /\ MayEnter /\ password < MaxPasswords
  /\ \E s \in DOMAIN sessions : sessions[s].live
  /\ password' = password + 1
  /\ Goto(r, "wipe", Blank)
  /\ UNCHANGED <<owner, phone, barred, codes, sessions, play>>

\* resetPassword(): a code proves the address, so the account becomes usable; then the
\* sessions.
Renew(r) ==
  /\ turn[r] = "renew" /\ password < MaxPasswords
  /\ password' = password + 1
  /\ owner' = Activated(held[r].status) /\ phone' = "verified"
  /\ Goto(r, "wipe", Blank)
  /\ UNCHANGED <<barred, codes, sessions, play>>

\* setPromoterStatus() and setClientStatus() write the account's status.
Suspend ==
  /\ MayEnter /\ (Solo => \A q \in Caller : turn[q] = "idle")
  /\ owner' = "SUSPENDED" /\ barred' = TRUE
  /\ UNCHANGED <<phone, password, codes, sessions, play, turn, held>>

Reinstate ==
  /\ barred /\ (Solo => \A q \in Caller : turn[q] = "idle")
  /\ owner' = "ACTIVE" /\ barred' = FALSE
  /\ UNCHANGED <<phone, password, codes, sessions, play, turn, held>>

Next ==
  \/ \E r \in Caller :
       \/ Register(r) \/ Login(r) \/ GoogleSignUp(r) \/ GoogleSignIn(r) \/ Activate(r)
       \/ \E purpose \in Purpose : AskForCode(r, purpose) \/ PresentCode(r, purpose)
       \/ IssueStart(r) \/ IssueCommit(r) \/ Miss(r) \/ Spend(r) \/ Confirm(r)
       \/ \E right \in BOOLEAN : Verify(r, right)
       \/ IssueSession(r) \/ Rotate(r) \/ Wipe(r)
       \/ \E s \in 1 .. play.sessions : ReadSession(r, s)
       \/ ChangePassword(r) \/ Renew(r)
  \/ \E i \in 1 .. play.codes : Expire(i)
  \/ \E s \in 1 .. play.sessions : Revoke(s)
  \/ Suspend \/ Reinstate

Spec == Init /\ [][Next]_vars

-------------------------------------------------------------------------------
(* Properties *)

\* issue(), verify(), rotate(): of the codes for a purpose one is open, a code is tried no
\* more often than allowed, and a refresh token is exchanged once; requests that overlap
\* multiply each of these by no more than their number.
AtOnce == IF Solo THEN 1 ELSE Cardinality(Caller)
UsedOnce ==
  /\ \A purpose \in Purpose : Cardinality(Open(purpose)) <= AtOnce
  /\ \A i \in DOMAIN codes : codes[i].tries <= MaxTries + AtOnce - 1
  /\ \A s \in DOMAIN sessions : sessions[s].successors <= AtOnce

\* changePassword(), resetPassword(), verifyOtp(): if no requests overlap, the end of a
\* change of password leaves no session of an earlier one, and no code, sign-in or reset
\* lifts a suspension.
AccountKept ==
  Solo /\ (\A r \in Caller : turn[r] = "idle") =>
    /\ \A s \in DOMAIN sessions : sessions[s].live => sessions[s].by = password
    /\ barred <=> owner = "SUSPENDED"

===============================================================================
