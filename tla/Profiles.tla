-------------------------------- MODULE Profiles --------------------------------
(***************************************************************************)
(* One promoter's profile and channels (profile.service.ts,                *)
(* channels.service.ts) and what admins decide about them                  *)
(* (admin.service.ts).  A request reads a row first and writes afterwards, *)
(* without a condition on what it read; requests of the promoter and of    *)
(* admins overlap unless the behaviour is calm.  Nothing in the code       *)
(* freezes a channel (admin_frozen), and work in progress, which keeps a   *)
(* channel from being removed, belongs to Delivery.                        *)
(***************************************************************************)
EXTENDS Matching

CONSTANTS Channel, Request,
          Overlaps,   \* may requests overlap? (BOOLEAN for both)
          Raced,      \* the channels a behaviour has where they do, a bound
          Claims,     \* audiences a promoter may claim
          Cap,        \* unverified_reach_cap
          Scores,     \* capability scores an admin may set by hand
          None

ProfilesAssumption ==
  /\ Overlaps \subseteq BOOLEAN /\ Raced \subseteq Channel /\ Claims \subseteq Nat /\ Cap \in Nat
  /\ Scores \subseteq 0 .. 100 /\ None \notin Nat /\ IsFiniteSet(Channel)

VARIABLES
  filled,      \* the required fields of the questionnaire are there
  status,      \* promoter_profiles.status
  user,        \* users.status
  capability,  \* the stored score of a DISTRIBUTOR
  channel,     \* the row of each channel, or None
  told,        \* the last decision the promoter was notified of
  calm,        \* requests of this behaviour do not overlap
  doing, seen  \* of each request: place, and what it has read

vars == <<filled, status, user, capability, channel, told, calm, doing, seen>>
rows == <<filled, status, user, capability, channel, told>>

Row == [claimed: Claims, tier: {"SELF", "SCREENSHOT", "INSIGHTS"}, reach: Nat,
        status: {"PENDING_REVIEW", "ACTIVE", "REJECTED"},
        fresh: BOOLEAN]   \* evidence no admin has decided on since

Places == {"idle", "submit", "approve", "suspend", "reactivate", "take", "refuse"}

TypeOK ==
  /\ filled \in BOOLEAN /\ calm \in BOOLEAN
  /\ status \in {"PROFILE_INCOMPLETE", "AWAITING_APPROVAL", "ACTIVE", "REJECTED", "SUSPENDED"}
  /\ user \in {"ACTIVE", "SUSPENDED"} /\ capability \in 0 .. 100 \cup {None}
  /\ channel \in [Channel -> Row \cup {None}]
  /\ told \in {None, "approved", "rejected", "suspended", "reactivated"}
  /\ doing \in [Request -> Places]

Init ==
  /\ filled \in BOOLEAN /\ status = "PROFILE_INCOMPLETE" /\ user = "ACTIVE" /\ capability = None
  /\ channel = [c \in Channel |-> None] /\ told = None
  /\ calm \in {~o : o \in Overlaps}
  /\ doing = [r \in Request |-> "idle"] /\ seen = [r \in Request |-> None]

Free(r) == doing[r] = "idle" /\ (calm => \A q \in Request : doing[q] = "idle")
Goto(r, place, what) == doing' = [doing EXCEPT ![r] = place] /\ seen' = [seen EXCEPT ![r] = what]
Done(r) == Goto(r, "idle", None)

-------------------------------------------------------------------------------
(* The promoter *)

Owned == {c \in Channel : channel[c] # None}

\* The profile as a request reads it.
Profile == [status |-> status, filled |-> filled]

\* update() writes the fields and has the row it wrote; required fields are never emptied.
SaveProfile(r) ==
  /\ Free(r) /\ filled' = TRUE
  /\ Goto(r, "submit", [Profile EXCEPT !.filled = TRUE])
  /\ UNCHANGED <<status, user, capability, channel, told, calm>>

\* Fault: whoever edits a complete profile is queued for review again.
FaultSubmit(r) ==
  /\ doing[r] = "submit"
  /\ status' = IF seen[r].filled /\ Owned # {} THEN "AWAITING_APPROVAL" ELSE status
  /\ Done(r)
  /\ UNCHANGED <<filled, user, capability, channel, told, calm>>

\* maybeSubmitForApproval() counts the channels, but goes by the profile it was given.
Submit(r) ==
  /\ doing[r] = "submit"
  /\ status' = IF seen[r].filled /\ Owned # {} /\ seen[r].status = "PROFILE_INCOMPLETE"
               THEN "AWAITING_APPROVAL" ELSE status
  /\ Done(r)
  /\ UNCHANGED <<filled, user, capability, channel, told, calm>>

\* The reach of a channel at a tier, with a proof just accepted; factor 100 is 1.
ReachAt(claimed, tier) ==
  ChannelReach([group |-> FALSE, active |-> 0, claimed |-> claimed, factor |-> 100,
                tier |-> tier, age |-> 0], Cap, 30)

\* create(), up to the read of maybeSubmitForApproval()
AddChannel(r, c, claimed) ==
  /\ Free(r) /\ channel[c] = None /\ (calm \/ c \in Raced)
  /\ channel' = [channel EXCEPT ![c] =
       [claimed |-> claimed, tier |-> "SELF", reach |-> ReachAt(claimed, "SELF"),
        status |-> "PENDING_REVIEW", fresh |-> TRUE]]
  /\ Goto(r, "submit", Profile)
  /\ UNCHANGED <<filled, status, user, capability, told, calm>>

\* attachEvidence(): the tier stays, the channel is reviewed again.
AttachEvidence(r, c) ==
  /\ Free(r) /\ c \in Owned
  /\ channel' = [channel EXCEPT ![c].status = "PENDING_REVIEW", ![c].fresh = TRUE]
  /\ UNCHANGED <<filled, status, user, capability, told, calm, doing, seen>>

\* remove()
RemoveChannel(r, c) ==
  /\ Free(r) /\ c \in Owned
  /\ channel' = [channel EXCEPT ![c] = None]
  /\ UNCHANGED <<filled, status, user, capability, told, calm, doing, seen>>

-------------------------------------------------------------------------------
(* Admins decide about channels *)

\* computeCapability() of the channels as they stand: the one of most reach, whatever
\* its status.
ScoreOf(channels) ==
  LET owned == {c \in Channel : channels[c] # None}
      best == CHOOSE c \in owned : \A d \in owned : channels[c].reach >= channels[d].reach
      none == [k \in {} |-> 0]
  IN  IF owned = {} THEN Capability("DISTRIBUTOR", none, 0, "SELF", 50)
      ELSE Capability("DISTRIBUTOR", none, channels[best].reach, channels[best].tier, 50)

\* verifyChannel() and unverifyChannel(): tier and reach together.
SetTier(r, c, tier) ==
  /\ Free(r) /\ c \in Owned
  /\ channel' = [channel EXCEPT ![c].tier = tier, ![c].reach = ReachAt(channel[c].claimed, tier)]
  /\ UNCHANGED <<filled, status, user, capability, told, calm, doing, seen>>

\* approveChannel() and rejectChannel() look at the channel first.
LookAtChannel(r, c, place) ==
  /\ Free(r) /\ c \in Owned
  /\ channel[c].status # (IF place = "take" THEN "ACTIVE" ELSE "REJECTED")
  /\ Goto(r, place, c)
  /\ UNCHANGED <<rows, calm>>

\* approveChannel(), activatePromoterOnChannelChange(): one transaction.
TakeChannel(r) ==
  LET c == seen[r]
      activating == status \in {"AWAITING_APPROVAL", "PROFILE_INCOMPLETE"} IN
  /\ doing[r] = "take" /\ c \in Owned
  /\ channel' = [channel EXCEPT ![c].status = "ACTIVE", ![c].fresh = FALSE]
  /\ capability' = ScoreOf(channel')
  /\ status' = IF activating THEN "ACTIVE" ELSE status
  /\ told' = IF activating THEN "approved" ELSE told
  /\ Done(r)
  /\ UNCHANGED <<filled, user, calm>>

\* rejectChannel(): one transaction.
RefuseChannel(r) ==
  LET c == seen[r] IN
  /\ doing[r] = "refuse" /\ c \in Owned
  /\ channel' = [channel EXCEPT ![c].status = "REJECTED", ![c].fresh = FALSE]
  /\ capability' = ScoreOf(channel')
  /\ Done(r)
  /\ UNCHANGED <<filled, status, user, told, calm>>

\* The channel was removed meanwhile: the update finds no row and fails.
ChannelGone(r) ==
  /\ doing[r] \in {"take", "refuse"} /\ seen[r] \notin Owned
  /\ Done(r)
  /\ UNCHANGED <<rows, calm>>

-------------------------------------------------------------------------------
(* Admins decide about the promoter *)

\* approvePromoter() and setPromoterStatus() read the profile.
LookAtProfile(r, place) ==
  /\ Free(r)
  /\ place = "approve" => status # "ACTIVE"
  /\ Goto(r, place, Profile)
  /\ UNCHANGED <<rows, calm>>

\* approvePromoter(): the waiting channels and the profile, in one transaction; the
\* account is left as it is.
ApprovePromoter(r) ==
  /\ doing[r] = "approve"
  /\ channel' = [c \in Channel |->
       IF c \in Owned /\ channel[c].status = "PENDING_REVIEW"
       THEN [channel[c] EXCEPT !.status = "ACTIVE", !.fresh = FALSE] ELSE channel[c]]
  /\ status' = "ACTIVE" /\ capability' = ScoreOf(channel') /\ told' = "approved"
  /\ Done(r)
  /\ UNCHANGED <<filled, user, calm>>

\* rejectPromoter()
RejectPromoter(r) ==
  /\ Free(r)
  /\ status' = "REJECTED" /\ told' = "rejected"
  /\ UNCHANGED <<filled, user, capability, channel, calm, doing, seen>>

\* setPromoterStatus(): nothing to do if the profile already had that status when read.
SetStatus(r, place, to, what) ==
  /\ doing[r] = place
  /\ IF seen[r].status = to THEN UNCHANGED <<status, user, told>>
     ELSE /\ status' = to /\ told' = what
          /\ user' = IF to = "ACTIVE" THEN "ACTIVE" ELSE "SUSPENDED"
  /\ Done(r)
  /\ UNCHANGED <<filled, capability, channel, calm>>

Suspend(r) == SetStatus(r, "suspend", "SUSPENDED", "suspended")
Reactivate(r) == SetStatus(r, "reactivate", "ACTIVE", "reactivated")

\* setCapability()
SetCapability(r, score) ==
  /\ Free(r)
  /\ capability' = score
  /\ UNCHANGED <<filled, status, user, channel, told, calm, doing, seen>>

Next ==
  \E r \in Request :
    \/ SaveProfile(r) \/ Submit(r)
    \/ \E c \in Channel :
         \/ \E claimed \in Claims : AddChannel(r, c, claimed)
         \/ AttachEvidence(r, c) \/ RemoveChannel(r, c)
         \/ \E tier \in {"SELF", "SCREENSHOT", "INSIGHTS"} : SetTier(r, c, tier)
         \/ \E place \in {"take", "refuse"} : LookAtChannel(r, c, place)
    \/ TakeChannel(r) \/ RefuseChannel(r) \/ ChannelGone(r)
    \/ \E place \in {"approve", "suspend", "reactivate"} : LookAtProfile(r, place)
    \/ ApprovePromoter(r) \/ RejectPromoter(r) \/ Suspend(r) \/ Reactivate(r)
    \/ \E score \in Scores : SetCapability(r, score)

Spec == Init /\ [][Next]_vars

-------------------------------------------------------------------------------
(* Properties *)

\* buildEligibility(): whoever can be matched has been scored by an admin's decision, and
\* a channel counts for more than the cap only at a tier an admin set, whatever overlaps.
\* If nothing overlaps, no channel is matched on with evidence nobody has decided on.
MatchedIsReviewed ==
  /\ (\E c \in Owned : channel[c].status = "ACTIVE") => capability # None
  /\ \A c \in Owned : channel[c].reach > Cap => channel[c].tier # "SELF"
  /\ calm => \A c \in Owned : channel[c].status = "ACTIVE" => ~channel[c].fresh

\* maybeSubmitForApproval() and the decisions: if nothing overlaps, the promoter's edits
\* undo no decision, the promoter has been told the decision that holds, and a suspended
\* profile cannot sign in.
DecisionsStand ==
  calm =>
    /\ status \in {"PROFILE_INCOMPLETE", "AWAITING_APPROVAL"} => told = None
    /\ status = "ACTIVE" => told \in {"approved", "reactivated"}
    /\ status = "REJECTED" => told = "rejected"
    /\ status = "SUSPENDED" => told = "suspended" /\ user = "SUSPENDED"
    /\ status = "AWAITING_APPROVAL" => filled

===============================================================================
