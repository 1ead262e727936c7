--------------------------------- MODULE Brief ---------------------------------
(***************************************************************************)
(* The brief of one campaign while its owner still edits and prices it     *)
(* (campaigns.service.ts): creation, edits, targeting, the quote with its  *)
(* slots, the stateless preview of plan(), and running a past campaign     *)
(* again.  An edit and a quote are each a read and a write; setting the    *)
(* targeting is two writes that are no transaction.  The campaign and its  *)
(* targeting are two rows.                                                 *)
(***************************************************************************)
EXTENDS Pricing, FiniteSets

CONSTANTS Client,         \* concurrent requests of the owner
          Overlaps,       \* may requests overlap, or die? (BOOLEAN for both)
          MaxPosts,       \* posts_required an owner may ask for
          Asked,          \* slot counts an owner may ask for
          Moments,        \* dates of the run window; 0 is none
          Reaches,        \* min_effective_reach a targeting may set
          Typed,          \* prices and budgets an owner may type
          Minimum,        \* the category's floor
          None

BriefAssumption == /\ Overlaps \subseteq BOOLEAN /\ MaxPosts \in Nat \ {0}
                   /\ Asked \subseteq Nat \ {0} /\ Moments \subseteq Nat /\ 0 \in Moments
                   /\ Reaches \subseteq Nat \ {0} /\ Typed \subseteq Nat /\ Minimum \in Nat
                   /\ None \notin Nat

VARIABLES
  brief,      \* the campaign row: cadence, posts_required, slots_total, window
  targeting,  \* the targeting row: reach per slot and number of active filters
  status, price,
  slots,      \* campaign_slots: how many, at what unit price, of how many posts
  goal,       \* target_reach
  calm,       \* requests of this behaviour neither overlap nor die
  doing, seen \* of each request: place, and what it will write

vars == <<brief, targeting, status, price, slots, goal, calm, doing, seen>>
quoted == <<slots, goal>>

Cadence == {"ONE_OFF", "DAILY"}
Fields == [cadence: Cadence, posts: 1 .. MaxPosts, asked: Asked, start: Moments, end: Moments]
Target == [reach: Reaches, filters: 0 .. 1]

\* normalizePostsRequired()
Normalized(cadence, posts) == IF cadence = "ONE_OFF" THEN 1 ELSE Greatest(2, posts)

WithPosts(b) == [b EXCEPT !.posts = Normalized(b.cadence, b.posts)]

TypeOK ==
  /\ brief \in [cadence: Cadence, posts: 1 .. Greatest(2, MaxPosts), asked: Nat, start: Moments, end: Moments]
  /\ targeting \in Target /\ status \in {"DRAFT", "QUOTED", "PENDING_APPROVAL"}
  /\ price \in Nat \cup {None} /\ slots \in [count: Nat, unit: Nat, posts: Nat] /\ goal \in Nat
  /\ doing \in [Client -> {"idle", "update", "target", "drop", "quote"}]

\* create(): the dates are taken as they come.
Init ==
  /\ \E dto \in Fields : brief = WithPosts(dto)
  /\ targeting \in {t \in Target : t.filters = 0}
  /\ status = "DRAFT" /\ price = None
  /\ slots = [count |-> 0, unit |-> 0, posts |-> 1] /\ goal = 0
  /\ calm \in {~o : o \in Overlaps}
  /\ doing = [c \in Client |-> "idle"] /\ seen = [c \in Client |-> None]

Editable == status \in {"DRAFT", "QUOTED"}

Begin(c, place, what) ==
  /\ doing[c] = "idle" /\ (calm => \A d \in Client : doing[d] = "idle")
  /\ doing' = [doing EXCEPT ![c] = place] /\ seen' = [seen EXCEPT ![c] = what]
Done(c) == doing' = [doing EXCEPT ![c] = "idle"] /\ seen' = [seen EXCEPT ![c] = None]

-------------------------------------------------------------------------------
(* Editing *)

\* The brief as the owner would have it, one field edited at a time.
Edited == {[brief EXCEPT !.cadence = c] : c \in Cadence} \cup {[brief EXCEPT !.asked = n] : n \in Asked}
            \cup {[brief EXCEPT !.posts = k] : k \in 1 .. MaxPosts}
            \cup {[brief EXCEPT !.start = m] : m \in Moments} \cup {[brief EXCEPT !.end = m] : m \in Moments}

\* A window that ends before it starts is refused, and so are several posts without an end.
Acceptable(b) == /\ ~(b.start # 0 /\ b.end # 0 /\ b.end <= b.start)
                 /\ b.posts > 1 => b.end # 0

\* update() reads the campaign and works out what changes.
UpdateRead(c) ==
  /\ Editable
  /\ \E b \in {WithPosts(e) : e \in Edited} :
       /\ b # brief /\ Acceptable(b)
       /\ Begin(c, "update", [fields |-> {f \in DOMAIN b : b[f] # brief[f]}, to |-> b,
                             drop |-> status = "QUOTED"])
  /\ UNCHANGED <<brief, targeting, status, price, quoted, calm>>

\* Fault: the stale price stays.
FaultKeepQuote == UNCHANGED <<status, price>>

DropQuote == status' = "DRAFT" /\ price' = None

\* Only what was edited is written; the quote is dropped if there was one when it was read.
UpdateWrite(c) ==
  /\ doing[c] = "update"
  /\ brief' = [f \in DOMAIN brief |-> IF f \in seen[c].fields THEN seen[c].to[f] ELSE brief[f]]
  /\ IF seen[c].drop THEN DropQuote ELSE UNCHANGED <<status, price>>
  /\ Done(c)
  /\ UNCHANGED <<targeting, quoted, calm>>

\* setTargeting() reads, ...
TargetRead(c) ==
  /\ Editable
  /\ \E t \in Target \ {targeting} : Begin(c, "target", [to |-> t, drop |-> status = "QUOTED"])
  /\ UNCHANGED <<brief, targeting, status, price, quoted, calm>>

\* ... writes the targeting row, ...
TargetWrite(c) ==
  /\ doing[c] = "target"
  /\ targeting' = seen[c].to
  /\ IF seen[c].drop THEN doing' = [doing EXCEPT ![c] = "drop"] /\ UNCHANGED seen ELSE Done(c)
  /\ UNCHANGED <<brief, status, price, quoted, calm>>

\* ... and then drops the quote there was.
TargetDrop(c) ==
  /\ doing[c] = "drop" /\ DropQuote /\ Done(c)
  /\ UNCHANGED <<brief, targeting, quoted, calm>>

\* A process dies between the two.
Die(c) == ~calm /\ doing[c] = "drop" /\ Done(c)
          /\ UNCHANGED <<brief, targeting, status, price, quoted, calm>>

-------------------------------------------------------------------------------
(* Pricing *)

\* quote() by an exact price (driver.typed) or by the slot count of the brief
QuoteFor(b, t, typed) ==
  LET count == IF typed = None THEN b.asked ELSE SlotsForPrice(typed, t.filters, t.reach * b.posts)
      perPost == IF typed = None THEN SlotPrice(t.reach, t.filters) ELSE UnitPrice(typed, count * b.posts)
  IN  [price |-> IF typed = None THEN perPost * count * b.posts ELSE typed,
       slots |-> [count |-> count, unit |-> perPost, posts |-> b.posts],
       goal |-> count * t.reach * b.posts]

QuoteRead(c, typed) ==
  /\ Editable
  /\ QuoteFor(brief, targeting, typed).price >= Minimum
  /\ Begin(c, "quote", QuoteFor(brief, targeting, typed))
  /\ UNCHANGED <<brief, targeting, status, price, quoted, calm>>

\* The slots are replaced and the campaign is QUOTED, in one transaction.
QuoteWrite(c) ==
  /\ doing[c] = "quote"
  /\ status' = "QUOTED" /\ price' = seen[c].price
  /\ slots' = seen[c].slots /\ goal' = seen[c].goal
  /\ brief' = [brief EXCEPT !.asked = seen[c].slots.count]
  /\ Done(c)
  /\ UNCHANGED <<targeting, calm>>

\* The quote is paid (CampaignFunding), and the brief is fixed.
Pay ==
  /\ status = "QUOTED" /\ (calm => \A d \in Client : doing[d] = "idle")
  /\ status' = "PENDING_APPROVAL"
  /\ UNCHANGED <<brief, targeting, price, quoted, calm, doing, seen>>

\* duplicate(): the behaviour goes on with the copy, whose dates start afresh.
Duplicate ==
  /\ status = "PENDING_APPROVAL" /\ \A d \in Client : doing[d] = "idle"
  /\ brief' = [brief EXCEPT !.start = 0, !.end = 0]
  /\ status' = "DRAFT" /\ price' = None
  /\ slots' = [count |-> 0, unit |-> 0, posts |-> 1] /\ goal' = 0
  /\ UNCHANGED <<targeting, calm, doing, seen>>

Next ==
  \/ \E c \in Client : \/ UpdateRead(c) \/ UpdateWrite(c)
                       \/ TargetRead(c) \/ TargetWrite(c) \/ TargetDrop(c) \/ Die(c)
                       \/ \E typed \in Typed \cup {None} : QuoteRead(c, typed)
                       \/ QuoteWrite(c)
  \/ Pay \/ Duplicate

Spec == Init /\ [][Next]_vars

-------------------------------------------------------------------------------
(* plan() *)

SlotCost == SlotPrice(targeting.reach, targeting.filters) * brief.posts

\* The slots a budget buys, at most 10000.
PlanSlots(budget) == IF SlotCost = 0 THEN 0 ELSE Least(budget \div SlotCost, 10000)

MinSlots == IF SlotCost = 0 THEN 0 ELSE Ceiling(Minimum, SlotCost)

\* The answer to a budget, and to a typed price.
PlanForBudget(b) == [slots |-> PlanSlots(b), total |-> SlotCost * PlanSlots(b),
                     accepted |-> SlotCost * PlanSlots(b) >= Minimum]
PlanForPrice(p) ==
  [slots |-> SlotsForPrice(p, targeting.filters, targeting.reach * brief.posts), total |-> p,
   accepted |-> p >= Minimum]

-------------------------------------------------------------------------------
(* Properties *)

\* quote(), update(), setTargeting(): whatever overlaps, the slots of a priced campaign
\* add up to its price but for what the division leaves, and to its target reach.  If
\* requests neither overlap nor die, a price that can be paid, or was paid, is the price
\* of what the campaign now says: as many slots, as many posts, at the targeting as it is.
QuoteIsCurrent ==
  status \in {"QUOTED", "PENDING_APPROVAL"} /\ price # None =>
    LET units == slots.count * slots.posts IN
    /\ price >= Minimum /\ price - slots.unit * units \in 0 .. units - 1
    /\ calm /\ (\A c \in Client : doing[c] # "drop") =>
         /\ slots.count = brief.asked /\ slots.posts = brief.posts
         /\ goal = units * targeting.reach
         /\ \E typed \in {None, price} :
              LET quote == QuoteFor(brief, targeting, typed)
              IN  quote.price = price /\ quote.slots = slots

\* plan() against quote(): committing what the preview showed costs what it showed, never
\* more than the budget; the price typed is the price asked; the floor refuses exactly
\* what the preview said it would, and one slot less than the minimum is refused.
PreviewIsQuote ==
  /\ \A b \in Typed :
       LET plan == PlanForBudget(b)
           quote == QuoteFor([brief EXCEPT !.asked = plan.slots], targeting, None)
       IN  plan.total <= b /\ quote.price = plan.total /\ (plan.accepted <=> quote.price >= Minimum)
  /\ \A p \in Typed :
       LET plan == PlanForPrice(p)
           quote == QuoteFor(brief, targeting, p)
       IN  plan.total = quote.price /\ plan.slots = quote.slots.count
  /\ SlotCost > 0 => \A n \in 0 .. MinSlots + 1 : (SlotCost * n >= Minimum) <=> n >= MinSlots

===============================================================================
