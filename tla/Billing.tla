------------------------------- MODULE Billing -------------------------------
(***************************************************************************)
(* How an org's tier follows its Stripe subscription.                      *)
(*                                                                         *)
(* A member of an org visits the checkout; Stripe makes subscriptions and  *)
(* reports what happens to them through webhooks, which it repeats until   *)
(* they are acknowledged and may deliver in any order.  The handler finds  *)
(* the org by its customer id and commits the tier and the subscription    *)
(* row one after the other.                                                *)
(***************************************************************************)
EXTENDS Naturals, Sequences

CONSTANTS
  Orgs,          \* the tenants
  Visits,        \* visits to the checkout; a visit names the customer it makes
  None,          \* no customer
  MaxOutbox      \* bound: events that are not acknowledged

ASSUME NoneAssumption == None \notin Visits
ASSUME OutboxAssumption == MaxOutbox \in Nat

VARIABLES
  tier,          \* orgs.tier
  customer,      \* orgs.stripe_customer_id
  subRow,        \* the subscriptions row of an org
  visit,         \* each visit and the subscription that came of it
  outbox,        \* Stripe's events that are not acknowledged, oldest first
  tidy           \* history: one subscription at a time, events in their order

billingVars == <<tier, customer, subRow, visit, outbox, tidy>>

Plans == {"pro", "team"}
Tiers == Plans \cup {"free", "past_due"}
Statuses == {"none", "active", "past_due", "canceled"}

\* "made": the customer exists at Stripe and is not stored yet.
Stages == {"unused", "made", "open"}

Events == [kind : {"checkout", "subscription", "deleted", "payment_failed"},
           visit : Visits, plan : Plans, status : Statuses]

BillingTypeOK ==
  /\ tier \in [Orgs -> Tiers]
  /\ customer \in [Orgs -> Visits \cup {None}]
  /\ subRow \in [Orgs -> [status : Statuses \cup {"inactive"}, plan : Plans]]
  /\ visit \in [Visits -> [stage : Stages, org : Orgs, plan : Plans,
                           customer : Visits \cup {None}, status : Statuses]]
  /\ outbox \in Seq(Events)
  /\ tidy \in [Orgs -> BOOLEAN]

\* An org without subscription row counts as inactive.
BillingInit ==
  /\ tier = [o \in Orgs |-> "free"]
  /\ customer = [o \in Orgs |-> None]
  /\ subRow = [o \in Orgs |-> [status |-> "inactive", plan |-> "pro"]]
  /\ visit = [v \in Visits |-> [stage |-> "unused", org |-> CHOOSE o \in Orgs : TRUE,
                                plan |-> "pro", customer |-> None, status |-> "none"]]
  /\ outbox = <<>>
  /\ tidy = [o \in Orgs |-> TRUE]

-----------------------------------------------------------------------------
(* The checkout endpoint; its handlers run in threads.                      *)

\* A first visit makes a customer at Stripe, later ones use the stored id.
StartCheckout(v, o, plan) ==
  /\ visit[v].stage = "unused"
  /\ visit' = [visit EXCEPT ![v] =
       [stage |-> IF customer[o] = None THEN "made" ELSE "open", org |-> o, plan |-> plan,
        customer |-> IF customer[o] = None THEN v ELSE customer[o], status |-> "none"]]
  /\ UNCHANGED <<tier, customer, subRow, outbox, tidy>>

StoreCustomer(v) ==
  /\ visit[v].stage = "made"
  /\ customer' = [customer EXCEPT ![visit[v].org] = v]
  /\ visit' = [visit EXCEPT ![v].stage = "open"]
  /\ UNCHANGED <<tier, subRow, outbox, tidy>>

-----------------------------------------------------------------------------
(* Stripe.                                                                  *)

Live(o) == {v \in Visits : visit[v].org = o /\ visit[v].status \in {"active", "past_due"}}

Event(kind, v) ==
  [kind |-> kind, visit |-> v, plan |-> visit'[v].plan, status |-> visit'[v].status]

\* Two events made at once have no order of their own.
Tells(v, kinds) ==
  /\ Len(outbox) + Len(kinds) <= MaxOutbox
  /\ \/ outbox' = outbox \o [i \in 1 .. Len(kinds) |-> Event(kinds[i], v)]
     \/ outbox' = outbox \o [i \in 1 .. Len(kinds) |-> Event(kinds[Len(kinds) + 1 - i], v)]

Pay(v) ==
  /\ visit[v].stage = "open" /\ visit[v].status = "none"
  /\ visit' = [visit EXCEPT ![v].status = "active"]
  /\ Tells(v, <<"checkout", "subscription">>)
  /\ tidy' = [tidy EXCEPT ![visit[v].org] = @ /\ Live(visit[v].org) = {}]
  /\ UNCHANGED <<tier, customer, subRow>>

\* A subscription changes: its plan, a payment that fails or recovers, its end.
Changes(v, from, to, plan, kinds) ==
  /\ visit[v].status \in from
  /\ visit' = [visit EXCEPT ![v].status = to, ![v].plan = plan]
  /\ Tells(v, kinds)
  /\ UNCHANGED <<tier, customer, subRow, tidy>>

SubscriptionChanges(v) ==
  \/ \E plan \in Plans \ {visit[v].plan} :
       Changes(v, {"active"}, "active", plan, <<"subscription">>)
  \/ Changes(v, {"active"}, "past_due", visit[v].plan, <<"payment_failed", "subscription">>)
  \/ Changes(v, {"past_due"}, "active", visit[v].plan, <<"subscription">>)
  \/ Changes(v, {"active", "past_due"}, "canceled", visit[v].plan, <<"deleted">>)

-----------------------------------------------------------------------------
(* POST /webhooks/stripe.                                                   *)

\* The checkout carries the org; the other events only its customer.
OrgsOf(e) ==
  IF e.kind = "checkout" THEN {visit[e.visit].org}
  ELSE {o \in Orgs : customer[o] = visit[e.visit].customer}

\* The tier an event sets, if any.
Upgrades(e) ==
  \/ e.kind = "checkout"
  \/ e.kind = "subscription" /\ e.status = "active"

\* A mistaken handler that takes the plan of any subscription event.
NewTier_AnyStatus(e, old) ==
  IF e.kind \in {"checkout", "subscription"} THEN e.plan
  ELSE IF e.kind = "deleted" THEN "free"
  ELSE "past_due"

NewTier(e, old) ==
  IF Upgrades(e) THEN e.plan
  ELSE IF e.kind = "deleted" THEN "free"
  ELSE IF e.kind = "payment_failed" THEN "past_due"
  ELSE old

WriteTier(e) ==
  tier' = [o \in Orgs |-> IF o \in OrgsOf(e) THEN NewTier(e, tier[o]) ELSE tier[o]]

WriteRow(e) ==
  subRow' = [o \in Orgs |->
    IF o \in OrgsOf(e) /\ e.kind \in {"subscription", "deleted"}
    THEN [status |-> e.status, plan |-> e.plan] ELSE subRow[o]]

\* Is an older event of the same org still to come?
Overtakes(i) ==
  \E j \in 1 .. i - 1 : visit[outbox[j].visit].org = visit[outbox[i].visit].org

Remember(i) ==
  tidy' = [tidy EXCEPT ![visit[outbox[i].visit].org] = @ /\ ~Overtakes(i)]

HandleEvent(i) ==
  /\ WriteTier(outbox[i]) /\ WriteRow(outbox[i]) /\ Remember(i)
  /\ outbox' = SubSeq(outbox, 1, i - 1) \o SubSeq(outbox, i + 1, Len(outbox))
  /\ UNCHANGED <<customer, visit>>

\* The acknowledgement does not reach Stripe, which will send the event again.
HandleUnacknowledged(i) ==
  /\ WriteTier(outbox[i]) /\ WriteRow(outbox[i]) /\ Remember(i)
  /\ UNCHANGED <<customer, visit, outbox>>

\* The handler dies between its two commits.
HandleHalf(i) ==
  /\ WriteTier(outbox[i]) /\ Remember(i)
  /\ UNCHANGED <<customer, subRow, visit, outbox>>

-----------------------------------------------------------------------------
(* What people and Stripe start, and what the gateway does about it.        *)

BillingInput ==
  \E v \in Visits :
    \/ \E o \in Orgs, plan \in Plans : StartCheckout(v, o, plan)
    \/ Pay(v)
    \/ SubscriptionChanges(v)

Webhook ==
  \E i \in 1 .. Len(outbox) : HandleEvent(i) \/ HandleUnacknowledged(i) \/ HandleHalf(i)

-----------------------------------------------------------------------------

EntitledTier(o) ==
  IF Live(o) = {} THEN "free"
  ELSE LET v == CHOOSE v \in Live(o) : TRUE
       IN IF visit[v].status = "active" THEN visit[v].plan ELSE "past_due"

\* Every subscription of the org belongs to the customer the gateway stored.
CustomerKnown(o) ==
  \A v \in Visits : visit[v].org = o /\ visit[v].status # "none" => visit[v].customer = customer[o]

AllDelivered(o) == \A i \in 1 .. Len(outbox) : visit[outbox[i].visit].org # o

(* The tier is the one paid for, and the subscription row tells the same,   *)
(* once Stripe's events have arrived: however often each was repeated, and  *)
(* whether or not a handler died between its commits.  The org must have    *)
(* one subscription at a time and one customer, and none of its events may  *)
(* have overtaken another: webhooks.py keeps nothing to tell that by.       *)
TierAsPaid ==
  \A o \in Orgs : tidy[o] /\ CustomerKnown(o) /\ AllDelivered(o) =>
    /\ tier[o] = EntitledTier(o)
    /\ \A v \in Live(o) : subRow[o] = [status |-> visit[v].status, plan |-> visit[v].plan]
    /\ Live(o) = {} => subRow[o].status \in {"inactive", "canceled"}
=============================================================================
