--------------------------- MODULE BillingEvents ----------------------------
(***************************************************************************)
(* One tenant's subscription, moved by the payment provider's webhook.     *)
(*                                                                         *)
(* The provider keeps the subscriptions and sends an event for each change *)
(* it makes.  Deliveries are unordered, repeated and retried after a 500.  *)
(* A delivery is one transaction: it inserts the event's id, which is the  *)
(* primary key of stripe_events, loads the organisation's row, and at      *)
(* commit writes the columns it changed and the credits it grants.  Two    *)
(* deliveries of different events overlap freely: nothing locks the row.   *)
(***************************************************************************)
EXTENDS Integers, Sequences, FiniteSets

CONSTANTS
  Plans,       \* the catalogue's tiers (settings/plans.py)
  None,        \* no plan, no subscription
  Included,    \* credits a period of each plan includes
  Pack,        \* credits of one one-off pack
  Signup,      \* credits granted when the organisation is created
  Handlers,    \* webhook deliveries that can be under way at once
  Subs,        \* bound: subscriptions the customer may ever open
  MaxEvents    \* bound: events and operator requests in a behaviour

ASSUME PlanAssumption == None \notin Plans \cup Subs /\ IsFiniteSet(Subs)
ASSUME CreditAssumption ==
  /\ Included \in [Plans -> Nat]
  /\ Pack \in Nat \ {0} /\ Signup \in Nat
  /\ MaxEvents \in Nat

VARIABLES
  org,         \* the organisation's row: plan, status, sub, customer
  provider,    \* per subscription, the provider's own record of it
  sessions,    \* checkout pages opened for the tenant and not completed
  events,      \* everything the provider, or the operator, has asked for
  claimed,     \* the ids in stripe_events: the events whose effect committed
  handler,     \* per delivery under way: its event and the row it loaded
  balance,     \* the sum of the tenant's committed ledger entries
  grants       \* ledger entries written for each purchase (an event's number)

billingVars == <<org, provider, sessions, events, claimed, handler, balance,
                 grants>>

Status == {"", "active", "past_due", "incomplete", "canceled"}
Reported == {"active", "past_due", "incomplete"}   \* on a live subscription
Row == [plan : Plans \cup {None}, status : Status, sub : Subs \cup {None},
        customer : BOOLEAN]
Subscription == [state : {"unused", "live", "gone"},
                 plan : Plans \cup {None}, status : Reported]
Event == [type : {"subscription", "deleted", "invoice", "checkout", "manual"},
          sub : Subs \cup {None}, plan : Plans \cup {None}, status : Status,
          paid : BOOLEAN, purchase : 0..MaxEvents]

BillingTypeOK ==
  /\ org \in Row
  /\ provider \in [Subs -> Subscription]
  /\ sessions \in 0..Cardinality(Subs)
  /\ events \in Seq(Event) /\ Len(events) <= MaxEvents
  /\ claimed \subseteq 1..Len(events)
  /\ handler \in [Handlers -> [event : 0..Len(events), seen : Row]]
  /\ balance \in Int
  /\ grants \in [1..MaxEvents -> Nat]

----------------------------------------------------------------------------
(* What the row says of the tenant.                                        *)

PayingStatuses == {"active", "past_due", ""}        \* trialing as active
LiveStatuses == {"active", "past_due", "incomplete"}  \* unpaid as incomplete

PayingPlan(row) == IF row.status \in PayingStatuses THEN row.plan ELSE None

HasLiveSubscription(row) == row.sub # None /\ row.status \in LiveStatuses

InFlight == {handler[h].event : h \in Handlers} \ {0}

NewRow == [plan |-> None, status |-> "", sub |-> None, customer |-> FALSE]
Idle == [event |-> 0, seen |-> NewRow]

BillingInit ==
  /\ org = NewRow
  /\ provider = [s \in Subs |->
                   [state |-> "unused", plan |-> None, status |-> "incomplete"]]
  /\ sessions = 0
  /\ events = << >>
  /\ claimed = {}
  /\ handler = [h \in Handlers |-> Idle]
  /\ balance = Signup
  /\ grants = [n \in 1..MaxEvents |-> 0]

----------------------------------------------------------------------------
(* The provider, the customer on its pages, and the operator.              *)

NoEvent == [type |-> "invoice", sub |-> None, plan |-> None, status |-> "",
            paid |-> FALSE, purchase |-> 0]

Send(sent) ==
  /\ Len(events) + Len(sent) <= MaxEvents
  /\ events' = events \o sent
  /\ UNCHANGED <<claimed, handler, balance, grants>>

Told(s, record) ==
  [NoEvent EXCEPT !.type = "subscription", !.sub = s, !.plan = record.plan,
                  !.status = record.status]

\* invoice.paid; only a period's invoice carries a purchase, the n-th event.
Invoice(s, n) ==
  [NoEvent EXCEPT !.sub = s, !.plan = provider'[s].plan, !.paid = TRUE,
                  !.purchase = n]

Spare == {s \in Subs : provider[s].state = "unused"}

\* The tenant's customer is created, and attached, before the page opens.
StartCheckout ==
  /\ ~HasLiveSubscription(org)
  /\ sessions < Cardinality(Spare)
  /\ sessions' = sessions + 1
  /\ org' = [org EXCEPT !.customer = TRUE]
  /\ UNCHANGED <<provider, events, claimed, handler, balance, grants>>

CompleteCheckout(s, plan, status) ==
  /\ sessions > 0 /\ s \in Spare
  /\ sessions' = sessions - 1
  /\ provider' = [provider EXCEPT
       ![s] = [state |-> "live", plan |-> plan, status |-> status]]
  /\ Send(<<Told(s, provider'[s])>> \o
          IF status = "active" THEN <<Invoice(s, Len(events) + 2)>> ELSE << >>)
  /\ UNCHANGED org

\* A plan changed in the portal, a card that fails, a payment that clears.
SubscriptionMoves(s, plan, status) ==
  /\ provider[s].state = "live"
  /\ <<plan, status>> # <<provider[s].plan, provider[s].status>>
  /\ provider' = [provider EXCEPT ![s].plan = plan, ![s].status = status]
  /\ Send(<<Told(s, provider'[s])>>)
  /\ UNCHANGED <<org, sessions>>

InvoicePaid(s, period) ==
  /\ provider[s].state = "live"
  /\ UNCHANGED provider
  /\ Send(<<Invoice(s, IF period THEN Len(events) + 1 ELSE 0)>>)
  /\ UNCHANGED <<org, sessions>>

SubscriptionEnds(s) ==
  /\ provider[s].state = "live"
  /\ provider' = [provider EXCEPT ![s].state = "gone"]
  /\ Send(<<[Told(s, provider[s]) EXCEPT !.type = "deleted"]>>)
  /\ UNCHANGED <<org, sessions>>

\* A pack paid at once is one event; a delayed payment completes the session
\* first and settles in a second event about the same session.
BuyPack(settled) ==
  LET session(paid) == [NoEvent EXCEPT !.type = "checkout", !.paid = paid,
                                       !.purchase = Len(events) + 1]
  IN /\ org' = [org EXCEPT !.customer = TRUE]
     /\ Send(<<session(settled)>> \o
             IF settled THEN << >> ELSE <<session(TRUE)>>)
     /\ UNCHANGED <<provider, sessions>>

\* admin_ops.set_manual_plan asked by the operator.
AskManualPlan(plan) ==
  /\ Send(<<[NoEvent EXCEPT !.type = "manual", !.plan = plan]>>)
  /\ UNCHANGED <<org, provider, sessions>>

----------------------------------------------------------------------------
(* A delivery's transaction.                                               *)

\* Mutant of Unclaimed: an id is claimed only when the effect commits, and
\* two deliveries of it do not meet before that.
NotYetApplied(n) == n \notin claimed

\* The insert of a committed id fails; an uncommitted one makes it wait.
Unclaimed(n) == n \notin claimed \cup InFlight

BeginEvent(h, n) ==
  /\ handler[h].event = 0
  /\ Unclaimed(n)
  /\ handler' = [handler EXCEPT ![h] = [event |-> n, seen |-> org]]
  /\ UNCHANGED <<org, provider, sessions, events, claimed, balance, grants>>

\* The row as the handler leaves it in its session.
Effect(e, row) ==
  CASE e.type = "deleted" ->
         [row EXCEPT !.sub = None, !.plan = None, !.status = "canceled"]
    [] e.type = "subscription" ->
         [row EXCEPT !.sub = e.sub, !.status = e.status,
                     !.plan = IF e.plan = None THEN row.plan ELSE e.plan]
    [] e.type = "checkout" /\ e.paid -> [row EXCEPT !.customer = TRUE]
    [] e.type = "manual" /\ ~HasLiveSubscription(row) ->
         [row EXCEPT !.plan = e.plan, !.status = ""]
    [] OTHER -> row

\* The flush writes only the columns that differ from the row as loaded.
Column(now, seen, new) == IF new = seen THEN now ELSE new

Flushed(seen, new) ==
  [plan |-> Column(org.plan, seen.plan, new.plan),
   status |-> Column(org.status, seen.status, new.status),
   sub |-> Column(org.sub, seen.sub, new.sub),
   customer |-> Column(org.customer, seen.customer, new.customer)]

Paid(e) == e.paid

AllowancePlan(e, row) == IF row.plan = None THEN e.plan ELSE row.plan

\* A manual invoice, a proration or a threshold carries no purchase.
Granted(e, row) ==
  CASE e.type = "invoice" /\ e.purchase # 0 /\ row.customer
         /\ AllowancePlan(e, row) # None -> Included[AllowancePlan(e, row)]
    [] e.type = "checkout" /\ Paid(e) -> Pack
    [] OTHER -> 0

ApplyEvent(h) ==
  LET n == handler[h].event
      seen == handler[h].seen
      credits == Granted(events[n], seen)
      purchase == events[n].purchase
  IN /\ n # 0
     /\ claimed' = claimed \cup {n}
     /\ org' = Flushed(seen, Effect(events[n], seen))
     /\ balance' = balance + credits
     /\ grants' = IF credits = 0 THEN grants
                  ELSE [grants EXCEPT ![purchase] = @ + 1]
     /\ handler' = [handler EXCEPT ![h] = Idle]
     /\ UNCHANGED <<provider, sessions, events>>

\* Any failure rolls the claim back with the effect: a 500, and a retry.
AbortEvent(h) ==
  /\ handler[h].event # 0
  /\ handler' = [handler EXCEPT ![h] = Idle]
  /\ UNCHANGED <<org, provider, sessions, events, claimed, balance, grants>>

BillingNext ==
  \/ StartCheckout
  \/ \E s \in Subs, plan \in Plans, status \in {"active", "incomplete"} :
       CompleteCheckout(s, plan, status)
  \/ \E s \in Subs, plan \in Plans, status \in Reported :
       SubscriptionMoves(s, plan, status)
  \/ \E s \in Subs, period \in BOOLEAN : InvoicePaid(s, period)
  \/ \E s \in Subs : SubscriptionEnds(s)
  \/ \E settled \in BOOLEAN : BuyPack(settled)
  \/ \E plan \in Plans \cup {None} : AskManualPlan(plan)
  \/ \E h \in Handlers, n \in DOMAIN events : BeginEvent(h, n)
  \/ \E h \in Handlers : ApplyEvent(h) \/ AbortEvent(h)

BillingSpec == BillingInit /\ [][BillingNext]_billingVars

----------------------------------------------------------------------------
(* What the webhook must keep.                                             *)

\* handle_event, _apply_checkout, _apply_invoice_paid: a purchase is granted
\* at most once however its events are repeated, raced or ordered, and once
\* every event about it has been applied it has been granted, provided the
\* plan it pays for includes credits.
PurchaseIsGrantedOnce ==
  \A p \in 1..Len(events) :
    LET about == {n \in 1..Len(events) : events[n].purchase = p}
    IN /\ grants[p] <= 1
       /\ about # {} /\ about \subseteq claimed
            /\ (\A q \in Plans : Included[q] > 0) => grants[p] = 1
=============================================================================
