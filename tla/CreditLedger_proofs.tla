------------------------ MODULE CreditLedger_proofs -------------------------
(***************************************************************************)
(* The tenant's account is kept, for any number of runs, approvals, sweeps *)
(* and webhook deliveries.                                                 *)
(*                                                                         *)
(* The webhook comes first, alone, for any number of deliveries,           *)
(* subscriptions and events.  A purchase has one event that grants it      *)
(* (EventsInv); an event is in one delivery at a time and in none once its *)
(* effect committed (DeliveriesInv); a delivery that grants reads a row    *)
(* with a customer, since the customer precedes every invoice and is never *)
(* detached (CustomerInv).                                                 *)
(*                                                                         *)
(* In the ledger the two locks appear as "at most one": at most one        *)
(* approval has counted and not finished (GateInv), at most one charge has *)
(* read the balance and not committed (FundsInv).  What the holder has     *)
(* read is stale, and still safe: the runs held back for have not grown    *)
(* since they were counted, and the balance has lost only what unbilled    *)
(* charges took.                                                           *)
(***************************************************************************)
EXTENDS CreditLedger, FiniteSetTheorems, SequenceTheorems, TLAPS

(* The webhook.                                                            *)

Granting(e) == e.purchase # 0 /\ e.paid

EventOK(e) ==
  /\ e.type = "checkout" => e.purchase # 0
  /\ e.type = "invoice" => e.paid /\ e.plan # None
  /\ e.type \notin {"checkout", "invoice"} => e.purchase = 0

EventsInv ==
  /\ \A n \in 1..Len(events) :
       EventOK(events[n]) /\ events[n].purchase <= Len(events)
  /\ \A n, m \in 1..Len(events) :
       Granting(events[n]) /\ Granting(events[m])
         /\ events[n].purchase = events[m].purchase => n = m
  /\ \A n \in 1..Len(events) : events[n].purchase # 0 =>
       \E m \in 1..Len(events) :
         Granting(events[m]) /\ events[m].purchase = events[n].purchase

DeliveriesInv ==
  /\ \A h \in Handlers : handler[h].event \notin claimed
  /\ \A g, h \in Handlers :
       handler[g].event = handler[h].event /\ handler[g].event # 0 => g = h

CustomerInv ==
  /\ sessions > 0 => org.customer = TRUE
  /\ \A s \in Subs : provider[s].state # "unused" =>
       org.customer = TRUE /\ provider[s].plan # None
  /\ \A n \in 1..Len(events) :
       events[n].type = "invoice" => org.customer = TRUE
  /\ \A h \in Handlers :
       handler[h].event # 0 /\ events[handler[h].event].type = "invoice"
         => handler[h].seen.customer = TRUE

Generous == \A q \in Plans : Included[q] > 0

GrantsInv ==
  /\ \A p \in 1..MaxEvents : grants[p] \in {0, 1}
  /\ \A p \in 1..MaxEvents : grants[p] = 1 =>
       \E n \in claimed : Granting(events[n]) /\ events[n].purchase = p
  /\ Generous => \A n \in claimed :
       Granting(events[n]) => grants[events[n].purchase] = 1

BillingInv ==
  BillingTypeOK /\ EventsInv /\ DeliveriesInv /\ CustomerInv /\ GrantsInv

\* The invariant is kept, and the webhook takes no credits away.
BillingKept == BillingInv' /\ balance' >= balance

\* The rows a step of the provider may change.
RowsKept ==
  /\ org' \in Row /\ (org.customer = TRUE => org'.customer = TRUE)
  /\ sessions' \in 0..Cardinality(Subs)
  /\ sessions' > 0 => org'.customer = TRUE
  /\ provider' \in [Subs -> Subscription]
  /\ \A s \in Subs : provider'[s].state # "unused" =>
       org'.customer = TRUE /\ provider'[s].plan # None

----------------------------------------------------------------------------
(* The provider.                                                           *)

\* A purchase is a number.
LEMMA PurchaseNat ==
  ASSUME NEW e \in Event
  PROVE  e.purchase \in Nat /\ e.purchase <= MaxEvents
<1>1. e.purchase \in 0..MaxEvents
  BY DEF Event
<1> QED
  BY <1>1, CreditAssumption

\* What the provider sends comes after what it sent.
LEMMA SendAppends ==
  ASSUME BillingTypeOK, NEW sent \in Seq(Event), Send(sent)
  PROVE  /\ events' \in Seq(Event) /\ Len(events') = Len(events) + Len(sent)
         /\ Len(events') <= MaxEvents
         /\ \A n \in 1..Len(events) : events'[n] = events[n]
         /\ \A n \in 1..Len(sent) : events'[Len(events) + n] = sent[n]
         /\ \A n \in 1..Len(events') :
              \/ n \in 1..Len(events)
              \/ n - Len(events) \in 1..Len(sent) /\ events'[n] = sent[n - Len(events)]
<1>1. events \in Seq(Event)
  BY DEF BillingTypeOK
<1>2. events' = events \o sent /\ Len(events) + Len(sent) <= MaxEvents
  BY DEF Send
<1> QED
  BY <1>1, <1>2

\* Events that are well formed among themselves, and whose purchases are new,
\* can be sent; the customer stays attached.
LEMMA SentKept ==
  ASSUME BillingInv, NEW sent \in Seq(Event), Send(sent),
         RowsKept,
         \A n \in 1..Len(sent) :
           /\ EventOK(sent[n])
           /\ sent[n].type = "invoice" => org'.customer = TRUE
           /\ sent[n].purchase # 0 =>
                /\ sent[n].purchase > Len(events)
                /\ sent[n].purchase <= Len(events) + Len(sent)
                /\ \E m \in 1..Len(sent) :
                     Granting(sent[m]) /\ sent[m].purchase = sent[n].purchase,
         \A n, m \in 1..Len(sent) :
           Granting(sent[n]) /\ Granting(sent[m])
             /\ sent[n].purchase = sent[m].purchase => n = m
  PROVE  BillingKept
<1>t. /\ events \in Seq(Event) /\ Len(events) \in Nat /\ Len(sent) \in Nat
      /\ claimed \subseteq 1..Len(events)
      /\ \A h \in Handlers : handler[h].event \in 0..Len(events)
      /\ UNCHANGED <<claimed, handler, balance, grants>>
  BY DEF BillingInv, BillingTypeOK, Send
<1>1. /\ events' \in Seq(Event) /\ Len(events') = Len(events) + Len(sent)
      /\ Len(events') <= MaxEvents
      /\ \A n \in 1..Len(events) : events'[n] = events[n]
      /\ \A n \in 1..Len(sent) : events'[Len(events) + n] = sent[n]
      /\ \A n \in 1..Len(events') :
           \/ n \in 1..Len(events)
           \/ n - Len(events) \in 1..Len(sent) /\ events'[n] = sent[n - Len(events)]
  BY SendAppends DEF BillingInv
<1>2. BillingTypeOK'
  <2>1. handler' \in [Handlers -> [event : 0..Len(events'), seen : Row]]
    BY <1>t, <1>1 DEF BillingInv, BillingTypeOK
  <2> QED
    BY <1>t, <1>1, <2>1 DEF BillingInv, BillingTypeOK, RowsKept
<1>3. EventsInv'
  <2>1. ASSUME NEW n \in 1..Len(events')
        PROVE  EventOK(events'[n]) /\ events'[n].purchase <= Len(events')
    <3>1. CASE n \in 1..Len(events)
      <4>0. events[n] \in Event
        BY <3>1, <1>t
      <4>1. events[n].purchase \in Nat
        BY <4>0, PurchaseNat
      <4>2. EventOK(events[n]) /\ events[n].purchase <= Len(events)
        BY <3>1 DEF BillingInv, EventsInv
      <4>3. events'[n] = events[n] /\ Len(events) <= Len(events')
        BY <3>1, <1>t, <1>1
      <4> QED
        BY <4>1, <4>2, <4>3, <1>t, <1>1
    <3>2. CASE n - Len(events) \in 1..Len(sent) /\ events'[n] = sent[n - Len(events)]
      BY <3>2, <1>t, <1>1
    <3> QED
      BY <3>1, <3>2, <1>1
  <2>2. ASSUME NEW n \in 1..Len(events'), NEW m \in 1..Len(events'),
               Granting(events'[n]), Granting(events'[m]),
               events'[n].purchase = events'[m].purchase
        PROVE  n = m
    <3>1. \A k \in 1..Len(events) : events[k].purchase \in Nat
                                    /\ events[k].purchase <= Len(events)
      <4> SUFFICES ASSUME NEW k \in 1..Len(events)
                   PROVE  /\ events[k].purchase \in Nat
                          /\ events[k].purchase <= Len(events)
        OBVIOUS
      <4>1. events[k] \in Event
        BY <1>t
      <4> QED
        BY <4>1, PurchaseNat DEF BillingInv, EventsInv
    <3>n. ASSUME NEW k \in 1..Len(events'), k \notin 1..Len(events),
                 events'[k].purchase # 0
          PROVE  /\ k - Len(events) \in 1..Len(sent)
                 /\ events'[k] = sent[k - Len(events)]
                 /\ events'[k].purchase > Len(events)
      <4>1. k - Len(events) \in 1..Len(sent) /\ events'[k] = sent[k - Len(events)]
        BY <3>n, <1>1
      <4> QED
        BY <3>n, <4>1
    <3>2. CASE n \in 1..Len(events) /\ m \in 1..Len(events)
      BY <2>2, <3>2, <1>1 DEF BillingInv, EventsInv
    <3>3. CASE n \notin 1..Len(events) /\ m \notin 1..Len(events)
      <4>0. /\ n - Len(events) \in 1..Len(sent) /\ events'[n] = sent[n - Len(events)]
            /\ m - Len(events) \in 1..Len(sent) /\ events'[m] = sent[m - Len(events)]
        BY <2>2, <3>3, <3>n DEF Granting
      <4> DEFINE i == n - Len(events)
                 j == m - Len(events)
      <4>g. /\ i \in 1..Len(sent) /\ j \in 1..Len(sent)
            /\ Granting(sent[i]) /\ Granting(sent[j])
            /\ sent[i].purchase = sent[j].purchase
        BY <2>2, <4>0
      <4> HIDE DEF i, j
      <4>e. i = j
        BY <4>g
      <4>1. n - Len(events) = m - Len(events)
        BY <4>e DEF i, j
      <4> QED
        BY <4>1, <1>t, <1>1
    <3>4. CASE n \in 1..Len(events) /\ m \notin 1..Len(events)
      <4>1. events'[m].purchase > Len(events)
        BY <2>2, <3>4, <3>n DEF Granting
      <4>2. /\ events'[n].purchase = events[n].purchase
            /\ events[n].purchase \in Nat /\ events[n].purchase <= Len(events)
        BY <3>1, <3>4, <1>1
      <4> QED
        BY <2>2, <4>1, <4>2, <1>t
    <3>5. CASE n \notin 1..Len(events) /\ m \in 1..Len(events)
      <4>1. events'[n].purchase > Len(events)
        BY <2>2, <3>5, <3>n DEF Granting
      <4>2. /\ events'[m].purchase = events[m].purchase
            /\ events[m].purchase \in Nat /\ events[m].purchase <= Len(events)
        BY <3>1, <3>5, <1>1
      <4> QED
        BY <2>2, <4>1, <4>2, <1>t
    <3> QED
      BY <3>2, <3>3, <3>4, <3>5
  <2>3. ASSUME NEW n \in 1..Len(events'), events'[n].purchase # 0
        PROVE  \E m \in 1..Len(events') :
                 Granting(events'[m]) /\ events'[m].purchase = events'[n].purchase
    <3>1. CASE n \in 1..Len(events)
      <4>1. PICK m \in 1..Len(events) :
              Granting(events[m]) /\ events[m].purchase = events[n].purchase
        BY <2>3, <3>1, <1>1 DEF BillingInv, EventsInv
      <4>2. m \in 1..Len(events')
        BY <1>t, <1>1
      <4> QED
        BY <3>1, <4>1, <4>2, <1>1
    <3>2. CASE n - Len(events) \in 1..Len(sent) /\ events'[n] = sent[n - Len(events)]
      <4>1. PICK m \in 1..Len(sent) :
              Granting(sent[m]) /\ sent[m].purchase = events'[n].purchase
        BY <2>3, <3>2
      <4>2. Len(events) + m \in 1..Len(events') /\ events'[Len(events) + m] = sent[m]
        BY <1>t, <1>1
      <4> QED
        BY <4>1, <4>2
    <3> QED
      BY <3>1, <3>2, <1>1
  <2> QED
    BY <2>1, <2>2, <2>3 DEF EventsInv
<1>4. DeliveriesInv'
  BY <1>t DEF BillingInv, DeliveriesInv
<1>5. CustomerInv'
  <2>1. ASSUME NEW n \in 1..Len(events'), events'[n].type = "invoice"
        PROVE  org'.customer = TRUE
    <3>1. CASE n \in 1..Len(events)
      BY <2>1, <3>1, <1>1 DEF BillingInv, CustomerInv, RowsKept
    <3>2. CASE n - Len(events) \in 1..Len(sent) /\ events'[n] = sent[n - Len(events)]
      BY <2>1, <3>2
    <3> QED
      BY <3>1, <3>2, <1>1
  <2>2. ASSUME NEW h \in Handlers, handler[h].event # 0,
               events'[handler[h].event].type = "invoice"
        PROVE  handler[h].seen.customer = TRUE
    <3>1. handler[h].event \in 1..Len(events)
      BY <2>2, <1>t
    <3> QED
      BY <2>2, <3>1, <1>1 DEF BillingInv, CustomerInv
  <2> QED
    BY <2>1, <2>2, <1>t DEF CustomerInv, RowsKept
<1>6. GrantsInv'
  <2>1. \A n \in claimed : events'[n] = events[n]
    BY <1>t, <1>1
  <2>2. grants' = grants /\ claimed' = claimed
    BY <1>t
  <2>3. \A p \in 1..MaxEvents : grants[p] \in {0, 1}
    BY DEF BillingInv, GrantsInv
  <2>4. \A p \in 1..MaxEvents : grants[p] = 1 =>
          \E n \in claimed : Granting(events'[n]) /\ events'[n].purchase = p
    BY <2>1 DEF BillingInv, GrantsInv
  <2>5. Generous => \A n \in claimed :
          Granting(events'[n]) => grants[events'[n].purchase] = 1
    BY <2>1 DEF BillingInv, GrantsInv
  <2> QED
    BY <2>2, <2>3, <2>4, <2>5 DEF GrantsInv, Generous
<1> QED
  BY <1>t, <1>2, <1>3, <1>4, <1>5, <1>6 DEF BillingKept, BillingInv, BillingTypeOK

\* One event: its purchase, if it has one, is its own number.
LEMMA OneSent ==
  ASSUME BillingInv, NEW e \in Event, Send(<<e>>), RowsKept, EventOK(e),
         e.type = "invoice" => org'.customer = TRUE,
         e.purchase # 0 => e.paid /\ e.purchase = Len(events) + 1
  PROVE  BillingKept
<1> DEFINE sent == <<e>>
<1>1. /\ sent \in Seq(Event) /\ Len(sent) = 1 /\ sent[1] = e
      /\ \A n \in 1..Len(sent) : n = 1
  OBVIOUS
<1>2. Len(events) \in Nat
  BY DEF BillingInv, BillingTypeOK
<1>3. Send(sent)
  OBVIOUS
<1> HIDE DEF sent
<1>4. \A n \in 1..Len(sent) : sent[n] = e
  BY <1>1
<1>5. e.purchase # 0 => /\ e.purchase > Len(events)
                        /\ e.purchase <= Len(events) + Len(sent)
                        /\ Granting(sent[1]) /\ sent[1].purchase = e.purchase
                        /\ 1 \in 1..Len(sent)
  BY <1>1, <1>2 DEF Granting
<1>6. \A n \in 1..Len(sent) :
        /\ EventOK(sent[n])
        /\ sent[n].type = "invoice" => org'.customer = TRUE
        /\ sent[n].purchase # 0 =>
             /\ sent[n].purchase > Len(events)
             /\ sent[n].purchase <= Len(events) + Len(sent)
             /\ \E m \in 1..Len(sent) :
                  Granting(sent[m]) /\ sent[m].purchase = sent[n].purchase
  BY <1>4, <1>5
<1>7. \A n, m \in 1..Len(sent) : n = m
  BY <1>1
<1> QED
  BY <1>1, <1>3, <1>6, <1>7, SentKept

\* Two events, of which the second is the one that grants.
LEMMA TwoSent ==
  ASSUME BillingInv, NEW d \in Event, NEW e \in Event, Send(<<d, e>>), RowsKept,
         EventOK(d), EventOK(e), ~Granting(d), Granting(e),
         d.type # "invoice", e.type = "invoice" => org'.customer = TRUE,
         e.purchase \in {Len(events) + 1, Len(events) + 2},
         d.purchase \in {0, e.purchase}
  PROVE  BillingKept
<1> DEFINE sent == <<d, e>>
<1>1. /\ sent \in Seq(Event) /\ Len(sent) = 2 /\ sent[1] = d /\ sent[2] = e
      /\ \A n \in 1..Len(sent) : n = 1 \/ n = 2
  OBVIOUS
<1>2. Len(events) \in Nat
  BY DEF BillingInv, BillingTypeOK
<1>3. Send(sent)
  OBVIOUS
<1> HIDE DEF sent
<1>5. /\ e.purchase > Len(events) /\ e.purchase <= Len(events) + Len(sent)
      /\ Granting(sent[2]) /\ 2 \in 1..Len(sent)
  BY <1>1, <1>2
<1>6. \A n \in 1..Len(sent) :
        /\ EventOK(sent[n])
        /\ sent[n].type = "invoice" => org'.customer = TRUE
        /\ sent[n].purchase # 0 =>
             /\ sent[n].purchase > Len(events)
             /\ sent[n].purchase <= Len(events) + Len(sent)
             /\ \E m \in 1..Len(sent) :
                  Granting(sent[m]) /\ sent[m].purchase = sent[n].purchase
  <2> SUFFICES ASSUME NEW n \in 1..Len(sent)
               PROVE  /\ EventOK(sent[n])
                      /\ sent[n].type = "invoice" => org'.customer = TRUE
                      /\ sent[n].purchase # 0 =>
                           /\ sent[n].purchase > Len(events)
                           /\ sent[n].purchase <= Len(events) + Len(sent)
                           /\ \E m \in 1..Len(sent) :
                                Granting(sent[m]) /\ sent[m].purchase = sent[n].purchase
    OBVIOUS
  <2>1. CASE sent[n] = d
    BY <2>1, <1>1, <1>5
  <2>2. CASE sent[n] = e
    BY <2>2, <1>1, <1>5
  <2> QED
    BY <2>1, <2>2, <1>1
<1>7. \A n, m \in 1..Len(sent) :
        Granting(sent[n]) /\ Granting(sent[m]) => n = m
  BY <1>1
<1> QED
  BY <1>1, <1>3, <1>6, <1>7, SentKept

\* The subscriptions there may be are finitely many.
LEMMA SubsFinite ==
  Cardinality(Subs) \in Nat /\ Cardinality(Spare) \in Nat
    /\ Cardinality(Spare) <= Cardinality(Subs)
<1>1. Spare \subseteq Subs
  BY DEF Spare
<1> QED
  BY <1>1, PlanAssumption, FS_Subset, FS_CardinalityType

\* A report of a subscription is an event without a purchase.
LEMMA ToldOK ==
  ASSUME NEW s \in Subs, NEW r \in Subscription
  PROVE  /\ Told(s, r) \in Event /\ EventOK(Told(s, r)) /\ ~Granting(Told(s, r))
         /\ Told(s, r).type = "subscription" /\ Told(s, r).purchase = 0
<1>1. r.plan \in Plans \cup {None} /\ r.status \in Status
  BY DEF Subscription, Reported, Status
<1>n. NoEvent \in Event
  BY CreditAssumption DEF NoEvent, Event, Status
<1>2. Told(s, r) \in Event
  BY <1>1, <1>n DEF Told, Event
<1>3. /\ Told(s, r).type = "subscription" /\ Told(s, r).purchase = 0
  BY DEF Told, NoEvent
<1> QED
  BY <1>2, <1>3 DEF EventOK, Granting

\* The end of one is such a report.
LEMMA EndedOK ==
  ASSUME NEW s \in Subs, NEW r \in Subscription
  PROVE  LET e == [Told(s, r) EXCEPT !.type = "deleted"]
         IN /\ e \in Event /\ EventOK(e) /\ e.type = "deleted" /\ e.purchase = 0
<1> DEFINE e == [Told(s, r) EXCEPT !.type = "deleted"]
<1>1. Told(s, r) \in Event /\ Told(s, r).purchase = 0
  BY ToldOK
<1>2. e \in Event /\ e.type = "deleted" /\ e.purchase = 0
  BY <1>1 DEF Event
<1> QED
  BY <1>2 DEF EventOK

\* Two messages, one after the other.
LEMMA PairUp ==
  ASSUME NEW d, NEW e
  PROVE  <<d>> \o <<e>> = <<d, e>> /\ <<d>> \o << >> = <<d>>
<1>1. /\ <<d>> \in Seq({d, e}) /\ <<e>> \in Seq({d, e})
      /\ << >> \in Seq({d, e}) /\ <<d, e>> \in Seq({d, e})
  OBVIOUS
<1>2. <<d>> \o <<e>> = <<d, e>>
  <2> DEFINE one == <<d>>
             two == <<e>>
             both == <<d, e>>
  <2>1. /\ Len(one) = 1 /\ Len(two) = 1 /\ Len(both) = 2
        /\ one[1] = d /\ two[1] = e /\ both[1] = d /\ both[2] = e
    OBVIOUS
  <2>2. one \in Seq({d, e}) /\ two \in Seq({d, e}) /\ both \in Seq({d, e})
    BY <1>1
  <2> HIDE DEF one, two, both
  <2>c. /\ one \o two \in Seq({d, e}) /\ Len(one \o two) = Len(one) + Len(two)
        /\ \A i \in 1..Len(one) + Len(two) :
             (one \o two)[i] = IF i <= Len(one) THEN one[i] ELSE two[i - Len(one)]
    BY <2>2, ConcatProperties
  <2>d. Len(one \o two) = 2 /\ (one \o two)[1] = d /\ (one \o two)[2] = e
    BY <2>1, <2>c
  <2>3. /\ one \o two \in Seq({d, e}) /\ Len(one \o two) = 2
        /\ \A i \in 1..2 : (one \o two)[i] = both[i]
    <3>1. \A i \in 1..2 : i = 1 \/ i = 2
      OBVIOUS
    <3> QED
      BY <2>1, <2>c, <2>d, <3>1
  <2>4. one \o two = both
    BY <2>1, <2>2, <2>3, SeqEqual
  <2> QED
    BY <2>4 DEF one, two, both
<1>3. <<d>> \o << >> = <<d>>
  BY <1>1, ConcatEmptySeq
<1> QED
  BY <1>2, <1>3

\* An invoice of a plan.
LEMMA InvoiceOK ==
  ASSUME NEW s \in Subs, NEW n \in 0..MaxEvents, provider'[s].plan \in Plans
  PROVE  /\ Invoice(s, n) \in Event /\ EventOK(Invoice(s, n))
         /\ Invoice(s, n).purchase = n /\ Invoice(s, n).paid
         /\ Invoice(s, n).type = "invoice"
BY PlanAssumption DEF Invoice, NoEvent, Event, EventOK, Status

\* The customer is attached before the page opens.
LEMMA StartCheckoutKept ==
  ASSUME BillingInv, StartCheckout
  PROVE  BillingKept
<1>1. org' \in Row /\ org'.customer = TRUE
  BY DEF BillingInv, BillingTypeOK, StartCheckout, Row
<1>2. sessions' \in 0..Cardinality(Subs)
  BY SubsFinite DEF BillingInv, BillingTypeOK, StartCheckout
<1>3. UNCHANGED <<provider, events, claimed, handler, balance, grants>>
  BY DEF StartCheckout
<1>4. BillingTypeOK'
  BY <1>1, <1>2, <1>3 DEF BillingInv, BillingTypeOK
<1>5. EventsInv' /\ DeliveriesInv' /\ GrantsInv'
  BY <1>3 DEF BillingInv, EventsInv, DeliveriesInv, GrantsInv
<1>6. CustomerInv'
  BY <1>1, <1>3 DEF BillingInv, CustomerInv
<1> QED
  BY <1>3, <1>4, <1>5, <1>6 DEF BillingKept, BillingInv, BillingTypeOK

\* A subscription opened, and its first invoice if it was paid.
LEMMA CompleteCheckoutKept ==
  ASSUME BillingInv, NEW s \in Subs, NEW plan \in Plans,
         NEW status \in {"active", "incomplete"}, CompleteCheckout(s, plan, status)
  PROVE  BillingKept
<1>1. /\ org' = org /\ org \in Row /\ sessions > 0 /\ sessions' = sessions - 1
      /\ sessions \in 0..Cardinality(Subs) /\ Len(events) \in Nat
      /\ provider \in [Subs -> Subscription]
      /\ provider' = [provider EXCEPT
           ![s] = [state |-> "live", plan |-> plan, status |-> status]]
  BY DEF BillingInv, BillingTypeOK, CompleteCheckout
<1>2. org.customer = TRUE
  BY <1>1 DEF BillingInv, CustomerInv
<1>3. provider'[s] \in Subscription /\ provider'[s].plan = plan /\ plan # None
  BY <1>1, PlanAssumption DEF Subscription, Reported
<1>4. RowsKept
  <2>1. provider' \in [Subs -> Subscription]
    BY <1>1, <1>3
  <2>2. sessions' \in 0..Cardinality(Subs)
    BY <1>1, SubsFinite
  <2>3. \A r \in Subs : provider'[r].state # "unused" => provider'[r].plan # None
    BY <1>1, <1>3 DEF BillingInv, CustomerInv
  <2> QED
    BY <1>1, <1>2, <2>1, <2>2, <2>3 DEF RowsKept
<1>5. /\ Told(s, provider'[s]) \in Event /\ EventOK(Told(s, provider'[s]))
      /\ Told(s, provider'[s]).type = "subscription"
      /\ Told(s, provider'[s]).purchase = 0 /\ ~Granting(Told(s, provider'[s]))
  BY <1>3, ToldOK
<1>6. CASE status = "active"
  <2> DEFINE d == Told(s, provider'[s])
             e == Invoice(s, Len(events) + 2)
  <2>1. Send(<<d>> \o <<e>>)
    BY <1>6 DEF CompleteCheckout
  <2>2. <<d>> \o <<e>> = <<d, e>>
    BY PairUp
  <2>3. Send(<<d, e>>)
    BY <2>1, <2>2
  <2>4. Len(events) + 2 \in 0..MaxEvents
    <3>1. Len(<<d, e>>) = 2
      OBVIOUS
    <3>2. Len(events) + Len(<<d, e>>) <= MaxEvents
      BY <2>3 DEF Send
    <3> QED
      BY <3>1, <3>2, <1>1, CreditAssumption
  <2>5. /\ e \in Event /\ EventOK(e) /\ e.purchase = Len(events) + 2 /\ e.paid
        /\ e.type = "invoice"
    BY <1>3, <2>4, InvoiceOK
  <2>6. Granting(e)
    BY <2>5, <1>1 DEF Granting
  <2> HIDE DEF d, e
  <2>7. /\ d \in Event /\ EventOK(d) /\ d.type = "subscription"
        /\ d.purchase = 0 /\ ~Granting(d)
    BY <1>5 DEF d
  <2> QED
    BY <1>1, <1>2, <1>4, <2>3, <2>5, <2>6, <2>7, TwoSent
<1>7. CASE status # "active"
  <2> DEFINE d == Told(s, provider'[s])
  <2>1. Send(<<d>> \o << >>)
    BY <1>7 DEF CompleteCheckout
  <2>2. <<d>> \o << >> = <<d>>
    BY PairUp
  <2>3. Send(<<d>>)
    BY <2>1, <2>2
  <2>4. /\ d \in Event /\ EventOK(d) /\ d.type = "subscription" /\ d.purchase = 0
    BY <1>5
  <2> HIDE DEF d
  <2> QED
    BY <1>4, <2>3, <2>4, OneSent
<1> QED
  BY <1>6, <1>7

\* A live subscription has a customer and a plan.
LEMMA LiveSubscription ==
  ASSUME BillingInv, NEW s \in Subs, provider[s].state = "live"
  PROVE  /\ org.customer = TRUE /\ provider[s] \in Subscription
         /\ provider[s].plan \in Plans
<1>1. org.customer = TRUE /\ provider[s].plan # None
  BY DEF BillingInv, CustomerInv
<1>2. provider[s] \in Subscription
  BY DEF BillingInv, BillingTypeOK
<1> QED
  BY <1>1, <1>2 DEF Subscription

\* A subscription's record changes and the customer stays.
LEMMA RecordMoves ==
  ASSUME BillingInv, NEW s \in Subs, provider[s].state = "live",
         NEW r \in Subscription, r.plan # None,
         provider' = [provider EXCEPT ![s] = r], UNCHANGED <<org, sessions>>
  PROVE  RowsKept
<1>1. provider \in [Subs -> Subscription] /\ org \in Row
      /\ sessions \in 0..Cardinality(Subs)
  BY DEF BillingInv, BillingTypeOK
<1>2. org.customer = TRUE
  BY LiveSubscription
<1>3. \A t \in Subs : provider'[t].state # "unused" => provider'[t].plan # None
  BY <1>1 DEF BillingInv, CustomerInv
<1> QED
  BY <1>1, <1>2, <1>3 DEF RowsKept

\* A plan or a status changes at the provider.
LEMMA SubscriptionMovesKept ==
  ASSUME BillingInv, NEW s \in Subs, NEW plan \in Plans, NEW status \in Reported,
         SubscriptionMoves(s, plan, status)
  PROVE  BillingKept
<1> DEFINE r == [provider[s] EXCEPT !.plan = plan, !.status = status]
<1>1. provider[s].state = "live"
  BY DEF SubscriptionMoves
<1>2. r \in Subscription /\ r.plan = plan /\ plan # None
  BY <1>1, LiveSubscription, PlanAssumption DEF Subscription
<1>3. provider' = [provider EXCEPT ![s] = r] /\ UNCHANGED <<org, sessions>>
  BY DEF SubscriptionMoves
<1>4. provider'[s] = r
  BY <1>3 DEF BillingInv, BillingTypeOK
<1> HIDE DEF r
<1>5. RowsKept
  BY <1>1, <1>2, <1>3, RecordMoves
<1>6. Send(<<Told(s, provider'[s])>>)
  BY DEF SubscriptionMoves
<1>7. /\ Told(s, r) \in Event /\ EventOK(Told(s, r)) /\ Told(s, r).purchase = 0
      /\ Told(s, r).type = "subscription"
  BY <1>2, ToldOK
<1>8. Send(<<Told(s, r)>>)
  BY <1>4, <1>6
<1> QED
  BY <1>5, <1>7, <1>8, OneSent

\* An invoice is paid, for a period or for something else.
LEMMA InvoicePaidKept ==
  ASSUME BillingInv, NEW s \in Subs, NEW period \in BOOLEAN, InvoicePaid(s, period)
  PROVE  BillingKept
<1> DEFINE n == IF period THEN Len(events) + 1 ELSE 0
<1>1. provider[s].state = "live" /\ UNCHANGED <<provider, org, sessions>>
      /\ Send(<<Invoice(s, n)>>)
  BY DEF InvoicePaid
<1>2. provider[s] \in Subscription /\ provider[s].plan \in Plans /\ org.customer = TRUE
  BY <1>1, LiveSubscription
<1>3. RowsKept
  <2>1. provider[s].plan # None
    BY <1>2, PlanAssumption
  <2>2. provider' = [provider EXCEPT ![s] = provider[s]]
    BY <1>1 DEF BillingInv, BillingTypeOK
  <2> QED
    BY <1>1, <1>2, <2>1, <2>2, RecordMoves
<1>4. n \in 0..MaxEvents
  <2>1. Len(<<Invoice(s, n)>>) = 1 /\ Len(events) \in Nat
    BY DEF BillingInv, BillingTypeOK
  <2>2. Len(events) + Len(<<Invoice(s, n)>>) <= MaxEvents
    BY <1>1 DEF Send
  <2> QED
    BY <2>1, <2>2, CreditAssumption
<1>5. n # 0 => n = Len(events) + 1
  OBVIOUS
<1> HIDE DEF n
<1>6. /\ Invoice(s, n) \in Event /\ EventOK(Invoice(s, n))
      /\ Invoice(s, n).purchase = n /\ Invoice(s, n).paid
  BY <1>1, <1>2, <1>4, InvoiceOK
<1> QED
  BY <1>1, <1>2, <1>3, <1>5, <1>6, OneSent

\* The provider ends a subscription.
LEMMA SubscriptionEndsKept ==
  ASSUME BillingInv, NEW s \in Subs, SubscriptionEnds(s)
  PROVE  BillingKept
<1> DEFINE r == [provider[s] EXCEPT !.state = "gone"]
           e == [Told(s, provider[s]) EXCEPT !.type = "deleted"]
<1>1. provider[s].state = "live" /\ UNCHANGED <<org, sessions>>
      /\ provider' = [provider EXCEPT ![s] = r] /\ Send(<<e>>)
  BY DEF SubscriptionEnds
<1>2. provider[s] \in Subscription /\ provider[s].plan \in Plans
  BY <1>1, LiveSubscription
<1>3. r \in Subscription /\ r.plan # None
  BY <1>2, PlanAssumption DEF Subscription
<1>4. e \in Event /\ EventOK(e) /\ e.purchase = 0 /\ e.type = "deleted"
  BY <1>2, EndedOK
<1> HIDE DEF r, e
<1>5. RowsKept
  BY <1>1, <1>3, RecordMoves
<1> QED
  BY <1>1, <1>4, <1>5, OneSent

\* A pack is bought, paid at once or later.
LEMMA BuyPackKept ==
  ASSUME BillingInv, NEW settled \in BOOLEAN, BuyPack(settled)
  PROVE  BillingKept
<1> DEFINE session(paid) == [NoEvent EXCEPT !.type = "checkout", !.paid = paid,
                                            !.purchase = Len(events) + 1]
<1>t. Len(events) \in Nat /\ org \in Row /\ provider \in [Subs -> Subscription]
      /\ sessions \in 0..Cardinality(Subs)
  BY DEF BillingInv, BillingTypeOK
<1>1. org' = [org EXCEPT !.customer = TRUE] /\ UNCHANGED <<provider, sessions>>
  BY DEF BuyPack
<1>2. org' \in Row /\ org'.customer = TRUE
  BY <1>t, <1>1 DEF Row
<1>3. RowsKept
  BY <1>t, <1>1, <1>2 DEF RowsKept, BillingInv, CustomerInv
<1>4. ASSUME NEW paid \in BOOLEAN, Len(events) + 1 <= MaxEvents
      PROVE  /\ session(paid) \in Event /\ EventOK(session(paid))
             /\ session(paid).type = "checkout"
             /\ session(paid).purchase = Len(events) + 1
             /\ session(paid).paid = paid
  <2>1. NoEvent \in Event
    BY CreditAssumption DEF NoEvent, Event, Status
  <2>2. Len(events) + 1 \in 0..MaxEvents
    BY <1>t, <1>4
  <2>3. session(paid) \in Event
    BY <2>1, <2>2 DEF Event
  <2>4. session(paid).type = "checkout" /\ session(paid).purchase = Len(events) + 1
        /\ session(paid).paid = paid
    BY <2>1 DEF Event
  <2> QED
    BY <1>t, <2>3, <2>4 DEF EventOK
<1>5. CASE settled = TRUE
  <2> DEFINE e == session(TRUE)
  <2>1. Send(<<e>> \o << >>)
    BY <1>5 DEF BuyPack
  <2>2. Send(<<e>>)
    BY <2>1, PairUp
  <2>3. Len(events) + 1 <= MaxEvents
    <3>1. Len(<<e>>) = 1
      OBVIOUS
    <3> QED
      BY <2>2, <3>1 DEF Send
  <2>4. /\ e \in Event /\ EventOK(e) /\ e.type = "checkout"
        /\ e.purchase = Len(events) + 1 /\ e.paid
    BY <1>4, <2>3
  <2> HIDE DEF e
  <2> QED
    BY <1>3, <2>2, <2>4, OneSent
<1>6. CASE settled = FALSE
  <2> DEFINE d == session(FALSE)
             e == session(TRUE)
  <2>1. Send(<<d>> \o <<e>>)
    BY <1>6 DEF BuyPack
  <2>2. Send(<<d, e>>)
    BY <2>1, PairUp
  <2>3. Len(events) + 1 <= MaxEvents
    <3>1. Len(<<d, e>>) = 2
      OBVIOUS
    <3> QED
      BY <2>2, <3>1, <1>t, CreditAssumption DEF Send
  <2>4. /\ e \in Event /\ EventOK(e) /\ e.type = "checkout"
        /\ e.purchase = Len(events) + 1 /\ e.paid
        /\ d \in Event /\ EventOK(d) /\ d.type = "checkout"
        /\ d.purchase = Len(events) + 1 /\ ~d.paid
    BY <1>4, <2>3
  <2> HIDE DEF d, e
  <2>5. Granting(e) /\ ~Granting(d)
    BY <1>t, <2>4 DEF Granting
  <2> QED
    BY <1>3, <2>2, <2>4, <2>5, TwoSent
<1> QED
  BY <1>5, <1>6

\* The operator asks for a plan.
LEMMA AskManualPlanKept ==
  ASSUME BillingInv, NEW plan \in Plans \cup {None}, AskManualPlan(plan)
  PROVE  BillingKept
<1> DEFINE e == [NoEvent EXCEPT !.type = "manual", !.plan = plan]
<1>1. Send(<<e>>) /\ UNCHANGED <<org, provider, sessions>>
  BY DEF AskManualPlan
<1>2. NoEvent \in Event
  BY CreditAssumption DEF NoEvent, Event, Status
<1>3. e \in Event /\ e.type = "manual" /\ e.purchase = 0
  BY <1>2 DEF Event, NoEvent
<1>4. EventOK(e)
  BY <1>3 DEF EventOK
<1>5. RowsKept
  BY <1>1 DEF RowsKept, BillingInv, BillingTypeOK, CustomerInv
<1> HIDE DEF e
<1> QED
  BY <1>1, <1>3, <1>4, <1>5, OneSent

----------------------------------------------------------------------------
(* The deliveries.                                                         *)

\* A delivery begins with an event nobody has and nobody applied.
LEMMA BeginEventKept ==
  ASSUME BillingInv, NEW h \in Handlers, NEW n \in DOMAIN events, BeginEvent(h, n)
  PROVE  BillingKept
<1>1. /\ UNCHANGED <<org, provider, sessions, events, claimed, balance, grants>>
      /\ handler' = [handler EXCEPT ![h] = [event |-> n, seen |-> org]]
      /\ n \notin claimed /\ (\A g \in Handlers : handler[g].event # 0 => handler[g].event # n)
  BY DEF BeginEvent, Unclaimed, InFlight
<1>2. /\ n \in 1..Len(events) /\ Len(events) \in Nat /\ org \in Row
      /\ handler \in [Handlers -> [event : 0..Len(events), seen : Row]]
      /\ handler' \in [Handlers -> [event : 0..Len(events), seen : Row]]
  BY <1>1 DEF BillingInv, BillingTypeOK
<1>3. \A g \in Handlers :
        \/ g = h /\ handler'[g].event = n /\ handler'[g].seen = org
        \/ g # h /\ handler'[g] = handler[g]
  BY <1>1, <1>2
<1>4. BillingTypeOK'
  BY <1>1, <1>2 DEF BillingInv, BillingTypeOK
<1>5. EventsInv' /\ GrantsInv'
  BY <1>1 DEF BillingInv, EventsInv, GrantsInv
<1>6. DeliveriesInv'
  <2>1. \A g \in Handlers : handler'[g].event \notin claimed
    BY <1>1, <1>3 DEF BillingInv, DeliveriesInv
  <2>2. \A f, g \in Handlers : handler'[f].event = handler'[g].event
                                 /\ handler'[f].event # 0 => f = g
    BY <1>1, <1>2, <1>3 DEF BillingInv, DeliveriesInv
  <2> QED
    BY <1>1, <2>1, <2>2 DEF DeliveriesInv
<1>7. CustomerInv'
  <2>1. \A g \in Handlers :
          handler'[g].event # 0 /\ events[handler'[g].event].type = "invoice"
            => handler'[g].seen.customer = TRUE
    BY <1>2, <1>3 DEF BillingInv, CustomerInv
  <2> QED
    BY <1>1, <2>1 DEF BillingInv, CustomerInv
<1> QED
  BY <1>1, <1>4, <1>5, <1>6, <1>7 DEF BillingKept, BillingInv, BillingTypeOK

\* No delivery is under way at an idle handler.
LEMMA IdleOK ==
  ASSUME BillingTypeOK
  PROVE  Idle \in [event : 0..Len(events), seen : Row] /\ Idle.event = 0
<1>1. NewRow \in Row
  BY DEF NewRow, Row, Status
<1>2. 0 \in 0..Len(events)
  BY DEF BillingTypeOK
<1> QED
  BY <1>1, <1>2 DEF Idle

\* A delivery given up leaves nothing behind.
LEMMA AbortEventKept ==
  ASSUME BillingInv, NEW h \in Handlers, AbortEvent(h)
  PROVE  BillingKept
<1>1. /\ UNCHANGED <<org, provider, sessions, events, claimed, balance, grants>>
      /\ handler' = [handler EXCEPT ![h] = Idle]
  BY DEF AbortEvent
<1>2. Idle \in [event : 0..Len(events), seen : Row] /\ Idle.event = 0
  BY IdleOK DEF BillingInv
<1>3. /\ handler \in [Handlers -> [event : 0..Len(events), seen : Row]]
      /\ handler' \in [Handlers -> [event : 0..Len(events), seen : Row]]
      /\ \A g \in Handlers : handler'[g].event = 0 \/ handler'[g] = handler[g]
      /\ 0 \notin claimed
  BY <1>1, <1>2 DEF BillingInv, BillingTypeOK
<1>4. BillingTypeOK'
  BY <1>1, <1>3 DEF BillingInv, BillingTypeOK
<1>5. EventsInv' /\ GrantsInv'
  BY <1>1 DEF BillingInv, EventsInv, GrantsInv
<1>6. DeliveriesInv' /\ CustomerInv'
  BY <1>1, <1>3 DEF BillingInv, DeliveriesInv, CustomerInv
<1> QED
  BY <1>1, <1>4, <1>5, <1>6 DEF BillingKept, BillingInv, BillingTypeOK

\* The row a delivery leaves is a row, and keeps the customer.
LEMMA EffectRow ==
  ASSUME NEW e \in Event, NEW row \in Row
  PROVE  /\ Effect(e, row) \in Row
         /\ Effect(e, row).customer \in {row.customer, TRUE}
<1>1. /\ e.sub \in Subs \cup {None} /\ e.plan \in Plans \cup {None}
      /\ e.status \in Status
  BY DEF Event
<1>2. "canceled" \in Status /\ "" \in Status
  BY DEF Status
<1> QED
  BY <1>1, <1>2 DEF Effect, Row

\* So does the row as flushed.
LEMMA FlushedRow ==
  ASSUME org \in Row, NEW seen \in Row, NEW new \in Row,
         new.customer \in {seen.customer, TRUE}
  PROVE  /\ Flushed(seen, new) \in Row
         /\ org.customer = TRUE => Flushed(seen, new).customer = TRUE
<1>1. /\ Column(org.plan, seen.plan, new.plan) \in Plans \cup {None}
      /\ Column(org.status, seen.status, new.status) \in Status
      /\ Column(org.sub, seen.sub, new.sub) \in Subs \cup {None}
      /\ Column(org.customer, seen.customer, new.customer) \in BOOLEAN
  BY DEF Row, Column
<1>2. org.customer = TRUE => Column(org.customer, seen.customer, new.customer) = TRUE
  BY DEF Column, Row
<1> QED
  BY <1>1, <1>2 DEF Flushed, Row

\* What an event grants, and when it grants something.
LEMMA GrantedCredits ==
  ASSUME NEW e \in Event, NEW row \in Row, EventOK(e)
  PROVE  /\ Granted(e, row) \in Nat
         /\ Granted(e, row) # 0 => Granting(e)
         /\ Generous /\ Granting(e)
              /\ (e.type = "invoice" => row.customer = TRUE) => Granted(e, row) # 0
<1>1. /\ e.plan \in Plans \cup {None} /\ e.purchase \in Nat /\ e.paid \in BOOLEAN
      /\ row.plan \in Plans \cup {None} /\ row.customer \in BOOLEAN
  BY PurchaseNat DEF Event, Row
<1>2. /\ AllowancePlan(e, row) \in Plans \cup {None}
      /\ e.type = "invoice" => AllowancePlan(e, row) # None
  BY <1>1 DEF AllowancePlan, EventOK
<1>3. \A q \in Plans : Included[q] \in Nat
  BY CreditAssumption
<1>4. Pack \in Nat /\ Pack # 0
  BY CreditAssumption
<1>5. CASE e.type = "invoice"
  <2>1. e.paid /\ AllowancePlan(e, row) \in Plans
    BY <1>2, <1>5 DEF EventOK
  <2>2. Granted(e, row) = IF e.purchase # 0 /\ row.customer
                          THEN Included[AllowancePlan(e, row)] ELSE 0
    BY <1>2, <1>5 DEF Granted
  <2> QED
    BY <1>1, <1>3, <1>5, <2>1, <2>2 DEF Granting, Generous
<1>6. CASE e.type = "checkout"
  <2>1. Granted(e, row) = IF e.paid THEN Pack ELSE 0
    BY <1>6 DEF Granted, Paid
  <2> QED
    BY <1>1, <1>4, <1>6, <2>1 DEF Granting, EventOK
<1>7. CASE e.type \notin {"invoice", "checkout"}
  <2>1. Granted(e, row) = 0
    BY <1>7 DEF Granted
  <2> QED
    BY <1>7, <2>1 DEF Granting, EventOK
<1> QED
  BY <1>5, <1>6, <1>7

\* A delivery commits: its event has granted its purchase, once.
LEMMA ApplyEventKept ==
  ASSUME BillingInv, NEW h \in Handlers, ApplyEvent(h)
  PROVE  BillingKept
<1> DEFINE n == handler[h].event
           e == events[n]
           seen == handler[h].seen
           credits == Granted(e, seen)
<1>0. /\ n # 0 /\ claimed' = claimed \cup {n}
      /\ org' = Flushed(seen, Effect(e, seen))
      /\ balance' = balance + credits
      /\ grants' = IF credits = 0 THEN grants
                   ELSE [grants EXCEPT ![e.purchase] = @ + 1]
      /\ handler' = [handler EXCEPT ![h] = Idle]
      /\ UNCHANGED <<provider, sessions, events>>
  BY DEF ApplyEvent
<1>1. /\ n \in 1..Len(events) /\ e \in Event /\ seen \in Row /\ org \in Row
      /\ Len(events) \in Nat /\ claimed \subseteq 1..Len(events) /\ balance \in Int
      /\ Len(events) <= MaxEvents /\ grants \in [1..MaxEvents -> Nat]
      /\ handler \in [Handlers -> [event : 0..Len(events), seen : Row]]
  BY <1>0 DEF BillingInv, BillingTypeOK
<1>2. n \notin claimed /\ EventOK(e) /\ e.purchase <= Len(events) /\ e.purchase \in Nat
  BY <1>1, PurchaseNat DEF BillingInv, DeliveriesInv, EventsInv
<1>3. e.type = "invoice" => seen.customer = TRUE
  BY <1>0 DEF BillingInv, CustomerInv
<1>4. /\ credits \in Nat /\ (credits # 0 => Granting(e))
      /\ (Generous /\ Granting(e) => credits # 0)
  BY <1>1, <1>2, <1>3, GrantedCredits
<1>5. org' \in Row /\ (org.customer = TRUE => org'.customer = TRUE)
  BY <1>0, <1>1, EffectRow, FlushedRow
<1> HIDE DEF n, e, seen, credits
<1>6. /\ handler' \in [Handlers -> [event : 0..Len(events), seen : Row]]
      /\ \A g \in Handlers :
           handler'[g].event = 0 \/ (handler'[g] = handler[g] /\ g # h)
      /\ 0 \notin claimed'
  BY <1>0, <1>1, IdleOK DEF BillingInv
<1>7. ASSUME credits # 0
      PROVE  /\ e.purchase \in 1..MaxEvents /\ grants[e.purchase] = 0
             /\ grants' = [grants EXCEPT ![e.purchase] = 1]
  <2>0. Granting(e)
    BY <1>4, <1>7
  <2>1. Granting(e) /\ e.purchase \in 1..MaxEvents
    BY <1>1, <1>2, <2>0, CreditAssumption DEF Granting
  <2>2. grants[e.purchase] # 1
    <3> SUFFICES ASSUME grants[e.purchase] = 1
                 PROVE  FALSE
      OBVIOUS
    <3>1. PICK m \in claimed : Granting(events[m]) /\ events[m].purchase = e.purchase
      BY <2>1 DEF BillingInv, GrantsInv
    <3>2. m = n
      BY <1>1, <2>1, <3>1 DEF BillingInv, EventsInv, e
    <3> QED
      BY <1>2, <3>1, <3>2
  <2>3. grants[e.purchase] = 0
    BY <2>1, <2>2 DEF BillingInv, GrantsInv
  <2>4. grants' = [grants EXCEPT ![e.purchase] = grants[e.purchase] + 1]
    BY <1>0, <1>7
  <2> QED
    BY <2>1, <2>3, <2>4
<1>8. /\ grants' \in [1..MaxEvents -> Nat]
      /\ \A p \in 1..MaxEvents : grants'[p] = grants[p]
           \/ (credits # 0 /\ p = e.purchase /\ grants'[p] = 1)
      /\ \A p \in 1..MaxEvents : grants[p] = 1 => grants'[p] = 1
      /\ credits # 0 => grants'[e.purchase] = 1
  BY <1>0, <1>1, <1>7
<1>9. BillingTypeOK'
  <2>1. claimed' \subseteq 1..Len(events) /\ balance' \in Int
    BY <1>0, <1>1, <1>4
  <2> QED
    BY <1>0, <1>5, <1>6, <1>8, <2>1 DEF BillingInv, BillingTypeOK
<1>10. EventsInv'
  BY <1>0 DEF BillingInv, EventsInv
<1>11. DeliveriesInv'
  <2>1. \A g \in Handlers : g # h => handler[g].event # n
    BY <1>0 DEF BillingInv, DeliveriesInv, n
  <2>2. \A g \in Handlers : handler'[g].event \notin claimed'
    BY <1>0, <1>6, <2>1 DEF BillingInv, DeliveriesInv
  <2> QED
    BY <1>6, <2>2 DEF BillingInv, DeliveriesInv
<1>12. CustomerInv'
  BY <1>0, <1>5, <1>6 DEF BillingInv, CustomerInv
<1>13. GrantsInv'
  <2>1. \A p \in 1..MaxEvents : grants'[p] \in {0, 1}
    BY <1>8 DEF BillingInv, GrantsInv
  <2>2. ASSUME NEW p \in 1..MaxEvents, grants'[p] = 1
        PROVE  \E m \in claimed' : Granting(events'[m]) /\ events'[m].purchase = p
    <3>1. CASE grants[p] = 1
      <4>1. PICK m \in claimed : Granting(events[m]) /\ events[m].purchase = p
        BY <3>1 DEF BillingInv, GrantsInv
      <4> QED
        BY <1>0, <4>1
    <3>2. CASE credits # 0 /\ p = e.purchase
      BY <1>0, <1>4, <3>2 DEF e
    <3> QED
      BY <1>8, <2>2, <3>1, <3>2
  <2>3. ASSUME Generous, NEW m \in claimed', Granting(events[m])
        PROVE  grants'[events[m].purchase] = 1
    <3>1. CASE m = n
      BY <1>4, <1>8, <2>3, <3>1 DEF e
    <3>2. CASE m \in claimed
      <4>1. grants[events[m].purchase] = 1
        BY <2>3, <3>2 DEF BillingInv, GrantsInv
      <4>2. events[m].purchase \in 1..MaxEvents
        <5>1. m \in 1..Len(events) /\ events[m] \in Event
          BY <1>1, <3>2 DEF BillingInv, BillingTypeOK
        <5> QED
          BY <2>3, <5>1, PurchaseNat DEF Granting
      <4> QED
        BY <1>8, <4>1, <4>2
    <3> QED
      BY <1>0, <2>3, <3>1, <3>2
  <2> QED
    BY <1>0, <2>1, <2>2, <2>3 DEF GrantsInv, Generous
<1> QED
  BY <1>0, <1>1, <1>4, <1>9, <1>10, <1>11, <1>12, <1>13 DEF BillingKept, BillingInv

----------------------------------------------------------------------------
(* The invariant.                                                          *)

\* Nothing has been sent, claimed or granted.
LEMMA BillingInitInv ==
  ASSUME BillingInit
  PROVE  BillingInv
<1>1. org \in Row /\ sessions = 0 /\ events = << >> /\ claimed = {} /\ balance \in Int
      /\ grants = [n \in 1..MaxEvents |-> 0]
      /\ handler = [h \in Handlers |-> Idle]
  <2>1. NewRow \in Row
    BY DEF NewRow, Row, Status
  <2> QED
    BY <2>1, CreditAssumption DEF BillingInit
<1>2. provider \in [Subs -> Subscription] /\ \A s \in Subs : provider[s].state = "unused"
  BY DEF BillingInit, Subscription, Reported
<1>3. events \in Seq(Event) /\ Len(events) = 0 /\ 1..Len(events) = {}
  BY <1>1
<1>4. Idle \in [event : 0..Len(events), seen : Row] /\ Idle.event = 0
  <2>1. NewRow \in Row
    BY DEF NewRow, Row, Status
  <2> QED
    BY <1>3, <2>1 DEF Idle
<1>5. BillingTypeOK
  <2>1. 0 \in 0..Cardinality(Subs)
    BY SubsFinite
  <2> QED
    BY <1>1, <1>2, <1>3, <1>4, <2>1, CreditAssumption DEF BillingTypeOK
<1>6. EventsInv
  BY <1>3 DEF EventsInv
<1>7. DeliveriesInv /\ CustomerInv
  BY <1>1, <1>2, <1>3, <1>4 DEF DeliveriesInv, CustomerInv
<1>8. GrantsInv
  BY <1>1 DEF GrantsInv
<1> QED
  BY <1>5, <1>6, <1>7, <1>8 DEF BillingInv

\* Every step of the provider, the customer, the operator and the webhook.
LEMMA BillingNextKept ==
  ASSUME BillingInv, BillingNext
  PROVE  BillingKept
<1>1. CASE StartCheckout
  BY <1>1, StartCheckoutKept
<1>2. CASE \E s \in Subs, plan \in Plans, status \in {"active", "incomplete"} :
             CompleteCheckout(s, plan, status)
  BY <1>2, CompleteCheckoutKept
<1>3. CASE \E s \in Subs, plan \in Plans, status \in Reported :
             SubscriptionMoves(s, plan, status)
  BY <1>3, SubscriptionMovesKept
<1>4. CASE \E s \in Subs, period \in BOOLEAN : InvoicePaid(s, period)
  BY <1>4, InvoicePaidKept
<1>5. CASE \E s \in Subs : SubscriptionEnds(s)
  BY <1>5, SubscriptionEndsKept
<1>6. CASE \E settled \in BOOLEAN : BuyPack(settled)
  BY <1>6, BuyPackKept
<1>7. CASE \E plan \in Plans \cup {None} : AskManualPlan(plan)
  BY <1>7, AskManualPlanKept
<1>8. CASE \E h \in Handlers, n \in DOMAIN events : BeginEvent(h, n)
  BY <1>8, BeginEventKept
<1>9. CASE \E h \in Handlers : ApplyEvent(h) \/ AbortEvent(h)
  BY <1>9, ApplyEventKept, AbortEventKept
<1> QED
  BY <1>1, <1>2, <1>3, <1>4, <1>5, <1>6, <1>7, <1>8, <1>9 DEF BillingNext

\* The invariant says a purchase is granted once and, in the end, granted.
LEMMA GrantedOnce ==
  ASSUME BillingInv
  PROVE  PurchaseIsGrantedOnce
<1> SUFFICES ASSUME NEW p \in 1..Len(events)
             PROVE  LET about == {n \in 1..Len(events) : events[n].purchase = p}
                    IN /\ grants[p] <= 1
                       /\ about # {} /\ about \subseteq claimed
                            /\ (\A q \in Plans : Included[q] > 0) => grants[p] = 1
  BY DEF PurchaseIsGrantedOnce
<1> DEFINE about == {n \in 1..Len(events) : events[n].purchase = p}
<1>1. p \in 1..MaxEvents /\ p # 0
  BY CreditAssumption DEF BillingInv, BillingTypeOK
<1>2. grants[p] <= 1
  BY <1>1 DEF BillingInv, GrantsInv
<1>3. ASSUME about # {}, about \subseteq claimed, Generous
      PROVE  grants[p] = 1
  <2>1. PICK n \in 1..Len(events) : events[n].purchase = p
    BY <1>3
  <2>2. PICK m \in 1..Len(events) :
          Granting(events[m]) /\ events[m].purchase = events[n].purchase
    BY <1>1, <2>1 DEF BillingInv, EventsInv
  <2>3. m \in claimed
    BY <1>3, <2>1, <2>2
  <2> QED
    BY <1>3, <2>1, <2>2, <2>3 DEF BillingInv, GrantsInv
<1> QED
  BY <1>2, <1>3 DEF Generous

\* The webhook by itself: however deliveries race, repeat and fail, the state
\* keeps its types and a purchase is granted once.
THEOREM WebhookGrantsOnce == BillingSpec => [](BillingTypeOK /\ PurchaseIsGrantedOnce)
<1>1. BillingInit => BillingInv
  BY BillingInitInv
<1>2. BillingInv /\ [BillingNext]_billingVars => BillingInv'
  <2>1. ASSUME BillingInv, BillingNext
        PROVE  BillingInv'
    BY <2>1, BillingNextKept DEF BillingKept
  <2>2. ASSUME BillingInv, UNCHANGED billingVars
        PROVE  BillingInv'
    BY <2>2 DEF billingVars, BillingInv, BillingTypeOK, EventsInv, DeliveriesInv,
                CustomerInv, GrantsInv
  <2> QED
    BY <2>1, <2>2
<1>3. BillingInv => BillingTypeOK /\ PurchaseIsGrantedOnce
  BY GrantedOnce DEF BillingInv
<1> QED
  BY <1>1, <1>2, <1>3, PTL DEF BillingSpec

----------------------------------------------------------------------------
(* The ledger.                                                             *)

\* A run under charge is active, a charged one has ended, and only a charged
\* one has an overage.
StageInv ==
  /\ \A j \in Job : charge[j].at # "none" => run[j] = "active"
  /\ \A j \in charged : run[j] = "ended"
  /\ \A j \in Job \ charged : overage[j] = 0

FundsInv ==
  /\ balance + unbilled >= 0
  /\ \A j \in Job : charge[j].at = "locked" =>
       charge[j].funds <= balance + unbilled
  /\ \A i, j \in Job :
       charge[i].at = "locked" /\ charge[j].at = "locked" => i = j

AtGate(a) == admission[a].at \in {"counted", "funded"}

GateInv ==
  /\ balance + excess >= PerJob * Cardinality(gated)
  /\ \A a \in Approver : admission[a].at = "counted" =>
       admission[a].running >= Cardinality(gated)
  /\ \A a \in Approver : admission[a].at = "funded" =>
       balance + excess >= PerJob * Cardinality(gated) + PerJob
  /\ \A a, b \in Approver : AtGate(a) /\ AtGate(b) => a = b

MeterInv ==
  /\ \A s \in Sweeper : \A j \in sweep[s].todo : overage[j] > 0
  /\ \A s \in Sweeper : sweep[s].reported \subseteq accepted
  /\ stamped \subseteq accepted
  /\ \A j \in accepted : overage[j] > 0
  /\ \A j \in Job : meter[j] = IF j \in accepted THEN overage[j] ELSE 0

CreditInv ==
  CreditTypeOK /\ BillingInv /\ StageInv /\ FundsInv /\ GateInv /\ MeterInv

\* What is due to the provider's meter, in the account's terms.
Due == [j \in Job |-> IF j \in accepted THEN 0 ELSE overage[j]]

AccountSame == UNCHANGED <<balance, charged, meter>> /\ Due' = Due

\* The invariant is kept, and the account makes a step of its own or none.
CreditKept == CreditInv' /\ (Account!AccountNext \/ AccountSame)

----------------------------------------------------------------------------
(* The parts of the state that do not meet.                                *)

\* The webhook's part of the invariant reads only the webhook's state.
LEMMA BillingStays ==
  ASSUME BillingInv, UNCHANGED billingVars
  PROVE  BillingInv'
BY DEF billingVars, BillingInv, BillingTypeOK, EventsInv, DeliveriesInv,
       CustomerInv, GrantsInv

\* A charge moves the balance alone.
LEMMA BillingBalance ==
  ASSUME BillingInv, balance' \in Int,
         UNCHANGED <<org, provider, sessions, events, claimed, handler, grants>>
  PROVE  BillingInv'
BY DEF BillingInv, BillingTypeOK, EventsInv, DeliveriesInv, CustomerInv, GrantsInv

\* The credits held back are those of finitely many runs.
LEMMA GatedFinite ==
  ASSUME NEW G \in SUBSET Job
  PROVE  /\ IsFiniteSet(G) /\ Cardinality(G) \in Nat
         /\ \A j \in Job : j \in G => Cardinality(G \ {j}) = Cardinality(G) - 1
         /\ \A j \in Job : j \notin G => Cardinality(G \cup {j}) = Cardinality(G) + 1
         /\ \A j \in Job : j \notin G => G \ {j} = G
<1>1. IsFiniteSet(G) /\ Cardinality(G) \in Nat
  BY PriceAssumption, FS_Subset, FS_CardinalityType
<1>2. \A j \in Job : j \in G => Cardinality(G \ {j}) = Cardinality(G) - 1
  BY <1>1, FS_RemoveElement
<1>3. \A j \in Job : j \notin G => Cardinality(G \cup {j}) = Cardinality(G) + 1
  BY <1>1, FS_AddElement
<1> QED
  BY <1>1, <1>2, <1>3

\* Holding back for more runs takes more credits.
LEMMA HoldMore ==
  ASSUME NEW a \in Nat, NEW b \in Nat, a <= b
  PROVE  /\ PerJob * a \in Nat /\ PerJob * b \in Nat /\ PerJob * a <= PerJob * b
         /\ PerJob * (a + 1) = PerJob * a + PerJob
         /\ PerJob * (a - 1) = PerJob * a - PerJob
         /\ b * PerJob = PerJob * b
<1>1. PerJob \in Nat
  BY PriceAssumption
<1>2. PerJob * (b - a) \in Nat
  BY <1>1
<1>3. PerJob * b = PerJob * a + PerJob * (b - a)
  BY <1>1
<1> QED
  BY <1>1, <1>2, <1>3

\* A sweep's step touches nothing the charges or the gate read.
LEMMA SweepStays ==
  ASSUME CreditInv, UNCHANGED <<billingVars, runVars, chargeVars>>
  PROVE  BillingInv' /\ StageInv' /\ FundsInv' /\ GateInv'
<1>1. BillingInv'
  BY BillingStays DEF CreditInv
<1>2. balance' = balance
  BY DEF billingVars
<1> QED
  BY <1>1, <1>2
     DEF runVars, chargeVars, CreditInv, StageInv, FundsInv, GateInv, AtGate

----------------------------------------------------------------------------
(* The gate.                                                               *)

\* An approval's step that only moves the approval.
LEMMA ApprovalStays ==
  ASSUME CreditInv, UNCHANGED <<billingVars, run, gated, chargeVars, sweepVars>>,
         admission' \in [Approver -> [at : Step, running : Nat]], GateInv'
  PROVE  CreditKept
<1>1. BillingInv' /\ balance' = balance
  BY BillingStays DEF CreditInv, billingVars
<1>2. StageInv' /\ FundsInv' /\ MeterInv'
  BY <1>1 DEF chargeVars, sweepVars, CreditInv, StageInv, FundsInv, MeterInv
<1>3. CreditTypeOK'
  BY <1>1 DEF chargeVars, sweepVars, CreditInv, CreditTypeOK, BillingInv, Active
<1>4. AccountSame
  BY <1>1 DEF AccountSame, Due, chargeVars, sweepVars
<1> QED
  BY <1>1, <1>2, <1>3, <1>4 DEF CreditKept, CreditInv

\* Steps that leave the gate, or stay away from it.
LEMMA LeavesGate ==
  ASSUME CreditInv, NEW a \in Approver,
         UNCHANGED <<billingVars, run, gated, chargeVars, sweepVars>>,
         NEW r \in [at : Step, running : Nat], r.at \notin {"counted", "funded"},
         admission' = [admission EXCEPT ![a] = r]
  PROVE  CreditKept
<1>1. /\ admission \in [Approver -> [at : Step, running : Nat]]
      /\ admission' \in [Approver -> [at : Step, running : Nat]]
      /\ \A b \in Approver : ~AtGate(b)' \/ admission'[b] = admission[b]
  BY DEF CreditInv, CreditTypeOK, AtGate
<1>2. UNCHANGED <<balance, excess, gated>>
  BY DEF billingVars, chargeVars
<1>3. GateInv'
  BY <1>1, <1>2 DEF CreditInv, GateInv, AtGate
<1> QED
  BY <1>1, <1>3, ApprovalStays

\* The plan is read.
LEMMA ReadPlanKept ==
  ASSUME CreditInv, NEW a \in Approver, ReadPlan(a)
  PROVE  CreditKept
<1> DEFINE r == [admission[a] EXCEPT !.at =
                   IF PayingPlan(org) = None THEN "gate" ELSE "paying"]
<1>1. r \in [at : Step, running : Nat] /\ r.at \notin {"counted", "funded"}
  BY DEF CreditInv, CreditTypeOK, Step
<1>2. admission' = [admission EXCEPT ![a] = r]
  BY DEF ReadPlan, At
<1> HIDE DEF r
<1> QED
  BY <1>1, <1>2, LeavesGate DEF ReadPlan

\* An approval that is refused.
LEMMA ApprovalRefusedKept ==
  ASSUME CreditInv, NEW a \in Approver, ApprovalRefused(a)
  PROVE  CreditKept
<1>1. [at |-> "idle", running |-> 0] \in [at : Step, running : Nat]
  BY DEF Step
<1> QED
  BY <1>1, LeavesGate DEF ApprovalRefused

\* The runs in progress are counted under the lock.
LEMMA CountRunningKept ==
  ASSUME CreditInv, NEW a \in Approver, CountRunning(a)
  PROVE  CreditKept
<1>1. /\ gated \subseteq Active /\ Active \subseteq Job
      /\ UNCHANGED <<billingVars, run, gated, chargeVars, sweepVars>>
  BY DEF CreditInv, CreditTypeOK, Active, CountRunning
<1>2. Cardinality(Active) \in Nat /\ Cardinality(gated) <= Cardinality(Active)
  BY <1>1, GatedFinite, FS_Subset
<1>3. /\ admission \in [Approver -> [at : Step, running : Nat]]
      /\ admission' \in [Approver -> [at : Step, running : Nat]]
      /\ admission'[a] = [at |-> "counted", running |-> Cardinality(Active)]
      /\ \A b \in Approver : b # a => admission'[b] = admission[b] /\ ~AtGate(b)
  BY <1>2 DEF CreditInv, CreditTypeOK, CountRunning, GateFree, AtGate, Step
<1>4. UNCHANGED <<balance, excess, gated>>
  BY <1>1 DEF billingVars, chargeVars
<1>5. GateInv'
  BY <1>2, <1>3, <1>4 DEF CreditInv, GateInv, AtGate
<1> QED
  BY <1>1, <1>3, <1>5, ApprovalStays

\* The balance is read: it covers the runs held back for and one more.
LEMMA ReadBalanceKept ==
  ASSUME CreditInv, NEW a \in Approver, ReadBalance(a)
  PROVE  CreditKept
<1>1. UNCHANGED <<billingVars, run, gated, chargeVars, sweepVars>>
  BY DEF ReadBalance
<1>2. CASE ~Covered(admission[a].running)
  <2>1. [at |-> "idle", running |-> 0] \in [at : Step, running : Nat]
    BY DEF Step
  <2>2. admission' = [admission EXCEPT ![a] = [at |-> "idle", running |-> 0]]
    BY <1>2 DEF ReadBalance
  <2> QED
    BY <1>1, <2>1, <2>2, LeavesGate
<1>3. CASE Covered(admission[a].running)
  <2>1. /\ admission \in [Approver -> [at : Step, running : Nat]]
        /\ admission' = [admission EXCEPT ![a] = [at |-> "funded", running |-> 0]]
        /\ admission[a].at = "counted" /\ admission[a].running \in Nat
        /\ gated \in SUBSET Job /\ balance \in Int /\ excess \in Nat
    BY <1>3 DEF CreditInv, CreditTypeOK, BillingTypeOK, ReadBalance, Active
  <2>2. AtGate(a) /\ \A b \in Approver : b # a => ~AtGate(b)
    BY <2>1 DEF CreditInv, GateInv, AtGate
  <2>3. /\ admission' \in [Approver -> [at : Step, running : Nat]]
        /\ admission'[a].at = "funded"
        /\ \A b \in Approver : b # a => admission'[b] = admission[b]
    BY <2>1 DEF Step
  <2>4. balance + excess >= PerJob * Cardinality(gated) + PerJob
    <3> DEFINE c == Cardinality(gated)
               n == admission[a].running
    <3>1. c \in Nat /\ n \in Nat /\ c <= n
      BY <2>1, GatedFinite DEF CreditInv, GateInv
    <3> HIDE DEF c, n
    <3>2. PerJob * c \in Nat /\ PerJob * n \in Nat /\ PerJob * c <= PerJob * n
          /\ n * PerJob = PerJob * n
      BY <3>1, HoldMore
    <3>3. balance - n * PerJob >= PerJob
      BY <1>3 DEF Covered, n
    <3>4. PerJob \in Nat
      BY PriceAssumption
    <3> QED
      BY <2>1, <3>2, <3>3, <3>4 DEF c
  <2>5. UNCHANGED <<balance, excess, gated>>
    BY <1>1 DEF billingVars, chargeVars
  <2>6. GateInv'
    BY <2>2, <2>3, <2>4, <2>5 DEF CreditInv, GateInv, AtGate
  <2> QED
    BY <1>1, <2>3, <2>6, ApprovalStays
<1> QED
  BY <1>2, <1>3

\* The run the gate let in is held back for.
LEMMA CreateJobKept ==
  ASSUME CreditInv, NEW a \in Approver, NEW j \in Job, CreateJob(a, j)
  PROVE  CreditKept
<1>0. /\ admission[a].at \in {"paying", "funded"} /\ run[j] = "new"
      /\ run' = [run EXCEPT ![j] = "active"]
      /\ gated' = IF admission[a].at = "funded" THEN gated \cup {j} ELSE gated
      /\ admission' = [admission EXCEPT ![a].at = "idle"]
      /\ UNCHANGED <<billingVars, chargeVars, sweepVars>>
  BY DEF CreateJob, At
<1>1. /\ admission \in [Approver -> [at : Step, running : Nat]]
      /\ run \in [Job -> {"new", "active", "parked", "ended"}]
      /\ gated \subseteq Active /\ balance \in Int /\ excess \in Nat
      /\ charged \subseteq Job
  BY DEF CreditInv, CreditTypeOK, BillingTypeOK
<1>2. /\ admission' \in [Approver -> [at : Step, running : Nat]]
      /\ admission'[a].at = "idle"
      /\ \A b \in Approver : b # a => admission'[b] = admission[b]
  BY <1>0, <1>1 DEF Step
<1>3. /\ run' \in [Job -> {"new", "active", "parked", "ended"}]
      /\ run'[j] = "active" /\ \A k \in Job : k # j => run'[k] = run[k]
  BY <1>0, <1>1
<1>4. BillingInv' /\ balance' = balance
  BY <1>0, BillingStays DEF CreditInv, billingVars
<1>5. gated' \subseteq Active'
  BY <1>0, <1>1, <1>3 DEF Active
<1>6. UNCHANGED <<charge, charged, overage, ledger, unbilled, excess, stamped,
                  sweep, accepted, meter>>
  BY <1>0 DEF chargeVars, sweepVars
<1>7. CreditTypeOK'
  BY <1>2, <1>3, <1>4, <1>5, <1>6 DEF CreditInv, CreditTypeOK, BillingInv
<1>8. StageInv'
  BY <1>0, <1>1, <1>3, <1>6 DEF CreditInv, StageInv
<1>9. FundsInv' /\ MeterInv'
  BY <1>4, <1>6 DEF CreditInv, FundsInv, MeterInv
<1>10. GateInv'
  <2>1. \A b \in Approver : AtGate(b)' => AtGate(b) /\ b # a /\ admission'[b] = admission[b]
    BY <1>2 DEF AtGate
  <2>2. CASE admission[a].at = "funded"
    <3>1. \A b \in Approver : ~AtGate(b)'
      BY <2>1, <2>2 DEF CreditInv, GateInv, AtGate
    <3>2. gated \in SUBSET Job /\ j \notin gated
      BY <1>0, <1>1 DEF Active
    <3>3. Cardinality(gated') = Cardinality(gated) + 1 /\ Cardinality(gated) \in Nat
      BY <1>0, <2>2, <3>2, GatedFinite
    <3>4. PerJob * Cardinality(gated') = PerJob * Cardinality(gated) + PerJob
      BY <3>3, HoldMore
    <3>5. balance + excess >= PerJob * Cardinality(gated')
      BY <2>2, <3>4 DEF CreditInv, GateInv
    <3> QED
      BY <1>4, <1>6, <3>1, <3>5 DEF GateInv, AtGate
  <2>3. CASE admission[a].at # "funded"
    <3>1. gated' = gated
      BY <1>0, <2>3
    <3> QED
      BY <1>4, <1>6, <2>1, <3>1 DEF CreditInv, GateInv, AtGate
  <2> QED
    BY <2>2, <2>3
<1>11. AccountSame
  BY <1>4, <1>6 DEF AccountSame, Due
<1> QED
  BY <1>4, <1>7, <1>8, <1>9, <1>10, <1>11 DEF CreditKept, CreditInv

----------------------------------------------------------------------------
(* The run, and its charge.                                                *)

\* If no more leaves than was held back, what was left over is still there.
LEMMA LeftOver ==
  ASSUME NEW before \in Int, NEW after \in Int, NEW x \in Int, NEW held \in Int,
         NEW more \in Int, after >= before - held, before >= x + more
  PROVE  after >= (x - held) + more
OBVIOUS

\* What is held back for a run is given up with it: the gate's part stays
\* if no more leaves the balance than was held back.
LEMMA HeldBackGivenUp ==
  ASSUME CreditInv, NEW j \in Job, gated' = gated \ {j},
         UNCHANGED admission, balance' \in Int, excess' \in Int,
         balance' + excess' >= (balance + excess) - (IF j \in gated THEN PerJob ELSE 0)
  PROVE  GateInv'
<1> DEFINE c == Cardinality(gated)
           held == IF j \in gated THEN PerJob ELSE 0
<1>1. gated \in SUBSET Job /\ balance \in Int /\ excess \in Nat
  BY DEF CreditInv, CreditTypeOK, BillingTypeOK, Active
<1>2. /\ c \in Nat /\ Cardinality(gated') \in Nat /\ Cardinality(gated') <= c
      /\ Cardinality(gated') = IF j \in gated THEN c - 1 ELSE c
  BY <1>1, GatedFinite
<1>3. PerJob * Cardinality(gated') = PerJob * c - held
      /\ PerJob * c \in Nat /\ held \in Nat
  BY <1>2, HoldMore, PriceAssumption
<1> HIDE DEF held
<1>4. balance' + excess' >= (balance + excess) - held
  BY DEF held
<1>5. balance' + excess' >= PerJob * Cardinality(gated')
  BY <1>1, <1>3, <1>4 DEF CreditInv, GateInv
<1>6. ASSUME NEW a \in Approver, admission[a].at = "counted"
      PROVE  admission[a].running >= Cardinality(gated')
  <2>1. admission[a].running \in Nat /\ admission[a].running >= c
    BY <1>6 DEF CreditInv, CreditTypeOK, GateInv
  <2> QED
    BY <1>2, <2>1
<1>7. ASSUME NEW a \in Approver, admission[a].at = "funded"
      PROVE  balance' + excess' >= PerJob * Cardinality(gated') + PerJob
  <2>1. balance + excess >= PerJob * c + PerJob /\ PerJob \in Nat
    BY <1>7, PriceAssumption DEF CreditInv, GateInv
  <2> DEFINE x == PerJob * c
             y == PerJob * Cardinality(gated')
             before == balance + excess
             after == balance' + excess'
  <2>2. y = x - held /\ x \in Int /\ held \in Int /\ PerJob \in Int
    BY <1>3, <2>1
  <2>3. before >= x + PerJob
    BY <2>1
  <2>4. after >= before - held
    BY <1>4
  <2>5. before \in Int /\ after \in Int
    BY <1>1
  <2> HIDE DEF x, y, before, after
  <2>6. after >= (x - held) + PerJob
    BY <2>2, <2>3, <2>4, <2>5, LeftOver
  <2>7. after >= y + PerJob
    BY <2>2, <2>6
  <2> QED
    BY <2>7 DEF y, after
<1> QED
  BY <1>5, <1>6, <1>7 DEF CreditInv, GateInv, AtGate

\* A run moves on uncharged: it ends, parks, or its charge is dropped.
LEMMA RunMoves ==
  ASSUME CreditInv, NEW j \in Job, NEW to \in {"active", "parked", "ended"},
         NEW c \in [at : Ending, funds : Int],
         run' = [run EXCEPT ![j] = to], gated' = gated \ {j},
         charge' = [charge EXCEPT ![j] = c], c.at = "none" \/ c = charge[j],
         run[j] \in {"active", "parked"}, c.at # "none" => to = "active",
         UNCHANGED <<billingVars, admission, charged, overage, ledger, unbilled,
                     excess, sweepVars>>
  PROVE  CreditKept
<1>1. /\ run \in [Job -> {"new", "active", "parked", "ended"}]
      /\ gated \subseteq Active /\ charge \in [Job -> [at : Ending, funds : Int]]
      /\ balance \in Int /\ excess \in Nat /\ charged \subseteq Job
  BY DEF CreditInv, CreditTypeOK, BillingTypeOK
<1>2. BillingInv' /\ balance' = balance
  BY BillingStays DEF CreditInv, billingVars
<1>3. /\ run' \in [Job -> {"new", "active", "parked", "ended"}] /\ run'[j] = to
      /\ \A k \in Job : k # j => run'[k] = run[k]
      /\ charge' \in [Job -> [at : Ending, funds : Int]] /\ charge'[j] = c
      /\ \A k \in Job : charge'[k].at = "none" \/ charge'[k] = charge[k]
      /\ \A k \in Job : k # j => charge'[k] = charge[k]
  BY <1>1
<1>4. gated' \subseteq Active'
  BY <1>1, <1>3 DEF Active
<1>5. UNCHANGED <<stamped, sweep, accepted, meter>>
  BY DEF sweepVars
<1>6. CreditTypeOK'
  BY <1>2, <1>3, <1>4, <1>5 DEF CreditInv, CreditTypeOK, BillingInv
<1>7. StageInv'
  <2>1. j \notin charged
    BY DEF CreditInv, StageInv
  <2> QED
    BY <1>1, <1>3, <2>1 DEF CreditInv, StageInv
<1>8. FundsInv' /\ MeterInv'
  BY <1>2, <1>3, <1>5 DEF CreditInv, FundsInv, MeterInv
<1>9. GateInv'
  <2>1. PerJob \in Nat
    BY PriceAssumption
  <2> QED
    BY <1>1, <1>2, <2>1, HeldBackGivenUp
<1>10. AccountSame
  BY <1>2, <1>5 DEF AccountSame, Due
<1> QED
  BY <1>2, <1>6, <1>7, <1>8, <1>9, <1>10 DEF CreditKept, CreditInv

\* A run that ends, or parks, without a charge.
LEMMA EndsOrParksKept ==
  ASSUME CreditInv, NEW j \in Job, EndUncharged(j) \/ Park(j)
  PROVE  CreditKept
<1>1. /\ charge[j] \in [at : Ending, funds : Int] /\ charge[j].at = "none"
      /\ charge' = [charge EXCEPT ![j] = charge[j]]
      /\ run[j] \in {"active", "parked"} /\ gated' = gated \ {j}
      /\ UNCHANGED <<billingVars, admission, charged, overage, ledger, unbilled,
                     excess, sweepVars>>
  BY DEF CreditInv, CreditTypeOK, EndUncharged, Park, Unsettled, chargeVars
<1>2. run' = [run EXCEPT ![j] = "ended"] \/ run' = [run EXCEPT ![j] = "parked"]
  BY DEF EndUncharged, Park
<1> QED
  BY <1>1, <1>2, RunMoves

\* A parked run goes on, without a second admission.
LEMMA RerunKept ==
  ASSUME CreditInv, NEW j \in Job, Rerun(j)
  PROVE  CreditKept
<1>1. /\ charge[j] \in [at : Ending, funds : Int]
      /\ charge' = [charge EXCEPT ![j] = charge[j]]
      /\ run[j] = "parked" /\ run' = [run EXCEPT ![j] = "active"] /\ gated' = gated
      /\ UNCHANGED <<billingVars, admission, charged, overage, ledger, unbilled,
                     excess, sweepVars>>
  BY DEF CreditInv, CreditTypeOK, Rerun, chargeVars
<1>2. j \notin gated
  BY <1>1 DEF CreditInv, CreditTypeOK, Active
<1>3. gated' = gated \ {j}
  BY <1>1, <1>2
<1> QED
  BY <1>1, <1>3, RunMoves

\* A charge given up, with the run ended or still going.
LEMMA ChargeGivenUpKept ==
  ASSUME CreditInv, NEW j \in Job, ChargeFailsOpen(j)
  PROVE  CreditKept
<1>1. run[j] = "active"
  BY DEF CreditInv, StageInv, ChargeFailsOpen, Unsettled
<1>2. [at |-> "none", funds |-> 0] \in [at : Ending, funds : Int]
  BY DEF Ending
<1> QED
  BY <1>1, <1>2, RunMoves DEF ChargeFailsOpen

\* A charge moves on and the run stays: it is begun, locked or lost.
LEMMA ChargeMoves ==
  ASSUME CreditInv, NEW j \in Job, NEW c \in [at : Ending, funds : Int],
         charge' = [charge EXCEPT ![j] = c], run[j] = "active",
         c.at = "locked" => c.funds = balance /\ LedgerFree,
         UNCHANGED <<billingVars, runVars, charged, overage, ledger, unbilled,
                     excess, sweepVars>>
  PROVE  CreditKept
<1>1. charge \in [Job -> [at : Ending, funds : Int]] /\ balance \in Int /\ unbilled \in Nat
  BY DEF CreditInv, CreditTypeOK, BillingTypeOK
<1>2. BillingInv' /\ balance' = balance
  BY BillingStays DEF CreditInv, billingVars
<1>3. /\ charge' \in [Job -> [at : Ending, funds : Int]] /\ charge'[j] = c
      /\ \A k \in Job : k # j => charge'[k] = charge[k]
  BY <1>1
<1>4. UNCHANGED <<run, gated, admission, stamped, sweep, accepted, meter>>
  BY DEF runVars, sweepVars
<1>5. CreditTypeOK'
  BY <1>2, <1>3, <1>4 DEF CreditInv, CreditTypeOK, BillingInv, Active
<1>6. StageInv' /\ GateInv' /\ MeterInv'
  BY <1>2, <1>3, <1>4 DEF CreditInv, StageInv, GateInv, MeterInv, AtGate
<1>7. FundsInv'
  <2>1. ASSUME NEW k \in Job, charge'[k].at = "locked"
        PROVE  charge'[k].funds <= balance + unbilled
    <3>1. CASE k = j
      BY <1>1, <1>3, <2>1, <3>1
    <3>2. CASE k # j
      BY <1>3, <2>1, <3>2 DEF CreditInv, FundsInv
    <3> QED
      BY <3>1, <3>2
  <2>2. ASSUME NEW i \in Job, NEW k \in Job,
               charge'[i].at = "locked", charge'[k].at = "locked"
        PROVE  i = k
    BY <1>3, <2>2 DEF CreditInv, FundsInv, LedgerFree
  <2> QED
    BY <1>2, <2>1, <2>2 DEF CreditInv, FundsInv
<1>8. AccountSame
  BY <1>2, <1>4 DEF AccountSame, Due
<1> QED
  BY <1>2, <1>5, <1>6, <1>7, <1>8 DEF CreditKept, CreditInv

\* The charge reads the plan, takes the lock, or is lost with its process.
LEMMA ChargeMovesKept ==
  ASSUME CreditInv, NEW j \in Job,
         ChargeReadsPlan(j) \/ ChargeLocks(j) \/ EndingLost(j)
  PROVE  CreditKept
<1>t. charge[j] \in [at : Ending, funds : Int] /\ balance \in Int
  BY DEF CreditInv, CreditTypeOK, BillingTypeOK
<1>1. CASE ChargeReadsPlan(j)
  <2> DEFINE c == [charge[j] EXCEPT !.at = IF Billable(org) THEN "billed" ELSE "free"]
  <2>1. c \in [at : Ending, funds : Int] /\ c.at # "locked"
    BY <1>t DEF Ending
  <2>2. charge' = [charge EXCEPT ![j] = c] /\ run[j] = "active"
        /\ UNCHANGED <<billingVars, runVars, charged, overage, ledger, unbilled,
                       excess, sweepVars>>
    BY <1>1 DEF ChargeReadsPlan
  <2> HIDE DEF c
  <2> QED
    BY <2>1, <2>2, ChargeMoves
<1>2. CASE ChargeLocks(j)
  <2> DEFINE c == [at |-> "locked", funds |-> balance]
  <2>1. c \in [at : Ending, funds : Int] /\ c.funds = balance
    BY <1>t DEF Ending
  <2>2. charge' = [charge EXCEPT ![j] = c] /\ run[j] = "active" /\ LedgerFree
        /\ UNCHANGED <<billingVars, runVars, charged, overage, ledger, unbilled,
                       excess, sweepVars>>
    BY <1>2 DEF ChargeLocks, CreditInv, StageInv
  <2> HIDE DEF c
  <2> QED
    BY <2>1, <2>2, ChargeMoves
<1>3. CASE EndingLost(j)
  <2> DEFINE c == [at |-> "none", funds |-> 0]
  <2>1. c \in [at : Ending, funds : Int] /\ c.at # "locked"
    BY DEF Ending
  <2>2. charge' = [charge EXCEPT ![j] = c] /\ run[j] = "active"
        /\ UNCHANGED <<billingVars, runVars, charged, overage, ledger, unbilled,
                       excess, sweepVars>>
    BY <1>3 DEF EndingLost, Unsettled, CreditInv, StageInv
  <2> HIDE DEF c
  <2> QED
    BY <2>1, <2>2, ChargeMoves
<1> QED
  BY <1>1, <1>2, <1>3

\* What is billed, and what is taken from the credits, add up to the price;
\* a charge under the lock takes no more than it read.
LEMMA ChargeSplits ==
  ASSUME CreditInv, NEW j \in Job
  PROVE  /\ OverageOf(j) \in 0..Price[j] /\ Spent(j) \in Nat
         /\ Spent(j) = Price[j] - OverageOf(j) /\ Price[j] \in Nat
         /\ charge[j].at = "locked" =>
              Spent(j) = 0 \/ Spent(j) <= charge[j].funds
<1>1. Price[j] \in Nat /\ charge[j].funds \in Int
  BY PriceAssumption DEF CreditInv, CreditTypeOK
<1> QED
  BY <1>1 DEF OverageOf, Spent, Positive, Least

\* The debit commits with the run's end: the account's charge.
LEMMA ChargeCommitsKept ==
  ASSUME CreditInv, NEW j \in Job, ChargeCommits(j)
  PROVE  CreditKept
<1> DEFINE over == OverageOf(j)
           spent == Spent(j)
           reserved == IF j \in gated THEN PerJob ELSE 0
<1>0. /\ charge[j].at \in {"free", "locked"}
      /\ run' = [run EXCEPT ![j] = "ended"] /\ gated' = gated \ {j}
      /\ charge' = [charge EXCEPT ![j] = [at |-> "none", funds |-> 0]]
      /\ charged' = charged \cup {j} /\ overage' = [overage EXCEPT ![j] = over]
      /\ ledger' = [ledger EXCEPT ![j] = Cardinality(charged)]
      /\ balance' = balance - spent
      /\ unbilled' = unbilled + (IF charge[j].at = "free" THEN spent ELSE 0)
      /\ excess' = excess + Positive(spent - reserved)
      /\ UNCHANGED <<org, provider, sessions, events, claimed, handler, grants,
                     admission, sweepVars>>
  BY DEF ChargeCommits
<1>1. /\ over \in 0..Price[j] /\ spent \in Nat /\ spent = Price[j] - over
      /\ Price[j] \in Nat
      /\ charge[j].at = "locked" => spent = 0 \/ spent <= charge[j].funds
  BY ChargeSplits
<1>2. reserved \in Nat
  BY PriceAssumption
<1> HIDE DEF over, spent, reserved
<1>3. /\ run \in [Job -> {"new", "active", "parked", "ended"}]
      /\ gated \subseteq Active /\ charge \in [Job -> [at : Ending, funds : Int]]
      /\ balance \in Int /\ excess \in Nat /\ unbilled \in Nat
      /\ charged \subseteq Job /\ overage \in [Job -> Nat] /\ ledger \in [Job -> Nat]
      /\ accepted \subseteq Job /\ stamped \subseteq Job
  BY DEF CreditInv, CreditTypeOK, BillingTypeOK
<1>4. run[j] = "active" /\ j \notin charged /\ overage[j] = 0 /\ j \notin accepted
  <2>1. run[j] = "active"
    BY <1>0 DEF CreditInv, StageInv
  <2>2. j \notin charged /\ overage[j] = 0
    BY <2>1 DEF CreditInv, StageInv
  <2> QED
    BY <2>1, <2>2 DEF CreditInv, MeterInv
<1>5. /\ run' \in [Job -> {"new", "active", "parked", "ended"}] /\ run'[j] = "ended"
      /\ \A k \in Job : k # j => run'[k] = run[k]
      /\ charge' \in [Job -> [at : Ending, funds : Int]] /\ charge'[j].at = "none"
      /\ \A k \in Job : k # j => charge'[k] = charge[k]
      /\ overage' \in [Job -> Nat] /\ overage'[j] = over
      /\ \A k \in Job : k # j => overage'[k] = overage[k]
  BY <1>0, <1>1, <1>3 DEF Ending
<1>6. Cardinality(charged) \in Nat
  BY <1>3, GatedFinite
<1>7. UNCHANGED <<stamped, sweep, accepted, meter>>
  BY <1>0 DEF sweepVars
<1>8. /\ balance' \in Int /\ unbilled' \in Nat /\ excess' \in Nat
      /\ balance' + excess' >= (balance + excess) - reserved
  BY <1>0, <1>1, <1>2, <1>3 DEF Positive
<1>9. BillingInv'
  BY <1>0, <1>8, BillingBalance DEF CreditInv
<1>10. CreditTypeOK'
  <2>1. gated' \subseteq Active'
    BY <1>0, <1>3, <1>5 DEF Active
  <2>2. ledger' \in [Job -> Nat] /\ charged' \subseteq Job
    BY <1>0, <1>3, <1>6
  <2> QED
    BY <1>0, <1>5, <1>7, <1>8, <1>9, <2>1, <2>2 DEF CreditInv, CreditTypeOK, BillingInv
<1>11. StageInv'
  BY <1>0, <1>3, <1>5 DEF CreditInv, StageInv
<1>12. FundsInv'
  <2>1. balance + unbilled >= 0 /\
        (charge[j].at = "locked" => charge[j].funds <= balance + unbilled)
    BY DEF CreditInv, FundsInv
  <2>2. CASE charge[j].at = "free"
    <3>1. balance' + unbilled' = balance + unbilled
      BY <1>0, <1>1, <1>3, <2>2
    <3> QED
      BY <1>5, <3>1 DEF CreditInv, FundsInv
  <2>3. CASE charge[j].at = "locked"
    <3>1. balance' + unbilled' >= 0
      <4>1. charge[j].funds \in Int /\ unbilled' = unbilled
        BY <1>0, <1>3, <2>3
      <4> QED
        BY <1>0, <1>1, <1>3, <2>1, <2>3, <4>1
    <3>2. \A k \in Job : charge'[k].at # "locked"
      BY <1>5, <2>3 DEF CreditInv, FundsInv
    <3> QED
      BY <3>1, <3>2 DEF FundsInv
  <2> QED
    BY <1>0, <2>2, <2>3
<1>13. GateInv'
  BY <1>0, <1>8, HeldBackGivenUp DEF reserved
<1>14. MeterInv'
  <2>1. \A s \in Sweeper : j \notin sweep[s].todo
    BY <1>4 DEF CreditInv, MeterInv
  <2>2. \A s \in Sweeper : sweep[s].todo \subseteq Job
    BY DEF CreditInv, CreditTypeOK, Sweep
  <2>3. \A s \in Sweeper : \A k \in sweep[s].todo : overage'[k] > 0
    BY <1>5, <2>1, <2>2 DEF CreditInv, MeterInv
  <2>4. \A k \in accepted : overage'[k] > 0
    BY <1>3, <1>4, <1>5 DEF CreditInv, MeterInv
  <2>5. \A k \in Job : meter[k] = IF k \in accepted THEN overage'[k] ELSE 0
    BY <1>4, <1>5 DEF CreditInv, MeterInv
  <2> QED
    BY <1>7, <2>3, <2>4, <2>5 DEF CreditInv, MeterInv
<1>15. Account!Charge(j)
  <2>1. Due' = [Due EXCEPT ![j] = Due'[j]] /\ Due'[j] = over
    BY <1>3, <1>4, <1>5, <1>7 DEF Due
  <2>2. /\ j \notin charged /\ charged' = charged \cup {j} /\ Due'[j] \in 0..Price[j]
        /\ balance' = balance - (Price[j] - Due'[j]) /\ meter' = meter
    BY <1>0, <1>1, <1>4, <1>7, <2>1
  <2> QED
    BY <2>1, <2>2 DEF Account!Charge, Due
<1>16. Account!AccountNext
  BY <1>15 DEF Account!AccountNext
<1> QED
  BY <1>9, <1>10, <1>11, <1>12, <1>13, <1>14, <1>16 DEF CreditKept, CreditInv

----------------------------------------------------------------------------
(* The sweep.                                                              *)

\* A sweep's step that reports nothing.
LEMMA SweepMoves ==
  ASSUME CreditInv, NEW s \in Sweeper, NEW r \in Sweep,
         UNCHANGED <<billingVars, runVars, chargeVars, accepted, meter>>,
         sweep' = [sweep EXCEPT ![s] = r], \A j \in r.todo : overage[j] > 0,
         r.reported \subseteq accepted, stamped' \subseteq accepted
  PROVE  CreditKept
<1>1. BillingInv' /\ StageInv' /\ FundsInv' /\ GateInv' /\ balance' = balance
  BY SweepStays DEF billingVars
<1>2. UNCHANGED <<run, gated, admission, charge, charged, overage, ledger, unbilled,
                  excess>>
  BY DEF runVars, chargeVars
<1>3. /\ sweep \in [Sweeper -> Sweep] /\ sweep' \in [Sweeper -> Sweep] /\ sweep'[s] = r
      /\ \A t \in Sweeper : t # s => sweep'[t] = sweep[t]
      /\ accepted \subseteq Job
  BY DEF CreditInv, CreditTypeOK
<1>4. CreditTypeOK'
  BY <1>1, <1>2, <1>3 DEF CreditInv, CreditTypeOK, BillingInv, Active
<1>5. MeterInv'
  <2>1. \A t \in Sweeper : /\ \A j \in sweep'[t].todo : overage[j] > 0
                           /\ sweep'[t].reported \subseteq accepted
    BY <1>3 DEF CreditInv, MeterInv
  <2> QED
    BY <1>2, <2>1 DEF CreditInv, MeterInv
<1>6. AccountSame
  BY <1>1, <1>2 DEF AccountSame, Due
<1> QED
  BY <1>1, <1>4, <1>5, <1>6 DEF CreditKept, CreditInv

\* A sweep takes its rows, skips one, stamps what it reported, or dies.
LEMMA SweepMovesKept ==
  ASSUME CreditInv, NEW s \in Sweeper,
         \/ SweepStarts(s) \/ SweepStamps(s) \/ SweepDies(s)
         \/ \E j \in Job : SweepSkips(s, j)
  PROVE  CreditKept
<1>t. /\ sweep[s] \in Sweep /\ stamped \subseteq accepted
      /\ \A j \in sweep[s].todo : overage[j] > 0
      /\ sweep[s].reported \subseteq accepted
  BY DEF CreditInv, CreditTypeOK, MeterInv
<1>n. NoSweep \in Sweep /\ NoSweep.todo = {} /\ NoSweep.reported = {}
  BY DEF NoSweep, Sweep
<1>1. CASE SweepStarts(s)
  <2> DEFINE r == [busy |-> TRUE, todo |-> Batch, reported |-> {}]
  <2>1. Batch \subseteq Job /\ \A j \in Batch : overage[j] > 0
    BY DEF Batch, Pending
  <2>2. r \in Sweep /\ r.todo = Batch /\ r.reported = {}
    BY <2>1 DEF Sweep
  <2>3. sweep' = [sweep EXCEPT ![s] = r] /\ stamped' = stamped
        /\ UNCHANGED <<billingVars, runVars, chargeVars, accepted, meter>>
    BY <1>1 DEF SweepStarts
  <2> HIDE DEF r
  <2> QED
    BY <1>t, <2>1, <2>2, <2>3, SweepMoves
<1>2. CASE SweepStamps(s)
  <2>1. sweep' = [sweep EXCEPT ![s] = NoSweep]
        /\ UNCHANGED <<billingVars, runVars, chargeVars, accepted, meter>>
        /\ stamped' \subseteq accepted
    BY <1>2, <1>t DEF SweepStamps
  <2> QED
    BY <1>n, <2>1, SweepMoves
<1>3. CASE SweepDies(s)
  <2>1. sweep' = [sweep EXCEPT ![s] = NoSweep] /\ stamped' \subseteq accepted
        /\ UNCHANGED <<billingVars, runVars, chargeVars, accepted, meter>>
    BY <1>3, <1>t DEF SweepDies
  <2> QED
    BY <1>n, <2>1, SweepMoves
<1>4. ASSUME NEW j \in Job, SweepSkips(s, j)
      PROVE  CreditKept
  <2> DEFINE r == [sweep[s] EXCEPT !.todo = @ \ {j}]
  <2>1. r \in Sweep /\ r.todo \subseteq sweep[s].todo /\ r.reported = sweep[s].reported
    BY <1>t DEF Sweep
  <2>2. sweep' = [sweep EXCEPT ![s] = r] /\ stamped' \subseteq accepted
        /\ UNCHANGED <<billingVars, runVars, chargeVars, accepted, meter>>
    BY <1>4, <1>t DEF SweepSkips, Skipped
  <2> HIDE DEF r
  <2> QED
    BY <1>t, <2>1, <2>2, SweepMoves
<1> QED
  BY <1>1, <1>2, <1>3, <1>4

\* The provider counts a row, whether or not the sweep hears of it: the
\* account's bill, unless it had counted it before.
LEMMA RowCounted ==
  ASSUME CreditInv, NEW s \in Sweeper, NEW j \in Job, j \in sweep[s].todo,
         Count(j), accepted' = accepted \cup {j}, NEW r \in Sweep,
         sweep' = [sweep EXCEPT ![s] = r], r.todo \subseteq sweep[s].todo,
         r.reported \subseteq sweep[s].reported \cup {j},
         UNCHANGED <<billingVars, runVars, chargeVars, stamped>>
  PROVE  CreditKept
<1>1. BillingInv' /\ StageInv' /\ FundsInv' /\ GateInv' /\ balance' = balance
  BY SweepStays DEF billingVars
<1>2. UNCHANGED <<run, gated, admission, charge, charged, overage, ledger, unbilled,
                  excess>>
  BY DEF runVars, chargeVars
<1>3. /\ sweep \in [Sweeper -> Sweep] /\ sweep' \in [Sweeper -> Sweep] /\ sweep'[s] = r
      /\ \A t \in Sweeper : t # s => sweep'[t] = sweep[t]
      /\ accepted \subseteq Job /\ meter \in [Job -> Nat] /\ overage \in [Job -> Nat]
  BY DEF CreditInv, CreditTypeOK
<1>4. overage[j] > 0 /\ meter[j] = IF j \in accepted THEN overage[j] ELSE 0
  BY DEF CreditInv, MeterInv
<1>5. meter' = [meter EXCEPT ![j] = overage[j]]
  <2>1. CASE j \in accepted
    BY <1>3, <1>4, <2>1 DEF Count
  <2>2. CASE j \notin accepted
    <3>1. meter[j] + overage[j] = overage[j]
      BY <1>3, <1>4, <2>2
    <3>2. meter' = [meter EXCEPT ![j] = meter[j] + overage[j]]
      BY <2>2 DEF Count
    <3> QED
      BY <3>1, <3>2
  <2> QED
    BY <2>1, <2>2
<1>6. meter' \in [Job -> Nat] /\ meter'[j] = overage[j]
      /\ \A k \in Job : k # j => meter'[k] = meter[k]
  BY <1>3, <1>5
<1>7. CreditTypeOK'
  <2>1. accepted' \subseteq Job
    BY <1>3
  <2> QED
    BY <1>1, <1>2, <1>3, <1>6, <2>1 DEF CreditInv, CreditTypeOK, BillingInv, Active
<1>8. MeterInv'
  <2>1. \A t \in Sweeper : \A k \in sweep'[t].todo : overage[k] > 0
    BY <1>3 DEF CreditInv, MeterInv
  <2>2. \A t \in Sweeper : sweep'[t].reported \subseteq accepted'
    BY <1>3 DEF CreditInv, MeterInv
  <2>3. stamped' \subseteq accepted' /\ \A k \in accepted' : overage[k] > 0
    BY <1>4 DEF CreditInv, MeterInv
  <2>4. \A k \in Job : meter'[k] = IF k \in accepted' THEN overage[k] ELSE 0
    BY <1>6 DEF CreditInv, MeterInv
  <2> QED
    BY <1>2, <2>1, <2>2, <2>3, <2>4 DEF MeterInv
<1>9. Account!AccountNext \/ AccountSame
  <2>1. CASE j \in accepted
    <3>1. accepted' = accepted /\ meter' = meter
      BY <1>3, <1>4, <1>5, <2>1
    <3> QED
      BY <1>1, <1>2, <3>1 DEF AccountSame, Due
  <2>2. CASE j \notin accepted
    <3>1. Due[j] = overage[j] /\ Due[j] > 0
      BY <1>4, <2>2 DEF Due
    <3>2. Due' = [Due EXCEPT ![j] = 0]
      BY <1>2, <1>3 DEF Due
    <3>3. Account!Bill(j)
      BY <1>1, <1>2, <1>5, <3>1, <3>2 DEF Account!Bill, Due
    <3> QED
      BY <3>3 DEF Account!AccountNext
  <2> QED
    BY <2>1, <2>2
<1> QED
  BY <1>1, <1>7, <1>8, <1>9 DEF CreditKept, CreditInv

\* A row is reported, and the answer comes back or is lost.
LEMMA RowCountedKept ==
  ASSUME CreditInv, NEW s \in Sweeper, NEW j \in Job,
         SweepReports(s, j) \/ AnswerLost(s, j)
  PROVE  CreditKept
<1>t. sweep[s] \in Sweep
  BY DEF CreditInv, CreditTypeOK
<1>1. CASE SweepReports(s, j)
  <2> DEFINE r == [sweep[s] EXCEPT !.todo = @ \ {j}, !.reported = @ \cup {j}]
  <2>1. r \in Sweep /\ r.todo \subseteq sweep[s].todo
        /\ r.reported \subseteq sweep[s].reported \cup {j}
    BY <1>t DEF Sweep
  <2>2. /\ sweep' = [sweep EXCEPT ![s] = r] /\ j \in sweep[s].todo /\ Count(j)
        /\ accepted' = accepted \cup {j}
        /\ UNCHANGED <<billingVars, runVars, chargeVars, stamped>>
    BY <1>1 DEF SweepReports, NextRow
  <2> HIDE DEF r
  <2> QED
    BY <2>1, <2>2, RowCounted
<1>2. CASE AnswerLost(s, j)
  <2> DEFINE r == [sweep[s] EXCEPT !.todo = @ \ {j}]
  <2>1. r \in Sweep /\ r.todo \subseteq sweep[s].todo /\ r.reported = sweep[s].reported
    BY <1>t DEF Sweep
  <2>2. /\ sweep' = [sweep EXCEPT ![s] = r] /\ j \in sweep[s].todo /\ Count(j)
        /\ accepted' = accepted \cup {j}
        /\ UNCHANGED <<billingVars, runVars, chargeVars, stamped>>
    BY <1>2 DEF AnswerLost, NextRow
  <2> HIDE DEF r
  <2> QED
    BY <2>1, <2>2, RowCounted
<1> QED
  BY <1>1, <1>2

----------------------------------------------------------------------------
(* The invariant, and the account.                                         *)

\* Nothing has been charged, held back, or reported.
LEMMA CreditInitInv ==
  ASSUME Init
  PROVE  CreditInv
<1>1. BillingInv /\ balance = Signup /\ Signup \in Nat
  BY BillingInitInv, CreditAssumption DEF Init, BillingInit
<1>2. /\ run = [j \in Job |-> "new"] /\ gated = {} /\ charged = {} /\ stamped = {}
      /\ admission = [a \in Approver |-> [at |-> "idle", running |-> 0]]
      /\ charge = [j \in Job |-> [at |-> "none", funds |-> 0]]
      /\ overage = [j \in Job |-> 0] /\ ledger = [j \in Job |-> 0] /\ accepted = {}
      /\ sweep = [s \in Sweeper |-> NoSweep] /\ meter = [j \in Job |-> 0]
      /\ unbilled = 0 /\ excess = 0
  BY DEF Init
<1>3. NoSweep \in Sweep /\ NoSweep.todo = {} /\ NoSweep.reported = {}
  BY DEF NoSweep, Sweep
<1>4. CreditTypeOK
  <2>1. admission \in [Approver -> [at : Step, running : Nat]]
        /\ charge \in [Job -> [at : Ending, funds : Int]]
    BY <1>2 DEF Step, Ending
  <2> QED
    BY <1>1, <1>2, <1>3, <2>1 DEF CreditTypeOK, BillingInv
<1>5. StageInv /\ MeterInv
  BY <1>2, <1>3 DEF StageInv, MeterInv
<1>6. FundsInv
  BY <1>1, <1>2 DEF FundsInv
<1>7. GateInv
  <2>1. Cardinality(gated) = 0
    BY <1>2, FS_EmptySet
  <2>2. PerJob * Cardinality(gated) = 0
    BY <2>1, PriceAssumption
  <2>3. \A a \in Approver : admission[a].at = "idle"
    BY <1>2
  <2> QED
    BY <1>1, <1>2, <2>2, <2>3 DEF GateInv, AtGate
<1> QED
  BY <1>1, <1>4, <1>5, <1>6, <1>7 DEF CreditInv

\* Adding credits covers whatever was covered.
LEMMA MoreCovers ==
  ASSUME NEW before \in Int, NEW after \in Int, NEW also \in Int, NEW need \in Int,
         after >= before, before + also >= need
  PROVE  after + also >= need
OBVIOUS

\* The webhook adds credits and touches nothing else of the account.
LEMMA BillingStepKept ==
  ASSUME CreditInv, BillingStep
  PROVE  CreditKept
<1>1. BillingInv' /\ balance' >= balance
  BY BillingNextKept DEF CreditInv, BillingStep, BillingKept
<1>2. UNCHANGED <<run, gated, admission, charge, charged, overage, ledger, unbilled,
                  excess, stamped, sweep, accepted, meter>>
  BY DEF BillingStep, runVars, chargeVars, sweepVars
<1>3. balance \in Int /\ balance' \in Int /\ unbilled \in Nat /\ excess \in Nat
  BY <1>1 DEF CreditInv, CreditTypeOK, BillingInv, BillingTypeOK
<1>b. balance' >= balance
  BY <1>1
<1>4. CreditTypeOK' /\ StageInv' /\ MeterInv'
  BY <1>1, <1>2 DEF CreditInv, CreditTypeOK, BillingInv, Active, StageInv, MeterInv
<1>5. FundsInv'
  <2>1. balance' + unbilled >= 0
    <3>1. balance + unbilled >= 0 /\ unbilled \in Int /\ 0 \in Int
      BY <1>3 DEF CreditInv, FundsInv
    <3> QED
      BY <1>b, <1>3, <3>1, MoreCovers
  <2>2. ASSUME NEW j \in Job, charge[j].at = "locked"
        PROVE  charge[j].funds <= balance' + unbilled
    <3>1. charge[j].funds \in Int /\ balance + unbilled >= charge[j].funds
      BY <2>2, <1>3 DEF CreditInv, CreditTypeOK, FundsInv
    <3>2. balance' + unbilled >= charge[j].funds
      BY <1>b, <1>3, <3>1, MoreCovers
    <3> QED
      BY <3>1, <3>2, <1>3
  <2> QED
    BY <1>2, <2>1, <2>2 DEF CreditInv, FundsInv
<1>6. GateInv'
  <2> DEFINE x == PerJob * Cardinality(gated)
  <2>1. x \in Nat /\ PerJob \in Nat
    BY GatedFinite, HoldMore, PriceAssumption DEF CreditInv, CreditTypeOK, Active
  <2>2. balance + excess >= x /\
        \A a \in Approver : admission[a].at = "funded" => balance + excess >= x + PerJob
    BY DEF CreditInv, GateInv
  <2>3. x' = x
    BY <1>2
  <2> HIDE DEF x
  <2>4. balance' + excess >= x /\
        \A a \in Approver : admission[a].at = "funded" => balance' + excess >= x + PerJob
    <3>1. x \in Int /\ x + PerJob \in Int /\ excess \in Int
      BY <1>3, <2>1
    <3> QED
      BY <1>b, <1>3, <2>2, <3>1, MoreCovers
  <2> QED
    BY <1>2, <2>4 DEF CreditInv, GateInv, AtGate, x
<1>7. Account!AccountNext \/ AccountSame
  <2>1. Due' = Due
    BY <1>2 DEF Due
  <2>2. CASE balance' = balance
    BY <1>2, <2>1, <2>2 DEF AccountSame
  <2>3. CASE balance' > balance
    <3>1. Account!Grant
      BY <1>2, <2>1, <2>3 DEF Account!Grant, Due
    <3> QED
      BY <3>1 DEF Account!AccountNext
  <2> QED
    BY <1>1, <1>3, <2>2, <2>3
<1> QED
  BY <1>1, <1>4, <1>5, <1>6, <1>7 DEF CreditKept, CreditInv

\* Every step.
LEMMA CreditNextKept ==
  ASSUME CreditInv, Next
  PROVE  CreditKept
<1>1. CASE BillingStep
  BY <1>1, BillingStepKept
<1>2. ASSUME NEW a \in Approver,
             \/ ReadPlan(a) \/ CountRunning(a) \/ ReadBalance(a)
             \/ \E j \in Job : CreateJob(a, j)
             \/ ApprovalRefused(a)
      PROVE  CreditKept
  BY <1>2, ReadPlanKept, CountRunningKept, ReadBalanceKept, CreateJobKept,
     ApprovalRefusedKept
<1>3. ASSUME NEW j \in Job,
             \/ EndUncharged(j) \/ Park(j) \/ Rerun(j)
             \/ ChargeReadsPlan(j) \/ ChargeLocks(j) \/ ChargeCommits(j)
             \/ ChargeFailsOpen(j) \/ EndingLost(j)
      PROVE  CreditKept
  BY <1>3, EndsOrParksKept, RerunKept, ChargeMovesKept, ChargeCommitsKept,
     ChargeGivenUpKept
<1>4. ASSUME NEW s \in Sweeper,
             \/ SweepStarts(s)
             \/ \E j \in Job : SweepReports(s, j) \/ AnswerLost(s, j) \/ SweepSkips(s, j)
             \/ SweepStamps(s) \/ SweepDies(s)
      PROVE  CreditKept
  BY <1>4, SweepMovesKept, RowCountedKept
<1> QED
  BY <1>1, <1>2, <1>3, <1>4 DEF Next

\* The inductive invariant.
THEOREM CreditInvariant == Spec => []CreditInv
<1>1. Init => CreditInv
  BY CreditInitInv
<1>2. CreditInv /\ [Next]_vars => CreditInv'
  <2>1. ASSUME CreditInv, Next
        PROVE  CreditInv'
    BY <2>1, CreditNextKept DEF CreditKept
  <2>2. ASSUME CreditInv, UNCHANGED vars
        PROVE  CreditInv'
    <3>1. UNCHANGED <<billingVars, runVars, chargeVars, sweepVars>>
      BY <2>2 DEF vars
    <3>2. BillingInv' /\ StageInv' /\ FundsInv' /\ GateInv'
      BY <2>2, <3>1, SweepStays
    <3>3. CreditTypeOK' /\ MeterInv'
      BY <2>2, <3>1, <3>2 DEF runVars, chargeVars, sweepVars, CreditInv,
         CreditTypeOK, BillingInv, Active, MeterInv
    <3> QED
      BY <3>2, <3>3 DEF CreditInv
  <2> QED
    BY <2>1, <2>2
<1> QED
  BY <1>1, <1>2, PTL DEF Spec

\* Type correctness of the ledger, the gate, the charges and the sweeps.
THEOREM CreditTypes == Spec => []CreditTypeOK
<1>1. CreditInv => CreditTypeOK
  BY DEF CreditInv
<1> QED
  BY <1>1, CreditInvariant, PTL

\* handle_event inside the whole system: a purchase is granted exactly once,
\* whatever charges, admissions and sweeps do meanwhile.
THEOREM PurchasesGrantedOnce == Spec => []PurchaseIsGrantedOnce
<1>1. CreditInv => PurchaseIsGrantedOnce
  BY GrantedOnce DEF CreditInv
<1> QED
  BY <1>1, CreditInvariant, PTL

\* spend_gate.admit: the balance covers every run the gate let in.
THEOREM GateCovers == Spec => []GateHoldsEnoughBack
<1>1. CreditInv => GateHoldsEnoughBack
  BY DEF CreditInv, GateInv, GateHoldsEnoughBack
<1> QED
  BY <1>1, CreditInvariant, PTL

\* charge_for_job: charges a plan bills take no credits that are not there.
THEOREM BilledStopsAtZero == Spec => []BilledChargesStopAtZero
<1>1. CreditInv => BilledChargesStopAtZero
  BY DEF CreditInv, FundsInv, BilledChargesStopAtZero
<1> QED
  BY <1>1, CreditInvariant, PTL

\* report_pending_usage: no row is stamped that the provider did not count.
THEOREM StampedWasCounted == Spec => []StampedIsCounted
<1>1. CreditInv => StampedIsCounted
  BY DEF CreditInv, CreditTypeOK, MeterInv, StampedIsCounted
<1> QED
  BY <1>1, CreditInvariant, PTL

\* The detailed specification implements the account: each run is charged
\* once and in full, and what credits did not pay is billed once.
THEOREM LedgerImplementsAccount == Spec => KeepsTheAccount
<1>1. Init => Account!AccountInit
  <2> SUFFICES ASSUME Init
               PROVE  Account!AccountInit
    OBVIOUS
  <2>1. balance \in Nat /\ charged = {} /\ meter = [j \in Job |-> 0]
    BY CreditAssumption DEF Init, BillingInit
  <2>2. [j \in Job |-> IF j \in accepted THEN 0 ELSE overage[j]] = [j \in Job |-> 0]
    BY DEF Init
  <2> QED
    BY <2>1, <2>2 DEF Account!AccountInit
<1>2. CreditInv /\ [Next]_vars => [Account!AccountNext]_(Account!accountVars)
  <2>1. ASSUME CreditInv, Next
        PROVE  [Account!AccountNext]_(Account!accountVars)
    <3>1. Account!AccountNext \/ AccountSame
      BY <2>1, CreditNextKept DEF CreditKept
    <3>2. AccountSame => UNCHANGED Account!accountVars
      BY DEF AccountSame, Account!accountVars, Due
    <3> QED
      BY <3>1, <3>2
  <2>2. ASSUME UNCHANGED vars
        PROVE  UNCHANGED Account!accountVars
    BY <2>2 DEF vars, billingVars, chargeVars, sweepVars, Account!accountVars
  <2> QED
    BY <2>1, <2>2
<1> QED
  BY <1>1, <1>2, CreditInvariant, PTL DEF Spec, KeepsTheAccount, Account!AccountSpec

\* charge_for_job, report_pending_usage: with sweeps that overlap, fail and
\* resend, the provider never bills a run more than what is left of its price.
THEOREM NeverOverbilled == Spec => []Account!BilledWithinPrice
<1> DEFINE Bounded(f, g, paid) ==
       /\ f \in [Job -> Nat] /\ g \in [Job -> Nat]
       /\ \A j \in Job :
            /\ f[j] + g[j] <= Price[j]
            /\ f[j] = 0 \/ g[j] = 0
            /\ j \notin paid => f[j] + g[j] = 0
<1>p. Price \in [Job -> Nat]
  BY PriceAssumption
<1>d. (Account!BilledWithinPrice <=> Bounded(Due, meter, charged))
      /\ (Account!BilledWithinPrice' <=> Bounded(Due', meter', charged'))
  BY DEF Account!BilledWithinPrice, Due
<1>1. Account!AccountInit => Account!BilledWithinPrice
  BY <1>p, <1>d DEF Account!AccountInit, Due
<1>2. Account!BilledWithinPrice /\ [Account!AccountNext]_(Account!accountVars)
        => Account!BilledWithinPrice'
  <2>1. ASSUME Bounded(Due, meter, charged), NEW j \in Job, Account!Charge(j)
        PROVE  Bounded(Due', meter', charged')
    <3>1. /\ charged' = charged \cup {j} /\ j \notin charged
          /\ Due' = [Due EXCEPT ![j] = Due'[j]] /\ Due'[j] \in 0..Price[j]
          /\ meter' = meter
      BY <2>1 DEF Account!Charge, Due
    <3>2. PICK x \in Nat : x <= Price[j] /\ Due' = [Due EXCEPT ![j] = x]
      BY <1>p, <3>1
    <3>3. Due \in [Job -> Nat] /\ meter \in [Job -> Nat] /\ meter[j] = 0
      BY <2>1, <3>1
    <3>4. Due' \in [Job -> Nat] /\ Due'[j] = x
          /\ \A k \in Job \ {j} : Due'[k] = Due[k]
      BY <3>2, <3>3
    <3>5. \A k \in Job :
            /\ Due'[k] + meter[k] <= Price[k]
            /\ Due'[k] = 0 \/ meter[k] = 0
            /\ k \notin charged' => Due'[k] + meter[k] = 0
      BY <1>p, <2>1, <3>1, <3>2, <3>3, <3>4
    <3> QED
      BY <3>1, <3>3, <3>4, <3>5
  <2>2. ASSUME Bounded(Due, meter, charged), NEW j \in Job, Account!Bill(j)
        PROVE  Bounded(Due', meter', charged')
    <3>1. /\ Due[j] > 0 /\ Due' = [Due EXCEPT ![j] = 0]
          /\ meter' = [meter EXCEPT ![j] = Due[j]] /\ charged' = charged
      BY <2>2 DEF Account!Bill, Due
    <3> QED
      BY <1>p, <2>2, <3>1
  <2>3. ASSUME Bounded(Due, meter, charged),
               Account!Grant \/ UNCHANGED Account!accountVars
        PROVE  Bounded(Due', meter', charged')
    <3>1. Due' = Due /\ meter' = meter /\ charged' = charged
      BY <2>3 DEF Account!Grant, Account!accountVars, Due
    <3> QED
      BY <2>3, <3>1
  <2> HIDE DEF Bounded
  <2> QED
    BY <1>d, <2>1, <2>2, <2>3 DEF Account!AccountNext
<1> QED
  BY <1>1, <1>2, LedgerImplementsAccount, PTL DEF KeepsTheAccount, Account!AccountSpec
=============================================================================
