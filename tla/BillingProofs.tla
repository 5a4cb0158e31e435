---------------------------- MODULE BillingProofs ----------------------------
(***************************************************************************)
(* Proofs about Billing.  The inductive invariant says what each request   *)
(* has claimed and read: an event in work has one request, a use that is   *)
(* not counted yet is recorded once, and the entitlements that a           *)
(* transaction is about to write are those of the subscriptions that it    *)
(* read, as long as no other transaction has committed since.              *)
(***************************************************************************)
EXTENDS Billing, SumFacts

-----------------------------------------------------------------------------
(* Types, and where a request can be *)

SubscriptionRows ==
  [status : {"none", "active", "past_due", "canceled"}, grace : {"none", "running", "over"},
   plan : Plans \cup {None}]
Entitlements == [enabled : BOOLEAN, sub : Subs \cup {None}, used : Nat]
RefundRows == [status : {"none", "live", "failed"}, amount : Nat]
RequestStates ==
  [op : {"none", "webhook", "usage", "refund", "checkout", "apply"},
   at : {"idle", "apply", "upsert", "recompute", "disable", "wait", "write", "catch", "insert", "count",
         "ask", "save", "open", "session", "discount"},
   event : Events \cup {None}, row : SubscriptionRows, next : [Features -> Subs \cup {None}],
   seen : SUBSET Features, stale : BOOLEAN, key : Uses \cup Refunds \cup Discounts \cup {None},
   amount : Nat]

BillingTypeOK ==
  /\ inbox \in [Events -> {"unsent", "sent", "processing", "processed", "failed"}]
  /\ sub \in [Subs -> SubscriptionRows] /\ older \in [Subs -> SUBSET Subs]
  /\ ent \in [Features -> Entitlements] /\ usage \subseteq Uses
  /\ paid \in {-1, 0, Charge} /\ rows \in [Refunds -> RefundRows]
  /\ charged \in {0, Charge} /\ prov \in [Refunds -> RefundRows]
  /\ opened \subseteq Discounts
  /\ checkout \in [Discounts -> {"none", "open", "complete"}]
  /\ discount \in [Discounts -> {"none", "pending_checkout", "active"}]
  /\ req \in [Requests -> RequestStates] /\ faults \in Nat
  /\ applied \in [Events -> Nat] /\ doubt \subseteq Events /\ died \subseteq Events
  /\ raced \in BOOLEAN /\ lost \subseteq Uses /\ blind \in BOOLEAN /\ early \subseteq Discounts

\* The statements of each operation, and what it is about.
WebhookStates == {"apply", "upsert", "recompute", "disable", "wait", "write", "catch"}
Placed(x) ==
  /\ x.op = "webhook" => x.at \in WebhookStates /\ x.event \in Events
  /\ x.at \in WebhookStates => x.op = "webhook"
  /\ x.at \in {"upsert", "recompute", "disable", "wait", "write"} => x.event \in SubscriptionEvents
  /\ x.op = "usage" => x.at \in {"insert", "count"} /\ x.key \in Uses
  /\ x.at \in {"insert", "count"} => x.op = "usage"
  /\ x.op = "refund" => x.at \in {"ask", "save"} /\ x.key \in Refunds
  /\ x.at \in {"ask", "save"} => x.op = "refund"
  /\ x.op \in {"checkout", "apply"} => x.key \in Discounts /\ x.at \in {"open", "session", "discount"}
  /\ x.at \in {"open", "session"} => x.op = "checkout"
  /\ x.at = "discount" => x.op \in {"checkout", "apply"}
  /\ x.op = "none" => x.at = "idle"
PlaceRule == \A r \in Requests : Placed(req[r])

\* Of any subscriptions, one is not older than another of them.
Oldest(order) ==
  \A T \in SUBSET Subs : T # {} => \E s \in T : order[s] \cap T = {}
TypeInv == BillingTypeOK /\ PlaceRule /\ Oldest(older)

\* A subscription that is updated is younger than the others.
LEMMA TouchedInOrder ==
  ASSUME TypeInv, NEW s \in Subs
  PROVE  Touched(s) \in [Subs -> SUBSET Subs] /\ Oldest(Touched(s))
<1>1. Touched(s) \in [Subs -> SUBSET Subs]
  BY DEF TypeInv, BillingTypeOK, Touched
<1>2. \A x \in Subs \ {s} : Touched(s)[x] = older[x] \ {s}
  BY DEF Touched
<1>3. s \notin Touched(s)[s]
  BY DEF Touched
<1>4. ASSUME NEW T \in SUBSET Subs, T # {} PROVE \E x \in T : Touched(s)[x] \cap T = {}
  <2>1. CASE T \subseteq {s}
    BY <1>3, <1>4, <2>1
  <2>2. CASE ~(T \subseteq {s})
    <3>1. PICK x \in T \ {s} : older[x] \cap (T \ {s}) = {}
      BY <2>2 DEF TypeInv, Oldest
    <3>2. Touched(s)[x] \cap T = {}
      BY <1>2, <3>1
    <3> QED
      BY <3>1, <3>2
  <2> QED
    BY <2>1, <2>2
<1> QED
  BY <1>1, <1>4 DEF Oldest

\* The subscription that an entitlement will name gives its feature.
LEMMA NamedGives ==
  ASSUME TypeInv, NEW r \in Requests, req[r].event \in SubscriptionEvents, NEW f \in Features,
         Giving(r, f) # {}
  PROVE  Named(r, f) \in Giving(r, f)
<1>1. req[r].event.sub \in Subs
  BY DEF SubscriptionEvents
<1>2. \E s \in Giving(r, f) : Touched(req[r].event.sub)[s] \cap Giving(r, f) = {}
  BY <1>1, TouchedInOrder DEF Oldest, Giving
<1> QED
  BY <1>2 DEF Named

LEMMA EventKinds ==
  /\ \A e \in Events : e.kind = "subscription" => e \in SubscriptionEvents
  /\ \A e \in Events : e.kind = "refund" => e \in RefundEvents
  /\ \A e \in Events : e.kind = "invoice" => e \in InvoiceEvents
  /\ \A e \in Events : e.kind = "checkout" => e \in CheckoutEvents
  /\ \A e \in SubscriptionEvents : /\ e.kind = "subscription" /\ e.sub \in Subs /\ e.plan \in Plans
                                   /\ e.status \in {"active", "past_due", "canceled"} /\ e \in Events
  /\ \A e \in RefundEvents : e.refund \in Refunds /\ e.status \in {"live", "failed"}
  /\ \A e \in InvoiceEvents : e.paid \in {0, Charge}
  /\ \A e \in CheckoutEvents : e.checkout \in Discounts
BY DEF Events, SubscriptionEvents, RefundEvents, InvoiceEvents, CheckoutEvents

LEMMA IdleTyped == Idle \in RequestStates /\ Placed(Idle) /\ Idle.op = "none" /\ Idle.at = "idle"
<1>1. NoSubscription \in SubscriptionRows
  BY DEF NoSubscription, SubscriptionRows
<1>2. Nothing \in [Features -> Subs \cup {None}]
  BY DEF Nothing
<1>3. Idle \in RequestStates
  BY <1>1, <1>2 DEF Idle, RequestStates
<1>4. Idle.op = "none" /\ Idle.at = "idle"
  BY DEF Idle
<1> QED
  BY <1>3, <1>4 DEF Placed, WebhookStates

\* A request that goes to state x.
LEMMA Becomes ==
  ASSUME TypeInv, NEW r \in Requests, NEW x \in RequestStates, Placed(x), Become(r, x)
  PROVE  /\ req' \in [Requests -> RequestStates] /\ PlaceRule' /\ req'[r] = x
         /\ \A q \in Requests \ {r} : req'[q] = req[q]
<1>1. /\ req' \in [Requests -> RequestStates] /\ req'[r] = x
      /\ \A q \in Requests \ {r} : req'[q] = req[q]
  BY DEF TypeInv, BillingTypeOK, Become
<1> QED
  BY <1>1 DEF TypeInv, PlaceRule

LEMMA Ends ==
  ASSUME TypeInv, NEW r \in Requests, Done(r)
  PROVE  /\ req' \in [Requests -> RequestStates] /\ PlaceRule' /\ req'[r] = Idle
         /\ \A q \in Requests \ {r} : req'[q] = req[q]
BY Becomes, IdleTyped DEF Done

LEMMA Goes ==
  ASSUME TypeInv, NEW r \in Requests, NEW s, Go(r, s),
         \/ s \in {"catch"} /\ Is(r, "webhook")
         \/ s = "count" /\ Is(r, "usage")
         \/ s = "save" /\ Is(r, "refund")
         \/ s \in {"session", "discount"} /\ Is(r, "checkout")
  PROVE  /\ req' \in [Requests -> RequestStates] /\ PlaceRule'
         /\ \A q \in Requests \ {r} : req'[q] = req[q]
         /\ req'[r].at = s /\ req'[r].op = req[r].op /\ req'[r].event = req[r].event
         /\ req'[r].key = req[r].key
<1> DEFINE x == [req[r] EXCEPT !.at = s]
<1>1. req[r] \in RequestStates /\ Placed(req[r])
  BY DEF TypeInv, BillingTypeOK, PlaceRule
<1>2. /\ x \in RequestStates /\ x.at = s /\ x.op = req[r].op /\ x.event = req[r].event
      /\ x.key = req[r].key
  BY <1>1 DEF RequestStates
<1>3. Become(r, x)
  BY DEF Go
<1> HIDE DEF x
<1>4. Placed(x)
  BY <1>1, <1>2 DEF Placed, WebhookStates, Is
<1> QED
  BY <1>2, <1>3, <1>4, Becomes

-----------------------------------------------------------------------------
(* Types: the steps *)

BillingStates == {"unsent", "sent", "processing", "processed", "failed"}
LEMMA Sends ==
  ASSUME TypeInv, NEW e, Send(e)
  PROVE  inbox' \in [Events -> BillingStates]
BY DEF TypeInv, BillingTypeOK, Send, BillingStates

\* What a step of the provider, or the end of a grace period, leaves typed.
LEMMA ProviderTyped ==
  ASSUME TypeInv, Provider \/ \E s \in Subs : GraceEnds(s)
  PROVE  TypeInv'
<1>1. (UNCHANGED req => PlaceRule') /\ (UNCHANGED older => Oldest(older)')
  BY DEF TypeInv, PlaceRule, Oldest
<1>2. BillingTypeOK
  BY DEF TypeInv
<1>3. ASSUME NEW e \in Events, SendSubscription(e) PROVE TypeInv'
  <2>1. inbox' \in [Events -> BillingStates] /\ UNCHANGED <<subVars, usage, moneyVars, req, faults, history>>
    BY <1>3, Sends DEF SendSubscription
  <2> QED
    BY <1>1, <1>2, <2>1
       DEF TypeInv, BillingTypeOK, BillingStates, subVars, moneyVars, refundVars, couponVars, history
<1>4. CASE OpenInvoice
  <2>1. inbox' \in [Events -> BillingStates] /\ UNCHANGED <<subVars, usage, moneyVars, req, faults, history>>
    BY <1>4, Sends DEF OpenInvoice
  <2> QED
    BY <1>1, <1>2, <2>1
       DEF TypeInv, BillingTypeOK, BillingStates, subVars, moneyVars, refundVars, couponVars, history
<1>5. CASE Pay
  <2>1. /\ inbox' \in [Events -> BillingStates] /\ charged' = Charge
        /\ UNCHANGED <<subVars, usage, paid, rows, prov, couponVars, req, faults, history>>
    BY <1>5, Sends DEF Pay
  <2> QED
    BY <1>1, <1>2, <2>1 DEF TypeInv, BillingTypeOK, BillingStates, subVars, couponVars, history
<1>6. ASSUME NEW k \in Refunds, NEW n \in 1..Charge, RefundByHand(k, n) PROVE TypeInv'
  <2>1. /\ inbox' \in [Events -> BillingStates]
        /\ prov' = [prov EXCEPT ![k] = [status |-> "live", amount |-> n]]
        /\ UNCHANGED <<subVars, usage, paid, rows, charged, couponVars, req, faults, history>>
    BY <1>6, Sends DEF RefundByHand
  <2>2. n \in Nat
    BY BillingAssumption
  <2>3. prov' \in [Refunds -> RefundRows]
    BY <1>2, <2>1, <2>2 DEF BillingTypeOK, RefundRows
  <2> QED
    BY <1>1, <1>2, <2>1, <2>3 DEF TypeInv, BillingTypeOK, BillingStates, subVars, couponVars, history
<1>7. ASSUME NEW k \in Refunds, RefundFails(k) PROVE TypeInv'
  <2>1. /\ inbox' \in [Events -> BillingStates] /\ prov' = [prov EXCEPT ![k].status = "failed"]
        /\ UNCHANGED <<subVars, usage, paid, rows, charged, couponVars, req, faults, history>>
    BY <1>7, Sends DEF RefundFails
  <2>2. [prov[k] EXCEPT !.status = "failed"] \in RefundRows
    BY <1>2 DEF BillingTypeOK, RefundRows
  <2>3. prov' \in [Refunds -> RefundRows]
    BY <1>2, <2>1, <2>2 DEF BillingTypeOK
  <2> QED
    BY <1>1, <1>2, <2>1, <2>3 DEF TypeInv, BillingTypeOK, BillingStates, subVars, couponVars, history
<1>8. ASSUME NEW d \in Discounts, CompleteCheckout(d) PROVE TypeInv'
  <2>1. inbox' \in [Events -> BillingStates] /\ UNCHANGED <<subVars, usage, moneyVars, req, faults, history>>
    BY <1>8, Sends DEF CompleteCheckout
  <2> QED
    BY <1>1, <1>2, <2>1
       DEF TypeInv, BillingTypeOK, BillingStates, subVars, moneyVars, refundVars, couponVars, history
<1>9. ASSUME NEW s \in Subs, GraceEnds(s) PROVE TypeInv'
  <2>1. /\ sub' = [sub EXCEPT ![s].grace = "over"]
        /\ UNCHANGED <<inbox, older, ent, usage, moneyVars, req, faults, history>>
    BY <1>9 DEF GraceEnds
  <2>9. sub[s] \in SubscriptionRows
    BY <1>2 DEF BillingTypeOK
  <2>2. [sub[s] EXCEPT !.grace = "over"] \in SubscriptionRows
    BY <2>9 DEF SubscriptionRows
  <2>3. sub' \in [Subs -> SubscriptionRows]
    BY <1>2, <2>1, <2>2 DEF BillingTypeOK
  <2> QED
    BY <1>1, <1>2, <2>1, <2>3
       DEF TypeInv, BillingTypeOK, moneyVars, refundVars, couponVars, history
<1> QED
  BY <1>3, <1>4, <1>5, <1>6, <1>7, <1>8, <1>9 DEF Provider

\* Statements of a webhook that write its request alone, or the inbox with it.
LEMMA ReadTyped ==
  ASSUME TypeInv, NEW r \in Requests,
         (\E e \in Events : Claim(r, e)) \/ ReadGrace(r) \/ Upsert(r) \/ Recompute(r) \/ Disable(r)
           \/ DisableLate(r) \/ Unmatched(r) \/ Fails(r) \/ Catch(r)
  PROVE  TypeInv'
<1>1. BillingTypeOK /\ req[r] \in RequestStates /\ Placed(req[r])
  BY DEF TypeInv, BillingTypeOK, PlaceRule
<1>11. UNCHANGED older => Oldest(older)'
  BY DEF TypeInv, Oldest
<1>2. ASSUME inbox' \in [Events -> BillingStates], req' \in [Requests -> RequestStates], PlaceRule',
             faults' \in Nat, UNCHANGED <<subVars, usage, moneyVars, history>>
      PROVE  TypeInv'
  BY <1>1, <1>2, <1>11
     DEF TypeInv, BillingTypeOK, BillingStates, subVars, moneyVars, refundVars, couponVars, history
<1>3. inbox \in [Events -> BillingStates] /\ faults \in Nat
  BY <1>1 DEF BillingTypeOK, BillingStates
<1>4. ASSUME NEW e \in Events, Claim(r, e) PROVE TypeInv'
  <2> DEFINE x == [Idle EXCEPT !.op = "webhook", !.at = "apply", !.event = e]
  <2>1. x \in RequestStates /\ x.op = "webhook" /\ x.at = "apply" /\ x.event = e
    BY IdleTyped DEF RequestStates
  <2>2. Become(r, x)
    BY <1>4 DEF Claim
  <2> HIDE DEF x
  <2>3. Placed(x)
    BY <2>1 DEF Placed, WebhookStates
  <2>4. inbox' \in [Events -> BillingStates]
    BY <1>3, <1>4 DEF Claim, BillingStates
  <2> QED
    BY <1>2, <1>3, <1>4, <2>1, <2>2, <2>3, <2>4, Becomes DEF Claim
<1>15. ASSUME NEW s \in {"recompute", "write"}, Go(r, s),
             At(r, "upsert") \/ At(r, "wait"),
             UNCHANGED <<inbox, subVars, usage, moneyVars, faults, history>>
      PROVE  TypeInv'
  <2> DEFINE x == [req[r] EXCEPT !.at = s]
  <2>1. req[r].op = "webhook" /\ req[r].event \in SubscriptionEvents
    BY <1>1, <1>15 DEF At, Placed, WebhookStates
  <2>2. x \in RequestStates /\ x.at = s /\ x.op = req[r].op /\ x.event = req[r].event
    BY <1>1 DEF RequestStates
  <2>3. Become(r, x)
    BY <1>15 DEF Go
  <2> HIDE DEF x
  <2>4. Placed(x)
    BY <2>1, <2>2, EventKinds DEF Placed, WebhookStates
  <2> QED
    BY <1>2, <1>3, <1>15, <2>2, <2>3, <2>4, Becomes
<1>16. CASE Upsert(r) \/ DisableLate(r)
  BY <1>15, <1>16 DEF Upsert, DisableLate
<1>5. CASE ReadGrace(r)
  <2> DEFINE e == req[r].event
             row == [status |-> e.status, grace |-> GraceAfter(e), plan |-> e.plan]
             x == [req[r] EXCEPT !.at = "upsert", !.row = row]
  <2>1. e \in SubscriptionEvents
    BY <1>1, <1>5, EventKinds DEF ReadGrace, Applying, At, Placed, WebhookStates
  <2>2. GraceAfter(e) \in {"none", "running", "over"}
    <3>1. sub[e.sub].grace \in {"none", "running", "over"} /\ e.status \in {"active", "past_due", "canceled"}
      BY <1>1, <2>1, EventKinds DEF BillingTypeOK, SubscriptionRows
    <3>2. CASE e.status # "past_due"
      BY <3>2 DEF GraceAfter
    <3>3. CASE e.status = "past_due"
      BY <3>1, <3>3 DEF GraceAfter
    <3> QED
      BY <3>2, <3>3
  <2>3. row \in SubscriptionRows
    BY <2>1, <2>2, EventKinds DEF SubscriptionRows
  <2> HIDE DEF row
  <2>4. x \in RequestStates /\ x.at = "upsert" /\ x.op = req[r].op /\ x.event = e
    BY <1>1, <2>3 DEF RequestStates
  <2>5. Become(r, x)
    BY <1>5 DEF ReadGrace, row
  <2>6. req[r].op = "webhook"
    BY <1>1, <1>5 DEF ReadGrace, Applying, At, Placed, WebhookStates
  <2> HIDE DEF x
  <2>7. Placed(x)
    BY <1>1, <2>1, <2>4, <2>6 DEF Placed, WebhookStates
  <2> QED
    BY <1>2, <1>3, <1>5, <2>4, <2>5, <2>7, Becomes DEF ReadGrace
<1>6. CASE Recompute(r)
  <2> DEFINE n == [f \in Features |-> IF Giving(r, f) = {} THEN None ELSE Named(r, f)]
             x == [req[r] EXCEPT !.at = "disable", !.stale = FALSE, !.next = n]
  <2>1. /\ req[r].op = "webhook" /\ req[r].event \in SubscriptionEvents /\ Become(r, x)
        /\ UNCHANGED <<inbox, subVars, usage, moneyVars, faults, history>>
    BY <1>1, <1>6 DEF Recompute, At, Placed, WebhookStates
  <2>2. n \in [Features -> Subs \cup {None}]
    BY <2>1, NamedGives DEF Giving
  <2> HIDE DEF n
  <2>3. x \in RequestStates /\ x.at = "disable" /\ x.op = req[r].op /\ x.event = req[r].event
    BY <1>1, <2>2 DEF RequestStates
  <2> HIDE DEF x
  <2>4. Placed(x)
    BY <2>1, <2>3, EventKinds DEF Placed, WebhookStates
  <2> QED
    BY <1>2, <1>3, <2>1, <2>3, <2>4, Becomes
<1>7. CASE Disable(r)
  <2> DEFINE at == IF Free THEN "write" ELSE "wait"
             x == [req[r] EXCEPT !.at = at, !.seen = Existing]
  <2>1. /\ req[r].op = "webhook" /\ req[r].event \in SubscriptionEvents /\ Become(r, x)
        /\ UNCHANGED <<inbox, subVars, usage, moneyVars, faults, history>>
    BY <1>1, <1>7 DEF Disable, At, Placed, WebhookStates
  <2>2. Existing \in SUBSET Features
    BY DEF Existing
  <2>3. x \in RequestStates /\ x.at \in {"wait", "write"} /\ x.op = req[r].op /\ x.event = req[r].event
    BY <1>1, <2>2 DEF RequestStates
  <2> HIDE DEF x
  <2>4. Placed(x)
    BY <2>1, <2>3, EventKinds DEF Placed, WebhookStates
  <2> QED
    BY <1>2, <1>3, <2>1, <2>3, <2>4, Becomes
<1>8. CASE Unmatched(r)
  <2>1. Is(r, "webhook")
    BY <1>1, <1>8 DEF Unmatched, Applying, At, Is, Placed, WebhookStates
  <2> QED
    BY <1>2, <1>3, <1>8, <2>1, Goes DEF Unmatched
<1>9. CASE Fails(r)
  <2> DEFINE x == [Idle EXCEPT !.op = "webhook", !.at = "catch", !.event = req[r].event]
  <2>1. x \in RequestStates /\ x.op = "webhook" /\ x.at = "catch" /\ x.event = req[r].event
    BY <1>1, IdleTyped DEF RequestStates
  <2>2. Become(r, x) /\ req[r].event \in Events /\ faults' \in Nat
    BY <1>1, <1>3, <1>9 DEF Fails, Is, Placed, Fault
  <2> HIDE DEF x
  <2>3. Placed(x)
    BY <2>1, <2>2 DEF Placed, WebhookStates
  <2> QED
    BY <1>2, <1>3, <1>9, <2>1, <2>2, <2>3, Becomes DEF Fails
<1>10. CASE Catch(r)
  <2>1. inbox' \in [Events -> BillingStates]
    BY <1>3, <1>10 DEF Catch, BillingStates
  <2> QED
    BY <1>2, <1>3, <1>10, <2>1, Ends DEF Catch
<1> QED
  BY <1>4, <1>5, <1>6, <1>7, <1>8, <1>9, <1>10, <1>16

\* The commit of a webhook's transaction, and the answer that may be lost.
LEMMA AnswersTyped ==
  ASSUME TypeInv, NEW r \in Requests, Placed(req[r]), req[r].op = "webhook",
         NEW others, Answered(r, others), others \in [Requests -> RequestStates],
         \A q \in Requests : others[q].at = req[q].at /\ others[q].op = req[q].op
                              /\ others[q].event = req[q].event /\ others[q].key = req[q].key
  PROVE  /\ req' \in [Requests -> RequestStates] /\ PlaceRule' /\ faults' \in Nat
         /\ doubt \subseteq doubt' /\ doubt' \subseteq Events
         /\ \A q \in Requests \ {r} : req'[q] = others[q]
         /\ \/ req'[r] = Idle
            \/ /\ req'[r].op = "webhook" /\ req'[r].at = "catch" /\ req'[r].event = req[r].event
               /\ req[r].event \in doubt'
<1>1. /\ req[r] \in RequestStates /\ req[r].event \in Events /\ faults \in Nat
      /\ doubt \subseteq Events
  BY DEF TypeInv, BillingTypeOK, Placed
<1>2. ASSUME NEW q \in Requests PROVE Placed(others[q])
  <2>1. Placed(req[q])
    BY DEF TypeInv, PlaceRule
  <2> QED
    BY <2>1 DEF Placed
<1>3. CASE req' = [others EXCEPT ![r] = Idle] /\ UNCHANGED <<faults, doubt>>
  BY <1>1, <1>2, <1>3, IdleTyped DEF PlaceRule
<1>4. CASE /\ Fault /\ doubt' = doubt \cup {req[r].event}
           /\ req' = [others EXCEPT ![r] = [req[r] EXCEPT !.at = "catch"]]
  <2> DEFINE x == [req[r] EXCEPT !.at = "catch"]
  <2>1. x \in RequestStates /\ x.at = "catch" /\ x.op = "webhook" /\ x.event = req[r].event
    BY <1>1 DEF RequestStates
  <2>2. req' = [others EXCEPT ![r] = x]
    BY <1>4
  <2> HIDE DEF x
  <2>3. Placed(x)
    BY <1>1, <2>1 DEF Placed, WebhookStates
  <2> QED
    BY <1>1, <1>2, <1>4, <2>1, <2>2, <2>3 DEF PlaceRule, Fault
<1> QED
  BY <1>3, <1>4 DEF Answered

LEMMA ProcessedTyped ==
  ASSUME TypeInv, NEW r \in Requests, NEW e, Processed(r, e)
  PROVE  inbox' \in [Events -> BillingStates] /\ applied' \in [Events -> Nat]
<1>1. inbox \in [Events -> BillingStates] /\ applied \in [Events -> Nat]
  BY DEF TypeInv, BillingTypeOK, BillingStates
<1>2. inbox' = [inbox EXCEPT ![e] = "processed"] /\ "processed" \in BillingStates
  BY DEF Processed, BillingStates
<1>3. applied' = [applied EXCEPT ![e] = applied[e] + 1]
  BY DEF Processed
<1>4. \A x \in Events : applied[x] + 1 \in Nat
  BY <1>1
<1> QED
  BY <1>1, <1>2, <1>3, <1>4

\* The statements that commit what an event says.
LEMMA AppliesTyped ==
  ASSUME TypeInv, NEW r \in Requests,
         Write(r) \/ ApplyInvoice(r) \/ ApplyRefund(r) \/ ApplyCheckout(r)
  PROVE  TypeInv'
<1>1. BillingTypeOK /\ req \in [Requests -> RequestStates] /\ Placed(req[r]) /\ req[r] \in RequestStates
  BY DEF TypeInv, BillingTypeOK, PlaceRule
<1>2. UNCHANGED older => Oldest(older)'
  BY DEF TypeInv, Oldest
<1>3. CASE Write(r)
  <2> DEFINE e == req[r].event
             others == [q \in Requests |->
                          [req[q] EXCEPT !.stale = @ \/ req[q].at \in {"disable", "wait", "write"}]]
             row(f) == IF req[r].next[f] = None THEN Disabled(r, f) ELSE Given(r, f)
  <2>1. /\ e \in SubscriptionEvents /\ req[r].op = "webhook" /\ e.sub \in Subs
        /\ req[r].row \in SubscriptionRows /\ req[r].next \in [Features -> Subs \cup {None}]
    BY <1>1, <1>3, EventKinds DEF Write, At, Placed, WebhookStates, RequestStates
  <2>2. \A q \in Requests : others[q] \in RequestStates
                             /\ others[q].at = req[q].at /\ others[q].op = req[q].op
                             /\ others[q].event = req[q].event /\ others[q].key = req[q].key
    <3> SUFFICES ASSUME NEW q \in Requests
                 PROVE  others[q] \in RequestStates
                        /\ others[q].at = req[q].at /\ others[q].op = req[q].op
                        /\ others[q].event = req[q].event /\ others[q].key = req[q].key
      OBVIOUS
    <3>1. req[q] \in RequestStates
      BY <1>1
    <3>2. others[q] = [req[q] EXCEPT !.stale = req[q].stale \/ req[q].at \in {"disable", "wait", "write"}]
      OBVIOUS
    <3> QED
      BY <3>1, <3>2 DEF RequestStates
  <2>3. others \in [Requests -> RequestStates]
    BY <2>2
  <2>4. Answered(r, others) /\ Processed(r, e) /\ raced' = req[r].stale
        /\ sub' = [sub EXCEPT ![e.sub] = Row(r)] /\ older' = Touched(e.sub)
        /\ ent' = [f \in Features |-> row(f)]
        /\ UNCHANGED <<usage, moneyVars, died, lost, blind, early>>
    BY <1>3 DEF Write
  <2>5. \A f \in Features : row(f) \in Entitlements
    <3> SUFFICES ASSUME NEW f \in Features PROVE row(f) \in Entitlements
      OBVIOUS
    <3>1. ent[f] \in Entitlements
      BY <1>1 DEF BillingTypeOK
    <3>2. Disabled(r, f) \in Entitlements
      BY <3>1 DEF Disabled, Entitlements
    <3>3. Given(r, f) \in Entitlements
      BY <2>1, <3>1 DEF Given, Entitlements
    <3> QED
      BY <3>2, <3>3
  <2> HIDE DEF others, row
  <2>11. Row(r) \in SubscriptionRows
    BY <2>1 DEF Row, SubscriptionRows
  <2>6. sub' \in [Subs -> SubscriptionRows] /\ ent' \in [Features -> Entitlements]
    BY <1>1, <2>1, <2>4, <2>5, <2>11 DEF BillingTypeOK
  <2>7. older' \in [Subs -> SUBSET Subs] /\ Oldest(older)'
    BY <2>1, <2>4, TouchedInOrder DEF Oldest
  <2>8. req' \in [Requests -> RequestStates] /\ PlaceRule' /\ faults' \in Nat /\ doubt' \subseteq Events
    BY <1>1, <2>1, <2>2, <2>3, <2>4, AnswersTyped
  <2>9. raced' \in BOOLEAN
    BY <1>1, <2>4 DEF RequestStates
  <2>10. inbox' \in [Events -> BillingStates] /\ applied' \in [Events -> Nat]
    BY <2>4, ProcessedTyped
  <2> QED
    BY <1>1, <2>4, <2>6, <2>7, <2>8, <2>9, <2>10
       DEF TypeInv, BillingTypeOK, BillingStates, moneyVars, refundVars, couponVars
<1>4. CASE ApplyInvoice(r)
  <2>1. req[r].op = "webhook" /\ req[r].event \in Events /\ req[r].event.kind = "invoice"
    BY <1>1, <1>4 DEF ApplyInvoice, Applying, At, Placed, WebhookStates
  <2>2. /\ inbox' \in [Events -> BillingStates] /\ applied' \in [Events -> Nat]
        /\ req' \in [Requests -> RequestStates] /\ PlaceRule' /\ faults' \in Nat /\ doubt' \subseteq Events
    BY <1>1, <1>4, <2>1, AnswersTyped, ProcessedTyped DEF ApplyInvoice
  <2>3. paid' \in {0, Charge}
    BY <1>4, <2>1, EventKinds DEF ApplyInvoice
  <2> QED
    BY <1>1, <1>2, <1>4, <2>2, <2>3
       DEF ApplyInvoice, TypeInv, BillingTypeOK, BillingStates, subVars, couponVars
<1>5. CASE ApplyRefund(r)
  <2> DEFINE e == req[r].event
             row == [status |-> e.status, amount |-> prov[e.refund].amount]
  <2>1. req[r].op = "webhook" /\ e \in RefundEvents
    BY <1>1, <1>5, EventKinds DEF ApplyRefund, Applying, At, Placed, WebhookStates
  <2>2. /\ inbox' \in [Events -> BillingStates] /\ applied' \in [Events -> Nat]
        /\ req' \in [Requests -> RequestStates] /\ PlaceRule' /\ faults' \in Nat /\ doubt' \subseteq Events
    BY <1>1, <1>5, <2>1, AnswersTyped, ProcessedTyped DEF ApplyRefund
  <2>3. row \in RefundRows
    BY <1>1, <2>1, EventKinds DEF BillingTypeOK, RefundRows
  <2>4. rows' = [rows EXCEPT ![e.refund] = row]
    BY <1>5 DEF ApplyRefund
  <2> HIDE DEF row
  <2>5. rows' \in [Refunds -> RefundRows]
    BY <1>1, <2>3, <2>4 DEF BillingTypeOK
  <2> QED
    BY <1>1, <1>2, <1>5, <2>2, <2>5
       DEF ApplyRefund, TypeInv, BillingTypeOK, BillingStates, subVars, couponVars
<1>6. CASE ApplyCheckout(r)
  <2>1. req[r].op = "webhook" /\ req[r].event \in Events
    BY <1>1, <1>6 DEF ApplyCheckout, Applying, At, Placed, WebhookStates
  <2>2. /\ inbox' \in [Events -> BillingStates] /\ applied' \in [Events -> Nat]
        /\ req' \in [Requests -> RequestStates] /\ PlaceRule' /\ faults' \in Nat /\ doubt' \subseteq Events
    BY <1>1, <1>6, <2>1, AnswersTyped, ProcessedTyped DEF ApplyCheckout
  <2>3. /\ checkout' \in [Discounts -> {"none", "open", "complete"}]
        /\ discount' \in [Discounts -> {"none", "pending_checkout", "active"}]
    BY <1>1, <1>6 DEF ApplyCheckout, BillingTypeOK
  <2> QED
    BY <1>1, <1>2, <1>6, <2>2, <2>3
       DEF ApplyCheckout, TypeInv, BillingTypeOK, BillingStates, subVars, refundVars
<1> QED
  BY <1>3, <1>4, <1>5, <1>6

\* The steps of the other operations, and of a request that dies.
LEMMA OthersTyped ==
  ASSUME TypeInv, NEW r \in Requests,
         RecordUsage(r) \/ RequestRefund(r) \/ RedeemCoupon(r) \/ Die(r)
  PROVE  TypeInv'
<1>1. BillingTypeOK /\ req \in [Requests -> RequestStates] /\ Placed(req[r]) /\ req[r] \in RequestStates
  BY DEF TypeInv, BillingTypeOK, PlaceRule
<1>2. UNCHANGED older => Oldest(older)'
  BY DEF TypeInv, Oldest
<1>3. ASSUME NEW u \in Uses, CallUsage(r, u) PROVE TypeInv'
  <2> DEFINE x == [Idle EXCEPT !.op = "usage", !.at = "insert", !.key = u]
  <2>1. x \in RequestStates /\ x.op = "usage" /\ x.at = "insert" /\ x.key = u
    BY IdleTyped DEF RequestStates
  <2>2. Become(r, x) /\ UNCHANGED <<inbox, subVars, usage, moneyVars, faults, history>>
    BY <1>3 DEF CallUsage
  <2> HIDE DEF x
  <2>3. Placed(x)
    BY <2>1 DEF Placed, WebhookStates
  <2>4. req' \in [Requests -> RequestStates] /\ PlaceRule'
    BY <2>1, <2>2, <2>3, Becomes
  <2> QED
    BY <1>1, <1>2, <2>2, <2>4
       DEF TypeInv, BillingTypeOK, subVars, moneyVars, refundVars, couponVars, history
<1>4. CASE InsertUsage(r)
  <2>1. Is(r, "usage") /\ req[r].key \in Uses
    BY <1>1, <1>4 DEF InsertUsage, At, Is, Placed
  <2>2. req' \in [Requests -> RequestStates] /\ PlaceRule'
    BY <1>4, <2>1, Goes, Ends DEF InsertUsage
  <2> QED
    BY <1>1, <1>2, <1>4, <2>1, <2>2
       DEF InsertUsage, TypeInv, BillingTypeOK, subVars, moneyVars, refundVars, couponVars, history
<1>5. CASE CountUsage(r)
  <2>1. req[r].key \in Uses
    BY <1>1, <1>5 DEF CountUsage, At, Placed
  <2>2. req' \in [Requests -> RequestStates] /\ PlaceRule'
    BY <1>5, Ends DEF CountUsage
  <2>3. lost' \subseteq Uses
    BY <1>1, <1>5, <2>1 DEF CountUsage, BillingTypeOK
  <2>4. ent[Meter] \in Entitlements
    BY <1>1, BillingAssumption DEF BillingTypeOK
  <2>5. [ent[Meter] EXCEPT !.used = @ + 1] \in Entitlements
    BY <2>4 DEF Entitlements
  <2>6. ent' \in [Features -> Entitlements]
    BY <1>1, <1>5, <2>5 DEF CountUsage, BillingTypeOK
  <2> QED
    BY <1>1, <1>2, <1>5, <2>2, <2>3, <2>6
       DEF CountUsage, TypeInv, BillingTypeOK, moneyVars, refundVars, couponVars
<1>6. ASSUME NEW k \in Refunds, NEW n \in 1..Charge, CallRefund(r, k, n) PROVE TypeInv'
  <2> DEFINE x == [Idle EXCEPT !.op = "refund", !.at = "ask", !.key = k, !.amount = n]
  <2>1. n \in Nat
    BY BillingAssumption
  <2>2. x \in RequestStates /\ x.op = "refund" /\ x.at = "ask" /\ x.key = k
    BY <2>1, IdleTyped DEF RequestStates
  <2>3. Become(r, x) /\ UNCHANGED <<inbox, subVars, usage, moneyVars, faults, history>>
    BY <1>6 DEF CallRefund
  <2> HIDE DEF x
  <2>4. Placed(x)
    BY <2>2 DEF Placed, WebhookStates
  <2>5. req' \in [Requests -> RequestStates] /\ PlaceRule'
    BY <2>2, <2>3, <2>4, Becomes
  <2> QED
    BY <1>1, <1>2, <2>3, <2>5
       DEF TypeInv, BillingTypeOK, subVars, moneyVars, refundVars, couponVars, history
<1>7. CASE Ask(r) \/ AskLost(r)
  <2> DEFINE k == req[r].key
             row == [status |-> "live", amount |-> req[r].amount]
  <2>1. AskProvider(r) /\ Is(r, "refund") /\ k \in Refunds
    BY <1>1, <1>7 DEF Ask, AskLost, AskProvider, At, Is, Placed
  <2>2. row \in RefundRows
    BY <1>1 DEF RefundRows, RequestStates
  <2>3. prov' = prov \/ prov' = [prov EXCEPT ![k] = row]
    BY <2>1 DEF AskProvider
  <2> HIDE DEF row
  <2>4. prov' \in [Refunds -> RefundRows]
    BY <1>1, <2>1, <2>2, <2>3 DEF BillingTypeOK
  <2>5. inbox' \in [Events -> BillingStates]
    <3>1. inbox \in [Events -> BillingStates]
      BY <1>1 DEF BillingTypeOK, BillingStates
    <3> QED
      BY <3>1, <2>1, Sends DEF AskProvider
  <2>6. blind' \in BOOLEAN
    BY <1>1, <2>1 DEF AskProvider, BillingTypeOK
  <2>7. req' \in [Requests -> RequestStates] /\ PlaceRule'
    BY <1>7, <2>1, Goes, Ends DEF Ask, AskLost
  <2>8. faults' \in Nat
    BY <1>1, <1>7 DEF Ask, AskLost, Fault, BillingTypeOK
  <2> QED
    BY <1>1, <1>2, <1>7, <2>4, <2>5, <2>6, <2>7, <2>8
       DEF Ask, AskLost, TypeInv, BillingTypeOK, BillingStates, subVars, couponVars
<1>8. CASE Save(r)
  <2> DEFINE k == req[r].key
             row == [status |-> "live", amount |-> req[r].amount]
  <2>1. row \in RefundRows /\ k \in Refunds
    BY <1>1, <1>8 DEF Save, At, Placed, RefundRows, RequestStates
  <2>2. rows' = rows \/ rows' = [rows EXCEPT ![k] = row]
    BY <1>8 DEF Save
  <2> HIDE DEF row
  <2>3. rows' \in [Refunds -> RefundRows]
    BY <1>1, <2>1, <2>2 DEF BillingTypeOK
  <2>4. req' \in [Requests -> RequestStates] /\ PlaceRule'
    BY <1>8, Ends DEF Save
  <2> QED
    BY <1>1, <1>2, <1>8, <2>3, <2>4
       DEF Save, TypeInv, BillingTypeOK, subVars, couponVars, history
<1>9. ASSUME NEW d \in Discounts, CallCheckout(r, d) \/ CallApply(r, d) PROVE TypeInv'
  <2> DEFINE o == IF CallCheckout(r, d) THEN "checkout" ELSE "apply"
             s == IF CallCheckout(r, d) THEN "open" ELSE "discount"
             x == [Idle EXCEPT !.op = o, !.at = s, !.key = d]
  <2>1. x \in RequestStates /\ x.op = o /\ x.at = s /\ x.key = d
    BY IdleTyped DEF RequestStates
  <2>2. Become(r, x) /\ UNCHANGED <<inbox, subVars, usage, moneyVars, faults, history>>
    BY <1>9 DEF CallCheckout, CallApply
  <2> HIDE DEF x
  <2>3. Placed(x)
    BY <2>1 DEF Placed, WebhookStates
  <2>4. req' \in [Requests -> RequestStates] /\ PlaceRule'
    BY <2>1, <2>2, <2>3, Becomes
  <2> QED
    BY <1>1, <1>2, <2>2, <2>4
       DEF TypeInv, BillingTypeOK, subVars, moneyVars, refundVars, couponVars, history
<1>10. CASE OpenCheckout(r) \/ InsertCheckout(r)
  <2>1. Is(r, "checkout") /\ req[r].key \in Discounts
    BY <1>1, <1>10 DEF OpenCheckout, InsertCheckout, At, Is, Placed
  <2>2. req' \in [Requests -> RequestStates] /\ PlaceRule'
    BY <1>10, <2>1, Goes DEF OpenCheckout, InsertCheckout
  <2>3. opened' \subseteq Discounts /\ checkout' \in [Discounts -> {"none", "open", "complete"}]
    BY <1>1, <1>10, <2>1 DEF OpenCheckout, InsertCheckout, BillingTypeOK
  <2> QED
    BY <1>1, <1>2, <1>10, <2>2, <2>3
       DEF OpenCheckout, InsertCheckout, TypeInv, BillingTypeOK, subVars, refundVars, history
<1>11. CASE InsertDiscount(r)
  <2>1. req[r].key \in Discounts
    BY <1>1, <1>11 DEF InsertDiscount, At, Placed
  <2>2. req' \in [Requests -> RequestStates] /\ PlaceRule'
    BY <1>11, Ends DEF InsertDiscount
  <2>3. discount' \in [Discounts -> {"none", "pending_checkout", "active"}] /\ early' \subseteq Discounts
    BY <1>1, <1>11, <2>1 DEF InsertDiscount, BillingTypeOK
  <2> QED
    BY <1>1, <1>2, <1>11, <2>2, <2>3
       DEF InsertDiscount, TypeInv, BillingTypeOK, subVars, refundVars
<1>12. CASE Die(r)
  <2>1. req' \in [Requests -> RequestStates] /\ PlaceRule' /\ faults' \in Nat
    BY <1>1, <1>12, Ends DEF Die, Fault, BillingTypeOK
  <2>2. died' \subseteq Events /\ lost' \subseteq Uses
    BY <1>1, <1>12 DEF Die, BillingTypeOK, Placed, Is, At
  <2> QED
    BY <1>1, <1>2, <1>12, <2>1, <2>2
       DEF Die, TypeInv, BillingTypeOK, subVars, moneyVars, refundVars, couponVars
<1> QED
  BY <1>3, <1>4, <1>5, <1>6, <1>7, <1>8, <1>9, <1>10, <1>11, <1>12
     DEF RecordUsage, RequestRefund, RedeemCoupon

LEMMA TypeInvariance == Spec => []TypeInv
<1>1. Init => TypeInv
  <2> SUFFICES ASSUME Init PROVE TypeInv
    OBVIOUS
  <2>1. NoSubscription \in SubscriptionRows
    BY DEF NoSubscription, SubscriptionRows
  <2>2. NoEntitlement \in Entitlements
    BY DEF NoEntitlement, Entitlements
  <2>3. NoRefund \in RefundRows
    BY DEF NoRefund, RefundRows
  <2>4. BillingTypeOK
    BY <2>1, <2>2, <2>3, IdleTyped, BillingAssumption DEF Init, BillingTypeOK
  <2>5. PlaceRule
    BY IdleTyped DEF Init, PlaceRule
  <2>6. Oldest(older)
    BY DEF Init, Oldest
  <2> QED
    BY <2>4, <2>5, <2>6 DEF TypeInv
<1>2. TypeInv /\ [Next]_vars => TypeInv'
  <2> SUFFICES ASSUME TypeInv, [Next]_vars PROVE TypeInv'
    OBVIOUS
  <2>1. CASE UNCHANGED vars
    BY <2>1 DEF vars, subVars, moneyVars, refundVars, couponVars, history, TypeInv, BillingTypeOK,
      PlaceRule, Oldest
  <2>2. CASE Next
    BY <2>2, ProviderTyped, ReadTyped, AppliesTyped, OthersTyped DEF Next, Webhook
  <2> QED
    BY <2>1, <2>2
<1> QED
  BY <1>1, <1>2, PTL DEF Spec

\* What the provider and each operation leave alone.
LEMMA ProviderFrame ==
  ASSUME Provider \/ \E s \in Subs : GraceEnds(s)
  PROVE  UNCHANGED <<ent, usage, lost, checkout, discount, early, req>>
<1>1. CASE Provider
  BY <1>1 DEF Provider, SendSubscription, OpenInvoice, Pay, RefundByHand, RefundFails, CompleteCheckout,
    subVars, moneyVars, couponVars, history
<1>2. CASE \E s \in Subs : GraceEnds(s)
  BY <1>2 DEF GraceEnds, moneyVars, couponVars, history
<1> QED
  BY <1>1, <1>2

LEMMA WebhookFrame ==
  ASSUME NEW r \in Requests, Webhook(r)
  PROVE  /\ UNCHANGED <<usage, lost, early>> /\ (UNCHANGED ent \/ Write(r))
         /\ UNCHANGED <<checkout, discount>> \/ ApplyCheckout(r)
<1>1. CASE (\E e \in Events : Claim(r, e)) \/ ReadGrace(r) \/ Upsert(r) \/ Recompute(r)
             \/ Disable(r) \/ DisableLate(r) \/ Unmatched(r) \/ Fails(r) \/ Catch(r)
  BY <1>1 DEF Claim, ReadGrace, Upsert, Recompute, Disable, DisableLate, Unmatched, Fails,
    Catch, subVars, moneyVars, couponVars, history
<1>2. CASE Write(r)
  BY <1>2 DEF Write, moneyVars, couponVars
<1>3. CASE ApplyInvoice(r) \/ ApplyRefund(r)
  BY <1>3 DEF ApplyInvoice, ApplyRefund, subVars, couponVars
<1>4. CASE ApplyCheckout(r)
  BY <1>4 DEF ApplyCheckout, subVars
<1> QED
  BY <1>1, <1>2, <1>3, <1>4 DEF Webhook

LEMMA OtherFrames ==
  ASSUME NEW r \in Requests
  PROVE  /\ RecordUsage(r) => UNCHANGED <<checkout, discount, early>>
         /\ RequestRefund(r) => UNCHANGED <<ent, usage, lost, checkout, discount, early>>
         /\ RedeemCoupon(r) => UNCHANGED <<ent, usage, lost>>
         /\ Die(r) => UNCHANGED <<ent, usage, checkout, discount, early>>
<1>1. RecordUsage(r) => UNCHANGED <<checkout, discount, early>>
  BY DEF RecordUsage, CallUsage, InsertUsage, CountUsage, moneyVars, couponVars, history
<1>2. RequestRefund(r) => UNCHANGED <<ent, usage, lost, checkout, discount, early>>
  BY DEF RequestRefund, CallRefund, Ask, AskLost, Save, subVars, moneyVars, couponVars, history
<1>3. RedeemCoupon(r) => UNCHANGED <<ent, usage, lost>>
  BY DEF RedeemCoupon, CallCheckout, CallApply, OpenCheckout, InsertCheckout, InsertDiscount, subVars,
    moneyVars, couponVars, history
<1>4. Die(r) => UNCHANGED <<ent, usage, checkout, discount, early>>
  BY DEF Die, subVars, moneyVars, couponVars
<1> QED
  BY <1>1, <1>2, <1>3, <1>4

\* A step of one operation leaves the other requests alone and its own in it.
OnlyMoves(r, ops) ==
  /\ \A q \in Requests \ {r} : req'[q] = req[q]
  /\ req[r].op \in ops \cup {"none"} /\ req'[r].op \in ops \cup {"none"}
LEMMA Moves ==
  ASSUME TypeInv, NEW r \in Requests
  PROVE  /\ (\E e \in Events : Claim(r, e)) \/ ReadGrace(r) \/ Upsert(r) \/ Recompute(r) \/ Disable(r)
              \/ DisableLate(r) \/ Unmatched(r) \/ Fails(r) \/ Catch(r)
            => OnlyMoves(r, {"webhook"})
         /\ RecordUsage(r) => OnlyMoves(r, {"usage"})
         /\ RequestRefund(r) => OnlyMoves(r, {"refund"})
         /\ RedeemCoupon(r) => OnlyMoves(r, {"checkout", "apply"})
         /\ Die(r) => (\A q \in Requests \ {r} : req'[q] = req[q]) /\ req'[r] = Idle
<1>1. req \in [Requests -> RequestStates] /\ req[r] \in RequestStates /\ Placed(req[r])
  BY DEF TypeInv, BillingTypeOK, PlaceRule
<1>2. ASSUME NEW x, Become(r, x)
      PROVE  req'[r] = x /\ \A q \in Requests \ {r} : req'[q] = req[q]
  BY <1>1, <1>2 DEF Become
<1>3. ASSUME Done(r)
      PROVE  req'[r] = Idle /\ req'[r].op = "none" /\ \A q \in Requests \ {r} : req'[q] = req[q]
  BY <1>2, <1>3, IdleTyped DEF Done
<1>4. ASSUME NEW s, Go(r, s)
      PROVE  req'[r].op = req[r].op /\ \A q \in Requests \ {r} : req'[q] = req[q]
  <2>1. [req[r] EXCEPT !.at = s].op = req[r].op
    BY <1>1 DEF RequestStates
  <2> QED
    BY <1>2, <1>4, <2>1 DEF Go
<1>5. ASSUME NEW o, NEW a, NEW k, NEW n, NEW e,
             \/ Become(r, [Idle EXCEPT !.op = o, !.at = a, !.event = e])
             \/ Become(r, [Idle EXCEPT !.op = o, !.at = a, !.key = k])
             \/ Become(r, [Idle EXCEPT !.op = o, !.at = a, !.key = k, !.amount = n])
      PROVE  req'[r].op = o /\ \A q \in Requests \ {r} : req'[q] = req[q]
  <2>1. /\ [Idle EXCEPT !.op = o, !.at = a, !.event = e].op = o
        /\ [Idle EXCEPT !.op = o, !.at = a, !.key = k].op = o
        /\ [Idle EXCEPT !.op = o, !.at = a, !.key = k, !.amount = n].op = o
    BY DEF Idle
  <2> QED
    BY <1>2, <1>5, <2>1
<1>6. req[r] = Idle => req[r].op = "none"
  BY IdleTyped
<1>7. ASSUME NEW e \in Events, Claim(r, e) PROVE OnlyMoves(r, {"webhook"})
  <2>1. Become(r, [Idle EXCEPT !.op = "webhook", !.at = "apply", !.event = e]) /\ req[r] = Idle
    BY <1>7 DEF Claim
  <2>2. req'[r].op = "webhook" /\ \A q \in Requests \ {r} : req'[q] = req[q]
    BY <2>1, <1>5
  <2> QED
    BY <1>6, <2>1, <2>2 DEF OnlyMoves
<1>8. ASSUME ReadGrace(r) \/ Upsert(r) \/ Recompute(r) \/ Disable(r) \/ DisableLate(r)
      PROVE  OnlyMoves(r, {"webhook"})
  <2>1. req[r].op = "webhook"
    BY <1>1, <1>8 DEF ReadGrace, Upsert, Recompute, Disable, DisableLate, Applying, At, Placed, WebhookStates
  <2>2. ASSUME NEW x, Become(r, x), x.op = req[r].op PROVE OnlyMoves(r, {"webhook"})
    BY <1>2, <2>1, <2>2 DEF OnlyMoves
  <2>3. \A a, b, c, d : /\ [req[r] EXCEPT !.at = a, !.row = b].op = req[r].op
                       /\ [req[r] EXCEPT !.at = a, !.stale = b, !.next = c].op = req[r].op
                       /\ [req[r] EXCEPT !.at = a, !.seen = d].op = req[r].op
    BY <1>1 DEF RequestStates
  <2>4. CASE ReadGrace(r)
    BY <2>2, <2>3, <2>4 DEF ReadGrace
  <2>7. CASE Upsert(r) \/ DisableLate(r)
    BY <1>4, <2>1, <2>7 DEF Upsert, DisableLate, OnlyMoves
  <2>5. CASE Recompute(r)
    <3> DEFINE n == [f \in Features |-> IF Giving(r, f) = {} THEN None ELSE Named(r, f)]
    <3>1. Become(r, [req[r] EXCEPT !.at = "disable", !.stale = FALSE, !.next = n])
      BY <2>5 DEF Recompute
    <3> HIDE DEF n
    <3> DEFINE x == [req[r] EXCEPT !.at = "disable", !.stale = FALSE, !.next = n]
    <3>2. x.op = req[r].op
      BY <1>1 DEF RequestStates
    <3> HIDE DEF x
    <3>3. Become(r, x)
      BY <3>1 DEF x
    <3> QED
      BY <2>2, <3>2, <3>3
  <2>6. CASE Disable(r)
    BY <2>2, <2>3, <2>6 DEF Disable
  <2> QED
    BY <1>8, <2>4, <2>5, <2>6, <2>7
<1>9. ASSUME Unmatched(r) \/ Catch(r) PROVE OnlyMoves(r, {"webhook"})
  <2>1. req[r].op = "webhook"
    BY <1>1, <1>9 DEF Unmatched, Catch, Applying, At, Placed, WebhookStates
  <2> QED
    BY <1>3, <1>4, <1>9, <2>1 DEF Unmatched, Catch, OnlyMoves
<1>10. ASSUME Fails(r) PROVE OnlyMoves(r, {"webhook"})
  <2>1. /\ Become(r, [Idle EXCEPT !.op = "webhook", !.at = "catch", !.event = req[r].event])
        /\ req[r].op = "webhook"
    BY <1>10 DEF Fails, Is
  <2>2. req'[r].op = "webhook" /\ \A q \in Requests \ {r} : req'[q] = req[q]
    BY <2>1, <1>5
  <2> QED
    BY <2>1, <2>2 DEF OnlyMoves
<1>11. ASSUME RecordUsage(r) PROVE OnlyMoves(r, {"usage"})
  <2>1. ASSUME NEW u \in Uses, CallUsage(r, u) PROVE OnlyMoves(r, {"usage"})
    <3>1. Become(r, [Idle EXCEPT !.op = "usage", !.at = "insert", !.key = u]) /\ req[r] = Idle
      BY <2>1 DEF CallUsage
    <3>2. req'[r].op = "usage" /\ \A q \in Requests \ {r} : req'[q] = req[q]
      BY <3>1, <1>5
    <3> QED
      BY <1>6, <3>1, <3>2 DEF OnlyMoves
  <2>2. ASSUME InsertUsage(r) \/ CountUsage(r) PROVE OnlyMoves(r, {"usage"})
    <3>1. req[r].op = "usage" /\ (Done(r) \/ Go(r, "count"))
      BY <1>1, <2>2 DEF InsertUsage, CountUsage, At, Placed
    <3> QED
      BY <1>3, <1>4, <3>1 DEF OnlyMoves
  <2> QED
    BY <1>11, <2>1, <2>2 DEF RecordUsage
<1>12. ASSUME RequestRefund(r) PROVE OnlyMoves(r, {"refund"})
  <2>1. ASSUME NEW k \in Refunds, NEW n \in 1..Charge, CallRefund(r, k, n) PROVE OnlyMoves(r, {"refund"})
    <3>1. Become(r, [Idle EXCEPT !.op = "refund", !.at = "ask", !.key = k, !.amount = n]) /\ req[r] = Idle
      BY <2>1 DEF CallRefund
    <3>2. req'[r].op = "refund" /\ \A q \in Requests \ {r} : req'[q] = req[q]
      BY <3>1, <1>5
    <3> QED
      BY <1>6, <3>1, <3>2 DEF OnlyMoves
  <2>2. ASSUME Ask(r) \/ AskLost(r) \/ Save(r) PROVE OnlyMoves(r, {"refund"})
    <3>1. req[r].op = "refund" /\ (Done(r) \/ Go(r, "save"))
      BY <1>1, <2>2 DEF Ask, AskLost, AskProvider, Save, At, Placed
    <3> QED
      BY <1>3, <1>4, <3>1 DEF OnlyMoves
  <2> QED
    BY <1>12, <2>1, <2>2 DEF RequestRefund
<1>13. ASSUME RedeemCoupon(r) PROVE OnlyMoves(r, {"checkout", "apply"})
  <2>1. ASSUME NEW d \in Discounts, CallCheckout(r, d) PROVE OnlyMoves(r, {"checkout", "apply"})
    <3>1. Become(r, [Idle EXCEPT !.op = "checkout", !.at = "open", !.key = d]) /\ req[r] = Idle
      BY <2>1 DEF CallCheckout
    <3>2. req'[r].op = "checkout" /\ \A q \in Requests \ {r} : req'[q] = req[q]
      BY <3>1, <1>5
    <3> QED
      BY <1>6, <3>1, <3>2 DEF OnlyMoves
  <2>2. ASSUME NEW d \in Discounts, CallApply(r, d) PROVE OnlyMoves(r, {"checkout", "apply"})
    <3>1. Become(r, [Idle EXCEPT !.op = "apply", !.at = "discount", !.key = d]) /\ req[r] = Idle
      BY <2>2 DEF CallApply
    <3>2. req'[r].op = "apply" /\ \A q \in Requests \ {r} : req'[q] = req[q]
      BY <3>1, <1>5
    <3> QED
      BY <1>6, <3>1, <3>2 DEF OnlyMoves
  <2>3. ASSUME OpenCheckout(r) \/ InsertCheckout(r) \/ InsertDiscount(r)
        PROVE  OnlyMoves(r, {"checkout", "apply"})
    <3>1. req[r].op \in {"checkout", "apply"} /\ (Done(r) \/ Go(r, "session") \/ Go(r, "discount"))
      BY <1>1, <2>3 DEF OpenCheckout, InsertCheckout, InsertDiscount, At, Placed
    <3> QED
      BY <1>3, <1>4, <3>1 DEF OnlyMoves
  <2> QED
    BY <1>13, <2>1, <2>2, <2>3 DEF RedeemCoupon
<1>14. ASSUME Die(r) PROVE (\A q \in Requests \ {r} : req'[q] = req[q]) /\ req'[r] = Idle
  BY <1>3, <1>14 DEF Die
<1> QED
  BY <1>7, <1>8, <1>9, <1>10, <1>11, <1>12, <1>13, <1>14

\* The commit of an event: the other requests only learn that they are overtaken.
LEMMA Commits ==
  ASSUME TypeInv, NEW r \in Requests,
         Write(r) \/ ApplyInvoice(r) \/ ApplyRefund(r) \/ ApplyCheckout(r)
  PROVE  /\ req[r].op = "webhook" /\ req[r].at \in {"apply", "write"} /\ Processed(r, req[r].event)
         /\ doubt \subseteq doubt' /\ UNCHANGED died
         /\ \A q \in Requests \ {r} :
               /\ req'[q].op = req[q].op /\ req'[q].at = req[q].at /\ req'[q].event = req[q].event
               /\ req'[q].key = req[q].key /\ req'[q].amount = req[q].amount
         /\ \/ req'[r] = Idle
            \/ /\ req'[r].op = "webhook" /\ req'[r].at = "catch" /\ req'[r].event = req[r].event
               /\ req[r].event \in doubt'
<1>1. Placed(req[r]) /\ req \in [Requests -> RequestStates]
  BY DEF TypeInv, BillingTypeOK, PlaceRule
<1>2. CASE Write(r)
  <2> DEFINE others == [q \in Requests |->
                          [req[q] EXCEPT !.stale = @ \/ req[q].at \in {"disable", "wait", "write"}]]
  <2>1. \A q \in Requests : others[q] \in RequestStates
                             /\ others[q].at = req[q].at /\ others[q].op = req[q].op
                             /\ others[q].event = req[q].event /\ others[q].key = req[q].key
                             /\ others[q].amount = req[q].amount
    <3> SUFFICES ASSUME NEW q \in Requests
                 PROVE  others[q] \in RequestStates
                        /\ others[q].at = req[q].at /\ others[q].op = req[q].op
                        /\ others[q].event = req[q].event /\ others[q].key = req[q].key
                        /\ others[q].amount = req[q].amount
      OBVIOUS
    <3>1. req[q] \in RequestStates
      BY <1>1
    <3>2. others[q] = [req[q] EXCEPT !.stale = req[q].stale \/ req[q].at \in {"disable", "wait", "write"}]
      OBVIOUS
    <3> QED
      BY <3>1, <3>2 DEF RequestStates
  <2>2. others \in [Requests -> RequestStates]
    BY <2>1
  <2>3. /\ Answered(r, others) /\ Processed(r, req[r].event) /\ UNCHANGED died
        /\ req[r].op = "webhook" /\ req[r].at = "write"
    BY <1>1, <1>2 DEF Write, At, Placed, WebhookStates
  <2> HIDE DEF others
  <2> QED
    BY <1>1, <2>1, <2>2, <2>3, AnswersTyped
<1>3. CASE ApplyInvoice(r) \/ ApplyRefund(r) \/ ApplyCheckout(r)
  <2>1. /\ Answered(r, req) /\ Processed(r, req[r].event) /\ UNCHANGED died
        /\ req[r].op = "webhook" /\ req[r].at = "apply"
    BY <1>1, <1>3 DEF ApplyInvoice, ApplyRefund, ApplyCheckout, Applying, At, Placed, WebhookStates
  <2> QED
    BY <1>1, <2>1, AnswersTyped
<1> QED
  BY <1>2, <1>3

-----------------------------------------------------------------------------
(* An event is applied once *)

Works(r, e) == Is(r, "webhook") /\ req[r].event = e

\* An event in work has one request, which has not applied it, unless an earlier
\* commit was taken for a failure.
WorkRule ==
  /\ \A r, q \in Requests : Is(r, "webhook") /\ Works(q, req[r].event) => r = q
  /\ \A r \in Requests : Is(r, "webhook") =>
       /\ \/ inbox[req[r].event] = "processing"
          \/ At(r, "catch") /\ inbox[req[r].event] = "processed"
       /\ applied[req[r].event] = 0 \/ req[r].event \in doubt
  /\ \A e \in Events : inbox[e] # "processed" => applied[e] = 0 \/ e \in doubt
AppliedInv == WorkRule /\ AppliedOnce

\* A step after which the same events are in work.
LEMMA WorkGoesOn ==
  ASSUME TypeInv, AppliedInv, UNCHANGED <<applied, doubt>>, died \subseteq died',
         \A e \in Events : inbox'[e] = inbox[e] \/ (inbox[e] = "unsent" /\ inbox'[e] = "sent"),
         \A q \in Requests : Is(q, "webhook")' <=> Is(q, "webhook"),
         \A q \in Requests : Is(q, "webhook") =>
            req'[q].event = req[q].event /\ (At(q, "catch") => At(q, "catch")')
  PROVE  AppliedInv'
<1>1. \A q \in Requests : Is(q, "webhook") => req[q].event \in Events
  BY DEF TypeInv, PlaceRule, Placed, Is
<1>2. WorkRule'
  BY <1>1 DEF AppliedInv, WorkRule, Works
<1>3. AppliedOnce'
  BY <1>1 DEF AppliedInv, AppliedOnce
<1> QED
  BY <1>2, <1>3 DEF AppliedInv

\* A message to the inbox changes no event that was sent.
LEMMA SendsOnly ==
  ASSUME TypeInv, NEW e, Send(e)
  PROVE  \A d \in Events : inbox'[d] = inbox[d] \/ (inbox[d] = "unsent" /\ inbox'[d] = "sent")
BY DEF TypeInv, BillingTypeOK, Send

\* The statements of a webhook before its commit leave its event alone.
LEMMA KeepsEvent ==
  ASSUME TypeInv, NEW r \in Requests,
         ReadGrace(r) \/ Upsert(r) \/ Recompute(r) \/ Disable(r) \/ DisableLate(r) \/ Unmatched(r)
           \/ Fails(r)
  PROVE  /\ req[r].op = "webhook" /\ req[r].at # "catch" /\ req'[r].op = "webhook"
         /\ req'[r].event = req[r].event
         /\ \A q \in Requests \ {r} : req'[q] = req[q]
<1>1. req \in [Requests -> RequestStates] /\ req[r] \in RequestStates /\ Placed(req[r])
  BY DEF TypeInv, BillingTypeOK, PlaceRule
<1>2. req[r].op = "webhook" /\ req[r].at # "catch"
  BY <1>1 DEF ReadGrace, Upsert, Recompute, Disable, DisableLate, Unmatched, Fails,
    Applying, At, Is, Placed, WebhookStates
<1>3. ASSUME NEW x, Become(r, x), x.op = "webhook", x.event = req[r].event
      PROVE  /\ req'[r].op = "webhook" /\ req'[r].event = req[r].event
             /\ \A q \in Requests \ {r} : req'[q] = req[q]
  BY <1>1, <1>3 DEF Become
<1>4. CASE ReadGrace(r)
  <2> DEFINE e == req[r].event
             row == [status |-> e.status, grace |-> GraceAfter(e), plan |-> e.plan]
             x == [req[r] EXCEPT !.at = "upsert", !.row = row]
  <2>1. Become(r, x)
    BY <1>4 DEF ReadGrace
  <2> HIDE DEF row
  <2>2. x.op = req[r].op /\ x.event = req[r].event
    BY <1>1 DEF RequestStates
  <2> HIDE DEF x
  <2> QED
    BY <1>2, <1>3, <2>1, <2>2
<1>5. CASE Recompute(r)
  <2> DEFINE n == [f \in Features |-> IF Giving(r, f) = {} THEN None ELSE Named(r, f)]
             x == [req[r] EXCEPT !.at = "disable", !.stale = FALSE, !.next = n]
  <2>1. Become(r, x)
    BY <1>5 DEF Recompute
  <2> HIDE DEF n
  <2>2. x.op = req[r].op /\ x.event = req[r].event
    BY <1>1 DEF RequestStates
  <2> HIDE DEF x
  <2> QED
    BY <1>2, <1>3, <2>1, <2>2
<1>6. CASE Disable(r)
  <2> DEFINE at == IF Free THEN "write" ELSE "wait"
             x == [req[r] EXCEPT !.at = at, !.seen = Existing]
  <2>1. Become(r, x)
    BY <1>6 DEF Disable
  <2>2. x.op = req[r].op /\ x.event = req[r].event
    BY <1>1 DEF RequestStates
  <2> HIDE DEF x
  <2> QED
    BY <1>2, <1>3, <2>1, <2>2
<1>9. ASSUME NEW s, Go(r, s)
      PROVE  /\ req'[r].op = "webhook" /\ req'[r].event = req[r].event
             /\ \A q \in Requests \ {r} : req'[q] = req[q]
  <2> DEFINE x == [req[r] EXCEPT !.at = s]
  <2>1. Become(r, x)
    BY <1>9 DEF Go
  <2>2. x.op = req[r].op /\ x.event = req[r].event
    BY <1>1 DEF RequestStates
  <2> HIDE DEF x
  <2> QED
    BY <1>2, <1>3, <2>1, <2>2
<1>10. CASE Upsert(r) \/ DisableLate(r)
  BY <1>2, <1>9, <1>10 DEF Upsert, DisableLate
<1>7. CASE Unmatched(r)
  <2> DEFINE x == [req[r] EXCEPT !.at = "catch"]
  <2>1. Become(r, x)
    BY <1>7 DEF Unmatched, Go
  <2>2. x.op = req[r].op /\ x.event = req[r].event
    BY <1>1 DEF RequestStates
  <2> HIDE DEF x
  <2> QED
    BY <1>2, <1>3, <2>1, <2>2
<1>8. CASE Fails(r)
  <2> DEFINE x == [Idle EXCEPT !.op = "webhook", !.at = "catch", !.event = req[r].event]
  <2>1. Become(r, x)
    BY <1>8 DEF Fails
  <2>2. x.op = "webhook" /\ x.event = req[r].event
    BY DEF Idle
  <2> HIDE DEF x
  <2> QED
    BY <1>3, <2>1, <2>2, <1>2
<1> QED
  BY <1>2, <1>4, <1>5, <1>6, <1>7, <1>8, <1>10

\* Before its commit a webhook goes on working on what it has claimed.
LEMMA WorkersKeep ==
  ASSUME TypeInv, AppliedInv, NEW r \in Requests,
         ReadGrace(r) \/ Upsert(r) \/ Recompute(r) \/ Disable(r) \/ DisableLate(r) \/ Unmatched(r)
           \/ Fails(r)
  PROVE  AppliedInv'
<1>1. UNCHANGED <<applied, doubt, died, inbox>>
  BY DEF ReadGrace, Upsert, Recompute, Disable, DisableLate, Unmatched, Fails, history
<1>2. /\ req[r].op = "webhook" /\ req[r].at # "catch" /\ req'[r].op = "webhook"
      /\ req'[r].event = req[r].event
      /\ \A q \in Requests \ {r} : req'[q] = req[q]
  BY KeepsEvent
<1>3. \A q \in Requests :
         /\ Is(q, "webhook")' <=> Is(q, "webhook")
         /\ Is(q, "webhook") => req'[q].event = req[q].event /\ (At(q, "catch") => At(q, "catch")')
  BY <1>2 DEF Is, At
<1> QED
  BY <1>1, <1>3, WorkGoesOn

\* Only a claimed event is in work, and nobody was at work on it.
LEMMA ClaimWorks ==
  ASSUME TypeInv, AppliedInv, NEW r \in Requests, NEW e \in Events, Claim(r, e)
  PROVE  AppliedInv'
<1>1. /\ req \in [Requests -> RequestStates]
      /\ inbox \in [Events -> {"unsent", "sent", "processing", "processed", "failed"}]
      /\ \A q \in Requests : Is(q, "webhook") => req[q].event \in Events
  BY DEF TypeInv, BillingTypeOK, PlaceRule, Placed, Is
<1> DEFINE x == [Idle EXCEPT !.op = "webhook", !.at = "apply", !.event = e]
<1>2. x.op = "webhook" /\ x.at = "apply" /\ x.event = e
  BY DEF Idle
<1>3. /\ req[r].op = "none" /\ inbox[e] \in {"sent", "failed"} /\ Become(r, x)
      /\ inbox' = [inbox EXCEPT ![e] = "processing"] /\ UNCHANGED <<applied, doubt, died>>
  BY IdleTyped DEF Claim, Claimable, history
<1> HIDE DEF x
<1>4. /\ req'[r].op = "webhook" /\ req'[r].at = "apply" /\ req'[r].event = e
      /\ \A q \in Requests \ {r} : req'[q] = req[q]
  BY <1>1, <1>2, <1>3 DEF Become
<1>5. \A q \in Requests : Is(q, "webhook") => req[q].event # e
  BY <1>1, <1>3 DEF AppliedInv, WorkRule
<1>6. applied[e] = 0 \/ e \in doubt
  BY <1>3 DEF AppliedInv, WorkRule
<1>7. inbox'[e] = "processing" /\ \A d \in Events \ {e} : inbox'[d] = inbox[d]
  BY <1>1, <1>3
<1>8. \A q \in Requests : \/ q = r /\ Is(q, "webhook")' /\ req'[q].event = e
                          \/ /\ q # r /\ Is(q, "webhook")' = Is(q, "webhook")
                             /\ req'[q].event = req[q].event /\ At(q, "catch")' = At(q, "catch")
  BY <1>4 DEF Is, At
<1>9. WorkRule'
  <2>1. (\A p, q \in Requests : Is(p, "webhook") /\ Works(q, req[p].event) => p = q)'
    BY <1>5, <1>8 DEF AppliedInv, WorkRule, Works
  <2>2. (\A q \in Requests : Is(q, "webhook") =>
           /\ \/ inbox[req[q].event] = "processing"
              \/ At(q, "catch") /\ inbox[req[q].event] = "processed"
           /\ applied[req[q].event] = 0 \/ req[q].event \in doubt)'
    BY <1>1, <1>3, <1>5, <1>6, <1>7, <1>8 DEF AppliedInv, WorkRule
  <2>3. (\A d \in Events : inbox[d] # "processed" => applied[d] = 0 \/ d \in doubt)'
    BY <1>3, <1>6, <1>7 DEF AppliedInv, WorkRule
  <2> QED
    BY <2>1, <2>2, <2>3 DEF WorkRule
<1>10. AppliedOnce'
  <2> SUFFICES ASSUME NEW d \in Events
               PROVE  /\ applied'[d] <= 1 \/ d \in doubt'
                      /\ inbox'[d] = "processed" => applied'[d] >= 1
                      /\ inbox'[d] = "processing"
                         => d \in died' \/ \E q \in Requests : Is(q, "webhook")' /\ req'[q].event = d
    BY DEF AppliedOnce
  <2>1. CASE d = e
    BY <1>3, <1>7, <1>8, <2>1 DEF AppliedInv, AppliedOnce
  <2>2. CASE d # e
    <3>1. /\ applied[d] <= 1 \/ d \in doubt
          /\ inbox[d] = "processed" => applied[d] >= 1
          /\ inbox[d] = "processing"
             => d \in died \/ \E q \in Requests : Is(q, "webhook") /\ req[q].event = d
      BY DEF AppliedInv, AppliedOnce
    <3>2. ~Is(r, "webhook")
      BY <1>3 DEF Is
    <3> QED
      BY <1>3, <1>7, <1>8, <2>2, <3>1, <3>2
  <2> QED
    BY <2>1, <2>2
<1> QED
  BY <1>9, <1>10 DEF AppliedInv

\* The catch block marks the event that it has worked on.
LEMMA CatchWorks ==
  ASSUME TypeInv, AppliedInv, NEW r \in Requests, Catch(r)
  PROVE  AppliedInv'
<1> DEFINE e == req[r].event
<1>1. /\ req \in [Requests -> RequestStates] /\ req[r].op = "webhook" /\ e \in Events
      /\ inbox \in [Events -> {"unsent", "sent", "processing", "processed", "failed"}]
      /\ \A q \in Requests : Is(q, "webhook") => req[q].event \in Events
  BY DEF TypeInv, BillingTypeOK, PlaceRule, Placed, Is, Catch, At, WebhookStates
<1>2. inbox' = [inbox EXCEPT ![e] = "failed"] /\ UNCHANGED <<applied, doubt, died>>
  BY DEF Catch, history
<1>3. req'[r].op = "none" /\ \A q \in Requests \ {r} : req'[q] = req[q]
  BY Ends, IdleTyped DEF Catch
<1>4. \A q \in Requests \ {r} : Is(q, "webhook") => req[q].event # e
  BY <1>1 DEF AppliedInv, WorkRule, Works, Is
<1>5. applied[e] = 0 \/ e \in doubt
  BY <1>1 DEF AppliedInv, WorkRule, Is
<1> HIDE DEF e
<1>6. inbox'[e] = "failed" /\ \A d \in Events \ {e} : inbox'[d] = inbox[d]
  BY <1>1, <1>2
<1>7. \A q \in Requests : \/ q = r /\ ~Is(q, "webhook")'
                          \/ /\ q # r /\ Is(q, "webhook")' = Is(q, "webhook")
                             /\ req'[q].event = req[q].event /\ At(q, "catch")' = At(q, "catch")
  BY <1>3 DEF Is, At
<1>8. WorkRule'
  BY <1>1, <1>2, <1>4, <1>5, <1>6, <1>7 DEF AppliedInv, WorkRule, Works
<1>9. AppliedOnce'
  <2> SUFFICES ASSUME NEW d \in Events
               PROVE  /\ applied'[d] <= 1 \/ d \in doubt'
                      /\ inbox'[d] = "processed" => applied'[d] >= 1
                      /\ inbox'[d] = "processing"
                         => d \in died' \/ \E q \in Requests : Is(q, "webhook")' /\ req'[q].event = d
    BY DEF AppliedOnce
  <2>1. CASE d = e
    BY <1>2, <1>6, <2>1 DEF AppliedInv, AppliedOnce
  <2>2. CASE d # e
    BY <1>2, <1>6, <1>7, <2>2 DEF AppliedInv, AppliedOnce, e
  <2> QED
    BY <2>1, <2>2
<1> QED
  BY <1>8, <1>9 DEF AppliedInv

\* A commit applies an event that was not applied, or whose commit was in doubt.
LEMMA CommitWorks ==
  ASSUME TypeInv, AppliedInv, NEW r \in Requests,
         Write(r) \/ ApplyInvoice(r) \/ ApplyRefund(r) \/ ApplyCheckout(r)
  PROVE  AppliedInv'
<1> DEFINE e == req[r].event
<1>1. /\ req \in [Requests -> RequestStates] /\ e \in Events
      /\ inbox \in [Events -> {"unsent", "sent", "processing", "processed", "failed"}]
      /\ applied \in [Events -> Nat]
      /\ \A q \in Requests : Is(q, "webhook") => req[q].event \in Events
  BY Commits DEF TypeInv, BillingTypeOK, PlaceRule, Placed, Is
<1>2. /\ req[r].op = "webhook" /\ req[r].at # "catch" /\ Processed(r, e)
      /\ doubt \subseteq doubt' /\ UNCHANGED died
      /\ \A q \in Requests \ {r} :
            req'[q].op = req[q].op /\ req'[q].at = req[q].at /\ req'[q].event = req[q].event
      /\ \/ req'[r].op = "none"
         \/ /\ req'[r].op = "webhook" /\ req'[r].at = "catch" /\ req'[r].event = e /\ e \in doubt'
  BY Commits, IdleTyped
<1>3. inbox' = [inbox EXCEPT ![e] = "processed"] /\ applied' = [applied EXCEPT ![e] = applied[e] + 1]
  BY <1>2 DEF Processed
<1>4. \A q \in Requests \ {r} : Is(q, "webhook") => req[q].event # e
  BY <1>1, <1>2 DEF AppliedInv, WorkRule, Works, Is
<1>5. applied[e] = 0 \/ e \in doubt
  BY <1>1, <1>2 DEF AppliedInv, WorkRule, Is
<1> HIDE DEF e
<1>6. /\ inbox'[e] = "processed" /\ applied'[e] = applied[e] + 1
      /\ \A d \in Events \ {e} : inbox'[d] = inbox[d] /\ applied'[d] = applied[d]
  BY <1>1, <1>3
<1>7. \A q \in Requests : \/ q = r /\ (Is(q, "webhook")' => At(q, "catch")' /\ req'[q].event = e /\ e \in doubt')
                          \/ /\ q # r /\ Is(q, "webhook")' = Is(q, "webhook")
                             /\ req'[q].event = req[q].event /\ At(q, "catch")' = At(q, "catch")
  BY <1>2 DEF Is, At
<1>8. WorkRule'
  <2>1. (\A p, q \in Requests : Is(p, "webhook") /\ Works(q, req[p].event) => p = q)'
    BY <1>4, <1>7 DEF AppliedInv, WorkRule, Works
  <2>2. (\A q \in Requests : Is(q, "webhook") =>
           /\ \/ inbox[req[q].event] = "processing"
              \/ At(q, "catch") /\ inbox[req[q].event] = "processed"
           /\ applied[req[q].event] = 0 \/ req[q].event \in doubt)'
    BY <1>1, <1>2, <1>4, <1>6, <1>7 DEF AppliedInv, WorkRule
  <2>3. (\A d \in Events : inbox[d] # "processed" => applied[d] = 0 \/ d \in doubt)'
    BY <1>2, <1>6 DEF AppliedInv, WorkRule
  <2> QED
    BY <2>1, <2>2, <2>3 DEF WorkRule
<1>9. AppliedOnce'
  <2> SUFFICES ASSUME NEW d \in Events
               PROVE  /\ applied'[d] <= 1 \/ d \in doubt'
                      /\ inbox'[d] = "processed" => applied'[d] >= 1
                      /\ inbox'[d] = "processing"
                         => d \in died' \/ \E q \in Requests : Is(q, "webhook")' /\ req'[q].event = d
    BY DEF AppliedOnce
  <2>1. CASE d = e
    <3>1. applied[e] \in Nat
      BY <1>1
    <3> QED
      BY <1>2, <1>5, <1>6, <2>1, <3>1
  <2>2. CASE d # e
    BY <1>2, <1>6, <1>7, <2>2 DEF AppliedInv, AppliedOnce, e
  <2> QED
    BY <2>1, <2>2
<1> QED
  BY <1>8, <1>9 DEF AppliedInv

\* A request that dies leaves its event behind.
LEMMA DieWorks ==
  ASSUME TypeInv, AppliedInv, NEW r \in Requests, Die(r)
  PROVE  AppliedInv'
<1>1. \A q \in Requests : Is(q, "webhook") => req[q].event \in Events
  BY DEF TypeInv, PlaceRule, Placed, Is
<1>2. /\ req'[r].op = "none" /\ \A q \in Requests \ {r} : req'[q] = req[q]
      /\ UNCHANGED <<applied, doubt, inbox>> /\ died \subseteq died'
      /\ (Is(r, "webhook") => req[r].event \in died')
  BY Moves, IdleTyped DEF Die
<1>3. \A q \in Requests : \/ q = r /\ ~Is(q, "webhook")'
                          \/ /\ q # r /\ Is(q, "webhook")' = Is(q, "webhook")
                             /\ req'[q].event = req[q].event /\ At(q, "catch")' = At(q, "catch")
  BY <1>2 DEF Is, At
<1>4. WorkRule'
  BY <1>1, <1>2, <1>3 DEF AppliedInv, WorkRule, Works
<1>5. AppliedOnce'
  BY <1>1, <1>2, <1>3 DEF AppliedInv, AppliedOnce
<1> QED
  BY <1>4, <1>5 DEF AppliedInv

\* The provider and the other operations are at work on no event.
LEMMA OthersWork ==
  ASSUME TypeInv, AppliedInv,
         \/ Provider \/ \E s \in Subs : GraceEnds(s)
         \/ \E r \in Requests : RecordUsage(r) \/ RequestRefund(r) \/ RedeemCoupon(r)
  PROVE  AppliedInv'
<1>1. \A e \in Events : inbox'[e] = inbox[e] \/ (inbox[e] = "unsent" /\ inbox'[e] = "sent")
  <2>1. (\E e : Send(e)) \/ UNCHANGED inbox
    BY DEF Provider, SendSubscription, OpenInvoice, Pay, RefundByHand, RefundFails, CompleteCheckout,
      GraceEnds, RecordUsage, CallUsage, InsertUsage, CountUsage, RequestRefund, CallRefund, Ask, AskLost,
      AskProvider, Save, RedeemCoupon, CallCheckout, CallApply, OpenCheckout, InsertCheckout, InsertDiscount
  <2> QED
    BY <2>1, SendsOnly
<1>2. UNCHANGED <<applied, doubt, died>>
  BY DEF Provider, SendSubscription, OpenInvoice, Pay, RefundByHand, RefundFails, CompleteCheckout,
    GraceEnds, RecordUsage, CallUsage, InsertUsage, CountUsage, RequestRefund, CallRefund, Ask, AskLost,
    Save, RedeemCoupon, CallCheckout, CallApply, OpenCheckout, InsertCheckout, InsertDiscount, history
<1>3. \A q \in Requests :
         /\ Is(q, "webhook")' <=> Is(q, "webhook")
         /\ Is(q, "webhook") => req'[q].event = req[q].event /\ (At(q, "catch") => At(q, "catch")')
  <2>1. CASE Provider \/ \E s \in Subs : GraceEnds(s)
    <3>1. UNCHANGED req
      BY <2>1, ProviderFrame
    <3> QED
      BY <3>1 DEF Is, At
  <2>2. ASSUME NEW r \in Requests, RecordUsage(r) \/ RequestRefund(r) \/ RedeemCoupon(r)
        PROVE  \A q \in Requests :
                 /\ Is(q, "webhook")' <=> Is(q, "webhook")
                 /\ Is(q, "webhook")
                    => req'[q].event = req[q].event /\ (At(q, "catch") => At(q, "catch")')
    <3>1. /\ \A q \in Requests \ {r} : req'[q] = req[q]
          /\ req[r].op # "webhook" /\ req'[r].op # "webhook"
      BY <2>2, Moves DEF OnlyMoves
    <3> QED
      BY <3>1 DEF Is, At
  <2> QED
    BY <2>1, <2>2
<1> QED
  BY <1>1, <1>2, <1>3, WorkGoesOn

LEMMA AppliedInvariance == Spec => []AppliedInv
<1>1. Init => AppliedInv
  <2> SUFFICES ASSUME Init PROVE AppliedInv
    OBVIOUS
  <2>1. \A r \in Requests : ~Is(r, "webhook")
    BY IdleTyped DEF Init, Is
  <2> QED
    BY <2>1 DEF Init, AppliedInv, WorkRule, AppliedOnce
<1>2. TypeInv /\ AppliedInv /\ [Next]_vars => AppliedInv'
  <2> SUFFICES ASSUME TypeInv, AppliedInv, [Next]_vars PROVE AppliedInv'
    OBVIOUS
  <2>1. CASE UNCHANGED vars
    BY <2>1 DEF vars, history, AppliedInv, WorkRule, AppliedOnce, Works, Is, At
  <2>2. CASE Next
    BY <2>2, OthersWork, ClaimWorks, WorkersKeep, CatchWorks, CommitWorks, DieWorks DEF Next, Webhook
  <2> QED
    BY <2>1, <2>2
<1> QED
  BY <1>1, <1>2, TypeInvariance, PTL DEF Spec

\* However requests race, fail, die and are answered too late: each event of the
\* provider is applied once by handleWebhook (packages/billing/src/service.ts),
\* but for one whose commit was taken for a failure.
THEOREM EventsAppliedOnce == Spec => []AppliedOnce
<1>1. AppliedInv => AppliedOnce
  BY DEF AppliedInv
<1> QED
  BY <1>1, AppliedInvariance, PTL

-----------------------------------------------------------------------------
(* Every recorded use is counted once *)

Counters == {r \in Requests : At(r, "count")}

\* A use that is about to be counted is recorded, and one request counts it.
UsageInv ==
  /\ lost \subseteq usage
  /\ \A r \in Counters : req[r].key \in usage \ lost
  /\ \A r, q \in Counters : req[r].key = req[q].key => r = q
  /\ UsageExact

LEMMA UsageSets ==
  ASSUME TypeInv
  PROVE  /\ IsFiniteSet(usage) /\ IsFiniteSet(lost) /\ IsFiniteSet(Counters)
         /\ Cardinality(usage) \in Nat /\ Cardinality(lost) \in Nat /\ Cardinality(Counters) \in Nat
         /\ ent \in [Features -> Entitlements] /\ Meter \in Features /\ ent[Meter].used \in Nat
<1>1. usage \subseteq Uses /\ lost \subseteq Uses /\ Counters \subseteq Requests
  BY DEF TypeInv, BillingTypeOK, Counters
<1>2. IsFiniteSet(usage) /\ IsFiniteSet(lost) /\ IsFiniteSet(Counters)
  BY <1>1, FS_Subset, BillingAssumption
<1>3. ent \in [Features -> Entitlements] /\ Meter \in Features
  BY BillingAssumption DEF TypeInv, BillingTypeOK
<1>4. ent[Meter].used \in Nat
  BY <1>3 DEF Entitlements
<1> QED
  BY <1>2, <1>3, <1>4, FS_CardinalityType

\* A step after which the same uses are about to be counted.
LEMMA UsageGoesOn ==
  ASSUME TypeInv, UsageInv, UNCHANGED <<usage, lost>>, ent'[Meter].used = ent[Meter].used,
         \A q \in Requests : req'[q].at = "count" <=> req[q].at = "count",
         \A q \in Requests : req[q].at = "count" => req'[q].key = req[q].key
  PROVE  UsageInv'
<1>1. UNCHANGED Counters
  BY DEF Counters, At
<1>2. \A q \in Counters : req'[q].key = req[q].key
  BY DEF Counters, At
<1>3. UsageExact <=> ent[Meter].used = Cardinality(usage) - Cardinality(lost) - Cardinality(Counters)
  BY DEF UsageExact, Counters
<1>4. UsageExact' <=> ent'[Meter].used = Cardinality(usage') - Cardinality(lost') - Cardinality(Counters')
  BY DEF UsageExact, Counters
<1> QED
  BY <1>1, <1>2, <1>3, <1>4 DEF UsageInv

\* A request that counts leaves: its use is counted, or lost.
LEMMA CountEnds ==
  ASSUME TypeInv, UsageInv, NEW r \in Counters, req'[r] = Idle, UNCHANGED usage,
         \A q \in Requests \ {r} : req'[q] = req[q],
         \/ UNCHANGED lost /\ ent'[Meter].used = ent[Meter].used + 1
         \/ lost' = lost \cup {req[r].key} /\ ent'[Meter].used = ent[Meter].used
  PROVE  UsageInv'
<1>1. Counters' = Counters \ {r} /\ r \in Requests
  BY IdleTyped DEF Counters, At
<1>2. Cardinality(Counters') = Cardinality(Counters) - 1
  BY <1>1, UsageSets, FS_RemoveElement
<1>3. req[r].key \in usage \ lost
  BY DEF UsageInv
<1>4. Cardinality(lost \cup {req[r].key}) = Cardinality(lost) + 1
  BY <1>3, UsageSets, FS_AddElement
<1>5. ent[Meter].used = Cardinality(usage) - Cardinality(lost) - Cardinality(Counters)
  BY DEF UsageInv, UsageExact, Counters
<1>6. ent'[Meter].used = Cardinality(usage') - Cardinality(lost') - Cardinality(Counters')
  <2>1. Cardinality(usage) \in Nat /\ Cardinality(lost) \in Nat /\ Cardinality(Counters) \in Nat
    BY UsageSets
  <2>2. CASE UNCHANGED lost /\ ent'[Meter].used = ent[Meter].used + 1
    BY <1>2, <1>5, <2>1, <2>2
  <2>3. CASE lost' = lost \cup {req[r].key} /\ ent'[Meter].used = ent[Meter].used
    BY <1>2, <1>4, <1>5, <2>1, <2>3
  <2> QED
    BY <2>2, <2>3
<1>7. UsageExact'
  BY <1>6 DEF UsageExact, Counters
<1>8. \A q \in Counters' : q \in Counters /\ q # r /\ req'[q].key = req[q].key
  BY <1>1 DEF Counters
<1>9. lost' \subseteq usage' /\ \A q \in Counters' : req'[q].key \in usage' \ lost'
  BY <1>3, <1>8 DEF UsageInv
<1>10. \A q, p \in Counters' : req'[q].key = req'[p].key => q = p
  BY <1>8 DEF UsageInv
<1> QED
  BY <1>7, <1>9, <1>10 DEF UsageInv

\* recordUsage.
LEMMA RecordCounts ==
  ASSUME TypeInv, TypeInv', UsageInv, NEW r \in Requests, RecordUsage(r)
  PROVE  UsageInv'
<1>1. /\ req \in [Requests -> RequestStates] /\ Placed(req[r])
      /\ ent \in [Features -> Entitlements] /\ Meter \in Features
      /\ \A q \in Requests \ {r} : req'[q] = req[q]
  BY UsageSets, Moves DEF TypeInv, BillingTypeOK, PlaceRule, OnlyMoves
<1>2. ASSUME NEW u \in Uses, CallUsage(r, u) PROVE UsageInv'
  <2> DEFINE x == [Idle EXCEPT !.op = "usage", !.at = "insert", !.key = u]
  <2>1. x.at = "insert"
    BY DEF Idle
  <2>2. Become(r, x) /\ req[r].at = "idle" /\ UNCHANGED <<usage, lost, ent>>
    BY <1>2, IdleTyped DEF CallUsage, history, subVars
  <2> HIDE DEF x
  <2>3. req'[r].at = "insert"
    BY <1>1, <2>1, <2>2 DEF Become
  <2> QED
    BY <1>1, <2>2, <2>3, UsageGoesOn
<1>3. ASSUME InsertUsage(r), req[r].key \in usage PROVE UsageInv'
  <2>1. req'[r].at = "idle" /\ req[r].at = "insert" /\ UNCHANGED <<lost, ent>> /\ usage' = usage
    BY <1>3, Ends, IdleTyped DEF InsertUsage, At, history, subVars
  <2> QED
    BY <1>1, <2>1, UsageGoesOn
<1>4. ASSUME InsertUsage(r), req[r].key \notin usage PROVE UsageInv'
  <2> DEFINE u == req[r].key
  <2>1. /\ req[r].at = "insert" /\ Is(r, "usage") /\ Go(r, "count") /\ usage' = usage \cup {u}
        /\ UNCHANGED <<lost, ent>>
    BY <1>1, <1>4 DEF InsertUsage, At, Is, Placed, history, subVars
  <2>2. req'[r].at = "count" /\ req'[r].key = u
    BY <2>1, Goes
  <2>3. Counters' = Counters \cup {r} /\ r \notin Counters
    BY <1>1, <2>1, <2>2 DEF Counters, At
  <2>4. Cardinality(Counters') = Cardinality(Counters) + 1
    BY <2>3, UsageSets, FS_AddElement
  <2>5. Cardinality(usage') = Cardinality(usage) + 1
    BY <1>4, <2>1, UsageSets, FS_AddElement
  <2>6. ent[Meter].used = Cardinality(usage) - Cardinality(lost) - Cardinality(Counters)
    BY DEF UsageInv, UsageExact, Counters
  <2>7. ent'[Meter].used = Cardinality(usage') - Cardinality(lost') - Cardinality(Counters')
    BY <2>1, <2>4, <2>5, <2>6, UsageSets
  <2>8. UsageExact'
    BY <2>7 DEF UsageExact, Counters
  <2>9. \A q \in Counters : req'[q].key = req[q].key /\ req[q].key \in usage \ lost
    BY <1>1, <2>3 DEF UsageInv, Counters
  <2>10. lost' \subseteq usage' /\ \A q \in Counters' : req'[q].key \in usage' \ lost'
    BY <1>4, <2>1, <2>2, <2>3, <2>9 DEF UsageInv
  <2>11. \A q, p \in Counters' : req'[q].key = req'[p].key => q = p
    BY <1>4, <2>2, <2>3, <2>9 DEF UsageInv
  <2> QED
    BY <2>8, <2>10, <2>11 DEF UsageInv
<1>5. CASE CountUsage(r)
  <2>1. r \in Counters /\ req'[r] = Idle /\ UNCHANGED usage
    BY <1>5, Ends DEF CountUsage, Counters
  <2>2. CASE Meter \in Existing
    <3>1. ent' = [ent EXCEPT ![Meter].used = @ + 1] /\ UNCHANGED lost
      BY <1>5, <2>2 DEF CountUsage
    <3>2. ent[Meter] \in Entitlements /\ ent'[Meter] = [ent[Meter] EXCEPT !.used = ent[Meter].used + 1]
      BY <1>1, <3>1
    <3>3. ent'[Meter].used = ent[Meter].used + 1
      BY <3>2 DEF Entitlements
    <3> QED
      BY <1>1, <2>1, <3>1, <3>3, CountEnds
  <2>3. CASE Meter \notin Existing
    <3>1. lost' = lost \cup {req[r].key} /\ ent' = ent
      BY <1>5, <2>3 DEF CountUsage
    <3> QED
      BY <1>1, <2>1, <3>1, CountEnds
  <2> QED
    BY <2>2, <2>3
<1> QED
  BY <1>2, <1>3, <1>4, <1>5 DEF RecordUsage

\* The upserts of a commit keep used_value.
LEMMA WriteKeepsUsed ==
  ASSUME TypeInv, NEW r \in Requests, Write(r)
  PROVE  \A f \in Features : ent'[f].used = ent[f].used
<1> SUFFICES ASSUME NEW f \in Features PROVE ent'[f].used = ent[f].used
  OBVIOUS
<1>1. ent[f] \in Entitlements
  BY DEF TypeInv, BillingTypeOK
<1>2. Disabled(r, f).used = ent[f].used
  BY <1>1 DEF Disabled, Entitlements
<1>3. Given(r, f).used = ent[f].used
  BY DEF Given
<1>4. ent'[f] = IF req[r].next[f] = None THEN Disabled(r, f) ELSE Given(r, f)
  BY DEF Write
<1> QED
  BY <1>2, <1>3, <1>4

\* The other steps leave the count and who is about to count alone.
LEMMA OthersCount ==
  ASSUME TypeInv, TypeInv', UsageInv,
         \/ Provider \/ \E s \in Subs : GraceEnds(s)
         \/ \E r \in Requests : Webhook(r) \/ RequestRefund(r) \/ RedeemCoupon(r)
  PROVE  UsageInv'
<1>1. UNCHANGED <<usage, lost>>
  BY ProviderFrame, WebhookFrame, OtherFrames
<1>2. ent'[Meter].used = ent[Meter].used
  <2>1. CASE \E r \in Requests : Write(r)
    BY <2>1, WriteKeepsUsed, BillingAssumption
  <2>2. CASE ~\E r \in Requests : Write(r)
    <3>1. UNCHANGED ent
      BY <2>2, ProviderFrame, WebhookFrame, OtherFrames
    <3> QED
      BY <3>1
  <2> QED
    BY <2>1, <2>2
<1>3. \A q \in Requests : /\ req'[q].at = "count" <=> req[q].at = "count"
                          /\ req[q].at = "count" => req'[q].key = req[q].key
  <2>1. CASE Provider \/ \E s \in Subs : GraceEnds(s)
    BY <2>1, ProviderFrame
  <2>2. \A r \in Requests : Placed(req[r]) /\ Placed(req'[r])
    BY DEF TypeInv, PlaceRule
  <2>3. ASSUME NEW r \in Requests,
               OnlyMoves(r, {"webhook"}) \/ OnlyMoves(r, {"refund"}) \/ OnlyMoves(r, {"checkout", "apply"})
        PROVE  \A q \in Requests : /\ req'[q].at = "count" <=> req[q].at = "count"
                                   /\ req[q].at = "count" => req'[q].key = req[q].key
    <3>1. req[r].at # "count" /\ req'[r].at # "count"
      BY <2>2, <2>3 DEF OnlyMoves, Placed
    <3> QED
      BY <2>3, <3>1 DEF OnlyMoves
  <2>4. ASSUME NEW r \in Requests, Write(r) \/ ApplyInvoice(r) \/ ApplyRefund(r) \/ ApplyCheckout(r)
        PROVE  \A q \in Requests : /\ req'[q].at = "count" <=> req[q].at = "count"
                                   /\ req[q].at = "count" => req'[q].key = req[q].key
    BY <2>4, Commits, IdleTyped
  <2> QED
    BY <2>1, <2>3, <2>4, Moves DEF Webhook
<1> QED
  BY <1>1, <1>2, <1>3, UsageGoesOn

LEMMA UsageInvariance == Spec => []UsageInv
<1>1. Init => UsageInv
  <2> SUFFICES ASSUME Init PROVE UsageInv
    OBVIOUS
  <2>1. Counters = {} /\ usage = {} /\ lost = {}
    BY IdleTyped DEF Init, Counters, At
  <2>2. ent[Meter].used = 0
    BY BillingAssumption DEF Init, NoEntitlement
  <2>3. Cardinality({}) = 0
    BY FS_EmptySet
  <2>4. ent[Meter].used = Cardinality(usage) - Cardinality(lost) - Cardinality(Counters)
    BY <2>1, <2>2, <2>3
  <2> QED
    BY <2>1, <2>4 DEF UsageInv, UsageExact, Counters
<1>2. TypeInv /\ TypeInv' /\ UsageInv /\ [Next]_vars => UsageInv'
  <2> SUFFICES ASSUME TypeInv, TypeInv', UsageInv, [Next]_vars PROVE UsageInv'
    OBVIOUS
  <2>1. CASE UNCHANGED vars
    BY <2>1, UsageGoesOn DEF vars, history, subVars
  <2>2. ASSUME NEW r \in Requests, Die(r) PROVE UsageInv'
    <3>1. /\ req'[r] = Idle /\ \A q \in Requests \ {r} : req'[q] = req[q]
          /\ UNCHANGED <<usage, ent>>
          /\ lost' = IF At(r, "count") THEN lost \cup {req[r].key} ELSE lost
      BY <2>2, Moves DEF Die, subVars
    <3>2. CASE At(r, "count")
      BY <3>1, <3>2, CountEnds DEF Counters
    <3>3. CASE ~At(r, "count")
      BY <3>1, <3>3, UsageGoesOn, IdleTyped DEF At
    <3> QED
      BY <3>2, <3>3
  <2>3. CASE Next
    BY <2>2, <2>3, OthersCount, RecordCounts DEF Next
  <2> QED
    BY <2>1, <2>3
<1> QED
  BY <1>1, <1>2, TypeInvariance, PTL DEF Spec

\* used_value is the number of uses that recordUsage has recorded, for any number
\* of requests that record, retry and die while webhooks recompute the
\* entitlements, but for the uses that are not counted yet and those that are lost.
THEOREM UsageIsCounted == Spec => []UsageExact
<1>1. UsageInv => UsageExact
  BY DEF UsageInv
<1> QED
  BY <1>1, UsageInvariance, PTL

-----------------------------------------------------------------------------
(* Redemptions of the coupon *)

Redeemed == {d \in Discounts : discount[d] # "none"}
Redeeming == {r \in Requests : req[r].op \in {"checkout", "apply"}}

\* Each request that has counted the redemptions and not written its own takes
\* one place, and the last that counted saw one free.
CouponInv ==
  /\ Cardinality(Redeemed) + Cardinality(Redeeming) <= MaxRedemptions - 1 + Cardinality(Requests)
  /\ \A d \in Discounts : checkout[d] = "complete" /\ discount[d] = "pending_checkout" => d \in early

LEMMA CouponSets ==
  /\ IsFiniteSet(Redeemed) /\ IsFiniteSet(Redeeming)
  /\ Cardinality(Redeemed) \in Nat /\ Cardinality(Redeeming) \in Nat
  /\ Cardinality(Requests) \in Nat /\ Cardinality(Redeeming) <= Cardinality(Requests)
<1>1. Redeemed \subseteq Discounts /\ Redeeming \subseteq Requests
  BY DEF Redeemed, Redeeming
<1>2. IsFiniteSet(Redeemed) /\ IsFiniteSet(Redeeming) /\ IsFiniteSet(Requests)
  BY <1>1, FS_Subset, BillingAssumption
<1>3. Cardinality(Redeeming) <= Cardinality(Requests)
  BY <1>1, <1>2, FS_Subset
<1> QED
  BY <1>2, <1>3, FS_CardinalityType

\* Steps after which no more are redeemed or about to be.
LEMMA CouponGoesOn ==
  ASSUME TypeInv, CouponInv, Redeemed' \subseteq Redeemed, Redeeming' \subseteq Redeeming,
         \A d \in Discounts : checkout'[d] = "complete" /\ discount'[d] = "pending_checkout"
                              => \/ checkout[d] = "complete" /\ discount[d] = "pending_checkout"
                                 \/ d \in early',
         early \subseteq early'
  PROVE  CouponInv'
<1>1. Cardinality(Redeemed') <= Cardinality(Redeemed) /\ Cardinality(Redeeming') <= Cardinality(Redeeming)
  BY CouponSets, FS_Subset
<1>2. Cardinality(Redeemed') \in Nat /\ Cardinality(Redeeming') \in Nat
  BY CouponSets, FS_Subset, FS_CardinalityType
<1>3. Cardinality(Redeemed') + Cardinality(Redeeming') <= MaxRedemptions - 1 + Cardinality(Requests)
  BY <1>1, <1>2, CouponSets, BillingAssumption DEF CouponInv
<1> QED
  BY <1>3 DEF CouponInv

LEMMA RedeemCounts ==
  ASSUME TypeInv, TypeInv', CouponInv, NEW r \in Requests, RedeemCoupon(r)
  PROVE  CouponInv'
<1>1. /\ req \in [Requests -> RequestStates] /\ Placed(req[r])
      /\ checkout \in [Discounts -> {"none", "open", "complete"}]
      /\ discount \in [Discounts -> {"none", "pending_checkout", "active"}]
      /\ \A q \in Requests \ {r} : req'[q] = req[q]
  BY Moves DEF TypeInv, BillingTypeOK, PlaceRule, OnlyMoves
<1>2. ASSUME NEW d \in Discounts, CallCheckout(r, d) \/ CallApply(r, d) PROVE CouponInv'
  <2>1. Redeemable /\ UNCHANGED <<discount, checkout, early>>
    BY <1>2 DEF CallCheckout, CallApply, moneyVars, couponVars, history
  <2>2. Cardinality(Redeemed) <= MaxRedemptions - 1
    BY <2>1, CouponSets, BillingAssumption DEF Redeemable, Redeemed
  <2>3. UNCHANGED Redeemed
    BY <2>1 DEF Redeemed
  <2>4. Redeeming' \subseteq Requests
    BY DEF Redeeming
  <2>5. Cardinality(Redeeming') \in Nat /\ Cardinality(Redeeming') <= Cardinality(Requests)
    BY <2>4, FS_Subset, FS_CardinalityType, BillingAssumption
  <2>6. Cardinality(Redeemed') + Cardinality(Redeeming') <= MaxRedemptions - 1 + Cardinality(Requests)
    BY <2>2, <2>3, <2>5, CouponSets, BillingAssumption
  <2> QED
    BY <2>1, <2>6 DEF CouponInv
<1>3. CASE OpenCheckout(r) \/ InsertCheckout(r)
  <2>1. /\ req[r].op = "checkout" /\ req[r].key \in Discounts /\ UNCHANGED <<discount, early>>
        /\ checkout' = checkout \/ checkout' = [checkout EXCEPT ![req[r].key] = "open"]
    BY <1>1, <1>3 DEF OpenCheckout, InsertCheckout, At, Placed, history
  <2>2. Redeemed' \subseteq Redeemed /\ Redeeming' \subseteq Redeeming
    BY <1>1, <2>1 DEF Redeemed, Redeeming
  <2>3. \A d \in Discounts : checkout'[d] = "complete" => checkout[d] = "complete"
    BY <1>1, <2>1
  <2> QED
    BY <2>1, <2>2, <2>3, CouponGoesOn
<1>4. CASE InsertDiscount(r)
  <2> DEFINE d == req[r].key
             s == IF Is(r, "apply") THEN "active" ELSE "pending_checkout"
  <2>1. /\ d \in Discounts /\ req[r].op \in {"checkout", "apply"} /\ UNCHANGED checkout
        /\ discount' = [discount EXCEPT ![d] = s]
        /\ early' = IF checkout[d] = "complete" THEN early \cup {d} ELSE early
    BY <1>1, <1>4 DEF InsertDiscount, At, Placed
  <2>2. req'[r].op = "none"
    BY <1>4, Ends, IdleTyped DEF InsertDiscount
  <2>3. Redeemed' = Redeemed \cup {d}
    BY <1>1, <2>1 DEF Redeemed
  <2>4. Redeeming' = Redeeming \ {r} /\ r \in Redeeming
    BY <1>1, <2>1, <2>2 DEF Redeeming
  <2> HIDE DEF d, s
  <2>5. Cardinality(Redeemed') <= Cardinality(Redeemed) + 1 /\ Cardinality(Redeemed') \in Nat
    <3>1. IsFiniteSet(Redeemed) /\ Cardinality(Redeemed) \in Nat
      BY CouponSets
    <3>2. \/ Cardinality(Redeemed \cup {d}) = Cardinality(Redeemed)
          \/ Cardinality(Redeemed \cup {d}) = Cardinality(Redeemed) + 1
      BY <3>1, FS_AddElement
    <3> QED
      BY <2>3, <3>1, <3>2
  <2>6. Cardinality(Redeeming') = Cardinality(Redeeming) - 1
    BY <2>4, CouponSets, FS_RemoveElement
  <2>7. Cardinality(Redeemed') + Cardinality(Redeeming') <= MaxRedemptions - 1 + Cardinality(Requests)
    BY <2>5, <2>6, CouponSets, BillingAssumption DEF CouponInv
  <2>8. ASSUME NEW c \in Discounts, checkout'[c] = "complete" /\ discount'[c] = "pending_checkout"
        PROVE  c \in early'
    <3>1. CASE c = d
      BY <2>1, <2>8, <3>1
    <3>2. CASE c # d
      BY <1>1, <2>1, <2>8, <3>2 DEF CouponInv
    <3> QED
      BY <3>1, <3>2
  <2> QED
    BY <2>7, <2>8 DEF CouponInv
<1> QED
  BY <1>2, <1>3, <1>4 DEF RedeemCoupon

\* The other steps redeem nothing; a completed checkout has its discount activated.
LEMMA OthersRedeem ==
  ASSUME TypeInv, TypeInv', CouponInv,
         \/ Provider \/ \E s \in Subs : GraceEnds(s)
         \/ \E r \in Requests : Webhook(r) \/ RecordUsage(r) \/ RequestRefund(r) \/ Die(r)
  PROVE  CouponInv'
<1>1. Redeeming' \subseteq Redeeming
  <2>1. CASE Provider \/ \E s \in Subs : GraceEnds(s)
    <3>1. UNCHANGED req
      BY <2>1, ProviderFrame
    <3> QED
      BY <3>1 DEF Redeeming
  <2>2. ASSUME NEW r \in Requests,
               OnlyMoves(r, {"webhook"}) \/ OnlyMoves(r, {"refund"}) \/ OnlyMoves(r, {"usage"})
        PROVE  Redeeming' \subseteq Redeeming
    BY <2>2 DEF OnlyMoves, Redeeming
  <2>3. ASSUME NEW r \in Requests, Write(r) \/ ApplyInvoice(r) \/ ApplyRefund(r) \/ ApplyCheckout(r)
        PROVE  Redeeming' \subseteq Redeeming
    BY <2>3, Commits, IdleTyped DEF Redeeming
  <2>4. ASSUME NEW r \in Requests, Die(r) PROVE Redeeming' \subseteq Redeeming
    BY <2>4, Moves, IdleTyped DEF Redeeming
  <2> QED
    BY <2>1, <2>2, <2>3, <2>4, Moves DEF Webhook
<1>2. CASE \E r \in Requests : ApplyCheckout(r)
  <2>1. PICK r \in Requests : ApplyCheckout(r)
    BY <1>2
  <2> DEFINE c == req[r].event.checkout
  <2>2. /\ checkout \in [Discounts -> {"none", "open", "complete"}]
        /\ discount \in [Discounts -> {"none", "pending_checkout", "active"}]
    BY DEF TypeInv, BillingTypeOK
  <2>3. /\ checkout' = [checkout EXCEPT ![c] = "complete"] /\ UNCHANGED early
        /\ discount' = [discount EXCEPT ![c] = IF @ = "pending_checkout" THEN "active" ELSE @]
    BY <2>1 DEF ApplyCheckout
  <2> HIDE DEF c
  <2>4. Redeemed' \subseteq Redeemed
    BY <2>2, <2>3 DEF Redeemed
  <2>5. \A d \in Discounts : checkout'[d] = "complete" /\ discount'[d] = "pending_checkout"
                             => checkout[d] = "complete" /\ discount[d] = "pending_checkout"
    BY <2>2, <2>3
  <2> QED
    BY <1>1, <2>3, <2>4, <2>5, CouponGoesOn
<1>3. CASE ~\E r \in Requests : ApplyCheckout(r)
  <2>1. UNCHANGED <<checkout, discount, early>>
    BY <1>3, ProviderFrame, WebhookFrame, OtherFrames
  <2>2. Redeemed' \subseteq Redeemed
    BY <2>1 DEF Redeemed
  <2> QED
    BY <1>1, <2>1, <2>2, CouponGoesOn
<1> QED
  BY <1>2, <1>3

LEMMA CouponInvariance == Spec => []CouponInv
<1>1. Init => CouponInv
  <2> SUFFICES ASSUME Init PROVE CouponInv
    OBVIOUS
  <2>1. Redeemed = {} /\ Redeeming = {}
    BY IdleTyped DEF Init, Redeemed, Redeeming
  <2>2. Cardinality({}) = 0
    BY FS_EmptySet
  <2>3. Cardinality(Redeemed) + Cardinality(Redeeming) <= MaxRedemptions - 1 + Cardinality(Requests)
    BY <2>1, <2>2, CouponSets, BillingAssumption
  <2> QED
    BY <2>3 DEF Init, CouponInv
<1>2. TypeInv /\ TypeInv' /\ CouponInv /\ [Next]_vars => CouponInv'
  <2> SUFFICES ASSUME TypeInv, TypeInv', CouponInv, [Next]_vars PROVE CouponInv'
    OBVIOUS
  <2>1. CASE UNCHANGED vars
    BY <2>1 DEF vars, history, moneyVars, couponVars, CouponInv, Redeemed, Redeeming
  <2>2. CASE Next
    BY <2>2, OthersRedeem, RedeemCounts DEF Next
  <2> QED
    BY <2>1, <2>2
<1> QED
  BY <1>1, <1>2, TypeInvariance, PTL DEF Spec

\* A coupon is redeemed at most once more for each request that was counting,
\* and markCheckoutCompleted leaves no discount of a completed checkout waiting,
\* unless the event came between the two rows.
THEOREM CouponIsBounded == Spec => []CouponRedemptions
<1>1. CouponInv => CouponRedemptions
  <2>1. Cardinality({d \in Discounts : discount[d] # "none"}) = Cardinality(Redeemed)
    BY DEF Redeemed
  <2> QED
    BY <2>1, CouponSets, BillingAssumption DEF CouponInv, CouponRedemptions
<1> QED
  BY <1>1, CouponInvariance, PTL

-----------------------------------------------------------------------------
(* The entitlements follow the subscriptions *)

Counts(row) == row.status = "active" \/ row.grace = "running"
Reading(x) == x.at \in {"disable", "wait", "write"} /\ ~x.stale
Updated(r) == req[r].at \in {"wait", "write"}

\* What a transaction that nobody has overtaken is about to write: each feature
\* has a subscription that gives it, or gave it until its grace period ended.
ReadRule(r) ==
  \A f \in Features :
    /\ req[r].next[f] = None
       => \A s \in Subs : ~(Counts(Seen(r, s)) /\ f \in Grants[Seen(r, s).plan])
    /\ req[r].next[f] # None
       => LET row == Seen(r, req[r].next[f])
          IN  f \in Grants[row.plan] /\ (Counts(row) \/ row.grace = "over")
EntitledRule ==
  \A f \in Features :
    /\ ent[f].enabled => f \in Grants[sub[ent[f].sub].plan]
    /\ \A s \in Subs : Counts(sub[s]) /\ f \in Grants[sub[s].plan]
                       => ent[f].enabled /\ (Counts(sub[ent[f].sub]) \/ sub[ent[f].sub].grace = "over")
EntInv ==
  /\ \A f \in Features : ent[f].enabled => ent[f].sub # None
  /\ \A r \in Requests : Reading(req[r]) => ReadRule(r)
  /\ \A r \in Requests : Reading(req[r]) /\ Updated(r) => Existing \subseteq req[r].seen
  /\ ~raced => EntitledRule

\* Steps that change no subscription and grant or revoke nothing, after which a
\* transaction that has read is one that had.
LEMMA EntGoesOn ==
  ASSUME TypeInv, EntInv, UNCHANGED <<sub, raced>>, UNCHANGED Existing,
         \A f \in Features : ent'[f].enabled = ent[f].enabled /\ ent'[f].sub = ent[f].sub,
         \A q \in Requests : Reading(req'[q]) => req'[q] = req[q]
  PROVE  EntInv'
<1>1. (\A f \in Features : ent[f].enabled => ent[f].sub # None)'
  BY DEF EntInv
<1>2. ASSUME NEW q \in Requests, Reading(req'[q])
      PROVE  ReadRule(q)' /\ (Updated(q)' => Existing' \subseteq req'[q].seen)
  <2>1. Reading(req[q]) /\ req'[q] = req[q]
    BY <1>2
  <2>2. ReadRule(q) /\ (Updated(q) => Existing \subseteq req[q].seen)
    BY <2>1 DEF EntInv
  <2>3. \A s : Seen(q, s)' = Seen(q, s)
    BY <2>1 DEF Seen, Row
  <2>4. ReadRule(q)'
    BY <2>1, <2>2, <2>3 DEF ReadRule
  <2> QED
    BY <2>1, <2>2, <2>4 DEF Updated
<1>3. (~raced => EntitledRule)'
  BY DEF EntInv, EntitledRule
<1> QED
  BY <1>1, <1>2, <1>3 DEF EntInv

\* recomputeEntitlements reads: the last subscription that gives a feature.
LEMMA RecomputeReads ==
  ASSUME TypeInv, EntInv, NEW r \in Requests, Recompute(r)
  PROVE  EntInv'
<1>1. /\ req \in [Requests -> RequestStates] /\ req[r] \in RequestStates
      /\ req[r].event \in SubscriptionEvents
  BY DEF TypeInv, BillingTypeOK, PlaceRule, Placed, Recompute, At, WebhookStates
<1> DEFINE n == [f \in Features |-> IF Giving(r, f) = {} THEN None ELSE Named(r, f)]
           x == [req[r] EXCEPT !.at = "disable", !.stale = FALSE, !.next = n]
<1>2. Become(r, x) /\ UNCHANGED <<sub, raced, ent>>
  BY DEF Recompute, subVars, history
<1>3. \A f \in Features : n[f] = IF Giving(r, f) = {} THEN None ELSE Named(r, f)
  OBVIOUS
<1> HIDE DEF n
<1>4. x.at = "disable" /\ x.next = n /\ x.row = req[r].row /\ x.event = req[r].event
  BY <1>1 DEF RequestStates
<1> HIDE DEF x
<1>5. req'[r] = x /\ \A q \in Requests \ {r} : req'[q] = req[q]
  BY <1>1, <1>2 DEF Become
<1>6. \A s : Seen(r, s)' = Seen(r, s)
  BY <1>2, <1>4, <1>5 DEF Seen, Row
<1>7. ReadRule(r)'
  <2> SUFFICES ASSUME NEW f \in Features
               PROVE  /\ n[f] = None
                         => \A s \in Subs : ~(Counts(Seen(r, s)) /\ f \in Grants[Seen(r, s).plan])
                      /\ n[f] # None
                         => /\ f \in Grants[Seen(r, n[f]).plan]
                            /\ Counts(Seen(r, n[f])) \/ Seen(r, n[f]).grace = "over"
    BY <1>4, <1>5, <1>6 DEF ReadRule
  <2>1. CASE Giving(r, f) = {}
    BY <1>3, <2>1 DEF Giving, Counts
  <2>2. CASE Giving(r, f) # {}
    <3>1. n[f] \in Giving(r, f)
      BY <1>1, <1>3, <2>2, NamedGives
    <3>2. n[f] \in Subs /\ n[f] # None
      BY <3>1, BillingAssumption DEF Giving
    <3> QED
      BY <3>1, <3>2 DEF Giving, Counts
  <2> QED
    BY <2>1, <2>2
<1>8. ASSUME NEW q \in Requests \ {r}, Reading(req'[q])
      PROVE  ReadRule(q)' /\ (Updated(q)' => Existing' \subseteq req'[q].seen)
  <2>1. Reading(req[q]) /\ req'[q] = req[q]
    BY <1>5, <1>8
  <2>2. ReadRule(q) /\ (Updated(q) => Existing \subseteq req[q].seen)
    BY <2>1 DEF EntInv
  <2>3. \A s : Seen(q, s)' = Seen(q, s)
    BY <1>2, <2>1 DEF Seen, Row
  <2>4. ReadRule(q)'
    BY <2>1, <2>2, <2>3 DEF ReadRule
  <2> QED
    BY <1>2, <2>1, <2>2, <2>4 DEF Updated, Existing
<1>9. ~Updated(r)'
  BY <1>4, <1>5 DEF Updated
<1>10. (\A f \in Features : ent[f].enabled => ent[f].sub # None)' /\ (~raced => EntitledRule)'
  BY <1>2 DEF EntInv, EntitledRule
<1> QED
  BY <1>7, <1>8, <1>9, <1>10 DEF EntInv

\* The UPDATE sees the rows that exist.
LEMMA DisableReads ==
  ASSUME TypeInv, EntInv, NEW r \in Requests, Disable(r)
  PROVE  EntInv'
<1>1. req \in [Requests -> RequestStates] /\ req[r] \in RequestStates
  BY DEF TypeInv, BillingTypeOK
<1> DEFINE at == IF Free THEN "write" ELSE "wait"
           x == [req[r] EXCEPT !.at = at, !.seen = Existing]
<1>2. Become(r, x) /\ UNCHANGED <<sub, raced, ent>> /\ req[r].at = "disable"
  BY DEF Disable, subVars, history, At
<1>3. /\ x.seen = Existing /\ x.next = req[r].next /\ x.row = req[r].row /\ x.event = req[r].event
      /\ x.stale = req[r].stale
  BY <1>1 DEF RequestStates
<1> HIDE DEF x
<1>4. req'[r] = x /\ \A q \in Requests \ {r} : req'[q] = req[q]
  BY <1>1, <1>2 DEF Become
<1>5. ASSUME NEW q \in Requests, Reading(req'[q])
      PROVE  ReadRule(q)' /\ (Updated(q)' => Existing' \subseteq req'[q].seen)
  <2>1. Reading(req[q]) /\ req'[q].next = req[q].next /\ req'[q].row = req[q].row
        /\ req'[q].event = req[q].event
    BY <1>2, <1>3, <1>4, <1>5 DEF Reading
  <2>2. ReadRule(q) /\ (Updated(q) => Existing \subseteq req[q].seen)
    BY <2>1 DEF EntInv
  <2>3. \A s : Seen(q, s)' = Seen(q, s)
    BY <1>2, <2>1 DEF Seen, Row
  <2>4. ReadRule(q)'
    BY <2>1, <2>2, <2>3 DEF ReadRule
  <2>5. UNCHANGED Existing
    BY <1>2 DEF Existing
  <2> QED
    BY <1>3, <1>4, <2>2, <2>4, <2>5 DEF Updated
<1>6. (\A f \in Features : ent[f].enabled => ent[f].sub # None)' /\ (~raced => EntitledRule)'
  BY <1>2 DEF EntInv, EntitledRule
<1> QED
  BY <1>5, <1>6 DEF EntInv

\* A wait for the rows changes nothing that was read.
LEMMA WaitReads ==
  ASSUME TypeInv, EntInv, NEW r \in Requests, DisableLate(r)
  PROVE  EntInv'
<1>1. req \in [Requests -> RequestStates] /\ req[r] \in RequestStates
  BY DEF TypeInv, BillingTypeOK
<1> DEFINE x == [req[r] EXCEPT !.at = "write"]
<1>2. Become(r, x) /\ UNCHANGED <<sub, raced, ent>> /\ req[r].at = "wait"
  BY DEF DisableLate, Go, subVars, history, At
<1>3. /\ x.seen = req[r].seen /\ x.next = req[r].next /\ x.row = req[r].row
      /\ x.event = req[r].event /\ x.stale = req[r].stale /\ x.at = "write"
  BY <1>1 DEF RequestStates
<1> HIDE DEF x
<1>4. req'[r] = x /\ \A q \in Requests \ {r} : req'[q] = req[q]
  BY <1>1, <1>2 DEF Become
<1>5. ASSUME NEW q \in Requests, Reading(req'[q])
      PROVE  ReadRule(q)' /\ (Updated(q)' => Existing' \subseteq req'[q].seen)
  <2>1. /\ Reading(req[q]) /\ req'[q].next = req[q].next /\ req'[q].row = req[q].row
        /\ req'[q].event = req[q].event /\ req'[q].seen = req[q].seen
        /\ Updated(q)' => Updated(q)
    BY <1>2, <1>3, <1>4, <1>5 DEF Reading, Updated
  <2>2. ReadRule(q) /\ (Updated(q) => Existing \subseteq req[q].seen)
    BY <2>1 DEF EntInv
  <2>3. \A s : Seen(q, s)' = Seen(q, s)
    BY <1>2, <2>1 DEF Seen, Row
  <2>4. ReadRule(q)'
    BY <2>1, <2>2, <2>3 DEF ReadRule
  <2>5. UNCHANGED Existing
    BY <1>2 DEF Existing
  <2> QED
    BY <2>1, <2>2, <2>4, <2>5
<1>6. (\A f \in Features : ent[f].enabled => ent[f].sub # None)' /\ (~raced => EntitledRule)'
  BY <1>2 DEF EntInv, EntitledRule
<1> QED
  BY <1>5, <1>6 DEF EntInv

\* The commit: the entitlements are those that the transaction has read, and the
\* others that have read before it are overtaken.
LEMMA WriteFollows ==
  ASSUME TypeInv, EntInv, NEW r \in Requests, Write(r)
  PROVE  EntInv'
<1> DEFINE e == req[r].event
           others == [q \in Requests |->
                          [req[q] EXCEPT !.stale = @ \/ req[q].at \in {"disable", "wait", "write"}]]
<1>1. /\ req \in [Requests -> RequestStates] /\ req[r] \in RequestStates /\ e \in SubscriptionEvents
      /\ sub \in [Subs -> SubscriptionRows] /\ ent \in [Features -> Entitlements]
      /\ e.sub \in Subs /\ req[r].next \in [Features -> Subs \cup {None}]
  BY EventKinds DEF TypeInv, BillingTypeOK, PlaceRule, Placed, Write, At, WebhookStates, RequestStates
<1>2. /\ sub' = [sub EXCEPT ![e.sub] = Row(r)] /\ raced' = req[r].stale /\ req[r].at = "write"
      /\ ent' = [f \in Features |-> IF req[r].next[f] = None THEN Disabled(r, f) ELSE Given(r, f)]
      /\ Answered(r, others)
  BY DEF Write, At
<1>3. \A q \in Requests : ~Reading(others[q])
  <2> SUFFICES ASSUME NEW q \in Requests PROVE ~Reading(others[q])
    OBVIOUS
  <2>1. req[q] \in RequestStates
    BY <1>1
  <2>2. others[q] = [req[q] EXCEPT !.stale = req[q].stale \/ req[q].at \in {"disable", "wait", "write"}]
    OBVIOUS
  <2> QED
    BY <2>1, <2>2 DEF Reading, RequestStates, At
<1>4. \A q \in Requests : ~Reading(req'[q])
  <2> DEFINE x == [req[r] EXCEPT !.at = "catch"]
  <2>1. x.at = "catch"
    BY <1>1 DEF RequestStates
  <2> HIDE DEF x
  <2>2. req' = [others EXCEPT ![r] = Idle] \/ req' = [others EXCEPT ![r] = x]
    BY <1>2 DEF Answered, x
  <2>3. others = [q \in Requests |-> others[q]]
    OBVIOUS
  <2> HIDE DEF others
  <2>4. \A q \in Requests : req'[q] = others[q] \/ req'[q] = Idle \/ req'[q] = x
    BY <2>2, <2>3
  <2>5. ~Reading(Idle) /\ ~Reading(x)
    BY <2>1, IdleTyped DEF Reading
  <2> QED
    BY <1>3, <2>4, <2>5
<1>5. \A s \in Subs : sub'[s] = Seen(r, s)
  BY <1>1, <1>2 DEF Seen
<1>6. ASSUME NEW f \in Features
      PROVE  /\ req[r].next[f] = None
                => /\ ent'[f].sub = ent[f].sub
                   /\ ent'[f].enabled = IF f \in req[r].seen THEN FALSE ELSE ent[f].enabled
             /\ req[r].next[f] # None => ent'[f].enabled /\ ent'[f].sub = req[r].next[f]
  <2>1. ent[f] \in Entitlements
    BY <1>1
  <2>2. CASE req[r].next[f] = None
    <3>1. ent'[f] = IF f \in req[r].seen THEN [ent[f] EXCEPT !.enabled = FALSE] ELSE ent[f]
      BY <1>2, <2>2 DEF Disabled
    <3> QED
      BY <2>1, <2>2, <3>1 DEF Entitlements
  <2>3. CASE req[r].next[f] # None
    <3>1. ent'[f] = [enabled |-> TRUE, sub |-> req[r].next[f], used |-> ent[f].used]
      BY <1>2, <2>3 DEF Given
    <3>2. ent'[f].enabled = TRUE /\ ent'[f].sub = req[r].next[f]
      BY <3>1
    <3> QED
      BY <2>3, <3>2
  <2> QED
    BY <2>2, <2>3
<1>7. (\A f \in Features : ent[f].enabled => ent[f].sub # None)'
  <2> SUFFICES ASSUME NEW f \in Features, ent'[f].enabled PROVE ent'[f].sub # None
    OBVIOUS
  <2>1. ent[f].enabled => ent[f].sub # None
    BY DEF EntInv
  <2> QED
    BY <1>6, <2>1
<1>8. ASSUME ~raced' PROVE EntitledRule'
  <2>1. Reading(req[r]) /\ Updated(r)
    BY <1>2, <1>8 DEF Reading, Updated
  <2>2. ReadRule(r) /\ Existing \subseteq req[r].seen
    BY <2>1 DEF EntInv
  <2> SUFFICES ASSUME NEW f \in Features
               PROVE  /\ ent'[f].enabled => f \in Grants[sub'[ent'[f].sub].plan]
                      /\ \A s \in Subs : Counts(sub'[s]) /\ f \in Grants[sub'[s].plan]
                           => /\ ent'[f].enabled
                              /\ Counts(sub'[ent'[f].sub]) \/ sub'[ent'[f].sub].grace = "over"
    BY DEF EntitledRule
  <2>3. CASE req[r].next[f] = None
    <3>1. ~ent'[f].enabled
      <4>1. ent[f].enabled => f \in Existing
        BY DEF EntInv, Existing
      <4> QED
        BY <1>6, <2>2, <2>3, <4>1
    <3>2. \A s \in Subs : ~(Counts(sub'[s]) /\ f \in Grants[sub'[s].plan])
      BY <1>5, <2>2, <2>3 DEF ReadRule
    <3> QED
      BY <3>1, <3>2
  <2>4. CASE req[r].next[f] # None
    <3> DEFINE n == req[r].next[f]
    <3>1. n \in Subs /\ ent'[f].enabled /\ ent'[f].sub = n /\ sub'[n] = Seen(r, n)
      BY <1>1, <1>5, <1>6, <2>4
    <3>2. f \in Grants[Seen(r, n).plan] /\ (Counts(Seen(r, n)) \/ Seen(r, n).grace = "over")
      BY <2>2, <2>4 DEF ReadRule
    <3> QED
      BY <3>1, <3>2
  <2> QED
    BY <2>3, <2>4
<1> QED
  BY <1>4, <1>7, <1>8 DEF EntInv

\* A grace period ends: fewer subscriptions count, and none that is named was
\* named for anything else.
LEMMA GraceFollows ==
  ASSUME TypeInv, EntInv, NEW s \in Subs, GraceEnds(s)
  PROVE  EntInv'
<1>1. /\ sub \in [Subs -> SubscriptionRows] /\ sub[s] \in SubscriptionRows
      /\ ent \in [Features -> Entitlements] /\ req \in [Requests -> RequestStates]
  BY DEF TypeInv, BillingTypeOK
<1> DEFINE row == [sub[s] EXCEPT !.grace = "over"]
<1>2. sub' = [sub EXCEPT ![s] = row] /\ UNCHANGED <<req, ent, raced>>
  BY DEF GraceEnds, history
<1>3. row.grace = "over" /\ row.status = sub[s].status /\ row.plan = sub[s].plan
  BY <1>1 DEF SubscriptionRows
<1> HIDE DEF row
<1>4. \A q \in Subs : /\ sub'[q].plan = sub[q].plan /\ (Counts(sub'[q]) => Counts(sub[q]))
                      /\ Counts(sub[q]) => Counts(sub'[q]) \/ sub'[q].grace = "over"
                      /\ sub[q].grace = "over" => sub'[q].grace = "over"
  BY <1>1, <1>2, <1>3 DEF Counts
<1>5. \A f \in Features : ent[f].enabled => ent[f].sub \in Subs
  <2>1. \A f \in Features : ent[f].sub \in Subs \cup {None}
    BY <1>1 DEF Entitlements
  <2> QED
    BY <2>1 DEF EntInv
<1>6. ASSUME NEW q \in Requests, Reading(req[q]) PROVE ReadRule(q)'
  <2>1. ReadRule(q) /\ req[q].next \in [Features -> Subs \cup {None}]
    BY <1>1, <1>6 DEF EntInv, RequestStates
  <2>2. \A p \in Subs :
          /\ Seen(q, p)'.plan = Seen(q, p).plan /\ (Counts(Seen(q, p)') => Counts(Seen(q, p)))
          /\ Counts(Seen(q, p)) => Counts(Seen(q, p)') \/ Seen(q, p)'.grace = "over"
          /\ Seen(q, p).grace = "over" => Seen(q, p)'.grace = "over"
    <3>1. req[q].row \in SubscriptionRows /\ req'[q] = req[q]
      BY <1>1, <1>2 DEF RequestStates
    <3>2. /\ Row(q)'.plan = Row(q).plan /\ (Counts(Row(q)') => Counts(Row(q)))
          /\ Counts(Row(q)) => Counts(Row(q)') \/ Row(q)'.grace = "over"
          /\ Row(q).grace = "over" => Row(q)'.grace = "over"
      <4>1. req[q].event.sub \in Subs
        BY <1>6, EventKinds DEF Reading, TypeInv, PlaceRule, Placed
      <4> QED
        BY <1>2, <1>4, <3>1, <4>1 DEF Row, Counts, SubscriptionRows
    <3> QED
      BY <1>2, <1>4, <3>1, <3>2 DEF Seen
  <2> SUFFICES ASSUME NEW f \in Features
               PROVE  /\ req[q].next[f] = None
                         => \A p \in Subs : ~(Counts(Seen(q, p)') /\ f \in Grants[Seen(q, p)'.plan])
                      /\ req[q].next[f] # None
                         => /\ f \in Grants[Seen(q, req[q].next[f])'.plan]
                            /\ \/ Counts(Seen(q, req[q].next[f])')
                               \/ Seen(q, req[q].next[f])'.grace = "over"
    BY <1>2 DEF ReadRule, Seen
  <2>3. CASE req[q].next[f] = None
    BY <2>1, <2>2, <2>3 DEF ReadRule
  <2>4. CASE req[q].next[f] # None
    <3>1. req[q].next[f] \in Subs
      BY <2>1, <2>4
    <3>2. PICK p \in Subs : p = req[q].next[f] /\ p = req'[q].next[f]
      BY <1>2, <3>1
    <3>3. f \in Grants[Seen(q, p).plan] /\ (Counts(Seen(q, p)) \/ Seen(q, p).grace = "over")
      BY <2>1, <2>4, <3>2 DEF ReadRule
    <3>4. f \in Grants[Seen(q, p)'.plan] /\ (Counts(Seen(q, p)') \/ Seen(q, p)'.grace = "over")
      BY <2>2, <3>3
    <3> QED
      BY <2>4, <3>2, <3>4
  <2> QED
    BY <2>3, <2>4
<1>7. EntitledRule => EntitledRule'
  <2> SUFFICES ASSUME EntitledRule, NEW f \in Features
               PROVE  /\ ent[f].enabled => f \in Grants[sub'[ent[f].sub].plan]
                      /\ \A q \in Subs : Counts(sub'[q]) /\ f \in Grants[sub'[q].plan]
                           => /\ ent[f].enabled
                              /\ Counts(sub'[ent[f].sub]) \/ sub'[ent[f].sub].grace = "over"
    BY <1>2 DEF EntitledRule
  <2> QED
    BY <1>4, <1>5 DEF EntitledRule
<1>8. (\A f \in Features : ent[f].enabled => ent[f].sub # None)'
      /\ \A q \in Requests : Reading(req'[q]) /\ Updated(q)' => Existing' \subseteq req'[q].seen
  BY <1>2 DEF EntInv, Existing, Updated
<1> QED
  BY <1>2, <1>6, <1>7, <1>8 DEF EntInv

\* The other steps leave subscriptions and grants alone, and a request that they
\* move has read nothing.
LEMMA OthersFollow ==
  ASSUME TypeInv, TypeInv', EntInv,
         \/ Provider
         \/ \E r \in Requests :
              \/ \E e \in Events : Claim(r, e)
              \/ ReadGrace(r) \/ Upsert(r) \/ ApplyInvoice(r) \/ ApplyRefund(r) \/ ApplyCheckout(r)
              \/ Unmatched(r) \/ Fails(r) \/ Catch(r)
              \/ RecordUsage(r) \/ RequestRefund(r) \/ RedeemCoupon(r) \/ Die(r)
  PROVE  EntInv'
<1>1. UNCHANGED <<sub, raced>>
  <2>1. CASE Provider
    BY <2>1 DEF Provider, SendSubscription, OpenInvoice, Pay, RefundByHand, RefundFails,
      CompleteCheckout, history, subVars
  <2>2. ASSUME NEW r \in Requests,
               \/ \E e \in Events : Claim(r, e)
               \/ ReadGrace(r) \/ Upsert(r) \/ Unmatched(r) \/ Fails(r) \/ Catch(r) \/ Die(r)
        PROVE  UNCHANGED <<sub, raced>>
    BY <2>2 DEF Claim, ReadGrace, Upsert, Unmatched, Fails, Catch, Die, history, subVars
  <2>3. ASSUME NEW r \in Requests, ApplyInvoice(r) \/ ApplyRefund(r) \/ ApplyCheckout(r)
        PROVE  UNCHANGED <<sub, raced>>
    BY <2>3 DEF ApplyInvoice, ApplyRefund, ApplyCheckout, subVars
  <2>4. ASSUME NEW r \in Requests, RecordUsage(r) \/ RequestRefund(r)
        PROVE  UNCHANGED <<sub, raced>>
    BY <2>4 DEF RecordUsage, CallUsage, InsertUsage, CountUsage, RequestRefund, CallRefund, Ask, AskLost,
      Save, history, subVars
  <2>5. ASSUME NEW r \in Requests, RedeemCoupon(r)
        PROVE  UNCHANGED <<sub, raced>>
    BY <2>5 DEF RedeemCoupon, CallCheckout, CallApply, OpenCheckout, InsertCheckout, InsertDiscount,
      history, subVars
  <2> QED
    BY <2>1, <2>2, <2>3, <2>4, <2>5
<1>2. \A f \in Features : ent'[f].enabled = ent[f].enabled /\ ent'[f].sub = ent[f].sub
  <2>1. UNCHANGED ent \/ ent' = [ent EXCEPT ![Meter].used = @ + 1]
    <3>1. CASE Provider
      BY <3>1 DEF Provider, SendSubscription, OpenInvoice, Pay, RefundByHand, RefundFails,
        CompleteCheckout, subVars
    <3>2. ASSUME NEW r \in Requests,
                 \/ \E e \in Events : Claim(r, e)
                 \/ ReadGrace(r) \/ Upsert(r) \/ Unmatched(r) \/ Fails(r) \/ Catch(r) \/ Die(r)
                 \/ ApplyInvoice(r) \/ ApplyRefund(r) \/ ApplyCheckout(r)
          PROVE  UNCHANGED ent
      BY <3>2 DEF Claim, ReadGrace, Upsert, Unmatched, Fails, Catch, Die, ApplyInvoice, ApplyRefund, ApplyCheckout,
        subVars
    <3>3. ASSUME NEW r \in Requests, RecordUsage(r)
          PROVE  UNCHANGED ent \/ ent' = [ent EXCEPT ![Meter].used = @ + 1]
      BY <3>3 DEF RecordUsage, CallUsage, InsertUsage, CountUsage, subVars
    <3>4. ASSUME NEW r \in Requests, RequestRefund(r) \/ RedeemCoupon(r) PROVE UNCHANGED ent
      BY <3>4 DEF RequestRefund, CallRefund, Ask, AskLost, Save, RedeemCoupon, CallCheckout, CallApply,
        OpenCheckout, InsertCheckout, InsertDiscount, subVars
    <3> QED
      BY <3>1, <3>2, <3>3, <3>4
  <2>2. CASE ent' = [ent EXCEPT ![Meter].used = @ + 1]
    <3>1. ent \in [Features -> Entitlements] /\ ent[Meter] \in Entitlements
      BY UsageSets
    <3> DEFINE row == [ent[Meter] EXCEPT !.used = @ + 1]
    <3>2. row.enabled = ent[Meter].enabled /\ row.sub = ent[Meter].sub
      BY <3>1 DEF Entitlements
    <3>3. ent' = [ent EXCEPT ![Meter] = row]
      BY <2>2
    <3> HIDE DEF row
    <3> QED
      BY <3>1, <3>2, <3>3
  <2> QED
    BY <2>1, <2>2
<1>3. UNCHANGED Existing
  BY <1>2 DEF Existing
<1>4. \A q \in Requests : Reading(req'[q]) => req'[q] = req[q]
  <2>1. CASE Provider
    BY <2>1, ProviderFrame
  <2>2. \A q \in Requests : Placed(req'[q])
    BY DEF TypeInv, PlaceRule
  <2>3. ASSUME NEW r \in Requests,
               \/ OnlyMoves(r, {"usage"}) \/ OnlyMoves(r, {"refund"}) \/ OnlyMoves(r, {"checkout", "apply"})
        PROVE  \A q \in Requests : Reading(req'[q]) => req'[q] = req[q]
    BY <2>2, <2>3 DEF OnlyMoves, Placed, Reading, WebhookStates
  <2>4. ASSUME NEW r \in Requests, ApplyInvoice(r) \/ ApplyRefund(r) \/ ApplyCheckout(r)
        PROVE  \A q \in Requests : Reading(req'[q]) => req'[q] = req[q]
    <3>1. req'[r].at \in {"idle", "catch"}
      BY <2>4, Commits, IdleTyped
    <3>2. Answered(r, req) /\ req \in [Requests -> RequestStates]
      BY <2>4 DEF ApplyInvoice, ApplyRefund, ApplyCheckout, TypeInv, BillingTypeOK
    <3>3. \A q \in Requests \ {r} : req'[q] = req[q]
      BY <3>2 DEF Answered
    <3> QED
      BY <3>1, <3>3 DEF Reading
  <2>5. ASSUME NEW r \in Requests,
               \/ \E e \in Events : Claim(r, e)
               \/ ReadGrace(r) \/ Upsert(r) \/ Unmatched(r) \/ Fails(r) \/ Catch(r)
        PROVE  \A q \in Requests : Reading(req'[q]) => req'[q] = req[q]
    <3>1. req \in [Requests -> RequestStates] /\ req[r] \in RequestStates
      BY DEF TypeInv, BillingTypeOK
    <3>2. \A q \in Requests \ {r} : req'[q] = req[q]
      BY <2>5, Moves DEF OnlyMoves
    <3>3. ASSUME NEW x, Become(r, x), x.at \in {"apply", "upsert", "recompute", "catch", "idle"}
          PROVE  \A q \in Requests : Reading(req'[q]) => req'[q] = req[q]
      BY <3>1, <3>2, <3>3 DEF Become, Reading
    <3>4. ASSUME NEW e \in Events, Claim(r, e)
          PROVE  \A q \in Requests : Reading(req'[q]) => req'[q] = req[q]
      <4> DEFINE x == [Idle EXCEPT !.op = "webhook", !.at = "apply", !.event = e]
      <4>1. x.at = "apply"
        BY DEF Idle
      <4>2. Become(r, x)
        BY <3>4 DEF Claim
      <4> HIDE DEF x
      <4> QED
        BY <3>3, <4>1, <4>2
    <3>9. CASE Upsert(r)
      <4> DEFINE x == [req[r] EXCEPT !.at = "recompute"]
      <4>1. x.at = "recompute"
        BY <3>1 DEF RequestStates
      <4>2. Become(r, x)
        BY <3>9 DEF Upsert, Go
      <4> HIDE DEF x
      <4> QED
        BY <3>3, <4>1, <4>2
    <3>5. CASE ReadGrace(r)
      <4> DEFINE e == req[r].event
                 row == [status |-> e.status, grace |-> GraceAfter(e), plan |-> e.plan]
                 x == [req[r] EXCEPT !.at = "upsert", !.row = row]
      <4>1. Become(r, x)
        BY <3>5 DEF ReadGrace
      <4> HIDE DEF row
      <4>2. x.at = "upsert"
        BY <3>1 DEF RequestStates
      <4> HIDE DEF x
      <4> QED
        BY <3>3, <4>1, <4>2
    <3>6. CASE Unmatched(r)
      <4> DEFINE x == [req[r] EXCEPT !.at = "catch"]
      <4>1. x.at = "catch"
        BY <3>1 DEF RequestStates
      <4>2. Become(r, x)
        BY <3>6 DEF Unmatched, Go
      <4> HIDE DEF x
      <4> QED
        BY <3>3, <4>1, <4>2
    <3>7. CASE Fails(r)
      <4> DEFINE x == [Idle EXCEPT !.op = "webhook", !.at = "catch", !.event = req[r].event]
      <4>1. x.at = "catch"
        BY DEF Idle
      <4>2. Become(r, x)
        BY <3>7 DEF Fails
      <4> HIDE DEF x
      <4> QED
        BY <3>3, <4>1, <4>2
    <3>8. CASE Catch(r)
      BY <3>3, <3>8, IdleTyped DEF Catch, Done
    <3> QED
      BY <2>5, <3>4, <3>5, <3>6, <3>7, <3>8, <3>9
  <2>6. ASSUME NEW r \in Requests, Die(r)
        PROVE  \A q \in Requests : Reading(req'[q]) => req'[q] = req[q]
    BY <2>6, Moves, IdleTyped DEF Reading
  <2> QED
    BY <2>1, <2>3, <2>4, <2>5, <2>6, Moves
<1> QED
  BY <1>1, <1>2, <1>3, <1>4, EntGoesOn

LEMMA EntInvariance == Spec => []EntInv
<1>1. Init => EntInv
  <2> SUFFICES ASSUME Init PROVE EntInv
    OBVIOUS
  <2>1. \A f \in Features : ~ent[f].enabled
    BY DEF Init, NoEntitlement
  <2>2. \A r \in Requests : ~Reading(req[r])
    BY IdleTyped DEF Init, Reading
  <2>3. \A s \in Subs : ~Counts(sub[s])
    BY DEF Init, NoSubscription, Counts
  <2> QED
    BY <2>1, <2>2, <2>3 DEF EntInv, EntitledRule
<1>2. TypeInv /\ TypeInv' /\ EntInv /\ [Next]_vars => EntInv'
  <2> SUFFICES ASSUME TypeInv, TypeInv', EntInv, [Next]_vars PROVE EntInv'
    OBVIOUS
  <2>1. CASE UNCHANGED vars
    <3>1. UNCHANGED <<sub, raced, ent, req>>
      BY <2>1 DEF vars, subVars, history
    <3>2. UNCHANGED Existing
      BY <3>1 DEF Existing
    <3> QED
      BY <3>1, <3>2, EntGoesOn
  <2>2. CASE Next
    BY <2>2, GraceFollows, RecomputeReads, DisableReads, WaitReads, WriteFollows, OthersFollow
       DEF Next, Webhook
  <2> QED
    BY <2>1, <2>2
<1> QED
  BY <1>1, <1>2, TypeInvariance, PTL DEF Spec

\* Whatever webhooks run at once and die: as long as the last commit of
\* recomputeEntitlements was not overtaken by another between its read and its
\* writes, a feature is granted exactly if a subscription gives it, but for one
\* named by a subscription whose grace period has ended since.
THEOREM EntitlementsAreFollowed == Spec => []EntitlementsFollow
<1>1. TypeInv /\ EntInv => EntitlementsFollow
  <2> SUFFICES ASSUME TypeInv, EntInv, ~raced, NEW f \in Features
               PROVE  /\ HasEntitlement(f)
                         => \E s \in Subs : Entitled(s) /\ f \in Grants[sub[s].plan]
                      /\ (\E s \in Subs : Entitled(s) /\ f \in Grants[sub[s].plan])
                         => HasEntitlement(f) \/ sub[ent[f].sub].grace = "over"
    BY DEF EntitlementsFollow
  <2>1. ent[f].sub \in Subs \cup {None}
    BY DEF TypeInv, BillingTypeOK, Entitlements
  <2>2. HasEntitlement(f) => ent[f].sub \in Subs /\ f \in Grants[sub[ent[f].sub].plan]
    BY <2>1 DEF EntInv, EntitledRule, HasEntitlement
  <2>3. \A s : Entitled(s) <=> Counts(sub[s])
    BY DEF Entitled, Counts
  <2>4. (\E s \in Subs : Entitled(s) /\ f \in Grants[sub[s].plan])
        => HasEntitlement(f) \/ sub[ent[f].sub].grace = "over"
    BY <2>3 DEF EntInv, EntitledRule, HasEntitlement
  <2> QED
    BY <2>2, <2>4 DEF HasEntitlement
<1> QED
  BY <1>1, TypeInvariance, EntInvariance, PTL

\* Every statement of packages/billing/src/service.ts leaves rows, requests and
\* counts of the form the tables and the operations give them.
THEOREM BillingTypesCorrect == Spec => []BillingTypeOK
<1>1. TypeInv => BillingTypeOK
  BY DEF TypeInv
<1> QED
  BY <1>1, TypeInvariance, PTL

-----------------------------------------------------------------------------
(* What is refunded stays within what was paid *)

\* What the provider has refunded and the rows say it has.
Known == [k \in Refunds |-> IF rows[k].status = "live" THEN prov[k] ELSE NoRefund]

RefundInv ==
  /\ paid <= charged
  /\ \A e \in InvoiceEvents : inbox[e] # "unsent" => e.paid <= charged
  /\ \A e \in RefundEvents : inbox[e] # "unsent" =>
       /\ prov[e.refund] # NoRefund
       /\ e.status = "failed" => prov[e.refund].status = "failed"
  /\ \A k \in Refunds : rows[k] # NoRefund =>
       /\ prov[k] # NoRefund /\ rows[k].amount = prov[k].amount
       /\ rows[k].status \in {"live", "failed"}
       /\ rows[k].status = "failed" => prov[k].status = "failed"
  /\ \A r, q \in Requests : Is(r, "refund") /\ Is(q, "refund") => r = q
  /\ \A r \in Requests : Is(r, "refund") =>
       /\ At(r, "ask") => Total(Known) + req[r].amount <= paid
       /\ At(r, "save") => prov[req[r].key] # NoRefund
  /\ RefundsWithinPaid

RefundTables == [Refunds -> RefundRows]
LiveAmount(row) == IF row.status = "live" THEN row.amount ELSE 0

LEMMA TotalNat ==
  ASSUME NEW t \in RefundTables
  PROVE  Total(t) \in Nat
<1> DEFINE g == [k \in Refunds |-> IF t[k].status = "live" THEN t[k].amount ELSE 0]
<1>1. \A k \in Refunds : g[k] \in Nat
  BY DEF RefundTables, RefundRows
<1> HIDE DEF g
<1>2. SumFunctionOnSet(g, Refunds) \in Nat
  BY <1>1, BillingAssumption, SumNat
<1> QED
  BY <1>2 DEF Total, g

\* A table in which no more is live refunds no more.
LEMMA TotalLess ==
  ASSUME NEW t \in RefundTables, NEW u \in RefundTables,
         \A k \in Refunds : t[k].status = "live" => u[k].status = "live" /\ t[k].amount <= u[k].amount
  PROVE  Total(t) <= Total(u)
<1> DEFINE g == [k \in Refunds |-> IF t[k].status = "live" THEN t[k].amount ELSE 0]
           h == [k \in Refunds |-> IF u[k].status = "live" THEN u[k].amount ELSE 0]
<1>1. \A k \in Refunds : g[k] \in Int /\ h[k] \in Int /\ g[k] <= h[k]
  BY DEF RefundTables, RefundRows
<1> HIDE DEF g, h
<1>2. SumFunctionOnSet(g, Refunds) <= SumFunctionOnSet(h, Refunds)
  BY <1>1, BillingAssumption, SumBounds
<1> QED
  BY <1>2 DEF Total, g, h

\* A refund that is made adds its amount.
LEMMA TotalAdds ==
  ASSUME NEW t \in RefundTables, NEW k \in Refunds, t[k].status # "live", NEW n \in Nat
  PROVE  Total([t EXCEPT ![k] = [status |-> "live", amount |-> n]]) = Total(t) + n
<1> DEFINE u == [t EXCEPT ![k] = [status |-> "live", amount |-> n]]
           g == [j \in Refunds |-> IF t[j].status = "live" THEN t[j].amount ELSE 0]
           h == [j \in Refunds |-> IF u[j].status = "live" THEN u[j].amount ELSE 0]
<1>0. u[k].status = "live" /\ u[k].amount = n /\ \A j \in Refunds \ {k} : u[j] = t[j]
  BY DEF RefundTables
<1> HIDE DEF u
<1>1. /\ \A j \in Refunds : g[j] \in Int
      /\ \A j \in Refunds \ {k} : h[j] = g[j]
      /\ h[k] = n /\ g[k] = 0
  <2>1. \A j \in Refunds : t[j].amount \in Int
    BY DEF RefundTables, RefundRows
  <2> QED
    BY <1>0, <2>1
<1> HIDE DEF g, h
<1>2. SumFunctionOnSet(h, Refunds) = SumFunctionOnSet(g, Refunds) - g[k] + h[k]
  <2>1. IsFiniteSet(Refunds) /\ h[k] \in Int
    BY <1>1, BillingAssumption
  <2>2. \A j \in Refunds : g[j] \in Int
    BY <1>1
  <2>3. \A j \in Refunds \ {k} : h[j] = g[j]
    BY <1>1
  <2> QED
    BY <2>1, <2>2, <2>3, SumUpdate
<1>3. SumFunctionOnSet(g, Refunds) \in Int
  BY <1>1, BillingAssumption, SumInt
<1>4. SumFunctionOnSet(h, Refunds) = SumFunctionOnSet(g, Refunds) + n
  BY <1>1, <1>2, <1>3
<1> QED
  BY <1>4 DEF Total, g, h, u

LEMMA RefundsTyped ==
  ASSUME TypeInv
  PROVE  /\ prov \in RefundTables /\ rows \in RefundTables /\ Known \in RefundTables
         /\ Total(prov) \in Nat /\ Total(rows) \in Nat /\ Total(Known) \in Nat
         /\ paid \in {-1, 0, Charge} /\ charged \in {0, Charge} /\ Charge \in Nat
         /\ NoRefund.status = "none" /\ NoRefund.amount = 0
<1>1. prov \in RefundTables /\ rows \in RefundTables /\ NoRefund \in RefundRows
  BY DEF TypeInv, BillingTypeOK, RefundTables, RefundRows, NoRefund
<1>2. Known \in RefundTables
  BY <1>1 DEF Known, RefundTables
<1>3. NoRefund.status = "none" /\ NoRefund.amount = 0
  BY DEF NoRefund
<1> QED
  BY <1>1, <1>2, <1>3, TotalNat, BillingAssumption DEF TypeInv, BillingTypeOK

LEMMA RefundsStayTyped ==
  ASSUME TypeInv'
  PROVE  /\ prov' \in RefundTables /\ rows' \in RefundTables /\ Known' \in RefundTables
         /\ Total(prov)' \in Nat /\ Total(Known)' \in Nat
<1>1. prov' \in RefundTables /\ rows' \in RefundTables /\ NoRefund \in RefundRows
  BY DEF TypeInv, BillingTypeOK, RefundTables, RefundRows, NoRefund
<1>2. Known' \in RefundTables
  BY <1>1 DEF Known, RefundTables
<1> QED
  BY <1>1, <1>2, TotalNat

\* What is known is live on both sides, with one amount.
LEMMA KnownLive ==
  ASSUME TypeInv, NEW k \in Refunds
  PROVE  /\ Known[k].status = "live" <=> rows[k].status = "live" /\ prov[k].status = "live"
         /\ Known[k].status = "live" => Known[k].amount = prov[k].amount
<1>1. Known[k] = IF rows[k].status = "live" THEN prov[k] ELSE NoRefund
  BY DEF Known
<1> QED
  BY <1>1, RefundsTyped

\* A refund request of the next state is one of this state, at the same statement.
SameRefunds ==
  \A q \in Requests : Is(q, "refund")' =>
    /\ Is(q, "refund") /\ req'[q].at = req[q].at
    /\ req'[q].key = req[q].key /\ req'[q].amount = req[q].amount
\* No refund or payment is sent.
SentBefore == \A e \in InvoiceEvents \cup RefundEvents : inbox'[e] # "unsent" => inbox[e] # "unsent"

\* Steps that touch neither the money nor the requests about it.
LEMMA RefundsRest ==
  ASSUME RefundInv, SameRefunds, SentBefore, UNCHANGED <<paid, rows, charged, prov, blind>>
  PROVE  RefundInv'
<1>1. UNCHANGED <<Known, Total(Known), Total(prov)>>
  BY DEF Known, Total
<1> QED
  BY <1>1 DEF RefundInv, SameRefunds, SentBefore, RefundsWithinPaid, Is, At

LEMMA SentOnly ==
  ASSUME TypeInv, NEW e, Send(e)
  PROVE  \A d \in Events : inbox'[d] # "unsent" => inbox[d] # "unsent" \/ d = e
BY DEF TypeInv, BillingTypeOK, Send

LEMMA MoneyEvents ==
  /\ InvoiceEvents \subseteq Events /\ RefundEvents \subseteq Events
  /\ \A e \in InvoiceEvents : e.kind = "invoice"
  /\ \A e \in RefundEvents : e.kind = "refund"
BY DEF Events, InvoiceEvents, RefundEvents

\* The provider takes the payment, makes a refund by hand, and lets one fail.
LEMMA ProviderRefunds ==
  ASSUME TypeInv, TypeInv', RefundInv, Provider \/ \E s \in Subs : GraceEnds(s)
  PROVE  RefundInv'
<1>1. UNCHANGED req /\ SameRefunds
  <2>1. UNCHANGED req
    BY ProviderFrame
  <2> QED
    BY <2>1 DEF SameRefunds, Is
<1>2. ASSUME NEW e \in Events, SendSubscription(e) PROVE RefundInv'
  <2>1. SentBefore /\ UNCHANGED <<paid, rows, charged, prov, blind>>
    BY <1>2, SentOnly, EventKinds, MoneyEvents
       DEF SendSubscription, SentBefore, moneyVars, refundVars, history
  <2> QED
    BY <1>1, <2>1, RefundsRest
<1>3. ASSUME NEW d \in Discounts, CompleteCheckout(d) PROVE RefundInv'
  <2>1. SentBefore
    <3>1. Send([kind |-> "checkout", checkout |-> d])
      BY <1>3 DEF CompleteCheckout
    <3>2. \A e \in InvoiceEvents \cup RefundEvents : e \in Events /\ e # [kind |-> "checkout", checkout |-> d]
      BY MoneyEvents
    <3> QED
      BY <3>1, <3>2, SentOnly DEF SentBefore
  <2>2. UNCHANGED <<paid, rows, charged, prov, blind>>
    BY <1>3 DEF CompleteCheckout, moneyVars, refundVars, history
  <2> QED
    BY <1>1, <2>1, <2>2, RefundsRest
<1>4. ASSUME NEW s \in Subs, GraceEnds(s) PROVE RefundInv'
  <2>1. SentBefore /\ UNCHANGED <<paid, rows, charged, prov, blind>>
    BY <1>4 DEF GraceEnds, SentBefore, moneyVars, refundVars, history
  <2> QED
    BY <1>1, <2>1, RefundsRest
<1>5. CASE OpenInvoice
  <2> DEFINE i == [kind |-> "invoice", paid |-> 0]
  <2>1. Send(i) /\ UNCHANGED <<paid, rows, charged, prov, blind>>
    BY <1>5 DEF OpenInvoice, moneyVars, refundVars, history
  <2>2. i.paid = 0 /\ i.kind = "invoice"
    OBVIOUS
  <2> HIDE DEF i
  <2>3. \A e \in InvoiceEvents : inbox'[e] # "unsent" => e.paid <= charged
    <3>1. 0 <= charged
      BY RefundsTyped
    <3> QED
      BY <2>1, <2>2, <3>1, SentOnly, MoneyEvents DEF RefundInv
  <2>4. \A e \in RefundEvents : inbox'[e] # "unsent" => inbox[e] # "unsent"
    BY <2>1, <2>2, SentOnly, MoneyEvents
  <2>5. UNCHANGED <<Known, Total(Known), Total(prov)>>
    BY <2>1 DEF Known, Total
  <2> QED
    BY <1>1, <2>1, <2>3, <2>4, <2>5 DEF RefundInv, RefundsWithinPaid, Is, At
<1>6. CASE Pay
  <2> DEFINE i == [kind |-> "invoice", paid |-> Charge]
  <2>1. /\ Send(i) /\ UNCHANGED <<paid, rows, prov, blind>> /\ charged' = Charge /\ charged = 0
    BY <1>6 DEF Pay, history
  <2>2. i.paid = Charge /\ i.kind = "invoice"
    OBVIOUS
  <2> HIDE DEF i
  <2>3. \A e \in InvoiceEvents : inbox'[e] # "unsent" => e.paid <= charged'
    BY <2>1, EventKinds, RefundsTyped
  <2>4. \A e \in RefundEvents : inbox'[e] # "unsent" => inbox[e] # "unsent"
    BY <2>1, <2>2, SentOnly, MoneyEvents
  <2>5. UNCHANGED <<Known, Total(Known), Total(prov)>>
    BY <2>1 DEF Known, Total
  <2>6. paid' <= charged' /\ (Total(prov) <= charged => Total(prov) <= charged')
    BY <2>1, RefundsTyped
  <2> QED
    BY <1>1, <2>1, <2>3, <2>4, <2>5, <2>6 DEF RefundInv, RefundsWithinPaid, Is, At
<1>7. ASSUME NEW k \in Refunds, NEW n \in 1..Charge, RefundByHand(k, n) PROVE RefundInv'
  <2> DEFINE i == [kind |-> "refund", refund |-> k, status |-> "live"]
  <2>1. /\ Send(i) /\ UNCHANGED <<paid, rows, charged, blind>> /\ n <= charged - Total(prov)
        /\ prov' = [prov EXCEPT ![k] = [status |-> "live", amount |-> n]] /\ prov[k] = NoRefund
    BY <1>7 DEF RefundByHand, history
  <2>2. i.refund = k /\ i.kind = "refund" /\ i.status = "live"
    OBVIOUS
  <2> HIDE DEF i
  <2>3. n \in Nat /\ rows[k] = NoRefund
    BY <2>1, RefundsTyped DEF RefundInv
  <2>4. prov'[k].status = "live" /\ \A j \in Refunds \ {k} : prov'[j] = prov[j]
    BY <2>1, RefundsTyped DEF RefundTables
  <2>5. \A e \in InvoiceEvents : inbox'[e] # "unsent" => inbox[e] # "unsent"
    BY <2>1, <2>2, SentOnly, MoneyEvents
  <2>6. \A e \in RefundEvents : inbox'[e] # "unsent" =>
           /\ prov'[e.refund] # NoRefund
           /\ e.status = "failed" => prov'[e.refund].status = "failed"
    <3> SUFFICES ASSUME NEW e \in RefundEvents, inbox'[e] # "unsent"
                 PROVE  /\ prov'[e.refund] # NoRefund
                        /\ e.status = "failed" => prov'[e.refund].status = "failed"
      OBVIOUS
    <3>1. e.refund \in Refunds /\ (inbox[e] # "unsent" \/ e = i)
      BY <2>1, SentOnly, MoneyEvents, EventKinds
    <3>2. inbox[e] # "unsent" => e.refund # k
      BY <2>1 DEF RefundInv
    <3> QED
      BY <2>2, <2>4, <3>1, <3>2, RefundsTyped DEF RefundInv
  <2>7. Known' = Known /\ Total(Known)' = Total(Known)
    <3>1. \A j \in Refunds : (IF rows'[j].status = "live" THEN prov'[j] ELSE NoRefund)
                             = (IF rows[j].status = "live" THEN prov[j] ELSE NoRefund)
      BY <2>1, <2>3, <2>4, RefundsTyped
    <3>2. Known' = Known
      BY <3>1 DEF Known
    <3> QED
      BY <3>2 DEF Total
  <2>8. Total(prov)' = Total(prov) + n
    BY <2>1, <2>3, RefundsTyped, TotalAdds
  <2>9. RefundsWithinPaid'
    BY <2>1, <2>3, <2>8, RefundsTyped DEF RefundsWithinPaid
  <2>10. \A j \in Refunds : prov[j] # NoRefund => prov'[j] = prov[j]
    BY <2>1, <2>4
  <2>11. \A r \in Requests : Is(r, "refund") /\ At(r, "save") => prov'[req[r].key] # NoRefund
    <3>1. \A r \in Requests : Is(r, "refund") => req[r].key \in Refunds
      BY DEF TypeInv, PlaceRule, Placed, Is
    <3> QED
      BY <2>10, <3>1 DEF RefundInv
  <2> QED
    BY <1>1, <2>1, <2>3, <2>5, <2>6, <2>7, <2>9, <2>10, <2>11 DEF RefundInv, Is, At
<1>8. ASSUME NEW k \in Refunds, RefundFails(k) PROVE RefundInv'
  <2> DEFINE i == [kind |-> "refund", refund |-> k, status |-> "failed"]
  <2>1. /\ Send(i) /\ UNCHANGED <<paid, rows, charged, blind>>
        /\ prov' = [prov EXCEPT ![k].status = "failed"] /\ prov[k].status = "live"
    BY <1>8 DEF RefundFails, history
  <2>2. i.refund = k /\ i.kind = "refund" /\ i.status = "failed"
    OBVIOUS
  <2> HIDE DEF i
  <2>3. /\ prov'[k].status = "failed" /\ prov'[k].amount = prov[k].amount /\ prov'[k] # NoRefund
        /\ \A j \in Refunds \ {k} : prov'[j] = prov[j]
    <3>1. prov[k] \in RefundRows /\ prov'[k] = [prov[k] EXCEPT !.status = "failed"]
          /\ \A j \in Refunds \ {k} : prov'[j] = prov[j]
      BY <2>1, RefundsTyped DEF RefundTables
    <3>2. prov'[k].status = "failed" /\ prov'[k].amount = prov[k].amount
      BY <3>1 DEF RefundRows
    <3> QED
      BY <3>1, <3>2, RefundsTyped
  <2>4. \A e \in InvoiceEvents : inbox'[e] # "unsent" => inbox[e] # "unsent"
    BY <2>1, <2>2, SentOnly, MoneyEvents
  <2>5. \A e \in RefundEvents : inbox'[e] # "unsent" =>
           /\ prov'[e.refund] # NoRefund
           /\ e.status = "failed" => prov'[e.refund].status = "failed"
    <3> SUFFICES ASSUME NEW e \in RefundEvents, inbox'[e] # "unsent"
                 PROVE  /\ prov'[e.refund] # NoRefund
                        /\ e.status = "failed" => prov'[e.refund].status = "failed"
      OBVIOUS
    <3>1. e.refund \in Refunds /\ (inbox[e] # "unsent" \/ e = i)
      BY <2>1, SentOnly, MoneyEvents, EventKinds
    <3> QED
      BY <2>2, <2>3, <3>1 DEF RefundInv
  <2>6. prov' \in RefundTables /\ Known' \in RefundTables
    BY RefundsStayTyped
  <2>7. Total(prov)' <= Total(prov)
    <3>1. \A j \in Refunds : prov'[j].status = "live"
                             => prov[j].status = "live" /\ prov'[j].amount <= prov[j].amount
      BY <2>1, <2>3, RefundsTyped DEF RefundTables, RefundRows
    <3> QED
      BY <2>6, <3>1, RefundsTyped, TotalLess
  <2>8. Total(Known)' <= Total(Known)
    <3>1. ASSUME NEW j \in Refunds, Known'[j].status = "live"
          PROVE  Known[j].status = "live" /\ Known'[j].amount <= Known[j].amount
      <4>1. Known'[j] = (IF rows[j].status = "live" THEN prov'[j] ELSE NoRefund)
        BY <2>1 DEF Known
      <4>2. j # k /\ Known'[j] = Known[j]
        BY <2>3, <3>1, <4>1, RefundsTyped DEF Known
      <4> QED
        BY <3>1, <4>2, RefundsTyped DEF RefundTables, RefundRows
    <3> QED
      BY <2>6, <3>1, RefundsTyped, TotalLess
  <2>9. Total(prov)' \in Nat /\ Total(Known)' \in Nat
    BY RefundsStayTyped
  <2>10. RefundsWithinPaid'
    BY <2>1, <2>7, <2>9, RefundsTyped DEF RefundInv, RefundsWithinPaid
  <2>11. \A r \in Requests : Is(r, "refund") =>
           /\ At(r, "ask") => Total(Known)' + req[r].amount <= paid
           /\ At(r, "save") => prov'[req[r].key] # NoRefund
    <3> SUFFICES ASSUME NEW r \in Requests, Is(r, "refund")
                 PROVE  /\ At(r, "ask") => Total(Known)' + req[r].amount <= paid
                        /\ At(r, "save") => prov'[req[r].key] # NoRefund
      OBVIOUS
    <3>1. req[r].key \in Refunds /\ req[r].amount \in Nat
      BY DEF TypeInv, BillingTypeOK, RequestStates, PlaceRule, Placed, Is
    <3>2. At(r, "ask") => Total(Known)' + req[r].amount <= paid
      BY <2>8, <2>9, <3>1, RefundsTyped DEF RefundInv
    <3> QED
      BY <2>3, <3>1, <3>2 DEF RefundInv
  <2> QED
    BY <1>1, <2>1, <2>3, <2>4, <2>5, <2>10, <2>11 DEF RefundInv, Is, At
<1> QED
  BY <1>2, <1>3, <1>4, <1>5, <1>6, <1>7, <1>8 DEF Provider

\* The statements of a webhook that write no money.
LEMMA WebhooksRest ==
  ASSUME TypeInv, AppliedInv, RefundInv, NEW r \in Requests,
         \/ (\E e \in Events : Claim(r, e)) \/ ReadGrace(r) \/ Upsert(r) \/ Recompute(r) \/ Disable(r)
         \/ DisableLate(r) \/ Unmatched(r) \/ Fails(r) \/ Catch(r) \/ Write(r) \/ ApplyCheckout(r)
  PROVE  RefundInv'
<1>1. UNCHANGED <<paid, rows, charged, prov, blind>>
  BY DEF Claim, ReadGrace, Upsert, Recompute, Disable, DisableLate, Unmatched, Fails,
    Catch, Write, ApplyCheckout, moneyVars, refundVars, history
<1>2. SameRefunds
  <2>1. CASE Write(r) \/ ApplyCheckout(r)
    BY <2>1, Commits, IdleTyped DEF SameRefunds, Is
  <2>2. CASE ~(Write(r) \/ ApplyCheckout(r))
    <3>1. OnlyMoves(r, {"webhook"})
      BY <2>2, Moves
    <3> QED
      BY <3>1 DEF OnlyMoves, SameRefunds, Is
  <2> QED
    BY <2>1, <2>2
<1>3. SentBefore
  <2>1. ASSUME NEW e \in Events, NEW s, inbox' = [inbox EXCEPT ![e] = s], inbox[e] # "unsent"
        PROVE  SentBefore
    BY <2>1, MoneyEvents DEF SentBefore, TypeInv, BillingTypeOK
  <2>3. ASSUME NEW e \in Events, Claim(r, e) PROVE SentBefore
    BY <2>1, <2>3 DEF Claim, Claimable
  <2>4. CASE Write(r) \/ ApplyCheckout(r) \/ Catch(r)
    <3>1. req[r].event \in Events /\ Is(r, "webhook")
      BY <2>4, Commits DEF Catch, At, Is, TypeInv, PlaceRule, Placed, WebhookStates
    <3>2. inbox[req[r].event] # "unsent"
      BY <3>1 DEF AppliedInv, WorkRule
    <3>3. \E s : inbox' = [inbox EXCEPT ![req[r].event] = s]
      BY <2>4, Commits DEF Catch, Processed
    <3> QED
      BY <2>1, <3>1, <3>2, <3>3
  <2>2. CASE UNCHANGED inbox
    BY <2>2 DEF SentBefore
  <2> QED
    BY <2>2, <2>3, <2>4 DEF ReadGrace, Upsert, Recompute, Disable, DisableLate, Unmatched, Fails
<1> QED
  BY <1>1, <1>2, <1>3, RefundsRest

\* A delivered event writes what is true of the provider: the payment, which no
\* request has locked, or the state of a refund.
LEMMA InvoiceRefunds ==
  ASSUME TypeInv, TypeInv', AppliedInv, RefundInv, NEW r \in Requests, ApplyInvoice(r)
  PROVE  RefundInv'
<1> DEFINE e == req[r].event
<1>1. e \in InvoiceEvents /\ Is(r, "webhook")
  BY EventKinds DEF ApplyInvoice, Applying, At, Is, TypeInv, PlaceRule, Placed, WebhookStates
<1>2. /\ paid' = e.paid /\ ~Locked /\ inbox' = [inbox EXCEPT ![e] = "processed"]
      /\ UNCHANGED <<rows, charged, prov, blind>>
  BY DEF ApplyInvoice, Processed
<1>3. inbox[e] # "unsent"
  BY <1>1 DEF AppliedInv, WorkRule
<1>4. paid' <= charged
  BY <1>1, <1>2, <1>3 DEF RefundInv
<1>5. SentBefore
  BY <1>1, <1>2, <1>3, MoneyEvents DEF SentBefore, TypeInv, BillingTypeOK
<1>6. \A q \in Requests : ~Is(q, "refund")'
  BY <1>2, Commits, IdleTyped DEF Locked, Is
<1>7. UNCHANGED <<Total(prov)>>
  BY <1>2 DEF Total
<1> QED
  BY <1>2, <1>4, <1>5, <1>6, <1>7 DEF RefundInv, SentBefore, RefundsWithinPaid

LEMMA EventRefunds ==
  ASSUME TypeInv, TypeInv', AppliedInv, RefundInv, NEW r \in Requests, ApplyRefund(r)
  PROVE  RefundInv'
<1>1. PICK e \in RefundEvents : e = req[r].event
  BY EventKinds DEF ApplyRefund, Applying, At, TypeInv, PlaceRule, Placed, WebhookStates
<1>2. PICK k \in Refunds : k = e.refund
  BY EventKinds
<1>3. /\ rows' = [rows EXCEPT ![k] = [status |-> e.status, amount |-> prov[k].amount]]
      /\ (rows[k] = NoRefund => ~Locked) /\ inbox' = [inbox EXCEPT ![e] = "processed"]
      /\ UNCHANGED <<paid, charged, prov, blind>> /\ Is(r, "webhook")
  BY <1>1, <1>2, Commits DEF ApplyRefund, Processed, Is
<1>4. inbox[e] # "unsent"
  BY <1>1, <1>3 DEF AppliedInv, WorkRule
<1>5. SentBefore
  BY <1>1, <1>3, <1>4, MoneyEvents DEF SentBefore, TypeInv, BillingTypeOK
<1>6. SameRefunds
  BY Commits, IdleTyped DEF SameRefunds, Is
<1>7. prov[k] # NoRefund /\ (e.status = "failed" => prov[k].status = "failed")
      /\ e.status \in {"live", "failed"}
  BY <1>2, <1>4, EventKinds DEF RefundInv
<1>8. /\ rows'[k].status = e.status /\ rows'[k].amount = prov[k].amount
      /\ \A j \in Refunds \ {k} : rows'[j] = rows[j]
  BY <1>3, RefundsTyped DEF RefundTables
<1>9. \A j \in Refunds : rows'[j] # NoRefund =>
         /\ prov[j] # NoRefund /\ rows'[j].amount = prov[j].amount
         /\ rows'[j].status \in {"live", "failed"}
         /\ rows'[j].status = "failed" => prov[j].status = "failed"
  BY <1>7, <1>8 DEF RefundInv
<1>10. ASSUME NEW j \in Refunds, Known'[j].status = "live", Locked
       PROVE  Known[j].status = "live" /\ Known'[j].amount = Known[j].amount
  <2>1. Known'[j] = (IF rows'[j].status = "live" THEN prov[j] ELSE NoRefund)
    BY <1>3 DEF Known
  <2>2. rows'[j].status = "live" /\ prov[j].status = "live" /\ Known'[j] = prov[j]
    BY <1>10, <2>1, RefundsTyped
  <2>3. rows[j].status = "live"
    <3>1. CASE j = k
      BY <1>3, <1>10, <2>2, <3>1 DEF RefundInv
    <3>2. CASE j # k
      BY <1>8, <2>2, <3>2
    <3> QED
      BY <3>1, <3>2
  <2> QED
    BY <2>2, <2>3 DEF Known
<1>11. Known' \in RefundTables /\ Total(Known)' \in Nat
  BY RefundsStayTyped
<1>12. Locked => Total(Known)' <= Total(Known)
  <2> SUFFICES ASSUME Locked PROVE Total(Known)' <= Total(Known)
    OBVIOUS
  <2>1. \A j \in Refunds : Known'[j].status = "live"
                           => Known[j].status = "live" /\ Known'[j].amount <= Known[j].amount
    BY <1>10, RefundsTyped DEF RefundTables, RefundRows
  <2> QED
    BY <1>11, <2>1, RefundsTyped, TotalLess
<1>13. \A q \in Requests : Is(q, "refund")' =>
          /\ At(q, "ask")' => Total(Known)' + req'[q].amount <= paid
          /\ At(q, "save")' => prov[req'[q].key] # NoRefund
  <2> SUFFICES ASSUME NEW q \in Requests, Is(q, "refund")'
               PROVE  /\ At(q, "ask")' => Total(Known)' + req'[q].amount <= paid
                      /\ At(q, "save")' => prov[req'[q].key] # NoRefund
    OBVIOUS
  <2>1. /\ Is(q, "refund") /\ req'[q].at = req[q].at /\ req'[q].key = req[q].key
        /\ req'[q].amount = req[q].amount /\ req[q].amount \in Nat
    BY <1>6 DEF SameRefunds, TypeInv, BillingTypeOK, RequestStates
  <2>2. Total(Known)' <= Total(Known)
    BY <1>12, <2>1 DEF Locked
  <2>3. /\ At(q, "ask") => Total(Known) + req[q].amount <= paid
        /\ At(q, "save") => prov[req[q].key] # NoRefund
    BY <2>1 DEF RefundInv
  <2> QED
    BY <1>11, <2>1, <2>2, <2>3, RefundsTyped DEF At
<1>14. RefundsWithinPaid'
  <2>1. Total(prov)' = Total(prov)
    BY <1>3 DEF Total
  <2> QED
    BY <1>3, <2>1 DEF RefundInv, RefundsWithinPaid
<1>15. (\A q, p \in Requests : Is(q, "refund") /\ Is(p, "refund") => q = p)'
  BY <1>6 DEF RefundInv, SameRefunds
<1> QED
  BY <1>3, <1>5, <1>9, <1>13, <1>14, <1>15 DEF RefundInv, SentBefore

\* A request for a refund is the only one, and has seen what is left.
LEMMA CallRefunds ==
  ASSUME TypeInv, RefundInv, NEW r \in Requests, NEW k \in Refunds, NEW n \in 1..Charge,
         CallRefund(r, k, n)
  PROVE  RefundInv'
<1> DEFINE x == [Idle EXCEPT !.op = "refund", !.at = "ask", !.key = k, !.amount = n]
<1>1. x.op = "refund" /\ x.at = "ask" /\ x.amount = n /\ n \in Nat
  BY BillingAssumption DEF Idle
<1>2. Become(r, x) /\ ~Locked /\ n <= paid - Total(rows)
      /\ UNCHANGED <<inbox, paid, rows, charged, prov, blind>>
  BY DEF CallRefund, InvoiceFree, Refundable, moneyVars, refundVars, history
<1> HIDE DEF x
<1>3. req'[r] = x /\ \A q \in Requests \ {r} : req'[q] = req[q]
  BY <1>2 DEF Become, TypeInv, BillingTypeOK
<1>4. \A q \in Requests \ {r} : ~Is(q, "refund")'
  BY <1>2, <1>3 DEF Locked, Is
<1>5. UNCHANGED <<Known, Total(Known), Total(prov)>>
  BY <1>2 DEF Known, Total
<1>6. Total(Known) <= Total(rows)
  <2>1. \A j \in Refunds : Known[j].status = "live"
                           => rows[j].status = "live" /\ Known[j].amount <= rows[j].amount
    <3> SUFFICES ASSUME NEW j \in Refunds, Known[j].status = "live"
                 PROVE  rows[j].status = "live" /\ Known[j].amount <= rows[j].amount
      OBVIOUS
    <3>1. rows[j].status = "live" /\ Known[j].amount = prov[j].amount
      BY KnownLive
    <3>2. rows[j].amount = prov[j].amount /\ rows[j].amount \in Nat
      BY <3>1, RefundsTyped DEF RefundInv, RefundTables, RefundRows
    <3> QED
      BY <3>1, <3>2
  <2> QED
    BY <2>1, RefundsTyped, TotalLess
<1>7. Total(Known) + n <= paid
  BY <1>1, <1>2, <1>6, RefundsTyped
<1>8. \A q \in Requests : Is(q, "refund")' =>
         /\ At(q, "ask")' => Total(Known)' + req'[q].amount <= paid
         /\ At(q, "save")' => prov[req'[q].key] # NoRefund
  BY <1>1, <1>3, <1>4, <1>5, <1>7 DEF At
<1> QED
  BY <1>2, <1>4, <1>5, <1>8 DEF RefundInv, RefundsWithinPaid

\* The provider makes the refund: with nothing unknown, all that it has made is
\* known, and this one still fits.
LEMMA AskRefunds ==
  ASSUME TypeInv, TypeInv', RefundInv, NEW r \in Requests, Ask(r) \/ AskLost(r)
  PROVE  RefundInv'
<1>1. PICK k \in Refunds : k = req[r].key
  BY DEF Ask, AskLost, AskProvider, At, TypeInv, PlaceRule, Placed
<1>2. PICK n \in Nat : n = req[r].amount
  BY DEF TypeInv, BillingTypeOK, RequestStates
<1>3. /\ Is(r, "refund") /\ At(r, "ask") /\ UNCHANGED <<paid, rows, charged>>
      /\ Go(r, "save") \/ Done(r)
  BY DEF Ask, AskLost, AskProvider, Is, At, TypeInv, PlaceRule, Placed
<1>4. IF prov[k] = NoRefund
      THEN /\ prov' = [prov EXCEPT ![k] = [status |-> "live", amount |-> n]]
           /\ Send([kind |-> "refund", refund |-> k, status |-> "live"])
           /\ blind' = (blind \/ \E j \in Refunds : Unknown(j))
      ELSE UNCHANGED <<prov, inbox, blind>>
  BY <1>1, <1>2 DEF Ask, AskLost, AskProvider
<1>5. /\ \A q \in Requests \ {r} : req'[q] = req[q] /\ ~Is(q, "refund")
      /\ req'[r].key = k \/ req'[r].op = "none"
      /\ req'[r].at = "save" \/ req'[r].op = "none"
  BY <1>1, <1>3, Goes, Ends, IdleTyped DEF RefundInv
<1>6. Total(Known) + n <= paid
  BY <1>2, <1>3 DEF RefundInv
<1>7. CASE prov[k] # NoRefund
  <2>1. UNCHANGED <<prov, inbox, blind>>
    BY <1>4, <1>7
  <2>2. UNCHANGED <<Total(prov)>>
    BY <2>1 DEF Total
  <2>3. \A q \in Requests : Is(q, "refund")' =>
           q = r /\ req'[q].at = "save" /\ req'[q].key = k
    BY <1>5 DEF Is
  <2> QED
    BY <1>3, <1>7, <2>1, <2>2, <2>3 DEF RefundInv, RefundsWithinPaid, At
<1>8. CASE prov[k] = NoRefund
  <2> DEFINE i == [kind |-> "refund", refund |-> k, status |-> "live"]
  <2>1. /\ prov' = [prov EXCEPT ![k] = [status |-> "live", amount |-> n]] /\ Send(i)
        /\ blind' = (blind \/ \E j \in Refunds : Unknown(j))
    BY <1>4, <1>8
  <2>2. i.refund = k /\ i.kind = "refund" /\ i.status = "live"
    OBVIOUS
  <2> HIDE DEF i
  <2>3. prov'[k].status = "live" /\ \A j \in Refunds \ {k} : prov'[j] = prov[j]
    BY <2>1, RefundsTyped DEF RefundTables
  <2>4. rows[k] = NoRefund
    BY <1>8 DEF RefundInv
  <2>5. \A e \in InvoiceEvents : inbox'[e] # "unsent" => inbox[e] # "unsent"
    BY <2>1, <2>2, SentOnly, MoneyEvents
  <2>6. \A e \in RefundEvents : inbox'[e] # "unsent" =>
           /\ prov'[e.refund] # NoRefund
           /\ e.status = "failed" => prov'[e.refund].status = "failed"
    <3> SUFFICES ASSUME NEW e \in RefundEvents, inbox'[e] # "unsent"
                 PROVE  /\ prov'[e.refund] # NoRefund
                        /\ e.status = "failed" => prov'[e.refund].status = "failed"
      OBVIOUS
    <3>1. e.refund \in Refunds /\ (inbox[e] # "unsent" \/ e = i)
      BY <2>1, SentOnly, MoneyEvents, EventKinds
    <3>2. inbox[e] # "unsent" => e.refund # k
      BY <1>8 DEF RefundInv
    <3> QED
      BY <2>2, <2>3, <3>1, <3>2, RefundsTyped DEF RefundInv
  <2>7. \A q \in Requests : Is(q, "refund")' =>
           q = r /\ req'[q].at = "save" /\ req'[q].key = k
    BY <1>5 DEF Is
  <2>8. \A j \in Refunds : rows[j] # NoRefund => prov'[j] = prov[j] /\ j # k
    BY <2>3, <2>4
  <2>9. RefundsWithinPaid'
    <3> SUFFICES ASSUME ~blind' PROVE Total(prov)' <= charged'
      BY DEF RefundsWithinPaid
    <3>1. \A j \in Refunds : prov[j].status = "live" => rows[j].status = "live"
      <4>1. \A q \in Requests : Is(q, "refund") => ~At(q, "save")
        BY <1>3 DEF RefundInv, At
      <4> QED
        BY <2>1, <4>1 DEF Unknown
    <3>2. Total(prov) <= Total(Known)
      <4>1. \A j \in Refunds : prov[j].status = "live"
                               => Known[j].status = "live" /\ prov[j].amount <= Known[j].amount
        BY <3>1, KnownLive, RefundsTyped DEF RefundTables, RefundRows
      <4> QED
        BY <4>1, RefundsTyped, TotalLess
    <3>3. Total(prov)' = Total(prov) + n
      BY <1>8, <2>1, RefundsTyped, TotalAdds
    <3> QED
      BY <1>3, <1>6, <3>2, <3>3, RefundsTyped DEF RefundInv
  <2> QED
    BY <1>3, <2>3, <2>5, <2>6, <2>7, <2>8, <2>9, RefundsTyped DEF RefundInv, At
<1> QED
  BY <1>7, <1>8

\* The row says what the provider has refunded.
LEMMA SaveRefunds ==
  ASSUME TypeInv, TypeInv', RefundInv, NEW r \in Requests, Save(r)
  PROVE  RefundInv'
<1>1. PICK k \in Refunds : k = req[r].key
  BY DEF Save, At, TypeInv, PlaceRule, Placed
<1>2. /\ Is(r, "refund") /\ prov[k] # NoRefund /\ Done(r)
      /\ UNCHANGED <<inbox, paid, charged, prov, blind>>
      /\ \/ UNCHANGED rows
         \/ rows' = [rows EXCEPT ![k] = [status |-> "live", amount |-> prov[k].amount]]
  BY <1>1 DEF Save, Is, At, TypeInv, PlaceRule, Placed, RefundInv, history
<1>3. \A q \in Requests : ~Is(q, "refund")'
  BY <1>2, Ends, IdleTyped DEF RefundInv, Is
<1>4. \A j \in Refunds : \/ rows'[j] = rows[j]
                         \/ j = k /\ rows'[j].status = "live" /\ rows'[j].amount = prov[j].amount
  BY <1>2, RefundsTyped DEF RefundTables
<1>5. \A j \in Refunds : rows'[j] # NoRefund =>
         /\ prov[j] # NoRefund /\ rows'[j].amount = prov[j].amount
         /\ rows'[j].status \in {"live", "failed"}
         /\ rows'[j].status = "failed" => prov[j].status = "failed"
  BY <1>2, <1>4 DEF RefundInv
<1>6. UNCHANGED <<Total(prov)>>
  BY <1>2 DEF Total
<1> QED
  BY <1>2, <1>3, <1>5, <1>6 DEF RefundInv, RefundsWithinPaid

LEMMA OthersRefunds ==
  ASSUME TypeInv, RefundInv, NEW r \in Requests, RecordUsage(r) \/ RedeemCoupon(r) \/ Die(r)
  PROVE  RefundInv'
<1>1. UNCHANGED <<inbox, paid, rows, charged, prov, blind>>
  BY DEF RecordUsage, CallUsage, InsertUsage, CountUsage, RedeemCoupon, CallCheckout, CallApply,
    OpenCheckout, InsertCheckout, InsertDiscount, Die, moneyVars, refundVars, history
<1>2. SameRefunds
  <2>1. CASE Die(r)
    BY <2>1, Moves, IdleTyped DEF SameRefunds, Is
  <2>2. CASE RecordUsage(r) \/ RedeemCoupon(r)
    BY <2>2, Moves DEF OnlyMoves, SameRefunds, Is
  <2> QED
    BY <2>1, <2>2
<1>3. SentBefore
  BY <1>1 DEF SentBefore
<1> QED
  BY <1>1, <1>2, <1>3, RefundsRest

LEMMA RefundInvariance == Spec => []RefundInv
<1>1. Init => RefundInv
  <2> SUFFICES ASSUME Init PROVE RefundInv
    OBVIOUS
  <2>1. \A r \in Requests : ~Is(r, "refund")
    BY IdleTyped DEF Init, Is
  <2>2. Total(prov) = 0
    <3> DEFINE g == [k \in Refunds |-> IF prov[k].status = "live" THEN prov[k].amount ELSE 0]
    <3>1. \A k \in Refunds : g[k] = 0
      BY DEF Init, NoRefund
    <3> HIDE DEF g
    <3>2. SumFunctionOnSet(g, Refunds) = 0
      BY <3>1, BillingAssumption, SumZero
    <3> QED
      BY <3>2 DEF Total, g
  <2> QED
    BY <2>1, <2>2, MoneyEvents DEF Init, RefundInv, RefundsWithinPaid
<1>2. TypeInv /\ TypeInv' /\ AppliedInv /\ RefundInv /\ [Next]_vars => RefundInv'
  <2> SUFFICES ASSUME TypeInv, TypeInv', AppliedInv, RefundInv, [Next]_vars PROVE RefundInv'
    OBVIOUS
  <2>1. CASE UNCHANGED vars
    BY <2>1, RefundsRest
       DEF vars, moneyVars, refundVars, history, SameRefunds, SentBefore, Is
  <2>2. ASSUME NEW r \in Requests, Webhook(r) PROVE RefundInv'
    BY <2>2, WebhooksRest, InvoiceRefunds, EventRefunds DEF Webhook
  <2>3. ASSUME NEW r \in Requests, RequestRefund(r) PROVE RefundInv'
    BY <2>3, CallRefunds, AskRefunds, SaveRefunds DEF RequestRefund
  <2>4. CASE Next
    BY <2>2, <2>3, <2>4, ProviderRefunds, OthersRefunds DEF Next
  <2> QED
    BY <2>1, <2>4
<1> QED
  BY <1>1, <1>2, TypeInvariance, AppliedInvariance, PTL DEF Spec

\* Whatever requests for refunds race, die and are asked again, and in whatever
\* order events arrive: what the provider has refunded stays within what was
\* paid, unless one was asked for while another was still unknown to the rows
\* that requestRefund adds up.
THEOREM RefundsStayWithinPaid == Spec => []RefundsWithinPaid
<1>1. RefundInv => RefundsWithinPaid
  BY DEF RefundInv
<1> QED
  BY <1>1, RefundInvariance, PTL

=============================================================================
