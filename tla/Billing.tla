------------------------------- MODULE Billing -------------------------------
(***************************************************************************)
(* Webhook events, entitlements, metered usage, refunds and a coupon of    *)
(* one tenant and one payment provider (packages/billing/src/service.ts).  *)
(*                                                                         *)
(* A request delivers an event, records usage, asks for a refund or        *)
(* redeems the coupon.  One action is one autocommitted statement, a call  *)
(* to the provider, or the statements of a transaction up to the next one  *)
(* at which it can wait or read what others have committed.  Transactions  *)
(* are READ COMMITTED: what one has written is in its request until it     *)
(* commits, and a guard says which rows it has locked.                     *)
(***************************************************************************)
EXTENDS Integers, FiniteSets, FiniteSetsExt

CONSTANTS
  Requests,
  Subs,       \* subscriptions at the provider
  Plans,
  Features,
  Grants,     \* the features of each plan's entitlements
  Meter,      \* the feature whose usage is metered
  Uses,       \* idempotency keys of recordUsage
  Refunds,    \* refunds at the provider; those asked for here have one key each
  Manual,     \* the refunds made at the provider by hand
  Charge,     \* what the invoice is paid with
  GraceDays,  \* billing_tenant_settings.grace_period_days
  Discounts,  \* redemptions of the coupon, each with the checkout it is for
  MaxRedemptions,  \* max_redemptions of the coupon
  None,
  MaxEvents,  \* bound: subscription events sent
  MaxFaults   \* bound: deaths, failing statements and lost answers, together

ASSUME BillingAssumption ==
  /\ IsFiniteSet(Requests) /\ IsFiniteSet(Subs) /\ IsFiniteSet(Refunds)
  /\ IsFiniteSet(Uses) /\ None \notin Subs
  /\ Grants \in [Plans -> SUBSET Features] /\ Meter \in Features /\ Manual \subseteq Refunds
  /\ Charge \in Nat \ {0} /\ GraceDays \in Nat /\ MaxEvents \in Nat /\ MaxFaults \in Nat
  /\ IsFiniteSet(Discounts) /\ MaxRedemptions \in Nat \ {0}

VARIABLES
  inbox,    \* billing_webhook_events: "unsent" and "sent" are before the row exists
  sub,      \* billing_subscriptions
  older,    \* the subscriptions whose updated_at is before that of each
  ent,      \* billing_entitlements; sub is None before the row exists
  usage,    \* idempotency keys with a row in billing_usage_records
  paid,     \* amount_paid_minor of the invoice, -1 before its row exists
  rows,     \* billing_refunds
  charged, prov,  \* the provider's payment and refunds
  opened,   \* checkout sessions at the provider
  checkout, \* billing_checkout_sessions
  discount, \* billing_discounts
  req,      \* what each request does
  faults,
  applied,  \* history: committed applications of each event
  doubt,    \* history: events whose commit was taken for a failure
  died,     \* history: events whose request died
  raced,    \* history: the entitlements come from a read older than a commit
  lost,     \* history: uses recorded and never counted
  blind,    \* history: a refund was asked for while another one was unknown here
  early     \* history: checkouts that were completed before their discount's row

subVars == <<sub, older, ent>>
refundVars == <<paid, rows, charged, prov>>
couponVars == <<opened, checkout, discount>>
moneyVars == <<refundVars, couponVars>>
history == <<applied, doubt, died, raced, lost, blind, early>>
vars == <<inbox, subVars, usage, moneyVars, req, faults, history>>

SubscriptionEvents ==
  [kind : {"subscription"}, sub : Subs, status : {"active", "past_due", "canceled"}, plan : Plans]
InvoiceEvents == [kind : {"invoice"}, paid : {0, Charge}]
RefundEvents == [kind : {"refund"}, refund : Refunds, status : {"live", "failed"}]
CheckoutEvents == [kind : {"checkout"}, checkout : Discounts]
Events == SubscriptionEvents \cup InvoiceEvents \cup RefundEvents \cup CheckoutEvents

NoSubscription == [status |-> "none", grace |-> "none", plan |-> None]
NoRefund == [status |-> "none", amount |-> 0]
NoEntitlement == [enabled |-> FALSE, sub |-> None, used |-> 0]
\* The subscription that will give each feature, None for none.
Nothing == [f \in Features |-> None]
Idle == [op |-> "none", at |-> "idle", event |-> None, row |-> NoSubscription,
         next |-> Nothing, seen |-> {}, stale |-> FALSE, key |-> None, amount |-> 0]

Init ==
  /\ inbox = [e \in Events |-> "unsent"]
  /\ sub = [s \in Subs |-> NoSubscription] /\ older = [s \in Subs |-> {}]
  /\ ent = [f \in Features |-> NoEntitlement] /\ usage = {}
  /\ paid = -1 /\ rows = [k \in Refunds |-> NoRefund]
  /\ charged = 0 /\ prov = [k \in Refunds |-> NoRefund]
  /\ opened = {} /\ checkout = [d \in Discounts |-> "none"]
  /\ discount = [d \in Discounts |-> "none"]
  /\ req = [r \in Requests |-> Idle] /\ faults = 0
  /\ applied = [e \in Events |-> 0] /\ doubt = {} /\ died = {}
  /\ raced = FALSE /\ lost = {} /\ blind = FALSE /\ early = {}

-----------------------------------------------------------------------------
At(r, s) == req[r].at = s
Is(r, op) == req[r].op = op
Become(r, x) == req' = [req EXCEPT ![r] = x]
Go(r, s) == Become(r, [req[r] EXCEPT !.at = s])
Done(r) == Become(r, Idle)
Fault == faults < MaxFaults /\ faults' = faults + 1
Send(e) == inbox' = [inbox EXCEPT ![e] = IF @ = "unsent" THEN "sent" ELSE @]

\* A subscription that gives its plan's features, and hasEntitlement.
Entitled(s) == sub[s].status = "active" \/ sub[s].grace = "running"
HasEntitlement(f) == ent[f].enabled /\ Entitled(ent[f].sub)

\* The sum over the refunds that have not failed.
Total(table) ==
  SumFunctionOnSet([k \in Refunds |-> IF table[k].status = "live" THEN table[k].amount ELSE 0],
                   Refunds)

-----------------------------------------------------------------------------
(* The provider *)

\* A subscription changes, by itself or because cancelSubscription or
\* changeSubscriptionPlan asked for it.
SendSubscription(e) ==
  /\ e \in SubscriptionEvents /\ inbox[e] = "unsent" /\ Send(e)
  /\ Cardinality({d \in SubscriptionEvents : inbox[d] # "unsent"}) < MaxEvents
  /\ UNCHANGED <<subVars, usage, moneyVars, req, faults, history>>
\* The invoice is opened, and paid.
OpenInvoice ==
  /\ Send([kind |-> "invoice", paid |-> 0])
  /\ UNCHANGED <<subVars, usage, moneyVars, req, faults, history>>
Pay ==
  /\ charged = 0 /\ charged' = Charge /\ Send([kind |-> "invoice", paid |-> Charge])
  /\ UNCHANGED <<subVars, usage, paid, rows, prov, couponVars, req, faults, history>>
RefundByHand(k, n) ==
  /\ k \in Manual /\ prov[k] = NoRefund /\ n <= charged - Total(prov)
  /\ prov' = [prov EXCEPT ![k] = [status |-> "live", amount |-> n]]
  /\ Send([kind |-> "refund", refund |-> k, status |-> "live"])
  /\ UNCHANGED <<subVars, usage, paid, rows, charged, couponVars, req, faults, history>>
RefundFails(k) ==
  /\ prov[k].status = "live" /\ prov' = [prov EXCEPT ![k].status = "failed"]
  /\ Send([kind |-> "refund", refund |-> k, status |-> "failed"])
  /\ UNCHANGED <<subVars, usage, paid, rows, charged, couponVars, req, faults, history>>
CompleteCheckout(d) ==
  /\ d \in opened /\ Send([kind |-> "checkout", checkout |-> d])
  /\ UNCHANGED <<subVars, usage, moneyVars, req, faults, history>>

\* A grace period ends.
GraceEnds(s) ==
  /\ sub[s].grace = "running" /\ sub' = [sub EXCEPT ![s].grace = "over"]
  /\ UNCHANGED <<inbox, older, ent, usage, moneyVars, req, faults, history>>

-----------------------------------------------------------------------------
(* handleWebhook *)

\* Mutant of Claimable: the upsert has no WHERE clause.
ClaimableAlways(e) == inbox[e] # "unsent"

\* A row is inserted, or taken again WHERE status = 'failed'.
Claimable(e) == inbox[e] \in {"sent", "failed"}

\* The provider delivers, once or again; a duplicate changes nothing.
Claim(r, e) ==
  /\ req[r] = Idle /\ Claimable(e)
  /\ inbox' = [inbox EXCEPT ![e] = "processing"]
  /\ Become(r, [Idle EXCEPT !.op = "webhook", !.at = "apply", !.event = e])
  /\ UNCHANGED <<subVars, usage, moneyVars, faults, history>>

Applying(r, kind) == At(r, "apply") /\ req[r].event.kind = kind

\* The transaction of r commits with status = 'processed'; when its answer is
\* lost the catch block runs all the same.
Processed(r, e) ==
  /\ inbox' = [inbox EXCEPT ![e] = "processed"]
  /\ applied' = [applied EXCEPT ![e] = @ + 1]
Answered(r, others) ==
  \/ req' = [others EXCEPT ![r] = Idle] /\ UNCHANGED <<faults, doubt>>
  \/ /\ Fault /\ doubt' = doubt \cup {req[r].event}
     /\ req' = [others EXCEPT ![r] = [req[r] EXCEPT !.at = "catch"]]

\* upsertSubscriptionFromEvent.  It keeps the end of a grace period that it has
\* read; the adapters send none of their own.
GraceAfter(e) ==
  CASE e.status # "past_due" -> "none"
    [] e.status = "past_due" /\ sub[e.sub].grace # "none" -> sub[e.sub].grace
    [] OTHER -> IF GraceDays > 0 THEN "running" ELSE "none"
ReadGrace(r) ==
  LET e == req[r].event IN
  /\ Applying(r, "subscription")
  /\ Become(r, [req[r] EXCEPT !.at = "upsert",
                  !.row = [status |-> e.status, grace |-> GraceAfter(e), plan |-> e.plan]])
  /\ UNCHANGED <<inbox, subVars, usage, moneyVars, faults, history>>

\* The upsert waits for other transactions that have written the subscription.
Upserted(r, s) == req[r].at \in {"recompute", "disable", "wait", "write"} /\ req[r].event.sub = s
Upsert(r) ==
  /\ At(r, "upsert") /\ ~\E q \in Requests : Upserted(q, req[r].event.sub)
  /\ Go(r, "recompute")
  /\ UNCHANGED <<inbox, subVars, usage, moneyVars, faults, history>>

\* The row that r has in hand: the end that it has read may have come since.
Row(r) == IF req[r].row.grace = "running" /\ sub[req[r].event.sub].grace = "over"
          THEN [req[r].row EXCEPT !.grace = "over"] ELSE req[r].row

\* recomputeEntitlements: the subscriptions that count, as the transaction
\* sees them.  Of several that give a feature the last one, which was updated
\* the longest ago, is named.
Touched(s) ==
  [x \in Subs |-> IF x = s THEN {y \in Subs \ {s} : sub[y] # NoSubscription} ELSE older[x] \ {s}]
Seen(r, s) == IF s = req[r].event.sub THEN Row(r) ELSE sub[s]
Giving(r, f) ==
  {s \in Subs : /\ Seen(r, s).status = "active" \/ Seen(r, s).grace = "running"
                /\ f \in Grants[Seen(r, s).plan]}
Named(r, f) == CHOOSE s \in Giving(r, f) : Touched(req[r].event.sub)[s] \cap Giving(r, f) = {}
Recompute(r) ==
  /\ At(r, "recompute")
  /\ Become(r, [req[r] EXCEPT !.at = "disable", !.stale = FALSE,
                  !.next = [f \in Features |->
                              IF Giving(r, f) = {} THEN None ELSE Named(r, f)]])
  /\ UNCHANGED <<inbox, subVars, usage, moneyVars, faults, history>>

\* The UPDATE to enabled = false, of the rows that exist when it begins.  When a
\* transaction has updated one of them it waits for its end.
Existing == {f \in Features : ent[f].sub # None}
Free == \A q \in Requests : At(q, "write") => req[q].seen = {}
Disable(r) ==
  /\ At(r, "disable")
  /\ Become(r, [req[r] EXCEPT !.at = IF Free THEN "write" ELSE "wait", !.seen = Existing])
  /\ UNCHANGED <<inbox, subVars, usage, moneyVars, faults, history>>
DisableLate(r) ==
  /\ At(r, "wait") /\ Free /\ Go(r, "write")
  /\ UNCHANGED <<inbox, subVars, usage, moneyVars, faults, history>>

\* Mutant of Disabled: the rows of features that are no longer given stay.
DisabledNever(r, f) == ent[f]

\* A feature that is not given any more, as far as the UPDATE has seen its row.
Disabled(r, f) == IF f \in req[r].seen THEN [ent[f] EXCEPT !.enabled = FALSE] ELSE ent[f]

\* Mutant of Given: the upsert of a row starts to count again.
GivenFromZero(r, f) == [enabled |-> TRUE, sub |-> req[r].next[f], used |-> 0]

\* The upsert of a feature that is given: used_value stays.
Given(r, f) == [enabled |-> TRUE, sub |-> req[r].next[f], used |-> ent[f].used]

\* The upserts and the commit.  Who has read the subscriptions before it will
\* write what it has read.
Write(r) ==
  LET e == req[r].event
      others == [q \in Requests |->
                   [req[q] EXCEPT !.stale = @ \/ req[q].at \in {"disable", "wait", "write"}]]
  IN
  /\ At(r, "write") /\ Processed(r, e)
  /\ sub' = [sub EXCEPT ![e.sub] = Row(r)] /\ older' = Touched(e.sub)
  /\ ent' = [f \in Features |-> IF req[r].next[f] = None THEN Disabled(r, f) ELSE Given(r, f)]
  /\ raced' = req[r].stale
  /\ Answered(r, others)
  /\ UNCHANGED <<usage, moneyVars, died, lost, blind, early>>

\* The invoice is locked from requestRefund's SELECT ... FOR UPDATE to its end.
Locked == \E q \in Requests : Is(q, "refund")

\* upsertInvoiceFromEvent.
ApplyInvoice(r) ==
  LET e == req[r].event IN
  /\ Applying(r, "invoice") /\ ~Locked
  /\ paid' = e.paid /\ Processed(r, e) /\ Answered(r, req)
  /\ UNCHANGED <<subVars, usage, rows, charged, prov, couponVars, died, raced, lost, blind, early>>

\* upsertRefundFromEvent: a new row refers to the invoice and waits for its lock.
ApplyRefund(r) ==
  LET e == req[r].event IN
  /\ Applying(r, "refund") /\ (rows[e.refund] = NoRefund => ~Locked)
  /\ rows' = [rows EXCEPT ![e.refund] = [status |-> e.status, amount |-> prov[e.refund].amount]]
  /\ Processed(r, e) /\ Answered(r, req)
  /\ UNCHANGED <<subVars, usage, paid, charged, prov, couponVars, died, raced, lost, blind,
                 early>>

\* markCheckoutCompleted: the row is completed, and with it a discount that
\* waits; without a row it raises.
ApplyCheckout(r) ==
  LET d == req[r].event.checkout IN
  /\ Applying(r, "checkout") /\ checkout[d] # "none"
  /\ checkout' = [checkout EXCEPT ![d] = "complete"]
  /\ discount' = [discount EXCEPT ![d] = IF @ = "pending_checkout" THEN "active" ELSE @]
  /\ Processed(r, req[r].event) /\ Answered(r, req)
  /\ UNCHANGED <<subVars, usage, refundVars, opened, died, raced, lost, blind, early>>
Unmatched(r) ==
  /\ Applying(r, "checkout") /\ checkout[req[r].event.checkout] = "none" /\ Go(r, "catch")
  /\ UNCHANGED <<inbox, subVars, usage, moneyVars, faults, history>>

\* The transaction raises (a row it needs is missing, a deadlock, the database)
\* and leaves nothing; the catch block marks the event.
Fails(r) ==
  /\ Is(r, "webhook") /\ ~At(r, "catch") /\ Fault
  /\ Become(r, [Idle EXCEPT !.op = "webhook", !.at = "catch", !.event = req[r].event])
  /\ UNCHANGED <<inbox, subVars, usage, moneyVars, history>>
Catch(r) ==
  /\ At(r, "catch") /\ inbox' = [inbox EXCEPT ![req[r].event] = "failed"] /\ Done(r)
  /\ UNCHANGED <<subVars, usage, moneyVars, faults, history>>

-----------------------------------------------------------------------------
(* recordUsage *)

\* No record has the key.  The provider is told with the same key by every
\* call, and may refuse.
CallUsage(r, u) ==
  /\ req[r] = Idle /\ u \notin usage
  /\ Become(r, [Idle EXCEPT !.op = "usage", !.at = "insert", !.key = u])
  /\ UNCHANGED <<inbox, subVars, usage, moneyVars, faults, history>>
\* INSERT ... ON CONFLICT DO NOTHING: a duplicate ends here.
InsertUsage(r) ==
  LET u == req[r].key IN
  /\ At(r, "insert") /\ usage' = usage \cup {u}
  /\ IF u \in usage THEN Done(r) ELSE Go(r, "count")
  /\ UNCHANGED <<inbox, subVars, moneyVars, faults, history>>
\* The UPDATE of used_value finds a row, or not; it waits for its lock.
CountUsage(r) ==
  /\ At(r, "count") /\ \A q \in Requests : At(q, "write") => Meter \notin req[q].seen
  /\ IF Meter \in Existing
     THEN ent' = [ent EXCEPT ![Meter].used = @ + 1] /\ UNCHANGED lost
     ELSE lost' = lost \cup {req[r].key} /\ UNCHANGED ent
  /\ Done(r)
  /\ UNCHANGED <<inbox, sub, older, usage, moneyVars, faults, applied, doubt, died, raced,
                 blind, early>>

-----------------------------------------------------------------------------
(* requestRefund, one transaction *)

\* Mutant of InvoiceFree: SELECT without FOR UPDATE.
InvoiceFreeAlways == TRUE

InvoiceFree == ~Locked

\* refundableAmountMinor.
Refundable == paid - Total(rows)

\* The invoice is locked; refunds of its payment that came before it are linked
\* to it; no refund has the key; the amount, by default what is left, is there.
CallRefund(r, k, n) ==
  /\ req[r] = Idle /\ k \notin Manual /\ paid > 0 /\ InvoiceFree
  /\ rows[k] = NoRefund /\ n <= Refundable
  /\ Become(r, [Idle EXCEPT !.op = "refund", !.at = "ask", !.key = k, !.amount = n])
  /\ UNCHANGED <<inbox, subVars, usage, moneyVars, faults, history>>

\* What the provider has refunded and nobody here knows of or is about to record.
Unknown(k) ==
  /\ prov[k].status = "live" /\ rows[k].status # "live"
  /\ ~\E q \in Requests : Is(q, "refund") /\ At(q, "save") /\ req[q].key = k

\* createRefund at the provider: a key that it has seen gets the refund it got.
AskProvider(r) ==
  LET k == req[r].key IN
  /\ At(r, "ask")
  /\ IF prov[k] = NoRefund
     THEN /\ prov' = [prov EXCEPT ![k] = [status |-> "live", amount |-> req[r].amount]]
          /\ Send([kind |-> "refund", refund |-> k, status |-> "live"])
          /\ blind' = (blind \/ \E j \in Refunds : Unknown(j))
     ELSE UNCHANGED <<prov, inbox, blind>>
Ask(r) ==
  /\ AskProvider(r) /\ Go(r, "save")
  /\ UNCHANGED <<subVars, usage, paid, rows, charged, couponVars, faults, applied, doubt, died,
                 raced, lost, early>>
\* The call raises after it was done: the transaction is rolled back.
AskLost(r) ==
  /\ Fault /\ AskProvider(r) /\ Done(r)
  /\ UNCHANGED <<subVars, usage, paid, rows, charged, couponVars, applied, doubt, died, raced,
                 lost, early>>

\* The response is for another amount, or the row is written and the commit done.
Save(r) ==
  LET k == req[r].key IN
  /\ At(r, "save") /\ Done(r)
  /\ IF prov[k].amount = req[r].amount
     THEN rows' = [rows EXCEPT ![k] = [status |-> "live", amount |-> req[r].amount]]
     ELSE UNCHANGED rows
  /\ UNCHANGED <<inbox, subVars, usage, paid, charged, prov, couponVars, faults, history>>

-----------------------------------------------------------------------------
(* createCheckoutSession and applyDiscountToSubscription with the coupon *)

\* Mutant of Redeemable: one redemption more.
RedeemableLate == Cardinality({d \in Discounts : discount[d] # "none"}) <= MaxRedemptions

\* findRedeemableCoupon counts active discounts and those of open checkouts.
Redeemable == Cardinality({d \in Discounts : discount[d] # "none"}) < MaxRedemptions

CallCheckout(r, d) ==
  /\ req[r] = Idle /\ d \notin opened /\ discount[d] = "none" /\ Redeemable
  /\ \A q \in Requests : req[q].key # d
  /\ Become(r, [Idle EXCEPT !.op = "checkout", !.at = "open", !.key = d])
  /\ UNCHANGED <<inbox, subVars, usage, moneyVars, faults, history>>
OpenCheckout(r) ==
  /\ At(r, "open") /\ opened' = opened \cup {req[r].key} /\ Go(r, "session")
  /\ UNCHANGED <<inbox, subVars, usage, refundVars, checkout, discount, faults, history>>
InsertCheckout(r) ==
  /\ At(r, "session") /\ checkout' = [checkout EXCEPT ![req[r].key] = "open"]
  /\ Go(r, "discount")
  /\ UNCHANGED <<inbox, subVars, usage, refundVars, opened, discount, faults, history>>

\* The provider takes the coupon for a subscription before its row is written.
CallApply(r, d) ==
  /\ req[r] = Idle /\ d \notin opened /\ discount[d] = "none" /\ Redeemable
  /\ \A q \in Requests : req[q].key # d
  /\ Become(r, [Idle EXCEPT !.op = "apply", !.at = "discount", !.key = d])
  /\ UNCHANGED <<inbox, subVars, usage, moneyVars, faults, history>>

InsertDiscount(r) ==
  LET d == req[r].key IN
  /\ At(r, "discount") /\ Done(r)
  /\ discount' = [discount EXCEPT ![d] = IF Is(r, "apply") THEN "active" ELSE "pending_checkout"]
  /\ early' = IF checkout[d] = "complete" THEN early \cup {d} ELSE early
  /\ UNCHANGED <<inbox, subVars, usage, refundVars, opened, checkout, faults, applied, doubt,
                 died, raced, lost, blind>>

\* A statement raises, or the process dies, between two statements: an open
\* transaction leaves nothing, a claimed event and a recorded use stay.
Die(r) ==
  /\ req[r] # Idle /\ Fault /\ Done(r)
  /\ died' = IF Is(r, "webhook") THEN died \cup {req[r].event} ELSE died
  /\ lost' = IF At(r, "count") THEN lost \cup {req[r].key} ELSE lost
  /\ UNCHANGED <<inbox, subVars, usage, moneyVars, applied, doubt, raced, blind, early>>

-----------------------------------------------------------------------------
Provider ==
  \/ \E e \in Events : SendSubscription(e)
  \/ OpenInvoice \/ Pay
  \/ \E k \in Refunds, n \in 1..Charge : RefundByHand(k, n)
  \/ \E k \in Refunds : RefundFails(k)
  \/ \E d \in Discounts : CompleteCheckout(d)
Webhook(r) ==
  \/ \E e \in Events : Claim(r, e)
  \/ ReadGrace(r) \/ Upsert(r) \/ Recompute(r) \/ Disable(r) \/ DisableLate(r) \/ Write(r)
  \/ ApplyInvoice(r) \/ ApplyRefund(r) \/ ApplyCheckout(r) \/ Unmatched(r) \/ Fails(r) \/ Catch(r)
RecordUsage(r) == (\E u \in Uses : CallUsage(r, u)) \/ InsertUsage(r) \/ CountUsage(r)
RequestRefund(r) ==
  \/ \E k \in Refunds, n \in 1..Charge : CallRefund(r, k, n)
  \/ Ask(r) \/ AskLost(r) \/ Save(r)
RedeemCoupon(r) ==
  \/ \E d \in Discounts : CallCheckout(r, d) \/ CallApply(r, d)
  \/ OpenCheckout(r) \/ InsertCheckout(r) \/ InsertDiscount(r)

Next ==
  \/ Provider \/ \E s \in Subs : GraceEnds(s)
  \/ \E r \in Requests : Webhook(r) \/ RecordUsage(r) \/ RequestRefund(r) \/ RedeemCoupon(r) \/ Die(r)

Spec == Init /\ [][Next]_vars

-----------------------------------------------------------------------------
\* However often an event is delivered, and by however many requests at once,
\* handleWebhook applies it once, unless a commit was taken for a failure.  A
\* processed event was applied, and an event that stays 'processing' with nobody
\* at work on it has lost its request.
AppliedOnce ==
  \A e \in Events :
    /\ applied[e] <= 1 \/ e \in doubt
    /\ inbox[e] = "processed" => applied[e] >= 1
    /\ inbox[e] = "processing"
       => e \in died \/ \E r \in Requests : Is(r, "webhook") /\ req[r].event = e

\* After each commit of recomputeEntitlements a feature is granted if and only if
\* a subscription gives it.  The exceptions: the commit came from a read that
\* another commit has overtaken, and a row that names a subscription whose grace
\* period has ended since.
EntitlementsFollow ==
  ~raced =>
    \A f \in Features :
      LET given == \E s \in Subs : Entitled(s) /\ f \in Grants[sub[s].plan] IN
      /\ HasEntitlement(f) => given
      /\ given => HasEntitlement(f) \/ sub[ent[f].sub].grace = "over"

\* A feature of an active subscription is granted.
ActiveSubscriptionEntitles ==
  ~raced =>
    \A s \in Subs : sub[s].status = "active"
                    => \A f \in Grants[sub[s].plan] : HasEntitlement(f)

\* used_value is the number of recorded uses, whatever webhooks recompute the
\* entitlements meanwhile, but for those that are about to be counted and those
\* whose request died, or found no row, between the two statements.
UsageExact ==
  ent[Meter].used = Cardinality(usage) - Cardinality(lost)
                    - Cardinality({r \in Requests : At(r, "count")})

\* The lock on the invoice, the sum of the refunds and the provider's key keep
\* what is refunded within what was paid, whatever requests race and die, unless
\* a refund was asked for while another one was still unknown here.
RefundsWithinPaid == Total(prov) <= charged \/ blind

\* The coupon is redeemed at most once more for each request that counts at the
\* same time, and a completed checkout has its discount activated, unless the
\* event was applied between the two rows of the checkout.
CouponRedemptions ==
  /\ Cardinality({d \in Discounts : discount[d] # "none"})
       <= MaxRedemptions - 1 + Cardinality(Requests)
  /\ \A d \in Discounts :
       checkout[d] = "complete" /\ discount[d] = "pending_checkout" => d \in early

=============================================================================
