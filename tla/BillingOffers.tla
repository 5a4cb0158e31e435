---------------------------- MODULE BillingOffers ----------------------------
(***************************************************************************)
(* What administrators put on offer, what a tenant chooses, and what it is *)
(* sold (packages/billing/src/service.ts, its two adapters and the mock    *)
(* checkout of the site).                                                  *)
(*                                                                         *)
(* Administrators edit providers, plans, prices and one coupon; a manager  *)
(* reads or saves the tenant's settings, checks out and changes the plan;  *)
(* the visitor of a mock checkout delivers its three events himself.  One  *)
(* action is one autocommitted statement, a call to the provider, or reads *)
(* that follow each other.  There is one currency.                         *)
(***************************************************************************)
EXTENDS Integers, FiniteSets

CONSTANTS
  Callers,    \* requests that are served at the same time
  Providers,  \* payment providers with an adapter
  Mock,       \* the mock one
  Plans, Prices,
  References, \* ids of prices at the providers
  Amounts, Quantities,
  Terms,      \* what a coupon may take off: [percent, value]
  Sales,      \* checkout sessions
  SeededProviders, SeededPlans, SeededPrices,  \* rows to begin with, the migration's or later ones
  Nil,
  MaxRevisions, MaxLosses  \* bounds: catalogue edits, and requests that die

Capabilities == {"checkout", "coupons", "subscriptions", "usageReporting", "webhooks"}
Kinds == {"checkout", "subscription", "invoice"}
ProviderRows == [enabled : BOOLEAN, caps : SUBSET Capabilities]
PlanRows == [active : BOOLEAN, seats : BOOLEAN, trial : BOOLEAN]
PriceRows == [plan : Plans, provider : Providers, ref : References \cup {Nil}, amount : Amounts,
              usage : {"licensed", "metered", "once"}, active : BOOLEAN]
CouponRows == [provider : Providers \cup {Nil}, terms : Terms, typed : BOOLEAN, id : BOOLEAN,
               active : BOOLEAN]
SubscriptionRows == [price : Prices, plan : Plans, quantity : Nat]
InvoiceRows == [total : Int, price : SUBSET Prices]
Bills == [ref : References \cup {Nil}, quantity : Nat]  \* what a provider bills

\* billing_prices_provider_price_unique, and the plan of a price exists.
PricesIndexed(rows, plans) ==
  /\ \A i \in Prices : rows[i] # Nil => plans[rows[i].plan] # Nil
  /\ \A i, j \in Prices :
       /\ rows[i] # Nil /\ rows[j] # Nil /\ rows[i].ref # Nil
       /\ rows[i].ref = rows[j].ref /\ rows[i].provider = rows[j].provider
       => i = j

ASSUME OffersAssumption ==
  /\ IsFiniteSet(Callers) /\ Mock \in Providers /\ MaxRevisions \in Nat /\ MaxLosses \in Nat
  /\ SeededProviders \in [Providers -> ProviderRows]
  /\ SeededPlans \in [Plans -> PlanRows \cup {Nil}]
  /\ SeededPrices \in [Prices -> PriceRows \cup {Nil}]
  /\ PricesIndexed(SeededPrices, SeededPlans)
  /\ Nil \notin Providers \cup References \cup Terms \cup PlanRows \cup PriceRows
  /\ Nil \notin CouponRows \cup SubscriptionRows \cup InvoiceRows \cup Bills
  /\ Amounts \subseteq Nat /\ Quantities \subseteq Nat \ {0}
  /\ Terms \subseteq [percent : BOOLEAN, value : Nat]

VARIABLES
  provider,  \* billing_payment_providers
  plan,      \* billing_plans
  price,     \* billing_prices
  choice,    \* payment_provider in billing_tenant_settings
  coupon,    \* billing_coupons, the row of one code
  made,      \* the coupon of that code at each provider
  checkout,  \* billing_checkout_sessions with their billing_discounts
  subscription, invoice,  \* billing_subscriptions, and billing_invoices with their item
  event,     \* billing_webhook_events of the mock checkouts
  held,      \* what the provider bills a subscription for
  caller,    \* what each request does
  revisions, losses,
  chosen,    \* history: the provider that a manager saved last
  basis,     \* history: the prices that were read for a sale or a change of it
  agreed,    \* history: what a sale and its changes were for
  edited,    \* history: sales that have had a price of their basis edited
  promised,  \* history: the terms of the coupon that was redeemed for a sale
  repriced,  \* history: sales that have had their coupon saved again
  answered   \* history: events that a visitor sent to the success page stands for

catalogue == <<provider, plan, price>>
couponRows == <<coupon, made>>
saleRows == <<checkout, subscription, invoice, event, held>>
saleHistory == <<basis, agreed, edited, promised, repriced, answered>>
limits == <<revisions, losses>>
offersVars == <<catalogue, choice, couponRows, saleRows, caller, limits, chosen, saleHistory>>

NoSale == [status |-> "none"]
Waiting == [at |-> "none"]

OffersInit ==
  /\ provider = SeededProviders /\ plan = SeededPlans /\ price = SeededPrices
  /\ choice = Nil /\ chosen = Nil /\ coupon = Nil /\ made = [p \in Providers |-> Nil]
  /\ checkout = [s \in Sales |-> NoSale]
  /\ subscription = [s \in Sales |-> Nil] /\ invoice = [s \in Sales |-> Nil]
  /\ event = [s \in Sales |-> [k \in Kinds |-> "none"]] /\ held = [s \in Sales |-> Nil]
  /\ caller = [r \in Callers |-> Waiting] /\ revisions = 0 /\ losses = 0
  /\ basis = [s \in Sales |-> {}] /\ agreed = [s \in Sales |-> {}] /\ edited = {}
  /\ promised = [s \in Sales |-> Nil] /\ repriced = {} /\ answered = [s \in Sales |-> {}]

CallerAt(r, at) == caller[r].at = at
Move(r, at) == caller' = [caller EXCEPT ![r].at = at]
Return(r) == caller' = [caller EXCEPT ![r] = Waiting]
Begin(r, c) == caller[r] = Waiting /\ caller' = [caller EXCEPT ![r] = c]

\* getEnabledAdapter with a capability.
Able(p, cap) == provider[p].enabled /\ cap \in provider[p].caps

-----------------------------------------------------------------------------
(* The administrators' catalogue *)

NextRevision == revisions < MaxRevisions /\ revisions' = revisions + 1

UpdatePaymentProvider(p, row) ==
  /\ NextRevision /\ provider' = [provider EXCEPT ![p] = row]
  /\ UNCHANGED <<plan, price, choice, couponRows, saleRows, caller, losses, chosen, saleHistory>>

UpsertPlan(l, row) ==
  /\ NextRevision /\ plan' = [plan EXCEPT ![l] = row]
  /\ UNCHANGED <<provider, price, choice, couponRows, saleRows, caller, losses, chosen, saleHistory>>

\* The row's plan must exist, and a provider's id of a price is in one row.
PriceFits(i, row) ==
  /\ plan[row.plan] # Nil
  /\ row.ref # Nil => \A j \in Prices \ {i} :
                        price[j] = Nil \/ price[j].ref # row.ref \/ price[j].provider # row.provider
UpsertPrice(i, row) ==
  /\ NextRevision /\ PriceFits(i, row) /\ price' = [price EXCEPT ![i] = row]
  /\ edited' = edited \cup {s \in Sales : i \in basis[s]}
  /\ UNCHANGED <<provider, plan, choice, couponRows, saleRows, caller, losses, chosen, basis,
                 agreed, promised, repriced, answered>>

\* upsertCoupon: without an id of the provider's coupon it has one made.  Without
\* a provider there is none.
CallUpsertCoupon(r, p, t, typed, active) ==
  /\ p # Nil /\ ~typed => Able(p, "coupons")
  /\ Begin(r, [at |-> IF p # Nil /\ ~typed THEN "make" ELSE "coupon", provider |-> p, terms |-> t,
               typed |-> typed, active |-> active])
  /\ NextRevision
  /\ UNCHANGED <<catalogue, choice, couponRows, saleRows, losses, chosen, saleHistory>>

\* Mutant of Makeable: the adapter takes a coupon that exists for the one it made.
MakeableAlways(p) == TRUE

\* The coupon is made with the code as its id: a second one is refused.  The mock
\* adapter derives an id from the code and keeps nothing.
Makeable(p) == p = Mock \/ made[p] = Nil
CreateCoupon(r) ==
  LET p == caller[r].provider IN
  /\ CallerAt(r, "make")
  /\ IF Makeable(p)
     THEN /\ Move(r, "coupon")
          /\ made' = IF p # Mock /\ made[p] = Nil THEN [made EXCEPT ![p] = caller[r].terms] ELSE made
     ELSE Return(r) /\ UNCHANGED made
  /\ UNCHANGED <<catalogue, choice, coupon, saleRows, limits, chosen, saleHistory>>
SaveCoupon(r) ==
  LET c == caller[r] IN
  /\ CallerAt(r, "coupon") /\ Return(r)
  /\ coupon' = [provider |-> c.provider, terms |-> c.terms, typed |-> c.typed,
                id |-> c.typed \/ c.provider # Nil, active |-> c.active]
  /\ repriced' = repriced \cup {s \in Sales : promised[s] # Nil}
  /\ UNCHANGED <<catalogue, choice, made, saleRows, limits, chosen, basis, agreed, edited,
                 promised, answered>>

-----------------------------------------------------------------------------
(* The tenant's settings *)

\* resolveDefaultProvider: an enabled one, the first of an order left open, or
\* the first adapter.
Defaults == LET enabled == {p \in Providers : provider[p].enabled}
            IN IF enabled = {} THEN Providers ELSE enabled

\* getTenantSettingsRow: the row, or the default that is to be inserted.  A page
\* and the billing portal end with it; a checkout goes on.
AfterSettings(in, p) ==
  IF in.op = "checkout" THEN [in EXCEPT !.at = "offer", !.provider = p] ELSE Waiting
ReadTenantSettings(r, in, p) ==
  /\ p \in Defaults
  /\ Begin(r, IF choice # Nil THEN AfterSettings(in, choice)
              ELSE [in EXCEPT !.at = "default", !.provider = p])
  /\ UNCHANGED <<catalogue, choice, couponRows, saleRows, limits, chosen, saleHistory>>

\* Mutant of Insertable: the INSERT has ON CONFLICT DO UPDATE.
InsertableAlways == TRUE

\* The INSERT of the default fails when the row is there by now.
Insertable == choice = Nil
InsertDefault(r) ==
  LET c == caller[r] IN
  /\ CallerAt(r, "default")
  /\ IF Insertable
     THEN choice' = c.provider /\ caller' = [caller EXCEPT ![r] = AfterSettings(c, c.provider)]
     ELSE Return(r) /\ UNCHANGED choice
  /\ UNCHANGED <<catalogue, couponRows, saleRows, limits, chosen, saleHistory>>

CallPage(r) == \E p \in Providers : ReadTenantSettings(r, [op |-> "page", at |-> "", provider |-> Nil], p)

\* updateTenantBillingSettings.
CallUpdateSettings(r, p) ==
  /\ Able(p, "checkout") /\ Begin(r, [at |-> "settings", provider |-> p])
  /\ UNCHANGED <<catalogue, choice, couponRows, saleRows, limits, chosen, saleHistory>>
UpdateSettings(r) ==
  /\ CallerAt(r, "settings") /\ Return(r)
  /\ choice' = caller[r].provider /\ chosen' = caller[r].provider
  /\ UNCHANGED <<catalogue, couponRows, saleRows, limits, saleHistory>>

-----------------------------------------------------------------------------
(* createCheckoutSession and changeSubscriptionPlan *)

CallCheckout(r, s, i, n, redeem) ==
  /\ checkout[s] = NoSale /\ ~\E q \in Callers : "sale" \in DOMAIN caller[q] /\ caller[q].sale = s
  /\ \E p \in Providers :
       ReadTenantSettings(r, [op |-> "checkout", at |-> "", provider |-> Nil, sale |-> s, price |-> i,
                              quantity |-> n, redeem |-> redeem, row |-> Nil, caps |-> {}], p)

\* findPriceById and checkoutModeForPrice.
OnOffer(i, p) == price[i] # Nil /\ price[i].active /\ price[i].provider = p
Mode(row) == IF row.usage = "once" THEN "payment" ELSE "subscription"

\* getEnabledAdapter: the row that it finds is what the later capabilities are
\* looked up in.
ReadProvider(r) ==
  LET c == caller[r] IN
  /\ CallerAt(r, "offer")
  /\ IF Able(c.provider, "checkout")
     THEN caller' = [caller EXCEPT ![r] = [c EXCEPT !.at = "price", !.caps = provider[c.provider].caps]]
     ELSE Return(r)
  /\ UNCHANGED <<catalogue, choice, couponRows, saleRows, limits, chosen, saleHistory>>

ReadPrice(r) ==
  LET c == caller[r] IN
  /\ CallerAt(r, "price")
  /\ IF OnOffer(c.price, c.provider)
     THEN /\ caller' = [caller EXCEPT ![r] = [c EXCEPT !.at = IF c.redeem THEN "redeem" ELSE "plan",
                                                       !.row = price[c.price]]]
          /\ basis' = [basis EXCEPT ![c.sale] = {c.price}]
          /\ edited' = edited \ {c.sale}
          /\ promised' = [promised EXCEPT ![c.sale] = Nil] /\ repriced' = repriced \ {c.sale}
     ELSE Return(r) /\ UNCHANGED <<basis, edited, promised, repriced>>
  /\ UNCHANGED <<catalogue, choice, couponRows, saleRows, limits, chosen, agreed, answered>>

\* findRedeemableCoupon, but for the count of its redemptions.
RedeemableAt(p) == coupon # Nil /\ coupon.active /\ coupon.id /\ coupon.provider \in {Nil, p}
ReadCoupon(r) ==
  LET c == caller[r] IN
  /\ CallerAt(r, "redeem")
  /\ IF RedeemableAt(c.provider) /\ "coupons" \in c.caps
     THEN /\ Move(r, "plan")
          /\ promised' = [promised EXCEPT ![c.sale] = coupon.terms]
          /\ repriced' = repriced \ {c.sale}
     ELSE Return(r) /\ UNCHANGED <<promised, repriced>>
  /\ UNCHANGED <<catalogue, choice, couponRows, saleRows, limits, chosen, basis, agreed, edited,
                 answered>>

\* Seats are counted for a licensed price of a plan with seats.
Counted(row, n) == IF plan[row.plan].seats /\ row.usage = "licensed" THEN n ELSE 1

\* The plan is read and the provider opens the session; it knows its own price.
OpenCheckout(r) ==
  LET c == caller[r] IN
  /\ CallerAt(r, "plan")
  /\ IF /\ plan[c.row.plan].active /\ (c.provider # Mock => c.row.ref # Nil)
        /\ Mode(c.row) = "subscription" => "subscriptions" \in c.caps
        /\ c.row.usage = "metered" => "usageReporting" \in c.caps
     THEN LET n == Counted(c.row, c.quantity) IN
          /\ caller' = [caller EXCEPT ![r] = [c EXCEPT !.at = "session", !.quantity = n]]
          /\ agreed' = [agreed EXCEPT ![c.sale] = {[price |-> c.price, plan |-> c.row.plan, quantity |-> n]}]
     ELSE Return(r) /\ UNCHANGED agreed
  /\ UNCHANGED <<catalogue, choice, couponRows, saleRows, limits, chosen, basis, edited, promised,
                 repriced, answered>>

\* The row of the session, and then the one of the discount; with the answer the
\* manager learns where to pay.
InsertSession(r) ==
  LET c == caller[r] IN
  /\ CallerAt(r, "session")
  /\ checkout' = [checkout EXCEPT ![c.sale] =
       [status |-> "open", provider |-> c.provider, price |-> c.price, plan |-> c.row.plan,
        mode |-> Mode(c.row), ref |-> c.row.ref, quantity |-> c.quantity,
        amount |-> c.row.amount * c.quantity, discount |-> "none", told |-> ~c.redeem, expired |-> FALSE]]
  /\ IF c.redeem THEN Move(r, "discount") ELSE Return(r)
  /\ UNCHANGED <<catalogue, choice, couponRows, subscription, invoice, event, held, limits,
                 chosen, saleHistory>>
InsertDiscount(r) ==
  LET s == caller[r].sale IN
  /\ CallerAt(r, "discount") /\ Return(r)
  /\ checkout' = [checkout EXCEPT ![s].discount = "pending_checkout", ![s].told = TRUE]
  /\ UNCHANGED <<catalogue, choice, couponRows, subscription, invoice, event, held, limits,
                 chosen, saleHistory>>

\* changeSubscriptionPlan reads, and asks the provider.
CallChangePlan(r, s, i, n) ==
  /\ subscription[s] # Nil /\ OnOffer(i, checkout[s].provider) /\ price[i].ref # Nil
  /\ Able(checkout[s].provider, "subscriptions")
  /\ Begin(r, [at |-> "change", sale |-> s, price |-> i, row |-> price[i],
               quantity |-> Counted(price[i], n)])
  /\ basis' = [basis EXCEPT ![s] = @ \cup {i}]
  /\ UNCHANGED <<catalogue, choice, couponRows, saleRows, limits, chosen, agreed, edited, promised,
                 repriced, answered>>
\* The mock adapter does nothing.
ChangePlan(r) ==
  LET c == caller[r]
      s == c.sale
  IN
  /\ CallerAt(r, "change") /\ Return(r)
  /\ held' = IF checkout[s].provider = Mock THEN held
             ELSE [held EXCEPT ![s] = [ref |-> c.row.ref, quantity |-> c.quantity]]
  /\ agreed' = [agreed EXCEPT ![s] = @ \cup
                  {[price |-> c.price, plan |-> c.row.plan, quantity |-> c.quantity]}]
  /\ UNCHANGED <<catalogue, choice, couponRows, checkout, subscription, invoice, event, limits,
                 chosen, basis, edited, promised, repriced, answered>>

-----------------------------------------------------------------------------
(* What is sold *)

\* Mutant of FoundBy: the id is looked up whoever's it is.
FoundByAnyone(p, ref) == {i \in Prices : price[i] # Nil /\ price[i].ref = ref}

\* findPriceByProviderId: at most one row.
FoundBy(p, ref) == {i \in Prices : price[i] # Nil /\ price[i].provider = p /\ price[i].ref = ref /\ ref # Nil}
Subscribed(i, n) == [price |-> i, plan |-> price[i].plan, quantity |-> n]

\* A provider other than the mock one sells what the session named.
Sell(s) ==
  /\ checkout[s].status = "open" /\ checkout[s].told /\ checkout[s].provider # Mock
  /\ checkout[s].mode = "subscription" /\ held[s] = Nil
  /\ held' = [held EXCEPT ![s] = [ref |-> checkout[s].ref, quantity |-> checkout[s].quantity]]
  /\ UNCHANGED <<catalogue, choice, couponRows, checkout, subscription, invoice, event, caller,
                 limits, chosen, saleHistory>>
\* Its subscription events, in the order it sends them; an unknown price raises.
HearOfSubscription(s) ==
  /\ held[s] # Nil /\ "webhooks" \in provider[checkout[s].provider].caps
  /\ \E i \in FoundBy(checkout[s].provider, held[s].ref) :
       subscription' = [subscription EXCEPT ![s] = Subscribed(i, held[s].quantity)]
  /\ UNCHANGED <<catalogue, choice, couponRows, checkout, invoice, event, held, caller, limits,
                 chosen, saleHistory>>

\* The mock checkout page, for whoever has been told of the session: its row with
\* the price and the plan as they are now, and then the coupon of its discount.
Visit(r, s) ==
  LET row == checkout[s] IN
  /\ row.status \in {"open", "complete"} /\ row.told /\ row.provider = Mock /\ ~row.expired
  /\ Begin(r, [at |-> "terms", sale |-> s, ref |-> price[row.price].ref, terms |-> Nil,
               trial |-> plan[row.plan].trial, kind |-> "checkout", blind |-> FALSE,
               done |-> {}])
  /\ UNCHANGED <<catalogue, choice, couponRows, saleRows, limits, chosen, saleHistory>>

Discounted(s) == checkout[s].discount # "none"
ReadTerms(r) ==
  /\ CallerAt(r, "terms")
  /\ caller' = [caller EXCEPT ![r].at = "claim",
                  ![r].terms = IF Discounted(caller[r].sale) THEN coupon.terms ELSE Nil]
  /\ UNCHANGED <<catalogue, choice, couponRows, saleRows, limits, chosen, saleHistory>>

\* discountMinor: basis points are rounded half up, and no more than the amount
\* is taken off.
Off(t, n) ==
  LET off == IF t.percent THEN (2 * n * t.value + 10000) \div 20000 ELSE t.value
  IN IF off < n THEN off ELSE n
Due(s, t) == checkout[s].amount - (IF t = Nil THEN 0 ELSE Off(t, checkout[s].amount))

\* The events of a visit come one after the other.
After(c) ==
  IF c.kind = "checkout" /\ checkout[c.sale].mode = "subscription" /\ c.ref # Nil THEN "subscription"
  ELSE IF c.kind # "invoice" /\ (checkout[c.sale].mode = "payment" \/ ~c.trial) THEN "invoice"
  ELSE "success"
Proceed(r, c) ==
  LET s == c.sale
      done == c.done \cup {c.kind}
  IN IF After(c) = "success"
     THEN /\ Return(r)
          /\ answered' = IF c.blind THEN answered ELSE [answered EXCEPT ![s] = @ \cup done]
     ELSE /\ caller' = [caller EXCEPT ![r] = [c EXCEPT !.at = "claim", !.kind = After(c), !.done = done]]
          /\ UNCHANGED answered

\* handleWebhook: an event that nobody has claimed, or that has failed; of any
\* other the delivery is a duplicate, and the visit goes on.
Claimed(s, k) == event[s][k] \in {"none", "failed"}
ClaimEvent(r) ==
  LET c == caller[r]
      s == c.sale
  IN
  /\ CallerAt(r, "claim")
  /\ IF "webhooks" \notin provider[Mock].caps
     THEN Return(r) /\ UNCHANGED <<event, answered>>
     ELSE IF Claimed(s, c.kind)
     THEN /\ event' = [event EXCEPT ![s][c.kind] = "processing"] /\ Move(r, "apply")
          /\ UNCHANGED answered
     ELSE /\ UNCHANGED event
          /\ Proceed(r, [c EXCEPT !.blind = @ \/ event[s][c.kind] = "processing"])
  /\ UNCHANGED <<catalogue, choice, couponRows, checkout, subscription, invoice, held, limits,
                 chosen, basis, agreed, edited, promised, repriced>>

\* processWebhookEvent in its transaction.
Applied(r, k) ==
  LET c == caller[r] IN
  /\ CallerAt(r, "apply") /\ c.kind = k
  /\ event' = [event EXCEPT ![c.sale][k] = "processed"] /\ Proceed(r, c)
  /\ UNCHANGED <<catalogue, choice, couponRows, held, limits, chosen, basis, agreed, edited,
                 promised, repriced>>
ApplyCompleted(r) ==
  LET s == caller[r].sale IN
  /\ Applied(r, "checkout")
  /\ checkout' = [checkout EXCEPT ![s].status = "complete",
                    ![s].discount = IF @ = "pending_checkout" THEN "active" ELSE @]
  /\ UNCHANGED <<subscription, invoice>>
ApplySubscribed(r) ==
  LET c == caller[r] IN
  /\ Applied(r, "subscription")
  /\ \E i \in FoundBy(Mock, c.ref) :
       subscription' = [subscription EXCEPT ![c.sale] = Subscribed(i, checkout[c.sale].quantity)]
  /\ UNCHANGED <<checkout, invoice>>
\* The invoice and its item, whose price may be unknown.
ApplyInvoiced(r) ==
  LET c == caller[r] IN
  /\ Applied(r, "invoice")
  /\ invoice' = [invoice EXCEPT ![c.sale] = [total |-> Due(c.sale, c.terms), price |-> FoundBy(Mock, c.ref)]]
  /\ UNCHANGED <<checkout, subscription>>
\* The subscription's price is unknown: the event has failed, and the visitor is
\* sent back.
Unapplied(r) ==
  LET c == caller[r] IN
  /\ CallerAt(r, "apply") /\ c.kind = "subscription" /\ FoundBy(Mock, c.ref) = {}
  /\ event' = [event EXCEPT ![c.sale]["subscription"] = "failed"] /\ Return(r)
  /\ UNCHANGED <<catalogue, choice, couponRows, checkout, subscription, invoice, held, limits,
                 chosen, saleHistory>>

ExpireSession(s) ==
  /\ checkout[s] # NoSale /\ ~checkout[s].expired
  /\ checkout' = [checkout EXCEPT ![s].expired = TRUE]
  /\ UNCHANGED <<catalogue, choice, couponRows, subscription, invoice, event, held, caller, limits,
                 chosen, saleHistory>>

\* A request dies, or a statement raises outside a transaction.
DieOnCall(r) ==
  /\ caller[r] # Waiting /\ losses < MaxLosses /\ losses' = losses + 1 /\ Return(r)
  /\ UNCHANGED <<catalogue, choice, couponRows, saleRows, revisions, chosen, saleHistory>>

-----------------------------------------------------------------------------
Administer ==
  \/ \E p \in Providers, row \in ProviderRows : UpdatePaymentProvider(p, row)
  \/ \E l \in Plans, row \in PlanRows : UpsertPlan(l, row)
  \/ \E i \in Prices, row \in PriceRows : UpsertPrice(i, row)
Manage(r) ==
  \/ \E p \in Providers \cup {Nil}, t \in Terms, typed, active \in BOOLEAN :
       CallUpsertCoupon(r, p, t, typed, active)
  \/ CreateCoupon(r) \/ SaveCoupon(r)
  \/ CallPage(r) \/ InsertDefault(r) \/ (\E p \in Providers : CallUpdateSettings(r, p)) \/ UpdateSettings(r)
  \/ \E s \in Sales, i \in Prices, n \in Quantities :
       CallChangePlan(r, s, i, n) \/ \E redeem \in BOOLEAN : CallCheckout(r, s, i, n, redeem)
  \/ ReadProvider(r) \/ ReadPrice(r) \/ ReadCoupon(r) \/ OpenCheckout(r) \/ InsertSession(r)
  \/ InsertDiscount(r) \/ ChangePlan(r)
Shop(r) ==
  \/ \E s \in Sales : Visit(r, s)
  \/ ReadTerms(r) \/ ClaimEvent(r) \/ ApplyCompleted(r) \/ ApplySubscribed(r)
  \/ ApplyInvoiced(r) \/ Unapplied(r)
Trade ==
  \/ \E s \in Sales : Sell(s) \/ HearOfSubscription(s) \/ ExpireSession(s)
  \/ \E r \in Callers : Manage(r) \/ Shop(r) \/ DieOnCall(r)
OffersNext == Administer \/ Trade

OffersSpec == OffersInit /\ [][OffersNext]_offersVars

-----------------------------------------------------------------------------
\* What a manager has saved stays the tenant's choice until another one is saved:
\* a first reading that inserts the default never replaces it.  And a coupon whose
\* id was not typed in has at its provider the terms of its row, whoever saves the
\* code again, at the same time, or after a save that died half-way.
OffersKept ==
  /\ chosen # Nil => choice = chosen
  /\ coupon # Nil /\ ~coupon.typed /\ coupon.provider \notin {Nil, Mock}
       => made[coupon.provider] = coupon.terms

\* A subscription is for a price, a plan and a quantity that its sale or a change
\* of plan was for, and a mock invoice is for the amount of its sale less the
\* coupon that was redeemed, however often and by whoever the checkout is visited,
\* unless the price or the coupon was edited since.  Who is sent to the success
\* page finds all applied that he stands for, unless another visit holds a part.
SoldAsOffered ==
  \A s \in Sales :
    /\ subscription[s] # Nil => subscription[s] \in agreed[s] \/ s \in edited
    /\ invoice[s] # Nil => invoice[s].total = Due(s, promised[s]) \/ s \in repriced
    /\ "checkout" \in answered[s] => checkout[s].status = "complete"
    /\ "subscription" \in answered[s] => subscription[s] # Nil
    /\ "invoice" \in answered[s] => invoice[s] # Nil
=============================================================================
