----------------------------- MODULE BillingScope -----------------------------
(***************************************************************************)
(* Which tenant a record of a payment provider belongs to                  *)
(* (packages/billing/src/service.ts and the triggers of migration 0014).   *)
(*                                                                         *)
(* An event says which record it is about, which customer pays and what it *)
(* refers to; the provider's metadata may name a tenant.  Its transaction  *)
(* reads who is established, establishes the customer and stores the       *)
(* record, and is READ COMMITTED: until it commits, what it has written is *)
(* in its delivery, and a guard says which customer it has locked.  An     *)
(* event that raises leaves nothing and may be delivered again, so the     *)
(* model only lets go of it.                                               *)
(***************************************************************************)
EXTENDS Integers, FiniteSets

CONSTANTS
  Deliveries,  \* requests that handle an event at the same time
  Tenants,
  Payers,      \* customers at the provider
  Records,     \* sessions, subscriptions, invoices, payment methods and refunds
  KindOf,      \* which of them each record is
  Nobody,
  MaxReceived  \* bound: events received

ASSUME ScopeAssumption ==
  /\ IsFiniteSet(Deliveries) /\ IsFiniteSet(Payers) /\ IsFiniteSet(Records)
  /\ KindOf \in [Records -> {"session", "subscription", "invoice", "method", "refund"}]
  /\ Nobody \notin Tenants \cup Payers \cup Records /\ MaxReceived \in Nat

VARIABLES
  bound,        \* billing_customers: the tenant of each customer
  record,       \* the rows of the other tables
  delivery,     \* what each request does
  received,
  established,  \* history: the tenant that each row was inserted with
  overtaken     \* history: records stored from a read that another commit has overtaken

scopeHistory == <<established, overtaken>>
scopeVars == <<bound, record, delivery, received, scopeHistory>>

Absent == [tenant |-> Nobody, payer |-> Nobody, parent |-> Nobody]
Free == [at |-> "none"]

ScopeInit ==
  /\ bound = [c \in Payers |-> Nobody] /\ record = [x \in Records |-> Absent]
  /\ delivery = [d \in Deliveries |-> Free] /\ received = 0
  /\ established = [x \in Records |-> Nobody] /\ overtaken = {}

TenantOf(x) == IF x = Nobody THEN Nobody ELSE record[x].tenant
PayerTenant(c) == IF c = Nobody THEN Nobody ELSE bound[c]
Doing(d, at) == delivery[d].at = at
Release(d) == delivery' = [delivery EXCEPT ![d] = Free]

\* createCheckoutSession stores the session for a tenant before anyone pays.
StoreSession(x, t) ==
  /\ KindOf[x] = "session" /\ record[x] = Absent
  /\ record' = [record EXCEPT ![x].tenant = t] /\ established' = [established EXCEPT ![x] = t]
  /\ UNCHANGED <<bound, delivery, received, overtaken>>

\* What verifyWebhook makes of an event.  Subscriptions hang on nothing, an
\* invoice may hang on a subscription and a refund on an invoice; a refund says
\* nothing of the customer.
ParentKind == [invoice |-> "subscription", refund |-> "invoice"]
EventsOf(x) ==
  LET parents == IF KindOf[x] \in DOMAIN ParentKind
                 THEN {y \in Records : KindOf[y] = ParentKind[KindOf[x]]} ELSE {}
  IN [record : {x}, claim : Tenants \cup {Nobody}, parent : parents \cup {Nobody},
      payer : IF KindOf[x] = "refund" THEN {Nobody} ELSE Payers \cup {Nobody}]

\* The row that an event refers to, if there is one: of a refund the one it is
\* linked to already, when the event names none.
Referred(e) ==
  IF TenantOf(e.parent) # Nobody THEN e.parent
  ELSE IF KindOf[e.record] = "refund" THEN record[e.record].parent ELSE Nobody

\* The tenants of the rows that an event touches.
EstablishedBy(e) == {TenantOf(Referred(e)), TenantOf(e.record), PayerTenant(e.payer)}

\* resolveTenantScope: the one tenant that is named.
Resolves(ids, t) == t # Nobody /\ ids \ {Nobody} = {t}

\* The session's row must be the tenant's; a subscription's event must name one.
Receive(d, e, t) ==
  /\ delivery[d] = Free /\ received < MaxReceived
  /\ KindOf[e.record] \in {"session", "subscription"} => e.claim # Nobody
  /\ KindOf[e.record] = "session" => record[e.record].tenant = e.claim
  /\ Resolves(IF KindOf[e.record] = "session" THEN {e.claim} ELSE {e.claim} \cup EstablishedBy(e), t)
  /\ received' = received + 1
  /\ delivery' = [delivery EXCEPT ![d] =
       [at |-> IF e.payer = Nobody THEN "store" ELSE "customer", event |-> e, tenant |-> t,
        parent |-> Referred(e), stale |-> FALSE]]
  /\ UNCHANGED <<bound, record, scopeHistory>>

\* Mutant of PayerAgrees: upsertCustomer does not read the customer once more.
PayerAgreesUnread(d) == TRUE

\* upsertCustomer reads the customer again: it may be there by now.
PayerAgrees(d) == Resolves({delivery[d].tenant, PayerTenant(delivery[d].event.payer)}, delivery[d].tenant)
ReadCustomer(d) ==
  /\ Doing(d, "customer")
  /\ IF PayerAgrees(d) THEN delivery' = [delivery EXCEPT ![d].at = "insert"] ELSE Release(d)
  /\ UNCHANGED <<bound, record, received, scopeHistory>>

\* INSERT ... ON CONFLICT DO UPDATE locks the customer's row, new or not, until
\* the commit, and leaves its tenant.
UpsertCustomer(d) ==
  /\ Doing(d, "insert")
  /\ ~\E q \in Deliveries : Doing(q, "store") /\ delivery[q].event.payer = delivery[d].event.payer
  /\ delivery' = [delivery EXCEPT ![d].at = "store"]
  /\ UNCHANGED <<bound, record, received, scopeHistory>>

\* Mutant of Kept: a row that is there takes the tenant of the event.
KeptNever(x, t) == t

\* ON CONFLICT DO UPDATE does not touch tenant_id.
Kept(x, t) == IF record[x] = Absent THEN t ELSE record[x].tenant

\* Mutant of ParentAllowed: without the trigger.
ParentAllowedAlways(x, row) == TRUE

\* billing_validate_tenant_reference, before the row is written.
ParentAllowed(x, row) == TenantOf(row.parent) \in {Nobody, row.tenant}

\* The row as the statement leaves it.  A refund stays with its invoice; a
\* session's row knows neither customer nor parent.
Stored(d) ==
  LET e == delivery[d].event
      x == e.record
      tenant == Kept(x, delivery[d].tenant)
  IN CASE KindOf[x] = "session" -> record[x]
       [] KindOf[x] = "refund" /\ record[x].parent # Nobody -> [record[x] EXCEPT !.tenant = tenant]
       [] OTHER -> [tenant |-> tenant, payer |-> e.payer, parent |-> delivery[d].parent]

\* Who reads rows that this commit inserts, or has read that they were not there,
\* goes on with what it has read: of its own record since it began, of its
\* customer since upsertCustomer has read it.
Outdated(d, e) ==
  \/ delivery[d].event.record = e.record
  \/ Doing(d, "insert") /\ delivery[d].event.payer = e.payer
Commit(d) ==
  LET e == delivery[d].event
      x == e.record
      c == e.payer
  IN
  /\ Doing(d, "store") /\ ParentAllowed(x, Stored(d))
  /\ record' = [record EXCEPT ![x] = Stored(d)]
  /\ bound' = IF c # Nobody /\ bound[c] = Nobody
              THEN [bound EXCEPT ![c] = delivery[d].tenant] ELSE bound
  /\ established' = IF record[x] = Absent
                    THEN [established EXCEPT ![x] = delivery[d].tenant] ELSE established
  /\ overtaken' = IF delivery[d].stale THEN overtaken \cup {x} ELSE overtaken
  /\ delivery' = [q \in Deliveries |->
       IF q = d THEN Free
       ELSE IF delivery[q] # Free /\ Outdated(q, e) THEN [delivery[q] EXCEPT !.stale = TRUE]
       ELSE delivery[q]]
  /\ UNCHANGED received

\* A statement raises, or the process dies: the transaction leaves nothing.
Undo(d) ==
  /\ delivery[d] # Free /\ Release(d)
  /\ UNCHANGED <<bound, record, received, scopeHistory>>

ScopeNext ==
  \/ \E x \in Records, t \in Tenants : StoreSession(x, t)
  \/ \E d \in Deliveries :
       \/ \E x \in Records : \E e \in EventsOf(x), t \in Tenants : Receive(d, e, t)
       \/ ReadCustomer(d) \/ UpsertCustomer(d) \/ Commit(d) \/ Undo(d)

ScopeSpec == ScopeInit /\ [][ScopeNext]_scopeVars

-----------------------------------------------------------------------------
\* Customers, subscriptions, invoices, payment methods and refunds stay with the
\* tenant they were first stored for, and what refers to each other is of one
\* tenant, whatever the events say and in which order they come.  A record and
\* its customer may differ only when another event of the record, or the first
\* one of the customer, was committed between the read and the write.
ScopeEstablished ==
  \A x \in Records : record[x] # Absent =>
    /\ record[x].tenant = established[x]
    /\ record[x].parent # Nobody => TenantOf(record[x].parent) = record[x].tenant
    /\ record[x].payer # Nobody => bound[record[x].payer] = record[x].tenant \/ x \in overtaken
=============================================================================
