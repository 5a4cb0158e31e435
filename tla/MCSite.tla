-------------------------------- MODULE MCSite --------------------------------
(* Small instances of ContentStore, Accounts, BillingScope and BillingOffers  *)
(* for TLC.  A behaviour is about the rate limits, the messages of visitors,  *)
(* or the pages; about operations on accounts that share rows; about the      *)
(* records of a payment provider that refer to each other; or about what is   *)
(* offered and sold.                                                          *)
EXTENDS ContentStore, Accounts, BillingScope, BillingOffers, TLC

CONSTANTS contact, help, s1, i1, ann, p1, p2, l1, l2,
          t1, t2, sub, inv, pm, rf, ses,
          mock, stripe, team, starter, r1, r2, r3, x2, x3

MCSlugOf == [p \in Pages |-> p]
MCKindOf ==
  [x \in Records |-> CASE x = sub -> "subscription" [] x = inv -> "invoice" [] x = pm -> "method"
                       [] x = rf -> "refund" [] OTHER -> "session"]
MCProviders == [p \in Providers |-> [enabled |-> p = mock, caps |-> Capabilities]]
MCPlans == [l \in Plans |-> [active |-> TRUE, seats |-> l = team, trial |-> FALSE]]
\* A price of each provider with the same id there, and a metered one.
MCPrices ==
  [i \in Prices |->
     [plan |-> IF i = r3 THEN starter ELSE team, provider |-> IF i = r1 THEN mock ELSE stripe,
      ref |-> IF i = r3 THEN x3 ELSE x2, amount |-> 3,
      usage |-> IF i = r3 THEN "metered" ELSE "licensed", active |-> TRUE]]
MCTerms == {[percent |-> TRUE, value |-> 5000], [percent |-> FALSE, value |-> 2]}

VARIABLE about

Ops(s) == {task'[v].op : v \in Visits} \subseteq s
OfContent ==
  /\ ContentNext /\ UNCHANGED <<accountVars, scopeVars, offersVars, about>>
  /\ about # "messages" => \A v \in Visits : task'[v].server \in {NoPage, s1}
  /\ CASE about = "limits" ->  \* behind the gate the content database cannot be opened
            /\ Ops({"none", "contact"}) /\ UNCHANGED <<page, resets, deaths>>
            /\ \A v \in Visits : GateAt(v, "outside") => Len(gate'[v].ids) # 1
       [] about = "messages" ->  \* one message at a time, one reset or edit, which unpublishes
            /\ Ops({"none", "contact", "settings", "save"}) /\ window' = 0 /\ deaths' = 0
            /\ edits' + resets' <= 1
            /\ Cardinality({v \in Visits : task'[v].op = "contact"}) <= 1
            /\ \A v \in Visits :
                 /\ gate'[v].ids \in {<<>>, <<i1>>}
                 /\ task'[v].op = "save" =>
                      /\ task'[v].page = contact /\ task'[v].row.slug = contact
                      /\ task'[v].row.state = "draft"
       [] about = "pages" -> Ops({"none", "save", "create"})

AccountOps(m) ==
  CASE m = "documents" -> {"sign up", "start", "callback"}
    [] m = "invitations" -> {"invite", "invitation", "change", "address"}
    [] m = "people" -> {"create", "invite", "invitation", "sign up", "delete"}
    [] m = "addresses" -> {"sign up", "verification", "change", "address"}
    [] m = "providers" -> {"start", "callback", "change", "address"}
    [] m = "passkeys" -> {"create", "begin", "finish", "delete"}
    [] m = "exports" -> {"create", "delete", "export"}
    [] OTHER -> {}
\* One document is edited, and where two addresses show no more there is one.  Ids
\* are used in order, since it does not matter which one is next.
OfAccounts ==
  /\ AccountsNext /\ UNCHANGED <<contentVars, limitVars, scopeVars, offersVars, about>>
  /\ \A c \in Clients : client'[c].op \in AccountOps(about) \cup {"none"}
  /\ (person'[p2] # NoPerson => person'[p1] # NoPerson) /\ (link'[l2] # NoLink => link'[l1] # NoLink)
  /\ document'["privacy"].version = 0 /\ (about # "documents" => UNCHANGED document)
  /\ about \in {"documents", "people", "passkeys", "exports"} =>
       \A c \in Clients : client'[c].address \in {ann, None}
  /\ \A c \in Clients : client'[c].op \in {"create", "invite"} =>
       client'[c].role = IF about \in {"passkeys", "exports"} THEN "user" ELSE "admin"

\* Two kinds of records that refer to each other, or one that refers to nothing
\* and the session.
InScope ==
  CASE about = "invoices" -> {sub, inv} [] about = "refunds" -> {inv, rf} [] OTHER -> {pm, ses}
OfScope ==
  /\ ScopeNext /\ UNCHANGED <<contentVars, limitVars, accountVars, offersVars, about>>
  /\ \A d \in Deliveries : delivery'[d] # Free => delivery'[d].event.record \in InScope
  /\ record'[ses] = record[ses] \/ ses \in InScope

\* Where a request starts, and what the administrators change meanwhile.
Starts(at) ==
  \A r \in Callers : caller[r].at = "none" /\ caller'[r].at # "none" => caller'[r].at \in at
Priced(i) == \E ref \in References \cup {Nil} : UpsertPrice(i, [price[i] EXCEPT !.ref = ref])
Switched(p, on) == UpdatePaymentProvider(p, [enabled |-> on, caps |-> Capabilities])
OfOffers ==
  /\ UNCHANGED <<contentVars, limitVars, accountVars, scopeVars, about>>
  /\ CASE about = "settings" ->
            /\ Trade \/ \E p \in Providers, on \in BOOLEAN : Switched(p, on)
            /\ Starts({"default", "settings"})
       [] about = "coupons" ->
            /\ Trade \/ Switched(stripe, TRUE)
            /\ Starts({"make", "coupon"})
       [] about = "mock sales" ->  \* of one price, which the edits are about; none expires
            /\ Trade \/ Priced(r1) \/ UpsertPlan(team, [plan[team] EXCEPT !.trial = ~@])
            /\ Starts({"coupon", "default", "offer", "terms"})
            /\ \A s \in Sales : checkout'[s] # NoSale => ~checkout'[s].expired
            /\ \A r \in Callers :
                 /\ caller'[r].at = "default" => caller'[r].op = "checkout"
                 /\ caller'[r].at = "offer" => caller'[r].quantity = 1 /\ caller'[r].price = r1
                 /\ caller'[r].at = "coupon" =>
                      /\ caller'[r].provider = Nil /\ caller'[r].active /\ caller'[r].typed
                      /\ caller'[r].terms.percent = (coupon = Nil)
       [] about = "sales" ->
            /\ Trade \/ Priced(r2) \/ Priced(r3) \/ (~provider[stripe].enabled /\ Switched(stripe, TRUE))
            /\ Starts({"default", "settings", "offer", "change"}) /\ losses' = 0
  /\ about # "coupons" => revisions' <= 2

ContentAbouts == {"limits", "messages", "pages"}
AccountAbouts == {"documents", "invitations", "people", "addresses", "providers", "passkeys",
                  "exports"}
ScopeAbouts == {"invoices", "refunds", "methods"}
OfferAbouts == {"settings", "coupons", "mock sales", "sales"}
MCInit ==
  /\ ContentInit /\ AccountsInit /\ ScopeInit /\ OffersInit
  /\ about \in ContentAbouts \cup AccountAbouts \cup ScopeAbouts \cup OfferAbouts
MCNext == \/ about \in ContentAbouts /\ OfContent
          \/ about \in AccountAbouts /\ OfAccounts
          \/ about \in ScopeAbouts /\ OfScope
          \/ about \in OfferAbouts /\ OfOffers
MCSpec == MCInit /\ [][MCNext]_<<contentVars, limitVars, accountVars, scopeVars, offersVars, about>>

\* The same two requests serve all of them.
Symmetry == Permutations(Visits)
=============================================================================
