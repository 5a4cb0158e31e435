------------------------------ MODULE MCBilling ------------------------------
(* Small instances of Billing for TLC.  A behaviour is about subscriptions   *)
(* and usage, about the invoice and its refunds, or about the coupon: they   *)
(* share no state but the inbox.                                             *)
EXTENDS Billing, TLC

CONSTANTS f, g, basic, pro
MCGrants == (basic :> {f}) @@ (pro :> {f, g})

FailedRefunds == 1  \* bound

VARIABLE about
MCInit == Init /\ about \in {"subscriptions", "refunds", "coupon"}
MCNext ==
  /\ Next /\ UNCHANGED about
  /\ \A r \in Requests :
       CASE about = "subscriptions" -> req'[r].op \in {"none", "webhook", "usage"}
         [] about = "refunds" -> req'[r].op \in {"none", "webhook", "refund"}
         [] about = "coupon" -> req'[r].op \in {"none", "webhook", "checkout", "apply"}
  /\ about # "subscriptions" => \A e \in SubscriptionEvents : inbox'[e] = "unsent"
  /\ about # "refunds" => charged' = 0 /\ \A e \in InvoiceEvents : inbox'[e] = "unsent"
  /\ Cardinality({k \in Refunds : prov'[k].status = "failed"}) <= FailedRefunds
MCSpec == MCInit /\ [][MCNext]_<<vars, about>>

Symmetry == Permutations(Requests) \cup Permutations(Subs)
=============================================================================
