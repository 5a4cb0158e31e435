\* Two requests, two subscriptions to one of two plans, one use; a refund asked
\* for, two keys, and one by hand.
CONSTANTS
  Requests = {r1, r2}
  Subs = {a, b}
  f = f
  g = g
  basic = basic
  pro = pro
  Plans = {basic, pro}
  Features = {f, g}
  Grants <- MCGrants
  Meter = f
  Uses = {u1}
  Refunds = {k1, k2, hand}
  Manual = {hand}
  Charge = 2
  GraceDays = 1
  Discounts = {d1, d2, d3}
  MaxRedemptions = 1
  None = None
  MaxEvents = 2
  MaxFaults = 1
SPECIFICATION MCSpec
SYMMETRY Symmetry
INVARIANTS AppliedOnce EntitlementsFollow UsageExact RefundsWithinPaid CouponRedemptions
CHECK_DEADLOCK FALSE
