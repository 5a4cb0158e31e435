\* One request, two subscriptions, no faults.
CONSTANTS
  Requests = {r1}
  Subs = {a, b}
  f = f
  g = g
  basic = basic
  pro = pro
  Plans = {basic, pro}
  Features = {f, g}
  Grants <- MCGrants
  Meter = f
  Uses = {u1}
  Refunds = {k1, hand}
  Manual = {hand}
  Charge = 2
  GraceDays = 1
  Discounts = {d1}
  MaxRedemptions = 1
  None = None
  MaxEvents = 2
  MaxFaults = 0
SPECIFICATION MCSpec
SYMMETRY Symmetry
INVARIANT ActiveSubscriptionEntitles
CHECK_DEADLOCK FALSE
