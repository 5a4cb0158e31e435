\* Two workers, one good event; two ids a delivery could take.
CONSTANTS
  send1 = send1
  send2 = send2
  dispatch = dispatch
  outbox = outbox
  d1 = d1
  d2 = d2
  w1 = w1
  w2 = w2
  good = good
  Jobs = {send1, send2, dispatch}
  Workers = {w1, w2}
  Schedules = {outbox}
  NoWorker = NoWorker
  NoJob = NoJob
  Handled = {send1, send2, dispatch}
  Budgets = {2, 3}
  Delays = {0}
  CronBudget = 2
  StaleAfter = 1
  RetryDelay = 0
  OverdueCap = 0
  MaxLag = 0
  MaxDowns = 1
  MaxFaults = 1
  Events = {good}
  Deliveries = {d1, d2}
  NoEvent = NoEvent
  DeliveryBudget = 2
  OutboxBudget = 2
  OutboxDelay = 0
  MaxErrors = 1
  ClaimTimeout = 1
  QueueOf <- MCQueueOf
  ServedBy <- MCServedBy
  Priority <- MCPriority
  CronIds <- MCCronIds
  Interval <- MCInterval
  SendJob <- MCSendJob
SPECIFICATION MCSpec
SYMMETRY Symmetry
PROPERTY PromiseSpec
INVARIANTS OneDeliveryPerEvent SendsBounded SendersExclusive CompletedMeansSettled
