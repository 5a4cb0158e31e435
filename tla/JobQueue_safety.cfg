\* Two workers, a producer's job with two attempts and two ticks of a schedule with one
\* attempt each, the second of which finds no handler; every kind of fault.
CONSTANTS
  mail = mail
  beat = beat
  beat2 = beat2
  hourly = hourly
  w1 = w1
  w2 = w2
  Jobs = {mail, beat, beat2}
  Workers = {w1, w2}
  Schedules = {hourly}
  NoWorker = NoWorker
  NoJob = NoJob
  Handled = {mail, beat}
  Budgets = {2}
  Delays = {0}
  CronBudget = 1
  StaleAfter = 2
  RetryDelay = 0
  OverdueCap = 0
  MaxLag = 1
  MaxDowns = 1
  MaxFaults = 1
  QueueOf <- MCQueueOf
  ServedBy <- MCServedBy
  Priority <- MCPriority
  CronIds <- MCCronIds
  Interval <- MCInterval
SPECIFICATION MCSpec
SYMMETRY Symmetry
INVARIANTS AttemptBudget LeaseExclusion
PROPERTIES SettledStays CronCadence LedgerSpec
