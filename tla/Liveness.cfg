\* Two workers, a handled job and one whose type has no handler; one file with
\* variants and two processes, so that a pass meets a completion.
CONSTANTS
  photo = photo
  blob = blob
  p1 = p1
  p2 = p2
  Files = {photo}
  Procs = {p1, p2}
  NoFile = NoFile
  Limit = 4
  MaxFaults = 2
  Bytes <- MCBytes
  VariantBytes <- MCVariantBytes
  mail = mail
  orphan = orphan
  hourly = hourly
  Jobs = {mail, orphan}
  Workers = {w1, w2}
  Schedules = {hourly}
  NoWorker = NoWorker
  NoJob = NoJob
  Handled = {mail}
  Budgets = {2}
  Delays = {0}
  CronBudget = 2
  StaleAfter = 2
  RetryDelay = 1
  OverdueCap = 1
  MaxLag = 0
  MaxDowns = 1
SPECIFICATION MCSpec
PROPERTIES QueueDrains ReservationsReleased
