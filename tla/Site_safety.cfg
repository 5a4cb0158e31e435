\* Two visits, two identities behind one address, two windows; two servers, two
\* pages, two edits, two messages, a reset and a death.  Two requests, two people,
\* two addresses, two links, one of each other id; an edit of a legal document.
CONSTANTS
  contact = contact
  help = help
  s1 = s1
  i1 = i1
  ann = ann
  p1 = p1
  p2 = p2
  l1 = l1
  l2 = l2
  Visits = {v1, v2}
  Identities = {i1, i2}
  Addresses = {a1}
  NoAddress = NoAddress
  MaxCalls = 1
  LastWindow = 1
  Pages = {contact, help}
  DefaultPage = contact
  SlugOf <- MCSlugOf
  Servers = {s1, s2}
  Messages = {m1, m2}
  NoPage = NoPage
  MaxEdits = 2
  MaxResets = 1
  MaxDeaths = 1
  Clients = {v1, v2}
  People = {p1, p2}
  Mailboxes = {ann, bob}
  Subjects = {u1}
  Links = {l1, l2}
  Flows = {f1}
  Challenges = {k1}
  Credentials = {x1}
  None = None
  MaxVersion = 1
  t1 = t1
  t2 = t2
  sub = sub
  inv = inv
  pm = pm
  rf = rf
  ses = ses
  Deliveries = {v1, v2}
  Tenants = {t1, t2}
  Payers = {c1, c2}
  Records = {sub, inv, pm, rf, ses}
  KindOf <- MCKindOf
  Nobody = Nobody
  MaxReceived = 3
  mock = mock
  stripe = stripe
  team = team
  starter = starter
  r1 = r1
  r2 = r2
  r3 = r3
  x2 = x2
  x3 = x3
  Callers = {v1, v2}
  Providers = {mock, stripe}
  Mock = mock
  Plans = {team, starter}
  Prices = {r1, r2, r3}
  References = {x2, x3}
  Amounts = {3}
  Quantities = {1, 2}
  Terms <- MCTerms
  Sales = {s1}
  SeededProviders <- MCProviders
  SeededPlans <- MCPlans
  SeededPrices <- MCPrices
  Nil = Nil
  MaxRevisions = 3
  MaxLosses = 1
SPECIFICATION MCSpec
SYMMETRY Symmetry
INVARIANTS RateLimited PagesFollowEdits AccountsGrounded ScopeEstablished OffersKept SoldAsOffered
PROPERTIES ContactMessagesKept
CHECK_DEADLOCK FALSE
