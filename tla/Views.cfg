\* Accounts: two requests in flight, three in a behaviour, on an administrator and
\* another account, or on a new database that has been migrated first; one more
\* row, address and key for what the requests add.  Readers: time in units of 5 s;
\* four rows in pages of two; one job, for each is counted alone; one node, two scrapes.
SPECIFICATION ViewsSpec
CONSTANTS
  NULL = NULL
  Users = {u1, u2, u3}
  u2 = u2
  u3 = u3
  Admin = u1
  Emails = {e1, e2}
  AdminEmail = e1
  Keys = {k1, k2, k3}
  k1 = k1
  k2 = k2
  k3 = k3
  Prefix <- MCPrefix
  Sessions = {s1, s2}
  MaxRequests = 3
  Jobs = {j1}
  Nodes = {n1}
  Scrapers = {r1, r2}
  Ids <- MCIds
  Limit = 2
  MaxTime = 1
  Deleted = Deleted
  Tick = 2
  Unused = Unused
  Start = Start
  End = End
INVARIANTS
  TypeOK
  KeyOpensItsAccount
  RevokedKeyIsOut
  NoKeyWhileSuspended
  DecisionsStick
  AnswersAreTrue
  HeadServesTheCode
  RowsSurvive
  OfflineNeedsTrouble
  PagesDescend
  NothingDueIsSkipped
  DashboardMissesNothing
  AloneScrapeIsExact
SYMMETRY MCSymmetry
CHECK_DEADLOCK FALSE
