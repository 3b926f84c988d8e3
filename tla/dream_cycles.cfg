\* The worker and a cycle on request, over two pages.
CONSTANTS
  m1 = m1  m2 = m2
  p = p  q = q
  fact = fact
  Messages <- MCMessages
  PageOf <- MCPageOf
  FactOf <- MCFactOf
  Searchable = {fact}
  LongLogs = {{m1}}
  Workers = {worker}
  Manuals = {manual}
  MaxPages = 2
  BatchSize = 1
  MaxFailures = 2
  MaxCrashes = 1
SPECIFICATION Spec
CHECK_DEADLOCK FALSE
INVARIANTS MarkedWereLogged CopiesBounded FailuresBounded
PROPERTIES PendingIsTried
