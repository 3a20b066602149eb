SPECIFICATION FairSpec
CONSTANTS
  o1 = o1
  o2 = o2
  t1 = t1
  t2 = t2
  t3 = t3
  t4 = t4
  t5 = t5
  t6 = t6
  Order = {o1, o2}
  Task = {t1, t2, t3, t4, t5, t6}
  OrderOf <- AllCopies
  First = {t1, t2, t5}
  MaxRetries = 1
  MaxLinks = 2
  MaxCrashes = 1
  Flaky = {o2}
  Torn = {o1}
  Env = {"worker_crash"}
INVARIANTS OneLink DoneHasLink
PROPERTIES ImplementsPaymentPromise OnlyCrashesOrphan
