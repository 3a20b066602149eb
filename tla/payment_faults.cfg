SPECIFICATION FairSpec
CONSTANTS
  o1 = o1
  o2 = o2
  t1 = t1
  t2 = t2
  t3 = t3
  t4 = t4
  t5 = t5
  t6 = t6
  Order = {o1}
  Task = {t1, t2, t3}
  OrderOf <- LoneCopies
  First = {t1}
  MaxRetries = 2
  MaxLinks = 2
  MaxCrashes = 1
  Flaky = {o1}
  Torn = {o1}
  Env <- AllFaults
INVARIANTS PaymentTypeOK SettlesOnce LinkIsReal
PROPERTY PaymentSettles
