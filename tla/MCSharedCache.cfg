SPECIFICATION SharedSpec
CONSTANTS
  r1 = r1
  r2 = r2
  r3 = r3
  i1 = i1
  i2 = i2
  k1 = k1
  Requests = {r1, r2, r3}
  Instances = {i1, i2}
  InstanceOf <- MCInstanceOf
  KeyOf <- MCKeyOf
  Policies = {1, 2}
  TtlHalves = 3
  HalfSeconds = {0, 1, 2, 3}
  MaxRestarts = 2
  NoEntry = NoEntry
PROPERTIES
  Fresh
  OldPolicyDiesOut
\* The requests end.
CHECK_DEADLOCK FALSE
