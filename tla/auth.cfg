SPECIFICATION Spec
CONSTANTS
  Subjects = {u1}
  Groups = {"ops-eu", "devops"}
  Requests = {r1, r2}
  Mappings <- ThreeMappings
  AutoProvision = TRUE
  AutoDeactivate = TRUE
  Absent = Absent
  Callers = {c1, c2}
  Callbacks = {b1, b2}
  RefreshAfter = 1
  SessionAge = 1
  MaxRotations = 2
  MaxOutages = 1
  MaxLogins = 1
  MaxRestarts = 1
  NoKey = NoKey
  Repos = {p1, p2}
  TokenTtl = 3
  CiTtl = 2
  ExchangeTtl = 2
  NoToken = NoToken
INVARIANTS
  RoleIsJustified
  PoliciesMatchGroups
  ScopedUse
PROPERTIES
  KeysAreLearned
CHECK_DEADLOCK FALSE
