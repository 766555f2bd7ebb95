SPECIFICATION Spec
CONSTANTS
  Tags = {"v1", "v2"}
  Digests = {"d1", "d2"}
  Absent = Absent
  MaxEvents = 3
  Resources = {"tenant", "access", "policy"}
  Tenancy = {"tenant", "access"}
  Secrets = {"token"}
  Names <- MCNames
  MaxGeneration <- MCGenerations
  MaxFailures = 1
PROPERTIES
  ImplementsOrderedRollout
  UpgradeIsBackedUp
  OperatorConverges
  SyncConverges
  StatusSettles
