CONSTANTS
  ann = ann  bob = bob  ta = ta  tb = tb
  NoRow = NoRow  None = None
  Id = {1}
  Caller = {ann, bob}
  Tenant = {ta, tb}
  TenantOf <- OneEach
  Ambient = TRUE
  Method = {"getAll", "cursor", "getDeleted", "getExpired", "createMany", "upsert", "getOrCreate", "update", "updateMany", "replace", "delete", "deleteMany", "restore"}
  TtlModes = {"scheduled", "trigger"}
  Horizon = 1
SPECIFICATION FairSpec
INVARIANTS
  AuditedOrFailed
PROPERTIES
  TenantsApart
  TombstonesStay
  ExpiredSwept
CHECK_DEADLOCK FALSE
