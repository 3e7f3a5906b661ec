SPECIFICATION PagesFairSpec
CONSTANTS
  i1 = i1  i2 = i2  d1 = d1  d2 = d2
  Shown = {"lists", "feeds", "grid"}
  Ids = {i1, i2}
  Slots = {1, 2}
  Lists = {"deployments", "packages", "rules", "users", "tenants", "devices"}
  Pages = {"dashboard", "deviceTelemetry", "deviceDetails", "ruleDetails"}
  Devices = {d1, d2}
  MaxAsks = 2
  FeedRetries = 1
  GridDevices = {d1, d2}
  GridGroups = {1, 2}
  Conditions = {{d1}, {d1, d2}}
  MaxChoices = 3
INVARIANTS   
  ActiveGroupIsKnown GridIsOfActiveGroup
PROPERTIES EpicsDieOnlyInDoubt WaitingEnds
CHECK_DEADLOCK FALSE
