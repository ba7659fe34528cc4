CONSTANTS
  b1 = b1
  b2 = b2
  Browsers <- TwoBrowsers
  Names = {"admin", "bob"}
  Admin0 = "admin"
  Short = {"short"}
  Fit = {"admin123"}
  Long = {"longer than 72"}
  Password0 = "admin123"
  NoHash = "no hash"
  Roles = {"user", "admin"}
  WritesMayFail = TRUE
  MaxUsers = 3
  MaxEvents = 1
SPECIFICATION Spec
INVARIANTS SessionKeepsIdentity
PROPERTIES LastAdminKept
SYMMETRY AnyBrowser
