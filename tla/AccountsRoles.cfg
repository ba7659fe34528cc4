CONSTANTS
  b1 = b1
  b2 = b2
  Browsers <- TwoBrowsers
  Names = {"admin", "bob"}
  Admin0 = "admin"
  Short = {}
  Fit = {"admin123"}
  Long = {}
  Password0 = "admin123"
  NoHash = "no hash"
  Roles = {"user", "editor", "admin"}
  WritesMayFail = FALSE
  MaxUsers = 2
  MaxEvents = 4
SPECIFICATION Spec
INVARIANTS RoleTakesEffect
