SPECIFICATION Spec
CONSTANTS
  p1 = p1
  p2 = p2
  t1 = t1
  u1 = u1
  w1 = w1
  NoUser = NoUser
  NoPassword = NoPassword
  NoToken = NoToken
  NoLink = NoLink
  Users = {u1}
  Passwords = {p1, p2}
  Tokens = {t1}
  Links = {}
  Workers = {w1}
  SeedAdmins = {u1}
  SeedMembers = {}
  SeedPassword = p1
  ACCESS_TOKEN_EXPIRES = 1
  REFRESH_TOKEN_EXPIRES = 2
  EMAIL_TOKEN_EXPIRE = 2
  PASSWORD_RESET_EXPIRE = 1
  LOCKOUT_THRESHOLD = 2
  LOCKOUT_TIME = 2
  RollbackOnError = TRUE
  Ops = {"login", "deactivate_me", "admin_update"}
  Payloads <- DemotePayloads
  MaxRequests = 3
  MaxTime = 1
SYMMETRY Symmetry
INVARIANTS
  AlwaysAnAdmin
