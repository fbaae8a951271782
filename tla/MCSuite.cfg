SPECIFICATION Spec
CONSTANTS
  p1 = p1
  p2 = p2
  t1 = t1
  t2 = t2
  t3 = t3
  u1 = u1
  u2 = u2
  w1 = w1
  NoUser = NoUser
  NoPassword = NoPassword
  NoToken = NoToken
  NoLink = NoLink
  Users = {u1, u2}
  Passwords = {p1, p2}
  Tokens = {t1, t2, t3}
  Links = {}
  Workers = {w1}
  SeedAdmins = {u1}
  SeedMembers = {u2}
  SeedPassword = p1
  ACCESS_TOKEN_EXPIRES = 1
  REFRESH_TOKEN_EXPIRES = 2
  EMAIL_TOKEN_EXPIRE = 2
  PASSWORD_RESET_EXPIRE = 1
  LOCKOUT_THRESHOLD = 2
  LOCKOUT_TIME = 2
  RollbackOnError = FALSE
  Ops = {"login", "refresh", "logout", "patch_me", "change_password",
         "deactivate_me", "admin_update", "admin_unlock", "admin_revoke"}
  Payloads <- AdminPayloads
  MaxRequests = 5
  MaxTime = 3
SYMMETRY Symmetry
INVARIANTS
  InactiveHasNoSession
  LockoutEngages
PROPERTIES
  PasswordChangeEndsSessions
  AdminUpdateKeepsAnAdmin
