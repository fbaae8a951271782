SPECIFICATION Spec
CONSTANTS
  p1 = p1
  p2 = p2
  t1 = t1
  t2 = t2
  u1 = u1
  w1 = w1
  w2 = w2
  NoUser = NoUser
  NoPassword = NoPassword
  NoToken = NoToken
  NoLink = NoLink
  Users = {u1}
  Passwords = {p1, p2}
  Tokens = {t1, t2}
  Links = {}
  Workers = {w1, w2}
  SeedAdmins = {}
  SeedMembers = {u1}
  SeedPassword = p1
  ACCESS_TOKEN_EXPIRES = 1
  REFRESH_TOKEN_EXPIRES = 2
  EMAIL_TOKEN_EXPIRE = 2
  PASSWORD_RESET_EXPIRE = 1
  LOCKOUT_THRESHOLD = 2
  LOCKOUT_TIME = 2
  RollbackOnError = TRUE
  Ops = {"login", "refresh", "change_password"}
  Payloads = {}
  MaxRequests = 4
  MaxTime = 1
SYMMETRY Symmetry
PROPERTIES
  PasswordChangeEndsSessions
