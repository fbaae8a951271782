SPECIFICATION Spec
CONSTANTS
  p1 = p1
  p2 = p2
  t1 = t1
  t2 = t2
  t3 = t3
  t4 = t4
  u1 = u1
  w1 = w1
  w2 = w2
  NoUser = NoUser
  NoPassword = NoPassword
  NoToken = NoToken
  NoLink = NoLink
  Users = {u1}
  Passwords = {p1, p2}
  Tokens = {t1, t2, t3, t4}
  Links = {}
  Workers = {w1, w2}
  SeedAdmins = {}
  SeedMembers = {u1}
  SeedPassword = p1
  ACCESS_TOKEN_EXPIRES = 1
  REFRESH_TOKEN_EXPIRES = 2
  EMAIL_TOKEN_EXPIRE = 2
  PASSWORD_RESET_EXPIRE = 1
  LOCKOUT_THRESHOLD = 2
  LOCKOUT_TIME = 2
  RollbackOnError = TRUE
  Ops = {"login", "refresh", "logout", "change_password",
         "revoke_session", "revoke_all"}
  Payloads = {}
  MaxRequests = 5
  MaxTime = 3
SYMMETRY Symmetry
INVARIANTS
  TypeOK
  CutTokensStayDead
  RotationRevokesParent
  RotationsBounded
  AuditMatchesTables
PROPERTIES
  ImplementsSessions
