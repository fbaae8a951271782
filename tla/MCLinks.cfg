SPECIFICATION FairSpec
CONSTANTS
  k1 = k1
  p1 = p1
  p2 = p2
  t1 = t1
  t2 = t2
  u1 = u1
  u2 = u2
  w1 = w1
  w2 = w2
  NoUser = NoUser
  NoPassword = NoPassword
  NoToken = NoToken
  NoLink = NoLink
  Users = {u1, u2}
  Passwords = {p1, p2}
  Tokens = {t1, t2}
  Links = {k1}
  Workers = {w1, w2}
  SeedAdmins = {u2}
  SeedMembers = {}
  SeedPassword = p1
  ACCESS_TOKEN_EXPIRES = 1
  REFRESH_TOKEN_EXPIRES = 2
  EMAIL_TOKEN_EXPIRE = 1
  PASSWORD_RESET_EXPIRE = 1
  LOCKOUT_THRESHOLD = 2
  LOCKOUT_TIME = 2
  RollbackOnError = TRUE
  Ops = {"register", "login", "refresh", "verify_email_request",
         "verify_email_confirm", "password_reset_request",
         "password_reset_confirm", "admin_update"}
  Payloads <- DemotePayloads
  MaxRequests = 4
  MaxTime = 2
INVARIANTS
  RedemptionsBounded
  MailFollowsCommit
  AuditMatchesTables
PROPERTIES
  RequestsFinish
  OnlyOwnersWrite
