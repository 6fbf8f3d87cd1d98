SPECIFICATION FairSpec
CONSTANTS
  None = None
  Accounts = {a1, a2}
  Emails = {e1, e2}
  Names = {n1, n2}
  Passwords = {p1}
  Links = {l1}
  Requests = {r1, r2}
  AutoVerify = FALSE
  Deletions = {FALSE, TRUE}
  MaxStrayed = 1
  MaxFailures = 1
CHECK_DEADLOCK FALSE
INVARIANTS
  IInv
  MailedLinksExpire
  VerifiedByMail
  KeysExpire
PROPERTIES
  VerifiedStays
  CacheCatchesUp
