\* One account at a time, of a customer or of a partner: a verification code, two
\* reset codes and two reset tokens, statements and mails that fail.
SPECIFICATION Spec
CONSTANTS
  Users = {u1}
  Partners = {p1}
  Requests = {r1, r2}
  Passwords = {w1}
  Secrets = {s1, s2, s3, s4}
  Devices = {d1}
  CodeTTL = 1
  TokenTTL = 2
  AccessTTL = 1
  RefreshTTL = 2
  MaxAccounts = 1
  MaxTime = 3
  MayFail = TRUE
  None = None
SYMMETRY Symmetry
INVARIANTS TypeOK SpentSecretsGone MailedCodeVerifies VerifiedByMail
PROPERTIES StrandedForever ContractSpec
