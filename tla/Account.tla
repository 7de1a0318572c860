-------------------------------- MODULE Account --------------------------------
(***************************************************************************)
(* Accounts of customers and partners: registration, e-mail verification,  *)
(* the two ways to a new password, sign-in and its tokens                  *)
(* (src/internal/service/user_service.go, partner_service.go and           *)
(* auth_service.go over the two repositories; src/internal/auth/token.go). *)
(*                                                                         *)
(* As in module Booking a request slot serves one call after another and a *)
(* step is one SQL statement or one mail. Customers and partners have      *)
(* tables of their own and the same columns and calls, so the same steps   *)
(* serve both. An account stands for its (normalized) e-mail address.      *)
(* Names, addresses and the rest of the profile are left out.              *)
(*                                                                         *)
(* Verification codes, reset codes and reset tokens are random; here each  *)
(* is a fresh member of Secrets, and nobody guesses one: a caller presents *)
(* what a mail or a response has told it, as often as it likes. Passwords  *)
(* stand for their hashes. The pair of tokens that a sign-in gives is not  *)
(* stored anywhere; of all pairs of an account only the times at which the *)
(* last of them expire matter.                                             *)
(***************************************************************************)
EXTENDS Naturals, FiniteSets

CONSTANTS
  Users, Partners, \* their e-mail addresses
  Requests,
  Passwords,
  Secrets,         \* codes and tokens (bounds their number)
  Devices,         \* device tokens for push notifications
  CodeTTL, TokenTTL,     \* otpTTL and resetTokenTTL, in ticks
  AccessTTL, RefreshTTL, \* lifetimes of the tokens of a sign-in
  MaxAccounts,     \* bounds the accounts that register
  MaxTime,         \* bounds the clock
  MayFail,         \* whether statements and mails may fail
  None             \* NULL, or the empty string

Accounts == Users \cup Partners

ASSUME AccountsAssumption == Users \cap Partners = {} /\ None \notin Accounts
ASSUME RequestsAssumption == None \notin Requests
ASSUME ValuesAssumption == None \notin Passwords \cup Secrets \cup Devices
ASSUME TimeAssumption ==
  {CodeTTL, TokenTTL, AccessTTL, RefreshTTL, MaxTime, MaxAccounts} \subseteq Nat
ASSUME MayFailAssumption == MayFail \in BOOLEAN

VARIABLES
  password,   \* of each account, None if it has no row
  verified,   \* email_verified
  verifyOTP,  \* verify_otp and its expiry
  resetOTP,   \* reset_otp and its expiry
  resetToken, \* reset_token and its expiry
  device,     \* fcm_token
  session,    \* when the last access and refresh token of each account expire
  secret,     \* what has become of each code or token
  mailed,     \* verification code that was mailed to each account
  pc, call,   \* next statement of each request, and its local variables
  now

row == <<password, verified, verifyOTP, resetOTP, resetToken, device>>
outside == <<session, secret, mailed>>
vars == <<password, verified, verifyOTP, resetOTP, resetToken, device,
          session, secret, mailed, pc, call, now>>

Blank == [value |-> None, until |-> 0]
NoCall == [account |-> None, secret |-> None, draw |-> None, password |-> None,
           device |-> None, until |-> 0]

Init ==
  /\ password = [a \in Accounts |-> None]
  /\ verified = [a \in Accounts |-> FALSE]
  /\ verifyOTP = [a \in Accounts |-> Blank]
  /\ resetOTP = [a \in Accounts |-> Blank]
  /\ resetToken = [a \in Accounts |-> Blank]
  /\ device = [a \in Accounts |-> None]
  /\ session = [a \in Accounts |-> [access |-> 0, refresh |-> 0]]
  /\ secret = [s \in Secrets |-> "unused"]
  /\ mailed = [a \in Accounts |-> None]
  /\ pc = [r \in Requests |-> "idle"]
  /\ call = [r \in Requests |-> NoCall]
  /\ now = 0

-----------------------------------------------------------------------------
Goto(r, label) == pc' = [pc EXCEPT ![r] = label]
Return(r) == Goto(r, "idle") /\ call' = [call EXCEPT ![r] = NoCall]
Start(r, c, label) ==
  pc[r] = "idle" /\ call' = [call EXCEPT ![r] = c] /\ Goto(r, label)

Registered(a) == password[a] # None

\* randomOTP and randomToken.
Draw(s) == secret[s] = "unused" /\ secret' = [secret EXCEPT ![s] = "drawn"]

\* What a caller can have read in a mail or a response, used or not.
Known == {s \in Secrets : secret[s] \in {"known", "spent"}}

\* A code or token is accepted until it expires.
Accepts(column, s) == column.value = s /\ now <= column.until

-----------------------------------------------------------------------------
\* Registration.

\* Bounds the accounts: those that exist or are about to, with a.
Admitted(a) ==
  Cardinality({b \in Accounts : Registered(b) \/ \E q \in Requests : call[q].account = b}
              \cup {a}) <= MaxAccounts

\* EmailExists, the hash, and the code with its expiry.
Register(r, a) ==
  /\ ~Registered(a) /\ Admitted(a)
  /\ \E p \in Passwords, d \in Devices \cup {None}, s \in Secrets :
       /\ Draw(s)
       /\ Start(r, [NoCall EXCEPT !.account = a, !.password = p, !.device = d,
                                  !.draw = s, !.until = now + CodeTTL], "create")
  /\ UNCHANGED <<row, session, mailed, now>>

Insert(r) ==
  LET c == call[r]
      a == c.account
  IN /\ password' = [password EXCEPT ![a] = c.password]
     /\ verifyOTP' = [verifyOTP EXCEPT ![a] = [value |-> c.draw, until |-> c.until]]
     /\ device' = [device EXCEPT ![a] = c.device]
     /\ UNCHANGED <<verified, resetOTP, resetToken, outside, call, now>>

\* The e-mail column is not unique: the later row hides the earlier one.
FaultyCreate(r) == pc[r] = "create" /\ Goto(r, "mailCode") /\ Insert(r)

\* The unique index on the e-mail address decides between registrations that
\* have both found it free.
Create(r) ==
  /\ pc[r] = "create"
  /\ \/ /\ ~Registered(call[r].account)
        /\ Goto(r, "mailCode") /\ Insert(r)
     \/ /\ Registered(call[r].account)
        /\ Return(r) /\ UNCHANGED <<row, outside, now>>

SendVerificationEmail(r) ==
  /\ pc[r] = "mailCode"
  /\ secret' = [secret EXCEPT ![call[r].draw] = "known"]
  /\ mailed' = [mailed EXCEPT ![call[r].account] = call[r].draw]
  /\ Goto(r, "issue")
  /\ UNCHANGED <<row, session, call, now>>

\* Any code mailed to the account will do.
FaultyVerifyEmail(r, a) ==
  /\ Registered(a) /\ ~verified[a]
  /\ \E s \in Known :
       /\ Accepts(verifyOTP[a], s) \/ Accepts(resetOTP[a], s)
       /\ Start(r, [NoCall EXCEPT !.account = a, !.secret = s], "markVerified")
  /\ UNCHANGED <<row, outside, now>>

\* The expiry is not looked at.
StaleVerifyEmail(r, a) ==
  /\ Registered(a) /\ ~verified[a]
  /\ \E s \in Known :
       /\ verifyOTP[a].value = s
       /\ Start(r, [NoCall EXCEPT !.account = a, !.secret = s], "markVerified")
  /\ UNCHANGED <<row, outside, now>>

VerifyEmail(r, a) ==
  /\ Registered(a) /\ ~verified[a]
  /\ \E s \in Known :
       /\ Accepts(verifyOTP[a], s)
       /\ Start(r, [NoCall EXCEPT !.account = a, !.secret = s], "markVerified")
  /\ UNCHANGED <<row, outside, now>>

MarkEmailVerified(r) ==
  LET a == call[r].account
  IN /\ pc[r] = "markVerified"
     /\ verified' = [verified EXCEPT ![a] = TRUE]
     /\ verifyOTP' = [verifyOTP EXCEPT ![a] = Blank]
     /\ secret' = [secret EXCEPT ![call[r].secret] = "spent"]
     /\ Return(r)
     /\ UNCHANGED <<password, resetOTP, resetToken, device, session, mailed, now>>

-----------------------------------------------------------------------------
\* A new password.

\* An address that is not registered gets the same response.
ForgotPassword(r, a) ==
  \/ ~Registered(a) /\ pc[r] = "idle" /\ UNCHANGED vars
  \/ /\ Registered(a)
     /\ \E s \in Secrets :
          Draw(s) /\ Start(r, [NoCall EXCEPT !.account = a, !.draw = s,
                                             !.until = now + CodeTTL], "setOTP")
     /\ UNCHANGED <<row, session, mailed, now>>

SetResetOTP(r) ==
  /\ pc[r] = "setOTP"
  /\ resetOTP' = [resetOTP EXCEPT ![call[r].account] =
       [value |-> call[r].draw, until |-> call[r].until]]
  /\ Goto(r, "mailReset")
  /\ UNCHANGED <<password, verified, verifyOTP, resetToken, device, outside, call, now>>

SendPasswordResetEmail(r) ==
  /\ pc[r] = "mailReset"
  /\ secret' = [secret EXCEPT ![call[r].draw] = "known"]
  /\ Return(r)
  /\ UNCHANGED <<row, session, mailed, now>>

\* The code of either mail will do.
FaultyVerifyForgotPasswordOTP(r, a) ==
  /\ Registered(a)
  /\ \E s \in Known, t \in Secrets :
       /\ Accepts(resetOTP[a], s) \/ Accepts(verifyOTP[a], s)
       /\ Draw(t)
       /\ Start(r, [NoCall EXCEPT !.account = a, !.secret = s, !.draw = t,
                                  !.until = now + TokenTTL], "setToken")
  /\ UNCHANGED <<row, session, mailed, now>>

VerifyForgotPasswordOTP(r, a) ==
  /\ Registered(a)
  /\ \E s \in Known, t \in Secrets :
       /\ Accepts(resetOTP[a], s)
       /\ Draw(t)
       /\ Start(r, [NoCall EXCEPT !.account = a, !.secret = s, !.draw = t,
                                  !.until = now + TokenTTL], "setToken")
  /\ UNCHANGED <<row, session, mailed, now>>

\* The code stays stored.
FaultySetResetToken(r) ==
  LET c == call[r]
  IN /\ pc[r] = "setToken"
     /\ resetToken' = [resetToken EXCEPT ![c.account] =
          [value |-> c.draw, until |-> c.until]]
     /\ secret' = [secret EXCEPT ![c.draw] = "known", ![c.secret] = "spent"]
     /\ Return(r)
     /\ UNCHANGED <<password, verified, verifyOTP, resetOTP, device, session, mailed, now>>

\* Whatever code is pending is cleared, not only the one that was presented.
SetResetToken(r) ==
  LET c == call[r]
  IN /\ pc[r] = "setToken"
     /\ resetToken' = [resetToken EXCEPT ![c.account] =
          [value |-> c.draw, until |-> c.until]]
     /\ resetOTP' = [resetOTP EXCEPT ![c.account] = Blank]
     /\ secret' = [secret EXCEPT ![c.draw] = "known", ![c.secret] = "spent"]
     /\ Return(r)
     /\ UNCHANGED <<password, verified, verifyOTP, device, session, mailed, now>>

\* The account is that of the token (GetByResetToken).
ResetPassword(r, a) ==
  /\ \E s \in Known, p \in Passwords :
       /\ Accepts(resetToken[a], s)
       /\ Start(r, [NoCall EXCEPT !.account = a, !.secret = s, !.password = p],
                "setPassword")
  /\ UNCHANGED <<row, outside, now>>

\* Authenticate: an access token of the account that has not expired.
Authenticated(a) == now < session[a].access

\* The caller knows the current password.
ChangePassword(r, a) ==
  /\ Authenticated(a) /\ Registered(a)
  /\ \E p \in Passwords :
       Start(r, [NoCall EXCEPT !.account = a, !.password = p], "setPassword")
  /\ UNCHANGED <<row, outside, now>>

\* Of ResetPassword and of ChangePassword. It sets the password whatever the row
\* holds by then, and clears whatever token it holds.
UpdatePassword(r) ==
  LET c == call[r]
  IN /\ pc[r] = "setPassword"
     /\ password' = [password EXCEPT ![c.account] = c.password]
     /\ resetToken' = [resetToken EXCEPT ![c.account] = Blank]
     /\ secret' = IF c.secret = None THEN secret
                  ELSE [secret EXCEPT ![c.secret] = "spent"]
     /\ Return(r)
     /\ UNCHANGED <<verified, verifyOTP, resetOTP, device, session, mailed, now>>

-----------------------------------------------------------------------------
\* Sign-in.

\* The caller knows the password.
Login(r, a) ==
  /\ Registered(a) /\ verified[a]
  /\ \E d \in Devices \cup {None} :
       Start(r, [NoCall EXCEPT !.account = a, !.device = d],
             IF d = None THEN "issue" ELSE "saveDevice")
  /\ UNCHANGED <<row, outside, now>>

\* saveFCMToken: a failure is logged and the sign-in goes on.
UpdateFCMToken(r) ==
  /\ pc[r] = "saveDevice"
  /\ \/ device' = [device EXCEPT ![call[r].account] = call[r].device]
     \/ MayFail /\ UNCHANGED device
  /\ Goto(r, "issue")
  /\ UNCHANGED <<password, verified, verifyOTP, resetOTP, resetToken, outside, call, now>>

\* Only the access token.
FaultyPair == [access |-> now + AccessTTL, refresh |-> None]

\* Generate.
Pair == [access |-> now + AccessTTL, refresh |-> now + RefreshTTL]

\* The response of Register and of Login.
Issue(r) ==
  /\ pc[r] = "issue"
  /\ session' = [session EXCEPT ![call[r].account] = Pair]
  /\ Return(r)
  /\ UNCHANGED <<row, secret, mailed, now>>

\* A pair for a refresh token. Nothing is read from the database.
Refresh(a) ==
  /\ now < session[a].refresh
  /\ session' = [session EXCEPT ![a] = Pair]
  /\ UNCHANGED <<row, secret, mailed, pc, call, now>>

-----------------------------------------------------------------------------
\* A statement or a mail fails; what is committed stays.
Abandon(r) ==
  /\ MayFail /\ pc[r] # "idle"
  /\ Return(r)
  /\ UNCHANGED <<row, outside, now>>

Tick ==
  /\ now < MaxTime
  /\ now' = now + 1
  /\ UNCHANGED <<row, outside, pc, call>>

UserRegister(r) == \E a \in Users : Register(r, a)
PartnerRegister(r) == \E a \in Partners : Register(r, a)

UserVerifyEmail(r) == \E a \in Users : VerifyEmail(r, a)
PartnerVerifyEmail(r) == \E a \in Partners : VerifyEmail(r, a)

UserForgotPassword(r) ==
  \E a \in Users : ForgotPassword(r, a) \/ VerifyForgotPasswordOTP(r, a)
PartnerForgotPassword(r) ==
  \E a \in Partners : ForgotPassword(r, a) \/ VerifyForgotPasswordOTP(r, a)

UserNewPassword(r) ==
  \E a \in Users : ResetPassword(r, a) \/ ChangePassword(r, a)
PartnerNewPassword(r) ==
  \E a \in Partners : ResetPassword(r, a) \/ ChangePassword(r, a)

LoginUser(r) == \E a \in Users : Login(r, a)
LoginPartner(r) == \E a \in Partners : Login(r, a)

\* The statements of the two repositories.
UserStatement(r) ==
  /\ call[r].account \in Users
  /\ \/ Create(r) \/ MarkEmailVerified(r) \/ UpdateFCMToken(r)
     \/ SetResetOTP(r) \/ SetResetToken(r) \/ UpdatePassword(r)
PartnerCreate(r) == call[r].account \in Partners /\ Create(r)
PartnerUpdate(r) ==
  call[r].account \in Partners /\ (MarkEmailVerified(r) \/ UpdateFCMToken(r))
PartnerPassword(r) ==
  /\ call[r].account \in Partners
  /\ SetResetOTP(r) \/ SetResetToken(r) \/ UpdatePassword(r)

Next ==
  \/ \E r \in Requests :
       \/ UserRegister(r) \/ UserVerifyEmail(r) \/ UserForgotPassword(r)
       \/ UserNewPassword(r) \/ LoginUser(r) \/ UserStatement(r)
       \/ PartnerRegister(r) \/ PartnerVerifyEmail(r) \/ PartnerForgotPassword(r)
       \/ PartnerNewPassword(r) \/ LoginPartner(r)
       \/ PartnerCreate(r) \/ PartnerUpdate(r) \/ PartnerPassword(r)
       \/ SendVerificationEmail(r) \/ SendPasswordResetEmail(r) \/ Issue(r)
       \/ Abandon(r)
  \/ \E a \in Accounts : Refresh(a)
  \/ Tick

Spec == Init /\ [][Next]_vars

-----------------------------------------------------------------------------
\* Properties.

Columns == [value : Secrets \cup {None}, until : Nat]
Calls ==
  [account : Accounts \cup {None}, secret : Secrets \cup {None},
   draw : Secrets \cup {None}, password : Passwords \cup {None},
   device : Devices \cup {None}, until : Nat]
PCs == {"idle", "create", "mailCode", "issue", "markVerified", "setOTP", "mailReset",
        "setToken", "setPassword", "saveDevice"}

\* Every column and local variable holds values of its type.
TypeOK ==
  /\ password \in [Accounts -> Passwords \cup {None}]
  /\ verified \in [Accounts -> BOOLEAN]
  /\ verifyOTP \in [Accounts -> Columns]
  /\ resetOTP \in [Accounts -> Columns]
  /\ resetToken \in [Accounts -> Columns]
  /\ device \in [Accounts -> Devices \cup {None}]
  /\ session \in [Accounts -> [access : Nat, refresh : Nat]]
  /\ secret \in [Secrets -> {"unused", "drawn", "known", "spent"}]
  /\ mailed \in [Accounts -> Secrets \cup {None}]
  /\ pc \in [Requests -> PCs]
  /\ call \in [Requests -> Calls]
  /\ now \in Nat

\* A code or token that has served its purpose is stored nowhere: calls that
\* begin later are refused it, although calls that looked before may still use
\* it, several of them even, and may clear codes and tokens newer than it.
SpentSecretsGone ==
  \A a \in Accounts : \A column \in {verifyOTP[a], resetOTP[a], resetToken[a]} :
    column.value # None => secret[column.value] # "spent"

\* The verification code in an account's mail is the one stored for it until the
\* account is verified, however many registrations of the address compete:
\* there is no way to ask for another code.
MailedCodeVerifies ==
  \A a \in Accounts :
    mailed[a] # None /\ ~verified[a] => verifyOTP[a].value = mailed[a]

\* An account is verified only with the code that was mailed to verify it.
VerifiedByMail ==
  \A a \in Accounts :
    verified[a] => mailed[a] # None /\ secret[mailed[a]] = "spent"

\* A registered account that cannot be verified any more: its code was never
\* mailed or has expired, and no call is about to change that.
Stranded(a) ==
  /\ Registered(a) /\ ~verified[a]
  /\ mailed[a] = None \/ now > verifyOTP[a].until
  /\ \A r \in Requests : call[r].account = a => pc[r] \notin {"mailCode", "markVerified"}

\* Such an account stays so for good: its password signs nobody in, nor can its
\* address be registered again. Only a session that its registration began goes on, for
\* as long as it is refreshed in time.
StrandedForever == [][\A a \in Accounts : Stranded(a) => Stranded(a)']_vars

-----------------------------------------------------------------------------
\* The abstract specification.

\* Accounts whose registration is between its INSERT and its response.
Registering ==
  {call[r].account : r \in {q \in Requests :
     pc[q] = "mailCode" \/ (pc[q] = "issue" /\ call[q].draw # None)}}

\* What callers know that is stored for a, or that a call has looked at before it was
\* replaced: reset codes and reset tokens.
Usable(a, column, label) ==
  {s \in Known :
     \/ s = column[a].value
     \/ \E r \in Requests :
          pc[r] = label /\ call[r].account = a /\ call[r].secret = s}

Codes == [a \in Accounts |-> Usable(a, resetOTP, "setToken")]
Tokens == [a \in Accounts |-> Usable(a, resetToken, "setPassword")]
SignedIn == {a \in Accounts : session[a] # [access |-> 0, refresh |-> 0]}

Contract == INSTANCE AccountContract WITH
  registering <- Registering, codes <- Codes, tokens <- Tokens,
  signedIn <- SignedIn, sealed <- Secrets \ Known

\* A password changes only for the owner of the mailbox, through a code and a token of
\* that very account, or for somebody signed in; and an account is signed in to only by
\* its registration or once it is verified. No order of statements, failures or stale
\* reads lends a caller a code of another purpose or account, or one that was lost.
ContractSpec == Contract!Spec
=============================================================================
