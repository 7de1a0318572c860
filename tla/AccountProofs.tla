----------------------------- MODULE AccountProofs -----------------------------
(***************************************************************************)
(* Proofs about module Account, for any number of accounts, requests,      *)
(* codes and tokens.                                                       *)
(*                                                                         *)
(* Types come first. The inductive invariant then follows each code or     *)
(* token: drawn by one call, stored in one column of one account, told to  *)
(* its owner, presented by calls that may overlap, spent.                  *)
(***************************************************************************)
EXTENDS Account, TLAPS

\* A call begins.
Arrive(r, a) ==
  \/ Register(r, a) \/ VerifyEmail(r, a) \/ ForgotPassword(r, a)
  \/ VerifyForgotPasswordOTP(r, a) \/ ResetPassword(r, a) \/ ChangePassword(r, a)
  \/ Login(r, a)

\* A call goes on.
Proceed(r) ==
  \/ Create(r) \/ SendVerificationEmail(r) \/ MarkEmailVerified(r)
  \/ SetResetOTP(r) \/ SendPasswordResetEmail(r) \/ SetResetToken(r)
  \/ UpdatePassword(r) \/ UpdateFCMToken(r) \/ Issue(r) \/ Abandon(r)

\* Customers and partners take the same steps.
LEMMA NextCases ==
  ASSUME Next
  PROVE  \/ \E r \in Requests, a \in Accounts : Arrive(r, a)
         \/ \E r \in Requests : Proceed(r)
         \/ \E a \in Accounts : Refresh(a)
         \/ Tick
BY DEF Next, Arrive, Proceed, Accounts, UserRegister, PartnerRegister,
       UserVerifyEmail, PartnerVerifyEmail, UserForgotPassword, PartnerForgotPassword,
       UserNewPassword, PartnerNewPassword, LoginUser, LoginPartner, UserStatement,
       PartnerCreate, PartnerUpdate, PartnerPassword

-----------------------------------------------------------------------------
\* Types.

\* Labels between the draw of a code or token and its mail or response.
Storing == {"create", "setOTP", "setToken"}
Drawing == Storing \cup {"mailCode", "mailReset"}

\* The variables of a call fit its next statement.
Fits(r) ==
  /\ pc[r] # "idle" => call[r].account \in Accounts
  /\ pc[r] \in Drawing => call[r].draw \in Secrets
  /\ pc[r] \in {"markVerified", "setToken"} => call[r].secret \in Secrets
  /\ pc[r] \in {"create", "setPassword"} => call[r].password \in Passwords

Typed == TypeOK /\ \A r \in Requests : Fits(r)

\* The code or token that an account has stored of each kind, and the kind that a
\* call presents at its next statement.
Kinds == {"verify", "reset", "token"}
Value(k, a) ==
  IF k = "verify" THEN verifyOTP[a].value
  ELSE IF k = "reset" THEN resetOTP[a].value ELSE resetToken[a].value
From(label) ==
  IF label = "markVerified" THEN "verify" ELSE IF label = "setToken" THEN "reset" ELSE "token"

LEMMA NoCallType == NoCall \in Calls
BY DEF NoCall, Calls

\* The initial state has the right types.
LEMMA InitTyped == Init => Typed
BY NoCallType DEF Init, Typed, TypeOK, Fits, Blank, Columns, PCs, Drawing, Storing

\* What a call that begins has drawn, and what it presents.
Begun(r, a) ==
  /\ pc[r] = "idle"
  /\ pc' = [pc EXCEPT ![r] = pc'[r]] /\ call' = [call EXCEPT ![r] = call'[r]]
  /\ pc'[r] \in PCs /\ call'[r] \in Calls /\ call'[r].account = a
  /\ pc'[r] \in Drawing =>
       /\ pc'[r] \in Storing
       /\ call'[r].draw \in Secrets /\ secret[call'[r].draw] = "unused"
       /\ secret' = [secret EXCEPT ![call'[r].draw] = "drawn"]
  /\ pc'[r] \notin Drawing => secret' = secret
  /\ pc'[r] \in {"create", "setPassword"} => call'[r].password \in Passwords
  /\ pc'[r] \in {"markVerified", "setToken"} => call'[r].secret \in Secrets
  /\ pc'[r] = "markVerified" => now <= verifyOTP[a].until
  /\ call'[r].secret # None =>
       call'[r].secret \in Known /\ Value(From(pc'[r]), a) = call'[r].secret

\* A call begins, or ForgotPassword finds no account.
LEMMA ArriveEffect ==
  ASSUME Typed, NEW r \in Requests, NEW a \in Accounts, Arrive(r, a)
  PROVE  /\ UNCHANGED <<row, session, mailed, now>>
         /\ UNCHANGED <<pc, call, secret>> \/ Begun(r, a)
<1>0. /\ pc \in [Requests -> PCs] /\ call \in [Requests -> Calls]
      /\ now + CodeTTL \in Nat /\ now + TokenTTL \in Nat
  BY TimeAssumption DEF Typed, TypeOK
<1>1. CASE Register(r, a)
  <2>1. PICK p \in Passwords, d \in Devices \cup {None}, s \in Secrets :
          /\ Draw(s)
          /\ Start(r, [NoCall EXCEPT !.account = a, !.password = p, !.device = d,
                                     !.draw = s, !.until = now + CodeTTL], "create")
    BY <1>1, Zenon DEF Register
  <2> DEFINE c == [NoCall EXCEPT !.account = a, !.password = p, !.device = d,
                                 !.draw = s, !.until = now + CodeTTL]
  <2>2. /\ c \in Calls /\ c.account = a /\ c.password = p /\ c.draw = s
        /\ c.secret = None
    BY NoCallType, <1>0 DEF Calls, NoCall
  <2> HIDE DEF c
  <2>3. /\ pc[r] = "idle" /\ pc' = [pc EXCEPT ![r] = "create"]
        /\ call' = [call EXCEPT ![r] = c]
    BY <2>1, Zenon DEF Start, Goto, c
  <2>4. pc'[r] = "create" /\ call'[r] = c
    BY <2>3, <1>0
  <2>5. UNCHANGED <<row, session, mailed, now>>
    BY <1>1, Zenon DEF Register
  <2>6. secret[s] = "unused" /\ secret' = [secret EXCEPT ![s] = "drawn"]
    BY <2>1, Zenon DEF Draw
  <2>7. Begun(r, a)
    BY <2>2, <2>3, <2>4, <2>6 DEF Begun, PCs, Drawing, Storing
  <2>. QED
    BY <2>5, <2>7
<1>2. CASE VerifyEmail(r, a)
  <2>1. PICK s \in Known :
          /\ Accepts(verifyOTP[a], s)
          /\ Start(r, [NoCall EXCEPT !.account = a, !.secret = s], "markVerified")
    BY <1>2, Zenon DEF VerifyEmail
  <2> DEFINE c == [NoCall EXCEPT !.account = a, !.secret = s]
  <2>2. s \in Secrets /\ c \in Calls /\ c.account = a /\ c.secret = s
    BY NoCallType, <1>0 DEF Calls, NoCall, Known
  <2> HIDE DEF c
  <2>3. /\ pc[r] = "idle" /\ pc' = [pc EXCEPT ![r] = "markVerified"]
        /\ call' = [call EXCEPT ![r] = c]
    BY <2>1, Zenon DEF Start, Goto, c
  <2>4. pc'[r] = "markVerified" /\ call'[r] = c
    BY <2>3, <1>0
  <2>5. UNCHANGED <<row, session, mailed, now>> /\ secret' = secret
    BY <1>2 DEF VerifyEmail, outside
  <2>6. Value("verify", a) = s /\ now <= verifyOTP[a].until
    BY <2>1 DEF Accepts, Value
  <2>7. Begun(r, a)
    BY <2>1, <2>2, <2>3, <2>4, <2>5, <2>6 DEF Begun, PCs, Drawing, Storing, From
  <2>. QED
    BY <2>5, <2>7
<1>3. CASE ForgotPassword(r, a)
  <2>1. CASE ~Registered(a)
    BY <1>3, <2>1 DEF ForgotPassword, vars, row
  <2>2. CASE Registered(a)
    <3>1. PICK s \in Secrets :
            Draw(s) /\ Start(r, [NoCall EXCEPT !.account = a, !.draw = s,
                                               !.until = now + CodeTTL], "setOTP")
      BY <1>3, <2>2, Zenon DEF ForgotPassword
    <3> DEFINE c == [NoCall EXCEPT !.account = a, !.draw = s, !.until = now + CodeTTL]
    <3>2. c \in Calls /\ c.account = a /\ c.draw = s /\ c.secret = None
      BY NoCallType, <1>0 DEF Calls, NoCall
    <3> HIDE DEF c
    <3>3. /\ pc[r] = "idle" /\ pc' = [pc EXCEPT ![r] = "setOTP"]
          /\ call' = [call EXCEPT ![r] = c]
      BY <3>1, Zenon DEF Start, Goto, c
    <3>4. pc'[r] = "setOTP" /\ call'[r] = c
      BY <3>3, <1>0
    <3>5. UNCHANGED <<row, session, mailed, now>>
      BY <1>3, <2>2, Zenon DEF ForgotPassword
    <3>6. secret[s] = "unused" /\ secret' = [secret EXCEPT ![s] = "drawn"]
      BY <3>1, Zenon DEF Draw
    <3>7. Begun(r, a)
      BY <3>2, <3>3, <3>4, <3>6 DEF Begun, PCs, Drawing, Storing
    <3>. QED
      BY <3>5, <3>7
  <2>. QED
    BY <2>1, <2>2
<1>4. CASE VerifyForgotPasswordOTP(r, a)
  <2>1. PICK s \in Known, t \in Secrets :
          /\ Accepts(resetOTP[a], s)
          /\ Draw(t)
          /\ Start(r, [NoCall EXCEPT !.account = a, !.secret = s, !.draw = t,
                                     !.until = now + TokenTTL], "setToken")
    BY <1>4, Zenon DEF VerifyForgotPasswordOTP
  <2> DEFINE c == [NoCall EXCEPT !.account = a, !.secret = s, !.draw = t,
                                 !.until = now + TokenTTL]
  <2>2. /\ s \in Secrets /\ c \in Calls /\ c.account = a /\ c.secret = s
        /\ c.draw = t
    BY NoCallType, <1>0 DEF Calls, NoCall, Known
  <2> HIDE DEF c
  <2>3. /\ pc[r] = "idle" /\ pc' = [pc EXCEPT ![r] = "setToken"]
        /\ call' = [call EXCEPT ![r] = c]
    BY <2>1, Zenon DEF Start, Goto, c
  <2>4. pc'[r] = "setToken" /\ call'[r] = c
    BY <2>3, <1>0
  <2>5. UNCHANGED <<row, session, mailed, now>>
    BY <1>4, Zenon DEF VerifyForgotPasswordOTP
  <2>6. secret[t] = "unused" /\ secret' = [secret EXCEPT ![t] = "drawn"]
    BY <2>1, Zenon DEF Draw
  <2>7. Value("reset", a) = s
    BY <2>1 DEF Accepts, Value
  <2>8. Begun(r, a)
    BY <2>1, <2>2, <2>3, <2>4, <2>6, <2>7 DEF Begun, PCs, Drawing, Storing, From
  <2>. QED
    BY <2>5, <2>8
<1>5. CASE ResetPassword(r, a)
  <2>1. PICK s \in Known, p \in Passwords :
          /\ Accepts(resetToken[a], s)
          /\ Start(r, [NoCall EXCEPT !.account = a, !.secret = s, !.password = p],
                   "setPassword")
    BY <1>5, Zenon DEF ResetPassword
  <2> DEFINE c == [NoCall EXCEPT !.account = a, !.secret = s, !.password = p]
  <2>2. /\ c \in Calls /\ c.account = a /\ c.secret = s /\ c.password = p
    BY NoCallType, <1>0 DEF Calls, NoCall, Known
  <2> HIDE DEF c
  <2>3. /\ pc[r] = "idle" /\ pc' = [pc EXCEPT ![r] = "setPassword"]
        /\ call' = [call EXCEPT ![r] = c]
    BY <2>1, Zenon DEF Start, Goto, c
  <2>4. pc'[r] = "setPassword" /\ call'[r] = c
    BY <2>3, <1>0
  <2>5. UNCHANGED <<row, session, mailed, now>> /\ secret' = secret
    BY <1>5 DEF ResetPassword, outside
  <2>6. Value("token", a) = s
    BY <2>1 DEF Accepts, Value
  <2>7. Begun(r, a)
    BY <2>1, <2>2, <2>3, <2>4, <2>5, <2>6 DEF Begun, PCs, Drawing, Storing, From
  <2>. QED
    BY <2>5, <2>7
<1>6. CASE ChangePassword(r, a)
  <2>1. PICK p \in Passwords :
          Start(r, [NoCall EXCEPT !.account = a, !.password = p], "setPassword")
    BY <1>6, Zenon DEF ChangePassword
  <2> DEFINE c == [NoCall EXCEPT !.account = a, !.password = p]
  <2>2. /\ c \in Calls /\ c.account = a /\ c.password = p /\ c.secret = None
    BY NoCallType, <1>0 DEF Calls, NoCall
  <2> HIDE DEF c
  <2>3. /\ pc[r] = "idle" /\ pc' = [pc EXCEPT ![r] = "setPassword"]
        /\ call' = [call EXCEPT ![r] = c]
    BY <2>1, Zenon DEF Start, Goto, c
  <2>4. pc'[r] = "setPassword" /\ call'[r] = c
    BY <2>3, <1>0
  <2>5. UNCHANGED <<row, session, mailed, now>> /\ secret' = secret
    BY <1>6 DEF ChangePassword, outside
  <2>6. Begun(r, a)
    BY <2>1, <2>2, <2>3, <2>4, <2>5 DEF Begun, PCs, Drawing, Storing
  <2>. QED
    BY <2>5, <2>6
<1>7. CASE Login(r, a)
  <2>1. PICK d \in Devices \cup {None} :
          Start(r, [NoCall EXCEPT !.account = a, !.device = d],
                IF d = None THEN "issue" ELSE "saveDevice")
    BY <1>7, Zenon DEF Login
  <2> DEFINE c == [NoCall EXCEPT !.account = a, !.device = d]
             label == IF d = None THEN "issue" ELSE "saveDevice"
  <2>2. /\ c \in Calls /\ c.account = a /\ c.secret = None
        /\ label \in {"issue", "saveDevice"}
    BY NoCallType, <1>0 DEF Calls, NoCall
  <2> HIDE DEF c, label
  <2>3. /\ pc[r] = "idle" /\ pc' = [pc EXCEPT ![r] = label]
        /\ call' = [call EXCEPT ![r] = c]
    BY <2>1, Zenon DEF Start, Goto, c, label
  <2>4. pc'[r] = label /\ call'[r] = c
    BY <2>3, <1>0
  <2>5. UNCHANGED <<row, session, mailed, now>> /\ secret' = secret
    BY <1>7 DEF Login, outside
  <2>6. Begun(r, a)
    BY <2>1, <2>2, <2>3, <2>4, <2>5 DEF Begun, PCs, Drawing, Storing
  <2>. QED
    BY <2>5, <2>6
<1>. QED
  BY <1>1, <1>2, <1>3, <1>4, <1>5, <1>6, <1>7 DEF Arrive

\* A call begins with values of the right types.
LEMMA ArriveTyped ==
  ASSUME Typed, NEW r \in Requests, NEW a \in Accounts, Arrive(r, a)
  PROVE  Typed'
<1>1. /\ UNCHANGED <<row, session, mailed, now>>
      /\ UNCHANGED <<pc, call, secret>> \/ Begun(r, a)
  BY ArriveEffect
<1>2. CASE UNCHANGED <<pc, call, secret>>
  BY <1>1, <1>2 DEF Typed, TypeOK, Fits, row
<1>3. CASE Begun(r, a)
  <2>1. secret' \in [Secrets -> {"unused", "drawn", "known", "spent"}]
    BY <1>3 DEF Typed, TypeOK, Begun
  <2>2. pc' \in [Requests -> PCs] /\ call' \in [Requests -> Calls]
    BY <1>3 DEF Typed, TypeOK, Begun
  <2>3. \A q \in Requests : Fits(q)'
    BY <1>3 DEF Typed, TypeOK, Fits, Begun
  <2>. QED
    BY <1>1, <2>1, <2>2, <2>3 DEF Typed, TypeOK, row
<1>. QED
  BY <1>1, <1>2, <1>3

\* A statement keeps the types, and leaves its call alone or ends it.
LEMMA ProceedTyped ==
  ASSUME Typed, NEW r \in Requests, Proceed(r)
  PROVE  Typed'
<1>0. TypeOK /\ \A q \in Requests : Fits(q)
  BY DEF Typed
<1>1. /\ UNCHANGED now
      /\ \/ Return(r)
         \/ /\ UNCHANGED call
            /\ \E label \in {"mailCode", "issue", "mailReset"} : Goto(r, label)
            /\ pc'[r] = "mailCode" => pc[r] = "create"
            /\ pc'[r] = "mailReset" => pc[r] = "setOTP"
            /\ pc[r] # "idle"
  BY <1>0 DEF Proceed, TypeOK, Create, Insert, SendVerificationEmail, MarkEmailVerified,
     SetResetOTP, SendPasswordResetEmail, SetResetToken, UpdatePassword,
     UpdateFCMToken, Issue, Abandon, Goto
<1>2. pc' \in [Requests -> PCs] /\ call' \in [Requests -> Calls]
  BY <1>0, <1>1, NoCallType DEF Return, Goto, TypeOK, PCs
<1>3. \A q \in Requests : Fits(q)'
  BY <1>0, <1>1 DEF Return, Goto, TypeOK, Fits, Drawing, Storing
<1>4. TypeOK'
  <2>1. /\ call[r] \in Calls /\ now + CodeTTL \in Nat /\ now + TokenTTL \in Nat
        /\ now + AccessTTL \in Nat /\ now + RefreshTTL \in Nat /\ Blank \in Columns
    BY <1>0, TimeAssumption DEF TypeOK, Blank, Columns
  <2>. USE <1>0, <1>1, <1>2, <2>1 DEF TypeOK, row, outside, Fits, Drawing, Storing, Calls, Columns
  <2>2. CASE Create(r)
    <3>1. CASE Registered(call[r].account)
      BY <2>2, <3>1 DEF Create
    <3>2. CASE ~Registered(call[r].account)
      <4>1. /\ call[r].account \in Accounts /\ call[r].password \in Passwords
            /\ [value |-> call[r].draw, until |-> call[r].until] \in Columns
            /\ call[r].device \in Devices \cup {None}
        BY <2>2, <3>2 DEF Create
      <4>2. /\ password' = [password EXCEPT ![call[r].account] = call[r].password]
            /\ verifyOTP' = [verifyOTP EXCEPT ![call[r].account] =
                 [value |-> call[r].draw, until |-> call[r].until]]
            /\ device' = [device EXCEPT ![call[r].account] = call[r].device]
            /\ UNCHANGED <<verified, resetOTP, resetToken, outside, now>>
        BY <2>2, <3>2, Zenon DEF Create, Insert
      <4>. QED
        BY <4>1, <4>2
    <3>. QED
      BY <3>1, <3>2
  <2>3. CASE SendVerificationEmail(r)
    BY <2>3 DEF SendVerificationEmail
  <2>4. CASE MarkEmailVerified(r)
    BY <2>4 DEF MarkEmailVerified
  <2>5. CASE SetResetOTP(r)
    BY <2>5 DEF SetResetOTP
  <2>6. CASE SendPasswordResetEmail(r)
    BY <2>6 DEF SendPasswordResetEmail
  <2>7. CASE SetResetToken(r)
    BY <2>7 DEF SetResetToken
  <2>8. CASE UpdatePassword(r)
    BY <2>8 DEF UpdatePassword
  <2>9. CASE UpdateFCMToken(r)
    BY <2>9 DEF UpdateFCMToken
  <2>10. CASE Issue(r)
    BY <2>10 DEF Issue, Pair
  <2>11. CASE Abandon(r)
    BY <2>11 DEF Abandon
  <2>. QED
    BY <2>2, <2>3, <2>4, <2>5, <2>6, <2>7, <2>8, <2>9, <2>10, <2>11 DEF Proceed
<1>. QED
  BY <1>3, <1>4 DEF Typed

\* Every step keeps the types.
LEMMA NextTyped == Typed /\ [Next]_vars => Typed'
<1>. SUFFICES ASSUME Typed, [Next]_vars PROVE Typed'
  OBVIOUS
<1>1. CASE \E r \in Requests, a \in Accounts : Arrive(r, a)
  BY <1>1, ArriveTyped
<1>2. CASE \E r \in Requests : Proceed(r)
  BY <1>2, ProceedTyped
<1>3. CASE \E a \in Accounts : Refresh(a)
  <2>1. now + AccessTTL \in Nat /\ now + RefreshTTL \in Nat
    BY TimeAssumption DEF Typed, TypeOK
  <2>2. session' \in [Accounts -> [access : Nat, refresh : Nat]]
    BY <1>3, <2>1 DEF Typed, TypeOK, Refresh, Pair
  <2>. QED
    BY <1>3, <2>2 DEF Typed, TypeOK, Fits, Refresh, row
<1>4. CASE Tick
  BY <1>4 DEF Typed, TypeOK, Fits, Tick, row, outside
<1>5. CASE UNCHANGED vars
  BY <1>5 DEF Typed, TypeOK, Fits, vars
<1>. QED
  BY <1>1, <1>2, <1>3, <1>4, <1>5, NextCases

\* Every column and local variable holds values of its type.
THEOREM TypeCorrectness == Spec => []TypeOK
<1>1. Typed => TypeOK
  BY DEF Typed
<1>. QED
  BY InitTyped, NextTyped, <1>1, PTL DEF Spec
-----------------------------------------------------------------------------
\* The life of a code or token.

\* Labels at which a call is about to use up what was presented to it.
Presenting == {"markVerified", "setToken", "setPassword"}

\* Only what is in use is stored,
StoredOK ==
  \A k \in Kinds, a \in Accounts :
    Value(k, a) # None => secret[Value(k, a)] \in {"drawn", "known"}

\* and in one place.
UniqueOK ==
  \A k, l \in Kinds, a, b \in Accounts :
    Value(k, a) # None /\ Value(k, a) = Value(l, b) => k = l /\ a = b

\* What a call has drawn, nobody knows until it is mailed or returned,
DrawOK == \A r \in Requests : pc[r] \in Drawing => secret[call[r].draw] = "drawn"

\* is stored nowhere until this call stores it,
NewOK ==
  \A r \in Requests : pc[r] \in Storing =>
    \A k \in Kinds, a \in Accounts : Value(k, a) # call[r].draw

\* and is not what another call has drawn.
ApartOK ==
  \A q, r \in Requests :
    q # r /\ pc[q] \in Drawing /\ pc[r] \in Drawing => call[q].draw # call[r].draw

\* What is presented to a call is known, and stored, if it still is, where the
\* call will remove it.
PresentOK ==
  \A r \in Requests : pc[r] \in Presenting /\ call[r].secret # None =>
    /\ secret[call[r].secret] \in {"known", "spent"}
    /\ \A k \in Kinds, a \in Accounts :
         Value(k, a) = call[r].secret => k = From(pc[r]) /\ a = call[r].account

SecretsOK ==
  StoredOK /\ UniqueOK /\ DrawOK /\ NewOK /\ ApartOK /\ PresentOK

\* The initial state.
LEMMA InitSecrets == Init => SecretsOK
BY DEF Init, SecretsOK, StoredOK, UniqueOK, DrawOK, NewOK, ApartOK, PresentOK, Value,
       Blank, NoCall, Drawing, Storing, Presenting

\* Columns that do not change.
LEMMA SameValues ==
  ASSUME UNCHANGED <<verifyOTP, resetOTP, resetToken>>
  PROVE  \A k \in Kinds, a \in Accounts : Value(k, a)' = Value(k, a)
BY DEF Value

\* What is stored is a code or token.
LEMMA ValueType ==
  ASSUME Typed
  PROVE  \A k \in Kinds, a \in Accounts : Value(k, a) \in Secrets \cup {None}
BY DEF Typed, TypeOK, Columns, Value

\* A call that begins draws what is unused, so stored nowhere and drawn by nobody,
\* or is presented with what is stored.
LEMMA ArriveSecrets ==
  ASSUME Typed, SecretsOK, NEW r \in Requests, NEW a \in Accounts, Arrive(r, a)
  PROVE  SecretsOK'
<1>1. /\ UNCHANGED <<row, session, mailed, now>>
      /\ UNCHANGED <<pc, call, secret>> \/ Begun(r, a)
  BY ArriveEffect
<1>2. \A k \in Kinds, b \in Accounts : Value(k, b)' = Value(k, b)
  BY <1>1, SameValues DEF row
<1>3. CASE UNCHANGED <<pc, call, secret>>
  BY <1>2, <1>3 DEF SecretsOK, StoredOK, UniqueOK, DrawOK, NewOK, ApartOK, PresentOK
<1>4. CASE Begun(r, a)
  <2>1. /\ \A k \in Kinds, b \in Accounts : Value(k, b) \in Secrets \cup {None}
        /\ None \notin Secrets
    BY ValueType, ValuesAssumption
  <2>2. /\ secret \in [Secrets -> {"unused", "drawn", "known", "spent"}]
        /\ pc \in [Requests -> PCs] /\ call \in [Requests -> Calls]
        /\ \A q \in Requests : Fits(q)
    BY DEF Typed, TypeOK
  <2>3. \A s \in Secrets : secret[s] # "unused" => secret'[s] = secret[s]
    BY <1>4, <2>2 DEF Begun
  <2>4. \A q \in Requests : q # r => pc'[q] = pc[q] /\ call'[q] = call[q]
    BY <1>4, <2>2 DEF Begun
  <2>5. StoredOK'
    BY <1>2, <2>1, <2>3 DEF SecretsOK, StoredOK
  <2>6. UniqueOK'
    BY <1>2 DEF SecretsOK, UniqueOK
  <2>7. DrawOK'
    BY <1>4, <2>2, <2>3, <2>4 DEF SecretsOK, DrawOK, Begun, Fits
  <2>8. NewOK'
    <3>1. \A k \in Kinds, b \in Accounts : Value(k, b) # None => secret[Value(k, b)] # "unused"
      BY DEF SecretsOK, StoredOK
    <3>2. pc'[r] \in Storing =>
            \A k \in Kinds, b \in Accounts : Value(k, b) # call'[r].draw
      BY <1>4, <2>1, <3>1 DEF Begun, Drawing
    <3>. QED
      BY <1>2, <2>4, <3>2 DEF SecretsOK, NewOK
  <2>9. ApartOK'
    <3>1. \A q \in Requests : q # r /\ pc[q] \in Drawing /\ pc'[r] \in Drawing
            => call[q].draw # call'[r].draw
      BY <1>4 DEF SecretsOK, DrawOK, Begun
    <3>. QED
      BY <2>4, <3>1 DEF SecretsOK, ApartOK
  <2>10. PresentOK'
    <3>1. \A q \in Requests : q # r /\ pc[q] \in Presenting /\ call[q].secret # None =>
            secret'[call[q].secret] = secret[call[q].secret]
      BY <2>2, <2>3 DEF SecretsOK, PresentOK, Calls
    <3>2. call'[r].secret # None =>
            /\ call'[r].secret \in Secrets
            /\ secret'[call'[r].secret] \in {"known", "spent"}
            /\ From(pc'[r]) \in Kinds /\ Value(From(pc'[r]), a) = call'[r].secret
            /\ call'[r].account = a
      BY <1>4, <2>3 DEF Begun, Known, From, Kinds
    <3>3. call'[r].secret # None =>
            \A k \in Kinds, b \in Accounts :
              Value(k, b) = call'[r].secret => k = From(pc'[r]) /\ b = a
      BY <3>2 DEF SecretsOK, UniqueOK
    <3>. QED
      BY <1>2, <2>4, <3>1, <3>2, <3>3 DEF SecretsOK, PresentOK
  <2>. QED
    BY <2>5, <2>6, <2>7, <2>8, <2>9, <2>10 DEF SecretsOK
<1>. QED
  BY <1>1, <1>3, <1>4

\* The kind that a call stores its new code or token as.
Into(label) ==
  IF label = "create" THEN "verify" ELSE IF label = "setOTP" THEN "reset" ELSE "token"

\* A statement tells s to its owner, or uses s up and removes it.
Told(r, s) ==
  /\ pc[r] \in {"mailCode", "mailReset", "setToken"} /\ pc'[r] \notin Drawing
  /\ s = call[r].draw /\ secret'[s] = "known"
  /\ pc[r] = "mailCode" => mailed'[call[r].account] = s
Used(r, s) ==
  /\ pc[r] \in Presenting
  /\ s = call[r].secret /\ secret'[s] = "spent"
  /\ \A k \in Kinds, b \in Accounts :
       k = From(pc[r]) /\ b = call[r].account => Value(k, b)' = None

\* What a statement does to a column, to an account and to its call.
Stored(r, k, b) ==
  \/ Value(k, b)' \in {Value(k, b), None}
  \/ /\ pc[r] \in Storing /\ k = Into(pc[r]) /\ b = call[r].account
     /\ Value(k, b)' = call[r].draw
Marked(r, b) ==
  /\ Registered(b) => Registered(b)'
  /\ verified[b] => verified'[b]
  /\ \/ mailed'[b] = mailed[b]
     \/ /\ pc[r] = "mailCode" /\ b = call[r].account /\ mailed'[b] = call[r].draw
        /\ Value("verify", b)' = Value("verify", b)
  /\ \/ verified'[b] = verified[b]
     \/ /\ pc[r] = "markVerified" /\ b = call[r].account
        /\ secret'[call[r].secret] = "spent"
  /\ \/ Value("verify", b)' = Value("verify", b) /\ verifyOTP'[b] = verifyOTP[b]
     \/ pc[r] = "markVerified" /\ b = call[r].account /\ verified'[b]
     \/ /\ pc[r] = "create" /\ pc'[r] = "mailCode" /\ b = call[r].account
        /\ ~Registered(b) /\ Registered(b)' /\ Value("verify", b)' = call[r].draw
Left(r) ==
  /\ pc' = [pc EXCEPT ![r] = pc'[r]] /\ call' = [call EXCEPT ![r] = call'[r]]
  /\ pc'[r] \notin Storing \cup Presenting
  /\ pc'[r] \in Drawing =>
       /\ pc[r] \in Storing /\ call' = call /\ secret' = secret
       /\ pc[r] = IF pc'[r] = "mailCode" THEN "create" ELSE "setOTP"
  /\ pc'[r] = "mailCode" =>
       \A b \in Accounts : b = call[r].account =>
         ~Registered(b) /\ Registered(b)' /\ Value("verify", b)' = call[r].draw
Went(r) ==
  /\ \A s \in Secrets : secret'[s] = secret[s] \/ Told(r, s) \/ Used(r, s)
  /\ \A k \in Kinds, b \in Accounts : Stored(r, k, b)
  /\ \A b \in Accounts : Marked(r, b)
  /\ Left(r)

\* The statements.
LEMMA ProceedEffect ==
  ASSUME Typed, SecretsOK, NEW r \in Requests, Proceed(r)
  PROVE  Went(r)
<1>1. TypeOK /\ Fits(r)
  BY DEF Typed
<1>2. /\ call[r] \in Calls /\ None \notin Secrets /\ None \notin Passwords
      /\ pc[r] = "setToken" => call[r].draw # call[r].secret
  BY <1>1, ValuesAssumption DEF TypeOK, Fits, Calls, SecretsOK, DrawOK, PresentOK,
     Drawing, Storing, Presenting
<1>. USE <1>1, <1>2 DEF TypeOK, Fits, Calls, Columns, Drawing, Storing, Presenting, Kinds,
         Told, Used, Stored, Marked, Left, Value, From, Into, Goto, Return, NoCall,
         row, outside, Blank, Registered, PCs
<1>3. CASE Create(r)
  <2>1. \A s \in Secrets : secret'[s] = secret[s] \/ Told(r, s) \/ Used(r, s)
    BY <1>3 DEF Create, Insert
  <2>2. \A k \in Kinds, b \in Accounts : Stored(r, k, b)
    BY <1>3 DEF Create, Insert
  <2>3. \A b \in Accounts : Marked(r, b)
    BY <1>3 DEF Create, Insert
  <2>4. Left(r)
    BY <1>3 DEF Create, Insert
  <2>. QED
    BY <2>1, <2>2, <2>3, <2>4 DEF Went
<1>4. CASE SendVerificationEmail(r)
  <2>1. \A s \in Secrets : secret'[s] = secret[s] \/ Told(r, s) \/ Used(r, s)
    BY <1>4 DEF SendVerificationEmail
  <2>2. \A k \in Kinds, b \in Accounts : Stored(r, k, b)
    BY <1>4 DEF SendVerificationEmail
  <2>3. \A b \in Accounts : Marked(r, b)
    BY <1>4 DEF SendVerificationEmail
  <2>4. Left(r)
    BY <1>4 DEF SendVerificationEmail
  <2>. QED
    BY <2>1, <2>2, <2>3, <2>4 DEF Went
<1>5. CASE MarkEmailVerified(r)
  <2>1. \A s \in Secrets : secret'[s] = secret[s] \/ Told(r, s) \/ Used(r, s)
    <3>1. \A k \in Kinds, b \in Accounts :
            k = From(pc[r]) /\ b = call[r].account => Value(k, b)' = None
      BY <1>5 DEF MarkEmailVerified
    <3>2. pc[r] \in Presenting
      BY <1>5 DEF MarkEmailVerified
    <3>. QED
      BY <1>5, <3>1, <3>2 DEF MarkEmailVerified
  <2>2. \A k \in Kinds, b \in Accounts : Stored(r, k, b)
    BY <1>5 DEF MarkEmailVerified
  <2>3. \A b \in Accounts : Marked(r, b)
    BY <1>5 DEF MarkEmailVerified
  <2>4. Left(r)
    BY <1>5 DEF MarkEmailVerified
  <2>. QED
    BY <2>1, <2>2, <2>3, <2>4 DEF Went
<1>6. CASE SetResetOTP(r)
  <2>1. \A s \in Secrets : secret'[s] = secret[s] \/ Told(r, s) \/ Used(r, s)
    BY <1>6 DEF SetResetOTP
  <2>2. \A k \in Kinds, b \in Accounts : Stored(r, k, b)
    BY <1>6 DEF SetResetOTP
  <2>3. \A b \in Accounts : Marked(r, b)
    BY <1>6 DEF SetResetOTP
  <2>4. Left(r)
    BY <1>6 DEF SetResetOTP
  <2>. QED
    BY <2>1, <2>2, <2>3, <2>4 DEF Went
<1>7. CASE SendPasswordResetEmail(r)
  <2>1. \A s \in Secrets : secret'[s] = secret[s] \/ Told(r, s) \/ Used(r, s)
    BY <1>7 DEF SendPasswordResetEmail
  <2>2. \A k \in Kinds, b \in Accounts : Stored(r, k, b)
    BY <1>7 DEF SendPasswordResetEmail
  <2>3. \A b \in Accounts : Marked(r, b)
    BY <1>7 DEF SendPasswordResetEmail
  <2>4. Left(r)
    BY <1>7 DEF SendPasswordResetEmail
  <2>. QED
    BY <2>1, <2>2, <2>3, <2>4 DEF Went
<1>8. CASE SetResetToken(r)
  <2>1. \A s \in Secrets : secret'[s] = secret[s] \/ Told(r, s) \/ Used(r, s)
    <3>1. \A k \in Kinds, b \in Accounts :
            k = From(pc[r]) /\ b = call[r].account => Value(k, b)' = None
      BY <1>8 DEF SetResetToken
    <3>2. pc[r] \in Presenting
      BY <1>8 DEF SetResetToken
    <3>3. \A s \in Secrets : secret'[s] =
            IF s = call[r].secret THEN "spent" ELSE IF s = call[r].draw THEN "known"
            ELSE secret[s]
      BY <1>8 DEF SetResetToken
    <3>4. secret'[call[r].draw] = "known" /\ pc[r] = "setToken" /\ pc'[r] = "idle"
      BY <1>8, <3>3 DEF SetResetToken
    <3>5. secret'[call[r].secret] = "spent"
      BY <1>8, <3>3, <3>4
    <3>. QED
      BY <1>8, <3>1, <3>2, <3>3, <3>4, <3>5 DEF SetResetToken
  <2>2. \A k \in Kinds, b \in Accounts : Stored(r, k, b)
    BY <1>8 DEF SetResetToken
  <2>3. \A b \in Accounts : Marked(r, b)
    BY <1>8 DEF SetResetToken
  <2>4. Left(r)
    BY <1>8 DEF SetResetToken
  <2>. QED
    BY <2>1, <2>2, <2>3, <2>4 DEF Went
<1>9. CASE UpdatePassword(r)
  <2>1. \A s \in Secrets : secret'[s] = secret[s] \/ Told(r, s) \/ Used(r, s)
    <3>1. \A k \in Kinds, b \in Accounts :
            k = From(pc[r]) /\ b = call[r].account => Value(k, b)' = None
      BY <1>9 DEF UpdatePassword
    <3>2. pc[r] \in Presenting
      BY <1>9 DEF UpdatePassword
    <3>. QED
      BY <1>9, <3>1, <3>2 DEF UpdatePassword
  <2>2. \A k \in Kinds, b \in Accounts : Stored(r, k, b)
    BY <1>9 DEF UpdatePassword
  <2>3. \A b \in Accounts : Marked(r, b)
    BY <1>9 DEF UpdatePassword
  <2>4. Left(r)
    BY <1>9 DEF UpdatePassword
  <2>. QED
    BY <2>1, <2>2, <2>3, <2>4 DEF Went
<1>10. CASE UpdateFCMToken(r)
  <2>1. \A s \in Secrets : secret'[s] = secret[s] \/ Told(r, s) \/ Used(r, s)
    BY <1>10 DEF UpdateFCMToken
  <2>2. \A k \in Kinds, b \in Accounts : Stored(r, k, b)
    BY <1>10 DEF UpdateFCMToken
  <2>3. \A b \in Accounts : Marked(r, b)
    BY <1>10 DEF UpdateFCMToken
  <2>4. Left(r)
    BY <1>10 DEF UpdateFCMToken
  <2>. QED
    BY <2>1, <2>2, <2>3, <2>4 DEF Went
<1>11. CASE Issue(r)
  <2>1. \A s \in Secrets : secret'[s] = secret[s] \/ Told(r, s) \/ Used(r, s)
    BY <1>11 DEF Issue
  <2>2. \A k \in Kinds, b \in Accounts : Stored(r, k, b)
    BY <1>11 DEF Issue
  <2>3. \A b \in Accounts : Marked(r, b)
    BY <1>11 DEF Issue
  <2>4. Left(r)
    BY <1>11 DEF Issue
  <2>. QED
    BY <2>1, <2>2, <2>3, <2>4 DEF Went
<1>12. CASE Abandon(r)
  <2>1. \A s \in Secrets : secret'[s] = secret[s] \/ Told(r, s) \/ Used(r, s)
    BY <1>12 DEF Abandon
  <2>2. \A k \in Kinds, b \in Accounts : Stored(r, k, b)
    BY <1>12 DEF Abandon
  <2>3. \A b \in Accounts : Marked(r, b)
    BY <1>12 DEF Abandon
  <2>4. Left(r)
    BY <1>12 DEF Abandon
  <2>. QED
    BY <2>1, <2>2, <2>3, <2>4 DEF Went
<1>. QED
  BY <1>3, <1>4, <1>5, <1>6, <1>7, <1>8, <1>9, <1>10, <1>11, <1>12 DEF Proceed

\* A statement moves its own code or token on, which no other call has drawn, and
\* whatever it uses up it removes from the only place where that is stored.
LEMMA ProceedSecrets ==
  ASSUME Typed, SecretsOK, NEW r \in Requests, Proceed(r)
  PROVE  SecretsOK'
<1>1. /\ \A s \in Secrets : secret'[s] = secret[s] \/ Told(r, s) \/ Used(r, s)
      /\ \A k \in Kinds, b \in Accounts : Stored(r, k, b)
      /\ Left(r)
  BY ProceedEffect DEF Went
<1>2. /\ \A k \in Kinds, b \in Accounts : Value(k, b) \in Secrets \cup {None}
      /\ None \notin Secrets
  BY ValueType, ValuesAssumption
<1>3. /\ pc \in [Requests -> PCs] /\ call \in [Requests -> Calls]
      /\ \A q \in Requests : Fits(q)
  BY DEF Typed, TypeOK
<1>4. \A q \in Requests : q # r => pc'[q] = pc[q] /\ call'[q] = call[q]
  BY <1>1, <1>3 DEF Left
<1>5. \A q \in Requests : pc[q] \in Drawing =>
        call[q].draw \in Secrets /\ secret[call[q].draw] = "drawn"
  BY <1>3 DEF SecretsOK, DrawOK, Fits
<1>6. \A q \in Requests : pc[q] \in Presenting /\ call[q].secret # None =>
        call[q].secret \in Secrets /\ secret[call[q].secret] \in {"known", "spent"}
  BY <1>3 DEF SecretsOK, PresentOK, Calls
<1>7. \A s \in Secrets :
        /\ Told(r, s) => secret[s] = "drawn" /\ secret'[s] = "known"
        /\ Used(r, s) => secret[s] \in {"known", "spent"} /\ secret'[s] = "spent"
  BY <1>2, <1>5, <1>6 DEF Told, Used, Drawing, Storing
<1>8. \A k \in Kinds, b \in Accounts : Value(k, b)' # None =>
        \/ Value(k, b)' = Value(k, b)
        \/ /\ pc[r] \in Storing /\ k = Into(pc[r]) /\ b = call[r].account
           /\ Value(k, b)' = call[r].draw
  BY <1>1 DEF Stored
<1>9. StoredOK'
  <2>1. SUFFICES ASSUME NEW k \in Kinds, NEW b \in Accounts, Value(k, b)' # None
                 PROVE  secret'[Value(k, b)'] \in {"drawn", "known"}
    BY DEF StoredOK
  <2>2. CASE Value(k, b)' = Value(k, b)
    <3>1. Value(k, b) \in Secrets /\ secret[Value(k, b)] \in {"drawn", "known"}
      BY <1>2, <2>1, <2>2 DEF SecretsOK, StoredOK
    <3>2. ~Used(r, Value(k, b))
      BY <2>1, <2>2, <3>1, <1>2 DEF Used, SecretsOK, PresentOK
    <3>. QED
      BY <1>1, <1>7, <2>2, <3>1, <3>2
  <2>3. CASE pc[r] \in Storing /\ Value(k, b)' = call[r].draw
    BY <1>1, <1>5, <1>7, <2>3 DEF Drawing
  <2>. QED
    BY <1>8, <2>1, <2>2, <2>3
<1>10. UniqueOK'
  BY <1>8 DEF SecretsOK, UniqueOK, NewOK
<1>11. DrawOK'
  <2>1. SUFFICES ASSUME NEW q \in Requests, pc'[q] \in Drawing
                 PROVE  secret'[call'[q].draw] = "drawn"
    BY DEF DrawOK
  <2>2. CASE q = r
    BY <1>1, <1>5, <2>1, <2>2 DEF Left, Drawing
  <2>3. CASE q # r
    <3>1. pc[q] \in Drawing /\ call'[q] = call[q]
      BY <1>4, <2>1, <2>3
    <3>2. ~Told(r, call[q].draw)
      BY <2>3, <3>1 DEF SecretsOK, ApartOK, Told, Drawing, Storing
    <3>3. ~Used(r, call[q].draw)
      BY <1>5, <1>7, <3>1
    <3>. QED
      BY <1>1, <1>5, <3>1, <3>2, <3>3
  <2>. QED
    BY <2>2, <2>3
<1>12. NewOK'
  <2>1. SUFFICES ASSUME NEW q \in Requests, pc'[q] \in Storing,
                        NEW k \in Kinds, NEW b \in Accounts
                 PROVE  Value(k, b)' # call'[q].draw
    BY DEF NewOK
  <2>2. q # r /\ pc[q] \in Storing /\ call'[q] = call[q]
    BY <1>1, <1>4, <2>1 DEF Left
  <2>3. Value(k, b) # call[q].draw /\ call[q].draw # None
    BY <1>2, <1>5, <2>2 DEF SecretsOK, NewOK, Drawing
  <2>4. pc[r] \in Storing => call[r].draw # call[q].draw
    BY <2>2 DEF SecretsOK, ApartOK, Drawing
  <2>. QED
    BY <1>8, <2>2, <2>3, <2>4
<1>13. ApartOK'
  <2>1. pc'[r] \in Drawing => pc[r] \in Drawing /\ call'[r] = call[r]
    BY <1>1 DEF Left, Drawing
  <2>. QED
    BY <1>4, <2>1 DEF SecretsOK, ApartOK
<1>14. PresentOK'
  <2>1. SUFFICES ASSUME NEW q \in Requests, pc'[q] \in Presenting, call'[q].secret # None
                 PROVE  /\ secret'[call'[q].secret] \in {"known", "spent"}
                        /\ \A k \in Kinds, b \in Accounts :
                             Value(k, b)' = call'[q].secret =>
                               k = From(pc'[q]) /\ b = call'[q].account
    BY DEF PresentOK
  <2>2. pc'[q] = pc[q] /\ call'[q] = call[q]
    BY <1>1, <1>4, <2>1 DEF Left
  <2>3. call[q].secret \in Secrets /\ secret[call[q].secret] \in {"known", "spent"}
    BY <1>6, <2>1, <2>2
  <2>4. secret'[call[q].secret] \in {"known", "spent"}
    BY <1>1, <1>7, <2>3
  <2>5. pc[r] \in Storing => call[r].draw # call[q].secret
    BY <1>5, <2>3 DEF Drawing
  <2>6. \A k \in Kinds, b \in Accounts :
          Value(k, b)' = call[q].secret => Value(k, b) = call[q].secret
    BY <1>2, <1>8, <2>3, <2>5
  <2>. QED
    BY <2>1, <2>2, <2>4, <2>6 DEF SecretsOK, PresentOK
<1>. QED
  BY <1>9, <1>10, <1>11, <1>12, <1>13, <1>14 DEF SecretsOK

\* Steps that are no call's leave codes and tokens alone.
LEMMA OtherSecrets ==
  ASSUME SecretsOK, UNCHANGED <<verifyOTP, resetOTP, resetToken, secret, pc, call>>
  PROVE  SecretsOK'
<1>1. \A k \in Kinds, b \in Accounts : Value(k, b)' = Value(k, b)
  BY SameValues
<1>. QED
  BY <1>1 DEF SecretsOK, StoredOK, UniqueOK, DrawOK, NewOK, ApartOK, PresentOK

\* Every step keeps the invariant.
LEMMA NextSecrets == Typed /\ SecretsOK /\ [Next]_vars => SecretsOK'
<1>. SUFFICES ASSUME Typed, SecretsOK, [Next]_vars PROVE SecretsOK'
  OBVIOUS
<1>1. CASE \E r \in Requests, a \in Accounts : Arrive(r, a)
  BY <1>1, ArriveSecrets
<1>2. CASE \E r \in Requests : Proceed(r)
  BY <1>2, ProceedSecrets
<1>3. CASE (\E a \in Accounts : Refresh(a)) \/ Tick \/ UNCHANGED vars
  BY <1>3, OtherSecrets DEF Refresh, Tick, vars, row, outside
<1>. QED
  BY <1>1, <1>2, <1>3, NextCases

\* A code or token that has served its purpose is stored nowhere.
THEOREM SecretsSafety == Spec => []SpentSecretsGone
<1>1. Typed /\ SecretsOK => SpentSecretsGone
  <2>1. SUFFICES ASSUME SecretsOK, NEW a \in Accounts,
                        NEW column \in {verifyOTP[a], resetOTP[a], resetToken[a]},
                        column.value # None
                 PROVE  secret[column.value] # "spent"
    BY DEF SpentSecretsGone
  <2>2. \E k \in Kinds : Value(k, a) = column.value
    BY DEF Kinds, Value
  <2>. QED
    BY <2>1, <2>2 DEF SecretsOK, StoredOK
<1>. QED
  BY InitTyped, InitSecrets, NextTyped, NextSecrets, <1>1, PTL DEF Spec

-----------------------------------------------------------------------------
\* The verification code.

\* Nothing happens to an account that does not exist.
UnregisteredOK ==
  \A a \in Accounts : ~Registered(a) => mailed[a] = None /\ ~verified[a]

\* The code about to be mailed is the one stored, and the first to be mailed.
MailingOK ==
  \A r \in Requests : pc[r] = "mailCode" =>
    \A a \in Accounts : a = call[r].account =>
      /\ Registered(a) /\ ~verified[a] /\ mailed[a] = None
      /\ Value("verify", a) = call[r].draw

\* A verification code is known by its mail only, not by that of a reset code.
KnownOK ==
  \A a \in Accounts :
    Value("verify", a) # None /\ secret[Value("verify", a)] = "known" =>
      mailed[a] = Value("verify", a)
ResettingOK ==
  \A r \in Requests : pc[r] = "mailReset" =>
    \A a \in Accounts : Value("verify", a) # call[r].draw

\* So it is the code in the mail that a call verifies with.
VerifyingOK ==
  \A r \in Requests : pc[r] = "markVerified" => call[r].secret = mailed[call[r].account]

MailOK ==
  /\ UnregisteredOK /\ MailingOK /\ KnownOK /\ ResettingOK /\ VerifyingOK
  /\ MailedCodeVerifies /\ VerifiedByMail

\* The initial state.
LEMMA InitMail == Init => MailOK
BY DEF Init, MailOK, UnregisteredOK, MailingOK, KnownOK, ResettingOK, VerifyingOK,
       MailedCodeVerifies, VerifiedByMail, Registered, Value, Blank

\* A call to verify begins with a code that is stored and known.
LEMMA ArriveMail ==
  ASSUME Typed, SecretsOK, MailOK, NEW r \in Requests, NEW a \in Accounts, Arrive(r, a)
  PROVE  MailOK'
<1>1. /\ UNCHANGED <<row, session, mailed, now>>
      /\ UNCHANGED <<pc, call, secret>> \/ Begun(r, a)
  BY ArriveEffect
<1>2. /\ \A k \in Kinds, b \in Accounts : Value(k, b)' = Value(k, b)
      /\ \A b \in Accounts : Value("verify", b)' = Value("verify", b)
      /\ \A b \in Accounts : verifyOTP[b].value = Value("verify", b)
      /\ \A b \in Accounts : Registered(b)' = Registered(b)
      /\ UNCHANGED <<verified, verifyOTP, mailed>>
  BY <1>1, SameValues DEF row, Kinds, Value, Registered
<1>3. CASE UNCHANGED <<pc, call, secret>>
  BY <1>2, <1>3 DEF MailOK, UnregisteredOK, MailingOK, KnownOK, ResettingOK, VerifyingOK,
     MailedCodeVerifies, VerifiedByMail
<1>4. CASE Begun(r, a)
  <2>1. /\ pc'[r] \notin {"mailCode", "mailReset"} /\ call'[r].account = a
        /\ \A q \in Requests : q # r => pc'[q] = pc[q] /\ call'[q] = call[q]
        /\ \A s \in Secrets : secret'[s] # secret[s] => secret'[s] = "drawn" /\ secret[s] = "unused"
    BY <1>4 DEF Begun, Drawing, Storing, Typed, TypeOK
  <2>2. /\ \A b \in Accounts : Value("verify", b) \in Secrets \cup {None}
        /\ \A b \in Accounts : mailed[b] \in Secrets \cup {None}
        /\ None \notin Secrets
    BY ValueType, ValuesAssumption DEF Kinds, Typed, TypeOK
  <2>3. UnregisteredOK' /\ MailedCodeVerifies'
    BY <1>2 DEF MailOK, UnregisteredOK, MailedCodeVerifies
  <2>4. MailingOK' /\ ResettingOK'
    BY <1>2, <2>1 DEF MailOK, MailingOK, ResettingOK
  <2>5. KnownOK'
    BY <1>2, <2>1, <2>2 DEF MailOK, KnownOK
  <2>6. VerifiedByMail'
    BY <1>2, <2>1, <2>2 DEF MailOK, VerifiedByMail
  <2>7. VerifyingOK'
    <3>1. ASSUME pc'[r] = "markVerified" PROVE call'[r].secret = mailed[a]
      <4>1. /\ call'[r].secret \in Secrets /\ call'[r].secret \in Known
            /\ Value("verify", a) = call'[r].secret
        BY <1>4, <2>2, <3>1 DEF Begun, From
      <4>. QED
        BY <4>1, <2>2 DEF Known, MailOK, KnownOK, SecretsOK, StoredOK, Kinds
    <3>. QED
      BY <1>2, <2>1, <3>1 DEF MailOK, VerifyingOK
  <2>. QED
    BY <2>3, <2>4, <2>5, <2>6, <2>7 DEF MailOK
<1>. QED
  BY <1>1, <1>3, <1>4

\* Only one registration of an address creates the account, and mails one code.
LEMMA ProceedMail ==
  ASSUME Typed, SecretsOK, MailOK, NEW r \in Requests, Proceed(r)
  PROVE  MailOK'
<1>1. /\ \A s \in Secrets : secret'[s] = secret[s] \/ Told(r, s) \/ Used(r, s)
      /\ \A b \in Accounts : Marked(r, b)
      /\ Left(r)
  BY ProceedEffect DEF Went
<1>2. /\ \A b \in Accounts : Value("verify", b) \in Secrets \cup {None}
      /\ \A b \in Accounts : mailed[b] \in Secrets \cup {None}
      /\ \A b \in Accounts : verifyOTP[b].value = Value("verify", b)
      /\ \A b \in Accounts : verifyOTP'[b].value = Value("verify", b)'
      /\ None \notin Secrets
  BY ValueType, ValuesAssumption DEF Kinds, Typed, TypeOK, Value
<1>3. /\ pc \in [Requests -> PCs] /\ call \in [Requests -> Calls]
      /\ verified \in [Accounts -> BOOLEAN]
      /\ \A q \in Requests : Fits(q)
  BY DEF Typed, TypeOK
<1>4. \A q \in Requests : q # r => pc'[q] = pc[q] /\ call'[q] = call[q]
  BY <1>1, <1>3 DEF Left
<1>5. \A q \in Requests : pc[q] \in Drawing =>
        /\ call[q].draw \in Secrets /\ secret[call[q].draw] = "drawn"
        /\ call[q].account \in Accounts
  BY <1>3 DEF SecretsOK, DrawOK, Fits, Drawing, Storing
<1>6. pc[r] = "markVerified" =>
        /\ call[r].secret \in Secrets /\ call[r].account \in Accounts
        /\ mailed[call[r].account] = call[r].secret
        /\ secret[call[r].secret] \in {"known", "spent"}
  BY <1>2, <1>3 DEF Fits, MailOK, VerifyingOK, SecretsOK, PresentOK, Presenting
<1>7. \A s \in Secrets :
        /\ secret[s] = "spent" => secret'[s] = "spent"
        /\ secret[s] # "drawn" => secret'[s] # "drawn"
  BY <1>1, <1>5 DEF Told, Used, Drawing, Storing
\* The statements that touch a verification code.
<1>8. \A b \in Accounts :
        \/ mailed'[b] = mailed[b]
        \/ /\ pc[r] = "mailCode" /\ b = call[r].account /\ Registered(b)
           /\ mailed'[b] = call[r].draw /\ Value("verify", b) = call[r].draw
           /\ Value("verify", b)' = call[r].draw
           /\ mailed[b] = None /\ ~verified[b] /\ ~verified'[b]
  BY <1>1 DEF Marked, MailOK, MailingOK
<1>9. UnregisteredOK'
  BY <1>1, <1>2, <1>3, <1>6, <1>8 DEF Marked, MailOK, UnregisteredOK
<1>10. MailingOK'
  <2>1. SUFFICES ASSUME NEW q \in Requests, pc'[q] = "mailCode",
                        NEW b \in Accounts, b = call'[q].account
                 PROVE  /\ Registered(b)' /\ ~verified'[b] /\ mailed'[b] = None
                        /\ Value("verify", b)' = call'[q].draw
    BY DEF MailingOK
  <2>2. CASE q = r
    BY <1>1, <1>8, <2>1, <2>2 DEF Left, Marked, Drawing, MailOK, UnregisteredOK
  <2>3. CASE q # r
    <3>1. pc[q] = "mailCode" /\ call'[q] = call[q]
      BY <1>4, <2>1, <2>3
    <3>2. /\ Registered(b) /\ ~verified[b] /\ mailed[b] = None
          /\ Value("verify", b) = call[q].draw
      BY <2>1, <3>1 DEF MailOK, MailingOK
    <3>3. ~(pc[r] = "markVerified" /\ b = call[r].account)
      BY <1>2, <1>6, <3>2
    <3>4. ~(pc[r] = "mailCode" /\ b = call[r].account)
      BY <2>3, <3>1, <3>2 DEF MailOK, MailingOK, SecretsOK, ApartOK, Drawing
    <3>. QED
      BY <1>1, <2>1, <3>1, <3>2, <3>3, <3>4 DEF Marked
  <2>. QED
    BY <2>2, <2>3
<1>11. KnownOK'
  <2>1. SUFFICES ASSUME NEW b \in Accounts, Value("verify", b)' # None,
                        secret'[Value("verify", b)'] = "known"
                 PROVE  mailed'[b] = Value("verify", b)'
    BY DEF KnownOK
  <2>2. CASE Value("verify", b)' = Value("verify", b)
    <3> DEFINE s == Value("verify", b)
    <3>1. s \in Secrets /\ secret'[s] = "known"
      BY <1>2, <2>1, <2>2
    <3>2. CASE secret'[s] = secret[s]
      BY <1>8, <2>1, <2>2, <3>1, <3>2 DEF MailOK, KnownOK
    <3>3. CASE Told(r, s)
      <4>1. pc[r] = "mailCode"
        <5>1. pc[r] \in {"mailCode", "mailReset", "setToken"} /\ Value("verify", b) = call[r].draw
          BY <3>3 DEF Told
        <5>2. pc[r] # "mailReset"
          BY <2>1, <5>1 DEF MailOK, ResettingOK
        <5>3. pc[r] # "setToken"
          BY <2>1, <5>1 DEF SecretsOK, NewOK, Storing, Kinds
        <5>. QED
          BY <5>1, <5>2, <5>3
      <4>2. call[r].account = b
        <5>1. call[r].account \in Accounts /\ call[r].draw = s
          BY <1>5, <3>3, <4>1 DEF Told, Drawing
        <5>2. Value("verify", call[r].account) = s
          BY <4>1, <5>1 DEF MailOK, MailingOK
        <5>. QED
          BY <1>2, <2>1, <3>1, <5>1, <5>2 DEF SecretsOK, UniqueOK, Kinds
      <4>. QED
        BY <2>2, <3>3, <4>1, <4>2 DEF Told
    <3>4. CASE Used(r, s)
      BY <3>1, <3>4 DEF Used
    <3>. QED
      BY <1>1, <3>1, <3>2, <3>3, <3>4
  <2>3. CASE pc[r] = "create" /\ pc'[r] = "mailCode" /\ Value("verify", b)' = call[r].draw
    BY <1>1, <1>5, <2>1, <2>3 DEF Left, Drawing, Storing
  <2>4. CASE pc[r] = "markVerified" /\ b = call[r].account
    <3>1. Value("verify", b)' = Value("verify", b) \/ Value("verify", b)' = None
      BY <2>4, ProceedEffect DEF Went, Stored, Kinds, Storing
    <3>. QED
      BY <2>1, <2>2, <3>1
  <2>. QED
    BY <1>1, <2>2, <2>3, <2>4 DEF Marked
<1>12. ResettingOK'
  <2>1. SUFFICES ASSUME NEW q \in Requests, pc'[q] = "mailReset", NEW b \in Accounts
                 PROVE  Value("verify", b)' # call'[q].draw
    BY DEF ResettingOK
  <2>2. /\ call'[q] = call[q] /\ pc[q] \in {"setOTP", "mailReset"}
        /\ call[q].draw # None
    BY <1>1, <1>2, <1>4, <1>5, <2>1 DEF Left, Drawing, Storing
  <2>3. Value("verify", b) # call[q].draw
    BY <2>2 DEF MailOK, ResettingOK, SecretsOK, NewOK, Storing, Kinds
  <2>4. pc[r] = "create" => call[r].draw # call[q].draw
    BY <2>2 DEF SecretsOK, ApartOK, Drawing, Storing
  <2>5. \/ Value("verify", b)' \in {Value("verify", b), None}
        \/ pc[r] = "create" /\ Value("verify", b)' = call[r].draw
    BY ProceedEffect DEF Went, Stored, Kinds, Into, Storing
  <2>. QED
    BY <1>1, <2>1, <2>2, <2>3, <2>4, <2>5 DEF Left
<1>13. VerifyingOK'
  <2>1. SUFFICES ASSUME NEW q \in Requests, pc'[q] = "markVerified"
                 PROVE  call'[q].secret = mailed'[call'[q].account]
    BY DEF VerifyingOK
  <2>2. pc[q] = "markVerified" /\ call'[q] = call[q]
    BY <1>1, <1>4, <2>1 DEF Left, Presenting
  <2>3. /\ call[q].account \in Accounts /\ call[q].secret \in Secrets
        /\ call[q].secret = mailed[call[q].account]
    BY <1>3, <2>2 DEF Fits, MailOK, VerifyingOK
  <2>4. mailed'[call[q].account] = mailed[call[q].account]
    BY <1>2, <1>8, <2>3
  <2>. QED
    BY <2>2, <2>3, <2>4
<1>14. MailedCodeVerifies'
  <2>1. SUFFICES ASSUME NEW b \in Accounts, mailed'[b] # None, ~verified'[b]
                 PROVE  Value("verify", b)' = mailed'[b]
    BY <1>2 DEF MailedCodeVerifies
  <2>2. CASE mailed'[b] = mailed[b]
    <3>1. ~verified[b] /\ Registered(b) /\ Value("verify", b) = mailed[b]
      BY <1>1, <1>2, <2>1, <2>2 DEF Marked, MailOK, MailedCodeVerifies, UnregisteredOK
    <3>. QED
      BY <1>1, <2>1, <2>2, <3>1 DEF Marked
  <2>. QED
    BY <1>8, <2>1, <2>2
<1>15. VerifiedByMail'
  <2>1. SUFFICES ASSUME NEW b \in Accounts, verified'[b]
                 PROVE  mailed'[b] # None /\ secret'[mailed'[b]] = "spent"
    BY DEF VerifiedByMail
  <2>2. CASE verified[b]
    BY <1>2, <1>7, <1>8, <2>2 DEF MailOK, VerifiedByMail
  <2>3. CASE ~verified[b]
    BY <1>1, <1>2, <1>3, <1>6, <1>8, <2>1, <2>3 DEF Marked
  <2>. QED
    BY <2>2, <2>3
<1>. QED
  BY <1>9, <1>10, <1>11, <1>12, <1>13, <1>14, <1>15 DEF MailOK

\* Every step keeps the invariant.
LEMMA NextMail == Typed /\ SecretsOK /\ MailOK /\ [Next]_vars => MailOK'
<1>. SUFFICES ASSUME Typed, SecretsOK, MailOK, [Next]_vars PROVE MailOK'
  OBVIOUS
<1>1. CASE \E r \in Requests, a \in Accounts : Arrive(r, a)
  BY <1>1, ArriveMail
<1>2. CASE \E r \in Requests : Proceed(r)
  BY <1>2, ProceedMail
<1>3. CASE (\E a \in Accounts : Refresh(a)) \/ Tick \/ UNCHANGED vars
  <2>1. UNCHANGED <<password, verified, verifyOTP, secret, mailed, pc, call>>
    BY <1>3 DEF Refresh, Tick, vars, row, outside
  <2>. QED
    BY <2>1 DEF MailOK, UnregisteredOK, MailingOK, KnownOK, ResettingOK, VerifyingOK,
       MailedCodeVerifies, VerifiedByMail, Registered, Value
<1>. QED
  BY <1>1, <1>2, <1>3, NextCases

\* The whole invariant.
Inv == Typed /\ SecretsOK /\ MailOK

LEMMA Invariance == Spec => []Inv
<1>1. Init => Inv
  BY InitTyped, InitSecrets, InitMail DEF Inv
<1>2. Inv /\ [Next]_vars => Inv'
  BY NextTyped, NextSecrets, NextMail DEF Inv
<1>. QED
  BY <1>1, <1>2, PTL DEF Spec

\* The verification code in an account's mail is the one stored for it until the
\* account is verified.
THEOREM MailedCode == Spec => []MailedCodeVerifies
<1>1. Inv => MailedCodeVerifies
  BY DEF Inv, MailOK
<1>. QED
  BY Invariance, <1>1, PTL

\* An account is verified only with the code that was mailed to verify it.
THEOREM VerifiedSafety == Spec => []VerifiedByMail
<1>1. Inv => VerifiedByMail
  BY DEF Inv, MailOK
<1>. QED
  BY Invariance, <1>1, PTL

\* No step helps a stranded account: a call to verify would begin with a code that
\* has been mailed and has not expired, and the address stays taken.
LEMMA StrandedStep ==
  ASSUME Inv, Inv', [Next]_vars, NEW a \in Accounts, Stranded(a)
  PROVE  Stranded(a)'
<1>. DEFINE Coming(r) == call[r].account = a /\ pc[r] \in {"mailCode", "markVerified"}
<1>1. /\ Registered(a) /\ ~verified[a]
      /\ mailed[a] = None \/ now > verifyOTP[a].until
      /\ \A r \in Requests : ~Coming(r)
  BY DEF Stranded
<1>2. /\ pc \in [Requests -> PCs] /\ call \in [Requests -> Calls]
      /\ now \in Nat /\ verifyOTP[a].until \in Nat
  BY DEF Inv, Typed, TypeOK, Columns
<1>3. SUFFICES /\ Registered(a)' /\ ~verified'[a]
               /\ mailed'[a] = None \/ now' > verifyOTP'[a].until
               /\ \A r \in Requests : ~Coming(r)'
  BY DEF Stranded
<1>4. CASE \E r \in Requests, b \in Accounts : Arrive(r, b)
  <2>1. PICK r \in Requests, b \in Accounts : Arrive(r, b)
    BY <1>4
  <2>2. /\ UNCHANGED <<password, verified, verifyOTP, mailed, now>>
        /\ UNCHANGED <<pc, call, secret>> \/ Begun(r, b)
    BY <2>1, ArriveEffect DEF Inv, row
  <2>3. Begun(r, b) => ~Coming(r)'
    <3>1. SUFFICES ASSUME Begun(r, b), pc'[r] = "markVerified", b = a PROVE FALSE
      BY DEF Begun, Drawing, Storing
    <3>2. call'[r].secret = mailed'[call'[r].account] /\ call'[r].secret \in Secrets
      BY <3>1 DEF Inv, MailOK, VerifyingOK, Begun
    <3>3. mailed[a] # None
      BY <2>2, <3>1, <3>2, ValuesAssumption DEF Begun
    <3>. QED
      BY <1>1, <1>2, <3>1, <3>3 DEF Begun
  <2>4. \A q \in Requests : ~Coming(q)'
    <3>1. CASE UNCHANGED <<pc, call, secret>>
      BY <1>1, <3>1
    <3>2. CASE Begun(r, b)
      <4>1. \A q \in Requests : q # r => pc'[q] = pc[q] /\ call'[q] = call[q]
        BY <1>2, <3>2 DEF Begun
      <4>. QED
        BY <1>1, <2>3, <3>2, <4>1
    <3>. QED
      BY <2>2, <3>1, <3>2
  <2>. QED
    BY <1>1, <2>2, <2>4 DEF Registered
<1>5. CASE \E r \in Requests : Proceed(r)
  <2>1. PICK r \in Requests : Proceed(r)
    BY <1>5
  <2>2. Marked(r, a) /\ Left(r)
    BY <2>1, ProceedEffect DEF Went, Inv
  <2>3. UNCHANGED now
    BY <2>1 DEF Proceed, Create, Insert, SendVerificationEmail, MarkEmailVerified,
       SetResetOTP, SendPasswordResetEmail, SetResetToken, UpdatePassword,
       UpdateFCMToken, Issue, Abandon
  <2>4. /\ Registered(a)' /\ verified'[a] = verified[a] /\ mailed'[a] = mailed[a]
        /\ verifyOTP'[a] = verifyOTP[a]
    BY <1>1, <2>2 DEF Marked
  <2>5. \A q \in Requests : ~Coming(q)'
    <3>1. \A q \in Requests : q # r => pc'[q] = pc[q] /\ call'[q] = call[q]
      BY <1>2, <2>2 DEF Left
    <3>2. ~Coming(r)'
      BY <1>1, <2>2 DEF Left, Presenting, Drawing
    <3>. QED
      BY <1>1, <3>1, <3>2
  <2>. QED
    BY <1>1, <2>3, <2>4, <2>5
<1>6. CASE (\E b \in Accounts : Refresh(b)) \/ UNCHANGED vars
  BY <1>1, <1>6 DEF Refresh, vars, row, Registered
<1>7. CASE Tick
  BY <1>1, <1>2, <1>7 DEF Tick, row, outside, Registered
<1>. QED
  BY <1>4, <1>5, <1>6, <1>7, NextCases

\* A stranded account stays so for good.
THEOREM StrandedSafety == Spec => StrandedForever
<1>1. Inv /\ Inv' /\ [Next]_vars => [\A a \in Accounts : Stranded(a) => Stranded(a)']_vars
  BY StrandedStep
<1>. QED
  BY Invariance, <1>1, PTL DEF Spec, StrandedForever
-----------------------------------------------------------------------------
\* The abstract specification.

\* What a call has to show that leads to a sign-in, a mail or a new password: an
\* account that is verified or being registered, one that exists, or a session.
Merit(r) ==
  /\ pc[r] = "saveDevice" => call[r].draw = None
  /\ pc[r] \in {"saveDevice", "issue"} /\ call[r].draw = None => verified[call[r].account]
  /\ pc[r] \in {"setOTP", "mailReset"} => Registered(call[r].account)
  /\ pc[r] = "setPassword" /\ call[r].secret = None =>
       session[call[r].account].access > 0

\* No token of a sign-in lives longer than one that is given now.
SessionOK ==
  \A a \in Accounts :
    session[a].access <= now + AccessTTL /\ session[a].refresh <= now + RefreshTTL

\* The code about to be mailed for a reset is stored, if it still is, as that code.
AddressedOK ==
  \A r \in Requests : pc[r] = "mailReset" =>
    \A k \in Kinds, a \in Accounts :
      Value(k, a) = call[r].draw => k = "reset" /\ a = call[r].account

AuthorityOK == (\A r \in Requests : Merit(r)) /\ SessionOK /\ AddressedOK

LEMMA InitAuthority == Init => AuthorityOK
BY TimeAssumption DEF Init, AuthorityOK, Merit, SessionOK, AddressedOK

\* A call that begins shows what it has to.
LEMMA ArriveMerit ==
  ASSUME Typed, NEW r \in Requests, NEW a \in Accounts, Arrive(r, a), Merit(r)
  PROVE  Merit(r)'
<1>0. /\ pc \in [Requests -> PCs] /\ call \in [Requests -> Calls]
      /\ session \in [Accounts -> [access : Nat, refresh : Nat]] /\ now \in Nat
      /\ None \notin Secrets
  BY ValuesAssumption DEF Typed, TypeOK
<1>1. UNCHANGED <<password, verified, session>>
  BY ArriveEffect DEF row
<1>. USE <1>0, <1>1 DEF Merit, Start, Goto, NoCall, Registered
<1>2. CASE Register(r, a)
  BY <1>2 DEF Register
<1>3. CASE VerifyEmail(r, a)
  BY <1>3 DEF VerifyEmail
<1>4. CASE ForgotPassword(r, a)
  <2>1. \/ UNCHANGED <<pc, call>>
        \/ /\ Registered(a)
           /\ \E s \in Secrets :
                Start(r, [NoCall EXCEPT !.account = a, !.draw = s,
                                        !.until = now + CodeTTL], "setOTP")
    BY <1>4, Zenon DEF ForgotPassword, vars
  <2>2. CASE UNCHANGED <<pc, call>>
    BY <2>2
  <2>3. ASSUME NEW s \in Secrets, Registered(a),
               Start(r, [NoCall EXCEPT !.account = a, !.draw = s,
                                       !.until = now + CodeTTL], "setOTP")
        PROVE  Merit(r)'
    BY <2>3
  <2>. QED
    BY <2>1, <2>2, <2>3
<1>5. CASE VerifyForgotPasswordOTP(r, a)
  BY <1>5 DEF VerifyForgotPasswordOTP
<1>6. CASE ResetPassword(r, a)
  BY <1>6 DEF ResetPassword, Known
<1>7. CASE ChangePassword(r, a)
  BY <1>7 DEF ChangePassword, Authenticated
<1>8. CASE Login(r, a)
  BY <1>8 DEF Login
<1>. QED
  BY <1>2, <1>3, <1>4, <1>5, <1>6, <1>7, <1>8 DEF Arrive

\* A statement leaves its call with what it needs for the next one.
LEMMA ProceedMerit ==
  ASSUME Typed, SecretsOK, NEW r \in Requests, Proceed(r), Merit(r)
  PROVE  Merit(r)'
<1>0. /\ pc \in [Requests -> PCs] /\ call \in [Requests -> Calls]
      /\ call[r].draw \in Secrets \/ pc[r] \notin Drawing
      /\ None \notin Secrets
  BY ValuesAssumption DEF Typed, TypeOK, Fits
<1>1. pc'[r] \notin {"setOTP", "setPassword"}
  BY ProceedEffect DEF Went, Left, Storing, Presenting
<1>. USE <1>0, <1>1 DEF Merit, Goto, Return, Drawing, Storing, row, outside, Registered
<1>2. CASE Create(r)
  BY <1>2 DEF Create, Insert
<1>3. CASE SendVerificationEmail(r)
  BY <1>3 DEF SendVerificationEmail
<1>4. CASE SetResetOTP(r)
  BY <1>4 DEF SetResetOTP
<1>5. CASE UpdateFCMToken(r)
  BY <1>5 DEF UpdateFCMToken
<1>6. CASE \/ MarkEmailVerified(r) \/ SendPasswordResetEmail(r) \/ SetResetToken(r)
           \/ UpdatePassword(r) \/ Issue(r) \/ Abandon(r)
  BY <1>6 DEF MarkEmailVerified, SendPasswordResetEmail, SetResetToken, UpdatePassword,
     Issue, Abandon
<1>. QED
  BY <1>2, <1>3, <1>4, <1>5, <1>6 DEF Proceed

\* Sessions only get longer.
LEMMA Sessions ==
  ASSUME Typed, SessionOK, [Next]_vars
  PROVE  /\ SessionOK'
         /\ \A a \in Accounts : /\ session'[a].access >= session[a].access
                                /\ session'[a].refresh >= session[a].refresh
<1>0. /\ session \in [Accounts -> [access : Nat, refresh : Nat]] /\ now \in Nat
      /\ AccessTTL \in Nat /\ RefreshTTL \in Nat
  BY TimeAssumption DEF Typed, TypeOK
<1>1. ASSUME NEW a \in Accounts, session' = [session EXCEPT ![a] = Pair], UNCHANGED now
      PROVE  /\ SessionOK'
             /\ \A b \in Accounts : /\ session'[b].access >= session[b].access
                                    /\ session'[b].refresh >= session[b].refresh
  BY <1>0, <1>1 DEF SessionOK, Pair
<1>2. CASE \E r \in Requests : Issue(r)
  <2>1. PICK r \in Requests : Issue(r)
    BY <1>2
  <2>2. call[r].account \in Accounts
    BY <2>1 DEF Issue, Typed, Fits
  <2>. QED
    BY <1>1, <2>1, <2>2 DEF Issue
<1>3. CASE \E a \in Accounts : Refresh(a)
  BY <1>1, <1>3 DEF Refresh
<1>4. CASE Tick
  BY <1>0, <1>4 DEF Tick, outside, SessionOK
<1>5. CASE UNCHANGED <<session, now>>
  BY <1>0, <1>5 DEF SessionOK
<1>6. ASSUME NEW r \in Requests, Proceed(r), ~Issue(r)
      PROVE  UNCHANGED <<session, now>>
  BY <1>6 DEF Proceed, Create, Insert, SendVerificationEmail, MarkEmailVerified, SetResetOTP,
     SendPasswordResetEmail, SetResetToken, UpdatePassword, UpdateFCMToken, Abandon, outside
<1>7. ASSUME NEW r \in Requests, NEW a \in Accounts, Arrive(r, a)
      PROVE  UNCHANGED <<session, now>>
  BY <1>7, ArriveEffect
<1>. QED
  BY <1>2, <1>3, <1>4, <1>5, <1>6, <1>7, NextCases DEF vars

\* A statement stores and mails its own code only.
LEMMA ProceedAddressed ==
  ASSUME Typed, SecretsOK, AddressedOK, NEW r \in Requests, Proceed(r)
  PROVE  AddressedOK'
<1>0. /\ pc \in [Requests -> PCs] /\ call \in [Requests -> Calls] /\ None \notin Secrets
      /\ \A q \in Requests : pc[q] \in Drawing => call[q].draw \in Secrets
      /\ "mailReset" \in Drawing /\ "setOTP" \in Drawing
      /\ "mailReset" \notin Storing /\ "setOTP" \in Storing
  BY ValuesAssumption DEF Typed, TypeOK, Fits, Drawing, Storing
<1>1. Went(r)
  BY ProceedEffect
<1>. SUFFICES ASSUME NEW q \in Requests, pc'[q] = "mailReset",
                     NEW k \in Kinds, NEW a \in Accounts, Value(k, a)' = call'[q].draw
              PROVE  k = "reset" /\ a = call'[q].account
  BY DEF AddressedOK
<1>2. CASE q = r
  <2>1. pc[r] = "setOTP" /\ call' = call
    BY <1>0, <1>1, <1>2 DEF Went, Left
  <2>2. Value(k, a) # call[r].draw /\ call[r].draw \in Secrets
    BY <1>0, <2>1 DEF SecretsOK, NewOK
  <2>3. k = Into(pc[r]) /\ a = call[r].account
    BY <1>0, <1>1, <1>2, <2>1, <2>2 DEF Went, Stored
  <2>. QED
    BY <1>2, <2>1, <2>3 DEF Into
<1>3. CASE q # r
  <2>1. pc[q] = "mailReset" /\ call'[q] = call[q]
    BY <1>0, <1>1, <1>3 DEF Went, Left
  <2>2. ~(pc[r] \in Storing /\ Value(k, a)' = call[r].draw)
    <3>1. SUFFICES ASSUME pc[r] \in Storing PROVE call[r].draw # call[q].draw
      BY <2>1
    <3>2. pc[r] \in Drawing /\ pc[q] \in Drawing
      BY <1>0, <2>1, <3>1 DEF Drawing
    <3>. QED
      BY <1>3, <3>2 DEF SecretsOK, ApartOK
  <2>3. Value(k, a)' \in {Value(k, a), None}
    BY <1>1, <2>2 DEF Went, Stored
  <2>4. Value(k, a) = call[q].draw
    BY <1>0, <2>1, <2>3
  <2>. QED
    BY <2>1, <2>4 DEF AddressedOK
<1>. QED
  BY <1>2, <1>3

\* What the account of a call has, it keeps.
LEMMA OtherMerit ==
  ASSUME Typed, SessionOK, [Next]_vars, NEW q \in Requests, Merit(q),
         pc'[q] = pc[q], call'[q] = call[q],
         \A a \in Accounts : /\ Registered(a) => Registered(a)'
                             /\ verified[a] => verified'[a]
  PROVE  Merit(q)'
<1>1. pc[q] # "idle" => call[q].account \in Accounts
  BY DEF Typed, Fits
<1>2. \A a \in Accounts : session[a].access > 0 => session'[a].access > 0
  <2>1. SUFFICES ASSUME NEW a \in Accounts, session[a].access > 0
                 PROVE  session'[a].access > 0
    OBVIOUS
  <2>2. session[a].access \in Nat /\ session'[a].access \in Nat
    BY NextTyped DEF Typed, TypeOK
  <2>. QED
    BY <2>1, <2>2, Sessions
<1>. QED
  BY <1>1, <1>2 DEF Merit

LEMMA NextAuthority == Inv /\ AuthorityOK /\ [Next]_vars => AuthorityOK'
<1>. SUFFICES ASSUME Inv, AuthorityOK, [Next]_vars PROVE AuthorityOK'
  OBVIOUS
<1>0. /\ Typed /\ SecretsOK /\ SessionOK /\ AddressedOK
      /\ \A r \in Requests : Merit(r)
      /\ pc \in [Requests -> PCs] /\ call \in [Requests -> Calls]
  BY DEF Inv, AuthorityOK, Typed, TypeOK
<1>1. ASSUME NEW r \in Requests, NEW a \in Accounts, Arrive(r, a)
      PROVE  AuthorityOK'
  <2>1. /\ UNCHANGED <<password, verified, verifyOTP, resetOTP, resetToken>>
        /\ UNCHANGED <<pc, call, secret>> \/ Begun(r, a)
    BY <1>0, <1>1, ArriveEffect DEF row
  <2>2. \A q \in Requests : q # r => pc'[q] = pc[q] /\ call'[q] = call[q]
    BY <1>0, <2>1 DEF Begun
  <2>3. \A b \in Accounts : (Registered(b) => Registered(b)') /\ (verified[b] => verified'[b])
    BY <2>1 DEF Registered
  <2>4. \A q \in Requests : Merit(q)'
    BY <1>0, <1>1, <2>2, <2>3, OtherMerit, ArriveMerit
  <2>5. \A q \in Requests : pc'[q] = "mailReset" => pc[q] = "mailReset" /\ call'[q] = call[q]
    BY <2>1, <2>2 DEF Begun, Drawing, Storing
  <2>6. AddressedOK'
    BY <1>0, <2>1, <2>5, SameValues DEF AddressedOK
  <2>. QED
    BY <1>0, <2>4, <2>6, Sessions DEF AuthorityOK
<1>2. ASSUME NEW r \in Requests, Proceed(r)
      PROVE  AuthorityOK'
  <2>1. Went(r)
    BY <1>0, <1>2, ProceedEffect
  <2>2. \A q \in Requests : q # r => pc'[q] = pc[q] /\ call'[q] = call[q]
    BY <1>0, <2>1 DEF Went, Left
  <2>3. \A b \in Accounts : (Registered(b) => Registered(b)') /\ (verified[b] => verified'[b])
    BY <2>1 DEF Went, Marked
  <2>4. \A q \in Requests : Merit(q)'
    BY <1>0, <1>2, <2>2, <2>3, OtherMerit, ProceedMerit
  <2>. QED
    BY <1>0, <1>2, <2>4, ProceedAddressed, Sessions DEF AuthorityOK
<1>3. CASE (\E a \in Accounts : Refresh(a)) \/ Tick \/ UNCHANGED vars
  <2>1. UNCHANGED <<password, verified, verifyOTP, resetOTP, resetToken, pc, call>>
    BY <1>3 DEF Refresh, Tick, vars, row, outside
  <2>2. \A q \in Requests : Merit(q)'
    BY <1>0, <2>1, OtherMerit DEF Registered
  <2>3. AddressedOK'
    BY <1>0, <2>1, SameValues DEF AddressedOK
  <2>. QED
    BY <1>0, <2>2, <2>3, Sessions DEF AuthorityOK
<1>. QED
  BY <1>1, <1>2, <1>3, NextCases

\* Reset codes, or reset tokens, that may still be used for an account: what is stored
\* and what has been presented.
Shown(k) == IF k = "reset" THEN "setToken" ELSE "setPassword"
Held(k, a) ==
  {s \in Known :
     \/ s = Value(k, a)
     \/ \E r \in Requests :
          pc[r] = Shown(k) /\ call[r].account = a /\ call[r].secret = s}

LEMMA HeldIs ==
  ASSUME NEW a \in Accounts
  PROVE  /\ Codes[a] = Held("reset", a) /\ Tokens[a] = Held("token", a)
         /\ Codes'[a] = Held("reset", a)' /\ Tokens'[a] = Held("token", a)'
BY DEF Codes, Tokens, Usable, Held, Value, Shown, Known

\* A call that begins is presented with what is stored, and what it draws is not known.
LEMMA ArriveHeld ==
  ASSUME Inv, NEW r \in Requests, NEW b \in Accounts, Arrive(r, b),
         NEW k \in {"reset", "token"}, NEW a \in Accounts
  PROVE  Held(k, a)' \subseteq Held(k, a)
<1>0. /\ Typed /\ pc \in [Requests -> PCs] /\ call \in [Requests -> Calls]
      /\ secret \in [Secrets -> {"unused", "drawn", "known", "spent"}]
      /\ None \notin Secrets
  BY ValuesAssumption DEF Inv, Typed, TypeOK
<1>1. /\ UNCHANGED <<verifyOTP, resetOTP, resetToken>>
      /\ UNCHANGED <<pc, call, secret>> \/ Begun(r, b)
  BY <1>0, ArriveEffect DEF row
<1>2. Value(k, a)' = Value(k, a)
  BY <1>1 DEF Value
<1>3. CASE UNCHANGED <<pc, call, secret>>
  BY <1>2, <1>3 DEF Held, Known
<1>4. CASE Begun(r, b)
  <2>1. SUFFICES ASSUME NEW s \in Secrets, s \in Held(k, a)'
                 PROVE  s \in Held(k, a)
    BY DEF Held, Known
  <2>2. s \in Known
    <3>1. secret'[s] \in {"known", "spent"}
      BY <2>1 DEF Held, Known
    <3>. QED
      BY <1>0, <1>4, <3>1 DEF Begun, Known
  <2>3. CASE s = Value(k, a)'
    BY <1>2, <2>2, <2>3 DEF Held
  <2>4. ASSUME NEW q \in Requests,
               pc'[q] = Shown(k), call'[q].account = a, call'[q].secret = s
        PROVE  s \in Held(k, a)
    <3>1. CASE q = r
      <4>1. k = From(pc'[r]) /\ b = a
        BY <1>4, <2>4, <3>1 DEF Begun, From, Shown
      <4>. QED
        BY <1>0, <1>4, <2>2, <2>4, <3>1, <4>1 DEF Begun, Held
    <3>2. CASE q # r
      <4>1. pc[q] = pc'[q] /\ call[q] = call'[q]
        BY <1>0, <1>4, <3>2 DEF Begun
      <4>. QED
        BY <2>2, <2>4, <4>1 DEF Held
    <3>. QED
      BY <3>1, <3>2
  <2>. QED
    BY <2>1, <2>3, <2>4 DEF Held
<1>. QED
  BY <1>1, <1>3, <1>4

\* The one way for a code, or a token, to become usable is the mail of this reset code
\* to its account, or the response with this token.
LEMMA ProceedHeld ==
  ASSUME Inv, AuthorityOK, NEW r \in Requests, Proceed(r),
         NEW k \in {"reset", "token"}, NEW a \in Accounts, NEW s \in Held(k, a)'
  PROVE  \/ s \in Held(k, a)
         \/ /\ pc[r] = IF k = "reset" THEN "mailReset" ELSE "setToken"
            /\ a = call[r].account /\ s = call[r].draw /\ secret'[s] # secret[s]
<1>0. /\ Typed /\ pc \in [Requests -> PCs] /\ call \in [Requests -> Calls]
      /\ secret \in [Secrets -> {"unused", "drawn", "known", "spent"}]
      /\ None \notin Secrets /\ SecretsOK /\ MailOK /\ AddressedOK
      /\ k \in Kinds
  BY ValuesAssumption DEF Inv, Typed, TypeOK, AuthorityOK, Kinds
<1>1. Went(r)
  BY <1>0, ProceedEffect
<1>2. s \in Secrets /\ secret'[s] \in {"known", "spent"}
  BY DEF Held, Known
<1>3. s = Value(k, a)' \/ \E q \in Requests :
        pc'[q] = Shown(k) /\ call'[q].account = a /\ call'[q].secret = s
  BY DEF Held
<1>4. ASSUME NEW q \in Requests,
             pc'[q] = Shown(k), call'[q].account = a, call'[q].secret = s
      PROVE  pc[q] = Shown(k) /\ call[q].account = a /\ call[q].secret = s
  <2>1. q # r
    BY <1>1, <1>4 DEF Went, Left, Shown, Presenting
  <2>. QED
    BY <1>0, <1>1, <1>4, <2>1 DEF Went, Left
<1>5. Value(k, a)' = s =>
        \/ Value(k, a) = s
        \/ pc[r] \in Storing /\ k = Into(pc[r]) /\ a = call[r].account /\ s = call[r].draw
  BY <1>0, <1>1, <1>2 DEF Went, Stored
<1>6. CASE s \in Known
  <2>1. ~(pc[r] \in Storing /\ s = call[r].draw)
    BY <1>0, <1>6 DEF SecretsOK, DrawOK, Drawing, Known
  <2>. QED
    BY <1>3, <1>4, <1>5, <1>6, <2>1 DEF Held
<1>7. CASE s \notin Known
  <2>1. secret[s] \notin {"known", "spent"} /\ secret'[s] # secret[s]
    BY <1>2, <1>7 DEF Known
  <2>2. ~Used(r, s)
    BY <1>0, <1>2, <2>1 DEF Used, SecretsOK, PresentOK
  <2>3. /\ pc[r] \in {"mailCode", "mailReset", "setToken"} /\ s = call[r].draw
    BY <1>1, <1>2, <2>1, <2>2 DEF Went, Told
  <2>4. Value(k, a)' = s
    <3>1. SUFFICES ASSUME NEW q \in Requests, pc'[q] = Shown(k), call'[q].secret = s,
                          call'[q].account = a
                   PROVE  FALSE
      BY <1>3
    <3>2. pc[q] \in Presenting /\ call[q].secret = s /\ s # None
      BY <1>0, <1>2, <1>4, <3>1 DEF Shown, Presenting
    <3>. QED
      BY <1>0, <2>1, <3>2 DEF SecretsOK, PresentOK
  <2>5. CASE pc[r] = "mailCode"
    <3>1. Value(k, a) = s /\ Value("verify", call[r].account) = s
          /\ call[r].account \in Accounts
      BY <1>0, <1>5, <2>3, <2>4, <2>5 DEF Storing, MailOK, MailingOK, Typed, Fits
    <3>. QED
      BY <1>0, <1>2, <3>1 DEF SecretsOK, UniqueOK, Kinds
  <2>6. CASE pc[r] = "mailReset"
    <3>1. Value(k, a) = s
      BY <1>5, <2>4, <2>6 DEF Storing
    <3>. QED
      BY <1>0, <2>1, <2>3, <2>6, <3>1 DEF AddressedOK
  <2>7. CASE pc[r] = "setToken"
    <3>1. Value(k, a) # s
      BY <1>0, <2>3, <2>7 DEF SecretsOK, NewOK, Storing
    <3>2. k = "token" /\ a = call[r].account
      BY <1>5, <2>4, <2>7, <3>1 DEF Into
    <3>. QED
      BY <2>1, <2>3, <2>7, <3>2
  <2>. QED
    BY <2>3, <2>5, <2>6, <2>7
<1>. QED
  BY <1>6, <1>7

\* What the calls, codes and tokens that remain amount to.
LEMMA Remain ==
  ASSUME NEW calls, NEW c, NEW t, Registering' \subseteq calls,
         \A a \in Accounts : Held("reset", a)' \subseteq c[a]
                             /\ Held("token", a)' \subseteq t[a]
  PROVE  Contract!Remaining(calls, c, t)
<1>1. /\ Codes' \in [Accounts -> SUBSET Secrets]
      /\ Tokens' \in [Accounts -> SUBSET Secrets]
  BY DEF Codes, Tokens, Usable, Known
<1>. QED
  BY <1>1, HeldIs DEF Contract!Remaining

\* The registrations that are under way after a step.
LEMMA ArriveRegistering ==
  ASSUME Inv, NEW r \in Requests, NEW b \in Accounts, Arrive(r, b)
  PROVE  Registering' \subseteq Registering
<1>0. Typed /\ pc \in [Requests -> PCs] /\ call \in [Requests -> Calls]
  BY DEF Inv, Typed, TypeOK
<1>1. UNCHANGED <<pc, call, secret>> \/ Begun(r, b)
  BY <1>0, ArriveEffect
<1>2. pc'[r] = "issue" /\ Begun(r, b) => call'[r].draw = None
  <2>. SUFFICES ASSUME pc'[r] = "issue", Begun(r, b) PROVE call'[r].draw = None
    OBVIOUS
  <2>1. Login(r, b)
    BY <1>0 DEF Arrive, Begun, Register, VerifyEmail, ForgotPassword, VerifyForgotPasswordOTP,
       ResetPassword, ChangePassword, Start, Goto, vars
  <2>. QED
    BY <1>0, <2>1 DEF Login, Start, NoCall
<1>3. CASE UNCHANGED <<pc, call, secret>>
  BY <1>3 DEF Registering
<1>4. CASE Begun(r, b)
  <2>1. \A q \in Requests :
          pc'[q] = "mailCode" \/ (pc'[q] = "issue" /\ call'[q].draw # None) => q # r
    BY <1>2, <1>4 DEF Begun, Drawing, Storing
  <2>2. \A q \in Requests : q # r => pc'[q] = pc[q] /\ call'[q] = call[q]
    BY <1>0, <1>4 DEF Begun
  <2>. QED
    BY <2>1, <2>2 DEF Registering
<1>. QED
  BY <1>1, <1>3, <1>4

LEMMA ProceedRegistering ==
  ASSUME Inv, AuthorityOK, NEW r \in Requests, Proceed(r)
  PROVE  Registering' \subseteq
           Registering \cup (IF pc'[r] = "mailCode" THEN {call[r].account} ELSE {})
<1>0. /\ Typed /\ SecretsOK /\ Merit(r)
      /\ pc \in [Requests -> PCs] /\ call \in [Requests -> Calls]
  BY DEF Inv, AuthorityOK, Typed, TypeOK
<1>1. Left(r)
  BY <1>0, ProceedEffect DEF Went
<1>2. \A q \in Requests : q # r => pc'[q] = pc[q] /\ call'[q] = call[q]
  BY <1>0, <1>1 DEF Left
<1>3. pc'[r] = "mailCode" => call' = call
  BY <1>1 DEF Left, Drawing
<1>4. ASSUME pc'[r] = "issue", call'[r].draw # None
      PROVE  pc[r] = "mailCode" /\ call' = call
  <2>1. SendVerificationEmail(r) \/ UpdateFCMToken(r)
    BY <1>0, <1>4 DEF Proceed, Create, MarkEmailVerified, SetResetOTP,
       SendPasswordResetEmail, SetResetToken, UpdatePassword, Issue, Abandon, Goto, Return
  <2>. QED
    BY <1>0, <1>4, <2>1 DEF SendVerificationEmail, UpdateFCMToken, Merit
<1>. QED
  BY <1>2, <1>3, <1>4 DEF Registering

\* Whoever is signed in to remains so.
LEMMA SignedInStays ==
  ASSUME Inv, AuthorityOK, [Next]_vars
  PROVE  SignedIn \subseteq SignedIn'
<1>1. SUFFICES ASSUME NEW a \in Accounts, session[a] # [access |-> 0, refresh |-> 0]
               PROVE  session'[a] # [access |-> 0, refresh |-> 0]
  BY DEF SignedIn
<1>2. Typed /\ Typed' /\ SessionOK
  BY NextTyped DEF Inv, AuthorityOK
<1>3. /\ session[a] \in [access : Nat, refresh : Nat]
      /\ session'[a] \in [access : Nat, refresh : Nat]
      /\ session'[a].access >= session[a].access
      /\ session'[a].refresh >= session[a].refresh
  BY <1>2, Sessions DEF Typed, TypeOK
<1>4. session[a].access > 0 \/ session[a].refresh > 0
  BY <1>1, <1>3
<1>. QED
  BY <1>3, <1>4

\* A call that begins changes nothing that counts.
LEMMA ArriveContract ==
  ASSUME Inv, NEW r \in Requests, NEW b \in Accounts, Arrive(r, b)
  PROVE  Contract!Lose
<1>1. /\ Typed /\ UNCHANGED <<password, verified, session, mailed>>
      /\ UNCHANGED <<pc, call, secret>> \/ Begun(r, b)
  BY ArriveEffect DEF Inv, row
<1>2. Known' = Known
  <2>1. secret \in [Secrets -> {"unused", "drawn", "known", "spent"}]
    BY <1>1 DEF Typed, TypeOK
  <2>. QED
    BY <1>1, <2>1 DEF Begun, Known
<1>3. Contract!Remaining(Registering, Codes, Tokens)
  BY ArriveRegistering, ArriveHeld, HeldIs, Remain
<1>. QED
  BY <1>1, <1>2, <1>3 DEF Contract!Lose, SignedIn

\* A statement, or a mail, of a call: what remains after it.
LEMMA ProceedRemain ==
  ASSUME Inv, AuthorityOK, NEW r \in Requests, Proceed(r)
  PROVE  /\ pc'[r] # "mailCode" /\ (pc[r] \in {"mailReset", "setToken"} => secret' = secret)
              => Contract!Remaining(Registering, Codes, Tokens)
         /\ pc'[r] = "mailCode"
              => Contract!Remaining(Registering \cup {call[r].account}, Codes, Tokens)
         /\ pc[r] = "mailReset" /\ pc'[r] # "mailCode"
              => Contract!Remaining(Registering,
                   [Codes EXCEPT ![call[r].account] = @ \cup {call[r].draw}], Tokens)
         /\ pc[r] = "setToken" /\ pc'[r] # "mailCode"
              => Contract!Remaining(Registering,
                   Codes, [Tokens EXCEPT ![call[r].account] = @ \cup {call[r].draw}])
<1>0. /\ Registering' \subseteq
           Registering \cup (IF pc'[r] = "mailCode" THEN {call[r].account} ELSE {})
      /\ pc'[r] = "mailCode" => pc[r] = "create"
  BY ProceedRegistering, ProceedEffect DEF Inv, Went, Left, Drawing
<1>1. ASSUME NEW k \in {"reset", "token"}, NEW a \in Accounts, NEW s \in Held(k, a)',
             s \notin Held(k, a)
      PROVE  /\ pc[r] = IF k = "reset" THEN "mailReset" ELSE "setToken"
             /\ a = call[r].account /\ s = call[r].draw /\ secret'[s] # secret[s]
  BY <1>1, ProceedHeld
<1>2. /\ \A a \in Accounts : Codes[a] = Held("reset", a) /\ Tokens[a] = Held("token", a)
      /\ DOMAIN Codes = Accounts /\ DOMAIN Tokens = Accounts
  BY HeldIs DEF Codes, Tokens
<1>3. ASSUME pc[r] \in {"mailReset", "setToken"} => secret' = secret
      PROVE  \A a \in Accounts : Held("reset", a)' \subseteq Codes[a]
                                 /\ Held("token", a)' \subseteq Tokens[a]
  BY <1>1, <1>2, <1>3
<1>4. pc[r] = "mailReset" =>
        \A a \in Accounts :
          /\ Held("reset", a)' \subseteq
               [Codes EXCEPT ![call[r].account] = @ \cup {call[r].draw}][a]
          /\ Held("token", a)' \subseteq Tokens[a]
  BY <1>1, <1>2
<1>5. pc[r] = "setToken" =>
        \A a \in Accounts :
          /\ Held("reset", a)' \subseteq Codes[a]
          /\ Held("token", a)' \subseteq
               [Tokens EXCEPT ![call[r].account] = @ \cup {call[r].draw}][a]
  BY <1>1, <1>2
<1>. QED
  BY <1>0, <1>3, <1>4, <1>5, Remain

\* Every statement is one step of the contract, or loses something, or nothing.
LEMMA ProceedContract ==
  ASSUME Inv, AuthorityOK, [Next]_vars, NEW r \in Requests, Proceed(r)
  PROVE  Contract!Next
<1>. DEFINE a == call[r].account
            d == call[r].draw
<1>0. /\ Typed /\ TypeOK /\ SecretsOK /\ MailOK /\ Fits(r) /\ Merit(r)
      /\ None \notin Secrets
  BY ValuesAssumption DEF Inv, AuthorityOK, Typed
<1>1. pc[r] # "idle" => a \in Accounts
  BY <1>0 DEF Fits
<1>2. pc[r] \in Drawing => d \in Secrets \ Known
  BY <1>0 DEF Fits, SecretsOK, DrawOK, Known
<1>3. pc[r] \in Presenting /\ call[r].secret # None => call[r].secret \in Known
  BY <1>0 DEF SecretsOK, PresentOK, Known, TypeOK, Calls
<1>4. secret' = secret => Known' = Known
  BY DEF Known
<1>5. session' = session => SignedIn' = SignedIn
  BY DEF SignedIn
<1>. HIDE DEF a, d
<1>6. CASE Create(r)
  <2>1. pc[r] = "create" /\ secret' = secret
        /\ UNCHANGED <<verified, mailed, session>>
    BY <1>6 DEF Create, Insert, row, outside
  <2>2. CASE Registered(a)
    <3>1. pc'[r] # "mailCode" /\ UNCHANGED password
      BY <1>0, <1>6, <2>2 DEF Create, Return, Goto, row, a, TypeOK
    <3>. QED
      BY <1>4, <1>5, <2>1, <3>1, ProceedRemain DEF Contract!Lose, Contract!Next
  <2>3. CASE ~Registered(a)
    <3>1. /\ pc'[r] = "mailCode"
          /\ password' = [password EXCEPT ![a] = call[r].password]
      BY <1>0, <1>6, <2>3 DEF Create, Goto, Insert, a, TypeOK
    <3>2. call[r].password \in Passwords
      BY <1>0, <2>1 DEF Fits
    <3>3. Contract!Register(a, call[r].password)
      BY <1>4, <1>5, <2>1, <2>3, <3>1, ProceedRemain DEF Contract!Register, Registered, a
    <3>. QED
      BY <1>1, <2>1, <3>2, <3>3 DEF Contract!Next
  <2>. QED
    BY <2>2, <2>3
<1>7. CASE SendVerificationEmail(r)
  <2>1. /\ pc[r] = "mailCode" /\ pc'[r] # "mailCode"
        /\ secret' = [secret EXCEPT ![d] = "known"]
        /\ mailed' = [mailed EXCEPT ![a] = d]
        /\ UNCHANGED <<password, verified, session>>
    BY <1>0, <1>7 DEF SendVerificationEmail, Goto, row, a, d, TypeOK
  <2>2. d \in Secrets \ Known /\ mailed[a] = None /\ a \in Accounts /\ a \in Registering
    BY <1>0, <1>1, <1>2, <2>1 DEF Drawing, MailOK, MailingOK, Registering, a
  <2>3. Secrets \ Known' = (Secrets \ Known) \ {d}
    BY <1>0, <2>1, <2>2 DEF Known, TypeOK
  <2>4. Contract!MailCode(a, d)
    BY <1>5, <2>1, <2>2, <2>3, ProceedRemain DEF Contract!MailCode
  <2>. QED
    BY <2>2, <2>4 DEF Contract!Next
<1>8. CASE MarkEmailVerified(r)
  <2>1. /\ pc[r] = "markVerified" /\ pc'[r] # "mailCode"
        /\ verified' = [verified EXCEPT ![a] = TRUE]
        /\ secret' = [secret EXCEPT ![call[r].secret] = "spent"]
        /\ UNCHANGED <<password, mailed, session>>
    BY <1>0, <1>8 DEF MarkEmailVerified, Return, Goto, a, TypeOK
  <2>2. mailed[a] # None /\ call[r].secret \in Known /\ a \in Accounts
    BY <1>0, <1>1, <1>3, <2>1 DEF MailOK, VerifyingOK, Fits, Presenting, a
  <2>3. Known' = Known
    BY <1>0, <2>1, <2>2 DEF Known, TypeOK
  <2>4. Contract!Verify(a)
    BY <1>5, <2>1, <2>2, <2>3, ProceedRemain DEF Contract!Verify
  <2>. QED
    BY <2>2, <2>4 DEF Contract!Next
<1>9. CASE SendPasswordResetEmail(r)
  <2>1. /\ pc[r] = "mailReset" /\ pc'[r] # "mailCode"
        /\ secret' = [secret EXCEPT ![d] = "known"]
        /\ UNCHANGED <<password, verified, mailed, session>>
    BY <1>0, <1>9 DEF SendPasswordResetEmail, Return, Goto, row, d, TypeOK
  <2>2. d \in Secrets \ Known /\ a \in Accounts /\ password[a] # None
    BY <1>0, <1>1, <1>2, <2>1 DEF Drawing, Merit, Registered, a
  <2>3. Secrets \ Known' = (Secrets \ Known) \ {d}
    BY <1>0, <2>1, <2>2 DEF Known, TypeOK
  <2>4. Contract!MailReset(a, d)
    BY <1>5, <2>1, <2>2, <2>3, ProceedRemain DEF Contract!MailReset, a, d
  <2>. QED
    BY <2>2, <2>4 DEF Contract!Next
<1>10. CASE SetResetToken(r)
  <2>1. /\ pc[r] = "setToken" /\ pc'[r] # "mailCode"
        /\ secret' = [secret EXCEPT ![d] = "known", ![call[r].secret] = "spent"]
        /\ UNCHANGED <<password, verified, mailed, session>>
    BY <1>0, <1>10 DEF SetResetToken, Return, Goto, d, TypeOK
  <2>2. d \in Secrets \ Known /\ a \in Accounts /\ call[r].secret \in Known
    BY <1>0, <1>1, <1>2, <1>3, <2>1 DEF Drawing, Storing, Fits, Presenting
  <2>3. Secrets \ Known' = (Secrets \ Known) \ {d}
    BY <1>0, <2>1, <2>2 DEF Known, TypeOK
  <2>4. Codes[a] # {}
    <3>1. call[r].secret \in Held("reset", a)
      BY <2>1, <2>2 DEF Held, Shown, a
    <3>. QED
      BY <2>2, <3>1, HeldIs
  <2>5. Contract!Grant(a, d)
    BY <1>5, <2>1, <2>2, <2>3, <2>4, ProceedRemain DEF Contract!Grant, a, d
  <2>. QED
    BY <2>2, <2>5 DEF Contract!Next
<1>11. CASE UpdatePassword(r)
  <2>1. /\ pc[r] = "setPassword" /\ pc'[r] # "mailCode"
        /\ password' = [password EXCEPT ![a] = call[r].password]
        /\ secret' = IF call[r].secret = None THEN secret
                     ELSE [secret EXCEPT ![call[r].secret] = "spent"]
        /\ UNCHANGED <<verified, mailed, session>>
    BY <1>0, <1>11 DEF UpdatePassword, Return, Goto, a, TypeOK
  <2>2. a \in Accounts /\ call[r].password \in Passwords
    BY <1>0, <1>1, <2>1 DEF Fits
  <2>3. Known' = Known
    BY <1>0, <1>3, <2>1 DEF Known, TypeOK, Presenting
  <2>4. a \in SignedIn \/ Tokens[a] # {}
    <3>1. CASE call[r].secret = None
      BY <1>0, <2>1, <2>2, <3>1 DEF Merit, SignedIn, a
    <3>2. CASE call[r].secret # None
      <4>1. call[r].secret \in Held("token", a)
        BY <1>3, <2>1, <3>2 DEF Held, Shown, Presenting, a
      <4>. QED
        BY <2>2, <4>1, HeldIs
    <3>. QED
      BY <3>1, <3>2
  <2>5. Contract!SetPassword(a, call[r].password)
    BY <1>5, <2>1, <2>3, <2>4, ProceedRemain DEF Contract!SetPassword
  <2>. QED
    BY <2>2, <2>5 DEF Contract!Next
<1>12. CASE Issue(r)
  <2>1. /\ pc[r] = "issue" /\ pc'[r] # "mailCode" /\ secret' = secret
        /\ session' = [session EXCEPT ![a] = Pair]
        /\ UNCHANGED <<password, verified, mailed>>
    BY <1>0, <1>12 DEF Issue, Return, Goto, row, a, TypeOK
  <2>2. a \in Accounts /\ (a \in Registering \/ verified[a])
    BY <1>0, <1>1, <2>1 DEF Merit, Registering, a
  <2>3. SignedIn' = SignedIn \/ SignedIn' = SignedIn \cup {a}
    <3>1. SignedIn \subseteq SignedIn'
      BY SignedInStays
    <3>2. SignedIn' \subseteq SignedIn \cup {a}
      BY <1>0, <2>1 DEF SignedIn, TypeOK
    <3>. QED
      BY <3>1, <3>2
  <2>4. Contract!SignIn(a) \/ Contract!Lose
    BY <1>4, <2>1, <2>2, <2>3, ProceedRemain DEF Contract!SignIn, Contract!Lose
  <2>. QED
    BY <2>2, <2>4 DEF Contract!Next
<1>13. CASE SetResetOTP(r) \/ UpdateFCMToken(r) \/ Abandon(r)
  <2>1. /\ pc'[r] # "mailCode" /\ secret' = secret
        /\ UNCHANGED <<password, verified, mailed, session>>
    BY <1>0, <1>13 DEF SetResetOTP, UpdateFCMToken, Abandon, Return, Goto, row, outside, TypeOK
  <2>. QED
    BY <1>4, <1>5, <2>1, ProceedRemain DEF Contract!Lose, Contract!Next
<1>. QED
  BY <1>6, <1>7, <1>8, <1>9, <1>10, <1>11, <1>12, <1>13 DEF Proceed

\* For any number of accounts and calls, failures included: who may sign in and whose
\* password may change follows the chain of mails of AccountContract.
THEOREM ContractKept == Spec => ContractSpec
<1>1. Init => Contract!Init
  BY DEF Init, Contract!Init, Registering, Codes, Tokens, Usable, SignedIn, Known, Blank, NoCall
<1>2. Inv /\ AuthorityOK /\ [Next]_vars => [Contract!Next]_(Contract!vars)
  <2>. SUFFICES ASSUME Inv, AuthorityOK, [Next]_vars
                PROVE  Contract!Next \/ UNCHANGED Contract!vars
    OBVIOUS
  <2>1. ASSUME NEW r \in Requests, NEW a \in Accounts, Arrive(r, a)
        PROVE  Contract!Next
    BY <2>1, ArriveContract DEF Contract!Next
  <2>2. ASSUME NEW r \in Requests, Proceed(r)
        PROVE  Contract!Next
    BY <2>2, ProceedContract
  <2>3. CASE (\E a \in Accounts : Refresh(a)) \/ Tick \/ UNCHANGED vars
    <3>1. UNCHANGED <<password, verified, mailed, resetOTP, resetToken, secret, pc, call>>
      BY <2>3 DEF Refresh, Tick, vars, row, outside
    <3>2. SignedIn' = SignedIn
      <4>1. ASSUME NEW a \in Accounts, Refresh(a) PROVE SignedIn' \subseteq SignedIn
        <5>1. /\ session \in [Accounts -> [access : Nat, refresh : Nat]] /\ now \in Nat
              /\ now < session[a].refresh /\ session' = [session EXCEPT ![a] = Pair]
          BY <4>1 DEF Refresh, Inv, Typed, TypeOK
        <5>. QED
          BY <5>1 DEF SignedIn
      <4>2. CASE Tick \/ UNCHANGED vars
        BY <4>2 DEF Tick, vars, outside, SignedIn
      <4>. QED
        BY <2>3, <4>1, <4>2, SignedInStays
    <3>. QED
      BY <3>1, <3>2 DEF Contract!vars, Registering, Codes, Tokens, Usable, Known
  <2>. QED
    BY <2>1, <2>2, <2>3, NextCases
<1>3. Spec => []AuthorityOK
  BY InitAuthority, NextAuthority, Invariance, PTL DEF Spec
<1>. QED
  BY <1>1, <1>2, <1>3, Invariance, PTL DEF Spec, ContractSpec, Contract!Spec
=============================================================================
