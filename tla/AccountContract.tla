---------------------------- MODULE AccountContract ----------------------------
(***************************************************************************)
(* What accounts promise their owners, without requests, columns and       *)
(* clocks: by which chain of mails a caller comes to act for an account.   *)
(* An address is registered once; whoever registers it may sign in there   *)
(* and then, everybody else only after the code in its mail has verified   *)
(* it; a password changes for a caller that is signed in or for one that   *)
(* holds a token given for a code in a mail to that account.               *)
(*                                                                         *)
(* Codes and tokens may be lost at any time and are never handed out       *)
(* again. As in the code one of them may serve several calls at once.      *)
(* Module Account implements this specification.                           *)
(***************************************************************************)
CONSTANTS
  Accounts,  \* e-mail addresses
  Passwords,
  Secrets,   \* codes and tokens
  None       \* no password, no code

VARIABLES
  password,    \* of each account, None until it is registered
  verified,
  mailed,      \* the code that was mailed to verify each account
  registering, \* accounts whose registration has not been answered
  codes,       \* reset codes in the owners' hands that a call may still exchange
  tokens,      \* reset tokens that may still set the account's password
  signedIn,    \* accounts somebody has signed in to
  sealed       \* codes and tokens that nobody has been told

vars ==
  <<password, verified, mailed, registering, codes, tokens, signedIn, sealed>>

Init ==
  /\ password = [a \in Accounts |-> None]
  /\ verified = [a \in Accounts |-> FALSE]
  /\ mailed = [a \in Accounts |-> None]
  /\ registering = {}
  /\ codes = [a \in Accounts |-> {}]
  /\ tokens = [a \in Accounts |-> {}]
  /\ signedIn = {}
  /\ sealed = Secrets

\* No more calls, codes and tokens remain than these.
Remaining(calls, c, t) ==
  /\ registering' \subseteq calls
  /\ codes' \in [Accounts -> SUBSET Secrets]
  /\ tokens' \in [Accounts -> SUBSET Secrets]
  /\ \A a \in Accounts : codes'[a] \subseteq c[a] /\ tokens'[a] \subseteq t[a]

\* A code or token is replaced, expires or is used up; a registration ends.
Lose ==
  /\ Remaining(registering, codes, tokens)
  /\ UNCHANGED <<password, verified, mailed, signedIn, sealed>>

Register(a, p) ==
  /\ password[a] = None
  /\ password' = [password EXCEPT ![a] = p]
  /\ Remaining(registering \cup {a}, codes, tokens)
  /\ UNCHANGED <<verified, mailed, signedIn, sealed>>

\* The code for verification is mailed by the registration, once.
MailCode(a, s) ==
  /\ a \in registering /\ mailed[a] = None /\ s \in sealed
  /\ mailed' = [mailed EXCEPT ![a] = s]
  /\ sealed' = sealed \ {s}
  /\ Remaining(registering, codes, tokens)
  /\ UNCHANGED <<password, verified, signedIn>>

Verify(a) ==
  /\ mailed[a] # None
  /\ verified' = [verified EXCEPT ![a] = TRUE]
  /\ Remaining(registering, codes, tokens)
  /\ UNCHANGED <<password, mailed, signedIn, sealed>>

SignIn(a) ==
  /\ a \in registering \/ verified[a]
  /\ signedIn' = signedIn \cup {a}
  /\ Remaining(registering, codes, tokens)
  /\ UNCHANGED <<password, verified, mailed, sealed>>

MailReset(a, s) ==
  /\ password[a] # None /\ s \in sealed
  /\ sealed' = sealed \ {s}
  /\ Remaining(registering, [codes EXCEPT ![a] = @ \cup {s}], tokens)
  /\ UNCHANGED <<password, verified, mailed, signedIn>>

\* A token for a code.
Grant(a, t) ==
  /\ codes[a] # {} /\ t \in sealed
  /\ sealed' = sealed \ {t}
  /\ Remaining(registering, codes, [tokens EXCEPT ![a] = @ \cup {t}])
  /\ UNCHANGED <<password, verified, mailed, signedIn>>

SetPassword(a, p) ==
  /\ a \in signedIn \/ tokens[a] # {}
  /\ password' = [password EXCEPT ![a] = p]
  /\ Remaining(registering, codes, tokens)
  /\ UNCHANGED <<verified, mailed, signedIn, sealed>>

Next ==
  \/ Lose
  \/ \E a \in Accounts :
       \/ Verify(a) \/ SignIn(a)
       \/ \E p \in Passwords : Register(a, p) \/ SetPassword(a, p)
       \/ \E s \in Secrets : MailCode(a, s) \/ MailReset(a, s) \/ Grant(a, s)

Spec == Init /\ [][Next]_vars
=============================================================================
