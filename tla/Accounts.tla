------------------------------ MODULE Accounts ------------------------------
(***************************************************************************)
(* How customers sign in and change their credentials: passwords, codes to *)
(* their telephone, the Admin's password reset, and the browser sessions   *)
(* that all of these open and end.                                         *)
(*                                                                         *)
(* A transaction that checks under the account's row lock everything it    *)
(* uses is one action, also if requests before it read the same; so is the *)
(* request of a code, since a code bound to what was true before is as if  *)
(* requested then. Two sign-ins use in their transaction what they read    *)
(* without the lock, and are two actions: by password, and by a number     *)
(* that several accounts share.                                            *)
(*                                                                         *)
(* Codes are as in Otp after delivery: live until used, superseded or      *)
(* expired. A password is named by a number that no other gets (the hash   *)
(* is salted), 0 is no password.                                           *)
(*                                                                         *)
(* An operator under a "slip:" comment is a plausible mistake in the       *)
(* definition of the same idea below it; no action uses it.                *)
(***************************************************************************)
EXTENDS Integers, FiniteSets

CONSTANTS
  Account,
  Mobile,     \* telephone numbers
  NoMobile,   \* of accounts older than the numbers, and of accounts that were reset
  FirstMobiles, \* the numbers the accounts may start with
  Code,       \* rows of otp_challenges
  Session,    \* rows of customer_sessions
  Caller,     \* sign-ins under way
  MaxPw       \* bound: passwords ever set

ASSUME MobilesExist == Mobile # {}
ASSUME MobilesAreNumbers == NoMobile \notin Mobile
ASSUME FirstMobilesGiven == FirstMobiles \subseteq [Account -> Mobile \cup {NoMobile}]
ASSUME PwBound == MaxPw \in Nat \ {0}

VARIABLES
  acct,      \* customers
  lastPw,    \* the passwords that were set so far
  code,      \* otp_challenges
  session,   \* customer_sessions
  grant,     \* the accounts with a reset grant that is neither used nor expired
  call       \* what each sign-in has read

avars == <<acct, lastPw, code, session, grant, call>>

-----------------------------------------------------------------------------

Pw == 0..MaxPw
\* The credentials of an account, as the stamps hash them.
Cred == [account: Account, pw: Pw, mobile: Mobile \cup {NoMobile}]
AcctRow == [pw: Pw, mobile: Mobile \cup {NoMobile}, active: BOOLEAN]
Purposes == {"LOGIN", "RESET", "PASSWORD", "MOBILE_OLD", "MOBILE_NEW"}
\* stamp: the accounts a code is bound to, with their credentials.
\* sessions: the session it was requested in, if any.
CodeRow == [state: {"none", "live", "dead"}, purpose: Purposes, stamp: SUBSET Cred,
            mobile: Mobile, sessions: SUBSET Session]
\* proof: the credentials that were proved to open the session; by: in which way.
SessionRow == [state: {"none", "live", "revoked"}, proof: SUBSET Cred,
               by: {"password", "code", "number"}]
CallRow == [kind: {"none", "password", "number"}, proof: SUBSET Cred, codes: SUBSET Code]

NoCode == [state |-> "none", purpose |-> "LOGIN", stamp |-> {},
           mobile |-> CHOOSE m \in Mobile : TRUE, sessions |-> {}]
NoSession == [state |-> "none", proof |-> {}, by |-> "code"]
NoCall == [kind |-> "none", proof |-> {}, codes |-> {}]

AInit ==
  /\ \E m \in FirstMobiles : acct = [a \in Account |-> [pw |-> 1, mobile |-> m[a], active |-> TRUE]]
  /\ lastPw = 1
  /\ code = [c \in Code |-> NoCode]
  /\ session = [s \in Session |-> NoSession]
  /\ grant = {}
  /\ call = [x \in Caller |-> NoCall]

CredOf(a) == [account |-> a, pw |-> acct[a].pw, mobile |-> acct[a].mobile]
Stamp(as) == {CredOf(a) : a \in as}
\* mobileAccounts
AccountsOf(m) == {a \in Account : acct[a].active /\ acct[a].mobile = m}
\* The account of a session, or of a code with a principal.
Owners(proof) == {d.account : d \in proof}
Live(s) == session[s].state = "live"

-----------------------------------------------------------------------------
(* Sessions.                                                               *)

Opened(s, proof, by, ss) ==
  [ss EXCEPT ![s] = [state |-> "live", proof |-> proof, by |-> by]]

\* Every session of the account ends.
Ended(a, ss) ==
  [s \in Session |-> IF ss[s].state = "live" /\ a \in Owners(ss[s].proof)
                     THEN [ss[s] EXCEPT !.state = "revoked"] ELSE ss[s]]

Open(proof, by) ==
  \E s \in Session : session[s].state = "none" /\ session' = Opened(s, proof, by, session)

Rotate(s) ==
  /\ Live(s)
  /\ \E t \in Session :
       /\ session[t].state = "none"
       /\ session' = Opened(t, session[s].proof, session[s].by,
                            [session EXCEPT ![s].state = "revoked"])
  /\ UNCHANGED <<acct, lastPw, code, grant, call>>

\* A logout, or eight hours.
Logout(s) ==
  /\ Live(s)
  /\ session' = [session EXCEPT ![s].state = "revoked"]
  /\ UNCHANGED <<acct, lastPw, code, grant, call>>

-----------------------------------------------------------------------------
(* Codes.                                                                  *)

\* The accounts are those of the stamp, or the number if there are several.
SameBinding(c, purpose, m, stamp) ==
  /\ code[c].purpose = purpose
  /\ IF Cardinality(stamp) = 1 THEN Owners(code[c].stamp) = Owners(stamp)
     ELSE Cardinality(code[c].stamp) # 1 /\ code[c].mobile = m

Issue(purpose, m, stamp, ss) ==
  \E c \in Code :
    /\ code[c].state = "none"
    /\ code' = [d \in Code |->
         IF d = c THEN [state |-> "live", purpose |-> purpose, stamp |-> stamp,
                        mobile |-> m, sessions |-> ss]
         ELSE IF SameBinding(d, purpose, m, stamp) /\ code[d].state = "live"
              THEN [code[d] EXCEPT !.state = "dead"] ELSE code[d]]

\* requestLogin, with a username or with the number alone. Without an account the
\* code is a decoy that nobody receives.
RequestLogin(m, purpose) ==
  /\ \/ \E a \in AccountsOf(m) : Issue(purpose, m, Stamp({a}), {})
     \/ AccountsOf(m) # {} /\ Issue(purpose, m, Stamp(AccountsOf(m)), {})
  /\ UNCHANGED <<acct, lastPw, session, grant, call>>

CodeExpires(c) ==
  /\ code[c].state = "live"
  /\ code' = [code EXCEPT ![c].state = "dead"]
  /\ UNCHANGED <<acct, lastPw, session, grant, call>>

Used(cs) == [c \in Code |-> IF c \in cs THEN [code[c] EXCEPT !.state = "dead"] ELSE code[c]]

\* The code c for a purpose, not used or expired yet.
Usable(c, purpose) == code[c].state = "live" /\ code[c].purpose = purpose

-----------------------------------------------------------------------------
(* Signing in.                                                             *)

\* login: the row is read and the password compared, then the row is locked.
ReadPassword(x, a) ==
  /\ call[x].kind = "none" /\ acct[a].active /\ acct[a].pw # 0
  /\ call' = [call EXCEPT ![x] = [kind |-> "password", proof |-> {CredOf(a)}, codes |-> {}]]
  /\ UNCHANGED <<acct, lastPw, code, session, grant>>

\* slip: the password is not compared again.
SamePasswordAsRead(d) == TRUE
SamePassword(d) == acct[d.account].pw = d.pw

LoginPassword(x) ==
  /\ call[x].kind = "password"
  /\ \E d \in call[x].proof :
       /\ acct[d.account].active /\ SamePassword(d)
       /\ Open({[d EXCEPT !.mobile = acct[d.account].mobile]}, "password")
  /\ call' = [call EXCEPT ![x] = NoCall]
  /\ UNCHANGED <<acct, lastPw, code, grant>>

\* The accounts are still the ones the code is bound to, with the same credentials.
Bound(c) ==
  IF Cardinality(code[c].stamp) = 1
  THEN \E a \in Owners(code[c].stamp) : acct[a].active /\ Stamp({a}) = code[c].stamp
  ELSE Stamp(AccountsOf(code[c].mobile)) = code[c].stamp

\* verifyLogin
LoginCode(c) ==
  /\ Usable(c, "LOGIN") /\ Cardinality(code[c].stamp) = 1 /\ Bound(c)
  /\ Open(code[c].stamp, "code")
  /\ code' = Used({c})
  /\ UNCHANGED <<acct, lastPw, grant, call>>

\* verifyMobileLogin: the accounts of the number are read, and then the row of the
\* chosen one is locked.
ReadNumber(x, c) ==
  /\ call[x].kind = "none"
  /\ Usable(c, "LOGIN") /\ Cardinality(code[c].stamp) > 1 /\ Bound(c)
  /\ \E d \in code[c].stamp :
       call' = [call EXCEPT ![x] = [kind |-> "number", proof |-> {d}, codes |-> {c}]]
  /\ UNCHANGED <<acct, lastPw, code, session, grant>>

LoginNumber(x) ==
  /\ call[x].kind = "number"
  /\ \A c \in call[x].codes : Usable(c, "LOGIN")
  /\ code' = Used(call[x].codes)
  /\ Open(call[x].proof, "number")
  /\ call' = [call EXCEPT ![x] = NoCall]
  /\ UNCHANGED <<acct, lastPw, grant>>

CallFails(x) ==
  /\ call[x].kind # "none"
  /\ call' = [call EXCEPT ![x] = NoCall]
  /\ UNCHANGED <<acct, lastPw, code, session, grant>>

-----------------------------------------------------------------------------
(* Changing passwords and numbers.                                         *)

\* All sessions of the account end with its old password.
NewPassword(a) ==
  /\ lastPw < MaxPw
  /\ lastPw' = lastPw + 1
  /\ acct' = [acct EXCEPT ![a].pw = lastPw + 1]
  /\ session' = Ended(a, session)

ResetByMobile(c) ==
  /\ Usable(c, "RESET") /\ Bound(c)
  /\ \E a \in Owners(code[c].stamp) : NewPassword(a)
  /\ code' = Used({c})
  /\ UNCHANGED <<grant, call>>

HasMobile(a) == acct[a].mobile # NoMobile

\* requestSecurity in a live session. The code for a new number needs the current
\* one, or the password of an account without a number.
RequestSecurity(s, purpose) ==
  /\ Live(s)
  /\ \E a \in Owners(session[s].proof) :
       /\ \/ /\ purpose \in {"PASSWORD", "MOBILE_OLD"} /\ HasMobile(a)
             /\ Issue(purpose, acct[a].mobile, Stamp({a}), {s})
          \/ /\ purpose = "MOBILE_NEW"
             /\ IF ~HasMobile(a) THEN acct[a].pw # 0
                ELSE \E o \in Code : Usable(o, "MOBILE_OLD") /\ code[o].sessions = {s}
                                     /\ code[o].mobile = acct[a].mobile
             /\ \E m \in Mobile : Issue(purpose, m, Stamp({a}), {s})
  /\ UNCHANGED <<acct, lastPw, session, grant, call>>

\* The code was requested in this session, and nothing changed since.
ProvesIn(c, s, a) == code[c].sessions = {s} /\ code[c].stamp = Stamp({a})

ChangePassword(s, c) ==
  /\ Live(s) /\ Usable(c, "PASSWORD")
  /\ \E a \in Owners(session[s].proof) :
       /\ ProvesIn(c, s, a) /\ code[c].mobile = acct[a].mobile
       /\ NewPassword(a)
  /\ code' = Used({c})
  /\ UNCHANGED <<grant, call>>

\* slip: the code to the old number is not asked for.
OldNeedsNone(os, s, a) == os = {}
\* The second code, of the old number, if there is one.
OldNumber(os, s, a) ==
  IF acct[a].mobile = NoMobile THEN os = {}
  ELSE \E o \in Code : /\ os = {o} /\ Usable(o, "MOBILE_OLD") /\ ProvesIn(o, s, a)
                       /\ code[o].mobile = acct[a].mobile

ChangeMobile(s, c) ==
  /\ Live(s) /\ Usable(c, "MOBILE_NEW")
  /\ \E a \in Owners(session[s].proof), os \in {{}} \cup {{o} : o \in Code} :
       /\ ProvesIn(c, s, a) /\ OldNumber(os, s, a)
       /\ acct' = [acct EXCEPT ![a].mobile = code[c].mobile]
       /\ session' = Ended(a, session)
       /\ code' = Used({c} \cup os)
  /\ UNCHANGED <<lastPw, grant, call>>

-----------------------------------------------------------------------------
(* The Admin.                                                              *)

\* The password is gone, and one grant to set a new one takes its place.
IssueReset(a) ==
  /\ acct[a].active
  /\ acct' = [acct EXCEPT ![a].pw = 0]
  /\ grant' = grant \cup {a}
  /\ session' = Ended(a, session)
  /\ UNCHANGED <<lastPw, code, call>>

CompleteReset(a) ==
  /\ a \in grant /\ acct[a].active
  /\ NewPassword(a)
  /\ grant' = grant \ {a}
  /\ UNCHANGED <<code, call>>

GrantExpires(a) ==
  /\ a \in grant /\ grant' = grant \ {a}
  /\ UNCHANGED <<acct, lastPw, code, session, call>>

\* The device goes to its next generation, and the account with it.
ResetCustomer(a) ==
  /\ acct[a].active
  /\ acct' = [acct EXCEPT ![a] = [pw |-> 0, mobile |-> NoMobile, active |-> FALSE]]
  /\ grant' = grant \ {a}
  /\ session' = Ended(a, session)
  /\ UNCHANGED <<lastPw, code, call>>

ANext ==
  \/ \E s \in Session : \/ Rotate(s) \/ Logout(s)
                        \/ \E p \in {"PASSWORD", "MOBILE_OLD", "MOBILE_NEW"} : RequestSecurity(s, p)
                        \/ \E c \in Code : ChangePassword(s, c) \/ ChangeMobile(s, c)
  \/ \E m \in Mobile, p \in {"LOGIN", "RESET"} : RequestLogin(m, p)
  \/ \E c \in Code : CodeExpires(c) \/ LoginCode(c) \/ ResetByMobile(c)
  \/ \E x \in Caller : \/ \E a \in Account : ReadPassword(x, a)
                       \/ \E c \in Code : ReadNumber(x, c)
                       \/ LoginPassword(x) \/ LoginNumber(x) \/ CallFails(x)
  \/ \E a \in Account : IssueReset(a) \/ CompleteReset(a) \/ GrantExpires(a) \/ ResetCustomer(a)

ASpec == AInit /\ [][ANext]_avars

-----------------------------------------------------------------------------
(* Properties.                                                             *)

ATypeOK ==
  /\ acct \in [Account -> AcctRow] /\ lastPw \in Pw
  /\ code \in [Code -> CodeRow]
  /\ session \in [Session -> SessionRow]
  /\ grant \subseteq Account
  /\ call \in [Caller -> CallRow]

Proven(s) == \A d \in session[s].proof : acct[d.account].active /\ d = CredOf(d.account)

\* Whoever is signed in proved the password or the number that the account has now:
\* no change of either leaves a session of before behind, whatever sign-in was under
\* way. Not of sign-ins by a number of several accounts: verifyMobileLogin compares the
\* stamp (LoginNumber) with what it read before it waited for the account's row.
SessionIsProven == \A s \in Session : Live(s) /\ session[s].by # "number" => Proven(s)

Gone(c) == code[c].state = "live" /\ code'[c].state = "dead"

\* A password is set only with a code that was sent to the number the account has,
\* used up in that very step, or with the Admin's grant; and a number is replaced
\* only with a code to it and a code to the new one, both of one live session.
ChangeIsProven ==
  [][\A a \in Account :
       /\ acct'[a].pw \notin {0, acct[a].pw} =>
            \/ a \in grant /\ a \notin grant'
            \/ \E c \in Code : Gone(c) /\ code[c].mobile = acct[a].mobile
                               /\ CredOf(a) \in code[c].stamp
       /\ acct'[a].mobile \notin {NoMobile, acct[a].mobile} =>
            \E s \in Session, c \in Code :
              /\ Live(s) /\ a \in Owners(session[s].proof)
              /\ Gone(c) /\ code[c].mobile = acct'[a].mobile /\ code[c].sessions = {s}
              /\ acct[a].mobile # NoMobile =>
                   \E o \in Code : Gone(o) /\ o # c /\ code[o].mobile = acct[a].mobile
                                   /\ code[o].sessions = {s}]_avars
=============================================================================
