--------------------------- MODULE AccountsProofs ---------------------------
(***************************************************************************)
(* What Accounts keeps for any number of accounts, numbers, codes,         *)
(* sessions and concurrent sign-ins: whoever is signed in proved what the  *)
(* account has now, and credentials change only with a proof.              *)
(*                                                                         *)
(* The invariant AInv adds to the session property that a code to sign in  *)
(* or to reset a password went to the number its stamp names: the code     *)
(* that proves a change was then sent to the number the account has.       *)
(***************************************************************************)
EXTENDS Accounts, TLAPS

\* A code that was requested without a session goes to the number of its accounts.
StampedNumber ==
  \A c \in Code : code[c].purpose \in {"LOGIN", "RESET"} =>
    \A d \in code[c].stamp : d.mobile = code[c].mobile

AInv == ATypeOK /\ SessionIsProven /\ StampedNumber

-----------------------------------------------------------------------------
(* What the operators return.                                              *)

LEMMA StampType == ASSUME ATypeOK, NEW as \in SUBSET Account PROVE Stamp(as) \in SUBSET Cred
<1>1. \A a \in Account : CredOf(a) \in Cred
  BY DEF ATypeOK, AcctRow, Cred, CredOf
<1> QED BY <1>1 DEF Stamp

LEMMA NoCodeType == NoCode \in CodeRow
<1>1. (CHOOSE m \in Mobile : TRUE) \in Mobile
  BY MobilesExist
<1> QED BY <1>1 DEF NoCode, CodeRow, Purposes

LEMMA OwnersOfStamp ==
  ASSUME NEW as \in SUBSET Account
  PROVE  Owners(Stamp(as)) = as
<1>1. \A a \in as : CredOf(a).account = a
  BY DEF CredOf
<1>2. \A a \in as : a \in Owners(Stamp(as))
  BY <1>1 DEF Owners, Stamp
<1>3. \A a \in Owners(Stamp(as)) : a \in as
  BY <1>1 DEF Owners, Stamp
<1> QED BY <1>2, <1>3

LEMMA OwnersType == ASSUME NEW proof \in SUBSET Cred PROVE Owners(proof) \in SUBSET Account
BY DEF Owners, Cred

LEMMA OpenEffect ==
  ASSUME ATypeOK, NEW proof \in SUBSET Cred, NEW by \in {"password", "code", "number"}, Open(proof, by)
  PROVE  /\ session' \in [Session -> SessionRow]
         /\ \A s \in Session : \/ session'[s] = session[s]
                               \/ session'[s].proof = proof /\ session'[s].by = by
BY DEF ATypeOK, Open, Opened, SessionRow

LEMMA EndedEffect ==
  ASSUME ATypeOK, NEW a \in Account, session' = Ended(a, session)
  PROVE  /\ session' \in [Session -> SessionRow]
         /\ \A s \in Session : session'[s].state = "live" =>
              session'[s] = session[s] /\ a \notin Owners(session[s].proof)
BY DEF ATypeOK, Ended, SessionRow

LEMMA IssueEffect ==
  ASSUME ATypeOK, NEW p \in Purposes, NEW m \in Mobile, NEW stamp \in SUBSET Cred,
         NEW ss \in SUBSET Session, Issue(p, m, stamp, ss)
  PROVE  /\ code' \in [Code -> CodeRow]
         /\ \A c \in Code :
              \/ /\ code'[c].purpose = p /\ code'[c].mobile = m /\ code'[c].stamp = stamp
                 /\ code[c].state = "none"
              \/ code'[c].purpose = code[c].purpose /\ code'[c].mobile = code[c].mobile
                 /\ code'[c].stamp = code[c].stamp
<1>1. PICK c \in Code :
        code' = [d \in Code |->
         IF d = c THEN [state |-> "live", purpose |-> p, stamp |-> stamp,
                        mobile |-> m, sessions |-> ss]
         ELSE IF SameBinding(d, p, m, stamp) /\ code[d].state = "live"
              THEN [code[d] EXCEPT !.state = "dead"] ELSE code[d]]
        /\ code[c].state = "none"
  BY DEF Issue
<1>2. /\ [state |-> "live", purpose |-> p, stamp |-> stamp, mobile |-> m, sessions |-> ss] \in CodeRow
      /\ \A d \in Code : [code[d] EXCEPT !.state = "dead"] \in CodeRow
  BY DEF ATypeOK, CodeRow
<1> QED BY <1>1, <1>2 DEF ATypeOK, CodeRow

LEMMA UsedEffect ==
  ASSUME ATypeOK, NEW cs \in SUBSET Code, code' = Used(cs)
  PROVE  /\ code' \in [Code -> CodeRow]
         /\ \A c \in Code : code'[c].purpose = code[c].purpose /\ code'[c].mobile = code[c].mobile
                            /\ code'[c].stamp = code[c].stamp
         /\ \A c \in cs : code'[c].state = "dead"
BY DEF ATypeOK, Used, CodeRow

-----------------------------------------------------------------------------
(* The steps, in groups by what they write.                                *)

\* Nothing but sessions that end or follow one another, and reads.
Quiet ==
  \/ \E s \in Session : Rotate(s) \/ Logout(s)
  \/ \E x \in Caller : \/ \E a \in Account : ReadPassword(x, a)
                       \/ \E c \in Code : ReadNumber(x, c)
                       \/ CallFails(x)
  \/ \E a \in Account : GrantExpires(a)
\* A code is made, or runs out.
Coded ==
  \/ \E s \in Session, p \in {"PASSWORD", "MOBILE_OLD", "MOBILE_NEW"} : RequestSecurity(s, p)
  \/ \E m \in Mobile, p \in {"LOGIN", "RESET"} : RequestLogin(m, p)
  \/ \E c \in Code : CodeExpires(c)
\* A session begins.
Entered ==
  \/ \E c \in Code : LoginCode(c)
  \/ \E x \in Caller : LoginPassword(x) \/ LoginNumber(x)
\* The credentials of an account change.
Changes ==
  \/ \E s \in Session, c \in Code : ChangePassword(s, c) \/ ChangeMobile(s, c)
  \/ \E c \in Code : ResetByMobile(c)
  \/ \E a \in Account : IssueReset(a) \/ CompleteReset(a) \/ ResetCustomer(a)

LEMMA NextCases == ASSUME ANext PROVE Quiet \/ Coded \/ Entered \/ Changes
BY DEF ANext, Quiet, Coded, Entered, Changes

LEMMA QuietStep ==
  ASSUME AInv, Quiet
  PROVE  AInv' /\ UNCHANGED <<acct, code>>
<1> USE DEF AInv
<1>1. ASSUME NEW s \in Session, Rotate(s)
      PROVE  AInv' /\ UNCHANGED <<acct, code>>
  <2>1. PICK t \in Session : session[t].state = "none" /\
          session' = [[session EXCEPT ![s].state = "revoked"] EXCEPT
                        ![t] = [state |-> "live", proof |-> session[s].proof, by |-> session[s].by]]
    BY <1>1 DEF Rotate, Opened
  <2>2. session' \in [Session -> SessionRow]
    BY <2>1 DEF ATypeOK, SessionRow
  <2>3. \A u \in Session : Live(u)' => \E v \in Session :
          /\ Live(v) /\ session'[u].proof = session[v].proof /\ session'[u].by = session[v].by
    BY <1>1, <2>1 DEF Rotate, Live, ATypeOK, SessionRow
  <2> QED BY <1>1, <2>2, <2>3, ZenonT(60) DEF Rotate, ATypeOK, SessionIsProven, Proven, CredOf, StampedNumber
<1>2. ASSUME NEW s \in Session, Logout(s)
      PROVE  AInv' /\ UNCHANGED <<acct, code>>
  <2>1. session' \in [Session -> SessionRow]
        /\ \A u \in Session : Live(u)' => session'[u] = session[u]
    BY <1>2 DEF Logout, ATypeOK, SessionRow, Live
  <2> QED BY <1>2, <2>1 DEF Logout, ATypeOK, SessionIsProven, Proven, CredOf, StampedNumber, Live
<1>3. ASSUME NEW x \in Caller, NEW a \in Account, ReadPassword(x, a)
      PROVE  AInv' /\ UNCHANGED <<acct, code>>
  <2>1. CredOf(a) \in Cred
    BY DEF ATypeOK, AcctRow, CredOf, Cred
  <2>2. ATypeOK'
    BY <1>3, <2>1 DEF ReadPassword, ATypeOK, CallRow
  <2> QED BY <1>3, <2>2 DEF ReadPassword, SessionIsProven, Proven, CredOf, StampedNumber, Live
<1>4. ASSUME NEW x \in Caller, NEW c \in Code, ReadNumber(x, c)
      PROVE  AInv' /\ UNCHANGED <<acct, code>>
  <2>1. ATypeOK'
    BY <1>4 DEF ReadNumber, ATypeOK, CallRow, CodeRow
  <2> QED BY <1>4, <2>1 DEF ReadNumber, SessionIsProven, Proven, CredOf, StampedNumber, Live
<1>5. ASSUME NEW x \in Caller, CallFails(x)
      PROVE  AInv' /\ UNCHANGED <<acct, code>>
  BY <1>5 DEF CallFails, NoCall, CallRow, ATypeOK, SessionIsProven, Proven, CredOf, StampedNumber, Live
<1>6. ASSUME NEW a \in Account, GrantExpires(a)
      PROVE  AInv' /\ UNCHANGED <<acct, code>>
  BY <1>6 DEF GrantExpires, ATypeOK, SessionIsProven, Proven, CredOf, StampedNumber, Live
<1> QED BY <1>1, <1>2, <1>3, <1>4, <1>5, <1>6 DEF Quiet

\* Codes are made or run out, and go to the number they are stamped with.
CodesOnly ==
  /\ UNCHANGED <<acct, lastPw, session, grant, call>>
  /\ code' \in [Code -> CodeRow] /\ StampedNumber'

LEMMA CodedStep ==
  ASSUME AInv, Coded
  PROVE  AInv' /\ UNCHANGED acct
<1> USE DEF AInv
<1>1. ASSUME NEW s \in Session, NEW p \in {"PASSWORD", "MOBILE_OLD", "MOBILE_NEW"},
             RequestSecurity(s, p)
      PROVE  CodesOnly
  <2>1. PICK a \in Owners(session[s].proof) :
          \/ acct[a].mobile # NoMobile /\ Issue(p, acct[a].mobile, Stamp({a}), {s})
          \/ \E m \in Mobile : Issue(p, m, Stamp({a}), {s})
    BY <1>1 DEF RequestSecurity, HasMobile
  <2>2. a \in Account /\ Stamp({a}) \in SUBSET Cred
    BY OwnersType, StampType DEF ATypeOK, SessionRow
  <2>3. PICK m \in Mobile : Issue(p, m, Stamp({a}), {s})
    BY <2>1, <2>2 DEF ATypeOK, AcctRow
  <2>4. p \in Purposes
    BY DEF Purposes
  <2>5. /\ code' \in [Code -> CodeRow]
        /\ \A c \in Code :
              \/ code'[c].purpose = p
              \/ code'[c].purpose = code[c].purpose /\ code'[c].mobile = code[c].mobile
                 /\ code'[c].stamp = code[c].stamp
    BY <2>2, <2>3, <2>4, IssueEffect
  <2> QED BY <1>1, <2>5 DEF CodesOnly, RequestSecurity, StampedNumber
<1>2. ASSUME NEW m \in Mobile, NEW p \in {"LOGIN", "RESET"}, RequestLogin(m, p)
      PROVE  CodesOnly
  <2>1. PICK as \in SUBSET AccountsOf(m) : Issue(p, m, Stamp(as), {})
    BY <1>2 DEF RequestLogin
  <2>2. as \in SUBSET Account /\ Stamp(as) \in SUBSET Cred
    BY StampType DEF AccountsOf
  <2>3. p \in Purposes /\ {} \in SUBSET Session
    BY DEF Purposes
  <2>4. /\ code' \in [Code -> CodeRow]
        /\ \A c \in Code :
              \/ code'[c].mobile = m /\ code'[c].stamp = Stamp(as)
              \/ code'[c].purpose = code[c].purpose /\ code'[c].mobile = code[c].mobile
                 /\ code'[c].stamp = code[c].stamp
    BY <2>1, <2>2, <2>3, IssueEffect, ZenonT(60)
  <2>5. \A d \in Stamp(as) : d.mobile = m
    <3>1. \A a \in as : CredOf(a).mobile = m
      BY DEF CredOf, AccountsOf
    <3> QED BY <3>1 DEF Stamp
  <2> QED BY <1>2, <2>4, <2>5 DEF CodesOnly, RequestLogin, StampedNumber
<1>3. ASSUME NEW c \in Code, CodeExpires(c) PROVE CodesOnly
  BY <1>3 DEF CodeExpires, CodesOnly, ATypeOK, CodeRow, StampedNumber
<1>4. CodesOnly
  BY <1>1, <1>2, <1>3 DEF Coded
<1> QED BY <1>4 DEF CodesOnly, ATypeOK, SessionIsProven, Proven, CredOf, Live

-----------------------------------------------------------------------------
(* Signing in.                                                             *)

\* A session that begins stands for credentials the account has, unless it was
\* opened by a number that several accounts share.
LEMMA EnteredStep ==
  ASSUME AInv, Entered
  PROVE  AInv' /\ UNCHANGED acct
<1> USE DEF AInv
<1>1. ASSUME NEW c \in Code, LoginCode(c)
      PROVE  AInv' /\ UNCHANGED acct
  <2>1. code[c].stamp \in SUBSET Cred
    BY DEF ATypeOK, CodeRow
  <2>2. /\ session' \in [Session -> SessionRow]
        /\ \A s \in Session : session'[s] = session[s] \/ session'[s].proof = code[c].stamp
    BY <1>1, <2>1, OpenEffect DEF LoginCode
  <2>3. code' \in [Code -> CodeRow] /\ StampedNumber'
    BY <1>1, UsedEffect DEF LoginCode, StampedNumber
  <2>4. PICK a \in Owners(code[c].stamp) : acct[a].active /\ Stamp({a}) = code[c].stamp
    BY <1>1 DEF LoginCode, Bound
  <2>5. \A d \in code[c].stamp : acct[d.account].active /\ d = CredOf(d.account)
    BY <2>4 DEF Stamp, CredOf
  <2>6. SessionIsProven'
    BY <1>1, <2>2, <2>5 DEF LoginCode, SessionIsProven, Proven, CredOf, Live
  <2> QED BY <1>1, <2>2, <2>3, <2>6 DEF LoginCode, ATypeOK
<1>2. ASSUME NEW x \in Caller, LoginPassword(x)
      PROVE  AInv' /\ UNCHANGED acct
  <2>1. PICK d \in call[x].proof :
          /\ acct[d.account].active /\ SamePassword(d)
          /\ Open({[d EXCEPT !.mobile = acct[d.account].mobile]}, "password")
    BY <1>2 DEF LoginPassword
  <2>2. d \in Cred /\ d.account \in Account
    BY DEF ATypeOK, CallRow, Cred
  <2>3. [d EXCEPT !.mobile = acct[d.account].mobile] = CredOf(d.account)
    BY <2>1, <2>2 DEF SamePassword, CredOf, Cred
  <2>4. CredOf(d.account) \in Cred
    BY <2>2 DEF ATypeOK, AcctRow, CredOf, Cred
  <2>5. /\ session' \in [Session -> SessionRow]
        /\ \A s \in Session : session'[s] = session[s] \/ session'[s].proof = {CredOf(d.account)}
    BY <2>1, <2>3, <2>4, OpenEffect
  <2>6. CredOf(d.account).account = d.account
    BY DEF CredOf
  <2>7. SessionIsProven'
    BY <1>2, <2>1, <2>5, <2>6 DEF LoginPassword, SessionIsProven, Proven, CredOf, Live
  <2>8. call' \in [Caller -> CallRow]
    BY <1>2 DEF LoginPassword, ATypeOK, CallRow, NoCall
  <2> QED BY <1>2, <2>5, <2>7, <2>8 DEF LoginPassword, ATypeOK, StampedNumber
<1>3. ASSUME NEW x \in Caller, LoginNumber(x)
      PROVE  AInv' /\ UNCHANGED acct
  <2>1. call[x].proof \in SUBSET Cred /\ call[x].codes \in SUBSET Code
    BY DEF ATypeOK, CallRow
  <2>2. /\ session' \in [Session -> SessionRow]
        /\ \A s \in Session : session'[s] = session[s] \/ session'[s].by = "number"
    BY <1>3, <2>1, OpenEffect DEF LoginNumber
  <2>3. code' \in [Code -> CodeRow] /\ StampedNumber'
    BY <1>3, <2>1, UsedEffect DEF LoginNumber, StampedNumber
  <2>4. SessionIsProven'
    BY <1>3, <2>2 DEF LoginNumber, SessionIsProven, Proven, CredOf, Live
  <2>5. call' \in [Caller -> CallRow]
    BY <1>3 DEF LoginNumber, ATypeOK, CallRow, NoCall
  <2> QED BY <1>3, <2>2, <2>3, <2>4, <2>5 DEF LoginNumber, ATypeOK
<1> QED BY <1>1, <1>2, <1>3 DEF Entered

-----------------------------------------------------------------------------
(* Changing credentials.                                                   *)

\* Only account a changes, and no session of it survives.
ChangeOf(a) ==
  /\ \A b \in Account \ {a} : acct'[b] = acct[b]
  /\ session' = Ended(a, session)

LEMMA ChangedSessions ==
  ASSUME AInv, NEW a \in Account, ChangeOf(a)
  PROVE  session' \in [Session -> SessionRow] /\ SessionIsProven'
<1> USE DEF AInv
<1>1. /\ session' \in [Session -> SessionRow]
      /\ \A s \in Session : session'[s].state = "live" =>
           session'[s] = session[s] /\ a \notin Owners(session[s].proof)
  BY EndedEffect DEF ChangeOf
<1> SUFFICES ASSUME NEW s \in Session, Live(s)', session'[s].by # "number",
                    NEW d \in session'[s].proof
             PROVE  acct'[d.account].active /\ d = CredOf(d.account)'
  BY <1>1 DEF SessionIsProven, Proven
<1>2. session'[s] = session[s] /\ d.account # a /\ d \in session[s].proof /\ Live(s)
  BY <1>1 DEF Live, Owners
<1>3. d.account \in Account
  BY <1>2 DEF ATypeOK, SessionRow, Cred
<1>4. acct'[d.account] = acct[d.account]
  BY <1>2, <1>3 DEF ChangeOf
<1> QED BY <1>2, <1>4 DEF SessionIsProven, Proven, CredOf

LEMMA NewPasswordEffect ==
  ASSUME AInv, NEW a \in Account, NewPassword(a)
  PROVE  ChangeOf(a) /\ acct' \in [Account -> AcctRow] /\ lastPw' \in Pw
         /\ \A b \in Account : acct'[b].mobile = acct[b].mobile
BY PwBound DEF AInv, ATypeOK, AcctRow, Pw, NewPassword, ChangeOf

LEMMA ChangesStep == ASSUME AInv, Changes PROVE AInv'
<1> USE DEF AInv
<1>1. ASSUME NEW s \in Session, NEW c \in Code, ChangePassword(s, c) PROVE AInv'
  <2>1. PICK a \in Owners(session[s].proof) : NewPassword(a)
    BY <1>1 DEF ChangePassword
  <2>2. a \in Account
    BY OwnersType DEF ATypeOK, SessionRow
  <2>3. code' \in [Code -> CodeRow] /\ StampedNumber'
    BY <1>1, UsedEffect DEF ChangePassword, StampedNumber
  <2> QED BY <1>1, <2>1, <2>2, <2>3, NewPasswordEffect, ChangedSessions DEF ChangePassword, ATypeOK
<1>2. ASSUME NEW c \in Code, ResetByMobile(c) PROVE AInv'
  <2>1. PICK a \in Owners(code[c].stamp) : NewPassword(a)
    BY <1>2 DEF ResetByMobile
  <2>2. a \in Account
    BY OwnersType DEF ATypeOK, CodeRow
  <2>3. code' \in [Code -> CodeRow] /\ StampedNumber'
    BY <1>2, UsedEffect DEF ResetByMobile, StampedNumber
  <2> QED BY <1>2, <2>1, <2>2, <2>3, NewPasswordEffect, ChangedSessions DEF ResetByMobile, ATypeOK
<1>3. ASSUME NEW a \in Account, CompleteReset(a) PROVE AInv'
  <2>1. StampedNumber' /\ grant' \subseteq Account
    BY <1>3 DEF CompleteReset, StampedNumber, ATypeOK
  <2> QED BY <1>3, <2>1, NewPasswordEffect, ChangedSessions DEF CompleteReset, ATypeOK
<1>4. ASSUME NEW s \in Session, NEW c \in Code, ChangeMobile(s, c) PROVE AInv'
  <2>1. PICK a \in Owners(session[s].proof), os \in {{}} \cup {{o} : o \in Code} :
          /\ acct' = [acct EXCEPT ![a].mobile = code[c].mobile]
          /\ session' = Ended(a, session) /\ code' = Used({c} \cup os)
    BY <1>4 DEF ChangeMobile
  <2>2. a \in Account /\ {c} \cup os \in SUBSET Code
    BY OwnersType DEF ATypeOK, SessionRow
  <2>3. code' \in [Code -> CodeRow] /\ StampedNumber'
    BY <2>1, <2>2, UsedEffect DEF StampedNumber
  <2>4. acct' \in [Account -> AcctRow] /\ ChangeOf(a)
    BY <2>1, <2>2 DEF ATypeOK, AcctRow, CodeRow, ChangeOf
  <2> QED BY <1>4, <2>2, <2>3, <2>4, ChangedSessions DEF ChangeMobile, ATypeOK
<1>5. ASSUME NEW a \in Account, IssueReset(a) PROVE AInv'
  <2>0. 0 \in Pw
    BY PwBound DEF Pw
  <2>1. acct' \in [Account -> AcctRow]
    BY <1>5, <2>0 DEF IssueReset, ATypeOK, AcctRow
  <2>1a. ChangeOf(a)
    BY <1>5 DEF IssueReset, ATypeOK, ChangeOf
  <2>2. StampedNumber' /\ grant' \subseteq Account
    BY <1>5 DEF IssueReset, StampedNumber, ATypeOK
  <2> QED BY <1>5, <2>1, <2>1a, <2>2, ChangedSessions DEF IssueReset, ATypeOK
<1>6. ASSUME NEW a \in Account, ResetCustomer(a) PROVE AInv'
  <2>1. [pw |-> 0, mobile |-> NoMobile, active |-> FALSE] \in AcctRow
    BY PwBound DEF AcctRow, Pw
  <2>2. acct' \in [Account -> AcctRow] /\ ChangeOf(a)
    BY <1>6, <2>1 DEF ResetCustomer, ATypeOK, ChangeOf
  <2>3. StampedNumber' /\ grant' \subseteq Account
    BY <1>6 DEF ResetCustomer, StampedNumber, ATypeOK
  <2> QED BY <1>6, <2>2, <2>3, ChangedSessions DEF ResetCustomer, ATypeOK
<1> QED BY <1>1, <1>2, <1>3, <1>4, <1>5, <1>6 DEF Changes

-----------------------------------------------------------------------------
(* The invariant.                                                          *)

LEMMA AInitInvariant == AInit => AInv
<1> SUFFICES ASSUME AInit PROVE AInv
  OBVIOUS
<1>1. acct \in [Account -> AcctRow] /\ lastPw \in Pw
  BY PwBound, FirstMobilesGiven DEF AInit, AcctRow, Pw
<1>2. code \in [Code -> CodeRow] /\ StampedNumber
  BY NoCodeType DEF AInit, StampedNumber, NoCode
<1>3. /\ session \in [Session -> SessionRow] /\ grant \subseteq Account
      /\ call \in [Caller -> CallRow] /\ SessionIsProven
  BY DEF AInit, SessionRow, NoSession, CallRow, NoCall, SessionIsProven, Live
<1> QED BY <1>1, <1>2, <1>3 DEF AInv, ATypeOK

LEMMA AStepInvariant == AInv /\ [ANext]_avars => AInv'
<1>1. ASSUME AInv, UNCHANGED avars PROVE AInv'
  BY <1>1 DEF avars, AInv, ATypeOK, SessionIsProven, Proven, CredOf, Live, StampedNumber
<1> QED BY <1>1, NextCases, QuietStep, CodedStep, EnteredStep, ChangesStep

LEMMA AInvariance == ASpec => []AInv
BY AInitInvariant, AStepInvariant, PTL DEF ASpec

-----------------------------------------------------------------------------
(* A change of credentials and its proof.                                  *)

\* The codes that are used up with a change.
LEMMA UsedAreGone ==
  ASSUME ATypeOK, NEW cs \in SUBSET Code, code' = Used(cs), NEW c \in cs, code[c].state = "live"
  PROVE  Gone(c)
BY UsedEffect DEF Gone

PasswordProven(a) ==
  \/ a \in grant /\ a \notin grant'
  \/ \E c \in Code : Gone(c) /\ code[c].mobile = acct[a].mobile /\ CredOf(a) \in code[c].stamp

NumberProven(a) ==
  \E s \in Session, c \in Code :
    /\ Live(s) /\ a \in Owners(session[s].proof)
    /\ Gone(c) /\ code[c].mobile = acct'[a].mobile /\ code[c].sessions = {s}
    /\ acct[a].mobile # NoMobile =>
         \E o \in Code : Gone(o) /\ o # c /\ code[o].mobile = acct[a].mobile
                         /\ code[o].sessions = {s}

ProvenChange(a) ==
  /\ acct'[a].pw \notin {0, acct[a].pw} => PasswordProven(a)
  /\ acct'[a].mobile \notin {NoMobile, acct[a].mobile} => NumberProven(a)

LEMMA ResetIsProven ==
  ASSUME AInv, NEW c \in Code, ResetByMobile(c), NEW a \in Account
  PROVE  ProvenChange(a)
<1> USE DEF AInv
<1>1. PICK b \in Owners(code[c].stamp) : NewPassword(b)
  BY DEF ResetByMobile
<1>2. b \in Account
  BY OwnersType DEF ATypeOK, CodeRow
<1>3. acct'[a].mobile = acct[a].mobile /\ (a # b => acct'[a] = acct[a])
  BY <1>1, <1>2, NewPasswordEffect DEF ChangeOf
<1>4. CASE a = b
  <2>1. PICK as \in SUBSET Account : Stamp(as) = code[c].stamp
    BY OwnersType DEF ResetByMobile, Bound, AccountsOf, ATypeOK, CodeRow
  <2>2. a \in as
    BY <1>1, <1>4, <2>1, OwnersOfStamp
  <2>3. CredOf(a) \in code[c].stamp
    BY <2>1, <2>2 DEF Stamp
  <2>4. code[c].mobile = acct[a].mobile
    BY <2>3 DEF ResetByMobile, Usable, StampedNumber, CredOf
  <2>5. Gone(c)
    BY UsedAreGone DEF ResetByMobile, Usable
  <2> QED BY <1>3, <2>3, <2>4, <2>5 DEF ProvenChange, PasswordProven
<1> QED BY <1>3, <1>4 DEF ProvenChange

LEMMA ChangePasswordIsProven ==
  ASSUME AInv, NEW s \in Session, NEW c \in Code, ChangePassword(s, c), NEW a \in Account
  PROVE  ProvenChange(a)
<1> USE DEF AInv
<1>1. PICK b \in Owners(session[s].proof) :
        ProvesIn(c, s, b) /\ code[c].mobile = acct[b].mobile /\ NewPassword(b)
  BY DEF ChangePassword
<1>2. b \in Account
  BY OwnersType DEF ATypeOK, SessionRow
<1>3. acct'[a].mobile = acct[a].mobile /\ (a # b => acct'[a] = acct[a])
  BY <1>1, <1>2, NewPasswordEffect DEF ChangeOf
<1>4. Gone(c)
  BY UsedAreGone DEF ChangePassword, Usable
<1>5. CredOf(b) \in code[c].stamp
  BY <1>1 DEF ProvesIn, Stamp
<1> QED BY <1>1, <1>3, <1>4, <1>5 DEF ProvenChange, PasswordProven

LEMMA ChangeMobileIsProven ==
  ASSUME AInv, NEW s \in Session, NEW c \in Code, ChangeMobile(s, c), NEW a \in Account
  PROVE  ProvenChange(a)
<1> USE DEF AInv
<1>1. PICK b \in Owners(session[s].proof), os \in {{}} \cup {{o} : o \in Code} :
        /\ ProvesIn(c, s, b) /\ OldNumber(os, s, b)
        /\ acct' = [acct EXCEPT ![b].mobile = code[c].mobile] /\ code' = Used({c} \cup os)
  BY DEF ChangeMobile
<1>2. b \in Account /\ {c} \cup os \in SUBSET Code
  BY OwnersType DEF ATypeOK, SessionRow
<1>3. a # b => acct'[a] = acct[a]
  BY <1>1, <1>2 DEF ATypeOK
<1>4. acct'[b].pw = acct[b].pw /\ acct'[b].mobile = code[c].mobile
  BY <1>1, <1>2 DEF ATypeOK, AcctRow
<1>5. Live(s) /\ Gone(c) /\ code[c].sessions = {s} /\ code[c].purpose = "MOBILE_NEW"
  BY <1>1, <1>2, UsedAreGone DEF ChangeMobile, Usable, ProvesIn
<1>6. ASSUME acct[b].mobile # NoMobile
      PROVE  \E o \in Code : Gone(o) /\ o # c /\ code[o].mobile = acct[b].mobile
                             /\ code[o].sessions = {s}
  <2>1. PICK o \in Code : /\ os = {o} /\ Usable(o, "MOBILE_OLD") /\ ProvesIn(o, s, b)
                          /\ code[o].mobile = acct[b].mobile
    BY <1>1, <1>6 DEF OldNumber
  <2>2. Gone(o)
    BY <1>1, <1>2, <2>1, UsedAreGone DEF Usable
  <2> QED BY <1>5, <2>1, <2>2 DEF Usable, ProvesIn
<1> QED BY <1>1, <1>3, <1>4, <1>5, <1>6 DEF ProvenChange, NumberProven

LEMMA NextIsProven == ASSUME AInv, ANext, NEW a \in Account PROVE ProvenChange(a)
<1>1. CASE Quiet \/ Coded \/ Entered
  BY <1>1, QuietStep, CodedStep, EnteredStep DEF ProvenChange
<1>2. ASSUME NEW b \in Account, CompleteReset(b) PROVE ProvenChange(a)
  <2>1. acct'[a].mobile = acct[a].mobile /\ (a # b => acct'[a] = acct[a])
    BY <1>2, NewPasswordEffect DEF CompleteReset, ChangeOf
  <2> QED BY <1>2, <2>1 DEF CompleteReset, ProvenChange, PasswordProven
<1>3. ASSUME NEW b \in Account, IssueReset(b) PROVE ProvenChange(a)
  <2>1. acct'[a].pw \in {0, acct[a].pw} /\ acct'[a].mobile = acct[a].mobile
    BY <1>3 DEF IssueReset, AInv, ATypeOK, AcctRow
  <2> QED BY <2>1 DEF ProvenChange
<1>4. ASSUME NEW b \in Account, ResetCustomer(b) PROVE ProvenChange(a)
  <2>1. acct'[a].pw \in {0, acct[a].pw} /\ acct'[a].mobile \in {NoMobile, acct[a].mobile}
    BY <1>4 DEF ResetCustomer, AInv, ATypeOK, AcctRow
  <2> QED BY <2>1 DEF ProvenChange
<1>5. CASE Changes
  BY <1>2, <1>3, <1>4, <1>5, ResetIsProven, ChangePasswordIsProven, ChangeMobileIsProven DEF Changes
<1> QED BY <1>1, <1>5, NextCases

-----------------------------------------------------------------------------
(* Theorems.                                                               *)

\* Every row and every local of a sign-in keeps its type.
THEOREM AccountsTypeCorrect == ASpec => []ATypeOK
BY AInvariance, PTL DEF AInv

\* Whoever is signed in, other than by a number of several accounts, proved the
\* credentials the account has now, however sign-ins, changes and resets overlap.
THEOREM SessionsAreProven == ASpec => []SessionIsProven
BY AInvariance, PTL DEF AInv

\* A password is set only with a code sent to the number the account has, used up in
\* that step, or with the Admin's grant; a number only with codes to the old and the
\* new one, both of one live session.
THEOREM ChangesAreProven == ASpec => ChangeIsProven
<1>1. ASSUME AInv, [ANext]_avars PROVE [\A a \in Account : ProvenChange(a)]_avars
  BY <1>1, NextIsProven
<1>2. ASpec => [][\A a \in Account : ProvenChange(a)]_avars
  BY <1>1, AInvariance, PTL DEF ASpec
<1> QED BY <1>2 DEF ChangeIsProven, ProvenChange, PasswordProven, NumberProven
=============================================================================
