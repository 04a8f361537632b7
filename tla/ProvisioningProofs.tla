------------------------- MODULE ProvisioningProofs -------------------------
(***************************************************************************)
(* Proofs about Identity, for any number of pairings, profiles, browsers   *)
(* and generations, and about Provisioning: the desktop with its lost and  *)
(* late calls leaves the server within Identity, and no credential         *)
(* outlives what it stands for.                                            *)
(*                                                                         *)
(* The invariant of Identity adds to the checked ones what a row says of   *)
(* the device's history: generations to come have no account and past ones *)
(* are not owned, a pairing that does not exist says nothing, a pairing is *)
(* for one profile, and a key knows the newest generation that it was      *)
(* enrolled in.                                                            *)
(*                                                                         *)
(* A credential is known by its generation: none is of a generation to     *)
(* come, so the next one starts without any, and a key that was revoked is *)
(* of a past generation, so an authentication with it earns nothing.       *)
(***************************************************************************)
EXTENDS Provisioning, TLAPS

\* A generation is owned while it is the device's, and no account is older.
OwnerIsNow ==
  \A g \in Gens : /\ g > gen => customer[g] = "none"
                  /\ customer[gen] # "RESET"
                  /\ customer[g] = "ACTIVE" => g = gen

\* A pairing that was not created is closed and without a code; each is for one profile.
PairsAreSound ==
  \A p \in Pairing :
    /\ pair[p].status = "none" => ~pair[p].open /\ code[p] = "none"
    /\ pair[p].status # "none" => pair[p].gen \in Gens /\ pair[p].gen <= gen
    /\ \A j, k \in pair[p].profiles : j = k

\* What was enrolled in a generation stays behind in the key.
KeysRemember ==
  \A k \in Profile : /\ key[k].gen <= gen
                     /\ \A g \in Gens : history[k][g] # 0 => g <= key[k].gen

IInv ==
  /\ ITypeOK /\ EnrolledIsOwned /\ OneCodeOneAccount /\ EnrolledOnce
  /\ OwnerIsNow /\ PairsAreSound /\ KeysRemember

-----------------------------------------------------------------------------
(* The parts of the invariant without LET.                                 *)

UsedFor(p, g) == pair[p].gen = g /\ code[p] = "used"

UsedUp(p, k, g) == pair[p].gen = g /\ k \in pair[p].profiles /\ pair[p].status = "CONSUMED"

\* The two properties with quantifiers for their sets.
CodeOnce ==
  \A g \in Gens :
    /\ customer[g] = "none" <=> \A p \in Pairing : ~UsedFor(p, g)
    /\ \A p, q \in Pairing : UsedFor(p, g) /\ UsedFor(q, g) => p = q
KeyOnce ==
  \A k \in Profile, g \in Gens :
    /\ (\E p \in Pairing : UsedUp(p, k, g)) => history[k][g] = 1
    /\ (\A p \in Pairing : ~UsedUp(p, k, g)) => history[k][g] = 0
    /\ \A p, q \in Pairing : UsedUp(p, k, g) /\ UsedUp(q, k, g) => p = q

LEMMA InWords ==
  /\ OneCodeOneAccount <=> CodeOnce
  /\ OneCodeOneAccount' <=> CodeOnce'
  /\ EnrolledOnce <=> KeyOnce
  /\ EnrolledOnce' <=> KeyOnce'
<1>1. OneCodeOneAccount <=> CodeOnce
  BY DEF OneCodeOneAccount, CodeOnce, UsedFor
<1>2. OneCodeOneAccount' <=> CodeOnce'
  BY DEF OneCodeOneAccount, CodeOnce, UsedFor
<1>3. EnrolledOnce <=> KeyOnce
  BY DEF EnrolledOnce, KeyOnce, UsedUp
<1>4. EnrolledOnce' <=> KeyOnce'
  BY DEF EnrolledOnce, KeyOnce, UsedUp
<1> QED BY <1>1, <1>2, <1>3, <1>4

-----------------------------------------------------------------------------
(* Each action keeps the invariant.                                        *)

LEMMA CreateStep ==
  ASSUME IInv, NEW p \in Pairing, NEW k \in Profile, CreatePairing(p, k)
  PROVE  IInv'
<1> USE GenBound DEF IInv, CreatePairing
<1>1. gen \in Gens /\ gen \in 0..MaxGen
  BY DEF ITypeOK, Gens
<1>2. ITypeOK'
  BY <1>1 DEF ITypeOK, PairRow
<1>3. /\ \A q \in Pairing : q # p => pair'[q] = pair[q]
      /\ pair'[p].gen = gen /\ pair'[p].status = "PENDING" /\ pair'[p].profiles = {k}
      /\ pair[p].status = "none" /\ code[p] = "none"
  BY DEF ITypeOK, PairsAreSound
<1>4. EnrolledIsOwned'
  BY <1>3 DEF EnrolledIsOwned, Owned
<1>5. CodeOnce'
  BY <1>3, InWords DEF CodeOnce, UsedFor
<1>6. KeyOnce'
  BY <1>3, InWords DEF KeyOnce, UsedUp
<1>7. OwnerIsNow' /\ KeysRemember'
  BY DEF OwnerIsNow, KeysRemember
<1>8. PairsAreSound'
  BY <1>1, <1>3 DEF PairsAreSound
<1> QED BY <1>2, <1>4, <1>5, <1>6, <1>7, <1>8, InWords

\* Codes that arrive or expire, and what a browser reads.
LEMMA QuietStep ==
  ASSUME IInv, UNCHANGED <<gen, customer, session, pair, key, history>>, ITypeOK',
         \A p \in Pairing : /\ code'[p] = "used" <=> code[p] = "used"
                            /\ pair[p].status = "none" => code'[p] = code[p]
  PROVE  IInv'
<1> USE DEF IInv
<1>1. EnrolledIsOwned' /\ OwnerIsNow' /\ KeysRemember' /\ PairsAreSound'
  BY DEF EnrolledIsOwned, Owned, OwnerIsNow, KeysRemember, PairsAreSound
<1>2. CodeOnce'
  BY InWords DEF CodeOnce, UsedFor
<1>3. KeyOnce'
  BY InWords DEF KeyOnce, UsedUp
<1> QED BY <1>1, <1>2, <1>3, InWords

LEMMA CodeStep ==
  ASSUME IInv, NEW p \in Pairing, RequestClaimOtp(p) \/ CodeExpires(p)
  PROVE  IInv'
<1>1. ITypeOK'
  BY DEF IInv, ITypeOK, RequestClaimOtp, CodeExpires
<1>2. \A q \in Pairing : /\ code'[q] = "used" <=> code[q] = "used"
                         /\ pair[q].status = "none" => code'[q] = code[q]
  BY DEF IInv, ITypeOK, PairsAreSound, RequestClaimOtp, CodeExpires, Approvable
<1> QED BY <1>1, <1>2, QuietStep DEF RequestClaimOtp, CodeExpires

LEMMA ReadStep ==
  ASSUME IInv, NEW b \in Browser, ClaimFails(b) \/ \E p \in Pairing : ClaimRead(b, p)
  PROVE  IInv'
<1>1. NoClaim \in ClaimRow
  BY DEF NoClaim, ClaimRow
<1>2. ITypeOK'
  BY <1>1 DEF IInv, ITypeOK, ClaimFails, ClaimRead, ClaimRow
<1> QED BY <1>2, QuietStep DEF ClaimFails, ClaimRead

\* The transaction of a claim approves one pairing, and creates the account with it.
LEMMA CommitEffect ==
  ASSUME IInv, NEW b \in Browser, ClaimCommit(b)
  PROVE  \E p \in Pairing :
           /\ pair[p].status = "PENDING" /\ pair[p].open /\ pair[p].gen = gen
           /\ pair' = [pair EXCEPT ![p].status = "BROWSER_CONFIRMED"]
           /\ \/ Owned /\ gen \in session /\ code' = code
              \/ /\ customer[gen] = "none" /\ code[p] = "usable"
                 /\ code' = [code EXCEPT ![p] = "used"]
<1>1. claim[b].pairings \subseteq Pairing /\ customer[gen] \in {"none", "ACTIVE"}
  BY DEF IInv, ITypeOK, ClaimRow, OwnerIsNow, Gens
<1> QED BY <1>1 DEF ClaimCommit, Approvable, Proves, CodeAfter, Owned

LEMMA CommitStep == ASSUME IInv, NEW b \in Browser, ClaimCommit(b) PROVE IInv'
<1> USE GenBound DEF IInv
<1>1. PICK p \in Pairing :
           /\ pair[p].status = "PENDING" /\ pair[p].open /\ pair[p].gen = gen
           /\ pair' = [pair EXCEPT ![p].status = "BROWSER_CONFIRMED"]
           /\ \/ Owned /\ gen \in session /\ code' = code
              \/ /\ customer[gen] = "none" /\ code[p] = "usable"
                 /\ code' = [code EXCEPT ![p] = "used"]
  BY CommitEffect
<1>2. /\ customer' = [customer EXCEPT ![gen] = "ACTIVE"] /\ session' = session \cup {gen}
      /\ UNCHANGED <<gen, key, history>> /\ claim' = [claim EXCEPT ![b] = NoClaim]
      /\ gen \in Gens /\ NoClaim \in ClaimRow
  BY DEF ClaimCommit, ITypeOK, NoClaim, ClaimRow
<1>3. ITypeOK'
  <2>1. [pair[p] EXCEPT !.status = "BROWSER_CONFIRMED"] \in PairRow
    BY DEF ITypeOK, PairRow
  <2>2. pair' \in [Pairing -> PairRow]
    BY <1>1, <2>1 DEF ITypeOK
  <2>3. code' \in [Pairing -> {"none", "usable", "used"}]
    BY <1>1 DEF ITypeOK
  <2> QED BY <1>2, <2>2, <2>3 DEF ITypeOK
<1>4. \A q \in Pairing :
        /\ pair'[q].gen = pair[q].gen /\ pair'[q].profiles = pair[q].profiles
        /\ pair'[q].open = pair[q].open
        /\ pair'[q].status = "none" <=> pair[q].status = "none"
        /\ pair'[q].status = "CONSUMED" <=> pair[q].status = "CONSUMED"
  BY <1>1 DEF ITypeOK
<1>5. Owned'
  BY <1>2 DEF ITypeOK, Owned
<1>6. EnrolledIsOwned'
  BY <1>2, <1>4, <1>5 DEF EnrolledIsOwned, ITypeOK
<1>7. CodeOnce'
  BY <1>1, <1>2, <1>4, InWords DEF CodeOnce, UsedFor, Owned, ITypeOK
<1>8. KeyOnce'
  BY <1>2, <1>4, InWords DEF KeyOnce, UsedUp
<1>9. OwnerIsNow' /\ KeysRemember'
  BY <1>2 DEF OwnerIsNow, KeysRemember, ITypeOK, Gens
<1>10. PairsAreSound'
  BY <1>1, <1>2, <1>4 DEF PairsAreSound, ITypeOK
<1> QED BY <1>3, <1>6, <1>7, <1>8, <1>9, <1>10, InWords

LEMMA CloseStep ==
  ASSUME IInv, NEW p \in Pairing, Cancel(p) \/ PairingExpires(p)
  PROVE  IInv'
<1> USE DEF IInv
<1>1. /\ pair' = [pair EXCEPT ![p].open = FALSE]
      /\ UNCHANGED <<gen, customer, session, code, key, history, claim>>
  BY DEF Cancel, PairingExpires
<1>2. ITypeOK'
  BY <1>1, ZenonT(60) DEF ITypeOK, PairRow
<1>3. \A q \in Pairing :
        /\ pair'[q].gen = pair[q].gen /\ pair'[q].profiles = pair[q].profiles
        /\ pair'[q].status = pair[q].status /\ (pair'[q].open => pair[q].open)
  BY <1>1 DEF ITypeOK
<1>4. EnrolledIsOwned' /\ OwnerIsNow' /\ KeysRemember' /\ PairsAreSound'
  BY <1>1, <1>3 DEF EnrolledIsOwned, Owned, OwnerIsNow, KeysRemember, PairsAreSound
<1>5. CodeOnce' /\ KeyOnce'
  BY <1>1, <1>3, InWords DEF CodeOnce, UsedFor, KeyOnce, UsedUp
<1> QED BY <1>2, <1>4, <1>5, InWords

LEMMA SignStep == ASSUME IInv, SignIn \/ SignOut PROVE IInv'
<1> USE DEF IInv
<1>1. /\ UNCHANGED <<gen, customer, pair, code, key, history, claim>>
      /\ session' \subseteq session \cup (IF Owned THEN {gen} ELSE {})
  BY DEF SignIn, SignOut
<1>2. ITypeOK'
  BY <1>1 DEF ITypeOK
<1>3. EnrolledIsOwned' /\ OwnerIsNow' /\ KeysRemember' /\ PairsAreSound'
  BY <1>1 DEF EnrolledIsOwned, Owned, OwnerIsNow, KeysRemember, PairsAreSound, ITypeOK
<1>4. CodeOnce' /\ KeyOnce'
  BY <1>1, InWords DEF CodeOnce, UsedFor, KeyOnce, UsedUp
<1> QED BY <1>2, <1>3, <1>4, InWords

LEMMA PickupStep ==
  ASSUME IInv, NEW p \in Pairing, NEW k \in Profile, Pickup(p, k)
  PROVE  IInv'
<1> USE GenBound DEF IInv
<1>1. CASE UNCHANGED ivars
  BY <1>1 DEF ivars, ITypeOK, EnrolledIsOwned, OneCodeOneAccount, EnrolledOnce, OwnerIsNow,
              PairsAreSound, KeysRemember, Owned
<1>2. CASE PickupResult(p, k) = "ENROLLED" /\ pair[p].status = "BROWSER_CONFIRMED"
  <2>0. KeyOnce
    BY InWords
  <2>1. /\ k \in pair[p].profiles /\ pair[p].gen = gen /\ Owned /\ key[k].gen < gen
    BY <1>2 DEF PickupResult, Ready, Enrollable
  <2>2. /\ key' = [key EXCEPT ![k] = [status |-> "ACTIVE", gen |-> gen]]
        /\ history' = [history EXCEPT ![k][gen] = history[k][gen] + 1]
        /\ pair' = [pair EXCEPT ![p].status = "CONSUMED"]
        /\ UNCHANGED <<gen, customer, session, code, claim>>
    BY <1>2 DEF Pickup
  <2>3. gen \in Gens /\ gen \in 0..MaxGen /\ history[k] \in [Gens -> Nat]
    BY DEF ITypeOK, Gens
  <2>4. history' \in [Profile -> [Gens -> Nat]]
    BY <2>2, <2>3 DEF ITypeOK
  <2>5. ITypeOK'
    <3>1. [pair[p] EXCEPT !.status = "CONSUMED"] \in PairRow
      BY DEF ITypeOK, PairRow
    <3>2. pair' \in [Pairing -> PairRow]
      BY <2>2, <3>1 DEF ITypeOK
    <3>3. key' \in [Profile -> KeyRow]
      BY <2>2, <2>3 DEF ITypeOK, KeyRow
    <3> QED BY <2>2, <2>4, <3>2, <3>3 DEF ITypeOK
  <2>6. /\ \A q \in Pairing :
             /\ pair'[q].gen = pair[q].gen /\ pair'[q].profiles = pair[q].profiles
             /\ pair'[q].open = pair[q].open
             /\ q # p => pair'[q].status = pair[q].status
        /\ pair'[p].status = "CONSUMED" /\ pair[p].status = "BROWSER_CONFIRMED"
    BY <1>2, <2>2 DEF ITypeOK
  <2>7. EnrolledIsOwned'
    BY <2>1, <2>2, <2>6 DEF EnrolledIsOwned, Owned, ITypeOK
  <2>8. CodeOnce'
    BY <2>2, <2>6, InWords DEF CodeOnce, UsedFor
  <2>9. history[k][gen] = 0
    <3>1. key[k].gen \in Int /\ gen \in Int
      BY <2>3 DEF ITypeOK, KeyRow, Gens
    <3>2. ~(gen <= key[k].gen)
      BY <2>1, <3>1
    <3> QED BY <2>3, <3>2 DEF KeysRemember
  <2>10. /\ history'[k][gen] = 1
         /\ \A j \in Profile, g \in Gens : (j # k \/ g # gen) => history'[j][g] = history[j][g]
    BY <2>2, <2>3, <2>9 DEF ITypeOK
  <2>11. /\ \A q \in Pairing : ~UsedUp(q, k, gen)
         /\ \A q \in Pairing, j \in Profile, g \in Gens :
              UsedUp(q, j, g)' <=> (UsedUp(q, j, g) \/ (q = p /\ j = k /\ g = gen))
    <3>1. \A q \in Pairing : ~UsedUp(q, k, gen)
      BY <2>3, <2>9, <2>0 DEF KeyOnce
    <3>2. \A j \in pair[p].profiles : j = k
      BY <2>1 DEF PairsAreSound
    <3>3. \A j \in Profile, g \in Gens : UsedUp(p, j, g)' <=> j = k /\ g = gen
      BY <2>1, <2>6, <3>2 DEF UsedUp
    <3>4. \A j \in Profile, g \in Gens : ~UsedUp(p, j, g)
      BY <2>6 DEF UsedUp
    <3>5. \A q \in Pairing, j \in Profile, g \in Gens :
            q # p => (UsedUp(q, j, g)' <=> UsedUp(q, j, g))
      BY <2>6 DEF UsedUp
    <3> QED BY <3>1, <3>3, <3>4, <3>5
  <2>12. KeyOnce'
    <3> SUFFICES ASSUME NEW j \in Profile, NEW g \in Gens
        PROVE  /\ (\E q \in Pairing : UsedUp(q, j, g)') => history'[j][g] = 1
               /\ (\A q \in Pairing : ~UsedUp(q, j, g)') => history'[j][g] = 0
               /\ \A q, r \in Pairing : UsedUp(q, j, g)' /\ UsedUp(r, j, g)' => q = r
      BY DEF KeyOnce
    <3>1. CASE j = k /\ g = gen
      BY <2>10, <2>11, <3>1
    <3>2. CASE ~(j = k /\ g = gen)
      <4>1. history'[j][g] = history[j][g]
        BY <2>10, <3>2
      <4>2. \A q \in Pairing : UsedUp(q, j, g)' <=> UsedUp(q, j, g)
        BY <2>11, <3>2
      <4> QED BY <2>0, <4>1, <4>2 DEF KeyOnce
    <3> QED BY <3>1, <3>2
  <2>13. OwnerIsNow' /\ PairsAreSound'
    BY <2>2, <2>6 DEF OwnerIsNow, PairsAreSound
  <2>14. KeysRemember'
    BY <2>1, <2>2, <2>3, <2>10 DEF KeysRemember, ITypeOK, KeyRow, Gens
  <2> QED BY <2>5, <2>7, <2>8, <2>12, <2>13, <2>14, InWords
<1> QED BY <1>1, <1>2 DEF Pickup

LEMMA ResetStep == ASSUME IInv, Reset PROVE IInv'
<1> USE GenBound DEF IInv
<1>1. /\ customer' = [customer EXCEPT ![gen] = "RESET"] /\ session' = session \ {gen}
      /\ key' = [k \in Profile |-> KeyAfter(k)]
      /\ pair' = [p \in Pairing |-> [pair[p] EXCEPT !.open = OpenAfter(p)]]
      /\ gen' = gen + 1 /\ UNCHANGED <<code, history, claim>>
      /\ Owned /\ gen < MaxGen
  BY DEF Reset
<1>2. gen \in Gens /\ gen + 1 \in Gens
  BY <1>1 DEF ITypeOK, Gens
<1>3. \A p \in Pairing :
        /\ pair'[p].gen = pair[p].gen /\ pair'[p].profiles = pair[p].profiles
        /\ pair'[p].status = pair[p].status /\ pair'[p].open = OpenAfter(p)
  BY <1>1 DEF ITypeOK, PairRow
<1>4. \A p \in Pairing : ~pair'[p].open
  BY <1>3 DEF OpenAfter, EnrolledIsOwned
<1>5. \A k \in Profile : key'[k].gen = key[k].gen /\ key'[k].status # "ACTIVE" /\ key'[k] \in KeyRow
  BY <1>1 DEF KeyAfter, EnrolledIsOwned, ITypeOK, KeyRow
<1>6. pair' \in [Pairing -> PairRow]
  BY <1>1, ZenonT(60) DEF ITypeOK, PairRow, OpenAfter
<1>7. ITypeOK'
  BY <1>1, <1>2, <1>5, <1>6 DEF ITypeOK
<1>8. EnrolledIsOwned'
  BY <1>1, <1>4, <1>5 DEF EnrolledIsOwned, ITypeOK, Owned
<1>9. CodeOnce'
  <2>1. \A g \in Gens : customer'[g] = "none" <=> customer[g] = "none"
    BY <1>1, <1>2 DEF ITypeOK, Owned
  <2>2. \A p \in Pairing, g \in Gens : UsedFor(p, g)' <=> UsedFor(p, g)
    BY <1>1, <1>3 DEF UsedFor
  <2>3. CodeOnce
    BY InWords
  <2> QED BY <2>1, <2>2, <2>3 DEF CodeOnce
<1>10. KeyOnce'
  <2>1. \A p \in Pairing, k \in Profile, g \in Gens : UsedUp(p, k, g)' <=> UsedUp(p, k, g)
    BY <1>3 DEF UsedUp
  <2>2. KeyOnce
    BY InWords
  <2> QED BY <1>1, <2>1, <2>2 DEF KeyOnce
<1>11. OwnerIsNow'
  BY <1>1, <1>2 DEF OwnerIsNow, ITypeOK, Gens
<1>12. PairsAreSound'
  <2>1. \A p \in Pairing : pair[p].gen \in Int /\ gen \in Int
    BY DEF ITypeOK, PairRow, Gens
  <2>2. \A p \in Pairing : pair[p].gen <= gen => pair[p].gen <= gen'
    BY <1>1, <2>1
  <2> QED BY <1>1, <1>3, <1>4, <2>2, ZenonT(60) DEF PairsAreSound
<1>13. KeysRemember'
  BY <1>1, <1>2, <1>5 DEF KeysRemember, ITypeOK, KeyRow, Gens
<1> QED BY <1>7, <1>8, <1>9, <1>10, <1>11, <1>12, <1>13, InWords

-----------------------------------------------------------------------------
(* The invariant.                                                          *)

LEMMA IInitInvariant == IInit => IInv
<1> SUFFICES ASSUME IInit PROVE IInv
  OBVIOUS
<1> USE GenBound DEF IInit
<1>1. ITypeOK
  BY DEF ITypeOK, PairRow, KeyRow, ClaimRow, NoClaim, Gens
<1>2. EnrolledIsOwned /\ OwnerIsNow /\ PairsAreSound /\ KeysRemember
  BY DEF EnrolledIsOwned, OwnerIsNow, PairsAreSound, KeysRemember, Owned, Gens
<1>3. CodeOnce /\ KeyOnce
  BY DEF CodeOnce, KeyOnce, UsedFor, UsedUp
<1> QED BY <1>1, <1>2, <1>3, InWords DEF IInv

LEMMA IStepInvariant == IInv /\ [INext]_ivars => IInv'
<1>1. ASSUME IInv, UNCHANGED ivars PROVE IInv'
  BY <1>1 DEF ivars, IInv, ITypeOK, EnrolledIsOwned, OneCodeOneAccount, EnrolledOnce, OwnerIsNow,
              PairsAreSound, KeysRemember, Owned
<1>2. ASSUME IInv, BrowserStep PROVE IInv'
  BY <1>2, CodeStep, CloseStep, CommitStep, ReadStep, SignStep DEF BrowserStep
<1> QED BY <1>1, <1>2, ResetStep, CloseStep, CreateStep, PickupStep DEF INext

\* The invariant of every behaviour of claim, pickup and the Admin's reset.
THEOREM IdentityInvariant == ISpec => []IInv
<1> QED BY IInitInvariant, IStepInvariant, PTL DEF ISpec

\* A reset leaves no key active and no approved pairing open, whatever browser was
\* in the middle of its claim.
THEOREM EnrolmentIsOwned == ISpec => []EnrolledIsOwned
<1>1. IInv => EnrolledIsOwned
  BY DEF IInv
<1> QED BY <1>1, IdentityInvariant, PTL

\* One code for each account, whoever raced for the device.
THEOREM AccountTakesOneCode == ISpec => []OneCodeOneAccount
<1>1. IInv => OneCodeOneAccount
  BY DEF IInv
<1> QED BY <1>1, IdentityInvariant, PTL

\* One enrolment of a key in a generation, by one pairing.
THEOREM KeyEnrolsOnce == ISpec => []EnrolledOnce
<1>1. IInv => EnrolledOnce
  BY DEF IInv
<1> QED BY <1>1, IdentityInvariant, PTL

-----------------------------------------------------------------------------
(* Who approves a pairing.                                                 *)

Approves ==
  \A p \in Pairing :
    pair[p].status = "PENDING" /\ pair'[p].status = "BROWSER_CONFIRMED"
    => \/ gen \in session
       \/ ~Owned /\ code[p] = "usable" /\ code'[p] = "used"

LEMMA StepApproves == IInv /\ [INext]_ivars => Approves
<1> SUFFICES ASSUME IInv, [INext]_ivars, NEW p \in Pairing,
                    pair[p].status = "PENDING", pair'[p].status = "BROWSER_CONFIRMED"
             PROVE  \/ gen \in session
                    \/ ~Owned /\ code[p] = "usable" /\ code'[p] = "used"
  BY DEF Approves
<1>1. ASSUME NEW b \in Browser, ClaimCommit(b)
      PROVE  \/ gen \in session
             \/ ~Owned /\ code[p] = "usable" /\ code'[p] = "used"
  BY <1>1, CommitEffect DEF IInv, ITypeOK, Owned
<1>2. CASE UNCHANGED pair
  BY <1>2
<1>3. ASSUME NEW q \in Pairing, Cancel(q) \/ PairingExpires(q) PROVE FALSE
  <2>1. pair' = [pair EXCEPT ![q].open = FALSE]
    BY <1>3 DEF Cancel, PairingExpires
  <2>2. pair'[p].status = pair[p].status
    BY <2>1 DEF IInv, ITypeOK
  <2> QED BY <2>2
<1>4. ASSUME NEW q \in Pairing, NEW k \in Profile, CreatePairing(q, k) \/ Pickup(q, k) PROVE FALSE
  BY <1>4 DEF CreatePairing, Pickup, IInv, ITypeOK, ivars
<1>5. CASE Reset
  BY <1>5 DEF Reset, IInv, ITypeOK, PairRow
<1> QED BY <1>1, <1>2, <1>3, <1>4, <1>5
        DEF INext, BrowserStep, RequestClaimOtp, CodeExpires, ClaimFails, ClaimRead, SignIn, SignOut,
            ivars

\* Every pairing is approved by the owner of its device, or by the one who becomes
\* the owner in that step.
THEOREM ApprovalIsTheOwners == ISpec => ApprovedByOwner
<1>1. IInv /\ [INext]_ivars => [Approves]_ivars
  BY StepApproves
<1>2. ISpec => [][Approves]_ivars
  BY <1>1, IdentityInvariant, PTL DEF ISpec
<1> QED BY <1>2 DEF ApprovedByOwner, Approves

-----------------------------------------------------------------------------
(* The desktop beside the server.                                           *)

ClientTypeOK ==
  /\ pending \in [Profile -> Pairings] /\ stored \subseteq Profile
  /\ mem \in [Profile -> MemRow]
  /\ dialog \in [Profile -> {"closed", "resume", "begin", "open"}]
  /\ op \in [Profile -> Ops]
  /\ call \in [Profile -> CallRow]
  /\ late \in [Profile -> SUBSET CallRow]
  /\ faults \in 0..MaxFaults

\* No credential is of a generation to come, and a revoked key is of a past one.
CredentialsArePast ==
  \A k \in Profile : /\ mem[k].cred.gen <= gen /\ call[k].cred.gen <= gen
                     /\ key[k].status = "REVOKED" => key[k].gen < gen

PInv == IInv /\ ClientTypeOK /\ UsableIsEnrolled /\ CredentialsArePast

-----------------------------------------------------------------------------
(* Types.                                                                  *)

LEMMA RowTypes ==
  /\ NoToken \in Token /\ NoCall \in CallRow /\ Blank \in MemRow
  /\ \A kind \in {"none", "PAIR", "CONFIRM", "AUTH"}, ps \in Pairings : Asks(kind, ps) \in CallRow
  /\ {} \in Pairings /\ \A p \in Pairing : {p} \in Pairings
  /\ \A ps \in Pairings : ps \subseteq Pairing
  /\ \A kind, ps : Asks(kind, ps).cred = NoToken
  /\ NoCall.cred = NoToken /\ Blank.cred = NoToken
  /\ NoToken.gen = 0 /\ NoToken.live = FALSE
<1>1. 0 \in 0..MaxGen
  BY GenBound
<1>2. NoToken \in Token /\ NoToken.gen = 0 /\ NoToken.live = FALSE
  BY <1>1 DEF NoToken, Token
<1>3. {} \in Pairings /\ \A p \in Pairing : {p} \in Pairings
  BY DEF Pairings
<1>4. \A ps \in Pairings : ps \subseteq Pairing
  BY DEF Pairings
<1>5. NoCall \in CallRow /\ NoCall.cred = NoToken
  BY <1>2, <1>3 DEF NoCall, CallRow
<1>6. Blank \in MemRow /\ Blank.cred = NoToken
  BY <1>2, <1>3 DEF Blank, MemRow
<1>7. \A kind \in {"none", "PAIR", "CONFIRM", "AUTH"}, ps \in Pairings : Asks(kind, ps) \in CallRow
  BY <1>2 DEF NoCall, CallRow, Asks
<1>8. \A kind, ps : Asks(kind, ps).cred = NoToken
  BY DEF NoCall, Asks
<1> QED BY <1>2, <1>3, <1>4, <1>5, <1>6, <1>7, <1>8

LEMMA ResultTypes ==
  \A p \in Pairing, k \in Profile : PickupResult(p, k) \in Results /\ AuthResult(k) \in Results
<1> SUFFICES ASSUME NEW p \in Pairing, NEW k \in Profile
             PROVE  PickupResult(p, k) \in Results /\ AuthResult(k) \in Results
  OBVIOUS
<1>1. PickupResult(p, k) \in Results
  BY DEF PickupResult, Results
<1>2. AuthResult(k) \in Results
  BY DEF AuthResult, Results
<1> QED BY <1>1, <1>2

\* The fields of a row of the client, as its steps set them.
LEMMA RowSteps ==
  ASSUME NEW m \in MemRow, NEW r \in CallRow, NEW c \in Token, NEW ps \in Pairings,
         NEW s \in {"none", "desktop", "tombstone_only"}, NEW x \in Results
  PROVE  /\ [m EXCEPT !.cred = c] \in MemRow
         /\ [m EXCEPT !.cred = c, !.scope = s] \in MemRow
         /\ [m EXCEPT !.pairing = ps] \in MemRow
         /\ [r EXCEPT !.cred = c] \in CallRow
         /\ [r EXCEPT !.result = x] \in CallRow
         /\ [r EXCEPT !.result = x, !.cred = c] \in CallRow
         /\ [r EXCEPT !.result = x, !.pairing = ps] \in CallRow
         /\ Revoked(c) \in Token
         /\ m.cred \in Token /\ m.pairing \in Pairings
         /\ r.cred \in Token /\ r.pairing \in Pairings
BY DEF MemRow, CallRow, Revoked, Token

\* What a step of the client leaves of the credentials it had.
OnlyOldCreds ==
  \A k \in Profile : /\ mem'[k].cred \in {mem[k].cred, call[k].cred, NoToken}
                     /\ call'[k].cred \in {call[k].cred, NoToken}

LEMMA ConnectType ==
  ASSUME ClientTypeOK, NEW k \in Profile,
         \/ Connect(k) \/ Get(k, "get") \/ Get(k, "resume") \/ Resumed(k) \/ Begin(k) \/ Complete(k)
  PROVE  ClientTypeOK' /\ OnlyOldCreds
<1> USE RowTypes DEF ClientTypeOK
<1>1. mem[k] \in MemRow /\ Completes(k) \in Pairings
  BY DEF MemRow, Completes
<1>2. CASE Connect(k)
  <2>1. [mem[k] EXCEPT !.cred = NoToken, !.scope = "none"] \in MemRow
    BY <1>1 DEF MemRow
  <2>2. mem' \in [Profile -> MemRow]
    BY <1>2, <2>1 DEF Connect
  <2>3. \A j \in Profile : mem'[j].cred \in {mem[j].cred, call[j].cred, NoToken}
    BY <1>1, <1>2 DEF Connect, MemRow
  <2> QED BY <1>2, <2>2, <2>3 DEF Connect, OnlyOldCreds
<1>3. ASSUME NEW o \in {"get", "resume"}, Get(k, o) PROVE ClientTypeOK' /\ OnlyOldCreds
  <2>1. PICK ps \in Pairings, kind \in {"CONFIRM", "AUTH"} : Holds(k, o, Asks(kind, ps))
    BY <1>1, <1>3 DEF Get
  <2>2. Asks(kind, ps) \in CallRow /\ o \in Ops
    BY <1>3 DEF Ops
  <2>3. ClientTypeOK'
    BY <1>3, <2>1, <2>2 DEF Get, Holds
  <2>4. OnlyOldCreds
    BY <1>3, <2>1 DEF Get, Holds, OnlyOldCreds
  <2> QED BY <2>3, <2>4
<1>4. CASE Resumed(k)
  BY <1>4 DEF Resumed, OnlyOldCreds
<1>5. CASE Begin(k)
  BY <1>5 DEF Begin, Holds, Ops, OnlyOldCreds
<1>6. CASE Complete(k)
  BY <1>1, <1>6 DEF Complete, Holds, Ops, OnlyOldCreds
<1> QED BY <1>2, <1>3, <1>4, <1>5, <1>6

LEMMA AnswerType ==
  ASSUME ClientTypeOK, NEW k \in Profile,
         \/ PairAnswered(k) \/ PickupAnswered(k) \/ Clear(k) \/ AuthAnswered(k)
  PROVE  ClientTypeOK' /\ OnlyOldCreds
<1> USE RowTypes DEF ClientTypeOK
<1>1. mem[k] \in MemRow /\ call[k] \in CallRow /\ call[k].pairing \in Pairings /\ "none" \in Ops
      /\ op[k] \in Ops /\ DialogAfterError(k) \in [Profile -> {"closed", "resume", "begin", "open"}]
  BY DEF CallRow, Ops, DialogAfterError
<1>2. /\ [mem[k] EXCEPT !.pairing = call[k].pairing] \in MemRow
      /\ [mem[k] EXCEPT !.pairing = {}] \in MemRow
      /\ \A scope \in {"desktop", "tombstone_only"} :
           [mem[k] EXCEPT !.cred = call[k].cred, !.scope = scope] \in MemRow
  BY <1>1 DEF MemRow, CallRow
<1>3. \A scope : Accepted(k, scope) =>
        \A j \in Profile : mem'[j].cred \in {mem[j].cred, call[j].cred, NoToken}
  BY <1>1 DEF Accepted, MemRow
<1>4. \A ps \in Pairings : [mem[k] EXCEPT !.pairing = ps].cred = mem[k].cred
  BY <1>1 DEF MemRow
<1>5. CASE PairAnswered(k)
  <2>1. mem' \in [Profile -> MemRow]
    BY <1>1, <1>2, <1>5 DEF PairAnswered
  <2>2. pending' \in [Profile -> Pairings] /\ dialog' \in [Profile -> {"closed", "resume", "begin", "open"}]
    BY <1>1, <1>5 DEF PairAnswered
  <2>3. OnlyOldCreds
    BY <1>1, <1>4, <1>5 DEF PairAnswered, Releases, Holds, OnlyOldCreds
  <2> QED BY <1>1, <1>5, <2>1, <2>2, <2>3 DEF PairAnswered, Releases, Holds
<1>6. CASE PickupAnswered(k)
  <2>1. mem' \in [Profile -> MemRow] /\ stored' \subseteq Profile
    BY <1>1, <1>2, <1>6, ZenonT(60) DEF PickupAnswered, Accepted
  <2>2. pending' \in [Profile -> Pairings] /\ dialog' \in [Profile -> {"closed", "resume", "begin", "open"}]
    BY <1>1, <1>6 DEF PickupAnswered
  <2>3. \E o \in Ops, r \in CallRow : Holds(k, o, r) /\ r.cred = NoToken
    <3>1. Releases(k) \/ \E kind \in {"none", "AUTH"}, ps \in Pairings : Holds(k, op[k], Asks(kind, ps))
      BY <1>1, <1>6 DEF PickupAnswered
    <3>2. Releases(k) <=> Holds(k, "none", NoCall)
      BY DEF Releases
    <3> QED BY <1>1, <3>1, <3>2
  <2>4. \A j \in Profile : mem'[j].cred \in {mem[j].cred, call[j].cred, NoToken}
    BY <1>1, <1>3, <1>4, <1>6 DEF PickupAnswered
  <2>5. \A j \in Profile : call'[j].cred \in {call[j].cred, NoToken}
    BY <2>3 DEF Holds
  <2>6. call' \in [Profile -> CallRow] /\ op' \in [Profile -> Ops]
    BY <2>3 DEF Holds
  <2> QED BY <1>6, <2>1, <2>2, <2>4, <2>5, <2>6 DEF PickupAnswered, OnlyOldCreds
<1>7. CASE Clear(k)
  BY <1>1, <1>2, <1>7 DEF Clear, Releases, Holds, OnlyOldCreds, MemRow
<1>8. CASE AuthAnswered(k)
  <2>1. mem' \in [Profile -> MemRow] /\ stored' \subseteq Profile
    BY <1>1, <1>2, <1>8 DEF AuthAnswered, Accepted
  <2>2. dialog' \in [Profile -> {"closed", "resume", "begin", "open"}]
    BY <1>1, <1>8 DEF AuthAnswered
  <2>3. \A j \in Profile : mem'[j].cred \in {mem[j].cred, call[j].cred, NoToken}
    BY <1>1, <1>3, <1>8 DEF AuthAnswered
  <2> QED BY <1>1, <1>8, <2>1, <2>2, <2>3 DEF AuthAnswered, Releases, Holds, OnlyOldCreds
<1> QED BY <1>5, <1>6, <1>7, <1>8

LEMMA FaultType ==
  ASSUME ClientTypeOK, NEW k \in Profile,
         \/ CredentialExpires(k) \/ GiveUp(k) \/ Crash(k) \/ CloseDialog(k)
  PROVE  ClientTypeOK' /\ OnlyOldCreds
<1> USE RowTypes, FaultBound DEF ClientTypeOK
<1>1. mem[k] \in MemRow /\ call[k] \in CallRow /\ "none" \in Ops
      /\ DialogAfterError(k) \in [Profile -> {"closed", "resume", "begin", "open"}]
  BY DEF Ops, DialogAfterError
<1>2. [mem[k] EXCEPT !.cred = NoToken] \in MemRow
  BY <1>1 DEF MemRow
<1>3. Leaves(k) => late' \in [Profile -> SUBSET CallRow]
  BY <1>1 DEF Leaves
<1>4. Fault => faults' \in 0..MaxFaults
  BY DEF Fault
<1>5. CASE CredentialExpires(k)
  BY <1>1, <1>2, <1>5 DEF CredentialExpires, OnlyOldCreds, MemRow
<1>6. CASE GiveUp(k)
  BY <1>1, <1>3, <1>4, <1>6 DEF GiveUp, Releases, Holds, OnlyOldCreds
<1>7. CASE Crash(k)
  BY <1>1, <1>3, <1>4, <1>7 DEF Crash, Releases, Holds, OnlyOldCreds
<1>8. CASE CloseDialog(k)
  BY <1>4, <1>8 DEF CloseDialog, OnlyOldCreds
<1> QED BY <1>5, <1>6, <1>7, <1>8

\* The client changes no row of the server, and a credential only moves or is dropped.
ClientStep(k) == Goes(k) \/ Get(k, "get") \/ CredentialExpires(k) \/ GiveUp(k) \/ Crash(k) \/ CloseDialog(k)

LEMMA ClientStepKeeps ==
  ASSUME PInv, NEW k \in Profile, ClientStep(k)
  PROVE  PInv'
<1>1. UNCHANGED ivars
  BY DEF ClientStep, Goes, Connect, Get, Resumed, Begin, Complete, PairAnswered, PickupAnswered, Clear,
         AuthAnswered, CredentialExpires, GiveUp, Crash, CloseDialog
<1>2. ClientTypeOK' /\ OnlyOldCreds
  BY ConnectType, AnswerType, FaultType DEF ClientStep, Goes, PInv
<1>3. IInv'
  BY <1>1, IStepInvariant DEF PInv
<1>4. /\ gen' = gen /\ key' = key /\ \A j \in Profile : (Enrolled(j)' <=> Enrolled(j))
      /\ Owned' <=> Owned
      /\ gen \in Int /\ 0 < gen
  BY <1>1 DEF ivars, Enrolled, Owned, PInv, IInv, ITypeOK, Gens
<1>5. UsableIsEnrolled'
  BY <1>2, <1>4, RowTypes DEF PInv, UsableIsEnrolled, OnlyOldCreds
<1>6. CredentialsArePast'
  BY <1>2, <1>4, RowTypes DEF PInv, CredentialsArePast, OnlyOldCreds
<1> QED BY <1>2, <1>3, <1>5, <1>6 DEF PInv

-----------------------------------------------------------------------------
(* The server's answers.                                                   *)

\* Its steps touch, of the client, the credentials it hands out and revokes.
ServesRest(k) == UNCHANGED <<pending, stored, dialog, op, faults>> /\ late' \in [Profile -> SUBSET CallRow]

\* A credential that the server hands out is of the generation its key has now.
LEMMA FreshType ==
  ASSUME PInv, IInv', NEW k \in Profile
  PROVE  Fresh(k) \in Token /\ Fresh(k).gen = key'[k].gen /\ Fresh(k).gen <= gen'
BY DEF Fresh, Token, IInv, ITypeOK, KeyRow, KeysRemember

LEMMA ServePairs ==
  ASSUME PInv, NEW k \in Profile, NEW r \in CallRow, NEW answers \in BOOLEAN,
         Serve(k, r, answers), ServesRest(k), r.kind = "PAIR"
  PROVE  PInv' /\ [INext]_ivars
<1> USE RowTypes
<1>1. /\ \/ UNCHANGED ivars
         \/ \E p \in Pairing : CreatePairing(p, k)
      /\ UNCHANGED mem
      /\ \/ call' = call
         \/ call' = [call EXCEPT ![k].result = "RATE_LIMITED"]
         \/ \E p \in Pairing : call' = [call EXCEPT ![k].result = "CREATED", ![k].pairing = {p}]
  BY DEF Serve
<1>2. [INext]_ivars
  BY <1>1 DEF INext
<1>3. IInv'
  BY <1>2, IStepInvariant DEF PInv
<1>4. /\ [call[k] EXCEPT !.result = "RATE_LIMITED"] \in CallRow
      /\ \A p \in Pairing : [call[k] EXCEPT !.result = "CREATED", !.pairing = {p}] \in CallRow
  BY ZenonT(60) DEF PInv, ClientTypeOK, CallRow, Results
<1>5. call' \in [Profile -> CallRow]
  BY <1>1, <1>4, ZenonT(60) DEF PInv, ClientTypeOK
<1>6. \A j \in Profile : call'[j].cred = call[j].cred
  <2>1. CASE call' = [call EXCEPT ![k].result = "RATE_LIMITED"]
    BY <2>1 DEF PInv, ClientTypeOK, CallRow
  <2>2. ASSUME NEW p \in Pairing, call' = [call EXCEPT ![k].result = "CREATED", ![k].pairing = {p}]
        PROVE  \A j \in Profile : call'[j].cred = call[j].cred
    BY <2>2 DEF PInv, ClientTypeOK, CallRow
  <2> QED BY <1>1, <2>1, <2>2
<1>7. UNCHANGED <<gen, customer, key>>
  BY <1>1 DEF ivars, CreatePairing
<1>8. ClientTypeOK'
  BY <1>1, <1>5 DEF PInv, ClientTypeOK, ServesRest
<1>9. UsableIsEnrolled' /\ CredentialsArePast'
  BY <1>1, <1>6, <1>7 DEF PInv, UsableIsEnrolled, CredentialsArePast, Enrolled, Owned
<1> QED BY <1>2, <1>3, <1>8, <1>9 DEF PInv

LEMMA ServeAuths ==
  ASSUME PInv, NEW k \in Profile, NEW r \in CallRow, NEW answers \in BOOLEAN,
         Serve(k, r, answers), ServesRest(k), r.kind = "AUTH"
  PROVE  PInv' /\ [INext]_ivars
<1> USE RowTypes
<1>1. /\ UNCHANGED ivars /\ UNCHANGED mem
      /\ \/ call' = call
         \/ call' = [call EXCEPT ![k].result = AuthResult(k),
                       ![k].cred = IF key[k].status = "none" THEN NoToken ELSE Fresh(k)]
  BY DEF Serve
<1>2. IInv'
  BY <1>1, IStepInvariant DEF PInv
<1>3. UNCHANGED <<gen, customer, key>> /\ gen \in Int /\ 0 < gen /\ key[k] \in KeyRow
  BY <1>1 DEF ivars, PInv, IInv, ITypeOK, Gens
<1>4. Fresh(k) \in Token /\ Fresh(k).gen = key[k].gen /\ Fresh(k).gen <= gen
  BY <1>2, <1>3, FreshType
<1>5. AuthResult(k) \in Results
  BY DEF AuthResult, Results
<1> DEFINE c == IF key[k].status = "none" THEN NoToken ELSE Fresh(k)
<1>6. c \in Token /\ c.gen <= gen
  BY <1>3, <1>4
<1>7. c.live /\ c.gen = gen => Enrolled(k) /\ Owned
  BY <1>3, <1>4 DEF PInv, IInv, EnrolledIsOwned, CredentialsArePast, Enrolled, KeyRow
<1> HIDE DEF c
<1>8. /\ call' \in [Profile -> CallRow]
      /\ \A j \in Profile : call'[j].cred \in {call[j].cred} \cup (IF j = k THEN {c} ELSE {})
  <2>1. CASE call' = call
    BY <2>1 DEF PInv, ClientTypeOK
  <2>2. CASE call' = [call EXCEPT ![k].result = AuthResult(k), ![k].cred = c]
    <3>1. [call[k] EXCEPT !.result = AuthResult(k), !.cred = c] \in CallRow
      BY <1>5, <1>6, ZenonT(60) DEF PInv, ClientTypeOK, CallRow
    <3>2. call' \in [Profile -> CallRow]
      BY <2>2, <3>1 DEF PInv, ClientTypeOK
    <3>3. call'[k].cred = c /\ \A j \in Profile : j # k => call'[j] = call[j]
      BY <2>2 DEF PInv, ClientTypeOK, CallRow
    <3> QED BY <3>2, <3>3
  <2> QED BY <1>1, <2>1, <2>2 DEF c
<1>9. ClientTypeOK'
  BY <1>1, <1>8 DEF PInv, ClientTypeOK, ServesRest
<1>10. UsableIsEnrolled' /\ CredentialsArePast'
  BY <1>1, <1>3, <1>6, <1>7, <1>8 DEF PInv, UsableIsEnrolled, CredentialsArePast, Enrolled, Owned
<1> QED BY <1>1, <1>2, <1>9, <1>10 DEF PInv

LEMMA RevokeKeeps ==
  ASSUME ClientTypeOK, NEW ks \in SUBSET Profile, RevokeAll(ks)
  PROVE  /\ mem' \in [Profile -> MemRow]
         /\ \A j \in Profile : mem'[j].cred = IF j \in ks THEN Revoked(mem[j].cred) ELSE mem[j].cred
<1>1. \A j \in Profile : /\ mem[j].cred \in Token /\ Revoked(mem[j].cred) \in Token
  BY DEF ClientTypeOK, MemRow, Token, Revoked
<1>2. \A j \in Profile : [mem[j] EXCEPT !.cred = Revoked(mem[j].cred)] \in MemRow
  BY <1>1 DEF ClientTypeOK, MemRow
<1>3. mem' \in [Profile -> MemRow]
  BY <1>2 DEF RevokeAll, ClientTypeOK
<1>4. \A j \in Profile : mem'[j].cred = IF j \in ks THEN Revoked(mem[j].cred) ELSE mem[j].cred
  BY <1>1 DEF RevokeAll, ClientTypeOK, MemRow
<1> QED BY <1>3, <1>4

LEMMA ServePickups ==
  ASSUME PInv, NEW k \in Profile, NEW r \in CallRow, NEW answers \in BOOLEAN,
         Serve(k, r, answers), ServesRest(k), r.kind = "CONFIRM"
  PROVE  PInv' /\ [INext]_ivars
<1> USE RowTypes
<1>0. r.pairing \subseteq Pairing
  BY DEF CallRow
<1>1. PICK p \in Pairing :
          /\ Pickup(p, k)
          /\ IF PickupResult(p, k) = "ENROLLED"
             THEN /\ RevokeAll({k})
                  /\ call' = IF answers
                             THEN [call EXCEPT ![k].result = "ENROLLED", ![k].cred = Fresh(k)]
                             ELSE [call EXCEPT ![k].cred = Revoked(call[k].cred)]
             ELSE /\ UNCHANGED mem
                  /\ call' = IF answers THEN [call EXCEPT ![k].result = PickupResult(p, k)] ELSE call
  BY <1>0 DEF Serve
<1>2. [INext]_ivars
  BY <1>1 DEF INext
<1>3. IInv'
  BY <1>2, IStepInvariant DEF PInv
<1>4. call[k] \in CallRow /\ call[k].cred \in Token /\ PickupResult(p, k) \in Results
      /\ Fresh(k) \in Token /\ "ENROLLED" \in Results
  BY <1>3, FreshType DEF PInv, ClientTypeOK, CallRow, PickupResult, Results
<1>5. gen \in Int /\ 0 < gen
  BY DEF PInv, IInv, ITypeOK, Gens
<1>6. CASE PickupResult(p, k) = "ENROLLED"
  <2>1. /\ gen' = gen /\ customer' = customer /\ Owned
        /\ key'[k] = [status |-> "ACTIVE", gen |-> gen]
        /\ \A j \in Profile : j # k => key'[j] = key[j]
    <3>1. Owned
      BY <1>6 DEF PickupResult
    <3>2. CASE pair[p].status = "BROWSER_CONFIRMED"
      BY <1>1, <1>6, <3>1, <3>2 DEF Pickup, PInv, IInv, ITypeOK
    <3>3. CASE pair[p].status # "BROWSER_CONFIRMED"
      <4>1. Enrolled(k) /\ UNCHANGED ivars
        BY <1>1, <1>6, <3>3 DEF Pickup, PickupResult
      <4>2. key[k] = [status |-> "ACTIVE", gen |-> gen]
        BY <4>1 DEF Enrolled, PInv, IInv, ITypeOK, KeyRow
      <4> QED BY <3>1, <4>1, <4>2 DEF ivars
    <3> QED BY <3>2, <3>3
  <2>2. RevokeAll({k})
    BY <1>1, <1>6
  <2>3. Revoked(call[k].cred) \in Token /\ Revoked(call[k].cred).live = FALSE
        /\ Revoked(call[k].cred).gen <= gen
    BY <1>4 DEF Revoked, Token, PInv, CredentialsArePast
  <2>4. /\ call' \in [Profile -> CallRow]
        /\ call'[k].cred \in {Fresh(k), Revoked(call[k].cred)}
        /\ \A j \in Profile : j # k => call'[j] = call[j]
    <3>1. CASE answers
      <4>1. call' = [call EXCEPT ![k].result = "ENROLLED", ![k].cred = Fresh(k)]
        BY <1>1, <1>6, <3>1
      <4>2. [call[k] EXCEPT !.result = "ENROLLED", !.cred = Fresh(k)] \in CallRow
        BY <1>4 DEF CallRow
      <4>3. call' \in [Profile -> CallRow]
        BY <4>1, <4>2 DEF PInv, ClientTypeOK
      <4>4. call'[k].cred = Fresh(k) /\ \A j \in Profile : j # k => call'[j] = call[j]
        BY <4>1 DEF PInv, ClientTypeOK, CallRow
      <4> QED BY <4>3, <4>4
    <3>2. CASE ~answers
      <4>1. call' = [call EXCEPT ![k].cred = Revoked(call[k].cred)]
        BY <1>1, <1>6, <3>2
      <4>2. [call[k] EXCEPT !.cred = Revoked(call[k].cred)] \in CallRow
        BY <1>4, <2>3 DEF CallRow
      <4>3. call' \in [Profile -> CallRow]
        BY <4>1, <4>2 DEF PInv, ClientTypeOK
      <4>4. call'[k].cred = Revoked(call[k].cred) /\ \A j \in Profile : j # k => call'[j] = call[j]
        BY <4>1 DEF PInv, ClientTypeOK, CallRow
      <4> QED BY <4>3, <4>4
    <3> QED BY <3>1, <3>2
  <2>5. /\ mem' \in [Profile -> MemRow]
        /\ mem'[k].cred = Revoked(mem[k].cred)
        /\ \A j \in Profile : j # k => mem'[j].cred = mem[j].cred
    BY <2>2, RevokeKeeps DEF PInv
  <2>6. Revoked(mem[k].cred).live = FALSE /\ Revoked(mem[k].cred).gen <= gen
    BY DEF Revoked, PInv, CredentialsArePast
  <2>7. Fresh(k).gen <= gen'
    BY <1>3, FreshType
  <2>8. Enrolled(k)' /\ Owned' /\ \A j \in Profile : j # k => (Enrolled(j)' <=> Enrolled(j))
    BY <2>1 DEF Enrolled, Owned
  <2>9. ClientTypeOK'
    BY <2>4, <2>5 DEF PInv, ClientTypeOK, ServesRest
  <2>10. UsableIsEnrolled'
    BY <2>1, <2>3, <2>4, <2>5, <2>6, <2>8 DEF PInv, UsableIsEnrolled
  <2>11. CredentialsArePast'
    BY <2>1, <2>3, <2>4, <2>5, <2>6, <2>7 DEF PInv, CredentialsArePast
  <2> QED BY <1>2, <1>3, <2>9, <2>10, <2>11 DEF PInv
<1>7. CASE PickupResult(p, k) # "ENROLLED"
  <2>1. UNCHANGED ivars /\ UNCHANGED mem
    BY <1>1, <1>7 DEF Pickup
  <2>2. call' = call \/ call' = [call EXCEPT ![k].result = PickupResult(p, k)]
    BY <1>1, <1>7
  <2>3. [call[k] EXCEPT !.result = PickupResult(p, k)] \in CallRow
    BY <1>4 DEF CallRow
  <2>4. call' \in [Profile -> CallRow]
    BY <2>2, <2>3 DEF PInv, ClientTypeOK
  <2>5. \A j \in Profile : call'[j].cred = call[j].cred
    BY <2>2 DEF PInv, ClientTypeOK, CallRow
  <2>6. ClientTypeOK'
    BY <2>1, <2>4 DEF PInv, ClientTypeOK, ServesRest
  <2>7. UsableIsEnrolled' /\ CredentialsArePast'
    BY <2>1, <2>5 DEF ivars, PInv, UsableIsEnrolled, CredentialsArePast, Enrolled, Owned
  <2> QED BY <1>2, <1>3, <2>6, <2>7 DEF PInv
<1> QED BY <1>6, <1>7

LEMMA ServeKeeps ==
  ASSUME PInv, NEW k \in Profile, ServeCall(k) \/ ServeLate(k)
  PROVE  PInv' /\ [INext]_ivars
<1>1. PICK r \in CallRow, answers \in BOOLEAN : Serve(k, r, answers)
  BY DEF ServeCall, ServeLate, PInv, ClientTypeOK
<1>2. late' \in [Profile -> SUBSET CallRow]
  BY DEF ServeCall, ServeLate, PInv, ClientTypeOK
<1>3. ServesRest(k)
  BY <1>2 DEF ServeCall, ServeLate, ServesRest
<1>4. r.kind \in {"PAIR", "CONFIRM", "AUTH"}
  BY <1>1 DEF Serve
<1> QED BY <1>1, <1>3, <1>4, ServePairs, ServePickups, ServeAuths

\* The reset ends the credentials of the keys of the generation that ends.
LEMMA ResetKeeps == ASSUME PInv, ResetDevice PROVE PInv' /\ [INext]_ivars
<1> DEFINE ks == {k \in Profile : key[k].gen = gen}
<1>1. Reset /\ RevokeAll(ks)
      /\ call' = [k \in Profile |-> IF k \in ks THEN [call[k] EXCEPT !.cred = Revoked(call[k].cred)]
                                    ELSE call[k]]
      /\ UNCHANGED <<pending, stored, dialog, op, late, faults>>
  BY DEF ResetDevice
<1>2. [INext]_ivars /\ IInv'
  BY <1>1, IStepInvariant DEF INext, PInv
<1>3. gen' = gen + 1 /\ gen \in Int /\ \A k \in Profile : key[k].gen \in Int /\ key[k].gen <= gen
  BY <1>1 DEF Reset, PInv, IInv, ITypeOK, Gens, KeyRow, KeysRemember
<1>4. \A k \in Profile : key'[k].gen = key[k].gen
  BY <1>1 DEF Reset, KeyAfter, PInv, IInv, ITypeOK, KeyRow
<1>5. ks \in SUBSET Profile
  OBVIOUS
<1> HIDE DEF ks
<1>6. \A k \in Profile : Revoked(call[k].cred) \in Token /\ Revoked(call[k].cred).gen = call[k].cred.gen
                         /\ Revoked(mem[k].cred).gen = mem[k].cred.gen
                         /\ call[k].cred.gen \in Int /\ mem[k].cred.gen \in Int
  BY DEF Revoked, Token, PInv, ClientTypeOK, CallRow, MemRow
<1>7. \A k \in Profile : [call[k] EXCEPT !.cred = Revoked(call[k].cred)] \in CallRow
  BY <1>6, ZenonT(60) DEF PInv, ClientTypeOK, CallRow
<1>8. call' \in [Profile -> CallRow]
  BY <1>1, <1>7 DEF PInv, ClientTypeOK
<1>9. \A k \in Profile : call'[k].cred \in {call[k].cred, Revoked(call[k].cred)}
  BY <1>1 DEF PInv, ClientTypeOK, CallRow
<1>10. /\ mem' \in [Profile -> MemRow]
       /\ \A k \in Profile : mem'[k].cred \in {mem[k].cred, Revoked(mem[k].cred)}
  BY <1>1, <1>5, RevokeKeeps DEF PInv
<1>11. ClientTypeOK'
  BY <1>1, <1>8, <1>10 DEF PInv, ClientTypeOK
<1>12. \A k \in Profile : /\ call'[k].cred.gen \in Int /\ call'[k].cred.gen <= gen
                          /\ mem'[k].cred.gen \in Int /\ mem'[k].cred.gen <= gen
  BY <1>6, <1>9, <1>10 DEF PInv, CredentialsArePast
<1>13. UsableIsEnrolled'
  BY <1>3, <1>12 DEF UsableIsEnrolled
<1>14. CredentialsArePast'
  BY <1>3, <1>4, <1>12 DEF CredentialsArePast
<1> QED BY <1>2, <1>11, <1>13, <1>14 DEF PInv

-----------------------------------------------------------------------------
(* The theorems.                                                           *)

LEMMA PInitInvariant == PInit => PInv
<1> SUFFICES ASSUME PInit PROVE PInv
  OBVIOUS
<1> USE RowTypes, FaultBound DEF PInit
<1>1. IInv
  BY IInitInvariant
<1>2. ClientTypeOK
  BY DEF ClientTypeOK, Ops
<1>3. gen \in Int /\ 0 < gen /\ \A k \in Profile : key[k].status = "none"
  BY DEF IInit
<1>4. UsableIsEnrolled
  BY <1>3 DEF UsableIsEnrolled
<1>5. CredentialsArePast
  BY <1>3 DEF CredentialsArePast
<1> QED BY <1>1, <1>2, <1>4, <1>5 DEF PInv

\* The browser and the clock: nothing of the client changes, and no key.
LEMMA BrowserKeeps ==
  ASSUME PInv, UNCHANGED cvars,
         \/ BrowserStep
         \/ \E p \in Pairing : PairingExpires(p)
  PROVE  PInv' /\ [INext]_ivars
<1>1. [INext]_ivars
  BY DEF INext
<1>2. IInv'
  BY <1>1, IStepInvariant DEF PInv
<1>3. UNCHANGED <<gen, key>> /\ (customer' = customer \/ customer' = [customer EXCEPT ![gen] = "ACTIVE"])
  BY DEF BrowserStep, PairingExpires, RequestClaimOtp, CodeExpires, Cancel, ClaimCommit, ClaimFails,
         ClaimRead, SignIn, SignOut
<1>4. Owned => Owned'
  BY <1>3 DEF Owned, PInv, IInv, ITypeOK
<1>5. ClientTypeOK' /\ UsableIsEnrolled' /\ CredentialsArePast'
  BY <1>3, <1>4 DEF cvars, PInv, ClientTypeOK, UsableIsEnrolled, CredentialsArePast, Enrolled
<1> QED BY <1>1, <1>2, <1>5 DEF PInv

LEMMA PStepInvariant == PInv /\ [PNext]_pvars => PInv' /\ [INext]_ivars
<1>1. ASSUME PInv, UNCHANGED pvars PROVE PInv' /\ [INext]_ivars
  <2>1. UNCHANGED ivars /\ UNCHANGED cvars
    BY <1>1 DEF pvars
  <2>2. IInv'
    BY <1>1, <2>1, IStepInvariant DEF PInv
  <2>3. ClientTypeOK' /\ UsableIsEnrolled' /\ CredentialsArePast'
    BY <1>1, <2>1 DEF ivars, cvars, PInv, ClientTypeOK, UsableIsEnrolled, CredentialsArePast, Enrolled, Owned
  <2> QED BY <2>1, <2>2, <2>3 DEF PInv
<1>2. ASSUME PInv, NEW k \in Profile, ClientStep(k) PROVE PInv' /\ [INext]_ivars
  <2>1. UNCHANGED ivars
    BY <1>2 DEF ClientStep, Goes, Connect, Get, Resumed, Begin, Complete, PairAnswered, PickupAnswered,
            Clear, AuthAnswered, CredentialExpires, GiveUp, Crash, CloseDialog
  <2> QED BY <1>2, <2>1, ClientStepKeeps
<1> QED BY <1>1, <1>2, BrowserKeeps, ResetKeeps, ServeKeeps DEF PNext, ClientStep

LEMMA ProvisioningInvariant == PSpec => []PInv
<1> QED BY PInitInvariant, PStepInvariant, PTL DEF PSpec

\* The rows of the server and the state of the desktop keep their types: no call is
\* left without an answer that its reader does not know.
THEOREM ProvisioningTypeCorrect == PSpec => []PTypeOK
<1>1. PInv => PTypeOK
  BY DEF PInv, IInv, PTypeOK, ClientTypeOK
<1> QED BY <1>1, ProvisioningInvariant, PTL

\* Whatever calls are lost, repeated or late, and wherever the desktop ends, the
\* server goes through pairing, claim, pickup and reset as Identity says.
THEOREM ProvisioningUsesIdentity == PSpec => ISpec
<1>1. PInit => IInit
  BY DEF PInit
<1>2. PSpec => [][INext]_ivars
  BY PStepInvariant, ProvisioningInvariant, PTL DEF PSpec
<1> QED BY <1>1, <1>2, PTL DEF PSpec, ISpec

\* With the desktop and its faults, a reset still leaves nothing enrolled or approved
\* behind.
THEOREM EnrolmentStaysOwned == PSpec => []EnrolledIsOwned
<1> QED BY ProvisioningUsesIdentity, EnrolmentIsOwned, PTL

\* With the desktop and its faults, an account still takes exactly one code.
THEOREM AccountStillTakesOneCode == PSpec => []OneCodeOneAccount
<1> QED BY ProvisioningUsesIdentity, AccountTakesOneCode, PTL

\* A pickup that the desktop repeats, or that arrives late, enrols no key again.
THEOREM RepeatedPickupEnrolsOnce == PSpec => []EnrolledOnce
<1> QED BY ProvisioningUsesIdentity, KeyEnrolsOnce, PTL

\* Every pairing that the desktop waits for is approved by the owner or by the one
\* who becomes it.
THEOREM OwnersApprove == PSpec => ApprovedByOwner
<1> QED BY ProvisioningUsesIdentity, ApprovalIsTheOwners, PTL

\* A credential that is accepted belongs to an enrolled key of an owned device: the
\* reset and a second pickup leave none behind, not even in an answer on its way.
THEOREM UsableCredentialsAreEnrolled == PSpec => []UsableIsEnrolled
<1>1. PInv => UsableIsEnrolled
  BY DEF PInv
<1> QED BY <1>1, ProvisioningInvariant, PTL
=============================================================================
