------------------------------ MODULE Identity ------------------------------
(***************************************************************************)
(* Who owns a device: its generations and their accounts, the pairings     *)
(* that browsers approve, and the keys that are enrolled by picking an     *)
(* approved pairing up. One device; what other devices do is apart.        *)
(*                                                                         *)
(* A transaction is one action: pairing, claim, pickup and the Admin's     *)
(* reset all lock the row of the device first. What a browser read before  *)
(* its transaction is state of its own (claim). A generation has at most   *)
(* one account (UNIQUE(device_id, generation)), named by the generation;   *)
(* a key belongs to one Windows profile and is named by it.                *)
(*                                                                         *)
(* An operator under a "slip:" comment is a plausible mistake in the       *)
(* definition of the same idea below it; no action uses it.                *)
(***************************************************************************)
EXTENDS Integers

CONSTANTS
  Pairing,   \* rows of pairings
  Profile,   \* Windows profiles of the device, each with its key
  Browser,   \* calls of claim
  MaxGen     \* bound: generations of the device

ASSUME GenBound == MaxGen \in Nat \ {0}

VARIABLES
  gen,       \* devices.generation
  customer,  \* the account of each generation
  session,   \* the accounts with a live browser session
  pair,      \* pairings
  code,      \* the newest CLAIM code of each pairing
  key,       \* device_keys
  history,   \* device_enrollment_history, counted
  claim      \* what each call of claim has read

ivars == <<gen, customer, session, pair, code, key, history, claim>>

-----------------------------------------------------------------------------

Gens == 1..MaxGen
\* A pairing is open until it expires or is cancelled; nothing tells these apart.
PairRow == [status: {"none", "PENDING", "BROWSER_CONFIRMED", "CONSUMED"},
            gen: 0..MaxGen, profiles: SUBSET Profile, open: BOOLEAN]
KeyRow == [status: {"none", "ACTIVE", "REVOKED"}, gen: 0..MaxGen]
\* by: the way the caller proves who he is.
ClaimRow == [stage: {"idle", "read"}, pairings: SUBSET Pairing, by: {"code", "session"}]
NoClaim == [stage |-> "idle", pairings |-> {}, by |-> "code"]

IInit ==
  /\ gen = 1
  /\ customer = [g \in Gens |-> "none"] /\ session = {}
  /\ pair = [p \in Pairing |-> [status |-> "none", gen |-> 0, profiles |-> {}, open |-> FALSE]]
  /\ code = [p \in Pairing |-> "none"]
  /\ key = [k \in Profile |-> [status |-> "none", gen |-> 0]]
  /\ history = [k \in Profile |-> [g \in Gens |-> 0]]
  /\ claim = [b \in Browser |-> NoClaim]

Owned == customer[gen] = "ACTIVE"
Enrolled(k) == key[k].status = "ACTIVE" /\ key[k].gen = gen

-----------------------------------------------------------------------------
(* The browser.                                                            *)

CreatePairing(p, k) ==
  /\ pair[p].status = "none"
  /\ pair' = [pair EXCEPT ![p] = [status |-> "PENDING", gen |-> gen,
                                  profiles |-> {k}, open |-> TRUE]]
  /\ UNCHANGED <<gen, customer, session, code, key, history, claim>>

\* validateBrowser and the generation.
Approvable(p) == pair[p].status = "PENDING" /\ pair[p].open /\ pair[p].gen = gen

\* The SMS with the code arrives; a newer code replaces an older one (Otp).
RequestClaimOtp(p) ==
  /\ Approvable(p) /\ ~Owned /\ code[p] = "none"
  /\ code' = [code EXCEPT ![p] = "usable"]
  /\ UNCHANGED <<gen, customer, session, pair, key, history, claim>>

CodeExpires(p) ==
  /\ code[p] = "usable"
  /\ code' = [code EXCEPT ![p] = "none"]
  /\ UNCHANGED <<gen, customer, session, pair, key, history, claim>>

\* claim before its transaction: nothing is locked. With an owner the caller has
\* to be the owner, else he has a code that was admitted.
ClaimRead(b, p) ==
  /\ claim[b].stage = "idle" /\ Approvable(p)
  /\ \E by \in {"code", "session"} :
       /\ IF Owned THEN by = "session" /\ gen \in session
                   ELSE by = "code" /\ code[p] = "usable"
       /\ claim' = [claim EXCEPT ![b] = [stage |-> "read", pairings |-> {p}, by |-> by]]
  /\ UNCHANGED <<gen, customer, session, pair, code, key, history>>

\* slip: the transaction trusts what was read before it.
ProvesAsRead(b, p) == TRUE
\* The owner's session is still live; without an owner the code is still unused.
Proves(b, p) == IF Owned THEN claim[b].by = "session" /\ gen \in session
                         ELSE claim[b].by = "code" /\ code[p] = "usable"

\* slip: the code is not consumed with the account it creates.
CodeAfterUnused(b, p) == code
CodeAfter(b, p) == IF Owned THEN code ELSE [code EXCEPT ![p] = "used"]

\* The transaction: the account if there is none, with its first session.
ClaimCommit(b) ==
  /\ claim[b].stage = "read"
  /\ \E p \in claim[b].pairings :
       /\ Approvable(p) /\ Proves(b, p)
       /\ code' = CodeAfter(b, p)
       /\ pair' = [pair EXCEPT ![p].status = "BROWSER_CONFIRMED"]
  /\ customer' = [customer EXCEPT ![gen] = "ACTIVE"]
  /\ session' = session \cup {gen}
  /\ claim' = [claim EXCEPT ![b] = NoClaim]
  /\ UNCHANGED <<gen, key, history>>

\* A check of the transaction fails, or anything before it.
ClaimFails(b) ==
  /\ claim[b].stage = "read"
  /\ claim' = [claim EXCEPT ![b] = NoClaim]
  /\ UNCHANGED <<gen, customer, session, pair, code, key, history>>

Cancel(p) ==
  /\ pair[p].status \in {"PENDING", "BROWSER_CONFIRMED"} /\ pair[p].open
  /\ pair' = [pair EXCEPT ![p].open = FALSE]
  /\ UNCHANGED <<gen, customer, session, code, key, history, claim>>

PairingExpires(p) ==
  /\ pair[p].open
  /\ pair' = [pair EXCEPT ![p].open = FALSE]
  /\ UNCHANGED <<gen, customer, session, code, key, history, claim>>

\* The owner signs in or out in a browser.
SignIn ==
  /\ Owned /\ session' = session \cup {gen}
  /\ UNCHANGED <<gen, customer, pair, code, key, history, claim>>
SignOut ==
  /\ session' = session \ {gen}
  /\ UNCHANGED <<gen, customer, pair, code, key, history, claim>>

-----------------------------------------------------------------------------
(* The desktop's proofs of its key.                                        *)

\* slip: a key that is enrolled already is enrolled again.
EnrollableAgain(k) == TRUE
Enrollable(k) == key[k].gen < gen

\* slip: a pairing that was approved in time is picked up at any time.
ReadyUnexpired(p, k) == k \in pair[p].profiles /\ pair[p].gen = gen
Ready(p, k) == pair[p].open /\ k \in pair[p].profiles /\ pair[p].gen = gen

PickupResult(p, k) ==
  CASE ~Ready(p, k) -> "PAIRING_INVALID"
    [] Ready(p, k) /\ pair[p].status = "PENDING" -> "PENDING"
    [] Ready(p, k) /\ pair[p].status = "BROWSER_CONFIRMED" /\ Owned ->
         IF Enrollable(k) THEN "ENROLLED" ELSE "KEY_ALREADY_ENROLLED"
    [] Ready(p, k) /\ pair[p].status = "CONSUMED" /\ Owned ->
         IF Enrolled(k) THEN "ENROLLED" ELSE "PAIRING_INVALID"
    [] OTHER -> "PAIRING_INVALID"

\* The first pickup enrols the key, a repeated one only hands out a credential.
Pickup(p, k) ==
  IF PickupResult(p, k) = "ENROLLED" /\ pair[p].status = "BROWSER_CONFIRMED"
  THEN /\ key' = [key EXCEPT ![k] = [status |-> "ACTIVE", gen |-> gen]]
       /\ history' = [history EXCEPT ![k][gen] = history[k][gen] + 1]
       /\ pair' = [pair EXCEPT ![p].status = "CONSUMED"]
       /\ UNCHANGED <<gen, customer, session, code, claim>>
  ELSE UNCHANGED ivars

AuthResult(k) ==
  IF key[k].status = "none" THEN "ENROLLMENT_REQUIRED"
  ELSE IF Enrolled(k) /\ Owned THEN "desktop" ELSE "tombstone_only"

-----------------------------------------------------------------------------
(* The Admin's reset: the device goes to its next generation.              *)

\* slip: only the pairings that wait for a browser are cancelled.
OpenAfterPending(p) == pair[p].open /\ (pair[p].gen # gen \/ pair[p].status # "PENDING")
OpenAfter(p) == pair[p].open /\ pair[p].gen # gen

KeyAfter(k) == IF key[k].gen = gen THEN [key[k] EXCEPT !.status = "REVOKED"] ELSE key[k]

Reset ==
  /\ Owned /\ gen < MaxGen
  /\ customer' = [customer EXCEPT ![gen] = "RESET"]
  /\ session' = session \ {gen}
  /\ key' = [k \in Profile |-> KeyAfter(k)]
  /\ pair' = [p \in Pairing |-> [pair[p] EXCEPT !.open = OpenAfter(p)]]
  /\ gen' = gen + 1
  /\ UNCHANGED <<code, history, claim>>

BrowserStep ==
  \/ \E p \in Pairing : RequestClaimOtp(p) \/ CodeExpires(p) \/ Cancel(p)
  \/ \E b \in Browser : ClaimCommit(b) \/ ClaimFails(b) \/ \E p \in Pairing : ClaimRead(b, p)
  \/ SignIn \/ SignOut

\* The desktop's calls in any order: what Provisioning refines.
INext ==
  \/ BrowserStep \/ Reset
  \/ \E p \in Pairing : PairingExpires(p)
                        \/ \E k \in Profile : CreatePairing(p, k) \/ Pickup(p, k)

ISpec == IInit /\ [][INext]_ivars

-----------------------------------------------------------------------------
(* Properties.                                                             *)

ITypeOK ==
  /\ gen \in Gens
  /\ customer \in [Gens -> {"none", "ACTIVE", "RESET"}]
  /\ session \subseteq Gens
  /\ pair \in [Pairing -> PairRow]
  /\ code \in [Pairing -> {"none", "usable", "used"}]
  /\ key \in [Profile -> KeyRow]
  /\ history \in [Profile -> [Gens -> Nat]]
  /\ claim \in [Browser -> ClaimRow]

\* A key is active, and a pairing approved and still open, only for the account
\* that owns the device now: a reset ends all of them, whatever was under way.
EnrolledIsOwned ==
  /\ \A k \in Profile : key[k].status = "ACTIVE" => key[k].gen = gen /\ Owned
  /\ \A p \in Pairing : pair[p].open => pair[p].gen = gen
                        /\ (pair[p].status # "PENDING" => Owned)
  /\ session \subseteq {g \in Gens : customer[g] = "ACTIVE"}

\* An account and the code that proved its telephone number come together: every
\* generation that ever had an owner used exactly one code, whoever raced.
OneCodeOneAccount ==
  \A g \in Gens : LET proofs == {p \in Pairing : pair[p].gen = g /\ code[p] = "used"}
                  IN  /\ customer[g] = "none" <=> proofs = {}
                      /\ \A p, q \in proofs : p = q

\* A pairing is approved by the owner, or by the one who becomes the owner with it:
\* who read an unowned device and loses the race for it approves nothing.
ApprovedByOwner ==
  [][\A p \in Pairing :
       pair[p].status = "PENDING" /\ pair'[p].status = "BROWSER_CONFIRMED"
       => \/ gen \in session
          \/ ~Owned /\ code[p] = "usable" /\ code'[p] = "used"]_ivars

\* A generation enrols a key once, by one approved pairing, however often the
\* pickup is repeated.
EnrolledOnce ==
  \A k \in Profile, g \in Gens :
    LET used == {p \in Pairing : /\ pair[p].gen = g /\ k \in pair[p].profiles
                                 /\ pair[p].status = "CONSUMED"}
    IN  /\ history[k][g] = IF used = {} THEN 0 ELSE 1
        /\ \A p, q \in used : p = q
=============================================================================
