------------------------------- MODULE Codes -------------------------------
(***************************************************************************)
(* What a one-time code promises, without rows, queues or requests: of the *)
(* codes made for one purpose and person only the newest can be used, only *)
(* after the SMS provider took it, only by someone who was admitted to try *)
(* it, and once.                                                           *)
(***************************************************************************)
EXTENDS Naturals

CONSTANTS Code, BindingOf, MaxTries
VARIABLES code,    \* the life of each code
          tries,   \* the attempts that were admitted
          taken    \* the codes whose SMS the provider took

States == {"none", "made", "usable", "spent", "dead"}

Init == /\ code = [c \in Code |-> "none"]
        /\ tries = [c \in Code |-> 0]
        /\ taken = {}

Open(c) == code[c] \in {"made", "usable"}

Make(c) ==
  /\ code[c] = "none"
  /\ code' = [b \in Code |-> IF b = c THEN "made"
                             ELSE IF Open(b) /\ BindingOf[b] = BindingOf[c] THEN "dead"
                             ELSE code[b]]
  /\ UNCHANGED <<tries, taken>>

\* The SMS of a code that meanwhile died may still go out.
Take(c) ==
  /\ code[c] # "none" /\ taken' = taken \cup {c}
  /\ UNCHANGED <<code, tries>>

Deliver(c) ==
  /\ code[c] = "made" /\ c \in taken
  /\ code' = [code EXCEPT ![c] = "usable"]
  /\ UNCHANGED <<tries, taken>>

Try(c) ==
  /\ code[c] # "none" /\ tries[c] < MaxTries
  /\ tries' = [tries EXCEPT ![c] = tries[c] + 1]
  /\ UNCHANGED <<code, taken>>

Spend(c) ==
  /\ code[c] = "usable" /\ tries[c] > 0
  /\ code' = [code EXCEPT ![c] = "spent"]
  /\ UNCHANGED <<tries, taken>>

Expire(c) ==
  /\ Open(c)
  /\ code' = [code EXCEPT ![c] = "dead"]
  /\ UNCHANGED <<tries, taken>>

Next == \E c \in Code : Make(c) \/ Take(c) \/ Deliver(c) \/ Try(c) \/ Spend(c) \/ Expire(c)

Spec == Init /\ [][Next]_<<code, tries, taken>>
=============================================================================
