------------------------------ MODULE Notices ------------------------------
(***************************************************************************)
(* Notices of sign-ins, password changes and purchases: events of the      *)
(* outbox that some process claims, and then sends as SMS.                 *)
(*                                                                         *)
(* The claim is a statement of its own before the provider is called, so   *)
(* what a process holds when it ends is never sent, and nothing is sent    *)
(* twice. Sending one event is three actions, since reading the recipient, *)
(* the provider's call and the audit entry are awaits of their own.        *)
(***************************************************************************)
EXTENDS Integers, Sequences

CONSTANTS
  Event,     \* rows of outbox_events with a type that is sent
  Worker,    \* processes that drain the outbox
  Batch      \* events claimed at once (10)

ASSUME BatchBound == Batch \in Nat \ {0}

VARIABLES
  outbox,    \* the unclaimed events, oldest first
  raised,    \* the events that were ever inserted
  batch,     \* what each process has claimed and not finished, Head first
  sending,   \* where each process is with the head of its batch
  closed,    \* the processes that no longer drain
  arrived,   \* how often the provider took the SMS of an event
  outcome    \* the audit entry of an event

nvars == <<outbox, raised, batch, sending, closed, arrived, outcome>>

-----------------------------------------------------------------------------

Outcomes == {"none", "sent", "skipped", "unavailable"}
SendStages == {"read", "call", "sent", "skipped", "unavailable"}

NInit ==
  /\ outbox = <<>> /\ raised = {} /\ closed = {}
  /\ batch = [w \in Worker |-> <<>>]
  /\ sending = [w \in Worker |-> "read"]
  /\ arrived = [e \in Event |-> 0]
  /\ outcome = [e \in Event |-> "none"]

\* The event commits with the sign-in or the change it tells of.
Raise(e) ==
  /\ e \notin raised
  /\ raised' = raised \cup {e} /\ outbox' = Append(outbox, e)
  /\ UNCHANGED <<batch, sending, closed, arrived, outcome>>

\* The oldest n events are marked; rows another process marks are skipped.
Claimed(n) == SubSeq(outbox, n + 1, Len(outbox))

\* drain, called by the timer while no earlier call is active.
Drain(w) ==
  /\ w \notin closed /\ batch[w] = <<>> /\ outbox # <<>>
  /\ LET n == IF Batch < Len(outbox) THEN Batch ELSE Len(outbox)
     IN  /\ batch' = [batch EXCEPT ![w] = SubSeq(outbox, 1, n)]
         /\ outbox' = Claimed(n)
  /\ UNCHANGED <<raised, sending, closed, arrived, outcome>>

\* No recipient if the event is too old, the account is not active or has no number.
ReadRecipient(w) ==
  /\ batch[w] # <<>> /\ sending[w] = "read"
  /\ \E s \in {"call", "skipped", "unavailable"} : sending' = [sending EXCEPT ![w] = s]
  /\ UNCHANGED <<outbox, raised, batch, closed, arrived, outcome>>

\* slip: a refusal of the provider is no error.
ReportedAnyway(took) == {"sent", "unavailable"}
\* What the caller learns; an answer that is lost leaves open whether the SMS went out.
Reported(took) == IF took THEN {"sent", "unavailable"} ELSE {"unavailable"}

CallProvider(w) ==
  /\ batch[w] # <<>> /\ sending[w] = "call"
  /\ \E took \in BOOLEAN : \E s \in Reported(took) :
       /\ sending' = [sending EXCEPT ![w] = s]
       /\ arrived' = IF took THEN [arrived EXCEPT ![Head(batch[w])] = @ + 1] ELSE arrived
  /\ UNCHANGED <<outbox, raised, batch, closed, outcome>>

\* slip: an event whose call failed is put back.
NextAfterRetry(w) == IF sending[w] = "unavailable" THEN Append(Tail(batch[w]), Head(batch[w]))
                     ELSE Tail(batch[w])
Rest(w) == Tail(batch[w])

\* The audit entry, which may be lost; then the next event of the batch.
Settle(w) ==
  /\ batch[w] # <<>> /\ sending[w] \in {"sent", "skipped", "unavailable"}
  /\ outcome' \in {outcome, [outcome EXCEPT ![Head(batch[w])] = sending[w]]}
  /\ batch' = [batch EXCEPT ![w] = Rest(w)]
  /\ sending' = [sending EXCEPT ![w] = "read"]
  /\ UNCHANGED <<outbox, raised, closed, arrived>>

SendStep(w) == ReadRecipient(w) \/ CallProvider(w) \/ Settle(w)

\* The shutdown clears the timer and waits for the call under way.
Close(w) ==
  /\ closed' = closed \cup {w}
  /\ UNCHANGED <<outbox, raised, batch, sending, arrived, outcome>>

\* The process ends, with what it had claimed, and another one takes its place.
Restart(w) ==
  /\ batch' = [batch EXCEPT ![w] = <<>>]
  /\ sending' = [sending EXCEPT ![w] = "read"]
  /\ closed' = closed \ {w}
  /\ UNCHANGED <<outbox, raised, arrived, outcome>>

NStep ==
  \/ \E e \in Event : Raise(e)
  \/ \E w \in Worker : Drain(w) \/ SendStep(w)

-----------------------------------------------------------------------------
(* Properties.                                                             *)

NTypeOK ==
  /\ outbox \in Seq(Event) /\ raised \subseteq Event
  /\ batch \in [Worker -> Seq(Event)]
  /\ sending \in [Worker -> SendStages]
  /\ closed \subseteq Worker
  /\ arrived \in [Event -> Nat]
  /\ outcome \in [Event -> Outcomes]

\* Delivery is at most once, whatever ends when: a crash, an answer that is lost
\* or a lost audit entry never sends a notice again.
SentAtMostOnce == \A e \in Event : arrived[e] <= 1

\* What the audit says of a notice is what happened to it, and a notice that was
\* skipped stays unsent.
AuditIsTrue ==
  \A e \in Event : /\ outcome[e] = "sent" => arrived[e] = 1
                   /\ outcome[e] = "skipped" => arrived[e] = 0
=============================================================================
