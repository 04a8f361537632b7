-------------------------------- MODULE Otp --------------------------------
(***************************************************************************)
(* One-time passwords: the rows of otp_challenges, and the queue in the    *)
(* memory of the process that sends them.                                  *)
(*                                                                         *)
(* A request reserves a slot of its lane before its first await and gives  *)
(* it back exactly once, wherever it ends: refused, interrupted, drained   *)
(* at shutdown or delivered. What stands between two awaits is one action; *)
(* a database transaction is one action.                                   *)
(*                                                                         *)
(* A request and the challenge it creates have one name. Rate limits only  *)
(* refuse (Refuse); an exhausted budget makes a request a silent one.      *)
(*                                                                         *)
(* An operator under a "slip:" comment is a plausible mistake in the       *)
(* definition of the same idea below it; no action uses it.                *)
(***************************************************************************)
EXTENDS Integers, Sequences, FiniteSets

CONSTANTS
  Request,     \* calls of issue
  Lane,        \* the customer and the Admin lane
  LaneOf,      \* the lane of a request
  BindingOf,   \* purpose and account, pairing or number a code is bound to
  Real,        \* the requests for an existing account; the rest are decoys
  LaneMax,     \* slots of a lane (20 and 5)
  MaxRunning,  \* deliveries at the same time (4)
  MaxTries,    \* admitted attempts of a code (5)
  Verifier,    \* calls that check a code
  None,
  Disturbances \* of this instance: "crash", "stop", "expiry"

ASSUME LanesAreGiven   == LaneOf \in [Request -> Lane]
ASSUME LaneBound       == LaneMax \in Nat \ {0}
ASSUME RunningBound    == MaxRunning \in Nat \ {0}
ASSUME TriesBound      == MaxTries \in Nat \ {0}
ASSUME NoneIsNoRequest == None \notin Request
ASSUME RealAreRequests == Real \subseteq Request
ASSUME RequestsFinite  == IsFiniteSet(Request)

VARIABLES
  chal,      \* otp_challenges
  job,       \* where each request is in issue, the queue or deliver
  silent,    \* the requests whose job says deliver: false
  pending,   \* the FIFO queue
  drain,     \* what the shutdown took out of the queue
  admitted,  \* the counters of the lanes
  accepting, \* FALSE once the process shuts down
  sms,       \* the challenges whose SMS the provider took
  check      \* the calls of admit and consume

ovars == <<chal, job, silent, pending, drain, admitted, accepting, sms, check>>

-----------------------------------------------------------------------------
(* Rows, jobs and checks.                                                  *)

\* used_at is set in both of the last two states: by a newer request, or by consume.
ChalRow == [state: {"none", "live", "superseded", "consumed"}, delivered: BOOLEAN,
            expired: BOOLEAN, tries: 0..MaxTries]
RunningStages == {"picked", "sending", "accepted", "failed", "over"}
InLane == {"admitted", "stored", "interrupted", "pending", "draining"} \cup RunningStages
JobStages == InLane \cup {"idle", "gone"}
CheckRow == [stage: {"idle", "admitted"}, chal: Request \cup {None}]

NoCheck == [stage |-> "idle", chal |-> None]

OInit ==
  /\ chal = [r \in Request |-> [state |-> "none", delivered |-> FALSE,
                                expired |-> FALSE, tries |-> 0]]
  /\ job = [r \in Request |-> "idle"]
  /\ silent = {} /\ pending = <<>> /\ drain = <<>> /\ sms = {}
  /\ admitted = [l \in Lane |-> 0]
  /\ accepting = TRUE
  /\ check = [v \in Verifier |-> NoCheck]

-----------------------------------------------------------------------------
(* issue.                                                                  *)

\* The slot is reserved before the first await.
Reserve(r) ==
  /\ job[r] = "idle"
  /\ accepting /\ admitted[LaneOf[r]] < LaneMax
  /\ admitted' = [admitted EXCEPT ![LaneOf[r]] = @ + 1]
  /\ job' = [job EXCEPT ![r] = "admitted"]
  /\ UNCHANGED <<chal, silent, pending, drain, accepting, sms, check>>

\* The slot of a request goes back.
Released(r) == [admitted EXCEPT ![LaneOf[r]] = @ - 1]

\* A rate limit, or an error before the challenge is stored.
Refuse(r) ==
  /\ job[r] = "admitted"
  /\ job' = [job EXCEPT ![r] = "gone"]
  /\ admitted' = Released(r)
  /\ UNCHANGED <<chal, silent, pending, drain, accepting, sms, check>>

\* slip: only delivered codes are taken out of use.
SupersedesDelivered(r, q) ==
  BindingOf[q] = BindingOf[r] /\ chal[q].state = "live" /\ chal[q].delivered
Supersedes(r, q) == BindingOf[q] = BindingOf[r] /\ chal[q].state = "live"

\* The transaction under the advisory lock of the binding. A decoy, or a request
\* over the delivery budget, is stored like the others and sends nothing.
Store(r) ==
  /\ job[r] = "admitted"
  /\ chal' = [q \in Request |->
       IF q = r THEN [state |-> "live", delivered |-> FALSE, expired |-> FALSE, tries |-> 0]
       ELSE [chal[q] EXCEPT !.state = IF Supersedes(r, q) THEN "superseded" ELSE @]]
  /\ silent' \in {silent \cup {r}} \cup (IF r \in Real THEN {silent} ELSE {})
  /\ job' = [job EXCEPT ![r] = "stored"]
  /\ UNCHANGED <<pending, drain, admitted, accepting, sms, check>>

\* The jobs a dispatch starts when q is the queue and js are the jobs.
Running(js) == {r \in Request : js[r] \in RunningStages}
Starts(q, js) ==
  LET slots == MaxRunning - Cardinality(Running(js))
  IN  IF ~accepting THEN 0 ELSE IF slots < Len(q) THEN slots ELSE Len(q)

Dispatch(q, js) ==
  LET k == Starts(q, js)
  IN  /\ pending' = SubSeq(q, k + 1, Len(q))
      /\ job' = [r \in Request |-> IF \E i \in 1..k : q[i] = r THEN "picked" ELSE js[r]]

Enqueue(r) ==
  /\ job[r] = "stored" /\ accepting
  /\ Dispatch(Append(pending, r), [job EXCEPT ![r] = "pending"])
  /\ UNCHANGED <<chal, silent, drain, admitted, accepting, sms, check>>

\* The process began to shut down while the challenge was stored.
Interrupt(r) ==
  /\ job[r] = "stored" /\ ~accepting
  /\ job' = [job EXCEPT ![r] = "interrupted"]
  /\ UNCHANGED <<chal, silent, pending, drain, admitted, accepting, sms, check>>

ThrowInterrupted(r) ==
  /\ job[r] = "interrupted"
  /\ job' = [job EXCEPT ![r] = "gone"]
  /\ admitted' = Released(r)
  /\ UNCHANGED <<chal, silent, pending, drain, accepting, sms, check>>

-----------------------------------------------------------------------------
(* deliver.                                                                *)

Sendable(r) == chal[r].state = "live" /\ ~chal[r].delivered /\ ~chal[r].expired

\* The row is read without a lock. Nothing is sent for a dead code, for a decoy,
\* or when the query fails.
Look(r) ==
  /\ job[r] = "picked"
  /\ \/ Sendable(r) /\ r \notin silent /\ job' = [job EXCEPT ![r] = "sending"]
     \/ job' = [job EXCEPT ![r] = "over"]
  /\ UNCHANGED <<chal, silent, pending, drain, admitted, accepting, sms, check>>

\* The provider's answer. An answer that is lost leaves open whether the SMS went out.
Send(r) ==
  /\ job[r] = "sending"
  /\ \/ sms' = sms \cup {r} /\ job' = [job EXCEPT ![r] = "accepted"]
     \/ sms' \in {sms, sms \cup {r}} /\ job' = [job EXCEPT ![r] = "failed"]
  /\ UNCHANGED <<chal, silent, pending, drain, admitted, accepting, check>>

Delivered(r) == job[r] = "accepted"

\* The row is written whatever became of it meanwhile; the write itself may fail.
Record(r) ==
  /\ job[r] \in {"accepted", "failed"}
  /\ chal' \in {[chal EXCEPT ![r].delivered = Delivered(r)], chal}
  /\ job' = [job EXCEPT ![r] = "over"]
  /\ UNCHANGED <<silent, pending, drain, admitted, accepting, sms, check>>

\* slip: the queue is not looked at again.
FinishOnly(r) ==
  /\ job[r] = "over"
  /\ admitted' = Released(r)
  /\ job' = [job EXCEPT ![r] = "gone"]
  /\ UNCHANGED <<chal, silent, pending, drain, accepting, sms, check>>

\* finally: the slot is free again and the next job starts.
Finish(r) ==
  /\ job[r] = "over"
  /\ admitted' = Released(r)
  /\ Dispatch(pending, [job EXCEPT ![r] = "gone"])
  /\ UNCHANGED <<chal, silent, drain, accepting, sms, check>>

-----------------------------------------------------------------------------
(* Shutdown, crash and restart.                                            *)

Stop ==
  /\ accepting' = FALSE
  /\ drain' = pending /\ pending' = <<>>
  /\ job' = [r \in Request |-> IF job[r] = "pending" THEN "draining" ELSE job[r]]
  /\ UNCHANGED <<chal, silent, admitted, sms, check>>

\* slip: the slots of interrupted requests are not given back.
DrainKeepingSlot ==
  /\ drain # <<>>
  /\ drain' = Tail(drain)
  /\ job' = [job EXCEPT ![Head(drain)] = "gone"]
  /\ UNCHANGED <<chal, silent, pending, admitted, accepting, sms, check>>

DrainOne ==
  /\ drain # <<>>
  /\ drain' = Tail(drain)
  /\ job' = [job EXCEPT ![Head(drain)] = "gone"]
  /\ admitted' = Released(Head(drain))
  /\ UNCHANGED <<chal, silent, pending, accepting, sms, check>>

\* The memory of the process is gone, the rows stay, a new process starts.
Reborn ==
  /\ job' = [r \in Request |-> IF job[r] = "idle" THEN "idle" ELSE "gone"]
  /\ pending' = <<>> /\ drain' = <<>>
  /\ admitted' = [l \in Lane |-> 0]
  /\ accepting' = TRUE
  /\ check' = [v \in Verifier |-> NoCheck]
  /\ UNCHANGED <<chal, silent, sms>>

MayExit == ~accepting /\ drain = <<>> /\ Running(job) = {}

-----------------------------------------------------------------------------
(* admit and consume.                                                      *)

Valid(r) == chal[r].state = "live" /\ chal[r].delivered /\ ~chal[r].expired

\* A right or wrong code; both count.
Admit(v, r, right) ==
  /\ check[v].stage = "idle"
  /\ chal[r].state # "none" /\ chal[r].tries < MaxTries
  /\ chal' = [chal EXCEPT ![r].tries = @ + 1]
  /\ check' = [check EXCEPT ![v] = IF right /\ Valid(r)
                                   THEN [stage |-> "admitted", chal |-> r] ELSE NoCheck]
  /\ UNCHANGED <<job, silent, pending, drain, admitted, accepting, sms>>

\* The caller's transaction: it checks the code again under the row's lock, or rolls back.
Consume(v) ==
  /\ check[v].stage = "admitted"
  /\ LET r == check[v].chal
     IN  \/ Valid(r) /\ chal' = [chal EXCEPT ![r].state = "consumed"]
         \/ chal' = chal
  /\ check' = [check EXCEPT ![v] = NoCheck]
  /\ UNCHANGED <<job, silent, pending, drain, admitted, accepting, sms>>

\* 180 seconds pass.
Expire(r) ==
  /\ "expiry" \in Disturbances
  /\ chal[r].state # "none" /\ ~chal[r].expired
  /\ chal' = [chal EXCEPT ![r].expired = TRUE]
  /\ UNCHANGED <<job, silent, pending, drain, admitted, accepting, sms, check>>

-----------------------------------------------------------------------------

IssueStep(r) == Refuse(r) \/ Store(r) \/ Enqueue(r) \/ Interrupt(r) \/ ThrowInterrupted(r)
DeliverStep(r) == Look(r) \/ Send(r) \/ Record(r) \/ Finish(r)

\* Everything but the end of the process.
OStep ==
  \/ \E r \in Request : Reserve(r) \/ IssueStep(r) \/ DeliverStep(r) \/ Expire(r)
  \/ DrainOne
  \/ \E v \in Verifier : Consume(v) \/ \E r \in Request, right \in BOOLEAN : Admit(v, r, right)

ONext ==
  \/ OStep
  \/ accepting /\ "stop" \in Disturbances /\ Stop
  \/ MayExit /\ Reborn
  \/ "crash" \in Disturbances /\ Reborn

OSpec == OInit /\ [][ONext]_ovars

-----------------------------------------------------------------------------
(* Properties.                                                             *)

OTypeOK ==
  /\ chal \in [Request -> ChalRow]
  /\ job \in [Request -> JobStages]
  /\ silent \subseteq Request /\ sms \subseteq Request
  /\ pending \in Seq(Request) /\ drain \in Seq(Request)
  /\ admitted \in [Lane -> Nat]
  /\ accepting \in BOOLEAN
  /\ check \in [Verifier -> CheckRow]

\* The counter of a lane is the number of its requests that are under way: no
\* path through issue, dispatch, deliver or the shutdown returns a slot twice
\* or keeps it.
LaneIsExact ==
  \A l \in Lane : admitted[l] = Cardinality({r \in Request : LaneOf[r] = l /\ job[r] \in InLane})

\* A slot of deliver is never idle while a request waits in the queue.
QueueIsServed ==
  pending # <<>> => accepting /\ Cardinality(Running(job)) = MaxRunning

\* Every request that got a slot leaves its lane.
AdmittedLeaves == \A r \in Request : job[r] \in InLane ~> job[r] \notin InLane

\* issue, deliver, admit and consume implement Codes.
LifeOf(r) ==
  CASE chal[r].state = "none" -> "none"
    [] chal[r].state = "consumed" -> "spent"
    [] chal[r].state = "superseded" -> "dead"
    [] chal[r].state = "live" -> IF chal[r].expired THEN "dead"
                                 ELSE IF chal[r].delivered THEN "usable" ELSE "made"
Promise == INSTANCE Codes WITH
  Code <- Request, taken <- sms,
  code <- [r \in Request |-> LifeOf(r)],
  tries <- [r \in Request |-> chal[r].tries]
KeepsCode == Promise!Spec
=============================================================================
