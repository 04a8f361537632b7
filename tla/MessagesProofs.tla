--------------------------- MODULE MessagesProofs ---------------------------
(***************************************************************************)
(* Proofs about the process that sends SMS. The first part is about Otp,   *)
(* for any number of requests, lanes, slots and tries; the second shows    *)
(* that the shutdown, the crash and the notices beside them leave that as  *)
(* it is, and that a notice is sent at most once, whatever ends when.      *)
(*                                                                         *)
(* The invariant of Otp has two halves. JInv is about the memory of the    *)
(* process: the queue and the shutdown's list name the requests that wait  *)
(* in them, once each, and a request waits only while every slot of        *)
(* deliver is in use. RInv is about the rows: how far a request has come   *)
(* bounds what its row can say.                                            *)
(***************************************************************************)
EXTENDS Messages, FiniteSetTheorems, SequenceTheorems, TLAPS

JobTypeOK ==
  /\ job \in [Request -> JobStages]
  /\ pending \in Seq(Request) /\ drain \in Seq(Request)
  /\ admitted \in [Lane -> Nat] /\ accepting \in BOOLEAN

\* Every element of q is a request at that stage, once.
Lists(q, js, stage) ==
  /\ \A i \in 1..Len(q) : js[q[i]] = stage
  /\ \A i, j \in 1..Len(q) : q[i] = q[j] => i = j

QueuesSound ==
  /\ Lists(pending, job, "pending") /\ Lists(drain, job, "draining")
  /\ accepting => drain = <<>>
  /\ ~accepting => pending = <<>>

SlotsBound == Cardinality(Running(job)) <= MaxRunning

JInv == JobTypeOK /\ LaneIsExact /\ QueuesSound /\ SlotsBound /\ QueueIsServed

-----------------------------------------------------------------------------
(* Sets of requests.                                                       *)

Members(l, js) == {r \in Request : LaneOf[r] = l /\ js[r] \in InLane}

LEMMA RequestSets ==
  ASSUME NEW js
  PROVE  /\ IsFiniteSet(Running(js)) /\ Cardinality(Running(js)) \in Nat
         /\ \A l \in Lane : IsFiniteSet(Members(l, js)) /\ Cardinality(Members(l, js)) \in Nat
<1>1. Running(js) \in SUBSET Request /\ \A l \in Lane : Members(l, js) \in SUBSET Request
  BY DEF Running, Members
<1> QED BY <1>1, RequestsFinite, FS_Subset, FS_CardinalityType

\* A request that leaves its lane, or enters it, makes the lane one smaller or larger.
LEMMA LaneLeft ==
  ASSUME NEW js, NEW ks, NEW r \in Request, js[r] \in InLane, ks[r] \notin InLane,
         \A q \in Request : q # r => (ks[q] \in InLane <=> js[q] \in InLane)
  PROVE  \A l \in Lane : Cardinality(Members(l, ks)) =
           IF l = LaneOf[r] THEN Cardinality(Members(l, js)) - 1 ELSE Cardinality(Members(l, js))
<1> SUFFICES ASSUME NEW l \in Lane
    PROVE  Cardinality(Members(l, ks)) =
             IF l = LaneOf[r] THEN Cardinality(Members(l, js)) - 1 ELSE Cardinality(Members(l, js))
  OBVIOUS
<1>1. CASE l = LaneOf[r]
  <2>1. Members(l, ks) = Members(l, js) \ {r} /\ r \in Members(l, js)
    BY <1>1 DEF Members
  <2> QED BY <1>1, <2>1, RequestSets, FS_RemoveElement
<1>2. CASE l # LaneOf[r]
  <2>1. Members(l, ks) = Members(l, js)
    BY <1>2 DEF Members
  <2> QED BY <1>2, <2>1
<1> QED BY <1>1, <1>2

LEMMA LaneKept ==
  ASSUME NEW js, NEW ks, \A q \in Request : ks[q] \in InLane <=> js[q] \in InLane
  PROVE  \A l \in Lane : Members(l, ks) = Members(l, js)
BY DEF Members

LEMMA SlotsKept ==
  ASSUME NEW js, NEW ks, \A q \in Request : ks[q] \in RunningStages <=> js[q] \in RunningStages
  PROVE  Running(ks) = Running(js)
BY DEF Running

LEMMA LaneInWords ==
  /\ LaneIsExact <=> \A l \in Lane : admitted[l] = Cardinality(Members(l, job))
  /\ LaneIsExact' <=> \A l \in Lane : admitted'[l] = Cardinality(Members(l, job'))
BY DEF LaneIsExact, Members

LEMMA Stages ==
  /\ RunningStages \subseteq InLane
  /\ \A s \in {"idle", "gone"} : s \notin InLane /\ s \notin RunningStages
  /\ \A s \in {"admitted", "stored", "interrupted", "pending", "draining"} :
       s \in InLane /\ s \notin RunningStages
  /\ \A s \in {"picked", "sending", "accepted", "failed", "over"} : s \in RunningStages
  /\ InLane \subseteq JobStages /\ "idle" \in JobStages /\ "gone" \in JobStages
BY DEF RunningStages, InLane, JobStages

-----------------------------------------------------------------------------
(* dispatch.                                                               *)

\* With every slot taken nothing starts; with one free slot the first request does.
LEMMA DispatchFull ==
  ASSUME NEW q \in Seq(Request), NEW js \in [Request -> JobStages], Dispatch(q, js),
         Cardinality(Running(js)) = MaxRunning \/ ~accepting \/ q = <<>>
  PROVE  pending' = q /\ job' = js
<1>1. Cardinality(Running(js)) \in Nat /\ MaxRunning \in Nat /\ Len(q) \in Nat
  BY RequestSets, RunningBound
<1>2. CASE q = <<>>
  <2>1. Len(q) = 0
    BY <1>2
  <2>2. Starts(q, js) <= 0 /\ Starts(q, js) \in Int
    BY <1>1, <2>1 DEF Starts
  <2>3. pending' = SubSeq(q, Starts(q, js) + 1, 0)
        /\ job' = [r \in Request |-> IF \E i \in 1..Starts(q, js) : q[i] = r THEN "picked" ELSE js[r]]
    BY <2>1 DEF Dispatch
  <2> QED BY <1>2, <2>2, <2>3
<1>3. CASE q # <<>>
  <2>1. Starts(q, js) = 0
    BY <1>1, <1>3 DEF Starts
  <2>2. pending' = SubSeq(q, 1, Len(q))
        /\ job' = [r \in Request |-> IF \E i \in 1..0 : q[i] = r THEN "picked" ELSE js[r]]
    BY <2>1 DEF Dispatch
  <2> QED BY <2>2, SubSeqFull
<1> QED BY <1>2, <1>3

LEMMA DispatchOne ==
  ASSUME NEW q \in Seq(Request), NEW js \in [Request -> JobStages], Dispatch(q, js),
         Cardinality(Running(js)) = MaxRunning - 1 \/ (Len(q) = 1 /\ Cardinality(Running(js)) < MaxRunning),
         accepting, q # <<>>
  PROVE  pending' = SubSeq(q, 2, Len(q)) /\ job' = [js EXCEPT ![q[1]] = "picked"] /\ q[1] \in Request
<1>1. Cardinality(Running(js)) \in Nat /\ MaxRunning \in Nat /\ Len(q) \in Nat /\ Len(q) >= 1
  <2>1. Len(q) = Len(Tail(q)) + 1 /\ Len(Tail(q)) \in Nat
    BY HeadTailProperties
  <2> QED BY <2>1, RequestSets, RunningBound
<1>2. Starts(q, js) = 1
  <2>1. CASE Cardinality(Running(js)) = MaxRunning - 1
    <3>1. MaxRunning - Cardinality(Running(js)) = 1
      BY <1>1, <2>1
    <3>2. 1 < Len(q) \/ Len(q) = 1
      <4> DEFINE n == Len(q)
      <4>1. n \in Nat /\ n >= 1
        BY <1>1
      <4> HIDE DEF n
      <4>2. 1 < n \/ n = 1
        BY <4>1
      <4> QED BY <4>2 DEF n
    <3> QED BY <3>1, <3>2 DEF Starts
  <2>2. CASE Len(q) = 1 /\ Cardinality(Running(js)) < MaxRunning
    BY <1>1, <2>2 DEF Starts
  <2> QED BY <2>1, <2>2
<1>3. /\ pending' = SubSeq(q, 2, Len(q))
      /\ job' = [r \in Request |-> IF \E i \in 1..1 : q[i] = r THEN "picked" ELSE js[r]]
  BY <1>2 DEF Dispatch
<1>4. q[1] \in Request
  BY <1>1
<1>5. job' = [r \in Request |-> IF r = q[1] THEN "picked" ELSE js[r]]
  <2>1. \A r : (\E i \in 1..1 : q[i] = r) <=> r = q[1]
    OBVIOUS
  <2> QED BY <1>3, <2>1
<1> QED BY <1>3, <1>4, <1>5

-----------------------------------------------------------------------------
(* Each step keeps the invariant of the process's memory.                  *)

\* A request moves on within its lane, and neither waits nor takes a slot of deliver.
LEMMA JMove ==
  ASSUME JInv, NEW r \in Request, NEW s \in JobStages, job' = [job EXCEPT ![r] = s],
         job[r] \notin {"pending", "draining"}, s \notin {"pending", "draining"},
         job[r] \in InLane <=> s \in InLane, job[r] \in RunningStages <=> s \in RunningStages,
         UNCHANGED <<pending, drain, admitted, accepting>>
  PROVE  JInv'
<1> USE DEF JInv, JobTypeOK
<1>1. \A q \in Request : /\ job'[q] \in InLane <=> job[q] \in InLane
                         /\ job'[q] \in RunningStages <=> job[q] \in RunningStages
                         /\ job[q] \in {"pending", "draining"} => job'[q] = job[q]
  OBVIOUS
<1>2. LaneIsExact'
  BY <1>1, LaneKept, LaneInWords
<1>3. SlotsBound' /\ QueueIsServed'
  BY <1>1, SlotsKept DEF SlotsBound, QueueIsServed
<1>4. QueuesSound'
  BY <1>1 DEF QueuesSound, Lists
<1> QED BY <1>2, <1>3, <1>4

LEMMA JSame ==
  ASSUME JInv, UNCHANGED <<job, pending, drain, admitted, accepting>>
  PROVE  JInv'
BY DEF JInv, JobTypeOK, LaneIsExact, SlotsBound, QueueIsServed, QueuesSound, Lists, Running

LEMMA JReserve == ASSUME JInv, NEW r \in Request, Reserve(r) PROVE JInv'
<1> USE LanesAreGiven DEF JInv, JobTypeOK
<1>1. LaneOf[r] \in Lane
  OBVIOUS
<1>2. /\ admitted' \in [Lane -> Nat] /\ job' \in [Request -> JobStages]
      /\ job[r] = "idle" /\ job'[r] = "admitted"
      /\ \A q \in Request : q # r => job'[q] = job[q]
      /\ \A l \in Lane : admitted'[l] = IF l = LaneOf[r] THEN admitted[l] + 1 ELSE admitted[l]
      /\ UNCHANGED <<pending, drain, accepting>>
  BY <1>1 DEF JobStages, InLane, Reserve
<1>3. LaneIsExact'
  <2>1. job[r] \notin InLane /\ job'[r] \in InLane
        /\ \A q \in Request : q # r => (job[q] \in InLane <=> job'[q] \in InLane)
    BY <1>2, Stages
  <2>2. \A l \in Lane : Cardinality(Members(l, job)) =
          IF l = LaneOf[r] THEN Cardinality(Members(l, job')) - 1 ELSE Cardinality(Members(l, job'))
    BY <2>1, LaneLeft
  <2>3. \A l \in Lane : Cardinality(Members(l, job)) \in Nat /\ Cardinality(Members(l, job')) \in Nat
    BY RequestSets
  <2>4. \A l \in Lane : admitted[l] = Cardinality(Members(l, job))
    BY LaneInWords
  <2>5. \A l \in Lane : admitted'[l] = Cardinality(Members(l, job'))
    <3> SUFFICES ASSUME NEW l \in Lane PROVE admitted'[l] = Cardinality(Members(l, job'))
      OBVIOUS
    <3> DEFINE m == Cardinality(Members(l, job))
               n == Cardinality(Members(l, job'))
    <3>1. m \in Nat /\ n \in Nat /\ admitted[l] = m /\ m = IF l = LaneOf[r] THEN n - 1 ELSE n
      BY <2>2, <2>3, <2>4
    <3>2. admitted'[l] = IF l = LaneOf[r] THEN m + 1 ELSE m
      BY <1>2, <3>1
    <3> HIDE DEF m, n
    <3>3. admitted'[l] = n
      BY <3>1, <3>2
    <3> QED BY <3>3 DEF n
  <2> QED BY <2>5, LaneInWords
<1>4. SlotsBound' /\ QueueIsServed'
  <2>1. \A q \in Request : job'[q] \in RunningStages <=> job[q] \in RunningStages
    BY <1>2, Stages
  <2> QED BY <1>2, <2>1, SlotsKept DEF SlotsBound, QueueIsServed
<1>5. QueuesSound'
  BY <1>2, SMTT(30) DEF QueuesSound, Lists
<1> QED BY <1>2, <1>3, <1>4, <1>5

\* A request gives its slot back: the lane's counter follows.
LEMMA ReleaseExact ==
  ASSUME JInv, NEW r \in Request, NEW ks \in [Request -> JobStages], admitted' = Released(r),
         job[r] \in InLane, ks[r] = "gone", \A q \in Request : q # r => ks[q] = job[q]
  PROVE  /\ admitted' \in [Lane -> Nat]
         /\ \A l \in Lane : admitted'[l] = Cardinality(Members(l, ks))
<1> USE LanesAreGiven DEF JInv, JobTypeOK
<1>1. LaneOf[r] \in Lane
  OBVIOUS
<1>2. \A l \in Lane : Cardinality(Members(l, ks)) =
        IF l = LaneOf[r] THEN Cardinality(Members(l, job)) - 1 ELSE Cardinality(Members(l, job))
  BY LaneLeft, Stages
<1>3. \A l \in Lane : admitted[l] = Cardinality(Members(l, job))
  BY LaneInWords
<1>4. admitted' \in [Lane -> Int]
      /\ \A l \in Lane : admitted'[l] = IF l = LaneOf[r] THEN admitted[l] - 1 ELSE admitted[l]
  BY <1>1 DEF Released
<1>5. \A l \in Lane : Cardinality(Members(l, ks)) \in Nat
  BY RequestSets
<1>6. \A l \in Lane : admitted'[l] = Cardinality(Members(l, ks))
  BY <1>2, <1>3, <1>4
<1> QED BY <1>4, <1>5, <1>6

\* Refused or interrupted: the request was neither waiting nor being delivered.
LEMMA JLeave ==
  ASSUME JInv, NEW r \in Request, Refuse(r) \/ ThrowInterrupted(r)
  PROVE  JInv'
<1>1. /\ job[r] \in {"admitted", "interrupted"} /\ job' = [job EXCEPT ![r] = "gone"]
      /\ admitted' = Released(r) /\ UNCHANGED <<pending, drain, accepting>>
  BY DEF Refuse, ThrowInterrupted
<1> USE DEF JInv, JobTypeOK
<1>2. job' \in [Request -> JobStages] /\ job'[r] = "gone" /\ job[r] \in InLane
      /\ \A q \in Request : q # r => job'[q] = job[q]
  BY <1>1, Stages
<1>3. admitted' \in [Lane -> Nat] /\ LaneIsExact'
  BY <1>1, <1>2, ReleaseExact, LaneInWords
<1>4. \A q \in Request : /\ job'[q] \in RunningStages <=> job[q] \in RunningStages
                         /\ job[q] \in {"pending", "draining"} => job'[q] = job[q]
  BY <1>1, <1>2, Stages
<1>5. SlotsBound' /\ QueueIsServed'
  BY <1>1, <1>4, SlotsKept DEF SlotsBound, QueueIsServed
<1>6. QueuesSound'
  BY <1>1, <1>4 DEF QueuesSound, Lists
<1> QED BY <1>1, <1>2, <1>3, <1>5, <1>6

LEMMA JEnqueue == ASSUME JInv, NEW r \in Request, Enqueue(r) PROVE JInv'
<1> USE DEF JInv, JobTypeOK
<1> DEFINE q == Append(pending, r)
           js == [job EXCEPT ![r] = "pending"]
<1>1. /\ job[r] = "stored" /\ accepting /\ Dispatch(q, js)
      /\ UNCHANGED <<drain, admitted, accepting>>
  BY DEF Enqueue
<1>2. /\ q \in Seq(Request) /\ q # <<>> /\ Len(q) = Len(pending) + 1
      /\ \A i \in 1..Len(pending) : q[i] = pending[i]
      /\ q[Len(pending) + 1] = r /\ Len(pending) \in Nat
  BY AppendProperties
<1>3. /\ js \in [Request -> JobStages] /\ js[r] = "pending"
      /\ \A p \in Request : p # r => js[p] = job[p]
  BY Stages
<1> HIDE DEF q, js
<1>4. /\ \A p \in Request : js[p] \in InLane <=> job[p] \in InLane
      /\ \A p \in Request : js[p] \in RunningStages <=> job[p] \in RunningStages
  BY <1>1, <1>3, Stages
<1>5. Running(js) = Running(job) /\ \A l \in Lane : Members(l, js) = Members(l, job)
  BY <1>4, SlotsKept, LaneKept
<1>6. Lists(q, js, "pending")
  <2>1. \A i \in 1..Len(pending) : pending[i] # r /\ pending[i] \in Request
    BY <1>1 DEF QueuesSound, Lists
  <2>2. \A i \in 1..Len(q) : js[q[i]] = "pending"
    BY <1>2, <1>3, <2>1 DEF QueuesSound, Lists
  <2>3. \A i, j \in 1..Len(q) : q[i] = q[j] => i = j
    BY <1>2, <2>1 DEF QueuesSound, Lists
  <2> QED BY <2>2, <2>3 DEF Lists
<1>7. drain = <<>> /\ Cardinality(Running(job)) \in Nat /\ MaxRunning \in Nat
  BY <1>1, RequestSets, RunningBound DEF QueuesSound
<1>8. CASE Cardinality(Running(job)) = MaxRunning
  <2>1. pending' = q /\ job' = js
    BY <1>1, <1>2, <1>3, <1>5, <1>8, DispatchFull
  <2>2. LaneIsExact'
    BY <1>1, <1>5, <2>1, LaneInWords
  <2>3. SlotsBound' /\ QueueIsServed'
    BY <1>1, <1>5, <1>8, <2>1 DEF SlotsBound, QueueIsServed
  <2>4. QueuesSound'
    BY <1>1, <1>6, <1>7, <2>1 DEF QueuesSound, Lists
  <2> QED BY <1>1, <1>2, <1>3, <2>1, <2>2, <2>3, <2>4
<1>9. CASE Cardinality(Running(job)) # MaxRunning
  <2>1. pending = <<>> /\ Cardinality(Running(job)) < MaxRunning
    BY <1>7, <1>9 DEF QueueIsServed, SlotsBound
  <2>2. Len(q) = 1 /\ q[1] = r
    BY <1>2, <2>1
  <2>3. pending' = SubSeq(q, 2, 1) /\ job' = [js EXCEPT ![r] = "picked"]
    BY <1>1, <1>2, <1>3, <1>5, <2>1, <2>2, DispatchOne, SMTT(30)
  <2>4. pending' = <<>>
    BY <2>3, SubSeqEmpty
  <2>5. /\ job' \in [Request -> JobStages] /\ job'[r] = "picked"
        /\ \A p \in Request : p # r => job'[p] = job[p]
    BY <1>3, <2>3, Stages
  <2>6. \A p \in Request : job'[p] \in InLane <=> job[p] \in InLane
    BY <1>1, <2>5, Stages
  <2>7. LaneIsExact'
    BY <1>1, <2>6, LaneKept, LaneInWords
  <2>8. Running(job') = Running(job) \cup {r} /\ r \notin Running(job)
    BY <1>1, <2>5, Stages DEF Running
  <2>9. Cardinality(Running(job')) = Cardinality(Running(job)) + 1
    BY <2>8, RequestSets, FS_AddElement
  <2>10. SlotsBound' /\ QueueIsServed'
    BY <1>7, <2>1, <2>4, <2>9 DEF SlotsBound, QueueIsServed
  <2>11. QueuesSound'
    BY <1>1, <1>7, <2>4 DEF QueuesSound, Lists
  <2> QED BY <1>1, <2>4, <2>5, <2>7, <2>10, <2>11
<1> QED BY <1>8, <1>9

LEMMA JFinish == ASSUME JInv, NEW r \in Request, Finish(r) PROVE JInv'
<1> USE DEF JInv, JobTypeOK
<1> DEFINE js == [job EXCEPT ![r] = "gone"]
<1>1. /\ job[r] = "over" /\ admitted' = Released(r) /\ Dispatch(pending, js)
      /\ UNCHANGED <<drain, accepting>>
  BY DEF Finish
<1>2. /\ js \in [Request -> JobStages] /\ js[r] = "gone"
      /\ \A p \in Request : p # r => js[p] = job[p]
  BY Stages
<1> HIDE DEF js
<1>3. /\ admitted' \in [Lane -> Nat]
      /\ \A l \in Lane : admitted'[l] = Cardinality(Members(l, js))
  BY <1>1, <1>2, ReleaseExact, Stages
<1>4. Running(js) = Running(job) \ {r} /\ r \in Running(job)
  BY <1>1, <1>2, Stages DEF Running
<1>5. /\ Cardinality(Running(js)) = Cardinality(Running(job)) - 1
      /\ Cardinality(Running(js)) \in Nat /\ Cardinality(Running(job)) \in Nat /\ MaxRunning \in Nat
  BY <1>4, RequestSets, FS_RemoveElement, RunningBound, ZenonT(60)
<1>7. CASE pending = <<>>
  <2>1. pending' = <<>> /\ job' = js
    BY <1>1, <1>2, <1>7, DispatchFull
  <2>2. LaneIsExact'
    BY <1>3, <2>1, LaneInWords
  <2>3. SlotsBound' /\ QueueIsServed'
    BY <1>5, <2>1 DEF SlotsBound, QueueIsServed
  <2>4. QueuesSound'
    BY <1>1, <1>2, <2>1 DEF QueuesSound, Lists
  <2> QED BY <1>1, <1>2, <1>3, <2>1, <2>2, <2>3, <2>4
<1>8. CASE pending # <<>>
  <2> DEFINE h == pending[1]
  <2>1. accepting /\ Cardinality(Running(js)) = MaxRunning - 1
    BY <1>5, <1>8 DEF QueueIsServed
  <2>2. pending' = SubSeq(pending, 2, Len(pending)) /\ job' = [js EXCEPT ![h] = "picked"] /\ h \in Request
    BY <1>1, <1>2, <1>8, <2>1, DispatchOne
  <2>3. Len(pending) \in Nat /\ Len(pending) = Len(Tail(pending)) + 1 /\ Len(Tail(pending)) \in Nat
    BY <1>8, HeadTailProperties
  <2>4. job[h] = "pending" /\ h # r
    BY <1>1, <2>3 DEF QueuesSound, Lists
  <2>5. \A i \in 2..Len(pending) : pending[i] \in Request
    BY <2>3
  <2>6. /\ pending' \in Seq(Request) /\ Len(pending') = Len(pending) - 1
        /\ \A i \in 1..Len(pending) - 1 : pending'[i] = pending[i + 1]
    <3>1. /\ SubSeq(pending, 2, Len(pending)) \in Seq(Request)
          /\ Len(SubSeq(pending, 2, Len(pending))) =
               IF 2 <= Len(pending) THEN Len(pending) - 2 + 1 ELSE 0
          /\ \A i \in 1..Len(pending) - 2 + 1 : SubSeq(pending, 2, Len(pending))[i] = pending[2 + i - 1]
      BY <2>3, <2>5, SubSeqProperties
    <3> QED BY <2>2, <2>3, <3>1
  <2> HIDE DEF h
  <2>7. /\ job' \in [Request -> JobStages] /\ job'[h] = "picked" /\ js[h] = "pending"
        /\ \A p \in Request : p # h => job'[p] = js[p]
    BY <1>2, <2>2, <2>4, Stages
  <2>8. \A p \in Request : job'[p] \in InLane <=> js[p] \in InLane
    BY <2>7, Stages
  <2>9. LaneIsExact'
    BY <1>3, <2>8, LaneKept, LaneInWords
  <2>10. Running(job') = Running(js) \cup {h} /\ h \notin Running(js)
    BY <2>2, <2>7, Stages DEF Running
  <2>11. Cardinality(Running(job')) = MaxRunning
    <3>1. Cardinality(Running(js) \cup {h}) = Cardinality(Running(js)) + 1
      BY <2>10, RequestSets, FS_AddElement
    <3> QED BY <1>5, <2>1, <2>10, <3>1
  <2>12. SlotsBound' /\ QueueIsServed'
    BY <1>1, <1>5, <2>1, <2>11 DEF SlotsBound, QueueIsServed
  <2>13. Lists(pending', job', "pending")
    <3>1. \A i \in 1..Len(pending) - 1 :
            /\ i + 1 \in 1..Len(pending) /\ pending[i + 1] \in Request
            /\ job[pending[i + 1]] = "pending" /\ pending[i + 1] # h
      BY <2>3 DEF QueuesSound, Lists, h
    <3>2. \A i \in 1..Len(pending') : job'[pending'[i]] = "pending"
      BY <1>1, <1>2, <2>6, <2>7, <3>1
    <3>3. \A i, j \in 1..Len(pending') : pending'[i] = pending'[j] => i = j
      <4> SUFFICES ASSUME NEW i \in 1..Len(pending) - 1, NEW j \in 1..Len(pending) - 1,
                          pending[i + 1] = pending[j + 1]
          PROVE  i = j
        BY <2>6
      <4>1. i + 1 = j + 1
        BY <3>1 DEF QueuesSound, Lists
      <4> QED BY <4>1
    <3> QED BY <3>2, <3>3 DEF Lists
  <2>14. QueuesSound'
    <3>1. drain = <<>>
      BY <2>1 DEF QueuesSound
    <3> QED BY <1>1, <2>1, <2>13, <3>1 DEF QueuesSound, Lists
  <2> QED BY <1>1, <1>3, <2>6, <2>7, <2>9, <2>12, <2>14
<1> QED BY <1>7, <1>8

LEMMA JStop == ASSUME JInv, accepting, Stop PROVE JInv'
<1> USE DEF JInv, JobTypeOK
<1>1. /\ accepting' = FALSE /\ drain' = pending /\ pending' = <<>> /\ admitted' = admitted
      /\ job' = [r \in Request |-> IF job[r] = "pending" THEN "draining" ELSE job[r]]
  BY DEF Stop
<1>2. job' \in [Request -> JobStages]
  BY <1>1, Stages
<1>3. \A q \in Request : /\ job'[q] \in InLane <=> job[q] \in InLane
                         /\ job'[q] \in RunningStages <=> job[q] \in RunningStages
  BY <1>1, Stages
<1>4. LaneIsExact'
  BY <1>1, <1>3, LaneKept, LaneInWords
<1>5. SlotsBound' /\ QueueIsServed'
  BY <1>1, <1>3, SlotsKept DEF SlotsBound, QueueIsServed
<1>6. QueuesSound'
  <2>1. \A i \in 1..Len(pending) : pending[i] \in Request /\ job'[pending[i]] = "draining"
    BY <1>1 DEF QueuesSound, Lists
  <2>2. \A i, j \in 1..Len(pending) : pending[i] = pending[j] => i = j
    BY DEF QueuesSound, Lists
  <2> QED BY <1>1, <2>1, <2>2 DEF QueuesSound, Lists
<1>7. JobTypeOK'
  <2>1. pending' \in Seq(Request) /\ drain' \in Seq(Request)
    BY <1>1
  <2>2. accepting' \in BOOLEAN /\ admitted' \in [Lane -> Nat]
    BY <1>1
  <2> QED BY <1>2, <2>1, <2>2
<1> HIDE DEF JobTypeOK
<1> QED BY <1>4, <1>5, <1>6, <1>7

LEMMA JDrain == ASSUME JInv, DrainOne PROVE JInv'
<1> USE DEF JInv, JobTypeOK
<1> DEFINE h == Head(drain)
<1>1. /\ drain # <<>> /\ drain' = Tail(drain) /\ job' = [job EXCEPT ![h] = "gone"]
      /\ admitted' = Released(h) /\ UNCHANGED <<pending, accepting>>
  BY DEF DrainOne
<1>2. /\ h \in Request /\ Tail(drain) \in Seq(Request) /\ Len(Tail(drain)) = Len(drain) - 1
      /\ \A i \in 1..Len(Tail(drain)) : Tail(drain)[i] = drain[i + 1]
      /\ Len(drain) \in Nat /\ Len(Tail(drain)) \in Nat /\ h = drain[1]
  BY <1>1, HeadTailProperties
<1> HIDE DEF h
<1>3. job[h] = "draining" /\ pending = <<>>
  BY <1>1, <1>2 DEF QueuesSound, Lists
<1>4. /\ job' \in [Request -> JobStages] /\ job'[h] = "gone"
      /\ \A p \in Request : p # h => job'[p] = job[p]
  BY <1>1, <1>2, Stages
<1>5. admitted' \in [Lane -> Nat] /\ LaneIsExact'
  <2>1. job[h] \in InLane
    BY <1>3, Stages
  <2>2. /\ admitted' \in [Lane -> Nat]
        /\ \A l \in Lane : admitted'[l] = Cardinality(Members(l, job'))
    BY <1>1, <1>2, <1>4, <2>1, ReleaseExact
  <2> QED BY <2>2, LaneInWords
<1>6. \A q \in Request : job'[q] \in RunningStages <=> job[q] \in RunningStages
  BY <1>3, <1>4, Stages
<1>7. SlotsBound' /\ QueueIsServed'
  BY <1>1, <1>6, SlotsKept DEF SlotsBound, QueueIsServed
<1>8. Lists(drain', job', "draining")
  <2>1. \A i \in 1..Len(Tail(drain)) :
          /\ i + 1 \in 1..Len(drain) /\ drain[i + 1] \in Request
          /\ job[drain[i + 1]] = "draining" /\ drain[i + 1] # h
    BY <1>2 DEF QueuesSound, Lists
  <2>2. \A i \in 1..Len(drain') : job'[drain'[i]] = "draining"
    BY <1>1, <1>2, <1>4, <2>1
  <2>3. \A i, j \in 1..Len(drain') : drain'[i] = drain'[j] => i = j
    <3> SUFFICES ASSUME NEW i \in 1..Len(Tail(drain)), NEW j \in 1..Len(Tail(drain)),
                        drain[i + 1] = drain[j + 1]
        PROVE  i = j
      BY <1>1, <1>2
    <3>1. i + 1 = j + 1
      BY <2>1 DEF QueuesSound, Lists
    <3> QED BY <3>1
  <2> QED BY <2>2, <2>3 DEF Lists
<1>9. QueuesSound'
  BY <1>1, <1>3, <1>8 DEF QueuesSound, Lists
<1> QED BY <1>1, <1>2, <1>4, <1>5, <1>7, <1>9

LEMMA JReborn == ASSUME JInv, Reborn PROVE JInv'
<1> USE DEF JInv, JobTypeOK
<1>1. /\ job' = [r \in Request |-> IF job[r] = "idle" THEN "idle" ELSE "gone"]
      /\ pending' = <<>> /\ drain' = <<>> /\ accepting' = TRUE
      /\ admitted' = [l \in Lane |-> 0]
  BY DEF Reborn
<1>2. /\ \A l \in Lane : Members(l, job') = {}
      /\ Running(job') = {}
  BY <1>1, Stages DEF Members, Running
<1>3. LaneIsExact' /\ SlotsBound' /\ QueueIsServed'
  <2>1. \A l \in Lane : Cardinality(Members(l, job')) = 0
    BY <1>2, FS_EmptySet
  <2>2. Cardinality(Running(job')) = 0
    BY <1>2, FS_EmptySet
  <2>3. LaneIsExact'
    BY <1>1, <2>1, LaneInWords
  <2> QED BY <1>1, <2>2, <2>3, RunningBound DEF SlotsBound, QueueIsServed
<1>4. QueuesSound'
  BY <1>1 DEF QueuesSound, Lists
<1> QED BY <1>1, <1>3, <1>4, Stages

LEMMA JInit == OInit => JInv
<1> SUFFICES ASSUME OInit PROVE JInv
  OBVIOUS
<1> USE DEF OInit
<1>1. JobTypeOK
  BY Stages DEF JobTypeOK
<1>2. /\ \A l \in Lane : Members(l, job) = {}
      /\ Running(job) = {}
  BY Stages DEF Members, Running
<1>3. LaneIsExact /\ SlotsBound /\ QueueIsServed
  <2>1. \A l \in Lane : Cardinality(Members(l, job)) = 0
    BY <1>2, FS_EmptySet
  <2>2. Cardinality(Running(job)) = 0
    BY <1>2, FS_EmptySet
  <2>3. LaneIsExact
    BY <2>1, LaneInWords
  <2> QED BY <2>2, <2>3, RunningBound DEF SlotsBound, QueueIsServed
<1>4. QueuesSound
  BY DEF QueuesSound, Lists
<1> QED BY <1>1, <1>3, <1>4 DEF JInv

LEMMA JStep == JInv /\ [ONext]_ovars => JInv'
<1>1. ASSUME JInv, UNCHANGED ovars PROVE JInv'
  BY <1>1, JSame DEF ovars
<1>2. ASSUME JInv, NEW r \in Request, Store(r) \/ Interrupt(r) PROVE JInv'
  <2>1. PICK s \in {"stored", "interrupted"} : job' = [job EXCEPT ![r] = s]
    BY <1>2 DEF Store, Interrupt
  <2> QED BY <1>2, <2>1, JMove, Stages DEF Store, Interrupt
<1>3. ASSUME JInv, NEW r \in Request, Look(r) \/ Send(r) \/ Record(r) PROVE JInv'
  <2>1. PICK s \in RunningStages : job' = [job EXCEPT ![r] = s]
    BY <1>3 DEF Look, Send, Record, RunningStages
  <2>2. job[r] \in RunningStages /\ UNCHANGED <<pending, drain, admitted, accepting>>
    BY <1>3 DEF Look, Send, Record, RunningStages
  <2>3. /\ job[r] \in InLane /\ s \in InLane /\ s \in JobStages
        /\ job[r] \notin {"pending", "draining"} /\ s \notin {"pending", "draining"}
    BY <2>1, <2>2, Stages
  <2> QED BY <1>3, <2>1, <2>2, <2>3, JMove
<1>4. ASSUME JInv, NEW r \in Request, IssueStep(r) PROVE JInv'
  BY <1>2, <1>4, JLeave, JEnqueue DEF IssueStep
<1>5. ASSUME JInv, NEW r \in Request, DeliverStep(r) PROVE JInv'
  BY <1>3, <1>5, JFinish DEF DeliverStep
<1>6. ASSUME JInv, NEW r \in Request, Expire(r) PROVE JInv'
  BY <1>6, JSame DEF Expire
<1>7. ASSUME JInv, NEW v \in Verifier, Consume(v) \/ \E r \in Request, right \in BOOLEAN : Admit(v, r, right)
      PROVE  JInv'
  BY <1>7, JSame DEF Consume, Admit
<1> QED BY <1>1, <1>4, <1>5, <1>6, <1>7, JReserve, JDrain, JStop, JReborn DEF ONext, OStep

-----------------------------------------------------------------------------
(* The rows.                                                               *)

RowTypeOK ==
  /\ job \in [Request -> JobStages]
  /\ chal \in [Request -> ChalRow]
  /\ silent \subseteq Request /\ sms \subseteq Request
  /\ check \in [Verifier -> CheckRow]

BeforeStore == {"idle", "admitted"}
\* A request that is under way and was stored.
Stored == {"stored", "interrupted", "pending", "draining"} \cup RunningStages

\* A request has a row once it is stored; the row is untouched until then, and not
\* delivered until the request is done; and a request whose SMS was accepted sent one.
RowsFollowJobs ==
  \A r \in Request :
    /\ job[r] \in BeforeStore => chal[r].state = "none"
    /\ job[r] \in Stored => chal[r].state # "none"
    /\ chal[r].state = "none" => ~chal[r].delivered /\ ~chal[r].expired /\ chal[r].tries = 0
    /\ job[r] \notin {"over", "gone"} => ~chal[r].delivered
    /\ job[r] = "accepted" => r \in sms

\* Whoever may consume a code was admitted to try it.
CheckedWasTried ==
  \A v \in Verifier : check[v].stage = "admitted" =>
    /\ check[v].chal \in Request
    /\ chal[check[v].chal].state # "none" /\ chal[check[v].chal].tries > 0

RInv == RowTypeOK /\ RowsFollowJobs /\ CheckedWasTried

LEMMA StoredStages ==
  /\ JobStages = {"idle", "admitted", "gone"} \cup Stored
  /\ Stored = {"stored", "interrupted", "pending", "draining", "picked", "sending", "accepted",
               "failed", "over"}
BY DEF JobStages, Stored, InLane, RunningStages

\* The fields of a row.
LEMMA RowFields ==
  ASSUME RowTypeOK, NEW r \in Request
  PROVE  /\ chal[r] \in ChalRow
         /\ chal[r].state \in {"none", "live", "superseded", "consumed"}
         /\ chal[r].delivered \in BOOLEAN /\ chal[r].expired \in BOOLEAN
         /\ chal[r].tries \in 0..MaxTries
BY DEF RowTypeOK, ChalRow

\* What a step of issue, dispatch, deliver or the shutdown that only moves jobs keeps.
LEMMA RJobs ==
  ASSUME RInv, UNCHANGED <<chal, sms, check>>, silent' \subseteq Request,
         job' \in [Request -> JobStages],
         \A r \in Request : \/ job'[r] = job[r]
                            \/ job[r] = "idle" /\ job'[r] = "admitted"
                            \/ job'[r] = "gone"
                            \/ job[r] \in Stored /\ job'[r] \in Stored \ {"over", "accepted"}
                               /\ job[r] # "over"
                            \/ job[r] = "picked" /\ job'[r] = "over"
  PROVE  RInv'
<1> USE DEF RInv
<1>1. RowTypeOK'
  BY DEF RowTypeOK
<1>2. RowsFollowJobs'
  BY StoredStages DEF RowsFollowJobs, BeforeStore
<1>3. CheckedWasTried'
  BY DEF CheckedWasTried
<1> QED BY <1>1, <1>2, <1>3

-----------------------------------------------------------------------------
(* Each step keeps what is known of the rows, and is a step of Codes.      *)

Life == [r \in Request |-> LifeOf(r)]
Tries == [r \in Request |-> chal[r].tries]

\* A step of Codes under the mapping of Promise, or one that changes nothing of it.
CodeStep == Promise!Next \/ (UNCHANGED <<Life, Tries, sms>>)

\* Steps that change no row and send nothing are stutters of Codes.
LEMMA QuietCodes == ASSUME UNCHANGED <<chal, sms>> PROVE CodeStep
BY DEF CodeStep, Life, Tries, LifeOf

\* The life of a code by the fields of its row.
LEMMA Lives ==
  ASSUME NEW r \in Request
  PROVE  /\ chal[r].state = "none" => LifeOf(r) = "none"
         /\ chal[r].state = "consumed" => LifeOf(r) = "spent"
         /\ chal[r].state = "superseded" => LifeOf(r) = "dead"
         /\ chal[r].state = "live" /\ chal[r].expired => LifeOf(r) = "dead"
         /\ chal[r].state = "live" /\ ~chal[r].expired /\ chal[r].delivered => LifeOf(r) = "usable"
         /\ chal[r].state = "live" /\ ~chal[r].expired /\ ~chal[r].delivered => LifeOf(r) = "made"
BY DEF LifeOf

LEMMA LivesAfter ==
  ASSUME NEW r \in Request
  PROVE  /\ chal'[r].state = "none" => LifeOf(r)' = "none"
         /\ chal'[r].state = "consumed" => LifeOf(r)' = "spent"
         /\ chal'[r].state = "superseded" => LifeOf(r)' = "dead"
         /\ chal'[r].state = "live" /\ chal'[r].expired => LifeOf(r)' = "dead"
         /\ chal'[r].state = "live" /\ ~chal'[r].expired /\ chal'[r].delivered => LifeOf(r)' = "usable"
         /\ chal'[r].state = "live" /\ ~chal'[r].expired /\ ~chal'[r].delivered => LifeOf(r)' = "made"
BY DEF LifeOf

LEMMA RStore ==
  ASSUME RInv, NEW r \in Request, Store(r)
  PROVE  RInv' /\ CodeStep
<1> USE DEF RInv
<1>1. /\ job[r] = "admitted" /\ job' = [job EXCEPT ![r] = "stored"]
      /\ UNCHANGED <<sms, check>> /\ silent' \subseteq Request
  BY DEF Store, RowTypeOK
<1>2. /\ chal[r].state = "none" /\ chal[r].tries = 0
      /\ 0 \in 0..MaxTries
  BY <1>1, TriesBound DEF RowsFollowJobs, BeforeStore
<1>3. /\ chal'[r] = [state |-> "live", delivered |-> FALSE, expired |-> FALSE, tries |-> 0]
      /\ \A q \in Request \ {r} :
           chal'[q] = [chal[q] EXCEPT !.state = IF Supersedes(r, q) THEN "superseded" ELSE chal[q].state]
      /\ chal' = [q \in Request |-> chal'[q]]
  BY DEF Store
<1>4. \A q \in Request \ {r} :
        /\ chal'[q].delivered = chal[q].delivered /\ chal'[q].expired = chal[q].expired
        /\ chal'[q].tries = chal[q].tries
        /\ chal'[q].state = IF Supersedes(r, q) THEN "superseded" ELSE chal[q].state
        /\ chal'[q] \in ChalRow
  BY <1>3 DEF RowTypeOK, ChalRow
<1>5. chal'[r] \in ChalRow
  BY <1>2, <1>3 DEF ChalRow
<1>6. RowTypeOK'
  BY <1>1, <1>3, <1>4, <1>5, StoredStages DEF RowTypeOK
<1>7. RowsFollowJobs'
  <2>1. \A q \in Request : q # r => job'[q] = job[q]
    BY <1>1 DEF RowTypeOK
  <2>2. job'[r] = "stored"
    BY <1>1 DEF RowTypeOK
  <2>3. \A q \in Request \ {r} : chal'[q].state = "none" <=> chal[q].state = "none"
    BY <1>4 DEF Supersedes
  <2> QED BY <1>1, <1>3, <1>4, <2>1, <2>2, <2>3 DEF RowsFollowJobs, BeforeStore, Stored
<1>8. CheckedWasTried'
  <2> SUFFICES ASSUME NEW v \in Verifier, check[v].stage = "admitted"
      PROVE  /\ check[v].chal \in Request
             /\ chal'[check[v].chal].state # "none" /\ chal'[check[v].chal].tries > 0
    BY <1>1 DEF CheckedWasTried
  <2>1. check[v].chal \in Request \ {r} /\ chal[check[v].chal].state # "none"
        /\ chal[check[v].chal].tries > 0
    BY <1>2 DEF CheckedWasTried
  <2> QED BY <1>4, <2>1 DEF Supersedes
<1>9. Promise!Make(r)
  <2>1. Life[r] = "none"
    BY <1>2, Lives DEF Life
  <2>2. Life' = [q \in Request |-> IF q = r THEN "made"
                   ELSE IF Life[q] \in {"made", "usable"} /\ BindingOf[q] = BindingOf[r] THEN "dead"
                   ELSE Life[q]]
    <3>1. LifeOf(r)' = "made"
      BY <1>3, LivesAfter
    <3>2. ASSUME NEW q \in Request \ {r}
          PROVE  LifeOf(q)' = IF LifeOf(q) \in {"made", "usable"} /\ BindingOf[q] = BindingOf[r]
                              THEN "dead" ELSE LifeOf(q)
      <4>1. CASE Supersedes(r, q)
        BY <1>4, <4>1, Lives, LivesAfter, RowFields DEF Supersedes
      <4>2. CASE ~Supersedes(r, q)
        <5>1. LifeOf(q)' = LifeOf(q)
          BY <1>4, <4>2 DEF LifeOf
        <5>2. LifeOf(q) \in {"made", "usable"} => chal[q].state = "live"
          BY Lives, RowFields
        <5> QED BY <4>2, <5>1, <5>2 DEF Supersedes
      <4> QED BY <4>1, <4>2
    <3> QED BY <3>1, <3>2 DEF Life
  <2>3. Tries' = Tries
    BY <1>2, <1>3, <1>4 DEF Tries
  <2> QED BY <1>1, <2>1, <2>2, <2>3 DEF Promise!Make, Promise!Open, Life, Tries
<1>10. CodeStep
  BY <1>9 DEF CodeStep, Promise!Next
<1> QED BY <1>6, <1>7, <1>8, <1>10

LEMMA RSend ==
  ASSUME RInv, NEW r \in Request, Send(r)
  PROVE  RInv' /\ CodeStep
<1> USE DEF RInv
<1>1. /\ job[r] = "sending" /\ UNCHANGED <<chal, silent, check>>
      /\ sms' \in {sms, sms \cup {r}}
      /\ \/ job' = [job EXCEPT ![r] = "failed"]
         \/ job' = [job EXCEPT ![r] = "accepted"] /\ r \in sms'
  BY DEF Send
<1>2. RowTypeOK'
  BY <1>1, StoredStages DEF RowTypeOK
<1>3. RowsFollowJobs'
  BY <1>1 DEF RowsFollowJobs, RowTypeOK, BeforeStore, Stored, RunningStages
<1>4. CheckedWasTried'
  BY <1>1 DEF CheckedWasTried
<1>5. CASE sms' = sms
  BY <1>1, <1>2, <1>3, <1>4, <1>5, QuietCodes
<1>6. CASE sms' = sms \cup {r}
  <2>1. chal[r].state # "none"
    BY <1>1 DEF RowsFollowJobs, Stored, RunningStages
  <2>2. Life[r] # "none"
    BY <2>1, Lives, RowFields DEF Life
  <2>3. Life' = Life /\ Tries' = Tries
    BY <1>1 DEF Life, LifeOf, Tries
  <2>4. Promise!Take(r)
    BY <1>6, <2>2, <2>3 DEF Promise!Take, Life, Tries
  <2> QED BY <1>2, <1>3, <1>4, <2>4 DEF CodeStep, Promise!Next
<1> QED BY <1>1, <1>5, <1>6

LEMMA RRecord ==
  ASSUME RInv, NEW r \in Request, Record(r)
  PROVE  RInv' /\ CodeStep
<1> USE DEF RInv
<1>1. /\ job[r] \in {"accepted", "failed"} /\ job' = [job EXCEPT ![r] = "over"]
      /\ UNCHANGED <<silent, sms, check>>
      /\ chal' = chal \/ chal' = [chal EXCEPT ![r].delivered = (job[r] = "accepted")]
  BY DEF Record, Delivered
<1>2. /\ chal[r].state # "none" /\ ~chal[r].delivered /\ (job[r] = "accepted" => r \in sms)
  BY <1>1 DEF RowsFollowJobs, Stored, RunningStages
<1>3. /\ chal' \in [Request -> ChalRow]
      /\ \A q \in Request : /\ chal'[q].state = chal[q].state /\ chal'[q].expired = chal[q].expired
                            /\ chal'[q].tries = chal[q].tries
                            /\ q # r => chal'[q] = chal[q]
      /\ chal'[r].delivered => job[r] = "accepted"
  <2>1. CASE chal' = chal
    BY <1>2, <2>1 DEF RowTypeOK
  <2>2. CASE chal' = [chal EXCEPT ![r].delivered = (job[r] = "accepted")]
    <3>1. [chal[r] EXCEPT !.delivered = (job[r] = "accepted")] \in ChalRow
      BY DEF RowTypeOK, ChalRow
    <3>2. chal' \in [Request -> ChalRow]
      BY <2>2, <3>1 DEF RowTypeOK
    <3> QED BY <2>2, <3>2 DEF RowTypeOK, ChalRow
  <2> QED BY <1>1, <2>1, <2>2
<1>4. RowTypeOK'
  BY <1>1, <1>3, StoredStages DEF RowTypeOK
<1>5. RowsFollowJobs'
  BY <1>1, <1>2, <1>3 DEF RowsFollowJobs, RowTypeOK, BeforeStore, Stored, RunningStages
<1>6. CheckedWasTried'
  BY <1>1, <1>3 DEF CheckedWasTried
<1>7. CodeStep
  <2>1. Tries' = Tries
    BY <1>3 DEF Tries
  <2>2. \A q \in Request : q # r => LifeOf(q)' = LifeOf(q)
    BY <1>3 DEF LifeOf
  <2>3. CASE chal[r].state = "live" /\ ~chal[r].expired /\ chal'[r].delivered
    <3>1. LifeOf(r) = "made" /\ LifeOf(r)' = "usable" /\ r \in sms
      BY <1>2, <1>3, <2>3, Lives, LivesAfter
    <3>2. Life[r] = "made" /\ Life' = [Life EXCEPT ![r] = "usable"]
      BY <2>2, <3>1 DEF Life
    <3>3. Promise!Deliver(r)
      BY <1>1, <2>1, <3>1, <3>2 DEF Promise!Deliver, Life, Tries
    <3> QED BY <3>3 DEF CodeStep, Promise!Next
  <2>4. CASE ~(chal[r].state = "live" /\ ~chal[r].expired /\ chal'[r].delivered)
    <3>1. LifeOf(r)' = LifeOf(r)
      BY <1>2, <1>3, <2>4, RowFields DEF LifeOf
    <3>2. Life' = Life
      BY <2>2, <3>1 DEF Life
    <3> QED BY <1>1, <2>1, <3>2 DEF CodeStep
  <2> QED BY <2>3, <2>4
<1> QED BY <1>4, <1>5, <1>6, <1>7

LEMMA RAdmit ==
  ASSUME RInv, NEW v \in Verifier, NEW r \in Request, NEW right \in BOOLEAN, Admit(v, r, right)
  PROVE  RInv' /\ CodeStep
<1> USE DEF RInv
<1>1. /\ chal[r].state # "none" /\ chal[r].tries < MaxTries
      /\ chal' = [chal EXCEPT ![r].tries = chal[r].tries + 1]
      /\ check' = [check EXCEPT ![v] = IF right /\ Valid(r) THEN [stage |-> "admitted", chal |-> r]
                                       ELSE NoCheck]
      /\ UNCHANGED <<job, silent, sms>>
  BY DEF Admit
<1>2. chal[r].tries + 1 \in 0..MaxTries /\ chal[r].tries \in Nat
  BY <1>1, RowFields, TriesBound
<1>3. [chal[r] EXCEPT !.tries = chal[r].tries + 1] \in ChalRow
  BY <1>2 DEF RowTypeOK, ChalRow
<1>4. chal' \in [Request -> ChalRow]
  BY <1>1, <1>3 DEF RowTypeOK
<1>5. /\ \A q \in Request : /\ chal'[q].state = chal[q].state /\ chal'[q].expired = chal[q].expired
                            /\ chal'[q].delivered = chal[q].delivered
                            /\ q # r => chal'[q] = chal[q]
      /\ chal'[r].tries = chal[r].tries + 1
  BY <1>1 DEF RowTypeOK, ChalRow
<1>6. check' \in [Verifier -> CheckRow]
  BY <1>1 DEF RowTypeOK, CheckRow, NoCheck
<1>7. RowTypeOK'
  BY <1>1, <1>4, <1>6 DEF RowTypeOK
<1>8. RowsFollowJobs'
  BY <1>1, <1>5 DEF RowsFollowJobs
<1>9. CheckedWasTried'
  <2> SUFFICES ASSUME NEW w \in Verifier, check'[w].stage = "admitted"
      PROVE  /\ check'[w].chal \in Request
             /\ chal'[check'[w].chal].state # "none" /\ chal'[check'[w].chal].tries > 0
    BY DEF CheckedWasTried
  <2>1. CASE w = v
    <3>1. check'[w].chal = r
      BY <1>1, <2>1 DEF RowTypeOK, NoCheck
    <3> QED BY <1>1, <1>2, <1>5, <3>1
  <2>2. CASE w # v
    <3>1. check'[w] = check[w]
      BY <1>1, <2>2 DEF RowTypeOK
    <3>2. /\ check[w].chal \in Request /\ chal[check[w].chal].state # "none"
          /\ chal[check[w].chal].tries > 0
      BY <3>1 DEF CheckedWasTried
    <3>3. CASE check[w].chal = r
      BY <1>2, <1>5, <3>1, <3>2, <3>3
    <3>4. CASE check[w].chal # r
      BY <1>5, <3>1, <3>2, <3>4
    <3> QED BY <3>3, <3>4
  <2> QED BY <2>1, <2>2
<1>10. Promise!Try(r)
  <2>1. Life[r] # "none"
    BY <1>1, Lives, RowFields DEF Life
  <2>2. Life' = Life
    <3>1. \A q \in Request : LifeOf(q)' = LifeOf(q)
      BY <1>5 DEF LifeOf
    <3> QED BY <3>1 DEF Life
  <2>3. Tries[r] < MaxTries /\ Tries' = [Tries EXCEPT ![r] = Tries[r] + 1]
    <3>1. \A q \in Request : chal'[q].tries = IF q = r THEN chal[r].tries + 1 ELSE chal[q].tries
      BY <1>5
    <3> QED BY <1>1, <3>1 DEF Tries
  <2> QED BY <1>1, <2>1, <2>2, <2>3 DEF Promise!Try, Life, Tries
<1> QED BY <1>7, <1>8, <1>9, <1>10 DEF CodeStep, Promise!Next

\* A row changes its state or expires, and its code is used up or dies with it.
LEMMA RowEnds ==
  ASSUME RInv, NEW r \in Request, NEW row \in ChalRow, chal' = [chal EXCEPT ![r] = row],
         row.delivered = chal[r].delivered, row.tries = chal[r].tries,
         row.state # "none", chal[r].state # "none", UNCHANGED <<job, silent, sms>>
  PROVE  /\ chal' \in [Request -> ChalRow] /\ RowsFollowJobs' /\ Tries' = Tries
         /\ (check' = check => CheckedWasTried')
         /\ chal'[r] = row
         /\ \A q \in Request : q # r => LifeOf(q)' = LifeOf(q)
<1> USE DEF RInv
<1>1. /\ chal' \in [Request -> ChalRow] /\ chal'[r] = row
      /\ \A q \in Request : q # r => chal'[q] = chal[q]
  BY DEF RowTypeOK
<1>2. RowsFollowJobs'
  BY <1>1 DEF RowsFollowJobs
<1>3. Tries' = Tries
  BY <1>1 DEF Tries
<1>4. check' = check => CheckedWasTried'
  BY <1>1 DEF CheckedWasTried
<1>5. \A q \in Request : q # r => LifeOf(q)' = LifeOf(q)
  BY <1>1 DEF LifeOf
<1> QED BY <1>1, <1>2, <1>3, <1>4, <1>5

LEMMA RConsume ==
  ASSUME RInv, NEW v \in Verifier, Consume(v)
  PROVE  RInv' /\ CodeStep
<1> USE DEF RInv
<1>1. /\ check[v].stage = "admitted" /\ check' = [check EXCEPT ![v] = NoCheck]
      /\ UNCHANGED <<job, silent, sms>>
  BY DEF Consume
<1>2. PICK r \in Request : /\ r = check[v].chal /\ chal[r].state # "none" /\ chal[r].tries > 0
                          /\ \/ chal' = chal
                             \/ Valid(r) /\ chal' = [chal EXCEPT ![r].state = "consumed"]
  BY <1>1 DEF CheckedWasTried, Consume
<1> DEFINE row == [chal[r] EXCEPT !.state = "consumed"]
<1>3. check' \in [Verifier -> CheckRow]
      /\ \A w \in Verifier : check'[w].stage = "admitted" => check'[w] = check[w]
  BY <1>1 DEF RowTypeOK, CheckRow, NoCheck
<1>4. CASE chal' = chal
  <2>1. RowTypeOK' /\ RowsFollowJobs' /\ CheckedWasTried'
    BY <1>1, <1>3, <1>4 DEF RowTypeOK, RowsFollowJobs, CheckedWasTried
  <2> QED BY <1>1, <1>4, <2>1, QuietCodes
<1>5. CASE Valid(r) /\ chal' = [chal EXCEPT ![r].state = "consumed"]
  <2>1. /\ row \in ChalRow /\ row.state = "consumed" /\ row.delivered = chal[r].delivered
        /\ row.tries = chal[r].tries /\ chal' = [chal EXCEPT ![r] = row]
    BY <1>2, <1>5 DEF RowTypeOK, ChalRow
  <2> HIDE DEF row
  <2>2. /\ chal' \in [Request -> ChalRow] /\ RowsFollowJobs' /\ Tries' = Tries
        /\ chal'[r] = row
        /\ \A q \in Request : q # r => LifeOf(q)' = LifeOf(q)
    BY <1>1, <1>2, <2>1, RowEnds
  <2>3. RowTypeOK'
    BY <1>1, <1>3, <2>2 DEF RowTypeOK
  <2>4. CheckedWasTried'
    <3>1. \A q \in Request : chal'[q].tries = chal[q].tries /\ (chal'[q].state = "none" => chal[q].state = "none")
      BY <2>1, <2>2 DEF RowTypeOK
    <3> QED BY <1>3, <3>1 DEF CheckedWasTried
  <2>5. Life[r] = "usable" /\ Life' = [Life EXCEPT ![r] = "spent"]
    <3>1. LifeOf(r) = "usable"
      BY <1>2, <1>5, Lives DEF Valid
    <3>2. LifeOf(r)' = "spent"
      BY <1>2, <2>1, <2>2, LivesAfter
    <3> QED BY <1>2, <2>2, <3>1, <3>2 DEF Life
  <2>6. Tries[r] > 0
    BY <1>2 DEF Tries
  <2>7. Promise!Spend(r)
    BY <1>1, <2>2, <2>5, <2>6 DEF Promise!Spend, Life, Tries
  <2> QED BY <1>2, <2>2, <2>3, <2>4, <2>7 DEF CodeStep, Promise!Next
<1> QED BY <1>2, <1>4, <1>5

LEMMA RExpire ==
  ASSUME RInv, NEW r \in Request, Expire(r)
  PROVE  RInv' /\ CodeStep
<1> USE DEF RInv
<1> DEFINE row == [chal[r] EXCEPT !.expired = TRUE]
<1>1. /\ chal[r].state # "none" /\ ~chal[r].expired
      /\ chal' = [chal EXCEPT ![r].expired = TRUE] /\ UNCHANGED <<job, silent, sms, check>>
  BY DEF Expire
<1>2. /\ row \in ChalRow /\ row.state = chal[r].state /\ row.delivered = chal[r].delivered
      /\ row.tries = chal[r].tries /\ row.expired /\ chal' = [chal EXCEPT ![r] = row]
  BY <1>1 DEF RowTypeOK, ChalRow
<1> HIDE DEF row
<1>3. /\ chal' \in [Request -> ChalRow] /\ RowsFollowJobs' /\ Tries' = Tries /\ CheckedWasTried'
      /\ chal'[r] = row
      /\ \A q \in Request : q # r => LifeOf(q)' = LifeOf(q)
  BY <1>1, <1>2, RowEnds
<1>4. RowTypeOK'
  BY <1>1, <1>3 DEF RowTypeOK
<1>5. CodeStep
  <2>1. CASE chal[r].state = "live"
    <3>1. LifeOf(r) \in {"made", "usable"} /\ LifeOf(r)' = "dead"
      BY <1>1, <1>2, <1>3, <2>1, Lives, LivesAfter, RowFields
    <3>2. Life[r] \in {"made", "usable"} /\ Life' = [Life EXCEPT ![r] = "dead"]
      BY <1>3, <3>1 DEF Life
    <3>3. Promise!Expire(r)
      BY <1>1, <1>3, <3>2 DEF Promise!Expire, Promise!Open, Life, Tries
    <3> QED BY <3>3 DEF CodeStep, Promise!Next
  <2>2. CASE chal[r].state # "live"
    <3>1. LifeOf(r)' = LifeOf(r)
      BY <1>1, <1>2, <1>3, <2>2, Lives, LivesAfter, RowFields
    <3>2. Life' = Life
      BY <1>3, <3>1 DEF Life
    <3> QED BY <1>1, <1>3, <3>2 DEF CodeStep
  <2> QED BY <2>1, <2>2
<1> QED BY <1>3, <1>4, <1>5

-----------------------------------------------------------------------------
(* The steps that only move jobs.                                          *)

LEMMA DispatchMoves ==
  ASSUME NEW q \in Seq(Request), NEW js \in [Request -> JobStages], Dispatch(q, js),
         \A i \in 1..Len(q) : js[q[i]] = "pending"
  PROVE  \A x \in Request : job'[x] = js[x] \/ (js[x] = "pending" /\ job'[x] = "picked")
<1> DEFINE k == Starts(q, js)
<1>1. Cardinality(Running(js)) \in Nat /\ MaxRunning \in Nat /\ Len(q) \in Nat
  BY RequestSets, RunningBound
<1>2. k \in Int /\ k <= Len(q)
  BY <1>1 DEF Starts
<1>3. job' = [r \in Request |-> IF \E i \in 1..k : q[i] = r THEN "picked" ELSE js[r]]
  BY DEF Dispatch
<1> HIDE DEF k
<1>4. \A i \in 1..k : i \in 1..Len(q)
  BY <1>1, <1>2
<1> QED BY <1>3, <1>4

LEMMA RQueue ==
  ASSUME JInv, JInv', RInv, NEW r \in Request, Enqueue(r) \/ Finish(r)
  PROVE  RInv' /\ CodeStep
<1>1. job \in [Request -> JobStages] /\ pending \in Seq(Request) /\ job' \in [Request -> JobStages]
      /\ \A i \in 1..Len(pending) : job[pending[i]] = "pending"
  BY DEF JInv, JobTypeOK, QueuesSound, Lists
<1>2. UNCHANGED <<chal, silent, sms, check>>
  BY DEF Enqueue, Finish
<1>3. CASE Enqueue(r)
  <2> DEFINE q == Append(pending, r)
             js == [job EXCEPT ![r] = "pending"]
  <2>1. job[r] = "stored" /\ Dispatch(q, js)
    BY <1>3 DEF Enqueue
  <2>2. /\ q \in Seq(Request) /\ Len(q) = Len(pending) + 1 /\ Len(pending) \in Nat
        /\ \A i \in 1..Len(pending) : q[i] = pending[i]
        /\ q[Len(pending) + 1] = r
    BY <1>1, AppendProperties
  <2>3. /\ js \in [Request -> JobStages] /\ js[r] = "pending"
        /\ \A p \in Request : p # r => js[p] = job[p]
    BY <1>1, Stages
  <2> HIDE DEF q, js
  <2>4. \A i \in 1..Len(pending) : pending[i] \in Request /\ pending[i] # r
    BY <1>1, <2>1
  <2>5. \A i \in 1..Len(q) : js[q[i]] = "pending"
    BY <1>1, <2>2, <2>3, <2>4
  <2>6. \A x \in Request : job'[x] = js[x] \/ (js[x] = "pending" /\ job'[x] = "picked")
    BY <2>1, <2>2, <2>3, <2>5, DispatchMoves
  <2>7. \A x \in Request : \/ job'[x] = job[x]
                           \/ job[x] \in Stored /\ job'[x] \in Stored \ {"over", "accepted"} /\ job[x] # "over"
    BY <2>1, <2>3, <2>6, StoredStages
  <2>8. RInv'
    BY <1>1, <1>2, <2>7, RJobs DEF RInv, RowTypeOK
  <2> QED BY <1>2, <2>8, QuietCodes
<1>4. CASE Finish(r)
  <2> DEFINE js == [job EXCEPT ![r] = "gone"]
  <2>1. job[r] = "over" /\ Dispatch(pending, js)
    BY <1>4 DEF Finish
  <2>2. /\ js \in [Request -> JobStages] /\ js[r] = "gone"
        /\ \A p \in Request : p # r => js[p] = job[p]
    BY <1>1, Stages
  <2> HIDE DEF js
  <2>3. \A i \in 1..Len(pending) : pending[i] \in Request /\ pending[i] # r
    BY <1>1, <2>1
  <2>4. \A i \in 1..Len(pending) : js[pending[i]] = "pending"
    BY <1>1, <2>2, <2>3
  <2>5. \A x \in Request : job'[x] = js[x] \/ (js[x] = "pending" /\ job'[x] = "picked")
    BY <1>1, <2>1, <2>2, <2>4, DispatchMoves
  <2>6. \A x \in Request : \/ job'[x] = job[x] \/ job'[x] = "gone"
                           \/ job[x] \in Stored /\ job'[x] \in Stored \ {"over", "accepted"} /\ job[x] # "over"
    BY <2>2, <2>5, StoredStages
  <2>7. RInv'
    BY <1>1, <1>2, <2>6, RJobs DEF RInv, RowTypeOK
  <2> QED BY <1>2, <2>7, QuietCodes
<1> QED BY <1>3, <1>4

LEMMA RMoves ==
  ASSUME RInv,
         \/ \E r \in Request : \/ Reserve(r) \/ Refuse(r) \/ Interrupt(r) \/ ThrowInterrupted(r)
                               \/ Look(r)
         \/ Stop
  PROVE  RInv' /\ CodeStep
<1>1. UNCHANGED <<chal, silent, sms, check>>
  BY DEF Reserve, Refuse, Interrupt, ThrowInterrupted, Look, Stop
<1>2. ASSUME NEW r \in Request, Reserve(r) \/ Refuse(r) \/ Interrupt(r) \/ ThrowInterrupted(r) \/ Look(r)
      PROVE  RInv'
  <2>1. PICK s \in JobStages :
          /\ job' = [job EXCEPT ![r] = s]
          /\ \/ s = "gone"
             \/ job[r] = "idle" /\ s = "admitted"
             \/ job[r] = "stored" /\ s = "interrupted"
             \/ job[r] = "picked" /\ s \in {"sending", "over"}
    BY <1>2, StoredStages DEF Reserve, Refuse, Interrupt, ThrowInterrupted, Look
  <2>2. job' \in [Request -> JobStages] /\ job'[r] = s /\ \A q \in Request : q # r => job'[q] = job[q]
    BY <2>1 DEF RInv, RowTypeOK
  <2> QED BY <1>1, <2>1, <2>2, RJobs, StoredStages DEF RInv, RowTypeOK
<1>3. ASSUME Stop PROVE RInv'
  <2>1. job' = [r \in Request |-> IF job[r] = "pending" THEN "draining" ELSE job[r]]
    BY <1>3 DEF Stop
  <2>2. job' \in [Request -> JobStages]
    BY <2>1, StoredStages DEF RInv, RowTypeOK
  <2> QED BY <1>1, <2>1, <2>2, RJobs, StoredStages DEF RInv, RowTypeOK
<1> QED BY <1>1, <1>2, <1>3, QuietCodes

LEMMA RDrain == ASSUME JInv, RInv, DrainOne PROVE RInv' /\ CodeStep
<1>1. UNCHANGED <<chal, silent, sms, check>> /\ job' = [job EXCEPT ![Head(drain)] = "gone"]
  BY DEF DrainOne
<1>2. job' \in [Request -> JobStages] /\ \A x \in Request : job'[x] = job[x] \/ job'[x] = "gone"
  BY <1>1, StoredStages DEF RInv, RowTypeOK
<1> QED BY <1>1, <1>2, RJobs, QuietCodes DEF RInv, RowTypeOK

LEMMA RReborn == ASSUME RInv, Reborn PROVE RInv' /\ CodeStep
<1> USE DEF RInv
<1>1. /\ job' = [r \in Request |-> IF job[r] = "idle" THEN "idle" ELSE "gone"]
      /\ check' = [v \in Verifier |-> NoCheck] /\ UNCHANGED <<chal, silent, sms>>
  BY DEF Reborn
<1>2. RowTypeOK'
  BY <1>1, StoredStages DEF RowTypeOK, NoCheck, CheckRow
<1>3. RowsFollowJobs'
  BY <1>1, StoredStages DEF RowsFollowJobs, BeforeStore
<1>4. CheckedWasTried'
  BY <1>1 DEF CheckedWasTried, NoCheck
<1> QED BY <1>1, <1>2, <1>3, <1>4, QuietCodes

-----------------------------------------------------------------------------
(* The theorems.                                                           *)

OInv == JInv /\ RInv

LEMMA OInitInvariant == OInit => OInv
<1> SUFFICES ASSUME OInit PROVE RInv
  BY JInit DEF OInv
<1> USE TriesBound DEF OInit
<1>1. RowTypeOK
  BY StoredStages DEF RowTypeOK, ChalRow, CheckRow, NoCheck
<1>2. RowsFollowJobs
  BY StoredStages DEF RowsFollowJobs
<1>3. CheckedWasTried
  BY DEF CheckedWasTried, NoCheck
<1> QED BY <1>1, <1>2, <1>3 DEF RInv

LEMMA OStepInvariant == OInv /\ [ONext]_ovars => OInv' /\ CodeStep
<1> SUFFICES ASSUME OInv, [ONext]_ovars PROVE RInv' /\ CodeStep
  BY JStep DEF OInv
<1>1. JInv /\ RInv /\ JInv'
  BY JStep DEF OInv
<1>2. CASE UNCHANGED ovars
  <2>1. RInv'
    BY <1>1, <1>2 DEF ovars, RInv, RowTypeOK, RowsFollowJobs, CheckedWasTried
  <2>2. UNCHANGED <<chal, sms>>
    BY <1>2 DEF ovars
  <2> QED BY <2>1, <2>2, QuietCodes
<1>3. ASSUME NEW r \in Request, Reserve(r) \/ IssueStep(r) PROVE RInv' /\ CodeStep
  BY <1>1, <1>3, RStore, RQueue, RMoves DEF IssueStep
<1>4. ASSUME NEW r \in Request, DeliverStep(r) PROVE RInv' /\ CodeStep
  BY <1>1, <1>4, RSend, RRecord, RQueue, RMoves DEF DeliverStep
<1>5. ASSUME NEW r \in Request, Expire(r) PROVE RInv' /\ CodeStep
  BY <1>1, <1>5, RExpire
<1>6. ASSUME NEW v \in Verifier, Consume(v) \/ \E r \in Request, right \in BOOLEAN : Admit(v, r, right)
      PROVE  RInv' /\ CodeStep
  BY <1>1, <1>6, RConsume, RAdmit
<1>7. CASE DrainOne
  BY <1>1, <1>7, RDrain
<1>8. CASE Stop
  BY <1>1, <1>8, RMoves
<1>9. CASE Reborn
  BY <1>1, <1>9, RReborn
<1> QED BY <1>2, <1>3, <1>4, <1>5, <1>6, <1>7, <1>8, <1>9 DEF ONext, OStep

LEMMA OtpInvariant == OSpec => []OInv
<1> QED BY OInitInvariant, OStepInvariant, PTL DEF OSpec

\* The rows, the queue and the counters of one-time passwords keep their types; a
\* lane's counter never falls below zero.
THEOREM OtpTypeCorrect == OSpec => []OTypeOK
<1>1. OInv => OTypeOK
  BY DEF OInv, JInv, JobTypeOK, RInv, RowTypeOK, OTypeOK
<1> QED BY <1>1, OtpInvariant, PTL

\* Every path of a request gives its slot back exactly once, through any refusal,
\* shutdown or crash.
THEOREM LanesStayExact == OSpec => []LaneIsExact
<1>1. OInv => LaneIsExact
  BY DEF OInv, JInv
<1> QED BY <1>1, OtpInvariant, PTL

\* Nothing waits beside a free slot of deliver.
THEOREM QueueStaysServed == OSpec => []QueueIsServed
<1>1. OInv => QueueIsServed
  BY DEF OInv, JInv
<1> QED BY <1>1, OtpInvariant, PTL

\* issue, deliver, admit and consume keep the promise of a one-time code: the newest
\* one only, after its SMS, once.
THEOREM OtpImplementsCodes == OSpec => KeepsCode
<1>1. OInit => Promise!Init
  <2> SUFFICES ASSUME OInit PROVE Promise!Init
    OBVIOUS
  <2>1. \A r \in Request : LifeOf(r) = "none" /\ chal[r].tries = 0
    BY Lives DEF OInit
  <2> QED BY <2>1 DEF OInit, Promise!Init
<1>2. CodeStep => [Promise!Next]_<<[r \in Request |-> LifeOf(r)], [r \in Request |-> chal[r].tries], sms>>
  BY DEF CodeStep, Life, Tries
<1> QED BY <1>1, <1>2, OtpInvariant, OStepInvariant, PTL DEF OSpec, KeepsCode, Promise!Spec

-----------------------------------------------------------------------------
(* Every step of the process is a step of Otp or leaves it alone.           *)

\* Whatever notices, crashes and shutdowns come between, the codes behave as Otp says.
THEOREM MessagesUseOtp == MSpec => OSpec
<1>1. MInit => OInit
  BY DEF MInit
<1>2. [MNext]_mvars => [ONext]_ovars
  <2> SUFFICES ASSUME [MNext]_mvars PROVE [ONext]_ovars
    OBVIOUS
  <2>1. CASE OStep /\ UNCHANGED nvars
    BY <2>1 DEF ONext
  <2>2. CASE NStep /\ UNCHANGED ovars
    BY <2>2
  <2>3. CASE ShutDown
    BY <2>3 DEF ShutDown, ONext
  <2>4. CASE ShutDownEnds
    BY <2>4 DEF ShutDownEnds, ONext
  <2>5. ASSUME NEW w \in Worker, Crash(w) PROVE [ONext]_ovars
    BY <2>5 DEF Crash, ONext
  <2>6. CASE UNCHANGED mvars
    BY <2>6 DEF mvars
  <2> QED BY <2>1, <2>2, <2>3, <2>4, <2>5, <2>6 DEF MNext
<1> QED BY <1>1, <1>2, PTL DEF MSpec, OSpec

\* The one-time passwords keep their types beside the notices.
THEOREM MessagesTypeCorrect == MSpec => []OTypeOK
BY MessagesUseOtp, OtpTypeCorrect, PTL

\* A slot of a lane goes back exactly once, also when both hooks of the shutdown
\* run and when the process dies with requests under way.
THEOREM SharedLanesStayExact == MSpec => []LaneIsExact
BY MessagesUseOtp, LanesStayExact, PTL

\* No request waits beside a free slot of deliver.
THEOREM SharedQueueStaysServed == MSpec => []QueueIsServed
BY MessagesUseOtp, QueueStaysServed, PTL

\* The process keeps the promise of a one-time code.
THEOREM MessagesImplementCodes == MSpec => KeepsCode
BY MessagesUseOtp, OtpImplementsCodes, PTL

-----------------------------------------------------------------------------
(* The invariant of the notices: an event is in one place, and nothing was  *)
(* done about it before it is the head of a batch.                          *)

Fresh(e) == arrived[e] = 0 /\ outcome[e] = "none"

WaitingIsFresh ==
  \A i \in 1..Len(outbox) : outbox[i] \in raised /\ Fresh(outbox[i])
WaitsOnce ==
  \A i, j \in 1..Len(outbox) : outbox[i] = outbox[j] => i = j
HeldIsFresh ==
  \A w \in Worker : \A i \in 1..Len(batch[w]) :
    batch[w][i] \in raised /\ (i > 1 => Fresh(batch[w][i]))
HeldOnce ==
  \A w, x \in Worker : \A i \in 1..Len(batch[w]), j \in 1..Len(batch[x]) :
    batch[w][i] = batch[x][j] => w = x /\ i = j
HeldIsClaimed ==
  \A w \in Worker : \A i \in 1..Len(batch[w]), j \in 1..Len(outbox) : batch[w][i] # outbox[j]
Unraised == \A e \in Event \ raised : Fresh(e)

\* What is known of the head of a batch at each stage of its sending.
HeadFollowsStage ==
  \A w \in Worker :
    /\ Len(batch[w]) = 0 => sending[w] = "read"
    /\ Len(batch[w]) > 0 =>
         /\ outcome[batch[w][1]] = "none"
         /\ sending[w] \in {"read", "call", "skipped"} => arrived[batch[w][1]] = 0
         /\ sending[w] = "sent" => arrived[batch[w][1]] = 1

Places == WaitingIsFresh /\ WaitsOnce /\ HeldIsFresh /\ HeldOnce /\ HeldIsClaimed /\ Unraised
NInv == NTypeOK /\ Places /\ HeadFollowsStage /\ SentAtMostOnce /\ AuditIsTrue

LEMMA Lens == ASSUME NTypeOK PROVE /\ Len(outbox) \in Nat
                                   /\ \A i \in 1..Len(outbox) : outbox[i] \in Event
                                   /\ \A w \in Worker : Len(batch[w]) \in Nat
                                   /\ \A w \in Worker : \A i \in 1..Len(batch[w]) : batch[w][i] \in Event
BY DEF NTypeOK

LEMMA NoticesInit == NInit => NInv
<1> SUFFICES ASSUME NInit PROVE NInv
  OBVIOUS
<1>1. NTypeOK
  BY DEF NInit, NTypeOK, SendStages, Outcomes
<1>2. Len(outbox) = 0 /\ \A w \in Worker : Len(batch[w]) = 0
  BY DEF NInit
<1>3. Places /\ HeadFollowsStage
  BY <1>2 DEF NInit, Places, WaitingIsFresh, WaitsOnce, HeldIsFresh, HeldOnce, HeldIsClaimed,
              Unraised, Fresh, HeadFollowsStage
<1> QED BY <1>1, <1>3 DEF NInit, NInv, SentAtMostOnce, AuditIsTrue

LEMMA NRaise == ASSUME NInv, NEW e \in Event, Raise(e) PROVE NInv'
<1>1. /\ e \notin raised /\ raised' = raised \cup {e} /\ outbox' = Append(outbox, e)
      /\ UNCHANGED <<batch, sending, closed, arrived, outcome>>
  BY DEF Raise
<1>2. /\ outbox \in Seq(Event) /\ outbox' \in Seq(Event)
      /\ Len(outbox) \in Nat /\ Len(outbox') = Len(outbox) + 1
      /\ \A i \in 1..Len(outbox) : outbox'[i] = outbox[i]
      /\ outbox'[Len(outbox) + 1] = e
  BY <1>1, AppendProperties DEF NInv, NTypeOK
<1>3. NTypeOK'
  BY <1>1, <1>2 DEF NInv, NTypeOK
<1>4. Fresh(e) /\ \A d \in Event : Fresh(d)' <=> Fresh(d)
  BY <1>1 DEF NInv, Places, Unraised, Fresh
<1>5. \A i \in 1..Len(outbox') : i \in 1..Len(outbox) \/ i = Len(outbox) + 1
  BY <1>2
<1>6. WaitingIsFresh' /\ WaitsOnce'
  BY <1>1, <1>2, <1>4, <1>5, Lens DEF NInv, Places, WaitingIsFresh, WaitsOnce
<1>7. HeldIsFresh' /\ HeldOnce'
  BY <1>1, <1>4, Lens DEF NInv, Places, HeldIsFresh, HeldOnce
<1>8. HeldIsClaimed'
  BY <1>1, <1>2, <1>5, Lens DEF NInv, Places, HeldIsClaimed, HeldIsFresh
<1>9. Unraised'
  BY <1>1, <1>4 DEF NInv, Places, Unraised
<1>10. HeadFollowsStage' /\ SentAtMostOnce' /\ AuditIsTrue'
  BY <1>1 DEF NInv, HeadFollowsStage, SentAtMostOnce, AuditIsTrue
<1> QED BY <1>3, <1>6, <1>7, <1>8, <1>9, <1>10 DEF NInv, Places

LEMMA NDrain == ASSUME NInv, NEW w \in Worker, Drain(w) PROVE NInv'
<1> DEFINE n == IF Batch < Len(outbox) THEN Batch ELSE Len(outbox)
<1>1. /\ Len(batch[w]) = 0 /\ outbox # <<>>
      /\ batch' = [batch EXCEPT ![w] = SubSeq(outbox, 1, n)]
      /\ outbox' = SubSeq(outbox, n + 1, Len(outbox))
      /\ UNCHANGED <<raised, sending, closed, arrived, outcome>>
  BY DEF Drain, Claimed
<1>2. outbox \in Seq(Event) /\ Len(outbox) \in Nat /\ Len(outbox) > 0
  BY <1>1, EmptySeq DEF NInv, NTypeOK
<1>3. n \in 1..Len(outbox)
  BY <1>2, BatchBound
<1> HIDE DEF n
<1>4. /\ outbox' \in Seq(Event) /\ Len(outbox') = Len(outbox) - n
      /\ \A i \in 1..Len(outbox') : outbox'[i] = outbox[i + n] /\ i + n \in 1..Len(outbox)
  BY <1>1, <1>2, <1>3, SubSeqProperties
<1>5. /\ batch'[w] \in Seq(Event) /\ Len(batch'[w]) = n
      /\ \A i \in 1..n : batch'[w][i] = outbox[i] /\ i \in 1..Len(outbox)
  <2>1. batch'[w] = SubSeq(outbox, 1, n)
    BY <1>1 DEF NInv, NTypeOK
  <2> QED BY <1>2, <1>3, <2>1, SubSeqProperties
<1>6. \A x \in Worker : x # w => batch'[x] = batch[x]
  BY <1>1 DEF NInv, NTypeOK
<1>7. NTypeOK'
  <2>1. batch' = [x \in Worker |-> batch'[x]]
    BY <1>1 DEF NInv, NTypeOK
  <2>2. batch' \in [Worker -> Seq(Event)]
    BY <1>5, <1>6, <2>1 DEF NInv, NTypeOK
  <2> QED BY <1>1, <1>4, <2>2 DEF NInv, NTypeOK
<1>8. \A d \in Event : Fresh(d)' <=> Fresh(d)
  BY <1>1 DEF Fresh
<1>9. WaitingIsFresh' /\ WaitsOnce' /\ Unraised'
  BY <1>1, <1>2, <1>3, <1>4, <1>8, Lens DEF NInv, Places, WaitingIsFresh, WaitsOnce, Unraised
<1>10. HeldIsFresh'
  BY <1>1, <1>5, <1>6, <1>8, Lens DEF NInv, Places, HeldIsFresh, WaitingIsFresh
<1>11. HeldOnce'
  <2> SUFFICES ASSUME NEW x \in Worker, NEW y \in Worker,
                      NEW i \in 1..Len(batch'[x]), NEW j \in 1..Len(batch'[y]),
                      batch'[x][i] = batch'[y][j]
      PROVE  x = y /\ i = j
    BY DEF HeldOnce
  <2>1. CASE x = w /\ y = w
    BY <1>5, <2>1 DEF NInv, Places, WaitsOnce
  <2>2. CASE x = w /\ y # w
    BY <1>5, <1>6, <2>2 DEF NInv, Places, HeldIsClaimed
  <2>3. CASE x # w /\ y = w
    BY <1>5, <1>6, <2>3 DEF NInv, Places, HeldIsClaimed
  <2>4. CASE x # w /\ y # w
    BY <1>6, <2>4 DEF NInv, Places, HeldOnce
  <2> QED BY <2>1, <2>2, <2>3, <2>4
<1>12. HeldIsClaimed'
  <2> SUFFICES ASSUME NEW x \in Worker, NEW i \in 1..Len(batch'[x]), NEW j \in 1..Len(outbox')
      PROVE  batch'[x][i] # outbox'[j]
    BY DEF HeldIsClaimed
  <2>1. CASE x = w
    <3>1. i # j + n
      BY <1>3, <1>4, <1>5, <2>1
    <3> QED BY <1>4, <1>5, <2>1, <3>1, ZenonT(60) DEF NInv, Places, WaitsOnce
  <2>2. CASE x # w
    BY <1>4, <1>6, <2>2 DEF NInv, Places, HeldIsClaimed
  <2> QED BY <2>1, <2>2
<1>13. HeadFollowsStage'
  <2> SUFFICES ASSUME NEW x \in Worker
      PROVE  /\ Len(batch'[x]) = 0 => sending[x] = "read"
             /\ Len(batch'[x]) > 0 =>
                  /\ outcome[batch'[x][1]] = "none"
                  /\ sending[x] \in {"read", "call", "skipped"} => arrived[batch'[x][1]] = 0
                  /\ sending[x] = "sent" => arrived[batch'[x][1]] = 1
    BY <1>1 DEF HeadFollowsStage
  <2>1. CASE x = w
    <3>1. sending[w] = "read" /\ 1 \in 1..n /\ n > 0
      BY <1>1, <1>2, <1>3 DEF NInv, HeadFollowsStage
    <3>2. Fresh(outbox[1]) /\ batch'[w][1] = outbox[1]
      BY <1>5, <3>1 DEF NInv, Places, WaitingIsFresh
    <3> QED BY <1>5, <2>1, <3>1, <3>2 DEF Fresh
  <2>2. CASE x # w
    BY <1>6, <2>2 DEF NInv, HeadFollowsStage
  <2> QED BY <2>1, <2>2
<1>14. SentAtMostOnce' /\ AuditIsTrue'
  BY <1>1 DEF NInv, SentAtMostOnce, AuditIsTrue
<1> QED BY <1>7, <1>9, <1>10, <1>11, <1>12, <1>13, <1>14 DEF NInv, Places

LEMMA NRead == ASSUME NInv, NEW w \in Worker, ReadRecipient(w) PROVE NInv'
<1>1. PICK s \in {"call", "skipped", "unavailable"} :
        /\ batch[w] # <<>> /\ sending[w] = "read" /\ sending' = [sending EXCEPT ![w] = s]
        /\ UNCHANGED <<outbox, raised, batch, closed, arrived, outcome>>
  BY DEF ReadRecipient
<1>2. Len(batch[w]) \in Nat /\ Len(batch[w]) > 0
  BY <1>1, EmptySeq DEF NInv, NTypeOK
<1>3. sending'[w] = s /\ \A x \in Worker : x # w => sending'[x] = sending[x]
  BY <1>1 DEF NInv, NTypeOK
<1>4. NTypeOK'
  BY <1>1 DEF NInv, NTypeOK, SendStages
<1>5. Places'
  BY <1>1 DEF NInv, Places, WaitingIsFresh, WaitsOnce, HeldIsFresh, HeldOnce, HeldIsClaimed,
              Unraised, Fresh
<1>6. HeadFollowsStage'
  BY <1>1, <1>2, <1>3 DEF NInv, HeadFollowsStage
<1>7. SentAtMostOnce' /\ AuditIsTrue'
  BY <1>1 DEF NInv, SentAtMostOnce, AuditIsTrue
<1> QED BY <1>4, <1>5, <1>6, <1>7 DEF NInv

\* Only the head of the batch is touched.
LEMMA HeadAlone ==
  ASSUME NInv, NEW w \in Worker, NEW h \in Event, Len(batch[w]) > 0, h = batch[w][1]
  PROVE  /\ h \in raised
         /\ \A i \in 1..Len(outbox) : outbox[i] # h
         /\ \A x \in Worker : \A i \in 1..Len(batch[x]) : batch[x][i] = h => x = w /\ i = 1
<1>1. 1 \in 1..Len(batch[w])
  BY Lens DEF NInv
<1> QED BY <1>1 DEF NInv, Places, HeldIsFresh, HeldIsClaimed, HeldOnce

LEMMA NCall == ASSUME NInv, NEW w \in Worker, CallProvider(w) PROVE NInv'
<1>1. PICK took \in BOOLEAN, s \in {"sent", "unavailable"} :
        /\ batch[w] # <<>> /\ sending[w] = "call" /\ sending' = [sending EXCEPT ![w] = s]
        /\ s = "sent" => took
        /\ arrived' = IF took THEN [arrived EXCEPT ![Head(batch[w])] = @ + 1] ELSE arrived
        /\ UNCHANGED <<outbox, raised, batch, closed, outcome>>
  BY DEF CallProvider, Reported
<1>2. batch[w] \in Seq(Event) /\ Len(batch[w]) \in Nat /\ Len(batch[w]) > 0
  BY <1>1, EmptySeq DEF NInv, NTypeOK
<1>3. PICK h \in Event : h = batch[w][1] /\ h = Head(batch[w])
  BY <1>2
<1>4. /\ arrived[h] = 0 /\ outcome[h] = "none"
      /\ arrived'[h] = IF took THEN 1 ELSE 0
      /\ \A e \in Event : e # h => arrived'[e] = arrived[e]
      /\ arrived' \in [Event -> Nat]
  BY <1>1, <1>2, <1>3 DEF NInv, NTypeOK, HeadFollowsStage
<1>5. sending'[w] = s /\ \A x \in Worker : x # w => sending'[x] = sending[x]
  BY <1>1 DEF NInv, NTypeOK
<1>6. /\ h \in raised
      /\ \A i \in 1..Len(outbox) : outbox[i] # h
      /\ \A x \in Worker : \A i \in 1..Len(batch[x]) : batch[x][i] = h => x = w /\ i = 1
  BY <1>2, <1>3, HeadAlone
<1>7. \A e \in Event : e # h => (Fresh(e)' <=> Fresh(e))
  BY <1>1, <1>4 DEF Fresh
<1>8. NTypeOK'
  BY <1>1, <1>4 DEF NInv, NTypeOK, SendStages
<1>9. Places'
  <2>1. WaitingIsFresh' /\ WaitsOnce' /\ Unraised'
    BY <1>1, <1>6, <1>7, Lens DEF NInv, Places, WaitingIsFresh, WaitsOnce, Unraised
  <2>2. HeldIsFresh' /\ HeldOnce' /\ HeldIsClaimed'
    BY <1>1, <1>6, <1>7, Lens DEF NInv, Places, HeldIsFresh, HeldOnce, HeldIsClaimed
  <2> QED BY <2>1, <2>2 DEF Places
<1>10. HeadFollowsStage'
  <2> SUFFICES ASSUME NEW x \in Worker
      PROVE  /\ Len(batch[x]) = 0 => sending'[x] = "read"
             /\ Len(batch[x]) > 0 =>
                  /\ outcome[batch[x][1]] = "none"
                  /\ sending'[x] \in {"read", "call", "skipped"} => arrived'[batch[x][1]] = 0
                  /\ sending'[x] = "sent" => arrived'[batch[x][1]] = 1
    BY <1>1 DEF HeadFollowsStage
  <2>1. CASE x = w
    BY <1>1, <1>2, <1>3, <1>4, <1>5, <2>1
  <2>2. CASE x # w
    <3>1. Len(batch[x]) > 0 => batch[x][1] \in Event /\ batch[x][1] # h
      BY <1>6, <2>2, Lens DEF NInv
    <3> QED BY <1>4, <1>5, <2>2, <3>1 DEF NInv, HeadFollowsStage
  <2> QED BY <2>1, <2>2
<1>11. SentAtMostOnce' /\ AuditIsTrue'
  BY <1>1, <1>4 DEF NInv, SentAtMostOnce, AuditIsTrue
<1> QED BY <1>8, <1>9, <1>10, <1>11 DEF NInv

LEMMA NSettle == ASSUME NInv, NEW w \in Worker, Settle(w) PROVE NInv'
<1>1. PICK told \in BOOLEAN :
        /\ batch[w] # <<>> /\ sending[w] \in {"sent", "skipped", "unavailable"}
        /\ outcome' = IF told THEN [outcome EXCEPT ![Head(batch[w])] = sending[w]] ELSE outcome
        /\ batch' = [batch EXCEPT ![w] = Tail(batch[w])]
        /\ sending' = [sending EXCEPT ![w] = "read"]
        /\ UNCHANGED <<outbox, raised, closed, arrived>>
  <2>1. CASE outcome' = outcome
    <3> WITNESS FALSE \in BOOLEAN
    <3> QED BY <2>1 DEF Settle, Rest
  <2>2. CASE outcome' = [outcome EXCEPT ![Head(batch[w])] = sending[w]]
    <3> WITNESS TRUE \in BOOLEAN
    <3> QED BY <2>2 DEF Settle, Rest
  <2> QED BY <2>1, <2>2 DEF Settle
<1>2. batch[w] \in Seq(Event) /\ Len(batch[w]) \in Nat /\ Len(batch[w]) > 0
  BY <1>1, EmptySeq DEF NInv, NTypeOK
<1>3. PICK h \in Event : h = batch[w][1] /\ h = Head(batch[w])
  BY <1>2
<1>4. /\ batch'[w] \in Seq(Event) /\ Len(batch'[w]) = Len(batch[w]) - 1
      /\ \A i \in 1..Len(batch'[w]) : /\ batch'[w][i] = batch[w][i + 1]
                                      /\ i + 1 \in 1..Len(batch[w]) /\ i + 1 > 1
      /\ \A x \in Worker : x # w => batch'[x] = batch[x]
  <2>1. batch'[w] = Tail(batch[w]) /\ \A x \in Worker : x # w => batch'[x] = batch[x]
    BY <1>1 DEF NInv, NTypeOK
  <2>2. batch'[w] \in Seq(Event) /\ Len(batch'[w]) = Len(batch[w]) - 1
    BY <1>2, <2>1
  <2>3. \A i \in 1..Len(batch'[w]) : batch'[w][i] = batch[w][i + 1]
    BY <1>2, <2>1
  <2> QED BY <1>2, <2>1, <2>2, <2>3
<1>5. sending'[w] = "read" /\ \A x \in Worker : x # w => sending'[x] = sending[x]
  BY <1>1 DEF NInv, NTypeOK
<1>6. /\ h \in raised
      /\ \A i \in 1..Len(outbox) : outbox[i] # h
      /\ \A x \in Worker : \A i \in 1..Len(batch[x]) : batch[x][i] = h => x = w /\ i = 1
  BY <1>2, <1>3, HeadAlone
<1>7. \A e \in Event : e # h => outcome'[e] = outcome[e]
  BY <1>1, <1>3 DEF NInv, NTypeOK
<1>8. outcome'[h] \in {"none", sending[w]} /\ outcome[h] = "none"
  BY <1>1, <1>2, <1>3 DEF NInv, NTypeOK, HeadFollowsStage
<1>9. \A e \in Event : e # h => (Fresh(e)' <=> Fresh(e))
  BY <1>1, <1>7 DEF Fresh
<1>10. NTypeOK'
  <2>1. batch' \in [Worker -> Seq(Event)]
    <3>1. batch' = [x \in Worker |-> batch'[x]]
      BY <1>1 DEF NInv, NTypeOK
    <3> QED BY <1>4, <3>1 DEF NInv, NTypeOK
  <2>2. outcome' \in [Event -> Outcomes]
    BY <1>1 DEF NInv, NTypeOK, Outcomes
  <2> QED BY <1>1, <2>1, <2>2 DEF NInv, NTypeOK, SendStages
<1>11. \A x \in Worker : \A i \in 1..Len(batch'[x]) :
         \E k \in 1..Len(batch[x]) : /\ batch'[x][i] = batch[x][k] /\ batch[x][k] # h
                                     /\ k = IF x = w THEN i + 1 ELSE i
  <2> SUFFICES ASSUME NEW x \in Worker, NEW i \in 1..Len(batch'[x])
      PROVE  \E k \in 1..Len(batch[x]) : /\ batch'[x][i] = batch[x][k] /\ batch[x][k] # h
                                         /\ k = IF x = w THEN i + 1 ELSE i
    OBVIOUS
  <2>1. CASE x = w
    <3>1. i + 1 \in 1..Len(batch[w]) /\ i + 1 # 1 /\ batch'[w][i] = batch[w][i + 1]
      BY <1>4, <2>1
    <3>2. batch[w][i + 1] # h
      BY <1>6, <3>1
    <3> QED BY <2>1, <3>1, <3>2
  <2>2. CASE x # w
    BY <1>4, <1>6, <2>2
  <2> QED BY <2>1, <2>2
<1>12. Places'
  <2>1. WaitingIsFresh' /\ WaitsOnce' /\ Unraised'
    BY <1>1, <1>6, <1>9, Lens DEF NInv, Places, WaitingIsFresh, WaitsOnce, Unraised
  <2>2. HeldIsFresh'
    <3> SUFFICES ASSUME NEW x \in Worker, NEW i \in 1..Len(batch'[x])
        PROVE  /\ batch'[x][i] \in raised
               /\ i > 1 => arrived'[batch'[x][i]] = 0 /\ outcome'[batch'[x][i]] = "none"
      BY <1>1 DEF HeldIsFresh, Fresh
    <3>1. PICK k \in 1..Len(batch[x]) : /\ batch'[x][i] = batch[x][k] /\ batch[x][k] # h
                                        /\ k = IF x = w THEN i + 1 ELSE i
      BY <1>11
    <3>2. batch[x][k] \in Event /\ batch[x][k] \in raised /\ (k > 1 => Fresh(batch[x][k]))
      BY Lens DEF NInv, Places, HeldIsFresh
    <3>3. i > 1 => k > 1
      BY <3>1
    <3> QED BY <1>1, <3>1, <3>2, <3>3, <1>7 DEF Fresh
  <2>3. HeldOnce' /\ HeldIsClaimed'
    BY <1>1, <1>11, Lens, SMTT(30) DEF NInv, Places, HeldOnce, HeldIsClaimed
  <2> QED BY <2>1, <2>2, <2>3 DEF Places
<1>13. HeadFollowsStage'
  <2> SUFFICES ASSUME NEW x \in Worker
      PROVE  /\ Len(batch'[x]) = 0 => sending'[x] = "read"
             /\ Len(batch'[x]) > 0 =>
                  /\ outcome'[batch'[x][1]] = "none"
                  /\ sending'[x] \in {"read", "call", "skipped"} => arrived[batch'[x][1]] = 0
                  /\ sending'[x] = "sent" => arrived[batch'[x][1]] = 1
    BY <1>1 DEF HeadFollowsStage
  <2>1. CASE x = w
    <3>1. ASSUME Len(batch'[w]) > 0
          PROVE  outcome'[batch'[w][1]] = "none" /\ arrived[batch'[w][1]] = 0
      <4>1. 1 \in 1..Len(batch'[w])
        BY <3>1, <1>2, <1>4
      <4>2. /\ batch'[w][1] = batch[w][2] /\ 2 \in 1..Len(batch[w])
        BY <4>1, <1>4
      <4>3. batch[w][2] \in Event /\ batch[w][2] # h /\ Fresh(batch[w][2])
        BY <4>2, <1>6, Lens DEF NInv, Places, HeldIsFresh
      <4> QED BY <4>2, <4>3, <1>7 DEF Fresh
    <3> QED BY <1>5, <2>1, <3>1
  <2>2. CASE x # w
    <3>1. Len(batch[x]) > 0 => batch[x][1] \in Event /\ batch[x][1] # h
      BY <1>6, <2>2, Lens DEF NInv
    <3> QED BY <1>4, <1>5, <1>7, <2>2, <3>1 DEF NInv, HeadFollowsStage
  <2> QED BY <2>1, <2>2
<1>14. SentAtMostOnce' /\ AuditIsTrue'
  <2>1. /\ sending[w] = "sent" => arrived[h] = 1
        /\ sending[w] = "skipped" => arrived[h] = 0
    BY <1>2, <1>3 DEF NInv, HeadFollowsStage
  <2> QED BY <1>1, <1>7, <1>8, <2>1 DEF NInv, SentAtMostOnce, AuditIsTrue
<1> QED BY <1>10, <1>12, <1>13, <1>14 DEF NInv

LEMMA NRestart == ASSUME NInv, NEW w \in Worker, Restart(w) PROVE NInv'
<1>1. /\ batch' = [batch EXCEPT ![w] = <<>>] /\ sending' = [sending EXCEPT ![w] = "read"]
      /\ closed' = closed \ {w} /\ UNCHANGED <<outbox, raised, arrived, outcome>>
  BY DEF Restart
<1>2. /\ Len(batch'[w]) = 0 /\ sending'[w] = "read"
      /\ \A x \in Worker : x # w => batch'[x] = batch[x] /\ sending'[x] = sending[x]
  BY <1>1 DEF NInv, NTypeOK
<1>3. NTypeOK'
  BY <1>1 DEF NInv, NTypeOK, SendStages
<1>4. WaitingIsFresh' /\ WaitsOnce' /\ Unraised' /\ SentAtMostOnce' /\ AuditIsTrue'
  BY <1>1 DEF NInv, Places, WaitingIsFresh, WaitsOnce, Unraised, Fresh, SentAtMostOnce, AuditIsTrue
<1>5. HeldIsFresh' /\ HeldOnce' /\ HeldIsClaimed' /\ HeadFollowsStage'
  <2>1. \A x \in Worker : \A i \in 1..Len(batch'[x]) : x # w /\ batch'[x] = batch[x]
    BY <1>2
  <2> QED BY <1>1, <1>2, <2>1 DEF NInv, Places, HeldIsFresh, HeldOnce, HeldIsClaimed, HeadFollowsStage, Fresh
<1> QED BY <1>3, <1>4, <1>5 DEF NInv, Places

LEMMA NSame ==
  ASSUME NInv, UNCHANGED <<outbox, raised, batch, sending, arrived, outcome>>, closed' \subseteq Worker
  PROVE  NInv'
<1>1. NTypeOK' /\ HeadFollowsStage' /\ SentAtMostOnce' /\ AuditIsTrue'
  BY DEF NInv, NTypeOK, HeadFollowsStage, SentAtMostOnce, AuditIsTrue
<1>2. Places'
  BY DEF NInv, Places, WaitingIsFresh, WaitsOnce, HeldIsFresh, HeldOnce, HeldIsClaimed, Unraised, Fresh
<1> QED BY <1>1, <1>2 DEF NInv

LEMMA NoticesInvariant == MSpec => []NInv
<1>1. MInit => NInv
  BY NoticesInit DEF MInit
<1>2. NInv /\ [MNext]_mvars => NInv'
  <2> SUFFICES ASSUME NInv, [MNext]_mvars PROVE NInv'
    OBVIOUS
  <2>1. CASE UNCHANGED nvars
    BY <2>1, NSame DEF nvars, NInv, NTypeOK
  <2>2. CASE NStep
    BY <2>2, NRaise, NDrain, NRead, NCall, NSettle DEF NStep, SendStep
  <2>3. CASE ShutDown
    BY <2>3, NSame, SelfIsWorker DEF ShutDown, Close, NInv, NTypeOK
  <2>4. CASE ShutDownEnds
    BY <2>4, NRestart, SelfIsWorker DEF ShutDownEnds
  <2>5. ASSUME NEW w \in Worker, Crash(w) PROVE NInv'
    BY <2>5, NRestart DEF Crash
  <2> QED BY <2>1, <2>2, <2>3, <2>4, <2>5 DEF MNext, mvars
<1> QED BY <1>1, <1>2, PTL DEF MSpec

\* However processes end, and whatever answers and audit entries are lost, the
\* provider takes the SMS of an event once at most.
THEOREM NoticesGoOutOnce == MSpec => []SentAtMostOnce
<1>1. NInv => SentAtMostOnce
  BY DEF NInv
<1> QED BY <1>1, NoticesInvariant, PTL

\* The audit never says sent of a notice that was not, nor skipped of one that was.
THEOREM AuditStaysTrue == MSpec => []AuditIsTrue
<1>1. NInv => AuditIsTrue
  BY DEF NInv
<1> QED BY <1>1, NoticesInvariant, PTL
=============================================================================
