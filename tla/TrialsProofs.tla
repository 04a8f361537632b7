---------------------------- MODULE TrialsProofs ----------------------------
(***************************************************************************)
(* What Trials keeps for every number of processes, requests, trials and   *)
(* generations: the counter is the recorded starts, nobody plays what was  *)
(* not recorded, renewals add one allocation each, and a trial is not      *)
(* taken from the process that plays it.                                   *)
(*                                                                         *)
(* TInv strengthens those claims until one step preserves it: no row is of *)
(* an allocation still to come (Past), a request that ran was made         *)
(* (Made), the budget counts the requests that ran (Spent), and what a     *)
(* call in flight may bring back (Paid, Kept).                             *)
(***************************************************************************)
EXTENDS Trials, FiniteSetTheorems, TLAPS

TypeOK ==
  /\ gen \in Gens /\ offer \in {"open", "withdrawn", "blocked"}
  /\ used \in [Gens -> Nat] /\ epoch \in [Gens -> Nat]
  /\ starts \subseteq StartRow /\ IsFiniteSet(starts)
  /\ asked \in [Request -> Gens \cup {0}] /\ done \subseteq Request
  /\ cred \in Gens /\ state \in [Process -> States] /\ call \in [Process -> CallRow]
  /\ lost \in Nat /\ late \subseteq [process: Process, cred: Gens]

\* No start is of an allocation that has not begun.
Past == \A s \in starts : s.epoch <= epoch[s.gen]

\* A request that ran was made before.
Made == \A r \in done : asked[r] # 0

\* BudgetHolds, with the requests that ran for those that were made.
Ran(g) == {r \in done : asked[r] = g}
Spent ==
  \A g \in Gens : Cardinality({s \in starts : s.gen = g}) + (Budget - used[g]) <=
                  Budget * (1 + Cardinality(Ran(g)))

\* A process that plays, that is about to hear that it may, or that will go back to
\* playing when a purchase fails, has a row.
HasRow(p) == \E s \in starts : s.nonce = p
Paid ==
  \A p \in Process :
    state[p] = "started" \/ call[p].answer = "granted" \/ call[p].before = "started" => HasRow(p)

\* The only call of a process that plays is a purchase, which remembers that it plays
\* and cannot be answered with anything else.
KeptBy(s, c) ==
  /\ c.kind = "idle" => c = Idle
  /\ c.kind = "upgrade" => c.answer \in {"none", "refused", "license"}
  /\ s = "started" => c.kind \in {"idle", "upgrade"} /\ (c.kind = "upgrade" => c.before = "started")
Kept == \A p \in Process : KeptBy(state[p], call[p])

TInv == TypeOK /\ AllocationIsExact /\ Past /\ Made /\ Spent /\ Paid /\ Kept

-----------------------------------------------------------------------------
(* Lemmas about the operators.                                              *)

LEMMA Allocation == 1 \in Gens /\ Gens \subseteq Nat /\ 0 \notin Gens /\ Budget \in Nat
BY Bounds DEF Gens

LEMMA IdleType == Idle \in CallRow
BY Allocation DEF Idle, CallRow, Answers, States

LEMMA RowFields ==
  ASSUME TypeOK, NEW p \in Process
  PROVE  Row(p) \in StartRow /\ Row(p).nonce = p /\ Row(p).gen = gen /\ Row(p).epoch = epoch[gen]
BY DEF Row, StartRow, TypeOK

\* One more allocation costs Budget more.
LEMMA MoreAllocations ==
  ASSUME NEW b \in Nat, NEW m \in Nat, NEW n \in Nat, m <= n
  PROVE  b * (1 + m) <= b * (1 + n) /\ b * (1 + (m + 1)) = b * (1 + m) + b
<1>1. PICK d \in Nat : n = m + d
  <2>1. n - m \in Nat /\ n = m + (n - m)
    OBVIOUS
  <2> QED BY <2>1
<1>2. b * (1 + n) = b * (1 + m) + b * d /\ b * d >= 0
  BY <1>1
<1>3. b * (1 + m) \in Nat /\ b * d \in Nat
  OBVIOUS
<1> QED BY <1>2, <1>3

LEMMA AnswerTypes ==
  ASSUME NEW p \in Process, NEW c \in Gens
  PROVE  /\ Refusal(c) \in {"none", "blocked", "refused"}
         /\ StartAnswer(p, c) \in Answers \ {"none", "license"}
         /\ StatusAnswer(c) \in Answers \ {"none", "granted", "license"}
         /\ StartAnswer(p, c) = "granted" =>
              IF Recorded(p) THEN Row(p) \in starts ELSE used[gen] < Budget
<1>1. Refusal(c) \in {"none", "blocked", "refused"}
  BY DEF Refusal
<1>2. StartAnswer(p, c) \in Answers \ {"none", "license"}
  BY <1>1 DEF StartAnswer, Answers
<1>3. StatusAnswer(c) \in Answers \ {"none", "granted", "license"}
  BY <1>1 DEF StatusAnswer, Answers
<1>4. ASSUME StartAnswer(p, c) = "granted"
      PROVE  IF Recorded(p) THEN Row(p) \in starts ELSE used[gen] < Budget
  BY <1>1, <1>4 DEF StartAnswer, Replays, HasLeft
<1> QED BY <1>1, <1>2, <1>3, <1>4

-----------------------------------------------------------------------------
(* The three ways a step changes what the server counts.                    *)

Records(p) ==
  /\ Row(p) \notin starts /\ used[gen] < Budget
  /\ starts' = starts \cup {Row(p)} /\ used' = [used EXCEPT ![gen] = @ + 1]
  /\ epoch' = epoch /\ asked' = asked /\ done' = done
Renews(r) ==
  /\ r \in Request /\ asked[r] = gen /\ r \notin done
  /\ epoch' = [epoch EXCEPT ![gen] = @ + 1] /\ used' = [used EXCEPT ![gen] = 0]
  /\ done' = done \cup {r} /\ starts' = starts /\ asked' = asked
Counts ==
  /\ used' = used /\ epoch' = epoch /\ starts' = starts /\ done' = done
  /\ \A r \in Request : asked[r] = 0 \/ asked'[r] = asked[r]

LEMMA ATransaction ==
  ASSUME NEW p \in Process, NEW c \in Gens, StartTransaction(p, c), UNCHANGED admin
  PROVE  Records(p) \/ Counts
<1>1. CASE StartAnswer(p, c) = "granted" /\ ~Recorded(p)
  <2>1. used[gen] < Budget
    BY <1>1, AnswerTypes
  <2>2. Row(p) \notin starts
    BY <1>1 DEF Recorded, RowsOf, Row
  <2> QED BY <1>1, <2>1, <2>2 DEF StartTransaction, Records, admin
<1>2. CASE ~(StartAnswer(p, c) = "granted" /\ ~Recorded(p))
  BY <1>2 DEF StartTransaction, Counts, admin
<1> QED BY <1>1, <1>2

LEMMA ServerMoves ==
  ASSUME TypeOK, TrialsNext
  PROVE  Counts \/ (\E p \in Process : Records(p)) \/ (\E r \in Request : Renews(r))
<1>1. ASSUME NEW p \in Process,
             \/ Launch(p) \/ Refresh(p) \/ Click(p) \/ Upgrade(p) \/ Learn(p) \/ NoAnswer(p)
             \/ Exit(p) \/ ServeStatus(p) \/ ServeUpgrade(p)
      PROVE Counts
  BY <1>1 DEF Launch, Refresh, Click, Upgrade, Learn, NoAnswer, Exit, ServeStatus, ServeUpgrade,
              server, admin, Counts
<1>2. ASSUME NEW p \in Process, ServeStart(p) PROVE Records(p) \/ Counts
  <2>1. call[p].cred \in Gens
    BY DEF TypeOK, CallRow
  <2> QED BY <1>2, <2>1, ATransaction DEF ServeStart
<1>3. ASSUME NEW r \in late, ServeLate(r) PROVE Counts \/ \E p \in Process : Records(p)
  <2>1. r.process \in Process /\ r.cred \in Gens
    BY DEF TypeOK
  <2> QED BY <1>3, <2>1, ATransaction DEF ServeLate
<1>4. ASSUME NEW r \in Request, AskRenewal(r) PROVE Counts
  BY <1>4 DEF AskRenewal, server, Counts, TypeOK
<1>5. ASSUME NEW r \in Request, TrialReset(r) PROVE Renews(r)
  BY <1>5 DEF TrialReset, FirstTime, NextEpoch, Renews
<1>6. ASSUME NEW o \in {"open", "withdrawn", "blocked"}, Offer(o) PROVE Counts
  BY <1>6 DEF Offer, admin, Counts
<1>7. DeviceReset \/ Enrol => Counts
  BY DEF DeviceReset, Enrol, server, admin, Counts
<1> QED BY <1>1, <1>2, <1>3, <1>4, <1>5, <1>6, <1>7 DEF TrialsNext, Serve

-----------------------------------------------------------------------------
(* Types.                                                                   *)

LEMMA TypeInit == TrialsInit => TypeOK
BY Allocation, IdleType, FS_EmptySet DEF TrialsInit, TypeOK, States

\* What the server counts with keeps its types.
LEMMA CountersType ==
  ASSUME TypeOK, TrialsNext
  PROVE  /\ used' \in [Gens -> Nat] /\ epoch' \in [Gens -> Nat]
         /\ starts' \subseteq StartRow /\ IsFiniteSet(starts') /\ done' \subseteq Request
<1>1. CASE Counts
  BY <1>1 DEF Counts, TypeOK
<1>2. ASSUME NEW p \in Process, Records(p)
      PROVE /\ used' \in [Gens -> Nat] /\ starts' \subseteq StartRow /\ IsFiniteSet(starts')
            /\ epoch' = epoch /\ done' = done
  <2>1. IsFiniteSet(starts')
    BY <1>2, FS_AddElement DEF Records, TypeOK
  <2>2. starts' \subseteq StartRow
    BY <1>2, RowFields DEF Records, TypeOK
  <2> QED BY <1>2, <2>1, <2>2 DEF Records, TypeOK
<1>3. ASSUME NEW r \in Request, Renews(r)
      PROVE /\ used' \in [Gens -> Nat] /\ epoch' \in [Gens -> Nat]
            /\ starts' = starts /\ done' \subseteq Request
  BY <1>3 DEF Renews, TypeOK
<1> QED BY <1>1, <1>2, <1>3, ServerMoves DEF TypeOK

LEMMA CallType ==
  ASSUME TypeOK, NEW p \in Process
  PROVE  /\ \A a \in Answers : [call EXCEPT ![p].answer = a] \in [Process -> CallRow]
         /\ \A k \in {"status", "start", "upgrade"} : Call(p, k) => call' \in [Process -> CallRow]
         /\ [call EXCEPT ![p] = Idle] \in [Process -> CallRow]
         /\ Unserved(p) \subseteq [process: Process, cred: Gens]
<1>1. ASSUME NEW a \in Answers PROVE [call EXCEPT ![p].answer = a] \in [Process -> CallRow]
  BY DEF TypeOK, CallRow
<1>2. ASSUME NEW k \in {"status", "start", "upgrade"}, Call(p, k) PROVE call' \in [Process -> CallRow]
  <2> DEFINE row == [kind |-> k, cred |-> cred, answer |-> "none",
                     before |-> IF k = "upgrade" THEN state[p] ELSE "none"]
  <2>1. row \in CallRow
    BY DEF TypeOK, CallRow, Answers, States
  <2>2. call' = [call EXCEPT ![p] = row]
    BY <1>2 DEF Call
  <2> QED BY <2>1, <2>2 DEF TypeOK
<1>3. [call EXCEPT ![p] = Idle] \in [Process -> CallRow]
  BY IdleType DEF TypeOK
<1>4. Unserved(p) \subseteq [process: Process, cred: Gens]
  BY DEF Unserved, TypeOK, CallRow
<1> QED BY <1>1, <1>2, <1>3, <1>4

LEMMA AfterType ==
  ASSUME NEW c \in CallRow
  PROVE  After(c) \in States /\ AfterFailure(c) \in States
<1>1. \A d \in CallRow : After(d) \in States
  BY DEF After, CallRow, States
<1>2. [c EXCEPT !.answer = "none"] \in CallRow
  BY DEF CallRow, Answers
<1> QED BY <1>1, <1>2 DEF AfterFailure

LEMMA StepType == ASSUME TypeOK, TrialsNext PROVE TypeOK'
<1> DEFINE Rest == /\ gen' \in Gens /\ offer' \in {"open", "withdrawn", "blocked"}
                   /\ asked' \in [Request -> Gens \cup {0}]
                   /\ cred' \in Gens /\ state' \in [Process -> States]
                   /\ call' \in [Process -> CallRow]
                   /\ lost' \in Nat /\ late' \subseteq [process: Process, cred: Gens]
<1>1. ASSUME NEW p \in Process, Launch(p) PROVE Rest
  BY <1>1 DEF Launch, server, admin, TypeOK, States
<1>2. ASSUME NEW p \in Process, Refresh(p) \/ Click(p) \/ Upgrade(p) PROVE Rest
  <2>1. call' \in [Process -> CallRow]
    BY <1>2, CallType DEF Refresh, Click, Upgrade
  <2>2. state' \in [Process -> States]
    BY <1>2 DEF Refresh, Click, Upgrade, WhileUpgrading, TypeOK, States
  <2> QED BY <1>2, <2>1, <2>2 DEF Refresh, Click, Upgrade, server, admin, TypeOK
<1>3. ASSUME NEW p \in Process, Learn(p) \/ NoAnswer(p) \/ Exit(p) PROVE Rest
  <2>1. call' \in [Process -> CallRow]
    BY <1>3, CallType DEF Learn, NoAnswer, Exit
  <2>2. "closed" \in States /\ After(call[p]) \in States /\ AfterFailure(call[p]) \in States
    BY AfterType DEF TypeOK, States
  <2>3. state' \in [Process -> States]
    BY <1>3, <2>2 DEF Learn, NoAnswer, Exit, TypeOK
  <2>4. late' \subseteq [process: Process, cred: Gens] /\ lost' \in Nat
    BY <1>3, CallType DEF Learn, NoAnswer, Exit, TypeOK
  <2> QED BY <1>3, <2>1, <2>3, <2>4 DEF Learn, NoAnswer, Exit, server, admin, TypeOK
<1>4. ASSUME NEW p \in Process, Serve(p) PROVE Rest
  <2>1. call[p].cred \in Gens
    BY DEF TypeOK, CallRow
  <2>2. /\ StartAnswer(p, call[p].cred) \in Answers /\ StatusAnswer(call[p].cred) \in Answers
        /\ {"refused", "license"} \subseteq Answers
    BY <2>1, AnswerTypes DEF Answers
  <2>3. call' \in [Process -> CallRow]
    BY <1>4, <2>2, CallType DEF Serve, ServeStatus, ServeStart, ServeUpgrade, Answered
  <2> QED BY <1>4, <2>3 DEF Serve, ServeStatus, ServeStart, ServeUpgrade, StartTransaction,
                           server, admin, TypeOK
<1>5. ASSUME NEW r \in late, ServeLate(r) PROVE Rest
  BY <1>5 DEF ServeLate, StartTransaction, admin, TypeOK
<1>6. ASSUME NEW r \in Request, AskRenewal(r) \/ TrialReset(r) PROVE Rest
  BY <1>6 DEF AskRenewal, TrialReset, server, TypeOK
<1>7. ASSUME NEW o \in {"open", "withdrawn", "blocked"}, Offer(o) PROVE Rest
  BY <1>7 DEF Offer, admin, TypeOK
<1>8. DeviceReset \/ Enrol => Rest
  <2>1. DeviceReset => gen + 1 \in Gens
    BY Bounds DEF DeviceReset, TypeOK, Gens
  <2> QED BY <2>1 DEF DeviceReset, Enrol, server, admin, TypeOK
<1>9. Rest
  BY <1>1, <1>2, <1>3, <1>4, <1>5, <1>6, <1>7, <1>8 DEF TrialsNext
<1> QED BY <1>9, CountersType DEF TypeOK

-----------------------------------------------------------------------------
(* The counter and the budget.                                              *)

Rows(g) == {s \in starts : s.gen = g}
Current(g) == {s \in starts : s.gen = g /\ s.epoch = epoch[g]}

LEMMA Sizes ==
  ASSUME TypeOK, NEW g \in Gens
  PROVE  /\ IsFiniteSet(Rows(g)) /\ IsFiniteSet(Current(g)) /\ IsFiniteSet(Ran(g))
         /\ Cardinality(Rows(g)) \in Nat /\ Cardinality(Current(g)) \in Nat
         /\ Cardinality(Ran(g)) \in Nat
<1>1. Rows(g) \subseteq starts /\ Current(g) \subseteq starts /\ Ran(g) \subseteq Request
  BY DEF Rows, Current, Ran, TypeOK
<1>2. IsFiniteSet(Rows(g)) /\ IsFiniteSet(Current(g)) /\ IsFiniteSet(Ran(g))
  BY <1>1, FS_Subset, FewProcesses DEF TypeOK
<1> QED BY <1>2, FS_CardinalityType

\* The counter of a generation is the starts of its allocation.
Exact(g) == used[g] = Cardinality(Current(g)) /\ used[g] <= Budget
\* And its budget counts the renewals that ran.
Spends(g) == Cardinality(Rows(g)) + (Budget - used[g]) <= Budget * (1 + Cardinality(Ran(g)))

LEMMA RecordsCount ==
  ASSUME TypeOK, TypeOK', Made, NEW p \in Process, Records(p), NEW g \in Gens, Exact(g), Spends(g)
  PROVE  Exact(g)' /\ Spends(g)'
<1>0. Ran(g)' = Ran(g)
  BY DEF Records, Ran
<1>1. CASE g # gen
  <2>1. Rows(g)' = Rows(g) /\ Current(g)' = Current(g) /\ used'[g] = used[g]
    BY <1>1, RowFields DEF Records, Rows, Current, TypeOK
  <2> QED BY <1>0, <2>1 DEF Exact, Spends
<1>2. CASE g = gen
  <2>1. /\ Rows(g)' = Rows(g) \cup {Row(p)} /\ Current(g)' = Current(g) \cup {Row(p)}
        /\ Row(p) \notin Rows(g) /\ Row(p) \notin Current(g)
    BY <1>2, RowFields DEF Records, Rows, Current, TypeOK
  <2>2. /\ Cardinality(Rows(g)') = Cardinality(Rows(g)) + 1
        /\ Cardinality(Current(g)') = Cardinality(Current(g)) + 1
    BY <2>1, Sizes, FS_AddElement
  <2>3. used'[g] = used[g] + 1 /\ used[g] < Budget /\ used[g] \in Nat
    BY <1>2 DEF Records, TypeOK
  <2>4. Exact(g)'
    BY <2>2, <2>3, Sizes, Allocation DEF Exact
  <2>5. Spends(g)'
    <3> DEFINE rows == Cardinality(Rows(g))
               limit == Budget * (1 + Cardinality(Ran(g)))
    <3>1. rows + (Budget - used[g]) <= limit /\ rows \in Nat
      BY Sizes DEF Spends
    <3>2. limit \in Int
      BY Sizes, Allocation
    <3> HIDE DEF rows, limit
    <3>3. (rows + 1) + (Budget - used'[g]) <= limit
      BY <2>3, <3>1, <3>2, Allocation
    <3> QED BY <1>0, <2>2, <3>3 DEF Spends, rows, limit
  <2> QED BY <2>4, <2>5
<1> QED BY <1>1, <1>2

LEMMA RenewsCount ==
  ASSUME TypeOK, TypeOK', Past, Made, NEW r \in Request, Renews(r), NEW g \in Gens, Exact(g), Spends(g)
  PROVE  Exact(g)' /\ Spends(g)'
<1>0. Rows(g)' = Rows(g)
  BY DEF Renews, Rows
<1>1. CASE g # gen
  <2>1. Current(g)' = Current(g) /\ used'[g] = used[g] /\ Ran(g)' = Ran(g)
    BY <1>1 DEF Renews, Current, Ran, TypeOK
  <2> QED BY <1>0, <2>1 DEF Exact, Spends
<1>2. CASE g = gen
  <2>1. Current(g)' = {}
    <3>1. epoch'[g] = epoch[g] + 1 /\ epoch[g] \in Nat
      BY <1>2 DEF Renews, TypeOK
    <3>2. \A s \in starts : s.gen = g => s.epoch <= epoch[g] /\ s.epoch \in Nat
      BY DEF Past, TypeOK, StartRow
    <3> QED BY <3>1, <3>2 DEF Renews, Current
  <2>2. used'[g] = 0
    BY <1>2 DEF Renews, TypeOK
  <2>3. Exact(g)'
    BY <2>1, <2>2, FS_EmptySet, Allocation DEF Exact
  <2>4. Ran(g)' = Ran(g) \cup {r} /\ r \notin Ran(g)
    BY <1>2 DEF Renews, Ran
  <2>5. Cardinality(Ran(g)') = Cardinality(Ran(g)) + 1
    BY <2>4, Sizes, FS_AddElement
  <2>6. Spends(g)'
    <3> DEFINE rows == Cardinality(Rows(g))
               ran == Cardinality(Ran(g))
               limit == Budget * (1 + ran)
    <3>1. rows \in Nat /\ ran \in Nat /\ used[g] \in Nat /\ used[g] <= Budget
      BY Sizes DEF Exact, TypeOK
    <3>2. Budget * (1 + (ran + 1)) = limit + Budget /\ limit \in Int
      BY <3>1, MoreAllocations, Allocation
    <3>3. rows + (Budget - used[g]) <= limit
      BY DEF Spends
    <3>4. Spends(g)' <=> rows + (Budget - 0) <= Budget * (1 + (ran + 1))
      BY <1>0, <2>2, <2>5 DEF Spends
    <3> HIDE DEF rows, ran, limit
    <3> QED BY <3>1, <3>2, <3>3, <3>4, Allocation
  <2> QED BY <2>3, <2>6
<1> QED BY <1>1, <1>2

LEMMA StillCounts ==
  ASSUME TypeOK, Made, Counts, NEW g \in Gens, Exact(g), Spends(g)
  PROVE  Exact(g)' /\ Spends(g)'
<1>1. Rows(g)' = Rows(g) /\ Current(g)' = Current(g)
  BY DEF Counts, Rows, Current
<1>2. Ran(g)' = Ran(g)
  BY DEF Counts, Ran, Made, TypeOK
<1> QED BY <1>1, <1>2 DEF Counts, Exact, Spends

LEMMA CountsOf ==
  /\ AllocationIsExact <=> \A g \in Gens : Exact(g)
  /\ Spent <=> \A g \in Gens : Spends(g)
BY DEF AllocationIsExact, Spent, Exact, Spends, Rows, Current

LEMMA NextCounts ==
  ASSUME TInv, TrialsNext
  PROVE  AllocationIsExact' /\ Spent'
<1>0. TypeOK /\ TypeOK' /\ Past /\ Made /\ \A g \in Gens : Exact(g) /\ Spends(g)
  BY StepType, CountsOf DEF TInv
<1>1. \A g \in Gens : Exact(g)' /\ Spends(g)'
  BY <1>0, RecordsCount, RenewsCount, StillCounts, ServerMoves
<1> QED BY <1>1 DEF AllocationIsExact, Spent, Exact, Spends, Rows, Current

LEMMA NextPast ==
  ASSUME TypeOK, TypeOK', Past, Made, TrialsNext
  PROVE  Past' /\ Made'
<1>1. CASE Counts
  BY <1>1 DEF Counts, Past, Made, TypeOK
<1>2. ASSUME NEW p \in Process, Records(p) PROVE Past' /\ Made'
  BY <1>2, RowFields, Allocation DEF Records, Past, Made, TypeOK
<1>3. ASSUME NEW r \in Request, Renews(r) PROVE Past' /\ Made'
  <2>1. Made'
    BY <1>3, Allocation DEF Renews, Made, TypeOK
  <2>2. \A g \in Gens : epoch[g] \in Nat /\ epoch'[g] \in Nat /\ epoch[g] <= epoch'[g]
    BY <1>3 DEF Renews, TypeOK
  <2>3. \A s \in starts : s.gen \in Gens /\ s.epoch \in Nat
    BY DEF TypeOK, StartRow
  <2> QED BY <1>3, <2>1, <2>2, <2>3 DEF Renews, Past
<1> QED BY <1>1, <1>2, <1>3, ServerMoves

-----------------------------------------------------------------------------
(* The desktop.                                                             *)

\* Rows are never taken back.
LEMMA RowsStay ==
  ASSUME TypeOK, TrialsNext
  PROVE  starts \subseteq starts' /\ \A p \in Process : HasRow(p) => HasRow(p)'
<1>1. starts \subseteq starts'
  BY ServerMoves DEF Counts, Records, Renews
<1> QED BY <1>1 DEF HasRow

\* What one process and its call may do in a step.
Untouched(p) == state'[p] = state[p] /\ call'[p] = call[p]
Starts(p) ==
  /\ call[p].kind = "start" /\ call[p].answer = "none" /\ state'[p] = state[p]
  /\ call'[p] = [call[p] EXCEPT !.answer = StartAnswer(p, call[p].cred)]
  /\ StartTransaction(p, call[p].cred)
Hears(p) ==
  /\ state'[p] = state[p]
  /\ \/ /\ call[p].kind = "status" /\ call[p].answer = "none"
        /\ call'[p] = [call[p] EXCEPT !.answer = StatusAnswer(call[p].cred)]
     \/ /\ call[p].kind = "upgrade" /\ call[p].answer = "none"
        /\ \E a \in {"refused", "license"} : call'[p] = [call[p] EXCEPT !.answer = a]
Asks(p) ==
  /\ call[p] = Idle /\ call'[p].answer = "none"
  /\ \/ /\ state[p] # "started" /\ state'[p] = state[p]
        /\ call'[p].kind \in {"status", "start"} /\ call'[p].before = "none"
     \/ /\ call'[p].kind = "upgrade" /\ call'[p].before = state[p]
        /\ state'[p] = WhileUpgrading(state[p])
Finishes(p) ==
  /\ call'[p] = Idle
  /\ \/ call[p].answer # "none" /\ state'[p] = After(call[p])
     \/ call[p] # Idle /\ state'[p] = AfterFailure(call[p])
     \/ state'[p] = "closed"
Appears(p) == state[p] = "new" /\ state'[p] = "none" /\ call'[p] = call[p]

ProcessMoves(p) ==
  Untouched(p) \/ Starts(p) \/ Hears(p) \/ Asks(p) \/ Finishes(p) \/ Appears(p)

LEMMA NextProcess ==
  ASSUME TypeOK, TrialsNext
  PROVE  \A q \in Process : ProcessMoves(q)
<1>1. ASSUME NEW p \in Process, Launch(p) PROVE \A q \in Process : ProcessMoves(q)
  BY <1>1 DEF Launch, TypeOK, ProcessMoves, Untouched, Appears
<1>2. ASSUME NEW p \in Process, NEW k \in {"status", "start"}, Call(p, k),
             call[p] = Idle, state[p] # "started", state' = state
      PROVE \A q \in Process : ProcessMoves(q)
  BY <1>2 DEF Call, TypeOK, ProcessMoves, Untouched, Asks
<1>3. ASSUME NEW p \in Process, Upgrade(p) PROVE \A q \in Process : ProcessMoves(q)
  BY <1>3 DEF Upgrade, Call, TypeOK, ProcessMoves, Untouched, Asks
<1>4. ASSUME NEW p \in Process, Refresh(p) \/ Click(p) PROVE \A q \in Process : ProcessMoves(q)
  BY <1>2, <1>4 DEF Refresh, Click, CanEnter
<1>5. ASSUME NEW p \in Process, Learn(p) \/ NoAnswer(p) \/ Exit(p)
      PROVE \A q \in Process : ProcessMoves(q)
  BY <1>5 DEF Learn, NoAnswer, Exit, TypeOK, ProcessMoves, Untouched, Finishes
<1>6. ASSUME NEW p \in Process, NEW a, Answered(p, a)
      PROVE /\ \A q \in Process \ {p} : call'[q] = call[q]
            /\ call'[p] = [call[p] EXCEPT !.answer = a]
  BY <1>6 DEF Answered, TypeOK, CallRow
<1>7. ASSUME NEW p \in Process, ServeStart(p) PROVE \A q \in Process : ProcessMoves(q)
  BY <1>6, <1>7 DEF ServeStart, ProcessMoves, Untouched, Starts
<1>8. ASSUME NEW p \in Process, ServeStatus(p) \/ ServeUpgrade(p)
      PROVE \A q \in Process : ProcessMoves(q)
  <2>1. /\ \A q \in Process \ {p} : call'[q] = call[q]
        /\ state' = state /\ call[p].answer = "none"
        /\ \/ /\ call[p].kind = "status"
              /\ call'[p] = [call[p] EXCEPT !.answer = StatusAnswer(call[p].cred)]
           \/ /\ call[p].kind = "upgrade"
              /\ \E a \in {"refused", "license"} : call'[p] = [call[p] EXCEPT !.answer = a]
    BY <1>6, <1>8 DEF ServeStatus, ServeUpgrade
  <2>2. Hears(p)
    BY <2>1 DEF Hears
  <2> QED BY <2>1, <2>2 DEF ProcessMoves, Untouched
<1>9. ASSUME state' = state, call' = call PROVE \A q \in Process : ProcessMoves(q)
  BY <1>9 DEF ProcessMoves, Untouched
<1>10. (\E r \in late : ServeLate(r)) \/ (\E r \in Request : AskRenewal(r) \/ TrialReset(r))
       \/ (\E o \in {"open", "withdrawn", "blocked"} : Offer(o)) \/ DeviceReset \/ Enrol
       => state' = state /\ call' = call
  BY DEF ServeLate, AskRenewal, TrialReset, Offer, DeviceReset, Enrol
<1> QED BY <1>1, <1>3, <1>4, <1>5, <1>7, <1>8, <1>9, <1>10 DEF TrialsNext, Serve

\* A start that is granted leaves the row it was granted for.
LEMMA GrantedRow ==
  ASSUME TypeOK, NEW p \in Process, NEW c \in Gens, StartTransaction(p, c), StartAnswer(p, c) = "granted"
  PROVE  (Row(p) \in starts)' /\ HasRow(p)'
<1>1. Row(p)' = Row(p)
  BY DEF StartTransaction, Row
<1>2. Row(p) \in starts'
  BY AnswerTypes DEF StartTransaction
<1> QED BY <1>1, <1>2, RowFields DEF HasRow

LEMMA AfterAnswer ==
  ASSUME NEW c \in CallRow
  PROVE  /\ After(c) = "started" => c.answer = "granted" \/ c.before = "started"
         /\ AfterFailure(c) = "started" => c.before = "started"
         /\ c.kind = "upgrade" /\ c.before = "started" =>
              /\ AfterFailure(c) = "started"
              /\ c.answer \in {"none", "refused", "license"} => After(c) \in {"started", "purchased"}
<1>1. AfterFailure(c) = IF c.kind = "upgrade" THEN c.before ELSE "unavailable"
  BY DEF AfterFailure, After, CallRow
<1> QED BY <1>1 DEF After

LEMMA NextPaid == ASSUME TypeOK, Paid, TrialsNext PROVE Paid'
<1> SUFFICES ASSUME NEW p \in Process,
                    state'[p] = "started" \/ call'[p].answer = "granted" \/ call'[p].before = "started"
             PROVE  HasRow(p)'
  BY DEF Paid, HasRow
<1>0. call[p] \in CallRow /\ (HasRow(p) => HasRow(p)') /\ ProcessMoves(p)
  BY RowsStay, NextProcess DEF TypeOK
<1>1. CASE Untouched(p)
  BY <1>0, <1>1 DEF Untouched, Paid
<1>2. CASE Starts(p)
  <2>1. call'[p].answer = StartAnswer(p, call[p].cred) /\ call'[p].before = call[p].before
    BY <1>0, <1>2 DEF Starts, CallRow
  <2>2. call[p].cred \in Gens
    BY <1>0 DEF CallRow
  <2> QED BY <1>0, <1>2, <2>1, <2>2, GrantedRow DEF Starts, Paid
<1>3. CASE Hears(p)
  <2>1. call[p].cred \in Gens
    BY <1>0 DEF CallRow
  <2>2. call'[p].answer # "granted" /\ call'[p].before = call[p].before
    BY <1>0, <1>3, <2>1, AnswerTypes DEF Hears, CallRow
  <2> QED BY <1>0, <1>3, <2>2 DEF Hears, Paid
<1>4. CASE Asks(p)
  <2>1. state[p] = "started"
    BY <1>4 DEF Asks, WhileUpgrading
  <2> QED BY <1>0, <2>1 DEF Paid
<1>5. CASE Finishes(p)
  <2>1. state'[p] = "started"
    BY <1>5 DEF Finishes, Idle
  <2>2. call[p].answer = "granted" \/ call[p].before = "started"
    BY <1>0, <1>5, <2>1, AfterAnswer DEF Finishes
  <2> QED BY <1>0, <2>2 DEF Paid
<1>6. CASE Appears(p)
  BY <1>0, <1>6 DEF Appears, Paid
<1> QED BY <1>0, <1>1, <1>2, <1>3, <1>4, <1>5, <1>6 DEF ProcessMoves

LEMMA NextKept == ASSUME TypeOK, Kept, TrialsNext PROVE Kept'
<1> SUFFICES ASSUME NEW p \in Process PROVE KeptBy(state'[p], call'[p])
  BY DEF Kept, KeptBy, Idle
<1>0. call[p] \in CallRow /\ KeptBy(state[p], call[p]) /\ ProcessMoves(p)
  BY NextProcess DEF TypeOK, Kept
<1>1. CASE Untouched(p)
  BY <1>0, <1>1 DEF Untouched
<1>2. CASE Starts(p)
  BY <1>0, <1>2 DEF Starts, KeptBy, CallRow
<1>3. CASE Hears(p)
  <2>1. /\ call'[p].kind = call[p].kind /\ call[p].kind \in {"status", "upgrade"}
        /\ call'[p].before = call[p].before /\ state'[p] = state[p]
        /\ call'[p].kind = "upgrade" => call'[p].answer \in {"none", "refused", "license"}
    BY <1>0, <1>3 DEF Hears, CallRow
  <2> QED BY <1>0, <2>1 DEF KeptBy
<1>4. CASE Asks(p)
  <2>1. call'[p].kind # "idle" /\ call'[p].answer = "none"
    BY <1>4 DEF Asks
  <2>2. state'[p] = "started" => call'[p].kind = "upgrade" /\ call'[p].before = "started"
    BY <1>4 DEF Asks, WhileUpgrading
  <2> QED BY <2>1, <2>2 DEF KeptBy
<1>5. CASE Finishes(p)
  BY <1>5 DEF Finishes, KeptBy, Idle
<1>6. CASE Appears(p)
  BY <1>0, <1>6 DEF Appears, KeptBy
<1> QED BY <1>0, <1>1, <1>2, <1>3, <1>4, <1>5, <1>6 DEF ProcessMoves

-----------------------------------------------------------------------------
(* The theorems.                                                            *)

LEMMA InitTInv == TrialsInit => TInv
<1> SUFFICES ASSUME TrialsInit PROVE TInv
  OBVIOUS
<1>1. TypeOK /\ starts = {} /\ done = {}
  BY TypeInit DEF TrialsInit
<1>2. \A g \in Gens : used[g] = 0 /\ Rows(g) = {} /\ Current(g) = {} /\ Ran(g) = {}
  BY <1>1 DEF TrialsInit, Rows, Current, Ran
<1>3. ASSUME NEW g \in Gens PROVE Exact(g) /\ Spends(g)
  BY <1>2, FS_EmptySet, Allocation DEF Exact, Spends
<1>4. Past /\ Made
  BY <1>1 DEF Past, Made
<1>5. Paid /\ Kept
  BY DEF TrialsInit, Paid, Kept, KeptBy, Idle
<1> QED BY <1>1, <1>3, <1>4, <1>5, CountsOf DEF TInv

LEMMA StepTInv == TInv /\ [TrialsNext]_tvars => TInv'
<1> SUFFICES ASSUME TInv, [TrialsNext]_tvars PROVE TInv'
  OBVIOUS
<1>1. CASE TrialsNext
  BY <1>1, StepType, NextCounts, NextPast, NextPaid, NextKept DEF TInv
<1>2. CASE UNCHANGED tvars
  BY <1>2 DEF tvars, server, admin, TInv, TypeOK, AllocationIsExact, Past, Made, Spent, Ran, Paid,
              HasRow, Kept
<1> QED BY <1>1, <1>2

LEMMA TInvariance == TrialsSpec => []TInv
BY InitTInv, StepTInv, PTL DEF TrialsSpec

\* The counter of a generation is the number of starts recorded in the allocation in
\* force, and never more than an allocation has.
THEOREM CounterIsExact == TrialsSpec => []AllocationIsExact
<1>1. TInv => AllocationIsExact
  BY DEF TInv
<1> QED BY <1>1, TInvariance, PTL

\* What was played and what is left to play is an allocation and one more for every
\* renewal that was asked for.
THEOREM BudgetIsKept == TrialsSpec => []BudgetHolds
<1>1. ASSUME TInv, NEW g \in Gens
      PROVE  Cardinality(Ran(g)) <= Cardinality({r \in Request : asked[r] = g})
  BY <1>1, FS_Subset, FewProcesses DEF TInv, TypeOK, Ran
<1>2. ASSUME TInv, NEW g \in Gens
      PROVE  Cardinality(Rows(g)) + (Budget - used[g]) <=
             Budget * (1 + Cardinality({r \in Request : asked[r] = g}))
  <2> DEFINE ran == Cardinality(Ran(g))
             made == Cardinality({r \in Request : asked[r] = g})
             limit == Budget * (1 + ran)
             bound == Budget * (1 + made)
  <2>1. ran \in Nat /\ made \in Nat /\ ran <= made
    BY <1>1, <1>2, Sizes, FS_Subset, FS_CardinalityType, FewProcesses DEF TInv
  <2>2. limit <= bound /\ limit \in Int /\ bound \in Int
    BY <2>1, MoreAllocations, Allocation
  <2>3. Cardinality(Rows(g)) + (Budget - used[g]) <= limit
    BY <1>2, CountsOf DEF TInv, Spends
  <2>4. Cardinality(Rows(g)) \in Nat /\ used[g] \in Nat
    BY <1>2, Sizes DEF TInv, TypeOK
  <2> HIDE DEF limit, bound
  <2>5. Cardinality(Rows(g)) + (Budget - used[g]) <= bound
    BY <2>2, <2>3, <2>4, Allocation
  <2> QED BY <2>5 DEF bound
<1>3. TInv => BudgetHolds
  BY <1>2 DEF BudgetHolds, Rows
<1> QED BY <1>3, TInvariance, PTL

\* A process that plays has a start of its own on record.
THEOREM PlayIsRecorded == TrialsSpec => []PlayIsPaidFor
<1>1. TInv => PlayIsPaidFor
  BY DEF TInv, Paid, HasRow, PlayIsPaidFor
<1> QED BY <1>1, TInvariance, PTL

\* A start is only ever granted on the allocation in force.
THEOREM GrantsAreCurrent == TrialsSpec => NoRetiredGrant
<1>1. ASSUME TInv, TrialsNext, NEW p \in Process, call[p].answer = "none", call'[p].answer = "granted"
      PROVE  (Row(p) \in starts)'
  <2>1. TypeOK /\ call[p] \in CallRow /\ ProcessMoves(p)
    BY <1>1, NextProcess DEF TInv, TypeOK
  <2>2. call[p].cred \in Gens
    BY <2>1 DEF CallRow
  <2>3. CASE Starts(p)
    <3>1. StartAnswer(p, call[p].cred) = "granted"
      BY <1>1, <2>1, <2>3 DEF Starts, CallRow
    <3> QED BY <2>1, <2>2, <2>3, <3>1, GrantedRow DEF Starts
  <2>4. ~Untouched(p) /\ ~Asks(p) /\ ~Finishes(p) /\ ~Appears(p)
    BY <1>1 DEF Untouched, Asks, Finishes, Appears, Idle
  <2>5. ~Hears(p)
    BY <1>1, <2>1, <2>2, AnswerTypes DEF Hears, CallRow
  <2> QED BY <2>1, <2>3, <2>4, <2>5 DEF ProcessMoves
<1>2. TInv /\ [TrialsNext]_tvars =>
        [\A p \in Process : call[p].answer = "none" /\ call'[p].answer = "granted" =>
                            (Row(p) \in starts)']_tvars
  BY <1>1
<1> QED BY <1>2, TInvariance, PTL DEF TrialsSpec, NoRetiredGrant

\* A process that plays goes on until it ends or owns the product.
THEOREM TrialGoesOn == TrialsSpec => TrialIsKept
<1>1. ASSUME TInv, TrialsNext, NEW p \in Process, state[p] = "started"
      PROVE  state'[p] \in {"started", "purchased", "closed"}
  <2>1. call[p] \in CallRow /\ KeptBy(state[p], call[p]) /\ ProcessMoves(p)
    BY <1>1, NextProcess DEF TInv, TypeOK, Kept
  <2>2. CASE Untouched(p) \/ Starts(p) \/ Hears(p)
    BY <1>1, <2>2 DEF Untouched, Starts, Hears
  <2>3. CASE Asks(p)
    BY <1>1, <2>3 DEF Asks, WhileUpgrading
  <2>4. CASE Finishes(p)
    <3>1. call[p] = Idle \/ (call[p].kind = "upgrade" /\ call[p].before = "started"
                             /\ call[p].answer \in {"none", "refused", "license"})
      BY <1>1, <2>1 DEF KeptBy
    <3> QED BY <2>1, <2>4, <3>1, AfterAnswer DEF Finishes, Idle
  <2> QED BY <1>1, <2>1, <2>2, <2>3, <2>4 DEF ProcessMoves, Appears
<1>2. TInv /\ [TrialsNext]_tvars =>
        [\A p \in Process : state[p] = "started" => state'[p] \in {"started", "purchased", "closed"}]_tvars
  BY <1>1
<1> QED BY <1>2, TInvariance, PTL DEF TrialsSpec, TrialIsKept
=============================================================================
