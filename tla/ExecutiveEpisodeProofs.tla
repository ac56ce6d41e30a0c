------------------------ MODULE ExecutiveEpisodeProofs ------------------------
(***************************************************************************)
(* Machine-checked proofs about ExecutiveEpisode, for any sets of goals,   *)
(* tasks, times and task shapes.                                           *)
(***************************************************************************)
EXTENDS ExecutiveEpisode, SequenceTheorems, TLAPS

(***************************************************************************)
(* Operators of the readiness rules.                                       *)
(***************************************************************************)
\* controlReadiness answers one of five statuses, all of them statuses of a
\* task that has not been attempted.
LEMMA ControlReadinessType ==
    ASSUME NEW p, NEW d, NEW at
    PROVE  ControlReadiness(p, d, at) \in PreRun
BY DEF ControlReadiness, PreRun

\* A refresh only moves tasks between the statuses of an unattempted task.
LEMMA RefreshProperties ==
    ASSUME NEW st \in [Tasks -> TaskStatuses], NEW dp, NEW sh, NEW dec, NEW at
    PROVE  /\ RefreshTaskStatuses(st, dp, sh, dec, at) \in [Tasks -> TaskStatuses]
           /\ \A t \in Tasks :
                IF st[t] \in PreRun
                THEN RefreshTaskStatuses(st, dp, sh, dec, at)[t] \in PreRun
                ELSE RefreshTaskStatuses(st, dp, sh, dec, at)[t] = st[t]
<1> DEFINE F(t) == IF st[t] \notin PreRun THEN st[t]
                   ELSE IF ~DepsSucceeded(st, dp[t]) THEN "blocked"
                   ELSE ControlReadiness(PendingGates(sh[t], "execution"),
                                         dec[t]["execution"], at)
<1>1. RefreshTaskStatuses(st, dp, sh, dec, at) = [t \in Tasks |-> F(t)]
  BY DEF RefreshTaskStatuses
<1>2. ASSUME NEW t \in Tasks
      PROVE  IF st[t] \in PreRun THEN F(t) \in PreRun ELSE F(t) = st[t]
  <2>1. ControlReadiness(PendingGates(sh[t], "execution"),
                         dec[t]["execution"], at) \in PreRun
    BY ControlReadinessType
  <2>2. "blocked" \in PreRun
    BY DEF PreRun
  <2> HIDE DEF F
  <2> QED
    BY <2>1, <2>2 DEF F
<1>3. PreRun \subseteq TaskStatuses
  BY DEF TaskStatuses
<1> HIDE DEF F
<1> QED
  BY <1>1, <1>2, <1>3

\* The status of a task awaiting compensation is one of three.
LEMMA RollbackStatusType ==
    ASSUME NEW r
    PROVE  RollbackStatus(r) \in {"rollback_ready", "rollback_failed", "rollback_blocked"}
BY DEF RollbackStatus

LEMMA ExpiryType == Times \subseteq Int /\ Expiries \subseteq Int
<1>1. Times \subseteq Int
  BY TimesAssumption
<1>2. NoExpiry \in Int
  BY DEF NoExpiry
<1> QED
  BY <1>1, <1>2 DEF Expiries

\* "ready" means that every pending gate has been granted and has not expired.
LEMMA ReadyMeansGranted ==
    ASSUME NEW p \in SUBSET Gates, NEW d \in [Gates -> Decision], NEW at \in Times,
           ControlReadiness(p, d, at) = "ready", NEW g \in p
    PROVE  /\ d[g].verdict = "granted"
           /\ d[g].expiresAt = NoExpiry \/ at < d[g].expiresAt
<1>1. /\ g = "authority" \/ g = "approval"
      /\ d[g] \in Decision
  BY DEF Gates
<1>2. d[g].verdict = "granted" /\ ~IsExpired(d[g].expiresAt, at)
  BY <1>1 DEF ControlReadiness, Decision
<1>3. d[g].expiresAt \in Int /\ at \in Int
  <2>1. d[g].expiresAt \in Expiries
    BY <1>1 DEF Decision
  <2> QED
    BY <2>1, ExpiryType
<1> QED
  BY <1>2, <1>3 DEF IsExpired

(***************************************************************************)
(* Updating one attempt.                                                   *)
(***************************************************************************)
AttemptTable == [Tasks -> [Kinds -> Seq(Attempt)]]

\* Replacing attempt n of task t touches nothing else.
LEMMA UpdateAttempt ==
    ASSUME attempts \in AttemptTable, NEW t \in Tasks, NEW k \in Kinds,
           NEW n \in Ordinals(t, k), NEW STATE e, e \in Attempt,
           attempts' = PutAttempt(t, k, n, e)
    PROVE  /\ attempts' \in AttemptTable
           /\ \A u \in Tasks : u # t => attempts'[u] = attempts[u]
           /\ \A j \in Kinds : j # k => attempts'[t][j] = attempts[t][j]
           /\ Len(attempts'[t][k]) = Len(attempts[t][k])
           /\ attempts'[t][k][n] = e
           /\ \A m \in Ordinals(t, k) : m # n => attempts'[t][k][m] = attempts[t][k][m]
<1> DEFINE s == attempts[t][k]
           s2 == [s EXCEPT ![n] = e]
<1>1. s \in Seq(Attempt) /\ n \in 1 .. Len(s)
  BY DEF AttemptTable, Ordinals
<1>2. /\ s2 \in Seq(Attempt)
      /\ Len(s2) = Len(s)
      /\ \A m \in 1 .. Len(s) : s2[m] = IF m = n THEN e ELSE s[m]
  BY <1>1, ExceptSeq
<1>3. attempts' = [attempts EXCEPT ![t] = [attempts[t] EXCEPT ![k] = s2]]
  BY DEF PutAttempt
<1>4. attempts'[t][k] = s2
  BY <1>3 DEF AttemptTable
<1> HIDE DEF s2
<1> QED
  BY <1>1, <1>2, <1>3, <1>4 DEF AttemptTable, Ordinals

\* Appending an attempt to an empty list of attempts.
LEMMA FirstAttempt ==
    ASSUME attempts \in AttemptTable, NEW t \in Tasks, NEW k \in Kinds,
           Len(attempts[t][k]) = 0, NEW e \in Attempt,
           attempts' = AddAttempt(t, k, e)
    PROVE  /\ attempts' \in AttemptTable
           /\ \A u \in Tasks : u # t => attempts'[u] = attempts[u]
           /\ \A j \in Kinds : j # k => attempts'[t][j] = attempts[t][j]
           /\ Len(attempts'[t][k]) = 1
           /\ attempts'[t][k][1] = e
<1>1. attempts[t][k] \in Seq(Attempt)
  BY DEF AttemptTable
<1>2. attempts'[t][k] = Append(attempts[t][k], e)
  BY DEF AttemptTable, AddAttempt
<1>3. /\ Append(attempts[t][k], e) \in Seq(Attempt)
      /\ Len(Append(attempts[t][k], e)) = 1
      /\ Append(attempts[t][k], e)[1] = e
  BY <1>1
<1> QED
  BY <1>1, <1>2, <1>3 DEF AttemptTable, AddAttempt

(***************************************************************************)
(* The inductive invariant: types, the agreement of statuses with          *)
(* attempts, and the authorisation of attempts.  The three are proved      *)
(* together because they need one another: a learning record is well typed *)
(* only if an attempt awaiting its outcome has a receipt, and a decision   *)
(* on a rollback gate would pull a prepared rollback's task back to        *)
(* rollback_blocked, were not every gate of a prepared attempt decided.    *)
(***************************************************************************)
Inv == TypeOK /\ StatusMatchesAttempt /\ AttemptsAuthorized

\* A task that an event leaves alone, or only refreshes, stays consistent.
LEMMA UntouchedTask ==
    ASSUME NEW t \in Tasks, ConsistentTask(t),
           active'[t] = active[t], attempts'[t] = attempts[t],
           \/ shape'[t] = shape[t] /\ status'[t] = status[t]
           \/ status[t] \in PreRun \cup {"undeclared"} /\ status'[t] \in PreRun
    PROVE  ConsistentTask(t)'
<1>1. CASE shape'[t] = shape[t] /\ status'[t] = status[t]
  BY <1>1 DEF ConsistentTask, NotAttempted, Executing, Succeeded, ExecutionFailed,
     NotCompensated, Compensating, Compensated, UnderWay, Under, SingleAttempt
<1>2. CASE status[t] \in PreRun \cup {"undeclared"} /\ status'[t] \in PreRun
  <2>1. NotAttempted(t)
    BY <1>2 DEF ConsistentTask, Executing, Succeeded, NotCompensated, Compensating,
       Compensated, UnderWay, PreRun
  <2>2. NotAttempted(t)'
    BY <1>2, <2>1 DEF NotAttempted
  <2> QED
    BY <2>2 DEF ConsistentTask
<1> QED
  BY <1>1, <1>2

\* A command that changes no task leaves every task consistent.
LEMMA UntouchedTasks ==
    ASSUME StatusMatchesAttempt, UNCHANGED <<shape, status, active, attempts>>
    PROVE  StatusMatchesAttempt'
BY UntouchedTask DEF StatusMatchesAttempt

LEMMA InitInv == Init => Inv
<1> SUFFICES ASSUME Init PROVE Inv
  OBVIOUS
<1>1. TypeOK
  <2>1. <<>> \in Seq(Attempt)
    OBVIOUS
  <2>2. NoDecision \in Decision
    BY DEF NoDecision, Decision, Expiries
  <2>3. NoAttempt \in AttemptRef
    BY DEF NoAttempt, AttemptRef
  <2> QED
    BY <2>1, <2>2, <2>3 DEF Init, TypeOK, TaskStatuses
<1>2. StatusMatchesAttempt
  BY DEF Init, StatusMatchesAttempt, ConsistentTask, NotAttempted, Kinds
<1>3. AttemptsAuthorized
  BY DEF Init, AttemptsAuthorized, PendingGates, NoShape
<1> QED
  BY <1>1, <1>2, <1>3 DEF Inv

\* What the types say of one task.
LEMMA TaskTypes ==
    ASSUME TypeOK, NEW t \in Tasks
    PROVE  /\ status[t] \in TaskStatuses
           /\ shape[t] \in TaskShapes \cup {NoShape}
           /\ active[t] \in AttemptRef
           /\ decision[t] \in [Kinds -> [Gates -> Decision]]
           /\ \A k \in Kinds : attempts[t][k] \in Seq(Attempt)
BY DEF TypeOK

\* Authorisation of attempts survives a command that leaves a task's attempts
\* and shape alone and overwrites no recorded decision.
LEMMA StillAuthorized ==
    ASSUME TypeOK, AttemptsAuthorized, attempts' = attempts,
           \A t \in Tasks : shape'[t] = shape[t]
                            \/ \A k \in Kinds : attempts[t][k] = <<>>,
           \A t \in Tasks, k \in Kinds, g \in Gates :
              decision[t][k][g].verdict # "none" =>
                  decision'[t][k][g] = decision[t][k][g]
    PROVE  AttemptsAuthorized'
<1> SUFFICES ASSUME NEW t \in Tasks, NEW k \in Kinds, NEW n \in Ordinals(t, k)',
                    NEW g \in PendingGates(shape[t], k)'
             PROVE  /\ decision'[t][k][g].verdict = "granted"
                    /\ \/ decision'[t][k][g].expiresAt = NoExpiry
                       \/ attempts'[t][k][n].preparedAt < decision'[t][k][g].expiresAt
  BY DEF AttemptsAuthorized
<1>1. n \in Ordinals(t, k) /\ attempts[t][k] # <<>>
  BY DEF Ordinals
<1>2. g \in PendingGates(shape[t], k) /\ g \in Gates
  BY <1>1 DEF PendingGates
<1>3. /\ decision[t][k][g].verdict = "granted"
      /\ \/ decision[t][k][g].expiresAt = NoExpiry
         \/ attempts[t][k][n].preparedAt < decision[t][k][g].expiresAt
  BY <1>1, <1>2 DEF AttemptsAuthorized
<1> QED
  BY <1>2, <1>3

(***************************************************************************)
(* Each command preserves the invariant.                                   *)
(***************************************************************************)
LEMMA DeclareTaskInv ==
    ASSUME Inv, NEW t \in Tasks, NEW g \in Goals, NEW ds \in SUBSET Tasks,
           NEW s \in TaskShapes, NEW at \in Times, DeclareTask(t, g, ds, s, at)
    PROVE  Inv'
<1> DEFINE st == [status EXCEPT ![t] = InitialTaskStatus(ds, s)]
<1>1. InitialTaskStatus(ds, s) \in PreRun
  BY ControlReadinessType DEF InitialTaskStatus, PreRun
<1>2. st \in [Tasks -> TaskStatuses]
  BY <1>1 DEF Inv, TypeOK, TaskStatuses
<1>3. /\ status' \in [Tasks -> TaskStatuses]
      /\ \A u \in Tasks : IF st[u] \in PreRun THEN status'[u] \in PreRun
                                              ELSE status'[u] = st[u]
  <2>1. status' = RefreshTaskStatuses(st, deps', shape', decision, at)
    BY DEF DeclareTask
  <2> HIDE DEF st
  <2> QED
    BY <1>2, <2>1, RefreshProperties
<1>4. st[t] \in PreRun /\ \A u \in Tasks : u # t => st[u] = status[u]
  BY <1>1 DEF Inv, TypeOK
<1> HIDE DEF st
<1>5. TypeOK'
  BY <1>3 DEF Inv, TypeOK, DeclareTask
<1>6. StatusMatchesAttempt'
  <2> SUFFICES ASSUME NEW u \in Tasks PROVE ConsistentTask(u)'
    BY DEF StatusMatchesAttempt
  <2>1. ConsistentTask(u) /\ active' = active /\ attempts' = attempts
    BY DEF Inv, StatusMatchesAttempt, DeclareTask
  <2>2. CASE u = t
    <3>1. status[u] = "undeclared" /\ status'[u] \in PreRun
      BY <2>2, <1>3, <1>4 DEF DeclareTask, Declared
    <3> QED
      BY <2>1, <3>1, UntouchedTask
  <2>3. CASE u # t
    <3>1. shape'[u] = shape[u]
      BY <2>3 DEF DeclareTask, Inv, TypeOK
    <3>2. \/ status'[u] = status[u]
          \/ status[u] \in PreRun /\ status'[u] \in PreRun
      BY <2>3, <1>3, <1>4
    <3> QED
      BY <2>1, <3>1, <3>2, UntouchedTask
  <2> QED
    BY <2>2, <2>3
<1>7. AttemptsAuthorized'
  <2>1. \A k \in Kinds : attempts[t][k] = <<>>
    <3>1. ConsistentTask(t) /\ status[t] = "undeclared"
      BY DEF Inv, StatusMatchesAttempt, DeclareTask, Declared
    <3> QED
      BY <3>1 DEF ConsistentTask, NotAttempted, Executing, Succeeded, NotCompensated,
         Compensating, Compensated, UnderWay, Kinds
  <2>2. \A u \in Tasks : shape'[u] = shape[u] \/ \A k \in Kinds : attempts[u][k] = <<>>
    BY <2>1 DEF DeclareTask, Inv, TypeOK
  <2> QED
    BY <2>2, StillAuthorized DEF DeclareTask, Inv
<1> QED
  BY <1>5, <1>6, <1>7 DEF Inv

\* A task being compensated has every rollback gate granted, so no decision on
\* one can still be recorded.
LEMMA CompensationIsDecided ==
    ASSUME Inv, NEW t \in Tasks, Compensating(t), NEW g \in Gates,
           <<"rollback", g>> \in shape[t].pending
    PROVE  decision[t]["rollback"][g].verdict = "granted"
<1>1. 1 \in Ordinals(t, "rollback") /\ "rollback" \in Kinds
  BY DEF Compensating, UnderWay, SingleAttempt, Ordinals, Kinds
<1>2. g \in PendingGates(shape[t], "rollback")
  BY DEF PendingGates
<1> QED
  BY <1>1, <1>2 DEF Inv, AttemptsAuthorized

LEMMA RecordDecisionInv ==
    ASSUME Inv, NEW t \in Tasks, NEW k \in Kinds, NEW g \in Gates,
           NEW d \in Verdicts, NEW at \in Times, RecordDecision(t, k, g, d, at)
    PROVE  Inv'
<1>1. d \in Decision
  BY DEF Verdicts, Decision, Expiries
<1>2. decision' \in [Tasks -> [Kinds -> [Gates -> Decision]]]
  BY <1>1 DEF Inv, TypeOK, RecordDecision
<1>3. \A u \in Tasks, j \in Kinds, h \in Gates :
        decision[u][j][h].verdict # "none" => decision'[u][j][h] = decision[u][j][h]
  BY DEF Inv, TypeOK, RecordDecision
<1>4. /\ status' \in [Tasks -> TaskStatuses]
      /\ \A u \in Tasks :
            \/ status'[u] = status[u]
            \/ status[u] \in PreRun /\ status'[u] \in PreRun
            \/ /\ u = t /\ k = "rollback"
               /\ status[u] \in {"rollback_ready", "rollback_blocked"}
               /\ status'[u] \in {"rollback_ready", "rollback_failed", "rollback_blocked"}
  <2>1. CASE k = "execution"
    <3>1. status' = RefreshTaskStatuses(status, deps, shape, decision', at)
      BY <2>1 DEF RecordDecision, RefreshControlStatus
    <3>2. status \in [Tasks -> TaskStatuses]
      BY DEF Inv, TypeOK
    <3>3. /\ status' \in [Tasks -> TaskStatuses]
          /\ \A u \in Tasks : IF status[u] \in PreRun THEN status'[u] \in PreRun
                                                     ELSE status'[u] = status[u]
      BY <3>1, <3>2, RefreshProperties
    <3> QED
      BY <3>3
  <2>2. CASE k = "rollback"
    <3>1. \/ status' = status
          \/ /\ status[t] \in {"rollback_ready", "rollback_blocked"}
             /\ \E r : status' = [status EXCEPT ![t] = RollbackStatus(r)]
      BY <2>2 DEF RecordDecision, RefreshControlStatus
    <3> QED
      BY <3>1, <2>2, RollbackStatusType DEF Inv, TypeOK, TaskStatuses
  <2> QED
    BY <2>1, <2>2 DEF Kinds
<1>5. TypeOK'
  BY <1>2, <1>4 DEF Inv, TypeOK, RecordDecision
<1>6. StatusMatchesAttempt'
  <2> SUFFICES ASSUME NEW u \in Tasks PROVE ConsistentTask(u)'
    BY DEF StatusMatchesAttempt
  <2>1. ConsistentTask(u) /\ UNCHANGED <<active, attempts, shape>>
    BY DEF Inv, StatusMatchesAttempt, RecordDecision
  <2>2. CASE \/ status'[u] = status[u]
             \/ status[u] \in PreRun /\ status'[u] \in PreRun
    BY <2>1, <2>2, UntouchedTask
  <2>3. CASE /\ u = t /\ k = "rollback"
             /\ status[u] \in {"rollback_ready", "rollback_blocked"}
             /\ status'[u] \in {"rollback_ready", "rollback_failed", "rollback_blocked"}
    <3>1. ~Compensating(u)
      BY <2>3, CompensationIsDecided DEF RecordDecision
    <3>2. NotCompensated(u)
      BY <2>1, <2>3, <3>1 DEF ConsistentTask, NotAttempted, Executing, Succeeded,
         Compensated, UnderWay, PreRun
    <3>3. NotCompensated(u)'
      BY <2>1, <2>3, <3>2 DEF NotCompensated, ExecutionFailed, SingleAttempt
    <3> QED
      BY <3>3 DEF ConsistentTask
  <2> QED
    BY <1>4, <2>2, <2>3
<1>7. AttemptsAuthorized'
  BY <1>3, StillAuthorized DEF Inv, RecordDecision
<1> QED
  BY <1>5, <1>6, <1>7 DEF Inv

\* An attempt can be prepared only for a task that has none of that kind.
LEMMA PreparedFresh ==
    ASSUME Inv, NEW t \in Tasks, NEW k \in Kinds, NEW at \in Times,
           PrepareAttempt(t, k, at)
    PROVE  /\ attempts[t][k] = <<>>
           /\ k = "execution" => NotAttempted(t)
           /\ k = "rollback" => NotCompensated(t) /\ shape[t].rollback = "capability"
<1>1. /\ MayAttempt(t, k)
      /\ active[t] = NoAttempt
      /\ ConsistentTask(t)
  BY DEF PrepareAttempt, TaskReadiness, Inv, StatusMatchesAttempt
<1>2. CASE k = "execution"
  <2>1. NotAttempted(t)
    BY <1>1, <1>2 DEF MayAttempt, ConsistentTask, Executing, Succeeded, NotCompensated,
       Compensating, Compensated, UnderWay, PreRun
  <2> QED
    BY <1>2, <2>1 DEF NotAttempted
<1>3. CASE k = "rollback"
  <2>1. status[t] \in {"rollback_ready", "rollback_blocked"}
    BY <1>1, <1>3 DEF MayAttempt
  <2>2. ~Compensating(t)
    BY <1>1 DEF Compensating, UnderWay, Under, NoAttempt
  <2>3. NotCompensated(t)
    BY <1>1, <2>1, <2>2 DEF ConsistentTask, NotAttempted, Executing, Succeeded,
       Compensated, UnderWay, PreRun
  <2> QED
    BY <1>3, <2>1, <2>3 DEF NotCompensated
<1> QED
  BY <1>2, <1>3 DEF Kinds

LEMMA PrepareAttemptInv ==
    ASSUME Inv, NEW t \in Tasks, NEW k \in Kinds, NEW at \in Times,
           PrepareAttempt(t, k, at)
    PROVE  Inv'
<1> DEFINE e == [status |-> "prepared", preparedAt |-> at,
                 receipt |-> "none", outcome |-> "none"]
<1>1. e \in Attempt
  BY DEF Attempt
<1>2. attempts \in AttemptTable /\ Len(attempts[t][k]) = 0
  BY PreparedFresh DEF Inv, TypeOK, AttemptTable
<1>3. attempts' = AddAttempt(t, k, e)
  BY DEF PrepareAttempt
<1> HIDE DEF e
<1>4. /\ attempts' \in AttemptTable
      /\ \A u \in Tasks : u # t => attempts'[u] = attempts[u]
      /\ \A j \in Kinds : j # k => attempts'[t][j] = attempts[t][j]
      /\ Len(attempts'[t][k]) = 1
      /\ attempts'[t][k][1] = e
  BY <1>1, <1>2, <1>3, FirstAttempt
<1>5. /\ active' = [active EXCEPT ![t] = [kind |-> k, ordinal |-> 1]]
      /\ status' = [status EXCEPT ![t] = IF k = "execution" THEN "prepared"
                                                           ELSE "rollback_ready"]
      /\ UNCHANGED <<episode, goalStatus, goalOf, deps, shape, decision, learning>>
  BY <1>2 DEF PrepareAttempt
<1>6. TypeOK'
  <2>1. [kind |-> k, ordinal |-> 1] \in AttemptRef
    BY DEF AttemptRef
  <2> QED
    BY <1>4, <1>5, <2>1 DEF Inv, TypeOK, TaskStatuses, AttemptTable
<1>7. StatusMatchesAttempt'
  <2> SUFFICES ASSUME NEW u \in Tasks PROVE ConsistentTask(u)'
    BY DEF StatusMatchesAttempt
  <2>1. CASE u # t
    <3>1. /\ ConsistentTask(u)
          /\ active'[u] = active[u] /\ attempts'[u] = attempts[u]
          /\ shape'[u] = shape[u] /\ status'[u] = status[u]
      BY <1>4, <1>5, <2>1 DEF Inv, TypeOK, StatusMatchesAttempt
    <3> QED
      BY <3>1, UntouchedTask
  <2>2. CASE u = t /\ k = "execution"
    <3>1. attempts'[t]["rollback"] = <<>>
      BY <1>4, <2>2, PreparedFresh DEF NotAttempted, Kinds
    <3>2. /\ active'[t] = [kind |-> "execution", ordinal |-> 1]
          /\ status'[t] = "prepared"
      BY <1>5, <2>2 DEF Inv, TypeOK
    <3>3. attempts'[t]["execution"][1].status = "prepared"
      BY <1>4, <2>2 DEF e
    <3> QED
      BY <1>4, <2>2, <3>1, <3>2, <3>3
         DEF ConsistentTask, Executing, UnderWay, Under, SingleAttempt
  <2>3. CASE u = t /\ k = "rollback"
    <3>1. attempts'[t]["execution"] = attempts[t]["execution"]
      BY <1>4, <2>3 DEF Kinds
    <3>2. /\ ExecutionFailed(t)
          /\ shape[t].rollback = "capability"
      BY <2>3, PreparedFresh DEF NotCompensated
    <3>3. ExecutionFailed(t)' /\ shape'[t].rollback = "capability"
      BY <1>5, <3>1, <3>2 DEF ExecutionFailed, SingleAttempt
    <3>4. /\ active'[t] = [kind |-> "rollback", ordinal |-> 1]
          /\ status'[t] = "rollback_ready"
      BY <1>5, <2>3 DEF Inv, TypeOK
    <3>5. attempts'[t]["rollback"][1].status = "prepared"
      BY <1>4, <2>3 DEF e
    <3> QED
      BY <1>4, <2>3, <3>3, <3>4, <3>5
         DEF ConsistentTask, Compensating, UnderWay, Under, SingleAttempt
  <2> QED
    BY <2>1, <2>2, <2>3 DEF Kinds
<1>8. AttemptsAuthorized'
  <2> SUFFICES ASSUME NEW u \in Tasks, NEW j \in Kinds, NEW n \in Ordinals(u, j)',
                      NEW g \in PendingGates(shape[u], j)
               PROVE  /\ decision[u][j][g].verdict = "granted"
                      /\ \/ decision[u][j][g].expiresAt = NoExpiry
                         \/ attempts'[u][j][n].preparedAt < decision[u][j][g].expiresAt
    BY <1>5 DEF AttemptsAuthorized
  <2>1. CASE u = t /\ j = k
    <3>1. n \in 1 .. 1
      BY <1>4, <2>1 DEF Ordinals
    <3>2. attempts'[u][j][n].preparedAt = at
      BY <1>4, <2>1, <3>1 DEF e
    <3>3. ControlReadiness(PendingGates(shape[t], k), decision[t][k], at) = "ready"
      BY DEF PrepareAttempt, TaskReadiness
    <3>4. /\ PendingGates(shape[t], k) \in SUBSET Gates
          /\ decision[t][k] \in [Gates -> Decision]
      BY DEF PendingGates, Inv, TypeOK
    <3> QED
      BY <2>1, <3>2, <3>3, <3>4, ReadyMeansGranted
  <2>2. CASE ~(u = t /\ j = k)
    <3>1. attempts'[u][j] = attempts[u][j]
      BY <1>4, <2>2
    <3> QED
      BY <3>1 DEF Inv, AttemptsAuthorized, Ordinals
  <2> QED
    BY <2>1, <2>2
<1> QED
  BY <1>6, <1>7, <1>8 DEF Inv

\* An attempt that is not concluded is the task's only attempt of its kind, and
\* the one under way.
LEMMA UnconcludedIsUnderWay ==
    ASSUME Inv, NEW t \in Tasks, NEW k \in Kinds, NEW n \in Ordinals(t, k),
           attempts[t][k][n].status # "concluded"
    PROVE  /\ n = 1
           /\ k = "execution" => Executing(t)
           /\ k = "rollback" => Compensating(t)
<1>1. /\ ConsistentTask(t)
      /\ attempts[t][k] # <<>>
      /\ n \in 1 .. Len(attempts[t][k])
  BY DEF Inv, StatusMatchesAttempt, Ordinals
<1>2. CASE k = "execution"
  <2>1. Len(attempts[t][k]) = 1
    BY <1>1, <1>2 DEF ConsistentTask, NotAttempted, Executing, UnderWay, Succeeded,
       NotCompensated, Compensating, Compensated, ExecutionFailed, SingleAttempt
  <2>2. n = 1
    BY <1>1, <2>1
  <2>3. Executing(t)
    BY <1>1, <1>2, <2>2 DEF ConsistentTask, NotAttempted, Succeeded, NotCompensated,
       Compensating, Compensated, ExecutionFailed, SingleAttempt
  <2> QED
    BY <1>2, <2>2, <2>3
<1>3. CASE k = "rollback"
  <2>1. Compensating(t) \/ Compensated(t)
    BY <1>1, <1>3 DEF ConsistentTask, NotAttempted, Executing, Succeeded, NotCompensated
  <2>2. Len(attempts[t][k]) = 1
    BY <1>3, <2>1 DEF Compensating, UnderWay, Compensated, SingleAttempt
  <2>3. n = 1
    BY <1>1, <2>2
  <2> QED
    BY <1>3, <2>1, <2>3 DEF Compensated, SingleAttempt
<1> QED
  BY <1>2, <1>3 DEF Kinds

\* Replacing an attempt keeps every attempt authorised if it keeps its time.
LEMMA StillAuthorizedUpdate ==
    ASSUME Inv, NEW t \in Tasks, NEW k \in Kinds, NEW n \in Ordinals(t, k),
           NEW STATE e, e \in Attempt, attempts' = PutAttempt(t, k, n, e),
           e.preparedAt = attempts[t][k][n].preparedAt,
           UNCHANGED <<shape, decision>>
    PROVE  AttemptsAuthorized'
<1>1. attempts \in AttemptTable
  BY DEF Inv, TypeOK, AttemptTable
<1>2. \A u \in Tasks, j \in Kinds :
        /\ Len(attempts'[u][j]) = Len(attempts[u][j])
        /\ \A m \in Ordinals(u, j) :
              attempts'[u][j][m].preparedAt = attempts[u][j][m].preparedAt
  <2>1. /\ \A u \in Tasks : u # t => attempts'[u] = attempts[u]
        /\ \A j \in Kinds : j # k => attempts'[t][j] = attempts[t][j]
        /\ Len(attempts'[t][k]) = Len(attempts[t][k])
        /\ attempts'[t][k][n] = e
        /\ \A m \in Ordinals(t, k) : m # n => attempts'[t][k][m] = attempts[t][k][m]
    BY <1>1, UpdateAttempt
  <2> QED
    BY <2>1
<1> QED
  BY <1>2 DEF Inv, AttemptsAuthorized, Ordinals

\* Moving the attempt under way to its next stage, with the task's status,
\* keeps every task consistent.
LEMMA NextStage ==
    ASSUME Inv, NEW t \in Tasks, NEW k \in Kinds, NEW n \in Ordinals(t, k),
           attempts[t][k][n].status # "concluded",
           NEW STATE e, e \in Attempt, attempts' = PutAttempt(t, k, n, e),
           e.preparedAt = attempts[t][k][n].preparedAt,
           UNCHANGED <<shape, decision, active>>,
           NEW STATE s, status' = [status EXCEPT ![t] = s],
           \/ /\ e.status = "in_flight"
              /\ s = IF k = "execution" THEN "in_flight" ELSE "rolling_back"
           \/ e.status = "receipt_observed" /\ e.receipt # "none"
              /\ s = "awaiting_outcome"
    PROVE  /\ attempts' \in AttemptTable
           /\ status' \in [Tasks -> TaskStatuses]
           /\ StatusMatchesAttempt'
           /\ AttemptsAuthorized'
<1>1. attempts \in AttemptTable
  BY DEF Inv, TypeOK, AttemptTable
<1>2. /\ attempts' \in AttemptTable
      /\ \A u \in Tasks : u # t => attempts'[u] = attempts[u]
      /\ \A j \in Kinds : j # k => attempts'[t][j] = attempts[t][j]
      /\ Len(attempts'[t][k]) = Len(attempts[t][k])
      /\ attempts'[t][k][n] = e
  BY <1>1, UpdateAttempt
<1>3. status' \in [Tasks -> TaskStatuses] /\ status'[t] = s
  BY DEF Inv, TypeOK, TaskStatuses
<1>4. /\ n = 1
      /\ k = "execution" => Executing(t)
      /\ k = "rollback" => Compensating(t)
  BY UnconcludedIsUnderWay
<1>5. StatusMatchesAttempt'
  <2> SUFFICES ASSUME NEW u \in Tasks PROVE ConsistentTask(u)'
    BY DEF StatusMatchesAttempt
  <2>1. CASE u # t
    <3>1. /\ ConsistentTask(u)
          /\ active'[u] = active[u] /\ attempts'[u] = attempts[u]
          /\ shape'[u] = shape[u] /\ status'[u] = status[u]
      BY <1>2, <2>1 DEF Inv, TypeOK, StatusMatchesAttempt
    <3> QED
      BY <3>1, UntouchedTask
  <2>2. CASE u = t /\ k = "execution"
    <3>1. attempts'[t]["rollback"] = <<>>
      BY <1>2, <1>4, <2>2 DEF Executing, Kinds
    <3>2. Under(t, "execution")' /\ Len(attempts'[t]["execution"]) = 1
      BY <1>2, <1>4, <2>2 DEF Executing, UnderWay, Under, SingleAttempt
    <3>3. attempts'[t]["execution"][1] = e
      BY <1>2, <1>4, <2>2
    <3>4. Executing(t)'
      BY <1>3, <2>2, <3>1, <3>2, <3>3 DEF Executing, UnderWay, SingleAttempt
    <3> QED
      BY <2>2, <3>4 DEF ConsistentTask
  <2>3. CASE u = t /\ k = "rollback"
    <3>1. attempts'[t]["execution"] = attempts[t]["execution"]
      BY <1>2, <2>3 DEF Kinds
    <3>2. ExecutionFailed(t)' /\ shape'[t].rollback = "capability"
      BY <1>4, <2>3, <3>1 DEF Compensating, ExecutionFailed, SingleAttempt
    <3>3. Under(t, "rollback")' /\ Len(attempts'[t]["rollback"]) = 1
      BY <1>2, <1>4, <2>3 DEF Compensating, UnderWay, Under, SingleAttempt
    <3>4. attempts'[t]["rollback"][1] = e
      BY <1>2, <1>4, <2>3
    <3>5. Compensating(t)'
      BY <1>3, <2>3, <3>2, <3>3, <3>4 DEF Compensating, UnderWay, SingleAttempt
    <3> QED
      BY <2>3, <3>5 DEF ConsistentTask
  <2> QED
    BY <2>1, <2>2, <2>3 DEF Kinds
<1>6. AttemptsAuthorized'
  BY StillAuthorizedUpdate
<1> QED
  BY <1>2, <1>3, <1>5, <1>6

LEMMA RecordDispatchInv ==
    ASSUME Inv, NEW t \in Tasks, NEW k \in Kinds, NEW n \in Ordinals(t, k),
           RecordDispatch(t, k, n)
    PROVE  Inv'
<1> DEFINE a == attempts[t][k][n]
           e == [a EXCEPT !.status = "in_flight"]
<1>1. a \in Attempt
  BY TaskTypes, ElementOfSeq DEF Inv, Ordinals
<1>2. /\ e \in Attempt
      /\ e.preparedAt = a.preparedAt
      /\ e.status = "in_flight"
  BY <1>1 DEF Attempt, RecordDispatch, ReceiptStatuses
<1>3. attempts' = PutAttempt(t, k, n, e)
  BY DEF RecordDispatch
<1>4. a.status # "concluded"
  BY DEF RecordDispatch
<1> HIDE DEF e
<1>5. UNCHANGED <<shape, decision, active, episode, goalStatus, goalOf, deps, learning>>
  BY DEF RecordDispatch
<1>6. PICK s : status' = [status EXCEPT ![t] = s] /\ s = IF k = "execution" THEN "in_flight" ELSE "rolling_back"
  BY DEF RecordDispatch
<1>7. /\ attempts' \in AttemptTable
      /\ status' \in [Tasks -> TaskStatuses]
      /\ StatusMatchesAttempt'
      /\ AttemptsAuthorized'
  BY <1>2, <1>3, <1>4, <1>5, <1>6, NextStage
<1> QED
  BY <1>5, <1>7 DEF Inv, TypeOK, AttemptTable

LEMMA ObserveReceiptInv ==
    ASSUME Inv, NEW t \in Tasks, NEW k \in Kinds, NEW n \in Ordinals(t, k),
           NEW r \in ReceiptStatuses, ObserveReceipt(t, k, n, r)
    PROVE  Inv'
<1> DEFINE a == attempts[t][k][n]
           e == [a EXCEPT !.status = "receipt_observed", !.receipt = r]
<1>1. a \in Attempt
  BY TaskTypes, ElementOfSeq DEF Inv, Ordinals
<1>2. /\ e \in Attempt
      /\ e.preparedAt = a.preparedAt
      /\ e.status = "receipt_observed" /\ e.receipt # "none"
  BY <1>1 DEF Attempt, ObserveReceipt, ReceiptStatuses
<1>3. attempts' = PutAttempt(t, k, n, e)
  BY DEF ObserveReceipt
<1>4. a.status # "concluded"
  BY DEF ObserveReceipt
<1> HIDE DEF e
<1>5. UNCHANGED <<shape, decision, active, episode, goalStatus, goalOf, deps, learning>>
  BY DEF ObserveReceipt
<1>6. PICK s : status' = [status EXCEPT ![t] = s] /\ s = "awaiting_outcome"
  BY DEF ObserveReceipt
<1>7. /\ attempts' \in AttemptTable
      /\ status' \in [Tasks -> TaskStatuses]
      /\ StatusMatchesAttempt'
      /\ AttemptsAuthorized'
  BY <1>2, <1>3, <1>4, <1>5, <1>6, NextStage
<1> QED
  BY <1>5, <1>7 DEF Inv, TypeOK, AttemptTable

LEMMA ReconcileReceiptInv ==
    ASSUME Inv, NEW t \in Tasks, NEW k \in Kinds, NEW n \in Ordinals(t, k),
           NEW r \in ReceiptStatuses, ReconcileReceipt(t, k, n, r)
    PROVE  Inv'
<1> DEFINE a == attempts[t][k][n]
           e == [a EXCEPT !.receipt = r]
<1>1. a \in Attempt
  BY TaskTypes, ElementOfSeq DEF Inv, Ordinals
<1>2. /\ e \in Attempt
      /\ e.preparedAt = a.preparedAt
      /\ e.status = "receipt_observed" /\ e.receipt # "none"
  BY <1>1 DEF Attempt, ReconcileReceipt, Reconcilable, ReceiptStatuses
<1>3. attempts' = PutAttempt(t, k, n, e)
  BY DEF ReconcileReceipt
<1>4. a.status # "concluded"
  BY DEF ReconcileReceipt, Reconcilable
<1> HIDE DEF e
<1>5. UNCHANGED <<shape, decision, active, episode, goalStatus, goalOf, deps, learning>>
  BY DEF ReconcileReceipt
<1>6. status' = [status EXCEPT ![t] = "awaiting_outcome"]
  <2>1. status[t] = "awaiting_outcome"
    <3>1. /\ n = 1
          /\ k = "execution" => Executing(t)
          /\ k = "rollback" => Compensating(t)
          /\ k = "execution" \/ k = "rollback"
          /\ a.status = "receipt_observed"
      BY <1>4, UnconcludedIsUnderWay DEF Kinds, ReconcileReceipt, Reconcilable
    <3> QED
      BY <3>1 DEF Executing, Compensating, UnderWay, SingleAttempt
  <2> QED
    BY <2>1 DEF ReconcileReceipt, Inv, TypeOK
<1>7. /\ attempts' \in AttemptTable
      /\ status' \in [Tasks -> TaskStatuses]
      /\ StatusMatchesAttempt'
      /\ AttemptsAuthorized'
  BY <1>2, <1>3, <1>4, <1>5, <1>6, NextStage
<1> QED
  BY <1>5, <1>7 DEF Inv, TypeOK, AttemptTable

\* What the outcome of an attempt makes of its task.
LEMMA OutcomeStatus ==
    ASSUME NEW t \in Tasks, NEW k \in Kinds, NEW o \in Dispositions,
           NEW STATE r, NEW at, OutcomeAllowed(o, r), NEW STATE s,
           s = StatusAfterOutcome(t, k, o, r, at)
    PROVE  /\ k = "rollback" => s = IF o = "accepted" THEN "rolled_back"
                                                     ELSE "rollback_failed"
           /\ k = "execution" /\ o = "accepted" => s = "succeeded" /\ r = "succeeded"
           /\ k = "execution" /\ o # "accepted" =>
                \/ s = "failed"
                \/ /\ s \in {"rollback_ready", "rollback_blocked", "rollback_failed"}
                   /\ shape[t].rollback = "capability"
<1>1. o = "accepted" => r = "succeeded"
  BY DEF OutcomeAllowed
<1>2. CASE k = "rollback"
  BY <1>1, <1>2 DEF StatusAfterOutcome
<1>3. CASE k = "execution" /\ o = "accepted"
  BY <1>1, <1>3 DEF StatusAfterOutcome
<1>4. CASE k = "execution" /\ o # "accepted" /\ shape[t].rollback = "capability"
  <2>1. \E x : s = RollbackStatus(x)
    BY <1>4 DEF StatusAfterOutcome
  <2> QED
    BY <1>4, <2>1, RollbackStatusType
<1>5. CASE k = "execution" /\ o # "accepted" /\ shape[t].rollback # "capability"
  BY <1>5 DEF StatusAfterOutcome
<1> QED
  BY <1>2, <1>3, <1>4, <1>5 DEF Kinds

LEMMA RecordOutcomeInv ==
    ASSUME Inv, NEW t \in Tasks, NEW k \in Kinds, NEW n \in Ordinals(t, k),
           NEW o \in Dispositions, NEW at \in Times, RecordOutcome(t, k, n, o, at)
    PROVE  Inv'
<1> DEFINE a == attempts[t][k][n]
           e == [a EXCEPT !.status = "concluded", !.outcome = o]
           s == StatusAfterOutcome(t, k, o, a.receipt, at)
           st == [status EXCEPT ![t] = s]
<1>1. a \in Attempt /\ a.status = "receipt_observed"
  BY TaskTypes, ElementOfSeq DEF Inv, Ordinals, RecordOutcome
<1>2. /\ n = 1
      /\ k = "execution" => Executing(t)
      /\ k = "rollback" => Compensating(t)
  BY <1>1, UnconcludedIsUnderWay
<1>3. a.receipt # "none"
  <2>1. UnderWay(t, k, "in_flight") \/ UnderWay(t, k, "rolling_back")
    BY <1>2 DEF Executing, Compensating, Kinds
  <2> QED
    BY <1>1, <1>2, <2>1 DEF UnderWay, SingleAttempt
<1>4. /\ e \in Attempt
      /\ e.preparedAt = a.preparedAt
      /\ e.status = "concluded" /\ e.outcome = o /\ e.receipt = a.receipt
      /\ o # "none"
  BY <1>1 DEF Attempt, Dispositions
<1>5. attempts' = PutAttempt(t, k, n, e)
  BY DEF RecordOutcome
<1>6. /\ active' = [active EXCEPT ![t] = NoAttempt]
      /\ status' = RefreshTaskStatuses(st, deps, shape, decision, at)
      /\ UNCHANGED <<shape, decision, episode, goalStatus, goalOf, deps>>
  BY DEF RecordOutcome
<1>7. learning' \in SUBSET LearningRecord
  <2>1. /\ n \in Nat
        /\ a.receipt \in ReceiptStatuses
    BY <1>1, <1>2, <1>3 DEF Attempt
  <2>2. [task |-> t, kind |-> k, ordinal |-> n, outcome |-> o, receipt |-> a.receipt]
          \in LearningRecord
    BY <2>1 DEF LearningRecord
  <2> QED
    BY <2>2 DEF RecordOutcome, Inv, TypeOK
<1>8. /\ k = "rollback" => s = IF o = "accepted" THEN "rolled_back" ELSE "rollback_failed"
      /\ k = "execution" /\ o = "accepted" => s = "succeeded" /\ a.receipt = "succeeded"
      /\ k = "execution" /\ o # "accepted" =>
           \/ s = "failed"
           \/ /\ s \in {"rollback_ready", "rollback_blocked", "rollback_failed"}
              /\ shape[t].rollback = "capability"
  BY OutcomeStatus DEF RecordOutcome
<1> HIDE DEF e, s
<1>9. s \in TaskStatuses /\ s \notin PreRun \cup {"undeclared"}
  BY <1>8 DEF TaskStatuses, PreRun, Kinds
<1>10. /\ st \in [Tasks -> TaskStatuses]
       /\ st[t] = s /\ \A u \in Tasks : u # t => st[u] = status[u]
  BY <1>9 DEF Inv, TypeOK
<1> HIDE DEF st
<1>11. /\ status' \in [Tasks -> TaskStatuses]
       /\ \A u \in Tasks : IF st[u] \in PreRun THEN status'[u] \in PreRun
                                               ELSE status'[u] = st[u]
  BY <1>6, <1>10, RefreshProperties
<1>12. status'[t] = s
  BY <1>9, <1>10, <1>11
<1>13. attempts \in AttemptTable
  BY DEF Inv, TypeOK, AttemptTable
<1>14. /\ attempts' \in AttemptTable
       /\ \A u \in Tasks : u # t => attempts'[u] = attempts[u]
       /\ \A j \in Kinds : j # k => attempts'[t][j] = attempts[t][j]
       /\ Len(attempts'[t][k]) = Len(attempts[t][k])
       /\ attempts'[t][k][n] = e
  BY <1>4, <1>5, <1>13, UpdateAttempt
<1>15. TypeOK'
  <2>1. NoAttempt \in AttemptRef
    BY DEF NoAttempt, AttemptRef
  <2> QED
    BY <1>6, <1>7, <1>11, <1>14, <2>1 DEF Inv, TypeOK, AttemptTable
<1>16. StatusMatchesAttempt'
  <2> SUFFICES ASSUME NEW u \in Tasks PROVE ConsistentTask(u)'
    BY DEF StatusMatchesAttempt
  <2>1. CASE u # t
    <3>1. /\ ConsistentTask(u)
          /\ active'[u] = active[u] /\ attempts'[u] = attempts[u]
          /\ shape'[u] = shape[u]
      BY <1>6, <1>14, <2>1 DEF Inv, TypeOK, StatusMatchesAttempt
    <3>2. \/ status'[u] = status[u]
          \/ status[u] \in PreRun /\ status'[u] \in PreRun
      BY <1>10, <1>11, <2>1
    <3> QED
      BY <3>1, <3>2, UntouchedTask
  <2>2. active'[t] = NoAttempt
    BY <1>6 DEF Inv, TypeOK
  <2>3. CASE u = t /\ k = "execution"
    <3>1. SingleAttempt(t, "execution", "concluded")' /\ attempts'[t]["execution"][1] = e
      BY <1>2, <1>3, <1>4, <1>14, <2>3 DEF Executing, UnderWay, SingleAttempt
    <3>2. attempts'[t]["rollback"] = <<>>
      BY <1>2, <1>14, <2>3 DEF Executing, Kinds
    <3>3. CASE o = "accepted"
      <4>1. Succeeded(t)'
        BY <1>4, <1>8, <1>12, <2>2, <2>3, <3>1, <3>2, <3>3 DEF Succeeded
      <4> QED
        BY <2>3, <4>1 DEF ConsistentTask
    <3>4. CASE o # "accepted"
      <4>1. NotCompensated(t)'
        BY <1>4, <1>6, <1>8, <1>12, <2>2, <2>3, <3>1, <3>2, <3>4
           DEF NotCompensated, ExecutionFailed
      <4> QED
        BY <2>3, <4>1 DEF ConsistentTask
    <3> QED
      BY <3>3, <3>4
  <2>4. CASE u = t /\ k = "rollback"
    <3>1. SingleAttempt(t, "rollback", "concluded")' /\ attempts'[t]["rollback"][1] = e
      BY <1>2, <1>3, <1>4, <1>14, <2>4 DEF Compensating, UnderWay, SingleAttempt
    <3>2. attempts'[t]["execution"] = attempts[t]["execution"]
      BY <1>14, <2>4 DEF Kinds
    <3>3. ExecutionFailed(t)' /\ shape'[t].rollback = "capability"
      BY <1>2, <1>6, <2>4, <3>2 DEF Compensating, ExecutionFailed, SingleAttempt
    <3>4. Compensated(t)'
      BY <1>4, <1>8, <1>12, <2>2, <2>4, <3>1, <3>3 DEF Compensated
    <3> QED
      BY <2>4, <3>4 DEF ConsistentTask
  <2> QED
    BY <2>1, <2>3, <2>4 DEF Kinds
<1>17. AttemptsAuthorized'
  BY <1>4, <1>5, <1>6, StillAuthorizedUpdate
<1> QED
  BY <1>15, <1>16, <1>17 DEF Inv

\* Commands on the episode and its goals touch no task.
LEMMA GoalCommandInv ==
    ASSUME Inv,
           \/ OpenEpisode
           \/ \E g \in Goals : DeclareGoal(g)
           \/ \E g \in Goals, d \in GoalDispositions : ConcludeGoal(g, d)
    PROVE  Inv'
<1>1. UNCHANGED <<goalOf, deps, shape, decision, status, active, attempts, learning>>
  BY DEF OpenEpisode, DeclareGoal, ConcludeGoal
<1>2. TypeOK'
  BY <1>1 DEF Inv, TypeOK, OpenEpisode, DeclareGoal, ConcludeGoal
<1>3. StatusMatchesAttempt'
  BY <1>1, UntouchedTasks DEF Inv
<1>4. AttemptsAuthorized'
  BY <1>1, StillAuthorized DEF Inv
<1> QED
  BY <1>2, <1>3, <1>4 DEF Inv

LEMMA NextInv == Inv /\ [Next]_vars => Inv'
<1> SUFFICES ASSUME Inv, [Next]_vars PROVE Inv'
  OBVIOUS
<1>1. CASE \/ OpenEpisode
           \/ \E g \in Goals : DeclareGoal(g)
           \/ \E g \in Goals, d \in GoalDispositions : ConcludeGoal(g, d)
  BY <1>1, GoalCommandInv
<1>2. ASSUME NEW t \in Tasks, TaskCommand(t) PROVE Inv'
  <2>1. ASSUME NEW g \in Goals, NEW ds \in SUBSET Tasks, NEW s \in TaskShapes,
               NEW at \in Times, DeclareTask(t, g, ds, s, at)
        PROVE  Inv'
    BY <2>1, DeclareTaskInv
  <2>2. ASSUME NEW k \in Kinds, NEW d \in Verdicts, NEW at \in Times,
               RecordAuthority(t, k, d, at) \/ RecordApproval(t, k, d, at)
        PROVE  Inv'
    <3>1. PICK g \in Gates : RecordDecision(t, k, g, d, at)
      BY <2>2 DEF RecordAuthority, RecordApproval, Gates
    <3> QED
      BY <3>1, RecordDecisionInv
  <2> QED
    BY <1>2, <2>1, <2>2 DEF TaskCommand
<1>3. ASSUME NEW t \in Tasks, NEW k \in Kinds, AttemptCommand(t, k) PROVE Inv'
  BY <1>3, PrepareAttemptInv, RecordDispatchInv, ObserveReceiptInv,
     ReconcileReceiptInv, RecordOutcomeInv DEF AttemptCommand
<1>4. CASE UNCHANGED vars
  <2>1. TypeOK'
    BY <1>4 DEF Inv, TypeOK, vars
  <2>2. StatusMatchesAttempt'
    BY <1>4, UntouchedTasks DEF Inv, vars
  <2>3. AttemptsAuthorized'
    BY <1>4, StillAuthorized DEF Inv, vars
  <2> QED
    BY <2>1, <2>2, <2>3 DEF Inv
<1> QED
  BY <1>1, <1>2, <1>3, <1>4 DEF Next

THEOREM Invariant == Spec => []Inv
BY InitInv, NextInv, PTL DEF Spec

\* Every reachable state of the machine is well typed.
THEOREM TypeCorrect == Spec => []TypeOK
<1>1. Inv => TypeOK
  BY DEF Inv
<1> QED
  BY <1>1, Invariant, PTL

\* In every reachable state the status of a task, the attempt it points at
\* and its attempts agree.
THEOREM StatusesAgree == Spec => []StatusMatchesAttempt
<1>1. Inv => StatusMatchesAttempt
  BY DEF Inv
<1> QED
  BY <1>1, Invariant, PTL

\* No attempt is ever prepared without every gate it needs granted and still
\* valid at that moment.
THEOREM Authorization == Spec => []AttemptsAuthorized
<1>1. Inv => AttemptsAuthorized
  BY DEF Inv
<1> QED
  BY <1>1, Invariant, PTL

LEMMA AtMostOne == Inv => AtMostOneAttempt
<1> SUFFICES ASSUME Inv, NEW t \in Tasks, NEW k \in Kinds
             PROVE  Len(attempts[t][k]) <= 1
  BY DEF AtMostOneAttempt
<1>1. ConsistentTask(t)
  BY DEF Inv, StatusMatchesAttempt
<1>2. Len(attempts[t][k]) = 1 \/ attempts[t][k] = <<>>
  BY <1>1 DEF ConsistentTask, NotAttempted, Executing, Succeeded, NotCompensated,
     Compensating, Compensated, ExecutionFailed, UnderWay, SingleAttempt, Kinds
<1>3. Len(<<>>) = 0 /\ 0 <= 1 /\ 1 <= 1
  OBVIOUS
<1>4. CASE attempts[t][k] = <<>>
  BY <1>3, <1>4, Zenon
<1>5. CASE Len(attempts[t][k]) = 1
  BY <1>3, <1>5, Zenon
<1> QED
  BY <1>2, <1>4, <1>5

\* A task is executed at most once and rolled back at most once.
THEOREM OneAttempt == Spec => []AtMostOneAttempt
BY Invariant, AtMostOne, PTL

LEMMA RollbackAfter == Inv => RollbackFollowsFailure
<1> SUFFICES ASSUME Inv, NEW t \in Tasks, attempts[t]["rollback"] # <<>>
             PROVE  /\ shape[t].rollback = "capability"
                    /\ attempts[t]["execution"] # <<>>
                    /\ \A n \in Ordinals(t, "execution") :
                          /\ attempts[t]["execution"][n].status = "concluded"
                          /\ attempts[t]["execution"][n].outcome # "accepted"
  BY DEF RollbackFollowsFailure
<1>1. ConsistentTask(t)
  BY DEF Inv, StatusMatchesAttempt
<1>2. ExecutionFailed(t) /\ shape[t].rollback = "capability"
  BY <1>1 DEF ConsistentTask, NotAttempted, Executing, Succeeded, NotCompensated,
     Compensating, Compensated
<1>3. \A n \in Ordinals(t, "execution") : n = 1
  BY <1>2 DEF ExecutionFailed, SingleAttempt, Ordinals
<1> QED
  BY <1>2, <1>3 DEF ExecutionFailed, SingleAttempt

\* A rollback is attempted only after the execution ended without acceptance.
THEOREM RollbackOrder == Spec => []RollbackFollowsFailure
BY Invariant, RollbackAfter, PTL

LEMMA SuccessEvident == Inv => SuccessHasEvidence
<1> SUFFICES ASSUME Inv, NEW t \in Tasks, status[t] = "succeeded"
             PROVE  \E n \in Ordinals(t, "execution") :
                       /\ attempts[t]["execution"][n].status = "concluded"
                       /\ attempts[t]["execution"][n].receipt = "succeeded"
                       /\ attempts[t]["execution"][n].outcome = "accepted"
  BY DEF SuccessHasEvidence
<1>1. ConsistentTask(t)
  BY DEF Inv, StatusMatchesAttempt
<1>2. Succeeded(t)
  BY <1>1 DEF ConsistentTask, NotAttempted, Executing, UnderWay, NotCompensated,
     Compensating, Compensated, PreRun
<1>3. 1 \in Ordinals(t, "execution")
  BY <1>2 DEF Succeeded, SingleAttempt, Ordinals
<1> QED
  BY <1>2, <1>3 DEF Succeeded, SingleAttempt

\* A succeeded task has an accepted outcome over a successful receipt.
THEOREM SuccessRests == Spec => []SuccessHasEvidence
BY Invariant, SuccessEvident, PTL

(***************************************************************************)
(* Order of dependent tasks.                                               *)
(***************************************************************************)
\* The dependencies of a declared task are fixed, and a task that succeeded
\* stays succeeded.
LEMMA SuccessIsFinal ==
    ASSUME Inv, [Next]_vars, NEW u \in Tasks, status[u] = "succeeded"
    PROVE  status'[u] = "succeeded"
<1>1. Succeeded(u)
  BY DEF Inv, StatusMatchesAttempt, ConsistentTask, NotAttempted, Executing, UnderWay,
     NotCompensated, Compensating, Compensated, PreRun
<1>2. "succeeded" \notin PreRun \cup {"rollback_ready", "rollback_blocked", "undeclared"}
  BY DEF PreRun
<1>3. status \in [Tasks -> TaskStatuses]
  BY DEF Inv, TypeOK
<1>4. CASE \/ OpenEpisode
           \/ \E g \in Goals : DeclareGoal(g)
           \/ \E g \in Goals, d \in GoalDispositions : ConcludeGoal(g, d)
           \/ UNCHANGED vars
  BY <1>4 DEF OpenEpisode, DeclareGoal, ConcludeGoal, vars
<1>5. ASSUME NEW t \in Tasks, TaskCommand(t) PROVE status'[u] = "succeeded"
  <2>1. ASSUME NEW g \in Goals, NEW ds \in SUBSET Tasks, NEW s \in TaskShapes,
               NEW at \in Times, DeclareTask(t, g, ds, s, at)
        PROVE  status'[u] = "succeeded"
    <3> DEFINE st == [status EXCEPT ![t] = InitialTaskStatus(ds, s)]
    <3>1. InitialTaskStatus(ds, s) \in PreRun
      BY ControlReadinessType DEF InitialTaskStatus, PreRun
    <3>2. st \in [Tasks -> TaskStatuses] /\ st[u] = status[u]
      BY <1>2, <1>3, <2>1, <3>1 DEF TaskStatuses, DeclareTask, Declared
    <3>3. status' = RefreshTaskStatuses(st, deps', shape', decision, at)
      BY <2>1 DEF DeclareTask
    <3> HIDE DEF st
    <3> QED
      BY <1>2, <3>2, <3>3, RefreshProperties
  <2>2. ASSUME NEW k \in Kinds, NEW g \in Gates, NEW d \in Verdicts, NEW at \in Times,
               RecordDecision(t, k, g, d, at)
        PROVE  status'[u] = "succeeded"
    <3>1. CASE status' = RefreshTaskStatuses(status, deps, shape, decision', at)
      BY <1>2, <1>3, <3>1, RefreshProperties
    <3>2. CASE \/ status' = status
               \/ /\ status[t] \in {"rollback_ready", "rollback_blocked"}
                  /\ \E r : status' = [status EXCEPT ![t] = RollbackStatus(r)]
      BY <1>3, <3>2
    <3> QED
      BY <2>2, <3>1, <3>2 DEF RecordDecision, RefreshControlStatus
  <2> QED
    BY <1>5, <2>1, <2>2 DEF TaskCommand, RecordAuthority, RecordApproval, Gates
<1>6. ASSUME NEW t \in Tasks, NEW k \in Kinds, AttemptCommand(t, k)
      PROVE  status'[u] = "succeeded"
  <2>1. ASSUME NEW at \in Times, PrepareAttempt(t, k, at) PROVE status'[u] = "succeeded"
    <3>1. status[t] \in PreRun \cup {"rollback_ready", "rollback_blocked"}
      BY <2>1 DEF PrepareAttempt, TaskReadiness, MayAttempt
    <3> QED
      BY <1>2, <1>3, <2>1, <3>1 DEF PrepareAttempt
  <2>2. ASSUME NEW n \in Ordinals(t, k), attempts[t][k][n].status # "concluded"
        PROVE  u # t
    <3>1. Executing(t) \/ Compensating(t)
      BY <2>2, UnconcludedIsUnderWay DEF Kinds
    <3> QED
      BY <1>1, <3>1 DEF Succeeded, Executing, Compensating, UnderWay
  <2>3. ASSUME NEW n \in Ordinals(t, k), NEW r \in ReceiptStatuses,
               \/ RecordDispatch(t, k, n)
               \/ ObserveReceipt(t, k, n, r)
               \/ ReconcileReceipt(t, k, n, r)
        PROVE  status'[u] = "succeeded"
    BY <1>3, <2>2, <2>3 DEF RecordDispatch, ObserveReceipt, ReconcileReceipt
  <2>4. ASSUME NEW n \in Ordinals(t, k), NEW o \in Dispositions, NEW at \in Times,
               RecordOutcome(t, k, n, o, at)
        PROVE  status'[u] = "succeeded"
    <3> DEFINE s == StatusAfterOutcome(t, k, o, attempts[t][k][n].receipt, at)
               st == [status EXCEPT ![t] = s]
    <3>1. u # t
      BY <2>2, <2>4 DEF RecordOutcome
    <3>2. s \in TaskStatuses
      <4>1. OutcomeAllowed(o, attempts[t][k][n].receipt)
        BY <2>4 DEF RecordOutcome
      <4>2. /\ k = "rollback" => s \in {"rolled_back", "rollback_failed"}
            /\ k = "execution" /\ o = "accepted" => s = "succeeded"
            /\ k = "execution" /\ o # "accepted" =>
                 s \in {"failed", "rollback_ready", "rollback_blocked", "rollback_failed"}
        BY <4>1, OutcomeStatus
      <4> HIDE DEF s
      <4> QED
        BY <4>2 DEF TaskStatuses, Kinds
    <3>3. st \in [Tasks -> TaskStatuses] /\ st[u] = status[u]
      BY <1>3, <3>1, <3>2
    <3>4. status' = RefreshTaskStatuses(st, deps, shape, decision, at)
      BY <2>4 DEF RecordOutcome
    <3> HIDE DEF st
    <3> QED
      BY <1>2, <3>3, <3>4, RefreshProperties
  <2> QED
    BY <1>6, <2>1, <2>3, <2>4 DEF AttemptCommand, ReceiptStatuses
<1> QED
  BY <1>4, <1>5, <1>6 DEF Next

\* Only prepare_attempt makes an attempt, and only declare_task writes deps.
LEMMA NewAttempt ==
    ASSUME Inv, [Next]_vars, NEW t \in Tasks,
           attempts[t]["execution"] = <<>>, attempts'[t]["execution"] # <<>>
    PROVE  DepsSucceeded(status, deps[t]) /\ deps' = deps
<1>1. \A u \in Tasks, k \in Kinds : \A n \in Ordinals(u, k), e \in Attempt :
         attempts' = PutAttempt(u, k, n, e) =>
             Len(attempts'[t]["execution"]) = Len(attempts[t]["execution"])
  <2> SUFFICES ASSUME NEW u \in Tasks, NEW k \in Kinds, NEW n \in Ordinals(u, k),
                      NEW e \in Attempt, attempts' = PutAttempt(u, k, n, e)
               PROVE  Len(attempts'[t]["execution"]) = Len(attempts[t]["execution"])
    OBVIOUS
  <2>1. attempts \in AttemptTable
    BY DEF Inv, TypeOK, AttemptTable
  <2>2. /\ \A v \in Tasks : v # u => attempts'[v] = attempts[v]
        /\ \A j \in Kinds : j # k => attempts'[u][j] = attempts[u][j]
        /\ Len(attempts'[u][k]) = Len(attempts[u][k])
    BY <2>1, UpdateAttempt
  <2> QED
    BY <2>2 DEF Kinds
<1>2. PICK u \in Tasks, k \in Kinds, at \in Times : PrepareAttempt(u, k, at)
  <2> SUFFICES ASSUME ~ \E u \in Tasks, k \in Kinds, at \in Times : PrepareAttempt(u, k, at)
               PROVE  FALSE
    OBVIOUS
  <2>1. attempts' # attempts /\ Len(attempts[t]["execution"]) = 0
    OBVIOUS
  <2>2. PICK u \in Tasks, k \in Kinds : AttemptCommand(u, k)
    <3>1. ASSUME NEW u \in Tasks, TaskCommand(u) PROVE attempts' = attempts
      <4>1. \A g \in Goals, ds \in SUBSET Tasks, s \in TaskShapes, at \in Times :
               DeclareTask(u, g, ds, s, at) => attempts' = attempts
        BY DEF DeclareTask
      <4>2. \A k \in Kinds, g \in Gates, d \in Verdicts, at \in Times :
               RecordDecision(u, k, g, d, at) => attempts' = attempts
        BY DEF RecordDecision
      <4> QED
        BY <3>1, <4>1, <4>2 DEF TaskCommand, RecordAuthority, RecordApproval, Gates
    <3>2. \A g \in Goals, d \in GoalDispositions :
             OpenEpisode \/ DeclareGoal(g) \/ ConcludeGoal(g, d) => attempts' = attempts
      BY DEF OpenEpisode, DeclareGoal, ConcludeGoal
    <3>3. OpenEpisode \/ UNCHANGED vars => attempts' = attempts
      BY DEF OpenEpisode, vars
    <3>4. \A g \in Goals : DeclareGoal(g) => attempts' = attempts
      BY DEF DeclareGoal
    <3> QED
      BY <2>1, <3>1, <3>2, <3>3, <3>4 DEF Next
  <2>3. PICK n \in Ordinals(u, k) :
          \/ RecordDispatch(u, k, n)
          \/ \E r \in ReceiptStatuses : ObserveReceipt(u, k, n, r)
          \/ \E r \in ReceiptStatuses : ReconcileReceipt(u, k, n, r)
          \/ \E o \in Dispositions, at \in Times : RecordOutcome(u, k, n, o, at)
    BY <2>2 DEF AttemptCommand
  <2>4. attempts[u][k][n] \in Attempt
    BY TaskTypes, ElementOfSeq DEF Inv, Ordinals
  <2>5. \E e \in Attempt : attempts' = PutAttempt(u, k, n, e)
    BY <2>3, <2>4 DEF RecordDispatch, ObserveReceipt, ReconcileReceipt, RecordOutcome,
       Attempt
  <2>6. Len(attempts'[t]["execution"]) = 0
    BY <1>1, <2>1, <2>5
  <2>7. attempts'[t]["execution"] \in Seq(Attempt)
    BY NextInv DEF Inv, TypeOK, Kinds
  <2> QED
    BY <2>6, <2>7, EmptySeq
<1>3. u = t /\ k = "execution"
  BY <1>2 DEF PrepareAttempt, AddAttempt, Inv, TypeOK, Kinds
<1> QED
  BY <1>2, <1>3 DEF PrepareAttempt, TaskReadiness, MayAttempt, PreRun

LEMMA DependenciesStep ==
    ASSUME Inv, DependenciesFirst, [Next]_vars
    PROVE  DependenciesFirst'
<1> SUFFICES ASSUME NEW t \in Tasks, attempts'[t]["execution"] # <<>>
             PROVE  DepsSucceeded(status', deps'[t])
  BY DEF DependenciesFirst
<1>1. \A d \in deps[t] : d \in Tasks
  BY DEF Inv, TypeOK
<1>2. CASE attempts[t]["execution"] = <<>>
  <2>1. DepsSucceeded(status, deps[t]) /\ deps' = deps
    BY <1>2, NewAttempt
  <2> QED
    BY <1>1, <2>1, SuccessIsFinal DEF DepsSucceeded
<1>3. CASE attempts[t]["execution"] # <<>>
  <2>1. DepsSucceeded(status, deps[t])
    BY <1>3 DEF DependenciesFirst
  <2>2. status[t] # "undeclared"
    BY <1>3 DEF Inv, StatusMatchesAttempt, ConsistentTask, NotAttempted, Executing,
       UnderWay, Succeeded, NotCompensated, Compensating, Compensated
  <2>3. deps'[t] = deps[t]
    <3>1. ASSUME NEW u \in Tasks, TaskCommand(u) PROVE deps'[t] = deps[t]
      <4>1. ASSUME NEW g \in Goals, NEW ds \in SUBSET Tasks, NEW s \in TaskShapes,
                   NEW at \in Times, DeclareTask(u, g, ds, s, at)
            PROVE  deps'[t] = deps[t]
        BY <2>2, <4>1 DEF DeclareTask, Declared, Inv, TypeOK
      <4> QED
        BY <3>1, <4>1 DEF TaskCommand, RecordAuthority, RecordApproval, RecordDecision
    <3>2. ASSUME NEW u \in Tasks, NEW k \in Kinds, AttemptCommand(u, k)
          PROVE  deps' = deps
      BY <3>2 DEF AttemptCommand, PrepareAttempt, RecordDispatch, ObserveReceipt,
         ReconcileReceipt, RecordOutcome
    <3>3. ASSUME \/ OpenEpisode
                 \/ \E g \in Goals : DeclareGoal(g)
                 \/ \E g \in Goals, d \in GoalDispositions : ConcludeGoal(g, d)
                 \/ UNCHANGED vars
          PROVE  deps' = deps
      BY <3>3 DEF OpenEpisode, DeclareGoal, ConcludeGoal, vars
    <3> QED
      BY <3>1, <3>2, <3>3 DEF Next
  <2> QED
    BY <1>1, <2>1, <2>3, SuccessIsFinal DEF DepsSucceeded
<1> QED
  BY <1>2, <1>3

\* A task runs only after its dependencies, and they stay succeeded.
THEOREM DependencyOrder == Spec => []DependenciesFirst
<1>1. Init => DependenciesFirst
  BY DEF Init, DependenciesFirst, Kinds
<1>2. Inv /\ DependenciesFirst /\ [Next]_vars => DependenciesFirst'
  BY DependenciesStep
<1> QED
  BY <1>1, <1>2, Invariant, PTL DEF Spec

(***************************************************************************)
(* Goals.  A goal is concluded on terminal statuses, which later commands  *)
(* on other goals' tasks recompute.  What does not change is why they were *)
(* terminal: a task has ended, or one of its gates has been denied.        *)
(***************************************************************************)
Ended == {"succeeded", "failed", "rolled_back", "rollback_failed"}
Denied == {"authority_denied", "approval_denied"}

Refused(t) ==
    /\ status[t] \in PreRun
    /\ \E g \in PendingGates(shape[t], "execution") :
          decision[t]["execution"][g].verdict = "denied"

Settled(t) == active[t] = NoAttempt /\ (status[t] \in Ended \/ Refused(t))

\* A status is "denied" only if a pending gate has been denied.
LEMMA DeniedGate ==
    ASSUME NEW p, NEW d, NEW at, ControlReadiness(p, d, at) \in Denied
    PROVE  \E g \in p : d[g].verdict = "denied"
BY DEF ControlReadiness, Denied

LEMMA DeniedByRefresh ==
    ASSUME NEW st, NEW dp, NEW sh, NEW dec, NEW at, NEW t \in Tasks,
           RefreshTaskStatuses(st, dp, sh, dec, at)[t] \in Denied
    PROVE  \E g \in PendingGates(sh[t], "execution") :
              dec[t]["execution"][g].verdict = "denied"
<1>1. Denied \subseteq PreRun /\ "blocked" \notin Denied
  BY DEF Denied, PreRun
<1>2. RefreshTaskStatuses(st, dp, sh, dec, at)[t] =
        IF st[t] \notin PreRun THEN st[t]
        ELSE IF ~DepsSucceeded(st, dp[t]) THEN "blocked"
        ELSE ControlReadiness(PendingGates(sh[t], "execution"), dec[t]["execution"], at)
  BY DEF RefreshTaskStatuses
<1>3. ControlReadiness(PendingGates(sh[t], "execution"), dec[t]["execution"], at) \in Denied
  BY <1>1, <1>2
<1> QED
  BY <1>3, DeniedGate

\* A task that has ended, or never started, has no attempt under way.
LEMMA NotUnderWay ==
    ASSUME Inv, NEW t \in Tasks, status[t] \in Ended \cup PreRun
    PROVE  active[t] = NoAttempt
BY DEF Inv, StatusMatchesAttempt, ConsistentTask, NotAttempted, Executing, Succeeded,
   NotCompensated, Compensating, Compensated, UnderWay, Ended, PreRun

\* The attempts of a settled task are concluded.
LEMMA SettledIsConcluded ==
    ASSUME Inv, NEW t \in Tasks, active[t] = NoAttempt, NEW k \in Kinds, NEW n \in Ordinals(t, k)
    PROVE  attempts[t][k][n].status = "concluded"
<1> SUFFICES ASSUME attempts[t][k][n].status # "concluded" PROVE FALSE
  OBVIOUS
<1>1. Executing(t) \/ Compensating(t)
  BY UnconcludedIsUnderWay DEF Kinds
<1> QED
  BY <1>1 DEF Executing, Compensating, UnderWay, Under, NoAttempt

\* No command attempts a refused task.
LEMMA RefusedIsNotReady ==
    ASSUME Inv, NEW t \in Tasks, Refused(t), NEW k \in Kinds, NEW at \in Times
    PROVE  TaskReadiness(t, k, at) # "ready"
<1>1. CASE k = "rollback"
  BY <1>1 DEF TaskReadiness, MayAttempt, Refused, PreRun
<1>2. CASE k = "execution"
  <2>1. PICK g \in PendingGates(shape[t], "execution") :
           decision[t]["execution"][g].verdict = "denied"
    BY DEF Refused
  <2>2. PendingGates(shape[t], "execution") \in SUBSET Gates
    BY DEF PendingGates
  <2>3. decision[t]["execution"] \in [Gates -> Decision]
    BY TaskTypes DEF Inv, Kinds
  <2>4. ControlReadiness(PendingGates(shape[t], "execution"), decision[t]["execution"], at) # "ready"
    BY <2>1, <2>2, <2>3, ReadyMeansGranted
  <2> QED
    BY <1>2, <2>4 DEF TaskReadiness
<1> QED
  BY <1>1, <1>2 DEF Kinds

\* An outcome of one task only refreshes the others.
LEMMA OutcomeElsewhere ==
    ASSUME Inv, NEW t \in Tasks, NEW k \in Kinds, NEW n \in Ordinals(t, k),
           NEW o \in Dispositions, NEW at \in Times, RecordOutcome(t, k, n, o, at),
           NEW u \in Tasks, t # u
    PROVE  IF status[u] \in PreRun THEN status'[u] \in PreRun ELSE status'[u] = status[u]
<1> DEFINE s == StatusAfterOutcome(t, k, o, attempts[t][k][n].receipt, at)
           st == [status EXCEPT ![t] = s]
<1>1. OutcomeAllowed(o, attempts[t][k][n].receipt)
  BY DEF RecordOutcome
<1>2. /\ k = "rollback" => s \in {"rolled_back", "rollback_failed"}
      /\ k = "execution" /\ o = "accepted" => s = "succeeded"
      /\ k = "execution" /\ o # "accepted" =>
           s \in {"failed", "rollback_ready", "rollback_blocked", "rollback_failed"}
  BY <1>1, OutcomeStatus
<1> HIDE DEF s
<1>3. s \in TaskStatuses
  BY <1>2 DEF TaskStatuses, Kinds
<1>4. st \in [Tasks -> TaskStatuses] /\ st[u] = status[u]
  BY <1>3 DEF Inv, TypeOK
<1>5. status' = RefreshTaskStatuses(st, deps, shape, decision, at)
  BY DEF RecordOutcome, s
<1> HIDE DEF st
<1> QED
  BY <1>4, <1>5, RefreshProperties

\* A settled task stays settled, with its attempts, and with its status if it
\* has ended.
LEMMA SettledStep ==
    ASSUME Inv, [Next]_vars, NEW u \in Tasks, Settled(u)
    PROVE  /\ Settled(u)'
           /\ attempts'[u] = attempts[u]
           /\ goalOf'[u] = goalOf[u]
           /\ status[u] \in Ended => status'[u] = status[u]
<1>1. Ended \cap (PreRun \cup {"rollback_ready", "rollback_blocked", "undeclared"}) = {}
  BY DEF PreRun, Ended
<1>2. /\ status \in [Tasks -> TaskStatuses]
      /\ decision \in [Tasks -> [Kinds -> [Gates -> Decision]]]
      /\ active \in [Tasks -> AttemptRef] /\ shape \in [Tasks -> TaskShapes \cup {NoShape}]
      /\ goalOf \in [Tasks -> Goals \cup {NoGoal}]
      /\ attempts \in AttemptTable
  BY DEF Inv, TypeOK, AttemptTable
<1>3. active[u] = NoAttempt /\ (status[u] \in Ended \/ Refused(u))
  BY DEF Settled
<1>4. ASSUME /\ active'[u] = active[u] /\ attempts'[u] = attempts[u]
             /\ goalOf'[u] = goalOf[u] /\ shape'[u] = shape[u]
             /\ \A g \in Gates : decision[u]["execution"][g].verdict # "none" =>
                   decision'[u]["execution"][g] = decision[u]["execution"][g]
             /\ IF status[u] \in PreRun THEN status'[u] \in PreRun ELSE status'[u] = status[u]
      PROVE  /\ Settled(u)' /\ attempts'[u] = attempts[u] /\ goalOf'[u] = goalOf[u]
             /\ status[u] \in Ended => status'[u] = status[u]
  <2>1. CASE status[u] \in Ended
    BY <1>1, <1>3, <1>4, <2>1 DEF Settled
  <2>2. CASE Refused(u)
    <3>1. PICK g \in PendingGates(shape[u], "execution") :
             decision[u]["execution"][g].verdict = "denied"
      BY <2>2 DEF Refused
    <3>2. g \in Gates /\ g \in PendingGates(shape'[u], "execution")
      BY <1>4 DEF PendingGates
    <3>3. decision'[u]["execution"][g].verdict = "denied"
      BY <1>4, <3>1, <3>2
    <3>4. status'[u] \in PreRun /\ status[u] \notin Ended
      BY <1>1, <1>4, <2>2 DEF Refused
    <3>5. Refused(u)'
      BY <3>2, <3>3, <3>4 DEF Refused
    <3> QED
      BY <1>3, <1>4, <3>4, <3>5 DEF Settled
  <2> QED
    BY <1>3, <2>1, <2>2
<1>5. CASE \/ OpenEpisode
           \/ \E g \in Goals : DeclareGoal(g)
           \/ \E g \in Goals, d \in GoalDispositions : ConcludeGoal(g, d)
           \/ UNCHANGED vars
  BY <1>4, <1>5 DEF OpenEpisode, DeclareGoal, ConcludeGoal, vars
<1>6. ASSUME NEW t \in Tasks, NEW g \in Goals, NEW ds \in SUBSET Tasks, NEW s \in TaskShapes,
             NEW at \in Times, DeclareTask(t, g, ds, s, at)
      PROVE  /\ Settled(u)' /\ attempts'[u] = attempts[u] /\ goalOf'[u] = goalOf[u]
             /\ status[u] \in Ended => status'[u] = status[u]
  <2> DEFINE st == [status EXCEPT ![t] = InitialTaskStatus(ds, s)]
  <2>1. InitialTaskStatus(ds, s) \in PreRun
    BY ControlReadinessType DEF InitialTaskStatus, PreRun
  <2>2. u # t
    <3>1. "undeclared" \notin PreRun /\ "undeclared" \notin Ended
      BY DEF PreRun, Ended
    <3> QED
      BY <1>3, <1>6, <3>1 DEF DeclareTask, Declared, Refused
  <2>3. st \in [Tasks -> TaskStatuses] /\ st[u] = status[u]
    BY <1>2, <2>1, <2>2 DEF TaskStatuses
  <2>4. status' = RefreshTaskStatuses(st, deps', shape', decision, at)
    BY <1>6 DEF DeclareTask
  <2> HIDE DEF st
  <2>5. IF status[u] \in PreRun THEN status'[u] \in PreRun ELSE status'[u] = status[u]
    BY <2>3, <2>4, RefreshProperties
  <2>6. /\ active'[u] = active[u] /\ attempts'[u] = attempts[u]
        /\ goalOf'[u] = goalOf[u] /\ shape'[u] = shape[u] /\ decision' = decision
    BY <1>2, <1>6, <2>2 DEF DeclareTask
  <2> QED
    BY <1>4, <2>5, <2>6
<1>7. ASSUME NEW t \in Tasks, NEW k \in Kinds, NEW g \in Gates, NEW d \in Verdicts,
             NEW at \in Times, RecordDecision(t, k, g, d, at)
      PROVE  /\ Settled(u)' /\ attempts'[u] = attempts[u] /\ goalOf'[u] = goalOf[u]
             /\ status[u] \in Ended => status'[u] = status[u]
  <2>1. IF status[u] \in PreRun THEN status'[u] \in PreRun ELSE status'[u] = status[u]
    <3>1. CASE status' = RefreshTaskStatuses(status, deps, shape, decision', at)
      BY <1>2, <3>1, RefreshProperties
    <3>2. CASE \/ status' = status
               \/ /\ status[t] \in {"rollback_ready", "rollback_blocked"}
                  /\ \E r : status' = [status EXCEPT ![t] = RollbackStatus(r)]
      <4>1. status[u] \notin {"rollback_ready", "rollback_blocked"}
        BY <1>1, <1>3 DEF Refused, PreRun
      <4>2. status'[u] = status[u]
        BY <1>2, <3>2, <4>1
      <4> QED
        BY <4>2
    <3> QED
      BY <1>7, <3>1, <3>2 DEF RecordDecision, RefreshControlStatus
  <2>2. /\ active' = active /\ attempts' = attempts /\ goalOf' = goalOf /\ shape' = shape
        /\ decision[t][k][g].verdict = "none" /\ decision' = [decision EXCEPT ![t][k][g] = d]
    BY <1>7 DEF RecordDecision
  <2>3. \A h \in Gates : decision[u]["execution"][h].verdict # "none" =>
           decision'[u]["execution"][h] = decision[u]["execution"][h]
    BY <1>2, <2>2 DEF Kinds
  <2> QED
    BY <1>4, <2>1, <2>2, <2>3
<1>8. ASSUME NEW t \in Tasks, NEW k \in Kinds, AttemptCommand(t, k)
      PROVE  /\ Settled(u)' /\ attempts'[u] = attempts[u] /\ goalOf'[u] = goalOf[u]
             /\ status[u] \in Ended => status'[u] = status[u]
  <2>1. ASSUME t # u /\ attempts'[u] = attempts[u] /\ active'[u] = active[u]
               /\ goalOf' = goalOf /\ shape' = shape /\ decision' = decision
               /\ (IF status[u] \in PreRun THEN status'[u] \in PreRun ELSE status'[u] = status[u])
        PROVE  /\ Settled(u)' /\ attempts'[u] = attempts[u] /\ goalOf'[u] = goalOf[u]
               /\ status[u] \in Ended => status'[u] = status[u]
    BY <1>4, <2>1
  <2>2. ASSUME NEW at \in Times, PrepareAttempt(t, k, at)
        PROVE  /\ Settled(u)' /\ attempts'[u] = attempts[u] /\ goalOf'[u] = goalOf[u]
               /\ status[u] \in Ended => status'[u] = status[u]
    <3>1. TaskReadiness(t, k, at) = "ready"
      BY <2>2 DEF PrepareAttempt
    <3>2. status[t] \in PreRun \cup {"rollback_ready", "rollback_blocked"}
      BY <3>1 DEF TaskReadiness, MayAttempt
    <3>3. t # u
      BY <1>1, <1>3, <3>1, <3>2, RefusedIsNotReady
    <3>4. attempts'[u] = attempts[u] /\ active'[u] = active[u] /\ status'[u] = status[u]
      BY <1>2, <2>2, <3>3 DEF PrepareAttempt, AddAttempt, AttemptTable
    <3>5. goalOf' = goalOf /\ shape' = shape /\ decision' = decision
      BY <2>2 DEF PrepareAttempt
    <3> QED
      BY <2>1, <3>3, <3>4, <3>5
  <2>3. ASSUME NEW n \in Ordinals(t, k), attempts[t][k][n].status # "concluded"
        PROVE  u # t
    BY <1>3, <2>3, SettledIsConcluded
  <2>4. ASSUME NEW n \in Ordinals(t, k), NEW r \in ReceiptStatuses,
               \/ RecordDispatch(t, k, n)
               \/ ObserveReceipt(t, k, n, r)
               \/ ReconcileReceipt(t, k, n, r)
        PROVE  /\ Settled(u)' /\ attempts'[u] = attempts[u] /\ goalOf'[u] = goalOf[u]
               /\ status[u] \in Ended => status'[u] = status[u]
    <3>1. t # u
      BY <2>3, <2>4 DEF RecordDispatch, ObserveReceipt, ReconcileReceipt, Reconcilable
    <3>2. attempts'[u] = attempts[u] /\ active' = active /\ status'[u] = status[u]
      BY <1>2, <2>4, <3>1 DEF RecordDispatch, ObserveReceipt, ReconcileReceipt, PutAttempt, AttemptTable
    <3>3. goalOf' = goalOf /\ shape' = shape /\ decision' = decision
      BY <2>4 DEF RecordDispatch, ObserveReceipt, ReconcileReceipt
    <3> QED
      BY <2>1, <3>1, <3>2, <3>3
  <2>5. ASSUME NEW n \in Ordinals(t, k), NEW o \in Dispositions, NEW at \in Times,
               RecordOutcome(t, k, n, o, at)
        PROVE  /\ Settled(u)' /\ attempts'[u] = attempts[u] /\ goalOf'[u] = goalOf[u]
               /\ status[u] \in Ended => status'[u] = status[u]
    <3>1. t # u
      BY <2>3, <2>5 DEF RecordOutcome
    <3>2. IF status[u] \in PreRun THEN status'[u] \in PreRun ELSE status'[u] = status[u]
      BY <2>5, <3>1, OutcomeElsewhere
    <3>3. attempts'[u] = attempts[u] /\ active'[u] = active[u]
      BY <1>2, <2>5, <3>1 DEF RecordOutcome, PutAttempt, AttemptTable
    <3>4. goalOf' = goalOf /\ shape' = shape /\ decision' = decision
      BY <2>5 DEF RecordOutcome
    <3> QED
      BY <2>1, <3>1, <3>2, <3>3, <3>4
  <2> QED
    BY <1>8, <2>2, <2>4, <2>5 DEF AttemptCommand, ReceiptStatuses
<1> QED
  BY <1>5, <1>6, <1>7, <1>8 DEF Next, TaskCommand, RecordAuthority, RecordApproval, Gates

\* Only its declaration makes a task, and nothing moves it to another goal.
LEMMA UndeclaredStep ==
    ASSUME Inv, [Next]_vars, NEW u \in Tasks, status[u] = "undeclared",
           \A t \in Tasks, h \in Goals, ds \in SUBSET Tasks, s \in TaskShapes, at \in Times :
              DeclareTask(t, h, ds, s, at) => t # u
    PROVE  status'[u] = "undeclared"
<1>1. status \in [Tasks -> TaskStatuses] /\ "undeclared" \notin PreRun
  BY DEF Inv, TypeOK, PreRun
<1>2. \A k \in Kinds : Ordinals(u, k) = {}
  BY DEF Inv, StatusMatchesAttempt, ConsistentTask, NotAttempted, Executing, Succeeded,
     NotCompensated, Compensating, Compensated, UnderWay, Ordinals, Kinds
<1>3. ASSUME NEW t \in Tasks, NEW g \in Goals, NEW ds \in SUBSET Tasks, NEW s \in TaskShapes,
             NEW at \in Times, DeclareTask(t, g, ds, s, at)
      PROVE  status'[u] = "undeclared"
  <2> DEFINE st == [status EXCEPT ![t] = InitialTaskStatus(ds, s)]
  <2>1. InitialTaskStatus(ds, s) \in PreRun
    BY ControlReadinessType DEF InitialTaskStatus, PreRun
  <2>2. st \in [Tasks -> TaskStatuses] /\ st[u] = status[u]
    BY <1>1, <1>3, <2>1 DEF TaskStatuses
  <2>3. status' = RefreshTaskStatuses(st, deps', shape', decision, at)
    BY <1>3 DEF DeclareTask
  <2> HIDE DEF st
  <2> QED
    BY <1>1, <2>2, <2>3, RefreshProperties
<1>4. ASSUME NEW t \in Tasks, NEW k \in Kinds, NEW g \in Gates, NEW d \in Verdicts,
             NEW at \in Times, RecordDecision(t, k, g, d, at)
      PROVE  status'[u] = "undeclared"
  <2>1. CASE status' = RefreshTaskStatuses(status, deps, shape, decision', at)
    BY <1>1, <2>1, RefreshProperties
  <2>2. CASE \/ status' = status
             \/ \E r : status' = [status EXCEPT ![t] = RollbackStatus(r)]
    BY <1>1, <1>4, <2>2 DEF RecordDecision, Declared
  <2> QED
    BY <1>4, <2>1, <2>2 DEF RecordDecision, RefreshControlStatus
<1>5. ASSUME NEW t \in Tasks, NEW k \in Kinds, AttemptCommand(t, k)
      PROVE  status'[u] = "undeclared"
  <2>1. ASSUME NEW at \in Times, PrepareAttempt(t, k, at) PROVE status'[u] = "undeclared"
    BY <1>1, <2>1 DEF PrepareAttempt, Declared
  <2>2. ASSUME NEW n \in Ordinals(t, k), NEW r \in ReceiptStatuses,
               \/ RecordDispatch(t, k, n)
               \/ ObserveReceipt(t, k, n, r)
               \/ ReconcileReceipt(t, k, n, r)
        PROVE  status'[u] = "undeclared"
    BY <1>1, <1>2, <2>2 DEF RecordDispatch, ObserveReceipt, ReconcileReceipt
  <2>3. ASSUME NEW n \in Ordinals(t, k), NEW o \in Dispositions, NEW at \in Times,
               RecordOutcome(t, k, n, o, at)
        PROVE  status'[u] = "undeclared"
    <3>1. t # u
      BY <1>2
    <3> QED
      BY <1>1, <2>3, <3>1, OutcomeElsewhere
  <2> QED
    BY <1>5, <2>1, <2>2, <2>3 DEF AttemptCommand, ReceiptStatuses
<1>6. CASE \/ OpenEpisode
           \/ \E g \in Goals : DeclareGoal(g)
           \/ \E g \in Goals, d \in GoalDispositions : ConcludeGoal(g, d)
           \/ UNCHANGED vars
  BY <1>6 DEF OpenEpisode, DeclareGoal, ConcludeGoal, vars
<1> QED
  BY <1>3, <1>4, <1>5, <1>6 DEF Next, TaskCommand, RecordAuthority, RecordApproval, Gates

LEMMA GoalOfStep ==
    ASSUME Inv, [Next]_vars, NEW u \in Tasks,
           \A t \in Tasks, h \in Goals, ds \in SUBSET Tasks, s \in TaskShapes, at \in Times :
              DeclareTask(t, h, ds, s, at) => t # u
    PROVE  goalOf'[u] = goalOf[u]
<1>1. ASSUME NEW t \in Tasks, NEW g \in Goals, NEW ds \in SUBSET Tasks, NEW s \in TaskShapes,
             NEW at \in Times, DeclareTask(t, g, ds, s, at)
      PROVE  goalOf'[u] = goalOf[u]
  BY <1>1 DEF DeclareTask, Inv, TypeOK
<1>2. ASSUME NEW t \in Tasks, NEW k \in Kinds, NEW g \in Gates, NEW d \in Verdicts,
             NEW at \in Times, RecordDecision(t, k, g, d, at)
      PROVE  goalOf' = goalOf
  BY <1>2 DEF RecordDecision
<1>3. ASSUME NEW t \in Tasks, NEW k \in Kinds, AttemptCommand(t, k)
      PROVE  goalOf' = goalOf
  BY <1>3 DEF AttemptCommand, PrepareAttempt, RecordDispatch, ObserveReceipt,
     ReconcileReceipt, RecordOutcome
<1>4. CASE \/ OpenEpisode
           \/ \E g \in Goals : DeclareGoal(g)
           \/ \E g \in Goals, d \in GoalDispositions : ConcludeGoal(g, d)
           \/ UNCHANGED vars
  BY <1>4 DEF OpenEpisode, DeclareGoal, ConcludeGoal, vars
<1> QED
  BY <1>1, <1>2, <1>3, <1>4 DEF Next, TaskCommand, RecordAuthority, RecordApproval, Gates

\* Every status "denied" has its reason.
Denials == \A t \in Tasks : status[t] \in Denied => Refused(t)

LEMMA DenialsStep ==
    ASSUME Inv, Denials, [Next]_vars
    PROVE  Denials'
<1> SUFFICES ASSUME NEW u \in Tasks, status'[u] \in Denied PROVE Refused(u)'
  BY DEF Denials
<1>1. /\ Denied \subseteq PreRun /\ Denied \cap Ended = {}
      /\ \A r : RollbackStatus(r) \notin Denied
      /\ Denied \cap {"prepared", "in_flight", "rollback_ready", "rolling_back", "awaiting_outcome"} = {}
  BY RollbackStatusType DEF Denied, PreRun, Ended
<1>2. CASE status[u] \in Denied
  <2>1. Settled(u)
    BY <1>1, <1>2, NotUnderWay DEF Denials, Settled
  <2> QED
    BY <1>1, <2>1, SettledStep DEF Settled
<1>3. CASE status[u] \notin Denied
  <2>1. status \in [Tasks -> TaskStatuses]
    BY DEF Inv, TypeOK
  <2>2. ASSUME NEW st, NEW at,
               status' = RefreshTaskStatuses(st, deps', shape', decision', at)
        PROVE  Refused(u)'
    BY <1>1, <2>2, DeniedByRefresh DEF Refused
  <2>3. status' # status
    BY <1>3
  <2>4. ASSUME NEW t \in Tasks, NEW k \in Kinds, NEW g \in Gates, NEW d \in Verdicts,
               NEW at \in Times, RecordDecision(t, k, g, d, at)
        PROVE  Refused(u)'
    <3>1. deps' = deps /\ shape' = shape
      BY <2>4 DEF RecordDecision
    <3>2. CASE status' = RefreshTaskStatuses(status, deps, shape, decision', at)
      BY <2>2, <3>1, <3>2
    <3>3. CASE \E r : status' = [status EXCEPT ![t] = RollbackStatus(r)]
      BY <1>1, <1>3, <2>1, <3>3
    <3> QED
      BY <2>3, <2>4, <3>2, <3>3 DEF RecordDecision, RefreshControlStatus
  <2>5. ASSUME NEW t \in Tasks, NEW s, s \notin Denied, status' = [status EXCEPT ![t] = s]
        PROVE  FALSE
    BY <1>3, <2>1, <2>5
  <2>6. ASSUME NEW t \in Tasks, NEW k \in Kinds, AttemptCommand(t, k)
        PROVE  Refused(u)'
    <3>1. ASSUME NEW n \in Ordinals(t, k), NEW o \in Dispositions, NEW at \in Times,
                 RecordOutcome(t, k, n, o, at)
          PROVE  Refused(u)'
      BY <2>2, <3>1 DEF RecordOutcome
    <3>2. ASSUME NEW at \in Times, PrepareAttempt(t, k, at)
          PROVE  FALSE
      BY <1>1, <2>5, <3>2 DEF PrepareAttempt
    <3>3. ASSUME NEW n \in Ordinals(t, k), NEW r \in ReceiptStatuses,
                 \/ RecordDispatch(t, k, n)
                 \/ ObserveReceipt(t, k, n, r)
                 \/ ReconcileReceipt(t, k, n, r)
          PROVE  FALSE
      BY <1>1, <2>3, <2>5, <3>3 DEF RecordDispatch, ObserveReceipt, ReconcileReceipt
    <3> QED
      BY <2>6, <3>1, <3>2, <3>3 DEF AttemptCommand, ReceiptStatuses
  <2>7. ASSUME NEW t \in Tasks, NEW g \in Goals, NEW ds \in SUBSET Tasks, NEW s \in TaskShapes,
               NEW at \in Times, DeclareTask(t, g, ds, s, at)
        PROVE  Refused(u)'
    <3>1. decision' = decision
      BY <2>7 DEF DeclareTask
    <3> QED
      BY <2>2, <2>7, <3>1 DEF DeclareTask
  <2>8. CASE \/ OpenEpisode
             \/ \E g \in Goals : DeclareGoal(g)
             \/ \E g \in Goals, d \in GoalDispositions : ConcludeGoal(g, d)
             \/ UNCHANGED vars
    BY <2>3, <2>8 DEF OpenEpisode, DeclareGoal, ConcludeGoal, vars
  <2> QED
    BY <2>4, <2>6, <2>7, <2>8 DEF Next, TaskCommand, RecordAuthority, RecordApproval, Gates
<1> QED
  BY <1>2, <1>3

\* A terminal status means a settled task.
LEMMA TerminalIsSettled ==
    ASSUME Inv, Denials, NEW t \in Tasks, IsTerminalTask(status[t])
    PROVE  Settled(t)
<1>1. status[t] # "cancelled"
  BY DEF Inv, StatusMatchesAttempt, ConsistentTask, NotAttempted, Executing, Succeeded,
     NotCompensated, Compensating, Compensated, UnderWay, PreRun
<1>2. status[t] \in Ended \cup Denied
  BY <1>1 DEF IsTerminalTask, Ended, Denied
<1>3. active[t] = NoAttempt
  BY <1>2, NotUnderWay DEF Denied, PreRun
<1> QED
  BY <1>2, <1>3 DEF Settled, Denials

\* Concluded goals: their tasks are settled, and have succeeded if satisfied.
Quiet ==
    /\ \A g \in Goals : goalStatus[g] \in GoalDispositions =>
          \A t \in GoalTasks(g) :
             Settled(t) /\ (goalStatus[g] = "satisfied" => status[t] = "succeeded")
    /\ episode = "closed" => \A g \in Goals : goalStatus[g] # "active"

\* A goal that is concluded stays so, and gets no task any more.
LEMMA ConcludedStep ==
    ASSUME Inv, [Next]_vars, NEW g \in Goals
    PROVE  /\ goalStatus[g] \in GoalDispositions => goalStatus'[g] = goalStatus[g]
           /\ goalStatus'[g] \in GoalDispositions /\ goalStatus[g] \notin GoalDispositions =>
                 /\ \E d \in GoalDispositions : ConcludeGoal(g, d)
                 /\ GoalTasks(g)' = GoalTasks(g)
           /\ goalStatus[g] \in GoalDispositions => GoalTasks(g)' \subseteq GoalTasks(g)
<1>1. "active" \notin GoalDispositions /\ "undeclared" \notin GoalDispositions
  BY DEF GoalDispositions
<1>2. goalStatus \in [Goals -> {"undeclared", "active"} \cup GoalDispositions]
  BY DEF Inv, TypeOK
<1>3. CASE \E h \in Goals : DeclareGoal(h)
  <2>1. PICK h \in Goals : DeclareGoal(h)
    BY <1>3
  <2>2. GoalTasks(g)' = GoalTasks(g)
    BY <2>1 DEF DeclareGoal, GoalTasks, Declared
  <2> QED
    BY <1>1, <1>2, <2>1, <2>2 DEF DeclareGoal
<1>4. CASE \E h \in Goals, d \in GoalDispositions : ConcludeGoal(h, d)
  <2>1. PICK h \in Goals, d \in GoalDispositions : ConcludeGoal(h, d)
    BY <1>4
  <2>2. GoalTasks(g)' = GoalTasks(g)
    BY <2>1 DEF ConcludeGoal, GoalTasks, Declared
  <2>3. goalStatus[h] = "active" /\ goalStatus' = [goalStatus EXCEPT ![h] = d]
    BY <2>1 DEF ConcludeGoal
  <2>4. CASE h = g
    BY <1>1, <1>2, <2>1, <2>2, <2>3, <2>4
  <2>5. CASE h # g
    BY <1>2, <2>2, <2>3, <2>5
  <2> QED
    BY <2>4, <2>5
<1>5. ASSUME goalStatus' = goalStatus, goalStatus[g] \in GoalDispositions
      PROVE  GoalTasks(g)' \subseteq GoalTasks(g)
  <2> SUFFICES ASSUME NEW u \in Tasks, status'[u] # "undeclared", goalOf'[u] = g
               PROVE  status[u] # "undeclared" /\ goalOf[u] = g
    BY DEF GoalTasks, Declared
  <2>1. \A t \in Tasks, h \in Goals, ds \in SUBSET Tasks, s \in TaskShapes, at \in Times :
           DeclareTask(t, h, ds, s, at) => t # u
    BY <1>1, <1>5 DEF DeclareTask, Inv, TypeOK
  <2>2. CASE status[u] = "undeclared"
    <3>1. status'[u] = "undeclared"
      BY <2>1, <2>2, UndeclaredStep
    <3> QED
      BY <3>1
  <2>3. CASE status[u] # "undeclared"
    <3>1. goalOf'[u] = goalOf[u]
      BY <2>1, GoalOfStep
    <3> QED
      BY <2>3, <3>1
  <2> QED
    BY <2>2, <2>3
<1>6. CASE ~(\E h \in Goals : DeclareGoal(h)) /\ ~(\E h \in Goals, d \in GoalDispositions : ConcludeGoal(h, d))
  <2>1. goalStatus' = goalStatus
    <3>1. ASSUME NEW t \in Tasks, TaskCommand(t) PROVE goalStatus' = goalStatus
      BY <3>1 DEF TaskCommand, DeclareTask, RecordAuthority, RecordApproval, RecordDecision
    <3>2. ASSUME NEW t \in Tasks, NEW k \in Kinds, AttemptCommand(t, k) PROVE goalStatus' = goalStatus
      BY <3>2 DEF AttemptCommand, PrepareAttempt, RecordDispatch, ObserveReceipt,
         ReconcileReceipt, RecordOutcome
    <3>3. OpenEpisode \/ UNCHANGED vars => goalStatus' = goalStatus
      BY DEF OpenEpisode, vars
    <3> QED
      BY <1>6, <3>1, <3>2, <3>3 DEF Next
  <2> QED
    BY <1>5, <2>1
<1> QED
  BY <1>3, <1>4, <1>6

\* Nothing happens in a closed episode.
LEMMA ClosedIsStill ==
    ASSUME Next
    PROVE  episode # "closed"
<1>1. ASSUME NEW t \in Tasks, TaskCommand(t) PROVE IsOpen
  BY <1>1 DEF TaskCommand, DeclareTask, RecordAuthority, RecordApproval, RecordDecision
<1>2. ASSUME NEW t \in Tasks, NEW k \in Kinds, AttemptCommand(t, k) PROVE IsOpen
  BY <1>2 DEF AttemptCommand, PrepareAttempt, RecordDispatch, ObserveReceipt,
     ReconcileReceipt, RecordOutcome
<1> QED
  BY <1>1, <1>2 DEF Next, OpenEpisode, DeclareGoal, ConcludeGoal, IsOpen

LEMMA QuietStep ==
    ASSUME Inv, Denials, Quiet, [Next]_vars
    PROVE  Quiet'
<1>1. ASSUME NEW g \in Goals, goalStatus'[g] \in GoalDispositions, NEW t \in GoalTasks(g)'
      PROVE  Settled(t)' /\ (goalStatus'[g] = "satisfied" => status'[t] = "succeeded")
  <2>1. t \in Tasks
    BY DEF GoalTasks
  <2>2. CASE goalStatus[g] \in GoalDispositions
    <3>1. t \in GoalTasks(g) /\ goalStatus'[g] = goalStatus[g]
      BY <2>2, ConcludedStep
    <3>2. Settled(t) /\ (goalStatus[g] = "satisfied" => status[t] = "succeeded")
      BY <2>2, <3>1 DEF Quiet
    <3> QED
      BY <2>1, <3>1, <3>2, SettledStep, SuccessIsFinal
  <2>3. CASE goalStatus[g] \notin GoalDispositions
    <3>1. t \in GoalTasks(g)
      BY <1>1, <2>3, ConcludedStep
    <3>2. PICK d \in GoalDispositions : ConcludeGoal(g, d)
      BY <1>1, <2>3, ConcludedStep
    <3>3. Settled(t)
      BY <2>1, <3>1, <3>2, TerminalIsSettled DEF ConcludeGoal
    <3>4. goalStatus'[g] = d
      BY <3>2 DEF ConcludeGoal, Inv, TypeOK
    <3>5. goalStatus'[g] = "satisfied" => status[t] = "succeeded"
      BY <3>1, <3>2, <3>4 DEF ConcludeGoal
    <3> QED
      BY <2>1, <3>3, <3>5, SettledStep, SuccessIsFinal
  <2> QED
    BY <2>2, <2>3
<1>2. ASSUME episode' = "closed", NEW g \in Goals PROVE goalStatus'[g] # "active"
  <2>1. CASE episode = "closed"
    <3>1. UNCHANGED vars
      BY <2>1, ClosedIsStill
    <3> QED
      BY <2>1, <3>1 DEF vars, Quiet
  <2>2. CASE episode # "closed"
    <3>1. PICK h \in Goals, d \in GoalDispositions : ConcludeGoal(h, d)
      <4>1. ASSUME NEW t \in Tasks, TaskCommand(t) PROVE episode' = episode
        BY <4>1 DEF TaskCommand, DeclareTask, RecordAuthority, RecordApproval, RecordDecision
      <4>2. ASSUME NEW t \in Tasks, NEW k \in Kinds, AttemptCommand(t, k) PROVE episode' = episode
        BY <4>2 DEF AttemptCommand, PrepareAttempt, RecordDispatch, ObserveReceipt,
           ReconcileReceipt, RecordOutcome
      <4>3. UNCHANGED vars => episode' = episode
        BY DEF vars
      <4>4. OpenEpisode => episode' # "closed"
        BY DEF OpenEpisode
      <4>5. \A h \in Goals : DeclareGoal(h) => episode' = episode
        BY DEF DeclareGoal
      <4> QED
        BY <1>2, <2>2, <4>1, <4>2, <4>3, <4>4, <4>5 DEF Next
    <3>2. \A i \in Goals : i = h \/ goalStatus[i] # "active"
      BY <1>2, <3>1 DEF ConcludeGoal
    <3>3. goalStatus' = [goalStatus EXCEPT ![h] = d] /\ d # "active"
      BY <3>1 DEF ConcludeGoal, GoalDispositions
    <3> QED
      BY <3>2, <3>3 DEF Inv, TypeOK
  <2> QED
    BY <2>1, <2>2
<1> QED
  BY <1>1, <1>2 DEF Quiet

LEMMA Quietness == Spec => [](Denials /\ Quiet)
<1>1. Init => Denials /\ Quiet
  BY DEF Init, Denials, Denied, Quiet, GoalDispositions, GoalTasks
<1>2. Inv /\ Denials /\ Quiet /\ [Next]_vars => Denials' /\ Quiet'
  BY DenialsStep, QuietStep
<1> QED
  BY <1>1, <1>2, Invariant, PTL DEF Spec

\* A concluded goal has no work under way, a satisfied one's tasks have all
\* succeeded, and the episode is closed only when no goal is active.
THEOREM GoalsAreQuiet == Spec => []ConcludedGoalsAreQuiet
<1>1. Quiet => ConcludedGoalsAreQuiet
  BY DEF Quiet, Settled, ConcludedGoalsAreQuiet, GoalDispositions
<1> QED
  BY <1>1, Quietness, PTL

\* Once its goal is concluded nothing is attempted for a task any more,
\* although its status is still recomputed (refreshTaskStatuses).
THEOREM WorkEnds == Spec => NoWorkAfterConclusion
<1>1. Inv /\ Quiet /\ [Next]_vars =>
        [\A g \in Goals : goalStatus[g] \in GoalDispositions =>
            \A t \in GoalTasks(g) : attempts'[t] = attempts[t]]_vars
  BY SettledStep DEF Quiet, GoalTasks
<1> QED
  BY <1>1, Quietness, Invariant, PTL DEF Spec, NoWorkAfterConclusion

\* What has ended stays as it ended: tasks, goals and the episode.
THEOREM EndsAreFinal == Spec => FinalStates
<1>1. Inv /\ [Next]_vars =>
        [/\ \A t \in Tasks :
              status[t] \in {"succeeded", "failed", "rolled_back", "rollback_failed"}
                => status'[t] = status[t]
         /\ \A g \in Goals : goalStatus[g] \in GoalDispositions
                => goalStatus'[g] = goalStatus[g]
         /\ episode # "closed"]_vars
  <2> SUFFICES ASSUME Inv, Next
               PROVE  /\ \A t \in Tasks : status[t] \in Ended => status'[t] = status[t]
                      /\ \A g \in Goals : goalStatus[g] \in GoalDispositions
                            => goalStatus'[g] = goalStatus[g]
                      /\ episode # "closed"
    BY DEF Ended
  <2>1. \A t \in Tasks : status[t] \in Ended => Settled(t)
    BY NotUnderWay DEF Settled
  <2> QED
    BY <2>1, SettledStep, ConcludedStep, ClosedIsStill
<1> QED
  BY <1>1, Invariant, PTL DEF Spec, FinalStates

(***************************************************************************)
(* Outcome learning.                                                       *)
(***************************************************************************)
Lesson(t, k, n) == [task |-> t, kind |-> k, ordinal |-> n,
                    outcome |-> attempts[t][k][n].outcome,
                    receipt |-> attempts[t][k][n].receipt]

Concluded(t, k, n) == n \in Ordinals(t, k) /\ attempts[t][k][n].status = "concluded"

Lessons == \A r : r \in learning <=>
              \E t \in Tasks, k \in Kinds : \E n \in Ordinals(t, k) :
                 Concluded(t, k, n) /\ r = Lesson(t, k, n)

LEMMA LessonsMatch == Lessons <=> LearningMatchesAttempts
<1> DEFINE S(t, k) == {[task |-> t, kind |-> k, ordinal |-> n,
                        outcome |-> attempts[t][k][n].outcome,
                        receipt |-> attempts[t][k][n].receipt] :
                          n \in {m \in Ordinals(t, k) :
                                   attempts[t][k][m].status = "concluded"}}
<1>1. LearningMatchesAttempts <=> learning = UNION {S(t, k) : t \in Tasks, k \in Kinds}
  BY DEF LearningMatchesAttempts
<1>2. ASSUME NEW r, NEW t \in Tasks, NEW k \in Kinds
      PROVE  r \in S(t, k) <=> \E n \in Ordinals(t, k) : Concluded(t, k, n) /\ r = Lesson(t, k, n)
  BY DEF Concluded, Lesson
<1> HIDE DEF S
<1>3. \A r : r \in UNION {S(t, k) : t \in Tasks, k \in Kinds}
                <=> \E t \in Tasks, k \in Kinds : r \in S(t, k)
  OBVIOUS
<1> DEFINE all == UNION {S(t, k) : t \in Tasks, k \in Kinds}
<1>4. ASSUME NEW r
      PROVE  r \in all <=> \E t \in Tasks, k \in Kinds : \E n \in Ordinals(t, k) :
                              Concluded(t, k, n) /\ r = Lesson(t, k, n)
  <2>1. r \in all <=> \E t \in Tasks, k \in Kinds : r \in S(t, k)
    BY <1>3
  <2> HIDE DEF all
  <2>2. \A t \in Tasks, k \in Kinds : r \in S(t, k) <=>
           \E n \in Ordinals(t, k) : Concluded(t, k, n) /\ r = Lesson(t, k, n)
    BY <1>2
  <2> QED
    BY <2>1, <2>2
<1> HIDE DEF all
<1>5. Lessons <=> \A r : r \in learning <=> r \in all
  BY <1>4 DEF Lessons
<1> QED
  BY <1>1, <1>5 DEF all

\* While nothing is concluded or changed that was, nothing is learned.
LEMMA SameLessons ==
    ASSUME Lessons, learning' = learning,
           \A t \in Tasks, k \in Kinds :
              /\ \A n \in Ordinals(t, k) : Concluded(t, k, n) =>
                    n \in Ordinals(t, k)' /\ attempts'[t][k][n] = attempts[t][k][n]
              /\ \A n \in Ordinals(t, k)' : Concluded(t, k, n)' =>
                    n \in Ordinals(t, k) /\ attempts'[t][k][n] = attempts[t][k][n]
    PROVE  Lessons'
<1> SUFFICES ASSUME NEW r
             PROVE  r \in learning <=>
                       \E t \in Tasks, k \in Kinds : \E n \in Ordinals(t, k)' :
                          Concluded(t, k, n)' /\ r = Lesson(t, k, n)'
  BY DEF Lessons
<1>1. ASSUME r \in learning
      PROVE  \E t \in Tasks, k \in Kinds : \E n \in Ordinals(t, k)' :
                Concluded(t, k, n)' /\ r = Lesson(t, k, n)'
  <2>1. PICK t \in Tasks, k \in Kinds : \E n \in Ordinals(t, k) :
            Concluded(t, k, n) /\ r = Lesson(t, k, n)
    BY <1>1 DEF Lessons
  <2>2. PICK n \in Ordinals(t, k) : Concluded(t, k, n) /\ r = Lesson(t, k, n)
    BY <2>1
  <2>3. n \in Ordinals(t, k)' /\ attempts'[t][k][n] = attempts[t][k][n]
    BY <2>2
  <2> QED
    BY <2>2, <2>3 DEF Concluded, Lesson
<1>2. ASSUME NEW t \in Tasks, NEW k \in Kinds, NEW n \in Ordinals(t, k)',
             Concluded(t, k, n)', r = Lesson(t, k, n)'
      PROVE  r \in learning
  <2>1. n \in Ordinals(t, k) /\ attempts'[t][k][n] = attempts[t][k][n]
    BY <1>2
  <2> QED
    BY <1>2, <2>1 DEF Concluded, Lesson, Lessons
<1> QED
  BY <1>1, <1>2

\* An attempt that is replaced before it is concluded.
LEMMA UpdateLessons ==
    ASSUME Inv, Lessons, NEW t \in Tasks, NEW k \in Kinds, NEW n \in Ordinals(t, k),
           attempts[t][k][n].status # "concluded",
           NEW STATE e, e \in Attempt, attempts' = PutAttempt(t, k, n, e),
           \/ e.status # "concluded" /\ learning' = learning
           \/ /\ e.status = "concluded"
              /\ learning' = learning \cup
                    {[task |-> t, kind |-> k, ordinal |-> n, outcome |-> e.outcome, receipt |-> e.receipt]}
    PROVE  Lessons'
<1>1. /\ \A u \in Tasks : u # t => attempts'[u] = attempts[u]
      /\ \A j \in Kinds : j # k => attempts'[t][j] = attempts[t][j]
      /\ Len(attempts'[t][k]) = Len(attempts[t][k])
      /\ attempts'[t][k][n] = e
      /\ \A m \in Ordinals(t, k) : m # n => attempts'[t][k][m] = attempts[t][k][m]
  BY UpdateAttempt DEF Inv, TypeOK, AttemptTable
<1>2. \A u \in Tasks, j \in Kinds : Ordinals(u, j)' = Ordinals(u, j)
  BY <1>1 DEF Ordinals
<1>3. \A u \in Tasks, j \in Kinds, m \in Nat :
         m \in Ordinals(u, j) /\ <<u, j, m>> # <<t, k, n>> =>
            attempts'[u][j][m] = attempts[u][j][m]
  BY <1>1
<1>4. \A u \in Tasks, j \in Kinds : Ordinals(u, j) \subseteq Nat
  BY DEF Ordinals
<1>5. CASE e.status # "concluded" /\ learning' = learning
  <2>1. ASSUME NEW u \in Tasks, NEW j \in Kinds, NEW m \in Ordinals(u, j),
               Concluded(u, j, m) \/ Concluded(u, j, m)'
        PROVE  attempts'[u][j][m] = attempts[u][j][m]
    BY <1>1, <1>3, <1>4, <1>5, <2>1 DEF Concluded
  <2> QED
    BY <1>2, <1>5, <2>1, SameLessons
<1>6. CASE /\ e.status = "concluded"
           /\ learning' = learning \cup
                 {[task |-> t, kind |-> k, ordinal |-> n, outcome |-> e.outcome, receipt |-> e.receipt]}
  <2> SUFFICES ASSUME NEW r
               PROVE  r \in learning' <=>
                         \E u \in Tasks, j \in Kinds : \E m \in Ordinals(u, j)' :
                            Concluded(u, j, m)' /\ r = Lesson(u, j, m)'
    BY DEF Lessons
  <2>1. Concluded(t, k, n)' /\ n \in Ordinals(t, k)'
    BY <1>1, <1>2, <1>6 DEF Concluded
  <2>2. Lesson(t, k, n)' = [task |-> t, kind |-> k, ordinal |-> n, outcome |-> e.outcome, receipt |-> e.receipt]
    BY <1>1 DEF Lesson
  <2>3. ASSUME r \in learning
        PROVE  \E u \in Tasks, j \in Kinds : \E m \in Ordinals(u, j)' :
                  Concluded(u, j, m)' /\ r = Lesson(u, j, m)'
    <3>1. PICK u \in Tasks, j \in Kinds : \E m \in Ordinals(u, j) :
              Concluded(u, j, m) /\ r = Lesson(u, j, m)
      BY <2>3 DEF Lessons
    <3>2. PICK m \in Ordinals(u, j) : Concluded(u, j, m) /\ r = Lesson(u, j, m)
      BY <3>1
    <3>3. <<u, j, m>> # <<t, k, n>>
      BY <3>2 DEF Concluded
    <3>4. attempts'[u][j][m] = attempts[u][j][m]
      BY <1>3, <1>4, <3>3
    <3> QED
      BY <1>2, <3>2, <3>4 DEF Concluded, Lesson
  <2>4. ASSUME NEW u \in Tasks, NEW j \in Kinds, NEW m \in Ordinals(u, j)',
               Concluded(u, j, m)', r = Lesson(u, j, m)'
        PROVE  r \in learning'
    <3>1. CASE <<u, j, m>> = <<t, k, n>>
      BY <1>6, <2>2, <2>4, <3>1
    <3>2. CASE <<u, j, m>> # <<t, k, n>>
      <4>1. m \in Ordinals(u, j) /\ attempts'[u][j][m] = attempts[u][j][m]
        BY <1>2, <1>3, <1>4, <3>2
      <4>2. r \in learning
        BY <2>4, <4>1 DEF Lessons, Concluded, Lesson
      <4> QED
        BY <1>6, <4>2
    <3> QED
      BY <3>1, <3>2
  <2>5. r \in learning' => r \in learning \/ r = Lesson(t, k, n)'
    BY <1>6, <2>2
  <2>6. r = Lesson(t, k, n)' =>
           \E u \in Tasks, j \in Kinds : \E m \in Ordinals(u, j)' :
              Concluded(u, j, m)' /\ r = Lesson(u, j, m)'
    BY <2>1
  <2> QED
    BY <2>3, <2>4, <2>5, <2>6
<1> QED
  BY <1>5, <1>6

LEMMA LessonsStep ==
    ASSUME Inv, Lessons, [Next]_vars
    PROVE  Lessons'
<1>1. ASSUME attempts' = attempts, learning' = learning PROVE Lessons'
  BY <1>1, SameLessons DEF Ordinals, Concluded
<1>2. ASSUME NEW t \in Tasks, TaskCommand(t) PROVE Lessons'
  BY <1>1, <1>2 DEF TaskCommand, DeclareTask, RecordAuthority, RecordApproval, RecordDecision
<1>3. ASSUME NEW t \in Tasks, NEW k \in Kinds, NEW at \in Times, PrepareAttempt(t, k, at)
      PROVE  Lessons'
  <2> DEFINE e == [status |-> "prepared", preparedAt |-> at, receipt |-> "none", outcome |-> "none"]
  <2>1. e \in Attempt
    BY DEF Attempt
  <2>2. Len(attempts[t][k]) = 0
    BY <1>3, PreparedFresh
  <2>3. attempts' = AddAttempt(t, k, e) /\ learning' = learning
    BY <1>3 DEF PrepareAttempt
  <2>4. e.status = "prepared"
    OBVIOUS
  <2> HIDE DEF e
  <2>5. /\ \A u \in Tasks : u # t => attempts'[u] = attempts[u]
        /\ \A j \in Kinds : j # k => attempts'[t][j] = attempts[t][j]
        /\ Len(attempts'[t][k]) = 1
        /\ attempts'[t][k][1] = e
    BY <2>1, <2>2, <2>3, FirstAttempt DEF Inv, TypeOK, AttemptTable
  <2>6. Ordinals(t, k) = {} /\ Ordinals(t, k)' = {1}
    BY <2>2, <2>5 DEF Ordinals
  <2>7. \A u \in Tasks, j \in Kinds : <<u, j>> # <<t, k>> => attempts'[u][j] = attempts[u][j]
    BY <2>5
  <2>8. ASSUME NEW u \in Tasks, NEW j \in Kinds
        PROVE  /\ \A n \in Ordinals(u, j) : Concluded(u, j, n) =>
                     n \in Ordinals(u, j)' /\ attempts'[u][j][n] = attempts[u][j][n]
               /\ \A n \in Ordinals(u, j)' : Concluded(u, j, n)' =>
                     n \in Ordinals(u, j) /\ attempts'[u][j][n] = attempts[u][j][n]
    <3>1. CASE <<u, j>> = <<t, k>>
      BY <2>4, <2>5, <2>6, <3>1 DEF Concluded
    <3>2. CASE <<u, j>> # <<t, k>>
      BY <2>7, <3>2 DEF Ordinals
    <3> QED
      BY <3>1, <3>2
  <2> QED
    BY <2>3, <2>8, SameLessons
<1>4. ASSUME NEW t \in Tasks, NEW k \in Kinds, NEW n \in Ordinals(t, k), RecordDispatch(t, k, n)
      PROVE  Lessons'
  <2>1. PICK e : e = [attempts[t][k][n] EXCEPT !.status = "in_flight"]
    OBVIOUS
  <2>2. attempts[t][k][n] \in Attempt
    BY TaskTypes, ElementOfSeq DEF Inv, Ordinals
  <2>3. e \in Attempt /\ e.status # "concluded"
    BY <2>1, <2>2 DEF Attempt
  <2> QED
    BY <1>4, <2>1, <2>3, UpdateLessons DEF RecordDispatch
<1>5. ASSUME NEW t \in Tasks, NEW k \in Kinds, NEW n \in Ordinals(t, k), NEW r \in ReceiptStatuses,
             ObserveReceipt(t, k, n, r)
      PROVE  Lessons'
  <2>1. PICK e : e = [attempts[t][k][n] EXCEPT !.status = "receipt_observed", !.receipt = r]
    OBVIOUS
  <2>2. attempts[t][k][n] \in Attempt
    BY TaskTypes, ElementOfSeq DEF Inv, Ordinals
  <2>3. e \in Attempt /\ e.status # "concluded"
    BY <2>1, <2>2 DEF Attempt
  <2> QED
    BY <1>5, <2>1, <2>3, UpdateLessons DEF ObserveReceipt
<1>6. ASSUME NEW t \in Tasks, NEW k \in Kinds, NEW n \in Ordinals(t, k), NEW r \in ReceiptStatuses,
             ReconcileReceipt(t, k, n, r)
      PROVE  Lessons'
  <2>1. PICK e : e = [attempts[t][k][n] EXCEPT !.receipt = r]
    OBVIOUS
  <2>2. attempts[t][k][n] \in Attempt /\ attempts[t][k][n].status = "receipt_observed"
    BY <1>6, TaskTypes, ElementOfSeq DEF Inv, Ordinals, ReconcileReceipt, Reconcilable
  <2>3. e \in Attempt /\ e.status # "concluded"
    BY <2>1, <2>2 DEF Attempt
  <2> QED
    BY <1>6, <2>1, <2>2, <2>3, UpdateLessons DEF ReconcileReceipt
<1>7. ASSUME NEW t \in Tasks, NEW k \in Kinds, NEW n \in Ordinals(t, k), NEW o \in Dispositions,
             NEW at \in Times, RecordOutcome(t, k, n, o, at)
      PROVE  Lessons'
  <2>1. PICK e : e = [attempts[t][k][n] EXCEPT !.status = "concluded", !.outcome = o]
    OBVIOUS
  <2>2. attempts[t][k][n] \in Attempt /\ attempts[t][k][n].status = "receipt_observed"
    BY <1>7, TaskTypes, ElementOfSeq DEF Inv, Ordinals, RecordOutcome
  <2>3. /\ e \in Attempt /\ e.status = "concluded" /\ e.outcome = o
        /\ e.receipt = attempts[t][k][n].receipt
    BY <2>1, <2>2 DEF Attempt
  <2>4. learning' = learning \cup
           {[task |-> t, kind |-> k, ordinal |-> n, outcome |-> e.outcome, receipt |-> e.receipt]}
    BY <1>7, <2>3 DEF RecordOutcome
  <2> QED
    BY <1>7, <2>1, <2>2, <2>3, <2>4, UpdateLessons DEF RecordOutcome
<1>8. CASE \/ OpenEpisode
           \/ \E g \in Goals : DeclareGoal(g)
           \/ \E g \in Goals, d \in GoalDispositions : ConcludeGoal(g, d)
           \/ UNCHANGED vars
  BY <1>1, <1>8 DEF OpenEpisode, DeclareGoal, ConcludeGoal, vars
<1> QED
  BY <1>2, <1>3, <1>4, <1>5, <1>6, <1>7, <1>8 DEF Next, AttemptCommand

\* What was learned is what the attempts finally say: one record for each
\* concluded attempt, with the outcome and the receipt it has
\* (record_outcome, reconcile_receipt).
THEOREM Learning == Spec => []LearningMatchesAttempts
<1>1. Init => Lessons
  BY DEF Init, Lessons, Ordinals
<1>2. Inv /\ Lessons /\ [Next]_vars => Lessons'
  BY LessonsStep
<1> QED
  BY <1>1, <1>2, LessonsMatch, Invariant, PTL DEF Spec

(***************************************************************************)
(* The saga.  Read from the attempts, a task moves through the phases of   *)
(* TaskSaga: every command moves one task by one phase, or none.           *)
(***************************************************************************)
DeclaredTasks == {t \in Tasks : status[t] # "undeclared"}
Phases == [t \in Tasks |-> PhaseOf(t)]

\* Which phase a task's attempts show.
PhaseShown(ex, rb) ==
    IF ex = <<>> THEN "idle"
    ELSE IF ex[1].status # "concluded" THEN "executing"
    ELSE IF ex[1].outcome = "accepted" THEN "done"
    ELSE IF rb = <<>> THEN "failed"
    ELSE IF rb[1].status # "concluded" THEN "compensating"
    ELSE IF rb[1].outcome = "accepted" THEN "compensated" ELSE "uncompensated"

\* No task has a second attempt, or a compensation of what has not failed.
LEMMA PhaseNow ==
    ASSUME Inv, NEW t \in Tasks
    PROVE  PhaseOf(t) = PhaseShown(attempts[t]["execution"], attempts[t]["rollback"])
<1> DEFINE ex == attempts[t]["execution"]
           rb == attempts[t]["rollback"]
<1>1. Len(ex) <= 1 /\ Len(rb) <= 1
  BY AtMostOne DEF AtMostOneAttempt, Kinds
<1>2. Len(ex) \in Nat /\ Len(rb) \in Nat
  BY DEF Inv, TypeOK, AttemptTable, Kinds
<1>3. rb # <<>> => ex # <<>> /\ ex[1].status = "concluded" /\ ex[1].outcome # "accepted"
  <2>1. rb # <<>> => ex # <<>> /\ \A n \in 1 .. Len(ex) : /\ ex[n].status = "concluded"
                                                         /\ ex[n].outcome # "accepted"
    BY RollbackAfter DEF RollbackFollowsFailure, Ordinals
  <2>2. ex # <<>> => 1 \in 1 .. Len(ex)
    BY DEF Inv, TypeOK, AttemptTable, Kinds
  <2> QED
    BY <2>1, <2>2
<1>4. ~(Len(ex) > 1 \/ Len(rb) > 1)
  BY <1>1, <1>2
<1> QED
  BY <1>3, <1>4 DEF PhaseOf, PhaseShown

LEMMA PhaseNext ==
    ASSUME Inv', NEW t \in Tasks
    PROVE  PhaseOf(t)' = PhaseShown(attempts'[t]["execution"], attempts'[t]["rollback"])
<1> DEFINE ex == attempts'[t]["execution"]
           rb == attempts'[t]["rollback"]
<1>a. (Inv => AtMostOneAttempt)' /\ (Inv => RollbackFollowsFailure)'
  BY AtMostOne, RollbackAfter, PTL
<1>1. Len(ex) <= 1 /\ Len(rb) <= 1
  BY <1>a DEF AtMostOneAttempt, Kinds
<1>2. Len(ex) \in Nat /\ Len(rb) \in Nat
  BY DEF Inv, TypeOK, AttemptTable, Kinds
<1>3. rb # <<>> => ex # <<>> /\ ex[1].status = "concluded" /\ ex[1].outcome # "accepted"
  <2>1. rb # <<>> => ex # <<>> /\ \A n \in 1 .. Len(ex) : /\ ex[n].status = "concluded"
                                                         /\ ex[n].outcome # "accepted"
    BY <1>a DEF RollbackFollowsFailure, Ordinals
  <2>2. ex # <<>> => 1 \in 1 .. Len(ex)
    BY DEF Inv, TypeOK, AttemptTable, Kinds
  <2> QED
    BY <2>1, <2>2
<1>4. ~(Len(ex) > 1 \/ Len(rb) > 1)
  BY <1>1, <1>2
<1> QED
  BY <1>3, <1>4 DEF PhaseOf, PhaseShown

\* The phases before and after a step that changes the attempts of t only.
LEMMA OnePhaseMoves ==
    ASSUME NEW t \in Tasks, \A u \in Tasks : u # t => attempts'[u] = attempts[u],
           NEW to, PhaseOf(t)' = to
    PROVE  Phases' = [Phases EXCEPT ![t] = to]
<1>1. \A u \in Tasks : u # t => PhaseOf(u)' = PhaseOf(u)
  BY DEF PhaseOf
<1> QED
  BY <1>1 DEF Phases

\* A task that was declared stays so.
LEMMA DeclaredStays ==
    ASSUME Inv, [Next]_vars, NEW u \in Tasks, status[u] # "undeclared"
    PROVE  status'[u] # "undeclared"
<1>1. status \in [Tasks -> TaskStatuses] /\ "undeclared" \notin PreRun
  BY DEF Inv, TypeOK, PreRun
<1>2. ASSUME NEW t \in Tasks, NEW g \in Goals, NEW ds \in SUBSET Tasks, NEW s \in TaskShapes,
             NEW at \in Times, DeclareTask(t, g, ds, s, at)
      PROVE  status'[u] # "undeclared"
  <2> DEFINE st == [status EXCEPT ![t] = InitialTaskStatus(ds, s)]
  <2>1. InitialTaskStatus(ds, s) \in PreRun
    BY ControlReadinessType DEF InitialTaskStatus, PreRun
  <2>2. st \in [Tasks -> TaskStatuses] /\ st[u] # "undeclared"
    BY <1>1, <2>1 DEF TaskStatuses
  <2>3. status' = RefreshTaskStatuses(st, deps', shape', decision, at)
    BY <1>2 DEF DeclareTask
  <2> HIDE DEF st
  <2> QED
    BY <1>1, <2>2, <2>3, RefreshProperties
<1>3. ASSUME NEW t \in Tasks, NEW k \in Kinds, NEW g \in Gates, NEW d \in Verdicts,
             NEW at \in Times, RecordDecision(t, k, g, d, at)
      PROVE  status'[u] # "undeclared"
  <2>1. CASE status' = RefreshTaskStatuses(status, deps, shape, decision', at)
    BY <1>1, <2>1, RefreshProperties
  <2>2. CASE \/ status' = status
             \/ \E r : status' = [status EXCEPT ![t] = RollbackStatus(r)]
    BY <1>1, <2>2, RollbackStatusType
  <2> QED
    BY <1>3, <2>1, <2>2 DEF RecordDecision, RefreshControlStatus
<1>4. ASSUME NEW t \in Tasks, NEW k \in Kinds, AttemptCommand(t, k)
      PROVE  status'[u] # "undeclared"
  <2>1. ASSUME NEW at \in Times, PrepareAttempt(t, k, at) PROVE status'[u] # "undeclared"
    BY <1>1, <2>1 DEF PrepareAttempt
  <2>2. ASSUME NEW n \in Ordinals(t, k), NEW r \in ReceiptStatuses,
               \/ RecordDispatch(t, k, n)
               \/ ObserveReceipt(t, k, n, r)
               \/ ReconcileReceipt(t, k, n, r)
        PROVE  status'[u] # "undeclared"
    BY <1>1, <2>2 DEF RecordDispatch, ObserveReceipt, ReconcileReceipt
  <2>3. ASSUME NEW n \in Ordinals(t, k), NEW o \in Dispositions, NEW at \in Times,
               RecordOutcome(t, k, n, o, at)
        PROVE  status'[u] # "undeclared"
    <3> DEFINE s == StatusAfterOutcome(t, k, o, attempts[t][k][n].receipt, at)
               st == [status EXCEPT ![t] = s]
    <3>1. OutcomeAllowed(o, attempts[t][k][n].receipt)
      BY <2>3 DEF RecordOutcome
    <3>2. /\ k = "rollback" => s \in {"rolled_back", "rollback_failed"}
          /\ k = "execution" /\ o = "accepted" => s = "succeeded"
          /\ k = "execution" /\ o # "accepted" =>
               s \in {"failed", "rollback_ready", "rollback_blocked", "rollback_failed"}
      BY <3>1, OutcomeStatus
    <3> HIDE DEF s
    <3>3. s \in TaskStatuses /\ s # "undeclared"
      BY <3>2 DEF TaskStatuses, Kinds
    <3>4. st \in [Tasks -> TaskStatuses] /\ st[u] # "undeclared"
      BY <1>1, <3>3
    <3>5. status' = RefreshTaskStatuses(st, deps, shape, decision, at)
      BY <2>3 DEF RecordOutcome, s
    <3> HIDE DEF st
    <3> QED
      BY <1>1, <3>4, <3>5, RefreshProperties
  <2> QED
    BY <1>4, <2>1, <2>2, <2>3 DEF AttemptCommand, ReceiptStatuses
<1>5. CASE \/ OpenEpisode
           \/ \E g \in Goals : DeclareGoal(g)
           \/ \E g \in Goals, d \in GoalDispositions : ConcludeGoal(g, d)
           \/ UNCHANGED vars
  BY <1>5 DEF OpenEpisode, DeclareGoal, ConcludeGoal, vars
<1> QED
  BY <1>2, <1>3, <1>4, <1>5 DEF Next, TaskCommand, RecordAuthority, RecordApproval, Gates

LEMMA SameDeclared ==
    ASSUME Inv, [Next]_vars,
           \A t \in Tasks, h \in Goals, ds \in SUBSET Tasks, s \in TaskShapes, at \in Times :
              ~DeclareTask(t, h, ds, s, at)
    PROVE  DeclaredTasks' = DeclaredTasks
BY UndeclaredStep, DeclaredStays DEF DeclaredTasks

\* A dependency that has succeeded is done.
LEMMA SucceededIsDone ==
    ASSUME Inv, NEW t \in Tasks, status[t] = "succeeded"
    PROVE  PhaseOf(t) = "done"
<1>1. Succeeded(t)
  BY DEF Inv, StatusMatchesAttempt, ConsistentTask, NotAttempted, Executing, UnderWay,
     NotCompensated, Compensating, Compensated, PreRun
<1>2. attempts[t]["execution"] # <<>>
  BY <1>1 DEF Succeeded, SingleAttempt
<1> QED
  BY <1>1, <1>2, PhaseNow DEF Succeeded, SingleAttempt, PhaseShown

\* prepare_attempt starts the task or its compensation.
LEMMA PrepareMoves ==
    ASSUME Inv, Inv', [Next]_vars, NEW t \in Tasks, NEW k \in Kinds, NEW at \in Times,
           PrepareAttempt(t, k, at)
    PROVE  /\ DepsSucceeded(status, deps[t]) \/ k = "rollback"
           /\ t \in DeclaredTasks
           /\ IF k = "execution" THEN Phases[t] = "idle" ELSE Phases[t] = "failed"
           /\ Phases' = [Phases EXCEPT ![t] = IF k = "execution" THEN "executing" ELSE "compensating"]
<1> DEFINE e == [status |-> "prepared", preparedAt |-> at, receipt |-> "none", outcome |-> "none"]
           to == IF k = "execution" THEN "executing" ELSE "compensating"
<1>1. e \in Attempt /\ e.status = "prepared"
  BY DEF Attempt
<1>2. attempts[t][k] = <<>> /\ attempts' = AddAttempt(t, k, e)
  BY PreparedFresh DEF PrepareAttempt
<1> HIDE DEF e
<1>3. /\ \A u \in Tasks : u # t => attempts'[u] = attempts[u]
      /\ \A j \in Kinds : j # k => attempts'[t][j] = attempts[t][j]
      /\ Len(attempts'[t][k]) = 1
      /\ attempts'[t][k][1] = e
  <2>1. Len(attempts[t][k]) = 0
    BY <1>2
  <2> QED
    BY <1>1, <1>2, <2>1, FirstAttempt DEF Inv, TypeOK, AttemptTable
<1>4. attempts'[t][k] # <<>>
  BY <1>3
<1>5. MayAttempt(t, k) /\ status[t] # "undeclared"
  BY DEF PrepareAttempt, TaskReadiness, Declared
<1>6. CASE k = "execution"
  <2>1. PhaseOf(t) = "idle"
    BY <1>2, <1>6, PhaseNow DEF PhaseShown
  <2>2. PhaseOf(t)' = "executing"
    BY <1>1, <1>3, <1>4, <1>6, PhaseNext DEF PhaseShown
  <2>3. Phases' = [Phases EXCEPT ![t] = "executing"]
    BY <1>3, <2>2, OnePhaseMoves
  <2> QED
    BY <1>5, <1>6, <2>1, <2>3 DEF Phases, DeclaredTasks, MayAttempt
<1>7. CASE k = "rollback"
  <2>1. ExecutionFailed(t) /\ k # "execution"
    BY <1>7, PreparedFresh DEF NotCompensated
  <2>2. attempts[t]["execution"] # <<>> /\ attempts'[t]["execution"] = attempts[t]["execution"]
    BY <1>3, <1>7, <2>1 DEF ExecutionFailed, SingleAttempt, Kinds
  <2>3. PhaseOf(t) = "failed"
    BY <1>2, <1>7, <2>1, <2>2, PhaseNow DEF PhaseShown, ExecutionFailed, SingleAttempt
  <2>4. PhaseOf(t)' = "compensating"
    BY <1>1, <1>3, <1>4, <1>7, <2>1, <2>2, PhaseNext DEF PhaseShown, ExecutionFailed, SingleAttempt
  <2>5. Phases' = [Phases EXCEPT ![t] = "compensating"]
    BY <1>3, <2>4, OnePhaseMoves
  <2> QED
    BY <1>5, <1>7, <2>1, <2>3, <2>5 DEF Phases, DeclaredTasks
<1> QED
  BY <1>6, <1>7 DEF Kinds

\* An attempt moves its task only when it is concluded.
LEMMA UpdateMoves ==
    ASSUME Inv, Inv', NEW t \in Tasks, NEW k \in Kinds, NEW n \in Ordinals(t, k),
           attempts[t][k][n].status # "concluded",
           NEW STATE e, e \in Attempt, attempts' = PutAttempt(t, k, n, e)
    PROVE  /\ t \in DeclaredTasks
           /\ Phases[t] = IF k = "execution" THEN "executing" ELSE "compensating"
           /\ e.status # "concluded" => Phases' = Phases
           /\ e.status = "concluded" =>
                 Phases' = [Phases EXCEPT ![t] =
                              IF k = "execution"
                              THEN IF e.outcome = "accepted" THEN "done" ELSE "failed"
                              ELSE IF e.outcome = "accepted" THEN "compensated" ELSE "uncompensated"]
<1>1. /\ \A u \in Tasks : u # t => attempts'[u] = attempts[u]
      /\ \A j \in Kinds : j # k => attempts'[t][j] = attempts[t][j]
      /\ Len(attempts'[t][k]) = Len(attempts[t][k])
      /\ attempts'[t][k][n] = e
  BY UpdateAttempt DEF Inv, TypeOK, AttemptTable
<1>2. /\ n = 1
      /\ k = "execution" => Executing(t)
      /\ k = "rollback" => Compensating(t)
  BY UnconcludedIsUnderWay
<1>3. status[t] # "undeclared"
  BY <1>2 DEF Executing, Compensating, UnderWay, Kinds
<1>4. Len(attempts[t][k]) = 1 /\ attempts[t][k] # <<>> /\ attempts'[t][k] # <<>>
  <2>1. Len(attempts[t][k]) = 1
    BY <1>2 DEF Executing, Compensating, UnderWay, SingleAttempt, Kinds
  <2> QED
    BY <1>1, <2>1
<1>5. CASE k = "execution"
  <2>1. attempts[t]["rollback"] = <<>> /\ attempts'[t]["rollback"] = <<>>
    BY <1>1, <1>2, <1>5 DEF Executing, Kinds
  <2>2. PhaseOf(t) = "executing"
    BY <1>2, <1>4, <1>5, PhaseNow DEF PhaseShown
  <2>3. PhaseOf(t)' = IF e.status # "concluded" THEN "executing"
                      ELSE IF e.outcome = "accepted" THEN "done" ELSE "failed"
    BY <1>1, <1>2, <1>4, <1>5, <2>1, PhaseNext DEF PhaseShown
  <2>4. Phases[t] = "executing" /\ Phases = [Phases EXCEPT ![t] = "executing"]
    BY <2>2 DEF Phases
  <2>5. \A to : PhaseOf(t)' = to => Phases' = [Phases EXCEPT ![t] = to]
    BY <1>1, OnePhaseMoves
  <2> QED
    BY <1>3, <1>5, <2>3, <2>4, <2>5 DEF DeclaredTasks
<1>6. CASE k = "rollback"
  <2>1. /\ attempts[t]["execution"] # <<>> /\ attempts'[t]["execution"] = attempts[t]["execution"]
        /\ attempts[t]["execution"][1].status = "concluded"
        /\ attempts[t]["execution"][1].outcome # "accepted"
    BY <1>1, <1>2, <1>6 DEF Compensating, ExecutionFailed, SingleAttempt, Kinds
  <2>2. PhaseOf(t) = "compensating"
    BY <1>2, <1>4, <1>6, <2>1, PhaseNow DEF PhaseShown
  <2>3. PhaseOf(t)' = IF e.status # "concluded" THEN "compensating"
                      ELSE IF e.outcome = "accepted" THEN "compensated" ELSE "uncompensated"
    BY <1>1, <1>2, <1>4, <1>6, <2>1, PhaseNext DEF PhaseShown
  <2>4. Phases[t] = "compensating" /\ Phases = [Phases EXCEPT ![t] = "compensating"]
    BY <2>2 DEF Phases
  <2>5. \A to : PhaseOf(t)' = to => Phases' = [Phases EXCEPT ![t] = to]
    BY <1>1, OnePhaseMoves
  <2>6. k # "execution"
    BY <1>6
  <2> QED
    BY <1>3, <1>6, <2>3, <2>4, <2>5, <2>6 DEF DeclaredTasks
<1> QED
  BY <1>5, <1>6 DEF Kinds

\* Every step of the machine is a step of the saga, or none.
LEMMA SagaStep ==
    ASSUME Inv, Inv', [Next]_vars
    PROVE  [Saga!Next]_(Saga!vars)
<1> DEFINE still == DeclaredTasks' = DeclaredTasks /\ deps' = deps
<1>1. ASSUME still, Phases' = Phases
      PROVE  UNCHANGED Saga!vars
  BY <1>1 DEF Saga!vars, DeclaredTasks, Phases
<1>2. ASSUME still, NEW t \in DeclaredTasks, NEW from, NEW to,
             Phases[t] = from, Phases' = [Phases EXCEPT ![t] = to]
      PROVE  Saga!Move(t, from, to)
  BY <1>2 DEF Saga!Move, DeclaredTasks, Phases
<1>3. ASSUME NEW t \in Tasks, NEW g \in Goals, NEW ds \in SUBSET Tasks, NEW s \in TaskShapes,
             NEW at \in Times, DeclareTask(t, g, ds, s, at)
      PROVE  Saga!Declare(t, ds)
  <2>1. status[t] = "undeclared" /\ \A d \in ds : status[d] # "undeclared"
    BY <1>3 DEF DeclareTask, Declared
  <2>2. DeclaredTasks' = DeclaredTasks \cup {t}
    <3> DEFINE st == [status EXCEPT ![t] = InitialTaskStatus(ds, s)]
    <3>1. InitialTaskStatus(ds, s) \in PreRun /\ "undeclared" \notin PreRun
      BY ControlReadinessType DEF InitialTaskStatus, PreRun
    <3>2. /\ status \in [Tasks -> TaskStatuses] /\ st \in [Tasks -> TaskStatuses]
          /\ st[t] \in PreRun /\ \A u \in Tasks : u # t => st[u] = status[u]
      BY <3>1 DEF TaskStatuses, Inv, TypeOK
    <3>3. status' = RefreshTaskStatuses(st, deps', shape', decision, at)
      BY <1>3 DEF DeclareTask
    <3> HIDE DEF st
    <3>4. \A u \in Tasks : status'[u] # "undeclared" <=> u = t \/ status[u] # "undeclared"
      BY <3>1, <3>2, <3>3, RefreshProperties
    <3> QED
      BY <3>4 DEF DeclaredTasks
  <2>3. attempts' = attempts /\ deps' = [deps EXCEPT ![t] = ds]
    BY <1>3 DEF DeclareTask
  <2>4. Phases' = Phases
    BY <2>3, PhaseNow, PhaseNext DEF Phases
  <2> QED
    BY <2>1, <2>2, <2>3, <2>4 DEF Saga!Declare, DeclaredTasks, Phases
<1>4. ASSUME \A t \in Tasks, h \in Goals, ds \in SUBSET Tasks, s \in TaskShapes, at \in Times :
                ~DeclareTask(t, h, ds, s, at)
      PROVE  DeclaredTasks' = DeclaredTasks
  BY <1>4, SameDeclared
<1>5. ASSUME NEW t \in Tasks, NEW k \in Kinds, NEW at \in Times, PrepareAttempt(t, k, at), still
      PROVE  Saga!Start(t) \/ Saga!Compensate(t)
  <2>1. CASE k = "execution"
    <3>1. Saga!Move(t, "idle", "executing")
      BY <1>2, <1>5, <2>1, PrepareMoves
    <3>2. \A d \in deps[t] : d \in Tasks /\ status[d] = "succeeded"
      BY <1>5, <2>1, PrepareMoves DEF DepsSucceeded, Inv, TypeOK
    <3>3. \A d \in deps[t] : [u \in Tasks |-> PhaseOf(u)][d] = "done"
      BY <3>2, SucceededIsDone
    <3> QED
      BY <3>1, <3>3 DEF Saga!Start
  <2>2. CASE k = "rollback"
    <3>1. Saga!Move(t, "failed", "compensating")
      BY <1>2, <1>5, <2>2, PrepareMoves
    <3> QED
      BY <3>1 DEF Saga!Compensate
  <2> QED
    BY <2>1, <2>2 DEF Kinds
<1>6. ASSUME NEW t \in Tasks, NEW k \in Kinds, NEW n \in Ordinals(t, k), NEW e \in Attempt,
             attempts[t][k][n].status # "concluded", attempts' = PutAttempt(t, k, n, e), still
      PROVE  Saga!Finish(t) \/ Saga!Compensated(t) \/ UNCHANGED Saga!vars
  <2>1. /\ t \in DeclaredTasks
        /\ Phases[t] = IF k = "execution" THEN "executing" ELSE "compensating"
        /\ e.status # "concluded" => Phases' = Phases
        /\ e.status = "concluded" =>
              Phases' = [Phases EXCEPT ![t] =
                           IF k = "execution"
                           THEN IF e.outcome = "accepted" THEN "done" ELSE "failed"
                           ELSE IF e.outcome = "accepted" THEN "compensated" ELSE "uncompensated"]
    BY <1>6, UpdateMoves
  <2>2. CASE e.status # "concluded"
    BY <1>1, <1>6, <2>1, <2>2
  <2>3. CASE e.status = "concluded" /\ k = "execution"
    <3>1. Saga!Move(t, "executing", "done") \/ Saga!Move(t, "executing", "failed")
      BY <1>2, <1>6, <2>1, <2>3
    <3> QED
      BY <3>1 DEF Saga!Finish
  <2>4. CASE e.status = "concluded" /\ k = "rollback"
    <3>1. Saga!Move(t, "compensating", "compensated") \/ Saga!Move(t, "compensating", "uncompensated")
      BY <1>2, <1>6, <2>1, <2>4
    <3> QED
      BY <3>1 DEF Saga!Compensated
  <2> QED
    BY <2>2, <2>3, <2>4 DEF Kinds
<1>7. ASSUME NEW t \in Tasks, NEW k \in Kinds, AttemptCommand(t, k), still
      PROVE  \/ Saga!Start(t) \/ Saga!Compensate(t)
             \/ Saga!Finish(t) \/ Saga!Compensated(t) \/ UNCHANGED Saga!vars
  <2>1. ASSUME NEW n \in Ordinals(t, k), NEW r \in ReceiptStatuses,
               \/ RecordDispatch(t, k, n)
               \/ ObserveReceipt(t, k, n, r)
               \/ ReconcileReceipt(t, k, n, r)
               \/ \E o \in Dispositions, at \in Times : RecordOutcome(t, k, n, o, at)
        PROVE  Saga!Finish(t) \/ Saga!Compensated(t) \/ UNCHANGED Saga!vars
    <3>1. attempts[t][k][n] \in Attempt
      BY TaskTypes, ElementOfSeq DEF Inv, Ordinals
    <3>2. attempts[t][k][n].status # "concluded"
      BY <2>1 DEF RecordDispatch, ObserveReceipt, ReconcileReceipt, RecordOutcome, Reconcilable
    <3>3. \E e \in Attempt : attempts' = PutAttempt(t, k, n, e)
      BY <2>1, <3>1 DEF RecordDispatch, ObserveReceipt, ReconcileReceipt, RecordOutcome, Attempt
    <3> QED
      BY <1>6, <1>7, <3>2, <3>3
  <2> QED
    BY <1>5, <1>7, <2>1 DEF AttemptCommand, ReceiptStatuses
<1>8. CASE \E t \in Tasks, g \in Goals, ds \in SUBSET Tasks, s \in TaskShapes, at \in Times :
              DeclareTask(t, g, ds, s, at)
  BY <1>3, <1>8 DEF Saga!Next
<1>9. CASE \A t \in Tasks, g \in Goals, ds \in SUBSET Tasks, s \in TaskShapes, at \in Times :
              ~DeclareTask(t, g, ds, s, at)
  <2>1. DeclaredTasks' = DeclaredTasks
    BY <1>4, <1>9
  <2>2. ASSUME attempts' = attempts, deps' = deps
        PROVE  UNCHANGED Saga!vars
    <3>1. Phases' = Phases
      BY <2>2, PhaseNow, PhaseNext DEF Phases
    <3> QED
      BY <1>1, <2>1, <2>2, <3>1
  <2>3. ASSUME NEW t \in Tasks, TaskCommand(t) PROVE UNCHANGED Saga!vars
    BY <1>9, <2>2, <2>3 DEF TaskCommand, RecordAuthority, RecordApproval, RecordDecision
  <2>4. ASSUME NEW t \in Tasks, NEW k \in Kinds, AttemptCommand(t, k)
        PROVE  \/ Saga!Start(t) \/ Saga!Compensate(t)
               \/ Saga!Finish(t) \/ Saga!Compensated(t) \/ UNCHANGED Saga!vars
    <3>1. deps' = deps
      BY <2>4 DEF AttemptCommand, PrepareAttempt, RecordDispatch, ObserveReceipt,
         ReconcileReceipt, RecordOutcome
    <3> QED
      BY <1>7, <2>1, <2>4, <3>1
  <2>5. CASE \/ OpenEpisode
             \/ \E g \in Goals : DeclareGoal(g)
             \/ \E g \in Goals, d \in GoalDispositions : ConcludeGoal(g, d)
             \/ UNCHANGED vars
    BY <2>2, <2>5 DEF OpenEpisode, DeclareGoal, ConcludeGoal, vars
  <2> QED
    BY <2>3, <2>4, <2>5 DEF Next, Saga!Next
<1> QED
  BY <1>8, <1>9

\* The machine implements the saga (TaskSaga): every task runs at most once and
\* after what it depends on is done, and is compensated at most once and only
\* after it failed, whatever commands decide accepts.
THEOREM SagaRefinement == Spec => ImplementsSaga
<1>1. Init /\ Inv => Saga!Init
  BY PhaseNow DEF Init, Saga!Init, PhaseShown, Kinds
<1>2. Inv /\ Inv' /\ [Next]_vars => [Saga!Next]_(Saga!vars)
  BY SagaStep
<1> QED
  BY <1>1, <1>2, Invariant, PTL DEF Spec, ImplementsSaga, Saga!Spec
===============================================================================
