--------------------------- MODULE ExecutiveEpisode ---------------------------
(***************************************************************************)
(* The executive episode machine of kernel/src/executive-episode.ts: the   *)
(* event-sourced reducer that takes a governed task from its declaration   *)
(* through authority and approval, one execution attempt, its receipt and  *)
(* outcome, and, when the outcome is not accepted, one compensating        *)
(* (rollback) attempt.                                                     *)
(*                                                                         *)
(* Every action is one accepted command: decide (its guard) followed by    *)
(* apply of each event it emits.  A command that decide rejects throws and *)
(* changes nothing, so it has no action; repeated command ids are modelled *)
(* by the durable journal's module.  occurredAt is supplied by the caller  *)
(* and the machine never compares it with an earlier one, so every command *)
(* picks any time.                                                         *)
(***************************************************************************)
EXTENDS Integers, Sequences

CONSTANTS
    Goals,       \* goal ids
    Tasks,       \* task ids
    Times,       \* the values occurredAt and expiresAt may take
    TaskShapes,  \* what a declared task may ask for: its rollback mode and
                 \* the gates that are "pending" for each kind of attempt
    NoGoal       \* the goal of a task that has not been declared

Kinds == {"execution", "rollback"}
Gates == {"authority", "approval"}
RollbackModes == {"none", "capability"}   \* none: not_required, unavailable

NoExpiry == -1
Expiries == Times \cup {NoExpiry}

ASSUME TimesAssumption == Times \subseteq Nat
ASSUME NoGoalAssumption == NoGoal \notin Goals
ASSUME ShapesAssumption ==
    TaskShapes \subseteq [rollback : RollbackModes,
                          pending : SUBSET (Kinds \X Gates)]

VARIABLES
    episode,     \* status of the episode
    goalStatus,  \* goal -> status
    goalOf,      \* task -> its goal
    deps,        \* task -> dependencyTaskIds
    shape,       \* task -> its shape (an element of TaskShapes)
    decision,    \* task -> kind -> gate -> the recorded decision
    status,      \* task -> ExecutiveTaskStatus
    active,      \* task -> activeAttemptId
    attempts,    \* task -> kind -> the attempts made, by ordinal
    learning     \* the outcome learning records

vars == <<episode, goalStatus, goalOf, deps, shape, decision, status, active,
          attempts, learning>>

(***************************************************************************)
(* Values.                                                                 *)
(***************************************************************************)
\* Mutant of PreRun: a refresh that also recomputes prepared tasks.
PreRunOrPrepared == {"blocked", "awaiting_authority", "awaiting_approval",
                     "authority_denied", "approval_denied", "ready", "prepared"}

\* Statuses refreshTaskStatuses recomputes: the task has not been attempted.
PreRun == {"blocked", "awaiting_authority", "awaiting_approval",
           "authority_denied", "approval_denied", "ready"}

TaskStatuses == PreRun \cup
    {"undeclared", "prepared", "in_flight", "awaiting_outcome", "succeeded",
     "failed", "rollback_blocked", "rollback_ready", "rolling_back",
     "rolled_back", "rollback_failed", "cancelled"}

\* Mutant of IsTerminalTask: unfinished work taken for finished.
AwaitingApprovalIsTerminal(s) == s \in {"succeeded", "failed",
    "authority_denied", "approval_denied", "rolled_back", "rollback_failed",
    "awaiting_approval"}

IsTerminalTask(s) == s \in {"succeeded", "failed", "authority_denied",
    "approval_denied", "rolled_back", "rollback_failed", "cancelled"}

Dispositions == {"accepted", "rejected", "partial"}   \* rejected: or unknown
GoalDispositions == {"satisfied", "failed", "cancelled"}
ReceiptStatuses == {"succeeded", "failed", "indeterminate"}
Attempt == [status : {"prepared", "in_flight", "receipt_observed", "concluded"},
            preparedAt : Times,
            receipt : ReceiptStatuses \cup {"none"},
            outcome : Dispositions \cup {"none"}]
Decision == [verdict : {"none", "granted", "denied"}, expiresAt : Expiries]
LearningRecord == [task : Tasks, kind : Kinds, ordinal : Nat,
                   receipt : ReceiptStatuses, outcome : Dispositions]
AttemptRef == [kind : Kinds \cup {"none"}, ordinal : Nat]

NoDecision == [verdict |-> "none", expiresAt |-> NoExpiry]
NoAttempt == [kind |-> "none", ordinal |-> 0]
NoShape == [rollback |-> "none", pending |-> {}]

(***************************************************************************)
(* Readiness.                                                              *)
(***************************************************************************)
\* Mutant of IsExpired: a decision still holds at the instant it expires.
ExpiresLate(expiresAt, at) == expiresAt # NoExpiry /\ at > expiresAt

IsExpired(expiresAt, at) == expiresAt # NoExpiry /\ at >= expiresAt

\* The gates of one kind of attempt that the task declared "pending".
PendingGates(s, k) == {g \in Gates : <<k, g>> \in s.pending}

\* What one control state allows at time at; authority comes before approval.
ControlReadiness(pending, dec, at) ==
    LET Denied(g) == g \in pending /\ dec[g].verdict = "denied"
        Open(g) == g \in pending /\ \/ dec[g].verdict = "none"
                                    \/ IsExpired(dec[g].expiresAt, at)
    IN  IF Denied("authority") THEN "authority_denied"
        ELSE IF Open("authority") THEN "awaiting_authority"
        ELSE IF Denied("approval") THEN "approval_denied"
        ELSE IF Open("approval") THEN "awaiting_approval"
        ELSE "ready"

DepsSucceeded(st, ds) == \A d \in ds : st[d] = "succeeded"

\* Recomputes every task that has not been attempted, in the given state.
RefreshTaskStatuses(st, dp, sh, dec, at) ==
    [t \in Tasks |->
        IF st[t] \notin PreRun THEN st[t]
        ELSE IF ~DepsSucceeded(st, dp[t]) THEN "blocked"
        ELSE ControlReadiness(PendingGates(sh[t], "execution"),
                              dec[t]["execution"], at)]

\* The status of a task whose execution was not accepted and that has a
\* rollback capability, given the readiness of the rollback's controls.
RollbackStatus(readiness) ==
    CASE readiness = "ready" -> "rollback_ready"
      [] readiness \in {"authority_denied", "approval_denied"} -> "rollback_failed"
      [] OTHER -> "rollback_blocked"

\* A decision on a task's gate: refreshControlStatus.
RefreshControlStatus(t, k, dec, at) ==
    IF k = "execution" THEN RefreshTaskStatuses(status, deps, shape, dec, at)
    ELSE IF status[t] \in {"rollback_blocked", "rollback_ready"}
    THEN [status EXCEPT ![t] = RollbackStatus(
            ControlReadiness(PendingGates(shape[t], "rollback"),
                             dec[t]["rollback"], at))]
    ELSE status

InitialTaskStatus(ds, s) ==
    IF ~DepsSucceeded(status, ds) THEN "blocked"
    ELSE ControlReadiness(PendingGates(s, "execution"),
                          [g \in Gates |-> NoDecision], NoExpiry)

\* Mutant of MayAttempt: dependencies forgotten.
AttemptIgnoresDeps(t, k) ==
    IF k = "execution" THEN status[t] \in PreRun
    ELSE status[t] \in {"rollback_ready", "rollback_blocked"}

\* Mutant of MayAttempt: a compensation that failed is tried again.
CompensateAgain(t, k) ==
    IF k = "execution"
    THEN status[t] \in PreRun /\ DepsSucceeded(status, deps[t])
    ELSE status[t] \in {"rollback_ready", "rollback_blocked", "rollback_failed"}

MayAttempt(t, k) ==
    IF k = "execution"
    THEN status[t] \in PreRun /\ DepsSucceeded(status, deps[t])
    ELSE status[t] \in {"rollback_ready", "rollback_blocked"}

TaskReadiness(t, k, at) ==
    IF ~MayAttempt(t, k) THEN "blocked"
    ELSE ControlReadiness(PendingGates(shape[t], k), decision[t][k], at)

(***************************************************************************)
(* Commands.                                                               *)
(***************************************************************************)
IsOpen == episode = "open"
Declared(t) == status[t] # "undeclared"
Ordinals(t, k) == 1 .. Len(attempts[t][k])

\* The attempts with one more, and with the n-th replaced.
AddAttempt(t, k, a) == [attempts EXCEPT ![t][k] = Append(@, a)]
PutAttempt(t, k, n, a) == [attempts EXCEPT ![t][k][n] = a]

OpenEpisode ==
    /\ episode = "unopened"
    /\ episode' = "open"
    /\ UNCHANGED <<goalStatus, goalOf, deps, shape, decision, status, active,
                   attempts, learning>>

DeclareGoal(g) ==
    /\ IsOpen
    /\ goalStatus[g] = "undeclared"
    /\ goalStatus' = [goalStatus EXCEPT ![g] = "active"]
    /\ UNCHANGED <<episode, goalOf, deps, shape, decision, status, active,
                   attempts, learning>>

DeclareTask(t, g, ds, s, at) ==
    /\ IsOpen
    /\ goalStatus[g] = "active"
    /\ ~Declared(t)
    /\ \A d \in ds : d # t /\ Declared(d) /\ goalOf[d] = g
    /\ goalOf' = [goalOf EXCEPT ![t] = g]
    /\ deps' = [deps EXCEPT ![t] = ds]
    /\ shape' = [shape EXCEPT ![t] = s]
    /\ status' = RefreshTaskStatuses(
                    [status EXCEPT ![t] = InitialTaskStatus(ds, s)],
                    deps', shape', decision, at)
    /\ UNCHANGED <<episode, goalStatus, decision, active, attempts, learning>>

RecordDecision(t, k, g, d, at) ==
    /\ IsOpen
    /\ Declared(t)
    /\ k = "rollback" => shape[t].rollback = "capability"
    /\ <<k, g>> \in shape[t].pending
    /\ decision[t][k][g].verdict = "none"
    /\ d.expiresAt # NoExpiry => d.expiresAt > at
    /\ decision' = [decision EXCEPT ![t][k][g] = d]
    /\ status' = RefreshControlStatus(t, k, decision', at)
    /\ UNCHANGED <<episode, goalStatus, goalOf, deps, shape, active, attempts,
                   learning>>

RecordAuthority(t, k, d, at) == RecordDecision(t, k, "authority", d, at)
RecordApproval(t, k, d, at) == RecordDecision(t, k, "approval", d, at)

PrepareAttempt(t, k, at) ==
    /\ IsOpen
    /\ Declared(t)
    /\ TaskReadiness(t, k, at) = "ready"
    /\ active[t] = NoAttempt
    /\ attempts' = AddAttempt(t, k, [status |-> "prepared", preparedAt |-> at,
                                     receipt |-> "none", outcome |-> "none"])
    /\ active' = [active EXCEPT ![t] =
                    [kind |-> k, ordinal |-> Len(attempts[t][k]) + 1]]
    /\ status' = [status EXCEPT ![t] =
                    IF k = "execution" THEN "prepared" ELSE "rollback_ready"]
    /\ UNCHANGED <<episode, goalStatus, goalOf, deps, shape, decision, learning>>

RecordDispatch(t, k, n) ==
    /\ IsOpen
    /\ n \in Ordinals(t, k)
    /\ attempts[t][k][n].status = "prepared"
    /\ attempts' = PutAttempt(t, k, n, [attempts[t][k][n] EXCEPT !.status = "in_flight"])
    /\ status' = [status EXCEPT ![t] =
                    IF k = "execution" THEN "in_flight" ELSE "rolling_back"]
    /\ UNCHANGED <<episode, goalStatus, goalOf, deps, shape, decision, active,
                   learning>>

ObserveReceipt(t, k, n, r) ==
    /\ IsOpen
    /\ n \in Ordinals(t, k)
    /\ attempts[t][k][n].status \in {"prepared", "in_flight"}
    /\ attempts' = PutAttempt(t, k, n, [attempts[t][k][n] EXCEPT
                                  !.status = "receipt_observed", !.receipt = r])
    /\ status' = [status EXCEPT ![t] = "awaiting_outcome"]
    /\ UNCHANGED <<episode, goalStatus, goalOf, deps, shape, decision, active,
                   learning>>

\* Mutant of Reconcilable: a concluded attempt's receipt may still change.
ReconcilableWhenConcluded(a) == a.receipt = "indeterminate"

Reconcilable(a) == a.status = "receipt_observed" /\ a.receipt = "indeterminate"

ReconcileReceipt(t, k, n, r) ==
    /\ IsOpen
    /\ n \in Ordinals(t, k)
    /\ Reconcilable(attempts[t][k][n])
    /\ r # "indeterminate"
    /\ attempts' = PutAttempt(t, k, n, [attempts[t][k][n] EXCEPT !.receipt = r])
    /\ UNCHANGED <<episode, goalStatus, goalOf, deps, shape, decision, status,
                   active, learning>>

\* validateOutcomeAgainstReceipt
OutcomeAllowed(o, r) ==
    /\ o = "accepted" => r = "succeeded"
    /\ o = "partial" => r # "failed"

\* The task's status once the outcome o of an attempt of kind k is recorded.
StatusAfterOutcome(t, k, o, r, at) ==
    LET accepted == r = "succeeded" /\ o = "accepted"
    IN  CASE k = "rollback" -> IF accepted THEN "rolled_back" ELSE "rollback_failed"
          [] k = "execution" /\ accepted -> "succeeded"
          [] k = "execution" /\ ~accepted /\ shape[t].rollback = "capability" ->
               RollbackStatus(ControlReadiness(PendingGates(shape[t], "rollback"),
                                               decision[t]["rollback"], at))
          [] OTHER -> "failed"

RecordOutcome(t, k, n, o, at) ==
    /\ IsOpen
    /\ n \in Ordinals(t, k)
    /\ attempts[t][k][n].status = "receipt_observed"
    /\ OutcomeAllowed(o, attempts[t][k][n].receipt)
    /\ attempts' = PutAttempt(t, k, n, [attempts[t][k][n] EXCEPT
                                  !.status = "concluded", !.outcome = o])
    /\ active' = [active EXCEPT ![t] = NoAttempt]
    /\ status' = RefreshTaskStatuses(
                    [status EXCEPT ![t] = StatusAfterOutcome(
                        t, k, o, attempts[t][k][n].receipt, at)],
                    deps, shape, decision, at)
    /\ learning' = learning \cup
          {[task |-> t, kind |-> k, ordinal |-> n, outcome |-> o,
            receipt |-> attempts[t][k][n].receipt]}
    /\ UNCHANGED <<episode, goalStatus, goalOf, deps, shape, decision>>

GoalTasks(g) == {t \in Tasks : Declared(t) /\ goalOf[t] = g}

\* Some outcome exists that a conclusion of g can cite.
HasOutcome(g) ==
    \E t \in GoalTasks(g), k \in Kinds :
        \E n \in Ordinals(t, k) : attempts[t][k][n].status = "concluded"

ConcludeGoal(g, disposition) ==
    /\ IsOpen
    /\ goalStatus[g] = "active"
    /\ \A t \in GoalTasks(g) : IsTerminalTask(status[t])
    /\ disposition = "satisfied" =>
          \A t \in GoalTasks(g) : status[t] = "succeeded"
    /\ disposition # "cancelled" => HasOutcome(g)
    /\ goalStatus' = [goalStatus EXCEPT ![g] = disposition]
    /\ episode' = IF \A h \in Goals : h = g \/ goalStatus[h] # "active"
                  THEN "closed" ELSE "open"
    /\ UNCHANGED <<goalOf, deps, shape, decision, status, active, attempts, learning>>

(***************************************************************************)
(* The specification.                                                      *)
(***************************************************************************)
Init ==
    /\ episode = "unopened"
    /\ goalStatus = [g \in Goals |-> "undeclared"]
    /\ goalOf = [t \in Tasks |-> NoGoal]
    /\ deps = [t \in Tasks |-> {}]
    /\ shape = [t \in Tasks |-> NoShape]
    /\ decision = [t \in Tasks |-> [k \in Kinds |-> [g \in Gates |-> NoDecision]]]
    /\ status = [t \in Tasks |-> "undeclared"]
    /\ active = [t \in Tasks |-> NoAttempt]
    /\ attempts = [t \in Tasks |-> [k \in Kinds |-> <<>>]]
    /\ learning = {}

\* A denial's expiry is never read, so only grants carry one.
Verdicts == [verdict : {"granted"}, expiresAt : Expiries] \cup
            {[verdict |-> "denied", expiresAt |-> NoExpiry]}

TaskCommand(t) ==
    \/ \E g \in Goals, ds \in SUBSET Tasks, s \in TaskShapes, at \in Times :
          DeclareTask(t, g, ds, s, at)
    \/ \E k \in Kinds, d \in Verdicts, at \in Times : RecordAuthority(t, k, d, at)
    \/ \E k \in Kinds, d \in Verdicts, at \in Times : RecordApproval(t, k, d, at)

AttemptCommand(t, k) ==
    \/ \E at \in Times : PrepareAttempt(t, k, at)
    \/ \E n \in Ordinals(t, k) :
          \/ RecordDispatch(t, k, n)
          \/ \E r \in ReceiptStatuses : ObserveReceipt(t, k, n, r)
          \/ \E r \in ReceiptStatuses : ReconcileReceipt(t, k, n, r)
          \/ \E o \in Dispositions, at \in Times : RecordOutcome(t, k, n, o, at)

Next ==
    \/ OpenEpisode
    \/ \E g \in Goals : DeclareGoal(g)
    \/ \E t \in Tasks : TaskCommand(t)
    \/ \E t \in Tasks, k \in Kinds : AttemptCommand(t, k)
    \/ \E g \in Goals, d \in GoalDispositions : ConcludeGoal(g, d)

Spec == Init /\ [][Next]_vars

(***************************************************************************)
(* Properties.                                                             *)
(***************************************************************************)
\* Every piece of the episode state has the type executive-episode.ts
\* declares for it (ExecutiveEpisodeState and the records it holds).
TypeOK ==
    /\ episode \in {"unopened", "open", "closed"}
    /\ goalStatus \in [Goals -> {"undeclared", "active"} \cup GoalDispositions]
    /\ goalOf \in [Tasks -> Goals \cup {NoGoal}]
    /\ deps \in [Tasks -> SUBSET Tasks]
    /\ shape \in [Tasks -> TaskShapes \cup {NoShape}]
    /\ decision \in [Tasks -> [Kinds -> [Gates -> Decision]]]
    /\ status \in [Tasks -> TaskStatuses]
    /\ active \in [Tasks -> AttemptRef]
    /\ attempts \in [Tasks -> [Kinds -> Seq(Attempt)]]
    /\ learning \in SUBSET LearningRecord

\* The ordinal prepare_attempt computes never exceeds 1: whatever the
\* interleaving of commands, a task is executed at most once and compensated
\* at most once in its life, although nothing in decide counts attempts.
AtMostOneAttempt ==
    \A t \in Tasks, k \in Kinds : Len(attempts[t][k]) <= 1

\* The phases of a task: what its status, its active attempt and its attempts
\* say together.
SingleAttempt(t, k, attemptStatus) ==
    /\ Len(attempts[t][k]) = 1
    /\ attempts[t][k][1].status = attemptStatus
    /\ attemptStatus \in {"receipt_observed", "concluded"} =>
          attempts[t][k][1].receipt # "none"
    /\ attemptStatus = "concluded" => attempts[t][k][1].outcome # "none"

Under(t, k) == active[t] = [kind |-> k, ordinal |-> 1]

NotAttempted(t) ==
    /\ status[t] \in PreRun \cup {"undeclared"}
    /\ active[t] = NoAttempt
    /\ attempts[t]["execution"] = <<>>
    /\ attempts[t]["rollback"] = <<>>

\* Attempt k of task t is under way, at the stage its status names.
UnderWay(t, k, dispatched) ==
    /\ Under(t, k)
    /\ \/ /\ status[t] = IF k = "execution" THEN "prepared" ELSE "rollback_ready"
          /\ SingleAttempt(t, k, "prepared")
       \/ status[t] = dispatched /\ SingleAttempt(t, k, "in_flight")
       \/ status[t] = "awaiting_outcome" /\ SingleAttempt(t, k, "receipt_observed")

Executing(t) ==
    /\ UnderWay(t, "execution", "in_flight")
    /\ attempts[t]["rollback"] = <<>>

Succeeded(t) ==
    /\ status[t] = "succeeded"
    /\ active[t] = NoAttempt
    /\ SingleAttempt(t, "execution", "concluded")
    /\ attempts[t]["execution"][1].receipt = "succeeded"
    /\ attempts[t]["execution"][1].outcome = "accepted"
    /\ attempts[t]["rollback"] = <<>>

ExecutionFailed(t) ==
    /\ SingleAttempt(t, "execution", "concluded")
    /\ attempts[t]["execution"][1].outcome # "accepted"

NotCompensated(t) ==
    /\ ExecutionFailed(t)
    /\ attempts[t]["rollback"] = <<>>
    /\ active[t] = NoAttempt
    /\ \/ status[t] = "failed"
       \/ /\ status[t] \in {"rollback_ready", "rollback_blocked", "rollback_failed"}
          /\ shape[t].rollback = "capability"

Compensating(t) ==
    /\ ExecutionFailed(t)
    /\ shape[t].rollback = "capability"
    /\ UnderWay(t, "rollback", "rolling_back")

Compensated(t) ==
    /\ ExecutionFailed(t)
    /\ shape[t].rollback = "capability"
    /\ active[t] = NoAttempt
    /\ SingleAttempt(t, "rollback", "concluded")
    /\ status[t] = IF attempts[t]["rollback"][1].outcome = "accepted"
                   THEN "rolled_back" ELSE "rollback_failed"

ConsistentTask(t) ==
    \/ NotAttempted(t)
    \/ Executing(t)
    \/ Succeeded(t)
    \/ NotCompensated(t)
    \/ Compensating(t)
    \/ Compensated(t)

\* A task's status, the attempt it points at and the attempts themselves are
\* written by different events; at every moment they tell one story, which is
\* also what executiveResumePlan and the dispatcher read them for.
StatusMatchesAttempt == \A t \in Tasks : ConsistentTask(t)

\* An attempt exists only if, when it was prepared, every gate its kind of
\* attempt declared pending had been granted and had not expired: decisions
\* recorded, refreshed or expiring later never legitimise or change that.
AttemptsAuthorized ==
    \A t \in Tasks, k \in Kinds :
        \A n \in Ordinals(t, k), g \in PendingGates(shape[t], k) :
            /\ decision[t][k][g].verdict = "granted"
            /\ \/ decision[t][k][g].expiresAt = NoExpiry
               \/ attempts[t][k][n].preparedAt < decision[t][k][g].expiresAt

\* A task is executed only after every task it depends on has succeeded, and
\* those tasks are still succeeded at every later moment.
DependenciesFirst ==
    \A t \in Tasks :
        attempts[t]["execution"] # <<>> => DepsSucceeded(status, deps[t])

\* "succeeded" always rests on evidence: an execution whose current receipt
\* is a success and whose outcome is accepted.  An indeterminate receipt
\* counts only once it has been reconciled.
SuccessHasEvidence ==
    \A t \in Tasks : status[t] = "succeeded" =>
        \E n \in Ordinals(t, "execution") :
            /\ attempts[t]["execution"][n].status = "concluded"
            /\ attempts[t]["execution"][n].receipt = "succeeded"
            /\ attempts[t]["execution"][n].outcome = "accepted"

\* Compensation never runs next to, before or instead of the execution: a
\* rollback attempt exists only for a task with a rollback capability whose
\* execution has concluded without an accepted outcome.
RollbackFollowsFailure ==
    \A t \in Tasks : attempts[t]["rollback"] # <<>> =>
        /\ shape[t].rollback = "capability"
        /\ attempts[t]["execution"] # <<>>
        /\ \A n \in Ordinals(t, "execution") :
              /\ attempts[t]["execution"][n].status = "concluded"
              /\ attempts[t]["execution"][n].outcome # "accepted"

\* A goal that has been concluded has no work under way, a satisfied goal's
\* tasks have all succeeded and still have, and the episode is closed only
\* when no goal is active.
ConcludedGoalsAreQuiet ==
    /\ \A g \in Goals : goalStatus[g] \in GoalDispositions =>
          \A t \in GoalTasks(g) : active[t] = NoAttempt
    /\ \A g \in Goals : goalStatus[g] = "satisfied" =>
          \A t \in GoalTasks(g) : status[t] = "succeeded"
    /\ episode = "closed" => \A g \in Goals : goalStatus[g] # "active"

\* There is one learning record for each concluded attempt, and it reports
\* the disposition and the receipt the attempt finally has: no later receipt
\* or outcome can make what was learned wrong.
LearningMatchesAttempts ==
    learning = UNION {{[task |-> t, kind |-> k, ordinal |-> n,
                        outcome |-> attempts[t][k][n].outcome,
                        receipt |-> attempts[t][k][n].receipt] :
                          n \in {m \in Ordinals(t, k) :
                                   attempts[t][k][m].status = "concluded"}} :
                      t \in Tasks, k \in Kinds}

\* The phase of a task as the evidence shows it: the attempts made and their
\* recorded outcomes, not the status field.  A second attempt of either kind, or a
\* compensation of what has not failed, is no phase of a saga.
PhaseOf(t) ==
    LET ex == attempts[t]["execution"]
        rb == attempts[t]["rollback"]
        Ended(s) == s[1].status = "concluded"
        Accepted(s) == s[1].outcome = "accepted"
        Failed == ex # <<>> /\ Ended(ex) /\ ~Accepted(ex)
    IN  IF Len(ex) > 1 \/ Len(rb) > 1 \/ (rb # <<>> /\ ~Failed) THEN "no_saga"
        ELSE CASE ex = <<>> -> "idle"
               [] ex # <<>> /\ ~Ended(ex) -> "executing"
               [] ex # <<>> /\ Ended(ex) /\ Accepted(ex) -> "done"
               [] Failed /\ rb = <<>> -> "failed"
               [] Failed /\ rb # <<>> ->
                    IF ~Ended(rb) THEN "compensating"
                    ELSE IF Accepted(rb) THEN "compensated" ELSE "uncompensated"

Saga == INSTANCE TaskSaga
          WITH declared <- {t \in Tasks : status[t] # "undeclared"},
               needs <- deps,
               phase <- [t \in Tasks |-> PhaseOf(t)]

\* The machine implements the saga: read from the attempts and outcomes it
\* has recorded, every task runs at most once and after its dependencies are
\* done, and is compensated at most once and only after it failed.
ImplementsSaga == Saga!Spec

\* Once its goal has been concluded nothing is ever attempted for a task
\* again, although later commands on other goals' tasks keep recomputing its
\* status (and may take it from approval_denied back to awaiting_authority).
NoWorkAfterConclusion ==
    [][\A g \in Goals : goalStatus[g] \in GoalDispositions =>
          \A t \in GoalTasks(g) : attempts'[t] = attempts[t]]_vars

\* A finished task stays finished with the same result, a concluded goal
\* keeps its disposition, and a closed episode never changes again.
FinalStates ==
    [][/\ \A t \in Tasks :
            status[t] \in {"succeeded", "failed", "rolled_back", "rollback_failed"}
              => status'[t] = status[t]
       /\ \A g \in Goals : goalStatus[g] \in GoalDispositions
              => goalStatus'[g] = goalStatus[g]
       /\ episode # "closed"]_vars

===============================================================================
