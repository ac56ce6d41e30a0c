--------------------------- MODULE CapabilityDispatch ---------------------------
(***************************************************************************)
(* kernel/src/capability-dispatcher.ts: callers that drive one capability  *)
(* task through the durable executive episode and invoke its executor on   *)
(* the way.  A caller runs dispatchCapabilityTask ("execute"),             *)
(* reconcileIndeterminateCapability ("reconcile") or                       *)
(* dispatchRollbackAttempt ("rollback") on the same episode and task,      *)
(* because the task's identity is derived from its content (see            *)
(* outlookDraftDispatchIds in server/src/routes.ts).                       *)
(*                                                                         *)
(* The episode is the machine of ExecutiveEpisode with one goal and one    *)
(* task.  A command is one step (the journal's serial log, see             *)
(* ExecutiveJournal), applied at most once by its id; the state a caller   *)
(* goes on with is loaded in a later step.  A caller may die, or an        *)
(* awaited call of it reject, before any step.                             *)
(***************************************************************************)
EXTENDS Integers, Sequences, FiniteSets

CONSTANTS
    Callers,        \* requests and processes that work on the task
    Goal, Task,     \* the goal and task of the episode
    NoGoal,
    Times,          \* what deps.now() may return
    TaskShapes      \* the controls and rollback mode the task may declare

VARIABLES
    episode, goalStatus, goalOf, deps, shape, decision, status, active,
    attempts, learning,   \* the durable episode, as in ExecutiveEpisode
    applied,    \* ids of the commands the journal has committed
    caller,     \* caller -> where it stands
    invoked,    \* kind -> how often the executor has been invoked
    effect      \* kind -> whether the provider has carried the action out

machine == <<episode, goalStatus, goalOf, deps, shape, decision, status, active,
             attempts, learning>>
vars == <<machine, applied, caller, invoked, effect>>

Machine == INSTANCE ExecutiveEpisode WITH Goals <- {Goal}, Tasks <- {Task}

ASSUME TimesAssumption == Times \subseteq Nat
ASSUME GoalAssumption == NoGoal # Goal
ASSUME CallersAssumption == IsFiniteSet(Callers)
ASSUME ShapesAssumption ==
    TaskShapes \subseteq [rollback : Machine!RollbackModes,
                          pending : SUBSET (Machine!Kinds \X Machine!Gates)]

Kinds == Machine!Kinds
Ops == {"execute", "reconcile", "rollback"}
KindOf(op) == IF op = "rollback" THEN "rollback" ELSE "execution"

(***************************************************************************)
(* What a caller knows: the part of a loaded state it goes on to read.     *)
(***************************************************************************)
Latest(k) == attempts[Task][k][Len(attempts[Task][k])]

\* The receipt status of the latest attempt of kind k.
ReceiptOf(k) == IF attempts[Task][k] = <<>> THEN "none" ELSE Latest(k).receipt

Loaded == [opened |-> episode # "unopened",
           goal |-> goalStatus[Goal] # "undeclared",
           decided |-> {g \in Machine!Gates :
                          decision[Task]["execution"][g].verdict # "none"},
           status |-> status[Task],
           active |-> active[Task],
           receipt |-> ReceiptOf("execution")]

NotLoaded == [opened |-> FALSE, goal |-> FALSE, decided |-> {},
              status |-> "undeclared", active |-> Machine!NoAttempt,
              receipt |-> "none"]

\* next is the stage a caller goes on with once it has loaded the state,
\* supplied the decisions its input brings, result what the executor or the
\* provider lookup answered, returned how its last call ended.
Idle(disposition) ==
    [op |-> "none", pc |-> "idle", next |-> 1, supplied |-> {}, view |-> NotLoaded,
     result |-> "none", returned |-> disposition]

Return(c, disposition) == caller' = [caller EXCEPT ![c] = Idle(disposition)]
Goto(c, p) == caller' = [caller EXCEPT ![c].pc = p]

\* Loads the state again and goes on at stage n of the call's preparation.
Reload(c, n) == caller' = [caller EXCEPT ![c].pc = "load", ![c].next = n]

(***************************************************************************)
(* One command: a repeated one changes nothing, a rejected one throws.     *)
(***************************************************************************)
CommandId(c, stage) == <<caller[c].op, stage>>

Command(c, stage, Handler, Continue) ==
    \/ /\ CommandId(c, stage) \notin applied
       /\ Handler
       /\ applied' = applied \cup {CommandId(c, stage)}
       /\ Continue
    \/ /\ CommandId(c, stage) \in applied
       /\ Continue
       /\ UNCHANGED <<machine, applied>>
    \/ /\ CommandId(c, stage) \notin applied
       /\ ~ENABLED Handler
       /\ Return(c, "threw")
       /\ UNCHANGED <<machine, applied>>

Quiet == UNCHANGED <<machine, applied, invoked, effect>>

(***************************************************************************)
(* Starting, loading and dying.                                            *)
(***************************************************************************)
\* The gates an attempt of kind k may ask a decision for: the input of a call
\* brings decisions for any of them.
InputGates(k) == {g \in Machine!Gates : \E s \in TaskShapes : <<k, g>> \in s.pending}

Start(c, op, supplied) ==
    /\ caller[c].pc = "idle"
    /\ supplied # {} => op # "reconcile"
    /\ caller' = [caller EXCEPT ![c] = [Idle("none") EXCEPT
                     !.op = op, !.pc = "load", !.supplied = supplied]]
    /\ Quiet

Load(c) ==
    /\ caller[c].pc = "load"
    /\ caller' = [caller EXCEPT ![c].pc = "stage", ![c].view = Loaded]
    /\ Quiet

Die(c) ==
    /\ caller[c].pc # "idle"
    /\ Return(c, "threw")
    /\ Quiet

(***************************************************************************)
(* A call up to its attempt.  Its stages, each skipped when the state just *)
(* loaded does not need it: 1 to 3 bring the episode, goal and task into   *)
(* being (1, for a rollback: return at once), 4 and 5 record the decisions *)
(* the input supplies, 6 checks the task's status and prepares the         *)
(* attempt, 7 records its dispatch.                                        *)
(***************************************************************************)
Wanted(c, g) ==
    /\ g \in caller[c].supplied
    /\ CASE caller[c].op = "execute" -> /\ <<"execution", g>> \in shape[Task].pending
                                        /\ g \notin caller[c].view.decided
         [] caller[c].op = "rollback" -> caller[c].view.status = "rollback_blocked"
         [] OTHER -> FALSE

\* dispatchRollbackAttempt has nothing to roll back, or already has.
NothingToRollBack(c) ==
    \/ caller[c].view.status \in {"undeclared", "rolled_back", "rollback_failed"}
    \/ shape[Task].rollback # "capability"

Needed(c, n) ==
    CASE n = 1 -> \/ caller[c].op = "execute" /\ ~caller[c].view.opened
                  \/ caller[c].op = "rollback" /\ NothingToRollBack(c)
      [] n = 2 -> caller[c].op = "execute" /\ ~caller[c].view.goal
      [] n = 3 -> caller[c].op = "execute" /\ caller[c].view.status = "undeclared"
      [] n = 4 -> Wanted(c, "authority")
      [] n = 5 -> Wanted(c, "approval")
      [] OTHER -> TRUE

\* The first stage from next on that is needed is n.
AtStage(c, n) ==
    /\ caller[c].pc = "stage"
    /\ caller[c].next <= n
    /\ Needed(c, n)
    /\ \A m \in caller[c].next .. n - 1 : ~Needed(c, m)

Declare(c) ==
    /\ caller[c].op = "execute"
    /\ \/ /\ AtStage(c, 1)
          /\ Command(c, "open_episode", Machine!OpenEpisode, Reload(c, 2))
       \/ /\ AtStage(c, 2)
          /\ Command(c, "declare_goal", Machine!DeclareGoal(Goal), Reload(c, 3))
       \/ /\ AtStage(c, 3)
          /\ \E s \in TaskShapes, at \in Times :
                Command(c, "declare_task",
                        Machine!DeclareTask(Task, Goal, {}, s, at), Reload(c, 4))
    /\ UNCHANGED <<invoked, effect>>

Decide(c) ==
    /\ \E d \in Machine!Verdicts, at \in Times, k \in {KindOf(caller[c].op)} :
          \/ /\ AtStage(c, 4)
             /\ Command(c, "record_authority",
                        Machine!RecordAuthority(Task, k, d, at), Reload(c, 5))
          \/ /\ AtStage(c, 5)
             /\ Command(c, "record_approval",
                        Machine!RecordApproval(Task, k, d, at), Reload(c, 6))
    /\ UNCHANGED <<invoked, effect>>

\* Mutant of MayStart: a retry that resumes an attempt under way.
ResumesInFlight(op, s) ==
    s \in (IF op = "execute" THEN {"ready", "in_flight"} ELSE {"rollback_ready"})

MayStart(op, s) == s = IF op = "execute" THEN "ready" ELSE "rollback_ready"

\* Mutant of Answer: a pending outcome reported as a failure.
PendingIsFailure(op, s) ==
    CASE op = "execute" /\ s \in {"succeeded", "failed"} -> s
      [] op = "execute" /\ s = "awaiting_outcome" -> "failed"
      [] OTHER -> "not_ready"

\* What a call returns for a task it may not attempt.
Answer(op, s) ==
    CASE op = "execute" /\ s \in {"succeeded", "failed"} -> s
      [] op = "execute" /\ s = "awaiting_outcome" -> "indeterminate"
      [] OTHER -> "not_ready"

\* The early answers of a call.  Whether an executor is registered, offers
\* rollback, or a plan has its simulations is configuration: either may
\* happen.  (A capability without an executor is answered before the first
\* command and leaves no trace; it is not modelled.)
Decline(c) ==
    /\ \/ /\ AtStage(c, 1) /\ caller[c].op = "rollback"
          /\ Return(c, CASE caller[c].view.status = "undeclared" -> "threw"
                         [] caller[c].view.status \in {"rolled_back", "rollback_failed"}
                              -> caller[c].view.status
                         [] OTHER -> "no_rollback_needed")
       \/ /\ AtStage(c, 6) /\ caller[c].op # "reconcile"
          /\ ~MayStart(caller[c].op, caller[c].view.status)
          /\ Return(c, Answer(caller[c].op, caller[c].view.status))
       \/ /\ AtStage(c, 6) /\ caller[c].op = "execute"
          /\ MayStart(caller[c].op, caller[c].view.status)
          /\ Return(c, "simulation_required")
       \/ /\ caller[c].op = "rollback" /\ caller[c].pc = "stage" /\ caller[c].next = 1
          /\ ~Needed(c, 1)
          /\ Return(c, "no_rollback_executor")
    /\ Quiet

\* Mutant of AfterPrepare: the executor is invoked before the dispatch is durable.
InvokesAtOnce(c) == Goto(c, "invoke")

AfterPrepare(c) == Reload(c, 7)

Prepare(c) ==
    /\ AtStage(c, 6) /\ caller[c].op # "reconcile"
    /\ MayStart(caller[c].op, caller[c].view.status)
    /\ \E at \in Times :
          Command(c, "prepare_attempt",
                  Machine!PrepareAttempt(Task, KindOf(caller[c].op), at),
                  AfterPrepare(c))
    /\ UNCHANGED <<invoked, effect>>

(***************************************************************************)
(* The attempt: the dispatch is durable, then the executor is invoked, the *)
(* receipt is made durable, and then the outcome.  The attempt is the one  *)
(* the loaded state called active, of whatever kind.                       *)
(***************************************************************************)
Attempted(c) == caller[c].view.active

RecordDispatch(c) ==
    /\ AtStage(c, 7)
    /\ \/ /\ Attempted(c) = Machine!NoAttempt
          /\ Return(c, "threw") /\ UNCHANGED <<machine, applied>>
       \/ /\ Attempted(c) # Machine!NoAttempt
          /\ Command(c, "record_dispatch",
                     Machine!RecordDispatch(Task, Attempted(c).kind, Attempted(c).ordinal),
                     Goto(c, "invoke"))
    /\ UNCHANGED <<invoked, effect>>

\* The executor answers, throws (which is indeterminate too) or never does
\* (Die).  A success is real; a failure or no answer may hide an effect.
Invoke(c) ==
    /\ caller[c].pc = "invoke"
    /\ LET k == KindOf(caller[c].op) IN
       \E r \in Machine!ReceiptStatuses, done \in BOOLEAN :
          /\ r = "succeeded" => done
          /\ invoked' = [invoked EXCEPT ![k] = @ + 1]
          /\ effect' = [effect EXCEPT ![k] = @ \/ done]
          /\ caller' = [caller EXCEPT ![c].pc = "receipt", ![c].result = r]
    /\ UNCHANGED <<machine, applied>>

ObserveReceipt(c) ==
    /\ caller[c].pc = "receipt"
    /\ Command(c, "observe_receipt",
               Machine!ObserveReceipt(Task, Attempted(c).kind, Attempted(c).ordinal,
                                      caller[c].result),
               IF caller[c].result # "indeterminate" THEN Goto(c, "outcome")
               ELSE Return(c, IF caller[c].op = "execute" THEN "indeterminate"
                              ELSE "rollback_failed"))
    /\ UNCHANGED <<invoked, effect>>

Disposition(op, result) ==
    IF op = "rollback"
    THEN IF result = "succeeded" THEN "rolled_back" ELSE "rollback_failed"
    ELSE result

RecordOutcome(c) ==
    /\ caller[c].pc = "outcome"
    /\ \E at \in Times :
          Command(c, "record_outcome",
                  Machine!RecordOutcome(Task, Attempted(c).kind, Attempted(c).ordinal,
                     IF caller[c].result = "succeeded" THEN "accepted" ELSE "rejected", at),
                  Return(c, Disposition(caller[c].op, caller[c].result)))
    /\ UNCHANGED <<invoked, effect>>

(***************************************************************************)
(* reconcileIndeterminateCapability.                                       *)
(***************************************************************************)
Pending(c) ==
    /\ caller[c].view.status = "awaiting_outcome"
    /\ caller[c].view.receipt = "indeterminate"

\* Mutant of LookupStatus: whatever is not a failure is a success.
NotFailedIsSuccess(r) == IF r = "failed" THEN "failed" ELSE "succeeded"

\* The provider's answer; a lookup that throws is indeterminate as well.
LookupStatus(r) == r

\* The lookup tells what happened, or that it cannot tell.
Lookup(c) ==
    /\ AtStage(c, 6) /\ caller[c].op = "reconcile"
    /\ \/ ~Pending(c) /\ Return(c, IF caller[c].view.status = "undeclared"
                                   THEN "threw" ELSE "not_pending")
       \/ Pending(c) /\ Return(c, "not_reconcilable")
       \/ /\ Pending(c)
          /\ \E r \in Machine!ReceiptStatuses :
                /\ r = "succeeded" => effect["execution"]
                /\ r = "failed" => ~effect["execution"]
                /\ IF LookupStatus(r) = "indeterminate"
                   THEN Return(c, "still_indeterminate")
                   ELSE caller' = [caller EXCEPT ![c].pc = "reconcile",
                                                 ![c].result = LookupStatus(r)]
    /\ Quiet

ReconcileReceipt(c) ==
    /\ caller[c].pc = "reconcile"
    /\ Command(c, "reconcile_receipt",
               Machine!ReconcileReceipt(Task, "execution", 1, caller[c].result),
               caller' = [caller EXCEPT ![c].pc = "outcome",
                  ![c].view.active = [kind |-> "execution", ordinal |-> 1]])
    /\ UNCHANGED <<invoked, effect>>

(***************************************************************************)
(* The specification.                                                      *)
(***************************************************************************)
Init ==
    /\ Machine!Init
    /\ applied = {}
    /\ caller = [c \in Callers |-> Idle("none")]
    /\ invoked = [k \in Kinds |-> 0]
    /\ effect = [k \in Kinds |-> FALSE]

Next ==
    \E c \in Callers :
        \/ \E op \in Ops : \E supplied \in SUBSET InputGates(KindOf(op)) : Start(c, op, supplied)
        \/ Load(c)
        \/ Die(c)
        \/ Declare(c)
        \/ Decide(c)
        \/ Decline(c)
        \/ Prepare(c)
        \/ RecordDispatch(c)
        \/ Invoke(c)
        \/ ObserveReceipt(c)
        \/ RecordOutcome(c)
        \/ Lookup(c)
        \/ ReconcileReceipt(c)

Spec == Init /\ [][Next]_vars

(***************************************************************************)
(* Properties.                                                             *)
(***************************************************************************)
Dispositions == {"none", "threw", "succeeded", "failed", "indeterminate", "not_ready",
    "simulation_required", "rolled_back", "rollback_failed", "no_rollback_needed",
    "no_rollback_executor", "still_indeterminate", "not_reconcilable", "not_pending"}

Stages == {"open_episode", "declare_goal", "declare_task", "record_authority",
    "record_approval", "prepare_attempt", "record_dispatch", "observe_receipt",
    "reconcile_receipt", "record_outcome"}

Caller == [op : Ops \cup {"none"},
           pc : {"idle", "load", "stage", "invoke", "receipt", "outcome", "reconcile"},
           next : 1 .. 7,
           supplied : SUBSET Machine!Gates,
           view : [opened : BOOLEAN, goal : BOOLEAN, decided : SUBSET Machine!Gates,
                   status : Machine!TaskStatuses, active : Machine!AttemptRef,
                   receipt : Machine!ReceiptStatuses \cup {"none"}],
           result : Machine!ReceiptStatuses \cup {"none"},
           returned : Dispositions]

\* The episode stays well typed whatever the callers do, and each caller
\* holds what the locals and results of its call may hold.
TypeOK ==
    /\ Machine!TypeOK
    /\ applied \in SUBSET (Ops \X Stages)
    /\ caller \in [Callers -> Caller]
    /\ invoked \in [Kinds -> Nat]
    /\ effect \in [Kinds -> BOOLEAN]

\* An executor is invoked only for an attempt whose dispatch is durable, so
\* that whoever finds the episode after a crash knows an effect is possible.
DispatchedBeforeInvoked ==
    \A k \in Kinds : invoked[k] > 0 =>
        attempts[Task][k] # <<>> /\ attempts[Task][k][1].status # "prepared"

\* The episode never claims what did not happen: a task is "succeeded" only
\* if the provider carried its action out, and "rolled_back" only if it
\* carried out the compensation, whoever recorded the receipt.
SuccessIsReal ==
    /\ status[Task] = "succeeded" => effect["execution"]
    /\ status[Task] = "rolled_back" => effect["rollback"]

\* "Never re-invokes the executor" (packages/server/src/routes.ts:2903):
\* however often calls are retried, after whatever crash, the executor of the
\* action and that of its compensation are invoked at most once each.
InvokedOnce == \A k \in Kinds : invoked[k] <= 1

\* A call that finds an attempt under way or made, because it is a retry or
\* comes after a crash, never invokes: only calls that were under way together
\* may each invoke the executor, however many calls there are in the end.
NeverReinvoked == \A k \in Kinds : invoked[k] <= Cardinality(Callers)

\* Where the executors were invoked once, what a call returns is what the
\* episode durably says: its own outcome or one that another call or a
\* reconciliation recorded, and never one the episode does not hold.
ReportedIsDurable ==
    (\A k \in Kinds : invoked[k] <= 1) =>
        \A c \in Callers :
            /\ caller[c].returned \in {"succeeded", "rolled_back"} =>
                  status[Task] = caller[c].returned
            /\ caller[c].returned = "failed" =>
                  /\ Latest("execution").status = "concluded"
                  /\ Latest("execution").outcome = "rejected"
            /\ caller[c].returned \in {"indeterminate", "still_indeterminate"} =>
                  Latest("execution").status \notin {"prepared", "in_flight"}
            /\ caller[c].returned = "rollback_failed" =>
                  status[Task] \in {"rollback_failed", "awaiting_outcome"}
===============================================================================
