----------------------- MODULE CapabilityDispatchProofs -----------------------
(***************************************************************************)
(* Machine-checked proofs about CapabilityDispatch, for any number of      *)
(* callers, any times and any shape of the task.                           *)
(***************************************************************************)
EXTENDS CapabilityDispatch, FiniteSetTheorems, TLAPS

(***************************************************************************)
(* The theorems about the machine, for an episode of one goal and one task.*)
(* Machine and Episode are two instances of one module: the definitions of *)
(* the one are those of the other, which expanding both shows.             *)
(***************************************************************************)
Episode == INSTANCE ExecutiveEpisodeProofs WITH Goals <- {Goal}, Tasks <- {Task}

LEMMA SameNext == [Machine!Next]_(Machine!vars) => [Episode!Next]_(Episode!vars)
BY DEF Machine!Kinds, Episode!Kinds, Machine!Gates, Episode!Gates,
       Machine!RollbackModes, Episode!RollbackModes, Machine!NoExpiry,
       Episode!NoExpiry, Machine!Expiries, Episode!Expiries, Machine!vars,
       Episode!vars, Machine!PreRun, Episode!PreRun, Machine!TaskStatuses,
       Episode!TaskStatuses, Machine!IsTerminalTask, Episode!IsTerminalTask,
       Machine!Dispositions, Episode!Dispositions, Machine!GoalDispositions,
       Episode!GoalDispositions, Machine!ReceiptStatuses,
       Episode!ReceiptStatuses, Machine!Attempt, Episode!Attempt,
       Machine!Decision, Episode!Decision, Machine!LearningRecord,
       Episode!LearningRecord, Machine!AttemptRef, Episode!AttemptRef,
       Machine!NoDecision, Episode!NoDecision, Machine!NoAttempt,
       Episode!NoAttempt, Machine!NoShape, Episode!NoShape,
       Machine!IsExpired, Episode!IsExpired, Machine!PendingGates,
       Episode!PendingGates, Machine!ControlReadiness,
       Episode!ControlReadiness, Machine!DepsSucceeded,
       Episode!DepsSucceeded, Machine!RefreshTaskStatuses,
       Episode!RefreshTaskStatuses, Machine!RollbackStatus,
       Episode!RollbackStatus, Machine!RefreshControlStatus,
       Episode!RefreshControlStatus, Machine!InitialTaskStatus,
       Episode!InitialTaskStatus, Machine!MayAttempt, Episode!MayAttempt,
       Machine!TaskReadiness, Episode!TaskReadiness, Machine!IsOpen,
       Episode!IsOpen, Machine!Declared, Episode!Declared, Machine!Ordinals,
       Episode!Ordinals, Machine!AddAttempt, Episode!AddAttempt,
       Machine!PutAttempt, Episode!PutAttempt, Machine!OpenEpisode,
       Episode!OpenEpisode, Machine!DeclareGoal, Episode!DeclareGoal,
       Machine!DeclareTask, Episode!DeclareTask, Machine!RecordDecision,
       Episode!RecordDecision, Machine!RecordAuthority,
       Episode!RecordAuthority, Machine!RecordApproval,
       Episode!RecordApproval, Machine!PrepareAttempt,
       Episode!PrepareAttempt, Machine!RecordDispatch,
       Episode!RecordDispatch, Machine!ObserveReceipt,
       Episode!ObserveReceipt, Machine!Reconcilable, Episode!Reconcilable,
       Machine!ReconcileReceipt, Episode!ReconcileReceipt,
       Machine!OutcomeAllowed, Episode!OutcomeAllowed,
       Machine!StatusAfterOutcome, Episode!StatusAfterOutcome,
       Machine!RecordOutcome, Episode!RecordOutcome, Machine!GoalTasks,
       Episode!GoalTasks, Machine!HasOutcome, Episode!HasOutcome,
       Machine!ConcludeGoal, Episode!ConcludeGoal, Machine!Verdicts,
       Episode!Verdicts, Machine!TaskCommand, Episode!TaskCommand,
       Machine!AttemptCommand, Episode!AttemptCommand, Machine!Next,
       Episode!Next

LEMMA SameInit == Machine!Init => Episode!Init
BY DEF Machine!Init, Episode!Init, Machine!Kinds, Episode!Kinds,
       Machine!Gates, Episode!Gates, Machine!NoDecision, Episode!NoDecision,
       Machine!NoAttempt, Episode!NoAttempt, Machine!NoShape,
       Episode!NoShape, Machine!NoExpiry, Episode!NoExpiry

MachineOK == Machine!TypeOK /\ Machine!StatusMatchesAttempt

LEMMA SameState == Episode!Inv => MachineOK
BY DEF MachineOK, Episode!Inv,
       Machine!TypeOK, Episode!TypeOK, Machine!StatusMatchesAttempt,
       Episode!StatusMatchesAttempt, Machine!ConsistentTask,
       Episode!ConsistentTask, Machine!NotAttempted, Episode!NotAttempted,
       Machine!Executing, Episode!Executing, Machine!Succeeded,
       Episode!Succeeded, Machine!NotCompensated, Episode!NotCompensated,
       Machine!Compensating, Episode!Compensating, Machine!Compensated,
       Episode!Compensated, Machine!ExecutionFailed,
       Episode!ExecutionFailed, Machine!UnderWay, Episode!UnderWay,
       Machine!Under, Episode!Under, Machine!SingleAttempt,
       Episode!SingleAttempt, Machine!TaskStatuses, Episode!TaskStatuses,
       Machine!PreRun, Episode!PreRun, Machine!Kinds, Episode!Kinds,
       Machine!Gates, Episode!Gates, Machine!Attempt, Episode!Attempt,
       Machine!AttemptRef, Episode!AttemptRef, Machine!NoAttempt,
       Episode!NoAttempt, Machine!Decision, Episode!Decision,
       Machine!NoShape, Episode!NoShape, Machine!GoalDispositions,
       Episode!GoalDispositions, Machine!Dispositions, Episode!Dispositions,
       Machine!ReceiptStatuses, Episode!ReceiptStatuses,
       Machine!LearningRecord, Episode!LearningRecord, Machine!Expiries,
       Episode!Expiries, Machine!NoExpiry, Episode!NoExpiry

\* What is proved of the machine by itself holds of it here.
LEMMA MachineInit == Machine!Init => Episode!Inv
BY SameInit, Episode!InitInv, TimesAssumption, GoalAssumption, ShapesAssumption
   DEF Machine!RollbackModes, Episode!RollbackModes, Machine!Kinds, Episode!Kinds,
       Machine!Gates, Episode!Gates

LEMMA MachineStep ==
    Episode!Inv /\ [Machine!Next]_(Machine!vars) => Episode!Inv'
BY SameNext, Episode!NextInv, TimesAssumption, GoalAssumption, ShapesAssumption
   DEF Machine!RollbackModes, Episode!RollbackModes, Machine!Kinds, Episode!Kinds,
       Machine!Gates, Episode!Gates

(***************************************************************************)
(* The task's attempts.                                                    *)
(***************************************************************************)
Has(k) == attempts[Task][k] # <<>>
First(k) == attempts[Task][k][1]
Dispatched(k) == Has(k) /\ First(k).status # "prepared"
Observed(k) == Has(k) /\ First(k).status \in {"receipt_observed", "concluded"}

\* A task has at most one attempt of each kind; when the machine names one as
\* active it is the first; a compensation follows a concluded execution.
LEMMA OneOfAKind ==
    ASSUME MachineOK, NEW k \in Kinds
    PROVE  /\ Has(k) => /\ attempts[Task][k] \in Seq(Machine!Attempt)
                        /\ Len(attempts[Task][k]) = 1
                        /\ First(k) \in Machine!Attempt
           /\ Machine!Ordinals(Task, k) = IF Has(k) THEN {1} ELSE {}
           /\ active[Task] = Machine!NoAttempt
                \/ active[Task] \in [kind : Kinds, ordinal : {1}]
           /\ Has("rollback") => Has("execution") /\ First("execution").status = "concluded"
<1>1. attempts[Task] \in [Kinds -> Seq(Machine!Attempt)]
  BY DEF MachineOK, Machine!TypeOK, Kinds
<1>2. Machine!ConsistentTask(Task)
  BY DEF MachineOK, Machine!StatusMatchesAttempt
<1>3. /\ attempts[Task]["execution"] = <<>> \/ Len(attempts[Task]["execution"]) = 1
      /\ attempts[Task]["rollback"] = <<>> \/ Len(attempts[Task]["rollback"]) = 1
      /\ active[Task] = Machine!NoAttempt
           \/ active[Task] = [kind |-> "execution", ordinal |-> 1]
           \/ active[Task] = [kind |-> "rollback", ordinal |-> 1]
      /\ \/ attempts[Task]["rollback"] = <<>>
         \/ /\ Len(attempts[Task]["execution"]) = 1
            /\ attempts[Task]["execution"][1].status = "concluded"
  BY <1>2 DEF Machine!ConsistentTask, Machine!NotAttempted, Machine!Executing,
     Machine!Succeeded, Machine!NotCompensated, Machine!Compensating,
     Machine!Compensated, Machine!ExecutionFailed, Machine!UnderWay, Machine!Under,
     Machine!SingleAttempt
<1>4. k = "execution" \/ k = "rollback"
  BY DEF Kinds, Machine!Kinds
<1>5. Len(attempts[Task]["execution"]) = 1 => attempts[Task]["execution"] # <<>>
  OBVIOUS
<1>6. active[Task] = Machine!NoAttempt \/ active[Task] \in [kind : Kinds, ordinal : {1}]
  BY <1>3 DEF Kinds, Machine!Kinds
<1>7. Has(k) => Len(attempts[Task][k]) = 1
  BY <1>3, <1>4 DEF Has
<1>8. attempts[Task][k] = <<>> => 1 .. Len(attempts[Task][k]) = {}
  OBVIOUS
<1>9. Has(k) => 1 .. Len(attempts[Task][k]) = {1}
  <2>1. 1 .. 1 = {1}
    OBVIOUS
  <2> QED
    BY <1>7, <2>1
<1>10. Has(k) => attempts[Task][k][1] \in Machine!Attempt
  BY <1>1, <1>7
<1> QED
  BY <1>1, <1>3, <1>5, <1>6, <1>7, <1>8, <1>9, <1>10
  DEF Has, First, Machine!Ordinals

LEMMA AtMostOne == MachineOK => \A k \in Kinds : Has(k) => Len(attempts[Task][k]) = 1
BY OneOfAKind

LEMMA StillAtMostOne ==
    MachineOK' => \A k \in Kinds : Has(k)' => Len(attempts'[Task][k]) = 1
<1>1. (MachineOK => \A k \in Kinds : Has(k) => Len(attempts[Task][k]) = 1)'
  BY AtMostOne, PTL
<1> QED
  BY <1>1 DEF Kinds, Machine!Kinds

\* Replacing an attempt replaces the first of its kind, and nothing else.
LEMMA Replaced ==
    ASSUME MachineOK, NEW k \in Kinds, NEW n \in Machine!Ordinals(Task, k), NEW e,
           attempts' = Machine!PutAttempt(Task, k, n, e)
    PROVE  /\ n = 1 /\ Has(k) /\ First(k) \in Machine!Attempt
           /\ Has(k)' /\ First(k)' = e
           /\ \A j \in Kinds : j # k => attempts'[Task][j] = attempts[Task][j]
<1>1. n = 1 /\ Has(k) /\ First(k) \in Machine!Attempt
  BY OneOfAKind
<1>2. attempts[Task] \in [Kinds -> Seq(Machine!Attempt)] /\ Task \in DOMAIN attempts
  BY DEF MachineOK, Machine!TypeOK, Kinds
<1>3. attempts'[Task] = [attempts[Task] EXCEPT ![k][1] = e]
  BY <1>1, <1>2 DEF Machine!PutAttempt
<1>4. attempts'[Task][k] = [attempts[Task][k] EXCEPT ![1] = e]
  BY <1>2, <1>3
<1>5. Len(attempts[Task][k]) = 1 /\ attempts[Task][k] \in Seq(Machine!Attempt)
  BY <1>1, OneOfAKind
<1>6. DOMAIN attempts[Task][k] = {1}
  BY <1>5
<1>7. attempts'[Task][k][1] = e /\ DOMAIN attempts'[Task][k] = {1}
  BY <1>4, <1>6
<1>8. attempts'[Task][k] # <<>>
  BY <1>7
<1> QED
  BY <1>1, <1>2, <1>3, <1>7, <1>8 DEF Has, First

\* Preparing an attempt adds the first of its kind.
LEMMA Added ==
    ASSUME MachineOK, MachineOK', NEW k \in Kinds, NEW at,
           Machine!PrepareAttempt(Task, k, at)
    PROVE  /\ ~Has(k) /\ Has(k)'
           /\ First(k)' = [status |-> "prepared", preparedAt |-> at,
                           receipt |-> "none", outcome |-> "none"]
           /\ \A j \in Kinds : j # k => attempts'[Task][j] = attempts[Task][j]
<1> DEFINE e == [status |-> "prepared", preparedAt |-> at,
                 receipt |-> "none", outcome |-> "none"]
           s == attempts[Task][k]
<1>1. attempts' = Machine!AddAttempt(Task, k, e)
  BY DEF Machine!PrepareAttempt
<1>2. attempts[Task] \in [Kinds -> Seq(Machine!Attempt)] /\ Task \in DOMAIN attempts
  BY DEF MachineOK, Machine!TypeOK, Kinds
<1>3. /\ attempts'[Task][k] = Append(s, e)
      /\ \A j \in Kinds : j # k => attempts'[Task][j] = attempts[Task][j]
  BY <1>1, <1>2 DEF Machine!AddAttempt
<1>4. s \in Seq(Machine!Attempt)
  BY <1>2
<1>5. /\ Len(Append(s, e)) = Len(s) + 1
      /\ Append(s, e)[Len(s) + 1] = e
      /\ Len(s) \in Nat
      /\ s = <<>> <=> Len(s) = 0
  BY <1>4
<1>6. attempts'[Task][k] # <<>>
  BY <1>3, <1>4
<1>7. Len(attempts'[Task][k]) = 1
  BY <1>6, StillAtMostOne DEF Has
<1>8. Len(s) = 0
  BY <1>3, <1>5, <1>7
<1> QED
  BY <1>3, <1>5, <1>6, <1>8 DEF Has, First

(***************************************************************************)
(* The invariant.                                                          *)
(***************************************************************************)
OpOf(k) == IF k = "rollback" THEN "rollback" ELSE "execute"
FirstOfSome == [kind : Kinds, ordinal : {1}]

\* What the committed commands, the executors and the provider have done is
\* what the attempt of kind k shows, and an attempt shows no more than that.
Tracked(k) ==
    /\ <<OpOf(k), "prepare_attempt">> \in applied => Has(k)
    /\ <<OpOf(k), "record_dispatch">> \in applied => Dispatched(k)
    /\ Observed(k) => /\ <<OpOf(k), "record_dispatch">> \in applied
                      /\ <<OpOf(k), "observe_receipt">> \in applied
    /\ invoked[k] > 0 => Dispatched(k)
    /\ Has(k) => /\ First(k).receipt = "succeeded" => effect[k]
                 /\ First(k).outcome = "accepted" =>
                       First(k).status = "concluded" /\ First(k).receipt = "succeeded"

\* A caller that stands at r goes on from what has been committed (ap) and
\* carried out (ef).
Sound(r, ap, ef) ==
    /\ r \in Caller
    /\ r.view.active = Machine!NoAttempt \/ r.view.active \in FirstOfSome
    /\ r.pc # "idle" => r.op \in Ops
    /\ r.pc \in {"invoke", "receipt", "outcome"} => r.view.active # Machine!NoAttempt
    /\ r.pc \in {"receipt", "outcome", "reconcile"} => r.result \in Machine!ReceiptStatuses
    /\ r.pc \in {"load", "stage"} /\ r.next = 7 =>
          r.op # "reconcile" /\ <<r.op, "prepare_attempt">> \in ap
    /\ r.pc \in {"invoke", "receipt"} =>
          /\ r.op # "reconcile"
          /\ <<r.op, "prepare_attempt">> \in ap
          /\ <<r.op, "record_dispatch">> \in ap
    /\ r.pc = "receipt" /\ r.result = "succeeded" => ef[KindOf(r.op)]
    /\ r.pc = "reconcile" /\ r.result = "succeeded" => ef["execution"]

DispatchTypes ==
    /\ applied \in SUBSET (Ops \X Stages)
    /\ caller \in [Callers -> Caller]
    /\ invoked \in [Kinds -> Nat]
    /\ effect \in [Kinds -> BOOLEAN]

DispatchInv ==
    /\ DispatchTypes
    /\ \A c \in Callers : Sound(caller[c], applied, effect)
    /\ \A k \in Kinds : Tracked(k)

Grows == applied \subseteq applied' /\ \A k \in Kinds : effect[k] => effect'[k]

LEMMA KindFacts ==
    /\ Kinds = {"execution", "rollback"}
    /\ \A op \in Ops : KindOf(op) \in Kinds
    /\ \A op \in Ops : op # "reconcile" => OpOf(KindOf(op)) = op
    /\ \A k \in Kinds : OpOf(k) \in Ops /\ KindOf(OpOf(k)) = k
BY DEF Kinds, Machine!Kinds, Ops, KindOf, OpOf

LEMMA IdleIsSound ==
    ASSUME NEW d \in Dispositions, NEW ap, NEW ef
    PROVE  Sound(Idle(d), ap, ef)
<1>1. NotLoaded \in [opened : BOOLEAN, goal : BOOLEAN, decided : SUBSET Machine!Gates,
                     status : Machine!TaskStatuses, active : Machine!AttemptRef,
                     receipt : Machine!ReceiptStatuses \cup {"none"}]
  BY DEF NotLoaded, Machine!TaskStatuses, Machine!AttemptRef, Machine!NoAttempt
<1>2. NotLoaded.active = Machine!NoAttempt
  BY DEF NotLoaded
<1>3. Idle(d) \in Caller
  BY <1>1 DEF Idle, Caller
<1>4. Idle(d).pc = "idle" /\ Idle(d).view = NotLoaded
  BY DEF Idle
<1> QED
  BY <1>2, <1>3, <1>4 DEF Sound

\* A step of caller c leaves every other caller where it stood.
LEMMA OneMoves ==
    ASSUME DispatchInv, NEW c \in Callers, NEW r, Grows,
           caller' = [caller EXCEPT ![c] = r], Sound(r, applied', effect')
    PROVE  /\ caller' \in [Callers -> Caller]
           /\ \A d \in Callers : Sound(caller'[d], applied', effect')
<1>1. r \in Caller
  BY DEF Sound
<1>2. caller \in [Callers -> Caller]
  BY DEF DispatchInv, DispatchTypes
<1>3. ASSUME NEW d \in Callers
      PROVE  Sound(caller'[d], applied', effect')
  <2>1. CASE d = c
    BY <1>2, <2>1
  <2>2. CASE d # c
    <3>1. caller'[d] = caller[d] /\ Sound(caller[d], applied, effect)
      BY <1>2, <2>2 DEF DispatchInv
    <3>2. \A op \in Ops : effect[KindOf(op)] => effect'[KindOf(op)]
      BY KindFacts DEF Grows
    <3>3. effect["execution"] => effect'["execution"]
      BY KindFacts DEF Grows
    <3> QED
      BY <3>1, <3>2, <3>3 DEF Sound, Grows
  <2> QED
    BY <2>1, <2>2
<1> QED
  BY <1>1, <1>2, <1>3

\* What is tracked of an attempt outlasts a command about something else.
LEMMA StillTracked ==
    ASSUME NEW k \in Kinds, Tracked(k), attempts'[Task][k] = attempts[Task][k],
           NEW o, NEW stage,
           applied' = applied \/ applied' = applied \cup {<<o, stage>>},
           o = OpOf(k) => stage \notin {"prepare_attempt", "record_dispatch"},
           invoked'[k] = invoked[k], effect[k] => effect'[k]
    PROVE  Tracked(k)'
<1>1. /\ Has(k)' = Has(k) /\ First(k)' = First(k)
      /\ Dispatched(k)' = Dispatched(k) /\ Observed(k)' = Observed(k)
  BY DEF Has, First, Dispatched, Observed
<1>2. /\ <<OpOf(k), "prepare_attempt">> \in applied' => <<OpOf(k), "prepare_attempt">> \in applied
      /\ <<OpOf(k), "record_dispatch">> \in applied' => <<OpOf(k), "record_dispatch">> \in applied
      /\ applied \subseteq applied'
  OBVIOUS
<1> HIDE DEF Has, First, Dispatched, Observed
<1> QED
  BY <1>1, <1>2 DEF Tracked, OpOf

\* A step of caller c that touches no attempt.
LEMMA AttemptsUntouched ==
    ASSUME DispatchInv, NEW c \in Callers, NEW r, NEW o \in Ops, NEW stage \in Stages,
           stage \notin {"prepare_attempt", "record_dispatch"},
           attempts' = attempts, UNCHANGED <<invoked, effect>>,
           applied' = applied \/ applied' = applied \cup {<<o, stage>>},
           caller' = [caller EXCEPT ![c] = r], Sound(r, applied', effect')
    PROVE  DispatchInv'
<1>1. Grows
  BY DEF Grows
<1>2. /\ caller' \in [Callers -> Caller]
      /\ \A d \in Callers : Sound(caller'[d], applied', effect')
  BY <1>1, OneMoves
<1>3. \A k \in Kinds : Tracked(k)'
  BY StillTracked DEF DispatchInv
<1>4. DispatchTypes'
  BY <1>2 DEF DispatchInv, DispatchTypes, Kinds
<1> QED
  BY <1>2, <1>3, <1>4 DEF DispatchInv, Kinds

\* A step of caller c that changes what it knows and nothing else.
LEMMA QuietStep ==
    ASSUME DispatchInv, NEW c \in Callers, NEW r, attempts' = attempts,
           UNCHANGED <<applied, invoked, effect>>,
           caller' = [caller EXCEPT ![c] = r], Sound(r, applied, effect)
    PROVE  DispatchInv'
<1>1. "execute" \in Ops
  BY DEF Ops
<1>2. "open_episode" \in Stages
  BY DEF Stages
<1>3. "open_episode" \notin {"prepare_attempt", "record_dispatch"}
  OBVIOUS
<1>4. applied' = applied /\ effect' = effect
  OBVIOUS
<1>5. Sound(r, applied', effect')
  BY <1>4
<1> QED
  BY <1>1, <1>2, <1>3, <1>4, <1>5, AttemptsUntouched

LEMMA ReturnStep ==
    ASSUME DispatchInv, NEW c \in Callers, NEW d \in Dispositions, Return(c, d),
           attempts' = attempts, UNCHANGED <<applied, invoked, effect>>
    PROVE  DispatchInv'
BY QuietStep, IdleIsSound DEF Return

(***************************************************************************)
(* The steps that change no attempt.                                       *)
(***************************************************************************)
LEMMA StartStep ==
    ASSUME DispatchInv, NEW c \in Callers, NEW op \in Ops,
           NEW supplied \in SUBSET InputGates(KindOf(op)), Start(c, op, supplied)
    PROVE  DispatchInv'
<1> DEFINE r == [Idle("none") EXCEPT !.op = op, !.pc = "load", !.supplied = supplied]
<1>1. supplied \in SUBSET Machine!Gates
  BY DEF InputGates
<1>2. "none" \in Dispositions
  BY DEF Dispositions
<1>3. Sound(Idle("none"), applied, effect) /\ Idle("none").view = NotLoaded
  BY <1>2, IdleIsSound DEF Idle
<1>4. r \in Caller
  BY <1>1, <1>3 DEF Sound, Caller
<1>5. r.pc = "load" /\ r.next = 1 /\ r.op = op /\ r.view.active = Machine!NoAttempt
  BY DEF Idle, NotLoaded
<1>6. Sound(r, applied, effect)
  <2> HIDE DEF r
  <2> QED
    BY <1>4, <1>5 DEF Sound
<1>7. /\ caller' = [caller EXCEPT ![c] = r]
      /\ attempts' = attempts /\ UNCHANGED <<applied, invoked, effect>>
  BY DEF Start, Quiet, machine
<1> HIDE DEF r
<1> QED
  BY <1>6, <1>7, QuietStep

LEMMA LoadStep ==
    ASSUME MachineOK, DispatchInv, NEW c \in Callers, Load(c)
    PROVE  DispatchInv'
<1> DEFINE r == [caller[c] EXCEPT !.pc = "stage", !.view = Loaded]
<1>1. Sound(caller[c], applied, effect) /\ caller[c].pc = "load" /\ caller[c] \in Caller
  BY DEF DispatchInv, Load, Sound
<1>2. Loaded \in [opened : BOOLEAN, goal : BOOLEAN, decided : SUBSET Machine!Gates,
                  status : Machine!TaskStatuses, active : Machine!AttemptRef,
                  receipt : Machine!ReceiptStatuses \cup {"none"}]
  <2>1. status[Task] \in Machine!TaskStatuses /\ active[Task] \in Machine!AttemptRef
    BY DEF MachineOK, Machine!TypeOK
  <2>2. ReceiptOf("execution") \in Machine!ReceiptStatuses \cup {"none"}
    <3>1. CASE Has("execution")
      <4>1. Latest("execution") = First("execution")
        BY <3>1, OneOfAKind, KindFacts DEF Latest, First
      <4>2. First("execution") \in Machine!Attempt
        BY <3>1, OneOfAKind, KindFacts
      <4> QED
        BY <3>1, <4>1, <4>2 DEF ReceiptOf, Has, Machine!Attempt
    <3>2. CASE ~Has("execution")
      BY <3>2 DEF Has, ReceiptOf
    <3> QED
      BY <3>1, <3>2
  <2>3. {g \in Machine!Gates : decision[Task]["execution"][g].verdict # "none"}
           \in SUBSET Machine!Gates
    OBVIOUS
  <2> QED
    BY <2>1, <2>2, <2>3 DEF Loaded
<1>3. Loaded.active = active[Task]
  BY DEF Loaded
<1>4. active[Task] = Machine!NoAttempt \/ active[Task] \in FirstOfSome
  BY OneOfAKind, KindFacts DEF FirstOfSome
<1>5. r \in Caller
  BY <1>1, <1>2 DEF Caller
<1>6. /\ r.pc = "stage" /\ r.op = caller[c].op /\ r.next = caller[c].next
      /\ r.view.active = active[Task]
  BY <1>1, <1>3 DEF Caller
<1>7. Sound(r, applied, effect)
  <2> HIDE DEF r
  <2> QED
    BY <1>1, <1>4, <1>5, <1>6 DEF Sound
<1>8. /\ caller' = [caller EXCEPT ![c] = r]
      /\ attempts' = attempts /\ UNCHANGED <<applied, invoked, effect>>
  BY DEF Load, Quiet, machine
<1> HIDE DEF r
<1> QED
  BY <1>7, <1>8, QuietStep

LEMMA DieStep ==
    ASSUME DispatchInv, NEW c \in Callers, Die(c)
    PROVE  DispatchInv'
BY ReturnStep DEF Die, Quiet, machine, Dispositions

LEMMA DeclineStep ==
    ASSUME DispatchInv, NEW c \in Callers, Decline(c)
    PROVE  DispatchInv'
<1>1. \A op, s : Answer(op, s) \in Dispositions
  BY DEF Answer, Dispositions
<1>2. \A s : (CASE s = "undeclared" -> "threw"
                [] s \in {"rolled_back", "rollback_failed"} -> s
                [] OTHER -> "no_rollback_needed") \in Dispositions
  BY DEF Dispositions
<1>3. \E d \in Dispositions : Return(c, d)
  BY <1>1, <1>2 DEF Decline, Dispositions
<1>4. attempts' = attempts /\ UNCHANGED <<applied, invoked, effect>>
  BY DEF Decline, Quiet, machine
<1> QED
  BY <1>3, <1>4, ReturnStep

LEMMA LookupStep ==
    ASSUME DispatchInv, NEW c \in Callers, Lookup(c)
    PROVE  DispatchInv'
<1>1. attempts' = attempts /\ UNCHANGED <<applied, invoked, effect>>
  BY DEF Lookup, Quiet, machine
<1>2. CASE \E d \in Dispositions : Return(c, d)
  BY <1>1, <1>2, ReturnStep
<1>3. ASSUME NEW q \in Machine!ReceiptStatuses, q = "succeeded" => effect["execution"],
             caller' = [caller EXCEPT ![c].pc = "reconcile", ![c].result = q]
      PROVE  DispatchInv'
  <2> DEFINE r == [caller[c] EXCEPT !.pc = "reconcile", !.result = q]
  <2>1. /\ Sound(caller[c], applied, effect) /\ caller[c].pc = "stage"
        /\ caller[c] \in Caller
    BY DEF DispatchInv, Lookup, Sound, AtStage
  <2>2. r \in Caller
    BY <2>1 DEF Caller
  <2>3. /\ r.pc = "reconcile" /\ r.result = q /\ r.op = caller[c].op
        /\ r.view = caller[c].view
    BY <2>1 DEF Caller
  <2>4. Sound(r, applied, effect)
    <3> HIDE DEF r
    <3> QED
      BY <1>3, <2>1, <2>2, <2>3 DEF Sound
  <2>5. caller' = [caller EXCEPT ![c] = r]
    BY <1>3 DEF DispatchInv, DispatchTypes
  <2> HIDE DEF r
  <2> QED
    BY <1>1, <2>4, <2>5, QuietStep
<1> QED
  BY <1>2, <1>3 DEF Lookup, LookupStatus, Dispositions

\* A command about no attempt, after which the caller loads the state again.
LEMMA ReloadStep ==
    ASSUME DispatchInv, NEW c \in Callers, caller[c].pc = "stage",
           NEW stage \in Stages \ {"prepare_attempt", "record_dispatch"}, NEW n \in 1 .. 6,
           attempts' = attempts, UNCHANGED <<invoked, effect>>,
           applied' = applied \/ applied' = applied \cup {CommandId(c, stage)},
           Reload(c, n)
    PROVE  DispatchInv'
<1> DEFINE r == [caller[c] EXCEPT !.pc = "load", !.next = n]
<1>1. /\ Sound(caller[c], applied, effect) /\ caller[c] \in Caller
      /\ caller[c].op \in Ops
  BY DEF DispatchInv, Sound
<1>2. r \in Caller
  <2>1. n \in 1 .. 7
    OBVIOUS
  <2> QED
    BY <1>1, <2>1 DEF Caller
<1>3. /\ r.pc = "load" /\ r.next = n /\ r.op = caller[c].op
      /\ r.view = caller[c].view /\ n # 7
  BY <1>1 DEF Caller
<1>4. Sound(r, applied', effect')
  <2> HIDE DEF r
  <2> QED
    BY <1>1, <1>2, <1>3 DEF Sound
<1>5. caller' = [caller EXCEPT ![c] = r]
  BY DEF Reload, DispatchInv, DispatchTypes
<1> HIDE DEF r
<1> QED
  BY <1>1, <1>4, <1>5, AttemptsUntouched DEF CommandId

LEMMA DeclareStep ==
    ASSUME DispatchInv, NEW c \in Callers, Declare(c)
    PROVE  DispatchInv'
<1> DEFINE Done(stage, n) ==
             /\ attempts' = attempts
             /\ applied' = applied \/ applied' = applied \cup {CommandId(c, stage)}
             /\ Reload(c, n)
           Threw == Return(c, "threw") /\ attempts' = attempts /\ applied' = applied
<1>1. caller[c].pc = "stage" /\ UNCHANGED <<invoked, effect>>
  BY DEF Declare, AtStage
<1>2. CASE Command(c, "open_episode", Machine!OpenEpisode, Reload(c, 2))
  <2>1. Machine!OpenEpisode => attempts' = attempts
    BY DEF Machine!OpenEpisode
  <2>2. Done("open_episode", 2) \/ Threw
    BY <1>2, <2>1 DEF Command, machine
  <2> QED
    BY <1>1, <2>2, ReloadStep, ReturnStep DEF Stages, Dispositions
<1>3. CASE Command(c, "declare_goal", Machine!DeclareGoal(Goal), Reload(c, 3))
  <2>1. Machine!DeclareGoal(Goal) => attempts' = attempts
    BY DEF Machine!DeclareGoal
  <2>2. Done("declare_goal", 3) \/ Threw
    BY <1>3, <2>1 DEF Command, machine
  <2> QED
    BY <1>1, <2>2, ReloadStep, ReturnStep DEF Stages, Dispositions
<1>4. ASSUME NEW s \in TaskShapes, NEW at \in Times,
             Command(c, "declare_task",
                     Machine!DeclareTask(Task, Goal, {}, s, at), Reload(c, 4))
      PROVE  DispatchInv'
  <2>1. Machine!DeclareTask(Task, Goal, {}, s, at) => attempts' = attempts
    BY DEF Machine!DeclareTask
  <2>2. Done("declare_task", 4) \/ Threw
    BY <1>4, <2>1 DEF Command, machine
  <2> QED
    BY <1>1, <2>2, ReloadStep, ReturnStep DEF Stages, Dispositions
<1> QED
  BY <1>2, <1>3, <1>4 DEF Declare

LEMMA DecideStep ==
    ASSUME DispatchInv, NEW c \in Callers, Decide(c)
    PROVE  DispatchInv'
<1> DEFINE Done(stage, n) ==
             /\ attempts' = attempts
             /\ applied' = applied \/ applied' = applied \cup {CommandId(c, stage)}
             /\ Reload(c, n)
           Threw == Return(c, "threw") /\ attempts' = attempts /\ applied' = applied
<1>1. caller[c].pc = "stage" /\ UNCHANGED <<invoked, effect>>
  BY DEF Decide, AtStage
<1>2. ASSUME NEW d \in Machine!Verdicts, NEW at \in Times, NEW k,
             Command(c, "record_authority",
                     Machine!RecordAuthority(Task, k, d, at), Reload(c, 5))
      PROVE  DispatchInv'
  <2>1. Machine!RecordAuthority(Task, k, d, at) => attempts' = attempts
    BY DEF Machine!RecordAuthority, Machine!RecordDecision
  <2>2. Done("record_authority", 5) \/ Threw
    BY <1>2, <2>1 DEF Command, machine
  <2> QED
    BY <1>1, <2>2, ReloadStep, ReturnStep DEF Stages, Dispositions
<1>3. ASSUME NEW d \in Machine!Verdicts, NEW at \in Times, NEW k,
             Command(c, "record_approval",
                     Machine!RecordApproval(Task, k, d, at), Reload(c, 6))
      PROVE  DispatchInv'
  <2>1. Machine!RecordApproval(Task, k, d, at) => attempts' = attempts
    BY DEF Machine!RecordApproval, Machine!RecordDecision
  <2>2. Done("record_approval", 6) \/ Threw
    BY <1>3, <2>1 DEF Command, machine
  <2> QED
    BY <1>1, <2>2, ReloadStep, ReturnStep DEF Stages, Dispositions
<1> QED
  BY <1>2, <1>3 DEF Decide

(***************************************************************************)
(* The steps of an attempt.                                                *)
(***************************************************************************)
\* A step of caller c that changes the attempt of one kind.
LEMMA AttemptChanged ==
    ASSUME DispatchInv, NEW c \in Callers, NEW k \in Kinds, NEW r,
           NEW o \in Ops, NEW stage \in Stages,
           applied' = applied \cup {<<o, stage>>},
           stage \in {"prepare_attempt", "record_dispatch"} => o = OpOf(k),
           UNCHANGED <<invoked, effect>>,
           \A j \in Kinds : j # k => attempts'[Task][j] = attempts[Task][j],
           Tracked(k)', caller' = [caller EXCEPT ![c] = r], Sound(r, applied', effect')
    PROVE  DispatchInv'
<1>1. Grows
  BY DEF Grows
<1>2. /\ caller' \in [Callers -> Caller]
      /\ \A d \in Callers : Sound(caller'[d], applied', effect')
  BY <1>1, OneMoves
<1>3. ASSUME NEW j \in Kinds, j # k
      PROVE  Tracked(j)'
  <2>1. OpOf(j) # OpOf(k)
    BY <1>3, KindFacts
  <2> QED
    BY <1>3, <2>1, StillTracked DEF DispatchInv
<1>4. DispatchTypes'
  BY <1>2 DEF DispatchInv, DispatchTypes, Kinds
<1> QED
  BY <1>2, <1>3, <1>4 DEF DispatchInv, Kinds

LEMMA PrepareStep ==
    ASSUME MachineOK, MachineOK', DispatchInv, NEW c \in Callers, Prepare(c)
    PROVE  DispatchInv'
<1> DEFINE r == [caller[c] EXCEPT !.pc = "load", !.next = 7]
<1>1. /\ Sound(caller[c], applied, effect) /\ caller[c] \in Caller
      /\ caller[c].pc = "stage" /\ UNCHANGED <<invoked, effect>>
      /\ caller[c].op \in Ops /\ caller[c].op # "reconcile"
  BY DEF DispatchInv, Sound, Prepare, AtStage
<1>2. PICK op \in Ops, k \in Kinds : op = caller[c].op /\ k = KindOf(op) /\ OpOf(k) = op
  BY <1>1, KindFacts
<1>3. PICK at \in Times :
        Command(c, "prepare_attempt", Machine!PrepareAttempt(Task, k, at), AfterPrepare(c))
  BY <1>2 DEF Prepare
<1>4. r \in Caller
  <2>1. 7 \in 1 .. 7
    OBVIOUS
  <2> QED
    BY <1>1, <2>1 DEF Caller
<1>5. r.pc = "load" /\ r.next = 7 /\ r.op = op /\ r.view = caller[c].view
  BY <1>1, <1>2 DEF Caller
<1>6. ASSUME <<op, "prepare_attempt">> \in applied', applied \subseteq applied'
      PROVE  Sound(r, applied', effect')
  <2> HIDE DEF r
  <2> QED
    BY <1>1, <1>2, <1>4, <1>5, <1>6 DEF Sound
<1>7. AfterPrepare(c) => caller' = [caller EXCEPT ![c] = r]
  BY DEF AfterPrepare, Reload, DispatchInv, DispatchTypes
<1>8. CASE /\ Machine!PrepareAttempt(Task, k, at)
           /\ applied' = applied \cup {<<op, "prepare_attempt">>}
           /\ AfterPrepare(c)
  <2>1. /\ ~Has(k) /\ Has(k)'
        /\ First(k)' = [status |-> "prepared", preparedAt |-> at,
                        receipt |-> "none", outcome |-> "none"]
        /\ \A j \in Kinds : j # k => attempts'[Task][j] = attempts[Task][j]
    BY <1>2, <1>8, Added
  <2>2. ~Dispatched(k) /\ ~Observed(k)'
    BY <2>1 DEF Dispatched, Observed
  <2>3. Tracked(k)
    BY <1>2 DEF DispatchInv
  <2>4. Tracked(k)'
    <3>1. <<op, "record_dispatch">> \notin applied /\ ~(invoked[k] > 0)
      BY <1>2, <2>2, <2>3 DEF Tracked
    <3>2. <<op, "record_dispatch">> \notin applied'
      BY <3>1, <1>8
    <3> QED
      BY <1>1, <1>2, <2>1, <2>2, <3>1, <3>2 DEF Tracked, OpOf
  <2>5. Sound(r, applied', effect')
    BY <1>6, <1>8
  <2>6. caller' = [caller EXCEPT ![c] = r]
    BY <1>7, <1>8
  <2>7. "prepare_attempt" \in Stages
    BY DEF Stages
  <2> HIDE DEF r
  <2> QED
    BY <1>1, <1>2, <1>8, <2>1, <2>4, <2>5, <2>6, <2>7, AttemptChanged
<1>9. CASE /\ <<op, "prepare_attempt">> \in applied
           /\ AfterPrepare(c)
           /\ attempts' = attempts /\ applied' = applied
  <2>1. Sound(r, applied, effect)
    BY <1>1, <1>6, <1>9
  <2>2. caller' = [caller EXCEPT ![c] = r]
    BY <1>7, <1>9
  <2> HIDE DEF r
  <2> QED
    BY <1>1, <1>9, <2>1, <2>2, QuietStep
<1>10. CASE Return(c, "threw") /\ attempts' = attempts /\ applied' = applied
  BY <1>1, <1>10, ReturnStep DEF Dispositions
<1> QED
  BY <1>2, <1>3, <1>8, <1>9, <1>10 DEF Command, CommandId, machine

\* The attempt that an "execute" or "rollback" call is about to dispatch, or
\* to record the first receipt of, is one of its own kind: an execution has
\* ended once a compensation is prepared.
LEMMA OwnKind ==
    ASSUME MachineOK, DispatchInv, NEW op \in Ops, op # "reconcile", NEW k \in Kinds,
           <<op, "prepare_attempt">> \in applied,
           Has(k), First(k).status \in {"prepared", "in_flight"},
           \/ <<op, "record_dispatch">> \notin applied
           \/ <<op, "observe_receipt">> \notin applied
    PROVE  k = KindOf(op) /\ OpOf(k) = op
<1>1. Has("rollback") => Has("execution") /\ First("execution").status = "concluded"
  BY OneOfAKind
<1>2. Tracked("execution") /\ Tracked("rollback")
  BY KindFacts DEF DispatchInv
<1>3. CASE op = "rollback"
  <2>1. Has("rollback")
    BY <1>2, <1>3 DEF Tracked, OpOf
  <2>2. k # "execution"
    BY <1>1, <2>1
  <2> QED
    BY <1>3, <2>2, KindFacts DEF KindOf, OpOf
<1>4. CASE op = "execute"
  <2>1. ~Observed("execution")
    BY <1>2, <1>4 DEF Tracked, OpOf
  <2>2. ~Has("rollback")
    BY <1>1, <2>1 DEF Observed
  <2> QED
    BY <1>4, <2>2, KindFacts DEF KindOf, OpOf
<1> QED
  BY <1>3, <1>4 DEF Ops

LEMMA RecordDispatchStep ==
    ASSUME MachineOK, DispatchInv, NEW c \in Callers, RecordDispatch(c)
    PROVE  DispatchInv'
<1> DEFINE r == [caller[c] EXCEPT !.pc = "invoke"]
<1>1. /\ Sound(caller[c], applied, effect) /\ caller[c] \in Caller
      /\ caller[c].pc = "stage" /\ UNCHANGED <<invoked, effect>>
      /\ caller[c].op \in Ops
  BY DEF DispatchInv, Sound, RecordDispatch, AtStage
<1>2. caller[c].next = 7
  <2>1. caller[c].next \in 1 .. 7
    BY <1>1 DEF Caller
  <2>2. ~(caller[c].next \leq 6)
    <3>1. Needed(c, 6)
      BY DEF Needed
    <3>2. 6 \in caller[c].next .. 7 - 1 => ~Needed(c, 6)
      BY DEF RecordDispatch, AtStage
    <3> QED
      BY <2>1, <3>1, <3>2
  <2> QED
    BY <2>1, <2>2
<1>3. caller[c].op # "reconcile" /\ <<caller[c].op, "prepare_attempt">> \in applied
  BY <1>1, <1>2 DEF Sound
<1>4. r \in Caller
  BY <1>1 DEF Caller
<1>5. r.pc = "invoke" /\ r.op = caller[c].op /\ r.view = caller[c].view
  BY <1>1 DEF Caller
<1>6. Goto(c, "invoke") => caller' = [caller EXCEPT ![c] = r]
  BY DEF Goto, DispatchInv, DispatchTypes
<1>7. CASE Return(c, "threw") /\ attempts' = attempts /\ applied' = applied
  BY <1>1, <1>7, ReturnStep DEF Dispositions
<1>8. ASSUME Attempted(c) # Machine!NoAttempt
      PROVE  Attempted(c) \in FirstOfSome
  BY <1>1, <1>8 DEF Sound, Attempted
<1>9. ASSUME <<caller[c].op, "record_dispatch">> \in applied', applied \subseteq applied',
             Attempted(c) # Machine!NoAttempt
      PROVE  Sound(r, applied', effect')
  <2> HIDE DEF r
  <2> QED
    BY <1>1, <1>3, <1>4, <1>5, <1>8, <1>9 DEF Sound, Attempted
<1>10. CASE /\ Attempted(c) # Machine!NoAttempt
            /\ <<caller[c].op, "record_dispatch">> \in applied
            /\ Goto(c, "invoke") /\ attempts' = attempts /\ applied' = applied
  <2>1. Sound(r, applied, effect) /\ caller' = [caller EXCEPT ![c] = r]
    BY <1>1, <1>6, <1>9, <1>10
  <2> HIDE DEF r
  <2> QED
    BY <1>1, <1>10, <2>1, QuietStep
<1>11. CASE /\ Attempted(c) # Machine!NoAttempt
            /\ <<caller[c].op, "record_dispatch">> \notin applied
            /\ Machine!RecordDispatch(Task, Attempted(c).kind, Attempted(c).ordinal)
            /\ applied' = applied \cup {<<caller[c].op, "record_dispatch">>}
            /\ Goto(c, "invoke")
  <2>1. PICK op \in Ops, k \in Kinds, n \in {1} :
           op = caller[c].op /\ k = Attempted(c).kind /\ n = Attempted(c).ordinal
    BY <1>1, <1>8, <1>11 DEF FirstOfSome
  <2>2. PICK a \in Machine!Attempt : n \in Machine!Ordinals(Task, k) /\ a = First(k) /\ Has(k)
    BY <1>11, <2>1, OneOfAKind DEF Machine!RecordDispatch
  <2>3. /\ a.status = "prepared"
        /\ attempts' = Machine!PutAttempt(Task, k, n, [a EXCEPT !.status = "in_flight"])
    BY <1>11, <2>1, <2>2 DEF Machine!RecordDispatch, First
  <2>4. OpOf(k) = op
    BY <1>3, <1>11, <2>1, <2>2, <2>3, OwnKind
  <2>5. /\ Has(k)' /\ First(k)' = [a EXCEPT !.status = "in_flight"]
        /\ \A j \in Kinds : j # k => attempts'[Task][j] = attempts[Task][j]
    BY <2>2, <2>3, Replaced
  <2>6. /\ First(k)'.status = "in_flight"
        /\ First(k)'.receipt = First(k).receipt /\ First(k)'.outcome = First(k).outcome
    BY <2>2, <2>5 DEF Machine!Attempt
  <2>7. Tracked(k)'
    <3>1. Tracked(k)
      BY DEF DispatchInv
    <3>2. Dispatched(k)' /\ ~Observed(k)'
      BY <2>5, <2>6 DEF Dispatched, Observed
    <3>3. First(k)'.outcome # "accepted"
      BY <2>2, <2>3, <2>6, <3>1 DEF Tracked
    <3>4. First(k)'.receipt = "succeeded" => effect'[k]
      BY <1>1, <2>2, <2>6, <3>1 DEF Tracked
    <3> QED
      BY <2>5, <3>2, <3>3, <3>4 DEF Tracked
  <2>8. Sound(r, applied', effect') /\ caller' = [caller EXCEPT ![c] = r]
    BY <1>6, <1>9, <1>11
  <2>9. "record_dispatch" \in Stages
    BY DEF Stages
  <2> HIDE DEF r
  <2> QED
    BY <1>1, <1>11, <2>1, <2>4, <2>5, <2>7, <2>8, <2>9, AttemptChanged
<1> QED
  BY <1>7, <1>10, <1>11 DEF RecordDispatch, Command, CommandId, machine

LEMMA InvokeStep ==
    ASSUME DispatchInv, NEW c \in Callers, Invoke(c)
    PROVE  DispatchInv'
<1>1. /\ Sound(caller[c], applied, effect) /\ caller[c] \in Caller
      /\ caller[c].pc = "invoke" /\ caller[c].op \in Ops /\ caller[c].op # "reconcile"
      /\ attempts' = attempts /\ applied' = applied
      /\ <<caller[c].op, "record_dispatch">> \in applied
  BY DEF DispatchInv, Sound, Invoke, machine
<1>2. PICK op \in Ops, k \in Kinds : op = caller[c].op /\ k = KindOf(op) /\ OpOf(k) = op
  BY <1>1, KindFacts
<1>3. PICK q \in Machine!ReceiptStatuses, done \in BOOLEAN :
         /\ q = "succeeded" => done
         /\ invoked' = [invoked EXCEPT ![k] = @ + 1]
         /\ effect' = [effect EXCEPT ![k] = @ \/ done]
         /\ caller' = [caller EXCEPT ![c].pc = "receipt", ![c].result = q]
  BY <1>2 DEF Invoke
<1> DEFINE r == [caller[c] EXCEPT !.pc = "receipt", !.result = q]
<1>4. invoked \in [Kinds -> Nat] /\ effect \in [Kinds -> BOOLEAN]
  BY DEF DispatchInv, DispatchTypes
<1>5. effect' \in [Kinds -> BOOLEAN] /\ (q = "succeeded" => effect'[k])
  BY <1>3, <1>4, Zenon
<1>6. \A j \in Kinds : (effect[j] => effect'[j]) /\ (j # k => effect'[j] = effect[j])
  BY <1>3, <1>4, Zenon
<1>7. invoked' \in [Kinds -> Nat] /\ \A j \in Kinds : j # k => invoked'[j] = invoked[j]
  BY <1>3, <1>4
<1>8. Grows
  BY <1>1, <1>6 DEF Grows
<1>9. r \in Caller
  BY <1>1 DEF Caller
<1>10. /\ r.pc = "receipt" /\ r.op = op /\ r.result = q /\ r.view = caller[c].view
  BY <1>1, <1>2 DEF Caller
<1>11. Sound(r, applied', effect') /\ caller' = [caller EXCEPT ![c] = r]
  <2>1. caller' = [caller EXCEPT ![c] = r]
    BY <1>3 DEF DispatchInv, DispatchTypes
  <2> HIDE DEF r
  <2> QED
    BY <1>1, <1>2, <1>5, <1>9, <1>10, <2>1 DEF Sound
<1>12. /\ caller' \in [Callers -> Caller]
       /\ \A d \in Callers : Sound(caller'[d], applied', effect')
  <2> HIDE DEF r
  <2> QED
    BY <1>8, <1>11, OneMoves
<1>13. Tracked(k)'
  <2>1. Tracked(k) /\ Dispatched(k)
    BY <1>1, <1>2 DEF DispatchInv, Tracked
  <2>2. /\ Has(k)' = Has(k) /\ First(k)' = First(k)
        /\ Dispatched(k)' = Dispatched(k) /\ Observed(k)' = Observed(k)
    BY <1>1 DEF Has, First, Dispatched, Observed
  <2>3. effect[k] => effect'[k]
    BY <1>6
  <2> QED
    BY <1>1, <2>1, <2>2, <2>3 DEF Tracked, OpOf
<1>14. \A j \in Kinds : j # k => Tracked(j)'
  BY <1>1, <1>6, <1>7, StillTracked DEF DispatchInv
<1>15. DispatchTypes'
  BY <1>1, <1>5, <1>7, <1>12 DEF DispatchInv, DispatchTypes, Kinds
<1> QED
  BY <1>12, <1>13, <1>14, <1>15 DEF DispatchInv, Kinds

LEMMA ObserveReceiptStep ==
    ASSUME MachineOK, DispatchInv, NEW c \in Callers, ObserveReceipt(c)
    PROVE  DispatchInv'
<1> DEFINE r == [caller[c] EXCEPT !.pc = "outcome"]
           Answered == \/ Goto(c, "outcome")
                       \/ \E d \in Dispositions : Return(c, d)
<1>1. /\ Sound(caller[c], applied, effect) /\ caller[c] \in Caller
      /\ caller[c].pc = "receipt" /\ UNCHANGED <<invoked, effect>>
      /\ caller[c].op \in Ops /\ caller[c].op # "reconcile"
      /\ <<caller[c].op, "prepare_attempt">> \in applied
      /\ <<caller[c].op, "record_dispatch">> \in applied
      /\ caller[c].result \in Machine!ReceiptStatuses
      /\ caller[c].result = "succeeded" => effect[KindOf(caller[c].op)]
      /\ Attempted(c) \in FirstOfSome
  BY DEF DispatchInv, Sound, ObserveReceipt, Attempted
<1>2. r \in Caller
  BY <1>1 DEF Caller
<1>3. /\ r.pc = "outcome" /\ r.op = caller[c].op /\ r.view = caller[c].view
      /\ r.result = caller[c].result
  BY <1>1 DEF Caller
<1>4. Sound(r, applied', effect')
  <2> HIDE DEF r
  <2> QED
    BY <1>1, <1>2, <1>3 DEF Sound, Attempted
<1>5. ASSUME Answered
      PROVE  \E q : caller' = [caller EXCEPT ![c] = q] /\ Sound(q, applied', effect')
  <2>1. Goto(c, "outcome") => caller' = [caller EXCEPT ![c] = r]
    BY DEF Goto, DispatchInv, DispatchTypes
  <2>2. \A d \in Dispositions : Return(c, d) =>
           caller' = [caller EXCEPT ![c] = Idle(d)] /\ Sound(Idle(d), applied', effect')
    BY IdleIsSound DEF Return
  <2> HIDE DEF r
  <2> QED
    BY <1>4, <1>5, <2>1, <2>2
<1>6. CASE Answered /\ attempts' = attempts /\ applied' = applied
  <2>1. PICK q : caller' = [caller EXCEPT ![c] = q] /\ Sound(q, applied', effect')
    BY <1>5, <1>6
  <2>2. Sound(q, applied, effect)
    BY <1>1, <1>6, <2>1
  <2> QED
    BY <1>1, <1>6, <2>1, <2>2, QuietStep
<1>7. CASE /\ <<caller[c].op, "observe_receipt">> \notin applied
           /\ Machine!ObserveReceipt(Task, Attempted(c).kind, Attempted(c).ordinal,
                                     caller[c].result)
           /\ applied' = applied \cup {<<caller[c].op, "observe_receipt">>}
           /\ Answered
  <2>1. PICK op \in Ops, k \in Kinds, n \in {1}, res \in Machine!ReceiptStatuses :
           /\ op = caller[c].op /\ k = Attempted(c).kind /\ n = Attempted(c).ordinal
           /\ res = caller[c].result
    BY <1>1 DEF FirstOfSome
  <2>2. PICK a \in Machine!Attempt : n \in Machine!Ordinals(Task, k) /\ a = First(k) /\ Has(k)
    BY <1>7, <2>1, OneOfAKind DEF Machine!ObserveReceipt
  <2> DEFINE e == [a EXCEPT !.status = "receipt_observed", !.receipt = res]
  <2>3. /\ a.status \in {"prepared", "in_flight"}
        /\ attempts' = Machine!PutAttempt(Task, k, n, e)
    BY <1>7, <2>1, <2>2 DEF Machine!ObserveReceipt, First
  <2>4. k = KindOf(op) /\ OpOf(k) = op
    BY <1>1, <1>7, <2>1, <2>2, <2>3, OwnKind
  <2>5. /\ e.status = "receipt_observed" /\ e.receipt = res
        /\ e.outcome = a.outcome
    BY <2>2 DEF Machine!Attempt
  <2> HIDE DEF e
  <2>6. /\ Has(k)' /\ First(k)' = e
        /\ \A j \in Kinds : j # k => attempts'[Task][j] = attempts[Task][j]
    BY <2>2, <2>3, Replaced
  <2>7. Tracked(k)'
    <3>1. Tracked(k)
      BY DEF DispatchInv
    <3>2. Dispatched(k)' /\ Observed(k)'
      BY <2>5, <2>6 DEF Dispatched, Observed
    <3>3. First(k)'.outcome # "accepted"
      BY <2>2, <2>3, <2>5, <2>6, <3>1 DEF Tracked
    <3>4. First(k)'.receipt = "succeeded" => effect'[k]
      BY <1>1, <2>1, <2>4, <2>5, <2>6
    <3>5. /\ <<op, "record_dispatch">> \in applied'
          /\ <<op, "observe_receipt">> \in applied'
      BY <1>1, <1>7, <2>1
    <3> QED
      BY <2>4, <2>6, <3>2, <3>3, <3>4, <3>5 DEF Tracked, OpOf
  <2>8. PICK q : caller' = [caller EXCEPT ![c] = q] /\ Sound(q, applied', effect')
    BY <1>5, <1>7
  <2>9. /\ "observe_receipt" \in Stages
        /\ "observe_receipt" \notin {"prepare_attempt", "record_dispatch"}
    BY DEF Stages
  <2> QED
    BY <1>1, <1>7, <2>1, <2>6, <2>7, <2>8, <2>9, AttemptChanged
<1>8. /\ "indeterminate" \in Dispositions /\ "rollback_failed" \in Dispositions
      /\ "threw" \in Dispositions
  BY DEF Dispositions
<1>9. (IF caller[c].result # "indeterminate" THEN Goto(c, "outcome")
       ELSE Return(c, IF caller[c].op = "execute" THEN "indeterminate"
                      ELSE "rollback_failed")) => Answered
  BY <1>8
<1>10. Return(c, "threw") => Answered
  BY <1>8
<1> HIDE DEF Answered
<1> QED
  BY <1>6, <1>7, <1>9, <1>10 DEF ObserveReceipt, Command, CommandId, machine

LEMMA RecordOutcomeStep ==
    ASSUME MachineOK, DispatchInv, NEW c \in Callers, RecordOutcome(c)
    PROVE  DispatchInv'
<1> DEFINE disposition == Disposition(caller[c].op, caller[c].result)
<1>1. /\ Sound(caller[c], applied, effect)
      /\ caller[c].op \in Ops /\ UNCHANGED <<invoked, effect>>
      /\ caller[c].result \in Machine!ReceiptStatuses /\ Attempted(c) \in FirstOfSome
  BY DEF DispatchInv, Sound, RecordOutcome, Attempted
<1>2. disposition \in Dispositions /\ "threw" \in Dispositions
  BY <1>1 DEF Disposition, Dispositions, Machine!ReceiptStatuses
<1>3. CASE /\ \/ Return(c, disposition)
              \/ Return(c, "threw")
           /\ attempts' = attempts /\ applied' = applied
  BY <1>1, <1>2, <1>3, ReturnStep
<1>4. ASSUME NEW at \in Times, NEW o \in {"accepted", "rejected"},
             Machine!RecordOutcome(Task, Attempted(c).kind, Attempted(c).ordinal, o, at),
             applied' = applied \cup {<<caller[c].op, "record_outcome">>},
             Return(c, disposition)
      PROVE  DispatchInv'
  <2>1. PICK k \in Kinds, n \in {1} :
           k = Attempted(c).kind /\ n = Attempted(c).ordinal
    BY <1>1 DEF FirstOfSome
  <2>2. PICK a \in Machine!Attempt : n \in Machine!Ordinals(Task, k) /\ a = First(k) /\ Has(k)
    BY <1>4, <2>1, OneOfAKind DEF Machine!RecordOutcome
  <2> DEFINE e == [a EXCEPT !.status = "concluded", !.outcome = o]
  <2>3. /\ a.status = "receipt_observed"
        /\ o = "accepted" => a.receipt = "succeeded"
        /\ attempts' = Machine!PutAttempt(Task, k, n, e)
    BY <1>4, <2>1, <2>2 DEF Machine!RecordOutcome, Machine!OutcomeAllowed, First
  <2>4. e.status = "concluded" /\ e.outcome = o /\ e.receipt = a.receipt
    BY <2>2 DEF Machine!Attempt
  <2> HIDE DEF e
  <2>5. /\ Has(k)' /\ First(k)' = e
        /\ \A j \in Kinds : j # k => attempts'[Task][j] = attempts[Task][j]
    BY <2>2, <2>3, Replaced
  <2>6. Tracked(k)'
    <3>1. Tracked(k) /\ Observed(k)
      BY <2>2, <2>3 DEF DispatchInv, Observed
    <3>2. Dispatched(k)' /\ Observed(k)'
      BY <2>4, <2>5 DEF Dispatched, Observed
    <3>3. First(k)'.receipt = "succeeded" => effect'[k]
      BY <1>1, <2>2, <2>4, <2>5, <3>1 DEF Tracked
    <3>4. applied \subseteq applied'
      BY <1>4
    <3> QED
      BY <2>2, <2>3, <2>4, <2>5, <3>1, <3>2, <3>3, <3>4 DEF Tracked, OpOf
  <2>7. /\ "record_outcome" \in Stages
        /\ "record_outcome" \notin {"prepare_attempt", "record_dispatch"}
    BY DEF Stages
  <2>8. /\ caller' = [caller EXCEPT ![c] = Idle(disposition)]
        /\ Sound(Idle(disposition), applied', effect')
    BY <1>2, <1>4, IdleIsSound DEF Return
  <2> HIDE DEF disposition
  <2> QED
    BY <1>1, <1>4, <2>5, <2>6, <2>7, <2>8, AttemptChanged
<1> QED
  BY <1>3, <1>4 DEF RecordOutcome, Command, CommandId, machine

LEMMA ReconcileReceiptStep ==
    ASSUME MachineOK, DispatchInv, NEW c \in Callers, ReconcileReceipt(c)
    PROVE  DispatchInv'
<1> DEFINE first == [kind |-> "execution", ordinal |-> 1]
           r == [caller[c] EXCEPT !.pc = "outcome", !.view.active = first]
           Found == caller' = [caller EXCEPT ![c].pc = "outcome", ![c].view.active = first]
<1>1. /\ Sound(caller[c], applied, effect) /\ caller[c] \in Caller
      /\ caller[c].pc = "reconcile" /\ UNCHANGED <<invoked, effect>>
      /\ caller[c].op \in Ops
      /\ caller[c].result \in Machine!ReceiptStatuses
      /\ caller[c].result = "succeeded" => effect["execution"]
  BY DEF DispatchInv, Sound, ReconcileReceipt
<1>2. first \in Machine!AttemptRef /\ first \in FirstOfSome /\ first # Machine!NoAttempt
  BY KindFacts DEF Machine!AttemptRef, FirstOfSome, Machine!NoAttempt, Kinds
<1>3. r \in Caller
  <2> HIDE DEF first
  <2> QED
    BY <1>1, <1>2 DEF Caller
<1>4. /\ r.pc = "outcome" /\ r.op = caller[c].op /\ r.view.active = first
      /\ r.result = caller[c].result
  BY <1>1 DEF Caller
<1>5. Sound(r, applied', effect')
  <2> HIDE DEF r, first
  <2> QED
    BY <1>1, <1>2, <1>3, <1>4 DEF Sound
<1>6. Found => caller' = [caller EXCEPT ![c] = r]
  BY DEF DispatchInv, DispatchTypes
<1>7. CASE Return(c, "threw") /\ attempts' = attempts /\ applied' = applied
  BY <1>1, <1>7, ReturnStep DEF Dispositions
<1>8. CASE Found /\ attempts' = attempts /\ applied' = applied
  <2>1. Sound(r, applied, effect)
    BY <1>1, <1>5, <1>8
  <2>2. caller' = [caller EXCEPT ![c] = r]
    BY <1>6, <1>8
  <2> HIDE DEF r
  <2> QED
    BY <1>1, <1>8, <2>1, <2>2, QuietStep
<1>9. CASE /\ Machine!ReconcileReceipt(Task, "execution", 1, caller[c].result)
           /\ applied' = applied \cup {<<caller[c].op, "reconcile_receipt">>}
           /\ Found
  <2>1. PICK k \in Kinds, n \in {1}, res \in Machine!ReceiptStatuses :
           k = "execution" /\ n = 1 /\ res = caller[c].result
    BY <1>1, KindFacts
  <2>2. PICK a \in Machine!Attempt : n \in Machine!Ordinals(Task, k) /\ a = First(k) /\ Has(k)
    BY <1>9, <2>1, OneOfAKind DEF Machine!ReconcileReceipt
  <2> DEFINE e == [a EXCEPT !.receipt = res]
  <2>3. /\ a.status = "receipt_observed"
        /\ attempts' = Machine!PutAttempt(Task, k, n, e)
    BY <1>9, <2>1, <2>2 DEF Machine!ReconcileReceipt, Machine!Reconcilable, First
  <2>4. e.status = "receipt_observed" /\ e.outcome = a.outcome /\ e.receipt = res
    BY <2>2, <2>3 DEF Machine!Attempt
  <2> HIDE DEF e
  <2>5. /\ Has(k)' /\ First(k)' = e
        /\ \A j \in Kinds : j # k => attempts'[Task][j] = attempts[Task][j]
    BY <2>2, <2>3, Replaced
  <2>6. Tracked(k)'
    <3>1. Tracked(k) /\ Observed(k)
      BY <2>2, <2>3 DEF DispatchInv, Observed
    <3>2. Dispatched(k)' /\ Observed(k)'
      BY <2>4, <2>5 DEF Dispatched, Observed
    <3>3. First(k)'.receipt = "succeeded" => effect'[k]
      BY <1>1, <2>1, <2>4, <2>5
    <3>4. First(k)'.outcome # "accepted"
      BY <2>2, <2>3, <2>4, <2>5, <3>1 DEF Tracked
    <3>5. applied \subseteq applied'
      BY <1>9
    <3> QED
      BY <2>5, <3>1, <3>2, <3>3, <3>4, <3>5 DEF Tracked, OpOf
  <2>7. /\ "reconcile_receipt" \in Stages
        /\ "reconcile_receipt" \notin {"prepare_attempt", "record_dispatch"}
    BY DEF Stages
  <2>8. caller' = [caller EXCEPT ![c] = r]
    BY <1>6, <1>9
  <2> HIDE DEF r
  <2> QED
    BY <1>1, <1>5, <1>9, <2>5, <2>6, <2>7, <2>8, AttemptChanged
<1> QED
  BY <1>7, <1>8, <1>9 DEF ReconcileReceipt, Command, CommandId, machine

(***************************************************************************)
(* The dispatcher drives the machine, and the machine alone.               *)
(***************************************************************************)
LEMMA MachineMoves ==
    ASSUME MachineOK, DispatchInv, [Next]_vars
    PROVE  [Machine!Next]_(Machine!vars)
<1>1. machine = Machine!vars
  BY DEF machine, Machine!vars
<1>2. CASE UNCHANGED machine
  BY <1>2 DEF machine, Machine!vars
<1>3. CASE UNCHANGED vars
  BY <1>2, <1>3 DEF vars
<1>4. ASSUME NEW k \in Kinds, NEW n,
             \/ Machine!RecordDispatch(Task, k, n)
             \/ \E r \in Machine!ReceiptStatuses : Machine!ObserveReceipt(Task, k, n, r)
             \/ \E r \in Machine!ReceiptStatuses : Machine!ReconcileReceipt(Task, k, n, r)
             \/ \E o \in Machine!Dispositions, at \in Times :
                   Machine!RecordOutcome(Task, k, n, o, at)
      PROVE  Machine!Next
  <2>1. n \in Machine!Ordinals(Task, k)
    BY <1>4 DEF Machine!RecordDispatch, Machine!ObserveReceipt, Machine!ReconcileReceipt,
       Machine!RecordOutcome
  <2>2. Machine!AttemptCommand(Task, k)
    BY <1>4, <2>1 DEF Machine!AttemptCommand
  <2> QED
    BY <2>2 DEF Machine!Next, Kinds
<1>5. ASSUME NEW c \in Callers, Declare(c), ~UNCHANGED machine
      PROVE  Machine!Next
  <2>1. \/ Machine!OpenEpisode \/ Machine!DeclareGoal(Goal)
        \/ \E s \in TaskShapes, at \in Times : Machine!DeclareTask(Task, Goal, {}, s, at)
    BY <1>5 DEF Declare, Command
  <2>2. (\E s \in TaskShapes, at \in Times : Machine!DeclareTask(Task, Goal, {}, s, at))
           => Machine!TaskCommand(Task)
    BY DEF Machine!TaskCommand
  <2> QED
    BY <2>1, <2>2 DEF Machine!Next
<1>6. ASSUME NEW c \in Callers, Decide(c), ~UNCHANGED machine
      PROVE  Machine!Next
  <2>1. Sound(caller[c], applied, effect) /\ caller[c].pc = "stage"
    BY <1>6 DEF DispatchInv, Decide, AtStage
  <2>2. KindOf(caller[c].op) \in Kinds
    BY <2>1, KindFacts DEF Sound
  <2>3. \E d \in Machine!Verdicts, at \in Times, k \in Kinds :
           \/ Machine!RecordAuthority(Task, k, d, at)
           \/ Machine!RecordApproval(Task, k, d, at)
    BY <1>6, <2>2 DEF Decide, Command
  <2>4. Machine!TaskCommand(Task)
    BY <2>3 DEF Machine!TaskCommand, Kinds
  <2> QED
    BY <2>4 DEF Machine!Next
<1>7. ASSUME NEW c \in Callers, Prepare(c), ~UNCHANGED machine
      PROVE  Machine!Next
  <2>1. Sound(caller[c], applied, effect) /\ caller[c].pc = "stage"
    BY <1>7 DEF DispatchInv, Prepare, AtStage
  <2>2. KindOf(caller[c].op) \in Kinds
    BY <2>1, KindFacts DEF Sound
  <2>3. \E k \in Kinds, at \in Times : Machine!PrepareAttempt(Task, k, at)
    BY <1>7, <2>2 DEF Prepare, Command
  <2>4. \E k \in Kinds : Machine!AttemptCommand(Task, k)
    BY <2>3 DEF Machine!AttemptCommand
  <2> QED
    BY <2>4 DEF Machine!Next, Kinds
<1>8. ASSUME NEW c \in Callers, RecordDispatch(c), ~UNCHANGED machine
      PROVE  Machine!Next
  <2>1. /\ Attempted(c) # Machine!NoAttempt
        /\ Machine!RecordDispatch(Task, Attempted(c).kind, Attempted(c).ordinal)
    BY <1>8 DEF RecordDispatch, Command
  <2>2. Attempted(c).kind \in Kinds
    BY <2>1 DEF DispatchInv, Sound, Attempted, FirstOfSome
  <2> QED
    BY <1>4, <2>1, <2>2
<1>9. ASSUME NEW c \in Callers, ObserveReceipt(c), ~UNCHANGED machine
      PROVE  Machine!Next
  <2>1. Machine!ObserveReceipt(Task, Attempted(c).kind, Attempted(c).ordinal,
                               caller[c].result)
    BY <1>9 DEF ObserveReceipt, Command
  <2>2. Sound(caller[c], applied, effect) /\ caller[c].pc = "receipt"
    BY <1>9 DEF DispatchInv, ObserveReceipt
  <2>3. Attempted(c).kind \in Kinds /\ caller[c].result \in Machine!ReceiptStatuses
    BY <2>2 DEF Sound, Attempted, FirstOfSome
  <2> QED
    BY <1>4, <2>1, <2>3
<1>10. ASSUME NEW c \in Callers, RecordOutcome(c), ~UNCHANGED machine
       PROVE  Machine!Next
  <2>1. \E at \in Times, o \in {"accepted", "rejected"} :
           Machine!RecordOutcome(Task, Attempted(c).kind, Attempted(c).ordinal, o, at)
    BY <1>10 DEF RecordOutcome, Command
  <2>2. Sound(caller[c], applied, effect) /\ caller[c].pc = "outcome"
    BY <1>10 DEF DispatchInv, RecordOutcome
  <2>3. Attempted(c).kind \in Kinds
    BY <2>2 DEF Sound, Attempted, FirstOfSome
  <2>4. {"accepted", "rejected"} \subseteq Machine!Dispositions
    BY DEF Machine!Dispositions
  <2> QED
    BY <1>4, <2>1, <2>3, <2>4
<1>11. ASSUME NEW c \in Callers, ReconcileReceipt(c), ~UNCHANGED machine
       PROVE  Machine!Next
  <2>1. Machine!ReconcileReceipt(Task, "execution", 1, caller[c].result)
    BY <1>11 DEF ReconcileReceipt, Command
  <2>2. Sound(caller[c], applied, effect) /\ caller[c].pc = "reconcile"
    BY <1>11 DEF DispatchInv, ReconcileReceipt
  <2>3. caller[c].result \in Machine!ReceiptStatuses /\ "execution" \in Kinds
    BY <2>2, KindFacts DEF Sound
  <2> QED
    BY <1>4, <2>1, <2>3
<1>12. ASSUME NEW c \in Callers, NEW op \in Ops, NEW supplied, Start(c, op, supplied)
       PROVE  UNCHANGED machine
  BY <1>12 DEF Start, Quiet
<1>13. ASSUME NEW c \in Callers, Load(c) \/ Die(c) \/ Decline(c) \/ Invoke(c) \/ Lookup(c)
       PROVE  UNCHANGED machine
  BY <1>13 DEF Load, Die, Decline, Invoke, Lookup, Quiet
<1>14. CASE Next /\ ~UNCHANGED machine
  BY <1>14, <1>5, <1>6, <1>7, <1>8, <1>9, <1>10, <1>11, <1>12, <1>13 DEF Next
<1> QED
  BY <1>2, <1>3, <1>14

Inv == Episode!Inv /\ DispatchInv

LEMMA InitInv == Init => Inv /\ Machine!Init
<1> SUFFICES ASSUME Init
             PROVE  Inv /\ Machine!Init
  OBVIOUS
<1>1. Machine!Init /\ Episode!Inv
  BY MachineInit DEF Init
<1>2. "none" \in Dispositions
  BY DEF Dispositions
<1>3. Sound(Idle("none"), applied, effect)
  BY <1>2, IdleIsSound
<1>4. caller = [c \in Callers |-> Idle("none")] /\ Idle("none") \in Caller
  BY <1>3 DEF Init, Sound
<1>5. \A c \in Callers : Sound(caller[c], applied, effect)
  BY <1>3, <1>4
<1>6. /\ applied = {} /\ invoked = [k \in Kinds |-> 0] /\ effect = [k \in Kinds |-> FALSE]
      /\ \A k \in Kinds : ~Has(k)
  BY DEF Init, Machine!Init, Has, Kinds
<1>7. DispatchTypes
  BY <1>4, <1>6 DEF DispatchTypes
<1>8. \A k \in Kinds : Tracked(k)
  BY <1>6 DEF Tracked, Observed
<1> QED
  BY <1>1, <1>5, <1>7, <1>8 DEF Inv, DispatchInv

LEMMA DispatchStep ==
    ASSUME MachineOK, MachineOK', DispatchInv, Next
    PROVE  DispatchInv'
<1> USE DispatchInv
<1>1. ASSUME NEW c \in Callers, NEW op \in Ops,
             NEW supplied \in SUBSET InputGates(KindOf(op)), Start(c, op, supplied)
      PROVE  DispatchInv'
  BY <1>1, StartStep
<1>2. ASSUME NEW c \in Callers, Load(c) \/ Die(c) \/ Decline(c) \/ Lookup(c)
      PROVE  DispatchInv'
  BY <1>2, LoadStep, DieStep, DeclineStep, LookupStep
<1>3. ASSUME NEW c \in Callers, Declare(c) \/ Decide(c) \/ Prepare(c)
      PROVE  DispatchInv'
  BY <1>3, DeclareStep, DecideStep, PrepareStep
<1>4. ASSUME NEW c \in Callers, RecordDispatch(c) \/ Invoke(c) \/ ObserveReceipt(c)
      PROVE  DispatchInv'
  BY <1>4, RecordDispatchStep, InvokeStep, ObserveReceiptStep
<1>5. ASSUME NEW c \in Callers, RecordOutcome(c) \/ ReconcileReceipt(c)
      PROVE  DispatchInv'
  BY <1>5, RecordOutcomeStep, ReconcileReceiptStep
<1> QED
  BY <1>1, <1>2, <1>3, <1>4, <1>5 DEF Next

LEMMA StillOK == Episode!Inv' => MachineOK'
<1>1. (Episode!Inv => MachineOK)'
  BY SameState, PTL
<1> QED
  BY <1>1

LEMMA InvStep == Inv /\ [Next]_vars => Inv' /\ [Machine!Next]_(Machine!vars)
<1> SUFFICES ASSUME Inv, [Next]_vars
             PROVE  Inv' /\ [Machine!Next]_(Machine!vars)
  OBVIOUS
<1>1. MachineOK /\ DispatchInv
  BY SameState DEF Inv
<1>2. [Machine!Next]_(Machine!vars)
  BY <1>1, MachineMoves
<1>3. Episode!Inv' /\ MachineOK'
  BY <1>2, MachineStep, StillOK DEF Inv
<1>4. CASE Next
  BY <1>1, <1>3, <1>4, DispatchStep, <1>2 DEF Inv
<1>5. CASE UNCHANGED vars
  <2>1. /\ UNCHANGED <<applied, caller, invoked, effect>>
        /\ attempts' = attempts
    BY <1>5 DEF vars, machine
  <2>2. DispatchTypes'
    BY <1>1, <2>1 DEF DispatchInv, DispatchTypes, Kinds
  <2>3. \A k \in Kinds : Tracked(k)'
    BY <1>1, <2>1 DEF DispatchInv, Tracked, Has, First, Dispatched, Observed, OpOf
  <2>4. \A c \in Callers : Sound(caller'[c], applied', effect')
    BY <1>1, <2>1 DEF DispatchInv
  <2> QED
    BY <1>2, <1>3, <2>2, <2>3, <2>4 DEF Inv, DispatchInv, Kinds
<1> QED
  BY <1>4, <1>5

LEMMA Invariance == Spec => []Inv
BY InitInv, InvStep, PTL DEF Spec

\* However many callers there are, however they interleave, die and retry,
\* what they do to the episode is a behaviour of the machine: all that holds of
\* the machine (ExecutiveEpisodeProofs) holds of an episode they drive.
THEOREM MachineRefinement == Spec => Machine!Spec
BY InitInv, InvStep, Invariance, PTL DEF Spec, Machine!Spec

\* The episode, the record of committed commands and the locals of each call
\* (capability-dispatcher.ts) keep their types.
THEOREM Typing == Spec => []TypeOK
<1>1. Inv => TypeOK
  BY SameState DEF Inv, TypeOK, MachineOK, DispatchInv, DispatchTypes
<1> QED
  BY <1>1, Invariance, PTL

\* No executor is invoked before the dispatch of its attempt is durable, for
\* any number of callers of the same task.
THEOREM DispatchFirst == Spec => []DispatchedBeforeInvoked
<1>1. Inv => DispatchedBeforeInvoked
  BY DEF Inv, DispatchInv, Tracked, Dispatched, Has, First, DispatchedBeforeInvoked
<1> QED
  BY <1>1, Invariance, PTL

\* The episode never says that a task succeeded, or was rolled back, unless
\* the provider carried the action, or the compensation, out.
THEOREM SuccessHappened == Spec => []SuccessIsReal
<1>1. ASSUME Inv
      PROVE  SuccessIsReal
  <2>1. MachineOK /\ Tracked("execution") /\ Tracked("rollback")
    BY <1>1, SameState, KindFacts DEF Inv, DispatchInv
  <2>2. Machine!ConsistentTask(Task)
    BY <2>1 DEF MachineOK, Machine!StatusMatchesAttempt
  <2>3. status[Task] = "succeeded" =>
           Has("execution") /\ First("execution").receipt = "succeeded"
    BY <2>2 DEF Machine!ConsistentTask, Machine!NotAttempted, Machine!Executing,
       Machine!Succeeded, Machine!NotCompensated, Machine!Compensating,
       Machine!Compensated, Machine!ExecutionFailed, Machine!UnderWay,
       Machine!SingleAttempt, Machine!PreRun, Has, First
  <2>4. status[Task] = "rolled_back" =>
           Has("rollback") /\ First("rollback").outcome = "accepted"
    BY <2>2 DEF Machine!ConsistentTask, Machine!NotAttempted, Machine!Executing,
       Machine!Succeeded, Machine!NotCompensated, Machine!Compensating,
       Machine!Compensated, Machine!ExecutionFailed, Machine!UnderWay,
       Machine!SingleAttempt, Machine!PreRun, Has, First
  <2> QED
    BY <2>1, <2>3, <2>4 DEF SuccessIsReal, Tracked
<1>2. Inv => SuccessIsReal
  BY <1>1
<1> QED
  BY <1>2, Invariance, PTL

(***************************************************************************)
(* How often an executor is invoked.  Once the dispatch of an attempt is   *)
(* durable, a call that loads the episode never gets to invoke: only those *)
(* that loaded it before may, and each of them once.                       *)
(***************************************************************************)
MayInvoke(c, k) ==
    /\ caller[c].op = OpOf(k)
    /\ \/ caller[c].pc = "invoke"
       \/ caller[c].pc \in {"load", "stage"} /\ caller[c].next = 7
       \/ caller[c].pc = "stage" /\ MayStart(OpOf(k), caller[c].view.status)

Invokers(k) == {c \in Callers : MayInvoke(c, k)}

Counted(k) ==
    Dispatched(k) => invoked[k] + Cardinality(Invokers(k)) <= Cardinality(Callers)

\* A dispatched attempt is not one that may be started.
LEMMA DispatchedIsNotReady ==
    ASSUME MachineOK, NEW k \in Kinds, Dispatched(k)
    PROVE  ~MayStart(OpOf(k), status[Task])
<1>1. Machine!ConsistentTask(Task)
  BY DEF MachineOK, Machine!StatusMatchesAttempt
<1>2. CASE k = "execution"
  <2>1. status[Task] # "ready"
    BY <1>1, <1>2 DEF Dispatched, Has, First, Machine!ConsistentTask,
       Machine!NotAttempted, Machine!Executing, Machine!Succeeded,
       Machine!NotCompensated, Machine!Compensating, Machine!Compensated,
       Machine!UnderWay, Machine!SingleAttempt
  <2> QED
    BY <1>2, <2>1 DEF MayStart, OpOf
<1>3. CASE k = "rollback"
  <2>1. status[Task] # "rollback_ready"
    BY <1>1, <1>3 DEF Dispatched, Has, First, Machine!ConsistentTask,
       Machine!NotAttempted, Machine!Executing, Machine!Succeeded,
       Machine!NotCompensated, Machine!Compensating, Machine!Compensated,
       Machine!UnderWay, Machine!SingleAttempt, Machine!PreRun
  <2> QED
    BY <1>3, <2>1 DEF MayStart, OpOf
<1> QED
  BY <1>2, <1>3, KindFacts

\* The shape of a caller's step: where it moved to, and from where.
LEMMA CallerMoves ==
    ASSUME DispatchInv, NEW c \in Callers, NEW r, caller' = [caller EXCEPT ![c] = r],
           NEW k \in Kinds, r.op = OpOf(k) => ~\/ r.pc = "invoke"
                                               \/ r.pc \in {"load", "stage"} /\ r.next = 7
                                               \/ /\ r.pc = "stage"
                                                  /\ MayStart(OpOf(k), r.view.status)
    PROVE  Invokers(k)' \subseteq Invokers(k) \ {c}
<1>1. caller'[c] = r /\ \A d \in Callers : d # c => caller'[d] = caller[d]
  BY DEF DispatchInv, DispatchTypes
<1>2. OpOf(k)' = OpOf(k)
  BY DEF OpOf
<1>3. ~MayInvoke(c, k)'
  BY <1>1 DEF MayInvoke, OpOf, MayStart
<1>4. \A d \in Callers : d # c /\ MayInvoke(d, k)' => MayInvoke(d, k)
  BY <1>1 DEF MayInvoke, OpOf, MayStart
<1> QED
  BY <1>3, <1>4 DEF Invokers

LEMMA CallerStays ==
    ASSUME DispatchInv, NEW c \in Callers, NEW r, caller' = [caller EXCEPT ![c] = r],
           NEW k \in Kinds, r.op = OpOf(k) => c \in Invokers(k)
    PROVE  Invokers(k)' \subseteq Invokers(k)
<1>1. caller'[c] = r /\ \A d \in Callers : d # c => caller'[d] = caller[d]
  BY DEF DispatchInv, DispatchTypes
<1>2. MayInvoke(c, k)' => c \in Invokers(k)
  BY <1>1 DEF MayInvoke, OpOf
<1>3. \A d \in Callers : d # c /\ MayInvoke(d, k)' => MayInvoke(d, k)
  BY <1>1 DEF MayInvoke, OpOf, MayStart
<1> QED
  BY <1>2, <1>3 DEF Invokers

LEMMA ReturnedInvokesNot ==
    ASSUME DispatchInv, NEW c \in Callers, NEW k \in Kinds, NEW d, Return(c, d)
    PROVE  Invokers(k)' \subseteq Invokers(k)
<1>1. Idle(d).pc = "idle" /\ caller' = [caller EXCEPT ![c] = Idle(d)]
  BY DEF Idle, Return
<1> QED
  BY <1>1, CallerMoves

\* A call that reloads for a stage before the dispatch, or goes past the
\* invocation, does not get to invoke by that.
LEMMA LeavesInvokers ==
    ASSUME DispatchInv, NEW c \in Callers, NEW k \in Kinds,
           \/ \E n \in 1 .. 6 : Reload(c, n)
           \/ Goto(c, "outcome")
           \/ caller' = [caller EXCEPT ![c].pc = "outcome",
                            ![c].view.active = [kind |-> "execution", ordinal |-> 1]]
           \/ \E q : caller' = [caller EXCEPT ![c].pc = "reconcile", ![c].result = q]
           \/ \E q : caller' = [caller EXCEPT ![c].pc = "receipt", ![c].result = q]
    PROVE  Invokers(k)' \subseteq Invokers(k) \ {c}
<1>1. caller \in [Callers -> Caller] /\ caller[c] \in Caller
  BY DEF DispatchInv, DispatchTypes
<1>2. ASSUME NEW n \in 1 .. 6, Reload(c, n)
      PROVE  Invokers(k)' \subseteq Invokers(k) \ {c}
  <2> DEFINE r == [caller[c] EXCEPT !.pc = "load", !.next = n]
  <2>1. caller' = [caller EXCEPT ![c] = r]
    BY <1>1, <1>2 DEF Reload
  <2>2. r.pc = "load" /\ r.next # 7
    BY <1>1 DEF Caller
  <2> HIDE DEF r
  <2>3. r.pc # "invoke" /\ r.pc # "stage"
    BY <2>2
  <2> QED
    BY <2>1, <2>2, <2>3, CallerMoves
<1>3. ASSUME NEW r, caller' = [caller EXCEPT ![c] = r],
             r.pc \in {"outcome", "reconcile", "receipt"}
      PROVE  Invokers(k)' \subseteq Invokers(k) \ {c}
  <2>1. r.pc \notin {"invoke", "load", "stage"}
    BY <1>3
  <2> QED
    BY <1>3, <2>1, CallerMoves
<1>4. CASE Goto(c, "outcome")
  <2> DEFINE r == [caller[c] EXCEPT !.pc = "outcome"]
  <2>1. caller' = [caller EXCEPT ![c] = r]
    BY <1>1, <1>4 DEF Goto
  <2>2. r.pc = "outcome"
    BY <1>1 DEF Caller
  <2> HIDE DEF r
  <2> QED
    BY <1>3, <2>1, <2>2
<1>5. CASE caller' = [caller EXCEPT ![c].pc = "outcome",
                         ![c].view.active = [kind |-> "execution", ordinal |-> 1]]
  <2> DEFINE r == [caller[c] EXCEPT !.pc = "outcome",
                      !.view.active = [kind |-> "execution", ordinal |-> 1]]
  <2>1. caller' = [caller EXCEPT ![c] = r]
    BY <1>1, <1>5
  <2>2. r.pc = "outcome"
    BY <1>1 DEF Caller
  <2> HIDE DEF r
  <2> QED
    BY <1>3, <2>1, <2>2
<1>6. ASSUME NEW q, NEW p \in {"reconcile", "receipt"},
             caller' = [caller EXCEPT ![c].pc = p, ![c].result = q]
      PROVE  Invokers(k)' \subseteq Invokers(k) \ {c}
  <2> DEFINE r == [caller[c] EXCEPT !.pc = p, !.result = q]
  <2>1. caller' = [caller EXCEPT ![c] = r]
    BY <1>1, <1>6
  <2>2. r.pc = p
    BY <1>1 DEF Caller
  <2> HIDE DEF r
  <2> QED
    BY <1>3, <2>1, <2>2
<1> QED
  BY <1>2, <1>4, <1>5, <1>6

\* A call moves on towards its invocation only where it already was to invoke.
LEMMA StaysInvoker ==
    ASSUME DispatchInv, NEW c \in Callers, NEW k \in Kinds,
           Reload(c, 7) \/ Goto(c, "invoke"),
           caller[c].op = OpOf(k) => MayInvoke(c, k)
    PROVE  Invokers(k)' \subseteq Invokers(k)
<1>1. caller \in [Callers -> Caller] /\ caller[c] \in Caller
  BY DEF DispatchInv, DispatchTypes
<1>2. PICK r : /\ caller' = [caller EXCEPT ![c] = r]
               /\ \/ r = [caller[c] EXCEPT !.pc = "load", !.next = 7]
                  \/ r = [caller[c] EXCEPT !.pc = "invoke"]
  BY <1>1 DEF Reload, Goto
<1>3. r.op = caller[c].op
  BY <1>1, <1>2 DEF Caller
<1>4. r.op = OpOf(k) => c \in Invokers(k)
  BY <1>3 DEF Invokers
<1> QED
  BY <1>2, <1>4, CallerStays

LEMMA LoadInvokers ==
    ASSUME MachineOK, DispatchInv, NEW c \in Callers, NEW k \in Kinds, Dispatched(k), Load(c)
    PROVE  Invokers(k)' \subseteq Invokers(k)
<1> DEFINE r == [caller[c] EXCEPT !.pc = "stage", !.view = Loaded]
<1>1. caller \in [Callers -> Caller] /\ caller[c] \in Caller /\ caller[c].pc = "load"
  BY DEF DispatchInv, DispatchTypes, Load
<1>2. caller' = [caller EXCEPT ![c] = r]
  BY <1>1 DEF Load
<1>3. /\ r.op = caller[c].op /\ r.pc = "stage" /\ r.next = caller[c].next
      /\ r.view.status = status[Task]
  BY <1>1 DEF Caller, Loaded
<1>4. ~MayStart(OpOf(k), status[Task])
  BY DispatchedIsNotReady
<1>5. CASE caller[c].next = 7
  <2>1. r.op = OpOf(k) => c \in Invokers(k)
    BY <1>1, <1>3, <1>5 DEF Invokers, MayInvoke
  <2> HIDE DEF r
  <2> QED
    BY <1>2, <2>1, CallerStays
<1>6. CASE caller[c].next # 7
  <2> HIDE DEF r
  <2> QED
    BY <1>2, <1>3, <1>4, <1>6, CallerMoves
<1> QED
  BY <1>5, <1>6

\* Once an attempt is dispatched, no call comes to be one that may invoke.
LEMMA InvokersShrink ==
    ASSUME MachineOK, DispatchInv, NEW k \in Kinds, Dispatched(k), NEW c \in Callers,
           \/ \E op \in Ops : \E supplied \in SUBSET InputGates(KindOf(op)) :
                 Start(c, op, supplied)
           \/ Load(c) \/ Die(c) \/ Declare(c) \/ Decide(c) \/ Decline(c) \/ Prepare(c)
           \/ RecordDispatch(c) \/ ObserveReceipt(c) \/ RecordOutcome(c) \/ Lookup(c)
           \/ ReconcileReceipt(c)
    PROVE  Invokers(k)' \subseteq Invokers(k)
<1>1. caller \in [Callers -> Caller] /\ caller[c] \in Caller
  BY DEF DispatchInv, DispatchTypes
<1>2. CASE \E d : Return(c, d)
  BY <1>2, ReturnedInvokesNot
<1>3. ASSUME NEW op \in Ops, NEW supplied, Start(c, op, supplied)
      PROVE  Invokers(k)' \subseteq Invokers(k)
  <2> DEFINE r == [Idle("none") EXCEPT !.op = op, !.pc = "load", !.supplied = supplied]
  <2>1. caller' = [caller EXCEPT ![c] = r]
    BY <1>3 DEF Start
  <2>2. r.pc = "load" /\ r.next = 1
    BY DEF Idle
  <2> HIDE DEF r
  <2>3. r.pc # "invoke" /\ r.pc # "stage" /\ r.next # 7
    BY <2>2
  <2> QED
    BY <2>1, <2>3, CallerMoves
<1>4. CASE Load(c)
  BY <1>4, LoadInvokers
<1>5. CASE Declare(c) \/ Decide(c)
  <2>1. (\E n \in 1 .. 6 : Reload(c, n)) \/ (\E d : Return(c, d))
    BY <1>5 DEF Declare, Decide, Command
  <2> QED
    BY <1>2, <2>1, LeavesInvokers
<1>6. CASE Prepare(c)
  <2>1. /\ caller[c].pc = "stage" /\ caller[c].op # "reconcile"
        /\ MayStart(caller[c].op, caller[c].view.status)
        /\ Reload(c, 7) \/ \E d : Return(c, d)
    BY <1>6 DEF Prepare, AtStage, Command, AfterPrepare
  <2>2. caller[c].op = OpOf(k) => MayInvoke(c, k)
    BY <2>1 DEF MayInvoke
  <2> QED
    BY <1>2, <2>1, <2>2, StaysInvoker
<1>7. CASE RecordDispatch(c)
  <2>1. caller[c].pc = "stage" /\ caller[c].next = 7
    <3>1. caller[c].next \in 1 .. 7
      BY <1>1 DEF Caller
    <3>2. Needed(c, 6)
      BY DEF Needed
    <3>3. 6 \in caller[c].next .. 7 - 1 => ~Needed(c, 6)
      BY <1>7 DEF RecordDispatch, AtStage
    <3> QED
      BY <1>7, <3>1, <3>2, <3>3 DEF RecordDispatch, AtStage
  <2>2. Goto(c, "invoke") \/ \E d : Return(c, d)
    BY <1>7 DEF RecordDispatch, Command
  <2>3. caller[c].op = OpOf(k) => MayInvoke(c, k)
    BY <2>1 DEF MayInvoke
  <2> QED
    BY <1>2, <2>2, <2>3, StaysInvoker
<1>8. CASE ObserveReceipt(c)
  <2>1. Goto(c, "outcome") \/ \E d : Return(c, d)
    BY <1>8 DEF ObserveReceipt, Command
  <2> QED
    BY <1>2, <2>1, LeavesInvokers
<1>9. CASE Die(c) \/ Decline(c) \/ RecordOutcome(c)
  BY <1>2, <1>9 DEF Die, Decline, RecordOutcome, Command
<1>10. CASE Lookup(c)
  <2>1. \/ \E d : Return(c, d)
        \/ \E q : caller' = [caller EXCEPT ![c].pc = "reconcile", ![c].result = q]
    BY <1>10 DEF Lookup
  <2> QED
    BY <1>2, <2>1, LeavesInvokers
<1>11. CASE ReconcileReceipt(c)
  <2>1. \/ \E d : Return(c, d)
        \/ caller' = [caller EXCEPT ![c].pc = "outcome",
                         ![c].view.active = [kind |-> "execution", ordinal |-> 1]]
    BY <1>11 DEF ReconcileReceipt, Command
  <2> QED
    BY <1>2, <2>1, LeavesInvokers
<1> QED
  BY <1>3, <1>4, <1>5, <1>6, <1>7, <1>8, <1>9, <1>10, <1>11

LEMMA OthersInvokeNot ==
    ASSUME NEW c \in Callers,
           \/ \E op \in Ops : \E supplied \in SUBSET InputGates(KindOf(op)) :
                 Start(c, op, supplied)
           \/ Load(c) \/ Die(c) \/ Declare(c) \/ Decide(c) \/ Decline(c) \/ Prepare(c)
           \/ RecordDispatch(c) \/ ObserveReceipt(c) \/ RecordOutcome(c) \/ Lookup(c)
           \/ ReconcileReceipt(c)
    PROVE  invoked' = invoked
BY DEF Start, Load, Die, Declare, Decide, Decline, Prepare, RecordDispatch,
   ObserveReceipt, RecordOutcome, Lookup, ReconcileReceipt, Quiet

\* An invocation takes the caller from those that may invoke.
LEMMA InvokeCounts ==
    ASSUME MachineOK, DispatchInv, NEW c \in Callers, NEW k \in Kinds, Invoke(c)
    PROVE  /\ Dispatched(k)' = Dispatched(k)
           /\ \/ invoked'[k] = invoked[k] /\ Invokers(k)' \subseteq Invokers(k)
              \/ /\ invoked'[k] = invoked[k] + 1 /\ c \in Invokers(k)
                 /\ Invokers(k)' \subseteq Invokers(k) \ {c}
<1>1. /\ Sound(caller[c], applied, effect) /\ caller[c].pc = "invoke"
      /\ invoked \in [Kinds -> Nat] /\ attempts' = attempts
  BY DEF DispatchInv, DispatchTypes, Invoke, machine
<1>2. invoked' = [invoked EXCEPT ![KindOf(caller[c].op)] = @ + 1]
  BY DEF Invoke
<1>3. Invokers(k)' \subseteq Invokers(k) \ {c}
  <2>1. \E q : caller' = [caller EXCEPT ![c].pc = "receipt", ![c].result = q]
    BY DEF Invoke
  <2> QED
    BY <2>1, LeavesInvokers
<1>4. Dispatched(k)' = Dispatched(k)
  BY <1>1 DEF Dispatched, Has, First
<1>5. CASE KindOf(caller[c].op) = k
  <2>1. caller[c].op = OpOf(k)
    BY <1>1, <1>5, KindFacts DEF Sound
  <2>2. c \in Invokers(k)
    BY <1>1, <2>1 DEF Invokers, MayInvoke
  <2> QED
    BY <1>1, <1>2, <1>3, <1>4, <1>5, <2>2
<1>6. CASE KindOf(caller[c].op) # k
  <2>1. invoked'[k] = invoked[k]
    BY <1>1, <1>2, <1>6
  <2> QED
    BY <1>3, <1>4, <2>1
<1> QED
  BY <1>5, <1>6

LEMMA FewInvokers ==
    ASSUME NEW k \in Kinds
    PROVE  /\ IsFiniteSet(Invokers(k)) /\ Cardinality(Invokers(k)) \in Nat
           /\ Cardinality(Invokers(k)) <= Cardinality(Callers)
           /\ Cardinality(Callers) \in Nat
<1>1. Invokers(k) \subseteq Callers
  BY DEF Invokers
<1> QED
  BY <1>1, CallersAssumption, FS_Subset, FS_CardinalityType

LEMMA CountStep ==
    ASSUME Inv, Inv', [Next]_vars, NEW k \in Kinds, Counted(k)
    PROVE  Counted(k)'
<1>1. MachineOK /\ DispatchInv /\ Tracked(k) /\ invoked \in [Kinds -> Nat]
  BY SameState DEF Inv, DispatchInv, DispatchTypes
<1>2. /\ IsFiniteSet(Invokers(k)) /\ Cardinality(Invokers(k)) \in Nat
      /\ Cardinality(Callers) \in Nat
  BY FewInvokers
<1>3. ASSUME NEW S \in SUBSET Callers
      PROVE  IsFiniteSet(S) /\ Cardinality(S) \in Nat /\ Cardinality(S) <= Cardinality(Callers)
  BY CallersAssumption, FS_Subset, FS_CardinalityType
<1>4. Invokers(k)' \subseteq Callers
  BY DEF Invokers
<1>5. ASSUME NEW T, T \subseteq Invokers(k)
      PROVE  Cardinality(T) <= Cardinality(Invokers(k))
  BY <1>2, <1>5, FS_Subset
<1>6. CASE Dispatched(k) /\ invoked'[k] = invoked[k] /\ Invokers(k)' \subseteq Invokers(k)
  <2>1. Cardinality(Invokers(k)') <= Cardinality(Invokers(k))
    BY <1>5, <1>6
  <2>2. invoked[k] + Cardinality(Invokers(k)) <= Cardinality(Callers) /\ invoked[k] \in Nat
    BY <1>1, <1>6 DEF Counted
  <2>3. Cardinality(Invokers(k)') \in Nat
    BY <1>3, <1>4
  <2>4. invoked'[k] + Cardinality(Invokers(k)') <= Cardinality(Callers)
    BY <1>2, <1>6, <2>1, <2>2, <2>3
  <2> QED
    BY <2>4 DEF Counted
<1>7. CASE ~Dispatched(k) /\ invoked'[k] = invoked[k]
  <2>1. invoked[k] = 0
    BY <1>1, <1>7 DEF Tracked
  <2>2. Cardinality(Invokers(k)') \in Nat /\ Cardinality(Invokers(k)') <= Cardinality(Callers)
    BY <1>3, <1>4
  <2>3. invoked'[k] + Cardinality(Invokers(k)') <= Cardinality(Callers)
    BY <1>7, <2>1, <2>2
  <2> QED
    BY <2>3 DEF Counted
<1>8. ASSUME NEW c \in Callers, Dispatched(k), invoked'[k] = invoked[k] + 1,
             c \in Invokers(k), Invokers(k)' \subseteq Invokers(k) \ {c}
      PROVE  Counted(k)'
  <2>1. /\ IsFiniteSet(Invokers(k) \ {c})
        /\ Cardinality(Invokers(k) \ {c}) = Cardinality(Invokers(k)) - 1
    BY <1>2, <1>8, FS_RemoveElement
  <2>2. Cardinality(Invokers(k)') <= Cardinality(Invokers(k) \ {c})
    BY <1>8, <2>1, FS_Subset
  <2>3. Cardinality(Invokers(k)') \in Nat
    BY <1>3, <1>4
  <2>4. invoked[k] + Cardinality(Invokers(k)) <= Cardinality(Callers) /\ invoked[k] \in Nat
    BY <1>1, <1>8 DEF Counted
  <2>5. invoked'[k] + Cardinality(Invokers(k)') <= Cardinality(Callers)
    BY <1>2, <1>8, <2>1, <2>2, <2>3, <2>4
  <2> QED
    BY <2>5 DEF Counted
<1>9. ASSUME NEW c \in Callers, Invoke(c)
      PROVE  Counted(k)'
  <2>1. Dispatched(k)' = Dispatched(k)
    BY <1>1, <1>9, InvokeCounts
  <2>2. CASE Dispatched(k)
    BY <1>1, <1>6, <1>8, <1>9, <2>2, InvokeCounts
  <2>3. CASE ~Dispatched(k)
    BY <2>1, <2>3 DEF Counted
  <2> QED
    BY <2>2, <2>3
<1>10. CASE UNCHANGED vars
  <2>1. Invokers(k)' = Invokers(k) /\ invoked' = invoked
    BY <1>10 DEF vars, Invokers, MayInvoke, OpOf, MayStart
  <2> QED
    BY <1>6, <1>7, <2>1
<1>11. ASSUME NEW c \in Callers,
             \/ \E op \in Ops : \E supplied \in SUBSET InputGates(KindOf(op)) :
                   Start(c, op, supplied)
             \/ Load(c) \/ Die(c) \/ Declare(c) \/ Decide(c) \/ Decline(c) \/ Prepare(c)
             \/ RecordDispatch(c) \/ ObserveReceipt(c) \/ RecordOutcome(c) \/ Lookup(c)
             \/ ReconcileReceipt(c)
      PROVE  Counted(k)'
  <2>1. invoked'[k] = invoked[k]
    BY <1>11, OthersInvokeNot
  <2>2. Dispatched(k) => Invokers(k)' \subseteq Invokers(k)
    BY <1>1, <1>11, InvokersShrink
  <2> QED
    BY <1>6, <1>7, <2>1, <2>2
<1> QED
  BY <1>9, <1>10, <1>11 DEF Next

\* However often calls of the task are retried, and after whatever crashes, an
\* executor is invoked at most once per caller: only calls that were under way
\* when the dispatch became durable can still invoke it.
THEOREM RetriesInvokeNothing == Spec => []NeverReinvoked
<1>1. Init => \A k \in Kinds : Counted(k)
  BY DEF Init, Machine!Init, Counted, Dispatched, Has, Kinds
<1>2. Inv /\ Inv' /\ [Next]_vars /\ (\A k \in Kinds : Counted(k))
        => (\A k \in Kinds : Counted(k))'
  <2>1. Inv /\ Inv' /\ [Next]_vars /\ (\A k \in Kinds : Counted(k))
          => \A k \in Kinds : Counted(k)'
    BY CountStep
  <2> QED
    BY <2>1 DEF Kinds, Machine!Kinds
<1>3. ASSUME Inv, \A k \in Kinds : Counted(k)
      PROVE  NeverReinvoked
  <2>1. ASSUME NEW k \in Kinds
        PROVE  invoked[k] <= Cardinality(Callers)
    <3>1. invoked[k] \in Nat /\ Tracked(k) /\ Counted(k)
      BY <1>3 DEF Inv, DispatchInv, DispatchTypes
    <3>2. Cardinality(Invokers(k)) \in Nat /\ Cardinality(Callers) \in Nat
      BY FewInvokers
    <3>3. CASE Dispatched(k)
      BY <3>1, <3>2, <3>3 DEF Counted
    <3>4. CASE ~Dispatched(k)
      BY <3>1, <3>2, <3>4 DEF Tracked
    <3> QED
      BY <3>3, <3>4
  <2> QED
    BY <2>1 DEF NeverReinvoked
<1>4. Inv /\ (\A k \in Kinds : Counted(k)) => NeverReinvoked
  BY <1>3
<1> QED
  BY <1>1, <1>2, <1>4, Invariance, PTL DEF Spec
(***************************************************************************)
(* What calls report.  As long as each executor has been invoked at most   *)
(* once, the call that invoked it is the only one that may record its      *)
(* receipt and outcome, and whoever looks the effect up finds the same; so *)
(* what a call has seen or recorded is what stands.  An attempt only moves *)
(* on, so that it goes on standing.                                        *)
(*                                                                         *)
(* A are the task's attempts and st is its status; ap and ef are the       *)
(* committed commands and the effects.                                     *)
(***************************************************************************)
Received(A, k) == A[k] # <<>> /\ A[k][1].status \in {"receipt_observed", "concluded"}
Concluded(A, k, o) ==
    A[k] # <<>> /\ A[k][1].status = "concluded" /\ A[k][1].outcome = o

\* The episode says what a call that answers s reports.
Shown(s, A, st) ==
    /\ s = "succeeded" => Concluded(A, "execution", "accepted")
    /\ s = "failed" => Concluded(A, "execution", "rejected")
    /\ s = "rolled_back" => Concluded(A, "rollback", "accepted")
    /\ s \in {"awaiting_outcome", "indeterminate", "still_indeterminate"} =>
          Received(A, "execution")
    /\ s = "rollback_failed" =>
          \/ st = "rollback_failed"
          \/ Received(A, "rollback") /\ A["rollback"][1].receipt # "succeeded"

\* Has invoked, and is to record what the executor answered.
Answering(r) == r.pc \in {"receipt", "outcome"} /\ r.op # "reconcile"

\* Has looked the effect up, and is to record what the provider answered.
Confirming(r) == r.pc = "reconcile" \/ (r.pc = "outcome" /\ r.op = "reconcile")

Truth(ef) == IF ef["execution"] THEN "succeeded" ELSE "failed"

\* What the call at r has seen, will record or has reported is so.
Trusted(r, A, ap, ef, st) ==
    /\ Shown(r.returned, A, st)
    /\ r.pc = "stage" => Shown(r.view.status, A, st)
    /\ Answering(r) => <<r.op, "record_outcome">> \notin ap
    /\ r.pc = "receipt" => <<r.op, "observe_receipt">> \notin ap
    /\ Answering(r) /\ r.pc = "outcome" =>
          /\ r.view.active.kind = KindOf(r.op)
          /\ Received(A, KindOf(r.op))
          /\ r.result # "indeterminate" /\ A[KindOf(r.op)][1].receipt = r.result
    /\ Confirming(r) =>
          /\ r.op = "reconcile" /\ Received(A, "execution")
          /\ r.result = Truth(ef)
          /\ r.pc = "outcome" => r.view.active.kind = "execution"

\* Only one call answers for an executor, and none before it is invoked.
HeardOnce ==
    /\ \A c, d \in Callers :
          Answering(caller[c]) /\ Answering(caller[d]) /\ caller[c].op = caller[d].op
             => c = d
    /\ \A k \in Kinds : invoked[k] = 0 =>
          /\ <<OpOf(k), "observe_receipt">> \notin applied
          /\ <<OpOf(k), "record_outcome">> \notin applied
          /\ \A c \in Callers : Answering(caller[c]) => caller[c].op # OpOf(k)

\* What was reconciled is what happened.
Reconciled(A, ap, ef) ==
    <<"reconcile", "record_outcome">> \in ap =>
        Concluded(A, "execution", IF ef["execution"] THEN "accepted" ELSE "rejected")

\* The dispatcher records no partial outcome.
Whole(A) == \A k \in Kinds : A[k] # <<>> => A[k][1].outcome # "partial"

Once == \A k \in Kinds : invoked[k] <= 1

Known ==
    /\ Whole(attempts[Task])
    /\ \A c \in Callers :
          Trusted(caller[c], attempts[Task], applied, effect, status[Task])
    /\ HeardOnce
    /\ Reconciled(attempts[Task], applied, effect)

\* From attempts A to attempts B nothing recorded is taken back.
Later(A, B) ==
    \A k \in Kinds :
        /\ \A o : Concluded(A, k, o) => Concluded(B, k, o)
        /\ Received(A, k) => Received(B, k)
        /\ Received(A, k) /\ (k = "rollback" \/ A[k][1].receipt # "indeterminate")
              => B[k][1].receipt = A[k][1].receipt

LEMMA SameIsLater == \A A : Later(A, A)
BY DEF Later

\* An attempt may change before it has a receipt, be given an outcome, or, if
\* it is an execution whose receipt is indeterminate, be given another receipt.
LEMMA LaterIf ==
    ASSUME NEW A, NEW B, NEW k \in Kinds, \A j \in Kinds : j # k => B[j] = A[j],
           \/ ~Received(A, k)
           \/ /\ A[k][1].status = "receipt_observed" /\ Received(B, k)
              /\ \/ B[k][1].receipt = A[k][1].receipt
                 \/ k = "execution" /\ A[k][1].receipt = "indeterminate"
    PROVE  Later(A, B)
<1> SUFFICES ASSUME NEW j \in Kinds
             PROVE  /\ \A o : Concluded(A, j, o) => Concluded(B, j, o)
                    /\ Received(A, j) => Received(B, j)
                    /\ Received(A, j) /\ (j = "rollback" \/ A[j][1].receipt # "indeterminate")
                          => B[j][1].receipt = A[j][1].receipt
  BY DEF Later
<1>1. CASE j # k
  <2>1. B[j] = A[j]
    BY <1>1
  <2> QED
    BY <2>1 DEF Received, Concluded
<1>2. CASE j = k
  BY <1>2 DEF Received, Concluded
<1> QED
  BY <1>1, <1>2

LEMMA ShownLater ==
    ASSUME NEW A, NEW B, NEW st, NEW su, NEW s, Later(A, B), Shown(s, A, st),
           st = "rollback_failed" => su = "rollback_failed"
    PROVE  Shown(s, B, su)
<1>1. "execution" \in Kinds /\ "rollback" \in Kinds
  BY KindFacts
<1> QED
  BY <1>1 DEF Shown, Later

LEMMA TrustedLater ==
    ASSUME NEW A, NEW B, NEW st, NEW su, NEW r, NEW ap, NEW aq, NEW ef, Later(A, B),
           st = "rollback_failed" => su = "rollback_failed", Trusted(r, A, ap, ef, st),
           Answering(r) => <<r.op, "record_outcome">> \notin aq,
           r.pc = "receipt" => <<r.op, "observe_receipt">> \notin aq
    PROVE  Trusted(r, B, aq, ef, su)
<1>1. "execution" \in Kinds /\ KindOf(r.op) \in Kinds
  BY KindFacts DEF KindOf
<1>2. Shown(r.returned, B, su) /\ (r.pc = "stage" => Shown(r.view.status, B, su))
  BY ShownLater DEF Trusted
<1>3. Answering(r) /\ r.pc = "outcome" =>
          /\ Received(B, KindOf(r.op))
          /\ B[KindOf(r.op)][1].receipt = r.result
  BY <1>1 DEF Trusted, Later
<1>4. Confirming(r) => Received(B, "execution")
  BY <1>1 DEF Trusted, Later
<1> QED
  BY <1>2, <1>3, <1>4 DEF Trusted

\* A step of caller c to r that takes nobody else's answer keeps what the
\* others know.
LEMMA KnownKept ==
    ASSUME DispatchInv, Known, NEW c \in Callers, NEW r, NEW stage,
           caller' = [caller EXCEPT ![c] = r], UNCHANGED <<invoked, effect>>,
           Later(attempts[Task], attempts'[Task]), Whole(attempts'[Task]),
           status[Task] = "rollback_failed" => status'[Task] = "rollback_failed",
           applied' = applied \/ applied' = applied \cup {<<caller[c].op, stage>>},
           stage \in {"observe_receipt", "record_outcome"} =>
              Answering(caller[c]) \/ caller[c].op = "reconcile",
           Trusted(r, attempts'[Task], applied', effect', status'[Task]),
           Answering(r) => Answering(caller[c]) /\ r.op = caller[c].op,
           Reconciled(attempts'[Task], applied', effect')
    PROVE  Known'
<1>1. caller'[c] = r /\ \A d \in Callers : d # c => caller'[d] = caller[d]
  BY DEF DispatchInv, DispatchTypes
<1>2. ASSUME NEW d \in Callers, d # c
      PROVE  Trusted(caller'[d], attempts'[Task], applied', effect', status'[Task])
  <2>1. Trusted(caller[d], attempts[Task], applied, effect, status[Task])
    BY DEF Known
  <2>2. Answering(caller[d]) /\ Answering(caller[c]) => caller[d].op # caller[c].op
    BY <1>2 DEF Known, HeardOnce
  <2>3. Answering(caller[d]) => caller[d].op # "reconcile"
    BY DEF Answering
  <2>4. caller[d].pc = "receipt" => caller[d].op # "reconcile"
    BY DEF DispatchInv, Sound
  <2>5. Answering(caller[d]) => <<caller[d].op, "record_outcome">> \notin applied'
    BY <2>1, <2>2, <2>3 DEF Trusted
  <2>6. caller[d].pc = "receipt" => Answering(caller[d])
    BY <2>4 DEF Answering
  <2>7. caller[d].pc = "receipt" => <<caller[d].op, "observe_receipt">> \notin applied'
    BY <2>1, <2>2, <2>3, <2>6 DEF Trusted
  <2>8. Trusted(caller[d], attempts'[Task], applied', effect, status'[Task])
    BY <2>1, <2>5, <2>7, TrustedLater
  <2> QED
    BY <1>1, <1>2, <2>8
<1>3. ASSUME NEW d \in Callers, NEW e \in Callers, Answering(caller'[d]), Answering(caller'[e]),
             caller'[d].op = caller'[e].op
      PROVE  d = e
  <2>1. \A f \in Callers : Answering(caller'[f]) =>
           Answering(caller[f]) /\ caller'[f].op = caller[f].op
    BY <1>1
  <2> QED
    BY <1>3, <2>1 DEF Known, HeardOnce
<1>4. ASSUME NEW k \in Kinds, invoked'[k] = 0
      PROVE  /\ <<OpOf(k), "observe_receipt">> \notin applied'
             /\ <<OpOf(k), "record_outcome">> \notin applied'
             /\ \A d \in Callers : Answering(caller'[d]) => caller'[d].op # OpOf(k)
  <2>1. /\ <<OpOf(k), "observe_receipt">> \notin applied
        /\ <<OpOf(k), "record_outcome">> \notin applied
        /\ \A d \in Callers : Answering(caller[d]) => caller[d].op # OpOf(k)
    BY <1>4 DEF Known, HeardOnce
  <2>2. OpOf(k) # "reconcile"
    BY DEF OpOf
  <2>3. stage \in {"observe_receipt", "record_outcome"} => caller[c].op # OpOf(k)
    BY <2>1, <2>2
  <2> QED
    BY <1>1, <2>1, <2>3
<1>5. HeardOnce'
  <2>1. \A k : OpOf(k)' = OpOf(k)
    BY DEF OpOf
  <2> QED
    BY <1>3, <1>4, <2>1 DEF HeardOnce, Kinds, OpOf
<1>6. \A d \in Callers : Trusted(caller'[d], attempts'[Task], applied', effect', status'[Task])
  BY <1>1, <1>2
<1> QED
  BY <1>5, <1>6 DEF Known

\* The same, where the call of c ends and reports d.
LEMMA ReturnKnown ==
    ASSUME DispatchInv, Known, NEW c \in Callers, NEW d, NEW stage, Return(c, d),
           UNCHANGED <<invoked, effect>>,
           Later(attempts[Task], attempts'[Task]), Whole(attempts'[Task]),
           status[Task] = "rollback_failed" => status'[Task] = "rollback_failed",
           applied' = applied \/ applied' = applied \cup {<<caller[c].op, stage>>},
           stage \in {"observe_receipt", "record_outcome"} =>
              Answering(caller[c]) \/ caller[c].op = "reconcile",
           Shown(d, attempts'[Task], status'[Task]),
           Reconciled(attempts'[Task], applied', effect')
    PROVE  Known'
<1> DEFINE r == Idle(d)
<1>1. caller' = [caller EXCEPT ![c] = r]
  BY DEF Return
<1>2. r.pc = "idle" /\ r.returned = d
  BY DEF Idle
<1> HIDE DEF r
<1>3. ~Answering(r) /\ ~Confirming(r)
  BY <1>2 DEF Answering, Confirming
<1>4. Trusted(r, attempts'[Task], applied', effect', status'[Task])
  BY <1>2, <1>3 DEF Trusted
<1> QED
  BY <1>1, <1>3, <1>4, KnownKept

LEMMA NothingToShow ==
    ASSUME NEW A, NEW st,
           NEW d \in {"none", "threw", "not_ready", "simulation_required",
                      "no_rollback_needed", "no_rollback_executor", "not_reconcilable",
                      "not_pending"}
    PROVE  Shown(d, A, st)
BY DEF Shown

\* A command other than a reconciled outcome leaves what was reconciled.
LEMMA StillReconciled ==
    ASSUME NEW A, NEW B, NEW ap, NEW ef, NEW o, NEW stage, Later(A, B),
           Reconciled(A, ap, ef), o = "reconcile" => stage # "record_outcome"
    PROVE  /\ Reconciled(B, ap, ef)
           /\ Reconciled(B, ap \cup {<<o, stage>>}, ef)
<1>1. "execution" \in Kinds
  BY KindFacts
<1> QED
  BY <1>1 DEF Reconciled, Later

\* A step that records no receipt and no outcome, and that does not take its
\* caller to record one.
LEMMA AsideKnown ==
    ASSUME DispatchInv, Known, NEW c \in Callers, NEW r, NEW stage,
           caller' = [caller EXCEPT ![c] = r], UNCHANGED <<invoked, effect>>,
           Later(attempts[Task], attempts'[Task]), Whole(attempts'[Task]),
           status[Task] = "rollback_failed" => status'[Task] = "rollback_failed",
           applied' = applied \/ applied' = applied \cup {<<caller[c].op, stage>>},
           stage \notin {"observe_receipt", "record_outcome"},
           r.pc \in {"load", "invoke"}, r.returned = caller[c].returned
    PROVE  Known'
<1>2. Reconciled(attempts'[Task], applied', effect')
  <2>1. Reconciled(attempts[Task], applied, effect)
    BY DEF Known
  <2>2. ASSUME NEW o, stage # "record_outcome"
        PROVE  /\ Reconciled(attempts'[Task], applied, effect)
               /\ Reconciled(attempts'[Task], applied \cup {<<o, stage>>}, effect)
    BY <2>1, <2>2, StillReconciled, Zenon
  <2>3. /\ Reconciled(attempts'[Task], applied, effect)
        /\ Reconciled(attempts'[Task], applied \cup {<<caller[c].op, stage>>}, effect)
    BY <2>2
  <2> QED
    BY <2>3
<1>3. Shown(r.returned, attempts'[Task], status'[Task])
  <2>1. Shown(caller[c].returned, attempts[Task], status[Task])
    BY DEF Known, Trusted
  <2> QED
    BY <2>1, ShownLater
<1>4. ~Answering(r) /\ ~Confirming(r) /\ r.pc # "stage" /\ r.pc # "receipt"
  BY DEF Answering, Confirming
<1>5. Trusted(r, attempts'[Task], applied', effect', status'[Task])
  BY <1>3, <1>4 DEF Trusted
<1> QED
  BY <1>2, <1>4, <1>5, KnownKept

LEMMA EndKnown ==
    ASSUME DispatchInv, Known, NEW c \in Callers, NEW d, Return(c, d),
           UNCHANGED <<machine, applied, invoked, effect>>,
           Shown(d, attempts[Task], status[Task])
    PROVE  Known'
<1>1. attempts' = attempts /\ status' = status /\ applied' = applied /\ effect' = effect
  BY DEF machine
<1>2. Later(attempts[Task], attempts'[Task])
  BY <1>1, SameIsLater
<1>3. /\ Whole(attempts'[Task]) /\ Reconciled(attempts'[Task], applied', effect')
      /\ Shown(d, attempts'[Task], status'[Task])
  BY <1>1 DEF Known
<1>4. "open_episode" \notin {"observe_receipt", "record_outcome"}
  OBVIOUS
<1> QED
  BY <1>1, <1>2, <1>3, <1>4, ReturnKnown

LEMMA ThrowKnown ==
    ASSUME DispatchInv, Known, NEW c \in Callers, Return(c, "threw"),
           UNCHANGED <<machine, applied, invoked, effect>>
    PROVE  Known'
BY EndKnown, NothingToShow

\* What the episode says of the task, it can show.
LEMMA StatusShown ==
    ASSUME MachineOK, Whole(attempts[Task])
    PROVE  Shown(status[Task], attempts[Task], status[Task])
<1>1. Machine!ConsistentTask(Task)
  BY DEF MachineOK, Machine!StatusMatchesAttempt
<1>2. /\ Has("execution") => First("execution") \in Machine!Attempt
      /\ Has("execution") => First("execution").outcome # "partial"
  BY OneOfAKind, KindFacts DEF Whole, Has, First
<1>3. CASE Machine!NotAttempted(Task) \/ Machine!Succeeded(Task)
  BY <1>3 DEF Machine!NotAttempted, Machine!Succeeded, Machine!SingleAttempt, Machine!PreRun,
     Shown, Concluded
<1>4. CASE Machine!Executing(Task)
  BY <1>4 DEF Machine!Executing, Machine!UnderWay, Machine!SingleAttempt, Shown, Received
<1>5. CASE Machine!NotCompensated(Task)
  <2>1. /\ Has("execution") /\ First("execution").status = "concluded"
        /\ First("execution").outcome \notin {"none", "accepted"}
    BY <1>5 DEF Machine!NotCompensated, Machine!ExecutionFailed, Machine!SingleAttempt, Has, First
  <2>2. First("execution").outcome = "rejected"
    BY <1>2, <2>1 DEF Machine!Attempt, Machine!Dispositions
  <2>3. status[Task] \in {"failed", "rollback_ready", "rollback_blocked", "rollback_failed"}
    BY <1>5 DEF Machine!NotCompensated
  <2> QED
    BY <2>1, <2>2, <2>3 DEF Shown, Concluded, Has, First
<1>6. CASE Machine!Compensating(Task)
  <2>1. Received(attempts[Task], "execution")
    BY <1>6 DEF Machine!Compensating, Machine!ExecutionFailed, Machine!SingleAttempt, Received
  <2>2. status[Task] \in {"rollback_ready", "rolling_back", "awaiting_outcome"}
    BY <1>6 DEF Machine!Compensating, Machine!UnderWay
  <2> QED
    BY <2>1, <2>2 DEF Shown
<1>7. CASE Machine!Compensated(Task)
  BY <1>7 DEF Machine!Compensated, Machine!SingleAttempt, Shown, Concluded
<1> QED
  BY <1>1, <1>3, <1>4, <1>5, <1>6, <1>7 DEF Machine!ConsistentTask

LEMMA StartKnown ==
    ASSUME DispatchInv, Known, NEW c \in Callers, NEW op, NEW supplied, Start(c, op, supplied)
    PROVE  Known'
<1> DEFINE r == [Idle("none") EXCEPT !.op = op, !.pc = "load", !.supplied = supplied]
<1>1. /\ caller' = [caller EXCEPT ![c] = r]
      /\ attempts' = attempts /\ status' = status
      /\ applied' = applied /\ UNCHANGED <<invoked, effect>>
  BY DEF Start, Quiet, machine
<1>2. r.pc = "load" /\ r.returned = "none"
  BY DEF Idle
<1> HIDE DEF r
<1>3. ~Answering(r) /\ Trusted(r, attempts[Task], applied, effect, status[Task])
  BY <1>2, NothingToShow DEF Trusted, Answering, Confirming
<1>4. Later(attempts[Task], attempts'[Task])
  BY <1>1, SameIsLater
<1>5. "open_episode" \notin {"observe_receipt", "record_outcome"}
  OBVIOUS
<1>6. /\ Whole(attempts'[Task]) /\ Reconciled(attempts'[Task], applied', effect')
      /\ Trusted(r, attempts'[Task], applied', effect', status'[Task])
  BY <1>1, <1>3 DEF Known
<1> QED
  BY <1>1, <1>3, <1>4, <1>5, <1>6, KnownKept

LEMMA LoadKnown ==
    ASSUME MachineOK, DispatchInv, Known, NEW c \in Callers, Load(c)
    PROVE  Known'
<1> DEFINE r == [caller[c] EXCEPT !.pc = "stage", !.view = Loaded]
<1>1. /\ caller' = [caller EXCEPT ![c] = r]
      /\ attempts' = attempts /\ status' = status
      /\ applied' = applied /\ UNCHANGED <<invoked, effect>>
  BY DEF Load, Quiet, machine, DispatchInv, DispatchTypes
<1>2. caller[c] \in Caller
  BY DEF DispatchInv, DispatchTypes
<1>3. r.pc = "stage" /\ r.view.status = status[Task] /\ r.returned = caller[c].returned
  BY <1>2 DEF Caller, Loaded
<1> HIDE DEF r
<1>4. Shown(status[Task], attempts[Task], status[Task])
  BY StatusShown DEF Known
<1>5. Shown(r.returned, attempts[Task], status[Task])
  BY <1>3 DEF Known, Trusted
<1>6. ~Answering(r) /\ Trusted(r, attempts[Task], applied, effect, status[Task])
  BY <1>3, <1>4, <1>5 DEF Trusted, Answering, Confirming
<1>7. Later(attempts[Task], attempts'[Task])
  BY <1>1, SameIsLater
<1>8. "open_episode" \notin {"observe_receipt", "record_outcome"}
  OBVIOUS
<1>9. /\ Whole(attempts'[Task]) /\ Reconciled(attempts'[Task], applied', effect')
      /\ Trusted(r, attempts'[Task], applied', effect', status'[Task])
  BY <1>1, <1>6 DEF Known
<1> QED
  BY <1>1, <1>6, <1>7, <1>8, <1>9, KnownKept

LEMMA DeclineKnown ==
    ASSUME DispatchInv, Known, NEW c \in Callers, Decline(c)
    PROVE  Known'
<1> DEFINE s == caller[c].view.status
           Showable(d) == Shown(d, attempts[Task], status[Task])
<1>1. caller[c].pc = "stage" /\ UNCHANGED <<machine, applied, invoked, effect>>
  BY DEF Decline, AtStage, Quiet
<1>2. Showable(s)
  BY <1>1 DEF Known, Trusted
<1>3. \A op : Showable(Answer(op, s))
  <2> HIDE DEF s
  <2>1. s = "awaiting_outcome" => Showable("indeterminate")
    BY <1>2 DEF Shown
  <2>2. Showable("not_ready")
    BY NothingToShow
  <2> HIDE DEF Showable
  <2> QED
    BY <1>2, <2>1, <2>2 DEF Answer
<1>4. Showable(CASE s = "undeclared" -> "threw"
                 [] s \in {"rolled_back", "rollback_failed"} -> s
                 [] OTHER -> "no_rollback_needed")
  <2> HIDE DEF s
  <2>1. Showable("threw") /\ Showable("no_rollback_needed")
    BY NothingToShow
  <2> HIDE DEF Showable
  <2> QED
    BY <1>2, <2>1
<1>5. Showable("simulation_required") /\ Showable("no_rollback_executor")
  BY NothingToShow
<1>6. \E d : Return(c, d) /\ Showable(d)
  <2> HIDE DEF Showable
  <2> QED
    BY <1>3, <1>4, <1>5 DEF Decline
<1> QED
  BY <1>1, <1>6, EndKnown

\* "rollback_failed" is final.
FailureStays == status[Task] = "rollback_failed" => status'[Task] = "rollback_failed"

LEMMA FailureIsFinal ==
    ASSUME Episode!Inv, [Machine!Next]_(Machine!vars)
    PROVE  FailureStays
<1>1. /\ TaskShapes \subseteq [rollback : Episode!RollbackModes,
                               pending : SUBSET (Episode!Kinds \X Episode!Gates)]
      /\ Times \subseteq Nat /\ NoGoal \notin {Goal}
  BY TimesAssumption, GoalAssumption, ShapesAssumption
  DEF Machine!RollbackModes, Episode!RollbackModes, Machine!Kinds, Episode!Kinds,
      Machine!Gates, Episode!Gates
<1>2. [Episode!Next]_(Episode!vars)
  BY SameNext
<1>3. ASSUME status[Task] = "rollback_failed"
      PROVE  status'[Task] = "rollback_failed"
  <2>1. status[Task] \in Episode!Ended
    BY <1>3 DEF Episode!Ended
  <2>2. active[Task] = Episode!NoAttempt
    BY <1>1, <2>1, Episode!NotUnderWay
  <2>3. Episode!Settled(Task)
    BY <2>1, <2>2 DEF Episode!Settled
  <2>4. status'[Task] = status[Task]
    BY <1>1, <1>2, <2>1, <2>3, Episode!SettledStep
  <2> QED
    BY <1>3, <2>4
<1> QED
  BY <1>3 DEF FailureStays

LEMMA ReloadKnown ==
    ASSUME DispatchInv, Known, NEW c \in Callers, NEW n, NEW stage, Reload(c, n),
           UNCHANGED <<invoked, effect>>, attempts' = attempts, FailureStays,
           applied' = applied \/ applied' = applied \cup {CommandId(c, stage)},
           stage \notin {"observe_receipt", "record_outcome"}
    PROVE  Known'
<1> DEFINE r == [caller[c] EXCEPT !.pc = "load", !.next = n]
<1>1. caller' = [caller EXCEPT ![c] = r]
  BY DEF Reload, DispatchInv, DispatchTypes
<1>2. caller[c] \in Caller
  BY DEF DispatchInv, DispatchTypes
<1>3. r.pc = "load" /\ r.returned = caller[c].returned
  BY <1>2 DEF Caller
<1> HIDE DEF r
<1>4. Later(attempts[Task], attempts'[Task]) /\ Whole(attempts'[Task])
  BY SameIsLater DEF Known
<1> QED
  BY <1>1, <1>3, <1>4, AsideKnown DEF CommandId, FailureStays

LEMMA DeclareKnown ==
    ASSUME DispatchInv, Known, FailureStays, NEW c \in Callers, Declare(c)
    PROVE  Known'
<1> DEFINE Done(stage, n) ==
             /\ attempts' = attempts
             /\ applied' = applied \/ applied' = applied \cup {CommandId(c, stage)}
             /\ Reload(c, n)
           Threw == Return(c, "threw") /\ UNCHANGED <<machine, applied>>
<1>1. UNCHANGED <<invoked, effect>>
  BY DEF Declare
<1>2. CASE Command(c, "open_episode", Machine!OpenEpisode, Reload(c, 2))
  <2>1. Machine!OpenEpisode => attempts' = attempts
    BY DEF Machine!OpenEpisode
  <2>2. Done("open_episode", 2) \/ Threw
    BY <1>2, <2>1 DEF Command, machine
  <2> QED
    BY <1>1, <2>2, ReloadKnown, ThrowKnown
<1>3. CASE Command(c, "declare_goal", Machine!DeclareGoal(Goal), Reload(c, 3))
  <2>1. Machine!DeclareGoal(Goal) => attempts' = attempts
    BY DEF Machine!DeclareGoal
  <2>2. Done("declare_goal", 3) \/ Threw
    BY <1>3, <2>1 DEF Command, machine
  <2> QED
    BY <1>1, <2>2, ReloadKnown, ThrowKnown
<1>4. ASSUME NEW s \in TaskShapes, NEW at \in Times,
             Command(c, "declare_task",
                     Machine!DeclareTask(Task, Goal, {}, s, at), Reload(c, 4))
      PROVE  Known'
  <2>1. Machine!DeclareTask(Task, Goal, {}, s, at) => attempts' = attempts
    BY DEF Machine!DeclareTask
  <2>2. Done("declare_task", 4) \/ Threw
    BY <1>4, <2>1 DEF Command, machine
  <2> QED
    BY <1>1, <2>2, ReloadKnown, ThrowKnown
<1> QED
  BY <1>2, <1>3, <1>4 DEF Declare

LEMMA DecideKnown ==
    ASSUME DispatchInv, Known, FailureStays, NEW c \in Callers, Decide(c)
    PROVE  Known'
<1> DEFINE Done(stage, n) ==
             /\ attempts' = attempts
             /\ applied' = applied \/ applied' = applied \cup {CommandId(c, stage)}
             /\ Reload(c, n)
           Threw == Return(c, "threw") /\ UNCHANGED <<machine, applied>>
<1>1. UNCHANGED <<invoked, effect>>
  BY DEF Decide
<1>2. ASSUME NEW d \in Machine!Verdicts, NEW at \in Times, NEW k,
             Command(c, "record_authority",
                     Machine!RecordAuthority(Task, k, d, at), Reload(c, 5))
      PROVE  Known'
  <2>1. Machine!RecordAuthority(Task, k, d, at) => attempts' = attempts
    BY DEF Machine!RecordAuthority, Machine!RecordDecision
  <2>2. Done("record_authority", 5) \/ Threw
    BY <1>2, <2>1 DEF Command, machine
  <2> QED
    BY <1>1, <2>2, ReloadKnown, ThrowKnown
<1>3. ASSUME NEW d \in Machine!Verdicts, NEW at \in Times, NEW k,
             Command(c, "record_approval",
                     Machine!RecordApproval(Task, k, d, at), Reload(c, 6))
      PROVE  Known'
  <2>1. Machine!RecordApproval(Task, k, d, at) => attempts' = attempts
    BY DEF Machine!RecordApproval, Machine!RecordDecision
  <2>2. Done("record_approval", 6) \/ Threw
    BY <1>3, <2>1 DEF Command, machine
  <2> QED
    BY <1>1, <2>2, ReloadKnown, ThrowKnown
<1> QED
  BY <1>2, <1>3 DEF Decide

LEMMA WholeIf ==
    ASSUME NEW A, NEW B, NEW k \in Kinds, \A j \in Kinds : j # k => B[j] = A[j],
           Whole(A), B[k][1].outcome # "partial"
    PROVE  Whole(B)
BY DEF Whole

LEMMA PrepareKnown ==
    ASSUME MachineOK, MachineOK', DispatchInv, Known, FailureStays, NEW c \in Callers, Prepare(c)
    PROVE  Known'
<1>1. /\ UNCHANGED <<invoked, effect>>
      /\ KindOf(caller[c].op) \in Kinds
  BY KindFacts DEF Prepare, KindOf
<1>2. PICK k \in Kinds, at \in Times :
        Command(c, "prepare_attempt", Machine!PrepareAttempt(Task, k, at), AfterPrepare(c))
  BY <1>1 DEF Prepare
<1>3. CASE /\ Machine!PrepareAttempt(Task, k, at)
           /\ applied' = applied \cup {<<caller[c].op, "prepare_attempt">>}
           /\ Reload(c, 7)
  <2> DEFINE r == [caller[c] EXCEPT !.pc = "load", !.next = 7]
  <2>1. /\ caller' = [caller EXCEPT ![c] = r] /\ caller[c] \in Caller
    BY <1>3 DEF Reload, DispatchInv, DispatchTypes
  <2>2. r.pc \in {"load", "invoke"} /\ r.returned = caller[c].returned
    BY <2>1 DEF Caller
  <2> HIDE DEF r
  <2>3. /\ ~Has(k) /\ Has(k)'
        /\ First(k)' = [status |-> "prepared", preparedAt |-> at,
                        receipt |-> "none", outcome |-> "none"]
        /\ \A j \in Kinds : j # k => attempts'[Task][j] = attempts[Task][j]
    BY <1>3, Added
  <2>4. Later(attempts[Task], attempts'[Task])
    <3>1. ~Received(attempts[Task], k)
      BY <2>3 DEF Has, Received
    <3> QED
      BY <2>3, <3>1, LaterIf
  <2>5. Whole(attempts'[Task])
    <3>1. attempts'[Task][k][1].outcome # "partial"
      BY <2>3 DEF First
    <3> QED
      BY <2>3, <3>1, WholeIf DEF Known
  <2>6. "prepare_attempt" \notin {"observe_receipt", "record_outcome"}
    OBVIOUS
  <2> QED
    BY <1>1, <1>3, <2>1, <2>2, <2>4, <2>5, <2>6, AsideKnown DEF FailureStays
<1>4. CASE Reload(c, 7) /\ UNCHANGED <<machine, applied>>
  <2>1. attempts' = attempts /\ "prepare_attempt" \notin {"observe_receipt", "record_outcome"}
    BY <1>4 DEF machine
  <2> QED
    BY <1>1, <1>4, <2>1, ReloadKnown
<1>5. CASE Return(c, "threw") /\ UNCHANGED <<machine, applied>>
  BY <1>1, <1>5, ThrowKnown
<1> QED
  BY <1>2, <1>3, <1>4, <1>5 DEF Command, CommandId, AfterPrepare

LEMMA RecordDispatchKnown ==
    ASSUME MachineOK, DispatchInv, Known, FailureStays, NEW c \in Callers, RecordDispatch(c)
    PROVE  Known'
<1> DEFINE r == [caller[c] EXCEPT !.pc = "invoke"]
<1>1. /\ UNCHANGED <<invoked, effect>> /\ caller[c] \in Caller /\ caller \in [Callers -> Caller]
      /\ Attempted(c) = Machine!NoAttempt \/ Attempted(c) \in FirstOfSome
  BY DEF RecordDispatch, DispatchInv, DispatchTypes, Sound, Attempted
<1>2. Goto(c, "invoke") => caller' = [caller EXCEPT ![c] = r]
  BY <1>1 DEF Goto
<1>3. r.pc \in {"load", "invoke"} /\ r.returned = caller[c].returned
  BY <1>1 DEF Caller
<1> HIDE DEF r
<1>4. "record_dispatch" \notin {"observe_receipt", "record_outcome"}
  OBVIOUS
<1>5. CASE Return(c, "threw") /\ UNCHANGED <<machine, applied>>
  BY <1>1, <1>5, ThrowKnown
<1>6. CASE Goto(c, "invoke") /\ UNCHANGED <<machine, applied>>
  <2>1. attempts' = attempts /\ applied' = applied
    BY <1>6 DEF machine
  <2>2. Later(attempts[Task], attempts'[Task]) /\ Whole(attempts'[Task])
    BY <2>1, SameIsLater DEF Known
  <2> QED
    BY <1>1, <1>2, <1>3, <1>4, <1>6, <2>1, <2>2, AsideKnown DEF FailureStays
<1>7. CASE /\ Attempted(c) # Machine!NoAttempt
           /\ Machine!RecordDispatch(Task, Attempted(c).kind, Attempted(c).ordinal)
           /\ applied' = applied \cup {<<caller[c].op, "record_dispatch">>}
           /\ Goto(c, "invoke")
  <2>1. PICK k \in Kinds, n \in {1} : k = Attempted(c).kind /\ n = Attempted(c).ordinal
    BY <1>1, <1>7 DEF FirstOfSome
  <2>2. PICK a \in Machine!Attempt : n \in Machine!Ordinals(Task, k) /\ a = First(k) /\ Has(k)
    BY <1>7, <2>1, OneOfAKind DEF Machine!RecordDispatch
  <2>3. /\ a.status = "prepared"
        /\ attempts' = Machine!PutAttempt(Task, k, n, [a EXCEPT !.status = "in_flight"])
    BY <1>7, <2>1, <2>2 DEF Machine!RecordDispatch, First
  <2>4. /\ Has(k)' /\ First(k)' = [a EXCEPT !.status = "in_flight"]
        /\ \A j \in Kinds : j # k => attempts'[Task][j] = attempts[Task][j]
    BY <2>2, <2>3, Replaced
  <2>5. Later(attempts[Task], attempts'[Task])
    <3>1. ~Received(attempts[Task], k)
      BY <2>2, <2>3 DEF First, Received
    <3> QED
      BY <2>4, <3>1, LaterIf
  <2>6. Whole(attempts'[Task])
    <3>1. First(k)'.outcome = First(k).outcome
      BY <2>2, <2>4 DEF Machine!Attempt
    <3>2. attempts'[Task][k][1].outcome # "partial"
      BY <2>2, <3>1 DEF First, Has, Known, Whole
    <3> QED
      BY <2>4, <3>2, WholeIf DEF Known
  <2> QED
    BY <1>1, <1>2, <1>3, <1>4, <1>7, <2>5, <2>6, AsideKnown DEF FailureStays
<1> QED
  BY <1>5, <1>6, <1>7 DEF RecordDispatch, Command, CommandId

\* An invocation of an executor that was not invoked before is the only one to
\* answer for it.
LEMMA InvokeKnown ==
    ASSUME DispatchInv, Known, Once', NEW c \in Callers, Invoke(c)
    PROVE  Known'
<1>1. /\ Sound(caller[c], applied, effect) /\ caller[c] \in Caller
      /\ caller \in [Callers -> Caller]
      /\ caller[c].op \in Ops /\ caller[c].op # "reconcile"
      /\ attempts' = attempts /\ applied' = applied /\ status' = status
      /\ invoked \in [Kinds -> Nat] /\ effect \in [Kinds -> BOOLEAN]
  BY DEF DispatchInv, DispatchTypes, Sound, Invoke, machine
<1>2. PICK k \in Kinds : k = KindOf(caller[c].op) /\ OpOf(k) = caller[c].op
  BY <1>1, KindFacts
<1>3. PICK q \in Machine!ReceiptStatuses, done \in BOOLEAN :
         /\ invoked' = [invoked EXCEPT ![k] = @ + 1]
         /\ effect' = [effect EXCEPT ![k] = @ \/ done]
         /\ caller' = [caller EXCEPT ![c].pc = "receipt", ![c].result = q]
  BY <1>2 DEF Invoke
<1> DEFINE r == [caller[c] EXCEPT !.pc = "receipt", !.result = q]
<1>4. caller' = [caller EXCEPT ![c] = r]
  BY <1>1, <1>3
<1>5. r.pc = "receipt" /\ r.op = caller[c].op /\ r.returned = caller[c].returned
  BY <1>1 DEF Caller
<1> HIDE DEF r
<1>6. caller'[c] = r /\ \A d \in Callers : d # c => caller'[d] = caller[d]
  BY <1>1, <1>4
<1>7. invoked[k] = 0 /\ invoked'[k] # 0
  <2>1. invoked'[k] = invoked[k] + 1 /\ invoked[k] \in Nat
    BY <1>1, <1>3
  <2>2. invoked'[k] <= 1
    BY DEF Once, Kinds
  <2> QED
    BY <2>1, <2>2
<1>8. /\ <<OpOf(k), "observe_receipt">> \notin applied
      /\ <<OpOf(k), "record_outcome">> \notin applied
      /\ \A d \in Callers : Answering(caller[d]) => caller[d].op # OpOf(k)
  BY <1>7 DEF Known, HeardOnce
<1>9. ~Received(attempts[Task], k)
  <2>1. Tracked(k)
    BY DEF DispatchInv
  <2>2. ~Observed(k)
    BY <1>8, <2>1 DEF Tracked
  <2> QED
    BY <2>2 DEF Observed, Has, First, Received
<1>10. Received(attempts[Task], "execution") => Truth(effect') = Truth(effect)
  <2>1. \A j \in Kinds : j # k => effect'[j] = effect[j]
    BY <1>1, <1>3
  <2>2. Received(attempts[Task], "execution") => effect'["execution"] = effect["execution"]
    BY <1>9, <2>1, KindFacts
  <2> QED
    BY <2>2 DEF Truth
<1>11. ASSUME NEW d \in Callers
       PROVE  Trusted(caller'[d], attempts'[Task], applied', effect', status'[Task])
  <2>1. Trusted(caller[d], attempts[Task], applied, effect, status[Task])
    BY DEF Known
  <2>2. CASE d # c
    <3>1. Confirming(caller[d]) => caller[d].result = Truth(effect')
      BY <1>10, <2>1 DEF Trusted
    <3>2. Trusted(caller[d], attempts[Task], applied, effect', status[Task])
      BY <2>1, <3>1 DEF Trusted
    <3> QED
      BY <1>1, <1>6, <2>2, <3>2
  <2>3. CASE d = c
    <3>1. Shown(r.returned, attempts[Task], status[Task])
      BY <1>5, <2>1, <2>3 DEF Trusted
    <3>2. ~Confirming(r)
      BY <1>5 DEF Confirming
    <3>3. Trusted(r, attempts[Task], applied, effect', status[Task])
      BY <1>2, <1>5, <1>8, <3>1, <3>2 DEF Trusted
    <3> QED
      BY <1>1, <1>6, <2>3, <3>3
  <2> QED
    BY <2>2, <2>3
<1>12. ASSUME NEW d \in Callers, NEW e \in Callers, Answering(caller'[d]),
              Answering(caller'[e]), caller'[d].op = caller'[e].op
       PROVE  d = e
  <2>1. d # c /\ e # c => d = e
    BY <1>6, <1>12 DEF Known, HeardOnce
  <2>2. d # c => caller'[d].op # OpOf(k)
    BY <1>6, <1>8, <1>12
  <2>3. e # c => caller'[e].op # OpOf(k)
    BY <1>6, <1>8, <1>12
  <2>4. caller'[c].op = OpOf(k)
    BY <1>2, <1>5, <1>6
  <2> QED
    BY <1>12, <2>1, <2>2, <2>3, <2>4
<1>13. ASSUME NEW j \in Kinds, invoked'[j] = 0
       PROVE  /\ <<OpOf(j), "observe_receipt">> \notin applied'
              /\ <<OpOf(j), "record_outcome">> \notin applied'
              /\ \A d \in Callers : Answering(caller'[d]) => caller'[d].op # OpOf(j)
  <2>1. j # k /\ invoked[j] = 0
    BY <1>1, <1>3, <1>7, <1>13
  <2>2. OpOf(j) # OpOf(k)
    BY <2>1, KindFacts
  <2> QED
    BY <1>1, <1>2, <1>5, <1>6, <2>1, <2>2 DEF Known, HeardOnce
<1>14. HeardOnce'
  <2>1. \A j : OpOf(j)' = OpOf(j)
    BY DEF OpOf
  <2> QED
    BY <1>12, <1>13, <2>1 DEF HeardOnce, Kinds, OpOf
<1>15. Reconciled(attempts'[Task], applied', effect')
  <2>1. Reconciled(attempts[Task], applied, effect)
    BY DEF Known
  <2>2. Concluded(attempts[Task], "execution", IF effect["execution"] THEN "accepted" ELSE "rejected")
           => /\ Received(attempts[Task], "execution")
              /\ effect'["execution"] = effect["execution"]
    <3>1. \A o : Concluded(attempts[Task], "execution", o)
                   => Received(attempts[Task], "execution")
      BY DEF Concluded, Received
    <3>2. \A j \in Kinds : j # k => effect'[j] = effect[j]
      BY <1>1, <1>3
    <3>3. Received(attempts[Task], "execution") => effect'["execution"] = effect["execution"]
      BY <1>9, <3>2, KindFacts
    <3> QED
      BY <3>1, <3>3
  <2> QED
    BY <1>1, <2>1, <2>2 DEF Reconciled
<1>16. Whole(attempts'[Task])
  BY <1>1 DEF Known
<1> QED
  BY <1>11, <1>14, <1>15, <1>16 DEF Known

LEMMA ObserveReceiptKnown ==
    ASSUME MachineOK, DispatchInv, Known, FailureStays, NEW c \in Callers, ObserveReceipt(c)
    PROVE  Known'
<1> DEFINE op == caller[c].op
           res == caller[c].result
           r == [caller[c] EXCEPT !.pc = "outcome"]
<1>1. /\ Sound(caller[c], applied, effect) /\ caller[c] \in Caller
      /\ caller \in [Callers -> Caller] /\ UNCHANGED <<invoked, effect>>
      /\ caller[c].pc = "receipt" /\ op \in Ops /\ op # "reconcile"
      /\ <<op, "prepare_attempt">> \in applied
      /\ res \in Machine!ReceiptStatuses /\ Attempted(c) \in FirstOfSome
      /\ Trusted(caller[c], attempts[Task], applied, effect, status[Task])
  BY DEF DispatchInv, DispatchTypes, Sound, ObserveReceipt, Attempted, Known
<1>2. /\ Answering(caller[c]) /\ <<op, "observe_receipt">> \notin applied
      /\ <<op, "record_outcome">> \notin applied
  BY <1>1 DEF Answering, Trusted
<1>3. CASE Return(c, "threw") /\ UNCHANGED <<machine, applied>>
  BY <1>1, <1>3, ThrowKnown
<1>4. CASE /\ Machine!ObserveReceipt(Task, Attempted(c).kind, Attempted(c).ordinal, res)
           /\ applied' = applied \cup {<<op, "observe_receipt">>}
           /\ IF res # "indeterminate" THEN Goto(c, "outcome")
              ELSE Return(c, IF op = "execute" THEN "indeterminate" ELSE "rollback_failed")
  <2>1. PICK k \in Kinds, n \in {1} : k = Attempted(c).kind /\ n = Attempted(c).ordinal
    BY <1>1 DEF FirstOfSome
  <2>2. PICK a \in Machine!Attempt : n \in Machine!Ordinals(Task, k) /\ a = First(k) /\ Has(k)
    BY <1>4, <2>1, OneOfAKind DEF Machine!ObserveReceipt
  <2> DEFINE e == [a EXCEPT !.status = "receipt_observed", !.receipt = res]
  <2>3. /\ a.status \in {"prepared", "in_flight"}
        /\ attempts' = Machine!PutAttempt(Task, k, n, e)
    BY <1>4, <2>1, <2>2 DEF Machine!ObserveReceipt, First
  <2>4. k = KindOf(op) /\ OpOf(k) = op
    BY <1>1, <1>2, <2>2, <2>3, OwnKind
  <2>5. e.status = "receipt_observed" /\ e.receipt = res /\ e.outcome = a.outcome
    BY <2>2 DEF Machine!Attempt
  <2> HIDE DEF e
  <2>6. /\ Has(k)' /\ First(k)' = e
        /\ \A j \in Kinds : j # k => attempts'[Task][j] = attempts[Task][j]
    BY <2>2, <2>3, Replaced
  <2>7. Received(attempts'[Task], k) /\ attempts'[Task][k][1].receipt = res
    BY <2>5, <2>6 DEF Has, First, Received
  <2>8. Later(attempts[Task], attempts'[Task])
    <3>1. ~Received(attempts[Task], k)
      BY <2>2, <2>3 DEF First, Received
    <3> QED
      BY <2>6, <3>1, LaterIf
  <2>9. Whole(attempts'[Task])
    <3>1. attempts'[Task][k][1].outcome # "partial"
      BY <2>2, <2>5, <2>6 DEF First, Has, Known, Whole
    <3> QED
      BY <2>6, <3>1, WholeIf DEF Known
  <2>10. Reconciled(attempts'[Task], applied', effect')
    <3>1. Reconciled(attempts[Task], applied, effect)
      BY DEF Known
    <3> HIDE DEF op
    <3>2. Reconciled(attempts'[Task], applied \cup {<<op, "observe_receipt">>}, effect)
      BY <1>1, <2>8, <3>1, StillReconciled
    <3> QED
      BY <1>1, <1>4, <3>2
  <2>11. CASE res # "indeterminate"
    <3>1. caller' = [caller EXCEPT ![c] = r]
      BY <1>1, <1>4, <2>11 DEF Goto
    <3>2. /\ r.pc = "outcome" /\ r.op = op /\ r.result = res
          /\ r.view.active = Attempted(c) /\ r.returned = caller[c].returned
      BY <1>1 DEF Caller, Attempted
    <3> HIDE DEF r
    <3>3. Shown(r.returned, attempts'[Task], status'[Task])
      BY <1>1, <2>8, <3>2, ShownLater DEF Trusted, FailureStays
    <3>4. ~Confirming(r) /\ <<r.op, "record_outcome">> \notin applied'
      BY <1>1, <1>2, <1>4, <3>2 DEF Confirming
    <3>5. Trusted(r, attempts'[Task], applied', effect', status'[Task])
      BY <2>1, <2>4, <2>7, <2>11, <3>2, <3>3, <3>4 DEF Trusted
    <3> QED
      BY <1>1, <1>2, <1>4, <2>8, <2>9, <2>10, <3>1, <3>2, <3>5, KnownKept DEF FailureStays
  <2>12. CASE res = "indeterminate"
    <3> DEFINE d == IF op = "execute" THEN "indeterminate" ELSE "rollback_failed"
    <3>1. Return(c, d)
      BY <1>4, <2>12
    <3>2. Shown(d, attempts'[Task], status'[Task])
      <4>1. CASE op = "execute"
        BY <2>4, <2>7, <4>1 DEF Shown, KindOf
      <4>2. CASE op # "execute"
        BY <1>1, <2>4, <2>7, <2>12, <4>2 DEF Shown, KindOf, Ops
      <4> QED
        BY <4>1, <4>2
    <3> HIDE DEF d
    <3> QED
      BY <1>1, <1>2, <1>4, <2>8, <2>9, <2>10, <3>1, <3>2, ReturnKnown DEF FailureStays
  <2> QED
    BY <2>11, <2>12
<1> QED
  BY <1>2, <1>3, <1>4 DEF ObserveReceipt, Command, CommandId

\* Recording outcome o concludes the attempt and leaves its receipt.
LEMMA OutcomeRecorded ==
    ASSUME MachineOK, NEW k \in Kinds, NEW n \in {1}, NEW at \in Times,
           NEW o \in {"accepted", "rejected"}, Machine!RecordOutcome(Task, k, n, o, at)
    PROVE  /\ Has(k) /\ First(k).status = "receipt_observed"
           /\ Has(k)' /\ First(k)'.status = "concluded"
           /\ First(k)'.outcome = o /\ First(k)'.receipt = First(k).receipt
           /\ \A j \in Kinds : j # k => attempts'[Task][j] = attempts[Task][j]
<1>1. PICK a \in Machine!Attempt : n \in Machine!Ordinals(Task, k) /\ a = First(k) /\ Has(k)
  BY OneOfAKind DEF Machine!RecordOutcome
<1> DEFINE e == [a EXCEPT !.status = "concluded", !.outcome = o]
<1>2. /\ a.status = "receipt_observed"
      /\ attempts' = Machine!PutAttempt(Task, k, n, e)
  BY <1>1 DEF Machine!RecordOutcome, First
<1>3. e.status = "concluded" /\ e.outcome = o /\ e.receipt = a.receipt
  BY <1>1 DEF Machine!Attempt
<1> HIDE DEF e
<1>4. /\ Has(k)' /\ First(k)' = e
      /\ \A j \in Kinds : j # k => attempts'[Task][j] = attempts[Task][j]
  BY <1>1, <1>2, Replaced
<1> QED
  BY <1>1, <1>2, <1>3, <1>4

LEMMA RecordOutcomeKnown ==
    ASSUME MachineOK, DispatchInv, Known, FailureStays, NEW c \in Callers, RecordOutcome(c)
    PROVE  Known'
<1> DEFINE op == caller[c].op
           res == caller[c].result
           o == IF res = "succeeded" THEN "accepted" ELSE "rejected"
<1>1. /\ Sound(caller[c], applied, effect) /\ UNCHANGED <<invoked, effect>>
      /\ caller[c].pc = "outcome" /\ op \in Ops
      /\ res \in Machine!ReceiptStatuses /\ Attempted(c) \in FirstOfSome
      /\ Trusted(caller[c], attempts[Task], applied, effect, status[Task])
  BY DEF DispatchInv, Sound, RecordOutcome, Attempted, Known
<1>2. op # "reconcile" => Answering(caller[c]) /\ <<op, "record_outcome">> \notin applied
  BY <1>1 DEF Answering, Trusted
<1>3. op = "reconcile" => res = Truth(effect)
  BY <1>1 DEF Confirming, Trusted
<1>4. /\ Attempted(c).kind = KindOf(op)
      /\ op # "reconcile" => attempts[Task][KindOf(op)][1].receipt = res
      /\ res \in {"succeeded", "failed"}
  <2>1. op = "reconcile" => Attempted(c).kind = "execution"
    BY <1>1 DEF Confirming, Trusted, Attempted
  <2>2. op # "reconcile" =>
           /\ Attempted(c).kind = KindOf(op) /\ res # "indeterminate"
           /\ attempts[Task][KindOf(op)][1].receipt = res
    BY <1>1, <1>2 DEF Trusted, Attempted
  <2>3. op = "reconcile" => KindOf(op) = "execution"
    BY DEF KindOf
  <2>4. res \in {"succeeded", "failed"}
    BY <1>1, <1>3, <2>2 DEF Truth, Machine!ReceiptStatuses
  <2> QED
    BY <2>1, <2>2, <2>3, <2>4
<1>5. CASE Return(c, "threw") /\ UNCHANGED <<machine, applied>>
  BY <1>1, <1>5, ThrowKnown
<1>6. CASE /\ <<op, "record_outcome">> \in applied
           /\ Return(c, Disposition(op, res)) /\ UNCHANGED <<machine, applied>>
  <2>1. op = "reconcile" /\ Disposition(op, res) = res
    BY <1>2, <1>6 DEF Disposition
  <2>2. Concluded(attempts[Task], "execution",
                  IF effect["execution"] THEN "accepted" ELSE "rejected")
    BY <1>6, <2>1 DEF Known, Reconciled
  <2>3. Shown(res, attempts[Task], status[Task])
    BY <1>3, <2>1, <2>2 DEF Shown, Truth
  <2> QED
    BY <1>1, <1>6, <2>1, <2>3, EndKnown
<1>7. ASSUME NEW at \in Times, NEW out, out = o,
             Machine!RecordOutcome(Task, Attempted(c).kind, Attempted(c).ordinal, out, at),
             applied' = applied \cup {<<op, "record_outcome">>},
             Return(c, Disposition(op, res))
      PROVE  Known'
  <2> HIDE DEF o
  <2>1. PICK k \in Kinds, n \in {1} : k = Attempted(c).kind /\ n = Attempted(c).ordinal
    BY <1>1 DEF FirstOfSome
  <2>2. out \in {"accepted", "rejected"}
    BY <1>7 DEF o
  <2>3. Machine!RecordOutcome(Task, k, n, out, at)
    BY <1>7, <2>1
  <2>4. /\ Has(k) /\ First(k).status = "receipt_observed"
        /\ Has(k)' /\ First(k)'.status = "concluded"
        /\ First(k)'.outcome = out /\ First(k)'.receipt = First(k).receipt
        /\ \A j \in Kinds : j # k => attempts'[Task][j] = attempts[Task][j]
    BY <2>2, <2>3, OutcomeRecorded
  <2>5. /\ Concluded(attempts'[Task], k, out) /\ Received(attempts'[Task], k)
        /\ attempts'[Task][k][1].receipt = attempts[Task][k][1].receipt
    BY <2>4 DEF Has, First, Concluded, Received
  <2>6. Later(attempts[Task], attempts'[Task])
    <3>1. attempts[Task][k][1].status = "receipt_observed"
      BY <2>4 DEF First
    <3> QED
      BY <2>4, <2>5, <3>1, LaterIf
  <2>7. Whole(attempts'[Task])
    <3>1. attempts'[Task][k][1].outcome # "partial"
      BY <1>7, <2>5 DEF Concluded, o
    <3> QED
      BY <2>4, <3>1, WholeIf DEF Known
  <2>8. k = KindOf(op)
    BY <1>4, <2>1
  <2>9. Reconciled(attempts'[Task], applied', effect')
    <3>1. CASE op = "reconcile"
      <4>1. k = "execution" /\ res = Truth(effect)
        BY <1>3, <2>8, <3>1 DEF KindOf
      <4>2. Concluded(attempts'[Task], "execution",
                      IF effect["execution"] THEN "accepted" ELSE "rejected")
        BY <1>7, <2>5, <4>1 DEF Truth, o
      <4> QED
        BY <1>1, <4>2 DEF Reconciled
    <3>2. CASE op # "reconcile"
      <4>1. Reconciled(attempts[Task], applied, effect)
        BY DEF Known
      <4> HIDE DEF op
      <4>2. Reconciled(attempts'[Task], applied \cup {<<op, "record_outcome">>}, effect)
        BY <2>6, <3>2, <4>1, StillReconciled
      <4> QED
        BY <1>1, <1>7, <4>2
    <3> QED
      BY <3>1, <3>2
  <2>10. Shown(Disposition(op, res), attempts'[Task], status'[Task])
    <3>1. CASE op = "rollback"
      <4>1. k = "rollback"
        BY <2>8, <3>1 DEF KindOf
      <4>2. attempts'[Task]["rollback"][1].receipt = res
        BY <1>4, <2>5, <2>8, <3>1, <4>1
      <4> QED
        BY <1>4, <1>7, <2>5, <3>1, <4>1, <4>2 DEF Shown, Disposition, o
    <3>2. CASE op # "rollback"
      <4>1. k = "execution" /\ Disposition(op, res) = res
        BY <2>8, <3>2 DEF KindOf, Disposition
      <4> QED
        BY <1>4, <1>7, <2>5, <4>1 DEF Shown, o
    <3> QED
      BY <3>1, <3>2
  <2> QED
    BY <1>1, <1>2, <1>7, <2>6, <2>7, <2>9, <2>10, ReturnKnown DEF FailureStays
<1> QED
  BY <1>1, <1>5, <1>6, <1>7 DEF RecordOutcome, Command, CommandId

LEMMA LookupKnown ==
    ASSUME DispatchInv, Known, NEW c \in Callers, Lookup(c)
    PROVE  Known'
<1>1. /\ caller[c].pc = "stage" /\ caller[c].op = "reconcile"
      /\ caller[c] \in Caller /\ caller \in [Callers -> Caller]
      /\ UNCHANGED <<machine, applied, invoked, effect>>
      /\ Trusted(caller[c], attempts[Task], applied, effect, status[Task])
  BY DEF Lookup, AtStage, Quiet, DispatchInv, DispatchTypes, Known
<1>2. Pending(c) => Received(attempts[Task], "execution")
  BY <1>1 DEF Pending, Trusted, Shown
<1>3. CASE \E d \in {"threw", "not_pending", "not_reconcilable"} : Return(c, d)
  BY <1>1, <1>3, EndKnown, NothingToShow
<1>4. CASE Pending(c) /\ Return(c, "still_indeterminate")
  <2>1. Shown("still_indeterminate", attempts[Task], status[Task])
    BY <1>2, <1>4 DEF Shown
  <2> QED
    BY <1>1, <1>4, <2>1, EndKnown
<1>5. ASSUME NEW q \in Machine!ReceiptStatuses, Pending(c), q # "indeterminate",
             q = "succeeded" => effect["execution"],
             q = "failed" => ~effect["execution"],
             caller' = [caller EXCEPT ![c].pc = "reconcile", ![c].result = q]
      PROVE  Known'
  <2> DEFINE r == [caller[c] EXCEPT !.pc = "reconcile", !.result = q]
  <2>1. caller' = [caller EXCEPT ![c] = r]
    BY <1>1, <1>5
  <2>2. /\ r.pc = "reconcile" /\ r.result = q /\ r.op = "reconcile"
        /\ r.returned = caller[c].returned
    BY <1>1 DEF Caller
  <2> HIDE DEF r
  <2>3. q = Truth(effect)
    BY <1>5 DEF Machine!ReceiptStatuses, Truth
  <2>4. ~Answering(r)
    BY <2>2 DEF Answering
  <2>5. Trusted(r, attempts[Task], applied, effect, status[Task])
    BY <1>1, <1>2, <1>5, <2>2, <2>3, <2>4 DEF Trusted
  <2>6. /\ attempts' = attempts /\ status' = status /\ applied' = applied
        /\ "open_episode" \notin {"observe_receipt", "record_outcome"}
    BY <1>1 DEF machine
  <2>7. Later(attempts[Task], attempts'[Task])
    BY <2>6, SameIsLater
  <2>8. /\ Whole(attempts'[Task]) /\ Reconciled(attempts'[Task], applied', effect')
        /\ Trusted(r, attempts'[Task], applied', effect', status'[Task])
    BY <1>1, <2>5, <2>6 DEF Known
  <2> QED
    BY <1>1, <2>1, <2>4, <2>6, <2>7, <2>8, KnownKept
<1> QED
  BY <1>3, <1>4, <1>5 DEF Lookup, LookupStatus

LEMMA ReconcileReceiptKnown ==
    ASSUME MachineOK, DispatchInv, Known, FailureStays, NEW c \in Callers, ReconcileReceipt(c)
    PROVE  Known'
<1> DEFINE first == [kind |-> "execution", ordinal |-> 1]
           r == [caller[c] EXCEPT !.pc = "outcome", !.view.active = first]
           Found == caller' = [caller EXCEPT ![c].pc = "outcome", ![c].view.active = first]
<1>1. /\ caller[c] \in Caller /\ caller \in [Callers -> Caller]
      /\ caller[c].pc = "reconcile" /\ UNCHANGED <<invoked, effect>>
      /\ Trusted(caller[c], attempts[Task], applied, effect, status[Task])
  BY DEF DispatchInv, DispatchTypes, ReconcileReceipt, Known
<1>2. /\ caller[c].op = "reconcile" /\ caller[c].result = Truth(effect)
      /\ Received(attempts[Task], "execution")
  BY <1>1 DEF Confirming, Trusted
<1>3. /\ r.pc = "outcome" /\ r.op = "reconcile" /\ r.view.active.kind = "execution"
      /\ r.result = Truth(effect) /\ r.returned = caller[c].returned
  BY <1>1, <1>2 DEF Caller
<1>4. Found => caller' = [caller EXCEPT ![c] = r]
  BY <1>1
<1> HIDE DEF r
<1>5. ~Answering(r)
  BY <1>3 DEF Answering
<1>6. "reconcile_receipt" \notin {"observe_receipt", "record_outcome"}
  OBVIOUS
<1>7. ASSUME Found, Later(attempts[Task], attempts'[Task]), Whole(attempts'[Task]),
             \/ applied' = applied
             \/ applied' = applied \cup {<<caller[c].op, "reconcile_receipt">>}
      PROVE  Known'
  <2>1. Reconciled(attempts'[Task], applied', effect')
    <3>1. Reconciled(attempts[Task], applied, effect)
      BY DEF Known
    <3>2. "reconcile_receipt" # "record_outcome"
      OBVIOUS
    <3>3. \A op : /\ Reconciled(attempts'[Task], applied, effect)
                  /\ Reconciled(attempts'[Task], applied \cup {<<op, "reconcile_receipt">>}, effect)
      BY <1>7, <3>1, <3>2, StillReconciled
    <3> QED
      BY <1>1, <1>7, <3>3
  <2>2. Shown(r.returned, attempts'[Task], status'[Task])
    BY <1>1, <1>3, <1>7, ShownLater DEF Trusted, FailureStays
  <2>3. Received(attempts'[Task], "execution")
    BY <1>2, <1>7, KindFacts DEF Later
  <2>4. Trusted(r, attempts'[Task], applied', effect', status'[Task])
    BY <1>1, <1>3, <1>5, <2>2, <2>3 DEF Trusted
  <2>5. caller' = [caller EXCEPT ![c] = r]
    BY <1>4, <1>7
  <2>6. UNCHANGED <<invoked, effect>>
    BY <1>1
  <2>7. status[Task] = "rollback_failed" => status'[Task] = "rollback_failed"
    BY DEF FailureStays
  <2> HIDE DEF Found, first
  <2> QED
    BY <1>5, <1>6, <1>7, <2>1, <2>4, <2>5, <2>6, <2>7, KnownKept
<1>8. CASE Return(c, "threw") /\ UNCHANGED <<machine, applied>>
  BY <1>1, <1>8, ThrowKnown
<1>9. CASE Found /\ UNCHANGED <<machine, applied>>
  <2>1. attempts' = attempts /\ applied' = applied
    BY <1>9 DEF machine
  <2>2. Later(attempts[Task], attempts'[Task]) /\ Whole(attempts'[Task])
    BY <2>1, SameIsLater DEF Known
  <2> QED
    BY <1>7, <1>9, <2>1, <2>2
<1>10. CASE /\ Machine!ReconcileReceipt(Task, "execution", 1, caller[c].result)
            /\ applied' = applied \cup {<<caller[c].op, "reconcile_receipt">>}
            /\ Found
  <2>1. PICK k \in Kinds, n \in {1} : k = "execution" /\ n = 1
    BY KindFacts
  <2>2. PICK a \in Machine!Attempt : n \in Machine!Ordinals(Task, k) /\ a = First(k) /\ Has(k)
    BY <1>10, <2>1, OneOfAKind DEF Machine!ReconcileReceipt
  <2> DEFINE e == [a EXCEPT !.receipt = caller[c].result]
  <2>3. /\ a.status = "receipt_observed" /\ a.receipt = "indeterminate"
        /\ attempts' = Machine!PutAttempt(Task, k, n, e)
    BY <1>10, <2>1, <2>2 DEF Machine!ReconcileReceipt, Machine!Reconcilable, First
  <2>4. e.status = "receipt_observed" /\ e.outcome = a.outcome
    BY <2>2, <2>3 DEF Machine!Attempt
  <2> HIDE DEF e
  <2>5. /\ Has(k)' /\ First(k)' = e
        /\ \A j \in Kinds : j # k => attempts'[Task][j] = attempts[Task][j]
    BY <2>2, <2>3, Replaced
  <2>6. Later(attempts[Task], attempts'[Task])
    <3>1. Received(attempts'[Task], k)
      BY <2>4, <2>5 DEF Has, First, Received
    <3>2. /\ attempts[Task][k][1].status = "receipt_observed"
          /\ attempts[Task][k][1].receipt = "indeterminate"
      BY <2>2, <2>3 DEF First
    <3> QED
      BY <2>1, <2>5, <3>1, <3>2, LaterIf
  <2>7. Whole(attempts'[Task])
    <3>1. attempts'[Task][k][1].outcome # "partial"
      BY <2>2, <2>4, <2>5 DEF First, Has, Known, Whole
    <3> QED
      BY <2>5, <3>1, WholeIf DEF Known
  <2> HIDE DEF Found
  <2> QED
    BY <1>7, <1>10, <2>6, <2>7
<1> QED
  BY <1>8, <1>9, <1>10 DEF ReconcileReceipt, Command, CommandId

\* Nothing invoked is taken back, so that what was invoked once was before.
LEMMA OnceBefore ==
    ASSUME Inv, [Next]_vars, Once'
    PROVE  Once
<1>1. invoked \in [Kinds -> Nat]
  BY DEF Inv, DispatchInv, DispatchTypes
<1>2. \A k \in Kinds : invoked'[k] <= 1
  BY DEF Once, Kinds
<1>3. CASE \E c \in Callers : Invoke(c)
  <2>1. PICK c \in Callers : invoked' = [invoked EXCEPT ![KindOf(caller[c].op)] = @ + 1]
    BY <1>3 DEF Invoke
  <2> QED
    BY <1>1, <1>2, <2>1 DEF Once
<1>4. CASE invoked' = invoked
  BY <1>2, <1>4 DEF Once
<1>5. CASE UNCHANGED vars
  BY <1>4, <1>5 DEF vars
<1>6. ASSUME NEW c \in Callers,
             \/ \E op \in Ops : \E supplied \in SUBSET InputGates(KindOf(op)) :
                   Start(c, op, supplied)
             \/ Load(c) \/ Die(c) \/ Declare(c) \/ Decide(c) \/ Decline(c) \/ Prepare(c)
             \/ RecordDispatch(c) \/ ObserveReceipt(c) \/ RecordOutcome(c) \/ Lookup(c)
             \/ ReconcileReceipt(c)
      PROVE  Once
  BY <1>4, <1>6, OthersInvokeNot
<1> QED
  BY <1>3, <1>5, <1>6 DEF Next

LEMMA DieKnown ==
    ASSUME DispatchInv, Known, NEW c \in Callers, Die(c)
    PROVE  Known'
BY ThrowKnown DEF Die, Quiet

LEMMA KnownStep ==
    ASSUME Inv, Inv', [Next]_vars, Once => Known, Once'
    PROVE  Known'
<1>1. MachineOK /\ MachineOK' /\ DispatchInv /\ Known
  BY SameState, StillOK, OnceBefore DEF Inv
<1>2. FailureStays
  BY InvStep, FailureIsFinal DEF Inv
<1>3. CASE UNCHANGED vars
  <2>1. /\ attempts' = attempts /\ status' = status /\ UNCHANGED <<applied, effect>>
        /\ caller' = caller /\ invoked' = invoked
    BY <1>3 DEF vars, machine
  <2>2. HeardOnce'
    BY <1>1, <2>1 DEF Known, HeardOnce, OpOf, Kinds, Answering
  <2> QED
    BY <1>1, <2>1, <2>2 DEF Known
<1>4. ASSUME NEW c \in Callers, NEW op \in Ops,
             NEW supplied \in SUBSET InputGates(KindOf(op)), Start(c, op, supplied)
      PROVE  Known'
  BY <1>1, <1>4, StartKnown
<1>5. ASSUME NEW c \in Callers, Load(c) \/ Die(c) \/ Decline(c) \/ Lookup(c)
      PROVE  Known'
  BY <1>1, <1>5, LoadKnown, DieKnown, DeclineKnown, LookupKnown
<1>6. ASSUME NEW c \in Callers, Declare(c) \/ Decide(c) \/ Prepare(c)
      PROVE  Known'
  BY <1>1, <1>2, <1>6, DeclareKnown, DecideKnown, PrepareKnown
<1>7. ASSUME NEW c \in Callers, RecordDispatch(c) \/ Invoke(c) \/ ObserveReceipt(c)
      PROVE  Known'
  BY <1>1, <1>2, <1>7, RecordDispatchKnown, InvokeKnown, ObserveReceiptKnown
<1>8. ASSUME NEW c \in Callers, RecordOutcome(c) \/ ReconcileReceipt(c)
      PROVE  Known'
  BY <1>1, <1>2, <1>8, RecordOutcomeKnown, ReconcileReceiptKnown
<1> QED
  BY <1>3, <1>4, <1>5, <1>6, <1>7, <1>8 DEF Next

\* What the attempts say, the status says.
LEMMA ShownByStatus ==
    ASSUME MachineOK, DispatchInv
    PROVE  /\ Concluded(attempts[Task], "execution", "accepted") => status[Task] = "succeeded"
           /\ Concluded(attempts[Task], "rollback", "accepted") => status[Task] = "rolled_back"
           /\ Received(attempts[Task], "rollback") /\ First("rollback").receipt # "succeeded"
                 => status[Task] \in {"rollback_failed", "awaiting_outcome"}
<1>1. Machine!ConsistentTask(Task)
  BY DEF MachineOK, Machine!StatusMatchesAttempt
<1>2. Concluded(attempts[Task], "execution", "accepted") => status[Task] = "succeeded"
  BY <1>1 DEF Concluded, Machine!ConsistentTask, Machine!NotAttempted, Machine!Executing,
     Machine!Succeeded, Machine!NotCompensated, Machine!Compensating, Machine!Compensated,
     Machine!ExecutionFailed, Machine!UnderWay, Machine!SingleAttempt
<1>3. attempts[Task]["rollback"] # <<>> =>
         \/ Machine!Compensating(Task) \/ Machine!Compensated(Task)
  BY <1>1 DEF Machine!ConsistentTask, Machine!NotAttempted, Machine!Executing,
     Machine!Succeeded, Machine!NotCompensated
<1>4. Received(attempts[Task], "rollback") /\ Machine!Compensating(Task) =>
         /\ status[Task] = "awaiting_outcome"
         /\ First("rollback").status = "receipt_observed"
  BY DEF Received, First, Machine!Compensating, Machine!UnderWay, Machine!SingleAttempt
<1>5. Machine!Compensated(Task) =>
         status[Task] = IF First("rollback").outcome = "accepted"
                        THEN "rolled_back" ELSE "rollback_failed"
  BY DEF First, Machine!Compensated
<1>6. Has("rollback") /\ First("rollback").outcome = "accepted"
         => First("rollback").receipt = "succeeded"
  BY KindFacts DEF DispatchInv, Tracked
<1>7. /\ Concluded(attempts[Task], "rollback", "accepted") =>
            /\ Received(attempts[Task], "rollback")
            /\ First("rollback").status = "concluded" /\ First("rollback").outcome = "accepted"
      /\ Received(attempts[Task], "rollback") => Has("rollback")
  BY DEF Concluded, Received, Has, First
<1>8. Has("rollback") => Machine!Compensating(Task) \/ Machine!Compensated(Task)
  BY <1>3 DEF Has
<1> QED
  BY <1>2, <1>4, <1>5, <1>6, <1>7, <1>8

LEMMA KnownIsDurable ==
    ASSUME Inv, Once => Known
    PROVE  ReportedIsDurable
<1> SUFFICES ASSUME Known, NEW c \in Callers
             PROVE  /\ caller[c].returned \in {"succeeded", "rolled_back"} =>
                          status[Task] = caller[c].returned
                    /\ caller[c].returned = "failed" =>
                          /\ Latest("execution").status = "concluded"
                          /\ Latest("execution").outcome = "rejected"
                    /\ caller[c].returned \in {"indeterminate", "still_indeterminate"} =>
                          Latest("execution").status \notin {"prepared", "in_flight"}
                    /\ caller[c].returned = "rollback_failed" =>
                          status[Task] \in {"rollback_failed", "awaiting_outcome"}
  BY DEF ReportedIsDurable, Once
<1>1. MachineOK /\ DispatchInv
  BY SameState DEF Inv
<1>2. Shown(caller[c].returned, attempts[Task], status[Task])
  BY DEF Known, Trusted
<1>3. Has("execution") => Latest("execution") = First("execution")
  BY <1>1, AtMostOne, KindFacts DEF Latest, First
<1>4. /\ Received(attempts[Task], "execution") =>
            Has("execution") /\ First("execution").status \notin {"prepared", "in_flight"}
      /\ Concluded(attempts[Task], "execution", "rejected") =>
            /\ Has("execution") /\ First("execution").status = "concluded"
            /\ First("execution").outcome = "rejected"
  BY DEF Received, Concluded, Has, First
<1>5. caller[c].returned = "rollback_failed" =>
         \/ status[Task] = "rollback_failed"
         \/ Received(attempts[Task], "rollback") /\ First("rollback").receipt # "succeeded"
  BY <1>2 DEF Shown, First
<1>6. /\ caller[c].returned = "succeeded" => Concluded(attempts[Task], "execution", "accepted")
      /\ caller[c].returned = "rolled_back" => Concluded(attempts[Task], "rollback", "accepted")
      /\ caller[c].returned = "failed" => Concluded(attempts[Task], "execution", "rejected")
      /\ caller[c].returned \in {"indeterminate", "still_indeterminate"} =>
            Received(attempts[Task], "execution")
  BY <1>2 DEF Shown
<1> QED
  BY <1>1, <1>3, <1>4, <1>5, <1>6, ShownByStatus

\* As long as no executor was invoked twice, what any call has returned is what
\* the episode says and goes on saying, whatever other calls do, die or retry:
\* a reported success or compensation is the task's status for good, a reported
\* failure or missing receipt stands in its attempt.
THEOREM ReportsStand == Spec => []ReportedIsDurable
<1>1. Init => Known
  <2> SUFFICES ASSUME Init
               PROVE  Known
    OBVIOUS
  <2>1. /\ applied = {} /\ caller = [c \in Callers |-> Idle("none")]
        /\ \A k \in Kinds : attempts[Task][k] = <<>>
    BY DEF Init, Machine!Init, Kinds
  <2>2. \A c \in Callers : caller[c].pc = "idle" /\ caller[c].returned = "none"
    BY <2>1 DEF Idle
  <2>3. \A c \in Callers : ~Answering(caller[c]) /\ ~Confirming(caller[c])
    BY <2>2 DEF Answering, Confirming
  <2>4. \A c \in Callers : Trusted(caller[c], attempts[Task], applied, effect, status[Task])
    BY <2>2, <2>3, NothingToShow DEF Trusted
  <2> QED
    BY <2>1, <2>3, <2>4 DEF Known, Whole, HeardOnce, Reconciled
<1>2. Inv /\ Inv' /\ [Next]_vars /\ (Once => Known) => (Once => Known)'
  BY KnownStep
<1>3. Inv /\ (Once => Known) => ReportedIsDurable
  BY KnownIsDurable
<1> QED
  BY <1>1, <1>2, <1>3, Invariance, PTL DEF Spec
===============================================================================
