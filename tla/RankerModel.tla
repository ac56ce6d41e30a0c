------------------------------ MODULE RankerModel ------------------------------
(***************************************************************************)
(* The lifecycle of a learned ranking model of one task class.             *)
(*   - adapters-node/src/postgres.ts: the rows of sparse_ranking_models,   *)
(*     the one row of sparse_ranking_active_model (the slot) and the calls *)
(*     readActive, putCheckpoint and activate on them.                     *)
(*   - cli/src/index.ts: `scce ranker init | evaluate | promote | import`, *)
(*     each of which reads the active checkpoint, decides, and writes the  *)
(*     whole row back.                                                     *)
(*   - kernel/src/sparse-ranking-outcome.ts: every turn may read, train    *)
(*     and write back the active checkpoint, in the background.            *)
(*                                                                         *)
(* A command is a process of its own; a single statement waits for the     *)
(* lock of the row it writes, and a transaction keeps the locks it took    *)
(* until it ends.  What PostgreSQL does (row locks, READ COMMITTED, the    *)
(* abort of a member of a wait cycle) is modelled from that use.  A state  *)
(* of a model is a number: 0 is the empty bootstrap, each training or      *)
(* import makes a new one.                                                 *)
(***************************************************************************)
EXTENDS Integers, FiniteSets

CONSTANTS
    Jobs,       \* the commands and the turns that run
    Kind,       \* job -> "init", "evaluate", "promote", "import", "learn"
    Foreign,    \* the id that an imported file names, when not the active one
    None        \* no model, no lock, no evaluation

Kinds == {"init", "evaluate", "promote", "import", "learn"}

ASSUME KindAssumption == Kind \in [Jobs -> Kinds]
ASSUME NoneAssumption == None \notin Jobs /\ Foreign \notin Jobs /\ None # Foreign
ASSUME JobsAssumption == IsFiniteSet(Jobs)

VARIABLES
    row,        \* model -> its row, or None
    slot,       \* the model the slot names, or None
    states,     \* the last state that was made
    job,        \* job -> where it stands
    read,       \* job -> the checkpoint it read
    target,     \* job -> the model it writes
    current,    \* job -> the model its transaction found in the slot
    rowLock,    \* model -> the transaction that holds its row
    slotLock,   \* the transaction that holds the slot
    blind       \* jobs that activated a model having found the slot empty

db == <<row, slot, states>>
locks == <<rowLock, slotLock>>
vars == <<db, job, read, target, current, locks, blind>>

\* init names its model after the time it runs at, so each makes its own.
Models == {j \in Jobs : Kind[j] = "init"} \cup {Foreign}
NoModel == Models \cup {None}

Lifecycles == {"candidate", "shadow", "evaluated", "approved", "active"}
Evaluation == [passed : BOOLEAN, of : Nat]
Checkpoint == [lifecycle : Lifecycles, state : Nat, evaluation : Evaluation \cup {None}]

ASSUME RowAssumption == None \notin Checkpoint

Fresh(lifecycle, state) ==
    [lifecycle |-> lifecycle, state |-> state, evaluation |-> None]

Init ==
    /\ row = [m \in Models |-> None]
    /\ slot = None
    /\ states = 0
    /\ job = [j \in Jobs |-> "start"]
    /\ read = [j \in Jobs |-> None]
    /\ target = [j \in Jobs |-> None]
    /\ current = [j \in Jobs |-> None]
    /\ rowLock = [m \in Models |-> None]
    /\ slotLock = None
    /\ blind = {}

\* The job stands at a step; it leaves that step for the next.
At(j, step) == job[j] = step
Goto(j, step) == job' = [job EXCEPT ![j] = step]

\* The job ends - done, refused, failed or dead - and with it what it held.
End(j) ==
    /\ Goto(j, "over")
    /\ read' = [read EXCEPT ![j] = None]
    /\ target' = [target EXCEPT ![j] = None]
    /\ current' = [current EXCEPT ![j] = None]

(***************************************************************************)
(* readActive: one SELECT of the slot, another one of the row it names.    *)
(***************************************************************************)
ReadSlot(j) ==
    /\ At(j, "start")
    /\ target' = [target EXCEPT ![j] = slot]
    /\ Goto(j, "row")
    /\ UNCHANGED <<db, read, current, locks, blind>>

\* Mutant of Trained: the turn writes back the lifecycle it read.
TrainedInPlace(c, state) == [c EXCEPT !.state = state]

\* What each command makes of the checkpoint it read: the row it will put.
Evaluated(c, passed) ==
    [c EXCEPT !.lifecycle = "evaluated",
              !.evaluation = [passed |-> passed, of |-> c.state]]

Approved(c) == [c EXCEPT !.lifecycle = "approved"]

Trained(c, state) == [c EXCEPT !.state = state, !.lifecycle = "shadow"]

MayPromote(c) ==
    /\ c.lifecycle = "evaluated"
    /\ c.evaluation # None
    /\ c.evaluation.passed

\* j goes on to put c in the row of m.
WillPut(j, m, c) ==
    /\ read' = [read EXCEPT ![j] = c]
    /\ target' = [target EXCEPT ![j] = m]
    /\ Goto(j, "put")
    /\ UNCHANGED current

MakesState == states' = states + 1
KeepsStates == UNCHANGED states

Initialise(j) ==
    /\ Kind[j] = "init"
    /\ IF target[j] = None THEN WillPut(j, j, Fresh("approved", 0)) ELSE End(j)
    /\ KeepsStates

\* The evaluation ranks the comparison log; too few examples leave no record.
Evaluate(j) ==
    /\ Kind[j] = "evaluate"
    /\ \/ End(j)
       \/ /\ target[j] # None
          /\ \E passed \in BOOLEAN :
                 WillPut(j, target[j], Evaluated(row[target[j]], passed))
    /\ KeepsStates

Promote(j) ==
    /\ Kind[j] = "promote"
    /\ IF target[j] # None /\ MayPromote(row[target[j]])
       THEN WillPut(j, target[j], Approved(row[target[j]]))
       ELSE End(j)
    /\ KeepsStates

\* Without --replace an import of the active model's id is refused.
Import(j) ==
    /\ Kind[j] = "import"
    /\ \E m \in Models, replace \in BOOLEAN :
           IF m = target[j] /\ ~replace
           THEN End(j) /\ KeepsStates
           ELSE WillPut(j, m, Fresh("candidate", states + 1)) /\ MakesState

\* A turn without a defensible label trains nothing.
Learn(j) ==
    /\ Kind[j] = "learn"
    /\ \/ End(j) /\ KeepsStates
       \/ /\ target[j] # None
          /\ WillPut(j, target[j], Trained(row[target[j]], states + 1))
          /\ MakesState

ReadRow(j) ==
    /\ At(j, "row")
    /\ Initialise(j) \/ Evaluate(j) \/ Promote(j) \/ Import(j) \/ Learn(j)
    /\ UNCHANGED <<row, slot, locks, blind>>

(***************************************************************************)
(* putCheckpoint: one statement, that waits for the lock of the row.       *)
(***************************************************************************)
Activates(j) == Kind[j] \in {"init", "promote"}

Put(j) ==
    /\ At(j, "put")
    /\ rowLock[target[j]] = None
    /\ row' = [row EXCEPT ![target[j]] = read[j]]
    /\ IF Activates(j)
       THEN Goto(j, "lock") /\ UNCHANGED <<read, target, current>>
       ELSE End(j)
    /\ UNCHANGED <<slot, states, locks, blind>>

(***************************************************************************)
(* activate: one transaction.                                              *)
(***************************************************************************)
\* Mutant of Unlocked: the transaction ends without COMMIT or ROLLBACK.
HoldsLocks(j) == UNCHANGED locks

Unlocked(j) ==
    /\ rowLock' = [m \in Models |-> IF rowLock[m] = j THEN None ELSE rowLock[m]]
    /\ slotLock' = IF slotLock = j THEN None ELSE slotLock

\* SELECT .. FOR UPDATE of the target's row, and the check of its lifecycle.
LockTarget(j) ==
    /\ At(j, "lock")
    /\ rowLock[target[j]] = None
    /\ IF row[target[j]].lifecycle = "approved"
       THEN /\ Goto(j, "slot")
            /\ rowLock' = [rowLock EXCEPT ![target[j]] = j]
            /\ UNCHANGED <<read, target, current>>
       ELSE End(j) /\ UNCHANGED rowLock
    /\ UNCHANGED <<db, slotLock, blind>>

\* Only promote passes expectedCurrentModelId, the model it read.
ExpectationMet(j) == Kind[j] = "promote" => slot = target[j]

\* SELECT .. FOR UPDATE of the slot locks nothing while there is no such row.
ReadCurrent(j) ==
    /\ At(j, "slot")
    /\ slot # None => slotLock = None
    /\ IF ExpectationMet(j)
       THEN /\ current' = [current EXCEPT ![j] = slot]
            /\ Goto(j, IF slot \in {None, target[j]} THEN "upsert" ELSE "demote")
            /\ slotLock' = IF slot = None THEN slotLock ELSE j
            /\ UNCHANGED <<read, target, rowLock>>
       ELSE End(j) /\ Unlocked(j)
    /\ UNCHANGED <<db, blind>>

\* The demotion of the current model takes its row; it is seen at the commit.
Demote(j) ==
    /\ At(j, "demote")
    /\ rowLock[current[j]] = None
    /\ rowLock' = [rowLock EXCEPT ![current[j]] = j]
    /\ Goto(j, "upsert")
    /\ UNCHANGED <<db, read, target, current, slotLock, blind>>

Upsert(j) ==
    /\ At(j, "upsert")
    /\ slotLock \in {None, j}
    /\ slotLock' = j
    /\ Goto(j, "commit")
    /\ UNCHANGED <<db, read, target, current, rowLock, blind>>

\* Mutant of Demoted: the model that is replaced stays active.
DemotedNot(c) == c

\* UPDATE .. SET lifecycle='approved' WHERE .. lifecycle='active'
Demoted(c) == IF c.lifecycle = "active" THEN Approved(c) ELSE c

AfterActivation(j) ==
    [m \in Models |->
        CASE m = target[j] -> [row[m] EXCEPT !.lifecycle = "active"]
          [] m # target[j] /\ m = current[j] -> Demoted(row[m])
          [] OTHER -> row[m]]

Commit(j) ==
    /\ At(j, "commit")
    /\ row' = AfterActivation(j)
    /\ slot' = target[j]
    /\ blind' = IF current[j] = None THEN blind \cup {j} ELSE blind
    /\ Unlocked(j)
    /\ End(j)
    /\ UNCHANGED states

(***************************************************************************)
(* Waiting, the abort of a member of a wait cycle, and death.              *)
(***************************************************************************)
Holder(j) ==
    CASE job[j] \in {"put", "lock"} -> rowLock[target[j]]
      [] job[j] = "demote" -> rowLock[current[j]]
      [] job[j] = "upsert" \/ (At(j, "slot") /\ slot # None) -> slotLock
      [] OTHER -> None

Waiting(j) == Holder(j) \notin {None, j}

\* Each waits for at most one other: j is on a cycle when its waits lead to j.
Deadlocked(j) ==
    /\ Waiting(j)
    /\ LET blocker[n \in 0 .. Cardinality(Jobs)] ==
               IF n = 0 THEN j
               ELSE IF blocker[n - 1] # None /\ Waiting(blocker[n - 1])
                    THEN Holder(blocker[n - 1])
                    ELSE None
       IN \E n \in 1 .. Cardinality(Jobs) : blocker[n] = j

AbortDeadlocked(j) ==
    /\ Deadlocked(j)
    /\ End(j)
    /\ Unlocked(j)
    /\ UNCHANGED <<db, blind>>

\* The process dies; the server rolls its transaction back.
Die(j) ==
    /\ ~At(j, "over")
    /\ End(j)
    /\ Unlocked(j)
    /\ UNCHANGED <<db, blind>>

Step(j) ==
    \/ ReadSlot(j)
    \/ ReadRow(j)
    \/ Put(j)
    \/ LockTarget(j)
    \/ ReadCurrent(j)
    \/ Demote(j)
    \/ Upsert(j)
    \/ Commit(j)
    \/ AbortDeadlocked(j)

Terminated == (\A j \in Jobs : At(j, "over")) /\ UNCHANGED vars

Next == (\E j \in Jobs : Step(j) \/ Die(j)) \/ Terminated

\* While a command can go on, one does: the server answers who does not wait.
Fairness == WF_vars(\E j \in Jobs : Step(j))

Spec == Init /\ [][Next]_vars /\ Fairness

(***************************************************************************)
(* Properties.                                                             *)
(***************************************************************************)
Steps == {"start", "row", "put", "lock", "slot", "demote", "upsert", "commit", "over"}

\* The type of every variable.
TypeOK ==
    /\ row \in [Models -> Checkpoint \cup {None}]
    /\ slot \in NoModel
    /\ states \in Nat
    /\ job \in [Jobs -> Steps]
    /\ read \in [Jobs -> Checkpoint \cup {None}]
    /\ target \in [Jobs -> NoModel]
    /\ current \in [Jobs -> NoModel]
    /\ rowLock \in [Models -> Jobs \cup {None}]
    /\ slotLock \in Jobs \cup {None}
    /\ blind \subseteq Jobs

Earned(c) ==
    c.lifecycle \in {"approved", "active"} =>
        \/ c.state = 0
        \/ c.evaluation # None /\ c.evaluation.passed /\ c.evaluation.of = c.state

\* The gate: whatever commands and turns overlap, a model that is approved or
\* active is either the empty bootstrap or carries an evaluation that passed and
\* that was recorded for the very state in the row, not for one that a turn has
\* trained further or an import has replaced since ("this never auto-promotes a
\* model", sparse-ranking-outcome.ts:20).
ApprovedIsEvaluated == \A m \in Models : row[m] # None => Earned(row[m])

\* As long as the slot was not filled twice by activations that both found it
\* empty, at most one model is active, and the slot names it.
OneActive ==
    Cardinality(blind) <= 1 =>
        \A m \in Models : row[m] # None /\ row[m].lifecycle = "active" => slot = m

\* No command waits for ever for the locks of another one: each ends, if by the
\* abort of a deadlock.
EveryCommandEnds == <>(\A j \in Jobs : At(j, "over"))

=============================================================================
