--------------------------- MODULE LearnedStateProofs ---------------------------
(***************************************************************************)
(* What is proved about what the system learns and keeps in its database:  *)
(* the ranker's models (RankerModel), imported brains (BrainImport) and    *)
(* sources under review (LearningReview), each for any jobs, imports,      *)
(* reviews, brains, sections, sources and spans.  The components share no  *)
(* state; each part of the module is about one of them.                    *)
(***************************************************************************)
EXTENDS RankerModel, BrainImport, LearningReview, FiniteSetTheorems, TLAPS

(***************************************************************************)
(* What is proved about RankerModel, for any commands and turns.           *)
(*                                                                         *)
(* Types are inductive together with the existence of what a command       *)
(* writes (Existing).  The gate needs that the checkpoints under way are   *)
(* as sound as the rows (Pending), and that a transaction finds the row    *)
(* it activates still approved: it holds the row (Locked).  That at most   *)
(* one model is active needs the same of the slot (SlotKept).              *)
(***************************************************************************)

USE KindAssumption, NoneAssumption, RowAssumption

InTransaction == {"slot", "demote", "upsert", "commit"}

\* What a job reads or writes exists.
Existing ==
    /\ slot # None => row[slot] \in Checkpoint
    /\ \A j \in Jobs : At(j, "row") /\ target[j] # None => row[target[j]] \in Checkpoint
    /\ \A j \in Jobs : At(j, "put") => read[j] \in Checkpoint /\ target[j] \in Models
    /\ \A j \in Jobs : At(j, "lock") \/ job[j] \in InTransaction =>
           target[j] \in Models /\ row[target[j]] \in Checkpoint
    /\ \A j \in Jobs : At(j, "demote") => current[j] \in Models
    /\ \A j \in Jobs : current[j] # None => row[current[j]] \in Checkpoint

\* An evaluation is of the state that it is recorded with, until that is trained.
Sound(c) == Earned(c) /\ (c.lifecycle = "evaluated" => c.evaluation.of = c.state)

SoundRows == \A m \in Models : row[m] # None => Sound(row[m])

\* A checkpoint is what a command makes of a checkpoint.
LEMMA CheckpointOps ==
    ASSUME NEW c \in Checkpoint, NEW s \in Nat
    PROVE  /\ \A l \in Lifecycles : Fresh(l, s) \in Checkpoint
           /\ \A passed \in BOOLEAN : Evaluated(c, passed) \in Checkpoint
           /\ Approved(c) \in Checkpoint
           /\ Trained(c, s) \in Checkpoint
           /\ Demoted(c) \in Checkpoint
           /\ [c EXCEPT !.lifecycle = "active"] \in Checkpoint
BY DEF Checkpoint, Evaluation, Lifecycles, Fresh, Evaluated, Approved, Trained, Demoted

\* Whatever a command or a turn makes of the row it read, it ends or goes on to
\* put a sound checkpoint that is not active.
LEMMA ReadRowStep ==
    ASSUME TypeOK, Existing, NEW j \in Jobs, ReadRow(j)
    PROVE  \/ End(j) /\ states' = states
           \/ \E m \in Models, c \in Checkpoint :
                  /\ WillPut(j, m, c)
                  /\ states' \in Nat
                  /\ c.lifecycle # "active"
                  /\ SoundRows => Sound(c)
<1>1. states \in Nat /\ states + 1 \in Nat
  BY DEF TypeOK
<1>2. target[j] # None => target[j] \in Models /\ row[target[j]] \in Checkpoint
  BY DEF ReadRow, TypeOK, Existing, NoModel
<1>3. SoundRows /\ target[j] # None => row[target[j]] = None \/ Sound(row[target[j]])
  BY <1>2 DEF SoundRows
<1>4. CASE Initialise(j)
  <2>1. Fresh("approved", 0) \in Checkpoint /\ Fresh("approved", 0).lifecycle # "active"
        /\ Sound(Fresh("approved", 0))
    BY DEF Fresh, Checkpoint, Lifecycles, Sound, Earned
  <2>2. Kind[j] = "init" => j \in Models
    BY DEF Models
  <2> QED BY <1>1, <1>4, <2>1, <2>2 DEF Initialise, KeepsStates
<1>5. CASE Evaluate(j)
  <2>1. ASSUME target[j] # None, NEW passed \in BOOLEAN
        PROVE  LET c == Evaluated(row[target[j]], passed)
               IN  c \in Checkpoint /\ c.lifecycle # "active" /\ Sound(c)
    <3>1. Evaluated(row[target[j]], passed) \in Checkpoint
      BY <1>1, <1>2, <2>1, CheckpointOps
    <3>2. row[target[j]] \in Checkpoint
      BY <1>2, <2>1
    <3> QED BY <3>1, <3>2 DEF Evaluated, Sound, Earned, Checkpoint
  <2> QED BY <1>1, <1>2, <1>5, <2>1 DEF Evaluate, KeepsStates
<1>6. CASE Promote(j)
  <2>1. ASSUME target[j] # None, MayPromote(row[target[j]])
        PROVE  LET c == Approved(row[target[j]])
               IN  c \in Checkpoint /\ c.lifecycle # "active" /\ (SoundRows => Sound(c))
    <3>1. Approved(row[target[j]]) \in Checkpoint
      BY <1>1, <1>2, <2>1, CheckpointOps
    <3>2. row[target[j]] \in Checkpoint
      BY <1>2, <2>1
    <3> QED BY <1>3, <2>1, <3>1, <3>2 DEF Approved, MayPromote, Sound, Earned, Checkpoint
  <2> QED BY <1>1, <1>2, <1>6, <2>1 DEF Promote, KeepsStates
<1>7. CASE Import(j)
  <2>1. Fresh("candidate", states + 1) \in Checkpoint
        /\ Fresh("candidate", states + 1).lifecycle # "active"
        /\ Sound(Fresh("candidate", states + 1))
    BY <1>1 DEF Fresh, Checkpoint, Lifecycles, Sound, Earned
  <2> QED BY <1>1, <1>7, <2>1 DEF Import, KeepsStates, MakesState
<1>8. CASE Learn(j)
  <2>1. ASSUME target[j] # None
        PROVE  LET c == Trained(row[target[j]], states + 1)
               IN  c \in Checkpoint /\ c.lifecycle # "active" /\ Sound(c)
    <3>1. Trained(row[target[j]], states + 1) \in Checkpoint
      BY <1>1, <1>2, <2>1, CheckpointOps
    <3>2. row[target[j]] \in Checkpoint
      BY <1>2, <2>1
    <3> QED BY <3>1, <3>2 DEF Trained, Sound, Earned, Checkpoint
  <2> QED BY <1>1, <1>2, <1>8, <2>1 DEF Learn, KeepsStates, MakesState
<1> QED BY <1>4, <1>5, <1>6, <1>7, <1>8 DEF ReadRow

\* A job that ends leaves nothing behind that has to exist.
LEMMA EndStep ==
    ASSUME TypeOK, Existing, NEW j \in Jobs, End(j),
           row' \in [Models -> Checkpoint \cup {None}],
           \A m \in Models : row[m] \in Checkpoint => row'[m] \in Checkpoint,
           slot' \in NoModel, slot' # None => row'[slot'] \in Checkpoint, states' \in Nat,
           rowLock' \in [Models -> Jobs \cup {None}], slotLock' \in Jobs \cup {None}, blind' \subseteq Jobs
    PROVE  TypeOK' /\ Existing'
<1>1. TypeOK'
  BY DEF TypeOK, End, Goto, Steps, NoModel
<1>2. ASSUME NEW q \in Jobs
      PROVE  \/ job'[q] = "over" /\ current'[q] = None
             \/ job'[q] = job[q] /\ read'[q] = read[q] /\ target'[q] = target[q] /\ current'[q] = current[q]
  BY DEF TypeOK, End, Goto
<1>3. \A q \in Jobs : target[q] # None => target[q] \in Models
  BY DEF TypeOK, NoModel
<1>4. \A q \in Jobs : current[q] # None => current[q] \in Models
  BY DEF TypeOK, NoModel
<1>5. Existing'
  BY <1>2, <1>3, <1>4 DEF Existing, At, InTransaction
<1> QED BY <1>1, <1>5

\* Letting go of the locks of a transaction.
LEMMA UnlockedType ==
    ASSUME TypeOK, NEW j \in Jobs, Unlocked(j)
    PROVE  rowLock' \in [Models -> Jobs \cup {None}] /\ slotLock' \in Jobs \cup {None}
BY DEF TypeOK, Unlocked

\* Types, and the existence of what is read and written, are kept by every step.
LEMMA TypeStep ==
    ASSUME TypeOK, Existing, [Next]_vars
    PROVE  TypeOK' /\ Existing'
<1>1. ASSUME NEW j \in Jobs, ReadSlot(j)
      PROVE  TypeOK' /\ Existing'
  BY <1>1 DEF ReadSlot, TypeOK, Existing, At, Goto, Steps, InTransaction, db, locks
<1>2. ASSUME NEW j \in Jobs, ReadRow(j)
      PROVE  TypeOK' /\ Existing'
  <2>1. UNCHANGED <<row, slot, locks, blind>>
    BY <1>2 DEF ReadRow
  <2>2. CASE End(j) /\ states' = states
    BY <2>1, <2>2, EndStep DEF TypeOK, Existing, locks
  <2>3. ASSUME NEW m \in Models, NEW c \in Checkpoint, WillPut(j, m, c), states' \in Nat
        PROVE  TypeOK' /\ Existing'
    <3>1. TypeOK'
      BY <2>1, <2>3 DEF WillPut, TypeOK, Goto, Steps, NoModel, locks
    <3>2. Existing'
      BY <2>1, <2>3 DEF WillPut, TypeOK, Existing, At, Goto, InTransaction
    <3> QED BY <3>1, <3>2
  <2> QED BY <1>2, <2>2, <2>3, ReadRowStep
<1>3. ASSUME NEW j \in Jobs, Put(j)
      PROVE  TypeOK' /\ Existing'
  <2>1. read[j] \in Checkpoint /\ target[j] \in Models /\ row' = [row EXCEPT ![target[j]] = read[j]]
    BY <1>3 DEF Put, Existing
  <2>2. /\ row' \in [Models -> Checkpoint \cup {None}]
        /\ \A m \in Models : row[m] \in Checkpoint => row'[m] \in Checkpoint
        /\ row'[target[j]] \in Checkpoint
    BY <2>1 DEF TypeOK
  <2>3. slot \in NoModel /\ (slot # None => row'[slot] \in Checkpoint)
    BY <2>2 DEF TypeOK, Existing, NoModel
  <2>4. CASE End(j)
    BY <1>3, <2>2, <2>3, <2>4, EndStep DEF Put, TypeOK, locks
  <2>5. CASE Goto(j, "lock") /\ UNCHANGED <<read, target, current>>
    <3>1. TypeOK'
      BY <1>3, <2>2, <2>5 DEF Put, TypeOK, Goto, Steps, locks
    <3>2. \A q \in Jobs : q # j => job'[q] = job[q]
      BY <2>5 DEF Goto, TypeOK
    <3>3. \A q \in Jobs : /\ target[q] # None => target[q] \in Models
                         /\ current[q] # None => current[q] \in Models
      BY DEF TypeOK, NoModel
    <3>4. Existing'
      BY <1>3, <2>1, <2>2, <2>3, <2>5, <3>2, <3>3 DEF Put, Existing, TypeOK, At, Goto, InTransaction
    <3> QED BY <3>1, <3>4
  <2> QED BY <1>3, <2>4, <2>5 DEF Put
<1>4. ASSUME NEW j \in Jobs, LockTarget(j)
      PROVE  TypeOK' /\ Existing'
  <2>1. CASE End(j) /\ UNCHANGED rowLock
    BY <1>4, <2>1, EndStep DEF LockTarget, TypeOK, Existing, db
  <2>2. CASE Goto(j, "slot")
    BY <1>4, <2>2 DEF LockTarget, TypeOK, Existing, At, Goto, Steps, InTransaction, End, db
  <2> QED BY <1>4, <2>1, <2>2 DEF LockTarget
<1>5. ASSUME NEW j \in Jobs, ReadCurrent(j)
      PROVE  TypeOK' /\ Existing'
  <2>1. CASE End(j) /\ Unlocked(j)
    BY <1>5, <2>1, EndStep, UnlockedType DEF ReadCurrent, TypeOK, Existing, db
  <2>2. CASE ExpectationMet(j)
    <3>1. /\ current' = [current EXCEPT ![j] = slot]
          /\ Goto(j, IF slot \in {None, target[j]} THEN "upsert" ELSE "demote")
          /\ slotLock' = IF slot = None THEN slotLock ELSE j
          /\ UNCHANGED <<read, target, rowLock, db, blind>>
      BY <1>5, <2>2 DEF ReadCurrent
    <3>2. TypeOK'
      BY <3>1 DEF TypeOK, Goto, Steps, NoModel, db
    <3>3. Existing'
      BY <1>5, <3>1 DEF ReadCurrent, TypeOK, Existing, At, Goto, InTransaction, NoModel, db
    <3> QED BY <3>2, <3>3
  <2> QED BY <1>5, <2>1, <2>2 DEF ReadCurrent
<1>6. ASSUME NEW j \in Jobs, Demote(j)
      PROVE  TypeOK' /\ Existing'
  BY <1>6 DEF Demote, TypeOK, Existing, At, Goto, Steps, InTransaction, db
<1>7. ASSUME NEW j \in Jobs, Upsert(j)
      PROVE  TypeOK' /\ Existing'
  BY <1>7 DEF Upsert, TypeOK, Existing, At, Goto, Steps, InTransaction, db
<1>8. ASSUME NEW j \in Jobs, Commit(j)
      PROVE  TypeOK' /\ Existing'
  <2>1. target[j] \in Models /\ row[target[j]] \in Checkpoint
    BY <1>8 DEF Commit, Existing, InTransaction, At
  <2>2. \A m \in Models : m = current[j] => row[m] \in Checkpoint
    BY DEF Existing, Models
  <2>3. \A c \in Checkpoint : Demoted(c) \in Checkpoint /\ [c EXCEPT !.lifecycle = "active"] \in Checkpoint
    BY CheckpointOps
  <2>4. ASSUME NEW m \in Models
        PROVE  /\ row'[m] \in Checkpoint \cup {None}
               /\ row[m] \in Checkpoint => row'[m] \in Checkpoint
    <3>1. row'[m] = CASE m = target[j] -> [row[m] EXCEPT !.lifecycle = "active"]
                      [] m # target[j] /\ m = current[j] -> Demoted(row[m])
                      [] OTHER -> row[m]
      BY <1>8 DEF Commit, AfterActivation
    <3>2. CASE m = target[j]
      BY <2>1, <2>3, <3>1, <3>2
    <3>3. CASE m # target[j] /\ m = current[j]
      BY <2>2, <2>3, <3>1, <3>3
    <3>4. CASE m # target[j] /\ m # current[j]
      BY <3>1, <3>4 DEF TypeOK
    <3> QED BY <3>2, <3>3, <3>4
  <2>5. row' \in [Models -> Checkpoint \cup {None}]
    BY <1>8, <2>4 DEF Commit, AfterActivation
  <2>6. slot' \in NoModel /\ row'[slot'] \in Checkpoint
    BY <1>8, <2>1, <2>4 DEF Commit, NoModel
  <2> QED BY <1>8, <2>4, <2>5, <2>6, EndStep, UnlockedType DEF Commit, TypeOK
<1>9. ASSUME NEW j \in Jobs, AbortDeadlocked(j) \/ Die(j)
      PROVE  TypeOK' /\ Existing'
  BY <1>9, EndStep, UnlockedType DEF AbortDeadlocked, Die, TypeOK, Existing, db
<1>10. CASE UNCHANGED vars \/ Terminated
  BY <1>10 DEF vars, db, locks, Terminated, TypeOK, Existing, At
<1> QED BY <1>1, <1>2, <1>3, <1>4, <1>5, <1>6, <1>7, <1>8, <1>9, <1>10 DEF Next, Step

\* Every variable keeps its type, and no command writes to a row that is not there.
LEMMA Typed == Spec => [](TypeOK /\ Existing)
<1>1. Init => TypeOK /\ Existing
  BY DEF Init, TypeOK, Existing, At, Steps, NoModel, InTransaction
<1> QED BY <1>1, TypeStep, PTL DEF Spec

\* Every variable keeps its type, whatever commands and turns overlap and die.
THEOREM Typing == Spec => []TypeOK
BY Typed, PTL

(***************************************************************************)
(* The gate.                                                               *)
(***************************************************************************)
\* What is about to be put in a row is as sound as the rows, and is not active.
Pending ==
    \A j \in Jobs : At(j, "put") => Sound(read[j]) /\ read[j].lifecycle # "active"

\* A transaction holds the row it activates, which is approved, and the row of the
\* model that it replaces.
Locked ==
    \A j \in Jobs :
        /\ job[j] \in InTransaction =>
               rowLock[target[j]] = j /\ row[target[j]].lifecycle = "approved"
        /\ job[j] \in {"upsert", "commit"} /\ current[j] \notin {None, target[j]} =>
               rowLock[current[j]] = j

\* No other job changes a row while a transaction holds it.
LEMMA LockedRows ==
    ASSUME TypeOK, Existing, Locked, Next, NEW m \in Models, NEW j \in Jobs, rowLock[m] = j
    PROVE  \/ Commit(j)
           \/ row'[m] = row[m]
<1>1. ASSUME NEW q \in Jobs, Put(q)
      PROVE  row'[m] = row[m]
  <2>1. target[q] \in Models /\ rowLock[target[q]] = None /\ row' = [row EXCEPT ![target[q]] = read[q]]
    BY <1>1 DEF Put, Existing
  <2>2. target[q] # m
    BY <2>1
  <2> QED BY <2>1, <2>2 DEF TypeOK
<1>2. ASSUME NEW q \in Jobs, q # j, Commit(q)
      PROVE  row'[m] = row[m]
  <2>1. rowLock[target[q]] = q /\ (current[q] \notin {None, target[q]} => rowLock[current[q]] = q)
    BY <1>2 DEF Commit, At, Locked, InTransaction
  <2>2. m # target[q] /\ (m = current[q] => m = target[q])
    BY <1>2, <2>1 DEF Models
  <2> QED BY <1>2, <2>2 DEF Commit, AfterActivation
<1> QED BY <1>1, <1>2 DEF Next, Step, ReadSlot, ReadRow, LockTarget, ReadCurrent, Demote, Upsert,
                         AbortDeadlocked, Die, Terminated, vars, db

\* A lock is taken when nobody has it and is let go by who holds it.
LEMMA LocksKept ==
    ASSUME TypeOK, Existing, Next, NEW m \in Models, NEW j \in Jobs, rowLock[m] = j
    PROVE  \/ job'[j] = "over"
           \/ rowLock'[m] = j
<1>1. ASSUME NEW q \in Jobs, Unlocked(q), End(q)
      PROVE  job'[j] = "over" \/ rowLock'[m] = j
  BY <1>1 DEF Unlocked, End, Goto, TypeOK
<1>2. ASSUME NEW q \in Jobs, LockTarget(q)
      PROVE  rowLock'[m] = j
  <2>1. target[q] \in Models /\ rowLock[target[q]] = None
    BY <1>2 DEF LockTarget, Existing
  <2> QED BY <1>2, <2>1 DEF LockTarget, TypeOK
<1>3. ASSUME NEW q \in Jobs, Demote(q)
      PROVE  rowLock'[m] = j
  <2>1. current[q] \in Models /\ rowLock[current[q]] = None
    BY <1>3 DEF Demote, Existing
  <2> QED BY <1>3, <2>1 DEF Demote, TypeOK
<1>4. ASSUME NEW q \in Jobs, ReadCurrent(q)
      PROVE  (Unlocked(q) /\ End(q)) \/ rowLock'[m] = j
  BY <1>4 DEF ReadCurrent
<1>5. ASSUME NEW q \in Jobs, Commit(q) \/ AbortDeadlocked(q) \/ Die(q)
      PROVE  Unlocked(q) /\ End(q)
  BY <1>5 DEF Commit, AbortDeadlocked, Die
<1> QED BY <1>1, <1>2, <1>3, <1>4, <1>5 DEF Next, Step, ReadSlot, ReadRow, Put, Upsert, Terminated,
                                           vars, locks

\* Only the job that acts changes its own state.
LEMMA OwnStep ==
    ASSUME TypeOK, Existing, Next
    PROVE  \/ \E j \in Jobs :
                  /\ Step(j) \/ Die(j)
                  /\ \A q \in Jobs : q # j =>
                         /\ job'[q] = job[q] /\ read'[q] = read[q]
                         /\ target'[q] = target[q] /\ current'[q] = current[q]
           \/ UNCHANGED vars
<1>1. ASSUME NEW j \in Jobs, ReadRow(j), NEW q \in Jobs, q # j
      PROVE  /\ job'[q] = job[q] /\ read'[q] = read[q]
             /\ target'[q] = target[q] /\ current'[q] = current[q]
  BY <1>1, ReadRowStep DEF End, Goto, WillPut, TypeOK
<1>2. ASSUME NEW j \in Jobs, Step(j) \/ Die(j), ~ReadRow(j), NEW q \in Jobs, q # j
      PROVE  /\ job'[q] = job[q] /\ read'[q] = read[q]
             /\ target'[q] = target[q] /\ current'[q] = current[q]
  <2>1. CASE End(j)
    BY <1>2, <2>1 DEF End, Goto, TypeOK
  <2>2. CASE ~End(j)
    BY <1>2, <2>2 DEF Step, Die, ReadSlot, Put, LockTarget, ReadCurrent, Demote, Upsert, Commit,
                      AbortDeadlocked, Goto, TypeOK
  <2> QED BY <2>1, <2>2
<1> QED BY <1>1, <1>2 DEF Next, Terminated

\* A transaction has the rows it works on, and finds its model still approved.
LEMMA LockedStep ==
    ASSUME TypeOK, TypeOK', Existing, Locked, [Next]_vars
    PROVE  Locked'
<1>1. CASE UNCHANGED vars
  BY <1>1 DEF vars, db, locks, Locked
<1>2. CASE Next
  <2>1. ASSUME NEW q \in Jobs,
               job'[q] = job[q], target'[q] = target[q], current'[q] = current[q]
        PROVE  /\ job'[q] \in InTransaction =>
                      rowLock'[target'[q]] = q /\ row'[target'[q]].lifecycle = "approved"
               /\ job'[q] \in {"upsert", "commit"} /\ current'[q] \notin {None, target'[q]} =>
                      rowLock'[current'[q]] = q
    <3>1. CASE job[q] \notin InTransaction
      BY <2>1, <3>1 DEF InTransaction
    <3>2. CASE job[q] \in InTransaction
      <4>1. target[q] \in Models /\ rowLock[target[q]] = q /\ row[target[q]].lifecycle = "approved"
        BY <3>2 DEF Locked, Existing
      <4>2. job'[q] # "over" /\ ~Commit(q)
        BY <2>1, <3>2 DEF InTransaction, Commit, End, Goto, TypeOK
      <4>3. rowLock'[target[q]] = q /\ row'[target[q]] = row[target[q]]
        BY <1>2, <4>1, <4>2, LocksKept, LockedRows
      <4>4. ASSUME job[q] \in {"upsert", "commit"}, current[q] \notin {None, target[q]}
            PROVE  rowLock'[current[q]] = q
        <5>1. current[q] \in Models /\ rowLock[current[q]] = q
          BY <4>4 DEF Locked, TypeOK, NoModel
        <5> QED BY <1>2, <4>2, <5>1, LocksKept
      <4> QED BY <2>1, <4>1, <4>3, <4>4
    <3> QED BY <3>1, <3>2
  <2>2. ASSUME NEW j \in Jobs, Step(j) \/ Die(j)
        PROVE  /\ job'[j] \in InTransaction =>
                      rowLock'[target'[j]] = j /\ row'[target'[j]].lifecycle = "approved"
               /\ job'[j] \in {"upsert", "commit"} /\ current'[j] \notin {None, target'[j]} =>
                      rowLock'[current'[j]] = j
    <3>1. ASSUME job'[j] \in {"row", "put", "lock", "over"}
          PROVE  job'[j] \notin InTransaction /\ job'[j] \notin {"upsert", "commit"}
      BY <3>1 DEF InTransaction
    <3>2. CASE ReadSlot(j) \/ Put(j) \/ Commit(j) \/ AbortDeadlocked(j) \/ Die(j)
      <4>1. job'[j] \in {"row", "lock", "over"}
        BY <3>2 DEF ReadSlot, Put, Commit, AbortDeadlocked, Die, End, Goto, TypeOK
      <4> QED BY <3>1, <4>1
    <3>3. CASE ReadRow(j)
      <4>1. job'[j] \in {"put", "over"}
        BY <3>3, ReadRowStep DEF WillPut, End, Goto, TypeOK
      <4> QED BY <3>1, <4>1
    <3>4. CASE LockTarget(j)
      BY <3>4 DEF LockTarget, End, Goto, TypeOK, Existing, InTransaction, db
    <3>5. CASE ReadCurrent(j)
      <4>1. CASE ~ExpectationMet(j)
        BY <3>1, <3>5, <4>1 DEF ReadCurrent, End, Goto, TypeOK
      <4>2. CASE ExpectationMet(j)
        <5>1. rowLock[target[j]] = j /\ row[target[j]].lifecycle = "approved"
          BY <3>5 DEF ReadCurrent, At, Locked, InTransaction
        <5>2. /\ current'[j] = slot /\ UNCHANGED <<target, rowLock, row>>
              /\ job'[j] = IF slot \in {None, target[j]} THEN "upsert" ELSE "demote"
          BY <3>5, <4>2 DEF ReadCurrent, Goto, TypeOK, db
        <5> QED BY <5>1, <5>2
      <4> QED BY <4>1, <4>2
    <3>6. CASE Demote(j)
      <4>1. /\ rowLock[target[j]] = j /\ row[target[j]].lifecycle = "approved"
            /\ target[j] \in Models /\ current[j] \in Models
        BY <3>6 DEF Demote, At, Locked, Existing, InTransaction
      <4>2. rowLock' = [rowLock EXCEPT ![current[j]] = j] /\ UNCHANGED <<target, current, row>>
        BY <3>6 DEF Demote, db
      <4> QED BY <4>1, <4>2 DEF TypeOK
    <3>7. CASE Upsert(j)
      BY <3>7 DEF Upsert, At, Goto, Locked, InTransaction, TypeOK, db
    <3> QED BY <2>2, <3>2, <3>3, <3>4, <3>5, <3>6, <3>7 DEF Step
  <2>3. CASE UNCHANGED vars
    BY <1>1, <2>3
  <2> QED BY <1>2, <2>1, <2>2, <2>3, OwnStep DEF Locked
<1> QED BY <1>1, <1>2

\* Rows stay sound: a put writes what was sound when it was made, and an activation
\* an approved row.
LEMMA SoundStep ==
    ASSUME TypeOK, TypeOK', Existing, Locked, Pending, SoundRows, [Next]_vars
    PROVE  Pending' /\ SoundRows'
<1>1. CASE UNCHANGED vars
  BY <1>1 DEF vars, db, Pending, SoundRows, At
<1>2. CASE Next
  <2>1. SoundRows'
    <3>1. ASSUME NEW j \in Jobs, Put(j)
          PROVE  SoundRows'
      <4>1. target[j] \in Models /\ row' = [row EXCEPT ![target[j]] = read[j]] /\ Sound(read[j])
        BY <3>1 DEF Put, Existing, Pending
      <4> QED BY <4>1 DEF SoundRows, TypeOK
    <3>2. ASSUME NEW j \in Jobs, Commit(j)
          PROVE  SoundRows'
      <4> SUFFICES ASSUME NEW m \in Models, row'[m] # None
                   PROVE  Sound(row'[m])
        BY DEF SoundRows
      <4>1. row'[m] = CASE m = target[j] -> [row[m] EXCEPT !.lifecycle = "active"]
                        [] m # target[j] /\ m = current[j] -> Demoted(row[m])
                        [] OTHER -> row[m]
        BY <3>2 DEF Commit, AfterActivation
      <4>2. \A n \in Models : row[n] \in Checkpoint => Sound(row[n])
        BY DEF SoundRows
      <4>3. CASE m = target[j]
        <5>1. row[m] \in Checkpoint /\ row[m].lifecycle = "approved"
          BY <3>2, <4>3 DEF Commit, At, Existing, Locked, InTransaction
        <5> QED BY <4>1, <4>2, <4>3, <5>1 DEF Sound, Earned, Checkpoint
      <4>4. CASE m # target[j] /\ m = current[j]
        <5>1. row[m] \in Checkpoint
          BY <4>4 DEF Existing, Models
        <5>2. row'[m] = Demoted(row[m]) /\ Sound(row[m])
          BY <4>1, <4>2, <4>4, <5>1
        <5> QED BY <5>1, <5>2 DEF Demoted, Approved, Sound, Earned, Checkpoint
      <4>5. CASE m # target[j] /\ m # current[j]
        BY <4>1, <4>5 DEF SoundRows
      <4> QED BY <4>3, <4>4, <4>5
    <3> QED BY <1>2, <3>1, <3>2 DEF Next, Step, ReadSlot, ReadRow, LockTarget, ReadCurrent, Demote,
                   Upsert, AbortDeadlocked, Die, Terminated, vars, db, SoundRows
  <2>2. ASSUME NEW j \in Jobs, Step(j) \/ Die(j), job'[j] = "put"
        PROVE  Sound(read'[j]) /\ read'[j].lifecycle # "active"
    <3>1. CASE ReadRow(j)
      BY <2>2, <3>1, ReadRowStep DEF WillPut, End, Goto, TypeOK
    <3>2. CASE ~ReadRow(j)
      BY <2>2, <3>2 DEF Step, Die, ReadSlot, Put, LockTarget, ReadCurrent, Demote, Upsert, Commit,
                        AbortDeadlocked, End, Goto, TypeOK
    <3> QED BY <3>1, <3>2
  <2>3. Pending'
    BY <1>1, <1>2, <2>2, OwnStep DEF Pending, At
  <2> QED BY <2>1, <2>3
<1> QED BY <1>1, <1>2

\* The invariant that makes the gate inductive.
LEMMA GateInvariant == Spec => []((TypeOK /\ Existing) /\ (Locked /\ Pending /\ SoundRows))
<1>1. Init => Locked /\ Pending /\ SoundRows
  BY DEF Init, Locked, Pending, SoundRows, At, InTransaction
<1> QED BY <1>1, LockedStep, SoundStep, Typed, PTL DEF Spec

\* Whatever overlaps, no model is approved or active that is not the empty bootstrap
\* and has no passed evaluation of its very state.
THEOREM GateHolds == Spec => []ApprovedIsEvaluated
<1>1. SoundRows => ApprovedIsEvaluated
  BY DEF SoundRows, ApprovedIsEvaluated, Sound
<1> QED BY <1>1, GateInvariant, PTL

(***************************************************************************)
(* The active model.                                                       *)
(***************************************************************************)
\* A transaction that found a model in the slot keeps the slot and finds it there
\* to the end; who fills an empty slot is on record, and has ended.
SlotKept ==
    /\ \A j \in Jobs :
           /\ job[j] \in {"demote", "upsert", "commit"} /\ current[j] # None =>
                  slotLock = j /\ slot = current[j]
           /\ At(j, "commit") => slotLock = j
    /\ slot # None => blind # {}
    /\ \A j \in blind : At(j, "over")

\* The slot is let go by who holds it, and filled by who holds it.
LEMMA SlotLockKept ==
    ASSUME TypeOK, SlotKept, Next, NEW j \in Jobs, slotLock = j, job'[j] # "over"
    PROVE  slotLock' = j /\ slot' = slot
<1>1. ASSUME NEW q \in Jobs, End(q)
      PROVE  q # j
  BY <1>1 DEF End, Goto, TypeOK
<1>2. ASSUME NEW q \in Jobs, Unlocked(q), End(q)
      PROVE  slotLock' = j
  BY <1>1, <1>2 DEF Unlocked
<1>3. ASSUME NEW q \in Jobs, ReadCurrent(q)
      PROVE  slotLock' = j
  BY <1>2, <1>3 DEF ReadCurrent
<1>4. ASSUME NEW q \in Jobs, Commit(q)
      PROVE  FALSE
  BY <1>1, <1>4 DEF Commit, SlotKept
<1>5. ASSUME NEW q \in Jobs, AbortDeadlocked(q) \/ Die(q)
      PROVE  slotLock' = j
  BY <1>2, <1>5 DEF AbortDeadlocked, Die
<1> QED BY <1>3, <1>4, <1>5 DEF Next, Step, ReadSlot, ReadRow, Put, LockTarget, ReadCurrent, Demote,
               Upsert, AbortDeadlocked, Die, Terminated, vars, locks, db

\* The slot stays with the transaction that replaces what it names.
LEMMA SlotStep ==
    ASSUME TypeOK, TypeOK', Existing, SlotKept, [Next]_vars
    PROVE  SlotKept'
<1>1. CASE UNCHANGED vars
  BY <1>1 DEF vars, db, locks, SlotKept, At
<1>2. CASE Next
  <2>1. ASSUME NEW q \in Jobs, job'[q] = job[q], current'[q] = current[q]
        PROVE  /\ job'[q] \in {"demote", "upsert", "commit"} /\ current'[q] # None =>
                      slotLock' = q /\ slot' = current'[q]
               /\ job'[q] = "commit" => slotLock' = q
    BY <1>2, <2>1, SlotLockKept DEF SlotKept, At
  <2>2. ASSUME NEW j \in Jobs, Step(j) \/ Die(j)
        PROVE  /\ job'[j] \in {"demote", "upsert", "commit"} /\ current'[j] # None =>
                      slotLock' = j /\ slot' = current'[j]
               /\ job'[j] = "commit" => slotLock' = j
               /\ job[j] = "over" => job'[j] = "over"
    <3>1. CASE ReadSlot(j) \/ Put(j) \/ LockTarget(j) \/ Commit(j) \/ Die(j)
      <4>1. job'[j] \in {"row", "lock", "slot", "over"}
        BY <3>1 DEF ReadSlot, Put, LockTarget, Commit, Die, End, Goto, TypeOK
      <4>2. job[j] # "over"
        BY <3>1 DEF ReadSlot, Put, LockTarget, Commit, Die, At
      <4> QED BY <4>1, <4>2
    <3>2. CASE ReadRow(j)
      <4>1. job'[j] \in {"put", "over"}
        BY <3>2, ReadRowStep DEF WillPut, End, Goto, TypeOK
      <4> QED BY <3>2, <4>1 DEF ReadRow, At
    <3>3. CASE ReadCurrent(j)
      BY <3>3 DEF ReadCurrent, At, End, Goto, TypeOK, db
    <3>4. CASE Demote(j)
      BY <3>4 DEF Demote, At, Goto, SlotKept, TypeOK, db
    <3>5. CASE Upsert(j)
      BY <3>5 DEF Upsert, At, Goto, SlotKept, TypeOK, db
    <3>6. CASE AbortDeadlocked(j)
      BY <3>6 DEF AbortDeadlocked, End, Goto, TypeOK
    <3> QED BY <2>2, <3>1, <3>2, <3>3, <3>4, <3>5, <3>6 DEF Step
  <2>3. /\ slot' # None => blind' # {}
        /\ \A j \in blind' : j \in blind \/ job'[j] = "over"
    <3>1. ASSUME NEW j \in Jobs, Commit(j)
          PROVE  /\ slot' # None => blind' # {}
                 /\ \A q \in blind' : q \in blind \/ job'[q] = "over"
      <4>1. CASE current[j] = None
        BY <3>1, <4>1 DEF Commit, End, Goto, TypeOK
      <4>2. CASE current[j] # None
        BY <3>1, <4>2 DEF Commit, At, SlotKept, TypeOK
      <4> QED BY <4>1, <4>2
    <3> QED BY <1>2, <3>1 DEF Next, Step, ReadSlot, ReadRow, Put, LockTarget, ReadCurrent, Demote,
                   Upsert, AbortDeadlocked, Die, Terminated, vars, db, SlotKept
  <2>4. \A j \in Jobs : job[j] = "over" => job'[j] = "over"
    BY <1>1, <1>2, <2>2, OwnStep DEF vars
  <2>5. \A j \in blind' : job'[j] = "over"
    BY <2>3, <2>4 DEF SlotKept, At, TypeOK
  <2>6. CASE UNCHANGED vars
    BY <1>1, <2>6
  <2>7. CASE ~UNCHANGED vars
    <3>1. PICK j \in Jobs :
              /\ Step(j) \/ Die(j)
              /\ \A q \in Jobs : q # j => job'[q] = job[q] /\ current'[q] = current[q]
      BY <1>2, <2>7, OwnStep
    <3> QED BY <2>1, <2>2, <2>3, <2>5, <3>1 DEF SlotKept, At
  <2> QED BY <2>6, <2>7
<1> QED BY <1>1, <1>2

\* At most one model is active, as long as the slot was filled once.
LEMMA ActiveStep ==
    ASSUME TypeOK, TypeOK', Existing, Pending, SlotKept, OneActive, [Next]_vars
    PROVE  OneActive'
<1> SUFFICES ASSUME Cardinality(blind') <= 1,
                    NEW m \in Models, row'[m] # None, row'[m].lifecycle = "active"
             PROVE  slot' = m
  BY DEF OneActive
<1>1. IsFiniteSet(blind) /\ IsFiniteSet(blind')
  BY JobsAssumption, FS_Subset DEF TypeOK
<1>2. Cardinality(blind) \in Nat /\ Cardinality(blind') \in Nat
  BY <1>1, FS_CardinalityType
<1>3. blind \subseteq blind'
  BY DEF Next, Step, ReadSlot, ReadRow, Put, LockTarget, ReadCurrent, Demote, Upsert, Commit,
         AbortDeadlocked, Die, Terminated, vars, db
<1>4. Cardinality(blind) <= 1
  <2>1. Cardinality(blind) <= Cardinality(blind')
    BY <1>1, <1>3, FS_Subset
  <2> QED BY <1>2, <2>1
<1>5. ASSUME row[m] # None, row[m].lifecycle = "active"
      PROVE  slot = m
  BY <1>4, <1>5 DEF OneActive
<1>6. ASSUME NEW j \in Jobs, Put(j)
      PROVE  slot' = m
  <2>1. /\ target[j] \in Models /\ row' = [row EXCEPT ![target[j]] = read[j]]
        /\ read[j].lifecycle # "active" /\ slot' = slot
    BY <1>6 DEF Put, Existing, Pending
  <2> QED BY <1>5, <2>1 DEF TypeOK
<1>7. ASSUME NEW j \in Jobs, Commit(j)
      PROVE  slot' = m
  <2>1. slot' = target[j] /\ j \notin blind
    BY <1>7 DEF Commit, At, SlotKept
  <2> SUFFICES ASSUME m # target[j]
               PROVE  FALSE
    BY <2>1
  <2>2. row'[m] = IF m = current[j] THEN Demoted(row[m]) ELSE row[m]
    BY <1>7 DEF Commit, AfterActivation
  <2>3. m # current[j]
    <3> SUFFICES ASSUME m = current[j]
                 PROVE  FALSE
      OBVIOUS
    <3>1. row[m] \in Checkpoint
      BY DEF Existing, Models
    <3>2. Demoted(row[m]).lifecycle # "active"
      BY <3>1 DEF Demoted, Approved, Checkpoint
    <3> QED BY <2>2, <3>2
  <2>4. slot = m /\ m # None
    BY <1>5, <2>2, <2>3 DEF Models
  <2>5. current[j] = None
    BY <1>7, <2>3, <2>4 DEF Commit, At, SlotKept
  <2>6. blind # {} /\ blind' = blind \cup {j}
    BY <1>7, <2>4, <2>5 DEF Commit, SlotKept
  <2>7. Cardinality(blind) # 0 /\ Cardinality(blind') = Cardinality(blind) + 1
    BY <1>1, <2>1, <2>6, FS_EmptySet, FS_AddElement
  <2> QED BY <1>2, <2>7
<1>8. CASE UNCHANGED <<row, slot>>
  BY <1>5, <1>8
<1> QED BY <1>6, <1>7, <1>8 DEF Next, Step, ReadSlot, ReadRow, LockTarget, ReadCurrent, Demote,
               Upsert, AbortDeadlocked, Die, Terminated, vars, db

\* The slot names the one active model, whatever activations overlap, unless two of
\* them found it empty.
THEOREM AtMostOneActive == Spec => []OneActive
<1>1. Init => SlotKept
  BY DEF Init, SlotKept, At
<1>2. Init => OneActive
  BY DEF Init, OneActive
<1> QED BY <1>1, <1>2, SlotStep, ActiveStep, GateInvariant, PTL DEF Spec

(***************************************************************************)
(* What is proved about BrainImport, for every number of brains, sections  *)
(* and imports.  ReadyIsWhole needs to know what each import has done so   *)
(* far (Progress: the sections below the one it stores next are in the     *)
(* tables or among those it could not read) and that whoever starts or     *)
(* finishes a validation has a sentinel to go by (Sentinels).              *)
(***************************************************************************)

USE NoBrainAssumption, BrainAssumption, SectionsAssumption

\* What an action does to the state of the brains, if it does anything: it makes
\* one of the transitions, creates a row, or activates a brain.
LEMMA StateStep ==
    ASSUME ImportTypeOK, [ImportNext]_importVars
    PROVE  \/ UNCHANGED <<state, marker>>
           \/ \E r \in Imports, to \in States :
                  /\ Generic(state[Brain[r]], to)
                  /\ to = "VALIDATING" => step[r] = "validate"
                  /\ to = "READY" => state[Brain[r]] = "VALIDATING"
                  /\ state' = [state EXCEPT ![Brain[r]] = to]
                  /\ marker' = marker
           \/ \E r \in Imports :
                  /\ state[Brain[r]] = NoBrain
                  /\ state' = [state EXCEPT ![Brain[r]] = "CREATED"]
                  /\ marker' = marker
           \/ \E r \in Imports :
                  /\ state[Brain[r]] = "READY"
                  /\ state' = Replaced(Brain[r])
                  /\ marker' = Brain[r]
<1> DEFINE Moved(r) == \E to \in States :
               /\ Generic(state[Brain[r]], to)
               /\ to = "VALIDATING" => step[r] = "validate"
               /\ to = "READY" => state[Brain[r]] = "VALIDATING"
               /\ state' = [state EXCEPT ![Brain[r]] = to]
               /\ marker' = marker
<1>1. ASSUME NEW r \in Imports, Begin(r) \/ Lookup(r) \/ Continue(r) \/ StoreSection(r) \/ SkipSection(r)
                  \/ Stop(r) \/ ReadStopped(r) \/ AllStored(r) \/ WriteSentinel(r) \/ Throw(r) \/ Catch(r) \/ DieImporting(r)
      PROVE  UNCHANGED <<state, marker>>
  BY <1>1 DEF Begin, Lookup, Continue, StoreSection, SkipSection, Stop, ReadStopped, AllStored,
              WriteSentinel, Throw, Catch, DieImporting, tables
<1>2. ASSUME NEW r \in Imports, Create(r)
      PROVE  \/ UNCHANGED <<state, marker>>
             \/ /\ state[Brain[r]] = NoBrain
                /\ state' = [state EXCEPT ![Brain[r]] = "CREATED"]
                /\ marker' = marker
  BY <1>2 DEF Create, ImportTypeOK
<1>3. ASSUME NEW r \in Imports, Resume(r) \/ StopRow(r) \/ StartValidation(r) \/ Check(r)
      PROVE  UNCHANGED <<state, marker>> \/ Moved(r)
  <2>1. CASE Resume(r)
    BY <2>1 DEF Resume, Transition, Expected, States
  <2>2. CASE StopRow(r)
    BY <2>2 DEF StopRow, Expected, Generic, Transitions, States
  <2>3. CASE StartValidation(r)
    BY <2>3 DEF StartValidation, Transition, Expected, States
  <2>4. CASE Check(r)
    BY <2>4 DEF Check, Transition, Expected, States
  <2> QED BY <1>3, <2>1, <2>2, <2>3, <2>4
<1>4. ASSUME NEW r \in Imports, MarkFailed(r)
      PROVE  UNCHANGED <<state, marker>> \/ Moved(r)
  BY <1>4 DEF MarkFailed, Expected, States
<1>5. ASSUME NEW r \in Imports, Activate(r)
      PROVE  \/ UNCHANGED <<state, marker>>
             \/ /\ state[Brain[r]] = "READY"
                /\ state' = Replaced(Brain[r])
                /\ marker' = Brain[r]
  BY <1>5 DEF Activate
<1>6. CASE UNCHANGED importVars \/ ImportsOver
  BY <1>6 DEF importVars, tables, ImportsOver
<1> QED BY <1>1, <1>2, <1>3, <1>4, <1>5, <1>6 DEF ImportNext, ImportStep

\* Every variable keeps its type, whatever imports run, fail and die.
THEOREM ImportTyping == ImportSpec => []ImportTypeOK
<1>1. ImportInit => ImportTypeOK
  BY DEF ImportInit, ImportTypeOK, ImportSteps
<1>2. ASSUME ImportTypeOK, [ImportNext]_importVars
      PROVE  ImportTypeOK'
  <2> USE <1>2
  <2>1. state' \in [Brains -> States \cup {NoBrain}] /\ marker' \in Brains \cup {NoBrain}
    <3>1. \A b \in Brains : Replaced(b) \in [Brains -> States \cup {NoBrain}]
      BY DEF Replaced, ImportTypeOK, States
    <3>2. \A r \in Imports, to \in States :
              [state EXCEPT ![Brain[r]] = to] \in [Brains -> States \cup {NoBrain}]
      BY DEF ImportTypeOK
    <3>3. "CREATED" \in States /\ \A r \in Imports : Brain[r] \in Brains
      BY DEF States
    <3>4. \/ UNCHANGED <<state, marker>>
          \/ \E r \in Imports, to \in States \cup {"CREATED"} :
                state' = [state EXCEPT ![Brain[r]] = to] /\ marker' = marker
          \/ \E r \in Imports : state' = Replaced(Brain[r]) /\ marker' = Brain[r]
      BY StateStep
    <3>5. state \in [Brains -> States \cup {NoBrain}] /\ marker \in Brains \cup {NoBrain}
      BY DEF ImportTypeOK
    <3> QED BY <3>1, <3>2, <3>3, <3>4, <3>5
  <2>2. ASSUME NEW r \in Imports,
               UNCHANGED <<sentinel, reported, stored>>, UNCHANGED memory, alone' \subseteq alone,
               NEW s \in ImportSteps, step' = [step EXCEPT ![r] = s]
        PROVE  ImportTypeOK'
    BY <2>1, <2>2 DEF ImportTypeOK, memory
  <2>3. ASSUME NEW r \in Imports, UNCHANGED <<sentinel, reported, stored>>, NEW s \in ImportSteps,
               EndImport(r, s)
        PROVE  ImportTypeOK'
    <3>1. \A q \in Imports : next'[q] \in 1 .. Sections[Brain[q]] + 1
      BY <2>3 DEF EndImport, ForgetSections, ImportTypeOK
    <3> QED BY <2>1, <2>3, <3>1 DEF EndImport, ForgetSections, ImportTypeOK
  <2>4. ASSUME NEW r \in Imports, Begin(r)
        PROVE  ImportTypeOK'
    BY <2>1, <2>4 DEF Begin, ImportTypeOK, tables, ImportSteps
  <2>5. ASSUME NEW r \in Imports, Lookup(r)
        PROVE  ImportTypeOK'
    BY <2>1, <2>5 DEF Lookup, ImportTypeOK, tables, ImportSteps
  <2>6. ASSUME NEW r \in Imports, StoreSection(r)
        PROVE  ImportTypeOK'
    <3>1. stored' \in [Brains -> SUBSET Nat]
      BY <2>6 DEF StoreSection, ImportTypeOK
    <3>2. \A q \in Imports : next'[q] \in 1 .. Sections[Brain[q]] + 1
      BY <2>6 DEF StoreSection, More, ImportTypeOK
    <3> QED BY <2>1, <2>6, <3>1, <3>2 DEF StoreSection, ImportTypeOK
  <2>7. ASSUME NEW r \in Imports, SkipSection(r)
         PROVE  ImportTypeOK'
    <3>1. \A q \in Imports : next'[q] \in 1 .. Sections[Brain[q]] + 1
      BY <2>7 DEF SkipSection, More, ImportTypeOK
    <3>2. unread' \in [Imports -> SUBSET Nat]
      BY <2>7 DEF SkipSection, ImportTypeOK
    <3> QED BY <2>1, <2>7, <3>1, <3>2 DEF SkipSection, ImportTypeOK, tables
  <2>8. ASSUME NEW r \in Imports, ForgetSections(r)
         PROVE  /\ DOMAIN next' = Imports /\ \A q \in Imports : next'[q] \in 1 .. Sections[Brain[q]] + 1
                /\ unread' \in [Imports -> SUBSET Nat]
    BY <2>8 DEF ForgetSections, ImportTypeOK
  <2>9. ASSUME NEW r \in Imports, WriteSentinel(r)
        PROVE  ImportTypeOK'
    <3>1. reported' \in [Brains -> SUBSET Nat]
      BY <2>9 DEF WriteSentinel, ImportTypeOK
    <3>2. sentinel' \in [Brains -> BOOLEAN] /\ stored' \in [Brains -> SUBSET Nat]
      BY <2>9 DEF WriteSentinel, ImportTypeOK
    <3>3. step' \in [Imports -> ImportSteps]
      BY <2>9 DEF WriteSentinel, ImportTypeOK, ImportSteps
    <3>4. /\ complete' \in [Imports -> BOOLEAN] /\ saw' \in [Imports -> States \cup {NoBrain}]
          /\ alone' \subseteq Imports
      BY <2>9 DEF WriteSentinel, ImportTypeOK
    <3>5. /\ DOMAIN next' = Imports /\ \A q \in Imports : next'[q] \in 1 .. Sections[Brain[q]] + 1
          /\ unread' \in [Imports -> SUBSET Nat]
      BY <2>8, <2>9 DEF WriteSentinel
    <3> QED BY <2>1, <3>1, <3>2, <3>3, <3>4, <3>5, Zenon DEF ImportTypeOK
  <2>10. ASSUME NEW r \in Imports, Catch(r)
        PROVE  ImportTypeOK'
    <3>1. CASE state[Brain[r]] \in Unfinished
      BY <2>1, <2>10, <3>1 DEF Catch, ImportTypeOK, tables, ImportSteps
    <3>2. CASE state[Brain[r]] \notin Unfinished
      BY <2>3, <2>10, <3>2 DEF Catch, Failed, tables, ImportSteps
    <3> QED BY <3>1, <3>2
  <2>11. ASSUME NEW r \in Imports, Create(r) \/ Stop(r) \/ AllStored(r)
        PROVE  ImportTypeOK'
    BY <2>2, <2>11 DEF Create, Stop, AllStored, GoOn, tables, ImportSteps
  <2>12. ASSUME NEW r \in Imports, Throw(r)
         PROVE  ImportTypeOK'
    BY <2>1, <2>8, <2>12 DEF Throw, ImportTypeOK, tables, ImportSteps
  <2>13. ASSUME NEW r \in Imports, Resume(r) \/ StartValidation(r) \/ Check(r)
         PROVE  ImportTypeOK'
    BY <2>2, <2>13 DEF Resume, StartValidation, Check, Transition, GoOn, ImportSteps
  <2>14. ASSUME NEW r \in Imports, ReadStopped(r) \/ StopRow(r) \/ Activate(r)
         PROVE  ImportTypeOK'
    BY <2>2, <2>3, <2>14 DEF ReadStopped, StopRow, Activate, GoOn, tables, ImportSteps
  <2>15. ASSUME NEW r \in Imports, Continue(r)
         PROVE  ImportTypeOK'
    <3>1. CASE complete[r] /\ saw[r] = "ACTIVE"
      BY <2>3, <2>15, <3>1 DEF Continue, tables, ImportSteps
    <3>2. CASE ~(complete[r] /\ saw[r] = "ACTIVE")
      <4>1. \E s \in ImportSteps : GoOn(r, s)
        BY <2>15, <3>2, Zenon DEF Continue, ImportSteps
      <4> QED BY <2>2, <2>15, <4>1 DEF Continue, GoOn, tables
    <3> QED BY <3>1, <3>2
  <2>16. ASSUME NEW r \in Imports, MarkFailed(r) \/ DieImporting(r)
         PROVE  ImportTypeOK'
    BY <2>3, <2>16 DEF MarkFailed, DieImporting, Failed, tables, ImportSteps
  <2>17. CASE UNCHANGED importVars \/ ImportsOver
    BY <2>17 DEF ImportTypeOK, importVars, tables, memory, ImportsOver
  <2> QED BY <2>4, <2>5, <2>6, <2>7, <2>9, <2>10, <2>11, <2>12, <2>13, <2>14, <2>15,
            <2>16, <2>17 DEF ImportNext, ImportStep
<1> QED BY <1>1, <1>2, PTL DEF ImportSpec

(***************************************************************************)
(* The active brain.                                                       *)
(***************************************************************************)
\* The marker and the rows agree on the active brain, whatever other imports do.
THEOREM MarkerAgrees == ImportSpec => []MarkerIsActive
<1>1. ImportInit => MarkerIsActive
  BY DEF ImportInit, MarkerIsActive, States
<1>2. ASSUME ImportTypeOK, MarkerIsActive, [ImportNext]_importVars
      PROVE  MarkerIsActive'
  BY <1>2, StateStep DEF MarkerIsActive, ImportTypeOK, Generic, Replaced, States
<1> QED BY <1>1, <1>2, ImportTyping, PTL DEF ImportSpec

\* No other import, however late it stops or fails, takes a finished brain away.
THEOREM ReadyIsPermanent == ImportSpec => ReadyStaysReady
<1>1. ASSUME ImportTypeOK, [ImportNext]_importVars
      PROVE  [\A b \in Brains : state[b] \in {"READY", "ACTIVE"} => state'[b] \in {"READY", "ACTIVE"}]_importVars
  BY <1>1, StateStep DEF ImportTypeOK, Generic, Transitions, Replaced, States
<1> QED BY <1>1, ImportTyping, PTL DEF ImportSpec, ReadyStaysReady

(***************************************************************************)
(* Finished brains.                                                        *)
(***************************************************************************)
\* Nothing is validated, ready or active without a sentinel, and whoever goes to
\* validate found or wrote it.
Sentinels ==
    /\ \A b \in Brains : state[b] \in {"VALIDATING", "READY", "ACTIVE"} => sentinel[b]
    /\ \A r \in Imports : complete[r] \/ step[r] = "validate" => sentinel[Brain[r]]

\* The sentinel is never taken back, and whoever counts on it has it.
LEMMA SentinelsStep ==
    ASSUME ImportTypeOK, Sentinels, [ImportNext]_importVars
    PROVE  Sentinels'
<1>1. \A b \in Brains : sentinel[b] => sentinel'[b]
  <2>1. (\E r \in Imports : WriteSentinel(r)) \/ UNCHANGED sentinel
    BY DEF ImportNext, ImportStep, Begin, Lookup, Create, Resume, Continue, Stop, ReadStopped, StopRow, AllStored,
           StoreSection, SkipSection, StartValidation, Check, Activate, Throw, Catch, MarkFailed, DieImporting, ImportsOver,
           tables, importVars
  <2> QED BY <2>1 DEF WriteSentinel, ImportTypeOK
<1>2. ASSUME NEW b \in Brains, state'[b] \in {"VALIDATING", "READY", "ACTIVE"}
      PROVE  sentinel[b]
  BY <1>2, StateStep DEF ImportTypeOK, Sentinels, Replaced, Generic, States
<1>3. ASSUME NEW q \in Imports, complete'[q] \/ step'[q] = "validate"
      PROVE  sentinel'[Brain[q]]
  <2> USE <1>1, <1>3 DEF ImportTypeOK
  <2>1. ASSUME complete'[q] => complete[q], step'[q] = "validate" => step[q] = "validate" \/ complete[q]
        PROVE  sentinel'[Brain[q]]
    BY <2>1 DEF Sentinels
  <2>2. ASSUME NEW r \in Imports, NEW s \in {"failed", "over"}, EndImport(r, s)
        PROVE  sentinel'[Brain[q]]
    BY <2>1, <2>2 DEF EndImport
  <2>3. ASSUME NEW r \in Imports, NEW s \in ImportSteps, GoOn(r, s), s = "validate" => complete[r]
        PROVE  sentinel'[Brain[q]]
    BY <2>1, <2>3 DEF GoOn, memory
  <2>4. ASSUME NEW r \in Imports, Begin(r)
        PROVE  sentinel'[Brain[q]]
    <3>1. complete'[q] => complete[q] \/ sentinel[Brain[q]]
      BY <2>4 DEF Begin
    <3>2. step'[q] = "validate" => step[q] = "validate"
      BY <2>4 DEF Begin
    <3> QED BY <3>1, <3>2 DEF Sentinels
  <2>5. ASSUME NEW r \in Imports, Lookup(r) \/ StoreSection(r) \/ SkipSection(r) \/ Throw(r)
        PROVE  sentinel'[Brain[q]]
    BY <2>1, <2>5 DEF Lookup, StoreSection, SkipSection, Throw, memory
  <2>6. ASSUME NEW r \in Imports, Create(r) \/ Stop(r) \/ AllStored(r) \/ StartValidation(r) \/ Check(r)
        PROVE  sentinel'[Brain[q]]
    BY <2>3, <2>6 DEF Create, Stop, AllStored, StartValidation, Check, Transition, ImportSteps
  <2>7. ASSUME NEW r \in Imports, Resume(r)
        PROVE  sentinel'[Brain[q]]
    <3>1. (GoOn(r, "validate") /\ complete[r]) \/ GoOn(r, "section") \/ GoOn(r, "catch")
      BY <2>7 DEF Resume, Transition
    <3> QED BY <2>3, <3>1 DEF ImportSteps
  <2>8. ASSUME NEW r \in Imports, Continue(r)
        PROVE  sentinel'[Brain[q]]
    <3>1. CASE complete[r] /\ saw[r] = "ACTIVE"
      BY <2>2, <2>8, <3>1 DEF Continue
    <3>2. CASE ~(complete[r] /\ saw[r] = "ACTIVE")
      <4>1. complete[r] \/ GoOn(r, "section")
        BY <2>8, <3>2, Zenon DEF Continue
      <4>2. \E s \in ImportSteps : GoOn(r, s)
        BY <2>8, <3>2, Zenon DEF Continue, ImportSteps
      <4> QED BY <2>3, <4>1, <4>2 DEF ImportSteps
    <3> QED BY <3>1, <3>2
  <2>9. ASSUME NEW r \in Imports, ReadStopped(r) \/ StopRow(r) \/ Activate(r)
        PROVE  sentinel'[Brain[q]]
    BY <2>2, <2>3, <2>9 DEF ReadStopped, StopRow, Activate, ImportSteps
  <2>10. ASSUME NEW r \in Imports, WriteSentinel(r)
         PROVE  sentinel'[Brain[q]]
    BY <2>10 DEF WriteSentinel, Sentinels
  <2>11. ASSUME NEW r \in Imports, Catch(r)
         PROVE  sentinel'[Brain[q]]
    BY <2>1, <2>2, <2>11 DEF Catch, Failed
  <2>12. ASSUME NEW r \in Imports, MarkFailed(r) \/ DieImporting(r)
         PROVE  sentinel'[Brain[q]]
    BY <2>2, <2>12 DEF MarkFailed, DieImporting, Failed
  <2>13. CASE UNCHANGED importVars \/ ImportsOver
    BY <2>1, <2>13 DEF importVars, memory, ImportsOver
  <2> QED BY <2>4, <2>5, <2>6, <2>7, <2>8, <2>9, <2>10, <2>11, <2>12, <2>13 DEF ImportNext, ImportStep
<1> QED BY <1>1, <1>2, <1>3 DEF Sentinels

\* What an import has behind it, stored or skipped: the sections before the next
\* one, and all of them once it writes the sentinel; and what the sentinel tells.
Progress ==
    /\ \A b \in Brains : sentinel[b] => 1 .. Sections[b] \subseteq stored[b] \cup reported[b]
    /\ \A r \in Imports : 1 .. next[r] - 1 \subseteq stored[Brain[r]] \cup unread[r]
    /\ \A r \in Imports : step[r] = "sentinel" => 1 .. Sections[Brain[r]] \subseteq stored[Brain[r]] \cup unread[r]

\* Sections are only added to the tables.
LEMMA StoredGrows ==
    ASSUME ImportTypeOK, [ImportNext]_importVars, NEW b \in Brains
    PROVE  stored[b] \subseteq stored'[b]
<1>1. ASSUME NEW r \in Imports, StoreSection(r)
      PROVE  stored[b] \subseteq stored'[b]
  BY <1>1 DEF StoreSection, ImportTypeOK
<1>2. (\E r \in Imports : StoreSection(r)) \/ UNCHANGED stored
  BY DEF ImportNext, ImportStep, Begin, Lookup, Create, Resume, Continue, SkipSection, Stop, ReadStopped, StopRow,
         AllStored, WriteSentinel, StartValidation, Check, Activate, Throw, Catch, MarkFailed, DieImporting,
         ImportsOver, tables, importVars
<1> QED BY <1>1, <1>2

\* An import that writes the sentinel has stored or skipped every section, and the
\* sentinel tells which it skipped.
LEMMA ProgressStep ==
    ASSUME ImportTypeOK, ImportTypeOK', Progress, [ImportNext]_importVars
    PROVE  Progress'
<1> USE DEF ImportTypeOK
<1>1. \A b \in Brains : stored[b] \subseteq stored'[b]
  BY StoredGrows
<1>2. ASSUME UNCHANGED <<sentinel, reported, next, unread>>,
             \A r \in Imports : step'[r] = "sentinel" => step[r] = "sentinel"
      PROVE  Progress'
  BY <1>1, <1>2 DEF Progress
<1>3. ASSUME NEW r \in Imports, NEW s, s # "sentinel", UNCHANGED <<sentinel, reported>>,
             step' = [step EXCEPT ![r] = s], ForgetSections(r)
      PROVE  Progress'
  <2>1. \A q \in Imports : q # r => next'[q] = next[q] /\ unread'[q] = unread[q] /\ step'[q] = step[q]
    BY <1>3 DEF ForgetSections
  <2>2. next'[r] = 1 /\ unread'[r] = {} /\ step'[r] = s
    BY <1>3 DEF ForgetSections
  <2>3. 1 .. 1 - 1 = {}
    OBVIOUS
  <2> QED BY <1>1, <1>3, <2>1, <2>2, <2>3 DEF Progress
<1>4. ASSUME NEW r \in Imports, NEW s \in {"failed", "over"}, UNCHANGED <<sentinel, reported>>, EndImport(r, s)
      PROVE  Progress'
  BY <1>3, <1>4 DEF EndImport
<1>5. ASSUME NEW r \in Imports, Begin(r) \/ Lookup(r) \/ Create(r) \/ Stop(r)
      PROVE  Progress'
  BY <1>2, <1>5 DEF Begin, Lookup, Create, Stop, GoOn, tables, memory
<1>6. ASSUME NEW r \in Imports, Resume(r)
      PROVE  Progress'
  BY <1>2, <1>6 DEF Resume, Transition, GoOn, memory
<1>7. ASSUME NEW r \in Imports, Continue(r)
      PROVE  Progress'
  <2>1. CASE complete[r] /\ saw[r] = "ACTIVE"
    BY <1>4, <1>7, <2>1 DEF Continue, tables
  <2>2. CASE ~(complete[r] /\ saw[r] = "ACTIVE")
    <3>1. \E s \in {"section", "validate", "check", "activate", "catch"} : GoOn(r, s)
      BY <1>7, <2>2, Zenon DEF Continue
    <3>2. UNCHANGED <<sentinel, reported, next, unread>>
      BY <1>7, <3>1 DEF Continue, GoOn, tables, memory
    <3> QED BY <1>2, <3>1, <3>2 DEF GoOn
  <2> QED BY <2>1, <2>2
<1>8. ASSUME NEW r \in Imports, StoreSection(r) \/ SkipSection(r)
      PROVE  Progress'
  <2>1. UNCHANGED <<sentinel, reported, step>>
    BY <1>8 DEF StoreSection, SkipSection, tables
  <2>2. next'[r] = next[r] + 1 /\ next[r] \in Nat
    BY <1>8 DEF StoreSection, SkipSection
  <2>3. next[r] \in stored'[Brain[r]] \cup unread'[r]
    BY <1>8 DEF StoreSection, SkipSection
  <2>4. \A q \in Imports : (q # r => next'[q] = next[q]) /\ unread[q] \subseteq unread'[q]
    BY <1>8 DEF StoreSection, SkipSection
  <2>5. \A i \in 1 .. next'[r] - 1 : i \in 1 .. next[r] - 1 \/ i = next[r]
    BY <2>2
  <2>6. \A q \in Imports : 1 .. next'[q] - 1 \subseteq stored'[Brain[q]] \cup unread'[q]
    BY <1>1, <2>3, <2>4, <2>5 DEF Progress
  <2> QED BY <1>1, <2>1, <2>4, <2>6 DEF Progress
<1>9. ASSUME NEW r \in Imports, AllStored(r)
      PROVE  Progress'
  <2>1. next[r] \in Nat /\ Sections[Brain[r]] \in Nat /\ ~(next[r] <= Sections[Brain[r]])
    BY <1>9 DEF AllStored, More
  <2>2. \A i \in 1 .. Sections[Brain[r]] : i \in 1 .. next[r] - 1
    BY <2>1
  <2>3. 1 .. Sections[Brain[r]] \subseteq stored[Brain[r]] \cup unread[r]
    BY <2>2 DEF Progress
  <2> QED BY <1>1, <1>9, <2>3 DEF AllStored, Progress, GoOn, tables, memory
<1>10. ASSUME NEW r \in Imports, WriteSentinel(r)
       PROVE  Progress'
  <2>1. 1 .. Sections[Brain[r]] \subseteq stored[Brain[r]] \cup unread[r]
    BY <1>10 DEF WriteSentinel, Progress
  <2>2. reported'[Brain[r]] = unread[r] /\ stored' = stored
    BY <1>10 DEF WriteSentinel
  <2>3. \A b \in Brains : b # Brain[r] => reported'[b] = reported[b] /\ sentinel'[b] = sentinel[b]
    BY <1>10 DEF WriteSentinel
  <2>4. \A b \in Brains : sentinel'[b] => 1 .. Sections[b] \subseteq stored'[b] \cup reported'[b]
    BY <2>1, <2>2, <2>3 DEF Progress
  <2>5. \A q \in Imports : q # r => next'[q] = next[q] /\ unread'[q] = unread[q] /\ step'[q] = step[q]
    BY <1>10 DEF WriteSentinel, ForgetSections
  <2>6. next'[r] = 1 /\ step'[r] = "validate"
    BY <1>10 DEF WriteSentinel, ForgetSections
  <2>7. 1 .. 1 - 1 = {}
    OBVIOUS
  <2> QED BY <2>2, <2>4, <2>5, <2>6, <2>7 DEF Progress
<1>11. ASSUME NEW r \in Imports, ReadStopped(r) \/ StopRow(r) \/ Activate(r)
       PROVE  Progress'
  BY <1>2, <1>4, <1>11 DEF ReadStopped, StopRow, Activate, GoOn, tables, memory
<1>12. ASSUME NEW r \in Imports, StartValidation(r) \/ Check(r)
       PROVE  Progress'
  BY <1>2, <1>12 DEF StartValidation, Check, Transition, GoOn, memory
<1>13. ASSUME NEW r \in Imports, Catch(r)
       PROVE  Progress'
  <2>1. CASE state[Brain[r]] \in Unfinished
    BY <1>2, <1>13, <2>1 DEF Catch, tables
  <2>2. CASE state[Brain[r]] \notin Unfinished
    BY <1>4, <1>13, <2>2 DEF Catch, Failed, tables
  <2> QED BY <2>1, <2>2
<1>14. ASSUME NEW r \in Imports, MarkFailed(r) \/ DieImporting(r)
       PROVE  Progress'
  BY <1>4, <1>14 DEF MarkFailed, DieImporting, Failed, tables
<1>15. ASSUME NEW r \in Imports, Throw(r)
       PROVE  Progress'
  BY <1>3, <1>15 DEF Throw, tables
<1>16. CASE UNCHANGED importVars \/ ImportsOver
  BY <1>2, <1>16 DEF importVars, tables, memory, ImportsOver
<1> QED BY <1>5, <1>6, <1>7, <1>8, <1>9, <1>10, <1>11, <1>12, <1>13, <1>14, <1>15, <1>16 DEF ImportNext, ImportStep

\* Every brain that is validated, ready or active has all of its sections but those
\* that its sentinel counts as skipped.
THEOREM FinishedIsWhole == ImportSpec => []ReadyIsWhole
<1>1. ImportInit => Sentinels /\ Progress
  BY DEF ImportInit, Sentinels, Progress, States
<1>2. Sentinels /\ Progress => ReadyIsWhole
  BY DEF Sentinels, Progress, ReadyIsWhole
<1> QED BY <1>1, <1>2, SentinelsStep, ProgressStep, ImportTyping, PTL DEF ImportSpec

(***************************************************************************)
(* Recovery.  An import that runs alone meets the row in the state its own *)
(* step expects, because nobody else moves it, and because what it adopts  *)
(* from the past is consistent: a row from VALIDATING on has its sentinel, *)
(* so that an import without one is never sent to store sections on it.    *)
(***************************************************************************)
OnCourse(r) ==
    /\ step[r] \in {"lookup", "create", "adopt"} => complete[r] = sentinel[Brain[r]]
    /\ step[r] = "adopt" => saw[r] = state[Brain[r]] /\ saw[r] # NoBrain
    /\ step[r] \in {"section", "stopping", "stopRow", "sentinel", "validate"} =>
           state[Brain[r]] = "IMPORTING"
    /\ step[r] = "check" => state[Brain[r]] = "VALIDATING"
    /\ step[r] = "activate" => state[Brain[r]] = "READY"
    /\ step[r] \in {"catch", "mark", "failed"} => Brain[r] \in Invalid

Unmet ==
    \A r \in alone : OnCourse(r) /\ (Running(r) => \A q \in Imports : Running(q) => q = r)

\* A step of an import under way, other than its first.
Carries(r) == ImportStep(r) \/ Stop(r) \/ Throw(r) \/ DieImporting(r)

\* It moves no other import, and starts none.
LEMMA OwnCourse ==
    ASSUME ImportTypeOK, NEW r \in Imports, Carries(r)
    PROVE  /\ Running(r)
           /\ \A q \in Imports : q # r => step'[q] = step[q]
           /\ alone' \subseteq alone
<1> USE DEF ImportTypeOK
<1>1. ASSUME NEW s, EndImport(r, s)
      PROVE  (\A q \in Imports : q # r => step'[q] = step[q]) /\ alone' \subseteq alone
  BY <1>1 DEF EndImport
<1>2. ASSUME NEW s, GoOn(r, s)
      PROVE  (\A q \in Imports : q # r => step'[q] = step[q]) /\ alone' \subseteq alone
  BY <1>2 DEF GoOn
<1>3. CASE Lookup(r) \/ StoreSection(r) \/ SkipSection(r) \/ WriteSentinel(r) \/ Throw(r)
  BY <1>3 DEF Lookup, StoreSection, SkipSection, WriteSentinel, Throw, Running
<1>4. CASE Create(r) \/ Stop(r) \/ AllStored(r) \/ StartValidation(r) \/ Check(r) \/ Resume(r)
  BY <1>2, <1>4 DEF Create, Stop, AllStored, StartValidation, Check, Resume, Transition, Running
<1>5. CASE Continue(r)
  <2>1. Running(r)
    BY <1>5 DEF Continue, Running
  <2>2. (\E s : GoOn(r, s)) \/ EndImport(r, "over")
    BY <1>5, Zenon DEF Continue
  <2> QED BY <1>1, <1>2, <2>1, <2>2
<1>6. CASE ReadStopped(r) \/ StopRow(r) \/ Activate(r)
  BY <1>1, <1>2, <1>6 DEF ReadStopped, StopRow, Activate, Running
<1>7. CASE Catch(r)
  BY <1>1, <1>7 DEF Catch, Running
<1>8. CASE MarkFailed(r) \/ DieImporting(r)
  BY <1>1, <1>8 DEF MarkFailed, DieImporting, Running
<1> QED BY <1>3, <1>4, <1>5, <1>6, <1>7, <1>8 DEF Carries, ImportStep

\* An import that meets nobody finds the row as its step expects, and comes to
\* the handler of failures only with a brain that its validation refuses.
LEMMA CourseKept ==
    ASSUME ImportTypeOK, ImportTypeOK', Sentinels, NEW r \in Imports, Carries(r), r \in alone', OnCourse(r)
    PROVE  OnCourse(r)'
<1> USE DEF ImportTypeOK
<1>0. Brain[r] \in Brains
  OBVIOUS
<1>1. CASE Lookup(r)
  BY <1>0, <1>1 DEF Lookup, tables, OnCourse
<1>2. CASE Create(r)
  BY <1>2 DEF Create, GoOn, memory, OnCourse
<1>3. CASE Resume(r)
  <2>1. Generic(saw[r], "IMPORTING") /\ Expected(Brain[r], saw[r])
    BY <1>3 DEF Resume, Resumable, Generic, Transitions, Expected, OnCourse
  <2>2. state'[Brain[r]] = "IMPORTING" /\ step'[r] \in {"validate", "section"}
    BY <1>0, <1>3, <2>1 DEF Resume, Transition, GoOn
  <2> QED BY <2>2 DEF OnCourse
<1>4. CASE Continue(r)
  <2>1. saw[r] = state[Brain[r]] /\ saw[r] \in States /\ complete[r] = sentinel[Brain[r]]
    BY <1>4 DEF Continue, OnCourse
  <2>2. saw[r] \in {"IMPORTING", "VALIDATING", "READY", "ACTIVE"}
    BY <1>4, <2>1 DEF Continue, Resumable, States
  <2>3. saw[r] # "IMPORTING" => complete[r]
    BY <1>0, <2>1, <2>2 DEF Sentinels
  <2>4. CASE ~complete[r]
    <3>1. GoOn(r, "section")
      BY <1>4, <2>4, Zenon DEF Continue
    <3>2. state'[Brain[r]] = "IMPORTING" /\ step'[r] = "section"
      BY <1>4, <2>1, <2>2, <2>3, <2>4, <3>1 DEF Continue, GoOn, tables
    <3> QED BY <3>2 DEF OnCourse
  <2>5. CASE complete[r] /\ saw[r] = "IMPORTING"
    <3>1. GoOn(r, "validate")
      BY <1>4, <2>5 DEF Continue
    <3> QED BY <1>4, <2>1, <2>5, <3>1 DEF Continue, GoOn, tables, OnCourse
  <2>6. CASE complete[r] /\ saw[r] = "VALIDATING"
    <3>1. GoOn(r, "check")
      BY <1>4, <2>6 DEF Continue
    <3> QED BY <1>4, <2>1, <2>6, <3>1 DEF Continue, GoOn, tables, OnCourse
  <2>7. CASE complete[r] /\ saw[r] = "READY"
    <3>1. GoOn(r, "activate")
      BY <1>4, <2>7 DEF Continue
    <3> QED BY <1>4, <2>1, <2>7, <3>1 DEF Continue, GoOn, tables, OnCourse
  <2>8. CASE complete[r] /\ saw[r] = "ACTIVE"
    BY <1>4, <2>8 DEF Continue, EndImport, OnCourse
  <2> QED BY <2>2, <2>4, <2>5, <2>6, <2>7, <2>8
<1>5. CASE StoreSection(r) \/ SkipSection(r) \/ Stop(r) \/ AllStored(r) \/ WriteSentinel(r)
  BY <1>5 DEF StoreSection, SkipSection, Stop, AllStored, WriteSentinel, GoOn, tables, memory, OnCourse
<1>6. CASE ReadStopped(r) \/ StopRow(r)
  BY <1>6 DEF ReadStopped, StopRow, Expected, EndImport, GoOn, tables, memory, OnCourse
<1>7. CASE StartValidation(r)
  <2>1. Generic("IMPORTING", "VALIDATING") /\ Expected(Brain[r], "IMPORTING")
    BY <1>7 DEF StartValidation, Generic, Transitions, Expected, OnCourse
  <2> QED BY <1>0, <1>7, <2>1 DEF StartValidation, Transition, GoOn, OnCourse
<1>8. CASE Check(r)
  <2>1. Generic("VALIDATING", "READY") /\ Generic("VALIDATING", "FAILED") /\ Expected(Brain[r], "VALIDATING")
    BY <1>8 DEF Check, Generic, Transitions, Expected, OnCourse
  <2> QED BY <1>0, <1>8, <2>1 DEF Check, Transition, GoOn, OnCourse
<1>9. CASE Activate(r)
  BY <1>9 DEF Activate, EndImport, OnCourse
<1>10. CASE Throw(r)
  BY <1>10 DEF Throw
<1>11. CASE Catch(r) \/ MarkFailed(r) \/ DieImporting(r)
  BY <1>11 DEF Catch, MarkFailed, DieImporting, EndImport, Failed, OnCourse
<1> QED
  BY <1>1, <1>2, <1>3, <1>4, <1>5, <1>6, <1>7, <1>8, <1>9, <1>10, <1>11 DEF Carries, ImportStep

\* An import that starts while another one runs, or that runs while another one
\* starts, is no longer alone; the failures on record stay what they were.
LEMMA UnmetStep ==
    ASSUME ImportTypeOK, ImportTypeOK', Sentinels, Unmet, [ImportNext]_importVars
    PROVE  Unmet'
<1> USE DEF ImportTypeOK
<1>1. ASSUME NEW q \in alone, step'[q] = step[q], ~Running(q)
      PROVE  OnCourse(q)' /\ ~Running(q)'
  BY <1>1 DEF Unmet, OnCourse, Running
<1>2. ASSUME NEW r \in Imports, Begin(r)
      PROVE  Unmet'
  <2>1. CASE \E q \in Imports : Running(q)
    BY <1>2, <2>1 DEF Begin, Unmet
  <2>2. CASE \A q \in Imports : ~Running(q)
    <3>1. alone' = {r} \cup alone /\ UNCHANGED sentinel
      BY <1>2, <2>2 DEF Begin, tables
    <3>2. \A q \in Imports : q # r => step'[q] = step[q] /\ ~Running(q)'
      BY <1>2, <2>2 DEF Begin, Running
    <3>3. OnCourse(r)'
      BY <1>2, <3>1 DEF Begin, OnCourse
    <3>4. \A q \in alone : q # r => OnCourse(q)' /\ ~Running(q)'
      BY <1>1, <2>2, <3>2
    <3> QED BY <3>1, <3>2, <3>3, <3>4 DEF Unmet
  <2> QED BY <2>1, <2>2
<1>3. ASSUME NEW r \in Imports, Carries(r)
      PROVE  Unmet'
  <2>1. Running(r) /\ (\A q \in Imports : q # r => step'[q] = step[q]) /\ alone' \subseteq alone
    BY <1>3, OwnCourse
  <2>2. \A q \in alone : q # r => ~Running(q)
    BY <2>1 DEF Unmet
  <2>3. \A q \in alone' : q # r => OnCourse(q)' /\ ~Running(q)'
    BY <1>1, <2>1, <2>2
  <2>4. ASSUME r \in alone'
        PROVE  OnCourse(r)' /\ \A q \in Imports : Running(q)' => q = r
    <3>1. OnCourse(r) /\ \A q \in Imports : Running(q) => q = r
      BY <2>1, <2>4 DEF Unmet
    <3>2. OnCourse(r)'
      BY <1>3, <2>4, <3>1, CourseKept
    <3> QED BY <2>1, <3>1, <3>2 DEF Running
  <2> QED BY <2>3, <2>4 DEF Unmet
<1>4. CASE UNCHANGED importVars \/ ImportsOver
  BY <1>4 DEF importVars, tables, memory, ImportsOver, Unmet, OnCourse, Running
<1> QED BY <1>2, <1>3, <1>4 DEF ImportNext, Carries

\* Whatever earlier imports left behind, wherever they died, an import that
\* meets no other one and no failure ends in the handler only if its brain does
\* not pass the validation.
THEOREM RetriesSucceed == ImportSpec => []RetrySucceeds
<1>1. ImportInit => Sentinels /\ Unmet
  BY DEF ImportInit, Sentinels, Unmet, States
<1>2. Unmet => RetrySucceeds
  BY DEF Unmet, OnCourse, RetrySucceeds
<1> QED BY <1>1, <1>2, SentinelsStep, UnmetStep, ImportTyping, PTL DEF ImportSpec


(***************************************************************************)
(* What is proved about LearningReview, for every set of sources, spans    *)
(* and reviews.  Three things have to hold of a review under way for the   *)
(* properties to be inductive: its source was ingested, so none of its     *)
(* spans is absent (Ingested); what it has still to promote was confirmed  *)
(* (Warranted) and is all there is, or as much as its query returns        *)
(* (Promoting); and no one else decides on its source unnoticed            *)
(* (Reserved).                                                             *)
(***************************************************************************)

USE NoSourceAssumption

\* The sources of which spans may be promoted.
Licensed == confirmed \cup {s \in Sources : "automatic" \in Authorities /\ s \in admitted}

\* Every variable keeps its type, whoever ingests and reviews.
THEOREM ReviewTyping == ReviewSpec => []ReviewTypeOK
<1>1. ReviewInit => ReviewTypeOK
  BY DEF ReviewInit, ReviewTypeOK, Verdicts, Statuses
<1>2. ASSUME ReviewTypeOK, [ReviewNext]_reviewVars
      PROVE  ReviewTypeOK'
  <2> USE <1>2 DEF ReviewTypeOK, Verdicts, Statuses
  <2>1. ASSUME NEW s \in Sources, NEW authority \in Authorities, NEW trusted \in BOOLEAN,
               Ingest(s, authority, trusted)
        PROVE  ReviewTypeOK'
    <3>1. Admission(s, authority, trusted) \in Verdicts \cup {"pending"}
      BY DEF Admission
    <3>2. quarantine' \in [Sources -> Verdicts \cup {"pending", NoSource}]
      BY <2>1, <3>1 DEF Ingest, PutRow
    <3>3. DOMAIN evidence' = Sources
      BY <2>1 DEF Ingest
    <3>4. ASSUME NEW z \in Sources
          PROVE  evidence'[z] \in [Spans[z] -> Statuses]
      <4>1. evidence[z] \in [Spans[z] -> Statuses]
        OBVIOUS
      <4>2. \A st \in {"promoted", "quarantined"} :
                [p \in Spans[s] |-> PutSpan(evidence[s][p], st)] \in [Spans[s] -> Statuses]
        BY DEF PutSpan
      <4> QED BY <4>1, <4>2, <2>1 DEF Ingest
    <3>5. confirmed' \subseteq Sources /\ admitted' \subseteq Sources /\ contested' \subseteq Sources
      BY <2>1 DEF Ingest
    <3> QED BY <2>1, <3>2, <3>3, <3>4, <3>5 DEF Ingest
  <2>2. ASSUME NEW r \in Reviews, Get(r)
        PROVE  ReviewTypeOK'
    BY <2>2 DEF Get
  <2>3. ASSUME NEW r \in Reviews, Mark(r)
        PROVE  ReviewTypeOK'
    BY <2>3 DEF Mark
  <2>4. ASSUME NEW r \in Reviews, Search(r)
        PROVE  ReviewTypeOK'
    <3>1. item[r] \in Sources
      BY <2>4 DEF Search
    <3>2. \A q \in Reviews : found'[q] # {} => item[q] # NoSource /\ found'[q] \subseteq Spans[item[q]]
      BY <2>4, <3>1 DEF Search, SpansIn
    <3> QED BY <2>4, <3>1, <3>2 DEF Search
  <2>5. ASSUME NEW r \in Reviews, PromoteSpans(r)
        PROVE  ReviewTypeOK'
    <3>1. \A z \in Sources : evidence'[z] \in [Spans[z] -> Statuses]
      BY <2>5 DEF PromoteSpans
    <3> QED BY <2>5, <3>1 DEF PromoteSpans
  <2>6. ASSUME NEW r \in Reviews, Fail(r)
        PROVE  ReviewTypeOK'
    BY <2>6 DEF Fail, Open
  <2>7. CASE UNCHANGED reviewVars
    BY <2>7 DEF reviewVars
  <2> QED BY <2>1, <2>2, <2>3, <2>4, <2>5, <2>6, <2>7 DEF ReviewNext
<1> QED BY <1>1, <1>2, PTL DEF ReviewSpec

(***************************************************************************)
(* Promoted spans.                                                         *)
(***************************************************************************)
\* What a review has still to promote was confirmed by it.
Warranted ==
    \A r \in Reviews :
        stage[r] \in {"search", "promote"} /\ verdict[r] = "promoted" => item[r] \in confirmed

\* A review that is to promote is one that was told to.
Told == \A r \in Reviews : stage[r] = "promote" => verdict[r] = "promoted"

\* What one step does to the spans: it keeps the promoted ones, and what it adds
\* to them belongs to a source the owner confirmed, or that was admitted as fetched.
LEMMA SpanStep ==
    ASSUME ReviewTypeOK, Told, Warranted, [ReviewNext]_reviewVars, NEW z \in Sources, NEW p \in Spans[z]
    PROVE  /\ evidence[z][p] = "promoted" => evidence'[z][p] = "promoted"
           /\ evidence'[z][p] = "promoted" => evidence[z][p] = "promoted" \/ z \in Licensed'
           /\ evidence[z][p] # "absent" => evidence'[z][p] # "absent"
           /\ Licensed \subseteq Licensed'
<1> USE DEF ReviewTypeOK
<1>1. ASSUME NEW s \in Sources, NEW authority \in Authorities, NEW trusted \in BOOLEAN,
             Ingest(s, authority, trusted)
      PROVE  /\ evidence[z][p] = "promoted" => evidence'[z][p] = "promoted"
             /\ evidence'[z][p] = "promoted" => evidence[z][p] = "promoted" \/ z \in Licensed'
             /\ evidence[z][p] # "absent" => evidence'[z][p] # "absent"
  <2>1. CASE Admission(s, authority, trusted) = "rejected"
    BY <1>1, <2>1 DEF Ingest
  <2>2. CASE Admission(s, authority, trusted) = "promoted"
    <3>1. authority \in {"owner", "automatic"} /\ authority \in Authorities
      BY <2>2 DEF Admission, Authorizes
    <3>2. s \in Licensed'
      BY <1>1, <2>2, <3>1 DEF Ingest, Licensed
    <3>3. CASE z = s
      BY <1>1, <2>2, <3>2, <3>3 DEF Ingest, PutSpan
    <3>4. CASE z # s
      BY <1>1, <2>2, <3>4 DEF Ingest
    <3> QED BY <3>3, <3>4
  <2>3. CASE Admission(s, authority, trusted) \notin {"rejected", "promoted"}
    BY <1>1, <2>3 DEF Ingest, PutSpan
  <2> QED BY <2>1, <2>2, <2>3
<1>2. ASSUME NEW r \in Reviews, PromoteSpans(r)
      PROVE  /\ evidence[z][p] = "promoted" => evidence'[z][p] = "promoted"
             /\ evidence'[z][p] = "promoted" => evidence[z][p] = "promoted" \/ z \in Licensed'
             /\ evidence[z][p] # "absent" => evidence'[z][p] # "absent"
  <2>1. item[r] \in confirmed /\ confirmed' = confirmed
    BY <1>2 DEF PromoteSpans, Told, Warranted
  <2>2. CASE z = item[r]
    BY <1>2, <2>1, <2>2 DEF PromoteSpans, Licensed
  <2>3. CASE z # item[r]
    BY <1>2, <2>3 DEF PromoteSpans
  <2> QED BY <2>2, <2>3
<1>3. Licensed \subseteq Licensed'
  <2>1. ASSUME NEW s \in Sources, NEW authority \in Authorities, NEW trusted \in BOOLEAN,
               Ingest(s, authority, trusted)
        PROVE  Licensed \subseteq Licensed'
    BY <2>1 DEF Ingest, Licensed
  <2>2. ASSUME NEW r \in Reviews, Get(r) \/ Mark(r) \/ Search(r) \/ PromoteSpans(r) \/ Fail(r)
        PROVE  Licensed \subseteq Licensed'
    BY <2>2 DEF Get, Mark, Search, PromoteSpans, Fail, Licensed
  <2> QED BY <2>1, <2>2 DEF ReviewNext, reviewVars, Licensed
<1>4. CASE UNCHANGED evidence
  BY <1>3, <1>4
<1>5. \/ \E s \in Sources, authority \in Authorities, trusted \in BOOLEAN : Ingest(s, authority, trusted)
      \/ \E r \in Reviews : PromoteSpans(r)
      \/ UNCHANGED evidence
  BY DEF ReviewNext, Get, Mark, Search, Fail, reviewVars
<1> QED BY <1>1, <1>2, <1>3, <1>4, <1>5

\* What reviews under way are about to promote is warranted.
LEMMA Warrant == ReviewSpec => [](ReviewTypeOK /\ Told /\ Warranted)
<1>1. ReviewInit => Told /\ Warranted
  BY DEF ReviewInit, Told, Warranted
<1>2. ASSUME ReviewTypeOK, ReviewTypeOK', Told, Warranted, [ReviewNext]_reviewVars
      PROVE  Told' /\ Warranted'
  <2> USE <1>2 DEF ReviewTypeOK, Told, Warranted
  <2>1. ASSUME NEW s \in Sources, NEW authority \in Authorities, NEW trusted \in BOOLEAN,
               Ingest(s, authority, trusted)
        PROVE  Told' /\ Warranted'
    BY <2>1 DEF Ingest
  <2>2. ASSUME NEW r \in Reviews, Get(r)
        PROVE  Told' /\ Warranted'
    BY <2>2 DEF Get
  <2>3. ASSUME NEW r \in Reviews, Mark(r)
        PROVE  Told' /\ Warranted'
    BY <2>3 DEF Mark
  <2>4. ASSUME NEW r \in Reviews, Search(r)
        PROVE  Told' /\ Warranted'
    BY <2>4 DEF Search, Learns
  <2>5. ASSUME NEW r \in Reviews, PromoteSpans(r)
        PROVE  Told' /\ Warranted'
    BY <2>5 DEF PromoteSpans
  <2>6. ASSUME NEW r \in Reviews, Fail(r)
        PROVE  Told' /\ Warranted'
    BY <2>6 DEF Fail
  <2>7. CASE UNCHANGED reviewVars
    BY <2>7 DEF reviewVars
  <2> QED BY <2>1, <2>2, <2>3, <2>4, <2>5, <2>6, <2>7 DEF ReviewNext
<1> QED BY <1>1, <1>2, ReviewTyping, PTL DEF ReviewSpec

\* Nothing is learned that the owner did not confirm or feed himself, but what a
\* deployment that admits pages as they are fetched admitted so.
THEOREM OnlyConfirmedIsLearned == ReviewSpec => []LearnedWasConfirmed
<1>1. ReviewInit => LearnedWasConfirmed
  BY DEF ReviewInit, LearnedWasConfirmed, SpansIn
<1>2. ASSUME ReviewTypeOK, Told, Warranted, LearnedWasConfirmed, [ReviewNext]_reviewVars
      PROVE  LearnedWasConfirmed'
  <2> SUFFICES ASSUME NEW z \in Sources, NEW p \in Spans[z], evidence'[z][p] = "promoted"
               PROVE  z \in Licensed'
    BY DEF LearnedWasConfirmed, SpansIn, Licensed
  <2>1. evidence[z][p] = "promoted" \/ z \in Licensed'
    BY <1>2, SpanStep
  <2>2. evidence[z][p] = "promoted" => z \in Licensed
    BY <1>2 DEF LearnedWasConfirmed, SpansIn, Licensed
  <2>3. Licensed \subseteq Licensed'
    BY <1>2, SpanStep
  <2> QED BY <2>1, <2>2, <2>3
<1> QED BY <1>1, <1>2, Warrant, PTL DEF ReviewSpec

\* No later fetch, feed or review of a source takes a promoted span back.
THEOREM ConfirmationIsPermanent == ReviewSpec => ConfirmedStaysConfirmed
<1>1. ASSUME ReviewTypeOK, Told, Warranted, [ReviewNext]_reviewVars
      PROVE  [\A s \in Sources : SpansIn(s, "promoted") \subseteq SpansIn(s, "promoted")']_reviewVars
  BY <1>1, SpanStep DEF SpansIn
<1> QED BY <1>1, Warrant, PTL DEF ReviewSpec, ConfirmedStaysConfirmed

(***************************************************************************)
(* Nothing is left out.                                                    *)
(***************************************************************************)
\* A source that waits for a decision, or was given to a review, was ingested.
Ingested ==
    /\ \A s \in Sources : quarantine[s] = "pending" => \A p \in Spans[s] : evidence[s][p] # "absent"
    /\ \A r \in Reviews :
           stage[r] # "idle" => \A p \in Spans[item[r]] : evidence[item[r]][p] # "absent"

\* A review that found the spans to promote found all that are not promoted, or as
\* many as its query returns.
Promoting ==
    \A r \in Reviews :
        stage[r] = "promote" =>
            \/ \A p \in Spans[item[r]] : p \in found[r] \/ evidence[item[r]][p] = "promoted"
            \/ Cardinality(found[r]) = Limit

\* Every source under review was ingested, and a review promotes all of it, or as
\* much as its query returned.
LEMMA NothingForgotten == ReviewSpec => []((ReviewTypeOK /\ Told /\ Warranted) /\ (Ingested /\ Promoting))
<1>1. ReviewInit => Ingested /\ Promoting
  BY DEF ReviewInit, Ingested, Promoting
<1>2. ASSUME ReviewTypeOK, ReviewTypeOK', Told, Warranted, Ingested, Promoting, [ReviewNext]_reviewVars
      PROVE  Ingested' /\ Promoting'
  <2> USE <1>2
  <2>1. ASSUME NEW z \in Sources, NEW p \in Spans[z]
        PROVE  /\ evidence[z][p] = "promoted" => evidence'[z][p] = "promoted"
               /\ evidence[z][p] # "absent" => evidence'[z][p] # "absent"
    BY SpanStep
  <2>2. ASSUME NEW s \in Sources, NEW authority \in Authorities, NEW trusted \in BOOLEAN,
               Ingest(s, authority, trusted)
        PROVE  Ingested' /\ Promoting'
    <3>1. ASSUME NEW z \in Sources, quarantine'[z] = "pending", NEW p \in Spans[z]
          PROVE  evidence'[z][p] # "absent"
      <4>1. CASE z = s
        <5>1. Admission(s, authority, trusted) = "rejected" => quarantine'[s] # "pending" \/ quarantine[s] = "pending"
          BY <2>2 DEF Ingest, PutRow, Verdicts, ReviewTypeOK
        <5>2. Admission(s, authority, trusted) # "rejected" => evidence'[s][p] # "absent"
          BY <2>2, <4>1 DEF Ingest, PutSpan, ReviewTypeOK
        <5> QED BY <2>1, <3>1, <4>1, <5>1, <5>2 DEF Ingested
      <4>2. CASE z # s
        BY <2>1, <2>2, <3>1, <4>2 DEF Ingest, Ingested, ReviewTypeOK
      <4> QED BY <4>1, <4>2
    <3>2. \A r \in Reviews : stage[r] # "idle" => item[r] \in Sources
      BY DEF ReviewTypeOK
    <3>3. UNCHANGED <<stage, item, found>>
      BY <2>2 DEF Ingest
    <3>4. Promoting'
      BY <2>1, <3>2, <3>3 DEF Promoting
    <3>5. \A r \in Reviews :
              stage'[r] # "idle" => \A p \in Spans[item'[r]] : evidence'[item'[r]][p] # "absent"
      BY <2>1, <3>2, <3>3 DEF Ingested
    <3> QED BY <3>1, <3>4, <3>5 DEF Ingested
  <2>3. ASSUME NEW r \in Reviews, Get(r)
        PROVE  Ingested' /\ Promoting'
    <3>1. UNCHANGED <<quarantine, evidence, found>>
      BY <2>3 DEF Get
    <3>2. quarantine[item'[r]] = "pending" /\ item'[r] \in Sources /\ stage'[r] = "mark"
      BY <2>3 DEF Get, ReviewTypeOK
    <3>3. \A q \in Reviews : q # r => item'[q] = item[q] /\ stage'[q] = stage[q]
      BY <2>3 DEF Get, ReviewTypeOK
    <3> QED BY <3>1, <3>2, <3>3 DEF Ingested, Promoting
  <2>4. ASSUME NEW r \in Reviews, Mark(r)
        PROVE  Ingested' /\ Promoting'
    <3>1. \A z \in Sources : quarantine'[z] = "pending" => quarantine[z] = "pending"
      BY <2>4 DEF Mark, ReviewTypeOK, Verdicts
    <3> QED BY <2>4, <3>1 DEF Mark, Ingested, Promoting, ReviewTypeOK
  <2>5. ASSUME NEW r \in Reviews, Search(r)
        PROVE  Ingested' /\ Promoting'
    <3>1. CASE ~Learns(r)
      BY <2>5, <3>1 DEF Search, Ingested, Promoting, ReviewTypeOK
    <3>2. CASE Learns(r)
      <4>1. item[r] \in Sources
        BY <2>5 DEF Search, ReviewTypeOK
      <4>2. found'[r] = SpansIn(item[r], "quarantined") \/ Cardinality(found'[r]) = Limit
        BY <2>5, <3>2 DEF Search, Enough, ReviewTypeOK
      <4>3. \/ \A p \in Spans[item[r]] : p \in found'[r] \/ evidence[item[r]][p] = "promoted"
            \/ Cardinality(found'[r]) = Limit
        BY <2>5, <4>1, <4>2 DEF Search, Ingested, SpansIn, ReviewTypeOK, Statuses
      <4>4. \A q \in Reviews : q # r => found'[q] = found[q] /\ stage'[q] = stage[q]
        BY <2>5, <3>2 DEF Search, ReviewTypeOK
      <4> QED BY <2>5, <4>3, <4>4 DEF Search, Ingested, Promoting
    <3> QED BY <3>1, <3>2
  <2>6. ASSUME NEW r \in Reviews, PromoteSpans(r)
        PROVE  Ingested' /\ Promoting'
    <3>1. \A q \in Reviews : stage[q] # "idle" => item[q] \in Sources
      BY DEF ReviewTypeOK
    <3>2. UNCHANGED <<quarantine, item, found>> /\ stage' = [stage EXCEPT ![r] = "done"]
      BY <2>6 DEF PromoteSpans
    <3>3. stage[r] = "promote"
      BY <2>6 DEF PromoteSpans
    <3>4. Ingested'
      BY <2>1, <3>1, <3>2, <3>3 DEF Ingested, ReviewTypeOK
    <3>5. Promoting'
      BY <2>1, <3>1, <3>2 DEF Promoting, ReviewTypeOK
    <3> QED BY <3>4, <3>5
  <2>7. ASSUME NEW r \in Reviews, Fail(r)
        PROVE  Ingested' /\ Promoting'
    BY <2>7 DEF Fail, Open, Ingested, Promoting, ReviewTypeOK
  <2>8. CASE UNCHANGED reviewVars
    BY <2>8 DEF reviewVars, Ingested, Promoting
  <2> QED BY <2>2, <2>3, <2>4, <2>5, <2>6, <2>7, <2>8 DEF ReviewNext
<1> QED BY <1>1, <1>2, Warrant, PTL DEF ReviewSpec

\* A review that returned "promoted" promoted what it found, and left no span of its
\* source behind, unless it found as many as its query returns at most.
THEOREM ReviewIsComplete == ReviewSpec => []ConfirmedIsLearned
<1> DEFINE Inv == (ReviewTypeOK /\ Told /\ Warranted) /\ (Ingested /\ Promoting)
           Learned(r) ==
               /\ \A p \in found[r] : evidence[item[r]][p] = "promoted"
               /\ \/ \A p \in Spans[item[r]] : evidence[item[r]][p] = "promoted"
                  \/ Cardinality(found[r]) = Limit
           All == \A r \in Reviews : stage[r] = "done" /\ verdict[r] = "promoted" => Learned(r)
<1>1. ReviewInit => All
  BY DEF ReviewInit
<1>2. ASSUME Inv, All, [ReviewNext]_reviewVars
      PROVE  All'
  <2>1. ASSUME NEW z \in Sources, NEW p \in Spans[z], evidence[z][p] = "promoted"
        PROVE  evidence'[z][p] = "promoted"
    BY <1>2, <2>1, SpanStep
  <2>2. \A q \in Reviews : stage[q] # "idle" => item[q] \in Sources
    BY <1>2 DEF ReviewTypeOK
  <2>3. ASSUME UNCHANGED <<stage, item, verdict, found>>
        PROVE  All'
    BY <1>2, <2>1, <2>2, <2>3 DEF ReviewTypeOK
  <2>4. ASSUME NEW r \in Reviews, Get(r) \/ Mark(r) \/ Fail(r)
        PROVE  All'
    BY <1>2, <2>4 DEF Get, Mark, Fail, ReviewTypeOK
  <2>5. ASSUME NEW r \in Reviews, Search(r)
        PROVE  All'
    BY <1>2, <2>5 DEF Search, Learns, ReviewTypeOK
  <2>6. ASSUME NEW r \in Reviews, PromoteSpans(r)
        PROVE  All'
    <3>1. UNCHANGED <<item, verdict, found>> /\ stage' = [stage EXCEPT ![r] = "done"]
      BY <2>6 DEF PromoteSpans
    <3>2. \A q \in Reviews \ {r} : stage'[q] = stage[q]
      BY <3>1, <1>2 DEF ReviewTypeOK
    <3>3. item[r] \in Sources /\ stage[r] = "promote"
      BY <2>2, <2>6 DEF PromoteSpans
    <3>4. evidence'[item[r]] = [p \in Spans[item[r]] |->
                                   IF p \in found[r] THEN "promoted" ELSE evidence[item[r]][p]]
      BY <1>2, <2>6, <3>3 DEF PromoteSpans, ReviewTypeOK
    <3>5. \A p \in Spans[item[r]] : p \in found[r] => evidence'[item[r]][p] = "promoted"
      BY <3>4
    <3>6. found[r] \subseteq Spans[item[r]]
      BY <1>2 DEF ReviewTypeOK
    <3>7. \/ \A p \in Spans[item[r]] : evidence'[item[r]][p] = "promoted"
          \/ Cardinality(found[r]) = Limit
      BY <1>2, <3>3, <3>4 DEF Promoting
    <3>8. Learned(r)'
      BY <3>1, <3>5, <3>6, <3>7
    <3>9. ASSUME NEW q \in Reviews, q # r, stage'[q] = "done" /\ verdict'[q] = "promoted"
          PROVE  Learned(q)'
      <4>1. item[q] \in Sources /\ found[q] \subseteq Spans[item[q]] /\ Learned(q)
        BY <1>2, <2>2, <3>1, <3>2, <3>9 DEF ReviewTypeOK
      <4> QED BY <2>1, <3>1, <4>1
    <3> QED BY <3>8, <3>9
  <2> QED BY <1>2, <2>3, <2>4, <2>5, <2>6 DEF ReviewNext, Ingest, reviewVars
<1>3. ReviewTypeOK /\ All => ConfirmedIsLearned
  BY DEF ConfirmedIsLearned, SpansIn, ReviewTypeOK
<1> QED BY <1>1, <1>2, <1>3, NothingForgotten, PTL DEF ReviewSpec

(***************************************************************************)
(* Decisions.                                                              *)
(***************************************************************************)
\* Two reviews of one source, or a decision made elsewhere, are on record, and
\* otherwise a review that is to write its decision finds none.
Reserved ==
    /\ \A r, q \in Reviews : r # q /\ Open(r) /\ Open(q) /\ item[r] = item[q] => item[r] \in contested
    /\ \A r \in Reviews : stage[r] = "mark" => quarantine[item[r]] = "pending" \/ item[r] \in contested

\* Whoever overlaps with a review is noticed.
LEMMA Reservation == ReviewSpec => [](ReviewTypeOK /\ Reserved)
<1>1. ReviewInit => Reserved
  BY DEF ReviewInit, Reserved, Open
<1>2. ASSUME ReviewTypeOK, ReviewTypeOK', Reserved, [ReviewNext]_reviewVars
      PROVE  Reserved'
  <2> USE <1>2 DEF ReviewTypeOK, Reserved, Open
  <2>1. ASSUME NEW s \in Sources, NEW authority \in Authorities, NEW trusted \in BOOLEAN,
               Ingest(s, authority, trusted)
        PROVE  Reserved'
    <3>1. UNCHANGED <<stage, item>> /\ contested \subseteq contested'
      BY <2>1 DEF Ingest
    <3>2. ASSUME NEW r \in Reviews, stage[r] = "mark", item[r] \notin contested'
          PROVE  quarantine'[item[r]] = "pending"
      <4>1. quarantine[item[r]] = "pending" /\ item[r] \in Sources
        BY <3>1, <3>2
      <4>2. CASE item[r] = s
        <5>1. UnderReview(s)
          BY <3>2, <4>2 DEF UnderReview
        <5>2. Admission(s, authority, trusted) = "pending"
          BY <2>1, <3>2, <4>2, <5>1 DEF Ingest
        <5> QED BY <2>1, <4>1, <4>2, <5>2 DEF Ingest, PutRow
      <4>3. CASE item[r] # s
        BY <2>1, <4>1, <4>3 DEF Ingest
      <4> QED BY <4>2, <4>3
    <3> QED BY <3>1, <3>2
  <2>2. ASSUME NEW r \in Reviews, Get(r)
        PROVE  Reserved'
    <3>1. UNCHANGED quarantine /\ contested \subseteq contested'
      BY <2>2 DEF Get
    <3>2. item'[r] \in Sources /\ quarantine[item'[r]] = "pending" /\ stage'[r] = "mark"
      BY <2>2 DEF Get
    <3>3. \A q \in Reviews : q # r => item'[q] = item[q] /\ stage'[q] = stage[q]
      BY <2>2 DEF Get
    <3>4. ASSUME NEW q \in Reviews, q # r, Open(q), item[q] = item'[r]
          PROVE  item'[r] \in contested'
      BY <2>2, <3>4 DEF Get, UnderReview
    <3>5. ASSUME NEW p \in Reviews, NEW q \in Reviews, p # q, Open(p)', Open(q)', item'[p] = item'[q]
          PROVE  item'[p] \in contested'
      <4>1. CASE p = r
        BY <3>2, <3>3, <3>4, <3>5, <4>1
      <4>2. CASE q = r
        BY <3>2, <3>3, <3>4, <3>5, <4>2
      <4>3. CASE p # r /\ q # r
        BY <3>1, <3>3, <3>5, <4>3
      <4> QED BY <4>1, <4>2, <4>3
    <3>6. ASSUME NEW q \in Reviews, stage'[q] = "mark"
          PROVE  quarantine'[item'[q]] = "pending" \/ item'[q] \in contested'
      BY <3>1, <3>2, <3>3, <3>6
    <3> QED BY <3>5, <3>6
  <2>3. ASSUME NEW r \in Reviews, Mark(r)
        PROVE  Reserved'
    BY <2>3 DEF Mark
  <2>4. ASSUME NEW r \in Reviews, Search(r)
        PROVE  Reserved'
    BY <2>4 DEF Search
  <2>5. ASSUME NEW r \in Reviews, PromoteSpans(r)
        PROVE  Reserved'
    BY <2>5 DEF PromoteSpans
  <2>6. ASSUME NEW r \in Reviews, Fail(r)
        PROVE  Reserved'
    BY <2>6 DEF Fail
  <2>7. CASE UNCHANGED reviewVars
    BY <2>7 DEF reviewVars
  <2> QED BY <2>1, <2>2, <2>3, <2>4, <2>5, <2>6, <2>7 DEF ReviewNext
<1> QED BY <1>1, <1>2, ReviewTyping, PTL DEF ReviewSpec

\* A decision that nobody else had open is never changed.
THEOREM DecisionsAreFinal == ReviewSpec => DecisionStands
<1>1. ASSUME ReviewTypeOK, Reserved, [ReviewNext]_reviewVars
      PROVE  [\A s \in Sources : quarantine[s] \in Verdicts /\ s \notin contested' => quarantine'[s] = quarantine[s]]_reviewVars
  <2> SUFFICES ASSUME NEW s \in Sources, quarantine[s] \in Verdicts, s \notin contested', ReviewNext
               PROVE  quarantine'[s] = quarantine[s]
    BY <1>1 DEF reviewVars
  <2>1. ASSUME NEW z \in Sources, NEW authority \in Authorities, NEW trusted \in BOOLEAN,
               Ingest(z, authority, trusted)
        PROVE  quarantine'[s] = quarantine[s]
    BY <1>1, <2>1 DEF Ingest, PutRow, ReviewTypeOK
  <2>2. ASSUME NEW r \in Reviews, Mark(r)
        PROVE  quarantine'[s] = quarantine[s]
    BY <1>1, <2>2 DEF Mark, Reserved, Verdicts, ReviewTypeOK
  <2>3. ASSUME NEW r \in Reviews, Get(r) \/ Search(r) \/ PromoteSpans(r) \/ Fail(r)
        PROVE  quarantine'[s] = quarantine[s]
    BY <2>3 DEF Get, Search, PromoteSpans, Fail
  <2> QED BY <2>1, <2>2, <2>3 DEF ReviewNext
<1> QED BY <1>1, Reservation, PTL DEF ReviewSpec, DecisionStands

=================================================================================
