-------------------------- MODULE WorkspacePatchProofs --------------------------
(***************************************************************************)
(* What is proved about WorkspacePatch, for any transactions, plans, files *)
(* and number of edits.  Every property rests on what the counters of a    *)
(* transaction say of its operations: each is untouched, made or returned, *)
(* and a made one can be undone from what is on disk.  The steps are first *)
(* sorted into eight kinds by what they do to files and to these phases    *)
(* (Acts); each invariant is then proved against the kinds.                *)
(***************************************************************************)
EXTENDS WorkspacePatch, TLAPS

Operations(t) == 1 .. Len(Plan[t])
PathOf(t, i) == Plan[t][i].path
KindOf(t, i) == Plan[t][i].kind

Record == [pc : Forward \cup Backward \cup {"cleanup"} \cup Ended,
           at : Nat, applied : Nat,
           restored : SUBSET Files, failed : SUBSET Files,
           result : {"none", "aborted", "committed", "rollback_failed"}]

\* How far the transaction t, at r, is: what it works on, how many mutations
\* it has made and what it will answer.
Controlled(t, r) ==
    /\ r.at \in 0 .. Len(Plan[t]) /\ r.applied \in 0 .. Len(Plan[t])
    /\ r.pc \in Forward => r.at # 0 /\ r.result = "none" /\ r.failed = {}
    /\ r.pc \in {"stage", "validate", "recheck"} => r.applied = 0
    /\ r.pc \in {"check", "backup", "confirm", "mutate"} => r.applied = r.at - 1
    /\ r.pc \in {"backup", "confirm"} => KindOf(t, r.at) = "replace"
    /\ r.pc = "verify" => r.applied = Len(Plan[t])
    /\ r.pc \in Backward => r.at \in 1 .. r.applied /\ r.result = "aborted"
    /\ r.result = "none" => r.failed = {}
    /\ r.pc = "cleanup" /\ r.result # "aborted" =>
          r.result = "none" /\ r.applied = Len(Plan[t])
    /\ r.pc = "cleanup" /\ r.result = "aborted" => r.at = 0
    /\ r.pc = "done" => r.result # "none"
    /\ r.pc = "done" /\ r.result # "committed" => r.at = 0
    /\ r.result = "committed" => r.applied = Len(Plan[t]) /\ r.failed = {}
    /\ r.result \in {"committed", "rollback_failed"} => r.pc = "done"
    /\ r.pc = "done" => (r.result = "rollback_failed" <=> r.failed # {})

Control ==
    /\ file \in [Files -> Contents]
    /\ backup \in [Txns -> [Files -> Contents]]
    /\ edits \in 0 .. MaxEdits
    /\ DOMAIN txn = Txns
    /\ \A t \in Txns : txn[t] \in Record /\ Controlled(t, txn[t])

\* The step of transaction t takes it to pc p at operation n, with m mutations
\* made, lost its failed paths and res its result.
Becomes(t, p, n, m, lost, res) ==
    /\ DOMAIN txn' = Txns
    /\ \A u \in Txns : u # t => txn'[u] = txn[u]
    /\ txn'[t] \in Record
    /\ txn'[t].pc = p /\ txn'[t].at = n /\ txn'[t].applied = m
    /\ txn'[t].failed = lost /\ txn'[t].result = res

LEMMA ElementOf ==
    ASSUME NEW S, NEW s \in Seq(S), NEW i \in 1 .. Len(s)
    PROVE  s[i] \in S
OBVIOUS

\* A plan's operations are on paths of their own.
LEMMA PlanFacts ==
    ASSUME NEW t \in Txns
    PROVE  /\ Len(Plan[t]) \in Nat \ {0}
           /\ \A i \in Operations(t) :
                 PathOf(t, i) \in Files /\ KindOf(t, i) \in Kinds
           /\ \A i, j \in Operations(t) : PathOf(t, i) = PathOf(t, j) => i = j
<1>1. Plan[t] \in Seq([path : Files, kind : Kinds]) /\ Plan[t] # <<>>
  BY PlanAssumption
<1>2. \A i \in 1 .. Len(Plan[t]) : Plan[t][i] \in [path : Files, kind : Kinds]
  BY <1>1, ElementOf
<1>3. Len(Plan[t]) \in Nat \ {0}
  BY <1>1
<1>4. \A i, j \in 1 .. Len(Plan[t]) : Plan[t][i].path = Plan[t][j].path => i = j
  BY PlanAssumption
<1> QED
  BY <1>2, <1>3, <1>4 DEF Operations, PathOf, KindOf

(***************************************************************************)
(* What each step makes of the record of its transaction.                  *)
(***************************************************************************)
LEMMA GotoStep ==
    ASSUME Control, NEW t \in Txns, NEW p \in Forward \cup Backward \cup {"cleanup"} \cup Ended,
           Goto(t, p)
    PROVE  Becomes(t, p, txn[t].at, txn[t].applied, txn[t].failed, txn[t].result)
<1>1. txn[t] \in Record /\ DOMAIN txn = Txns
  BY DEF Control
<1> DEFINE r == [txn[t] EXCEPT !.pc = p]
<1>2. txn' = [txn EXCEPT ![t] = r]
  BY DEF Goto
<1>3. r \in Record /\ r.pc = p /\ r.at = txn[t].at /\ r.applied = txn[t].applied
      /\ r.failed = txn[t].failed /\ r.result = txn[t].result
  BY <1>1 DEF Record
<1> HIDE DEF r
<1> QED
  BY <1>1, <1>2, <1>3 DEF Becomes

LEMMA NextStep ==
    ASSUME Control, NEW t \in Txns, NEW p \in Forward, NEW q \in Forward \cup {"cleanup"},
           NextOp(t, p, q)
    PROVE  \/ /\ txn[t].at < Len(Plan[t])
              /\ Becomes(t, p, txn[t].at + 1, txn[t].applied, txn[t].failed, txn[t].result)
           \/ /\ ~(txn[t].at < Len(Plan[t]))
              /\ Becomes(t, q, 1, txn[t].applied, txn[t].failed, txn[t].result)
<1>1. txn[t] \in Record /\ DOMAIN txn = Txns /\ Len(Plan[t]) \in Nat
  BY PlanFacts DEF Control
<1> DEFINE more == txn[t].at < Len(Plan[t])
           r == [txn[t] EXCEPT !.pc = IF more THEN p ELSE q,
                               !.at = IF more THEN txn[t].at + 1 ELSE 1]
<1>2. txn' = [txn EXCEPT ![t] = r]
  BY DEF NextOp
<1>3. CASE more
  <2> DEFINE n == txn[t].at + 1
  <2>2. n \in Nat /\ r = [txn[t] EXCEPT !.pc = p, !.at = n]
    BY <1>1, <1>3 DEF Record
  <2> HIDE DEF n, r
  <2>1. r \in Record /\ r.pc = p /\ r.at = n /\ r.applied = txn[t].applied
        /\ r.failed = txn[t].failed /\ r.result = txn[t].result
    BY <1>1, <2>2 DEF Record
  <2> USE DEF n
  <2> QED
    BY <1>1, <1>2, <1>3, <2>1 DEF Becomes
<1>4. CASE ~more
  <2>1. r \in Record /\ r.pc = q /\ r.at = 1 /\ r.applied = txn[t].applied
        /\ r.failed = txn[t].failed /\ r.result = txn[t].result
    BY <1>1, <1>4 DEF Record
  <2> HIDE DEF r
  <2> QED
    BY <1>1, <1>2, <1>4, <2>1 DEF Becomes
<1> QED
  BY <1>3, <1>4

\* The record of a transaction after a mutation, and at its end.
LEMMA MadeStep ==
    ASSUME Control, NEW t \in Txns, txn[t].pc = "mutate", Mutate(t), ~Abort(t)
    PROVE  \/ /\ txn[t].at < Len(Plan[t])
              /\ Becomes(t, "check", txn[t].at + 1, txn[t].at, txn[t].failed, txn[t].result)
           \/ /\ txn[t].at = Len(Plan[t])
              /\ Becomes(t, "verify", 1, txn[t].at, txn[t].failed, txn[t].result)
<1>1. /\ txn[t] \in Record /\ DOMAIN txn = Txns /\ Len(Plan[t]) \in Nat
      /\ txn[t].at \in 1 .. Len(Plan[t]) /\ txn[t].applied = txn[t].at - 1
  BY PlanFacts DEF Control, Controlled, Forward
<1> DEFINE more == txn[t].at < Len(Plan[t])
           n == txn[t].at
           p == IF more THEN "check" ELSE "verify"
           next == IF more THEN txn[t].at + 1 ELSE 1
           r == [txn[t] EXCEPT !.applied = n, !.pc = p, !.at = next]
<1>2. txn' = [txn EXCEPT ![t] = [txn[t] EXCEPT !.applied = @ + 1, !.pc = p, !.at = next]]
  BY DEF Mutate
<1>3. txn[t].applied + 1 = n
  BY <1>1
<1>4. txn' = [txn EXCEPT ![t] = r]
  BY <1>2, <1>3
<1>5. n \in Nat /\ next \in Nat /\ p \in Forward
  BY <1>1 DEF Forward
<1>6. r \in Record /\ r.pc = p /\ r.at = next /\ r.applied = n
      /\ r.failed = txn[t].failed /\ r.result = txn[t].result
  <2> HIDE DEF n, next, p
  <2> QED
    BY <1>1, <1>5 DEF Record
<1>7. Becomes(t, p, next, n, txn[t].failed, txn[t].result)
  <2> HIDE DEF r, next, p
  <2> QED
    BY <1>1, <1>4, <1>6 DEF Becomes
<1> QED
  BY <1>1, <1>7

LEMMA FinishStep ==
    ASSUME Control, NEW t \in Txns, Finish(t)
    PROVE  Becomes(t, "done", txn[t].at, txn[t].applied, txn[t].failed,
                   IF txn[t].failed # {} THEN "rollback_failed"
                   ELSE IF txn[t].result = "none" THEN "committed" ELSE txn[t].result)
<1>1. /\ txn[t] \in Record /\ DOMAIN txn = Txns
      /\ txn[t].result = "none" => txn[t].failed = {}
  BY DEF Control, Controlled
<1> DEFINE res == IF txn[t].failed # {} THEN "rollback_failed"
                  ELSE IF txn[t].result = "none" THEN "committed" ELSE txn[t].result
           r == [txn[t] EXCEPT !.pc = "done", !.result = res]
<1>2. res \in {"none", "aborted", "committed", "rollback_failed"}
  BY <1>1 DEF Record
<1>a. res = CASE txn[t].failed # {} -> "rollback_failed"
              [] txn[t].result = "none" -> "committed"
              [] OTHER -> txn[t].result
  BY <1>1
<1> HIDE DEF res
<1>3. txn' = [txn EXCEPT ![t] = r]
  BY <1>1, <1>a DEF Finish, Record
<1>4. r \in Record /\ r.pc = "done" /\ r.at = txn[t].at /\ r.applied = txn[t].applied
      /\ r.failed = txn[t].failed /\ r.result = res
  BY <1>1, <1>2 DEF Record, Ended
<1>5. Becomes(t, "done", txn[t].at, txn[t].applied, txn[t].failed, res)
  <2> HIDE DEF r
  <2> QED
    BY <1>1, <1>3, <1>4 DEF Becomes
<1> QED
  BY <1>5 DEF res

LEMMA AbortStep ==
    ASSUME Control, NEW t \in Txns, Abort(t)
    PROVE  Becomes(t, IF txn[t].applied = 0 THEN "cleanup" ELSE "undo", txn[t].applied,
                   txn[t].applied, txn[t].failed, "aborted")
<1>1. txn[t] \in Record /\ DOMAIN txn = Txns
  BY DEF Control
<1> DEFINE p == IF txn[t].applied = 0 THEN "cleanup" ELSE "undo"
           r == [txn[t] EXCEPT !.result = "aborted", !.at = txn[t].applied, !.pc = p]
<1>2. txn' = [txn EXCEPT ![t] = r]
  BY DEF Abort, UndoFrom
<1>3. r \in Record /\ r.pc = p /\ r.at = txn[t].applied /\ r.applied = txn[t].applied
      /\ r.failed = txn[t].failed /\ r.result = "aborted"
  BY <1>1 DEF Record, Backward
<1> HIDE DEF r
<1> QED
  BY <1>1, <1>2, <1>3 DEF Becomes

LEMMA UndoneStep ==
    ASSUME Control, NEW t \in Txns, txn[t].pc \in Backward,
           NEW done \in SUBSET Files, NEW lost \in SUBSET Files, Undone(t, done, lost)
    PROVE  Becomes(t, IF txn[t].at = 1 THEN "cleanup" ELSE "undo", txn[t].at - 1,
                   txn[t].applied, txn[t].failed \cup lost, txn[t].result)
<1>1. txn[t] \in Record /\ txn[t].at \in Nat \ {0}
  BY DEF Control, Controlled
<1> QED
  BY <1>1 DEF Control, Record, Undone, UndoNext, Becomes, Backward

(***************************************************************************)
(* Where a transaction is: every step keeps Control.                       *)
(***************************************************************************)
LEMMA ControlKept ==
    ASSUME Control, NEW t \in Txns, NEW p, NEW n, NEW m, NEW lost, NEW res,
           Becomes(t, p, n, m, lost, res), Controlled(t, txn'[t]),
           file' \in [Files -> Contents], backup' \in [Txns -> [Files -> Contents]],
           edits' = edits
    PROVE  Control'
BY DEF Control, Becomes

\* A step that changes no file keeps Control if the record it makes is a
\* controlled one.
LEMMA ControlKeptStill ==
    ASSUME Control, NEW t \in Txns, NEW p, NEW n, NEW m, NEW lost, NEW res,
           Becomes(t, p, n, m, lost, res), Controlled(t, txn'[t]),
           UNCHANGED <<file, backup, edits>>
    PROVE  Control'
BY DEF Control, Becomes

LEMMA AbortControlled ==
    ASSUME Control, NEW t \in Txns, txn[t].pc \in Forward, Abort(t)
    PROVE  Controlled(t, txn'[t])
<1>1. /\ txn[t].applied \in 0 .. Len(Plan[t]) /\ txn[t].failed = {}
      /\ Len(Plan[t]) \in Nat
  BY PlanFacts DEF Control, Controlled
<1> QED
  BY <1>1, AbortStep DEF Controlled, Becomes, Forward, Backward

LEMMA UndoneControlled ==
    ASSUME Control, NEW t \in Txns, txn[t].pc \in Backward,
           NEW done \in SUBSET Files, NEW lost \in SUBSET Files, Undone(t, done, lost)
    PROVE  Controlled(t, txn'[t])
<1>1. /\ txn[t].at \in 1 .. txn[t].applied /\ txn[t].applied \in 0 .. Len(Plan[t])
      /\ txn[t].result = "aborted" /\ Len(Plan[t]) \in Nat
  BY PlanFacts DEF Control, Controlled
<1>2. Becomes(t, IF txn[t].at = 1 THEN "cleanup" ELSE "undo", txn[t].at - 1,
              txn[t].applied, txn[t].failed \cup lost, txn[t].result)
  BY UndoneStep
<1> QED
  BY <1>1, <1>2 DEF Controlled, Becomes, Forward, Backward

LEMMA CheckAllControl ==
    ASSUME Control, NEW t \in Txns, NEW p \in {"stage", "recheck"},
           NEW q \in {"validate", "check"}, (p = "stage") = (q = "validate"),
           CheckAll(t, p, q)
    PROVE  Control'
<1>0. /\ txn[t].pc = p /\ p \in Forward /\ q \in Forward \cup {"cleanup"}
      /\ Controlled(t, txn[t]) /\ Len(Plan[t]) \in Nat \ {0}
  BY PlanFacts DEF CheckAll, Forward, Control
<1>1. CASE BaseHolds(t)
  <2>1. NextOp(t, p, q)
    BY <1>1 DEF CheckAll
  <2>2. /\ txn[t].at \in 1 .. Len(Plan[t]) /\ txn[t].applied = 0
        /\ txn[t].failed = {} /\ txn[t].result = "none"
    BY <1>0 DEF Controlled, Forward
  <2>3. Controlled(t, txn'[t])
    <3> DEFINE r == txn'[t]
    <3>1. \/ /\ txn[t].at < Len(Plan[t])
             /\ r.pc = p /\ r.at = txn[t].at + 1 /\ r.applied = 0
             /\ r.failed = {} /\ r.result = "none"
          \/ /\ r.pc = q /\ r.at = 1 /\ r.applied = 0
             /\ r.failed = {} /\ r.result = "none"
      BY <1>0, <2>1, <2>2, NextStep DEF Becomes
    <3> HIDE DEF r
    <3>2. /\ r.at \in 1 .. Len(Plan[t]) /\ r.applied = 0 /\ 0 \in 0 .. Len(Plan[t])
          /\ r.pc = "check" => r.at = 1
      BY <1>0, <2>2, <3>1
    <3>3. r.pc \in {"stage", "validate", "recheck", "check"} /\ r.failed = {} /\ r.result = "none"
      BY <3>1
    <3>4. Controlled(t, r)
      BY <3>2, <3>3 DEF Controlled, Forward, Backward
    <3> QED
      BY <3>4 DEF r
  <2> QED
    BY <1>0, <2>1, <2>3, NextStep, ControlKeptStill DEF CheckAll
<1>2. CASE ~BaseHolds(t)
  BY <1>0, <1>2, AbortStep, AbortControlled, ControlKeptStill DEF CheckAll
<1> QED
  BY <1>1, <1>2

LEMMA NextControl ==
    ASSUME Control, [Next]_vars
    PROVE  Control'
<1>1. CASE UNCHANGED vars
  BY <1>1 DEF vars, Control
<1>2. ASSUME NEW f \in Files, Edit(f)
      PROVE  Control'
  BY <1>2, EditsAssumption DEF Edit, Control, Contents
<1>3. ASSUME NEW t \in Txns, Step(t) \/ Crash(t)
      PROVE  Control'
  <2>0. /\ Controlled(t, txn[t]) /\ txn[t] \in Record /\ Len(Plan[t]) \in Nat \ {0}
        /\ file \in [Files -> Contents] /\ backup \in [Txns -> [Files -> Contents]]
    BY PlanFacts DEF Control
  <2>a. ASSUME Abort(t), txn[t].pc \in Forward, UNCHANGED <<file, backup, edits>>
        PROVE  Control'
    BY <2>a, AbortStep, AbortControlled, ControlKeptStill
  <2>f. ASSUME txn[t].pc \in Backward
        PROVE  txn[t].at \in Operations(t) /\ Path(t) \in Files
    BY <2>0, <2>f, PlanFacts DEF Controlled, Operations, Path, Op, PathOf
  <2>n. ASSUME NotRestored(t), txn[t].pc \in Backward, UNCHANGED <<file, backup, edits>>
        PROVE  Control'
    <3>1. {Path(t)} \in SUBSET Files /\ {} \in SUBSET Files
      BY <2>n, <2>f
    <3> QED
      BY <2>n, <3>1, UndoneStep, UndoneControlled, ControlKeptStill DEF NotRestored
  <2>1. CASE Stage(t)
    BY <2>1, CheckAllControl DEF Stage
  <2>2. CASE Validate(t)
    <3>1. txn[t].pc \in Forward
      BY <2>2 DEF Validate, Forward
    <3>2. CASE Goto(t, "recheck")
      <4>1. Becomes(t, "recheck", txn[t].at, txn[t].applied, txn[t].failed, txn[t].result)
        BY <3>2, GotoStep DEF Forward
      <4>2. Controlled(t, txn'[t])
        BY <2>0, <2>2, <4>1 DEF Becomes, Controlled, Forward, Backward, Validate
      <4> QED
        BY <2>2, <4>1, <4>2, ControlKeptStill DEF Validate
    <3> QED
      BY <2>a, <2>2, <3>1, <3>2 DEF Validate
  <2>3. CASE Recheck(t)
    BY <2>3, CheckAllControl DEF Recheck
  <2>4. CASE Check(t)
    <3>1. txn[t].pc \in Forward
      BY <2>4 DEF Check, Forward
    <3>2. CASE BaseHolds(t)
      <4>1. Becomes(t, FirstStep(Op(t).kind), txn[t].at, txn[t].applied, txn[t].failed,
                    txn[t].result)
        BY <2>4, <3>2, GotoStep DEF Check, FirstStep, Forward
      <4>2. Controlled(t, txn'[t])
        BY <2>0, <2>4, <4>1
          DEF Becomes, Controlled, Forward, Backward, Check, FirstStep, Op, KindOf
      <4> QED
        BY <2>4, <4>1, <4>2, ControlKeptStill DEF Check
    <3> QED
      BY <2>a, <2>4, <3>1, <3>2 DEF Check
  <2>5. CASE BackUp(t)
    <3>1. txn[t].pc \in Forward
      BY <2>5 DEF BackUp, Forward
    <3>2. file' = file /\ backup' \in [Txns -> [Files -> Contents]] /\ edits' = edits
      <4>1. txn[t].at \in Operations(t)
        BY <2>0, <3>1 DEF Controlled, Operations
      <4> QED
        BY <2>0, <2>5, <4>1, PlanFacts DEF BackUp, Path, Op, PathOf
    <3>3. CASE BaseHolds(t)
      <4>1. Becomes(t, "confirm", txn[t].at, txn[t].applied, txn[t].failed, txn[t].result)
        BY <2>5, <3>3, GotoStep DEF BackUp, Forward
      <4>2. Controlled(t, txn'[t])
        BY <2>0, <2>5, <4>1 DEF Becomes, Controlled, Forward, Backward, BackUp
      <4> QED
        BY <2>0, <3>2, <4>1, <4>2, ControlKept
    <3>4. CASE ~BaseHolds(t)
      BY <2>0, <2>5, <3>1, <3>2, <3>4, AbortStep, AbortControlled, ControlKept DEF BackUp
    <3> QED
      BY <3>3, <3>4
  <2>6. CASE Confirm(t)
    <3>1. txn[t].pc \in Forward
      BY <2>6 DEF Confirm, Forward
    <3>2. CASE BaseHolds(t)
      <4>1. Becomes(t, "mutate", txn[t].at, txn[t].applied, txn[t].failed, txn[t].result)
        BY <2>6, <3>2, GotoStep DEF Confirm, Forward
      <4>2. Controlled(t, txn'[t])
        BY <2>0, <2>6, <4>1 DEF Becomes, Controlled, Forward, Backward, Confirm
      <4> QED
        BY <2>6, <4>1, <4>2, ControlKeptStill DEF Confirm
    <3> QED
      BY <2>a, <2>6, <3>1, <3>2 DEF Confirm
  <2>7. CASE Mutate(t)
    <3>1. txn[t].pc = "mutate" /\ txn[t].pc \in Forward
      BY <2>7 DEF Mutate, Forward
    <3>2. CASE Abort(t)
      <4>1. file' \in [Files -> Contents] /\ backup' \in [Txns -> [Files -> Contents]]
            /\ edits' = edits
        BY <2>0, <2>7 DEF Mutate, Contents, After
      <4> QED
        BY <3>1, <3>2, <4>1, AbortStep, AbortControlled, ControlKept
    <3>3. CASE ~Abort(t)
      <4>1. txn[t].at \in Operations(t)
        BY <2>0, <3>1 DEF Controlled, Operations
      <4>2. Path(t) \in Files
        BY <4>1, PlanFacts DEF Path, Op, PathOf
      <4>3. file' \in [Files -> Contents] /\ backup' \in [Txns -> [Files -> Contents]]
            /\ edits' = edits
        BY <2>0, <2>7, <3>3, <4>2 DEF Mutate, Contents, After
      <4>4. Controlled(t, txn'[t])
        BY <2>0, <2>7, <3>1, <3>3, MadeStep
          DEF Becomes, Controlled, Forward, Backward
      <4> QED
        BY <2>7, <3>1, <3>3, <4>3, <4>4, MadeStep, ControlKept
    <3> QED
      BY <3>2, <3>3
  <2>8. CASE Verify(t)
    <3>1. txn[t].pc = "verify" /\ txn[t].pc \in Forward
      BY <2>8 DEF Verify, Forward
    <3>2. CASE AfterHolds(t)
      <4>1. NextOp(t, "verify", "cleanup") /\ "verify" \in Forward
        BY <2>8, <3>2 DEF Verify, Forward
      <4>2. Controlled(t, txn'[t])
        <5> DEFINE r == txn'[t]
        <5>1. /\ txn[t].at \in 1 .. Len(Plan[t]) /\ txn[t].applied = Len(Plan[t])
              /\ txn[t].failed = {} /\ txn[t].result = "none" /\ Len(Plan[t]) \in Nat
          BY <2>0, <3>1 DEF Controlled, Forward
        <5>2. \/ /\ txn[t].at < Len(Plan[t]) /\ r.pc = "verify" /\ r.at = txn[t].at + 1
                 /\ r.applied = Len(Plan[t]) /\ r.failed = {} /\ r.result = "none"
              \/ /\ r.pc = "cleanup" /\ r.at = 1
                 /\ r.applied = Len(Plan[t]) /\ r.failed = {} /\ r.result = "none"
          BY <2>0, <4>1, <5>1, NextStep DEF Becomes
        <5> HIDE DEF r
        <5>3. r.at \in 1 .. Len(Plan[t]) /\ r.applied \in 0 .. Len(Plan[t])
          BY <5>1, <5>2
        <5>4. /\ r.pc \in {"verify", "cleanup"} /\ r.applied = Len(Plan[t])
              /\ r.failed = {} /\ r.result = "none"
          BY <5>2
        <5>5. Controlled(t, r)
          BY <5>1, <5>3, <5>4 DEF Controlled, Forward, Backward
        <5> QED
          BY <5>5 DEF r
      <4> QED
        BY <2>8, <4>1, <4>2, NextStep, ControlKeptStill DEF Verify
    <3> QED
      BY <2>a, <2>8, <3>1, <3>2 DEF Verify
  <2>9. CASE Undo(t)
    <3>1. txn[t].pc \in Backward
      BY <2>9 DEF Undo, Backward
    <3>2. CASE AfterHolds(t)
      <4>1. Becomes(t, "restore", txn[t].at, txn[t].applied, txn[t].failed, txn[t].result)
        BY <2>9, <3>2, GotoStep DEF Undo, Backward
      <4>2. Controlled(t, txn'[t])
        BY <2>0, <3>1, <4>1 DEF Becomes, Controlled, Forward, Backward
      <4> QED
        BY <2>9, <4>1, <4>2, ControlKeptStill DEF Undo
    <3> QED
      BY <2>n, <2>9, <3>1, <3>2 DEF Undo
  <2>10. CASE Restore(t)
    <3>1. txn[t].pc \in Backward
      BY <2>10 DEF Restore, Backward
    <3>2. Path(t) \in Files
      BY <2>f, <3>1
    <3>3. edits' = edits /\ file' \in [Files -> Contents]
          /\ backup' \in [Txns -> [Files -> Contents]]
      BY <2>0, <2>10, <3>2 DEF Restore, Contents
    <3>4. CASE NotRestored(t) \/ Restored(t)
      <4>1. {Path(t)} \in SUBSET Files /\ {} \in SUBSET Files
        BY <3>2
      <4> QED
        BY <3>1, <3>3, <3>4, <4>1, UndoneStep, UndoneControlled, ControlKept
          DEF NotRestored, Restored
    <3>5. CASE Goto(t, "restored")
      <4>1. Becomes(t, "restored", txn[t].at, txn[t].applied, txn[t].failed, txn[t].result)
        BY <3>5, GotoStep DEF Backward
      <4>2. Controlled(t, txn'[t])
        BY <2>0, <3>1, <4>1 DEF Becomes, Controlled, Forward, Backward
      <4> QED
        BY <3>3, <4>1, <4>2, ControlKept
    <3> QED
      BY <2>10, <3>4, <3>5 DEF Restore
  <2>11. CASE VerifyRestored(t)
    <3>1. txn[t].pc \in Backward
      BY <2>11 DEF VerifyRestored, Backward
    <3>2. {Path(t)} \in SUBSET Files /\ {} \in SUBSET Files
      BY <2>f, <3>1
    <3> QED
      BY <2>11, <3>1, <3>2, UndoneStep, UndoneControlled, ControlKeptStill
        DEF VerifyRestored, NotRestored, Restored
  <2>12. CASE Finish(t)
    <3>1. txn[t].pc = "cleanup"
      BY <2>12 DEF Finish
    <3>2. Controlled(t, txn'[t])
      BY <2>0, <2>12, <3>1, FinishStep DEF Becomes, Controlled, Forward, Backward, Record
    <3> QED
      BY <2>12, <3>2, FinishStep, ControlKeptStill DEF Finish
  <2>15. CASE RemoveBackup(t)
    <3>1. backup' \in [Txns -> [Files -> Contents]]
      BY <2>0, <2>15 DEF RemoveBackup, Contents
    <3> QED
      BY <2>15, <3>1 DEF RemoveBackup, Control
  <2>13. CASE Fault(t)
    BY <2>a, <2>n, <2>13 DEF Fault
  <2>14. CASE Crash(t)
    <3>1. Becomes(t, "dead", txn[t].at, txn[t].applied, txn[t].failed, txn[t].result)
      BY <2>14, GotoStep DEF Crash, Ended
    <3>2. Controlled(t, txn'[t])
      BY <2>0, <2>14, <3>1 DEF Becomes, Controlled, Forward, Backward, Crash, Ended, Record
    <3> QED
      BY <2>14, <3>1, <3>2, ControlKeptStill DEF Crash
  <2> QED
    BY <1>3, <2>1, <2>2, <2>3, <2>4, <2>5, <2>6, <2>7, <2>8, <2>9, <2>10, <2>11,
       <2>12, <2>13, <2>14, <2>15 DEF Step
<1> QED
  BY <1>1, <1>2, <1>3 DEF Next

LEMMA InitControl ==
    ASSUME Init
    PROVE  Control
<1>1. \A t \in Txns : txn[t] = NotBegun
  BY DEF Init
<1>2. NotBegun \in Record
  BY DEF NotBegun, Record, Forward
<1>3. \A t \in Txns : Controlled(t, NotBegun)
  <2> TAKE t \in Txns
  <2>1. Len(Plan[t]) \in Nat \ {0}
    BY PlanFacts
  <2>2. /\ NotBegun.pc = "stage" /\ NotBegun.at = 1 /\ NotBegun.applied = 0
        /\ NotBegun.failed = {} /\ NotBegun.result = "none"
    BY DEF NotBegun
  <2> QED
    BY <2>1, <2>2 DEF Controlled, Forward, Backward
<1> QED
  BY <1>1, <1>2, <1>3, EditsAssumption DEF Init, Control, Initial, Contents

\* At each await of a transaction its locals agree with one another and with
\* how far it is, whatever fails or is written by others.
THEOREM ControlIsKept == Spec => []Control
BY InitControl, NextControl, PTL DEF Spec

\* Files, backups and the locals of each transaction have their types; a
\* transaction works on an operation of its own plan, and counts no mutation
\* it has no operation for.
THEOREM Typing == Spec => []TypeOK
<1>1. ASSUME Control
      PROVE  TypeOK
  <2>1. ASSUME NEW t \in Txns
        PROVE  txn[t] \in [pc : Forward \cup Backward \cup {"cleanup"} \cup Ended,
                      at : 0 .. Len(Plan[t]), applied : 0 .. Len(Plan[t]),
                      restored : SUBSET Files, failed : SUBSET Files,
                      result : {"none", "aborted", "committed", "rollback_failed"}]
    BY <1>1, <2>1 DEF Control, Controlled, Record
  <2> QED
    BY <1>1, <2>1 DEF Control, TypeOK
<1> QED
  BY <1>1, ControlIsKept, PTL

(***************************************************************************)
(* What has become of each operation of a transaction whose process lives: *)
(* nothing yet, its mutation stands, or the mutation has been taken back   *)
(* as far as it could be.                                                  *)
(***************************************************************************)
Untouched(t, i) == txn[t].pc # "dead" /\ i > txn[t].applied

Made(t, i) ==
    /\ i <= txn[t].applied
    /\ \/ txn[t].pc \in Forward
       \/ txn[t].pc \in {"cleanup", "done"} /\ txn[t].result \in {"none", "committed"}
       \/ txn[t].pc \in {"undo", "restore"} /\ i <= txn[t].at
       \/ txn[t].pc = "restored" /\ i < txn[t].at

Returned(t, i) == txn[t].pc # "dead" /\ i <= txn[t].applied /\ ~Made(t, i)

PhaseKept(t, i) ==
    /\ Untouched(t, i)' <=> Untouched(t, i)
    /\ Made(t, i)' <=> Made(t, i)
    /\ Returned(t, i)' <=> Returned(t, i)

LEMMA PhasesForward ==
    ASSUME Control, NEW t \in Txns, txn[t].pc \in Forward, NEW p \in Forward \cup {"cleanup"},
           NEW n, NEW lost, Becomes(t, p, n, txn[t].applied, lost, "none")
    PROVE  \A i \in Operations(t) : PhaseKept(t, i)
BY DEF Becomes, PhaseKept, Untouched, Made, Returned, Forward

LEMMA PhasesAbort ==
    ASSUME Control, NEW t \in Txns, txn[t].pc \in Forward, Abort(t)
    PROVE  /\ \A i \in Operations(t) : PhaseKept(t, i)
           /\ txn'[t].failed = txn[t].failed /\ txn'[t].pc \in {"undo", "cleanup"}
<1>1. txn[t].applied \in Nat /\ Operations(t) \subseteq Nat \ {0}
  BY DEF Control, Record, Operations
<1>2. CASE txn[t].applied = 0
  BY <1>1, <1>2, AbortStep DEF Becomes, PhaseKept, Untouched, Made, Returned, Forward
<1>3. CASE txn[t].applied # 0
  BY <1>1, <1>3, AbortStep DEF Becomes, PhaseKept, Untouched, Made, Returned, Forward
<1> QED
  BY <1>2, <1>3

LEMMA PhasesUndone ==
    ASSUME Control, NEW t \in Txns, txn[t].pc \in Backward,
           NEW done \in SUBSET Files, NEW lost \in SUBSET Files, Undone(t, done, lost)
    PROVE  /\ \A i \in Operations(t) : i # txn[t].at => PhaseKept(t, i)
           /\ \A i \in Operations(t) : i = txn[t].at =>
                 /\ Returned(t, i)'
                 /\ Made(t, i) <=> txn[t].pc # "restored"
                 /\ Returned(t, i) <=> txn[t].pc = "restored"
           /\ txn[t].at \in Operations(t)
           /\ txn'[t].failed = txn[t].failed \cup lost
           /\ txn'[t].pc \in {"undo", "cleanup"}
<1>1. /\ Operations(t) \subseteq Nat \ {0} /\ txn[t].at \in Operations(t)
      /\ txn[t].at <= txn[t].applied /\ txn[t].applied \in Nat
      /\ txn[t].result = "aborted"
  BY DEF Control, Controlled, Record, Operations
<1> DEFINE at == txn[t].at
           p == IF at = 1 THEN "cleanup" ELSE "undo"
<1>2. /\ txn'[t].pc = p /\ txn'[t].at = at - 1 /\ txn'[t].applied = txn[t].applied
      /\ txn'[t].failed = txn[t].failed \cup lost /\ txn'[t].result = "aborted"
  BY <1>1, UndoneStep DEF Becomes
<1>3. txn[t].pc # "dead" /\ txn'[t].pc # "dead"
  BY <1>2 DEF Backward
<1>4. ASSUME NEW i \in Operations(t)
      PROVE  /\ Made(t, i) <=> i <= at /\ (txn[t].pc = "restored" => i < at)
             /\ Made(t, i)' <=> i < at
  <2>1. CASE at = 1
    BY <1>1, <1>2, <2>1 DEF Made, Forward, Backward
  <2>2. CASE at # 1
    BY <1>1, <1>2, <2>2 DEF Made, Forward, Backward
  <2> QED
    BY <2>1, <2>2
<1>5. ASSUME NEW i \in Operations(t), i # at
      PROVE  PhaseKept(t, i)
  <2>1. i <= at <=> i < at
    BY <1>1, <1>5
  <2>2. Made(t, i)' <=> Made(t, i)
    BY <1>4, <2>1
  <2> QED
    BY <1>2, <1>3, <2>2 DEF PhaseKept, Untouched, Returned
<1>6. ASSUME NEW i \in Operations(t), i = at
      PROVE  /\ Returned(t, i)'
             /\ Made(t, i) <=> txn[t].pc # "restored"
             /\ Returned(t, i) <=> txn[t].pc = "restored"
  <2>1. i <= at /\ ~(i < at) /\ i <= txn[t].applied
    BY <1>1, <1>6
  <2> QED
    BY <1>2, <1>3, <1>4, <2>1 DEF Returned
<1> QED
  BY <1>1, <1>2, <1>5, <1>6

(***************************************************************************)
(* What a step is to the files and to the phases: eight kinds.  The        *)
(* properties are proved from these, and no longer from the actions.       *)
(***************************************************************************)
KeepsAll(t) == \A i \in Operations(t) : PhaseKept(t, i)
KeepsOthers(t) == \A i \in Operations(t) : i # txn[t].at => PhaseKept(t, i)
LosesNone(t) == txn[t].failed \subseteq txn'[t].failed

\* It looks at a file, or a call rejects: nothing changes but the counter.
Looks(t) ==
    /\ txn[t].pc \in Forward \cup Backward
    /\ UNCHANGED <<file, backup>> /\ KeepsAll(t)
    /\ txn'[t].failed = txn[t].failed
    /\ txn'[t].pc \in (Forward \ {"confirm"}) \cup {"undo", "restore", "cleanup"}
    /\ txn'[t].pc \in {"backup", "mutate"} =>
          /\ BaseHolds(t) /\ txn'[t].at = txn[t].at
          /\ txn'[t].pc = "mutate" /\ Op(t).kind = "replace" => txn[t].pc = "confirm"
    /\ txn'[t].pc = "stage" =>
          BaseHolds(t) /\ txn[t].pc = "stage" /\ txn'[t].at = txn[t].at + 1
    /\ txn[t].pc = "stage" /\ txn'[t].pc \notin {"stage", "cleanup"} =>
          BaseHolds(t) /\ txn[t].at = Len(Plan[t])

\* It is through with undoing an operation, and leaves the file as it is.
GivesUp(t) ==
    /\ txn[t].pc \in Backward
    /\ UNCHANGED <<file, backup>> /\ KeepsOthers(t) /\ LosesNone(t)
    /\ \A i \in Operations(t) : i = txn[t].at =>
          /\ Returned(t, i)'
          /\ Made(t, i) <=> txn[t].pc # "restored"
          /\ Returned(t, i) <=> txn[t].pc = "restored"
    /\ txn[t].pc = "restored" \/ Path(t) \in txn'[t].failed
    /\ txn'[t].pc \in {"undo", "cleanup"}

BacksUp(t) ==
    /\ txn[t].pc = "backup"
    /\ file' = file
    /\ backup' = [backup EXCEPT ![t][Path(t)] = file[Path(t)]]
    /\ KeepsAll(t) /\ txn'[t].failed = txn[t].failed
    /\ \/ BaseHolds(t) /\ txn'[t].pc = "confirm" /\ txn'[t].at = txn[t].at
       \/ txn'[t].pc \in {"undo", "cleanup"}

Makes(t) ==
    /\ txn[t].pc = "mutate" /\ ~Refuses(t)
    /\ file' = [file EXCEPT ![Path(t)] = After(t, Op(t).kind)]
    /\ backup' = [backup EXCEPT ![t][Path(t)] =
                     IF Op(t).kind = "delete" THEN file[Path(t)] ELSE @]
    /\ KeepsOthers(t) /\ txn'[t].failed = txn[t].failed
    /\ \A i \in Operations(t) : i = txn[t].at => Untouched(t, i) /\ Made(t, i)'
    /\ txn'[t].pc \in {"check", "verify"}

\* It removes what it created.
TakesBack(t) ==
    /\ txn[t].pc = "restore" /\ Op(t).kind = "create"
    /\ file' = [file EXCEPT ![Path(t)] = Absent]
    /\ backup' = backup /\ KeepsOthers(t) /\ LosesNone(t)
    /\ \A i \in Operations(t) : i = txn[t].at => Made(t, i) /\ Returned(t, i)'
    /\ txn'[t].pc \in {"undo", "cleanup"}

\* It moves a backup back to its path.
PutsBack(t) ==
    /\ txn[t].pc = "restore" /\ Op(t).kind # "create"
    /\ file' = [file EXCEPT ![Path(t)] = backup[t][Path(t)]]
    /\ backup' = [backup EXCEPT ![t][Path(t)] = Absent]
    /\ KeepsOthers(t) /\ txn'[t].failed = txn[t].failed
    /\ \A i \in Operations(t) : i = txn[t].at => Made(t, i) /\ Returned(t, i)'
    /\ txn'[t].pc = "restored"

\* It removes a backup, or has done with them.
Cleans(t) ==
    /\ txn[t].pc = "cleanup"
    /\ file' = file
    /\ \A u \in Txns \ {t} : backup'[u] = backup[u]
    /\ \A f \in Files : backup'[t][f] \in {backup[t][f], Absent}
    /\ KeepsAll(t) /\ txn'[t].failed = txn[t].failed
    /\ txn'[t].pc \in {"cleanup", "done"}

Dies(t) ==
    /\ txn[t].pc \notin Ended
    /\ UNCHANGED <<file, backup>>
    /\ txn'[t].at = txn[t].at /\ txn'[t].failed = txn[t].failed
    /\ txn'[t].pc = "dead"

Acts(t) == \/ Looks(t) \/ GivesUp(t) \/ BacksUp(t) \/ Makes(t)
           \/ TakesBack(t) \/ PutsBack(t) \/ Cleans(t) \/ Dies(t)

RestStill(t) == edits' = edits /\ \A u \in Txns \ {t} : txn'[u] = txn[u]

LEMMA CheckAllActs ==
    ASSUME Control, NEW t \in Txns, NEW p \in {"stage", "recheck"},
           NEW q \in {"validate", "check"}, CheckAll(t, p, q)
    PROVE  Looks(t) /\ RestStill(t)
<1>0. /\ txn[t].pc = p /\ p \in Forward /\ q \in Forward \cup {"cleanup"}
      /\ txn[t].failed = {} /\ txn[t].result = "none" /\ Len(Plan[t]) \in Nat
      /\ txn[t].at \in 0 .. Len(Plan[t])  /\ txn[t].applied = 0
  BY PlanFacts DEF CheckAll, Forward, Control, Controlled
<1>1. CASE BaseHolds(t)
  <2>1. NextOp(t, p, q)
    BY <1>1 DEF CheckAll
  <2>2. CASE /\ txn[t].at < Len(Plan[t])
             /\ Becomes(t, p, txn[t].at + 1, txn[t].applied, txn[t].failed, txn[t].result)
    <3>1. KeepsAll(t)
      BY <1>0, <2>2, PhasesForward, ZenonT(60) DEF KeepsAll
    <3> QED
      BY <1>0, <1>1, <2>2, <3>1 DEF Looks, RestStill, Becomes, CheckAll, Forward
  <2>3. CASE /\ ~(txn[t].at < Len(Plan[t]))
             /\ Becomes(t, q, 1, txn[t].applied, txn[t].failed, txn[t].result)
    <3>1. KeepsAll(t)
      BY <1>0, <2>3, PhasesForward, ZenonT(60) DEF KeepsAll
    <3> QED
      BY <1>0, <1>1, <2>3, <3>1 DEF Looks, RestStill, Becomes, CheckAll, Forward
  <2> QED
    BY <1>0, <2>1, <2>2, <2>3, NextStep
<1>2. CASE ~BaseHolds(t)
  BY <1>0, <1>2, AbortStep, PhasesAbort DEF CheckAll, Looks, KeepsAll, RestStill, Becomes
<1> QED
  BY <1>1, <1>2

LEMMA StepActs ==
    ASSUME Control, NEW t \in Txns, Step(t) \/ Crash(t)
    PROVE  Acts(t) /\ RestStill(t)
<1>0. /\ Controlled(t, txn[t]) /\ txn[t] \in Record /\ Len(Plan[t]) \in Nat \ {0}
      /\ txn[t].pc \in Forward => /\ txn[t].failed = {} /\ txn[t].result = "none"
                                  /\ txn[t].at \in Operations(t)
      /\ txn[t].pc \in Backward => txn[t].at \in Operations(t) /\ Path(t) \in Files
  BY PlanFacts DEF Control, Controlled, Operations, Path, Op, PathOf
<1>a. ASSUME Abort(t), txn[t].pc \in Forward, UNCHANGED <<file, backup, edits>>
      PROVE  Looks(t) /\ RestStill(t)
  <2>1. txn[t].pc = "stage" => txn[t].applied = 0
    BY <1>0 DEF Controlled
  <2>2. /\ txn[t].pc = "stage" => txn'[t].pc = "cleanup"
        /\ \A u \in Txns \ {t} : txn'[u] = txn[u]
    BY <1>a, <2>1, AbortStep DEF Becomes
  <2> QED
    BY <1>a, <2>2, PhasesAbort DEF Looks, KeepsAll, RestStill
<1>g. ASSUME NEW p \in Forward \ {"stage", "confirm"}, Goto(t, p), txn[t].pc \in Forward,
             UNCHANGED <<file, backup, edits>>, BaseHolds(t) \/ p \notin {"backup", "mutate"},
             p = "mutate" /\ Op(t).kind = "replace" => txn[t].pc = "confirm",
             txn[t].pc # "stage"
      PROVE  Looks(t) /\ RestStill(t)
  <2>1. Becomes(t, p, txn[t].at, txn[t].applied, txn[t].failed, "none")
    BY <1>0, <1>g, GotoStep
  <2>2. KeepsAll(t)
    BY <1>g, <2>1, PhasesForward DEF KeepsAll
  <2> QED
    BY <1>0, <1>g, <2>1, <2>2 DEF Looks, RestStill, Becomes
<1>u. ASSUME NEW done \in SUBSET Files, NEW lost \in SUBSET Files, Undone(t, done, lost),
             txn[t].pc \in Backward
      PROVE  /\ KeepsOthers(t) /\ LosesNone(t) /\ txn'[t].failed = txn[t].failed \cup lost
             /\ txn'[t].pc \in {"undo", "cleanup"}
             /\ \A u \in Txns \ {t} : txn'[u] = txn[u]
             /\ \A i \in Operations(t) : i = txn[t].at =>
                   /\ Returned(t, i)'
                   /\ Made(t, i) <=> txn[t].pc # "restored"
                   /\ Returned(t, i) <=> txn[t].pc = "restored"
  <2>1. \A u \in Txns \ {t} : txn'[u] = txn[u]
    BY <1>u, UndoneStep DEF Becomes
  <2> QED
    BY <1>u, <2>1, PhasesUndone DEF KeepsOthers, LosesNone
<1>n. ASSUME NotRestored(t), txn[t].pc \in Backward, UNCHANGED <<file, backup, edits>>
      PROVE  GivesUp(t) /\ RestStill(t)
  <2>1. {Path(t)} \in SUBSET Files /\ {} \in SUBSET Files
    BY <1>0, <1>n
  <2> QED
    BY <1>n, <1>u, <2>1 DEF NotRestored, GivesUp, RestStill
<1>1. CASE Stage(t) \/ Recheck(t)
  BY <1>1, CheckAllActs DEF Stage, Recheck, Acts
<1>2. CASE Validate(t)
  <2>1. txn[t].pc = "validate" /\ txn[t].pc \in Forward /\ UNCHANGED <<file, backup, edits>>
    BY <1>2 DEF Validate, Forward
  <2>2. CASE Goto(t, "recheck")
    BY <1>g, <2>1, <2>2 DEF Acts, Forward
  <2> QED
    BY <1>2, <1>a, <2>1, <2>2 DEF Acts, Validate
<1>4. CASE Check(t)
  <2>1. txn[t].pc = "check" /\ txn[t].pc \in Forward /\ UNCHANGED <<file, backup, edits>>
    BY <1>4 DEF Check, Forward
  <2>2. CASE BaseHolds(t)
    <3>1. CASE Op(t).kind = "replace"
      <4>1. Goto(t, "backup")
        BY <1>4, <2>2, <3>1 DEF Check, FirstStep
      <4> QED
        BY <1>g, <2>1, <2>2, <4>1 DEF Acts, Forward
    <3>2. CASE Op(t).kind # "replace"
      <4>1. Goto(t, "mutate")
        BY <1>4, <2>2, <3>2 DEF Check, FirstStep
      <4> QED
        BY <1>g, <2>1, <2>2, <3>2, <4>1 DEF Acts, Forward
    <3> QED
      BY <3>1, <3>2
  <2> QED
    BY <1>4, <1>a, <2>1, <2>2 DEF Acts, Check
<1>5. CASE BackUp(t)
  <2>1. txn[t].pc = "backup" /\ txn[t].pc \in Forward /\ file' = file /\ edits' = edits
        /\ backup' = [backup EXCEPT ![t][Path(t)] = file[Path(t)]]
    BY <1>5 DEF BackUp, Forward
  <2>2. CASE BaseHolds(t)
    <3>1. Becomes(t, "confirm", txn[t].at, txn[t].applied, txn[t].failed, "none")
      BY <1>0, <1>5, <2>1, <2>2, GotoStep DEF BackUp, Forward
    <3>2. KeepsAll(t)
      BY <2>1, <3>1, PhasesForward DEF KeepsAll, Forward
    <3> QED
      BY <2>1, <2>2, <3>1, <3>2 DEF BacksUp, RestStill, Becomes, Acts
  <2>3. CASE ~BaseHolds(t)
    BY <1>5, <2>1, <2>3, AbortStep, PhasesAbort
      DEF BackUp, BacksUp, KeepsAll, RestStill, Becomes, Acts
  <2> QED
    BY <2>2, <2>3
<1>6. CASE Confirm(t)
  <2>1. txn[t].pc = "confirm" /\ txn[t].pc \in Forward /\ UNCHANGED <<file, backup, edits>>
    BY <1>6 DEF Confirm, Forward
  <2>2. CASE BaseHolds(t)
    BY <1>6, <1>g, <2>1, <2>2 DEF Acts, Confirm, Forward
  <2> QED
    BY <1>6, <1>a, <2>1, <2>2 DEF Acts, Confirm
<1>7. CASE Mutate(t)
  <2>1. txn[t].pc = "mutate" /\ txn[t].pc \in Forward /\ edits' = edits
    BY <1>7 DEF Mutate, Forward
  <2>2. CASE Refuses(t)
    BY <1>7, <1>a, <2>1, <2>2 DEF Acts, Mutate
  <2>3. CASE ~Refuses(t)
    <3>1. ~Abort(t)
      <4>1. txn[t].result = "none" /\ txn[t] \in Record /\ DOMAIN txn = Txns
        BY <1>0, <2>1 DEF Control
      <4>2. txn'[t].result = "none"
        BY <1>7, <2>3, <4>1 DEF Mutate, Record
      <4> QED
        BY <4>2, AbortStep DEF Becomes
    <3>2. \/ Becomes(t, "check", txn[t].at + 1, txn[t].at, txn[t].failed, txn[t].result)
          \/ Becomes(t, "verify", 1, txn[t].at, txn[t].failed, txn[t].result)
      BY <1>7, <2>1, <3>1, MadeStep
    <3>3. txn[t].applied = txn[t].at - 1 /\ txn[t].at \in Nat /\ Operations(t) \subseteq Nat
      BY <1>0, <2>1 DEF Controlled, Operations
    <3>4. KeepsOthers(t)
      BY <2>1, <3>2, <3>3
        DEF KeepsOthers, PhaseKept, Becomes, Untouched, Made, Returned, Forward
    <3>5. \A i \in Operations(t) : i = txn[t].at => Untouched(t, i) /\ Made(t, i)'
      BY <2>1, <3>2, <3>3 DEF Becomes, Untouched, Made, Forward
    <3> QED
      BY <1>7, <2>1, <2>3, <3>2, <3>4, <3>5 DEF Mutate, Makes, RestStill, Becomes, Acts
  <2> QED
    BY <2>2, <2>3
<1>8. CASE Verify(t)
  <2>1. txn[t].pc = "verify" /\ txn[t].pc \in Forward /\ UNCHANGED <<file, backup, edits>>
    BY <1>8 DEF Verify, Forward
  <2>2. CASE AfterHolds(t)
    <3>1. NextOp(t, "verify", "cleanup") /\ "verify" \in Forward
      BY <1>8, <2>2 DEF Verify, Forward
    <3>2. PICK p \in {"verify", "cleanup"}, n \in {txn[t].at + 1, 1} :
             Becomes(t, p, n, txn[t].applied, txn[t].failed, "none")
      BY <1>0, <2>1, <3>1, NextStep
    <3>3. KeepsAll(t)
      BY <2>1, <3>1, <3>2, PhasesForward DEF KeepsAll
    <3> QED
      BY <2>1, <3>2, <3>3 DEF Looks, RestStill, Becomes, Forward, Acts
  <2> QED
    BY <1>8, <1>a, <2>1, <2>2 DEF Acts, Verify
<1>9. CASE Undo(t)
  <2>1. txn[t].pc = "undo" /\ txn[t].pc \in Backward /\ UNCHANGED <<file, backup, edits>>
    BY <1>9 DEF Undo, Backward
  <2>2. CASE AfterHolds(t)
    <3>1. Becomes(t, "restore", txn[t].at, txn[t].applied, txn[t].failed, txn[t].result)
      BY <1>9, <2>2, GotoStep DEF Undo, Backward
    <3>2. KeepsAll(t)
      BY <2>1, <3>1 DEF KeepsAll, PhaseKept, Becomes, Untouched, Made, Returned, Forward
    <3> QED
      BY <2>1, <3>1, <3>2 DEF Looks, RestStill, Becomes, Acts
  <2> QED
    BY <1>9, <1>n, <2>1, <2>2 DEF Acts, Undo
<1>10. CASE Restore(t)
  <2>1. txn[t].pc = "restore" /\ txn[t].pc \in Backward /\ edits' = edits
    BY <1>10 DEF Restore, Backward
  <2>2. {Path(t)} \in SUBSET Files /\ {} \in SUBSET Files
    BY <1>0, <2>1
  <2>3. CASE Op(t).kind = "create"
    <3>1. /\ file' = [file EXCEPT ![Path(t)] = Absent] /\ backup' = backup
          /\ Restored(t) \/ NotRestored(t)
      BY <1>10, <2>3 DEF Restore
    <3> QED
      BY <1>u, <2>1, <2>2, <2>3, <3>1 DEF Restored, NotRestored, TakesBack, RestStill, Acts
  <2>4. CASE Op(t).kind = "delete" /\ file[Path(t)] # Absent
    BY <1>10, <1>n, <2>1, <2>4 DEF Restore, Acts
  <2>5. CASE Op(t).kind # "create" /\ ~(Op(t).kind = "delete" /\ file[Path(t)] # Absent)
    <3>1. /\ file' = [file EXCEPT ![Path(t)] = backup[t][Path(t)]]
          /\ backup' = [backup EXCEPT ![t][Path(t)] = Absent]
          /\ Goto(t, "restored")
      BY <1>10, <2>5 DEF Restore
    <3>2. Becomes(t, "restored", txn[t].at, txn[t].applied, txn[t].failed, txn[t].result)
      BY <3>1, GotoStep DEF Backward
    <3>3. Operations(t) \subseteq Nat /\ txn[t].at \in 1 .. txn[t].applied
          /\ txn[t].result = "aborted" /\ txn[t].applied \in Nat
      BY <1>0, <2>1 DEF Controlled, Operations
    <3>4. KeepsOthers(t)
      BY <2>1, <3>2, <3>3
        DEF KeepsOthers, PhaseKept, Becomes, Untouched, Made, Returned, Forward
    <3>5. \A i \in Operations(t) : i = txn[t].at => Made(t, i) /\ Returned(t, i)'
      BY <2>1, <3>2, <3>3 DEF Becomes, Made, Returned, Forward
    <3> QED
      BY <2>1, <2>5, <3>1, <3>2, <3>4, <3>5 DEF PutsBack, RestStill, Becomes, Acts
  <2> QED
    BY <2>3, <2>4, <2>5
<1>11. CASE VerifyRestored(t)
  <2>1. txn[t].pc = "restored" /\ txn[t].pc \in Backward /\ UNCHANGED <<file, backup, edits>>
    BY <1>11 DEF VerifyRestored, Backward
  <2>2. {Path(t)} \in SUBSET Files /\ {} \in SUBSET Files
    BY <1>0, <2>1
  <2> QED
    BY <1>11, <1>u, <2>1, <2>2
      DEF VerifyRestored, NotRestored, Restored, GivesUp, RestStill, Acts
<1>12. CASE Finish(t)
  <2>1. /\ txn[t].pc = "cleanup" /\ file' = file /\ backup' = backup /\ edits' = edits
    BY <1>12 DEF Finish
  <2>2. /\ txn[t].result \in {"none", "aborted"}
        /\ txn[t].result = "none" => txn[t].failed = {}
    BY <1>0, <2>1 DEF Controlled, Record
  <2>3. /\ txn'[t].pc = "done" /\ txn'[t].applied = txn[t].applied
        /\ txn'[t].failed = txn[t].failed /\ \A u \in Txns \ {t} : txn'[u] = txn[u]
        /\ txn[t].result = "none" <=> txn'[t].result \in {"none", "committed"}
    BY <1>12, <2>2, FinishStep DEF Becomes
  <2>4. KeepsAll(t)
    BY <2>1, <2>2, <2>3 DEF KeepsAll, PhaseKept, Untouched, Made, Returned, Forward
  <2> QED
    BY <2>1, <2>3, <2>4 DEF Cleans, RestStill, Acts
<1>15. CASE RemoveBackup(t)
  <2>1. /\ txn[t].pc = "cleanup" /\ file' = file /\ edits' = edits /\ txn' = txn
        /\ \A u \in Txns \ {t} : backup'[u] = backup[u]
        /\ \A f \in Files : backup'[t][f] \in {backup[t][f], Absent}
    BY <1>15 DEF RemoveBackup, Control
  <2>2. KeepsAll(t)
    BY <2>1 DEF KeepsAll, PhaseKept, Untouched, Made, Returned
  <2> QED
    BY <2>1, <2>2 DEF Cleans, RestStill, Acts
<1>13. CASE Fault(t)
  BY <1>13, <1>a, <1>n DEF Fault, Acts
<1>14. CASE Crash(t)
  <2>1. Becomes(t, "dead", txn[t].at, txn[t].applied, txn[t].failed, txn[t].result)
    BY <1>14, GotoStep DEF Crash, Ended
  <2> QED
    BY <1>14, <2>1 DEF Crash, Ended, Dies, RestStill, Becomes, Acts
<1> QED
  BY <1>1, <1>2, <1>4, <1>5, <1>6, <1>7, <1>8, <1>9, <1>10, <1>11, <1>12, <1>13, <1>14,
     <1>15 DEF Step

(***************************************************************************)
(* One transaction by itself, and no editor.                               *)
(***************************************************************************)
\* A transaction that has not begun is told by its counter: none begins twice.
LEMMA AloneBefore ==
    ASSUME Control, NEW t \in Txns, NEW u \in Txns, Acts(u), RestStill(u), Alone(t)'
    PROVE  Alone(t) /\ u = t
<1>1. ASSUME u # t
      PROVE  FALSE
  <2>1. txn'[u] = NotBegun
    BY <1>1 DEF Alone
  <2>2. txn'[u].pc = "stage" /\ txn'[u].at = 1
    BY <2>1 DEF NotBegun
  <2>3. txn[u].pc = "stage" /\ 1 = txn[u].at + 1
    BY <2>2 DEF Acts, Looks, GivesUp, BacksUp, Makes, TakesBack, PutsBack, Cleans, Dies
  <2>4. txn[u].at \in Nat /\ txn[u].at # 0
    BY <2>3 DEF Control, Controlled, Record, Forward
  <2> QED
    BY <2>3, <2>4
<1> QED
  BY <1>1 DEF RestStill, Alone

\* What the phase of an operation says of its file and its backup.
Undoable(t, i) ==
    LET f == PathOf(t, i) IN
    /\ Untouched(t, i) => file[f] = Initial[f]
    /\ Made(t, i) =>
          /\ file[f] = After(t, KindOf(t, i))
          /\ txn[t].pc \notin {"cleanup", "done"} =>
                /\ Initial[f] = Before(KindOf(t, i))
                /\ KindOf(t, i) # "create" => backup[t][f] = Base
    /\ Returned(t, i) => file[f] = Initial[f] \/ f \in txn[t].failed

\* What the checks before a mutation have found.
Ready(t) ==
    /\ txn[t].pc \in {"backup", "confirm", "mutate"} =>
          Initial[Path(t)] = Before(Op(t).kind)
    /\ txn[t].pc \in {"confirm", "mutate"} /\ Op(t).kind = "replace" =>
          backup[t][Path(t)] = Base

\* Until the cleanup no content of before is lost, whatever the phases are; a
\* transaction that died has lost none but what its cleanup had removed.
BaseKept(t) ==
    /\ txn[t].pc \in Forward \cup Backward =>
          \A f \in Present : file[f] # Base => backup[t][f] = Base
    /\ txn[t].pc = "dead" => \A f \in Present :
          \/ file[f] = Base \/ backup[t][f] = Base
          \/ InPlace(t)
          \/ txn[t].at = 0 /\ f \in txn[t].failed

Elsewhere(t, f) == \A i \in Operations(t) : PathOf(t, i) # f

Sound(t) ==
    /\ \A f \in Files : Elsewhere(t, f) => file[f] = Initial[f]
    /\ \A i \in Operations(t) : Undoable(t, i)
    /\ Ready(t)
    /\ BaseKept(t)

\* The operation a transaction works on, as one of its plan.
LEMMA AtFacts ==
    ASSUME Control, NEW t \in Txns, txn[t].pc \in Forward \cup Backward
    PROVE  /\ txn[t].at \in Operations(t)
           /\ Path(t) = PathOf(t, txn[t].at) /\ Op(t).kind = KindOf(t, txn[t].at)
           /\ Path(t) \in Files /\ Op(t).kind \in Kinds
           /\ \A i \in Operations(t) :
                 PathOf(t, i) \in Files /\ (PathOf(t, i) = Path(t) => i = txn[t].at)
<1>1. txn[t].at \in Operations(t)
  BY PlanFacts DEF Control, Controlled, Operations
<1> QED
  BY <1>1, PlanFacts DEF Path, Op, PathOf, KindOf

\* From the cleanup on, what a path held is in it, unless the plan is in place
\* or the rollback, which is over, could not restore the path.
LEMMA OverFacts ==
    ASSUME Control, NEW t \in Txns, txn[t].pc \in {"cleanup", "done"},
           \A f \in Files : Elsewhere(t, f) => file[f] = Initial[f],
           \A i \in Operations(t) : Undoable(t, i)
    PROVE  \/ InPlace(t)
           \/ /\ txn[t].at = 0
              /\ \A f \in Files : file[f] = Initial[f] \/ f \in txn[t].failed
<1>1. Controlled(t, txn[t]) /\ txn[t] \in Record
  BY DEF Control
<1>2. CASE txn[t].result \in {"none", "committed"}
  <2>1. \A i \in Operations(t) : Made(t, i)
    BY <1>1, <1>2 DEF Controlled, Operations, Made
  <2> QED
    BY <2>1 DEF Undoable, InPlace, Operations, PathOf, KindOf
<1>3. CASE txn[t].result \in {"aborted", "rollback_failed"}
  <2>1. \A i \in Operations(t) : ~Made(t, i)
    BY <1>3 DEF Made, Forward
  <2>2. \A i \in Operations(t) : Untouched(t, i) \/ Returned(t, i)
    <3>1. \A i \in Operations(t) : i > txn[t].applied \/ i <= txn[t].applied
      BY <1>1 DEF Record, Operations
    <3> QED
      BY <2>1, <3>1 DEF Untouched, Returned
  <2>3. \A f \in Files : file[f] = Initial[f] \/ f \in txn[t].failed
    BY <2>2 DEF Undoable, Elsewhere
  <2>4. txn[t].at = 0
    BY <1>1, <1>3 DEF Controlled
  <2> QED
    BY <2>3, <2>4
<1> QED
  BY <1>1, <1>2, <1>3 DEF Record

LEMMA SoundKept ==
    ASSUME Control, Control', NEW t \in Txns, Sound(t), Acts(t), RestStill(t)
    PROVE  Sound(t)'
<1>0. /\ \A f \in Files : Elsewhere(t, f) => file[f] = Initial[f]
      /\ \A i \in Operations(t) : Undoable(t, i)
      /\ Ready(t) /\ BaseKept(t)
      /\ \A i \in Operations(t) : PathOf(t, i) \in Files
      /\ file \in [Files -> Contents] /\ backup \in [Txns -> [Files -> Contents]]
      /\ \A f \in Present : f \in Files /\ Initial[f] = Base
  BY PlanFacts, PresentAssumption DEF Sound, Control, Initial
<1>b. BaseKept(t)
  BY DEF Sound
<1>i. Initial' = Initial
  BY DEF Initial
<1>p. txn[t].pc \in Forward \cup Backward => txn[t].pc \notin {"cleanup", "done", "dead"}
  BY DEF Forward, Backward
<1>d. ASSUME txn'[t].pc # "dead",
             \A f \in Present : file'[f] # Base => backup'[t][f] = Base
      PROVE  BaseKept(t)'
  BY <1>d DEF BaseKept
<1>e. ASSUME \A f \in Files : Elsewhere(t, f) => file'[f] = Initial[f],
             \A i \in Operations(t) : Undoable(t, i)', Ready(t)', BaseKept(t)'
      PROVE  Sound(t)'
  BY <1>e, <1>i DEF Sound, Elsewhere, Operations, PathOf
<1>1. CASE Looks(t)
  <2>1. /\ file' = file /\ backup' = backup /\ txn'[t].failed = txn[t].failed
        /\ \A i \in Operations(t) : PhaseKept(t, i)
        /\ txn[t].pc \notin {"cleanup", "done"} /\ txn'[t].pc \notin {"done", "dead"}
        /\ txn[t].pc \in Forward \cup Backward
    BY <1>1, <1>p DEF Looks, KeepsAll, Forward, Backward
  <2>2. \A i \in Operations(t) : Undoable(t, i)'
    BY <1>0, <2>1 DEF Undoable, PhaseKept, PathOf, KindOf, Initial
  <2>3. Ready(t)'
    <3>1. ASSUME txn'[t].pc \in {"backup", "mutate"}
          PROVE  /\ txn'[t].at = txn[t].at /\ Initial[Path(t)] = Before(Op(t).kind)
      <4>1. txn'[t].at = txn[t].at /\ BaseHolds(t) /\ txn[t].pc \in Forward \cup Backward
        BY <1>1, <3>1 DEF Looks
      <4>2. txn'[t].applied = txn'[t].at - 1 /\ txn'[t].at \in Nat
        BY <3>1 DEF Control, Controlled, Record
      <4>3. txn'[t].at > txn'[t].applied
        BY <4>2
      <4>4. \A i \in Operations(t) : i = txn[t].at => Untouched(t, i)'
        BY <3>1, <4>1, <4>3 DEF Untouched
      <4>5. Undoable(t, txn[t].at) /\ Untouched(t, txn[t].at)
        BY <1>0, <2>1, <4>1, <4>4, AtFacts DEF PhaseKept
      <4> QED
        BY <4>1, <4>5, AtFacts DEF Undoable, BaseHolds
    <3>2. ASSUME txn'[t].pc = "mutate", Op(t).kind = "replace"
          PROVE  backup[t][Path(t)] = Base
      BY <1>0, <1>1, <3>2 DEF Looks, Ready
    <3>3. txn'[t].pc # "confirm"
      BY <1>1 DEF Looks, Forward
    <3>4. txn'[t].at = txn[t].at => Path(t)' = Path(t) /\ Op(t)' = Op(t)
      BY DEF Path, Op
    <3> QED
      BY <2>1, <3>1, <3>2, <3>3, <3>4 DEF Ready, Initial
  <2>4. BaseKept(t)'
    BY <1>b, <1>d, <2>1 DEF BaseKept
  <2>5. \A f \in Files : Elsewhere(t, f) => file'[f] = Initial[f]
    BY <1>0, <2>1
  <2> QED
    BY <1>e, <2>2, <2>3, <2>4, <2>5
<1>2. CASE GivesUp(t)
  <2>1. /\ file' = file /\ backup' = backup /\ txn[t].failed \subseteq txn'[t].failed
        /\ \A i \in Operations(t) : i # txn[t].at => PhaseKept(t, i)
        /\ txn[t].pc \in Backward /\ txn[t].pc \notin {"cleanup", "done"}
        /\ txn'[t].pc \in {"undo", "cleanup"}
    BY <1>2, <1>p DEF GivesUp, KeepsOthers, LosesNone, Backward
  <2>2. ASSUME NEW i \in Operations(t)
        PROVE  Undoable(t, i)'
    <3>1. CASE i # txn[t].at
      BY <1>0, <2>1, <3>1 DEF Undoable, PhaseKept, PathOf, KindOf, Initial
    <3>2. CASE i = txn[t].at
      <4>1. Returned(t, i)' /\ ~Made(t, i)' /\ ~Untouched(t, i)'
        <5>1. Returned(t, i)'
          BY <1>2, <3>2 DEF GivesUp
        <5>2. txn'[t].applied \in Nat /\ i \in Nat
          BY DEF Control, Record, Operations
        <5> QED
          BY <5>1, <5>2 DEF Returned, Untouched
      <4>2. file[PathOf(t, i)] = Initial[PathOf(t, i)] \/ PathOf(t, i) \in txn'[t].failed
        <5>1. CASE txn[t].pc = "restored"
          BY <1>0, <1>2, <2>1, <3>2, <5>1 DEF GivesUp, Undoable
        <5>2. CASE txn[t].pc # "restored"
          BY <1>2, <2>1, <3>2, <5>2, AtFacts DEF GivesUp
        <5> QED
          BY <5>1, <5>2
      <4> QED
        BY <2>1, <4>1, <4>2 DEF Undoable, PathOf, KindOf, Initial
    <3> QED
      BY <3>1, <3>2
  <2>3. BaseKept(t)' /\ Ready(t)'
    BY <1>b, <1>d, <2>1 DEF BaseKept, Ready
  <2>4. \A f \in Files : Elsewhere(t, f) => file'[f] = Initial[f]
    BY <1>0, <2>1
  <2> QED
    BY <1>e, <2>2, <2>3, <2>4
<1>3. CASE BacksUp(t)
  <2>0. txn[t].pc \in Forward /\ txn[t].at > txn[t].applied /\ txn[t].pc = "backup"
        /\ KindOf(t, txn[t].at) = "replace"
    BY <1>3 DEF BacksUp, Forward, Control, Controlled, Record
  <2>1. /\ file' = file /\ txn'[t].failed = txn[t].failed
        /\ \A i \in Operations(t) : PhaseKept(t, i)
        /\ backup'[t] = [backup[t] EXCEPT ![Path(t)] = file[Path(t)]]
        /\ txn'[t].pc \in {"confirm", "undo", "cleanup"}
    BY <1>0, <1>3 DEF BacksUp, KeepsAll
  <2>2. ASSUME NEW i \in Operations(t)
        PROVE  Undoable(t, i)'
    <3>1. CASE i # txn[t].at
      <4>1. backup'[t][PathOf(t, i)] = backup[t][PathOf(t, i)]
        BY <1>0, <2>0, <2>1, <3>1, AtFacts
      <4> QED
        BY <1>0, <2>0, <2>1, <4>1 DEF Undoable, PhaseKept, PathOf, KindOf, Initial
    <3>2. CASE i = txn[t].at
      <4>1. Untouched(t, i) /\ ~Made(t, i) /\ ~Returned(t, i)
        <5>1. i > txn[t].applied /\ ~(i <= txn[t].applied)
          BY <2>0, <3>2 DEF Control, Record, Operations
        <5> QED
          BY <2>0, <5>1 DEF Untouched, Made, Returned
      <4> QED
        BY <1>0, <2>1, <4>1 DEF Undoable, PhaseKept, PathOf, Initial
    <3> QED
      BY <3>1, <3>2
  <2>3. Initial[Path(t)] = Before(Op(t).kind) /\ file[Path(t)] = Initial[Path(t)]
    <3>1. Untouched(t, txn[t].at)
      BY <2>0 DEF Untouched
    <3> QED
      BY <1>0, <2>0, <3>1, AtFacts DEF Undoable, Ready
  <2>4. Ready(t)'
    <3>1. ASSUME txn'[t].pc = "confirm"
          PROVE  Path(t)' = Path(t) /\ Op(t)' = Op(t)
      BY <1>3, <3>1 DEF BacksUp, Path, Op
    <3>2. backup'[t][Path(t)] = Base
      BY <1>0, <2>0, <2>1, <2>3, AtFacts DEF Before
    <3> QED
      BY <2>1, <2>3, <3>1, <3>2, <1>i DEF Ready
  <2>5. BaseKept(t)'
    <3>1. ASSUME NEW f \in Present, file[f] # Base
          PROVE  backup'[t][f] = Base
      <4>1. f # Path(t)
        BY <1>0, <2>3, <3>1
      <4> QED
        BY <1>0, <1>b, <2>0, <2>1, <3>1, <4>1 DEF BaseKept
    <3> QED
      BY <1>d, <2>1, <3>1
  <2>6. \A f \in Files : Elsewhere(t, f) => file'[f] = Initial[f]
    BY <1>0, <2>1
  <2> QED
    BY <1>e, <2>2, <2>4, <2>5, <2>6
<1>4. CASE Makes(t)
  <2>0. /\ txn[t].pc \in Forward /\ txn[t].pc = "mutate"
        /\ txn[t].pc \notin {"cleanup", "done"}
    BY <1>4 DEF Makes, Forward
  <2>1. /\ file' = [file EXCEPT ![Path(t)] = After(t, Op(t).kind)]
        /\ backup'[t] = [backup[t] EXCEPT ![Path(t)] =
                            IF Op(t).kind = "delete" THEN file[Path(t)] ELSE @]
        /\ txn'[t].failed = txn[t].failed /\ txn'[t].pc \in {"check", "verify"}
        /\ \A i \in Operations(t) : i # txn[t].at => PhaseKept(t, i)
        /\ \A i \in Operations(t) : i = txn[t].at => Untouched(t, i) /\ Made(t, i)'
    BY <1>0, <1>4 DEF Makes, KeepsOthers
  <2>2. /\ Initial[Path(t)] = Before(Op(t).kind) /\ file[Path(t)] = Initial[Path(t)]
        /\ Op(t).kind = "replace" => backup[t][Path(t)] = Base
    BY <1>0, <2>0, <2>1, AtFacts DEF Undoable, Ready
  <2>3. Op(t).kind # "create" => backup'[t][Path(t)] = Base
    BY <1>0, <2>0, <2>1, <2>2, AtFacts DEF Before, Kinds
  <2>4. ASSUME NEW i \in Operations(t)
        PROVE  Undoable(t, i)'
    <3>1. CASE i # txn[t].at
      <4>1. /\ backup'[t][PathOf(t, i)] = backup[t][PathOf(t, i)]
            /\ file'[PathOf(t, i)] = file[PathOf(t, i)]
        BY <1>0, <2>0, <2>1, <3>1, AtFacts
      <4> QED
        BY <1>0, <1>i, <2>0, <2>1, <3>1, <4>1 DEF Undoable, PhaseKept, PathOf, KindOf
    <3>2. CASE i = txn[t].at
      <4>1. PathOf(t, i) = Path(t) /\ KindOf(t, i) = Op(t).kind /\ Path(t) \in Files
        BY <2>0, <3>2, AtFacts
      <4>2. file'[PathOf(t, i)] = After(t, KindOf(t, i))
        BY <1>0, <2>1, <4>1
      <4>3. Made(t, i)' /\ ~Untouched(t, i)' /\ ~Returned(t, i)'
        <5>1. Made(t, i)'
          BY <2>1, <3>2
        <5>2. txn'[t].applied \in Nat /\ i \in Nat
          BY DEF Control, Record, Operations
        <5> QED
          BY <5>1, <5>2 DEF Made, Untouched, Returned
      <4> QED
        BY <1>i, <2>2, <2>3, <4>1, <4>2, <4>3 DEF Undoable, PathOf, KindOf
    <3> QED
      BY <3>1, <3>2
  <2>5. Ready(t)'
    BY <2>1 DEF Ready
  <2>6. BaseKept(t)'
    <3>1. ASSUME NEW f \in Present, file'[f] # Base
          PROVE  backup'[t][f] = Base
      <4>1. CASE f = Path(t)
        BY <1>0, <2>2, <2>3, <4>1, ContentsAssumption DEF Before
      <4>2. CASE f # Path(t)
        BY <1>0, <1>b, <2>0, <2>1, <3>1, <4>2 DEF BaseKept
      <4> QED
        BY <4>1, <4>2
    <3> QED
      BY <1>d, <2>1, <3>1
  <2>7. \A f \in Files : Elsewhere(t, f) => file'[f] = Initial[f]
    BY <1>0, <2>0, <2>1, AtFacts DEF Elsewhere
  <2> QED
    BY <1>e, <2>4, <2>5, <2>6, <2>7
<1>5. CASE TakesBack(t) \/ PutsBack(t)
  <2>0. txn[t].pc \in Backward /\ txn[t].pc \notin {"cleanup", "done"}
    BY <1>5, <1>p DEF TakesBack, PutsBack, Backward
  <2>1. /\ \A f \in Files \ {Path(t)} : file'[f] = file[f] /\ backup'[t][f] = backup[t][f]
        /\ txn[t].failed \subseteq txn'[t].failed
        /\ txn'[t].pc \in {"undo", "cleanup", "restored"}
        /\ \A i \in Operations(t) : i # txn[t].at => PhaseKept(t, i)
        /\ \A i \in Operations(t) : i = txn[t].at => Made(t, i) /\ Returned(t, i)'
    BY <1>0, <1>5 DEF TakesBack, PutsBack, KeepsOthers, LosesNone
  <2>2. /\ Initial[Path(t)] = Before(Op(t).kind)
        /\ Op(t).kind # "create" => backup[t][Path(t)] = Base
    BY <1>0, <2>0, <2>1, AtFacts DEF Undoable
  <2>3. file'[Path(t)] = Initial[Path(t)]
    BY <1>0, <1>5, <2>0, <2>2, AtFacts DEF TakesBack, PutsBack, Before
  <2>4. ASSUME NEW i \in Operations(t)
        PROVE  Undoable(t, i)'
    <3>1. CASE i # txn[t].at
      <4>1. /\ backup'[t][PathOf(t, i)] = backup[t][PathOf(t, i)]
            /\ file'[PathOf(t, i)] = file[PathOf(t, i)]
        BY <1>0, <2>0, <2>1, <3>1, AtFacts
      <4> QED
        BY <1>0, <1>i, <2>0, <2>1, <3>1, <4>1 DEF Undoable, PhaseKept, PathOf, KindOf
    <3>2. CASE i = txn[t].at
      <4>1. PathOf(t, i) = Path(t)
        BY <2>0, <3>2, AtFacts
      <4>2. Returned(t, i)' /\ ~Untouched(t, i)' /\ ~Made(t, i)'
        <5>1. Returned(t, i)'
          BY <2>1, <3>2
        <5>2. txn'[t].applied \in Nat /\ i \in Nat
          BY DEF Control, Record, Operations
        <5> QED
          BY <5>1, <5>2 DEF Untouched, Returned
      <4> QED
        BY <1>i, <2>3, <4>1, <4>2 DEF Undoable, PathOf
    <3> QED
      BY <3>1, <3>2
  <2>5. Ready(t)'
    BY <2>1 DEF Ready
  <2>6. BaseKept(t)'
    <3>1. ASSUME NEW f \in Present, file'[f] # Base
          PROVE  backup'[t][f] = Base
      <4>1. f # Path(t)
        BY <1>0, <2>3, <3>1
      <4> QED
        BY <1>0, <1>b, <2>0, <2>1, <3>1, <4>1 DEF BaseKept
    <3> QED
      BY <1>d, <2>1, <3>1
  <2>7. \A f \in Files : Elsewhere(t, f) => file'[f] = Initial[f]
    <3>1. ASSUME NEW f \in Files, Elsewhere(t, f)
          PROVE  f # Path(t)
      BY <2>0, <3>1, AtFacts DEF Elsewhere
    <3> QED
      BY <1>0, <2>1, <3>1
  <2> QED
    BY <1>e, <2>4, <2>5, <2>6, <2>7
<1>6. CASE Cleans(t)
  <2>1. /\ file' = file /\ txn'[t].failed = txn[t].failed
        /\ txn'[t].pc \in {"cleanup", "done"}
        /\ \A i \in Operations(t) : PhaseKept(t, i)
    BY <1>6 DEF Cleans, KeepsAll
  <2>2. \A i \in Operations(t) : Undoable(t, i)'
    BY <1>0, <1>i, <2>1 DEF Undoable, PhaseKept, PathOf, KindOf
  <2>3. Ready(t)' /\ BaseKept(t)'
    BY <2>1 DEF Ready, BaseKept, Forward, Backward
  <2>4. \A f \in Files : Elsewhere(t, f) => file'[f] = Initial[f]
    BY <1>0, <2>1
  <2> QED
    BY <1>e, <2>2, <2>3, <2>4
<1>7. CASE Dies(t)
  <2>1. /\ file' = file /\ backup' = backup /\ txn[t].pc \notin Ended /\ txn'[t].pc = "dead"
        /\ txn'[t].at = txn[t].at /\ txn'[t].failed = txn[t].failed
    BY <1>7 DEF Dies
  <2>2. \A i \in Operations(t) : Undoable(t, i)'
    BY <2>1 DEF Undoable, Untouched, Made, Returned, Forward
  <2>3. txn[t].pc \in Forward \cup Backward \/ txn[t].pc = "cleanup"
    BY <2>1 DEF Control, Record
  <2>4. ASSUME NEW f \in Present
        PROVE  \/ file[f] = Base \/ backup[t][f] = Base \/ InPlace(t)
               \/ txn[t].at = 0 /\ f \in txn[t].failed
    <3>1. CASE txn[t].pc \in Forward \cup Backward
      BY <1>b, <3>1 DEF BaseKept
    <3>2. CASE txn[t].pc = "cleanup"
      BY <1>0, <3>2, OverFacts
    <3> QED
      BY <2>3, <3>1, <3>2
  <2>5. InPlace(t)' <=> InPlace(t)
    BY <2>1 DEF InPlace
  <2>6. Ready(t)' /\ BaseKept(t)'
    <3>1. Ready(t)' /\ txn'[t].pc \notin Forward \cup Backward
      BY <2>1 DEF Ready, Forward, Backward
    <3>2. ASSUME NEW f \in Present
          PROVE  \/ file'[f] = Base \/ backup'[t][f] = Base \/ InPlace(t)'
                 \/ txn'[t].at = 0 /\ f \in txn'[t].failed
      BY <2>1, <2>4, <2>5
    <3> QED
      BY <3>1, <3>2 DEF BaseKept
  <2>7. \A f \in Files : Elsewhere(t, f) => file'[f] = Initial[f]
    BY <1>0, <2>1
  <2> QED
    BY <1>e, <2>2, <2>6, <2>7
<1> QED
  BY <1>1, <1>2, <1>3, <1>4, <1>5, <1>6, <1>7 DEF Acts

AloneIsSound == edits = 0 => \A t \in Txns : Alone(t) => Sound(t)

LEMMA InitSound ==
    ASSUME Init
    PROVE  AloneIsSound
<1> SUFFICES ASSUME NEW t \in Txns
             PROVE  Sound(t)
  BY DEF AloneIsSound
<1>1. file = Initial /\ txn[t] = NotBegun
  BY DEF Init
<1>2. txn[t].pc = "stage" /\ txn[t].applied = 0
  BY <1>1 DEF NotBegun
<1>3. \A i \in Operations(t) : ~Made(t, i) /\ ~Returned(t, i)
  BY <1>2 DEF Operations, Made, Returned
<1>4. \A f \in Present : file[f] = Base
  BY <1>1, PresentAssumption DEF Initial
<1> QED
  BY <1>1, <1>2, <1>3, <1>4 DEF Sound, Undoable, Ready, BaseKept

LEMMA NextSound ==
    ASSUME Control, Control', AloneIsSound, [Next]_vars
    PROVE  AloneIsSound'
<1> SUFFICES ASSUME edits' = 0, NEW t \in Txns, Alone(t)'
             PROVE  Sound(t)'
  BY DEF AloneIsSound
<1>1. CASE UNCHANGED vars
  <2>1. file' = file /\ backup' = backup /\ txn' = txn /\ edits' = edits
    BY <1>1 DEF vars
  <2>2. Sound(t)
    BY <2>1 DEF AloneIsSound, Alone, NotBegun
  <2>3. \A i \in Operations(t) : Undoable(t, i)'
    BY <2>1, <2>2 DEF Sound, Undoable, Untouched, Made, Returned, Initial, PathOf, KindOf
  <2>4. Ready(t)'
    BY <2>1, <2>2 DEF Sound, Ready, Op, Path, Initial
  <2>5. BaseKept(t)'
    BY <2>1, <2>2 DEF Sound, BaseKept, InPlace
  <2> QED
    BY <2>1, <2>2, <2>3, <2>4, <2>5 DEF Sound, Elsewhere, Operations, PathOf, Initial
<1>2. ASSUME NEW f \in Files, Edit(f)
      PROVE  FALSE
  BY <1>2 DEF Edit, Control
<1>3. ASSUME NEW u \in Txns, Step(u) \/ Crash(u)
      PROVE  Sound(t)'
  <2>1. Acts(u) /\ RestStill(u)
    BY <1>3, StepActs
  <2>2. Alone(t) /\ u = t
    BY <2>1, AloneBefore
  <2>3. edits = 0
    BY <2>1 DEF RestStill
  <2> QED
    BY <2>1, <2>2, <2>3, SoundKept DEF AloneIsSound
<1> QED
  BY <1>1, <1>2, <1>3 DEF Next

\* As long as a transaction is by itself, each path and its backup hold what
\* its place in the commit or the rollback says, whatever call of it rejects.
THEOREM SoundnessIsKept == Spec => []AloneIsSound
BY InitControl, NextControl, InitSound, NextSound, PTL DEF Spec

\* One transaction by itself, whatever call of it rejects: when it returns its
\* receipt every path is as planned, and when it throws every path is as
\* before or named in the report of ROLLBACK_FAILED.
THEOREM AlonePatchesOrReports == Spec => []AllOrReported
<1>1. ASSUME Control, AloneIsSound
      PROVE  AllOrReported
  <2> SUFFICES ASSUME edits = 0, NEW t \in Txns, Alone(t), txn[t].pc = "done"
               PROVE  \/ txn[t].result = "committed" /\ InPlace(t)
                      \/ /\ txn[t].result \in {"aborted", "rollback_failed"}
                         /\ txn[t].result = "rollback_failed" <=> txn[t].failed # {}
                         /\ \A f \in Files : file[f] = Initial[f] \/ f \in txn[t].failed
    BY DEF AllOrReported
  <2>1. /\ \A f \in Files : Elsewhere(t, f) => file[f] = Initial[f]
        /\ \A i \in Operations(t) : Undoable(t, i)
        /\ Controlled(t, txn[t]) /\ txn[t] \in Record
    BY <1>1 DEF AloneIsSound, Sound, Control
  <2>2. txn[t].result \in {"committed", "aborted", "rollback_failed"}
    BY <2>1 DEF Controlled, Record
  <2>3. CASE txn[t].result = "committed"
    <3>1. \A i \in Operations(t) : Made(t, i)
      BY <2>1, <2>3 DEF Controlled, Operations, Made
    <3> QED
      BY <2>1, <2>3, <3>1 DEF Undoable, InPlace, Operations, PathOf, KindOf
  <2>4. CASE txn[t].result \in {"aborted", "rollback_failed"}
    <3>1. \A i \in Operations(t) : Untouched(t, i) \/ Returned(t, i)
      <4>1. \A i \in Operations(t) : ~Made(t, i)
        BY <2>4 DEF Made, Forward
      <4>2. \A i \in Operations(t) : i > txn[t].applied \/ i <= txn[t].applied
        BY <2>1 DEF Record, Operations
      <4> QED
        BY <4>1, <4>2 DEF Untouched, Returned
    <3>2. ASSUME NEW f \in Files
          PROVE  file[f] = Initial[f] \/ f \in txn[t].failed
      BY <2>1, <3>1 DEF Undoable, Elsewhere
    <3>3. txn[t].result = "rollback_failed" <=> txn[t].failed # {}
      BY <2>1 DEF Controlled
    <3> QED
      BY <2>4, <3>2, <3>3
  <2> QED
    BY <2>2, <2>3, <2>4
<1> QED
  BY <1>1, ControlIsKept, SoundnessIsKept, PTL

\* Wherever a transaction by itself stands or dies, what each path held is in
\* the path or in its backup, but for a plan that is in place as a whole and for
\* the paths a rollback that is over could not restore.
THEOREM BaseIsKept == Spec => []BaseStaysOnDisk
<1>1. ASSUME Control, AloneIsSound
      PROVE  BaseStaysOnDisk
  <2> SUFFICES ASSUME edits = 0, NEW t \in Txns, Alone(t), NEW f \in Present
               PROVE  \/ file[f] = Base \/ backup[t][f] = Base
                      \/ txn[t].pc \notin Forward \cup Backward /\ InPlace(t)
                      \/ txn[t].at = 0 /\ f \in txn[t].failed
    BY DEF BaseStaysOnDisk
  <2>1. Sound(t) /\ txn[t].pc \in Forward \cup Backward \cup {"cleanup"} \cup Ended
    BY <1>1 DEF AloneIsSound, Control, Record
  <2>2. f \in Files /\ Initial[f] = Base
    BY PresentAssumption DEF Initial
  <2>3. CASE txn[t].pc \in Forward \cup Backward \cup {"dead"}
    BY <2>1, <2>3 DEF Sound, BaseKept, Forward, Backward
  <2>4. CASE txn[t].pc \in {"cleanup", "done"}
    BY <1>1, <2>1, <2>2, <2>4, OverFacts DEF Sound, Forward, Backward
  <2> QED
    BY <2>1, <2>3, <2>4 DEF Ended
<1> QED
  BY <1>1, ControlIsKept, SoundnessIsKept, PTL

(***************************************************************************)
(* One transaction and an editor: where its own content may be.            *)
(***************************************************************************)
\* In none of its backups, and only at the paths of standing mutations or of
\* those it reports.
Clean(t) ==
    /\ \A f \in Files : backup[t][f] # t
    /\ txn[t].pc # "dead" =>
          \A f \in Files : file[f] = t /\ f \notin txn[t].failed =>
              \E i \in Operations(t) : PathOf(t, i) = f /\ Made(t, i)

LEMMA CleanKept ==
    ASSUME Control, NEW t \in Txns, Clean(t), Acts(t)
    PROVE  Clean(t)'
<1>0. /\ file \in [Files -> Contents] /\ backup \in [Txns -> [Files -> Contents]]
      /\ \A f \in Files : backup[t][f] # t
      /\ t # Absent
  BY ContentsAssumption DEF Control, Clean
<1>e. ASSUME \A f \in Files : backup'[t][f] # t, txn'[t].pc # "dead",
             \A f \in Files : file'[f] = t /\ f \notin txn'[t].failed =>
                 \E i \in Operations(t) : PathOf(t, i) = f /\ Made(t, i)'
      PROVE  Clean(t)'
  BY <1>e DEF Clean, Operations, PathOf
<1>l. ASSUME txn[t].pc # "dead", NEW f \in Files, file[f] = t, f \notin txn[t].failed
      PROVE  \E i \in Operations(t) : PathOf(t, i) = f /\ Made(t, i)
  BY <1>l DEF Clean
\* Before its mutation a path does not hold the content.
<1>m. ASSUME txn[t].pc \in {"backup", "mutate"}
      PROVE  file[Path(t)] # t /\ Path(t) \in Files
  <2>1. txn[t].pc \in Forward /\ txn[t].applied = txn[t].at - 1 /\ txn[t].failed = {}
        /\ txn[t].at \in Nat
    BY <1>m DEF Forward, Control, Controlled, Record
  <2>2. \A i \in Operations(t) : i = txn[t].at => ~Made(t, i)
    BY <2>1 DEF Made
  <2> QED
    BY <1>l, <2>1, <2>2, AtFacts DEF Forward
<1>1. CASE Looks(t) \/ Cleans(t)
  <2>1. /\ file' = file /\ txn'[t].failed = txn[t].failed
        /\ txn[t].pc # "dead" /\ txn'[t].pc # "dead"
        /\ \A f \in Files : backup'[t][f] \in {backup[t][f], Absent}
        /\ \A i \in Operations(t) : Made(t, i)' <=> Made(t, i)
    BY <1>1 DEF Looks, Cleans, KeepsAll, PhaseKept, Forward, Backward
  <2> QED
    BY <1>0, <1>e, <1>l, <2>1
<1>2. CASE GivesUp(t)
  <2>1. /\ UNCHANGED <<file, backup>> /\ txn[t].failed \subseteq txn'[t].failed
        /\ txn[t].pc \in Backward /\ txn[t].pc # "dead" /\ txn'[t].pc # "dead"
        /\ \A i \in Operations(t) : i # txn[t].at => (Made(t, i)' <=> Made(t, i))
        /\ \A i \in Operations(t) : i = txn[t].at => (Made(t, i) <=> txn[t].pc # "restored")
        /\ txn[t].pc = "restored" \/ Path(t) \in txn'[t].failed
    BY <1>2 DEF GivesUp, KeepsOthers, LosesNone, PhaseKept, Backward
  <2>2. ASSUME NEW f \in Files, file'[f] = t, f \notin txn'[t].failed
        PROVE  \E i \in Operations(t) : PathOf(t, i) = f /\ Made(t, i)'
    <3>1. PICK i \in Operations(t) : PathOf(t, i) = f /\ Made(t, i)
      BY <1>l, <2>1, <2>2
    <3>2. i # txn[t].at
      BY <2>1, <2>2, <3>1, AtFacts
    <3> QED
      BY <2>1, <3>1, <3>2
  <2> QED
    BY <1>0, <1>e, <2>1, <2>2
<1>3. CASE BacksUp(t)
  <2>1. /\ file' = file /\ txn'[t].failed = txn[t].failed
        /\ txn[t].pc = "backup" /\ txn'[t].pc # "dead"
        /\ backup' = [backup EXCEPT ![t][Path(t)] = file[Path(t)]]
        /\ \A i \in Operations(t) : Made(t, i)' <=> Made(t, i)
    BY <1>3 DEF BacksUp, KeepsAll, PhaseKept
  <2>2. \A f \in Files : backup'[t][f] # t
    BY <1>0, <1>m, <2>1
  <2> QED
    BY <1>e, <1>l, <2>1, <2>2
<1>4. CASE Makes(t)
  <2>1. /\ file' = [file EXCEPT ![Path(t)] = After(t, Op(t).kind)]
        /\ backup' = [backup EXCEPT ![t][Path(t)] =
                         IF Op(t).kind = "delete" THEN file[Path(t)] ELSE @]
        /\ txn'[t].failed = txn[t].failed
        /\ txn[t].pc = "mutate" /\ txn[t].pc \in Forward /\ txn'[t].pc # "dead"
        /\ \A i \in Operations(t) : i # txn[t].at => (Made(t, i)' <=> Made(t, i))
        /\ \A i \in Operations(t) : i = txn[t].at => Made(t, i)'
    BY <1>4 DEF Makes, KeepsOthers, PhaseKept, Forward
  <2>2. \A f \in Files : backup'[t][f] # t
    BY <1>0, <1>m, <2>1
  <2>3. ASSUME NEW f \in Files, file'[f] = t, f \notin txn'[t].failed
        PROVE  \E i \in Operations(t) : PathOf(t, i) = f /\ Made(t, i)'
    <3>1. CASE f = Path(t)
      BY <2>1, <3>1, AtFacts
    <3>2. CASE f # Path(t)
      BY <1>0, <1>l, <2>1, <2>3, <3>2, AtFacts
    <3> QED
      BY <3>1, <3>2
  <2> QED
    BY <1>e, <2>1, <2>2, <2>3
<1>5. CASE TakesBack(t) \/ PutsBack(t)
  <2>1. /\ txn[t].pc = "restore" /\ txn[t].pc \in Backward /\ txn'[t].pc # "dead"
        /\ txn[t].failed \subseteq txn'[t].failed
        /\ \A i \in Operations(t) : i # txn[t].at => (Made(t, i)' <=> Made(t, i))
    BY <1>5 DEF TakesBack, PutsBack, KeepsOthers, LosesNone, PhaseKept, Backward
  <2>2. /\ \A f \in Files : backup'[t][f] # t
        /\ file'[Path(t)] # t
        /\ \A f \in Files : f # Path(t) => file'[f] = file[f]
    BY <1>0, <1>5, <2>1, AtFacts DEF TakesBack, PutsBack
  <2>3. ASSUME NEW f \in Files, file'[f] = t, f \notin txn'[t].failed
        PROVE  \E i \in Operations(t) : PathOf(t, i) = f /\ Made(t, i)'
    <3>1. f # Path(t)
      BY <2>2, <2>3
    <3>2. PICK i \in Operations(t) : PathOf(t, i) = f /\ Made(t, i)
      BY <1>l, <2>1, <2>2, <2>3, <3>1
    <3> QED
      BY <2>1, <3>1, <3>2, AtFacts
  <2> QED
    BY <1>e, <2>1, <2>2, <2>3
<1>6. CASE Dies(t)
  BY <1>0, <1>6 DEF Dies, Clean
<1> QED
  BY <1>1, <1>2, <1>3, <1>4, <1>5, <1>6 DEF Acts

AloneIsClean == \A t \in Txns : Alone(t) => Clean(t)

LEMMA InitClean ==
    ASSUME Init
    PROVE  AloneIsClean
<1> SUFFICES ASSUME NEW t \in Txns
             PROVE  Clean(t)
  BY DEF AloneIsClean
<1>1. t # Absent /\ t # Base
  BY ContentsAssumption
<1> QED
  BY <1>1 DEF Init, Initial, Clean

LEMMA NextClean ==
    ASSUME Control, Control', AloneIsClean, [Next]_vars
    PROVE  AloneIsClean'
<1> SUFFICES ASSUME NEW t \in Txns, Alone(t)'
             PROVE  Clean(t)'
  BY DEF AloneIsClean
<1>1. ASSUME UNCHANGED <<backup, txn>>, NEW f \in Files,
             \A g \in Files : g # f => file'[g] = file[g], file'[f] # t \/ file'[f] = file[f]
      PROVE  Clean(t)'
  <2>1. Clean(t)
    BY <1>1 DEF AloneIsClean, Alone
  <2>2. \A g \in Files : file'[g] = t => file[g] = t
    BY <1>1
  <2> QED
    BY <1>1, <2>1, <2>2 DEF Clean, Operations, PathOf, Made
<1>2. CASE UNCHANGED vars
  <2>1. Clean(t)
    BY <1>2 DEF AloneIsClean, Alone, vars
  <2> QED
    BY <1>2, <2>1 DEF Clean, Operations, PathOf, Made, vars
<1>3. ASSUME NEW f \in Files, Edit(f)
      PROVE  Clean(t)'
  <2>1. t # Edited /\ t # Absent
    BY ContentsAssumption
  <2> QED
    BY <1>1, <1>3, <2>1 DEF Edit, Control
<1>4. ASSUME NEW u \in Txns, Step(u) \/ Crash(u)
      PROVE  Clean(t)'
  BY <1>4, StepActs, AloneBefore, CleanKept DEF AloneIsClean
<1> QED
  BY <1>2, <1>3, <1>4 DEF Next

\* Whatever an editor does meanwhile, a transaction by itself that throws
\* anything but ROLLBACK_FAILED leaves none of its own content behind.
THEOREM AbortLeavesNoResidue == Spec => []NoResidue
<1>1. ASSUME Control, AloneIsClean
      PROVE  NoResidue
  <2> SUFFICES ASSUME NEW t \in Txns, Alone(t), txn[t].pc = "done", txn[t].result = "aborted"
               PROVE  \A f \in Files : file[f] # t
    BY DEF NoResidue
  <2>1. Clean(t) /\ txn[t].failed = {}
    BY <1>1 DEF AloneIsClean, Control, Controlled
  <2>2. \A i \in Operations(t) : ~Made(t, i)
    BY DEF Made, Forward
  <2> QED
    BY <2>1, <2>2 DEF Clean
<1>2. Spec => []AloneIsClean
  BY InitControl, NextControl, InitClean, NextClean, PTL DEF Spec
<1> QED
  BY <1>1, <1>2, ControlIsKept, PTL

(***************************************************************************)
(* All transactions, and no editor: the files they create.                 *)
(***************************************************************************)
New(t, i) == i \in Operations(t) /\ PathOf(t, i) \notin Present

\* The transaction has found the operation's base in its file once.
Passed(t, i) ==
    txn[t].pc \in Forward \cup Backward /\ (txn[t].pc = "stage" => i < txn[t].at)

CreationsOnly ==
    /\ \A f \in Files \ Present :
          file[f] # Base /\ \A u \in Txns : backup[u][f] # Base
    /\ \A t \in Txns : \A i : New(t, i) /\ Passed(t, i) => KindOf(t, i) = "create"

\* A creation nobody has taken back is in its file.
CreationsHeld ==
    \A t \in Txns : \A i :
        New(t, i) /\ KindOf(t, i) = "create" /\ Made(t, i) => file[PathOf(t, i)] = t

\* Where no file was before, only a create passes, and no step brings Base.
LEMMA CreationsOnlyKept ==
    ASSUME Control, NEW u \in Txns, Acts(u), RestStill(u), CreationsOnly
    PROVE  CreationsOnly'
<1>0. /\ file \in [Files -> Contents] /\ backup \in [Txns -> [Files -> Contents]]
      /\ u # Base /\ Absent # Base
  BY ContentsAssumption DEF Control
<1>1. ASSUME NEW f \in Files \ Present
      PROVE  /\ file'[f] # Base
             /\ \A v \in Txns : backup'[v][f] # Base
  <2>1. file[f] # Base /\ \A v \in Txns : backup[v][f] # Base
    BY <1>1 DEF CreationsOnly
  <2>2. CASE Looks(u) \/ GivesUp(u) \/ Dies(u)
    BY <2>1, <2>2 DEF Looks, GivesUp, Dies
  <2>3. CASE BacksUp(u)
    <3>1. file' = file /\ backup' = [backup EXCEPT ![u][Path(u)] = file[Path(u)]]
      BY <2>3 DEF BacksUp
    <3> QED
      BY <1>0, <2>1, <3>1
  <2>4. CASE Makes(u)
    <3>1. /\ file' = [file EXCEPT ![Path(u)] = After(u, Op(u).kind)]
          /\ backup' = [backup EXCEPT ![u][Path(u)] =
                           IF Op(u).kind = "delete" THEN file[Path(u)] ELSE @]
      BY <2>4 DEF Makes
    <3>2. After(u, Op(u).kind) # Base
      BY <1>0 DEF After
    <3> QED
      BY <1>0, <2>1, <3>1, <3>2
  <2>5. CASE TakesBack(u) \/ PutsBack(u)
    BY <1>0, <2>1, <2>5 DEF TakesBack, PutsBack
  <2>6. CASE Cleans(u)
    BY <1>0, <2>1, <2>6 DEF Cleans
  <2> QED
    BY <2>2, <2>3, <2>4, <2>5, <2>6 DEF Acts
<1>2. ASSUME NEW t \in Txns, NEW i, New(t, i), Passed(t, i)'
      PROVE  KindOf(t, i) = "create"
  <2>1. CASE Passed(t, i)
    BY <1>2, <2>1 DEF CreationsOnly
  <2>2. CASE ~Passed(t, i)
    <3>1. t = u
      BY <1>2, <2>2 DEF RestStill, Passed
    <3>2. i \in Nat
      BY <1>2 DEF New, Operations
    <3>3. txn[u].pc = "stage" /\ BaseHolds(u) /\ i = txn[u].at
      <4>1. CASE Looks(u)
        <5>1. txn[u].pc = "stage" /\ ~(i < txn[u].at) /\ txn[u].at \in Nat
          BY <1>2, <2>2, <3>1, <4>1 DEF Passed, Looks, Control, Record
        <5>2. BaseHolds(u) /\ (txn'[u].at = txn[u].at + 1 \/ txn[u].at = Len(Plan[u]))
          BY <1>2, <3>1, <4>1, <5>1 DEF Passed, Looks, Forward, Backward
        <5>3. CASE txn'[u].pc = "stage"
          <6>1. i < txn[u].at + 1
            BY <1>2, <3>1, <4>1, <5>3 DEF Passed, Looks
          <6> QED
            BY <3>2, <5>1, <5>2, <6>1
        <5>4. CASE txn'[u].pc # "stage"
          <6>1. txn[u].at = Len(Plan[u])
            BY <1>2, <3>1, <4>1, <5>1, <5>4 DEF Passed, Looks, Forward, Backward
          <6>2. i <= Len(Plan[u])
            BY <1>2, <3>1 DEF New, Operations
          <6> QED
            BY <3>2, <5>1, <5>2, <6>1, <6>2
        <5> QED
          BY <5>3, <5>4
      <4>2. CASE GivesUp(u) \/ BacksUp(u) \/ Makes(u) \/ TakesBack(u) \/ PutsBack(u)
        BY <2>2, <3>1, <4>2
          DEF Passed, GivesUp, BacksUp, Makes, TakesBack, PutsBack, Forward, Backward
      <4>3. CASE Cleans(u) \/ Dies(u)
        BY <1>2, <3>1, <4>3 DEF Passed, Cleans, Dies, Forward, Backward
      <4> QED
        BY <4>1, <4>2, <4>3 DEF Acts
    <3>4. /\ file[PathOf(t, i)] = Before(KindOf(t, i)) /\ PathOf(t, i) \in Files \ Present
      BY <1>2, <3>1, <3>3, PlanFacts DEF BaseHolds, Path, Op, PathOf, KindOf, New
    <3> QED
      BY <3>4 DEF CreationsOnly, Before
  <2> QED
    BY <2>1, <2>2
<1>3. \A t, i : New(t, i)' = New(t, i) /\ KindOf(t, i)' = KindOf(t, i)
  BY DEF New, Operations, PathOf, KindOf
<1> QED
  BY <1>1, <1>2, <1>3 DEF CreationsOnly

LEMMA CreationsHeldKept ==
    ASSUME Control, NEW u \in Txns, Acts(u), RestStill(u), CreationsOnly, CreationsHeld
    PROVE  CreationsHeld'
<1>0. file \in [Files -> Contents] /\ \A t \in Txns : t # Absent
  BY ContentsAssumption DEF Control
<1>1. \A t, i : New(t, i)' = New(t, i) /\ KindOf(t, i)' = KindOf(t, i)
                /\ PathOf(t, i)' = PathOf(t, i)
  BY DEF New, Operations, PathOf, KindOf
<1> SUFFICES ASSUME NEW t \in Txns, NEW i, New(t, i), KindOf(t, i) = "create", Made(t, i)'
             PROVE  file'[PathOf(t, i)] = t
  BY <1>1 DEF CreationsHeld
<1>2. i \in Operations(t) /\ PathOf(t, i) \in Files \ Present
  BY PlanFacts DEF New
<1>3. Made(t, i) => file[PathOf(t, i)] = t
  BY DEF CreationsHeld
<1>4. t # u => Made(t, i)
  BY DEF RestStill, Made
\* The operation another transaction works on at such a path is a create.
<1>5. ASSUME txn[u].pc \in {"mutate", "restore"}, Path(u) = PathOf(t, i)
      PROVE  /\ Op(u).kind = "create"
             /\ \A j \in Operations(u) : j = txn[u].at /\ Made(u, j) => file[Path(u)] = u
  <2>1. txn[u].pc \in Forward \cup Backward /\ txn[u].pc # "stage"
    BY <1>5 DEF Forward, Backward
  <2>2. New(u, txn[u].at) /\ Passed(u, txn[u].at)
    BY <1>2, <1>5, <2>1, AtFacts DEF New, Passed
  <2>3. KindOf(u, txn[u].at) = "create"
    BY <2>2 DEF CreationsOnly
  <2> QED
    BY <2>1, <2>2, <2>3, AtFacts DEF CreationsHeld
<1>6. CASE Looks(u) \/ BacksUp(u) \/ Cleans(u)
  <2>1. file' = file /\ (t = u => Made(t, i))
    BY <1>2, <1>6 DEF Looks, BacksUp, Cleans, KeepsAll, PhaseKept
  <2> QED
    BY <1>3, <1>4, <2>1
<1>7. CASE GivesUp(u)
  <2>1. file' = file /\ (t = u /\ i # txn[u].at => Made(t, i))
    BY <1>2, <1>7 DEF GivesUp, KeepsOthers, PhaseKept
  <2>2. ~(t = u /\ i = txn[u].at)
    BY <1>2, <1>7 DEF GivesUp, Returned
  <2> QED
    BY <1>3, <1>4, <2>1, <2>2
<1>8. CASE Makes(u)
  <2>1. /\ txn[u].pc = "mutate" /\ txn[u].pc \in Forward /\ ~Refuses(u)
        /\ file' = [file EXCEPT ![Path(u)] = After(u, Op(u).kind)]
        /\ t = u /\ i # txn[u].at => Made(t, i)
    BY <1>2, <1>8 DEF Makes, KeepsOthers, PhaseKept, Forward
  <2>2. CASE t = u /\ i = txn[u].at
    BY <1>0, <1>2, <2>1, <2>2, AtFacts DEF After
  <2>3. CASE ~(t = u /\ i = txn[u].at)
    <3>1. file[PathOf(t, i)] = t
      BY <1>3, <1>4, <2>1, <2>3
    <3>2. Path(u) # PathOf(t, i)
      BY <1>0, <1>5, <2>1, <3>1 DEF Refuses
    <3> QED
      BY <1>0, <1>2, <2>1, <3>1, <3>2
  <2> QED
    BY <2>2, <2>3
<1>9. CASE TakesBack(u) \/ PutsBack(u)
  <2>1. /\ txn[u].pc = "restore" /\ txn[u].pc \in Backward
        /\ \A f \in Files : f # Path(u) => file'[f] = file[f]
        /\ t = u /\ i # txn[u].at => Made(t, i)
        /\ \A j \in Operations(u) : j = txn[u].at => Made(u, j) /\ Returned(u, j)'
    BY <1>0, <1>2, <1>9 DEF TakesBack, PutsBack, KeepsOthers, PhaseKept, Backward
  <2>2. ~(t = u /\ i = txn[u].at)
    BY <1>2, <2>1 DEF Returned
  <2>3. file[PathOf(t, i)] = t
    BY <1>3, <1>4, <2>1, <2>2
  <2>4. Path(u) # PathOf(t, i)
    <3>1. ASSUME Path(u) = PathOf(t, i)
          PROVE  t = u /\ i = txn[u].at
      BY <1>2, <1>5, <2>1, <2>3, <3>1, AtFacts
    <3> QED
      BY <2>2, <3>1
  <2> QED
    BY <1>2, <2>1, <2>3, <2>4
<1>10. CASE Dies(u)
  <2>1. file' = file /\ t # u
    BY <1>10 DEF Dies, Made, Forward
  <2> QED
    BY <1>3, <1>4, <2>1
<1> QED
  BY <1>6, <1>7, <1>8, <1>9, <1>10 DEF Acts

CreationsSafe == edits = 0 => CreationsOnly /\ CreationsHeld

LEMMA InitCreations ==
    ASSUME Init
    PROVE  CreationsSafe
<1>1. \A f \in Files \ Present :
         file[f] # Base /\ \A u \in Txns : backup[u][f] # Base
  BY ContentsAssumption DEF Init, Initial
<1>2. \A t \in Txns : txn[t].pc = "stage" /\ txn[t].at = 1 /\ txn[t].applied = 0
  BY DEF Init, NotBegun
<1>3. \A t \in Txns : \A i : New(t, i) => ~Passed(t, i) /\ ~Made(t, i)
  BY <1>2 DEF New, Operations, Passed, Made
<1> QED
  BY <1>1, <1>3 DEF CreationsSafe, CreationsOnly, CreationsHeld

LEMMA NextCreations ==
    ASSUME Control, CreationsSafe, [Next]_vars
    PROVE  CreationsSafe'
<1> SUFFICES ASSUME edits' = 0
             PROVE  CreationsOnly' /\ CreationsHeld'
  BY DEF CreationsSafe
<1>1. CASE UNCHANGED vars
  BY <1>1 DEF vars, CreationsSafe, CreationsOnly, CreationsHeld, New, Passed, Made,
    Operations, PathOf, KindOf
<1>2. ASSUME NEW f \in Files, Edit(f)
      PROVE  FALSE
  BY <1>2 DEF Edit, Control
<1>3. ASSUME NEW u \in Txns, Step(u) \/ Crash(u)
      PROVE  CreationsOnly' /\ CreationsHeld'
  <2>1. Acts(u) /\ RestStill(u)
    BY <1>3, StepActs
  <2>2. CreationsOnly /\ CreationsHeld
    BY <2>1 DEF RestStill, CreationsSafe
  <2> QED
    BY <2>1, <2>2, CreationsOnlyKept, CreationsHeldKept
<1> QED
  BY <1>1, <1>2, <1>3 DEF Next

\* As long as no one else writes, what a committed transaction created stays:
\* a rival neither replaces it nor takes it away with its own rollback.
THEOREM CreationsStay == Spec => []CreationsStand
<1>1. ASSUME Control, CreationsSafe
      PROVE  CreationsStand
  <2> SUFFICES ASSUME edits = 0, NEW t \in Txns, txn[t].result = "committed",
                      NEW i \in Operations(t), KindOf(t, i) = "create",
                      PathOf(t, i) \notin Present
               PROVE  file[PathOf(t, i)] = t
    BY DEF CreationsStand, Operations, PathOf, KindOf
  <2>1. txn[t].pc = "done" /\ txn[t].applied = Len(Plan[t])
    BY <1>1 DEF Control, Controlled
  <2>2. Made(t, i)
    BY <2>1 DEF Made, Operations
  <2> QED
    BY <1>1, <2>2 DEF CreationsSafe, CreationsHeld, New
<1>2. Spec => []CreationsSafe
  BY InitControl, NextControl, InitCreations, NextCreations, PTL DEF Spec
<1> QED
  BY <1>1, <1>2, ControlIsKept, PTL

=================================================================================
