----------------------------- MODULE WorkspacePatch -----------------------------
(***************************************************************************)
(* adapters-node/src/workspace-patch-transaction.ts: a patch plan applied  *)
(* to the files of a workspace.  Every operation's base state is checked   *)
(* three times (while staging, after validation, and just before its own   *)
(* mutation); each target changes by one rename, link or removal; a        *)
(* failure on the way undoes the mutations already made in reverse order,  *)
(* from backups beside the targets.                                        *)
(*                                                                         *)
(* Nothing serialises the transactions of a workspace, and the files       *)
(* belong to other programs as well: between any two awaited calls other   *)
(* transactions and an editor may act, a call may reject (Fault), or the   *)
(* process may die (Crash).  Hashes identify contents, so a check reads    *)
(* the content itself.  Staged bytes and created directories, which no     *)
(* other program touches, are left out.                                    *)
(***************************************************************************)
EXTENDS Integers, Sequences

CONSTANTS
    Txns,      \* the transactions; also the content each of them writes
    Files,     \* workspace paths
    Present,   \* the paths that exist before any transaction
    Plan,      \* transaction -> its operations, in path order
    MaxEdits,  \* bound on the editor's writes
    Absent, Base, Edited   \* no file, the planned-on content, the editor's

Kinds == {"create", "replace", "delete"}
Contents == Txns \cup {Absent, Base, Edited}

ASSUME PresentAssumption == Present \subseteq Files
ASSUME PlanAssumption ==
    \A t \in Txns :
        /\ Plan[t] \in Seq([path : Files, kind : Kinds])
        /\ Plan[t] # <<>>
        /\ \A i, j \in 1 .. Len(Plan[t]) :
              Plan[t][i].path = Plan[t][j].path => i = j
ASSUME EditsAssumption == MaxEdits \in Nat
ASSUME ContentsAssumption ==
    /\ {Absent, Base, Edited} \cap Txns = {}
    /\ Absent # Base /\ Absent # Edited /\ Base # Edited

VARIABLES
    file,    \* path -> content
    backup,  \* transaction -> path -> content of the backup it keeps
    txn,     \* transaction -> where it stands
    edits    \* number of the editor's writes so far

vars == <<file, backup, txn, edits>>

\* at is the operation a transaction works on, applied the number of mutations
\* made, restored and failed the paths of the rollback report.
Op(t) == Plan[t][txn[t].at]
Path(t) == Op(t).path

Before(kind) == IF kind = "create" THEN Absent ELSE Base
After(t, kind) == IF kind = "delete" THEN Absent ELSE t

\* assertBaseState, and the state a mutation leaves (assertCurrentHash).
BaseHolds(t) == file[Path(t)] = Before(Op(t).kind)
AfterHolds(t) == file[Path(t)] = After(t, Op(t).kind)

Goto(t, p) == txn' = [txn EXCEPT ![t].pc = p]

\* On with the next operation at p, or with the first one at q.
NextOp(t, p, q) ==
    txn' = [txn EXCEPT
        ![t].pc = IF txn[t].at < Len(Plan[t]) THEN p ELSE q,
        ![t].at = IF txn[t].at < Len(Plan[t]) THEN @ + 1 ELSE 1]

\* Mutants of UndoFrom: the last mutation forgotten, and one too many undone.
AllButLast(t) == IF txn[t].applied = 0 THEN 0 ELSE txn[t].applied - 1
OneTooMany(t) == txn[t].applied + 1

\* The mutation the rollback starts with.
UndoFrom(t) == txn[t].applied

\* The catch block: undo from the last mutation made.
Abort(t) ==
    txn' = [txn EXCEPT ![t].result = "aborted", ![t].at = UndoFrom(t),
                       ![t].pc = IF UndoFrom(t) = 0 THEN "cleanup" ELSE "undo"]

(***************************************************************************)
(* Checking.                                                               *)
(***************************************************************************)
\* Every operation's base, at p; q comes after the last one.
CheckAll(t, p, q) ==
    /\ txn[t].pc = p
    /\ IF BaseHolds(t) THEN NextOp(t, p, q) ELSE Abort(t)
    /\ UNCHANGED <<file, backup, edits>>

Stage(t) == CheckAll(t, "stage", "validate")
Recheck(t) == CheckAll(t, "recheck", "check")

Validate(t) ==
    /\ txn[t].pc = "validate"
    /\ Goto(t, "recheck") \/ Abort(t)
    /\ UNCHANGED <<file, backup, edits>>

\* Mutant of FirstStep: a replacement without a backup.
NoBackup(kind) == "mutate"

\* How applyPrepared begins.
FirstStep(kind) == IF kind = "replace" THEN "backup" ELSE "mutate"

Check(t) ==
    /\ txn[t].pc = "check"
    /\ IF BaseHolds(t) THEN Goto(t, FirstStep(Op(t).kind)) ELSE Abort(t)
    /\ UNCHANGED <<file, backup, edits>>

(***************************************************************************)
(* Applying: applyPrepared, and verifyCommitted at the end.                *)
(***************************************************************************)
\* The backup of a replacement, compared with the base once it is written.
BackUp(t) ==
    /\ txn[t].pc = "backup"
    /\ backup' = [backup EXCEPT ![t][Path(t)] = file[Path(t)]]
    /\ IF BaseHolds(t) THEN Goto(t, "confirm") ELSE Abort(t)
    /\ UNCHANGED <<file, edits>>

Confirm(t) ==
    /\ txn[t].pc = "confirm"
    /\ IF BaseHolds(t) THEN Goto(t, "mutate") ELSE Abort(t)
    /\ UNCHANGED <<file, backup, edits>>

\* Mutant of Refuses: a create that overwrites.
OverwritesExisting(t) == Op(t).kind = "delete" /\ file[Path(t)] = Absent

\* The mutating call itself rejects: an exclusive link finds a file, or the
\* rename of a deletion finds none.
Refuses(t) ==
    \/ Op(t).kind = "create" /\ file[Path(t)] # Absent
    \/ Op(t).kind = "delete" /\ file[Path(t)] = Absent

Mutate(t) ==
    /\ txn[t].pc = "mutate"
    /\ \/ Refuses(t) /\ Abort(t) /\ UNCHANGED <<file, backup>>
       \/ /\ ~Refuses(t)
          /\ file' = [file EXCEPT ![Path(t)] = After(t, Op(t).kind)]
          /\ backup' = [backup EXCEPT ![t][Path(t)] =
                           IF Op(t).kind = "delete" THEN file[Path(t)] ELSE @]
          /\ txn' = [txn EXCEPT
                ![t].applied = @ + 1,
                ![t].pc = IF txn[t].at < Len(Plan[t]) THEN "check" ELSE "verify",
                ![t].at = IF txn[t].at < Len(Plan[t]) THEN @ + 1 ELSE 1]
    /\ UNCHANGED edits

Verify(t) ==
    /\ txn[t].pc = "verify"
    /\ IF AfterHolds(t) THEN NextOp(t, "verify", "cleanup") ELSE Abort(t)
    /\ UNCHANGED <<file, backup, edits>>

(***************************************************************************)
(* Undoing: rollbackApplied.  A path that cannot be restored is reported   *)
(* and the others are still undone.                                        *)
(***************************************************************************)
\* Mutant of UndoNext: the same path over and over.
SamePath(t) == txn[t].at

\* The operation to undo after this one; 0 when there is none.
UndoNext(t) == txn[t].at - 1

Undone(t, restored, failed) ==
    txn' = [txn EXCEPT
        ![t].restored = @ \cup restored,
        ![t].failed = @ \cup failed,
        ![t].at = UndoNext(t),
        ![t].pc = IF UndoNext(t) = 0 THEN "cleanup" ELSE "undo"]

Restored(t) == Undone(t, {Path(t)}, {})

\* Mutant of NotRestored: a failure that is swallowed.
Swallowed(t) == Undone(t, {Path(t)}, {})

NotRestored(t) == Undone(t, {}, {Path(t)})

\* Nothing is undone that is not what this transaction left.
Undo(t) ==
    /\ txn[t].pc = "undo"
    /\ IF AfterHolds(t) THEN Goto(t, "restore") ELSE NotRestored(t)
    /\ UNCHANGED <<file, backup, edits>>

\* A creation is removed, a replacement renamed back, a deletion linked back
\* exclusively (and its backup unlinked: a fault there is one of the next step).
Restore(t) ==
    /\ txn[t].pc = "restore"
    /\ CASE Op(t).kind = "create" ->
              /\ file' = [file EXCEPT ![Path(t)] = Absent]
              /\ IF file[Path(t)] = Absent THEN NotRestored(t) ELSE Restored(t)
              /\ UNCHANGED backup
         [] Op(t).kind = "delete" /\ file[Path(t)] # Absent ->
              NotRestored(t) /\ UNCHANGED <<file, backup>>
         [] OTHER ->
              /\ file' = [file EXCEPT ![Path(t)] = backup[t][Path(t)]]
              /\ backup' = [backup EXCEPT ![t][Path(t)] = Absent]
              /\ Goto(t, "restored")
    /\ UNCHANGED edits

VerifyRestored(t) ==
    /\ txn[t].pc = "restored"
    /\ IF BaseHolds(t) THEN Restored(t) ELSE NotRestored(t)
    /\ UNCHANGED <<file, backup, edits>>

\* cleanupPrepared, after a commit and after a rollback alike: the backups are
\* removed by calls made together, also that of a path whose undoing failed.
RemoveBackup(t) ==
    /\ txn[t].pc = "cleanup"
    /\ \E f \in Files :
          /\ backup[t][f] # Absent
          /\ backup' = [backup EXCEPT ![t][f] = Absent]
    /\ UNCHANGED <<file, txn, edits>>

\* The calls have settled; one that rejected has left its backup.
Finish(t) ==
    /\ txn[t].pc = "cleanup"
    /\ txn' = [txn EXCEPT ![t].pc = "done",
                  ![t].result = CASE txn[t].failed # {} -> "rollback_failed"
                                  [] @ = "none" -> "committed"
                                  [] OTHER -> @]
    /\ UNCHANGED <<file, backup, edits>>

(***************************************************************************)
(* What goes wrong, and who else writes.                                   *)
(***************************************************************************)
Forward == {"stage", "validate", "recheck", "check", "backup", "confirm",
            "mutate", "verify"}
Backward == {"undo", "restore", "restored"}
Ended == {"done", "dead"}

\* The awaited call of this step rejects before it has changed anything.
Fault(t) ==
    /\ \/ txn[t].pc \in Forward /\ Abort(t)
       \/ txn[t].pc \in Backward /\ NotRestored(t)
    /\ UNCHANGED <<file, backup, edits>>

Crash(t) ==
    /\ txn[t].pc \notin Ended
    /\ Goto(t, "dead")
    /\ UNCHANGED <<file, backup, edits>>

Edit(f) ==
    /\ edits < MaxEdits
    /\ \E content \in {Edited, Absent} :
          content # file[f] /\ file' = [file EXCEPT ![f] = content]
    /\ edits' = edits + 1
    /\ UNCHANGED <<backup, txn>>

(***************************************************************************)
(* The specification.                                                      *)
(***************************************************************************)
Initial == [f \in Files |-> IF f \in Present THEN Base ELSE Absent]

NotBegun == [pc |-> "stage", at |-> 1, applied |-> 0, restored |-> {}, failed |-> {},
             result |-> "none"]

Init ==
    /\ file = Initial
    /\ backup = [t \in Txns |-> [f \in Files |-> Absent]]
    /\ txn = [t \in Txns |-> NotBegun]
    /\ edits = 0

Step(t) ==
    \/ Stage(t)
    \/ Validate(t)
    \/ Recheck(t)
    \/ Check(t)
    \/ BackUp(t)
    \/ Confirm(t)
    \/ Mutate(t)
    \/ Verify(t)
    \/ Undo(t)
    \/ Restore(t)
    \/ VerifyRestored(t)
    \/ RemoveBackup(t)
    \/ Finish(t)
    \/ Fault(t)

Next == (\E t \in Txns : Step(t) \/ Crash(t)) \/ \E f \in Files : Edit(f)

Spec == Init /\ [][Next]_vars

\* The runtime settles every awaited call, one way or the other.
FairSpec == Spec /\ \A t \in Txns : WF_vars(Step(t))

(***************************************************************************)
(* Properties.                                                             *)
(***************************************************************************)
\* Files, backups and the locals of each transaction have their types.
TypeOK ==
    /\ file \in [Files -> Contents]
    /\ backup \in [Txns -> [Files -> Contents]]
    /\ edits \in 0 .. MaxEdits
    /\ \A t \in Txns :
          txn[t] \in [pc : Forward \cup Backward \cup {"cleanup"} \cup Ended,
                      at : 0 .. Len(Plan[t]), applied : 0 .. Len(Plan[t]),
                      restored : SUBSET Files, failed : SUBSET Files,
                      result : {"none", "aborted", "committed", "rollback_failed"}]

\* No other transaction has done anything yet.
Alone(t) == \A u \in Txns \ {t} : txn[u] = NotBegun

\* The whole plan has been carried out.
InPlace(t) ==
    \A i \in 1 .. Len(Plan[t]) : file[Plan[t][i].path] = After(t, Plan[t][i].kind)

\* One transaction by itself, whatever call of it fails: when it returns its
\* receipt every path is as planned; when it throws, every path is as before
\* it began, or the error is ROLLBACK_FAILED and names each path that is not.
AllOrReported ==
    edits = 0 => \A t \in Txns : Alone(t) /\ txn[t].pc = "done" =>
        \/ txn[t].result = "committed" /\ InPlace(t)
        \/ /\ txn[t].result \in {"aborted", "rollback_failed"}
           /\ txn[t].result = "rollback_failed" <=> txn[t].failed # {}
           /\ \A f \in Files : file[f] = Initial[f] \/ f \in txn[t].failed

\* Wherever it stands or has died, the content each path had is in the path or
\* in its backup, with two exceptions, both from the cleanup on: the plan is in
\* place as a whole, or the rollback is over (at is 0) and could not restore the
\* path.  The code then removes the path's backup as well, and the content is lost.
BaseStaysOnDisk ==
    edits = 0 => \A t \in Txns : Alone(t) => \A f \in Present :
        \/ file[f] = Base \/ backup[t][f] = Base
        \/ txn[t].pc \notin Forward \cup Backward /\ InPlace(t)
        \/ txn[t].at = 0 /\ f \in txn[t].failed

\* Whatever an editor does in between, a transaction that throws anything but
\* ROLLBACK_FAILED leaves none of its own content behind.  (With a second
\* transaction the content may come back: that one may have moved it into its
\* backup, and links it back when it rolls back itself.)
NoResidue ==
    \A t \in Txns : Alone(t) /\ txn[t].pc = "done" /\ txn[t].result = "aborted" =>
        \A f \in Files : file[f] # t

\* As long as no one else writes, a file a committed transaction created
\* stays: another transaction neither replaces it by its own creation nor
\* takes it away when it rolls back.
CreationsStand ==
    edits = 0 =>
        \A t \in Txns : txn[t].result = "committed" =>
            \A i \in 1 .. Len(Plan[t]) :
                Plan[t][i].kind = "create" /\ Plan[t][i].path \notin Present =>
                    file[Plan[t][i].path] = t

\* Every transaction returns or throws, unless its process dies.
EveryTransactionEnds == \A t \in Txns : <>(txn[t].pc \in Ended)

===============================================================================
