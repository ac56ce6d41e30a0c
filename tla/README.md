# SCCE: a TLA+ model of its durable and concurrent parts

SCCE is a local "cognitive runtime": a TypeScript monorepo whose kernel answers turns
over a graph of evidence, and which may also act, by dispatching capabilities and
committing patches to a workspace. PostgreSQL is the only durable store; an HTTP server
exposes the runtime to a workbench, a CLI and an editor extension.

Most of the code is numerics over graphs and text, run to completion by one turn. What
can go wrong in an order nobody wrote a test for sits in a few thousand lines around it:
an event-sourced machine of authorised actions, the journal it is kept in, the dispatcher
that acts on it, the transaction that patches files, the loop that repairs code, the
hash-chained event ledger, the registry of long-running turns, and the three places where
something learned or imported is let in: the ranking model, the brains, the review of
what was fetched. Those are modelled here. Paths below are relative to
`src/packages`.

## 1. Inventory

| Part | State it keeps | Operations | Interacts with |
|---|---|---|---|
| Executive episode, `kernel/src/executive-episode.ts` | goals, tasks, decisions, attempts, receipts, outcomes, learning records of one episode | 11 commands (`decide`) and the events they make (`apply`) | journal, dispatcher |
| Executive journal, `kernel/src/executive-journal.ts`, `createExecutiveEventJournal` of `adapters-node/src/postgres.ts` | `executive_episode` (revision), `_events`, `_commands` | `load`, `dispatch` with conflict retries; `read`, `append` | episode machine, PostgreSQL |
| Capability dispatcher, `kernel/src/capability-dispatcher.ts` | locals of each call; the episode through the journal | `dispatchCapabilityTask`, `dispatchRollbackAttempt`, `reconcileIndeterminateCapability` | journal, executors, status lookup |
| Workspace patch transaction, `adapters-node/src/workspace-patch-transaction.ts` | files of the workspace, staged files, backups | stage, validate, commit boundary, roll back, clean up | file system, editors, other transactions |
| Event ledger, `kernel/src/{kernel,events,audit}.ts`, `adapters-node/src/{postgres,governance-probe}.ts` | `events` table, `bufferedEvents`, `ledgerCheckpoint` | buffer, append a batch, full audit, incremental observation | turns, ingestors, the turn registry |
| Turn task registry, `server/src/turn-task-registry.ts`, streams of `server/src/routes.ts` | `#tasks`, the persistence chain of each, subscribers | create, append, cancel, evict, get, stream, reconnect | event ledger, clients |
| Code repair loop, `adapters-node/src/{code-mouth,clang-code-mouth-ports}.ts`, `kernel/src/{bounded-autonomous-debugging,metacognitive-control}.ts` | the target file, kept repairs, the session of attempts | verify, propose, apply, judge, keep or roll back | compiler, proposers, other requests |
| Learned ranker model, `cli/src/index.ts` (1470-1655), `kernel/src/sparse-ranking-outcome.ts`, `postgres.ts` (3094-3214) | `sparse_ranking_models`, the slot of the active one | init, evaluate, promote, import; read, put, activate; learn | turns, PostgreSQL |
| Brain lifecycle, `kernel/src/brain-lifecycle.ts`, `adapters-node/src/scce2/scce2-to-v3-importer.ts`, `postgres.ts` (4909-5003) | lifecycle rows, the import ledger with its sentinel, the marker | import, stop, resume, validate, activate | readers of the marker |
| Learning review, `kernel/src/{learning-review,ingestion-runtime,admission}.ts` | rows of quarantine, status of spans | ingest, review, promote | acquisition, the owner |
| Approval session, `adapters-node/src/approval-session.ts` | pending, approved, rejected requests, operator grant | request, approve, reject, grant | acquisition, capability plans |
| Relation potential store, `adapters-node/src/postgres.ts` (6660-6721) | model rows, the promoted one | put, promote | CLI |
| Caches and schedulers, `server/src/{stale-while-revalidate,dream-cycle}.ts`, `kernel/src/runtime-graph-cache.ts` | one resident value and one refresh; bounded maps | get, refresh, tick | routes |
| Turn runtime, mouth, graph, language, proof, ingestion | immutable slices of the graph; batch jobs | a sequential pipeline | storage |
| CLI, workbench, extension, tools | clients | | server |

What makes each hard, and what makes it correct:

- **Episode**: the status table of a task is the only thing that keeps it from acting
  twice; the status of the task, of its attempt and its decisions are written by
  different commands. Correct: authorised, in the order of dependencies, once, and
  nothing learned that the receipts do not show.
- **Journal**: writers that race on a revision, retries after a lost acknowledgement,
  transactions that fail anywhere. Correct: one serial log; what was acknowledged is in it.
- **Dispatcher**: crashes between acting and recording, two calls of the same task,
  effects whose outcome is unknown. Correct: at most one effect; nothing claimed that
  did not happen.
- **Patch transaction**: failures and deaths between file-system calls, rivals,
  editors. Correct: all or nothing or reported, and no content lost unreported.
- **Ledger**: writers that chain to the same tail, batches that are older than rows
  already stored, a verifier that looks at a suffix. Correct: the audit accepts what
  honest writers wrote, and the two verifications agree.
- **Turn registry**: cancellation, eviction, failing appends, restarts, clients that
  come and go. Correct: one outcome, told to everyone, and replayable when said to be.
- **Repair loop**: hypotheses that are kept or undone one after the other, a compiler that
  may not run, a file that others write. Correct: the file holds what is reported, and
  every kept step makes it better.
- **Ranker model**: whole rows read, changed and written back by commands and by turns,
  and an activation that locks rows one by one. Correct: nothing is approved but what was
  evaluated, and one model is active, unless two activations both found the slot empty.
- **Brain import**: long runs that are stopped, die, are retried or run twice. Correct:
  only a brain is activated that is whole but for what its sentinel counts as skipped, and
  a finished one stays.
- **Learning review**: the same bytes are fetched again before, during and after a
  decision. Correct: what is learned was confirmed, or admitted as it was fetched where the
  deployment says so, and what was confirmed is learned.

`PROJECT.json` lists every component with its status and every hazard at its line.

## 2. Plan

1. *(done)* `ExecutiveEpisode` and its abstract specification `TaskSaga`; theorems.
2. *(done)* `ExecutiveJournal`; theorems.
3. *(done)* `CapabilityDispatch`, which composes callers with `ExecutiveEpisode`.
4. *(done)* `WorkspacePatch`, `EventLedger`, `TurnTaskRegistry`.
5. *(done)* `RankerModel`, `BrainImport`, `LearningReview`, `RepairLoop`; theorems.
6. *(done)* Theorems about the refinement of the saga, the dispatcher and the registry,
   then about the patch transaction, the ledger and recovery of an import.
7. Left: composition of `ExecutiveJournal` with several episodes' dispatchers, so that
   the conflict retries and the dispatcher's crashes are seen together; the approval
   session with the consent checks of acquisition; the relation potential store.
8. Every safety invariant of the runs is now a theorem; what is left to prove comes with
   the modules of item 7.

Modules that are to be proved about take their parameters as CONSTANTS with named
assumptions, have one action per operation, and use no RECURSIVE operator.

## 3. The modules

### ExecutiveEpisode, TaskSaga

One action per command of `decide` (406-640): `OpenEpisode`, `DeclareGoal`,
`DeclareTask`, `RecordAuthority`, `RecordApproval`, `PrepareAttempt`, `RecordDispatch`,
`ObserveReceipt`, `ReconcileReceipt`, `RecordOutcome`, `ConcludeGoal`. The guard is what
`decide` checks, the primed variables what `apply` (641-813) writes, including the
`refreshTaskStatuses` and `refreshControlStatus` that `apply` ends with. A command that
throws changes nothing and is therefore no step. Ids, evidence references and hashes are
left out. `occurredAt` is an input of every command and may be any member of `Times`:
the machine does not require clocks to advance. A task's `shape` says which controls are
"pending" for an execution and for a rollback and whether it has a rollback at all.

`TaskSaga` is the abstract specification of one task's life: it runs at most once, its
compensation at most once and only after a failed run. `ImplementsSaga` maps the attempts
and statuses to it for every task and is checked as a property.

### ExecutiveJournal

One record per writer (`proc`) for a call of `dispatch`: the revision it read, the events
it decided, the conflicts it met, and how many commands were committed when it began
(`since`: history). `read` is two statements, as in
`postgres.ts:3611-3622`: `ReadRevision`, then the events. `append` is a transaction:
`BeginAppend` takes the row lock of `SELECT ... FOR UPDATE` and finds the status
(duplicate before conflict), `Commit` writes revision, events and command together,
`Fail` is an error or death at any point, which rolls back and releases the lock; the
commit may also be lost on the way back to the caller.

### CapabilityDispatch

INSTANCEs `ExecutiveEpisode` as `Machine` over the same variables, for one goal and one
task. A caller's program counter stands at its next command; each command goes through
`Command`, which models `dispatch` of the journal: a command id that was `applied` is a
duplicate and changes nothing, and one the machine rejects makes the call throw.
`Invoke` asks the executor, which may act or not and answer success, failure or nothing;
`effect` and `invoked` record what it did. `Die` is the death of the process (or a
rejected call) at any point; a dead caller may start again.

### WorkspacePatch

`file` maps the plan's paths to contents, `backup` those of each transaction's backups,
`txn` holds how far each transaction is and what it applied, restored or failed to. Every
awaited file-system call is one action: the stages, the sandbox's `Validate`, both checks
of the bases, for each operation the backup (`FirstStep`, `BackUp`), the confirmation and
the mutation (`Confirm`, `Mutate`), the verification, the undoing in reverse order
(`UndoNext`, `Undo`, `VerifyRestored`) and the cleanup, which removes one backup after the
other (`RemoveBackup`) and then the stage (`Finish`). `Fault` makes any call fail, `Crash`
ends the process, `Edit` writes a path from outside at most `MaxEdits` times.

### EventLedger

An event is its key: the millisecond it was made in and its rank among the ids of that
millisecond (`ids.ts:86`); rows are read in the order of keys. A ledger hash is the
sequence of the keys hashed into it. `BeginTurn`, `Emit` and `EndTurn` are
`withBufferedEventWrites` and `append` of `kernel.ts`; `ReadTail` and `Insert` the two
statements of `appendBatch`, between which nothing is locked; `AppendFails` any failure
of them, committed or not, and the second try of the `catch` block. `Write` is a direct
append, or, by a writer that is `Sharing` (ingestion, training, causal analysis: they are
given the kernel's `append`, `kernel.ts:245`), `KernelAppend`: into the buffer if some turn
has one, whether or not it is being flushed. A writer that is `Bracketed` appends within the
transaction of a file, which nested calls join (`ingestion-runtime.ts:217`,
`postgres.ts:537`): its rows are `held`, seen by itself, until `Commit` or `RollBack`. The
events of `Linked` writers (the frames of a task) name their last one as parent. `late` is
history: events pushed into a buffer while it was being flushed.
`Observe`, `ReadAnchor`, `Scan`, `VerifyFirst` and `VerifySuffix` are the awaits of
`governance-probe.ts`; `FullAudit` is `fullyVerifyEventLedger`. An observation keeps what
the full audit would have said of the very rows it scanned, so that the two compare, and
whether another observation moved the checkpoint under it (`audit`, `moved`: history).

### TurnTaskRegistry

One action per stretch of code between awaits. `Create`, `Receive`, `Progress`, `Answer`,
`Fail` and `Drained` are `streamTurnResponse`; `AppendFrame` is the registry's `append`
with the callbacks of its subscribers; `Persist` is one link of `persistenceTail`, stored
and acknowledged, stored and not acknowledged, or not stored; `Cancel`, `Ask`,
`Reconnect`, `Disconnect` and `Close` are the clients'. An evicted task is no longer
`live` and goes on being persisted, as its promise chain does. Which of the completed
tasks are the oldest is left open. Of `others`, the entries of tasks no client of the
model looks at, only the number is kept: `CreateOther` makes one, which may evict. A live
snapshot and the subscription after it are one step: the `await` between them resumes in
the same turn of the event loop. `told` is history: the completions that clients were told
of.

### RepairLoop

The call of `runCodeMouth` from its first verification to its return. The target file is
the sequence of edits made to it, an edit being the number of the attempt that made it,
or `Other`, the one edit of somebody else: `ReadFile` and `WriteFile` are the two awaits
of `apply`, and a rollback writes back what was read. With the TypeScript ports a read
that fails is an empty text, which the mark `Lost` stands for; with those of clang it
throws. `CodeActions` are the proposals of the TypeScript compiler: each writes the whole
file anew, from the text (`context`) that was retrieved before it was made, and bears the
number of its attempt in its `Hash`. `Propose` takes any hypothesis and asks `planDebugAttempt`;
`Verify` takes any report of the compiler, or its failure to run (`DidNotRun`, which
depends on `Verifier`). `AcceptFinal`, `AcceptPartial` and `Reject` are the three ways of
the gates, `Overrun` the exception of `recordDebugAttempt`, `Decision` its decision.
Diagnostics are records of an id, a kind and whether they are in the target. `tried` is
history.

### RankerModel

A command of the CLI or the training of a turn is a job: `ReadSlot` and `ReadRow` are the
two statements of `readActive`, the second of which also decides what the job will do
(`Initialise`, `Evaluate`, `Promote`, `Import`, `Learn`), `Put` is `putCheckpoint`. The
transaction of `activate` takes its locks one by one (`LockTarget`, `ReadCurrent`,
`Demote`, `Upsert`) and is seen at its `Commit`. A state of a model is a number, so that
an evaluation can name the state it was recorded for. `Deadlocked` follows the chain of
waits; PostgreSQL aborts a member (`AbortDeadlocked`). `blind` is history: activations
that found the slot empty.

### BrainImport

A call of `import` per member of `Imports`, on the one row of its brain: `Begin` reads the
ledger, `Lookup` and `Create` find or make the row, `Resume` and `Continue` are the
branches of `importManifest` (181-200), `StoreSection` to `WriteSentinel` the body.
`SkipSection` is the branch for a section that cannot be read (363-368, 744-773): a profile, a
prior section, an n-gram state or a snapshot is left out with a warning (`Skippable`), while a
concept graph in JSON throws. `unread` is the import's counter of those, `reported` what the
sentinel keeps of it, whose row another import of the brain overwrites.
`StartValidation` and `Check` the validation, `Activate` the transaction of
`activateReady`. `Throw` is an exception in any call; `Catch` and `MarkFailed` are the
handler of `import`. `Transition` is the compare-and-set. `alone` is history: imports that
neither met another one nor a failure.

### LearningReview

`Ingest` is the transaction of one file, with what admission decides of it, given the
authority that the ingestion has (`admission.ts:155-167`): "owner" for his files, and for
pages that are fetched "automatic" or "review", as the deployment is configured
(`runtime-acquisition.ts:282`). `trusted` is whether the trust vector passes. The row lock of
the source makes it one step.
`Get`, `Mark`, `Search` and `PromoteSpans` are the four calls of `reviewHeldSource`, `Fail` the
end of a review at any of them. `confirmed`, `admitted` and `contested` are history: what the
owner decided or fed, what was promoted as it was fetched, and sources decided elsewhere
while a review had them open.

## 4. The runs

| Run | What it asks | Distinct states | Time |
|---|---|---|---|
| `episode_gates` | authorisation, dependencies, no work after conclusion: two tasks, up to two goals, gates that expire | 50 759 | 6 s |
| `episode_rollback` | agreement of status, attempts and learning, one execution and one compensation (the saga): two tasks of one goal that can be rolled back | 142 190 | 21 s |
| `journal` | serial log, durable acknowledgements, honest exhaustion; every dispatch ends | 286 551 | 85 s |
| `dispatch` | dispatch before effect, real success, no effect by a retry, honest answers: two callers that die anywhere and call again | 458 282 | 70 s |
| `patch` | all or nothing or reported, content kept until the plan is in place, nothing left behind, creations stand; every transaction ends | 152 538 | 31 s |
| `ledger` | types of rows and chains, no gap in the chain, no event lost unreported, no false alarm: two turns and an ingestor of one kernel, two probes | 664 916 | 71 s |
| `turns` | a follower has every frame once, one outcome, a durable one stands; every stream ends | 217 896 | 42 s |
| `ranker` | the gate, one active model unless two found the slot empty, no wait for ever: two inits, an evaluation, a promotion, an import, a turn | 177 010 | 64 s |
| `repair` | file and report agree unless a read failed, repairs converge, no patch twice but code actions | 10 146 086 | 78 s |
| `brain` | marker and rows agree, what a ready brain lacks is counted as skipped, retries succeed: three imports of one brain, one of another | 2 097 718 | 150 s |
| `review` | learned iff confirmed or admitted automatically, decisions stand: three sources, three reviews | 235 354 | 46 s |

Deadlock is checked except where the system really stops: a concluded episode accepts no
command, a transaction ends, and a turn that is over is not begun again.

**Bounds and why they are enough.** Episode: two tasks suffice for a dependency, two goals
for one to conclude while the other goes on, and two times for a decision that expires
between two commands. Journal: two writers and three commands make a conflict, a retry and
a duplicate coincide, with one retry (`MaxConflictRetries = 1`) so that it is used up; two
events per command tell a revision from a count of commands. Dispatcher: one task, as
dispatches to different tasks share nothing but the journal, gated on both sides; two
callers for a race; its gates do not expire within the run, which is `episode_gates`'s
question. Patches: three operations, one of each kind, so that an undo has a predecessor
and a successor, against a rival on two of the paths and one edit; properties that are
promised to a transaction by itself say so (`Alone`, `edits = 0`). Ledger: three keys in
time allow a batch, a row between its events and one after; the window of a first scan is
smaller than the ledger. With two events to the millisecond (`MaxRank`), two milliseconds
and one probe the same properties hold, and the first three also with one turn and a
second writer, whose events are `Linked` and appended by calls of their own. Registry:
capacity one and one task beside the one that is looked at make an eviction; the frames
are accepted, progress and last (`MaxFrames` counts those before the last). Repair: the
least ceiling the code allows (4), two hypotheses of which one is a code action, two
diagnostics in the target and two kinds of one name elsewhere, so that kept, rejected and
final attempts follow each other. Ranker: one job of each kind and a second `init`, so
that the slot may be filled twice. Brain: a third import can meet a row that two others
left; the brain has two sections, a concept graph in JSON and a profile that may be
skipped, the other brain none. With two imports of a brain both of whose sections may be
skipped the same holds. Review: sources of three spans and two, and `Limit = 2`, so that
the query is cut off for the one and reaches its limit for the other; a third source is
rejected at once. All three authorities ingest.

**Fairness.** `ExecutiveJournal`: weak for each writer's steps, since an awaited query is
answered or rejected, and strong for taking the row lock, since PostgreSQL queues those
who wait for it. `WorkspacePatch`: weak for each transaction's steps; a death is never
forced. `TurnTaskRegistry`: weak for the end of a turn (it returns or throws), for the
answers of the database (which may be rejections) and for resumed promises. Nothing is
assumed of clients, editors, crashes or clocks. `RankerModel`: weak for the jobs together:
while any statement can be answered one is, and a deadlock is broken. The other modules
state no liveness.

### What the code says otherwise

A run that expects a violation states what a comment promises, and shows how the code
departs from it; the finding in `PROJECT.json` quotes it.

| Run | Promise | What happens |
|---|---|---|
| `dispatch_twice` | a replayed dispatch never re-invokes the executor | two concurrent calls pass every command as a duplicate and both invoke |

The models show more of the kind, each found by a property that was tried and that the
project does not keep a run for:

- *Journal.* `read` takes the revision and the events by two SELECTs that no transaction
  holds together (`postgres.ts:3612`). A commit between them makes a snapshot whose
  revision is not its number of events, on which `load` and `dispatch` throw; the comment
  at 3598 says "the journal's own contract requires snapshot.revision ===
  snapshot.events.length on replay".
- *Patches.* The base hash is compared at `workspace-patch-transaction.ts:266` and the
  rename is a later call, so two transactions that replace one path on the same base both
  commit; `docs/PATCH_TRANSACTION_CONTRACT.md:56` says "Only successful staged validation
  reaches the compare-and-swap commit boundary". A deletion renames whatever is there, and
  the cleanup deletes it, with an edit made after the last check. The cleanup also deletes
  the backup of a path whose rollback failed (`workspace-patch-transaction.ts:217`,
  419-424), so that the content it had is nowhere any more; the result names the path, but
  a process that dies within the cleanup, which is several awaited calls, names nothing.
  `BaseStaysOnDisk` exempts such a path, and fails without the exemption.
- *Dispatcher.* A call that is retried after a crash between invocation and receipt
  answers `not_ready` and reconciliation answers `not_pending`, where
  `capability-dispatcher.ts:58` says it resumes as indeterminate. An indeterminate
  compensation is not reconcilable (`Pending` reads the latest execution attempt only),
  where line 683 says it is.
- *Ledger.* `appendBatch` reads the tail and inserts rows chained to it without a lock
  (`postgres.ts:1457`): two appends chain to the same row, and the full audit fails from
  then on, where `docs/ACCEPTANCE_SUITE.md:125` says "The event ledger is hash-chained and
  verifiable". A flush stores events that are older than rows stored meanwhile, behind which
  they are chained: the full audit, which reads by time, fails with a single turn and a
  single ingestor, while the incremental verification, which reads only what is newer
  than its checkpoint, passes. A `Linked` writer's event names a parent before the anchor,
  which a suffix scan reports as missing. Two observations that overlap make one fail
  falsely (`moved`). The buffer is one variable of the kernel: what is pushed into it
  while its owner awaits the flush (`kernel.ts:235`), by a turn that overlaps or by an
  ingestion beside a single turn, is dropped at 241 and reported to nobody. If it is pushed
  before a second try of the flush it is stored, but may leave a gap: the first try commits
  one event, its acknowledgement is lost, and the second sends two, of which the new one is
  chained behind a second copy of the old one that `ON CONFLICT DO NOTHING` did not store.
  `NothingLost` and `ChainHasNoGap` exempt those events (`late`), and both fail without the
  exemption.
- *Registry.* A failed append is caught, and the next one's success sets the durable
  sequence past it (`turn-task-registry.ts:227`): the status says durable of a task one of
  whose frames is missing, where `docs/API_SURFACE.md:55` says "the status endpoint
  reports whether all current frames are durable". Subscribers get the terminal frame
  before it is stored: after a restart the completed task may be reported as interrupted
  or be unknown.
- *Repair loop.* The hash by which `planDebugAttempt` knows a patch includes the id of its
  operations (`bounded-autonomous-debugging.ts:77`), and that of a compiler's code action
  is `op:<attempt>:compiler-fix` (`code-mouth-compiler-proposer.ts:179`): the same one is
  tried again on the same diagnostics, up to the ceiling, where
  `bounded-autonomous-debugging.ts:18` says that "an identical patch is never proposed
  twice against the same diagnostic state" and `code-mouth.ts:218` that "what protects
  this loop is exact". `NoPatchTwice` exempts `CodeActions`, and fails without the
  exemption. `apply` takes a file it cannot read for an empty one (`code-mouth.ts:387`),
  and the rollback writes the emptiness back: `ReturnedIsApplied` then says only that no
  rejected edit is in the file. The last gate compares ids, which are made of code and
  position (`code-mouth.ts:273`, 324), so that a message that was not there at the start
  passes at an old position: `RepairsConverge` is about the steps before.
  `recordDebugAttempt` throws when the verification ends past the wall clock
  (`bounded-autonomous-debugging.ts:174`), and nobody undoes the hypothesis that was
  applied, where `code-mouth.ts:121` says "The guarantee is that the file never gets
  worse". With `Verifier = "clang"`, a clang that did not run reports no diagnostics and
  "the compiler accepted the patch": `ResolvedWasCompiled` fails. The comment at
  `code-mouth.ts:287` says the caller "undoes all of them if it stops short, so the
  workspace is either fixed or untouched"; the caller keeps them, as 117-122 say. The gate
  compares kinds, so a new diagnostic of an old kind in another file is not noticed. Two
  requests on one file (`server/src/routes.ts:556`) overwrite each other's edits.
- *Ranker.* Two `init`s on an empty slot each find it empty, and both activate:
  `SELECT ... FOR UPDATE` locks nothing, and two rows stay "active", where
  `cli/src/index.ts:1493` says that "this bootstrap step runs exactly once per task
  class". Whoever writes back a row it read loses what was written since: a turn's
  training, or the evaluation. The evaluation trains a fresh ranker on the comparison log
  and never measures the state of the checkpoint, so a state that was imported with
  `--replace` is promoted unmeasured, where line 1649 says that "it must pass scce ranker
  evaluate before it can be promoted". A promotion that dies before its activation leaves
  an "approved" row that only another evaluation can promote.
- *Brains.* An import that loses a transition to another one of the same brain marks
  the run failed that the other one is validating (`scce2-to-v3-importer.ts:132`). The
  limits of an import (`graphShardLimit` and its like) are not part of its id, so a limited
  one writes the sentinel and a full one after it returns at once (190-199). A section that
  cannot be read is skipped (363-368, 744-773), and the brain becomes ready and active
  without it: only the counters of the sentinel and the warnings tell, and the validation does not
  look at them. `ReadyIsWhole` fails without `reported`.
- *Review.* Where public internet and standing consent are configured
  (`adapters-node/src/runtime.ts:116`), pages are fetched under "automatic" and promoted
  without being held (`admission.ts:155-167`), where `README.md:316` says of such material
  that it "becomes evidence only when the owner confirms it": `LearnedWasConfirmed` fails
  without its second disjunct. A review that fails after its decision leaves the source
  "promoted" and its spans quarantined; every later review of it is refused
  (`learning-review.ts:72`). Spans past the thousandth stay quarantined (82). Two reviews
  that both found the source pending write their decisions over each other.
- *Not modelled, but read:* the approval of one plan leaves another pending plan of the
  same request; rejecting that one leaves the request both approved and rejected
  (`approval-session.ts:97`), and acquisition, which looks at the approvals, still
  searches. Fitting a relation potential without `--promote` un-promotes the one in use,
  since the row is written whole (`postgres.ts:6680`).

## 5. The proofs

A module `XProofs` proves, for every value of the constants of `X` that satisfies the
named assumptions, what the runs above check on an instance; `LearnedStateProofs` does so
for `RankerModel`, `BrainImport` and `LearningReview`. Most type invariants are proved
and therefore not run again; `ConcludedGoalsAreQuiet`, `FinalStates`,
`ConfirmedStaysConfirmed`, `ReadyStaysReady` and the consequences of the episode's
invariant are proved only.

*Episode.* Assumptions: `Times` are naturals, `NoGoal` is no goal, and shapes are records
of a rollback mode and a set of gates. The inductive invariant is
`TypeOK /\ StatusMatchesAttempt /\ AttemptsAuthorized`: authorisation alone is not
inductive, because a command is accepted by the task's status, and only
`StatusMatchesAttempt` ties the status to the attempts and decisions it was derived from.
There is one lemma per command, over lemmas for what `taskReadiness` and
`refreshTaskStatuses` return and for what an update of the table of attempts leaves
alone. `AtMostOneAttempt`, `RollbackFollowsFailure` and `SuccessHasEvidence` follow from
the invariant in a state; `DependenciesFirst` needs a second induction, on top of the
lemma that "succeeded" is final. Four more inductions stand on it. A task with which its
goal was concluded may still be recomputed, so that its status is not what keeps it
still: `Settled` says that it has ended or that a gate it waits for was refused, which no
later command undoes (`Denials`, `Quiet`). `LearningMatchesAttempts` is proved element by
element (`Lessons`), since every outcome adds the one record of its attempt. The
refinement maps a task to its phase, and a task with a second attempt, or with a compensation
of what has not failed, to none (`PhaseOf`): the invariant excludes both (`PhaseNow`), and
`SagaStep` shows that a command moves at most one task, by a step of `TaskSaga`.

*Journal.* Assumptions: at least one event per command, a natural number of retries,
`NoWriter` and `NoCommand` outside their sets. `SerialLog` is not inductive: that a
commit extends the very log its command was decided on needs the row lock
(`lock = w <=> committing`, and the revision seen is then the current one), and that the
command is new needs the tables to agree. The invariant adds what each writer knows at
each program counter (`Local`). `ExhaustedMeansContention` is an action property; its
proof counts the commands committed since the call began: every conflict the call met
stands for one of them, and a snapshot that has fallen behind for one more.

*Dispatcher.* Assumptions: those of the episode, and finitely many callers. The theorems
of the episode are used, not repeated: its proofs are instantiated for one goal and one
task (`Episode`), and `SameNext`, `SameInit` and `SameState` show, by expanding both, that
this is the `Machine` of the module. `MachineRefinement` says that callers drive the
machine and nothing else, which needs that the attempt a caller remembers is one the
machine can have (`Sound`). With the machine's invariant on both sides of a step,
`Tracked` ties the commands committed, the invocations and the effects to the attempts.
Its hard case is a call that loads as active an attempt of the other kind: `OwnKind` shows
that its command is then a duplicate or refused. `RetriesInvokeNothing` counts: once a
dispatch is durable, the invocations made and the callers that may still make one
(`Invokers`) are together no more than the callers (`Counted`), since a call that loads
the episode afterwards finds the task no longer ready. `ReportsStand` rests on `Known`,
which is inductive only while no executor was invoked twice (`Once`): then the call that
invoked is the only one to record the answer (`HeardOnce`), a provider asked about the
effect says what happened (`Truth`), and an attempt only moves on (`Later`), so that what
a call has seen, recorded or returned stays `Shown`. With two invocations it is false, as
their answers may differ. A returned `rollback_failed` may stand beside
`awaiting_outcome`: an indeterminate compensation has a receipt and no outcome.

*Registry.* Assumptions: bounds are naturals, `Stream` is no client, `None` no task and no
answer. A step does to one task one of a few things (`EntryStep`); `Coherent` says what
holds between them: an entry ends with its first terminal frame (`Standing`), the ledger
holds some of its frames, the durable one among them (`Recorded`), whoever knows an
outcome knows the same (`Agreed`), and one reported as durable is the last frame stored
(`Upheld`). `NoFrameIsMissed` adds what a client has got (`Followed`): all frames of the
task while it follows, the first of them while it is away and the task is in memory. A
client that comes back after a restart or an eviction is never following, so that frames
sorted out of the ledger (`StoredFrom`) need not be reasoned about.

*Patch transaction.* Assumptions: every plan is a sequence of operations on paths of their
own, the contents are apart from each other, the number of edits is a natural. The
properties speak of what became of each operation, which no variable holds: `Control` says
what the counters of a transaction are at each program counter, and from them an operation
is `Untouched`, `Made` or `Returned`. Every step is one of eight kinds by what it does to
the files and to these phases (`Acts`: it looks, gives up, backs up, makes, takes back,
puts back, cleans, dies), so that each property is an induction over eight cases.
`AllOrReported` and `BaseStaysOnDisk` follow from `AloneIsSound`: with one transaction and
no editor an untouched path has its old content, a made one the new content and a backup
until the cleanup, a returned one the old content or a report. `BaseStaysOnDisk` is
therefore about every path but one whose undoing failed, at every state of the
transaction, its cleanup and its death included, until the plan is whole. `NoResidue`
allows an editor, so it says only where the transaction's own content may be
(`AloneIsClean`). `CreationsStand` holds with any number of transactions: where no file
was, only a creation passes its check, and only the one that made the file takes it back
(`CreationsSafe`).

*Event ledger.* Assumptions: `Sharing`, `Bracketed` and `Linked` are writers, the last none
of the others, turns are no writers, the bounds are naturals and the window is not empty.
`Ind` is the type invariant with what a call, a turn and an observation hold at each step.
`NothingLost` and `ChainHasNoGap` are proved for any number of turns, that overlap as they
may: an owner's flush carries the whole buffer but for the events that are late (`Whole`).
The chain then rests on four facts (`Chain`): the hash a call chains to is that of a stored
row, of a row its transaction holds, or empty (`Tails`), and so for the rows held
(`HeldHasNoGap`); of a buffer the events that are not late come first, and all of them are
stored or none is (`Buffered`), so that the second try of a flush whose answer was lost
chains nothing new to what it skips; and what a transaction has is nobody else's (`Apart`),
so that its commit stores all it holds. `NoFalseAlarm` is proved where
no event names a parent (`Linked = {}`), since a suffix reports one before its anchor as
missing (section 4): the checkpoint stands for a stored row (`CheckpointStands`), and the
part an observation reads holds whatever the full audit found of the whole (`Audited`).
The order of the keys is total and a set of them finite, so a latest row exists.

*Ranker model.* Assumptions: a finite set of jobs with kinds, `None` and `Foreign` outside
the sets. `ApprovedIsEvaluated` needs that what a job is about to write is as sound as the
rows (`Pending`), and that a transaction still holds the rows it read (`Locked`).
`OneActive` is proved from `SlotKept`: two rows are active only if an activation found an
empty slot that another one filled, which is on record.

*Brain import.* Assumptions: each import has a brain and each brain a number of sections,
of which any set may be skipped.
`ReadyIsWhole` needs what an import has behind it at every program counter (`Progress`: each
section before `next` is stored or unread), and that a sentinel accounts for the rest, also
one that another import wrote and a third one finds (`Sentinels`). `RetrySucceeds` is recovery
from whatever the past left: a row that came to VALIDATING has its sentinel
(`Sentinels` again), so that the row an import adopts and the step it goes on with agree, and
while no other import runs (`Unmet`) every compare-and-set finds the state it expects.

*Learning review.* Assumptions: the spans of a source are finitely many, and the
authorities are the three. Nothing bounds a source by the limit of the query: that a
review may leave spans behind when its query was cut off is said in the property.
`Warranted` and `Told` carry a decision to the promotion, `Licensed` says whose it may
have been, `Ingested` and `Promoting` say that no span of the source escapes the search,
and `Reserved` that a review that writes a decision found none or is on record as
contested.

*Repair loop.* Assumptions: a finite set of diagnostics, ceilings of at least one.
`Working` ties an attempt under way to the report it started from; `Remembered` says that
every attempt forgotten was made against more diagnostics than there are now, so that
forgetting it allows no repetition, unless its hash is another one by now.
`SuccessWasCompiled` holds for the TypeScript ports; it fails for clang (section 4).
`ReturnedIsApplied` is about a file that somebody else adds an edit to: `KeptInFile` says
that the file, the text retrieved and the text that `apply` read each hold the kept edits
(`Holds`: none other, and all of them in their order unless a text was lost), and the file
the attempt under way as well, so that undoing it restores them.

*Only model-checked*: all liveness (`EveryDispatchEnds`, `EveryTransactionEnds`,
`StreamsEnd`, `EveryCommandEnds`), since fairness and ENABLED are beyond the prover.

## 6. What is not modelled

- The turn runtime, mouth, field, language, proof and causal machinery: sequential
  floating-point computation over data that TLC cannot enumerate.
- The body of ingestion and training: batch jobs whose shared state is the ledger (they
  are its `Sharing` and `Bracketed` writers), the quarantine (`LearningReview`) and tables
  written by single statements.
- The rollback of a ranker model (`postgres.ts:3177`) and the states of a brain that
  nothing sets (`QUARANTINED`, `INCOMPATIBLE`): no caller in the repository.
- What an evaluation measures, a section holds, a proposer proposes.
- The approval session, the schedulers and the caches: lists and flags in the memory of
  one process, changed without an await between the check and the change.
- Parsing, validation, hashing and canonicalisation of plans, bindings and requests.
  Where a check decides between steps (a base hash, a command id, a base state) it is
  modelled by what it compares.
- Compilers, containers, connectors and providers: they answer or they do not.
- The clients, beyond reconnecting, and all tools and scripts.
- Hash collisions: equal hashes are equal contents.

The map covers a small share of the repository's lines, and cannot cover a third of
them: some 250 kernel files are floating-point scoring over graphs and text, without
state that outlives a call, which an abstraction would reduce to "any score", and a
translation would only repeat. What the modules model is the code that keeps state which
others see.
