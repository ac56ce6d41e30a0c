------------------------------- MODULE RepairLoop -------------------------------
(***************************************************************************)
(* The code mouth: propose a patch, apply it, ask the compiler, keep it or *)
(* roll it back.                                                           *)
(*   - adapters-node/src/code-mouth.ts: runCodeMouth, its gates            *)
(*     patchResolvedTarget and patchReducedDiagnostics, and the ports of a *)
(*     TypeScript workspace.                                               *)
(*   - adapters-node/src/clang-code-mouth-ports.ts: the ports for C.       *)
(*   - kernel/src/bounded-autonomous-debugging.ts and                      *)
(*     metacognitive-control.ts: the session of attempts against one state *)
(*     of the file, and the decision after each attempt.                   *)
(*                                                                         *)
(* The file is the sequence of edits made to it.  A patch of these ports   *)
(* is one edit of the target file, so the budget of mutated files is never *)
(* reached.  The proposer and the compiler are external: any hypothesis,   *)
(* any report.  Nothing locks the file: somebody else may add an edit to   *)
(* it, in one step here.                                                   *)
(***************************************************************************)
EXTENDS Integers, Sequences, SequencesExt, FiniteSets

CONSTANTS
    Hypotheses,     \* the patches a proposer can come up with
    CodeActions,    \* those of the TypeScript compiler: the whole file anew
    Diagnostics,    \* records [id, kind, target]: what a compiler may report
    Unavailable,    \* the diagnostic that says that the typecheck did not run
    Verifier,       \* "tsc" or "clang"
    Ceiling,        \* iterationCeiling
    MaxWall,        \* maxWallClockMs, in ticks of the clock
    Other,          \* the edit of somebody else
    Lost,           \* the mark of a text taken for empty
    None

ASSUME CeilingAssumption == Ceiling \in Nat \ {0}
ASSUME MaxWallAssumption == MaxWall \in Nat \ {0}
ASSUME OtherAssumption == Other \notin 1 .. Ceiling
ASSUME LostAssumption == Lost \notin 1 .. Ceiling \cup {Other}
ASSUME VerifierAssumption == Verifier \in {"tsc", "clang"}
ASSUME DiagnosticsAssumption == IsFiniteSet(Diagnostics)
ASSUME UnavailableAssumption == Unavailable \in Diagnostics /\ Unavailable.target

VARIABLES
    now,        \* the clock
    file,       \* the edits in the target file: numbers of attempts, Other, Lost
    phase,      \* where the call stands, or how it ended
    attempt,    \* the current iteration
    start,      \* startingDiagnostics
    reported,   \* diagnostics: what is wrong with the file as it was last kept
    applied,    \* the attempts that were kept
    session,    \* the attempts against the current state
    context,    \* the text the proposals are made from
    patch,      \* the proposed operations
    original,   \* what apply read, and what its rollback writes
    answer,     \* the last verification
    tried       \* pairs of diagnostics and patch that were applied

call == <<attempt, start, reported, applied, session, context, patch, original, answer, tried>>
vars == <<now, file, phase, call>>

Report == SUBSET Diagnostics
Answer == [built : BOOLEAN, after : Report]
NewSession(max) == [startedAt |-> now, max |-> max, patches |-> {}, last |-> None]

Init ==
    /\ now = 0
    /\ file = <<>>
    /\ phase = "start"
    /\ attempt = 1
    /\ start = {}
    /\ reported = {}
    /\ applied = <<>>
    /\ session = NewSession(Ceiling)
    /\ context = <<>>
    /\ patch = None
    /\ original = <<>>
    /\ answer = None
    /\ tried = {}

Target(report) == {d \in report : d.target}
Kinds(report) == {d.kind : d \in report}
Ids(report) == {d.id : d \in report}

(***************************************************************************)
(* verify: the compiler reports any diagnostics, or fails to run.  tsc     *)
(* that did not run is reported as a diagnostic, clang that did not run    *)
(* as the absence of diagnostics.                                          *)
(***************************************************************************)
Compiled == {[built |-> report = {}, after |-> report] : report \in SUBSET (Diagnostics \ {Unavailable})}

DidNotRun == [built |-> FALSE, after |-> IF Verifier = "tsc" THEN {Unavailable} ELSE {}]

Verifications == Compiled \cup {DidNotRun}

\* readFile: with the TypeScript ports a read that fails is an empty text, with
\* those of clang it throws.
Read == {file} \cup (IF Verifier = "tsc" THEN {<<Lost>>} ELSE {})

Begin ==
    /\ phase = "start"
    /\ \E v \in Verifications : start' = v.after /\ reported' = v.after
    /\ context' \in Read
    /\ session' = NewSession(Ceiling)
    /\ phase' = "loop"
    /\ UNCHANGED <<now, file, attempt, applied, patch, original, answer, tried>>

(***************************************************************************)
(* One iteration: the clock, the proposal, planDebugAttempt.               *)
(***************************************************************************)
Finish(outcome) == phase' = outcome /\ UNCHANGED <<now, file, call>>

\* What the call held is gone, and the file is as it is.
Abandon(how) ==
    /\ phase' = how
    /\ attempt' = 1 /\ start' = {} /\ reported' = {} /\ applied' = <<>> /\ tried' = {}
    /\ session' = NewSession(Ceiling)
    /\ context' = <<>> /\ original' = <<>> /\ patch' = None /\ answer' = None
    /\ UNCHANGED <<now, file>>

Outcomes == {"resolved", "no_proposal", "stopped", "budget_exhausted"}

\* The beginning of the call is the beginning of the first session.
WallClock ==
    /\ phase = "loop"
    /\ attempt <= Ceiling
    /\ now >= MaxWall
    /\ Finish("stopped")

ReachCeiling ==
    /\ phase = "loop"
    /\ attempt > Ceiling
    /\ Finish("budget_exhausted")

NoProposal ==
    /\ phase = "loop"
    /\ attempt <= Ceiling
    /\ now < MaxWall
    /\ Finish("no_proposal")

\* operationSetHash: the name of an operation is part of it, and a code action is
\* named after the attempt; the other names follow from the edit.
Hash(p) == <<IF p \in CodeActions THEN attempt ELSE 0, p>>

\* planDebugAttempt; every attempt of a session is against the same diagnostics.
Permitted(p) ==
    /\ Cardinality(session.patches) < session.max
    /\ Hash(p) \notin session.patches

Propose ==
    /\ phase = "loop"
    /\ attempt <= Ceiling
    /\ now < MaxWall
    /\ \E p \in Hypotheses :
           IF Permitted(p)
           THEN /\ patch' = p
                /\ tried' = tried \cup {<<reported, p>>}
                /\ phase' = "apply"
           ELSE phase' = "budget_exhausted" /\ UNCHANGED <<patch, tried>>
    /\ UNCHANGED <<now, file, attempt, start, reported, applied, session, context, original, answer>>

(***************************************************************************)
(* apply: read the file, write it; then verify.                            *)
(***************************************************************************)
ReadFile ==
    /\ phase = "apply"
    /\ original' \in Read
    /\ phase' = "write"
    /\ UNCHANGED <<now, file, attempt, start, reported, applied, session, context, patch, answer, tried>>

\* A code action writes the text it was made from, whatever is in the file by then.
WriteFile ==
    /\ phase = "write"
    /\ file' = Append(IF patch \in CodeActions THEN context ELSE original, attempt)
    /\ phase' = "verify"
    /\ UNCHANGED <<now, call>>

Verify ==
    /\ phase = "verify"
    /\ answer' \in Verifications
    /\ phase' = "record"
    /\ UNCHANGED <<now, file, attempt, start, reported, applied, session, context, patch, original, tried>>

(***************************************************************************)
(* recordDebugAttempt and decideDebugLoopContinuation.                     *)
(***************************************************************************)
Elapsed == now - session.startedAt

\* The record throws, and nobody catches: the rollback is lost with the call.
Overrun ==
    /\ phase = "record"
    /\ Elapsed > MaxWall
    /\ Abandon("threw")

\* Mutant of Recorded: only the last attempt is compared with the next one.
RecordedLast ==
    [session EXCEPT !.patches = {Hash(patch)}, !.last = Cardinality(answer.after)]

Recorded ==
    [session EXCEPT !.patches = @ \cup {Hash(patch)}, !.last = Cardinality(answer.after)]

Progress(count) ==
    LET initial == Cardinality(reported)
    IN  IF count < initial THEN initial - count ELSE 0

\* The same diagnostics twice, or no progress over the last two attempts: with
\* fewer than a hundred diagnostics the threshold of 0.01 is one of them.
Stalled == session.last # None /\ Progress(Cardinality(answer.after)) <= Progress(session.last)

Decision ==
    CASE answer.built -> "resolved"
      [] ~answer.built /\ Elapsed >= MaxWall -> "stopped_wall_clock_exhausted"
      [] ~answer.built /\ Elapsed < MaxWall
         /\ Cardinality(Recorded.patches) >= session.max -> "stopped_budget_exhausted"
      [] OTHER -> IF Stalled THEN "stopped_repeated_failure" ELSE "continue"

\* A stall stops the loop only in its last iteration.
GoesOn == Decision = "continue" \/ (Decision = "stopped_repeated_failure" /\ attempt < Ceiling)

(***************************************************************************)
(* The gates, and what follows from them.                                  *)
(***************************************************************************)
Resolved(before, after) == Target(after) = {} /\ Ids(after) \subseteq Ids(before)

\* Mutant of Reduced: new kinds are not looked for.
FewerOnly(before, after) == Cardinality(Target(after)) < Cardinality(Target(before))

Reduced(before, after) ==
    /\ Kinds(after) \subseteq Kinds(before)
    /\ Cardinality(Target(after)) < Cardinality(Target(before))

\* What an iteration held is gone with it.
NextIteration ==
    /\ phase' = "loop"
    /\ attempt' = attempt + 1
    /\ patch' = None /\ original' = <<>> /\ answer' = None

Judged == phase = "record" /\ Elapsed <= MaxWall

Keep ==
    /\ applied' = Append(applied, attempt)
    /\ reported' = answer.after
    /\ UNCHANGED <<now, file, start, tried>>

AcceptFinal ==
    /\ Judged
    /\ Resolved(reported, answer.after)
    /\ Keep
    /\ session' = Recorded
    /\ phase' = "resolved"
    /\ UNCHANGED <<attempt, context, patch, original, answer>>

Remaining == IF Ceiling > attempt THEN Ceiling - attempt ELSE 1

\* A kept step changes the state, so a new session begins.
AcceptPartial ==
    /\ Judged
    /\ ~Resolved(reported, answer.after)
    /\ Reduced(reported, answer.after)
    /\ Keep
    /\ context' \in Read
    /\ session' = NewSession(Remaining)
    /\ NextIteration

Reject ==
    /\ Judged
    /\ ~Resolved(reported, answer.after)
    /\ ~Reduced(reported, answer.after)
    /\ phase' = "rollback"
    /\ UNCHANGED <<now, file, call>>

\* Mutant of Restored: the rollback finds nothing to write.
RestoredNothing == file

Restored == original

\* A session that is used up has decided to stop, so its renewal is not seen.
Rollback ==
    /\ phase = "rollback"
    /\ file' = Restored
    /\ session' = Recorded
    /\ IF GoesOn
       THEN NextIteration
       ELSE phase' = "stopped" /\ UNCHANGED <<attempt, patch, original, answer>>
    /\ UNCHANGED <<now, start, reported, applied, context, tried>>

(***************************************************************************)
(* The rest of the world.                                                  *)
(***************************************************************************)
Over == phase \in Outcomes \cup {"threw", "died"}

\* Proposing and verifying take time.
Tick ==
    /\ phase \in {"loop", "verify", "record"}
    /\ now <= MaxWall
    /\ now' = now + 1
    /\ UNCHANGED <<file, phase, call>>

\* Somebody else adds an edit to the file, once.
OtherWrites ==
    /\ ~Over
    /\ ~Contains(file \o original \o context, Other)
    /\ file' = Append(file, Other)
    /\ UNCHANGED <<now, phase, call>>

\* A port throws or the process dies.
Die ==
    /\ ~Over
    /\ Abandon("died")

Step ==
    \/ Begin \/ WallClock \/ ReachCeiling \/ NoProposal \/ Propose
    \/ ReadFile \/ WriteFile \/ Verify \/ Overrun
    \/ AcceptFinal \/ AcceptPartial \/ Reject \/ Rollback

Terminated == Over /\ UNCHANGED vars

Next == Step \/ Tick \/ OtherWrites \/ Die \/ Terminated

Spec == Init /\ [][Next]_vars

(***************************************************************************)
(* Properties.                                                             *)
(***************************************************************************)
Phases == {"start", "loop", "apply", "write", "verify", "record", "rollback", "threw", "died"} \cup Outcomes

Edits == 1 .. Ceiling \cup {Other, Lost}

\* The type of every variable.
TypeOK ==
    /\ now \in 0 .. MaxWall + 1
    /\ file \in Seq(Edits) /\ original \in Seq(Edits) /\ context \in Seq(Edits)
    /\ phase \in Phases
    /\ attempt \in 1 .. Ceiling + 1
    /\ start \in Report /\ reported \in Report
    /\ applied \in Seq(1 .. Ceiling)
    /\ session \in [startedAt : 0 .. now, max : 1 .. Ceiling,
                   patches : SUBSET ((0 .. Ceiling) \X Hypotheses), last : Nat \cup {None}]
    /\ patch \in Hypotheses \cup {None}
    /\ answer \in Answer \cup {None}
    /\ tried \subseteq Report \X Hypotheses

\* The edits without the one of somebody else, which is there once at most.
Places(edits) == {i \in 1 .. Len(edits) : edits[i] = Other}
OwnEdits(edits) ==
    IF Places(edits) = {} THEN edits ELSE RemoveAt(edits, CHOOSE i \in Places(edits) : TRUE)

\* What the caller is told is what the file holds: when the call returns, no edit
\* that was rejected is in the file, and unless a text was lost to a failed read,
\* its edits are the repairs it kept, in their order - whatever was kept before a
\* rollback and whatever was added by somebody else ("rolls back everything else",
\* server/src/routes.ts:560).
ReturnedIsApplied ==
    phase \in Outcomes =>
        /\ Range(file) \subseteq Range(applied) \cup {Other, Lost}
        /\ Lost \notin Range(file) => OwnEdits(file) = applied

\* The monotone argument of patchReducedDiagnostics: while the loop goes on, every
\* kept repair has taken at least one diagnostic from the target, over all sessions
\* of the call, and no kind of diagnostic is there that was not there at the start.
\* The last repair is judged by the names of the diagnostics, which have no kind.
RepairsConverge ==
    phase # "resolved" =>
        /\ Cardinality(Target(reported)) + Len(applied) <= Cardinality(Target(start))
        /\ Kinds(reported) \subseteq Kinds(start)

\* A patch whose name does not carry the attempt is never tried twice against the
\* same diagnostics, although a kept repair throws the record of the attempts away
\* (bounded-autonomous-debugging.ts:18 says so of every patch).
NoPatchTwice ==
    [][phase' = "apply" /\ phase # "apply" =>
           patch' \in CodeActions \/ <<reported, patch'>> \notin tried]_vars

\* A call that reports "the compiler accepted the patch" has an answer of a
\* compiler that ran.
ResolvedWasCompiled == phase = "resolved" => answer \in Compiled

================================================================================
