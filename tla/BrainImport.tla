------------------------------- MODULE BrainImport -------------------------------
(***************************************************************************)
(* The import of brains and the choice of the active one.                  *)
(*   - kernel/src/brain-lifecycle.ts: the states of an import run and the  *)
(*     transitions between them.                                           *)
(*   - adapters-node/src/postgres.ts: putLifecycle, transitionLifecycle (a *)
(*     compare-and-set on the state), activateReady (one transaction that  *)
(*     also replaces the marker) and active, which reads the marker.       *)
(*   - adapters-node/src/scce2/scce2-to-v3-importer.ts: import, which      *)
(*     creates or resumes the run of a brain, stores its sections, writes  *)
(*     the completion sentinel, validates and activates.                   *)
(*                                                                         *)
(* The id of an import run is a hash of the brain, so every import of one  *)
(* brain works on the same row: a retry after a crash, and a second import *)
(* while the first one still runs.  activateReady is one step: activations *)
(* are serialised by an advisory lock, it locks the rows it reads, and no  *)
(* other statement changes a row to or from ACTIVE.                        *)
(***************************************************************************)
EXTENDS Integers, FiniteSets

CONSTANTS
    Brains,
    Imports,    \* calls of import
    Brain,      \* import -> the brain it imports
    Sections,   \* brain -> how many sections it has
    Skippable,  \* brain -> sections of a kind that is skipped when it cannot be read
    Invalid,    \* brains that fail the validation
    NoBrain     \* no row, no marker

\* The states of a brain's lifecycle that an import can reach.
States == {"CREATED", "IMPORTING", "VALIDATING", "READY", "ACTIVE", "STOPPED", "FAILED"}

ASSUME NoBrainAssumption == NoBrain \notin Brains \cup States
ASSUME BrainAssumption == Brain \in [Imports -> Brains]
ASSUME SectionsAssumption == Sections \in [Brains -> Nat]
ASSUME SkippableAssumption == Skippable \in [Brains -> SUBSET Nat]
ASSUME InvalidAssumption == Invalid \subseteq Brains

VARIABLES
    state,      \* brain -> state of its lifecycle row, or NoBrain
    sentinel,   \* brain -> whether the completion sentinel is in the ledger
    reported,   \* brain -> the sections that the sentinel counts as skipped
    stored,     \* brain -> the sections in the tables
    marker,     \* the active brain, as readers see it
    step,       \* import -> where it stands
    complete,   \* import -> whether it found the sentinel when it began
    saw,        \* import -> the lifecycle state it read last
    next,       \* import -> the section it stores next
    unread,     \* import -> the sections that it could not read
    alone       \* running and failed imports that met no other one and no failure

tables == <<state, sentinel, reported, stored, marker>>
memory == <<complete, saw, next, unread>>
importVars == <<tables, step, memory, alone>>

\* The transitions between the states that an import can reach.
Transitions ==
    [CREATED |-> {"IMPORTING", "FAILED"},
     IMPORTING |-> {"VALIDATING", "STOPPED", "FAILED"},
     VALIDATING |-> {"READY", "FAILED"},
     READY |-> {"ACTIVE"},
     ACTIVE |-> {"READY", "STOPPED"},
     STOPPED |-> {"IMPORTING"},
     FAILED |-> {"IMPORTING"}]

Running(r) == step[r] \notin {"idle", "failed", "over"}

ImportInit ==
    /\ state = [b \in Brains |-> NoBrain]
    /\ sentinel = [b \in Brains |-> FALSE]
    /\ reported = [b \in Brains |-> {}]
    /\ stored = [b \in Brains |-> {}]
    /\ marker = NoBrain
    /\ step = [r \in Imports |-> "idle"]
    /\ complete = [r \in Imports |-> FALSE]
    /\ saw = [r \in Imports |-> NoBrain]
    /\ next = [r \in Imports |-> 1]
    /\ unread = [r \in Imports |-> {}]
    /\ alone = {}

\* r goes on to s.  An import that ends - stopped or dead, done or failed - is
\* over, and what it knew is forgotten; a failure is kept when it was alone.
GoOn(r, s) == step' = [step EXCEPT ![r] = s] /\ UNCHANGED <<memory, alone>>

\* What it knew of the sections is of no use to r any more.
ForgetSections(r) ==
    /\ next' = [next EXCEPT ![r] = 1]
    /\ unread' = [unread EXCEPT ![r] = {}]

EndImport(r, s) ==
    /\ step' = [step EXCEPT ![r] = s]
    /\ complete' = [complete EXCEPT ![r] = FALSE]
    /\ saw' = [saw EXCEPT ![r] = NoBrain]
    /\ ForgetSections(r)
    /\ alone' = IF s = "failed" THEN alone ELSE alone \ {r}

Failed(r) == IF r \in alone THEN "failed" ELSE "over"

(***************************************************************************)
(* transitionLifecycle: UPDATE .. WHERE state=expected; throws otherwise.  *)
(* ACTIVE is left to activateReady.                                        *)
(***************************************************************************)
Generic(from, to) == to \in Transitions[from] /\ "ACTIVE" \notin {from, to}

Expected(b, from) == state[b] = from

\* The import goes on to s if the transition is made, and throws if not.
Transition(r, from, to, s) ==
    LET b == Brain[r]
    IN  IF Generic(from, to) /\ Expected(b, from)
        THEN state' = [state EXCEPT ![b] = to] /\ GoOn(r, s)
        ELSE GoOn(r, "catch") /\ UNCHANGED state

(***************************************************************************)
(* import: find or create the row.                                         *)
(***************************************************************************)
Begin(r) ==
    /\ step[r] = "idle"
    /\ complete' = [complete EXCEPT ![r] = sentinel[Brain[r]]]
    /\ alone' = IF \E q \in Imports : Running(q) THEN {} ELSE {r} \cup alone
    /\ step' = [step EXCEPT ![r] = "lookup"]
    /\ UNCHANGED <<tables, saw, next, unread>>

Lookup(r) ==
    /\ step[r] = "lookup"
    /\ saw' = [saw EXCEPT ![r] = state[Brain[r]]]
    /\ step' = [step EXCEPT ![r] = IF state[Brain[r]] = NoBrain THEN "create" ELSE "adopt"]
    /\ UNCHANGED <<tables, complete, next, unread, alone>>

\* INSERT .. ON CONFLICT DO NOTHING.
Create(r) ==
    /\ step[r] = "create"
    /\ state' = [state EXCEPT ![Brain[r]] = IF @ = NoBrain THEN "CREATED" ELSE @]
    /\ GoOn(r, "lookup")
    /\ UNCHANGED <<sentinel, reported, stored, marker>>

\* Mutant of Resumable: a retry goes on as if the row were IMPORTING.
ResumableNew == {"CREATED"}

Resumable == {"CREATED", "STOPPED", "FAILED"}

Resume(r) ==
    /\ step[r] = "adopt"
    /\ saw[r] \in Resumable
    /\ Transition(r, saw[r], "IMPORTING", IF complete[r] THEN "validate" ELSE "section")
    /\ UNCHANGED <<sentinel, reported, stored, marker>>

\* A run that was complete goes on where it stood; another one stores it all again.
Continue(r) ==
    /\ step[r] = "adopt"
    /\ saw[r] \notin Resumable
    /\ IF complete[r] /\ saw[r] = "ACTIVE"
       THEN EndImport(r, "over")
       ELSE GoOn(r, CASE ~complete[r] -> "section"
                      [] complete[r] /\ saw[r] = "IMPORTING" -> "validate"
                      [] complete[r] /\ saw[r] = "VALIDATING" -> "check"
                      [] complete[r] /\ saw[r] = "READY" -> "activate"
                      [] OTHER -> "catch")
    /\ UNCHANGED tables

(***************************************************************************)
(* The sections, the stop file, the sentinel.                              *)
(***************************************************************************)
\* Mutant of More: the last section is left out.
MoreButLast(r) == next[r] < Sections[Brain[r]]

More(r) == next[r] <= Sections[Brain[r]]

StoreSection(r) ==
    /\ step[r] = "section"
    /\ More(r)
    /\ stored' = [stored EXCEPT ![Brain[r]] = @ \cup {next[r]}]
    /\ next' = [next EXCEPT ![r] = @ + 1]
    /\ UNCHANGED <<state, sentinel, reported, marker, step, complete, saw, unread, alone>>

\* A profile, a prior section, an n-gram state or a snapshot that cannot be read is
\* skipped with a warning; a concept graph in JSON throws.
SkipSection(r) ==
    /\ step[r] = "section"
    /\ More(r)
    /\ next[r] \in Skippable[Brain[r]]
    /\ unread' = [unread EXCEPT ![r] = @ \cup {next[r]}]
    /\ next' = [next EXCEPT ![r] = @ + 1]
    /\ UNCHANGED <<tables, step, complete, saw, alone>>

\* checkStop, before a section: the owner's stop file or the heap.
Stop(r) ==
    /\ step[r] = "section"
    /\ More(r)
    /\ GoOn(r, "stopping")
    /\ UNCHANGED tables

\* A row that is no longer IMPORTING is left alone.
ReadStopped(r) ==
    /\ step[r] = "stopping"
    /\ IF state[Brain[r]] = "IMPORTING" THEN GoOn(r, "stopRow") ELSE EndImport(r, "over")
    /\ UNCHANGED tables

StopRow(r) ==
    /\ step[r] = "stopRow"
    /\ IF Expected(Brain[r], "IMPORTING")
       THEN EndImport(r, "over") /\ state' = [state EXCEPT ![Brain[r]] = "STOPPED"]
       ELSE GoOn(r, "catch") /\ UNCHANGED state
    /\ UNCHANGED <<sentinel, reported, stored, marker>>

AllStored(r) ==
    /\ step[r] = "section"
    /\ ~More(r)
    /\ GoOn(r, "sentinel")
    /\ UNCHANGED tables

\* The row of an earlier import of the brain is overwritten; its counters tell how
\* much this one skipped.
WriteSentinel(r) ==
    /\ step[r] = "sentinel"
    /\ sentinel' = [sentinel EXCEPT ![Brain[r]] = TRUE]
    /\ reported' = [reported EXCEPT ![Brain[r]] = unread[r]]
    /\ step' = [step EXCEPT ![r] = "validate"]
    /\ ForgetSections(r)
    /\ UNCHANGED <<state, stored, marker, complete, saw, alone>>

(***************************************************************************)
(* validateCompletedImport.                                                *)
(***************************************************************************)
StartValidation(r) ==
    /\ step[r] = "validate"
    /\ Transition(r, "IMPORTING", "VALIDATING", "check")
    /\ UNCHANGED <<sentinel, reported, stored, marker>>

Check(r) ==
    /\ step[r] = "check"
    /\ IF Brain[r] \in Invalid
       THEN Transition(r, "VALIDATING", "FAILED", "catch")
       ELSE Transition(r, "VALIDATING", "READY", "activate")
    /\ UNCHANGED <<sentinel, reported, stored, marker>>

(***************************************************************************)
(* activateReady.                                                          *)
(***************************************************************************)
\* Mutant of Replaced: only the brain the marker names is demoted.
ReplacedNot(b) == [state EXCEPT ![b] = "ACTIVE"]

Replaced(b) ==
    [c \in Brains |-> CASE c = b -> "ACTIVE"
                        [] c # b /\ state[c] = "ACTIVE" -> "READY"
                        [] OTHER -> state[c]]

Activate(r) ==
    /\ step[r] = "activate"
    /\ IF state[Brain[r]] = "READY"
       THEN /\ state' = Replaced(Brain[r])
            /\ marker' = Brain[r]
            /\ EndImport(r, "over")
       ELSE GoOn(r, "catch") /\ UNCHANGED <<state, marker>>
    /\ UNCHANGED <<sentinel, reported, stored>>

(***************************************************************************)
(* Failures: any call may throw; the handler marks an unfinished run.      *)
(***************************************************************************)
Throw(r) ==
    /\ Running(r) /\ step[r] \notin {"catch", "mark"}
    /\ step' = [step EXCEPT ![r] = "catch"]
    /\ ForgetSections(r)
    /\ alone' = alone \ {r}
    /\ UNCHANGED <<tables, complete, saw>>

Unfinished == {"CREATED", "IMPORTING", "VALIDATING"}

Catch(r) ==
    /\ step[r] = "catch"
    /\ IF state[Brain[r]] \in Unfinished
       THEN /\ step' = [step EXCEPT ![r] = "mark"]
            /\ saw' = [saw EXCEPT ![r] = state[Brain[r]]]
            /\ UNCHANGED <<complete, next, unread, alone>>
       ELSE EndImport(r, Failed(r))
    /\ UNCHANGED tables

\* The transition of the handler, whose own failure is ignored.
MarkFailed(r) ==
    /\ step[r] = "mark"
    /\ state' = IF Generic(saw[r], "FAILED") /\ Expected(Brain[r], saw[r])
                THEN [state EXCEPT ![Brain[r]] = "FAILED"] ELSE state
    /\ EndImport(r, Failed(r))
    /\ UNCHANGED <<sentinel, reported, stored, marker>>

\* The process dies, and leaves the row as it is.
DieImporting(r) ==
    /\ Running(r)
    /\ EndImport(r, "over")
    /\ UNCHANGED tables

ImportStep(r) ==
    \/ Lookup(r) \/ Create(r) \/ Resume(r) \/ Continue(r)
    \/ StoreSection(r) \/ SkipSection(r) \/ AllStored(r) \/ WriteSentinel(r)
    \/ ReadStopped(r) \/ StopRow(r)
    \/ StartValidation(r) \/ Check(r) \/ Activate(r) \/ Catch(r) \/ MarkFailed(r)

ImportsOver == (\A r \in Imports : step[r] \in {"failed", "over"}) /\ UNCHANGED importVars

ImportNext ==
    \/ \E r \in Imports : Begin(r) \/ ImportStep(r) \/ Stop(r) \/ Throw(r) \/ DieImporting(r)
    \/ ImportsOver

ImportSpec == ImportInit /\ [][ImportNext]_importVars

(***************************************************************************)
(* Properties.                                                             *)
(***************************************************************************)
ImportSteps == {"idle", "failed", "over", "lookup", "create", "adopt", "section", "stopping", "stopRow",
                    "sentinel", "validate", "check", "activate", "catch", "mark"}

\* The type of every variable.
ImportTypeOK ==
    /\ state \in [Brains -> States \cup {NoBrain}]
    /\ sentinel \in [Brains -> BOOLEAN]
    /\ reported \in [Brains -> SUBSET Nat]
    /\ stored \in [Brains -> SUBSET Nat]
    /\ marker \in Brains \cup {NoBrain}
    /\ step \in [Imports -> ImportSteps]
    /\ complete \in [Imports -> BOOLEAN]
    /\ saw \in [Imports -> States \cup {NoBrain}]
    /\ DOMAIN next = Imports
    /\ \A r \in Imports : next[r] \in 1 .. Sections[Brain[r]] + 1
    /\ unread \in [Imports -> SUBSET Nat]
    /\ alone \subseteq Imports

\* The marker, which is all that readers look at, names the one row that is
\* ACTIVE, and there is none before the first activation.
MarkerIsActive == \A b \in Brains : state[b] = "ACTIVE" <=> marker = b

\* A brain that may be activated, or is active, is whole but for what its ledger
\* admits: whatever was stopped, killed, retried or run twice, each of its sections
\* is stored, or the sentinel counts it among those that could not be read.
ReadyIsWhole ==
    \A b \in Brains :
        state[b] \in {"VALIDATING", "READY", "ACTIVE"} =>
            1 .. Sections[b] \subseteq stored[b] \cup reported[b]

\* What is ready stays so: the failure of another import of the same brain, or
\* one that is stopped late, cannot take a finished brain away.
ReadyStaysReady ==
    [][\A b \in Brains : state[b] \in {"READY", "ACTIVE"} => state'[b] \in {"READY", "ACTIVE"}]_importVars

\* Recovery: from whatever earlier imports left behind, wherever they died, an
\* import that runs alone and meets no failure succeeds.
RetrySucceeds ==
    \A r \in alone : step[r] = "failed" => Brain[r] \in Invalid

=================================================================================
