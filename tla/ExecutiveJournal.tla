---------------------------- MODULE ExecutiveJournal ----------------------------
(***************************************************************************)
(* The durable executive episode: createDurableExecutiveEpisode of         *)
(* kernel/src/executive-journal.ts over createExecutiveEventJournal of     *)
(* adapters-node/src/postgres.ts.  Several writers (server requests, CLI   *)
(* processes, retries of either) dispatch commands to one episode.  A      *)
(* writer reads a snapshot, replays it, decides, and appends the events    *)
(* under the revision it saw; on a conflict it starts over.                *)
(*                                                                         *)
(* read is two SELECTs outside any transaction, so a commit may fall       *)
(* between them.  append is one transaction that holds the episode's row   *)
(* lock: its reads are one step (nothing can change under the lock), its   *)
(* commit another, and a failure between them rolls back.  What a command  *)
(* decides is left to the episode machine: any number of events up to      *)
(* MaxEvents, or a rejection.                                              *)
(***************************************************************************)
EXTENDS Integers, Sequences, FiniteSets

CONSTANTS
    Writers,             \* concurrent callers of dispatch
    Commands,            \* command ids
    MaxConflictRetries,  \* the option of the same name
    MaxEvents,           \* the most events one command emits
    NoWriter,            \* the holder of a free row lock
    NoCommand            \* the command of a writer that never dispatched

ASSUME RetriesAssumption == MaxConflictRetries \in Nat
ASSUME EventsAssumption == MaxEvents \in Nat \ {0}
ASSUME NoWriterAssumption == NoWriter \notin Writers
ASSUME NoCommandAssumption == NoCommand \notin Commands

VARIABLES
    revision,  \* executive_episode.revision
    log,       \* executive_event, by revision
    commands,  \* executive_command
    lock,      \* who holds the episode's row lock
    proc       \* writer -> where its dispatch stands

vars == <<revision, log, commands, lock, proc>>

\* An event: the command that emitted it, and the revision it was decided on.
Event == [command : Commands, basis : Nat]

Pcs == {"idle", "reading", "reading_events", "appending", "committing",
        "loading", "loading_events"}
Results == {"none", "returned", "rejected", "torn", "exhausted", "failed"}

\* seen is the revision of the snapshot, size the number of events decided; since
\* is history, the number of commands committed before the call.
Proc == [pc : Pcs, command : Commands \cup {NoCommand},
         conflicts : 0 .. MaxConflictRetries, seen : Nat, size : 0 .. MaxEvents,
         since : Nat, result : Results]

Goto(w, p) == proc' = [proc EXCEPT ![w].pc = p]

\* A dispatch that is not under way; c is the command it returned for.
Idle(c, r) == [pc |-> "idle", command |-> c, conflicts |-> 0, seen |-> 0,
               size |-> 0, since |-> 0, result |-> r]

\* Dispatch throws, for the reason r, or returns.
Throw(w, r) == proc' = [proc EXCEPT ![w] = Idle(NoCommand, r)]
Return(w) == proc' = [proc EXCEPT ![w] = Idle(proc[w].command, "returned")]

\* The commands state.appliedCommandIds knows after replaying the log.
Applied == {log[i].command : i \in 1 .. Len(log)}

\* The events of writer w's command, decided on the revision it saw.
Decided(w) == [i \in 1 .. proc[w].size |->
                  [command |-> proc[w].command, basis |-> proc[w].seen]]

(***************************************************************************)
(* Reading a snapshot: the revision first, then the events.                *)
(***************************************************************************)
Dispatch(w, c) ==
    /\ proc[w].pc = "idle"
    /\ proc' = [proc EXCEPT ![w] = [pc |-> "reading", command |-> c, conflicts |-> 0,
                                    seen |-> 0, size |-> 0,
                                    since |-> Cardinality(commands), result |-> "none"]]
    /\ UNCHANGED <<revision, log, commands, lock>>

ReadRevision(w) ==
    /\ \/ proc[w].pc = "reading" /\ proc' = [proc EXCEPT ![w].pc = "reading_events",
                                                         ![w].seen = revision]
       \/ proc[w].pc = "loading" /\ proc' = [proc EXCEPT ![w].pc = "loading_events",
                                                         ![w].seen = revision]
    /\ UNCHANGED <<revision, log, commands, lock>>

\* snapshot.revision !== snapshot.events.length
Torn(w) == proc[w].seen # Len(log)

Decide(w) ==
    /\ proc[w].pc = "reading_events"
    /\ \/ Torn(w) /\ Throw(w, "torn")
       \/ ~Torn(w) /\ proc[w].command \in Applied /\ Return(w)
       \/ ~Torn(w) /\ proc[w].command \notin Applied /\ Throw(w, "rejected")
       \/ /\ ~Torn(w) /\ proc[w].command \notin Applied
          /\ \E n \in 1 .. MaxEvents :
                proc' = [proc EXCEPT ![w].pc = "appending", ![w].size = n]
    /\ UNCHANGED <<revision, log, commands, lock>>

LoadEvents(w) ==
    /\ proc[w].pc = "loading_events"
    /\ \/ Torn(w) /\ Throw(w, "torn")
       \/ ~Torn(w) /\ Return(w)
    /\ UNCHANGED <<revision, log, commands, lock>>

(***************************************************************************)
(* Appending.                                                              *)
(***************************************************************************)
\* Mutants of AppendStatus: the revision compared before the command, a stale
\* revision accepted, and a stale revision taken for a repeated command.
ConflictFirst(w) ==
    IF revision # proc[w].seen THEN "conflict"
    ELSE IF proc[w].command \in commands THEN "duplicate" ELSE "appended"
StaleAccepted(w) == IF proc[w].command \in commands THEN "duplicate" ELSE "appended"
StaleIsDuplicate(w) ==
    IF proc[w].command \in commands \/ revision # proc[w].seen
    THEN "duplicate" ELSE "appended"

\* What the transaction finds once it holds the lock: the command is looked
\* up before the revision is compared.
AppendStatus(w) ==
    IF proc[w].command \in commands THEN "duplicate"
    ELSE IF revision # proc[w].seen THEN "conflict" ELSE "appended"

LastTry(w) == proc[w].conflicts = MaxConflictRetries

\* The transaction up to its first write; "duplicate" and "conflict" end it.
BeginAppend(w) ==
    /\ proc[w].pc = "appending"
    /\ lock = NoWriter
    /\ \/ AppendStatus(w) = "appended" /\ lock' = w /\ Goto(w, "committing")
       \/ AppendStatus(w) = "duplicate" /\ Goto(w, "loading") /\ UNCHANGED lock
       \/ /\ AppendStatus(w) = "conflict"
          /\ IF LastTry(w) THEN Throw(w, "exhausted")
             ELSE proc' = [proc EXCEPT ![w].pc = "reading",
                                       ![w].conflicts = @ + 1]
          /\ UNCHANGED lock
    /\ UNCHANGED <<revision, log, commands>>

RevisionEnd(w) == proc[w].seen + proc[w].size

Commit(w) ==
    /\ proc[w].pc = "committing"
    /\ commands' = commands \cup {proc[w].command}
    /\ log' = log \o Decided(w)
    /\ revision' = RevisionEnd(w)
    /\ lock' = NoWriter
    /\ Goto(w, "loading")

\* Mutant of Released: a transaction abandoned without a rollback.
LockKept(w) == lock

\* The lock once w's transaction is rolled back.
Released(w) == IF lock = w THEN NoWriter ELSE lock

\* A query rejects, or the process dies: the transaction under way is rolled
\* back.  A commit whose acknowledgement is lost is Commit and then Fail.
Fail(w) ==
    /\ proc[w].pc # "idle"
    /\ Throw(w, "failed")
    /\ lock' = Released(w)
    /\ UNCHANGED <<revision, log, commands>>

(***************************************************************************)
(* The specification.                                                      *)
(***************************************************************************)
Init ==
    /\ revision = 0
    /\ log = <<>>
    /\ commands = {}
    /\ lock = NoWriter
    /\ proc = [w \in Writers |-> Idle(NoCommand, "none")]

\* The steps of a dispatch that the runtime takes by itself.
Step(w) ==
    \/ ReadRevision(w)
    \/ Decide(w)
    \/ BeginAppend(w)
    \/ Commit(w)
    \/ LoadEvents(w)

Next == \E w \in Writers : Step(w) \/ Fail(w) \/ \E c \in Commands : Dispatch(w, c)

Spec == Init /\ [][Next]_vars

\* Every awaited query is eventually answered, and the row lock queues those
\* that wait for it: a writer cannot be overtaken for ever.
Fairness == \A w \in Writers : WF_vars(Step(w)) /\ SF_vars(BeginAppend(w))

FairSpec == Spec /\ Fairness

(***************************************************************************)
(* Properties.                                                             *)
(***************************************************************************)
\* The tables and each dispatch's local state have the types the row and
\* result interfaces of the journal give them.
TypeOK ==
    /\ revision \in Nat
    /\ log \in Seq(Event)
    /\ commands \in SUBSET Commands
    /\ lock \in Writers \cup {NoWriter}
    /\ proc \in [Writers -> Proc]

\* The three tables agree at every commit: the revision counts the events,
\* and the command table holds exactly the commands that have events.
TablesAgree == revision = Len(log) /\ commands = Applied

\* The log is serial: a command's events follow, without a gap, the very
\* revision the command was decided on, and the command is not there before.
\* So no command is applied twice and none on a state it did not see.
SerialLog ==
    \A i \in 1 .. Len(log) :
        /\ log[i].basis < i
        /\ \A j \in 1 .. i :
              log[j].command = log[i].command <=> j > log[i].basis

\* A dispatch that returned has its command in the log, whoever wrote it and
\* however often it was retried.
AcknowledgedIsDurable ==
    \A w \in Writers :
        proc[w].result = "returned" => proc[w].command \in Applied

\* "conflict retry limit exhausted" is thrown only when the command has not been
\* committed (a retry of a committed one reports a duplicate), and only after others
\* have committed more commands during this very call than there are retries.
ExhaustedMeansContention ==
    [][\A w \in Writers :
          proc[w].pc = "appending" /\ proc'[w].result = "exhausted" =>
             /\ proc[w].command \notin commands
             /\ Cardinality(commands) - proc[w].since > MaxConflictRetries]_vars

\* Every dispatch ends: it returns or throws, whatever the other writers do
\* and wherever they die.
EveryDispatchEnds ==
    \A w \in Writers : proc[w].pc # "idle" ~> proc[w].pc = "idle"

===============================================================================
