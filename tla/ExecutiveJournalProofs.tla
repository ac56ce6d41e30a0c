------------------------- MODULE ExecutiveJournalProofs -------------------------
(***************************************************************************)
(* Theorems about ExecutiveJournal, for any number of writers, commands,   *)
(* retries and events per command.                                         *)
(***************************************************************************)
EXTENDS ExecutiveJournal, SequenceTheorems, FiniteSetTheorems, TLAPS

(***************************************************************************)
(* The inductive invariant.  SerialLog is not inductive: that a commit     *)
(* extends the very log its command was decided on needs the lock, and     *)
(* that the command is new needs the tables to agree.  Each conflict a     *)
(* call met stands for a command committed since the call began, and a     *)
(* snapshot that fell behind for one more.                                 *)
(***************************************************************************)
Before == {"reading_events", "appending", "committing"}

\* The commands committed so far.
Committed == Cardinality(commands)

\* Where a dispatch stands, seen from the tables.
Local(w) ==
    /\ proc[w].pc # "idle" => proc[w].command \in Commands /\ proc[w].result = "none"
    /\ proc[w].pc \in {"appending", "committing"} => proc[w].size >= 1
    /\ lock = w <=> proc[w].pc = "committing"
    /\ proc[w].pc = "committing" => /\ proc[w].seen = revision
                                    /\ proc[w].command \notin commands
    /\ proc[w].pc \in {"loading", "loading_events"} => proc[w].command \in commands
    /\ proc[w].result = "returned" => proc[w].command \in commands
    /\ proc[w].pc \in {"reading"} \cup Before =>
          proc[w].since + proc[w].conflicts <= Committed
    /\ proc[w].pc \in Before =>
          /\ proc[w].seen <= revision
          /\ proc[w].seen # revision =>
                proc[w].since + proc[w].conflicts < Committed

Inv ==
    /\ TypeOK
    /\ TablesAgree
    /\ SerialLog
    /\ IsFiniteSet(commands)
    /\ \A w \in Writers : Local(w)

LEMMA CommittedInNat == Inv => Committed \in Nat
BY FS_CardinalityType DEF Inv, Committed

(***************************************************************************)
(* The log after a commit.                                                 *)
(***************************************************************************)
\* A commit appends size copies of one event: their number and their places.
LEMMA DecidedFacts ==
    ASSUME NEW w \in Writers, TypeOK, proc[w].command \in Commands
    PROVE  /\ Decided(w) \in Seq(Event)
           /\ Len(Decided(w)) = proc[w].size
           /\ log \o Decided(w) \in Seq(Event)
           /\ Len(log \o Decided(w)) = Len(log) + proc[w].size
           /\ \A i \in 1 .. Len(log) : (log \o Decided(w))[i] = log[i]
           /\ \A i \in Len(log) + 1 .. Len(log) + proc[w].size :
                 (log \o Decided(w))[i] =
                    [command |-> proc[w].command, basis |-> proc[w].seen]
<1> DEFINE e == [command |-> proc[w].command, basis |-> proc[w].seen]
<1>1. proc[w].size \in Nat /\ e \in Event /\ log \in Seq(Event)
  BY EventsAssumption DEF TypeOK, Proc, Event
<1>2. Decided(w) = [i \in 1 .. proc[w].size |-> e]
  BY DEF Decided
<1> HIDE DEF e
<1>3. Decided(w) \in Seq(Event) /\ Len(Decided(w)) = proc[w].size
  BY <1>1, <1>2
<1>4. log \o Decided(w) \in Seq(Event)
      /\ Len(log \o Decided(w)) = Len(log) + proc[w].size
  BY <1>1, <1>3, ConcatProperties
<1>5. \A i \in 1 .. Len(log) : (log \o Decided(w))[i] = log[i]
  BY <1>1, <1>3, ConcatProperties
<1>6. ASSUME NEW i \in Len(log) + 1 .. Len(log) + proc[w].size
      PROVE  (log \o Decided(w))[i] = e
  <2>1. i - Len(log) \in 1 .. proc[w].size /\ i \in 1 .. Len(log) + proc[w].size
        /\ i > Len(log)
    BY <1>1
  <2>2. (log \o Decided(w))[i] = Decided(w)[i - Len(log)]
    BY <1>1, <1>3, <2>1, ConcatProperties
  <2> QED BY <2>1, <2>2, <1>2
<1> QED BY <1>3, <1>4, <1>5, <1>6 DEF e

(***************************************************************************)
(* Every step preserves the invariant.                                     *)
(***************************************************************************)
LEMMA InitInv == Init => Inv
<1> SUFFICES ASSUME Init PROVE Inv
  OBVIOUS
<1> USE DEF Init, Idle
<1>1. TypeOK
  BY RetriesAssumption, EventsAssumption DEF TypeOK, Proc, Pcs, Results
<1>2. TablesAgree
  BY DEF TablesAgree, Applied
<1>3. SerialLog
  BY DEF SerialLog
<1>4. \A w \in Writers : Local(w)
  BY NoWriterAssumption DEF Local, Before
<1> QED BY <1>1, <1>2, <1>3, <1>4, FS_EmptySet DEF Inv

\* One dispatch changes: the records of the others, and their type, stay.
LEMMA OneMoves ==
    ASSUME TypeOK, NEW w \in Writers, NEW r \in Proc,
           proc' = [proc EXCEPT ![w] = r]
    PROVE  /\ proc' \in [Writers -> Proc]
           /\ proc'[w] = r
           /\ \A v \in Writers \ {w} : proc'[v] = proc[v]
BY DEF TypeOK

\* The steps that leave the tables alone disturb only the writer that moves.
LEMMA QuietStep ==
    ASSUME Inv, UNCHANGED <<revision, log, commands>>,
           TypeOK', \A w \in Writers : Local(w)'
    PROVE  Inv'
<1>1. TablesAgree'
  BY DEF Inv, TablesAgree, Applied
<1>2. SerialLog'
  BY DEF Inv, SerialLog
<1>3. IsFiniteSet(commands')
  BY DEF Inv
<1> QED BY <1>1, <1>2, <1>3 DEF Inv

LEMMA DispatchInv ==
    ASSUME Inv, NEW w \in Writers, NEW c \in Commands, Dispatch(w, c)
    PROVE  Inv'
<1> USE DEF Inv, Dispatch
<1>0. Committed \in Nat /\ Committed' = Committed
  BY CommittedInNat DEF Committed
<1>1. TypeOK'
  BY <1>0, RetriesAssumption, EventsAssumption DEF TypeOK, Proc, Pcs, Results, Committed
<1>2. ASSUME NEW v \in Writers PROVE Local(v)'
  BY <1>0 DEF TypeOK, Local, Before, Committed
<1> QED BY <1>1, <1>2, QuietStep

LEMMA ReadRevisionInv ==
    ASSUME Inv, NEW w \in Writers, ReadRevision(w)
    PROVE  Inv'
<1> DEFINE q == IF proc[w].pc = "reading" THEN "reading_events" ELSE "loading_events"
           r == [proc[w] EXCEPT !.pc = q, !.seen = revision]
<1>1. /\ TypeOK /\ Local(w) /\ proc[w] \in Proc /\ revision \in Nat
      /\ proc[w].pc \in {"reading", "loading"}
      /\ UNCHANGED <<revision, log, commands, lock>>
      /\ Committed' = Committed
  BY DEF Inv, TypeOK, ReadRevision, Committed
<1>2. proc' = [proc EXCEPT ![w] = r]
  BY <1>1 DEF ReadRevision, TypeOK
<1>3. r \in Proc
  BY <1>1 DEF Proc, Pcs
<1>4. TypeOK'
  BY <1>1, <1>2, <1>3, OneMoves DEF TypeOK
<1>5. ASSUME NEW v \in Writers PROVE Local(v)'
  <2>1. CASE v = w
    <3>1. proc'[w] = r
      BY <1>1, <1>2, <1>3, OneMoves
    <3>2. /\ proc'[w].pc = q /\ proc'[w].seen = revision
          /\ proc'[w].command = proc[w].command /\ proc'[w].result = proc[w].result
          /\ proc'[w].conflicts = proc[w].conflicts /\ proc'[w].since = proc[w].since
      BY <1>1, <3>1 DEF Proc
    <3>3. proc[w].conflicts \in Nat /\ q \in {"reading_events", "loading_events"}
      BY <1>1, RetriesAssumption DEF Proc
    <3> HIDE DEF r
    <3> QED BY <1>1, <3>2, <3>3, <2>1 DEF Local, Before
  <2>2. CASE v # w
    <3>1. proc'[v] = proc[v]
      BY <1>1, <1>2, <1>3, <2>2, OneMoves
    <3> QED BY <1>1, <3>1 DEF Inv, Local
  <2> QED BY <2>1, <2>2
<1> QED BY <1>1, <1>4, <1>5, QuietStep

\* Ending a dispatch that holds no lock.
LEMMA EndInv ==
    ASSUME Inv, NEW w \in Writers, UNCHANGED <<revision, log, commands>>,
           NEW c \in Commands \cup {NoCommand}, NEW r \in Results,
           proc' = [proc EXCEPT ![w] = Idle(c, r)],
           lock' = Released(w),
           r = "returned" => c \in commands
    PROVE  Inv'
<1> USE DEF Inv, Idle, Released
<1>1. TypeOK'
  BY RetriesAssumption, EventsAssumption DEF TypeOK, Proc, Pcs
<1>2. ASSUME NEW v \in Writers PROVE Local(v)'
  BY NoWriterAssumption DEF TypeOK, Local, Before, Committed
<1> QED BY <1>1, <1>2, QuietStep

LEMMA DecideInv ==
    ASSUME Inv, NEW w \in Writers, Decide(w)
    PROVE  Inv'
<1>1. proc[w].pc = "reading_events" /\ lock # w /\ lock' = Released(w)
      /\ UNCHANGED <<revision, log, commands>> /\ proc[w].command \in Commands
  BY DEF Inv, Local, Decide, Released
<1>2. CASE Throw(w, "torn") \/ Throw(w, "rejected")
  BY <1>1, <1>2, EndInv DEF Throw, Results
<1>3. CASE proc[w].command \in Applied /\ Return(w)
  BY <1>1, <1>3, EndInv DEF Return, Results, Inv, TablesAgree
<1>4. ASSUME NEW n \in 1 .. MaxEvents,
             proc' = [proc EXCEPT ![w].pc = "appending", ![w].size = n]
      PROVE  Inv'
  <2>1. TypeOK'
    <3> DEFINE r == [proc[w] EXCEPT !.pc = "appending", !.size = n]
    <3>1. TypeOK /\ proc[w] \in Proc /\ n \in 0 .. MaxEvents
      BY EventsAssumption DEF Inv, TypeOK
    <3>2. r \in Proc
      BY <3>1 DEF Proc, Pcs
    <3>3. proc' = [proc EXCEPT ![w] = r]
      BY <1>4, <3>1 DEF TypeOK
    <3> QED BY <1>1, <3>1, <3>2, <3>3, OneMoves DEF TypeOK, Released
  <2>2. ASSUME NEW v \in Writers PROVE Local(v)'
    BY <1>1, <1>4, EventsAssumption, RetriesAssumption
    DEF Inv, TypeOK, Proc, Local, Before, Released, Committed
  <2> QED BY <1>1, <2>1, <2>2, QuietStep
<1> QED BY <1>2, <1>3, <1>4 DEF Decide

LEMMA LoadEventsInv ==
    ASSUME Inv, NEW w \in Writers, LoadEvents(w)
    PROVE  Inv'
<1>1. lock' = Released(w) /\ UNCHANGED <<revision, log, commands>>
      /\ proc[w].command \in Commands /\ proc[w].command \in commands
  BY DEF Inv, Local, LoadEvents, Released
<1>2. CASE Throw(w, "torn")
  BY <1>1, <1>2, EndInv DEF Throw, Results
<1>3. CASE Return(w)
  BY <1>1, <1>3, EndInv DEF Return, Results
<1> QED BY <1>2, <1>3 DEF LoadEvents

LEMMA FailInv ==
    ASSUME Inv, NEW w \in Writers, Fail(w)
    PROVE  Inv'
BY EndInv DEF Fail, Throw, Results

LEMMA BeginAppendInv ==
    ASSUME Inv, NEW w \in Writers, BeginAppend(w)
    PROVE  Inv'
<1>1. /\ UNCHANGED <<revision, log, commands>> /\ lock = NoWriter
      /\ proc[w].pc = "appending" /\ proc[w].command \in Commands
      /\ proc[w].size >= 1 /\ Committed' = Committed
      /\ proc[w].since + proc[w].conflicts <= Committed
      /\ proc[w].seen # revision => proc[w].since + proc[w].conflicts < Committed
      /\ proc[w].seen <= revision /\ proc[w] \in Proc /\ revision \in Nat
  BY DEF Inv, TypeOK, Local, Before, BeginAppend, Committed
<1>2. CASE AppendStatus(w) = "appended" /\ lock' = w /\ Goto(w, "committing")
  <2>0. proc[w].command \notin commands /\ revision = proc[w].seen
    BY <1>2 DEF AppendStatus
  <2>1. TypeOK'
    BY <1>1, <1>2 DEF Inv, TypeOK, Proc, Pcs, Goto
  <2>2. ASSUME NEW v \in Writers PROVE Local(v)'
    BY <1>1, <1>2, <2>0, NoWriterAssumption DEF Inv, TypeOK, Proc, Goto, Local, Before
  <2> QED BY <1>1, <2>1, <2>2, QuietStep
<1>3. CASE AppendStatus(w) = "duplicate" /\ Goto(w, "loading") /\ UNCHANGED lock
  <2>0. proc[w].command \in commands
    BY <1>3 DEF AppendStatus
  <2>1. TypeOK'
    BY <1>1, <1>3 DEF Inv, TypeOK, Proc, Pcs, Goto
  <2>2. ASSUME NEW v \in Writers PROVE Local(v)'
    BY <1>1, <1>3, <2>0, NoWriterAssumption DEF Inv, TypeOK, Proc, Goto, Local, Before
  <2> QED BY <1>1, <2>1, <2>2, QuietStep
<1>4. CASE UNCHANGED lock /\ Throw(w, "exhausted")
  <2>1. lock' = Released(w)
    BY <1>1, <1>4, NoWriterAssumption DEF Released
  <2> QED BY <1>1, <1>4, <2>1, EndInv DEF Throw, Results
<1>5. CASE /\ AppendStatus(w) = "conflict" /\ ~LastTry(w) /\ UNCHANGED lock
           /\ proc' = [proc EXCEPT ![w].pc = "reading", ![w].conflicts = @ + 1]
  <2>0. proc[w].since + (proc[w].conflicts + 1) <= Committed
        /\ proc[w].conflicts + 1 \in 0 .. MaxConflictRetries
    BY <1>1, <1>5, CommittedInNat, RetriesAssumption DEF AppendStatus, LastTry, Proc
  <2>1. TypeOK'
    BY <1>1, <1>5, <2>0 DEF Inv, TypeOK, Proc, Pcs
  <2>2. ASSUME NEW v \in Writers PROVE Local(v)'
    BY <1>1, <1>5, <2>0, NoWriterAssumption DEF Inv, TypeOK, Proc, Local, Before
  <2> QED BY <1>1, <2>1, <2>2, QuietStep
<1> QED BY <1>2, <1>3, <1>4, <1>5 DEF BeginAppend

LEMMA CommitInv ==
    ASSUME Inv, NEW w \in Writers, Commit(w)
    PROVE  Inv'
<1> DEFINE c == proc[w].command
           n == proc[w].size
           k == Len(log)
<1>1. /\ TypeOK /\ proc[w] \in Proc /\ c \in Commands /\ n \in Nat /\ n >= 1
      /\ k \in Nat /\ revision = k /\ proc[w].seen = k
      /\ c \notin Applied /\ commands = Applied /\ lock = w
  BY EventsAssumption DEF Inv, TypeOK, Proc, TablesAgree, Local, Commit
<1>2. /\ log' \in Seq(Event) /\ Len(log') = k + n
      /\ \A i \in 1 .. k : log'[i] = log[i]
      /\ \A i \in k + 1 .. k + n : log'[i] = [command |-> c, basis |-> k]
  BY <1>1, DecidedFacts DEF Commit
<1>3. revision' = k + n /\ commands' = commands \cup {c} /\ lock' = NoWriter
      /\ proc' = [proc EXCEPT ![w].pc = "loading"]
  BY <1>1 DEF Commit, RevisionEnd, Goto
<1>4. TypeOK'
  <2> DEFINE r == [proc[w] EXCEPT !.pc = "loading"]
  <2>1. r \in Proc
    BY <1>1 DEF Proc, Pcs
  <2>2. proc' = [proc EXCEPT ![w] = r]
    BY <1>1, <1>3 DEF TypeOK
  <2>3. proc' \in [Writers -> Proc]
    BY <1>1, <2>1, <2>2, OneMoves
  <2> QED BY <1>1, <1>2, <1>3, <2>3 DEF TypeOK
<1>5. Applied' = Applied \cup {c}
  <2>1. ASSUME NEW i \in 1 .. Len(log') PROVE log'[i].command \in Applied \cup {c}
    <3>1. CASE i \in 1 .. k
      BY <1>2, <3>1 DEF Applied
    <3>2. CASE i \in k + 1 .. k + n
      BY <1>2, <3>2
    <3> QED BY <1>1, <1>2, <3>1, <3>2
  <2>2. ASSUME NEW i \in 1 .. k PROVE log[i].command \in Applied'
    <3>1. i \in 1 .. Len(log') /\ log'[i] = log[i]
      BY <1>1, <1>2
    <3> QED BY <3>1 DEF Applied
  <2>3. c \in Applied'
    <3>1. k + 1 \in 1 .. Len(log') /\ log'[k + 1].command = c
      BY <1>1, <1>2
    <3> QED BY <3>1 DEF Applied
  <2> QED BY <2>1, <2>2, <2>3 DEF Applied
<1>6. TablesAgree'
  BY <1>1, <1>2, <1>3, <1>5 DEF TablesAgree
<1>7. ASSUME NEW i \in 1 .. Len(log'), NEW j \in 1 .. i
      PROVE  /\ log'[i].basis < i
             /\ log'[j].command = log'[i].command <=> j > log'[i].basis
  <2>1. CASE i \in 1 .. k
    <3>1. j \in 1 .. k
      BY <1>1, <2>1
    <3> QED BY <1>2, <2>1, <3>1 DEF Inv, SerialLog
  <2>2. CASE i \in k + 1 .. k + n /\ j \in 1 .. k
    <3>1. log[j].command \in Applied
      BY <2>2 DEF Applied
    <3> QED BY <1>1, <1>2, <2>2, <3>1
  <2>3. CASE i \in k + 1 .. k + n /\ j \in k + 1 .. k + n
    BY <1>1, <1>2, <2>3
  <2> QED BY <1>1, <1>2, <2>1, <2>2, <2>3
<1>8. SerialLog'
  <2>1. ASSUME NEW i \in 1 .. Len(log') PROVE log'[i].basis < i
    <3>1. i \in 1 .. i
      BY <1>1, <1>2
    <3> QED BY <3>1, <1>7
  <2> QED BY <1>7, <2>1 DEF SerialLog
<1>10. IsFiniteSet(commands') /\ Committed' = Committed + 1 /\ Committed \in Nat
  BY <1>1, <1>3, FS_AddElement, CommittedInNat DEF Inv, Committed
<1>9. ASSUME NEW v \in Writers PROVE Local(v)'
  <2>1. CASE v = w
    BY <1>1, <1>3, <2>1, NoWriterAssumption DEF Inv, TypeOK, Local, Before
  <2>2. CASE v # w
    <3>1. proc'[v] = proc[v] /\ proc[v].pc # "committing" /\ proc[v] \in Proc
      BY <1>1, <1>3, <2>2 DEF Inv, TypeOK, Local
    <3>2. Local(v)
      BY DEF Inv
    <3>3. proc[v].conflicts \in Nat /\ proc[v].since \in Nat /\ proc[v].seen \in Nat
      BY <3>1, RetriesAssumption DEF Proc
    <3>4. proc[v].pc \in {"reading"} \cup Before =>
             proc[v].since + proc[v].conflicts < Committed + 1
      BY <1>10, <3>2, <3>3 DEF Local
    <3>5. proc[v].pc \in {"reading"} \cup Before =>
             proc[v].since + proc[v].conflicts <= Committed'
      BY <1>10, <3>3, <3>4
    <3>6. proc[v].pc \in Before =>
             /\ proc[v].seen <= revision'
             /\ proc[v].seen # revision' =>
                   proc[v].since + proc[v].conflicts < Committed'
      BY <1>1, <1>3, <1>10, <3>2, <3>3, <3>4 DEF Local, Before
    <3>7. lock' # v /\ lock # v
      BY <1>1, <1>3, <2>2, NoWriterAssumption
    <3>8. /\ proc[v].pc # "idle" => proc[v].command \in Commands /\ proc[v].result = "none"
          /\ proc[v].pc \in {"appending", "committing"} => proc[v].size >= 1
          /\ proc[v].pc \in {"loading", "loading_events"} => proc[v].command \in commands'
          /\ proc[v].result = "returned" => proc[v].command \in commands'
      BY <1>3, <3>1, <3>2 DEF Local
    <3> QED BY <3>1, <3>5, <3>6, <3>7, <3>8 DEF Local, Before
  <2> QED BY <2>1, <2>2
<1> QED BY <1>4, <1>6, <1>8, <1>9, <1>10 DEF Inv

LEMMA NextInv == Inv /\ [Next]_vars => Inv'
<1> SUFFICES ASSUME Inv, [Next]_vars PROVE Inv'
  OBVIOUS
<1>1. ASSUME NEW w \in Writers, Step(w) PROVE Inv'
  BY <1>1, ReadRevisionInv, DecideInv, BeginAppendInv, CommitInv, LoadEventsInv DEF Step
<1>2. ASSUME NEW w \in Writers, Fail(w) PROVE Inv'
  BY <1>2, FailInv
<1>3. ASSUME NEW w \in Writers, NEW c \in Commands, Dispatch(w, c) PROVE Inv'
  BY <1>3, DispatchInv
<1>4. CASE UNCHANGED vars
  <2> USE <1>4 DEF vars
  <2>1. TypeOK' /\ (\A w \in Writers : Local(w)')
    BY DEF Inv, TypeOK, Local, Committed
  <2> QED BY <2>1, QuietStep
<1> QED BY <1>1, <1>2, <1>3, <1>4 DEF Next

(***************************************************************************)
(* The theorems.                                                           *)
(***************************************************************************)
\* The strengthened invariant holds in every reachable state.
THEOREM Invariant == Spec => []Inv
BY InitInv, NextInv, PTL DEF Spec

\* Tables and dispatches keep the types the journal's interfaces declare.
THEOREM TypeCorrect == Spec => []TypeOK
<1>1. Inv => TypeOK
  BY DEF Inv
<1> QED BY <1>1, Invariant, PTL

\* The revision counts the events and the command table names exactly the
\* commands that have some, after every commit, failure and retry.
THEOREM Tables == Spec => []TablesAgree
<1>1. Inv => TablesAgree
  BY DEF Inv
<1> QED BY <1>1, Invariant, PTL

\* dispatch serialises: each command is applied once, on the state it saw.
THEOREM Serial == Spec => []SerialLog
<1>1. Inv => SerialLog
  BY DEF Inv
<1> QED BY <1>1, Invariant, PTL

\* A dispatch that returned left its command in the durable log.
THEOREM Acknowledged == Spec => []AcknowledgedIsDurable
<1>1. Inv => AcknowledgedIsDurable
  BY DEF Inv, Local, TablesAgree, AcknowledgedIsDurable
<1> QED BY <1>1, Invariant, PTL

\* Giving up after the retries means that the command is not committed and
\* others committed more commands, since the call began, than there are retries.
THEOREM Contention == Spec => ExhaustedMeansContention
<1>1. ASSUME Inv, NEW w \in Writers, proc[w].pc = "appending", [Next]_vars,
             proc'[w].result = "exhausted"
      PROVE  /\ proc[w].command \notin commands
             /\ Cardinality(commands) - proc[w].since > MaxConflictRetries
  <2>1. /\ proc \in [Writers -> Proc] /\ proc[w] \in Proc /\ Local(w)
        /\ proc[w].result = "none" /\ revision = Len(log) /\ revision \in Nat
    BY <1>1 DEF Inv, TypeOK, TablesAgree, Local
  <2>2. BeginAppend(w)
    <3>2. ASSUME NEW v \in Writers,
                 ReadRevision(v) \/ Decide(v) \/ Commit(v) \/ LoadEvents(v)
          PROVE  FALSE
      BY <1>1, <2>1, <3>2
      DEF ReadRevision, Decide, Commit, LoadEvents, Throw, Return, Goto, Idle
    <3>3. ASSUME NEW v \in Writers, Fail(v) PROVE FALSE
      BY <1>1, <2>1, <3>3 DEF Fail, Throw, Idle
    <3>4. ASSUME NEW v \in Writers, NEW c \in Commands, Dispatch(v, c) PROVE FALSE
      BY <1>1, <2>1, <3>4 DEF Dispatch
    <3>5. ASSUME NEW v \in Writers, v # w, BeginAppend(v) PROVE FALSE
      BY <1>1, <2>1, <3>5 DEF BeginAppend, Throw, Goto, Idle
    <3> QED BY <1>1, <2>1, <3>2, <3>3, <3>4, <3>5 DEF Next, Step, vars
  <2>3. AppendStatus(w) = "conflict" /\ LastTry(w)
    <3>1. ASSUME NEW p \in Pcs, Goto(w, p) PROVE FALSE
      BY <1>1, <2>1, <3>1 DEF Goto
    <3>2. CASE ~LastTry(w)
      <4>1. proc' = [proc EXCEPT ![w].pc = "reading", ![w].conflicts = @ + 1]
        BY <2>2, <3>1, <3>2 DEF BeginAppend, Pcs
      <4>2. proc'[w].result = proc[w].result
        BY <2>1, <4>1 DEF Proc
      <4> QED BY <1>1, <2>1, <4>2
    <3>3. CASE LastTry(w)
      BY <2>2, <3>1, <3>3 DEF BeginAppend, Pcs
    <3> QED BY <3>2, <3>3
  <2>4. proc[w].command \notin commands /\ revision # proc[w].seen
    BY <2>3 DEF AppendStatus
  <2>5. proc[w].since + proc[w].conflicts < Committed /\ Committed \in Nat
    BY <1>1, <2>1, <2>4, CommittedInNat DEF Local, Before
  <2> QED BY <2>1, <2>3, <2>4, <2>5, RetriesAssumption DEF LastTry, Proc, Committed
<1>2. Inv /\ [Next]_vars =>
        [\A w \in Writers :
           proc[w].pc = "appending" /\ proc'[w].result = "exhausted" =>
              /\ proc[w].command \notin commands
              /\ Cardinality(commands) - proc[w].since > MaxConflictRetries]_vars
  BY <1>1
<1> QED BY <1>2, Invariant, PTL DEF Spec, ExhaustedMeansContention
===============================================================================
