------------------------------ MODULE EventLedger ------------------------------
(***************************************************************************)
(* The hash-chained event ledger: who writes it and who verifies it.       *)
(*   - kernel/src/kernel.ts: a turn buffers its events in bufferedEvents   *)
(*     and appends them in one batch when it ends; a turn that begins      *)
(*     while another one buffers joins that buffer.                        *)
(*     Whatever else runs in the kernel meanwhile (ingestion, training,    *)
(*     causal analysis) appends by the same function, to the same buffer.  *)
(*   - kernel/src/ingestion-runtime.ts appends the events of a file within *)
(*     the file's transaction, which shows them when it commits.           *)
(*   - server/src/turn-task-registry.ts appends single events by a call of *)
(*     its own.                                                            *)
(*   - adapters-node/src/postgres.ts: appendBatch reads the ledger hash of *)
(*     the newest row and chains the batch to it, in one transaction.      *)
(*   - adapters-node/src/governance-probe.ts: observe verifies the chain   *)
(*     from a checkpoint on, fullyVerifyEventLedger all of it.             *)
(*                                                                         *)
(* An event is identified by its key: the millisecond it was made in and   *)
(* the rank its random id has among the events of that millisecond.  Rows  *)
(* are read in the order of their keys.  A ledger hash identifies what was *)
(* hashed into it, so it is the sequence of keys it was chained over.      *)
(***************************************************************************)
EXTENDS Integers, Sequences, FiniteSets

CONSTANTS
    Turns,      \* turns of one kernel, that may overlap
    Writers,    \* whoever else appends events, one by one
    Linked,     \* those whose events name their last one as parent
    Sharing,    \* those that append by the kernel's function
    Bracketed,  \* those that append within a transaction of theirs
    Observers,  \* callers of the probe
    MaxTime,    \* bound on the clock
    MaxRank,    \* bound on the events of one millisecond
    Window,     \* boundedFirstScanEvents
    FullScanOnStart,
    None        \* no event, no buffer, no checkpoint

ASSUME WritersAssumption == Sharing \subseteq Writers /\ Bracketed \subseteq Writers
ASSUME LinkedAssumption == Linked \subseteq Writers \ (Sharing \cup Bracketed)
ASSUME CallersAssumption == Turns \cap Writers = {}
ASSUME BoundsAssumption == MaxTime \in Nat /\ MaxRank \in Nat /\ Window \in Nat \ {0}
ASSUME FullScanAssumption == FullScanOnStart \in BOOLEAN

VARIABLES
    now,         \* the clock, in milliseconds
    issued,      \* keys of the events made so far
    ledger,      \* key -> row of the events table
    buffer,      \* bufferedEvents
    turn,        \* turn -> where it stands
    last,        \* writer -> key of its last stored event
    appending,   \* turn or writer -> its call of appendBatch
    held,        \* writer -> rows of its transaction, not yet committed
    reported,    \* events whose loss was reported
    late,        \* events added to a buffer that was being flushed (history)
    checkpoint,  \* the probe's ledgerCheckpoint
    observer     \* observer -> where its observation stands

writing == <<buffer, turn, last, appending, held, reported, late>>
probe == <<checkpoint, observer>>
vars == <<now, issued, ledger, writing, probe>>

Keys == [t : 0 .. MaxTime, rank : 1 .. MaxRank]
Event == [key : Keys, parent : Keys \cup {None}]
Row == [parent : Keys \cup {None}, chain : Seq(Keys)]
Checkpoint == [key : Keys, chain : Seq(Keys)]

ASSUME NoneAssumption == None \notin Keys /\ None \notin Seq(Event) /\ None \notin Checkpoint

Rows == DOMAIN ledger
EventsOf(batch) == {batch[i].key : i \in 1 .. Len(batch)}

(***************************************************************************)
(* The order of the rows: ORDER BY t, id.                                  *)
(***************************************************************************)
Before(j, k) == j.t < k.t \/ (j.t = k.t /\ j.rank < k.rank)

\* Of a set of keys, the newest, and the newest before k.
Newest(S) == CHOOSE k \in S : \A j \in S : j = k \/ Before(j, k)
Oldest(S) == CHOOSE k \in S : \A j \in S : j = k \/ Before(k, j)
Earlier(S, k) == {j \in S : Before(j, k)}

(***************************************************************************)
(* Appending.                                                              *)
(***************************************************************************)
\* Mutant of Chained: a batch of which the first event is not stored.
FirstDropped(batch, tail) ==
    [k \in EventsOf(batch) \ {batch[1].key} |->
        LET i == CHOOSE n \in 1 .. Len(batch) : batch[n].key = k
        IN  [parent |-> batch[i].parent,
             chain |-> tail \o [n \in 1 .. i |-> batch[n].key]]]

\* The rows of a batch, each chained to the one before it.
Chained(batch, tail) ==
    [k \in EventsOf(batch) |->
        LET i == CHOOSE n \in 1 .. Len(batch) : batch[n].key = k
        IN  [parent |-> batch[i].parent,
             chain |-> tail \o [n \in 1 .. i |-> batch[n].key]]]

\* ON CONFLICT(id) DO NOTHING: a row that is there stays as it is.
Inserted(rows) ==
    [k \in Rows \cup DOMAIN rows |-> IF k \in Rows THEN ledger[k] ELSE rows[k]]

\* The rows p has inserted and nobody else sees yet.
NoRows == [k \in {} |-> None]
HeldBy(p) == IF p \in Writers THEN held[p] ELSE NoRows

\* Mutant of LatestLedgerHash: there is no first hash to begin a chain with.
NoFirstHash(p) ==
    LET table == Inserted(HeldBy(p))
    IN  IF DOMAIN table = {} THEN None ELSE table[Newest(DOMAIN table)].chain

\* The ledger hash of the newest row p sees.
LatestLedgerHash(p) ==
    LET table == Inserted(HeldBy(p))
    IN  IF DOMAIN table = {} THEN <<>> ELSE table[Newest(DOMAIN table)].chain

\* Makes the event with key k.
Make(k) == k.t = now /\ k \notin issued /\ issued' = issued \cup {k}
EventAt(k, p) == [key |-> k, parent |-> p]

Tick ==
    /\ now < MaxTime
    /\ now' = now + 1
    /\ UNCHANGED <<issued, ledger, writing, probe>>

(***************************************************************************)
(* How a turn ends.                                                        *)
(***************************************************************************)
IdleTurn == [pc |-> "idle", owner |-> FALSE, threw |-> FALSE]

\* Its owner lets go of the buffer, whatever it holds by then.
EndOf(u) ==
    /\ turn' = [turn EXCEPT ![u] = IdleTurn]
    /\ buffer' = IF turn[u].owner THEN None ELSE buffer

(***************************************************************************)
(* A call of appendBatch: it reads the tail, computes the rows from the    *)
(* events it was given (a flush: whatever the buffer holds by then) and    *)
(* inserts them.  Nothing is locked in between.                            *)
(***************************************************************************)
NotAppending == [pc |-> "none", batch |-> <<>>, tail |-> <<>>]
AppendOf(batch) == [pc |-> "read", batch |-> batch, tail |-> <<>>]

Flushing(p) == p \in Turns /\ turn[p].pc = "flush"

ReadTail(p) ==
    /\ appending[p].pc = "read"
    /\ appending' = [appending EXCEPT
          ![p] = [pc |-> "insert", tail |-> LatestLedgerHash(p),
                  batch |-> IF Flushing(p) THEN buffer ELSE @.batch]]
    /\ UNCHANGED <<now, issued, ledger, buffer, turn, last, held, reported, late, probe>>

\* The rows of p's call are inserted: into its transaction, if it has one.
Insert(p) ==
    /\ appending[p].pc = "insert"
    /\ LET rows == Chained(appending[p].batch, appending[p].tail) IN
       IF p \in Bracketed
       THEN held' = [held EXCEPT ![p] = [k \in DOMAIN @ \cup DOMAIN rows |->
                        IF k \in DOMAIN @ THEN @[k] ELSE rows[k]]] /\ UNCHANGED ledger
       ELSE ledger' = Inserted(rows) /\ UNCHANGED held
    /\ appending' = [appending EXCEPT ![p] = NotAppending]
    /\ last' = IF p \in Linked THEN [last EXCEPT ![p] = appending[p].batch[1].key]
                               ELSE last
    /\ IF Flushing(p) THEN EndOf(p) ELSE UNCHANGED <<buffer, turn>>
    /\ UNCHANGED <<now, issued, reported, late, probe>>

\* Mutant of Unstored: a second failure of a flush is swallowed.
LostSilently(p) == IF Flushing(p) THEN {} ELSE EventsOf(appending[p].batch)

\* The events a failed append leaves unstored, in the report of the failure.
Unstored(p) == EventsOf(IF Flushing(p) THEN buffer ELSE appending[p].batch)

\* The call rejects, rolled back or (its acknowledgement lost) committed.  A
\* flush is tried once more by the catch block, which reports its failure; a
\* turn that appended by itself ends with the error; a writer goes on.
AppendFails(p) ==
    /\ appending[p].pc # "none" /\ p \notin Bracketed
    /\ \/ UNCHANGED ledger
       \/ /\ appending[p].pc = "insert"
          /\ ledger' = Inserted(Chained(appending[p].batch, appending[p].tail))
    /\ IF Flushing(p) /\ ~turn[p].threw
       THEN /\ turn' = [turn EXCEPT ![p].threw = TRUE]
            /\ appending' = [appending EXCEPT ![p] = AppendOf(<<>>)]
            /\ UNCHANGED <<buffer, reported>>
       ELSE /\ reported' = reported \cup Unstored(p)
            /\ appending' = [appending EXCEPT ![p] = NotAppending]
            /\ IF p \in Turns THEN EndOf(p) ELSE UNCHANGED <<buffer, turn>>
    /\ UNCHANGED <<now, issued, last, held, late, probe>>

\* The transaction of a file ends: its rows show, or none of it is there and
\* whoever asked for the file is told.
Commit(w) ==
    /\ appending[w] = NotAppending /\ held[w] # NoRows
    /\ ledger' = Inserted(held[w])
    /\ held' = [held EXCEPT ![w] = NoRows]
    /\ UNCHANGED <<now, issued, buffer, turn, last, appending, reported, late, probe>>

RollBack(w) ==
    /\ w \in Bracketed
    /\ appending[w].pc # "none" \/ held[w] # NoRows
    /\ reported' = reported \cup EventsOf(appending[w].batch) \cup DOMAIN held[w]
    /\ appending' = [appending EXCEPT ![w] = NotAppending]
    /\ held' = [held EXCEPT ![w] = NoRows]
    /\ UNCHANGED <<now, issued, ledger, buffer, turn, last, late, probe>>

(***************************************************************************)
(* The kernel's append: into the buffer while there is one, whosever it    *)
(* is and whether or not it is being flushed.                              *)
(***************************************************************************)
Calls(p, e) ==
    /\ appending' = [appending EXCEPT ![p] = AppendOf(<<e>>)]
    /\ UNCHANGED <<buffer, late>>

KernelAppend(p, e) ==
    IF buffer # None
    THEN /\ buffer' = Append(buffer, e)
         /\ late' = IF \E u \in Turns : Flushing(u) THEN late \cup {e.key} ELSE late
         /\ UNCHANGED appending
    ELSE Calls(p, e)

\* A writer goes on with its next event when the last append has ended.
Write(w) ==
    /\ appending[w] = NotAppending
    /\ \E k \in Keys :
          /\ Make(k)
          /\ LET e == EventAt(k, IF w \in Linked THEN last[w] ELSE None)
             IN  IF w \in Sharing THEN KernelAppend(w, e) ELSE Calls(w, e)
    /\ UNCHANGED <<now, ledger, turn, last, held, reported, probe>>

(***************************************************************************)
(* A turn: withBufferedEventWrites.  One that finds no buffer makes it and *)
(* owns it; one that finds a buffer uses it.                               *)
(***************************************************************************)
BeginTurn(u) ==
    /\ turn[u].pc = "idle"
    /\ turn' = [turn EXCEPT ![u] = [pc |-> "run", owner |-> buffer = None, threw |-> FALSE]]
    /\ buffer' = IF buffer = None THEN <<>> ELSE buffer
    /\ UNCHANGED <<now, issued, ledger, last, appending, held, reported, late, probe>>

Emit(u) ==
    /\ turn[u].pc = "run" /\ appending[u] = NotAppending
    /\ \E k \in Keys : Make(k) /\ KernelAppend(u, EventAt(k, None))
    /\ UNCHANGED <<now, ledger, turn, last, held, reported, probe>>

\* The run returns or throws: the buffer is flushed by its owner.
EndTurn(u) ==
    /\ turn[u].pc = "run" /\ appending[u] = NotAppending
    /\ IF turn[u].owner /\ buffer # <<>>
       THEN /\ \E threw \in BOOLEAN :
                  turn' = [turn EXCEPT ![u].pc = "flush", ![u].threw = threw]
            /\ appending' = [appending EXCEPT ![u] = AppendOf(<<>>)]
            /\ UNCHANGED buffer
       ELSE EndOf(u) /\ UNCHANGED appending
    /\ UNCHANGED <<now, issued, ledger, last, held, reported, late, probe>>

(***************************************************************************)
(* Verifying.                                                              *)
(***************************************************************************)
\* verifyEventChain: every parent is among the events (its hash is part of
\* the event's own).
ParentsHold(S) == \A k \in S : ledger[k].parent \in S \cup {None}

\* Every row of S is chained to the one before it in S; the first to base.
ChainHolds(S, base) ==
    \A k \in S :
        ledger[k].chain =
            Append(IF Earlier(S, k) = {} THEN base ELSE ledger[Newest(Earlier(S, k))].chain, k)

\* fullyVerifyEventLedger.
FullAudit == Rows # {} /\ ParentsHold(Rows) /\ ChainHolds(Rows, <<>>)

\* What a first scan verifies: the newest rows, the first one of them unchained.
WindowRows == {k \in Rows : Cardinality({j \in Rows : Before(k, j)}) < Window}

FirstScanHolds(S) ==
    /\ S # {}
    /\ ParentsHold(S)
    /\ IF FullScanOnStart THEN ChainHolds(S, <<>>)
       ELSE ChainHolds(S \ {Oldest(S)}, ledger[Oldest(S)].chain)

\* Mutant of Suffix: the anchor itself is scanned again.
FromAnchor(anchor) == {k \in Rows : ~Before(k, anchor)}

Suffix(anchor) == {k \in Rows : Before(anchor, k)}

RowsToVerify(anchor) ==
    IF anchor # None THEN Suffix(anchor)
    ELSE IF FullScanOnStart THEN Rows ELSE WindowRows

CheckpointAt(k) == [key |-> k, chain |-> ledger[k].chain]

\* audit is what a full audit would say of the rows an observation scanned,
\* moved whether the checkpoint it went by was no longer there at its end.
NotObserving == [pc |-> "idle", anchor |-> None, seen |-> {}, audit |-> FALSE,
                 moved |-> FALSE, verdict |-> "none"]

CheckpointIs(k) == checkpoint # None /\ checkpoint.key = k

Conclude(o, v) ==
    observer' = [observer EXCEPT ![o] = [NotObserving EXCEPT
        !.verdict = v, !.audit = observer[o].audit,
        !.moved = observer[o].anchor # None /\ ~CheckpointIs(observer[o].anchor)]]

\* An observation goes by the checkpoint there is when it begins.
Observe(o) ==
    /\ observer[o].pc = "idle"
    /\ observer' = [observer EXCEPT ![o] = [NotObserving EXCEPT
          !.pc = IF checkpoint = None THEN "scan" ELSE "anchor",
          !.anchor = IF checkpoint = None THEN None ELSE checkpoint.key]]
    /\ UNCHANGED <<now, issued, ledger, writing, checkpoint>>

\* The anchor row has been read.  It is compared with the checkpoint there
\* is now; without one the access throws.  (Events are append-only.)
ReadAnchor(o) ==
    /\ observer[o].pc = "anchor"
    /\ \/ /\ checkpoint = None
          /\ Conclude(o, "unavailable") /\ UNCHANGED checkpoint
       \/ /\ checkpoint # None /\ checkpoint.key # observer[o].anchor
          /\ Conclude(o, "failed") /\ checkpoint' = None
       \/ /\ CheckpointIs(observer[o].anchor)
          /\ observer' = [observer EXCEPT ![o].pc = "scan"]
          /\ UNCHANGED checkpoint
    /\ UNCHANGED <<now, issued, ledger, writing>>

\* The database answers the query for the rows to verify.
Scan(o) ==
    /\ observer[o].pc = "scan"
    /\ observer' = [observer EXCEPT
          ![o].pc = "verify", ![o].audit = FullAudit,
          ![o].seen = RowsToVerify(observer[o].anchor)]
    /\ UNCHANGED <<now, issued, ledger, writing, checkpoint>>

VerifyFirst(o) ==
    /\ observer[o].pc = "verify" /\ observer[o].anchor = None
    /\ IF FirstScanHolds(observer[o].seen)
       THEN Conclude(o, "passed") /\ checkpoint' = CheckpointAt(Newest(observer[o].seen))
       ELSE Conclude(o, "failed") /\ UNCHANGED checkpoint
    /\ UNCHANGED <<now, issued, ledger, writing>>

\* The suffix is chained to the checkpoint there is now.
VerifySuffix(o) ==
    /\ observer[o].pc = "verify" /\ observer[o].anchor # None
    /\ LET S == observer[o].seen IN
       \/ /\ checkpoint = None
          /\ Conclude(o, "unavailable") /\ UNCHANGED checkpoint
       \/ /\ checkpoint # None
          /\ IF ParentsHold(S) /\ ChainHolds(S, checkpoint.chain)
             THEN /\ Conclude(o, "passed")
                  /\ checkpoint' = IF S = {} THEN checkpoint ELSE CheckpointAt(Newest(S))
             ELSE Conclude(o, "failed") /\ checkpoint' = None
    /\ UNCHANGED <<now, issued, ledger, writing>>

(***************************************************************************)
(* The specification.                                                      *)
(***************************************************************************)
Init ==
    /\ now = 0
    /\ issued = {}
    /\ ledger = NoRows
    /\ buffer = None
    /\ turn = [u \in Turns |-> IdleTurn]
    /\ last = [w \in Writers |-> None]
    /\ appending = [p \in Turns \cup Writers |-> NotAppending]
    /\ held = [w \in Writers |-> NoRows]
    /\ reported = {}
    /\ late = {}
    /\ checkpoint = None
    /\ observer = [o \in Observers |-> NotObserving]

Next ==
    \/ Tick
    \/ \E w \in Writers : Write(w) \/ Commit(w) \/ RollBack(w)
    \/ \E u \in Turns : BeginTurn(u) \/ Emit(u) \/ EndTurn(u)
    \/ \E p \in Turns \cup Writers : ReadTail(p) \/ Insert(p) \/ AppendFails(p)
    \/ \E o \in Observers : \/ Observe(o)
                            \/ ReadAnchor(o)
                            \/ Scan(o)
                            \/ VerifyFirst(o)
                            \/ VerifySuffix(o)

Spec == Init /\ [][Next]_vars

(***************************************************************************)
(* Properties.                                                             *)
(***************************************************************************)
\* The table, the kernel's buffer, the probe's checkpoint and the locals of
\* every call have their types.
TypeOK ==
    /\ now \in 0 .. MaxTime
    /\ issued \subseteq Keys
    /\ Rows \subseteq issued /\ \A k \in Rows : ledger[k] \in Row
    /\ buffer = None \/ buffer \in Seq(Event)
    /\ turn \in [Turns -> [pc : {"idle", "run", "flush"}, owner : BOOLEAN,
                           threw : BOOLEAN]]
    /\ last \in [Writers -> Rows \cup {None}]
    /\ appending \in [Turns \cup Writers -> [pc : {"none", "read", "insert"},
                                             batch : Seq(Event), tail : Seq(Keys)]]
    /\ held = [w \in Writers |-> held[w]]
    /\ \A w \in Writers : /\ DOMAIN held[w] \subseteq issued
                          /\ held[w] \in [DOMAIN held[w] -> Row]
    /\ reported \subseteq issued /\ late \subseteq issued
    /\ checkpoint = None \/ checkpoint \in [key : Rows, chain : Seq(Keys)]
    /\ observer \in [Observers -> [pc : {"idle", "anchor", "scan", "verify"},
                         anchor : Rows \cup {None}, seen : SUBSET Rows, audit : BOOLEAN,
                         moved : BOOLEAN, verdict : {"none", "passed", "failed", "unavailable"}]]

\* Whatever the writers do, and whichever of their calls fail, the ledger
\* hash of every row was computed from a ledger hash that is in the table:
\* the chain may fork, but it has no gap, save before an event that was added
\* to a buffer while it was being flushed.
ChainHasNoGap ==
    \A k \in Rows \ late :
        LET before == SubSeq(ledger[k].chain, 1, Len(ledger[k].chain) - 1)
        IN  before = <<>> \/ \E j \in Rows : ledger[j].chain = before

\* An event that was made is in the ledger, or on its way there, or its loss
\* is reported ("durable turn events", docs/ARCHITECTURE.md:23), unless it was
\* added to a buffer while it was being flushed, by an overlapping turn or by
\* what else the kernel was doing.
NothingLost ==
    \A k \in issued \ late :
        \/ k \in Rows \cup reported
        \/ buffer # None /\ k \in EventsOf(buffer)
        \/ \E p \in Turns \cup Writers : k \in EventsOf(appending[p].batch)
        \/ \E w \in Writers : k \in DOMAIN held[w]

\* "an unchanged anchor plus a verified suffix is exactly as strong a
\* guarantee as a full rescan would give" (governance-probe.ts:128): an
\* observation whose anchor stays the checkpoint fails only if the full audit
\* of what it saw fails.
NoFalseAlarm ==
    \A o \in Observers :
        observer[o].verdict = "failed" /\ ~observer[o].moved => ~observer[o].audit
===============================================================================
