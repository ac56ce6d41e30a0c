------------------------------ MODULE LearningReview ------------------------------
(***************************************************************************)
(* What the system fetched at run time, held until its owner confirms it.  *)
(*   - kernel/src/ingestion-runtime.ts: the transaction that stores a      *)
(*     source's row in quarantine and its spans of evidence, with what     *)
(*     admission.ts decides on it, given who asks for the ingestion: the   *)
(*     owner, or the fetching of pages (runtime-acquisition.ts).           *)
(*   - kernel/src/learning-review.ts: reviewHeldSource, four calls of the  *)
(*     store that no transaction holds together.                           *)
(*   - adapters-node/src/postgres.ts: the upserts and updates those calls  *)
(*     are, which decide what a second ingestion of the same bytes leaves. *)
(*                                                                         *)
(* A source is its bytes: its row and its spans have ids derived from      *)
(* them, so a page that is fetched again, or that the owner feeds as a     *)
(* file of his own, meets the rows of the first time.  Ingestion keeps the *)
(* row of the source locked until it commits, hence one step.  Training    *)
(* promotes only spans it found promoted, so it is no step.                *)
(***************************************************************************)
EXTENDS Integers, FiniteSets

CONSTANTS
    Sources,
    Spans,      \* source -> its spans
    Limit,      \* how many spans a review's query returns at most
    Authorities, \* under which this deployment ingests
    Malformed,  \* sources that admission rejects whoever feeds them
    Reviews,    \* calls of reviewHeldSource
    NoSource    \* no row, no source

\* "owner" feeds his files, "automatic" and "review" fetch pages; which of the two a
\* process does is configured (runtimeWebAutomaticAdmission).
ASSUME AuthoritiesAssumption == Authorities \subseteq {"owner", "automatic", "review"}
ASSUME SpansAssumption == \A s \in Sources : IsFiniteSet(Spans[s])
ASSUME MalformedAssumption == Malformed \subseteq Sources
ASSUME NoSourceAssumption == NoSource \notin Sources \cup {"promoted", "rejected", "pending"}

VARIABLES
    quarantine, \* source -> the decision in its row of quarantine, or NoSource
    evidence,   \* source -> span -> its status
    stage,      \* review -> where it stands
    item,       \* review -> the source it reviews
    verdict,    \* review -> what the owner said
    found,      \* review -> the quarantined spans it found
    confirmed,  \* sources the owner confirmed, or fed himself
    admitted,   \* sources that were promoted as they were fetched
    contested   \* sources decided elsewhere while a review had them open

reviewVars == <<quarantine, evidence, stage, item, verdict, found, confirmed, admitted, contested>>

Verdicts == {"promoted", "rejected"}
Statuses == {"absent", "quarantined", "promoted"}

ReviewInit ==
    /\ quarantine = [s \in Sources |-> NoSource]
    /\ evidence = [s \in Sources |-> [p \in Spans[s] |-> "absent"]]
    /\ stage = [r \in Reviews |-> "idle"]
    /\ item = [r \in Reviews |-> NoSource]
    /\ verdict = [r \in Reviews |-> "rejected"]
    /\ found = [r \in Reviews |-> {}]
    /\ confirmed = {}
    /\ admitted = {}
    /\ contested = {}

SpansIn(s, status) == {p \in Spans[s] : evidence[s][p] = status}

Open(r) == stage[r] \in {"mark", "search", "promote"}

UnderReview(s) == \E r \in Reviews : Open(r) /\ item[r] = s

(***************************************************************************)
(* Ingestion.  A page that is fetched under the authority "automatic" is   *)
(* promoted without being held, as a file is that the owner feeds, if its  *)
(* trust vector passes; what is ingested under "review" is held.           *)
(***************************************************************************)
Authorizes(authority) == authority \in {"owner", "automatic"}

Admission(s, authority, trusted) ==
    CASE s \in Malformed -> "rejected"
      [] s \notin Malformed /\ Authorizes(authority) /\ trusted -> "promoted"
      [] OTHER -> "pending"

\* Mutant of PutRow: a second ingestion decides anew.
PutRowAnew(s, decision) == decision

PutRow(s, decision) == IF quarantine[s] \in Verdicts THEN quarantine[s] ELSE decision

PutSpan(old, status) == IF old = "promoted" THEN old ELSE status

Ingest(s, authority, trusted) ==
    LET decision == Admission(s, authority, trusted)
        status == IF decision = "promoted" THEN "promoted" ELSE "quarantined"
    IN  /\ quarantine' = [quarantine EXCEPT ![s] = PutRow(s, decision)]
        /\ evidence' = IF decision = "rejected" THEN evidence
                       ELSE [evidence EXCEPT ![s] = [p \in Spans[s] |-> PutSpan(@[p], status)]]
        /\ confirmed' = IF decision = "promoted" /\ authority = "owner"
                        THEN confirmed \cup {s} ELSE confirmed
        /\ admitted' = IF decision = "promoted" /\ authority = "automatic"
                       THEN admitted \cup {s} ELSE admitted
        /\ contested' = IF decision # "pending" /\ UnderReview(s)
                        THEN contested \cup {s} ELSE contested
        /\ UNCHANGED <<stage, item, verdict, found>>

(***************************************************************************)
(* reviewHeldSource.                                                       *)
(***************************************************************************)
\* A source that is not there or was decided is refused, and nothing happens.
Get(r) ==
    /\ stage[r] = "idle"
    /\ \E s \in Sources, said \in Verdicts :
           /\ quarantine[s] = "pending"
           /\ item' = [item EXCEPT ![r] = s]
           /\ verdict' = [verdict EXCEPT ![r] = said]
           /\ contested' = IF UnderReview(s) THEN contested \cup {s} ELSE contested
    /\ stage' = [stage EXCEPT ![r] = "mark"]
    /\ UNCHANGED <<quarantine, evidence, found, confirmed, admitted>>

\* The UPDATE names the row only, whatever it has become since.
Mark(r) ==
    /\ stage[r] = "mark"
    /\ quarantine' = [quarantine EXCEPT ![item[r]] = verdict[r]]
    /\ confirmed' = IF verdict[r] = "promoted" THEN confirmed \cup {item[r]} ELSE confirmed
    /\ stage' = [stage EXCEPT ![r] = "search"]
    /\ UNCHANGED <<evidence, item, verdict, found, admitted, contested>>

\* Mutant of Learns: the spans are promoted whatever was decided.
LearnsAnyway(r) == TRUE

Learns(r) == verdict[r] = "promoted"

\* Mutant of Enough: one span fewer than the query may return.
OneLess(n) == n = Limit - 1

Enough(n) == n = Limit

Search(r) ==
    /\ stage[r] = "search"
    /\ IF Learns(r)
       THEN /\ LET held == SpansIn(item[r], "quarantined")
               IN \E spans \in SUBSET held :
                      /\ Enough(Cardinality(spans)) \/ (spans = held /\ Cardinality(spans) < Limit)
                      /\ found' = [found EXCEPT ![r] = spans]
            /\ stage' = [stage EXCEPT ![r] = "promote"]
       ELSE stage' = [stage EXCEPT ![r] = "done"] /\ UNCHANGED found
    /\ UNCHANGED <<quarantine, evidence, item, verdict, confirmed, admitted, contested>>

PromoteSpans(r) ==
    /\ stage[r] = "promote"
    /\ evidence' = [evidence EXCEPT ![item[r]] =
                       [p \in Spans[item[r]] |-> IF p \in found[r] THEN "promoted" ELSE @[p]]]
    /\ stage' = [stage EXCEPT ![r] = "done"]
    /\ UNCHANGED <<quarantine, item, verdict, found, confirmed, admitted, contested>>

\* A call of the store fails, or the process dies: what was written stays.
Fail(r) ==
    /\ Open(r)
    /\ stage' = [stage EXCEPT ![r] = "failed"]
    /\ UNCHANGED <<quarantine, evidence, item, verdict, found, confirmed, admitted, contested>>

ReviewNext ==
    \/ \E s \in Sources, authority \in Authorities, trusted \in BOOLEAN : Ingest(s, authority, trusted)
    \/ \E r \in Reviews : Get(r) \/ Mark(r) \/ Search(r) \/ PromoteSpans(r) \/ Fail(r)

ReviewSpec == ReviewInit /\ [][ReviewNext]_reviewVars

(***************************************************************************)
(* Properties.                                                             *)
(***************************************************************************)
\* The type of every variable.
ReviewTypeOK ==
    /\ quarantine \in [Sources -> Verdicts \cup {"pending", NoSource}]
    /\ DOMAIN evidence = Sources
    /\ \A s \in Sources : evidence[s] \in [Spans[s] -> Statuses]
    /\ stage \in [Reviews -> {"idle", "mark", "search", "promote", "done", "failed"}]
    /\ item \in [Reviews -> Sources \cup {NoSource}]
    /\ \A r \in Reviews : item[r] = NoSource <=> stage[r] = "idle"
    /\ verdict \in [Reviews -> Verdicts]
    /\ DOMAIN found = Reviews
    /\ \A r \in Reviews : found[r] # {} => item[r] # NoSource /\ found[r] \subseteq Spans[item[r]]
    /\ confirmed \subseteq Sources /\ admitted \subseteq Sources /\ contested \subseteq Sources

\* However often a source is fetched and whoever reviews it, none of its spans is
\* promoted unless the owner confirmed it, fed it himself, or lets pages be admitted
\* as they are fetched: a process that does not do so learns of what it fetched only
\* "when the owner confirms it" (README.md:316).
LearnedWasConfirmed ==
    \A s \in Sources :
        SpansIn(s, "promoted") # {} =>
            s \in confirmed \/ ("automatic" \in Authorities /\ s \in admitted)

\* The other direction: a review that returned to the owner with "promoted" promoted
\* what it found, and leaves no span of the source out, though others fetch and
\* review it meanwhile - or its query was cut off, with as many spans as it may return.
ConfirmedIsLearned ==
    \A r \in Reviews :
        stage[r] = "done" /\ verdict[r] = "promoted" =>
            /\ found[r] \subseteq SpansIn(item[r], "promoted")
            /\ SpansIn(item[r], "promoted") = Spans[item[r]] \/ Cardinality(found[r]) = Limit

\* "A span the owner promoted stays promoted, so asking again after confirming a
\* source cannot silently re-quarantine it" (postgres.ts:2174).
ConfirmedStaysConfirmed ==
    [][\A s \in Sources : SpansIn(s, "promoted") \subseteq SpansIn(s, "promoted")']_reviewVars

\* A decision is made once: as long as nobody else decides on a source while a
\* review has it open, no later fetch, feed or review changes it.
DecisionStands ==
    [][\A s \in Sources : quarantine[s] \in Verdicts /\ s \notin contested' => quarantine'[s] = quarantine[s]]_reviewVars
==================================================================================
