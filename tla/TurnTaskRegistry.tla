--------------------------- MODULE TurnTaskRegistry ---------------------------
(***************************************************************************)
(* The turn tasks of the server and the streams that show them.            *)
(*   - server/src/turn-task-registry.ts: a task is a list of frames kept   *)
(*     in memory, each of which is also appended to the event ledger, one  *)
(*     after the other.  Completed tasks are evicted when there are many.  *)
(*   - server/src/routes.ts: streamTurnResponse makes a task, runs the     *)
(*     turn and waits for its frames to be persisted; clients reconnect    *)
(*     (streamExistingTurnTask), ask for the status, and cancel.           *)
(*                                                                         *)
(* JavaScript runs each of these steps to its next await, so that one step *)
(* is one action.  A frame is its type; its sequence is its place.  What   *)
(* its event names as parent is modelled in EventLedger.                   *)
(***************************************************************************)
EXTENDS Naturals, Sequences, FiniteSets, SequencesExt

CONSTANTS
    Tasks,      \* requests to stream a turn
    Clients,    \* clients that reconnect
    Capacity,   \* tasks kept before completed ones are evicted (256)
    MaxOthers,  \* bound on the tasks that are only counted
    MaxFrames,  \* bound on the frames of a task before its last one
    Stream,     \* the subscriber of the request itself
    None        \* no task, no answer

ASSUME BoundsAssumption == Capacity \in Nat /\ MaxOthers \in Nat /\ MaxFrames \in Nat
ASSUME StreamAssumption == Stream \notin Clients

VARIABLES
    tasks,    \* task -> its entry in #tasks, or what is left of it
    others,   \* how many entries #tasks has besides
    stored,   \* task -> frames in the event ledger
    request,  \* task -> where its streamTurnResponse stands
    client,   \* client -> its connection
    told      \* task -> the completions of it that clients have been told

vars == <<tasks, others, stored, request, client, told>>

\* A client's connection: the task it shows, and the frames it has got.
Connection(t, state, got) == [task |-> t, state |-> state, got |-> got]

FrameTypes == {"accepted", "progress", "result", "error", "cancelled"}
Completions == {"succeeded", "failed", "cancelled"}
Statuses == {"accepted", "running"} \cup Completions

\* What get answers, and what of it is an outcome.
Answers == [status : Statuses \cup {"interrupted"}, persistence : {"pending", "durable"}]
Report == [status : Completions, persistence : {"pending", "durable"}]

ASSUME NoneAssumption == None \notin Tasks \cup Answers

Terminal(status) == status \in Completions

\* What #tasks holds of a task; live: whether it is there.  An evicted task
\* goes on being persisted.
NoTask == [live |-> FALSE, status |-> "accepted", frames |-> <<>>, subscribers |-> {},
           next |-> 1, durable |-> 0]
NewTask == [live |-> TRUE, status |-> "accepted", frames |-> <<"accepted">>,
            subscribers |-> {Stream}, next |-> 1, durable |-> 0]

(***************************************************************************)
(* append.                                                                 *)
(***************************************************************************)
StatusAfter(status, type) ==
    CASE type = "result" -> "succeeded"
      [] type = "error" -> "failed"
      [] type = "cancelled" -> "cancelled"
      [] type = "progress" /\ status = "accepted" -> "running"
      [] OTHER -> status

\* The callback of a reconnected client unsubscribes on a terminal frame.
Appended(task, type) ==
    LET status == StatusAfter(task.status, type)
    IN  [task EXCEPT !.frames = Append(@, type), !.status = status,
                     !.subscribers = IF Terminal(status) THEN @ \ Clients ELSE @]

FollowersOf(t) == {c \in Clients : client[c].state = "following" /\ client[c].task = t}

\* Appends a frame to task, the entry of t; a terminal task stays as it is.
AppendFrame(t, task, type) ==
    IF Terminal(task.status)
    THEN tasks' = [tasks EXCEPT ![t] = task] /\ UNCHANGED <<client, told>>
    ELSE LET after == Appended(task, type) IN
         /\ tasks' = [tasks EXCEPT ![t] = after]
         /\ client' = [c \in Clients |->
               IF c \in FollowersOf(t)
               THEN Connection(t, IF Terminal(after.status) THEN "ended" ELSE "following",
                               Append(client[c].got, Len(after.frames)))
               ELSE client[c]]
         /\ told' = IF Terminal(after.status) /\ task.subscribers # {}
                    THEN [told EXCEPT ![t] = @ \cup
                             {[status |-> after.status, persistence |-> "pending"]}]
                    ELSE told

\* Mutant of MarkRunning: without its early return.
RunsAgain(task) == [task EXCEPT !.status = "running"]

MarkRunning(task) ==
    IF Terminal(task.status) THEN task ELSE [task EXCEPT !.status = "running"]

(***************************************************************************)
(* create, in streamTurnResponse.                                          *)
(***************************************************************************)
Live(entries) == {t \in Tasks : entries[t].live}

\* #evictCompleted, with n other entries of which some are completed: as many
\* completed tasks that nobody subscribes to go as there are entries too many.
\* (The oldest ones; which these are is left open.)
Evict(entries, n) ==
    LET completed == {t \in Live(entries) : /\ Terminal(entries[t].status)
                                            /\ entries[t].subscribers = {}}
        excess == Cardinality(Live(entries)) + n - Capacity
    IN  \E E \in SUBSET completed, k, othersCompleted \in 0 .. n :
           /\ k <= othersCompleted
           /\ LET all == Cardinality(completed) + othersCompleted
                  gone == Cardinality(E) + k
              IN  gone = IF excess < 0 THEN 0 ELSE IF excess < all THEN excess ELSE all
           /\ others' = n - k
           /\ tasks' = [t \in Tasks |-> [entries[t] EXCEPT !.live = @ /\ t \notin E]]

Create(t) ==
    /\ request[t] = "none"
    /\ request' = [request EXCEPT ![t] = "body"]
    /\ Evict([tasks EXCEPT ![t] = NewTask], others)
    /\ UNCHANGED <<stored, client, told>>

\* The same for a task that is only counted.
CreateOther ==
    /\ others < MaxOthers
    /\ Evict(tasks, others + 1)
    /\ UNCHANGED <<stored, request, client, told>>

(***************************************************************************)
(* The rest of streamTurnResponse.  append throws for an evicted task; the *)
(* request then ends without a frame.                                      *)
(***************************************************************************)
\* The body of the request is there.
Receive(t) ==
    /\ request[t] = "body"
    /\ IF tasks[t].live
       THEN /\ AppendFrame(t, MarkRunning(tasks[t]), "progress")
            /\ request' = [request EXCEPT ![t] = "run"]
       ELSE /\ request' = [request EXCEPT ![t] = "done"]
            /\ UNCHANGED <<tasks, client, told>>
    /\ UNCHANGED <<others, stored>>

\* The turn reports a stage.
Progress(t) ==
    /\ request[t] = "run"
    /\ tasks[t].live /\ Len(tasks[t].frames) < MaxFrames
    /\ AppendFrame(t, tasks[t], "progress")
    /\ UNCHANGED <<others, stored, request>>

\* The last frame of the request, then drain.
Complete(t, type) ==
    /\ IF tasks[t].live
       THEN /\ AppendFrame(t, tasks[t], type)
            /\ request' = [request EXCEPT ![t] = "drain"]
       ELSE /\ request' = [request EXCEPT ![t] = "done"]
            /\ UNCHANGED <<tasks, client, told>>
    /\ UNCHANGED <<others, stored>>

\* The turn answers, with a status that is good or not.
Answer(t) ==
    /\ request[t] = "run"
    /\ \E type \in {"result", "error"} : Complete(t, type)

\* The body cannot be read, or the turn throws, as one that is cancelled does.
Fail(t) ==
    /\ request[t] \in {"body", "run"}
    /\ Complete(t, "error")

\* Mutant of TailSettled: the request waits until its frames are durable.
TailDurable(task) == task.durable >= Len(task.frames)

\* The persistence of the task's last frame has ended, one way or the other.
TailSettled(task) == task.next > Len(task.frames)

Drained(t) ==
    /\ request[t] = "drain" /\ TailSettled(tasks[t])
    /\ request' = [request EXCEPT ![t] = "done"]
    /\ tasks' = [tasks EXCEPT ![t].subscribers = @ \ {Stream}]
    /\ UNCHANGED <<others, stored, client, told>>

\* The connection of the request closes; the turn goes on.
Close(t) ==
    /\ Stream \in tasks[t].subscribers
    /\ tasks' = [tasks EXCEPT ![t].subscribers = @ \ {Stream}]
    /\ UNCHANGED <<others, stored, request, client, told>>

\* cancel, which also aborts the turn's controller.
Cancel(t) ==
    /\ tasks[t].live /\ ~Terminal(tasks[t].status)
    /\ AppendFrame(t, tasks[t], "cancelled")
    /\ UNCHANGED <<others, stored, request>>

(***************************************************************************)
(* #persist: the frames are appended to the ledger one by one.             *)
(***************************************************************************)
Persisted(task) ==
    [task EXCEPT !.next = @ + 1, !.durable = IF task.next > @ THEN task.next ELSE @]

\* The failure is caught and the next frame's turn comes.
NotPersisted(task) == [task EXCEPT !.next = @ + 1]

FrameAt(task, i) == [sequence |-> i, type |-> task.frames[i]]

Persist(t) ==
    /\ tasks[t].next <= Len(tasks[t].frames)
    /\ LET stores == [stored EXCEPT ![t] = @ \cup {FrameAt(tasks[t], tasks[t].next)}] IN
       \/ /\ stored' = stores
          /\ tasks' = [tasks EXCEPT ![t] = Persisted(@)]
       \/ /\ stored' \in {stored, stores}
          /\ tasks' = [tasks EXCEPT ![t] = NotPersisted(@)]
    /\ UNCHANGED <<others, request, client, told>>

(***************************************************************************)
(* get, and the routes that answer with it.                                *)
(***************************************************************************)
StatusOf(type) ==
    CASE type = "result" -> "succeeded"
      [] type = "error" -> "failed"
      [] type = "cancelled" -> "cancelled"
      [] OTHER -> "interrupted"

LastStored(t) ==
    CHOOSE f \in stored[t] : \A g \in stored[t] : g.sequence <= f.sequence

Snapshot(t) ==
    [status |-> tasks[t].status,
     persistence |-> IF tasks[t].durable >= Len(tasks[t].frames) THEN "durable"
                                                                 ELSE "pending"]

Get(t) ==
    CASE tasks[t].live -> Snapshot(t)
      [] ~tasks[t].live /\ stored[t] # {} ->
            [status |-> StatusOf(LastStored(t).type), persistence |-> "durable"]
      [] OTHER -> None

\* What a client is told by a snapshot, where that is a completion.
Tell(t) == told' = [told EXCEPT ![t] = @ \cup ({Get(t)} \cap Report)]

\* GET /api/turn/task/:id
Ask(t) ==
    /\ Get(t) \in Report
    /\ Tell(t)
    /\ UNCHANGED <<others, tasks, stored, request, client>>

\* The frames that get answers with, in order, from the sequence first on.
StoredFrom(t, first) ==
    SetToSortSeq({n \in {f.sequence : f \in stored[t]} : n >= first}, <)

FramesFrom(t, first) ==
    IF tasks[t].live
    THEN [i \in 1 .. Len(tasks[t].frames) + 1 - first |-> first + i - 1]
    ELSE StoredFrom(t, first)

\* Mutant of Replay: the frame the client has already is sent again.
ReplayAgain(t, after) == FramesFrom(t, IF after = 0 THEN 1 ELSE after)

Replay(t, after) == FramesFrom(t, after + 1)

LatestSequence(c) == IF client[c].got = <<>> THEN 0 ELSE Last(client[c].got)

\* GET /api/turn/task/:id/stream?after=
Reconnect(c, t) ==
    /\ client[c].state = "away" /\ client[c].task \in {t, None}
    /\ Get(t) # None
    /\ LET follows == Get(t).status \in {"accepted", "running"} IN
       /\ client' = [client EXCEPT ![c] =
             Connection(t, IF follows THEN "following" ELSE "ended",
                        @.got \o Replay(t, LatestSequence(c)))]
       /\ tasks' = IF follows THEN [tasks EXCEPT ![t].subscribers = @ \cup {c}] ELSE tasks
    /\ Tell(t)
    /\ UNCHANGED <<others, stored, request>>

\* What is left of a connection that breaks.
Broken(c) == Connection(client[c].task, "away", client[c].got)

Disconnect(c) ==
    /\ client[c].state = "following"
    /\ client' = [client EXCEPT ![c] = Broken(c)]
    /\ tasks' = [tasks EXCEPT ![client[c].task].subscribers = @ \ {c}]
    /\ UNCHANGED <<others, stored, request, told>>

\* The server's process dies and is started again.
Restart ==
    /\ others > 0 \/ \E t \in Tasks : tasks[t] # NoTask
    /\ tasks' = [t \in Tasks |-> NoTask]
    /\ others' = 0
    /\ request' = [t \in Tasks |-> IF request[t] = "none" THEN "none" ELSE "done"]
    /\ client' = [c \in Clients |->
          IF client[c].state = "following" THEN Broken(c) ELSE client[c]]
    /\ UNCHANGED <<stored, told>>

(***************************************************************************)
(* The specification.                                                      *)
(***************************************************************************)
Init ==
    /\ tasks = [t \in Tasks |-> NoTask]
    /\ others = 0
    /\ stored = [t \in Tasks |-> {}]
    /\ request = [t \in Tasks |-> "none"]
    /\ client = [c \in Clients |-> Connection(None, "away", <<>>)]
    /\ told = [t \in Tasks |-> {}]

Next ==
    \/ \E t \in Tasks : \/ Create(t) \/ Receive(t) \/ Progress(t)
                        \/ Answer(t) \/ Fail(t) \/ Drained(t) \/ Close(t)
                        \/ Cancel(t) \/ Persist(t) \/ Ask(t)
    \/ \E c \in Clients : Disconnect(c) \/ \E t \in Tasks : Reconnect(c, t)
    \/ CreateOther \/ Restart

Spec == Init /\ [][Next]_vars

\* A turn returns or throws, the database answers, and promises are resumed.
Fairness ==
    \A t \in Tasks : /\ WF_vars(Receive(t) \/ Answer(t) \/ Fail(t))
                     /\ WF_vars(Persist(t))
                     /\ WF_vars(Drained(t))

FairSpec == Spec /\ Fairness

(***************************************************************************)
(* Properties.                                                             *)
(***************************************************************************)
Entry == [live : BOOLEAN, status : Statuses, frames : Seq(FrameTypes),
          subscribers : SUBSET (Clients \cup {Stream}), next : Nat \ {0}, durable : Nat]

\* The registry, the ledger's frames, the requests, the connections and the
\* answers have their types; no frame is persisted before it is there.
TypeOK ==
    /\ tasks \in [Tasks -> Entry]
    /\ \A t \in Tasks : /\ tasks[t].next <= Len(tasks[t].frames) + 1
                        /\ tasks[t].durable < tasks[t].next
    /\ others \in 0 .. MaxOthers
    /\ stored \in [Tasks -> SUBSET [sequence : Nat \ {0}, type : FrameTypes]]
    /\ request \in [Tasks -> {"none", "body", "run", "drain", "done"}]
    /\ DOMAIN client = Clients
    /\ \A c \in Clients : /\ client[c].task \in Tasks \cup {None}
                          /\ client[c].state \in {"away", "following", "ended"}
    /\ \A c \in Clients : client[c].state = "following" => client[c].task # None
    /\ told \in [Tasks -> SUBSET Report]

\* A task completes once: a cancellation that races with the answer, a turn
\* that goes on after it was cancelled and a restart never make two clients
\* see different outcomes.
VerdictsAgree ==
    \A t \in Tasks : \A r, s \in told[t] : r.status = s.status

\* "After a server restart, completed tasks remain replayable"
\* (docs/API_SURFACE.md:55), where their completion was reported as durable:
\* what get answers from then on is that outcome, also when the task was
\* evicted and when appends of its frames failed.
DurableVerdictStands ==
    \A t \in Tasks : \A r \in told[t] :
        r.persistence = "durable" =>
            Get(t) # None /\ Get(t).status = r.status

\* A client that follows a task has every frame of it once and in order,
\* however often it lost its connection, and is still to be told the last one.
FollowersAreCurrent ==
    \A c \in Clients : client[c].state = "following" =>
        LET task == tasks[client[c].task] IN
        /\ task.live /\ c \in task.subscribers /\ ~Terminal(task.status)
        /\ client[c].got = [i \in 1 .. Len(task.frames) |-> i]

\* "frames and three-second heartbeats continue until a terminal frame"
\* (docs/API_SURFACE.md:42): every stream ends, although appends may fail.
StreamsEnd ==
    /\ \A t \in Tasks : request[t] = "body" ~> request[t] = "done"
    /\ \A c \in Clients : client[c].state = "following" ~> client[c].state # "following"

===============================================================================
