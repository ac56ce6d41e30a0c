------------------------- MODULE TurnTaskRegistryProofs -------------------------
(***************************************************************************)
(* What is proved about TurnTaskRegistry, for any number of tasks, clients *)
(* and frames.  A task is looked at by itself: EntryStep says what a step  *)
(* of the registry may do to it, and Coherent what its entry, its frames   *)
(* in the ledger and the answers about it have to do with one another.     *)
(* Followed says the same of a client and the task it follows.             *)
(***************************************************************************)
EXTENDS TurnTaskRegistry, SequenceTheorems, TLAPS

USE BoundsAssumption, StreamAssumption

\* An appended frame keeps the entry's type.
LEMMA AppendedType ==
    ASSUME NEW task \in Entry, NEW type \in FrameTypes
    PROVE  /\ Appended(task, type) \in Entry
           /\ MarkRunning(task) \in Entry
           /\ Appended(task, type).frames = Append(task.frames, type)
           /\ Appended(task, type).status = StatusAfter(task.status, type)
           /\ Appended(task, type).next = task.next
           /\ Appended(task, type).durable = task.durable
           /\ Appended(task, type).live = task.live
<1>1. StatusAfter(task.status, type) \in Statuses
  BY DEF Entry, FrameTypes, Statuses, Completions, StatusAfter
<1>2. task.frames \in Seq(FrameTypes) /\ Append(task.frames, type) \in Seq(FrameTypes)
  BY DEF Entry
<1>3. MarkRunning(task) \in Entry
  BY DEF MarkRunning, Entry, Statuses
<1> QED BY <1>1, <1>2, <1>3 DEF Appended, Entry

\* What a step appends to a task is a frame after those that are there.
LEMMA AppendFrameStep ==
    ASSUME TypeOK, NEW t \in Tasks, NEW type \in FrameTypes,
           NEW task \in {tasks[t], MarkRunning(tasks[t])}, AppendFrame(t, task, type)
    PROVE  /\ \A u \in Tasks \ {t} : tasks'[u] = tasks[u] /\ told'[u] = told[u]
           /\ told' \in [Tasks -> SUBSET Report]
           /\ tasks' \in [Tasks -> Entry]
           /\ \/ /\ Terminal(tasks[t].status)
                 /\ tasks'[t] = tasks[t] /\ told'[t] = told[t]
              \/ /\ ~Terminal(tasks[t].status)
                 /\ tasks'[t] = Appended(task, type)
                 /\ \/ told'[t] = told[t]
                    \/ /\ Terminal(tasks'[t].status)
                       /\ told'[t] = told[t] \cup {[status |-> tasks'[t].status, persistence |-> "pending"]}
<1>1. task \in Entry /\ tasks[t] \in Entry
  BY AppendedType DEF TypeOK
<1>2. Appended(task, type) \in Entry
  BY <1>1, AppendedType
<1>3. Terminal(task.status) <=> Terminal(tasks[t].status)
  BY <1>1 DEF MarkRunning, Terminal, Completions, Entry
<1>4. CASE Terminal(task.status)
  <2>1. task = tasks[t]
    BY <1>3, <1>4 DEF MarkRunning
  <2> QED BY <1>3, <1>4, <2>1 DEF AppendFrame, TypeOK
<1>5. CASE ~Terminal(task.status)
  <2>1. tasks' = [tasks EXCEPT ![t] = Appended(task, type)]
    BY <1>5 DEF AppendFrame
  <2>2. \/ told' = told
        \/ /\ Terminal(Appended(task, type).status)
           /\ told' = [told EXCEPT ![t] = @ \cup
                         {[status |-> Appended(task, type).status, persistence |-> "pending"]}]
    BY <1>5 DEF AppendFrame
  <2>3. Terminal(Appended(task, type).status) =>
            [status |-> Appended(task, type).status, persistence |-> "pending"] \in Report
    BY DEF Report, Terminal
  <2> QED BY <1>2, <1>3, <1>5, <2>1, <2>2, <2>3 DEF TypeOK
<1> QED BY <1>4, <1>5

\* What eviction does to an entry: it may only take one away that is completed.
LEMMA EvictStep ==
    ASSUME NEW entries \in [Tasks -> Entry], NEW n \in 0 .. MaxOthers, Evict(entries, n)
    PROVE  /\ others' \in 0 .. MaxOthers
           /\ tasks' \in [Tasks -> Entry]
           /\ \A t \in Tasks : \/ tasks'[t] = entries[t]
                               \/ /\ Terminal(entries[t].status)
                                  /\ tasks'[t] = [entries[t] EXCEPT !.live = FALSE]
<1>1. PICK E \in SUBSET {t \in Live(entries) : /\ Terminal(entries[t].status)
                                               /\ entries[t].subscribers = {}},
           k \in 0 .. n :
              /\ others' = n - k
              /\ tasks' = [t \in Tasks |-> [entries[t] EXCEPT !.live = @ /\ t \notin E]]
  <2>1. \A m \in 0 .. n : 0 .. m \subseteq 0 .. n
    OBVIOUS
  <2>2. PICK E \in SUBSET {t \in Live(entries) : /\ Terminal(entries[t].status)
                                                 /\ entries[t].subscribers = {}},
             k \in 0 .. n, oc \in 0 .. n :
              /\ k <= oc
              /\ others' = n - k
              /\ tasks' = [t \in Tasks |-> [entries[t] EXCEPT !.live = @ /\ t \notin E]]
    BY DEF Evict
  <2> QED BY <2>2
<1>2. ASSUME NEW t \in Tasks
      PROVE  /\ [entries[t] EXCEPT !.live = @ /\ t \notin E] \in Entry
             /\ \/ tasks'[t] = entries[t]
                \/ /\ Terminal(entries[t].status)
                   /\ tasks'[t] = [entries[t] EXCEPT !.live = FALSE]
  <2>1. CASE t \in E
    <3>1. (entries[t].live /\ t \notin E) = FALSE
      BY <2>1
    <3>2. [entries[t] EXCEPT !.live = @ /\ t \notin E] = [entries[t] EXCEPT !.live = FALSE]
      BY <3>1
    <3>3. [entries[t] EXCEPT !.live = FALSE] \in Entry
      BY DEF Entry
    <3>4. Terminal(entries[t].status)
      BY <1>1, <2>1
    <3>5. tasks'[t] = [entries[t] EXCEPT !.live = @ /\ t \notin E]
      BY <1>1
    <3> QED BY <3>2, <3>3, <3>4, <3>5
  <2>2. CASE t \notin E
    <3>1. (entries[t].live /\ t \notin E) = entries[t].live
      BY <2>2 DEF Entry
    <3>2. [entries[t] EXCEPT !.live = @ /\ t \notin E] = entries[t]
      BY <3>1 DEF Entry
    <3> QED BY <1>1, <3>2
  <2> QED BY <2>1, <2>2
<1>3. others' \in 0 .. MaxOthers
  <2>1. others' = n - k
    BY <1>1
  <2> QED BY <2>1
<1>4. tasks' \in [Tasks -> Entry]
  <2>1. tasks' = [t \in Tasks |-> [entries[t] EXCEPT !.live = @ /\ t \notin E]]
    BY <1>1
  <2>2. \A t \in Tasks : [entries[t] EXCEPT !.live = @ /\ t \notin E] \in Entry
    BY <1>2
  <2> QED BY <2>1, <2>2
<1> QED BY <1>2, <1>3, <1>4

(***************************************************************************)
(* A task by itself.                                                       *)
(***************************************************************************)
\* The same entry, but for who subscribes and, if it is completed, whether it is kept.
Same(t) ==
    /\ tasks'[t].status = tasks[t].status /\ tasks'[t].frames = tasks[t].frames
    /\ tasks'[t].next = tasks[t].next /\ tasks'[t].durable = tasks[t].durable
    /\ \/ tasks'[t].live = tasks[t].live
       \/ ~tasks'[t].live /\ Terminal(tasks[t].status)

\* The request may go on, but is neither made anew nor undone.
Onward(t) ==
    \/ request'[t] = request[t]
    \/ request[t] \notin {"none", "done"} /\ request'[t] # "none"

Created(t) ==
    /\ request[t] = "none" /\ request'[t] = "body"
    /\ tasks'[t] = NewTask
    /\ stored'[t] = stored[t] /\ told'[t] = told[t]

Grown(t) ==
    /\ tasks[t].live /\ ~Terminal(tasks[t].status)
    /\ \E type \in FrameTypes, task \in {tasks[t], MarkRunning(tasks[t])} :
           tasks'[t] = Appended(task, type)
    /\ \/ told'[t] = told[t]
       \/ /\ Terminal(tasks'[t].status)
          /\ told'[t] = told[t] \cup {[status |-> tasks'[t].status, persistence |-> "pending"]}
    /\ stored'[t] = stored[t]
    /\ Onward(t)

Stores(t) ==
    /\ tasks[t].next <= Len(tasks[t].frames)
    /\ \/ stored'[t] = stored[t] \cup {FrameAt(tasks[t], tasks[t].next)} /\ tasks'[t] = Persisted(tasks[t])
       \/ stored'[t] = stored[t] \cup {FrameAt(tasks[t], tasks[t].next)} /\ tasks'[t] = NotPersisted(tasks[t])
       \/ stored'[t] = stored[t] /\ tasks'[t] = NotPersisted(tasks[t])
    /\ told'[t] = told[t] /\ request'[t] = request[t]

Answered(t) ==
    /\ Same(t) /\ request'[t] = request[t] /\ stored'[t] = stored[t]
    /\ \/ told'[t] = told[t]
       \/ told'[t] = told[t] \cup ({Get(t)} \cap Report)

Forgotten(t) ==
    /\ tasks'[t] = NoTask
    /\ stored'[t] = stored[t] /\ told'[t] = told[t]
    /\ request'[t] = IF request[t] = "none" THEN "none" ELSE "done"

Left(t) == Same(t) /\ Onward(t) /\ stored'[t] = stored[t] /\ told'[t] = told[t]

\* The new entry of a task has its type.
LEMMA FirstEntry == NoTask \in Entry /\ NewTask \in Entry
<1>1. <<>> \in Seq(FrameTypes) /\ <<"accepted">> \in Seq(FrameTypes)
  BY DEF FrameTypes
<1>2. NoTask \in Entry
  BY <1>1 DEF NoTask, Entry, Statuses
<1>3. NewTask \in Entry
  BY <1>1 DEF NewTask, Entry, Statuses
<1> QED BY <1>2, <1>3

\* A step of the registry is one of these for every task.
LEMMA EntryStep ==
    ASSUME TypeOK, [Next]_vars, NEW t \in Tasks
    PROVE  \/ Left(t) \/ Created(t) \/ Grown(t) \/ Stores(t) \/ Answered(t) \/ Forgotten(t)
<1> USE DEF TypeOK
<1>1. ASSUME NEW u \in Tasks, Create(u)
      PROVE  Left(t) \/ Created(t)
  <2>1. [tasks EXCEPT ![u] = NewTask] \in [Tasks -> Entry]
    BY FirstEntry
  <2>2. \/ tasks'[t] = [tasks EXCEPT ![u] = NewTask][t]
        \/ /\ Terminal([tasks EXCEPT ![u] = NewTask][t].status)
           /\ tasks'[t] = [[tasks EXCEPT ![u] = NewTask][t] EXCEPT !.live = FALSE]
    BY <1>1, <2>1, EvictStep DEF Create
  <2>3. CASE t = u
    <3>1. ~Terminal(NewTask.status)
      BY DEF NewTask, Terminal, Completions
    <3> QED BY <1>1, <2>2, <2>3, <3>1 DEF Create, Created
  <2>4. CASE t # u
    <3>1. tasks[t] \in Entry /\ (tasks'[t] = tasks[t] \/ (Terminal(tasks[t].status) /\ tasks'[t] = [tasks[t] EXCEPT !.live = FALSE]))
      BY <2>2, <2>4
    <3>2. Same(t)
      BY <3>1 DEF Same, Entry
    <3> QED BY <1>1, <2>4, <3>2 DEF Create, Left, Onward
  <2> QED BY <2>3, <2>4
<1>2. ASSUME CreateOther
      PROVE  Left(t)
  <2>1. tasks'[t] = tasks[t] \/ (Terminal(tasks[t].status) /\ tasks'[t] = [tasks[t] EXCEPT !.live = FALSE])
    <3>1. others + 1 \in 0 .. MaxOthers
      BY <1>2 DEF CreateOther
    <3> QED BY <1>2, <3>1, EvictStep DEF CreateOther
  <2>2. Same(t)
    BY <2>1 DEF Same, Entry
  <2> QED BY <1>2, <2>2 DEF CreateOther, Left, Onward
<1>3. ASSUME NEW u \in Tasks, NEW type \in FrameTypes, tasks[u].live,
             NEW task \in {tasks[u], MarkRunning(tasks[u])}, AppendFrame(u, task, type),
             stored' = stored, Onward(t)
      PROVE  Left(t) \/ Grown(t)
  <2>1. t # u => tasks'[t] = tasks[t] /\ told'[t] = told[t]
    BY <1>3, AppendFrameStep
  <2>2. CASE t # u
    BY <1>3, <2>1, <2>2 DEF Left, Same
  <2>3. CASE t = u
    <3>1. CASE Terminal(tasks[u].status)
      <4>1. tasks'[u] = tasks[u] /\ told'[u] = told[u]
        BY <1>3, <3>1, AppendFrameStep
      <4> QED BY <1>3, <2>3, <4>1 DEF Left, Same
    <3>2. CASE ~Terminal(tasks[u].status)
      <4>1. /\ tasks'[u] = Appended(task, type)
            /\ \/ told'[u] = told[u]
               \/ /\ Terminal(tasks'[u].status)
                  /\ told'[u] = told[u] \cup {[status |-> tasks'[u].status, persistence |-> "pending"]}
        BY <1>3, <3>2, AppendFrameStep
      <4> QED BY <1>3, <2>3, <3>2, <4>1 DEF Grown
    <3> QED BY <3>1, <3>2
  <2> QED BY <2>2, <2>3
<1>4. ASSUME NEW u \in Tasks, Receive(u)
      PROVE  Left(t) \/ Grown(t)
  <2>1. Onward(t) /\ stored' = stored
    BY <1>4 DEF Receive, Onward
  <2>2. CASE tasks[u].live
    BY <1>3, <1>4, <2>1, <2>2 DEF Receive, FrameTypes
  <2>3. CASE ~tasks[u].live
    BY <1>4, <2>1, <2>3 DEF Receive, Left, Same
  <2> QED BY <2>2, <2>3
<1>5. ASSUME NEW u \in Tasks, Progress(u)
      PROVE  Left(t) \/ Grown(t)
  BY <1>3, <1>5 DEF Progress, Onward, FrameTypes
<1>6. ASSUME NEW u \in Tasks, NEW type \in FrameTypes, request[u] \in {"body", "run"}, Complete(u, type)
      PROVE  Left(t) \/ Grown(t)
  <2>1. Onward(t) /\ stored' = stored
    BY <1>6 DEF Complete, Onward
  <2>2. CASE tasks[u].live
    BY <1>3, <1>6, <2>1, <2>2 DEF Complete
  <2>3. CASE ~tasks[u].live
    BY <1>6, <2>1, <2>3 DEF Complete, Left, Same
  <2> QED BY <2>2, <2>3
<1>7. ASSUME NEW u \in Tasks, Answer(u) \/ Fail(u)
      PROVE  Left(t) \/ Grown(t)
  BY <1>6, <1>7 DEF Answer, Fail, FrameTypes
<1>8. ASSUME NEW u \in Tasks, Drained(u) \/ Close(u)
      PROVE  Left(t)
  <2>1. tasks' = [tasks EXCEPT ![u].subscribers = @ \ {Stream}]
    BY <1>8 DEF Drained, Close
  <2>2. Same(t)
    BY <2>1 DEF Same, Entry
  <2> QED BY <1>8, <2>2 DEF Drained, Close, Left, Onward
<1>9. ASSUME NEW u \in Tasks, Cancel(u)
      PROVE  Left(t) \/ Grown(t)
  BY <1>3, <1>9 DEF Cancel, Onward, FrameTypes
<1>10. ASSUME NEW u \in Tasks, Persist(u)
       PROVE  Left(t) \/ Stores(t)
  <2>1. CASE t = u
    BY <1>10, <2>1 DEF Persist, Stores
  <2>2. CASE t # u
    BY <1>10, <2>2 DEF Persist, Left, Same, Onward
  <2> QED BY <2>1, <2>2
<1>11. ASSUME NEW u \in Tasks, Ask(u)
       PROVE  Answered(t)
  BY <1>11 DEF Ask, Tell, Answered, Same
<1>12. ASSUME NEW u \in Tasks, NEW c \in Clients, Reconnect(c, u)
       PROVE  Answered(t)
  <2>1. CASE tasks' = tasks
    BY <1>12, <2>1 DEF Reconnect, Tell, Answered, Same
  <2>2. CASE tasks' # tasks
    <3>1. tasks' = [tasks EXCEPT ![u].subscribers = @ \cup {c}]
      BY <1>12, <2>2 DEF Reconnect
    <3>2. Same(t)
      BY <3>1 DEF Same, Entry
    <3> QED BY <1>12, <3>2 DEF Reconnect, Tell, Answered
  <2> QED BY <2>1, <2>2
<1>13. ASSUME NEW c \in Clients, Disconnect(c)
       PROVE  Left(t)
  <2>1. tasks' = [tasks EXCEPT ![client[c].task].subscribers = @ \ {c}] /\ client[c].task \in Tasks
    BY <1>13 DEF Disconnect
  <2>2. Same(t)
    BY <2>1 DEF Same, Entry
  <2> QED BY <1>13, <2>2 DEF Disconnect, Left, Onward
<1>14. CASE Restart
  BY <1>14 DEF Restart, Forgotten
<1>15. CASE UNCHANGED vars
  BY <1>15 DEF vars, Left, Same, Onward
<1> QED BY <1>1, <1>2, <1>4, <1>5, <1>7, <1>8, <1>9, <1>10, <1>11, <1>12, <1>13, <1>14, <1>15 DEF Next

(***************************************************************************)
(* Types.                                                                  *)
(***************************************************************************)
ClientsOK ==
    /\ DOMAIN client = Clients
    /\ \A c \in Clients : /\ client[c].task \in Tasks \cup {None}
                          /\ client[c].state \in {"away", "following", "ended"}
                          /\ client[c].state = "following" => client[c].task # None

TypesOK ==
    /\ tasks \in [Tasks -> Entry]
    /\ others \in 0 .. MaxOthers
    /\ stored \in [Tasks -> SUBSET [sequence : Nat \ {0}, type : FrameTypes]]
    /\ request \in [Tasks -> {"none", "body", "run", "drain", "done"}]
    /\ ClientsOK
    /\ told \in [Tasks -> SUBSET Report]

\* Who subscribes may change, without more ado.
LEMMA SubscribersType ==
    ASSUME NEW task \in Entry, NEW c \in Clients
    PROVE  /\ [task EXCEPT !.subscribers = @ \cup {c}] \in Entry
           /\ [task EXCEPT !.subscribers = @ \ {c}] \in Entry
<1>1. /\ task.subscribers \cup {c} \in SUBSET (Clients \cup {Stream})
      /\ task.subscribers \ {c} \in SUBSET (Clients \cup {Stream})
  BY DEF Entry
<1> QED BY <1>1 DEF Entry

\* What persisting a frame leaves of an entry.
LEMMA PersistedType ==
    ASSUME NEW task \in Entry
    PROVE  Persisted(task) \in Entry /\ NotPersisted(task) \in Entry
<1>1. /\ task.next + 1 \in Nat \ {0}
      /\ (IF task.next > task.durable THEN task.next ELSE task.durable) \in Nat
  BY DEF Entry
<1>2. NotPersisted(task) \in Entry
  BY <1>1 DEF NotPersisted, Entry
<1>3. Persisted(task) \in Entry
  BY <1>1 DEF Persisted, Entry
<1> QED BY <1>2, <1>3

\* A client is moved on with the frame it gets.
LEMMA AppendFrameClients ==
    ASSUME TypeOK, NEW t \in Tasks, NEW task, NEW type, AppendFrame(t, task, type)
    PROVE  ClientsOK'
<1>1. ClientsOK
  BY DEF TypeOK, ClientsOK
<1>2. CASE Terminal(task.status)
  BY <1>1, <1>2 DEF AppendFrame, ClientsOK
<1>3. CASE ~Terminal(task.status)
  <2>1. DOMAIN client' = Clients
    BY <1>3 DEF AppendFrame
  <2>2. ASSUME NEW c \in Clients
        PROVE  \/ client'[c] = client[c]
               \/ client'[c].task = t /\ client'[c].state \in {"ended", "following"}
    BY <1>3 DEF AppendFrame, Connection
  <2> QED BY <1>1, <2>1, <2>2, NoneAssumption DEF ClientsOK
<1> QED BY <1>2, <1>3

\* The steps that append a frame keep the types.
LEMMA AppendingTypes ==
    ASSUME TypeOK, NEW t \in Tasks, NEW type \in FrameTypes,
           NEW task \in {tasks[t], MarkRunning(tasks[t])}, AppendFrame(t, task, type),
           others' = others, stored' = stored,
           request' \in [Tasks -> {"none", "body", "run", "drain", "done"}]
    PROVE  TypesOK'
BY AppendFrameClients, AppendFrameStep DEF TypeOK, TypesOK

\* So do the others.
LEMMA TypesStep ==
    ASSUME TypeOK, [Next]_vars
    PROVE  TypesOK'
<1>1. TypesOK /\ TypeOK /\ ClientsOK
  BY DEF TypeOK, TypesOK, ClientsOK
<1>2. ASSUME NEW t \in Tasks, Create(t)
      PROVE  TypesOK'
  <2>1. [tasks EXCEPT ![t] = NewTask] \in [Tasks -> Entry]
    BY <1>1, FirstEntry DEF TypesOK
  <2>2. others' \in 0 .. MaxOthers /\ tasks' \in [Tasks -> Entry]
    BY <1>1, <1>2, <2>1, EvictStep DEF Create, TypesOK
  <2> QED BY <1>1, <1>2, <2>2 DEF Create, TypesOK, ClientsOK
<1>3. CASE CreateOther
  <2>1. others + 1 \in 0 .. MaxOthers
    BY <1>1, <1>3 DEF CreateOther, TypesOK
  <2>2. others' \in 0 .. MaxOthers /\ tasks' \in [Tasks -> Entry]
    BY <1>1, <1>3, <2>1, EvictStep DEF CreateOther, TypesOK
  <2> QED BY <1>1, <1>3, <2>2 DEF CreateOther, TypesOK, ClientsOK
<1>4. ASSUME NEW t \in Tasks, Receive(t)
      PROVE  TypesOK'
  <2>1. CASE tasks[t].live
    BY <1>1, <1>4, <2>1, AppendingTypes DEF Receive, FrameTypes, TypesOK
  <2>2. CASE ~tasks[t].live
    BY <1>1, <1>4, <2>2 DEF Receive, TypesOK, ClientsOK
  <2> QED BY <2>1, <2>2
<1>5. ASSUME NEW t \in Tasks, Progress(t) \/ Cancel(t)
      PROVE  TypesOK'
  BY <1>1, <1>5, AppendingTypes DEF Progress, Cancel, FrameTypes, TypesOK
<1>6. ASSUME NEW t \in Tasks, NEW type \in FrameTypes, Complete(t, type)
      PROVE  TypesOK'
  <2>1. CASE tasks[t].live
    BY <1>1, <1>6, <2>1, AppendingTypes DEF Complete, TypesOK
  <2>2. CASE ~tasks[t].live
    BY <1>1, <1>6, <2>2 DEF Complete, TypesOK, ClientsOK
  <2> QED BY <2>1, <2>2
<1>7. ASSUME NEW t \in Tasks, Answer(t) \/ Fail(t)
      PROVE  TypesOK'
  BY <1>6, <1>7 DEF Answer, Fail, FrameTypes
<1>8. ASSUME NEW t \in Tasks, Drained(t) \/ Close(t)
      PROVE  TypesOK'
  <2>1. tasks' = [tasks EXCEPT ![t].subscribers = @ \ {Stream}]
    BY <1>8 DEF Drained, Close
  <2>2. tasks' \in [Tasks -> Entry]
    <3>1. [tasks[t] EXCEPT !.subscribers = @ \ {Stream}] \in Entry
      <4>1. tasks[t] \in Entry
        BY <1>1 DEF TypesOK
      <4>2. tasks[t].subscribers \ {Stream} \in SUBSET (Clients \cup {Stream})
        BY <4>1 DEF Entry
      <4> QED BY <4>1, <4>2 DEF Entry
    <3> QED BY <1>1, <2>1, <3>1 DEF TypesOK
  <2> QED BY <1>1, <1>8, <2>2 DEF Drained, Close, TypesOK, ClientsOK
<1>9. ASSUME NEW t \in Tasks, Persist(t)
      PROVE  TypesOK'
  <2>1. tasks[t] \in Entry
    BY <1>1 DEF TypesOK
  <2>2. tasks' \in [Tasks -> Entry]
    <3>1. Persisted(tasks[t]) \in Entry /\ NotPersisted(tasks[t]) \in Entry
      BY <2>1, PersistedType
    <3> QED BY <1>1, <1>9, <3>1 DEF Persist, TypesOK
  <2>3. FrameAt(tasks[t], tasks[t].next) \in [sequence : Nat \ {0}, type : FrameTypes]
    BY <1>9, <2>1 DEF Persist, FrameAt, Entry
  <2> QED BY <1>1, <1>9, <2>2, <2>3 DEF Persist, TypesOK, ClientsOK
<1>10. ASSUME NEW t \in Tasks, Ask(t)
       PROVE  TypesOK'
  BY <1>1, <1>10 DEF Ask, Tell, TypesOK, ClientsOK
<1>11. ASSUME NEW c \in Clients, Disconnect(c)
       PROVE  TypesOK'
  <2>1. tasks' \in [Tasks -> Entry]
    <3>1. tasks' = [tasks EXCEPT ![client[c].task].subscribers = @ \ {c}] /\ client[c].task \in Tasks
      BY <1>1, <1>11 DEF Disconnect, ClientsOK
    <3> QED BY <1>1, <3>1, SubscribersType DEF TypesOK
  <2>2. ClientsOK'
    BY <1>1, <1>11 DEF Disconnect, ClientsOK, Broken, Connection
  <2> QED BY <1>1, <1>11, <2>1, <2>2 DEF Disconnect, TypesOK
<1>12. ASSUME NEW c \in Clients, NEW t \in Tasks, Reconnect(c, t)
       PROVE  TypesOK'
  <2>1. tasks' \in [Tasks -> Entry]
    <3>1. CASE tasks' = tasks
      BY <1>1, <3>1 DEF TypesOK
    <3>2. CASE tasks' = [tasks EXCEPT ![t].subscribers = @ \cup {c}]
      BY <1>1, <3>2, SubscribersType DEF TypesOK
    <3> QED BY <1>12, <3>1, <3>2 DEF Reconnect
  <2>2. ClientsOK'
    BY <1>1, <1>12, NoneAssumption DEF Reconnect, ClientsOK, Connection
  <2> QED BY <1>1, <1>12, <2>1, <2>2 DEF Reconnect, Tell, TypesOK
<1>13. CASE Restart
  <2>1. ClientsOK'
    BY <1>1, <1>13 DEF Restart, ClientsOK, Broken, Connection
  <2> QED BY <1>1, <1>13, <2>1, FirstEntry DEF Restart, TypesOK
<1>14. CASE UNCHANGED vars
  BY <1>1, <1>14 DEF vars, TypesOK, ClientsOK
<1> QED BY <1>2, <1>3, <1>4, <1>5, <1>7, <1>8, <1>9, <1>10, <1>11, <1>12, <1>13, <1>14 DEF Next

\* With what a step may do to one task, all of TypeOK is kept.
LEMMA TypeStep == TypeOK /\ [Next]_vars => TypeOK'
<1> SUFFICES ASSUME TypeOK, [Next]_vars PROVE TypeOK'
  OBVIOUS
<1>1. TypesOK'
  BY TypesStep
<1>2. ASSUME NEW t \in Tasks
      PROVE  tasks'[t].next <= Len(tasks'[t].frames) + 1 /\ tasks'[t].durable < tasks'[t].next
  <2>1. tasks[t] \in Entry /\ tasks[t].next <= Len(tasks[t].frames) + 1 /\ tasks[t].durable < tasks[t].next
    BY DEF TypeOK
  <2>2. CASE Left(t) \/ Answered(t)
    BY <2>1, <2>2 DEF Left, Answered, Same
  <2>3. CASE Created(t) \/ Forgotten(t)
    BY <2>3 DEF Created, Forgotten, NewTask, NoTask
  <2>4. CASE Grown(t)
    <3>1. PICK type \in FrameTypes, task \in {tasks[t], MarkRunning(tasks[t])} :
              tasks'[t] = Appended(task, type)
      BY <2>4 DEF Grown
    <3>2. MarkRunning(tasks[t]) \in Entry
      BY <2>1, AppendedType DEF FrameTypes
    <3>3. task \in Entry /\ task.frames = tasks[t].frames /\ task.next = tasks[t].next /\ task.durable = tasks[t].durable
      BY <2>1, <3>2 DEF MarkRunning, Entry
    <3>4. /\ tasks'[t].frames = Append(task.frames, type)
          /\ tasks'[t].next = task.next /\ tasks'[t].durable = task.durable
      BY <3>1, <3>3, AppendedType
    <3>5. Len(tasks'[t].frames) = Len(tasks[t].frames) + 1
      BY <3>3, <3>4 DEF Entry
    <3> QED BY <2>1, <3>3, <3>4, <3>5 DEF Entry
  <2>5. CASE Stores(t)
    <3>1. /\ tasks'[t].frames = tasks[t].frames /\ tasks'[t].next = tasks[t].next + 1
          /\ tasks'[t].durable \in {tasks[t].durable, tasks[t].next}
      BY <2>1, <2>5 DEF Stores, Persisted, NotPersisted, Entry
    <3> QED BY <2>1, <2>5, <3>1 DEF Stores, Entry
  <2> QED BY <2>2, <2>3, <2>4, <2>5, EntryStep
<1> QED BY <1>1, <1>2 DEF TypesOK, ClientsOK, TypeOK

\* The registry, the ledger's frames, the requests, the connections and the
\* answers have their types in every state.
THEOREM Typing == Spec => []TypeOK
<1>1. Init => TypeOK
  <2> SUFFICES ASSUME Init PROVE TypeOK
    OBVIOUS
  <2>1. \A t \in Tasks : tasks[t] = NoTask
    BY DEF Init
  <2>2. \A c \in Clients : client[c] = Connection(None, "away", <<>>)
    BY DEF Init
  <2>3. tasks \in [Tasks -> Entry]
    BY FirstEntry DEF Init
  <2>4. \A t \in Tasks : tasks[t].next <= Len(tasks[t].frames) + 1 /\ tasks[t].durable < tasks[t].next
    BY <2>1 DEF NoTask
  <2> QED BY <2>2, <2>3, <2>4 DEF Init, TypeOK, Connection
<1> QED BY <1>1, TypeStep, PTL DEF Spec

(***************************************************************************)
(* The inductive invariant.                                                *)
(***************************************************************************)
\* The entry: it has frames from its creation to a restart, and stops with
\* the first terminal one.
Standing(t) ==
    /\ tasks[t].frames = <<>> =>
          /\ ~tasks[t].live /\ tasks[t].status = "accepted"
          /\ tasks[t].next = 1 /\ tasks[t].durable = 0 /\ request[t] \in {"none", "done"}
    /\ tasks[t].frames # <<>> => request[t] # "none"
    /\ \A i \in 1 .. Len(tasks[t].frames) :
          StatusOf(tasks[t].frames[i]) \in Completions =>
              i = Len(tasks[t].frames) /\ tasks[t].status = StatusOf(tasks[t].frames[i])
    /\ Terminal(tasks[t].status) =>
          /\ tasks[t].frames # <<>>
          /\ StatusOf(tasks[t].frames[Len(tasks[t].frames)]) = tasks[t].status

\* A stored frame that no other comes after.
IsLast(t, f) == f \in stored[t] /\ \A g \in stored[t] : g.sequence <= f.sequence

\* The frames in the ledger: those of the entry, as long as there is one.
Recorded(t) ==
    /\ tasks[t].frames # <<>> =>
          \A f \in stored[t] : /\ f.sequence < tasks[t].next
                               /\ f.sequence <= Len(tasks[t].frames)
                               /\ f.type = tasks[t].frames[f.sequence]
    /\ \A f, g \in stored[t] : f.sequence = g.sequence => f = g
    /\ stored[t] # {} => \E f \in stored[t] : IsLast(t, f)
    /\ request[t] = "none" => stored[t] = {} /\ told[t] = {}
    /\ tasks[t].durable > 0 => \E f \in stored[t] : f.sequence = tasks[t].durable

\* The outcomes that clients and the ledger know of.
Known(t) == {r.status : r \in told[t]} \cup ({StatusOf(f.type) : f \in stored[t]} \cap Completions)

Agreed(t) ==
    /\ tasks[t].frames # <<>> => \A v \in Known(t) : v = tasks[t].status
    /\ \A v, w \in Known(t) : v = w

\* What was reported as durable is the last thing the ledger has of the task.
Upheld(t) ==
    \A r \in told[t] : r.persistence = "durable" =>
        \E f \in stored[t] : IsLast(t, f) /\ StatusOf(f.type) = r.status

Coherent(t) == Standing(t) /\ Recorded(t) /\ Agreed(t) /\ Upheld(t)

\* While a task is not completed, no outcome of it is known.
LEMMA NothingKnown ==
    ASSUME TypeOK, NEW t \in Tasks, Coherent(t), tasks[t].frames # <<>>, ~Terminal(tasks[t].status)
    PROVE  Known(t) = {} /\ told[t] = {}
<1>1. Known(t) \subseteq Completions
  BY DEF Known, TypeOK, Report
<1>2. \A v \in Known(t) : v = tasks[t].status
  BY DEF Coherent, Agreed
<1>3. Known(t) = {}
  BY <1>1, <1>2 DEF Terminal
<1> QED BY <1>3 DEF Known

\* What get answers for a task that was evicted or forgotten.
LEMMA FromLedger ==
    ASSUME TypeOK, NEW t \in Tasks, Coherent(t), stored[t] # {}
    PROVE  IsLast(t, LastStored(t)) /\ \A f \in stored[t] : IsLast(t, f) => f = LastStored(t)
<1>1. PICK f \in stored[t] : \A g \in stored[t] : g.sequence <= f.sequence
  BY DEF Coherent, Recorded, IsLast
<1>2. IsLast(t, LastStored(t))
  BY <1>1 DEF LastStored, IsLast
<1>3. ASSUME NEW g \in stored[t], IsLast(t, g)
      PROVE  g = LastStored(t)
  <2>1. g.sequence \in Nat /\ LastStored(t).sequence \in Nat /\ LastStored(t) \in stored[t]
    BY <1>2 DEF TypeOK, IsLast
  <2>2. g.sequence = LastStored(t).sequence
    BY <1>2, <1>3, <2>1 DEF IsLast
  <2> QED BY <2>1, <2>2 DEF Coherent, Recorded
<1> QED BY <1>2, <1>3

\* What get answers as an outcome is known already, or is where the entry stands.
LEMMA AnswerIsKnown ==
    ASSUME TypeOK, NEW t \in Tasks, Coherent(t), Get(t) \in Report
    PROVE  /\ tasks[t].live \/ stored[t] # {}
           /\ tasks[t].live => Get(t).status = tasks[t].status /\ tasks[t].frames # <<>>
           /\ ~tasks[t].live => Get(t).status \in Known(t)
           /\ Get(t).persistence = "durable" =>
                 \E f \in stored[t] : IsLast(t, f) /\ StatusOf(f.type) = Get(t).status
<1>1. None \notin Report
  BY NoneAssumption DEF Answers, Report, Statuses
<1>2. CASE tasks[t].live
  <2>1. Get(t) = Snapshot(t) /\ Get(t).status = tasks[t].status
    BY <1>2 DEF Get, Snapshot
  <2>2. tasks[t].frames # <<>> /\ Terminal(tasks[t].status)
    BY <1>2, <2>1 DEF Coherent, Standing, Report, Terminal
  <2>3. ASSUME Get(t).persistence = "durable"
        PROVE  \E f \in stored[t] : IsLast(t, f) /\ StatusOf(f.type) = Get(t).status
    <3>1. tasks[t].durable >= Len(tasks[t].frames)
      BY <2>1, <2>3 DEF Snapshot
    <3>2. tasks[t].durable = Len(tasks[t].frames) /\ tasks[t].durable > 0
      <4>1. Len(tasks[t].frames) \in Nat /\ Len(tasks[t].frames) > 0
        BY <2>2 DEF TypeOK, Entry
      <4> QED BY <3>1, <4>1 DEF TypeOK, Entry
    <3>3. PICK f \in stored[t] : f.sequence = tasks[t].durable
      BY <3>2 DEF Coherent, Recorded
    <3>4. IsLast(t, f) /\ f.type = tasks[t].frames[Len(tasks[t].frames)]
      BY <2>2, <3>2, <3>3 DEF Coherent, Recorded, IsLast
    <3> QED BY <2>1, <2>2, <3>4 DEF Coherent, Standing
  <2> QED BY <1>2, <2>1, <2>2, <2>3
<1>3. CASE ~tasks[t].live
  <2>1. stored[t] # {} /\ Get(t).status = StatusOf(LastStored(t).type)
    BY <1>1, <1>3 DEF Get
  <2>2. IsLast(t, LastStored(t)) /\ LastStored(t) \in stored[t]
    BY <2>1, FromLedger DEF IsLast
  <2>3. Get(t).status \in Known(t)
    BY <2>1, <2>2 DEF Known, Report
  <2> QED BY <1>3, <2>1, <2>2, <2>3
<1> QED BY <1>2, <1>3

(***************************************************************************)
(* It is kept by each of the things a step may do to a task.               *)
(***************************************************************************)
LEMMA LeftStep ==
    ASSUME NEW t \in Tasks, Coherent(t), Left(t)
    PROVE  Coherent(t)'
<1> USE DEF Left, Same, Coherent
<1>1. Standing(t)'
  BY DEF Standing, Onward, Terminal
<1>2. Recorded(t)'
  BY DEF Recorded, Onward, IsLast
<1>3. Agreed(t)' /\ Upheld(t)'
  BY DEF Agreed, Upheld, Known, IsLast
<1> QED BY <1>1, <1>2, <1>3

LEMMA AnsweredStep ==
    ASSUME TypeOK, NEW t \in Tasks, Coherent(t), Answered(t)
    PROVE  Coherent(t)'
<1>1. CASE told'[t] = told[t]
  BY <1>1, LeftStep DEF Answered, Left, Onward
<1>2. CASE told'[t] # told[t]
  <2>1. Get(t) \in Report /\ told'[t] = told[t] \cup {Get(t)}
    BY <1>2 DEF Answered
  <2>2. Standing(t)'
    BY DEF Coherent, Standing, Answered, Same, Terminal
  <2>3. tasks[t].frames # <<>> \/ stored[t] # {}
    BY <2>1, AnswerIsKnown
  <2>4. Recorded(t)'
    BY <2>3 DEF Coherent, Standing, Recorded, Answered, Same, IsLast
  <2>5. Known(t)' = Known(t) \cup {Get(t).status}
    BY <2>1 DEF Known, Answered
  <2>6. tasks[t].frames # <<>> => Get(t).status = tasks[t].status
    BY <2>1, AnswerIsKnown DEF Coherent, Agreed
  <2>7. \A v \in Known(t) : v = Get(t).status
    BY <2>1, <2>6, AnswerIsKnown DEF Coherent, Agreed
  <2>8. Agreed(t)'
    BY <2>5, <2>6, <2>7 DEF Coherent, Agreed, Answered, Same
  <2>9. Upheld(t)'
    BY <2>1, AnswerIsKnown DEF Coherent, Upheld, Answered, IsLast
  <2> QED BY <2>2, <2>4, <2>8, <2>9 DEF Coherent
<1> QED BY <1>1, <1>2

LEMMA CreatedStep ==
    ASSUME TypeOK, NEW t \in Tasks, Coherent(t), Created(t)
    PROVE  Coherent(t)'
<1>1. /\ stored'[t] = {} /\ told'[t] = {} /\ request'[t] = "body"
      /\ tasks'[t].frames = <<"accepted">> /\ tasks'[t].status = "accepted"
      /\ tasks'[t].durable = 0
  BY DEF Created, Coherent, Recorded, NewTask
<1>2. Standing(t)'
  BY <1>1 DEF Standing, StatusOf, Completions, Terminal
<1>3. Known(t)' = {}
  BY <1>1 DEF Known
<1> QED BY <1>1, <1>2, <1>3 DEF Coherent, Recorded, Agreed, Upheld

LEMMA ForgottenStep ==
    ASSUME TypeOK, NEW t \in Tasks, Coherent(t), Forgotten(t)
    PROVE  Coherent(t)'
<1>1. /\ tasks'[t].frames = <<>> /\ tasks'[t].status = "accepted" /\ ~tasks'[t].live
      /\ tasks'[t].next = 1 /\ tasks'[t].durable = 0
  BY DEF Forgotten, NoTask
<1>2. Standing(t)'
  BY <1>1 DEF Standing, Forgotten, Completions, Terminal
<1>3. Recorded(t)'
  BY <1>1 DEF Forgotten, Coherent, Recorded, IsLast
<1> QED BY <1>1, <1>2, <1>3 DEF Coherent, Forgotten, Agreed, Upheld, Known, IsLast

LEMMA StoresStep ==
    ASSUME TypeOK, NEW t \in Tasks, Coherent(t), Stores(t)
    PROVE  Coherent(t)'
<1> DEFINE new == FrameAt(tasks[t], tasks[t].next)
<1>1. /\ tasks[t].next \in Nat \ {0} /\ Len(tasks[t].frames) \in Nat
      /\ tasks[t].next <= Len(tasks[t].frames) /\ tasks[t].frames # <<>>
      /\ \A f \in stored[t] : f.sequence \in Nat \ {0}
      /\ tasks[t] \in Entry
  BY DEF TypeOK, Entry, Stores
<1>2. /\ tasks'[t].frames = tasks[t].frames /\ tasks'[t].status = tasks[t].status
      /\ tasks'[t].live = tasks[t].live /\ tasks'[t].next = tasks[t].next + 1
      /\ told'[t] = told[t] /\ request'[t] = request[t]
  BY <1>1 DEF Stores, Persisted, NotPersisted, Entry
<1>3. \/ stored'[t] = stored[t] /\ tasks'[t].durable = tasks[t].durable
      \/ /\ stored'[t] = stored[t] \cup {new}
         /\ tasks'[t].durable \in {tasks[t].durable, tasks[t].next}
  BY <1>1 DEF Stores, Persisted, NotPersisted, Entry
<1>4. new.sequence = tasks[t].next /\ new.type = tasks[t].frames[tasks[t].next]
  BY DEF FrameAt
<1>5. /\ \A f \in stored[t] : f.sequence < new.sequence /\ f.type = tasks[t].frames[f.sequence]
      /\ \A f, g \in stored[t] : f.sequence = g.sequence => f = g
  BY <1>1, <1>4 DEF Coherent, Recorded
<1>6. Standing(t)'
  BY <1>1, <1>2 DEF Coherent, Standing, Terminal
<1>7. Recorded(t)'
  <2>1. CASE stored'[t] = stored[t] /\ tasks'[t].durable = tasks[t].durable
    BY <1>1, <1>2, <2>1 DEF Coherent, Recorded, IsLast
  <2>2. CASE stored'[t] = stored[t] \cup {new} /\ tasks'[t].durable \in {tasks[t].durable, tasks[t].next}
    <3>1. \A f \in stored'[t] : /\ f.sequence < tasks'[t].next
                                /\ f.sequence <= Len(tasks'[t].frames)
                                /\ f.type = tasks'[t].frames[f.sequence]
      BY <1>1, <1>2, <1>4, <1>5, <2>2
    <3>2. \A f, g \in stored'[t] : f.sequence = g.sequence => f = g
      BY <1>1, <1>4, <1>5, <2>2
    <3>3. new \in stored'[t] /\ \A g \in stored'[t] : g.sequence <= new.sequence
      BY <1>1, <1>4, <1>5, <2>2
    <3>4. request'[t] # "none"
      BY <1>1, <1>2 DEF Coherent, Standing
    <3>5. tasks'[t].durable > 0 => \E f \in stored'[t] : f.sequence = tasks'[t].durable
      BY <1>4, <2>2 DEF Coherent, Recorded
    <3> QED BY <1>2, <3>1, <3>2, <3>3, <3>4, <3>5 DEF Recorded, IsLast
  <2> QED BY <1>3, <2>1, <2>2
<1>8. Agreed(t)'
  <2>1. StatusOf(new.type) \in Completions => StatusOf(new.type) = tasks[t].status
    BY <1>1, <1>4 DEF Coherent, Standing
  <2>2. Known(t)' \subseteq Known(t) \cup ({StatusOf(new.type)} \cap Completions)
    BY <1>2, <1>3 DEF Known
  <2>3. \A v \in Known(t)' : v = tasks[t].status
    BY <1>1, <2>1, <2>2 DEF Coherent, Agreed
  <2> QED BY <1>2, <2>3 DEF Agreed
<1>9. Upheld(t)'
  <2> SUFFICES ASSUME NEW r \in told[t], r.persistence = "durable"
               PROVE  \E f \in stored'[t] : IsLast(t, f)' /\ StatusOf(f.type) = r.status
    BY <1>2 DEF Upheld
  <2>1. PICK f \in stored[t] : IsLast(t, f) /\ StatusOf(f.type) = r.status
    BY DEF Coherent, Upheld
  <2>2. f.sequence = Len(tasks[t].frames)
    <3>1. r.status \in Completions
      BY DEF TypeOK, Report
    <3>2. f.sequence \in 1 .. Len(tasks[t].frames) /\ f.type = tasks[t].frames[f.sequence]
      BY <1>1 DEF Coherent, Recorded
    <3> QED BY <2>1, <3>1, <3>2 DEF Coherent, Standing
  <2>3. f.sequence < tasks[t].next
    BY <1>1 DEF Coherent, Recorded
  <2> QED BY <1>1, <2>2, <2>3
<1> QED BY <1>6, <1>7, <1>8, <1>9 DEF Coherent

LEMMA GrownStep ==
    ASSUME TypeOK, NEW t \in Tasks, Coherent(t), Grown(t)
    PROVE  Coherent(t)'
<1>1. tasks[t] \in Entry /\ tasks[t].live /\ ~Terminal(tasks[t].status) /\ tasks[t].frames # <<>>
  BY DEF TypeOK, Grown, Coherent, Standing
<1>2. Known(t) = {} /\ told[t] = {}
  BY <1>1, NothingKnown
<1>3. PICK type \in FrameTypes, task \in {tasks[t], MarkRunning(tasks[t])} :
          tasks'[t] = Appended(task, type)
  BY DEF Grown
<1>4. /\ task \in Entry /\ task.frames = tasks[t].frames /\ ~Terminal(task.status)
      /\ task.next = tasks[t].next /\ task.durable = tasks[t].durable
  <2>1. MarkRunning(tasks[t]) \in Entry
    BY <1>1, <1>3, AppendedType
  <2> QED BY <1>1, <2>1 DEF MarkRunning, Entry, Terminal, Completions
<1>5. /\ tasks'[t].frames = Append(tasks[t].frames, type)
      /\ tasks'[t].status = StatusAfter(task.status, type)
      /\ tasks'[t].next = tasks[t].next /\ tasks'[t].durable = tasks[t].durable
  BY <1>3, <1>4, AppendedType
<1>6. /\ Len(tasks[t].frames) \in Nat /\ tasks[t].frames \in Seq(FrameTypes)
      /\ Len(tasks'[t].frames) = Len(tasks[t].frames) + 1 /\ tasks'[t].frames # <<>>
      /\ \A i \in 1 .. Len(tasks[t].frames) : tasks'[t].frames[i] = tasks[t].frames[i]
      /\ tasks'[t].frames[Len(tasks[t].frames) + 1] = type
  <2>1. tasks[t].frames \in Seq(FrameTypes)
    BY <1>1 DEF Entry
  <2> QED BY <1>5, <2>1, AppendProperties, LenProperties
<1>7. request[t] # "none" /\ request'[t] # "none"
  BY <1>1 DEF Coherent, Standing, Grown, Onward
<1>8. Standing(t)'
  <2>1. StatusOf(type) \in Completions => StatusAfter(task.status, type) = StatusOf(type)
    BY DEF StatusOf, StatusAfter, Completions, FrameTypes
  <2>2. Terminal(StatusAfter(task.status, type)) => StatusOf(type) = StatusAfter(task.status, type)
    BY <1>4 DEF StatusOf, StatusAfter, Terminal, Completions, FrameTypes
  <2>3. \A i \in 1 .. Len(tasks[t].frames) : StatusOf(tasks[t].frames[i]) \notin Completions
    BY <1>1 DEF Coherent, Standing, Terminal
  <2>4. ASSUME NEW i \in 1 .. Len(tasks'[t].frames), StatusOf(tasks'[t].frames[i]) \in Completions
        PROVE  i = Len(tasks'[t].frames) /\ tasks'[t].status = StatusOf(tasks'[t].frames[i])
    <3>1. i = Len(tasks'[t].frames)
      BY <1>6, <2>3, <2>4
    <3> QED BY <1>5, <1>6, <2>1, <2>4, <3>1
  <2> QED BY <1>5, <1>6, <1>7, <2>2, <2>4 DEF Standing, Terminal
<1>9. stored'[t] = stored[t]
  BY DEF Grown
<1>10. Recorded(t)'
  <2>1. \A f \in stored'[t] : /\ f.sequence < tasks'[t].next
                              /\ f.sequence <= Len(tasks'[t].frames)
                              /\ f.type = tasks'[t].frames[f.sequence]
    <3> SUFFICES ASSUME NEW f \in stored[t]
                 PROVE  /\ f.sequence < tasks'[t].next
                        /\ f.sequence <= Len(tasks'[t].frames)
                        /\ f.type = tasks'[t].frames[f.sequence]
      BY <1>9
    <3>1. /\ f.sequence \in Nat \ {0} /\ f.sequence < tasks[t].next
          /\ f.sequence <= Len(tasks[t].frames) /\ f.type = tasks[t].frames[f.sequence]
      BY <1>1 DEF Coherent, Recorded, TypeOK
    <3>2. f.sequence \in 1 .. Len(tasks[t].frames)
      BY <1>6, <3>1
    <3> QED BY <1>5, <1>6, <3>1, <3>2
  <2> QED BY <1>5, <1>7, <1>9, <2>1 DEF Coherent, Recorded, IsLast
<1>11. told'[t] = {} \/ told'[t] = {[status |-> tasks'[t].status, persistence |-> "pending"]}
  BY <1>2 DEF Grown
<1>12. Known(t)' \subseteq {tasks'[t].status}
  BY <1>2, <1>9, <1>11 DEF Known
<1>13. Agreed(t)' /\ Upheld(t)'
  BY <1>11, <1>12 DEF Agreed, Upheld
<1> QED BY <1>8, <1>10, <1>13 DEF Coherent

\* So it holds of every task in every state.
LEMMA CoherentStep ==
    TypeOK /\ (\A t \in Tasks : Coherent(t)) /\ [Next]_vars => \A t \in Tasks : Coherent(t)'
BY EntryStep, LeftStep, AnsweredStep, CreatedStep, ForgottenStep, StoresStep, GrownStep

LEMMA Coherence == Spec => [](\A t \in Tasks : Coherent(t))
<1>1. Init => \A t \in Tasks : Coherent(t)
  <2> SUFFICES ASSUME Init, NEW t \in Tasks PROVE Coherent(t)
    OBVIOUS
  <2>1. tasks[t] = NoTask /\ stored[t] = {} /\ told[t] = {} /\ request[t] = "none"
    BY DEF Init
  <2> QED BY <2>1 DEF NoTask, Coherent, Standing, Recorded, Agreed, Upheld, Known, Terminal, Completions
<1>2. TypeOK /\ (\A t \in Tasks : Coherent(t)) /\ [Next]_vars => (\A t \in Tasks : Coherent(t))'
  BY CoherentStep
<1> QED BY <1>1, <1>2, Typing, PTL DEF Spec

\* A task completes once: whoever asks, follows or reconnects, before or after
\* a restart, is told the same outcome (append, routes.ts, get).
THEOREM Unanimity == Spec => []VerdictsAgree
<1>1. (\A t \in Tasks : Coherent(t)) => VerdictsAgree
  <2> SUFFICES ASSUME \A t \in Tasks : Coherent(t),
                      NEW t \in Tasks, NEW r \in told[t], NEW s \in told[t]
               PROVE  r.status = s.status
    BY DEF VerdictsAgree
  <2>1. r.status \in Known(t) /\ s.status \in Known(t)
    BY DEF Known
  <2> QED BY <2>1 DEF Coherent, Agreed
<1> QED BY <1>1, Coherence, PTL

\* "After a server restart, completed tasks remain replayable"
\* (docs/API_SURFACE.md:55): an outcome that get reported as durable is what it
\* answers from then on.
THEOREM DurabilityHolds == Spec => []DurableVerdictStands
<1>1. TypeOK /\ (\A t \in Tasks : Coherent(t)) => DurableVerdictStands
  <2> SUFFICES ASSUME TypeOK, \A t \in Tasks : Coherent(t),
                      NEW t \in Tasks, NEW r \in told[t], r.persistence = "durable"
               PROVE  Get(t) # None /\ Get(t).status = r.status
    BY DEF DurableVerdictStands
  <2>1. r.status \in Known(t) /\ r.status \in Completions
    BY DEF Known, TypeOK, Report
  <2>2. PICK f \in stored[t] : IsLast(t, f) /\ StatusOf(f.type) = r.status
    BY DEF Coherent, Upheld
  <2>3. CASE tasks[t].live
    <3>1. Get(t) = [status |-> tasks[t].status,
                    persistence |-> IF tasks[t].durable >= Len(tasks[t].frames) THEN "durable" ELSE "pending"]
      BY <2>3 DEF Get, Snapshot
    <3>2. tasks[t].frames # <<>> /\ tasks[t].status \in Statuses
      BY <2>3 DEF Coherent, Standing, TypeOK, Entry
    <3>3. Get(t) \in Answers
      BY <3>1, <3>2 DEF Answers
    <3>4. tasks[t].status = r.status
      BY <2>1, <3>2 DEF Coherent, Agreed
    <3> QED BY <3>1, <3>3, <3>4, NoneAssumption
  <2>4. CASE ~tasks[t].live
    <3>1. Get(t) = [status |-> StatusOf(LastStored(t).type), persistence |-> "durable"]
      BY <2>2, <2>4 DEF Get
    <3>2. f = LastStored(t)
      BY <2>2, FromLedger
    <3>3. Get(t) \in Answers /\ Get(t).status = r.status
      BY <2>1, <2>2, <3>1, <3>2 DEF Answers, Statuses
    <3> QED BY <3>3, NoneAssumption
  <2> QED BY <2>3, <2>4
<1> QED BY <1>1, Coherence, Typing, PTL

(***************************************************************************)
(* What clients have got.                                                  *)
(***************************************************************************)
\* The sequences of the first n frames.
UpTo(n) == [i \in 1 .. n |-> i]

LEMMA UpToIsSeq ==
    ASSUME NEW n \in Nat
    PROVE  /\ UpTo(n) \in Seq(Nat) /\ Len(UpTo(n)) = n
           /\ \A i \in 1 .. n : UpTo(n)[i] = i
<1>1. UpTo(n) \in [1 .. n -> Nat]
  BY DEF UpTo
<1> QED
  BY <1>1 DEF UpTo

LEMMA UpToNothing == UpTo(0) = <<>>
BY UpToIsSeq, EmptySeq

LEMMA UpToAppend ==
    ASSUME NEW n \in Nat
    PROVE  Append(UpTo(n), n + 1) = UpTo(n + 1)
<1>1. /\ UpTo(n) \in Seq(Nat) /\ Len(UpTo(n)) = n /\ \A i \in 1 .. n : UpTo(n)[i] = i
      /\ UpTo(n + 1) \in Seq(Nat) /\ Len(UpTo(n + 1)) = n + 1
      /\ \A i \in 1 .. n + 1 : UpTo(n + 1)[i] = i
  BY UpToIsSeq
<1> DEFINE s == Append(UpTo(n), n + 1)
<1>2. /\ s \in Seq(Nat) /\ Len(s) = n + 1
      /\ \A i \in 1 .. n : s[i] = i
      /\ s[n + 1] = n + 1
  BY <1>1, AppendProperties
<1> HIDE DEF s
<1>3. \A i \in 1 .. n + 1 : s[i] = UpTo(n + 1)[i]
  BY <1>1, <1>2
<1>4. s = UpTo(n + 1)
  BY <1>1, <1>2, <1>3, SeqEqual
<1> QED
  BY <1>4 DEF s

\* Whoever has the first n of m frames and gets those from n + 1 on has all.
LEMMA UpToConcat ==
    ASSUME NEW m \in Nat, NEW n \in 0 .. m
    PROVE  UpTo(n) \o [i \in 1 .. m + 1 - (n + 1) |-> (n + 1) + i - 1] = UpTo(m)
<1> DEFINE r == [i \in 1 .. m + 1 - (n + 1) |-> (n + 1) + i - 1]
<1>1. /\ r \in Seq(Nat) /\ Len(r) = m - n
      /\ \A i \in 1 .. m - n : r[i] = n + i
  <2>1. m + 1 - (n + 1) = m - n /\ m - n \in Nat
    OBVIOUS
  <2>2. r = [i \in 1 .. m - n |-> n + i]
    BY <2>1
  <2>3. \A i \in 1 .. m - n : n + i \in Nat
    OBVIOUS
  <2>4. [i \in 1 .. m - n |-> n + i] \in [1 .. m - n -> Nat]
    BY <2>3
  <2> QED
    BY <2>1, <2>2, <2>4
<1> HIDE DEF r
<1>2. /\ UpTo(n) \in Seq(Nat) /\ Len(UpTo(n)) = n /\ \A i \in 1 .. n : UpTo(n)[i] = i
      /\ UpTo(m) \in Seq(Nat) /\ Len(UpTo(m)) = m /\ \A i \in 1 .. m : UpTo(m)[i] = i
  BY UpToIsSeq
<1> DEFINE s == UpTo(n) \o r
<1>3. /\ s \in Seq(Nat) /\ Len(s) = n + (m - n)
      /\ \A i \in 1 .. n + (m - n) : s[i] = IF i <= n THEN UpTo(n)[i] ELSE r[i - n]
  <2>1. /\ s \in Seq(Nat) /\ Len(s) = Len(UpTo(n)) + Len(r)
        /\ \A i \in 1 .. Len(UpTo(n)) + Len(r) :
              s[i] = IF i <= Len(UpTo(n)) THEN UpTo(n)[i] ELSE r[i - Len(UpTo(n))]
    BY <1>1, <1>2, ConcatProperties
  <2>2. Len(UpTo(n)) = n /\ Len(r) = m - n
    BY <1>1, <1>2
  <2> HIDE DEF s
  <2> QED
    BY <2>1, <2>2
<1> HIDE DEF s
<1>4. n + (m - n) = m
  OBVIOUS
<1>5. ASSUME NEW i \in 1 .. m
      PROVE  s[i] = UpTo(m)[i]
  <2>1. CASE i <= n
    BY <1>2, <1>3, <1>4, <2>1
  <2>2. CASE ~(i <= n)
    <3>1. i - n \in 1 .. m - n /\ n + (i - n) = i
      BY <2>2
    <3> QED
      BY <1>1, <1>2, <1>3, <1>4, <2>2, <3>1
  <2> QED
    BY <2>1, <2>2
<1>6. s = UpTo(m)
  BY <1>2, <1>3, <1>4, <1>5, SeqEqual
<1> QED
  BY <1>6 DEF r, s

\* A connection that is lost has the first frames of its task, and a client
\* that follows has them all and subscribes to the next.
Followed(c) ==
    /\ client[c].task = None => client[c].state = "away" /\ client[c].got = <<>>
    /\ client[c].task # None => request[client[c].task] # "none"
    /\ client[c].state = "away" /\ client[c].task # None /\ tasks[client[c].task].live =>
          \E n \in 0 .. Len(tasks[client[c].task].frames) : client[c].got = UpTo(n)
    /\ client[c].state = "following" =>
          /\ tasks[client[c].task].live /\ c \in tasks[client[c].task].subscribers
          /\ ~Terminal(tasks[client[c].task].status)
          /\ client[c].got = UpTo(Len(tasks[client[c].task].frames))

\* A step that does to the entry of t nothing that c would notice.
Unnoticed(t, c) ==
    /\ tasks'[t].live => tasks[t].live /\ tasks'[t].frames = tasks[t].frames
    /\ tasks[t].live /\ ~Terminal(tasks[t].status) /\ c \in tasks[t].subscribers =>
          /\ tasks'[t].live /\ c \in tasks'[t].subscribers
          /\ tasks'[t].status = tasks[t].status

LEMMA StillFollowed ==
    ASSUME NEW c \in Clients, Followed(c), client'[c] = client[c],
           client[c].task # None =>
              /\ request'[client[c].task] # "none"
              /\ Unnoticed(client[c].task, c)
    PROVE  Followed(c)'
<1>1. CASE client[c].task = None
  BY <1>1 DEF Followed
<1>2. CASE client[c].task # None
  BY <1>2 DEF Followed, Unnoticed
<1> QED
  BY <1>1, <1>2

\* A client that is following names a task.
LEMMA ClientTask ==
    ASSUME TypeOK, NEW c \in Clients
    PROVE  /\ client[c].task # None => client[c].task \in Tasks
           /\ client[c].state = "following" => client[c].task \in Tasks
           /\ None \notin Tasks
BY NoneAssumption DEF TypeOK

AllFollowed == \A c \in Clients : Followed(c)

\* A frame goes to whoever follows the task.
LEMMA AppendFollowed ==
    ASSUME TypeOK, AllFollowed, NEW t \in Tasks, NEW type \in FrameTypes, tasks[t].live,
           NEW task \in {tasks[t], MarkRunning(tasks[t])}, AppendFrame(t, task, type),
           \A u \in Tasks : request[u] # "none" => request'[u] # "none"
    PROVE  AllFollowed'
<1> SUFFICES ASSUME NEW c \in Clients
             PROVE  Followed(c)'
  BY DEF AllFollowed
<1>1. /\ tasks[t] \in Entry /\ task \in Entry
      /\ Terminal(task.status) <=> Terminal(tasks[t].status)
      /\ task.frames = tasks[t].frames /\ task.live = tasks[t].live
      /\ task.subscribers = tasks[t].subscribers
      /\ Terminal(task.status) => task = tasks[t]
  <2>1. tasks[t] \in Entry
    BY DEF TypeOK
  <2>2. task \in Entry
    BY <2>1, AppendedType
  <2> QED
    BY <2>1, <2>2 DEF MarkRunning, Entry, Terminal, Completions
<1>2. /\ Followed(c)
      /\ client[c].task # None => client[c].task \in Tasks /\ request'[client[c].task] # "none"
  BY ClientTask DEF AllFollowed, Followed
<1>3. CASE Terminal(task.status)
  <2>1. \A u \in Tasks : tasks'[u] = tasks[u]
    BY <1>1, <1>3 DEF AppendFrame, TypeOK
  <2>2. client'[c] = client[c]
    BY <1>3 DEF AppendFrame
  <2> QED
    BY <1>2, <2>1, <2>2, StillFollowed DEF Unnoticed
<1>4. CASE ~Terminal(task.status)
  <2> DEFINE after == Appended(task, type)
  <2>1. /\ tasks'[t] = after /\ \A u \in Tasks : u # t => tasks'[u] = tasks[u]
        /\ after.live /\ after.frames = Append(tasks[t].frames, type)
        /\ ~Terminal(after.status) => after.subscribers = tasks[t].subscribers
    <3>1. tasks' = [tasks EXCEPT ![t] = after]
      BY <1>4 DEF AppendFrame
    <3>2. after.live = task.live /\ after.frames = Append(task.frames, type)
      BY <1>1, AppendedType
    <3>3. ~Terminal(after.status) => after.subscribers = task.subscribers
      BY <1>1 DEF Appended, Entry
    <3> QED
      BY <1>1, <3>1, <3>2, <3>3 DEF TypeOK
  <2>2. client'[c] = IF c \in FollowersOf(t)
                     THEN Connection(t, IF Terminal(after.status) THEN "ended" ELSE "following",
                                     Append(client[c].got, Len(after.frames)))
                     ELSE client[c]
    BY <1>4 DEF AppendFrame
  <2> HIDE DEF after
  <2>3. /\ Len(tasks[t].frames) \in Nat
        /\ Len(after.frames) = Len(tasks[t].frames) + 1
    BY <1>1, <2>1 DEF Entry
  <2>4. CASE c \in FollowersOf(t)
    <3>1. /\ client[c].state = "following" /\ client[c].task = t
          /\ client[c].got = UpTo(Len(tasks[t].frames)) /\ c \in tasks[t].subscribers
      BY <1>2, <2>4 DEF FollowersOf, Followed
    <3>2. Append(client[c].got, Len(after.frames)) = UpTo(Len(after.frames))
      BY <2>3, <3>1, UpToAppend
    <3>3. /\ client'[c].task = t /\ client'[c].got = UpTo(Len(after.frames))
          /\ client'[c].state = IF Terminal(after.status) THEN "ended" ELSE "following"
      BY <2>2, <2>4, <3>2 DEF Connection
    <3>4. t # None /\ request'[t] # "none"
      BY <1>2, <3>1, ClientTask
    <3> QED
      BY <2>1, <3>1, <3>3, <3>4 DEF Followed
  <2>5. CASE c \notin FollowersOf(t) /\ client[c].task = t
    <3>1. client'[c] = client[c] /\ client[c].state # "following"
      BY <2>2, <2>5 DEF FollowersOf
    <3>2. t # None
      BY ClientTask
    <3>3. client[c].state = "away" =>
             \E n \in 0 .. Len(after.frames) : client[c].got = UpTo(n)
      <4>1. 0 .. Len(tasks[t].frames) \subseteq 0 .. Len(after.frames)
        BY <2>3
      <4> QED
        BY <1>2, <2>5, <3>2, <4>1 DEF Followed
    <3> QED
      BY <1>2, <2>1, <2>5, <3>1, <3>2, <3>3 DEF Followed
  <2>6. CASE client[c].task # t
    <3>1. client'[c] = client[c]
      BY <2>2, <2>6 DEF FollowersOf
    <3>2. client[c].task # None => tasks'[client[c].task] = tasks[client[c].task]
      BY <1>2, <2>1, <2>6
    <3> QED
      BY <1>2, <3>1, <3>2, StillFollowed DEF Unnoticed
  <2> QED
    BY <2>4, <2>5, <2>6
<1> QED
  BY <1>3, <1>4

\* Steps that no client notices.
LEMMA UnnoticedFollowed ==
    ASSUME TypeOK, AllFollowed, client' = client,
           \A t \in Tasks : request[t] # "none" => request'[t] # "none",
           \A t \in Tasks, c \in Clients : request[t] # "none" => Unnoticed(t, c)
    PROVE  AllFollowed'
<1> SUFFICES ASSUME NEW c \in Clients
             PROVE  Followed(c)'
  BY DEF AllFollowed
<1>1. /\ Followed(c)
      /\ client[c].task # None =>
            client[c].task \in Tasks /\ request[client[c].task] # "none"
  BY ClientTask DEF AllFollowed, Followed
<1> QED
  BY <1>1, StillFollowed

LEMMA CreateFollowed ==
    ASSUME TypeOK, AllFollowed, NEW t \in Tasks, Create(t)
    PROVE  AllFollowed'
<1> DEFINE entries == [tasks EXCEPT ![t] = NewTask]
<1>1. entries \in [Tasks -> Entry]
  BY FirstEntry DEF TypeOK
<1>2. /\ client' = client /\ request[t] = "none"
      /\ \A u \in Tasks : request[u] # "none" => request'[u] # "none"
  BY DEF Create, TypeOK
<1>3. \A u \in Tasks : \/ tasks'[u] = entries[u]
                       \/ /\ Terminal(entries[u].status)
                          /\ tasks'[u] = [entries[u] EXCEPT !.live = FALSE]
  BY <1>1, EvictStep DEF Create, TypeOK
<1>4. ASSUME NEW u \in Tasks, NEW c \in Clients, request[u] # "none"
      PROVE  Unnoticed(u, c)
  <2>1. entries[u] = tasks[u] /\ tasks[u] \in Entry
    BY <1>2, <1>4 DEF TypeOK
  <2> QED
    BY <1>3, <2>1 DEF Unnoticed, Entry
<1> QED
  BY <1>2, <1>4, UnnoticedFollowed

LEMMA CreateOtherFollowed ==
    ASSUME TypeOK, AllFollowed, CreateOther
    PROVE  AllFollowed'
<1>1. others + 1 \in 0 .. MaxOthers /\ tasks \in [Tasks -> Entry]
  BY DEF CreateOther, TypeOK
<1>2. client' = client /\ request' = request
  BY DEF CreateOther
<1>3. \A u \in Tasks : \/ tasks'[u] = tasks[u]
                       \/ /\ Terminal(tasks[u].status)
                          /\ tasks'[u] = [tasks[u] EXCEPT !.live = FALSE]
  BY <1>1, EvictStep DEF CreateOther
<1>4. \A u \in Tasks, c \in Clients : Unnoticed(u, c)
  BY <1>1, <1>3 DEF Unnoticed, Entry
<1> QED
  BY <1>2, <1>4, UnnoticedFollowed

\* The steps of a request.
LEMMA RequestFollowed ==
    ASSUME TypeOK, AllFollowed, NEW t \in Tasks,
           Receive(t) \/ Progress(t) \/ Answer(t) \/ Fail(t) \/ Cancel(t)
    PROVE  AllFollowed'
<1>1. request \in [Tasks -> {"none", "body", "run", "drain", "done"}]
  BY DEF TypeOK
<1>2. \A u \in Tasks : request[u] # "none" => request'[u] # "none"
  BY <1>1 DEF Receive, Progress, Answer, Fail, Complete, Cancel
<1>3. CASE UNCHANGED <<tasks, client>>
  BY <1>2, <1>3, UnnoticedFollowed DEF Unnoticed
<1>4. CASE /\ tasks[t].live
           /\ \E type \in FrameTypes, task \in {tasks[t], MarkRunning(tasks[t])} :
                 AppendFrame(t, task, type)
  BY <1>2, <1>4, AppendFollowed
<1>5. ASSUME NEW type \in FrameTypes, Complete(t, type)
      PROVE  \/ UNCHANGED <<tasks, client>>
             \/ tasks[t].live /\ AppendFrame(t, tasks[t], type)
  BY <1>5 DEF Complete
<1>6. CASE Answer(t) \/ Fail(t)
  BY <1>3, <1>4, <1>5, <1>6 DEF Answer, Fail, FrameTypes
<1>7. CASE Receive(t)
  BY <1>3, <1>4, <1>7 DEF Receive, FrameTypes
<1>8. CASE Progress(t) \/ Cancel(t)
  BY <1>4, <1>8 DEF Progress, Cancel, FrameTypes
<1> QED
  BY <1>6, <1>7, <1>8

\* The stream of the request goes, a frame is stored, or somebody asks.
LEMMA AsideFollowed ==
    ASSUME TypeOK, AllFollowed, NEW t \in Tasks,
           Drained(t) \/ Close(t) \/ Persist(t) \/ Ask(t)
    PROVE  AllFollowed'
<1>1. /\ request \in [Tasks -> {"none", "body", "run", "drain", "done"}]
      /\ tasks \in [Tasks -> Entry]
  BY DEF TypeOK
<1>2. /\ client' = client
      /\ \A u \in Tasks : request[u] # "none" => request'[u] # "none"
  BY <1>1 DEF Drained, Close, Persist, Ask
<1>3. \/ tasks' = tasks
      \/ tasks' = [tasks EXCEPT ![t].subscribers = @ \ {Stream}]
      \/ tasks' = [tasks EXCEPT ![t] = Persisted(@)]
      \/ tasks' = [tasks EXCEPT ![t] = NotPersisted(@)]
  BY DEF Drained, Close, Persist, Ask
<1>4. ASSUME NEW u \in Tasks, NEW c \in Clients
      PROVE  Unnoticed(u, c)
  <2>1. \A task \in Entry :
           /\ \A after \in {Persisted(task), NotPersisted(task)} :
                 /\ after.live = task.live /\ after.frames = task.frames
                 /\ after.status = task.status /\ after.subscribers = task.subscribers
           /\ LET after == [task EXCEPT !.subscribers = @ \ {Stream}] IN
                 /\ after.live = task.live /\ after.frames = task.frames
                 /\ after.status = task.status
                 /\ c \in task.subscribers => c \in after.subscribers
    BY DEF Persisted, NotPersisted, Entry
  <2>2. tasks'[u] \in {tasks[u], Persisted(tasks[u]), NotPersisted(tasks[u]),
                       [tasks[u] EXCEPT !.subscribers = @ \ {Stream}]}
    BY <1>1, <1>3
  <2>3. /\ tasks'[u].live = tasks[u].live /\ tasks'[u].frames = tasks[u].frames
        /\ tasks'[u].status = tasks[u].status
        /\ c \in tasks[u].subscribers => c \in tasks'[u].subscribers
    <3>1. tasks[u] \in Entry
      BY <1>1
    <3>2. CASE tasks'[u] \in {Persisted(tasks[u]), NotPersisted(tasks[u])}
      BY <2>1, <3>1, <3>2
    <3>3. CASE tasks'[u] = [tasks[u] EXCEPT !.subscribers = @ \ {Stream}]
      BY <2>1, <3>1, <3>3
    <3>4. CASE tasks'[u] = tasks[u]
      BY <3>4
    <3> QED
      BY <2>2, <3>2, <3>3, <3>4
  <2> QED
    BY <2>3 DEF Unnoticed
<1> QED
  BY <1>2, <1>4, UnnoticedFollowed

LEMMA DisconnectFollowed ==
    ASSUME TypeOK, AllFollowed, NEW d \in Clients, Disconnect(d)
    PROVE  AllFollowed'
<1> DEFINE t == client[d].task
<1>1. /\ t \in Tasks /\ t # None /\ tasks[t] \in Entry /\ Followed(d)
      /\ client[d].state = "following" /\ Len(tasks[t].frames) \in Nat
  BY ClientTask DEF Disconnect, TypeOK, AllFollowed, Entry
<1>2. /\ request' = request
      /\ client'[d] = Broken(d) /\ \A c \in Clients : c # d => client'[c] = client[c]
      /\ tasks' = [tasks EXCEPT ![t].subscribers = @ \ {d}]
  BY DEF Disconnect, TypeOK
<1>3. tasks'[t].frames = tasks[t].frames
  BY <1>1, <1>2 DEF TypeOK, Entry
<1>4. Followed(d)'
  <2>1. /\ client'[d].task = t /\ client'[d].state = "away"
        /\ client'[d].got = client[d].got
    BY <1>2 DEF Broken, Connection
  <2>2. request[t] # "none" /\ client[d].got = UpTo(Len(tasks[t].frames))
    BY <1>1 DEF Followed
  <2>3. Len(tasks[t].frames) \in 0 .. Len(tasks'[t].frames)
    BY <1>1, <1>3
  <2> HIDE DEF t
  <2> QED
    BY <1>1, <1>2, <2>1, <2>2, <2>3 DEF Followed
<1>5. ASSUME NEW c \in Clients, c # d
      PROVE  Followed(c)'
  <2>1. \A u \in Tasks : Unnoticed(u, c)
    BY <1>1, <1>2, <1>5 DEF Unnoticed, TypeOK, Entry
  <2>2. Followed(c) /\ client'[c] = client[c]
    BY <1>2, <1>5 DEF AllFollowed
  <2>3. client[c].task # None => client[c].task \in Tasks /\ request'[client[c].task] # "none"
    BY <1>2, <2>2, ClientTask DEF Followed
  <2> QED
    BY <2>1, <2>2, <2>3, StillFollowed
<1> QED
  BY <1>4, <1>5 DEF AllFollowed

\* Who reconnects to a task that is not over is sent what it has not got.
LEMMA ReconnectFollowed ==
    ASSUME TypeOK, AllFollowed, NEW d \in Clients, NEW t \in Tasks, Coherent(t), Reconnect(d, t)
    PROVE  AllFollowed'
<1> DEFINE follows == Get(t).status \in {"accepted", "running"}
           got == client[d].got \o Replay(t, LatestSequence(d))
<1>1. /\ t # None /\ tasks[t] \in Entry /\ Followed(d)
      /\ Len(tasks[t].frames) \in Nat
      /\ client[d].state = "away" /\ client[d].task \in {t, None}
      /\ Get(t) # None /\ request' = request
  BY ClientTask DEF Reconnect, TypeOK, AllFollowed, Entry
<1>2. /\ client'[d] = Connection(t, IF follows THEN "following" ELSE "ended", got)
      /\ \A c \in Clients : c # d => client'[c] = client[c]
      /\ tasks' = IF follows THEN [tasks EXCEPT ![t].subscribers = @ \cup {d}] ELSE tasks
  BY DEF Reconnect, TypeOK
<1>3. request[t] # "none"
  BY <1>1 DEF Get, Coherent, Standing, Recorded
<1>4. follows => tasks[t].live /\ ~Terminal(tasks[t].status)
  <2>1. CASE tasks[t].live
    BY <2>1 DEF Get, Snapshot, Terminal, Completions
  <2>2. CASE ~tasks[t].live
    BY <1>1, <2>2 DEF Get, StatusOf
  <2> QED
    BY <2>1, <2>2
<1>5. ASSUME follows
      PROVE  got = UpTo(Len(tasks[t].frames))
  <2>1. PICK n \in 0 .. Len(tasks[t].frames) : client[d].got = UpTo(n)
    <3>1. CASE client[d].task = t
      BY <1>1, <1>4, <1>5, <3>1 DEF Followed
    <3>2. CASE client[d].task = None
      <4>1. client[d].got = UpTo(0) /\ 0 \in 0 .. Len(tasks[t].frames)
        BY <1>1, <3>2, UpToNothing DEF Followed
      <4> QED
        BY <4>1
    <3> QED
      BY <1>1, <3>1, <3>2
  <2>2. LatestSequence(d) = n
    <3>1. CASE n = 0
      BY <2>1, <3>1, UpToNothing DEF LatestSequence
    <3>2. CASE n # 0
      <4>1. Len(client[d].got) = n /\ client[d].got[n] = n
        BY <2>1, <3>2, UpToIsSeq
      <4>2. client[d].got # <<>>
        BY <3>2, <4>1
      <4> QED
        BY <4>1, <4>2 DEF LatestSequence, Last
    <3> QED
      BY <3>1, <3>2
  <2>3. Replay(t, n) = [i \in 1 .. Len(tasks[t].frames) + 1 - (n + 1) |-> (n + 1) + i - 1]
    BY <1>4, <1>5 DEF Replay, FramesFrom
  <2> QED
    BY <1>1, <2>1, <2>2, <2>3, UpToConcat
<1> HIDE DEF got
<1>6. Followed(d)'
  <2>1. CASE follows
    <3>1. /\ client'[d].task = t /\ client'[d].state = "following" /\ client'[d].got = got
      BY <1>2, <2>1 DEF Connection
    <3>2. /\ tasks'[t].live /\ tasks'[t].status = tasks[t].status
          /\ tasks'[t].frames = tasks[t].frames /\ d \in tasks'[t].subscribers
      BY <1>1, <1>2, <1>4, <2>1 DEF TypeOK, Entry
    <3> QED
      BY <1>1, <1>3, <1>4, <1>5, <2>1, <3>1, <3>2 DEF Followed
  <2>2. CASE ~follows
    <3>1. client'[d].task = t /\ client'[d].state = "ended"
      BY <1>2, <2>2 DEF Connection
    <3> QED
      BY <1>1, <1>3, <3>1 DEF Followed
  <2> QED
    BY <2>1, <2>2
<1>7. ASSUME NEW c \in Clients, c # d
      PROVE  Followed(c)'
  <2>1. \A u \in Tasks : Unnoticed(u, c)
    BY <1>2 DEF Unnoticed, TypeOK, Entry
  <2>2. Followed(c) /\ client'[c] = client[c]
    BY <1>2, <1>7 DEF AllFollowed
  <2>3. client[c].task # None => client[c].task \in Tasks /\ request'[client[c].task] # "none"
    BY <1>1, <2>2, ClientTask DEF Followed
  <2> QED
    BY <2>1, <2>2, <2>3, StillFollowed
<1> QED
  BY <1>6, <1>7 DEF AllFollowed

\* A restart breaks every connection and leaves no task to follow.
LEMMA RestartFollowed ==
    ASSUME TypeOK, AllFollowed, Restart
    PROVE  AllFollowed'
<1> SUFFICES ASSUME NEW c \in Clients
             PROVE  Followed(c)'
  BY DEF AllFollowed
<1>1. /\ Followed(c)
      /\ client[c].task # None => client[c].task \in Tasks /\ request[client[c].task] # "none"
      /\ client[c].state = "following" => client[c].task # None
  BY ClientTask DEF AllFollowed, Followed
<1>2. /\ client'[c].task = client[c].task /\ client'[c].got = client[c].got
      /\ client'[c].state = IF client[c].state = "following" THEN "away" ELSE client[c].state
  BY DEF Restart, Broken, Connection
<1>3. \A t \in Tasks : ~tasks'[t].live /\ (request[t] # "none" => request'[t] # "none")
  BY DEF Restart, NoTask
<1> QED
  BY <1>1, <1>2, <1>3 DEF Followed

LEMMA FollowedStep ==
    ASSUME TypeOK, \A t \in Tasks : Coherent(t), AllFollowed, [Next]_vars
    PROVE  AllFollowed'
<1>1. ASSUME NEW t \in Tasks, Create(t)
      PROVE  AllFollowed'
  BY <1>1, CreateFollowed
<1>2. ASSUME NEW t \in Tasks,
             Receive(t) \/ Progress(t) \/ Answer(t) \/ Fail(t) \/ Cancel(t)
      PROVE  AllFollowed'
  BY <1>2, RequestFollowed
<1>3. ASSUME NEW t \in Tasks, Drained(t) \/ Close(t) \/ Persist(t) \/ Ask(t)
      PROVE  AllFollowed'
  BY <1>3, AsideFollowed
<1>4. ASSUME NEW c \in Clients, Disconnect(c)
      PROVE  AllFollowed'
  BY <1>4, DisconnectFollowed
<1>5. ASSUME NEW c \in Clients, NEW t \in Tasks, Reconnect(c, t)
      PROVE  AllFollowed'
  BY <1>5, ReconnectFollowed
<1>6. CASE CreateOther \/ Restart
  BY <1>6, CreateOtherFollowed, RestartFollowed
<1>7. CASE UNCHANGED vars
  BY <1>7, UnnoticedFollowed DEF vars, Unnoticed
<1> QED
  BY <1>1, <1>2, <1>3, <1>4, <1>5, <1>6, <1>7 DEF Next

\* A client that follows a task (streamExistingTurnTask) has each of its frames
\* once and in order, however often it lost its connection and whatever else
\* the registry did, and is subscribed to the last one, which is to come.
THEOREM NoFrameIsMissed == Spec => []FollowersAreCurrent
<1>1. Init => AllFollowed
  <2> SUFFICES ASSUME Init, NEW c \in Clients
               PROVE  Followed(c)
    BY DEF AllFollowed
  <2>1. client[c] = Connection(None, "away", <<>>)
    BY DEF Init
  <2> QED
    BY <2>1 DEF Followed, Connection
<1>2. TypeOK /\ (\A t \in Tasks : Coherent(t)) /\ AllFollowed /\ [Next]_vars => AllFollowed'
  BY FollowedStep
<1>3. AllFollowed => FollowersAreCurrent
  BY DEF AllFollowed, Followed, FollowersAreCurrent, UpTo
<1> QED
  BY <1>1, <1>2, <1>3, Coherence, Typing, PTL DEF Spec

===============================================================================
