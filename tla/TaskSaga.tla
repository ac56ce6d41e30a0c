------------------------------- MODULE TaskSaga -------------------------------
(***************************************************************************)
(* What an executive episode promises of its tasks, whatever the commands, *)
(* gates and receipts on the way: a saga.  A task is declared over tasks   *)
(* already declared, runs once and only after all of them are done, and is *)
(* compensated at most once and only after it failed.                      *)
(***************************************************************************)
EXTENDS Integers

CONSTANT Tasks

VARIABLES
    declared,   \* the tasks declared so far
    needs,      \* task -> the tasks it needs done first
    phase       \* task -> how far it has come

vars == <<declared, needs, phase>>

Init ==
    /\ declared = {}
    /\ needs = [t \in Tasks |-> {}]
    /\ phase = [t \in Tasks |-> "idle"]

Declare(t, ds) ==
    /\ t \notin declared
    /\ ds \subseteq declared
    /\ declared' = declared \cup {t}
    /\ needs' = [needs EXCEPT ![t] = ds]
    /\ UNCHANGED phase

Move(t, from, to) ==
    /\ t \in declared
    /\ phase[t] = from
    /\ phase' = [phase EXCEPT ![t] = to]
    /\ UNCHANGED <<declared, needs>>

Start(t) ==
    /\ \A d \in needs[t] : phase[d] = "done"
    /\ Move(t, "idle", "executing")

Finish(t) == Move(t, "executing", "done") \/ Move(t, "executing", "failed")

Compensate(t) == Move(t, "failed", "compensating")

Compensated(t) == \/ Move(t, "compensating", "compensated")
                  \/ Move(t, "compensating", "uncompensated")

Next ==
    \E t \in Tasks :
        \/ \E ds \in SUBSET Tasks : Declare(t, ds)
        \/ Start(t)
        \/ Finish(t)
        \/ Compensate(t)
        \/ Compensated(t)

Spec == Init /\ [][Next]_vars
===============================================================================
