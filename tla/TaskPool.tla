------------------------------ MODULE TaskPool ------------------------------
(***************************************************************************)
(* What those who give tasks to a pool may expect of it, however many      *)
(* threads it has: tasks are begun in the order in which they were         *)
(* accepted, each once; a pool that ends begins none of those it drops,    *)
(* closes when none is under way, and, if it drains, drops only what was   *)
(* accepted after it began to end.  It may be opened again.                *)
(***************************************************************************)
EXTENDS Integers, Sequences

CONSTANT MaxTask    \* bound: the tasks that are accepted

VARIABLES
    phase,      \* "Ending" still accepts tasks, "Shut" does not
    policy,     \* how the pool ends, or ended last
    nextTask,   \* the tasks accepted so far are 1 .. nextTask - 1
    late,       \* those accepted after the pool began to end
    waiting,    \* those not begun, the oldest first
    active,     \* those under way
    done,       \* those that ran
    dropped     \* those that will not run

vars == <<phase, policy, nextTask, late, waiting, active, done, dropped>>

Waiting == {waiting[i] : i \in 1 .. Len(waiting)}

Init ==
    /\ phase = "Closed" /\ policy = "Stop"
    /\ nextTask = 1 /\ late = {}
    /\ waiting = <<>>
    /\ active = {} /\ done = {} /\ dropped = {}

Open ==
    /\ phase = "Closed"
    /\ phase' = "Open"
    /\ UNCHANGED <<policy, nextTask, late, waiting, active, done, dropped>>

Accept ==
    /\ phase \in {"Open", "Ending"}
    /\ nextTask <= MaxTask
    /\ nextTask' = nextTask + 1
    /\ late' = IF phase = "Ending" THEN late \cup {nextTask} ELSE late
    /\ waiting' = Append(waiting, nextTask)
    /\ UNCHANGED <<phase, policy, active, done, dropped>>

Begin ==
    /\ phase # "Closed"
    /\ waiting # <<>>
    /\ waiting' = Tail(waiting)
    /\ active' = active \cup {Head(waiting)}
    /\ UNCHANGED <<phase, policy, nextTask, late, done, dropped>>

Finish(task) ==
    /\ task \in active
    /\ active' = active \ {task}
    /\ done' = done \cup {task}
    /\ UNCHANGED <<phase, policy, nextTask, late, waiting, dropped>>

End(by) ==
    /\ phase = "Open"
    /\ phase' = "Ending" /\ policy' = by
    /\ UNCHANGED <<nextTask, late, waiting, active, done, dropped>>

Shut ==
    /\ phase = "Ending"
    /\ phase' = "Shut"
    /\ UNCHANGED <<policy, nextTask, late, waiting, active, done, dropped>>

Close ==
    /\ phase = "Shut"
    /\ active = {}
    /\ policy = "StopAfterDrain" => Waiting \subseteq late
    /\ phase' = "Closed"
    /\ dropped' = dropped \cup Waiting
    /\ waiting' = <<>>
    /\ UNCHANGED <<policy, nextTask, late, active, done>>

Next ==
    \/ Open \/ Accept \/ Begin
    \/ \E task \in 1 .. MaxTask : Finish(task)
    \/ \E by \in {"Stop", "StopAfterDrain"} : End(by)
    \/ Shut \/ Close

Spec == Init /\ [][Next]_vars
=============================================================================
