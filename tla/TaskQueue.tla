------------------------------ MODULE TaskQueue ------------------------------
(***************************************************************************)
(* What a pool of threads promises to whoever submits tasks: a bounded     *)
(* first-in first-out queue.  A task is started at most once, in the       *)
(* order of submission, and only after it was submitted.                   *)
(***************************************************************************)
EXTENDS Naturals, Sequences

CONSTANTS Tasks, Capacity

VARIABLES queue, running, done

vars == <<queue, running, done>>

Known == {queue[i] : i \in DOMAIN queue} \cup running \cup done

Init == queue = <<>> /\ running = {} /\ done = {}

Submit(t) ==
    /\ t \notin Known
    /\ Len(queue) < Capacity
    /\ queue' = Append(queue, t)
    /\ UNCHANGED <<running, done>>

Start ==
    /\ queue # <<>>
    /\ running' = running \cup {Head(queue)}
    /\ queue' = Tail(queue)
    /\ UNCHANGED done

Finish(t) ==
    /\ t \in running
    /\ running' = running \ {t}
    /\ done' = done \cup {t}
    /\ UNCHANGED queue

Next == Start \/ \E t \in Tasks : Submit(t) \/ Finish(t)

Spec == Init /\ [][Next]_vars

=============================================================================
