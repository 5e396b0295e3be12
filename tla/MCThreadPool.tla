---------------------------- MODULE MCThreadPool ----------------------------
(* Small pools for TLC.  Which instance is in the .cfg files.              *)
EXTENDS ThreadPool, TLC

CONSTANTS p1, p2

OneProducer == {p1}
TwoProducers == {p1, p2}

\* What was left in the memory of wait_exit_thr_num.
Zeroed == {0}
ZeroOrOne == {0, 1}

\* What was left in the memory of task_queue.
Nulls == {0}
NullsOrJunk == {0, -1}

Symmetry == Permutations(Producers)

=============================================================================
