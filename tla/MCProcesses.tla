----------------------------- MODULE MCProcesses -----------------------------
(* Processes on a small instance. *)
EXTENDS Processes

Limit(cur, max) == [cur |-> cur, max |-> max]

SmallLimits == {<<"RLIMIT_CPU", Limit(0, 0)>>, <<"RLIMIT_NICE", Limit(40, 40)>>,
                <<"RLIMIT_NPROC", Limit(1, 1)>>, <<"RLIMIT_NOFILE", Limit(20, 20)>>}
SmallPriorities == {MIN_NICE - 1, MAX_NICE + 1}
StartLimits == [r \in Resources |-> IF r = "RLIMIT_NPROC" THEN Limit(20, 20) ELSE Limit(1, 20)]
=============================================================================
