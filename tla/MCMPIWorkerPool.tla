-------------------------- MODULE MCMPIWorkerPool ---------------------------
(***************************************************************************)
(* The threads of the processes in the runs of MPIWorkerPool.              *)
(***************************************************************************)
EXTENDS MPIWorkerPool

Threads(cpu, opencl) ==
    [p \in Process |-> [k \in Kind |->
        IF p \in (IF k = "cpu" THEN cpu ELSE opencl) THEN 1 ELSE 0]]

\* Every process has a CPU thread, and the first worker one for its GPU.
MCOneGPU == Threads(Process, {1})

\* Every process has a CPU thread.
MCNoGPU == Threads(Process, {})

\* No write has an error, or that of the first store of the worker.
MCNoFault == {}
MCOneFault == {<<1, 2>>}
=============================================================================
