----------------------------- MODULE MCLifecycle ------------------------------
(***************************************************************************)
(* The parallel jobs that TLC runs from shmem_init to the end.             *)
(***************************************************************************)
EXTENDS Lifecycle, MCComm

(* Two hosts with blocking and non-blocking puts in both directions,       *)
(* nobody finalizes; two PEs of one host that finalize with jobs left in   *)
(* the worker's queue; two hosts that finalize after blocking puts.        *)
WholeJobs ==
  {ParallelJob(<<h1, h2>>,
     << store(x) \o put_nbi(y, x, 1) \o put(x, x, 1) \o shmem_sync_all,
        put(x, y, 0) \o shmem_sync_all >>),
   ParallelJob(<<h1, h1>>,
     << store(x) \o put_nbi(y, x, 1) \o get(y, x, 1) \o shmem_finalize,
        get_nbi(x, x, 0) \o put_nbi(x, y, 0) \o shmem_finalize >>),
   ParallelJob(<<h1, h2>>,
     << store(x) \o put(x, x, 1) \o shmem_finalize,
        get(x, x, 0) \o put(y, y, 0) \o shmem_finalize >>)}
=============================================================================
