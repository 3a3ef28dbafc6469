------------------------------- MODULE MCComm --------------------------------
(***************************************************************************)
(* The parallel jobs that TLC runs through module Comm.  x and y are two   *)
(* user variables; each job places its PEs on the hosts h1, h2, h3.        *)
(***************************************************************************)
EXTENDS Comm

CONSTANTS h1, h2, h3

x == N
y == N + 1

store(a)           == << [Do("store") EXCEPT !.dest = a] >>
put(a, s, q)       == << [op |-> "put",     dest |-> a, src |-> s, pe |-> q] >>
put_nbi(a, s, q)   == << [op |-> "put_nbi", dest |-> a, src |-> s, pe |-> q] >>
get(a, s, q)       == << [op |-> "get",     dest |-> a, src |-> s, pe |-> q] >>
get_nbi(a, s, q)   == << [op |-> "get_nbi", dest |-> a, src |-> s, pe |-> q] >>

ParallelJob(hosts, progs) ==
  [host |-> [p \in PE |-> hosts[p + 1]], prog |-> [p \in PE |-> progs[p + 1]]]

(* Three PEs on three hosts, or with two of them sharing one: puts to and  *)
(* from the root around two barriers.                                      *)
RootJobs ==
  {ParallelJob(hosts, << store(x) \o put(x, x, 2) \o shmem_barrier_all \o shmem_barrier_all,
                 shmem_barrier_all \o put(y, x, 0) \o shmem_barrier_all,
                 store(y) \o put(y, y, 0) \o shmem_barrier_all \o shmem_barrier_all >>) :
     hosts \in {<<h1, h2, h3>>, <<h1, h1, h2>>, <<h1, h2, h2>>, <<h1, h2, h1>>}}

(* With room for two packets in a socket these jobs are light.             *)
ASSUME RootJobsLight == SockCap >= 6 => \A j \in RootJobs : Light(j)

(* Two hosts, two barriers with a put before each; and two hosts that      *)
(* finalize after a get and non-blocking calls.                            *)
SplitJobs ==
  {ParallelJob(<<h1, h2>>, << store(x) \o put(x, x, 1) \o shmem_barrier_all \o shmem_barrier_all,
                      put(y, y, 0) \o shmem_barrier_all \o shmem_barrier_all >>),
   ParallelJob(<<h1, h2>>, << store(x) \o put_nbi(x, x, 1) \o shmem_finalize,
                      get(y, x, 0) \o get_nbi(y, x, 0) \o shmem_finalize >>)}

(* A put between two PEs that are not the root, then shmem_sync_all.       *)
SyncJobs ==
  {ParallelJob(<<h1, h2, h3>>, << shmem_sync_all,
                          store(x) \o put(x, x, 2) \o shmem_sync_all,
                          shmem_sync_all >>)}

(* Two hosts, and all that is called is shmem_finalize.                    *)
FinalizeJobs == {ParallelJob(<<h1, h2>>, << shmem_finalize, shmem_finalize >>)}

(* Three puts in a row.                                                    *)
BurstJobs ==
  {ParallelJob(<<h1, h2>>, << store(x) \o put(x, x, 1) \o put(y, x, 1) \o put(y, y, 1),
                      << >> >>)}
=============================================================================
