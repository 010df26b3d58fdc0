---------------------------- MODULE EksResources ----------------------------
(***************************************************************************)
(* The CPU and memory of a run's jobs (execution/adapter/eks_adapter.go),  *)
(* from its definition, its request and the usage of earlier runs, and     *)
(* what the engine writes back to the run and its next attempt starts      *)
(* from (eks_engine.go, getPodName and FetchUpdateStatus).  A column that  *)
(* is not set counts as 0, which the code treats alike.                    *)
(***************************************************************************)
EXTENDS Integers

CONSTANTS
  Cpus, Mems, Gpus,  \* what definitions and requests ask for
  Estimates,         \* what EstimateRunResources may return
  MaxAttempts        \* bound on the attempts of the run

ASSUME ResourcesAssumption ==
  /\ Cpus \subseteq Int /\ Mems \subseteq Int /\ Gpus \subseteq Int
  /\ Estimates \subseteq [cpu : Int, mem : Int]
  /\ MaxAttempts \in Nat

MinCPU == 256
MaxCPU == 32000
MinMem == 512
MaxMem == 250000

VARIABLES
  exe,      \* the definition's resources, and whether they adapt
  run,      \* the run's columns
  job,      \* the requests and limits of its latest job
  attempts  \* how many jobs it had

vars == <<exe, run, job, attempts>>

Job == [cpuRequest : Int, cpuLimit : Int, memRequest : Int, memLimit : Int]

TypeOK ==
  /\ exe \in [cpu : Int, mem : Int, gpu : Int, adaptive : BOOLEAN]
  /\ run \in [cpu : Int, mem : Int, gpu : Int]
  /\ job \in Job
  /\ attempts \in 0..MaxAttempts

NoJob == [cpuRequest |-> 0, cpuLimit |-> 0, memRequest |-> 0, memLimit |-> 0]

Init ==
  /\ exe \in [cpu : Cpus, mem : Mems, gpu : Gpus, adaptive : BOOLEAN]
  /\ run \in [cpu : Cpus, mem : Mems, gpu : Gpus]
  /\ job = NoJob /\ attempts = 0

AtLeast(a, b) == IF a < b THEN b ELSE a
Within(n, low, high) == IF n < low THEN low ELSE IF n > high THEN high ELSE n

MemDefault == IF run.mem # 0 THEN run.mem ELSE IF exe.mem # 0 THEN exe.mem ELSE MinMem
CpuAsked   == IF run.cpu # 0 THEN run.cpu ELSE IF exe.cpu # 0 THEN exe.cpu ELSE MinCPU

\* A large job without a GPU, as nodes with a fixed ratio of both would hold.
LargeJob == MemDefault >= 36864 /\ MemDefault < 131072 /\ exe.gpu = 0

\* A bug: the CPU of a large job is added to what it asks for.
CpuAdded == IF LargeJob THEN CpuAsked + MemDefault \div 8 ELSE CpuAsked

\* It gets a CPU share for its memory.
CpuDefault == IF LargeJob THEN AtLeast(CpuAsked, MemDefault \div 8) ELSE CpuAsked

\* A bug: limits are not raised to the estimate the requests come from.
LimitsIgnoreRequests(want) ==
  [cpuRequest |-> Within(want.cpu, MinCPU, MaxCPU),
   cpuLimit   |-> Within(CpuDefault, MinCPU, MaxCPU),
   memRequest |-> Within(want.mem, MinMem, MaxMem),
   memLimit   |-> Within(MemDefault, MinMem, MaxMem)]

\* The requests are what is wanted, the limits the defaults if these are
\* larger, and both are brought within the bounds.
Bounded(want) ==
  [cpuRequest |-> Within(want.cpu, MinCPU, MaxCPU),
   cpuLimit   |-> Within(AtLeast(CpuDefault, want.cpu), MinCPU, MaxCPU),
   memRequest |-> Within(want.mem, MinMem, MaxMem),
   memLimit   |-> Within(AtLeast(MemDefault, want.mem), MinMem, MaxMem)]

\* A run with GPUs gets its share of a p3 instance, out of bounds or not.
OfGpus(n) ==
  [cpuRequest |-> n * 6000, cpuLimit |-> n * 7500,
   memRequest |-> n * 50000, memLimit |-> n * 60000]

Resources(want) == IF run.gpu > 0 THEN OfGpus(run.gpu) ELSE Bounded(want)

Wanted ==
  {[cpu |-> CpuDefault, mem |-> MemDefault]} \union (IF exe.adaptive THEN Estimates ELSE {})

\* The run is executed.  The estimate may fail, and counts only for adaptive
\* definitions.
Execute ==
  /\ attempts < MaxAttempts /\ attempts' = attempts + 1
  /\ \E want \in Wanted : job' = Resources(want)
  /\ UNCHANGED <<exe, run>>

\* The engine looks at the pod: getPodName saves the memory request and
\* FetchUpdateStatus, in the place of the memory limit, the limit.
SaveResources ==
  /\ attempts > 0
  /\ \E mem \in {job.memRequest, job.memLimit} :
       run' = [run EXCEPT !.cpu = job.cpuRequest, !.mem = mem]
  /\ UNCHANGED <<exe, job, attempts>>

Next == Execute \/ SaveResources

Spec == Init /\ [][Next]_vars

-----------------------------------------------------------------------------
\* Kubernetes accepts the job: no request exceeds its limit or is below the
\* least the engine gives, and without GPUs no limit exceeds the largest node,
\* whatever definitions, requests and estimates ask for.
JobsFit ==
  attempts > 0 =>
    /\ job.cpuRequest >= MinCPU /\ job.cpuRequest <= job.cpuLimit
    /\ job.memRequest >= MinMem /\ job.memRequest <= job.memLimit
    /\ run.gpu <= 0 => job.cpuLimit <= MaxCPU /\ job.memLimit <= MaxMem

\* Without adaptive allocation, an attempt gets what the one before it got,
\* although it starts from columns the engine wrote back in between.
RetriesGetTheSame == [][attempts > 0 /\ ~exe.adaptive => job' = job]_vars
=============================================================================
