------------------------- MODULE EksResourcesProofs -------------------------
(***************************************************************************)
(* Every job the adapter makes can be scheduled, for all integers a        *)
(* definition, a request or an estimate may hold.                          *)
(***************************************************************************)
EXTENDS EksResources, TLAPS

\* Within brings a number between the bounds and keeps the order of two.
LEMMA WithinBounds ==
  ASSUME NEW low \in Int, NEW high \in Int, low <= high, NEW a \in Int, NEW b \in Int
  PROVE  /\ Within(a, low, high) \in low..high
         /\ a <= b => Within(a, low, high) <= Within(b, low, high)
BY DEF Within

\* The defaults are integers.
LEMMA DefaultsType ==
  ASSUME TypeOK PROVE CpuDefault \in Int /\ MemDefault \in Int
<1>1. MemDefault \in Int /\ CpuAsked \in Int
  BY DEF TypeOK, MemDefault, CpuAsked, MinCPU, MinMem
<1>2. \A n \in Int : n \div 8 \in Int
  OBVIOUS
<1>3. MemDefault \div 8 \in Int
  BY <1>1, <1>2
<1> HIDE DEF MemDefault, CpuAsked
<1> QED  BY <1>1, <1>3 DEF CpuDefault, AtLeast

\* The resources of a job that asks for no GPU.
LEMMA BoundedFits ==
  ASSUME TypeOK, NEW want \in [cpu : Int, mem : Int]
  PROVE  /\ Bounded(want) \in Job
         /\ MinCPU <= Bounded(want).cpuRequest
         /\ Bounded(want).cpuRequest <= Bounded(want).cpuLimit
         /\ Bounded(want).cpuLimit <= MaxCPU
         /\ MinMem <= Bounded(want).memRequest
         /\ Bounded(want).memRequest <= Bounded(want).memLimit
         /\ Bounded(want).memLimit <= MaxMem
<1>0. /\ MinCPU \in Int /\ MaxCPU \in Int /\ MinCPU <= MaxCPU
      /\ MinMem \in Int /\ MaxMem \in Int /\ MinMem <= MaxMem
  BY DEF MinCPU, MaxCPU, MinMem, MaxMem
<1> DEFINE cpu == AtLeast(CpuDefault, want.cpu)
           mem == AtLeast(MemDefault, want.mem)
<1>1. cpu \in Int /\ want.cpu <= cpu /\ mem \in Int /\ want.mem <= mem
  BY DefaultsType DEF AtLeast
<1>4. Bounded(want) = [cpuRequest |-> Within(want.cpu, MinCPU, MaxCPU),
                       cpuLimit   |-> Within(cpu, MinCPU, MaxCPU),
                       memRequest |-> Within(want.mem, MinMem, MaxMem),
                       memLimit   |-> Within(mem, MinMem, MaxMem)]
  BY DEF Bounded
<1> HIDE DEF cpu, mem
<1>2. /\ Within(want.cpu, MinCPU, MaxCPU) \in MinCPU..MaxCPU
      /\ Within(cpu, MinCPU, MaxCPU) \in MinCPU..MaxCPU
      /\ Within(want.cpu, MinCPU, MaxCPU) <= Within(cpu, MinCPU, MaxCPU)
  BY <1>0, <1>1, WithinBounds
<1>3. /\ Within(want.mem, MinMem, MaxMem) \in MinMem..MaxMem
      /\ Within(mem, MinMem, MaxMem) \in MinMem..MaxMem
      /\ Within(want.mem, MinMem, MaxMem) <= Within(mem, MinMem, MaxMem)
  BY <1>0, <1>1, WithinBounds
<1> QED  BY <1>0, <1>2, <1>3, <1>4 DEF Job

\* The inductive invariant: the types, and that the latest job fits.
IInv == TypeOK /\ JobsFit

\* Every attempt makes a job that fits.
LEMMA ExecuteFits ==
  ASSUME IInv, Execute PROVE IInv'
<1>1. PICK want \in Wanted : job' = Resources(want)
  BY DEF Execute
<1>2. want \in [cpu : Int, mem : Int]
  BY DefaultsType, ResourcesAssumption DEF IInv, Wanted
<1>3. exe' = exe /\ run' = run /\ attempts' = attempts + 1 /\ attempts < MaxAttempts
  BY DEF Execute
<1>4. CASE run.gpu > 0
  BY <1>1, <1>3, <1>4, ResourcesAssumption
  DEF IInv, TypeOK, JobsFit, Resources, OfGpus, Job, MinCPU, MinMem
<1>5. CASE ~(run.gpu > 0)
  <2>1. job' = Bounded(want)
    BY <1>1, <1>5 DEF Resources
  <2>2. JobsFit' /\ job' \in Job
    BY <1>2, <2>1, BoundedFits DEF IInv, JobsFit, MinCPU, MaxCPU, MinMem, MaxMem
  <2> QED
    BY <1>3, <2>2, ResourcesAssumption DEF IInv, TypeOK
<1> QED  BY <1>4, <1>5

\* What the engine writes back leaves the job alone.
LEMMA SaveFits ==
  ASSUME IInv, SaveResources PROVE IInv'
BY DEF IInv, TypeOK, JobsFit, SaveResources, Job

\* The types, and that jobs fit, hold of every behaviour.
LEMMA Invariance == Spec => []IInv
<1>1. Init => IInv
  <2> SUFFICES ASSUME Init PROVE IInv
    OBVIOUS
  <2>1. exe \in [cpu : Int, mem : Int, gpu : Int, adaptive : BOOLEAN]
    <3>1. \A e \in [cpu : Cpus, mem : Mems, gpu : Gpus, adaptive : BOOLEAN] :
            e \in [cpu : Int, mem : Int, gpu : Int, adaptive : BOOLEAN]
      BY ResourcesAssumption, ZenonT(30)
    <3> QED  BY <3>1 DEF Init
  <2>2. run \in [cpu : Int, mem : Int, gpu : Int]
    BY ResourcesAssumption DEF Init
  <2>3. job \in Job /\ attempts \in 0..MaxAttempts /\ ~(attempts > 0)
    BY ResourcesAssumption DEF Init, NoJob, Job
  <2> QED  BY <2>1, <2>2, <2>3 DEF IInv, TypeOK, JobsFit
<1>2. IInv /\ [Next]_vars => IInv'
  <2>1. IInv /\ UNCHANGED vars => IInv'
    BY DEF IInv, TypeOK, JobsFit, vars
  <2> QED  BY <2>1, ExecuteFits, SaveFits DEF Next
<1> QED  BY <1>1, <1>2, PTL DEF Spec

\* Every job can be scheduled.
THEOREM AllJobsFit == Spec => []JobsFit
<1>1. IInv => JobsFit
  BY DEF IInv
<1> QED  BY <1>1, Invariance, PTL

-----------------------------------------------------------------------------
(* Retries. *)

\* Within the bounds, Within does nothing.
LEMMA WithinTwice ==
  ASSUME NEW low \in Int, NEW high \in Int, low <= high, NEW a \in Int
  PROVE  Within(Within(a, low, high), low, high) = Within(a, low, high)
BY DEF Within

Defaults == [cpu |-> CpuDefault, mem |-> MemDefault]

\* The latest job is what another attempt would make, although the engine may
\* have written what it got into the columns it starts from.
JobStable == attempts > 0 /\ ~exe.adaptive => job = Resources(Defaults)

\* Without GPUs, a job of the defaults has limits like its requests.
LEMMA DefaultJob ==
  ASSUME TypeOK
  PROVE  Bounded(Defaults) =
           [cpuRequest |-> Within(CpuDefault, MinCPU, MaxCPU),
            cpuLimit   |-> Within(CpuDefault, MinCPU, MaxCPU),
            memRequest |-> Within(MemDefault, MinMem, MaxMem),
            memLimit   |-> Within(MemDefault, MinMem, MaxMem)]
<1>1. CpuDefault \in Int /\ MemDefault \in Int
  BY DefaultsType
<1>2. \A n \in Int : AtLeast(n, n) = n
  BY DEF AtLeast
<1> QED  BY <1>1, <1>2 DEF Bounded, Defaults

\* Columns that hold the resources of a job of the defaults have these as
\* their defaults: the share of a large job is in them already.
LEMMA DefaultsSettle ==
  ASSUME TypeOK, exe' = exe,
         run'.cpu = Within(CpuDefault, MinCPU, MaxCPU),
         run'.mem = Within(MemDefault, MinMem, MaxMem)
  PROVE  /\ CpuDefault' = Within(CpuDefault, MinCPU, MaxCPU)
         /\ MemDefault' = Within(MemDefault, MinMem, MaxMem)
<1>1. CpuDefault \in Int /\ MemDefault \in Int /\ CpuAsked \in Int
  BY DefaultsType DEF TypeOK, CpuAsked, MinCPU
<1>2. /\ run'.cpu \in Int /\ run'.cpu # 0
      /\ \A n \in Int : n <= CpuDefault /\ n <= MaxCPU => n <= run'.cpu
  BY <1>1 DEF Within, MinCPU, MaxCPU
<1>3. /\ run'.mem \in Int /\ run'.mem # 0
      /\ run'.mem >= 36864 /\ run'.mem < 131072 => run'.mem = MemDefault
  BY <1>1 DEF Within, MinMem, MaxMem
<1>4. MemDefault' = run'.mem /\ CpuAsked' = run'.cpu
  BY <1>2, <1>3 DEF MemDefault, CpuAsked
<1>5. CASE LargeJob'
  <2>1. run'.mem = MemDefault /\ LargeJob
    BY <1>3, <1>4, <1>5 DEF LargeJob
  <2>2. MemDefault \div 8 \in Int /\ MemDefault \div 8 <= MaxCPU
    <3>1. \A n \in Int : n < 131072 => n \div 8 \in Int /\ n \div 8 <= 16384
      OBVIOUS
    <3> QED  BY <1>1, <2>1, <3>1 DEF LargeJob, MaxCPU
  <2>3. MemDefault \div 8 <= CpuDefault
    BY <1>1, <2>1, <2>2 DEF CpuDefault, AtLeast
  <2>4. MemDefault \div 8 <= run'.cpu
    BY <1>2, <2>2, <2>3
  <2>5. CpuDefault' = AtLeast(run'.cpu, MemDefault \div 8)
    BY <1>4, <1>5, <2>1 DEF CpuDefault
  <2> QED  BY <1>2, <1>4, <2>2, <2>4, <2>5 DEF AtLeast
<1>6. CASE ~LargeJob'
  BY <1>4, <1>6 DEF CpuDefault
<1> QED  BY <1>4, <1>5, <1>6

\* What the engine writes back leads to the same job again.
LEMMA SaveStable ==
  ASSUME IInv, IInv', JobStable, SaveResources
  PROVE  JobStable'
<1> SUFFICES ASSUME ~exe.adaptive
             PROVE  job = Resources(Defaults)'
  BY DEF JobStable, SaveResources
<1>1. job = Resources(Defaults) /\ exe' = exe
  BY DEF JobStable, SaveResources
<1>2. PICK mem \in {job.memRequest, job.memLimit} :
        run' = [run EXCEPT !.cpu = job.cpuRequest, !.mem = mem]
  BY DEF SaveResources
<1>3. run'.gpu = run.gpu /\ run'.cpu = job.cpuRequest /\ run'.mem = mem
  BY <1>2 DEF IInv, TypeOK
<1>4. CASE run.gpu > 0
  BY <1>1, <1>3, <1>4 DEF Resources
<1>5. CASE ~(run.gpu > 0)
  <2>1. job = Bounded(Defaults) /\ Resources(Defaults)' = Bounded(Defaults)'
    BY <1>1, <1>3, <1>5 DEF Resources
  <2>2. /\ run'.cpu = Within(CpuDefault, MinCPU, MaxCPU)
        /\ run'.mem = Within(MemDefault, MinMem, MaxMem)
    BY <1>2, <1>3, <2>1, DefaultJob DEF IInv
  <2>3. /\ CpuDefault' = Within(CpuDefault, MinCPU, MaxCPU)
        /\ MemDefault' = Within(MemDefault, MinMem, MaxMem)
    BY <1>1, <2>2, DefaultsSettle DEF IInv
  <2>4. CpuDefault \in Int /\ MemDefault \in Int
    BY DefaultsType DEF IInv
  <2>5. /\ Within(Within(CpuDefault, MinCPU, MaxCPU), MinCPU, MaxCPU)
             = Within(CpuDefault, MinCPU, MaxCPU)
        /\ Within(Within(MemDefault, MinMem, MaxMem), MinMem, MaxMem)
             = Within(MemDefault, MinMem, MaxMem)
    BY <2>4, WithinTwice DEF MinCPU, MaxCPU, MinMem, MaxMem
  <2>6. Bounded(Defaults)' =
          [cpuRequest |-> Within(CpuDefault', MinCPU, MaxCPU),
           cpuLimit   |-> Within(CpuDefault', MinCPU, MaxCPU),
           memRequest |-> Within(MemDefault', MinMem, MaxMem),
           memLimit   |-> Within(MemDefault', MinMem, MaxMem)]
    <3>1. AtLeast(CpuDefault', CpuDefault') = CpuDefault' /\ AtLeast(MemDefault', MemDefault') = MemDefault'
      BY DEF AtLeast
    <3> QED  BY <3>1 DEF Bounded, Defaults
  <2> QED  BY <2>1, <2>3, <2>5, <2>6, DefaultJob DEF IInv
<1> QED  BY <1>4, <1>5

\* The defaults are those of the definition and the run.
LEMMA SameDefaults ==
  ASSUME exe' = exe, run' = run
  PROVE  Resources(Defaults)' = Resources(Defaults)
<1>1. MemDefault' = MemDefault /\ CpuAsked' = CpuAsked
  BY DEF MemDefault, CpuAsked
<1>2. CpuDefault' = CpuDefault
  BY <1>1 DEF CpuDefault, LargeJob
<1> QED  BY <1>1, <1>2 DEF Resources, Defaults, OfGpus, Bounded

\* An attempt makes the job of the defaults, and no other once it has.
LEMMA ExecuteStable ==
  ASSUME Execute
  PROVE  /\ JobStable'
         /\ JobStable /\ attempts > 0 /\ ~exe.adaptive => job' = job
<1>1. exe' = exe /\ run' = run
  BY DEF Execute
<1>2. ~exe.adaptive => job' = Resources(Defaults)
  BY DEF Execute, Wanted, Defaults
<1>3. Resources(Defaults)' = Resources(Defaults)
  BY <1>1, SameDefaults
<1> QED  BY <1>1, <1>2, <1>3 DEF JobStable

\* An attempt of a run that does not adapt gets what the attempt before got:
\* the engine writes a fixed point of the adapter's defaults.
THEOREM AttemptsGetTheSame == Spec => RetriesGetTheSame
<1>1. Init => JobStable
  BY DEF Init, JobStable
<1>2. IInv /\ IInv' /\ JobStable /\ [Next]_vars => JobStable'
  <2>1. JobStable /\ UNCHANGED vars => JobStable'
    BY SameDefaults DEF JobStable, vars
  <2> QED  BY <2>1, SaveStable, ExecuteStable DEF Next
<1>3. JobStable /\ [Next]_vars => [attempts > 0 /\ ~exe.adaptive => job' = job]_vars
  BY ExecuteStable DEF Next, SaveResources
<1> QED  BY <1>1, <1>2, <1>3, Invariance, PTL DEF Spec, RetriesGetTheSame
=============================================================================
