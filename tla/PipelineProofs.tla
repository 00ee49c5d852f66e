--------------------------- MODULE PipelineProofs ---------------------------
(* The plan beside the published state, for every chain, reorganisation and  *)
(* queue length, whatever times out or lags.                                 *)
EXTENDS Pipeline, TLAPS

\* The artifact cache of the vault is a record of these four fields.
Artifacts(e, s, r, p) == [epoch : {e}, snapshot : {s}, rates : {r}, plan : {p}]
IsArtifacts == api \in Artifacts(api.epoch, api.snapshot, api.rates, api.plan)

Beside == IsArtifacts /\ PlanMatchesState

\* Every write of the cache leaves no plan, the plan it found beside the same
\* snapshot, or a plan of the snapshot it finds or writes.
LEMMA CacheWrites ==
  ASSUME Beside
  PROVE  /\ RewindVault => Beside'
         /\ \A s, r : RecordState(s, r) => Beside'
         /\ api' = [api EXCEPT !.plan = None] => Beside'
         /\ UNCHANGED api => Beside'
<1> USE DEF Beside, IsArtifacts, Artifacts
<1>1. RewindVault => Beside'
  BY DEF RewindVault, PlanMatchesState
<1>2. ASSUME NEW s, NEW r, RecordState(s, r) PROVE Beside'
  <2>1. api' \in Artifacts(api.epoch, s, r,
                  IF api.plan # None /\ api.plan.snapshot # s THEN None ELSE api.plan)
    BY Zenon, <1>2 DEF RecordState
  <2> QED
    BY <2>1 DEF PlanMatchesState
<1>3. ASSUME api' = [api EXCEPT !.plan = None] PROVE Beside'
  <2>1. api' \in Artifacts(api.epoch, api.snapshot, api.rates, None)
    BY <1>3
  <2> QED
    BY <2>1 DEF PlanMatchesState
<1>4. UNCHANGED api => Beside'
  BY DEF PlanMatchesState
<1> QED
  BY <1>1, <1>2, <1>3, <1>4

LEMMA OwnerBeside ==
  ASSUME Beside, CaptureFails \/ StateWorker PROVE Beside'
<1>1. CASE ApplyBlock \/ CanonicalHead
  <2>1. api' = [api EXCEPT !.plan = None] \/ UNCHANGED api
    BY <1>1 DEF ApplyBlock, CanonicalHead, Supersede
  <2> QED
    BY <2>1, CacheWrites
<1>2. CASE ReorgDetected
  BY <1>2, CacheWrites DEF ReorgDetected
<1>3. CASE Record
  BY Zenon, <1>3, CacheWrites DEF Record
<1>4. CASE ProviderDegraded \/ SendWork \/ KeepSnapshot \/ Bind \/ CaptureFails
  BY Zenon, <1>4, CacheWrites
     DEF ProviderDegraded, SendWork, KeepSnapshot, Bind, CaptureFails, Deferred
<1>5. CASE Capture
  BY <1>5, CacheWrites DEF Capture, CaptureAt, Deferred
<1> QED
  BY <1>1, <1>2, <1>3, <1>4, <1>5 DEF StateWorker

LEMMA CoordinatorBeside ==
  ASSUME Beside, Coordinator PROVE Beside'
<1>1. ASSUME NEW rev, ClearPlanThrough(rev) PROVE Beside'
  <2>1. CASE PlanThrough(Number(rev.snapshot), rev.generation)
    BY <1>1, <2>1, CacheWrites DEF ClearPlanThrough
  <2>2. CASE ~PlanThrough(Number(rev.snapshot), rev.generation)
    <3>1. api' \in Artifacts(api.epoch, api.snapshot, api.rates, api.plan)
      BY <1>1, <2>2 DEF ClearPlanThrough, Beside, IsArtifacts, Artifacts
    <3> QED
      BY <3>1 DEF Beside, IsArtifacts, Artifacts, PlanMatchesState
  <2> QED
    BY <2>1, <2>2
<1>2. CASE ReadRates \/ NoPlan \/ FinishRevision
  BY <1>1, <1>2, CacheWrites DEF ReadRates, NoPlan, FinishRevision
<1>3. CASE ProcessLatest \/ PersistPlan
  BY <1>3, CacheWrites DEF ProcessLatest, PersistPlan, ownerVars
<1>4. CASE RecordPlan
  <2>1. api' \in Artifacts(api.epoch, api.snapshot, api.rates,
                  IF PlanAccepted(PlanOf(job.snapshot)) THEN PlanOf(job.snapshot) ELSE api.plan)
    BY <1>4 DEF RecordPlan, Beside, IsArtifacts, Artifacts
  <2>2. PlanAccepted(PlanOf(job.snapshot)) => PlanOf(job.snapshot).snapshot = api.snapshot
    BY DEF PlanAccepted
  <2> QED
    BY <2>1, <2>2 DEF Beside, IsArtifacts, Artifacts, PlanMatchesState
<1> QED
  BY <1>2, <1>3, <1>4 DEF Coordinator

(* For every chain, every reorganisation and every interleaving of the three
   workers: a plan stands only beside the exact snapshot it was built from.
   (record_plan, record_state, rewind_vault and clear_plan of api/routes.rs) *)
THEOREM PlansStandBesideTheirState == Spec => []PlanMatchesState
<1>1. Init => Beside
  BY DEF Init, OwnerInit, Beside, IsArtifacts, Artifacts, PlanMatchesState
<1>2. Beside /\ [Next]_pipelineVars => Beside'
  <2> SUFFICES ASSUME Beside, [Next]_pipelineVars PROVE Beside'
    OBVIOUS
  <2>1. CASE UNCHANGED ownerVars
    BY <2>1, CacheWrites DEF ownerVars
  <2>2. CASE UNCHANGED pipelineVars
    BY <2>1, <2>2 DEF pipelineVars
  <2> QED
    BY <2>1, <2>2, OwnerBeside, CoordinatorBeside DEF Next
<1>3. Beside => PlanMatchesState
  BY DEF Beside
<1> QED
  BY <1>1, <1>2, <1>3, PTL DEF Spec
=============================================================================
