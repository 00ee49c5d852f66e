------------------------------ MODULE Pipeline ------------------------------
(***************************************************************************)
(* The planning coordinator of runtime/planning_coordinator.rs, with the   *)
(* publication half of runtime/planning_service.rs, composed with the      *)
(* chain worker and the state owner.  It takes the latest revision of the  *)
(* planning watch, reads the published state, builds a plan and publishes  *)
(* it; every storage call and every lock of the artifact cache is a step.  *)
(***************************************************************************)
EXTENDS StateOwner

VARIABLES processed, \* the revision the coordinator has finished
          job        \* the revision it is working on

pipelineVars == <<chainVars, ownerVars, processed, job>>
coordinatorVars == <<processed, job>>

JobIdle == [pc |-> "idle"]

Init ==
    /\ IngestInit /\ OwnerInit
    /\ processed = None /\ job = JobIdle

IsCurrent == work = job.revision

\* process_revision up to its first await; an absent snapshot is retried.
ProcessLatest ==
    /\ job.pc = "idle"
    /\ work # None /\ work # processed
    /\ api.snapshot # NoBlock
    /\ job' = [pc |-> "rates", revision |-> work, snapshot |-> api.snapshot]
    /\ UNCHANGED <<chainVars, ownerVars, processed>>

ClearPlanThrough(rev) ==
    api' = [api EXCEPT !.plan = IF PlanThrough(Number(rev.snapshot), rev.generation)
                                THEN None ELSE @]

Finish ==
    /\ processed' = job.revision
    /\ job' = JobIdle

\* rebind_to_covered_state: the published state may be newer than the
\* revision, but must cover its latest event.
Rebound == [job.revision EXCEPT !.snapshot = api.snapshot, !.projection = api.rates]
Covered == job.revision.event <= Number(api.rates)

\* Rates of another snapshot, or a projection below the event, are retried.
ReadRates ==
    /\ job.pc = "rates"
    /\ IF api.snapshot # job.snapshot \/ ~Covered
       THEN job' = JobIdle /\ UNCHANGED <<processed, api>>
       ELSE IF IsCurrent
       THEN job' = [job EXCEPT !.pc = "plan", !.snapshot = Rebound] /\ UNCHANGED <<processed, api>>
       ELSE ClearPlanThrough(Rebound) /\ Finish
    /\ UNCHANGED <<chainVars, through, dirty, generation, lastExact, lastTick, pending,
                   epoch, own, work, runtime, ready>>

\* The strategies find no action: clear_plan.
NoPlan ==
    /\ job.pc = "plan"
    /\ ClearPlanThrough(job.snapshot)
    /\ job' = [job EXCEPT !.pc = "finish"]
    /\ UNCHANGED <<chainVars, through, dirty, generation, lastExact, lastTick, pending,
                   epoch, own, work, runtime, ready, processed>>

\* persist_plan refuses a plan whose snapshot a rewind has pruned; that ends
\* the coordinator, and its successor starts from the watch's current value.
PersistPlan ==
    /\ job.pc = "plan"
    /\ IF job.snapshot.snapshot \in snapshots
       THEN job' = [job EXCEPT !.pc = "record"] /\ UNCHANGED processed
       ELSE job' = JobIdle /\ processed' = None
    /\ UNCHANGED <<chainVars, ownerVars>>

PlanOf(rev) == [snapshot |-> rev.snapshot, generation |-> rev.generation]

RecordPlan ==
    /\ job.pc = "record"
    /\ api' = [api EXCEPT !.plan = IF PlanAccepted(PlanOf(job.snapshot))
                                   THEN PlanOf(job.snapshot) ELSE @]
    /\ job' = [job EXCEPT !.pc = "finish"]
    /\ UNCHANGED <<chainVars, through, dirty, generation, lastExact, lastTick, pending,
                   epoch, own, work, runtime, ready, processed>>

\* record_superseded when a newer revision arrived in the meantime.
FinishRevision ==
    /\ job.pc = "finish"
    /\ IF IsCurrent THEN UNCHANGED api ELSE ClearPlanThrough(job.snapshot)
    /\ Finish
    /\ UNCHANGED <<chainVars, through, dirty, generation, lastExact, lastTick, pending,
                   epoch, own, work, runtime, ready>>

Coordinator ==
    \/ ProcessLatest \/ ReadRates \/ NoPlan \/ PersistPlan \/ RecordPlan \/ FinishRevision

Next ==
    \/ (Mine \/ Reorg \/ CheckpointFails \/ BundleFails \/ ChainWorker)
       /\ UNCHANGED <<ownerVars, coordinatorVars>>
    \/ (CaptureFails \/ StateWorker) /\ UNCHANGED coordinatorVars
    \/ Coordinator

Spec == Init /\ [][Next]_pipelineVars

\* The three workers are supervised loops on timers and channels; blocks keep
\* coming until the bound.  A provider read that is retried for ever does not
\* fail for ever, and a lagging node catches up between two hints.
Fairness ==
    /\ WF_pipelineVars(Mine /\ UNCHANGED <<ownerVars, coordinatorVars>>)
    /\ WF_pipelineVars(ChainWorker /\ UNCHANGED <<ownerVars, coordinatorVars>>)
    /\ WF_pipelineVars(StateWorker /\ UNCHANGED coordinatorVars)
    /\ SF_pipelineVars(CaptureAt(chain) /\ UNCHANGED coordinatorVars)
    /\ WF_pipelineVars(Coordinator)

FairSpec == Spec /\ Fairness

-----------------------------------------------------------------------------
(* Properties. *)

\* The snapshot holds everything relevant on the branch of h.
Covers(snapshot, h) ==
    /\ IsPrefix(snapshot, h)
    /\ EventsAbove(h, Number(snapshot)) = {}

\* The replayed head is a canonical block of the store: no rewind has removed
\* it whose ReorgDetected is still on its way.
OnBranch == through \in store

\* A vault that may execute never has a plan older than what the state owner
\* has replayed: the plan's snapshot is on the replayed branch and no relevant
\* event follows it there (supersede_dirty_plans, record_state, record_plan).
PlanCoversReplay ==
    OnBranch /\ runtime = "Automatic" /\ api.plan # None
        => Covers(api.plan.snapshot, through)

\* The published snapshot covers the replayed head once the head's exact
\* refresh is complete and nothing is dirty, and whenever readiness is reported
\* for a vault that may execute (apply_block, ensure_replayed_through,
\* reported_candidate_is_current, bind_snapshot, publish_readiness).
StateIsCovered ==
    /\ OnBranch /\ own.pc = "idle"
    /\ (lastExact = through /\ ~dirty.is) \/ (ready /\ runtime = "Automatic")
    => Covers(api.snapshot, through)

\* A plan is only ever published beside the exact snapshot it was built from
\* (record_plan, record_state, rewind_vault).
PlanMatchesState == api.plan # None => api.plan.snapshot = api.snapshot

\* When the chain stops moving, the last head is refreshed, its revision is
\* bound and the coordinator finishes it, whatever was lost on the way.
Settled ==
    /\ lastExact = chain /\ ~dirty.is
    /\ Covers(api.snapshot, chain)
    /\ work # None /\ processed = work
Converges == <>[]Settled

=============================================================================
