----------------------------- MODULE StateOwner -----------------------------
(***************************************************************************)
(* The canonical state owner of runtime/state_service.rs for one vault in  *)
(* Execute mode, with the part of api/routes.rs that publishes its state.  *)
(* It applies the chain worker's updates in order, marks the vault dirty,  *)
(* refreshes the exact snapshot at a hinted head and binds the dirty       *)
(* generation to it as a planning revision.                                *)
(*                                                                         *)
(* A snapshot is the block it was read at.  The refresh awaits provider    *)
(* and storage between its steps, so the chain worker and the planning     *)
(* coordinator run in between.                                             *)
(***************************************************************************)
EXTENDS ChainIngest

CONSTANTS TickInterval,   \* blocks between two strategy ticks, 0 for none
          Lag,            \* blocks a node's reported latest state may lag
          LagAfterReorg   \* a node may still lag once the chain has reorganised

ASSUME OwnerAssumption == {TickInterval, Lag} \subseteq Nat /\ LagAfterReorg \in BOOLEAN

VARIABLES through,    \* the block the vault's topology is replayed to
          dirty,      \* the vault's entry in the DirtyAccumulator
          generation, \* its planner generation
          lastExact,  \* last_exact_head
          lastTick,   \* last_strategy_tick_timestamp
          pending,    \* pending_latest_snapshots
          epoch,      \* the branch epoch the owner holds
          own,        \* the update in progress
          api,        \* the vault's artifacts: epoch, snapshot, rates, plan
          work,       \* the planning watch
          runtime,    \* RuntimeVaultState, as far as the pipeline moves it
          ready       \* the published readiness report

ownerVars == <<through, dirty, generation, lastExact, lastTick, pending, epoch,
               own, api, work, runtime, ready>>

None == [none |-> TRUE]
Clean == [is |-> FALSE, event |-> 0]
OwnIdle == [pc |-> "idle"]

\* DirtyAccumulator::mark: the highest relevant block and a new generation.
Mark(n) ==
    /\ dirty' = [is |-> TRUE, event |-> Max({n, dirty.event})]
    /\ generation' = generation + 1

OwnerInit ==
    /\ through = NoBlock
    /\ dirty = [is |-> TRUE, event |-> 0] /\ generation = 1
    /\ lastExact = NoBlock /\ lastTick = 0 /\ pending = NoBlock
    /\ epoch = 0 /\ own = OwnIdle
    /\ api = [epoch |-> 0, snapshot |-> NoBlock, rates |-> NoBlock, plan |-> None]
    /\ work = None /\ runtime = "CatchingUp" /\ ready = FALSE

-----------------------------------------------------------------------------
(* The artifact cache of api/routes.rs. *)

RewindVault == api' = [epoch |-> api.epoch + 1, snapshot |-> NoBlock,
                       rates |-> NoBlock, plan |-> None]

\* record_state refuses an obsolete epoch, an older block and another branch
\* at the same height.
Older(old, new) ==
    old # NoBlock /\ old # new /\ Number(old) >= Number(new)
Accepts(held, snapshot, projection) ==
    /\ api.epoch = held
    /\ ~Older(api.snapshot, snapshot)
    /\ ~Older(api.rates, projection)

\* Defect: the plan survives a new snapshot.
RecordStateKeepsPlan(snapshot, projection) ==
    api' = [api EXCEPT !.snapshot = snapshot, !.rates = projection]

\* A plan of another snapshot does not survive the new state.
RecordState(snapshot, projection) ==
    api' = [api EXCEPT !.snapshot = snapshot, !.rates = projection,
                       !.plan = IF @ # None /\ @.snapshot # snapshot THEN None ELSE @]

\* record_plan: only for the cached snapshot, and only a newer generation.
PlanAccepted(plan) ==
    /\ api.snapshot = plan.snapshot
    /\ \/ api.plan = None
       \/ api.plan = plan
       \/ Number(api.plan.snapshot) < Number(plan.snapshot)
       \/ /\ Number(api.plan.snapshot) = Number(plan.snapshot)
          /\ api.plan.generation < plan.generation

PlanThrough(number, gen) ==
    /\ api.plan # None
    /\ Number(api.plan.snapshot) <= number
    /\ api.plan.generation <= gen

-----------------------------------------------------------------------------
(* Replay. *)

MarkCatchingUp == runtime' = "CatchingUp"

\* Defect: only the planning watch is reset.
SupersedeWorkOnly(then) ==
    /\ own' = [pc |-> "send", then |-> then]
    /\ UNCHANGED <<api, runtime>>

\* supersede_dirty_plans up to its send: the vault is no longer ready to
\* execute and its plan is gone; the watch follows in SendWork.
Supersede(then) ==
    /\ api' = [api EXCEPT !.plan = None]
    /\ MarkCatchingUp
    /\ own' = [pc |-> "send", then |-> then]

SendWork ==
    /\ own.pc = "send"
    /\ work' = None
    /\ own' = own.then
    /\ UNCHANGED <<chainVars, through, dirty, generation, lastExact, lastTick, pending,
                   epoch, api, runtime, ready>>

\* A failed worker: mark_worker_unavailable, and the supervisor builds a new
\* owner, whose accumulator starts again and marks the vault for startup.
Restart ==
    /\ through' = NoBlock
    /\ dirty' = [is |-> TRUE, event |-> 0] /\ generation' = 1
    /\ lastExact' = NoBlock /\ lastTick' = 0 /\ pending' = NoBlock
    /\ epoch' = api.epoch
    /\ own' = OwnIdle
    /\ MarkCatchingUp
    /\ ready' = FALSE
    /\ hinted' = (hint # NoBlock)

-----------------------------------------------------------------------------
(* Ordered updates: they drain before a head hint is taken. *)

Receive(kind) ==
    /\ own.pc = "idle"
    /\ updates # <<>>
    /\ Head(updates).kind = kind
    /\ updates' = Tail(updates)

Received == Head(updates).block

\* apply_block: a restarted owner rebuilds its replay state through the block,
\* any other owner only accepts the next block of its branch.
ApplyBlock ==
    /\ Receive("block")
    /\ LET b == Received
       IN  IF through # NoBlock /\ through # Front(b)
           THEN Restart /\ UNCHANGED <<api, work>>
           ELSE /\ through' = b
                /\ IF HasEvent(b) THEN Mark(Number(b)) /\ Supersede(OwnIdle)
                   ELSE UNCHANGED <<dirty, generation, api, runtime, own>>
                /\ ready' = FALSE
                /\ UNCHANGED <<lastExact, lastTick, pending, epoch, work, hinted>>
    /\ UNCHANGED <<chain, forks, faults, store, snapshots, cursor, poll, providerReady, hint>>

ReorgDetected ==
    /\ Receive("reorg")
    /\ MarkCatchingUp
    /\ RewindVault
    /\ epoch' = api.epoch + 1
    /\ lastExact' = NoBlock /\ lastTick' = 0 /\ pending' = NoBlock
    /\ Mark(Number(Received))
    /\ through' = Received
    /\ UNCHANGED <<chain, forks, faults, store, snapshots, cursor, poll, providerReady, hint,
                   hinted, own, work, ready>>

ProviderDegraded ==
    /\ Receive("degraded")
    /\ MarkCatchingUp
    /\ ready' = FALSE
    /\ UNCHANGED <<chain, forks, faults, store, snapshots, cursor, poll, providerReady, hint,
                   hinted, through, dirty, generation, lastExact, lastTick, pending,
                   epoch, own, api, work>>

-----------------------------------------------------------------------------
(* A hinted head. *)

TickDue(head) ==
    TickInterval > 0 /\ (lastTick = 0 \/ Number(head) - lastTick >= TickInterval)

\* ensure_replayed_through: the stored logs above the block replayed so far.
Replayed(head) ==
    IF through = head \/ through = NoBlock THEN {}
    ELSE StoredEvents(Number(through) + 1, Number(head))

\* The vault is rebuilt at the head; the logs found on the way and a due tick
\* mark it.  The refresh follows when this head was not refreshed yet.
CanonicalHead ==
    /\ own.pc = "idle"
    /\ updates = <<>>
    /\ hinted
    /\ hinted' = FALSE
    /\ LET marks == Replayed(hint) \cup (IF TickDue(hint) THEN {Number(hint)} ELSE {})
           next == IF lastExact = hint THEN OwnIdle
                   ELSE [pc |-> "refresh", head |-> hint]
       IN  /\ through' = hint
           /\ lastTick' = IF TickDue(hint) THEN Number(hint) ELSE lastTick
           /\ IF marks = {}
              THEN own' = next /\ UNCHANGED <<dirty, generation, api, runtime>>
              ELSE Mark(Max(marks)) /\ Supersede(next)
    /\ UNCHANGED <<chain, forks, faults, store, snapshots, cursor, poll, providerReady, updates,
                   hint, lastExact, pending, epoch, work, ready>>

\* Defect: a deferred head counts as refreshed.
DeferredForGood(candidate) ==
    /\ pending' = candidate
    /\ MarkCatchingUp
    /\ ready' = FALSE
    /\ own' = OwnIdle
    /\ lastExact' = own.head
    /\ UNCHANGED <<api, work, dirty>>

\* The refresh ends without a snapshot: SnapshotAwaitingCanonicalReplay or an
\* unavailable provider.  A later hint tries again.
Deferred(candidate) ==
    /\ pending' = candidate
    /\ MarkCatchingUp
    /\ ready' = FALSE
    /\ own' = OwnIdle
    /\ UNCHANGED <<lastExact, api, work, dirty>>

Refreshed(exact) ==
    /\ lastExact' = own.head
    /\ ready' = (exact /\ runtime = "Automatic")
    /\ own' = OwnIdle

\* Defect: the events between the candidate and the head are not read.
CandidateIsStored(b, head) ==
    /\ StoredAt(Number(b)) = {b}
    /\ Number(b) = Number(head) => b = head

\* reported_candidate_is_current: stored, and nothing relevant up to the head.
CandidateIsCurrent(b, head) ==
    /\ StoredAt(Number(b)) = {b}
    /\ Number(b) = Number(head) => b = head
    /\ StoredEvents(Number(b) + 1, Number(head)) = {}

\* A clean vault keeps its snapshot.
KeepSnapshot ==
    /\ own.pc = "refresh"
    /\ ~dirty.is /\ api.snapshot # NoBlock
    /\ Refreshed(TRUE)
    /\ UNCHANGED <<chainVars, through, dirty, generation, lastTick, pending, epoch,
                   api, work, runtime>>

\* The candidate: one captured ahead of replay, or what the provider reports
\* now, from a node that may lag.
LagNow == IF forks = 0 \/ LagAfterReorg THEN Lag ELSE 0
Candidates ==
    IF pending # NoBlock
       /\ (Number(pending) > Number(own.head) \/ CandidateIsCurrent(pending, own.head))
    THEN {pending}
    ELSE {At(chain, n) : n \in Max({1, Number(chain) - LagNow}) .. Number(chain)}

CaptureAt(b) ==
    /\ own.pc = "refresh"
    /\ dirty.is \/ api.snapshot = NoBlock
    /\ b \in Candidates
    /\ IF Number(b) > Number(own.head) THEN Deferred(b)
       ELSE IF ~CandidateIsCurrent(b, own.head) THEN Deferred(NoBlock)
       ELSE /\ own' = [pc |-> "record", head |-> own.head, snapshot |-> b]
            /\ pending' = NoBlock
            /\ UNCHANGED <<lastExact, ready, runtime, api, work, dirty>>
    /\ UNCHANGED <<chainVars, through, generation, lastTick, epoch>>

Capture == own.pc = "refresh" /\ \E b \in Candidates : CaptureAt(b)

\* A provider outage: transient_snapshot_context.
CaptureFails ==
    /\ own.pc = "refresh"
    /\ dirty.is \/ api.snapshot = NoBlock
    /\ Deferred(NoBlock)
    /\ UNCHANGED <<chain, forks, faults, store, snapshots, cursor, poll, providerReady, updates, hint, hinted,
                   through, generation, lastTick, epoch>>

\* The snapshot is persisted, then the state is published;
\* a refused publication leaves the vault catching up.
Record ==
    /\ own.pc = "record"
    /\ snapshots' = snapshots \cup {own.snapshot}
    /\ IF Accepts(epoch, own.snapshot, own.head)
       THEN /\ RecordState(own.snapshot, own.head)
            /\ runtime' = "Automatic"
            /\ own' = [own EXCEPT !.pc = "bind"]
            /\ UNCHANGED <<lastExact, ready>>
       ELSE Refreshed(FALSE) /\ UNCHANGED <<api, runtime>>
    /\ UNCHANGED <<chain, forks, faults, store, cursor, poll, providerReady, updates,
                   hint, hinted, through, dirty, generation, lastTick, pending, epoch, work>>

\* bind_snapshot: a dirty generation that the head covers becomes a revision.
Revision == [event |-> dirty.event, generation |-> generation,
             snapshot |-> own.snapshot, projection |-> own.head]

Bind ==
    /\ own.pc = "bind"
    /\ IF dirty.is /\ dirty.event <= Number(own.head)
       THEN work' = Revision /\ dirty' = Clean
       ELSE UNCHANGED <<work, dirty>>
    /\ Refreshed(TRUE)
    /\ UNCHANGED <<chainVars, through, generation, lastTick, pending, epoch, api, runtime>>

StateWorker ==
    \/ ApplyBlock \/ ReorgDetected \/ ProviderDegraded \/ CanonicalHead
    \/ SendWork \/ KeepSnapshot \/ Capture \/ Record \/ Bind

=============================================================================
