---------------------------- MODULE RuntimeControl ----------------------------
(* The runtime state of every vault that shares one allocator signer, written by
   the state worker, the planning coordinator and the execution worker, with the
   round robin of the lane.  Sources: runtime/controller.rs,
   runtime/execution_service.rs, runtime/state_service.rs,
   runtime/planning_coordinator.rs. *)
EXTENDS Naturals, FiniteSets

CONSTANTS
    N,          \* vaults, in configuration order, all of one signer
    Conditions, \* what an exact snapshot may show
    Gaps,       \* workers whose read and later write of a status the execution
                \* worker may come between
    MaxEvents,  \* bound: relevant events and rewinds
    MaxFaults   \* bound: failed reads, planning, submissions and providers

ASSUME RuntimeAssumption ==
    /\ N \in Nat \ {0} /\ "ok" \in Conditions
    /\ Conditions \subseteq {"ok", "locks", "uncertain", "unsupported"}
    /\ Gaps \subseteq {"state", "planning"}
    /\ MaxEvents \in Nat /\ MaxFaults \in Nat

VARIABLES
    runtime,  \* vault -> RuntimeVaultState in the registry
    cond,     \* vault -> what an exact snapshot shows
    dirty,    \* vaults with an event since their last refresh
    work,     \* vaults with a revision the coordinator has not processed
    plan,     \* vaults with a published plan
    lane,     \* the unresolved row of the signer: its vault and stage
    rows,     \* vaults with a ReconciliationPending row
    next,     \* next_vault_index
    owner,    \* the state worker
    exec,     \* the execution worker
    coord,    \* the planning coordinator
    budget    \* what is left of the bounds

vars == <<runtime, cond, dirty, work, plan, lane, rows, next, owner,
          exec, coord, budget>>

Vault == 0..(N - 1)

\* PausedByOperator and PausedTransactionFailure are never written, and only
\* Execute mode has an execution worker.
Quarantine == {"PausedSignerFailure", "PausedReconciliationFailure"}
Derived == {"PendingTransaction", "IdleLocksActive", "LockAccountingUncertain",
            "PausedUnsupportedConfiguration", "PausedSignerFailure"}

Successors ==
    [s \in {"CatchingUp", "Recovery", "Automatic"} \cup Derived \cup Quarantine |->
       CASE s \in {"CatchingUp", "Recovery"} ->
              Derived \cup Quarantine \cup {"Automatic"}
         [] s = "Automatic" -> Derived \cup {"CatchingUp"}
         [] s = "PendingTransaction" ->
              Derived \cup Quarantine \cup {"Automatic", "CatchingUp", "Recovery"}
         [] s = "IdleLocksActive" -> Derived \cup {"Automatic", "CatchingUp"}
         [] s \in {"LockAccountingUncertain", "PausedUnsupportedConfiguration"} ->
              Derived \cup {"Automatic", "CatchingUp", "Recovery"}
         [] s \in Quarantine -> Derived \cup {"CatchingUp", "Recovery"}]

Permits(s, t) == s = t \/ t \in Successors[s]

NoLane == [v |-> 0, st |-> "free"]
OwnerIdle == [pc |-> "idle", todo |-> {}, v |-> 0, to |-> "CatchingUp",
              bind |-> FALSE]
ExecIdle == [pc |-> "idle", v |-> N - 1, last |-> N - 1, todo |-> {},
             skip |-> {}, back |-> "idle"]
CoordIdle == [pc |-> "idle", v |-> 0]

Init ==
    /\ runtime = [v \in Vault |-> "CatchingUp"]
    /\ cond = [v \in Vault |-> "ok"] /\ dirty = Vault
    /\ work = {} /\ plan = {}
    /\ lane = NoLane /\ rows = {} /\ next = 0
    /\ owner = OwnerIdle /\ exec = ExecIdle /\ coord = CoordIdle
    /\ budget = [events |-> MaxEvents, faults |-> MaxFaults]

Spend(what) == budget[what] > 0 /\ budget' = [budget EXCEPT ![what] = @ - 1]

Set(v, t) == runtime' = [runtime EXCEPT ![v] = t]

-----------------------------------------------------------------------------
(* The state worker. *)

SnapshotState(v) ==
    CASE cond[v] = "ok"          -> "Automatic"
      [] cond[v] = "locks"       -> "IdleLocksActive"
      [] cond[v] = "uncertain"   -> "LockAccountingUncertain"
      [] cond[v] = "unsupported" -> "PausedUnsupportedConfiguration"

\* Every unresolved row is a pending transaction.
DesiredPending(v, row) ==
    IF row.st = "free" THEN SnapshotState(v) ELSE "PendingTransaction"

Desired(v, row) ==
    CASE row.st = "foreign" -> "PausedSignerFailure"
      [] row.st = "free"    -> SnapshotState(v)
      [] OTHER              -> "PendingTransaction"

\* Any refresh recalculates the state.
PreserveNothing(current, calculated, unresolved) == calculated

\* A vault in Recovery waits for the execution worker.
PreserveRecovery(current, calculated, unresolved) ==
    IF current \in Quarantine \cup {"Recovery"} /\ ~unresolved
    THEN current ELSE calculated

Preserve(current, calculated, unresolved) ==
    IF current \in Quarantine /\ ~unresolved THEN current ELSE calculated

\* supersede_dirty_plans for the vaults vs.
Supersede(vs) ==
    /\ plan' = plan \ vs /\ work' = work \ vs
    /\ runtime' = [v \in Vault |->
          IF v \in vs /\ runtime[v] \in {"Automatic", "IdleLocksActive"}
          THEN "CatchingUp" ELSE runtime[v]]

\* apply_block: a relevant event.
ApplyEvent(v) ==
    /\ owner.pc = "idle" /\ Spend("events")
    /\ \E c \in Conditions : cond' = [cond EXCEPT ![v] = c]
    /\ dirty' = dirty \cup {v} /\ Supersede({v})
    /\ UNCHANGED <<lane, rows, next, owner, exec, coord>>

Refreshing(vs) ==
    owner' = IF vs = {} THEN OwnerIdle ELSE [OwnerIdle EXCEPT !.pc = "loop", !.todo = vs]

\* A head: the vault that owns the lane stays dirty; the refresh skips clean
\* vaults.
Head ==
    /\ owner.pc = "idle"
    /\ LET held == IF lane.st = "free" THEN {} ELSE {lane.v} IN
       /\ dirty' = dirty \cup held /\ work' = work \ held
       /\ Refreshing(dirty')
    /\ UNCHANGED <<runtime, cond, plan, lane, rows, next, exec, coord, budget>>

\* A head whose timestamp is due for a strategy tick makes every vault dirty.
StrategyTick ==
    /\ owner.pc = "idle" /\ dirty' = Vault /\ Supersede(Vault) /\ Refreshing(Vault)
    /\ UNCHANGED <<cond, lane, rows, next, exec, coord, budget>>

\* mark_catching_up in configuration order. The first vault in Recovery refuses
\* and the error reconstructs the worker, whose first head is a strategy tick.
Refusing == {v \in Vault : runtime[v] = "Recovery"}
CaughtBehind(v) ==
    IF runtime[v] \in Quarantine \/ \E u \in Refusing : u <= v
    THEN runtime[v] ELSE "CatchingUp"

ProviderDegraded ==
    /\ owner.pc = "idle" /\ Spend("faults")
    /\ runtime' = [v \in Vault |-> CaughtBehind(v)]
    /\ dirty' = IF Refusing = {} THEN dirty ELSE Vault
    /\ UNCHANGED <<cond, work, plan, lane, rows, next, owner, exec, coord>>

\* A rewind brings a reconciled row back to ReconciliationPending.
ReorgDetected ==
    /\ owner.pc = "idle" /\ Spend("events")
    /\ runtime' = [v \in Vault |-> CaughtBehind(v)] /\ dirty' = Vault
    /\ IF Refusing = {} THEN plan' = {} ELSE UNCHANGED plan
    /\ \E v \in Vault \ rows :
          (lane.st = "free" \/ lane.v # v) /\ rows' = rows \cup {v}
    /\ UNCHANGED <<cond, work, lane, next, owner, exec, coord>>

\* record_vault_refresh_failure
RefreshFails(v) ==
    /\ owner.pc = "loop" /\ v \in owner.todo /\ Spend("faults")
    /\ Refreshing(owner.todo \ {v})
    /\ plan' = plan \ {v} /\ work' = work \ {v}
    /\ \E t \in {"CatchingUp", "PausedUnsupportedConfiguration"} :
         IF runtime[v] \in Quarantine \cup {"PendingTransaction", "Recovery"}
         THEN UNCHANGED runtime ELSE Set(v, t)
    /\ UNCHANGED <<cond, dirty, lane, rows, next, exec, coord>>

\* refresh_exact_at_head reads the row and the status ...
RefreshRead(v) ==
    /\ owner.pc = "loop" /\ v \in owner.todo
    /\ owner' = [pc |-> "write", todo |-> owner.todo \ {v}, v |-> v,
                 to |-> Preserve(runtime[v], Desired(v, lane), lane.st # "free"),
                 bind |-> lane.st = "free" /\ cond[v] \in {"ok", "locks"}]
    /\ UNCHANGED <<runtime, cond, dirty, work, plan, lane, rows, next, exec, coord,
                   budget>>

\* ... and updates it later; a refused update reconstructs the worker.
RefreshWrite ==
    /\ owner.pc = "write"
    /\ LET v == owner.v IN
       IF Permits(runtime[v], owner.to)
       THEN /\ Set(v, owner.to) /\ Refreshing(owner.todo)
            /\ IF owner.bind
               THEN /\ dirty' = dirty \ {v} /\ work' = work \cup {v}
                    /\ UNCHANGED plan
               ELSE plan' = plan \ {v} /\ UNCHANGED <<dirty, work>>
       ELSE /\ runtime' = [u \in Vault |-> CaughtBehind(u)]
            /\ dirty' = Vault /\ owner' = OwnerIdle /\ UNCHANGED <<plan, work>>
    /\ UNCHANGED <<cond, lane, rows, next, exec, coord, budget>>

StateWorker ==
    \/ Head \/ StrategyTick \/ ProviderDegraded \/ ReorgDetected \/ RefreshWrite
    \/ \E v \in Vault : ApplyEvent(v) \/ RefreshFails(v) \/ RefreshRead(v)

-----------------------------------------------------------------------------
(* The planning coordinator. A pending transaction postpones the revision. *)

Plan(v) ==
    /\ coord.pc = "idle" /\ v \in work /\ lane.st = "free"
    /\ work' = work \ {v} /\ plan' \in {plan \cup {v}, plan \ {v}}
    /\ UNCHANGED <<runtime, cond, dirty, lane, rows, next, owner, exec, coord, budget>>

\* quarantine_planning_scope reads the status and updates it later.
PlanFails(v) ==
    /\ coord.pc = "idle" /\ v \in work /\ lane.st = "free" /\ Spend("faults")
    /\ work' = work \ {v} /\ plan' = plan \ {v}
    /\ coord' = IF runtime[v] \in Quarantine THEN coord ELSE [pc |-> "write", v |-> v]
    /\ UNCHANGED <<runtime, cond, dirty, lane, rows, next, owner, exec>>

PlanFailsWrite ==
    /\ coord.pc = "write" /\ coord' = CoordIdle
    /\ Set(coord.v, "PausedUnsupportedConfiguration")
    /\ UNCHANGED <<cond, dirty, work, plan, lane, rows, next, owner, exec, budget>>

Coordinator ==
    PlanFailsWrite \/ \E v \in Vault : Plan(v) \/ PlanFails(v)

-----------------------------------------------------------------------------
(* The execution worker. *)

Atomic(who, pc) == who \in Gaps \/ pc # "write"
Alone == Atomic("state", owner.pc) /\ Atomic("planning", coord.pc)

execVars == <<cond, dirty, work, owner, coord>>

\* pause_signer_account
PauseSigner == runtime' = [v \in Vault |-> "PausedSignerFailure"]

\* The tick ends; next_vault_index outlives it.
Rest == [ExecIdle EXCEPT !.last = exec.last]

\* Signed bytes are refused for lack of funds or as invalid.
SubmissionFails ==
    /\ exec.pc = "idle" /\ lane.st = "open" /\ Spend("faults")
    /\ PauseSigner
    /\ UNCHANGED <<plan, lane, rows, next, exec>>

\* Only the first tick that meets a spent nonce classifies it, and every later
\* one repeats the pause.
ForeignNonce ==
    /\ exec.pc = "idle" /\ lane.st \in {"spent", "foreign"}
    /\ lane' = [lane EXCEPT !.st = "foreign"] /\ PauseSigner
    /\ UNCHANGED <<plan, rows, next, exec, budget>>

\* recover_terminal_outcome up to the rebuild. From a state without a way to
\* Recovery the tick fails, and the next one tries again.
Recover(v, back, after) ==
    IF Permits(runtime[v], "Recovery")
    THEN /\ Set(v, "Recovery") /\ plan' = plan \ {v}
         /\ exec' = [after EXCEPT !.pc = "rebuild", !.v = v, !.back = back]
    ELSE /\ plan' = plan \ {v} /\ UNCHANGED runtime
         /\ exec' = Rest

TerminalOutcome ==
    /\ exec.pc = "idle" /\ lane.st = "outcome"
    /\ Recover(lane.v, "persist", exec)
    /\ UNCHANGED <<lane, rows, next, budget>>

AfterRebuild ==
    IF exec.back = "idle" THEN Rest
    ELSE [exec EXCEPT !.pc = exec.back, !.v = N - 1, !.back = "idle"]

RebuildFails ==
    /\ exec.pc = "rebuild" /\ Spend("faults")
    /\ exec' = Rest
    /\ UNCHANGED <<runtime, plan, lane, rows, next>>

Rebuild ==
    /\ exec.pc = "rebuild"
    /\ LET v == exec.v IN
       IF Permits(runtime[v], SnapshotState(v))
       THEN /\ Set(v, SnapshotState(v)) /\ exec' = AfterRebuild
            /\ plan' \in IF cond[v] = "ok" THEN {plan, plan \cup {v}} ELSE {plan}
       ELSE UNCHANGED <<runtime, plan>> /\ exec' = Rest
    /\ UNCHANGED <<lane, rows, next, budget>>

PersistOutcome ==
    /\ exec.pc = "persist" /\ exec' = Rest
    /\ lane' = NoLane
    /\ UNCHANGED <<runtime, plan, rows, next, budget>>

\* pause_reconciliation_failure goes through CatchingUp where it must.
PauseReconciliation(v) == Set(v, "PausedReconciliationFailure")

\* reconcile_confirmed_transaction: conforms, drifts or is inconsistent.
Conformance ==
    /\ exec.pc = "idle" /\ lane.st = "confirmed"
    /\ \/ lane' = [lane EXCEPT !.st = "validated"]
          /\ UNCHANGED <<runtime, plan, exec, budget>>
       \/ Recover(lane.v, "persist", exec) /\ UNCHANGED <<lane, budget>>
       \/ Spend("faults") /\ PauseReconciliation(lane.v)
          /\ UNCHANGED <<lane, plan, exec>>
    /\ UNCHANGED <<rows, next>>

\* apply_reconciliation_to_runtime_status: a newer published head wins.
Reconciled(v) ==
    \/ Permits(runtime[v], SnapshotState(v)) /\ Set(v, SnapshotState(v))
    \/ UNCHANGED runtime

\* reconcile_validated_post_state for a row that owns the lane, or not.
PostState(v, release, back, after) ==
    \/ release /\ Reconciled(v) /\ exec' = after /\ UNCHANGED <<plan, budget>>
    \/ release /\ Recover(v, back, after) /\ UNCHANGED budget
    \/ /\ Spend("faults") /\ PauseReconciliation(v)
       /\ exec' = after /\ UNCHANGED <<lane, rows, plan>>

Validated ==
    /\ exec.pc = "idle" /\ lane.st = "validated"
    /\ PostState(lane.v, lane' = NoLane /\ UNCHANGED rows, "idle", exec)
    /\ UNCHANGED next

TickStart ==
    /\ exec.pc = "idle" /\ lane.st = "free"
    /\ exec' = [exec EXCEPT !.pc = "rows", !.skip = rows,
                            !.todo = {v \in rows : runtime[v] \notin Quarantine}]
    /\ UNCHANGED <<runtime, plan, lane, rows, next, budget>>

ReconcileRow(v) ==
    /\ exec.pc = "rows" /\ v \in exec.todo /\ lane.st = "free"
    /\ LET after == [exec EXCEPT !.todo = @ \ {v}] IN
       \/ exec' = after /\ UNCHANGED <<runtime, plan, lane, rows, budget>>
       \/ PostState(v, rows' = rows \ {v} /\ UNCHANGED lane, "rows", after)
    /\ UNCHANGED next

\* The first vault from next_vault_index on that may start a transaction.
Startable == {v \in Vault \ exec.skip : runtime[v] = "Automatic" /\ v \in plan}
Distance(v) == (v + N - next) % N

KeepIndex(v) == next
NextIndex(v) == (v + 1) % N

Execute ==
    /\ exec.pc = "rows" /\ exec.todo = {}
    /\ \/ /\ Startable = {} /\ exec' = Rest /\ UNCHANGED next
       \/ \E v \in Startable :
            /\ \A u \in Startable : Distance(v) <= Distance(u)
            /\ next' = NextIndex(v)
            /\ exec' = [exec EXCEPT !.pc = "preflight", !.v = v, !.last = v]
    /\ UNCHANGED <<runtime, plan, lane, rows, budget>>

\* The final preflight defers, finds the vault unsupported, finds the wallet
\* empty, or reserves and signs.
Preflight ==
    /\ exec.pc = "preflight"
    /\ \/ UNCHANGED <<runtime, lane, budget>> /\ exec' = Rest
       \/ /\ Spend("faults") /\ UNCHANGED lane
          /\ Set(exec.v, "PausedUnsupportedConfiguration") \/ PauseSigner
          /\ exec' = Rest
       \/ /\ lane' = [v |-> exec.v, st |-> "open"]
          /\ exec' = [exec EXCEPT !.pc = "signed"] /\ UNCHANGED <<runtime, budget>>
    /\ UNCHANGED <<plan, rows, next>>

Signed ==
    /\ exec.pc = "signed" /\ exec' = Rest
    /\ Set(exec.v, "PendingTransaction") /\ plan' = plan \ {exec.v}
    /\ UNCHANGED <<lane, rows, next, budget>>

Tick ==
    /\ Alone
    /\ \/ SubmissionFails \/ ForeignNonce \/ TerminalOutcome \/ RebuildFails
       \/ Rebuild \/ PersistOutcome \/ Conformance \/ Validated \/ TickStart
       \/ Execute \/ Preflight \/ Signed \/ \E v \in Vault : ReconcileRow(v)
    /\ UNCHANGED execVars

\* What the chain makes of the signed bytes.
Land ==
    /\ lane.st = "open" /\ exec.pc # "signed"
    /\ \E st \in {"outcome", "confirmed", "spent"} : lane' = [lane EXCEPT !.st = st]
    /\ UNCHANGED <<runtime, cond, dirty, work, plan, rows, next, owner, exec, coord,
                   budget>>

Next == StateWorker \/ Coordinator \/ Tick \/ Land

Spec == Init /\ [][Next]_vars

\* The state worker's heads, ticks and refreshes, the coordinator and the
\* execution timer run on supervised loops, and a signed transaction lands.
Fairness ==
    /\ WF_vars(Head \/ RefreshWrite \/ \E v \in Vault : RefreshRead(v))
    /\ SF_vars(StrategyTick) /\ SF_vars(Tick)
    /\ WF_vars(PlanFailsWrite) /\ WF_vars(Land)

FairSpec == Spec /\ Fairness

-----------------------------------------------------------------------------
(* Properties. *)

\* "quarantines ... must not disappear merely because a new block arrived": a
\* signer or reconciliation quarantine ends only while a transaction of the
\* signer is unresolved, whose recovery then owns the vault.
QuarantineKept ==
    [][\A v \in Vault : runtime[v] \in Quarantine /\ runtime'[v] \notin Quarantine
          => lane.st # "free"]_vars

\* A nonce spent by an unknown transaction closes every vault of the signer for
\* good, whichever worker writes the statuses meanwhile.
ForeignClosesSigner ==
    lane.st = "foreign" ~>
        [](\A v \in Vault : runtime[v] = "PausedSignerFailure")

\* "A temporarily unexecutable first vault must not monopolize the shared
\* allocator lane": a vault is attempted only if no other vault that could start
\* comes first after the one attempted last.
TurnsTaken ==
    [][exec.pc = "rows" /\ exec'.pc = "preflight" =>
         LET After(v) == (v + N - (exec.last + 1)) % N IN
         \A u \in Startable : After(exec'.v) <= After(u)]_vars

\* A vault with a sound snapshot, no row and a free lane leaves Recovery and
\* CatchingUp again.
VaultReturns ==
    \A v \in Vault :
        <>[](cond[v] = "ok" /\ lane.st = "free" /\ v \notin rows) =>
        []<>(runtime[v] \in {"Automatic", "PausedUnsupportedConfiguration"} \cup Quarantine)

\* "Signer, transaction, reconciliation and operator quarantines require an
\* explicit recovery transition": a vault paused for a reconciliation failure
\* leaves that state through a transaction of its own.
QuarantineIsExplicit ==
    [][\A v \in Vault :
         runtime[v] = "PausedReconciliationFailure" /\ runtime'[v] \notin Quarantine
           => \/ lane.st # "free" /\ lane.v = v
              \/ exec.v = v /\ exec.pc # "idle"]_vars
=============================================================================
