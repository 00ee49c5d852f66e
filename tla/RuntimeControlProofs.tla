------------------------ MODULE RuntimeControlProofs ------------------------
(* Quarantines, the foreign nonce and the round robin of one signer's vaults,  *)
(* for every number of vaults, events and faults.  A worker that reads a status *)
(* and writes it later is not overtaken by the execution worker here (Gaps is  *)
(* empty); the run find_quarantine shows what happens otherwise.               *)
EXTENDS RuntimeControl, TLAPS

State == {"CatchingUp", "Recovery", "Automatic"} \cup Derived \cup Quarantine
LaneState == {"free", "open", "outcome", "confirmed", "validated", "spent", "foreign"}

TypeOK ==
    /\ runtime \in [Vault -> State] /\ cond \in [Vault -> Conditions]
    /\ lane \in [v : Vault, st : LaneState]
    /\ dirty \subseteq Vault /\ rows \subseteq Vault /\ next \in Vault
    /\ owner \in [pc : {"idle", "loop", "write"}, todo : SUBSET Vault, v : Vault,
                  to : State, bind : BOOLEAN]
    /\ exec \in [pc : {"idle", "rebuild", "persist", "rows", "preflight", "signed"},
                 v : Vault, last : Vault, todo : SUBSET Vault, skip : SUBSET Vault,
                 back : {"idle", "persist", "rows"}]
    /\ coord \in [pc : {"idle", "write"}, v : Vault]

Quarantined(v) == runtime[v] \in Quarantine

\* What the workers remember between their steps agrees with the registry.
Agreement ==
    /\ owner.pc = "write" /\ lane.st = "free" =>
          (owner.to \in Quarantine <=> Quarantined(owner.v))
    /\ owner.pc = "write" /\ lane.st = "foreign" => owner.to = "PausedSignerFailure"
    /\ coord.pc = "write" => lane.st = "free" /\ ~Quarantined(coord.v)
    /\ exec.pc \in {"rows", "preflight"} => lane.st = "free"
    /\ exec.pc = "rows" => \A v \in exec.todo : ~Quarantined(v)
    /\ exec.pc = "preflight" => ~Quarantined(exec.v)
    /\ exec.pc = "signed" => lane.st = "open"
    /\ exec.pc = "persist" => lane.st \in {"outcome", "confirmed"}
    /\ exec.pc = "rebuild" =>
          \/ exec.back = "persist" /\ lane.st \in {"outcome", "confirmed"}
          \/ /\ exec.back # "persist" /\ lane.st = "free" /\ ~Quarantined(exec.v)
             /\ exec.back = "rows" => \A v \in exec.todo : ~Quarantined(v)
    /\ lane.st = "foreign" => \A v \in Vault : runtime[v] = "PausedSignerFailure"
    /\ next = (exec.last + 1) % N

LEMMA Modulo ==
  ASSUME NEW a \in Vault
  PROVE  /\ (a + 1) % N = IF a = N - 1 THEN 0 ELSE a + 1
         /\ a % N = a /\ (a + N) % N = a
  BY RuntimeAssumption DEF Vault

LEMMA Instances ==
  /\ N \in Nat \ {0} /\ N - 1 \in Vault /\ 0 \in Vault
  /\ Conditions \subseteq {"ok", "locks", "uncertain", "unsupported"}
  /\ DOMAIN Successors = State
  BY RuntimeAssumption DEF Vault, Successors, State

LEMMA SnapshotStates ==
  ASSUME TypeOK, NEW v \in Vault
  PROVE  SnapshotState(v) \in State \ (Quarantine \cup {"Recovery", "CatchingUp"})
<1>1. cond[v] \in {"ok", "locks", "uncertain", "unsupported"}
  BY Zenon, Instances DEF TypeOK
<1> QED
  BY <1>1 DEF SnapshotState, State, Derived, Quarantine

LEMMA RuntimeInit == Init => TypeOK /\ Agreement
<1> SUFFICES ASSUME Init PROVE TypeOK /\ Agreement
  OBVIOUS
<1>1. TypeOK
  BY Instances, RuntimeAssumption DEF Init, TypeOK, NoLane, OwnerIdle, ExecIdle, CoordIdle, State, LaneState
<1>2. next = (exec.last + 1) % N
  BY Instances, Modulo DEF Init, ExecIdle
<1>3. Agreement
  BY <1>2 DEF Init, Agreement, NoLane, OwnerIdle, ExecIdle, CoordIdle
<1> QED BY <1>1, <1>3

\* A quarantine ends only while the lane is taken.
Kept == \A v \in Vault : Quarantined(v) /\ ~Quarantined(v)' => lane.st # "free"

\* Steps that leave the set of quarantined vaults, the lane and the execution
\* worker alone.
Neutral ==
    /\ \A v \in Vault : Quarantined(v)' <=> Quarantined(v)
    /\ \A v \in Vault : runtime[v] = "PausedSignerFailure" => runtime'[v] = runtime[v]
    /\ UNCHANGED <<lane, next, exec>>

LEMMA NeutralKeeps ==
  ASSUME TypeOK, Agreement, Neutral,
         owner'.pc = "write" => UNCHANGED owner, coord'.pc = "write" => UNCHANGED coord
  PROVE  Agreement' /\ Kept
<1> USE DEF Neutral
<1>1. lane.v \in Vault /\ exec.v \in Vault /\ owner.v \in Vault /\ coord.v \in Vault
      /\ exec.todo \subseteq Vault
  BY DEF TypeOK
<1>2. \A v \in exec.todo : Quarantined(v)' <=> Quarantined(v)
  BY <1>1
<1>3. Quarantined(exec.v)' <=> Quarantined(exec.v)
  BY <1>1 DEF Quarantined
<1>4. owner' = owner => (Quarantined(owner.v)' <=> Quarantined(owner.v))
  BY <1>1 DEF Quarantined
<1>5. coord' = coord => (Quarantined(coord.v)' <=> Quarantined(coord.v))
  BY <1>1 DEF Quarantined
<1> QED
  BY <1>1, <1>2, <1>3, <1>4, <1>5 DEF Agreement, Kept

\* The state worker. A refresh reads and writes apart; every other step keeps
\* the quarantines.
LEMMA StateWorkerKeeps ==
  ASSUME TypeOK, Agreement, StateWorker PROVE TypeOK' /\ Agreement' /\ Kept
<1> USE DEF TypeOK
<1>1. ASSUME NEW vs \in SUBSET Vault, Supersede(vs)
      PROVE  /\ runtime' \in [Vault -> State]
             /\ \A v \in Vault : Quarantined(v)' <=> Quarantined(v)
             /\ \A v \in Vault : runtime[v] = "PausedSignerFailure" => runtime'[v] = runtime[v]
  BY <1>1 DEF Supersede, Quarantined, Quarantine, State
<1>2. ASSUME runtime' = [v \in Vault |-> CaughtBehind(v)]
      PROVE  /\ runtime' \in [Vault -> State]
             /\ \A v \in Vault : Quarantined(v)' <=> Quarantined(v)
             /\ \A v \in Vault : runtime[v] = "PausedSignerFailure" => runtime'[v] = runtime[v]
  BY <1>2 DEF CaughtBehind, Quarantined, Quarantine, State
<1>3. ASSUME NEW vs \in SUBSET Vault, Refreshing(vs)
      PROVE  owner' \in [pc : {"idle", "loop"}, todo : SUBSET Vault, v : Vault,
                         to : State, bind : BOOLEAN]
  BY ZenonT(30), <1>3, Instances DEF Refreshing, OwnerIdle, State
<1>4. ASSUME NEW v \in Vault, ApplyEvent(v) PROVE TypeOK' /\ Agreement' /\ Kept
  <2>1. /\ UNCHANGED <<lane, rows, next, owner, exec, coord>> /\ Supersede({v})
        /\ cond' \in [Vault -> Conditions] /\ dirty' \subseteq Vault
    BY <1>4 DEF ApplyEvent
  <2>2. TypeOK'
    BY <1>1, <2>1
  <2>3. Neutral
    BY <1>1, <2>1 DEF Neutral
  <2> QED
    BY <2>1, <2>2, <2>3, NeutralKeeps
<1>5. CASE Head
  <2>1. UNCHANGED <<runtime, cond, lane, rows, next, exec, coord>> /\ dirty' \subseteq Vault
    BY <1>5 DEF Head
  <2>2. owner' \in [pc : {"idle", "loop"}, todo : SUBSET Vault, v : Vault, to : State,
                    bind : BOOLEAN]
    BY <1>3, <1>5, <2>1 DEF Head
  <2>3. TypeOK'
    BY <2>1, <2>2
  <2>4. Neutral
    BY <2>1 DEF Neutral, Quarantined
  <2> QED
    BY <2>1, <2>2, <2>3, <2>4, NeutralKeeps
<1>6. CASE StrategyTick
  <2>1. UNCHANGED <<cond, lane, rows, next, exec, coord>> /\ dirty' = Vault
    BY <1>6 DEF StrategyTick
  <2>2. owner' \in [pc : {"idle", "loop"}, todo : SUBSET Vault, v : Vault, to : State,
                    bind : BOOLEAN]
    BY <1>3, <1>6 DEF StrategyTick
  <2>3. TypeOK'
    BY <1>1, <1>6, <2>1, <2>2 DEF StrategyTick
  <2>4. Neutral
    BY <1>1, <1>6, <2>1 DEF Neutral, StrategyTick
  <2> QED
    BY <2>1, <2>2, <2>3, <2>4, NeutralKeeps
<1>7. CASE ProviderDegraded \/ ReorgDetected
  <2>1. /\ UNCHANGED <<cond, lane, next, owner, exec, coord>>
        /\ dirty' \subseteq Vault /\ rows' \subseteq Vault
        /\ runtime' = [v \in Vault |-> CaughtBehind(v)]
    BY <1>7 DEF ProviderDegraded, ReorgDetected
  <2>2. TypeOK'
    BY <1>2, <2>1
  <2>3. Neutral
    BY <1>2, <2>1 DEF Neutral
  <2> QED
    BY <2>1, <2>2, <2>3, NeutralKeeps
<1>8. ASSUME NEW v \in Vault, RefreshFails(v) PROVE TypeOK' /\ Agreement' /\ Kept
  <2>1. UNCHANGED <<cond, dirty, lane, rows, next, exec, coord>>
    BY <1>8 DEF RefreshFails
  <2>2. owner' \in [pc : {"idle", "loop"}, todo : SUBSET Vault, v : Vault, to : State,
                    bind : BOOLEAN]
    BY <1>3, <1>8 DEF RefreshFails
  <2>3. /\ runtime' \in [Vault -> State]
        /\ \A u \in Vault : Quarantined(u)' <=> Quarantined(u)
        /\ \A u \in Vault : runtime[u] = "PausedSignerFailure" => runtime'[u] = runtime[u]
    BY <1>8 DEF RefreshFails, Set, Quarantined, Quarantine, State, Derived
  <2> QED
    BY <2>1, <2>2, <2>3, NeutralKeeps DEF Neutral
<1>9. ASSUME NEW v \in Vault, RefreshRead(v) PROVE TypeOK' /\ Agreement' /\ Kept
  <2>1. UNCHANGED <<runtime, cond, dirty, lane, rows, next, exec, coord>>
    BY <1>9 DEF RefreshRead
  <2>2. Desired(v, lane) \in State
    BY SnapshotStates DEF Desired, State, Derived
  <2>3. Preserve(runtime[v], Desired(v, lane), lane.st # "free") \in State
    BY <2>2 DEF Preserve
  <2>4. /\ owner' \in [pc : {"write"}, todo : SUBSET Vault, v : {v}, to : State, bind : BOOLEAN]
        /\ owner'.to = Preserve(runtime[v], Desired(v, lane), lane.st # "free")
    BY <1>9, <2>3 DEF RefreshRead
  <2>5. owner' \in [pc : {"idle", "loop", "write"}, todo : SUBSET Vault, v : Vault, to : State,
                    bind : BOOLEAN]
    BY <2>4
  <2>6. TypeOK'
    BY <2>1, <2>5
  <2>7. lane.st = "free" => (owner'.to \in Quarantine <=> Quarantined(v))
    BY <2>4, SnapshotStates DEF Preserve, Desired, Quarantined
  <2>8. lane.st = "foreign" => owner'.to = "PausedSignerFailure"
    BY <2>4 DEF Preserve, Desired
  <2> QED
    BY <2>1, <2>4, <2>6, <2>7, <2>8 DEF Agreement, Quarantined, Kept
<1>10. CASE RefreshWrite
  <2>1. UNCHANGED <<cond, lane, rows, next, exec, coord>> /\ dirty' \subseteq Vault
    BY <1>10 DEF RefreshWrite
  <2>2. owner' \in [pc : {"idle", "loop"}, todo : SUBSET Vault, v : Vault, to : State,
                    bind : BOOLEAN]
    <3>1. OwnerIdle \in [pc : {"idle", "loop"}, todo : SUBSET Vault, v : Vault, to : State,
                         bind : BOOLEAN]
      BY Instances DEF OwnerIdle, State
    <3>2. owner.todo \in SUBSET Vault
      OBVIOUS
    <3>3. Refreshing(owner.todo) \/ owner' = OwnerIdle
      BY <1>10 DEF RefreshWrite
    <3> QED
      BY <1>3, <3>1, <3>2, <3>3
  <2>3. owner.pc = "write" /\ owner.v \in Vault /\ owner.to \in State
    BY <1>10 DEF RefreshWrite
  <2>4. CASE runtime' = [u \in Vault |-> CaughtBehind(u)]
    BY <1>2, <2>1, <2>2, <2>4, NeutralKeeps DEF Neutral
  <2>5. CASE Set(owner.v, owner.to)
    <3>1. runtime' \in [Vault -> State]
      BY <2>3, <2>5 DEF Set
    <3>2. TypeOK'
      BY <2>1, <2>2, <3>1
    <3>3. CASE lane.st = "free"
      <4>1. \A u \in Vault : Quarantined(u)' <=> Quarantined(u)
        BY <2>3, <2>5, <3>3 DEF Set, Agreement, Quarantined
      <4> QED
        BY Zenon, <2>1, <2>2, <3>1, <3>3, <4>1 DEF Agreement, Quarantined, Kept
    <3>4. CASE lane.st # "free"
      <4>1. lane.st = "foreign" => \A u \in Vault : runtime'[u] = "PausedSignerFailure"
        BY <2>3, <2>5 DEF Set, Agreement
      <4> QED
        BY <2>1, <2>2, <3>2, <3>4, <4>1 DEF Agreement, Kept
    <3> QED
      BY <3>3, <3>4
  <2> QED
    BY <1>10, <2>4, <2>5 DEF RefreshWrite
<1> QED
  BY <1>4, <1>5, <1>6, <1>7, <1>8, <1>9, <1>10 DEF StateWorker

LEMMA CoordinatorKeeps ==
  ASSUME TypeOK, Agreement, Coordinator PROVE TypeOK' /\ Agreement' /\ Kept
<1> USE DEF TypeOK
<1>1. ASSUME NEW v \in Vault, Plan(v) PROVE TypeOK' /\ Agreement' /\ Kept
  <2>1. UNCHANGED <<runtime, cond, dirty, lane, rows, next, owner, exec, coord>>
    BY <1>1 DEF Plan
  <2> QED
    BY <2>1, NeutralKeeps DEF Neutral, Quarantined
<1>2. ASSUME NEW v \in Vault, PlanFails(v) PROVE TypeOK' /\ Agreement' /\ Kept
  <2>1. UNCHANGED <<runtime, cond, dirty, lane, rows, next, owner, exec>> /\ lane.st = "free"
    BY <1>2 DEF PlanFails
  <2>2. CASE coord' = coord
    BY <2>1, <2>2, NeutralKeeps DEF Neutral, Quarantined
  <2>3. CASE ~Quarantined(v) /\ coord' = [pc |-> "write", v |-> v]
    BY <2>1, <2>3 DEF Agreement, Quarantined, Kept
  <2> QED
    BY <1>2, <2>2, <2>3 DEF PlanFails, Quarantined
<1>3. CASE PlanFailsWrite
  <2>1. /\ UNCHANGED <<cond, dirty, lane, rows, next, owner, exec>>
        /\ coord.pc = "write" /\ coord' = CoordIdle
        /\ runtime' = [runtime EXCEPT ![coord.v] = "PausedUnsupportedConfiguration"]
    BY <1>3 DEF PlanFailsWrite, Set
  <2>2. coord.v \in Vault /\ ~Quarantined(coord.v) /\ lane.st = "free"
    BY <2>1 DEF Agreement
  <2>3. /\ runtime' \in [Vault -> State]
        /\ \A u \in Vault : Quarantined(u)' <=> Quarantined(u)
        /\ \A u \in Vault : runtime[u] = "PausedSignerFailure" => runtime'[u] = runtime[u]
    BY <2>1, <2>2 DEF Quarantined, Quarantine, State, Derived
  <2>4. coord' \in [pc : {"idle"}, v : Vault]
    BY <2>1, Instances DEF CoordIdle
  <2> QED
    BY <2>1, <2>3, <2>4, NeutralKeeps DEF Neutral
<1> QED
  BY <1>1, <1>2, <1>3 DEF Coordinator

LEMMA LandKeeps ==
  ASSUME TypeOK, Agreement, Land PROVE TypeOK' /\ Agreement' /\ Kept
<1>1. /\ UNCHANGED <<runtime, cond, dirty, rows, next, owner, exec, coord>>
      /\ lane.st = "open" /\ exec.pc # "signed"
      /\ lane' \in [v : Vault, st : {"outcome", "confirmed", "spent"}]
  BY DEF Land, TypeOK
<1>2. TypeOK'
  BY <1>1 DEF TypeOK, LaneState
<1> QED
  BY <1>1, <1>2 DEF Agreement, Quarantined, Kept
-----------------------------------------------------------------------------
(* The execution worker. *)

ExecRecords ==
    [pc : {"idle", "rebuild", "persist", "rows", "preflight", "signed"},
     v : Vault, last : Vault, todo : SUBSET Vault, skip : SUBSET Vault,
     back : {"idle", "persist", "rows"}]

LEMMA RestIsIdle ==
  ASSUME exec \in ExecRecords
  PROVE  Rest \in ExecRecords /\ Rest.pc = "idle" /\ Rest.last = exec.last
<1>1. ExecIdle \in ExecRecords
  BY Instances DEF ExecIdle, ExecRecords
<1>2. ExecIdle.pc = "idle"
  BY DEF ExecIdle
<1>3. exec.last \in Vault
  BY DEF ExecRecords
<1> QED
  BY <1>1, <1>2, <1>3 DEF Rest, ExecRecords

LEMMA RecoverResult ==
  ASSUME exec \in ExecRecords, NEW v \in Vault, NEW back \in {"idle", "persist", "rows"},
         NEW after \in ExecRecords, Recover(v, back, after)
  PROVE  \/ /\ UNCHANGED runtime
            /\ exec' \in ExecRecords /\ exec'.pc = "idle" /\ exec'.last = exec.last
         \/ /\ runtime' = [runtime EXCEPT ![v] = "Recovery"]
            /\ exec' \in ExecRecords /\ exec'.pc = "rebuild" /\ exec'.v = v
            /\ exec'.back = back /\ exec'.todo = after.todo /\ exec'.last = after.last
<1>1. CASE Permits(runtime[v], "Recovery")
  <2>1. /\ runtime' = [runtime EXCEPT ![v] = "Recovery"]
        /\ exec' = [after EXCEPT !.pc = "rebuild", !.v = v, !.back = back]
    BY <1>1 DEF Recover, Set
  <2> QED
    BY Zenon, <2>1 DEF ExecRecords
<1>2. CASE ~Permits(runtime[v], "Recovery")
  BY <1>2, RestIsIdle DEF Recover
<1> QED
  BY <1>1, <1>2

LEMMA RecoverKeepsStates ==
  ASSUME runtime \in [Vault -> State], exec \in ExecRecords, NEW v \in Vault,
         NEW back \in {"idle", "persist", "rows"}, NEW after \in ExecRecords,
         Recover(v, back, after)
  PROVE  runtime' \in [Vault -> State]
<1>1. "Recovery" \in State
  BY DEF State
<1>2. runtime' = runtime \/ runtime' = [runtime EXCEPT ![v] = "Recovery"]
  BY Zenon, RecoverResult
<1> QED
  BY <1>1, <1>2

\* Nobody is between a read and its write: what a step of the execution worker
\* has to show.
LEMMA ExecSuffices ==
  ASSUME TypeOK, Agreement, UNCHANGED execVars, owner.pc # "write", coord.pc # "write",
         runtime' \in [Vault -> State], lane' \in [v : Vault, st : LaneState],
         rows' \subseteq Vault, next' \in Vault, exec' \in ExecRecords,
         next' = (exec'.last + 1) % N,
         exec'.pc = "idle" \/
           (/\ exec'.pc \in {"rows", "preflight"} => lane'.st = "free"
            /\ exec'.pc = "rows" => \A v \in exec'.todo : ~Quarantined(v)'
            /\ exec'.pc = "preflight" => runtime'[exec'.v] \notin Quarantine
            /\ exec'.pc = "signed" => lane'.st = "open"
            /\ exec'.pc = "persist" => lane'.st \in {"outcome", "confirmed"}
            /\ exec'.pc = "rebuild" =>
                \/ exec'.back = "persist" /\ lane'.st \in {"outcome", "confirmed"}
                \/ /\ exec'.back # "persist" /\ lane'.st = "free" /\ runtime'[exec'.v] \notin Quarantine
                   /\ exec'.back = "rows" => \A v \in exec'.todo : ~Quarantined(v)'),
         lane'.st = "foreign" => \A v \in Vault : runtime'[v] = "PausedSignerFailure"
  PROVE  TypeOK' /\ Agreement'
<1>1. TypeOK'
  BY DEF TypeOK, execVars, ExecRecords
<1>2. owner'.pc # "write" /\ coord'.pc # "write"
  BY DEF execVars
<1>3. Agreement'
  BY <1>2 DEF Agreement, Quarantined
<1> QED
  BY <1>1, <1>3

LEMMA PauseSteps ==
  ASSUME TypeOK, Agreement, UNCHANGED execVars, owner.pc # "write", coord.pc # "write",
         SubmissionFails \/ ForeignNonce
  PROVE  TypeOK' /\ Agreement' /\ Kept
<1>1. /\ \A v \in Vault : runtime'[v] = "PausedSignerFailure"
      /\ runtime' \in [Vault -> State] /\ exec.pc = "idle" /\ UNCHANGED <<rows, next, exec>>
  BY DEF SubmissionFails, ForeignNonce, PauseSigner, State, Quarantine
<1>2. lane' \in [v : Vault, st : LaneState]
  BY DEF SubmissionFails, ForeignNonce, TypeOK, LaneState
<1>3. next' = (exec'.last + 1) % N
  BY <1>1 DEF Agreement
<1>4. exec' \in ExecRecords /\ rows' \subseteq Vault /\ next' \in Vault
  BY <1>1 DEF TypeOK, ExecRecords
<1>5. Kept
  BY <1>1 DEF Kept, Quarantined, Quarantine
<1> QED
  BY <1>1, <1>2, <1>3, <1>4, <1>5, ExecSuffices

LEMMA RecoverySteps ==
  ASSUME TypeOK, Agreement, UNCHANGED execVars, owner.pc # "write", coord.pc # "write",
         TerminalOutcome \/ RebuildFails \/ Rebuild \/ PersistOutcome
  PROVE  TypeOK' /\ Agreement' /\ Kept
<1>0. exec \in ExecRecords /\ next = (exec.last + 1) % N /\ next \in Vault
  BY DEF TypeOK, ExecRecords, Agreement
<1>1. CASE TerminalOutcome
  <2>1. /\ UNCHANGED <<lane, rows, next>> /\ lane.st = "outcome" /\ lane.v \in Vault
        /\ Recover(lane.v, "persist", exec)
    BY <1>1 DEF TerminalOutcome, TypeOK
  <2>2. runtime' \in [Vault -> State]
    BY Zenon, <1>0, <2>1, RecoverKeepsStates DEF TypeOK
  <2>3. /\ exec' \in ExecRecords /\ exec'.last = exec.last
        /\ exec'.pc = "idle" \/ (exec'.pc = "rebuild" /\ exec'.back = "persist")
    <3>1. \/ UNCHANGED runtime /\ exec' \in ExecRecords /\ exec'.pc = "idle" /\ exec'.last = exec.last
          \/ /\ runtime' = [runtime EXCEPT ![lane.v] = "Recovery"]
             /\ exec' \in ExecRecords /\ exec'.pc = "rebuild" /\ exec'.v = lane.v
             /\ exec'.back = "persist" /\ exec'.todo = exec.todo /\ exec'.last = exec.last
      BY Zenon, <1>0, <2>1, RecoverResult
    <3> QED
      BY <3>1
  <2>4. next' = (exec'.last + 1) % N
    BY <1>0, <2>1, <2>3
  <2> QED
    BY <2>1, <2>2, <2>3, <2>4, ExecSuffices DEF Kept, TypeOK
<1>2. CASE RebuildFails \/ PersistOutcome
  <2>1. /\ UNCHANGED <<runtime, rows, next>> /\ exec' = Rest
        /\ lane' = lane \/ lane' = NoLane
    BY <1>2 DEF RebuildFails, PersistOutcome
  <2>2. lane' \in [v : Vault, st : LaneState]
        /\ (lane'.st = "foreign" => lane.st = "foreign")
    BY <2>1, Instances DEF NoLane, LaneState, TypeOK
  <2> QED
    BY <1>0, <2>1, <2>2, RestIsIdle, ExecSuffices DEF Kept, TypeOK, Quarantined, Agreement
<1>3. CASE Rebuild
  <2>1. UNCHANGED <<lane, rows, next>> /\ exec.pc = "rebuild" /\ exec.v \in Vault
    BY <1>3 DEF Rebuild, TypeOK
  <2>2. lane.st # "foreign"
    BY <2>1 DEF Agreement
  <2>3. CASE UNCHANGED runtime /\ exec' = Rest
    BY <1>0, <2>1, <2>2, <2>3, RestIsIdle, ExecSuffices DEF Kept, TypeOK, Quarantined
  <2>4. CASE Set(exec.v, SnapshotState(exec.v)) /\ exec' = AfterRebuild
    <3>1. SnapshotState(exec.v) \in State \ Quarantine
      BY <2>1, SnapshotStates
    <3>2. /\ runtime' \in [Vault -> State]
          /\ \A u \in Vault : ~Quarantined(u) => ~Quarantined(u)'
          /\ \A u \in Vault : u # exec.v => (Quarantined(u)' <=> Quarantined(u))
      BY <2>1, <2>4, <3>1 DEF Set, TypeOK, Quarantined
    <3>3. Kept
      BY <2>1, <3>2 DEF Kept, Agreement
    <3>4. CASE exec.back = "idle"
      BY <1>0, <2>1, <2>2, <2>4, <3>2, <3>3, <3>4, RestIsIdle, ExecSuffices
         DEF AfterRebuild, TypeOK
    <3>5. CASE exec.back # "idle"
      <4>1. /\ exec' \in ExecRecords /\ exec'.pc = exec.back /\ exec'.last = exec.last
            /\ exec'.todo = exec.todo /\ exec.back \in {"persist", "rows"}
            /\ exec.todo \subseteq Vault
        BY Zenon, <1>0, <2>4, <3>5, Instances DEF AfterRebuild, ExecRecords
      <4>2. exec.back = "rows" => lane.st = "free" /\ \A u \in exec.todo : ~Quarantined(u)
        BY <2>1 DEF Agreement
      <4>3. exec.back = "persist" => lane.st \in {"outcome", "confirmed"}
        BY <2>1 DEF Agreement
      <4>4. exec'.pc = "rows" => \A u \in exec'.todo : ~Quarantined(u)'
        BY <3>2, <4>1, <4>2
      <4> QED
        BY <1>0, <2>1, <2>2, <3>2, <3>3, <4>1, <4>2, <4>3, <4>4, ExecSuffices DEF TypeOK
    <3> QED
      BY <3>4, <3>5
  <2> QED
    BY <1>3, <2>3, <2>4 DEF Rebuild
<1> QED
  BY <1>1, <1>2, <1>3
LEMMA ConformanceStep ==
  ASSUME TypeOK, Agreement, UNCHANGED execVars, owner.pc # "write", coord.pc # "write",
         Conformance
  PROVE  TypeOK' /\ Agreement' /\ Kept
<1>0. exec \in ExecRecords /\ next = (exec.last + 1) % N /\ next \in Vault
  BY DEF TypeOK, ExecRecords, Agreement
<1>1. /\ UNCHANGED <<rows, next>> /\ exec.pc = "idle" /\ lane.st = "confirmed"
      /\ lane.v \in Vault
  BY DEF Conformance, TypeOK
<1>2. Kept
  BY <1>1 DEF Kept
<1>3. CASE lane' = [lane EXCEPT !.st = "validated"] /\ UNCHANGED <<runtime, exec>>
  <2>1. lane' \in [v : Vault, st : LaneState] /\ lane'.st = "validated"
    BY <1>3 DEF TypeOK, LaneState
  <2> QED
    BY <1>0, <1>1, <1>2, <1>3, <2>1, ExecSuffices DEF TypeOK
<1>4. CASE Recover(lane.v, "persist", exec) /\ UNCHANGED lane
  <2>1. runtime' \in [Vault -> State]
    BY Zenon, <1>0, <1>1, <1>4, RecoverKeepsStates DEF TypeOK
  <2>2. /\ exec' \in ExecRecords /\ exec'.last = exec.last
        /\ exec'.pc = "idle" \/ (exec'.pc = "rebuild" /\ exec'.back = "persist")
    <3>1. \/ UNCHANGED runtime /\ exec' \in ExecRecords /\ exec'.pc = "idle" /\ exec'.last = exec.last
          \/ /\ runtime' = [runtime EXCEPT ![lane.v] = "Recovery"]
             /\ exec' \in ExecRecords /\ exec'.pc = "rebuild" /\ exec'.v = lane.v
             /\ exec'.back = "persist" /\ exec'.todo = exec.todo /\ exec'.last = exec.last
      BY Zenon, <1>0, <1>1, <1>4, RecoverResult
    <3> QED
      BY <3>1
  <2>3. next' = (exec'.last + 1) % N
    BY <1>0, <1>1, <2>2
  <2> QED
    BY <1>0, <1>1, <1>2, <1>4, <2>1, <2>2, <2>3, ExecSuffices DEF TypeOK
<1>5. CASE PauseReconciliation(lane.v) /\ UNCHANGED <<lane, exec>>
  <2>1. runtime' \in [Vault -> State]
    BY <1>1, <1>5 DEF PauseReconciliation, Set, TypeOK, State, Quarantine
  <2> QED
    BY <1>0, <1>1, <1>2, <1>5, <2>1, ExecSuffices DEF TypeOK
<1> QED
  BY <1>3, <1>4, <1>5 DEF Conformance

\* reconcile_validated_post_state either releases the row and takes the vault out
\* of quarantine, or quarantines it and keeps the row.
LEMMA PostStateResult ==
  ASSUME TypeOK, NEW v \in Vault, NEW back \in {"idle", "rows"}, NEW after \in ExecRecords,
         after.last = exec.last, NEW release \in BOOLEAN, PostState(v, release, back, after)
  PROVE  /\ exec' \in ExecRecords /\ exec'.last = exec.last
         /\ runtime' \in [Vault -> State]
         /\ \A u \in Vault : u # v => runtime'[u] = runtime[u]
         /\ \/ release /\ exec' = after /\ (runtime' = runtime \/ ~Quarantined(v)')
            \/ release /\ exec'.pc = "idle" /\ runtime' = runtime
            \/ /\ release /\ exec'.pc = "rebuild" /\ exec'.v = v /\ exec'.back = back
               /\ exec'.todo = after.todo /\ ~Quarantined(v)'
            \/ exec' = after /\ UNCHANGED <<lane, rows>>
<1>1. CASE release /\ Reconciled(v) /\ exec' = after
  <2>1. SnapshotState(v) \in State \ Quarantine
    BY SnapshotStates
  <2>2. /\ runtime' \in [Vault -> State]
        /\ \A u \in Vault : u # v => runtime'[u] = runtime[u]
        /\ runtime' = runtime \/ runtime'[v] \notin Quarantine
    BY <1>1, <2>1 DEF Reconciled, Set, TypeOK
  <2> QED
    BY <1>1, <2>2 DEF Quarantined
<1>2. CASE release /\ Recover(v, back, after)
  <2>1. /\ "Recovery" \in State \ Quarantine
    BY DEF State, Quarantine
  <2>2. \/ UNCHANGED runtime /\ exec' \in ExecRecords /\ exec'.pc = "idle" /\ exec'.last = exec.last
        \/ /\ runtime' = [runtime EXCEPT ![v] = "Recovery"]
           /\ exec' \in ExecRecords /\ exec'.pc = "rebuild" /\ exec'.v = v
           /\ exec'.back = back /\ exec'.todo = after.todo /\ exec'.last = after.last
    BY <1>2, RecoverResult DEF TypeOK, ExecRecords
  <2> QED
    BY <1>2, <2>1, <2>2 DEF TypeOK, Quarantined
<1>3. CASE PauseReconciliation(v) /\ exec' = after /\ UNCHANGED <<lane, rows>>
  BY <1>3 DEF PauseReconciliation, Set, TypeOK, State, Quarantine
<1> QED
  BY <1>1, <1>2, <1>3 DEF PostState

LEMMA ValidatedStep ==
  ASSUME TypeOK, Agreement, UNCHANGED execVars, owner.pc # "write", coord.pc # "write",
         Validated
  PROVE  TypeOK' /\ Agreement' /\ Kept
<1> DEFINE release == lane' = NoLane /\ UNCHANGED rows
<1>0. exec \in ExecRecords /\ next = (exec.last + 1) % N /\ next \in Vault
  BY DEF TypeOK, ExecRecords, Agreement
<1>1. /\ next' = next /\ exec.pc = "idle" /\ lane.st = "validated" /\ lane.v \in Vault
      /\ PostState(lane.v, release, "idle", exec)
  BY DEF Validated, TypeOK
<1>2. Kept
  BY <1>1 DEF Kept
<1>3. release => lane' \in [v : Vault, st : LaneState] /\ lane'.st = "free" /\ rows' \subseteq Vault
  BY Instances DEF NoLane, LaneState, TypeOK
<1>4. UNCHANGED <<lane, rows>> =>
        lane' \in [v : Vault, st : LaneState] /\ lane'.st # "foreign" /\ rows' \subseteq Vault
  BY <1>1 DEF TypeOK
<1>5. release \in BOOLEAN
  OBVIOUS
<1> HIDE DEF release
<1>6. /\ exec' \in ExecRecords /\ exec'.last = exec.last /\ runtime' \in [Vault -> State]
      /\ \/ (release \/ UNCHANGED <<lane, rows>>) /\ exec'.pc = "idle"
         \/ /\ release /\ exec'.pc = "rebuild" /\ exec'.v = lane.v /\ exec'.back = "idle"
            /\ runtime'[lane.v] \notin Quarantine
  BY Zenon, <1>0, <1>1, <1>5, PostStateResult DEF Quarantined
<1>7. CASE (release \/ UNCHANGED <<lane, rows>>) /\ exec'.pc = "idle"
  BY <1>0, <1>1, <1>2, <1>3, <1>4, <1>6, <1>7, ExecSuffices
<1>8. CASE /\ release /\ exec'.pc = "rebuild" /\ exec'.v = lane.v /\ exec'.back = "idle"
           /\ runtime'[lane.v] \notin Quarantine
  <2>1. runtime'[exec'.v] \notin Quarantine
    BY <1>8
  <2> QED
    BY <1>0, <1>1, <1>2, <1>3, <1>6, <1>8, <2>1, ExecSuffices
<1> QED
  BY <1>6, <1>7, <1>8

LEMMA RowStep ==
  ASSUME TypeOK, Agreement, UNCHANGED execVars, owner.pc # "write", coord.pc # "write",
         NEW v \in Vault, ReconcileRow(v)
  PROVE  TypeOK' /\ Agreement' /\ Kept
<1> DEFINE release == rows' = rows \ {v} /\ UNCHANGED lane
           after == [exec EXCEPT !.todo = @ \ {v}]
<1>0. exec \in ExecRecords /\ next = (exec.last + 1) % N /\ next \in Vault
  BY DEF TypeOK, ExecRecords, Agreement
<1>1. /\ next' = next /\ exec.pc = "rows" /\ v \in exec.todo /\ lane.st = "free"
      /\ \A u \in exec.todo : ~Quarantined(u)
  BY DEF ReconcileRow, Agreement
<1>2. /\ after \in ExecRecords /\ after.last = exec.last /\ after.todo = exec.todo \ {v}
      /\ after.pc = "rows" /\ exec.todo \subseteq Vault
  BY <1>0, <1>1 DEF ExecRecords
<1>3. \/ exec' = after /\ UNCHANGED <<runtime, lane, rows>>
      \/ PostState(v, release, "rows", after)
  BY DEF ReconcileRow
<1>4. release \in BOOLEAN /\ (release \/ UNCHANGED <<lane, rows>> => lane' = lane /\ rows' \subseteq Vault)
  BY DEF TypeOK
<1> HIDE DEF release, after
<1>5. CASE exec' = after /\ UNCHANGED <<runtime, lane, rows>>
  <2>1. runtime' \in [Vault -> State] /\ rows' \subseteq Vault
        /\ lane' \in [v : Vault, st : LaneState]
    BY <1>5 DEF TypeOK
  <2>2. (\A u \in exec'.todo : ~Quarantined(u)') /\ Kept
    BY <1>1, <1>2, <1>5 DEF Quarantined, Kept
  <2>3. next' = (exec'.last + 1) % N /\ exec' \in ExecRecords /\ exec'.pc = "rows"
    BY <1>0, <1>1, <1>2, <1>5
  <2>4. lane'.st = "free" /\ next' \in Vault
    BY <1>0, <1>1, <1>5
  <2> QED
    BY <2>1, <2>2, <2>3, <2>4, ExecSuffices
<1>6. CASE PostState(v, release, "rows", after)
  <2>1. /\ exec' \in ExecRecords /\ exec'.last = exec.last
        /\ runtime' \in [Vault -> State]
        /\ \A u \in Vault : u # v => runtime'[u] = runtime[u]
        /\ \/ release /\ exec' = after /\ (runtime' = runtime \/ ~Quarantined(v)')
           \/ release /\ exec'.pc = "idle" /\ runtime' = runtime
           \/ /\ release /\ exec'.pc = "rebuild" /\ exec'.v = v /\ exec'.back = "rows"
              /\ exec'.todo = after.todo /\ ~Quarantined(v)'
           \/ exec' = after /\ UNCHANGED <<lane, rows>>
    BY <1>2, <1>4, <1>6, PostStateResult
  <2>2. lane' = lane /\ rows' \subseteq Vault
    BY <1>4, <2>1
  <2>3. next' = (exec'.last + 1) % N /\ next' \in Vault
    BY <1>0, <1>1, <2>1
  <2>4. Kept
    BY <1>1, <2>1 DEF Kept, Quarantined
  <2>5. \A u \in exec.todo \ {v} : ~Quarantined(u)'
    BY <1>1, <1>2, <2>1 DEF Quarantined
  <2>6. \/ exec'.pc = "idle"
        \/ exec'.pc = "rows" /\ exec'.todo = exec.todo \ {v}
        \/ /\ exec'.pc = "rebuild" /\ exec'.back = "rows" /\ exec'.todo = exec.todo \ {v}
           /\ runtime'[exec'.v] \notin Quarantine
    BY <1>2, <2>1 DEF Quarantined
  <2>7. lane' \in [v : Vault, st : LaneState] /\ lane'.st = "free"
    BY <1>1, <2>2 DEF TypeOK
  <2> QED
    BY <2>1, <2>2, <2>3, <2>4, <2>5, <2>6, <2>7, ExecSuffices
<1> QED
  BY <1>3, <1>5, <1>6

LEMMA StartSteps ==
  ASSUME TypeOK, Agreement, UNCHANGED execVars, owner.pc # "write", coord.pc # "write",
         TickStart \/ Execute \/ Preflight \/ Signed
  PROVE  TypeOK' /\ Agreement' /\ Kept
<1>0. exec \in ExecRecords /\ next = (exec.last + 1) % N /\ next \in Vault
      /\ lane \in [v : Vault, st : LaneState] /\ rows \subseteq Vault
      /\ runtime \in [Vault -> State]
  BY DEF TypeOK, ExecRecords, Agreement
<1>1. CASE TickStart
  <2>1. UNCHANGED <<runtime, lane, rows, next>> /\ lane.st = "free"
    BY SMTT(30), <1>1 DEF TickStart
  <2>2. /\ exec' \in ExecRecords /\ exec'.pc = "rows" /\ exec'.last = exec.last
        /\ \A v \in exec'.todo : ~Quarantined(v)
    BY Zenon, <1>0, <1>1 DEF TickStart, ExecRecords, Quarantined
  <2>3. (\A v \in exec'.todo : ~Quarantined(v)') /\ Kept
    BY <2>1, <2>2 DEF Quarantined, Kept
  <2>4. next' = (exec'.last + 1) % N
    BY <1>0, <2>1, <2>2
  <2> QED
    BY <1>0, <2>1, <2>2, <2>3, <2>4, ExecSuffices
<1>2. CASE Execute
  <2>1. UNCHANGED <<runtime, lane, rows>> /\ lane.st = "free" /\ Kept
    BY Zenon, <1>2 DEF Execute, Agreement, Kept, Quarantined
  <2>2. CASE exec' = Rest /\ UNCHANGED next
    BY <1>0, <2>1, <2>2, RestIsIdle, ExecSuffices
  <2>3. ASSUME NEW v \in Startable, next' = NextIndex(v),
               exec' = [exec EXCEPT !.pc = "preflight", !.v = v, !.last = v]
        PROVE  TypeOK' /\ Agreement'
    <3>1. v \in Vault /\ runtime[v] = "Automatic"
      BY DEF Startable
    <3>2. /\ exec' \in ExecRecords /\ exec'.pc = "preflight" /\ exec'.v = v
          /\ exec'.last = v
      BY Zenon, <1>0, <2>3, <3>1 DEF ExecRecords
    <3>3. next' = (exec'.last + 1) % N /\ next' \in Vault
      BY <2>3, <3>1, <3>2, Modulo, RuntimeAssumption DEF NextIndex, Vault
    <3>4. runtime'[exec'.v] \notin Quarantine
      BY <2>1, <3>1, <3>2 DEF Quarantine
    <3> QED
      BY <1>0, <2>1, <3>2, <3>3, <3>4, ExecSuffices
  <2> QED
    BY ZenonT(30), <1>2, <2>1, <2>2, <2>3 DEF Execute
<1>3. CASE Preflight
  <2>1. /\ UNCHANGED <<rows, next>> /\ exec.pc = "preflight" /\ lane.st = "free"
        /\ exec.v \in Vault /\ ~Quarantined(exec.v)
    BY <1>3 DEF Preflight, Agreement, TypeOK
  <2>2. CASE UNCHANGED <<runtime, lane>> /\ exec' = Rest
    BY <1>0, <2>1, <2>2, RestIsIdle, ExecSuffices DEF Kept, Quarantined
  <2>3. CASE /\ UNCHANGED lane /\ exec' = Rest
             /\ Set(exec.v, "PausedUnsupportedConfiguration") \/ PauseSigner
    <3>1. runtime' \in [Vault -> State]
      BY <1>0, <2>1, <2>3 DEF Set, PauseSigner, State, Derived, Quarantine
    <3>2. Kept
      BY <1>0, <2>1, <2>3 DEF Set, PauseSigner, Kept, Quarantined, Quarantine
    <3> QED
      BY <1>0, <2>1, <2>3, <3>1, <3>2, RestIsIdle, ExecSuffices
  <2>4. CASE /\ lane' = [v |-> exec.v, st |-> "open"] /\ UNCHANGED runtime
             /\ exec' = [exec EXCEPT !.pc = "signed"]
    <3>1. lane' \in [v : Vault, st : LaneState] /\ lane'.st = "open"
      BY <2>1, <2>4 DEF LaneState
    <3>2. exec' \in ExecRecords /\ exec'.pc = "signed" /\ exec'.last = exec.last
      BY <1>0, <2>4 DEF ExecRecords
    <3>3. next' = (exec'.last + 1) % N
      BY <1>0, <2>1, <3>2
    <3>4. Kept
      BY SMTT(30), <2>4 DEF Kept, Quarantined
    <3> QED
      BY <1>0, <2>1, <2>4, <3>1, <3>2, <3>3, <3>4, ExecSuffices
  <2> QED
    BY <1>3, <2>2, <2>3, <2>4 DEF Preflight
<1>4. CASE Signed
  <2>1. UNCHANGED <<lane, rows, next>> /\ lane.st = "open" /\ exec' = Rest /\ exec.v \in Vault
    BY <1>4 DEF Signed, Agreement, TypeOK
  <2>2. runtime' \in [Vault -> State]
    BY <1>0, <1>4, <2>1 DEF Signed, Set, State, Derived
  <2> QED
    BY <1>0, <2>1, <2>2, RestIsIdle, ExecSuffices DEF Kept
<1> QED
  BY <1>1, <1>2, <1>3, <1>4

LEMMA NextKeeps ==
  ASSUME Gaps = {}, TypeOK, Agreement, [Next]_vars
  PROVE  TypeOK' /\ Agreement' /\ Kept
<1>1. CASE Tick
  <2>1. UNCHANGED execVars /\ owner.pc # "write" /\ coord.pc # "write"
    BY <1>1 DEF Tick, Alone, Atomic
  <2> QED
    BY <1>1, <2>1, PauseSteps, RecoverySteps, ConformanceStep, ValidatedStep, RowStep,
       StartSteps DEF Tick
<1>2. CASE UNCHANGED vars
  BY <1>2, NeutralKeeps DEF vars, TypeOK, Neutral, Quarantined
<1> QED
  BY <1>1, <1>2, StateWorkerKeeps, CoordinatorKeeps, LandKeeps DEF Next

LEMMA ForeignStays ==
  ASSUME TypeOK, Agreement, lane.st = "foreign", [Next]_vars PROVE lane'.st = "foreign"
<1>1. exec.pc \notin {"persist", "rows", "preflight", "signed", "rebuild"}
  BY DEF Agreement
<1>2. CASE StateWorker
  BY Zenon, <1>2 DEF StateWorker, Head, StrategyTick, ProviderDegraded, ReorgDetected,
     RefreshWrite, ApplyEvent, RefreshFails, RefreshRead
<1>3. CASE Coordinator
  BY ZenonT(30), <1>3 DEF Coordinator, Plan, PlanFails, PlanFailsWrite
<1>4. CASE Tick
  BY Zenon, <1>1, <1>4 DEF Tick, SubmissionFails, ForeignNonce, TerminalOutcome, RebuildFails,
     Rebuild, PersistOutcome, Conformance, Validated, TickStart, Execute, Preflight, Signed,
     ReconcileRow, TypeOK
<1>5. CASE Land \/ UNCHANGED vars
  BY <1>5 DEF Land, vars
<1> QED
  BY <1>2, <1>3, <1>4, <1>5 DEF Next

LEMMA RuntimeInvariant == Gaps = {} => (Spec => [](TypeOK /\ Agreement))
<1> SUFFICES ASSUME Gaps = {} PROVE Spec => [](TypeOK /\ Agreement)
  OBVIOUS
<1> DEFINE Inv == TypeOK /\ Agreement
<1>1. Init => Inv
  BY RuntimeInit
<1>2. Inv /\ [Next]_vars => Inv'
  BY NextKeeps
<1> HIDE DEF Inv
<1>3. Spec => []Inv
  BY <1>1, <1>2, PTL DEF Spec
<1> QED
  BY <1>3 DEF Inv

(* For every number of vaults: a signer or reconciliation quarantine ends only
   while a transaction of the signer is unresolved, provided the execution worker
   does not come between another worker's read of a status and its write.
   (preserve_active_quarantine and the status updates of the three workers) *)
THEOREM QuarantinesStay == Gaps = {} => (Spec => QuarantineKept)
<1> SUFFICES ASSUME Gaps = {} PROVE Spec => QuarantineKept
  OBVIOUS
<1> DEFINE Inv == TypeOK /\ Agreement
           Step == \A v \in Vault : runtime[v] \in Quarantine /\ runtime'[v] \notin Quarantine
                      => lane.st # "free"
<1>1. Spec => []Inv
  BY RuntimeInvariant
<1>2. Inv /\ [Next]_vars => [Step]_vars
  BY NextKeeps DEF Kept, Quarantined
<1>3. QuarantineKept <=> [][Step]_vars
  BY DEF QuarantineKept
<1> HIDE DEF Inv, Step
<1> QED
  BY <1>1, <1>2, <1>3, PTL DEF Spec

(* For every number of vaults, and without any fairness: once a tick has found
   the nonce spent by an unknown transaction, every vault of the signer is paused
   and stays paused. (pause_signer_account, refresh_exact_at_head) *)
THEOREM ForeignClosesForever == Gaps = {} => (Spec => ForeignClosesSigner)
<1> SUFFICES ASSUME Gaps = {} PROVE Spec => ForeignClosesSigner
  OBVIOUS
<1> DEFINE Inv == TypeOK /\ Agreement
           Foreign == lane.st = "foreign"
           Closed == \A v \in Vault : runtime[v] = "PausedSignerFailure"
<1>1. Spec => []Inv
  BY RuntimeInvariant
<1>2. Inv /\ Foreign /\ [Next]_vars => Foreign'
  BY ForeignStays
<1>3. Inv /\ Foreign => Closed
  BY DEF Agreement
<1>4. ForeignClosesSigner <=> (Foreign ~> []Closed)
  BY DEF ForeignClosesSigner
<1> HIDE DEF Inv, Foreign, Closed
<1> QED
  BY <1>1, <1>2, <1>3, <1>4, PTL DEF Spec

-----------------------------------------------------------------------------
(* The round robin, whoever comes between a read and its write. *)

Turn ==
    /\ exec \in ExecRecords /\ next = (exec.last + 1) % N
    /\ lane \in [v : Vault, st : LaneState] /\ rows \subseteq Vault

LEMMA TurnStep ==
  ASSUME Turn, [Next]_vars
  PROVE  /\ Turn'
         /\ exec.pc = "rows" /\ exec'.pc = "preflight" => Execute
<1> USE DEF Turn
<1>0. NoLane \in [v : Vault, st : LaneState]
  BY Instances DEF NoLane, LaneState
<1>1. CASE StateWorker \/ Coordinator \/ Land \/ UNCHANGED vars
  <2>1. UNCHANGED <<exec, next>> /\ (lane' = lane \/ Land) /\ rows' \subseteq Vault
    BY Zenon, <1>1 DEF StateWorker, Head, StrategyTick, ProviderDegraded, ReorgDetected,
       RefreshWrite, ApplyEvent, RefreshFails, RefreshRead, Coordinator, Plan, PlanFails,
       PlanFailsWrite, Land, vars
  <2>2. Land => lane' \in [v : Vault, st : LaneState]
    BY DEF Land, LaneState
  <2> QED
    BY <2>1, <2>2
<1>2. ASSUME NEW v \in Vault, NEW back \in {"idle", "persist", "rows"},
             NEW after \in ExecRecords, after.last = exec.last, Recover(v, back, after)
      PROVE  exec' \in ExecRecords /\ exec'.last = exec.last /\ exec'.pc # "preflight"
  BY <1>2, RecoverResult
<1>3. CASE SubmissionFails \/ ForeignNonce
  BY <1>3 DEF SubmissionFails, ForeignNonce, LaneState
<1>4. CASE TerminalOutcome
  BY <1>2, <1>4 DEF TerminalOutcome
<1>5. CASE RebuildFails \/ PersistOutcome \/ Signed
  BY <1>0, <1>5, RestIsIdle DEF RebuildFails, PersistOutcome, Signed
<1>6. CASE Rebuild
  <2>1. UNCHANGED <<next, lane, rows>> /\ (exec' = Rest \/ exec' = AfterRebuild)
    BY <1>6 DEF Rebuild
  <2>2. AfterRebuild \in ExecRecords /\ AfterRebuild.last = exec.last /\ AfterRebuild.pc # "preflight"
    BY Zenon, RestIsIdle, Instances DEF AfterRebuild, ExecRecords
  <2> QED
    BY <2>1, <2>2, RestIsIdle
<1>7. CASE Conformance
  BY <1>2, <1>7 DEF Conformance, LaneState
<1>8. ASSUME NEW v \in Vault, NEW back \in {"idle", "rows"}, NEW after \in ExecRecords,
             after.last = exec.last, after.pc # "preflight", NEW release \in BOOLEAN,
             PostState(v, release, back, after)
      PROVE  /\ exec' \in ExecRecords /\ exec'.last = exec.last /\ exec'.pc # "preflight"
             /\ release \/ UNCHANGED <<lane, rows>>
  <2>1. CASE release /\ Recover(v, back, after)
    BY <1>2, <1>8, <2>1
  <2> QED
    BY <1>8, <2>1 DEF PostState
<1>9. CASE Validated
  <2> DEFINE release == lane' = NoLane /\ UNCHANGED rows
  <2>1. PostState(lane.v, release, "idle", exec) /\ next' = next /\ exec.pc # "preflight"
    BY <1>9 DEF Validated
  <2>2. release \in BOOLEAN /\ (release \/ UNCHANGED <<lane, rows>> =>
                                 lane' \in [v : Vault, st : LaneState] /\ rows' \subseteq Vault)
    BY <1>0
  <2> HIDE DEF release
  <2> QED
    BY <1>8, <2>1, <2>2
<1>10. ASSUME NEW v \in Vault, ReconcileRow(v) PROVE Turn' /\ exec'.pc # "preflight"
  <2> DEFINE release == rows' = rows \ {v} /\ UNCHANGED lane
             after == [exec EXCEPT !.todo = @ \ {v}]
  <2>1. /\ next' = next
        /\ \/ exec' = after /\ UNCHANGED <<lane, rows>>
           \/ PostState(v, release, "rows", after)
    BY <1>10 DEF ReconcileRow
  <2>2. after \in ExecRecords /\ after.last = exec.last /\ after.pc # "preflight"
    BY <1>10 DEF ReconcileRow, ExecRecords
  <2>3. release \in BOOLEAN /\ (release \/ UNCHANGED <<lane, rows>> =>
                                 lane' \in [v : Vault, st : LaneState] /\ rows' \subseteq Vault)
    OBVIOUS
  <2> HIDE DEF release, after
  <2> QED
    BY <1>8, <2>1, <2>2, <2>3
<1>11. CASE TickStart
  <2>1. exec' \in ExecRecords /\ exec'.last = exec.last /\ exec'.pc = "rows"
    BY Zenon, <1>11 DEF TickStart, ExecRecords
  <2> QED
    BY SMTT(30), <1>11, <2>1 DEF TickStart
<1>12. CASE Execute
  <2>1. UNCHANGED <<lane, rows>>
    BY Zenon, <1>12 DEF Execute
  <2>2. CASE exec' = Rest /\ UNCHANGED next
    BY <1>12, <2>1, <2>2, RestIsIdle
  <2>3. ASSUME NEW v \in Startable, next' = NextIndex(v),
               exec' = [exec EXCEPT !.pc = "preflight", !.v = v, !.last = v]
        PROVE  Turn'
    <3>1. exec' \in ExecRecords /\ exec'.last = v
      BY Zenon, <2>3 DEF ExecRecords, Startable
    <3> QED
      BY <2>1, <2>3, <3>1 DEF NextIndex
  <2> QED
    BY ZenonT(30), <1>12, <2>2, <2>3 DEF Execute
<1>13. CASE Preflight
  <2>1. /\ UNCHANGED <<rows, next>> /\ exec.pc = "preflight"
        /\ lane' = lane \/ lane' = [v |-> exec.v, st |-> "open"]
        /\ exec' = Rest \/ exec' = [exec EXCEPT !.pc = "signed"]
    BY <1>13 DEF Preflight
  <2>2. exec' \in ExecRecords /\ exec'.last = exec.last /\ lane' \in [v : Vault, st : LaneState]
    BY <2>1, RestIsIdle DEF ExecRecords, LaneState
  <2> QED
    BY <2>1, <2>2
<1> QED
  BY <1>1, <1>3, <1>4, <1>5, <1>6, <1>7, <1>9, <1>10, <1>11, <1>12, <1>13 DEF Next, Tick

(* For every number of vaults, and wherever the workers interleave: the lane is
   offered to the vault that comes first after the one attempted last.
   (next_vault_index, execution_service.rs) *)
THEOREM TurnsAreTaken == Spec => TurnsTaken
<1> DEFINE After(v) == (v + N - (exec.last + 1)) % N
           Step == exec.pc = "rows" /\ exec'.pc = "preflight" =>
                     \A u \in Startable : After(exec'.v) <= After(u)
<1>1. Init => Turn
  BY RuntimeInit DEF TypeOK, Agreement, Turn, ExecRecords
<1>2. Turn /\ [Next]_vars => Turn'
  BY TurnStep
<1>3. ASSUME Turn, [Next]_vars PROVE [Step]_vars
  <2> SUFFICES ASSUME exec.pc = "rows", exec'.pc = "preflight", NEW u \in Startable
               PROVE  After(exec'.v) <= After(u)
    OBVIOUS
  <2>1. exec.last \in Vault /\ next = (exec.last + 1) % N
    BY <1>3 DEF Turn, ExecRecords
  <2>2. \A v \in Vault : Distance(v) = After(v)
    <3>1. TAKE v \in Vault
    <3>2. CASE exec.last = N - 1
      <4>1. next = 0 /\ exec.last + 1 = N
        BY <2>1, <3>2, Modulo, RuntimeAssumption DEF Vault
      <4>2. v + N - 0 = v + N /\ v + N - N = v
        BY RuntimeAssumption DEF Vault
      <4> QED
        BY <4>1, <4>2, Modulo DEF Distance
    <3>3. CASE exec.last # N - 1
      BY <2>1, <3>3, Modulo DEF Distance
    <3> QED
      BY <3>2, <3>3
  <2>3. Execute
    BY <1>3, TurnStep
  <2>4. exec' # Rest
    BY SMTT(30), <1>3, RestIsIdle DEF Turn
  <2>5. PICK v \in Startable :
          /\ \A w \in Startable : Distance(v) <= Distance(w)
          /\ exec' = [exec EXCEPT !.pc = "preflight", !.v = v, !.last = v]
    BY Zenon, <2>3, <2>4 DEF Execute
  <2>6. exec'.v = v
    BY <1>3, <2>5 DEF Turn, ExecRecords
  <2> QED
    BY <2>2, <2>5, <2>6 DEF Startable
<1>4. TurnsTaken <=> [][Step]_vars
  BY DEF TurnsTaken
<1> HIDE DEF Step
<1> QED
  BY <1>1, <1>2, <1>3, <1>4, PTL DEF Spec
=============================================================================
