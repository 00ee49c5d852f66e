----------------------------- MODULE TopKMemory -----------------------------
(* The durable memory of the diversified strategy. The planner, the preflight *)
(* and the recovery each hold the snapshot of a block that was the head, load *)
(* the memory, observe, and persist what they derived (planning_service.rs,   *)
(* preflight_source.rs, current_state_source.rs), while blocks arrive and the *)
(* chain service rewinds. The store keeps one memory per observed block.      *)
EXTENDS TopK

CONSTANTS
    TopKConfig,     \* the configuration the observers share
    Views,          \* what a block may show: [ev, assets, direct]
    FirstView,      \* what the first blocks showed
    Observers,      \* concurrent observers of the vault
    MaxBlocks,      \* further blocks
    MaxLooks,       \* further observations
    MaxSpan         \* seconds between two blocks, at most

ASSUME MemoryAssumption ==
    /\ TopKConfig.top.window \in Nat /\ FirstView \in Views
    /\ MaxBlocks \in Nat /\ MaxSpan \in Nat
    /\ \A v \in Views : \A p \in DOMAIN v.ev : v.ev[p].cur \in Nat

VARIABLES
    chain,          \* the stored canonical blocks: [n, t, view]
    held,           \* blocks whose snapshot an observer may hold
    table,          \* the stored memories, one per observed block
    job,            \* per observer: what it has observed and not persisted yet
    seen,           \* ghost: every set proposed, with the first time of it
    mined,          \* further blocks so far
    looks           \* further observations so far

memoryVars == <<chain, held, table, job, seen, mined, looks>>

NoJob == <<>>

\* LoadTopKApyMemory: the memory of the latest block.
Latest(entries) ==
    IF entries = {} THEN FreshMemory
    ELSE CHOOSE e \in entries : \A f \in entries : f.blk <= e.blk

\* rewind: what was observed above the ancestor is forgotten.
KeptMemory(entries, ancestor) == {e \in entries : e.blk <= ancestor}

\* Two observed blocks: the second confirmed what the first proposed.
FirstBlock(n) == [n |-> n, t |-> n * TopKConfig.top.window, view |-> FirstView]
ObserveAt(old, b) == Observe(TopKConfig, b.view, old, b.n, b.t)

Remembered(first) ==
    /\ table = {first.mem, ObserveAt(first.mem, FirstBlock(2)).mem}
    /\ seen = {[set |-> first.proposed, t |-> FirstBlock(1).t]}

MemoryInit ==
    /\ chain = <<FirstBlock(1), FirstBlock(2)>> /\ held = {FirstBlock(2)}
    /\ Remembered(ObserveAt(FreshMemory, FirstBlock(1)))
    /\ job = [o \in Observers |-> NoJob] /\ mined = 0 /\ looks = 0

NewBlock(view, span) ==
    /\ mined < MaxBlocks
    /\ mined' = mined + 1
    /\ LET t == span + IF chain = <<>> THEN 0 ELSE chain[Len(chain)].t
           b == [n |-> Len(chain) + 1, t |-> t, view |-> view]
       IN  chain' = Append(chain, b) /\ held' = held \cup {b}
    /\ UNCHANGED <<table, job, seen, looks>>

RewindMemory(ancestor) ==
    /\ ancestor < Len(chain) /\ mined < MaxBlocks
    /\ chain' = SubSeq(chain, 1, ancestor)
    /\ table' = KeptMemory(table, ancestor)
    /\ UNCHANGED <<held, job, seen, mined, looks>>

\* load_top_k_apy_memory, then observe_top_k_target of the snapshot's block.
Looked(o, b, old, obs) ==
    /\ job' = [job EXCEPT ![o] = [block |-> b, old |-> old.sel, mem |-> obs.mem]]
    /\ seen' = IF \E p \in seen : p.set = obs.proposed /\ p.t <= b.t THEN seen
               ELSE seen \cup {[set |-> obs.proposed, t |-> b.t]}

ObserveBlock(o, b) ==
    /\ job[o] = NoJob /\ looks < MaxLooks
    /\ looks' = looks + 1
    /\ Looked(o, b, Latest(table), ObserveAt(Latest(table), b))
    /\ UNCHANGED <<chain, held, table, mined>>

PersistMemory(o) ==
    /\ job[o] # NoJob
    /\ LET m == job[o].mem IN table' = {e \in table : e.blk # m.blk} \cup {m}
    /\ job' = [job EXCEPT ![o] = NoJob]
    /\ UNCHANGED <<chain, held, seen, mined, looks>>

\* PersistTopKApyMemory refuses a memory newer than the head the preflight read
\* before it read the cursor; a restarted worker also forgets what it observed.
AbandonMemory(o) ==
    /\ job[o] # NoJob
    /\ job' = [job EXCEPT ![o] = NoJob]
    /\ UNCHANGED <<chain, held, table, seen, mined, looks>>

MemoryNext ==
    \/ \E v \in Views, span \in 1..MaxSpan : NewBlock(v, span)
    \/ \E k \in 0..(MaxBlocks + 1) : RewindMemory(k)
    \/ \E o \in Observers, b \in held : ObserveBlock(o, b)
    \/ \E o \in Observers : PersistMemory(o) \/ AbandonMemory(o)

MemorySpec == MemoryInit /\ [][MemoryNext]_memoryVars

--------------------------------------------------------------------------
(* Properties. *)

Observed(o) == job[o] # NoJob

\* membership_confirmed: a set replaces an eligible one only if the same set
\* was proposed at a block at least the window earlier, whichever observers,
\* retries and rewinds came between.
ChangeIsConfirmed ==
    \A o \in Observers : Observed(o) =>
        LET old == job[o].old
            new == job[o].mem.sel
            b == job[o].block
        IN  new # old /\ Range(old) \subseteq DOMAIN b.view.ev =>
                \E p \in seen : p.set = new /\ p.t + TopKConfig.top.window <= b.t

\* observe_top_k_target: a block counts once. The second observer of a block
\* smooths nothing, confirms nothing and counts no generation.
ObservedOnce ==
    \A o \in Observers : Observed(o) =>
        ObserveAt(job[o].mem, job[o].block).mem = job[o].mem
============================================================================
