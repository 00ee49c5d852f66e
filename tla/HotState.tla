------------------------------ MODULE HotState ------------------------------
(***************************************************************************)
(* Compaction of the durable state (compact_hot_state in storage/actor.rs) *)
(* against the queries that the services ask of it.                        *)
(*                                                                         *)
(* Every committed command runs on two copies of the tables: hot, which    *)
(* commit compacts every SegmentEvents commands, and full, which nothing   *)
(* compacts.  Compaction is right when no query can tell them apart.       *)
(*                                                                         *)
(* Each block carries one watched log and has its number as timestamp.  A  *)
(* transaction is active or terminal; its plan has the same identity.      *)
(***************************************************************************)
EXTENDS Integers, SequencesExt

CONSTANTS
    Vault,          \* managed vaults
    Started,        \* vaults whose topology had a checkpoint at block 0
    MaxHead,        \* bound on block numbers
    MaxRows,        \* bound on transactions
    MaxRewinds,     \* bound on rewinds
    SegmentEvents,  \* JOURNAL_SEGMENT_EVENTS
    Rescan,         \* MAX_DURABLE_REORG_RESCAN_BLOCKS
    HotBlocks,      \* HOT_BLOCK_RETENTION
    HotSnapshots,   \* HOT_SNAPSHOT_RETENTION
    HotPlans,       \* HOT_PLAN_RETENTION
    HotTransactions, \* HOT_TRANSACTION_RETENTION
    DailyRows,      \* the policy's transactions per rolling day
    Day             \* one day; ROLLING_POLICY_RETENTION_SECONDS is two

ASSUME HotAssumption ==
    /\ Started \subseteq Vault
    /\ {MaxHead, MaxRows, MaxRewinds, Rescan, Day} \subseteq Nat
    /\ {SegmentEvents, HotBlocks, HotSnapshots, HotPlans, HotTransactions,
        DailyRows}           \subseteq Nat \ {0}

VARIABLES hot, full, head, revision, rewinds,
          peak     \* the highest block seen; forks start at most Rescan below

vars == <<hot, full, head, revision, rewinds, peak>>

Monus(a, b) == IF a > b THEN a - b ELSE 0

Row(s, t) == CHOOSE r \in s.txs : r.id = t
Ids(s) == {r.id : r \in s.txs}
Active(s) == {r \in s.txs : r.state # "terminal"}

-----------------------------------------------------------------------------
(* compact_hot_state                                                       *)

\* Bug: off by one, no entry is left at the oldest ancestor.
TailOneShort(table, n) ==
    {e \in table : Cardinality({f \in table : f.vault = e.vault /\ f.block > e.block}) < n - 1}

\* The last n entries of a vault, in block order.  Top-K memory is kept by the
\* same rule as topology, and only topology is modelled.
TailPerVault(table, n) ==
    {e \in table : Cardinality({f \in table : f.vault = e.vault /\ f.block > e.block}) < n}

\* compact_lifecycle_history: terminal rows outside the rolling window and
\* the newest tail go, with everything that hangs on them.
CompactLifecycle(s) ==
    LET cutoff == Monus(IF s.blocks = {} THEN 0 ELSE Max(s.blocks), 2 * Day)
        terminal == s.txs \ Active(s)
        newer(r) == {q \in terminal : \/ q.created > r.created
                                      \/ q.created = r.created /\ q.id > r.id}
        kept == {r \in s.txs :
                    \/ r.state # "terminal"
                    \/ r.created >= cutoff
                    \/ Cardinality(newer(r)) < HotTransactions}
        ids == {r.id : r \in kept}
    IN  [s EXCEPT !.txs = kept,
                  !.attempts = @ \cap ids,
                  !.movements = {m \in @ : m.pending \/ m.tx \in ids}]

\* The plans of active rows.
Referenced(s) == {p \in Range(s.plans) : p.tx \in {r.id : r \in Active(s)}}

\* canonical_logs and canonical_receipts: from the oldest checkpoint or open
\* episode, and the supported rewind below it; receipts of known attempts stay.
ReplayFrom(s) ==
    LET from == {e.block : e \in s.topo} \cup s.episodes
    IN  IF from = {} THEN 0 ELSE Monus(Min(from), Rescan)

CompactLogs(s) ==
    [s EXCEPT !.logs = {b \in @ : b >= ReplayFrom(s)},
              !.receipts = {r \in @ : r.block >= ReplayFrom(s) \/ r.tx \in s.attempts}]

\* Bug: a receipt does not keep the header that dates it.
PinnedWithoutReceipts(s) ==
    UNION {{r.created, r.included} : r \in Active(s)}
        \cup {p.block : p \in Referenced(s)}
        \cup {e.block : e \in s.topo}
        \cup s.episodes

PinnedBlocks(s) ==
    UNION {{r.created, r.included} : r \in Active(s)}
        \cup {p.block : p \in Referenced(s)}
        \cup {r.block : r \in s.receipts}
        \cup {e.block : e \in s.topo}
        \cup s.episodes

CompactBlocks(s) ==
    [s EXCEPT !.blocks = {b \in @ : b > Max(@) - HotBlocks \/ b \in PinnedBlocks(s)}]

\* The last entries and the referenced ones.
KeepTail(table, n, pinned(_)) ==
    LET start == Len(table) - Monus(n, Cardinality({i \in DOMAIN table : pinned(table[i])}))
        index(e) == CHOOSE i \in DOMAIN table : table[i] = e
    IN  IF Len(table) <= n THEN table
        ELSE SelectSeq(table, LAMBDA e : index(e) > start \/ pinned(e))

IsReferencedSnapshot(s, e) ==
    \E p \in Referenced(s) : p.vault = e.vault /\ p.block = e.block

CompactPlans(s) ==
    LET kept == KeepTail(s.plans, HotPlans, LAMBDA p : p \in Referenced(s))
    IN  [s EXCEPT !.snaps = KeepTail(@, HotSnapshots, LAMBDA e : IsReferencedSnapshot(s, e)),
                  !.plans = kept,
                  !.preflights = @ \cap {kept[i].tx : i \in DOMAIN kept}]

Compact(s) ==
    LET a == CompactLifecycle(s)
        b == [a EXCEPT !.topo = TailPerVault(@, Rescan + 1)]
    IN  CompactPlans(CompactBlocks(CompactLogs(b)))

-----------------------------------------------------------------------------
(* Queries                                                                 *)

\* LoadTopologyRevision: the newest revision up to a block, or -1.
TopologyAt(s, v, through) ==
    LET own == {e.block : e \in {f \in s.topo : f.vault = v /\ f.block <= through}}
    IN  IF own = {} THEN -1 ELSE Max(own)

\* The logs replay_topology_through applies on top of it.
ReplayedLogs(s, v, through) ==
    {b \in s.logs : TopologyAt(s, v, through) < b /\ b <= through}

\* MovementSince and CountTransactionsSince, by the rows they count.
RollingSince(s, since) == {r.id : r \in {q \in s.txs : q.created >= since}}

\* ConfirmedGasSpendSince: receipts of known attempts by their block's clock;
\* a receipt without its header falls back to its row.
GasSince(s, since) ==
    {r.tx : r \in {q \in s.receipts :
        /\ q.tx \in s.attempts
        /\ IF q.block \in s.blocks THEN q.block >= since
           ELSE q.tx \in Ids(s) /\ Row(s, q.tx).updated >= since}}

\* LoadPendingConformance and LoadPendingReconciliationContext of a row: its
\* plan, preflight, exact snapshot, receipts and movement.
Evidence(s, t) ==
    [plan |-> {p \in Range(s.plans) : p.tx = t},
     preflight |-> t \in s.preflights,
     snapshot |-> {e \in Range(s.snaps) :
                     \E p \in Range(s.plans) :
                        p.tx = t /\ p.vault = e.vault /\ p.block = e.block},
     receipt |-> {r.block : r \in {q \in s.receipts : q.tx = t}} \cap s.blocks,
     movement |-> {m \in s.movements : m.tx = t}]

Answers(s) ==
    LET recent == Monus(peak, Rescan)..head
        since == Monus(head, Day)..head
    IN  [topology |-> [v \in Vault, a \in recent |-> TopologyAt(s, v, a)],
         replay |-> [v \in Vault, a \in recent |-> ReplayedLogs(s, v, a)],
         rolling |-> [t \in since |-> RollingSince(s, t)],
         gas |-> [t \in since |-> GasSince(s, t)],
         unresolved |-> [r \in {q \in s.txs : q.state = "active"} |-> Evidence(s, r.id)],
         reopened |-> {r \in s.txs : r.state = "reopened"},
         headers |-> s.blocks \cap recent]

-----------------------------------------------------------------------------
(* Commands                                                                *)

Empty == [blocks |-> {0}, logs |-> {0}, receipts |-> {}, topo |-> {},
          snaps |-> <<>>, plans |-> <<>>, preflights |-> {}, txs |-> {},
          attempts |-> {}, movements |-> {}, episodes |-> {}]

Init ==
    /\ hot = [Empty EXCEPT !.topo = {[vault |-> v, block |-> 0] : v \in Started}]
    /\ full = hot /\ head = 0 /\ peak = 0 /\ revision = 0 /\ rewinds = 0

\* JsonStore::commit: the mutation, and compaction when a segment is full.
Commit(op(_)) ==
    /\ full' = op(full)
    /\ hot' = IF revision + 1 = SegmentEvents THEN Compact(op(hot)) ELSE op(hot)
    /\ revision' = (revision + 1) % SegmentEvents

\* Two commands that one service issues back to back.
CommitBoth(op(_), then(_)) ==
    LET compactFirst == revision + 1 = SegmentEvents
        middle == IF compactFirst THEN Compact(op(hot)) ELSE op(hot)
        next == (revision + 1) % SegmentEvents
    IN  /\ full' = then(op(full))
        /\ hot' = IF next + 1 = SegmentEvents THEN Compact(then(middle)) ELSE then(middle)
        /\ revision' = (next + 1) % SegmentEvents

\* Rows that the next block may include.
Unmined(s) == {r \in Active(s) : ~\E q \in s.receipts : q.tx = r.id}

\* apply_block, with the receipt of an attempt the block includes.
ApplyBlock ==
    /\ head < MaxHead /\ head' = head + 1
    /\ \E mined \in {{}} \cup {{r.id} : r \in Unmined(hot)} :
          Commit(LAMBDA s : [s EXCEPT !.blocks = @ \cup {head + 1},
                                      !.logs = @ \cup {head + 1},
                                      !.receipts = @ \cup {[tx |-> t, block |-> head + 1] :
                                                              t \in mined \cap s.attempts}])
    /\ peak' = Max({peak, head + 1}) /\ UNCHANGED rewinds

\* rewind, with the tables it prunes and the rows it reopens.
Reopened(r, a) ==
    IF r.included > a THEN [r EXCEPT !.state = IF @ = "terminal" THEN "reopened" ELSE @,
                                     !.included = 0, !.updated = a]
    ELSE r

RewindTo(s, a) ==
    [s EXCEPT !.blocks = {b \in @ : b <= a}, !.logs = {b \in @ : b <= a},
              !.receipts = {r \in @ : r.block <= a},
              !.topo = {e \in @ : e.block <= a},
              !.snaps = SelectSeq(@, LAMBDA e : e.block <= a),
              !.txs = {Reopened(r, a) : r \in @},
              !.movements = {[m EXCEPT !.pending = @ \/ (m.tx \in Ids(s) /\ Row(s, m.tx).included > a)] :
                                m \in @},
              !.episodes = {b \in @ : b <= a}]

Rewind ==
    /\ rewinds < MaxRewinds /\ rewinds' = rewinds + 1
    /\ \E a \in Monus(peak, Rescan)..(head - 1) :
        head' = a /\ Commit(LAMBDA s : RewindTo(s, a))
    /\ UNCHANGED peak

\* The state owner's refresh of a vault: PersistTopology, then PersistSnapshot,
\* each replacing the entry of its block.
Refresh(v) ==
    LET e == [vault |-> v, block |-> head]
    IN  /\ e \notin hot.topo
        /\ CommitBoth(LAMBDA s : [s EXCEPT !.topo = @ \cup {e}],
                      LAMBDA s : [s EXCEPT !.snaps = Append(@, e)])
        /\ UNCHANGED <<head, peak, rewinds>>

\* The tick that takes the lane: persist_plan and its preflight, for which the
\* exact snapshot must be there, then the reservation with its attempt and its
\* movement, within the rolling transaction budget.
Reserve(v) ==
    LET t == Cardinality(full.txs) + 1
        p == [tx |-> t, vault |-> v, block |-> head]
        r == [id |-> t, state |-> "active", created |-> head, included |-> 0, updated |-> head]
    IN  /\ Active(hot) = {} /\ t <= MaxRows
        /\ Contains(hot.snaps, [vault |-> v, block |-> head])
        /\ Cardinality(RollingSince(hot, Monus(head, Day))) < DailyRows
        /\ CommitBoth(LAMBDA s : [s EXCEPT !.plans = Append(@, p), !.preflights = @ \cup {t}],
                      LAMBDA s : [s EXCEPT !.txs = @ \cup {r}, !.attempts = @ \cup {t},
                                           !.movements = @ \cup {[tx |-> t, pending |-> TRUE]}])
        /\ UNCHANGED <<head, peak, rewinds>>

\* The row takes its inclusion from its receipt, and later its terminal state.
Include ==
    \E r \in Active(hot) : \E q \in hot.receipts :
        /\ q.tx = r.id /\ r.included = 0
        /\ Commit(LAMBDA s : [s EXCEPT !.txs = (@ \ {Row(s, r.id)})
                                   \cup {[Row(s, r.id) EXCEPT !.included = q.block, !.updated = head]}])
        /\ UNCHANGED <<head, peak, rewinds>>

Finish ==
    \E r \in Active(hot) :
        /\ r.included > 0
        /\ Commit(LAMBDA s : [s EXCEPT !.txs = (@ \ {Row(s, r.id)})
                                   \cup {[Row(s, r.id) EXCEPT !.state = "terminal", !.updated = head]},
                                       !.movements = {[m EXCEPT !.pending = @ /\ m.tx # r.id] : m \in @}])
        /\ UNCHANGED <<head, peak, rewinds>>

\* persist_episode opens or completes the episode of the rate group.
PersistEpisode ==
    /\ IF hot.episodes = {}
       THEN Commit(LAMBDA s : [s EXCEPT !.episodes = {head}])
       ELSE Commit(LAMBDA s : [s EXCEPT !.episodes = {}])
    /\ UNCHANGED <<head, peak, rewinds>>

Next ==
    \/ ApplyBlock \/ Rewind \/ Include \/ Finish \/ PersistEpisode
    \/ \E v \in Vault : Refresh(v) \/ Reserve(v)

Spec == Init /\ [][Next]_vars

-----------------------------------------------------------------------------
\* Every query a service asks within its window gets the answer an uncompacted
\* store would give: topology and the logs to replay for every supported
\* rewind, top-K memory, rolling movement, transaction and gas budgets, and the
\* evidence of every unresolved row (compact_hot_state).
CompactionInvisible == Answers(hot) = Answers(full)

\* Every log that the next topology replay of a vault applies is still stored,
\* "a long first backfill can complete before the state owner has persisted its
\* first topology checkpoint" (the comment on canonical_logs in
\* compact_hot_state).
TopologyLogsKept ==
    \A v \in Vault : ReplayedLogs(hot, v, head) = ReplayedLogs(full, v, head)

\* Every retained receipt keeps the header that dates it, and the compacted
\* tables refer only to what is still there.
HotIsClosed ==
    /\ {r.block : r \in hot.receipts} \subseteq hot.blocks
    /\ {e.block : e \in hot.topo} \subseteq hot.blocks
    /\ hot.attempts \subseteq Ids(hot)
    /\ \A r \in hot.txs : r.state = "active" => \E p \in Range(hot.plans) : p.tx = r.id
=============================================================================
