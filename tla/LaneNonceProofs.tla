-------------------------- MODULE LaneNonceProofs --------------------------
(***************************************************************************)
(* What the nonces of the lane say, for every number of rows, budget, bound *)
(* and failure: a chain spends each nonce once and in order, and a block   *)
(* that holds a row's attempt spends that row's nonce.  From this: the     *)
(* reconciliation records, and the hold that a foreign nonce keeps.        *)
(***************************************************************************)
EXTENDS NonceLaneProofs, WellFoundedInduction

\* The allocator transactions below position i of the chain c, when the
\* contents of the blocks are log.
Below(log, c, i) == {j \in 1..(i - 1) : log[c[j]].tx # NoTx}

\* Each allocator transaction of the chain c spends the next nonce.
Counts(log, c) ==
    \A i \in DOMAIN c : log[c[i]].tx # NoTx =>
        log[c[i]].nonce = Cardinality(Below(log, c, i))

\* The two chains share a prefix: where they hold the same block, they hold
\* the same blocks below it.
Joined ==
    \A i \in DOMAIN blocks \cap DOMAIN chain : blocks[i] = chain[i] =>
        \A j \in 1..i : blocks[j] = chain[j]

\* A mined attempt is a durable one, at the nonce of its row.
MinedAtNonce ==
    \A b \in BlockId : \/ body[b].tx \in {NoTx, ForeignTx}
                       \/ \E r \in Row : /\ body[b].tx \in Known(r)
                                         /\ body[b].nonce = nonce[r]

\* Only signed rows have bytes.
UnsignedHasNoBytes == \A r \in Row : state[r] \in Unsigned => kinds[r] = <<>>

NonceInv ==
    /\ Counts(body, chain) /\ Counts(body, blocks) /\ Joined
    /\ MinedAtNonce /\ UnsignedHasNoBytes

-----------------------------------------------------------------------------
(* Counting nonces. *)

\* What Below counts is a number, and it grows with the position.
LEMMA BelowCounted ==
    ASSUME NEW log, NEW c, NEW i \in Nat, NEW k \in Nat, k <= i
    PROVE  /\ IsFiniteSet(Below(log, c, i)) /\ Below(log, c, k) \subseteq Below(log, c, i)
           /\ Cardinality(Below(log, c, i)) \in Nat
           /\ Cardinality(Below(log, c, k)) <= Cardinality(Below(log, c, i))
<1>1. IsFiniteSet(1..(i - 1))
    BY FS_Interval
<1>2. Below(log, c, i) \in SUBSET (1..(i - 1))
    BY DEF Below
<1>3. IsFiniteSet(Below(log, c, i))
    BY <1>1, <1>2, FS_Subset
<1>4. Below(log, c, k) \in SUBSET Below(log, c, i)
    BY DEF Below
<1>5. Cardinality(Below(log, c, k)) <= Cardinality(Below(log, c, i))
    BY <1>3, <1>4, FS_Subset
<1> QED  BY <1>3, <1>4, <1>5, FS_CardinalityType

\* A position that holds an allocator transaction counts for those above it.
LEMMA BelowStep ==
    ASSUME NEW log, NEW c, NEW i \in Nat \ {0}
    PROVE  Cardinality(Below(log, c, i + 1)) =
             Cardinality(Below(log, c, i)) + (IF log[c[i]].tx # NoTx THEN 1 ELSE 0)
<1> i <= i
    OBVIOUS
<1>0. IsFiniteSet(Below(log, c, i)) /\ i \notin Below(log, c, i)
    <2>1. IsFiniteSet(Below(log, c, i))
        BY BelowCounted
    <2>2. i \notin Below(log, c, i)
        BY DEF Below
    <2> QED  BY <2>1, <2>2
<1>1. CASE log[c[i]].tx # NoTx
    <2>1. Below(log, c, i + 1) = Below(log, c, i) \cup {i}
        BY <1>1 DEF Below
    <2> QED  BY <1>0, <1>1, <2>1, FS_AddElement
<1>2. CASE log[c[i]].tx = NoTx
    <2>1. Below(log, c, i + 1) = Below(log, c, i)
        BY <1>2 DEF Below
    <2>2. Cardinality(Below(log, c, i)) \in Nat
        BY BelowCounted
    <2> QED  BY <1>2, <2>1, <2>2
<1> QED  BY <1>1, <1>2

\* A chain spends a nonce once.
LEMMA NonceOnce ==
    ASSUME NEW log, NEW S, NEW c \in Seq(S), Counts(log, c),
           NEW i \in DOMAIN c, NEW j \in DOMAIN c,
           log[c[i]].tx # NoTx, log[c[j]].tx # NoTx,
           log[c[i]].nonce = log[c[j]].nonce
    PROVE  i = j
<1>1. i \in Nat \ {0} /\ j \in Nat \ {0}
    OBVIOUS
<1>2. ASSUME NEW x \in Nat \ {0}, NEW y \in Nat \ {0}, x < y, log[c[x]].tx # NoTx
      PROVE  Cardinality(Below(log, c, x)) < Cardinality(Below(log, c, y))
    <2>1. Cardinality(Below(log, c, x + 1)) = Cardinality(Below(log, c, x)) + 1
        BY <1>2, BelowStep
    <2>2. Cardinality(Below(log, c, x + 1)) <= Cardinality(Below(log, c, y))
        BY <1>2, BelowCounted
    <2>3. Cardinality(Below(log, c, x)) \in Nat /\ Cardinality(Below(log, c, y)) \in Nat
        BY BelowCounted
    <2> QED  BY <2>1, <2>2, <2>3
<1>3. Cardinality(Below(log, c, i)) = Cardinality(Below(log, c, j))
    BY DEF Counts
<1>4. Cardinality(Below(log, c, i)) \in Nat /\ Cardinality(Below(log, c, j)) \in Nat
    BY <1>1, BelowCounted
<1> QED  BY <1>1, <1>2, <1>3, <1>4

\* A chain that keeps the first k blocks of another, and spends at most the
\* next nonce, in its next block, spends nonces in order.
LEMMA CountsExtends ==
    ASSUME NEW log, NEW old, NEW S, NEW T, NEW c \in Seq(S), NEW d \in Seq(T),
           NEW k \in Nat, k <= Len(c), k <= Len(d), Counts(old, c),
           \A i \in 1..k : d[i] = c[i] /\ log[c[i]] = old[c[i]],
           \A i \in (k + 1)..Len(d) : log[d[i]].tx # NoTx =>
              i = k + 1 /\ log[d[i]].nonce = Cardinality(Below(old, c, k + 1))
    PROVE  Counts(log, d)
<1>1. ASSUME NEW i \in 1..(k + 1)
      PROVE  Below(log, d, i) = Below(old, c, i)
    BY DEF Below
<1>2. ASSUME NEW i \in DOMAIN d, log[d[i]].tx # NoTx
      PROVE  log[d[i]].nonce = Cardinality(Below(log, d, i))
    <2>1. CASE i <= k
        <3>1. i \in DOMAIN c /\ i \in 1..k /\ i \in 1..(k + 1)
            BY <2>1
        <3>2. old[c[i]].nonce = Cardinality(Below(old, c, i))
            BY <1>2, <3>1 DEF Counts
        <3>3. log[d[i]] = old[c[i]] /\ Below(log, d, i) = Below(old, c, i)
            BY <1>1, <3>1
        <3> QED  BY <3>2, <3>3
    <2>2. CASE i > k
        <3>1. i = k + 1 /\ log[d[i]].nonce = Cardinality(Below(old, c, k + 1))
            BY SMTT(30), <1>2, <2>2
        <3> QED  BY <1>1, <3>1
    <2> QED  BY <2>1, <2>2
<1> QED  BY <1>2 DEF Counts

-----------------------------------------------------------------------------
(* What a command does to the nonces. *)

\* A nonce is written once, with its reservation, which needs a free lane;
\* only rows without bytes are unsigned; a reconciled row is final.
LEMMA RowFields ==
    ASSUME StoreTypeOK, SignedHasBytes, NEW r \in Row, RowCommand(r), NEW q \in Row
    PROVE  /\ nonce'[q] = nonce[q] \/ state[q] = "Absent"
           /\ state[q] = "Absent" => state'[q] = "Absent" \/ Unresolved = {}
           /\ state'[q] \in Unsigned => state[q] \in Unsigned /\ kinds'[q] = kinds[q]
           /\ state[q] = "Reconciled" =>
                 state'[q] = "Reconciled" /\ inc'[q] = inc[q] /\ rec'[q] = rec[q]
           /\ \/ rec'[q] = rec[q]
              \/ /\ state'[q] = "Reconciled" /\ inc'[q] = inc[q]
                 /\ Canonical(rec'[q]) /\ Height(inc[q]) <= Height(rec'[q])
<1> USE DEF StoreTypeOK, Unsigned
<1>1. CASE \E head \in BlockId, n \in Nat, plan \in BlockId, rate \in BOOLEAN :
              ReserveNonce(r, head, n, plan, rate)
    BY <1>1 DEF ReserveNonce, ReserveOk
<1>2. CASE PersistSigned(r)
    BY <1>2 DEF PersistSigned
<1>3. CASE \E kind \in AttemptKind, height \in Nat :
              PersistSignedAttempt(r, kind, height)
    <2>1. PICK kind \in AttemptKind, height \in Nat :
             PersistSignedAttempt(r, kind, height)
        BY <1>3
    <2>2. /\ state[r] \in {"Signed", "Submitted", "Replaced", "Orphaned"}
          /\ SignedStateOf(kind) \in {"ReplacementSigned", "CancellationSigned"}
          /\ state' = [state EXCEPT ![r] = SignedStateOf(kind)]
          /\ UNCHANGED <<nonce, inc, rec>>
          /\ \A p \in Row : p # r => kinds'[p] = kinds[p]
        BY <2>1 DEF PersistSignedAttempt, PersistSignedAttemptOk, SignedStateOf
    <2> QED  BY <2>2
<1>4. CASE \E height \in Nat : RecordAttemptBroadcast(r, height)
    BY <1>4 DEF RecordAttemptBroadcast
<1>5. CASE \E from, to \in TransactionState, b \in BlockId \cup {0} :
              CheckedTransition(r, from, to, b)
    <2>1. PICK from \in TransactionState, to \in TransactionState,
               b \in BlockId \cup {0} : CheckedTransition(r, from, to, b)
        BY <1>5
    <2>2. /\ state[r] = from /\ AllowsTransition(from, to)
          /\ state' = [state EXCEPT ![r] = to]
          /\ \A p \in Row : p # r => inc'[p] = inc[p]
          /\ UNCHANGED <<kinds, nonce, rec>>
        BY <2>1 DEF CheckedTransition, TransitionTransaction, TransitionOk
    <2>3. from \notin {"Absent", "Reconciled"} /\ to # "Absent" /\ to # "NonceReserved"
        BY Zenon, <2>2, Lifecycle DEF IsUnresolved, TransactionState
    <2>4. to = "AbortedBeforeSigning" => from = "NonceReserved"
        BY <2>2 DEF AllowsTransition, Permits, RequiresReconciliation
    <2> QED  BY <2>2, <2>3, <2>4
<1>6. CASE \E b \in BlockId : PersistConformance(r, b)
    BY <1>6 DEF PersistConformance, PersistConformanceOk
<1>7. CASE \E b \in BlockId : PersistReconciliation(r, b)
    <2>1. PICK b \in BlockId : PersistReconciliation(r, b)
        BY <1>7
    <2>2. /\ state[r] \in {"ConformanceValidated", "ReconciliationPending"}
          /\ Canonical(b) /\ Height(b) >= Height(inc[r])
          /\ state' = [state EXCEPT ![r] = "Reconciled"]
          /\ rec' = [rec EXCEPT ![r] = b] /\ UNCHANGED <<nonce, kinds, inc>>
        BY Zenon, <2>1 DEF PersistReconciliation, PersistReconciliationOk,
                           RequiresReconciliation
    <2>3. Height(b) >= Height(inc[r]) => Height(inc[r]) <= Height(b)
        OBVIOUS
    <2> QED  BY <2>2, <2>3
<1>8. CASE \E from \in TransactionState : FinalizeConformedFailure(r, from)
    BY <1>8 DEF FinalizeConformedFailure, FinalizeOk, RequiresReconciliation
<1> QED
    BY ZenonT(30), <1>1, <1>2, <1>3, <1>4, <1>5, <1>6, <1>7, <1>8 DEF RowCommand

\* The same for every command, except that the rewind reopens rows.
LEMMA CommandFields ==
    ASSUME StoreInv, StoreCommand, NEW q \in Row
    PROVE  /\ nonce'[q] = nonce[q] \/ state[q] = "Absent"
           /\ state[q] = "Absent" => state'[q] = "Absent" \/ Unresolved = {}
           /\ state'[q] \in Unsigned => state[q] \in Unsigned /\ kinds'[q] = kinds[q]
<1>1. ASSUME NEW r \in Row, RowCommand(r)
      PROVE  /\ nonce'[q] = nonce[q] \/ state[q] = "Absent"
             /\ state[q] = "Absent" => state'[q] = "Absent" \/ Unresolved = {}
             /\ state'[q] \in Unsigned => state[q] \in Unsigned /\ kinds'[q] = kinds[q]
    BY <1>1, RowFields DEF StoreInv
<1>2. CASE ReceiptCommand \/ \E b \in BlockId : ApplyBlock(b)
    BY <1>2 DEF ReceiptCommand, PersistCanonicalReceipt, ApplyBlock
<1>3. ASSUME NEW k \in 1..Len(blocks), Rewind(k)
      PROVE  /\ nonce' = nonce /\ kinds' = kinds
             /\ state'[q] = state[q] \/ (state[q] \notin Unsigned /\ state'[q] \notin Unsigned)
    <2>1. q \in OrphanedBy(k) \cup LostRecord(k) => state[q] \notin Unsigned
        BY <1>3 DEF Rewind, RewindOk, OrphanedBy, Reopenable, Unsigned
    <2>2. /\ nonce' = nonce /\ kinds' = kinds
          /\ state'[q] = state[q]
             \/ (q \in OrphanedBy(k) \cup LostRecord(k)
                 /\ state'[q] \in {"Orphaned", "ReconciliationPending"})
        BY <1>3 DEF Rewind
    <2> QED  BY <2>1, <2>2 DEF Unsigned
<1>4. (\E k \in 1..Len(blocks) : Rewind(k)) =>
         /\ nonce' = nonce /\ kinds' = kinds
         /\ state'[q] = state[q] \/ (state[q] \notin Unsigned /\ state'[q] \notin Unsigned)
    BY <1>3
<1> QED
    BY <1>1, <1>2, <1>4 DEF StoreCommand, TickCommand, ChainCommand, Unsigned

-----------------------------------------------------------------------------
(* The shape of every step. *)

\* The network adds blocks on top of the first k of the chain.
NewBlocks(k, tx) ==
    /\ Grows(k, tx)
    /\ \/ tx \in {NoTx, ForeignTx}
       \/ \E r \in Row : tx \in Known(r) /\ nonce[r] = Cardinality(Used(chain, k))
    /\ \/ k = Len(chain) /\ reorgs' = reorgs
       \/ reorgs < MaxReorgs /\ reorgs' = reorgs + 1
    /\ UNCHANGED <<storeVars, paused, pc, job>>

\* Nothing moves but the readiness, the mempool and a lifted pause.
Calm ==
    /\ UNCHANGED <<storeVars, body, chain, pc, job, reorgs>>
    /\ paused' \in {paused, "no"}

\* A pending attempt is mined at the next nonce, which is its row's.
LEMMA MineableNonce ==
    ASSUME LaneInv, NEW k \in 1..Len(chain), NEW tx \in Mineable(SubSeq(chain, 1, k))
    PROVE  \E r \in Row : tx \in Known(r) /\ nonce[r] = Cardinality(Used(chain, k))
<1>0. chain \in Seq(BlockId)
    BY DEF LaneInv, TypeOK
<1>1. {i \in DOMAIN SubSeq(chain, 1, k) : body[SubSeq(chain, 1, k)[i]].tx # NoTx}
        = Used(chain, k)
    <2>1. DOMAIN SubSeq(chain, 1, k) = 1..k /\ \A i \in 1..k : SubSeq(chain, 1, k)[i] = chain[i]
        BY <1>0
    <2> QED  BY <2>1 DEF Used
<1>2. tx \in network /\ nonce[tx[1]] = Cardinality(Used(chain, k))
    BY Zenon, <1>1 DEF Mineable, NonceOn
<1>3. PICK r \in Row : tx \in Known(r)
    BY <1>2 DEF LaneInv, DurableBeforeBroadcast
<1>4. tx[1] = r
    BY <1>3 DEF Known
<1> QED  BY <1>2, <1>3, <1>4

\* A step of the network.
LEMMA NetworkShape ==
    ASSUME LaneInv, Network
    PROVE  Calm \/ \E k \in 1..Len(chain) :
                      \E tx \in Attempts \cup {NoTx, ForeignTx} : NewBlocks(k, tx)
<1>0. /\ chain \in Seq(BlockId) /\ Len(chain) \in 1..Len(chain)
      /\ SubSeq(chain, 1, Len(chain)) = chain /\ reorgs \in Nat
    BY DEF LaneInv, TypeOK
<1>1. ASSUME NEW tx \in Attempts \cup {NoTx, ForeignTx}, NEW ok \in BOOLEAN,
             Extend(tx, ok), noise' \in Nat,
             tx \in {NoTx, ForeignTx} \/ tx \in Mineable(chain)
      PROVE  NewBlocks(Len(chain), tx)
    <2>1. Grows(Len(chain), tx)
        BY <1>1, ExtendInv
    <2>2. tx \in Mineable(chain) =>
            \E r \in Row : tx \in Known(r) /\ nonce[r] = Cardinality(Used(chain, Len(chain)))
        BY Zenon, <1>0, MineableNonce
    <2>3. UNCHANGED <<storeVars, paused, pc, job>> /\ reorgs' = reorgs
        BY <1>1 DEF Extend
    <2> QED  BY Zenon, <1>1, <2>1, <2>2, <2>3 DEF NewBlocks
<1>2. CASE MineTx
    <2>1. PICK tx \in Mineable(chain) : \E ok \in Outcomes(tx) : Extend(tx, ok)
        BY <1>2 DEF MineTx
    <2>2. PICK ok \in Outcomes(tx) : Extend(tx, ok)
        BY <2>1
    <2>3. ok \in BOOLEAN
        BY Zenon DEF Outcomes
    <2>4. tx \in Attempts
        BY DEF Mineable, LaneInv, TypeOK
    <2>5. noise' \in Nat
        BY <1>2 DEF MineTx, LaneInv, TypeOK
    <2> QED  BY <1>0, <1>1, <2>2, <2>3, <2>4, <2>5
<1>3. CASE MineForeign
    <2>1. Extend(ForeignTx, TRUE) /\ noise' \in Nat
        BY Zenon, <1>3 DEF MineForeign, LaneInv, TypeOK
    <2> QED  BY Zenon, <1>0, <1>1, <2>1
<1>4. CASE MineEmpty
    <2>1. noise \in Nat
        BY DEF LaneInv, TypeOK
    <2>2. Extend(NoTx, TRUE) /\ (noise' = noise \/ noise' = noise + 1)
        BY Zenon, <1>4 DEF MineEmpty
    <2>3. noise' \in Nat
        BY <2>1, <2>2
    <2> QED  BY Zenon, <1>0, <1>1, <2>2, <2>3
<1>5. CASE Reorg
    <2>1. PICK k \in 1..Len(chain) :
             \E tx \in Mineable(SubSeq(chain, 1, k)) \cup {NoTx} : Grows(k, tx)
        BY <1>5, ReorgInv
    <2>2. PICK tx \in Mineable(SubSeq(chain, 1, k)) \cup {NoTx} : Grows(k, tx)
        BY <2>1
    <2>3. /\ UNCHANGED <<storeVars, paused, pc, job>>
          /\ reorgs < MaxReorgs /\ reorgs' = reorgs + 1
        BY <1>5 DEF Reorg
    <2>4. tx \in Attempts \cup {NoTx, ForeignTx}
        BY DEF Mineable, LaneInv, TypeOK
    <2>5. tx = NoTx \/ \E r \in Row : tx \in Known(r)
                                      /\ nonce[r] = Cardinality(Used(chain, k))
        BY MineableNonce
    <2>6. NewBlocks(k, tx)
        BY Zenon, <2>2, <2>3, <2>5 DEF NewBlocks
    <2> QED  BY Zenon, <2>4, <2>6
<1>6. CASE Evict
    BY Zenon, <1>6 DEF Evict, Calm
<1> QED  BY <1>2, <1>3, <1>4, <1>5, <1>6 DEF Network

\* A step of the execution service, which leaves both chains alone.
Ticks == (Recover \/ Execute \/ Persist \/ Failure) /\ LaneKept

\* Every step.
LEMMA StepShape ==
    ASSUME LaneInv, [Next]_vars
    PROVE  \/ Calm \/ Ticks \/ CatchUp \/ RewindAndReplay
           \/ \E k \in 1..Len(chain) :
                 \E tx \in Attempts \cup {NoTx, ForeignTx} : NewBlocks(k, tx)
<1>1. CASE Network
    BY <1>1, NetworkShape
<1>2. CASE ChainService \/ StateRefresh
    BY SMTT(30), <1>2
       DEF ChainService, PollIdle, StateRefresh, Calm, chainVars, bounds
<1>3. CASE Recover \/ Execute \/ Persist \/ Failure
    BY <1>3, TickInv DEF Ticks
<1>4. CASE UNCHANGED vars
    BY <1>4 DEF vars, chainVars, bounds, Calm
<1> QED  BY Zenon, <1>1, <1>2, <1>3, <1>4 DEF Next

\* What a step does to the tables: nothing, or one command.
LEMMA StepCommand ==
    ASSUME LaneInv, [Next]_vars
    PROVE  UNCHANGED storeVars \/ (body' = body /\ StoreCommand)
<1>1. CASE Ticks
    BY <1>1 DEF Ticks, LaneKept, TickFrame, Frame
<1>2. CASE RewindAndReplay
    BY <1>2 DEF RewindAndReplay, StoreCommand, ChainCommand, chainVars
<1>3. CASE CatchUp
    <2>1. Len(blocks) + 1 \in DOMAIN chain /\ chain \in Seq(BlockId)
        BY <1>3 DEF CatchUp, LaneInv, TypeOK, StoreTypeOK
    <2>2. /\ chain[Len(blocks) + 1] \in BlockId
          /\ Height(chain[Len(blocks) + 1]) = Len(blocks) + 1
        BY <2>1 DEF LaneInv, ChainLinked
    <2>3. ApplyBlock(chain[Len(blocks) + 1]) /\ body' = body
        BY <1>3 DEF CatchUp, chainVars
    <2> QED  BY <2>2, <2>3 DEF StoreCommand, ChainCommand
<1> QED  BY Zenon, <1>1, <1>2, <1>3, StepShape DEF Calm, NewBlocks

-----------------------------------------------------------------------------
(* NonceInv is inductive. *)

\* Mined attempts stay attributed while the tables change by a command.
LEMMA CommandNonces ==
    ASSUME LaneInv, NonceInv, [Next]_vars
    PROVE  /\ UnsignedHasNoBytes'
           /\ body' = body => MinedAtNonce'
<1>1. CASE UNCHANGED storeVars
    <2>1. UnsignedHasNoBytes'
        BY <1>1 DEF NonceInv, UnsignedHasNoBytes, storeVars, Unsigned
    <2>2. body' = body => MinedAtNonce'
        BY <1>1 DEF NonceInv, MinedAtNonce, storeVars, Known, BlockId
    <2> QED  BY <2>1, <2>2
<1>2. CASE body' = body /\ StoreCommand
    <2>0. StoreInv
        BY DEF LaneInv
    <2>1. ASSUME NEW q \in Row, state'[q] \in Unsigned
          PROVE  kinds'[q] = <<>>
        BY <1>2, <2>0, <2>1, CommandFields DEF NonceInv, UnsignedHasNoBytes
    <2>2. ASSUME NEW q \in Row, NEW tx \in Known(q)
          PROVE  nonce'[q] = nonce[q] /\ tx \in Known(q)'
        <3>1. kinds[q] # <<>>
            BY <2>2 DEF Known
        <3>2. state[q] \notin Unsigned
            BY <3>1 DEF NonceInv, UnsignedHasNoBytes
        <3>3. nonce'[q] = nonce[q]
            BY <1>2, <2>0, <3>2, CommandFields DEF Unsigned
        <3> QED  BY <1>2, <2>0, <2>2, <3>3, StoreCommandKnown
    <2>3. MinedAtNonce'
        BY <1>2, <2>2 DEF NonceInv, MinedAtNonce, BlockId
    <2> QED  BY <2>1, <2>3 DEF UnsignedHasNoBytes, Unsigned
<1> QED  BY <1>1, <1>2, StepCommand

\* New blocks spend the next nonce, which is that of the mined row.
LEMMA NewBlocksNonces ==
    ASSUME LaneInv, NonceInv, LaneInv', NEW k \in 1..Len(chain),
           NEW tx \in Attempts \cup {NoTx, ForeignTx}, NewBlocks(k, tx)
    PROVE  /\ Counts(body', chain') /\ Counts(body', blocks')
           /\ Joined' /\ MinedAtNonce'
<1>0. /\ chain \in Seq(BlockId) /\ blocks \in Seq(BlockId) /\ chain' \in Seq(DOMAIN body')
      /\ Len(blocks) \in Nat /\ Len(chain) \in Nat /\ Len(chain') \in Nat
      /\ blocks' = blocks /\ body \in Seq(Block)
    <2>1. /\ chain \in Seq(BlockId) /\ blocks \in Seq(BlockId) /\ body \in Seq(Block)
        BY DEF LaneInv, TypeOK, StoreTypeOK
    <2>2. chain' \in Seq(DOMAIN body')
        BY DEF LaneInv, TypeOK, BlockId
    <2>3. blocks' = blocks
        BY DEF NewBlocks, storeVars
    <2> QED  BY <2>1, <2>2, <2>3
<1>1. /\ k < Len(chain') /\ BodyGrows
      /\ \A i \in 1..k : chain'[i] = chain[i]
      /\ \A i \in (k + 1)..Len(chain') : chain'[i] \notin BlockId
      /\ \A b \in DOMAIN body' \ BlockId : body'[b].tx # NoTx =>
            /\ b = chain'[k + 1] /\ body'[b].tx = tx
            /\ body'[b].nonce = Cardinality(Used(chain, k))
    BY DEF NewBlocks, Grows
<1>2. \A b \in BlockId : body'[b] = body[b] /\ b \in DOMAIN body'
    BY <1>0, <1>1 DEF BodyGrows, BlockId
<1>3. \A i \in DOMAIN chain' : body'[chain'[i]].n = i
    BY DEF LaneInv, ChainLinked, Height
<1>4. Below(body, chain, k + 1) = Used(chain, k)
    BY DEF Below, Used
<1>5. ASSUME NEW i \in (k + 1)..Len(chain'), body'[chain'[i]].tx # NoTx
      PROVE  i = k + 1 /\ body'[chain'[i]].nonce = Cardinality(Below(body, chain, k + 1))
    <2>1. i \in DOMAIN chain' /\ k + 1 \in DOMAIN chain'
        BY <1>0, <1>1
    <2>2. chain'[i] \in DOMAIN body' \ BlockId
        BY <1>0, <1>1, <2>1
    <2>3. chain'[i] = chain'[k + 1] /\ body'[chain'[i]].nonce = Cardinality(Used(chain, k))
        BY <1>1, <1>5, <2>2
    <2>4. i = k + 1
        BY SMTT(30), <1>3, <2>1, <2>3
    <2> QED  BY <1>4, <2>3, <2>4
<1>6. Counts(body', chain')
    <2>1. \A i \in 1..k : chain'[i] = chain[i] /\ body'[chain[i]] = body[chain[i]]
        BY SMTT(30), <1>0, <1>1, <1>2
    <2>2. Counts(body, chain) /\ k \in Nat /\ k <= Len(chain) /\ k <= Len(chain')
        BY <1>0, <1>1 DEF NonceInv
    <2> QED  BY ZenonT(30), <1>0, <1>5, <2>1, <2>2, CountsExtends
<1>7. Counts(body', blocks')
    <2>1. \A i \in 1..Len(blocks) : blocks'[i] = blocks[i]
                                     /\ body'[blocks[i]] = body[blocks[i]]
        BY <1>0, <1>2
    <2>2. Counts(body, blocks) /\ Len(blocks) <= Len(blocks)
        BY <1>0 DEF NonceInv
    <2>3. \A i \in (Len(blocks) + 1)..Len(blocks) : FALSE
        BY <1>0
    <2> QED  BY Zenon, <1>0, <2>1, <2>2, <2>3, CountsExtends
<1>8. Joined'
    <2>1. ASSUME NEW i \in DOMAIN blocks, i \in DOMAIN chain', blocks[i] = chain'[i],
                 NEW j \in 1..i
          PROVE  blocks[j] = chain'[j]
        <3>1. i <= k
            BY <1>0, <1>1, <2>1
        <3>2. i \in DOMAIN chain /\ chain'[i] = chain[i] /\ chain'[j] = chain[j]
            BY <1>0, <1>1, <2>1, <3>1
        <3> QED  BY <2>1, <3>2 DEF NonceInv, Joined
    <2> QED  BY <1>0, <2>1 DEF Joined
<1>9. MinedAtNonce'
    <2>1. Known(1)' = Known(1) /\ \A q : Known(q)' = Known(q)
        BY DEF NewBlocks, storeVars, Known
    <2>2. nonce' = nonce
        BY DEF NewBlocks, storeVars
    <2>3. ASSUME NEW b \in DOMAIN body'
          PROVE  \/ body'[b].tx \in {NoTx, ForeignTx}
                 \/ \E r \in Row : body'[b].tx \in Known(r) /\ body'[b].nonce = nonce[r]
        <3>1. CASE b \in BlockId
            BY <1>2, <3>1 DEF NonceInv, MinedAtNonce
        <3>2. CASE b \notin BlockId /\ body'[b].tx # NoTx
            <4>1. body'[b].tx = tx /\ body'[b].nonce = Cardinality(Used(chain, k))
                BY <1>1, <3>2
            <4> QED  BY Zenon, <4>1 DEF NewBlocks
        <3> QED  BY SMTT(30), <3>1, <3>2
    <2> QED  BY Zenon, <2>1, <2>2, <2>3 DEF MinedAtNonce, BlockId
<1> QED  BY <1>6, <1>7, <1>8, <1>9

\* The chain service applies the next block of the chain it follows.
LEMMA CatchUpNonces ==
    ASSUME LaneInv, NonceInv, CatchUp
    PROVE  /\ Len(blocks') = Len(blocks) + 1 /\ Len(blocks') <= Len(chain')
           /\ \A i \in 1..Len(blocks') : blocks'[i] = chain'[i]
           /\ Counts(body', blocks') /\ Joined'
<1>0. /\ chain \in Seq(BlockId) /\ blocks \in Seq(BlockId)
      /\ Len(blocks) \in Nat \ {0} /\ Len(chain) \in Nat
    BY DEF LaneInv, TypeOK, StoreTypeOK
<1>1. /\ Len(blocks) < Len(chain) /\ blocks[Len(blocks)] = chain[Len(blocks)]
      /\ blocks' = Append(blocks, chain[Len(blocks) + 1])
      /\ body' = body /\ chain' = chain
    BY DEF CatchUp, Follows, Cursor, ApplyBlock, chainVars
<1>2. Len(blocks) + 1 \in DOMAIN chain /\ chain[Len(blocks) + 1] \in BlockId
    BY <1>0, <1>1
<1>3. /\ blocks' \in Seq(BlockId) /\ Len(blocks') = Len(blocks) + 1
      /\ \A i \in 1..Len(blocks) : blocks'[i] = blocks[i]
      /\ blocks'[Len(blocks) + 1] = chain[Len(blocks) + 1]
    BY <1>0, <1>1, <1>2
<1>4. \A j \in 1..Len(blocks) : blocks[j] = chain[j]
    <2>1. Len(blocks) \in DOMAIN blocks \cap DOMAIN chain
        BY <1>0, <1>1
    <2> QED  BY <1>1, <2>1 DEF NonceInv, Joined
<1>5. \A i \in 1..Len(blocks') : blocks'[i] = chain[i]
    BY <1>0, <1>3, <1>4
<1>6. Counts(body, blocks')
    <2>1. Counts(body, chain) /\ Len(blocks') \in Nat /\ Len(blocks') <= Len(chain)
        BY <1>0, <1>1, <1>3 DEF NonceInv
    <2>2. \A i \in (Len(blocks') + 1)..Len(blocks') : FALSE
        BY <2>1
    <2>3. Len(blocks') <= Len(blocks')
        BY <2>1
    <2> QED  BY Zenon, <1>0, <1>3, <1>5, <2>1, <2>2, <2>3, CountsExtends
<1>7. Joined'
    BY <1>0, <1>1, <1>3, <1>5 DEF Joined
<1> QED  BY <1>0, <1>1, <1>3, <1>5, <1>6, <1>7

\* It rewinds to a block that both chains hold.
LEMMA RewindNonces ==
    ASSUME LaneInv, NonceInv, NEW k \in 1..Len(blocks), CommonAncestor(k), Rewind(k),
           body' = body, chain' = chain
    PROVE  /\ Len(blocks') = k /\ k <= Len(chain')
           /\ \A i \in 1..k : blocks'[i] = blocks[i] /\ blocks'[i] = chain'[i]
           /\ Counts(body', blocks') /\ Joined'
<1>0. /\ chain \in Seq(BlockId) /\ blocks \in Seq(BlockId)
      /\ Len(blocks) \in Nat \ {0} /\ Len(chain) \in Nat
    BY DEF LaneInv, TypeOK, StoreTypeOK
<1>1. blocks' = SubSeq(blocks, 1, k) /\ k <= Len(chain) /\ blocks[k] = chain[k]
    <2>1. blocks' = SubSeq(blocks, 1, k)
        BY DEF Rewind, KeptBlocks
    <2> QED  BY <2>1 DEF CommonAncestor
<1>2. /\ blocks' \in Seq(BlockId) /\ Len(blocks') = k
      /\ \A i \in 1..k : blocks'[i] = blocks[i]
    BY <1>0, <1>1
<1>3. \A j \in 1..k : blocks[j] = chain[j]
    BY <1>0, <1>1 DEF NonceInv, Joined
<1>4. Counts(body, blocks')
    <2>1. Counts(body, blocks) /\ k \in Nat /\ k <= Len(blocks)
        BY <1>0 DEF NonceInv
    <2>2. \A i \in (k + 1)..Len(blocks') : FALSE
        BY <1>2, <2>1
    <2>3. k <= Len(blocks')
        BY <1>2, <2>1
    <2> QED  BY Zenon, <1>0, <1>2, <2>1, <2>2, <2>3, CountsExtends
<1>5. Joined'
    BY <1>0, <1>1, <1>2, <1>3 DEF Joined
<1> QED  BY <1>1, <1>2, <1>3, <1>4, <1>5

\* The empty lane.
LEMMA NonceInit == Init => NonceInv /\ RecordIsCanonical
<1> SUFFICES ASSUME Init PROVE NonceInv /\ RecordIsCanonical
    OBVIOUS
<1>1. /\ body = <<[n |-> 1, tx |-> NoTx, nonce |-> 0, ok |-> TRUE]>>
      /\ chain = <<1>> /\ blocks = <<1>>
      /\ DOMAIN chain = {1} /\ DOMAIN body = {1} /\ body[1].tx = NoTx
    BY DEF Init, StoreInit
<1>2. Counts(body, chain) /\ Counts(body, blocks) /\ Joined
    BY <1>1 DEF Counts, Joined
<1>3. MinedAtNonce
    BY <1>1 DEF MinedAtNonce, BlockId
<1>4. UnsignedHasNoBytes /\ RecordIsCanonical
    BY DEF Init, StoreInit, UnsignedHasNoBytes, RecordIsCanonical
<1> QED  BY <1>2, <1>3, <1>4 DEF NonceInv

\* Every step.
LEMMA NonceStep ==
    ASSUME LaneInv, NonceInv, [Next]_vars
    PROVE  NonceInv'
<1>0. LaneInv'
    BY LaneStep
<1>1. UnsignedHasNoBytes' /\ (body' = body => MinedAtNonce')
    BY CommandNonces
<1>2. ASSUME UNCHANGED <<body, chain, blocks>>
      PROVE  NonceInv'
    <2>1. Counts(body', chain') /\ Counts(body', blocks')
        BY Zenon, <1>2 DEF NonceInv
    <2>2. Joined'
        BY Zenon, <1>2 DEF NonceInv, Joined
    <2> QED  BY Zenon, <1>1, <1>2, <2>1, <2>2 DEF NonceInv
<1>3. CASE Calm \/ Ticks
    BY <1>2, <1>3 DEF Calm, Ticks, LaneKept, TickFrame, Frame, storeVars
<1>4. CASE CatchUp
    <2>1. body' = body /\ chain' = chain
        BY <1>4 DEF CatchUp, chainVars
    <2>2. Counts(body', chain')
        BY Zenon, <2>1 DEF NonceInv
    <2> QED  BY Zenon, <1>1, <1>4, <2>1, <2>2, CatchUpNonces DEF NonceInv
<1>5. CASE RewindAndReplay
    <2>1. body' = body /\ chain' = chain
        BY <1>5 DEF RewindAndReplay, chainVars
    <2>2. PICK k \in 1..Len(blocks) : CommonAncestor(k) /\ Rewind(k)
        BY <1>5 DEF RewindAndReplay
    <2>3. Counts(body', chain')
        BY Zenon, <2>1 DEF NonceInv
    <2>4. Counts(body', blocks') /\ Joined'
        BY Zenon, <2>1, <2>2, RewindNonces
    <2> QED  BY Zenon, <1>1, <2>1, <2>3, <2>4 DEF NonceInv
<1>6. ASSUME NEW k \in 1..Len(chain), NEW tx \in Attempts \cup {NoTx, ForeignTx},
             NewBlocks(k, tx)
      PROVE  NonceInv'
    BY ZenonT(30), <1>0, <1>1, <1>6, NewBlocksNonces DEF NonceInv
<1> QED  BY Zenon, <1>3, <1>4, <1>5, <1>6, StepShape

-----------------------------------------------------------------------------
(* The reconciliation records. *)

\* The stored chain holds one attempt of a row: the other stored receipts of
\* a confirmed row are its inclusion.
LEMMA OneReceipt ==
    ASSUME LaneInv, NonceInv, NEW r \in Row, state[r] \in Validated,
           NEW b \in BlockId, Canonical(b), body[b].tx \in Known(r)
    PROVE  b = inc[r]
<1>1. inc[r] \in BlockId /\ Canonical(inc[r]) /\ body[inc[r]].tx \in Known(r)
    BY DEF LaneInv, StoreInv, StoreTypeOK, ConfirmedIsCanonical, OwnSuccess
<1>2. ASSUME NEW x \in BlockId, Canonical(x), body[x].tx \in Known(r)
      PROVE  /\ Height(x) \in DOMAIN blocks /\ blocks[Height(x)] = x
             /\ body[x].tx # NoTx /\ body[x].nonce = nonce[r]
    <2>1. Height(x) \in Nat \ {0}
        BY BlockType DEF LaneInv, StoreInv, StoreTypeOK
    <2>2. body[x].tx[1] = r /\ r # 0
        BY <1>2 DEF Known, Row
    <2>3. body[x].tx \notin {NoTx, ForeignTx}
        BY <2>2 DEF NoTx, ForeignTx
    <2>4. PICK q \in Row : body[x].tx \in Known(q) /\ body[x].nonce = nonce[q]
        BY <2>3 DEF NonceInv, MinedAtNonce
    <2>5. q = r
        BY <2>2, <2>4 DEF Known
    <2>6. blocks \in Seq(BlockId)
        BY DEF LaneInv, StoreInv, StoreTypeOK
    <2> QED  BY <1>2, <2>1, <2>3, <2>4, <2>5, <2>6 DEF Canonical, On
<1>3. blocks \in Seq(BlockId) /\ Counts(body, blocks)
    BY SMTT(30) DEF LaneInv, StoreInv, StoreTypeOK, NonceInv
<1>4. Height(b) = Height(inc[r])
    <2>1. /\ Height(b) \in DOMAIN blocks /\ blocks[Height(b)] = b
          /\ body[b].tx # NoTx /\ body[b].nonce = nonce[r]
        BY <1>2
    <2>2. /\ Height(inc[r]) \in DOMAIN blocks /\ blocks[Height(inc[r])] = inc[r]
          /\ body[inc[r]].tx # NoTx /\ body[inc[r]].nonce = nonce[r]
        BY <1>1, <1>2
    <2> QED  BY SMTT(30), <1>3, <2>1, <2>2, NonceOnce
<1> QED  BY <1>1, <1>2, <1>4

\* A rewind orphans a confirmed row only when it drops its inclusion.
LEMMA OrphanedInclusion ==
    ASSUME LaneInv, NonceInv, NEW k \in 1..Len(blocks), NEW r \in Row,
           state[r] \in Validated, r \in OrphanedBy(k)
    PROVE  inc[r] \in BlockId /\ Height(inc[r]) > k
<1>1. inc[r] \in BlockId
    BY DEF LaneInv, StoreInv, StoreTypeOK, ConfirmedIsCanonical, OwnSuccess
<1>2. ASSUME NEW b \in receipts, body[b].tx \in Known(r)
      PROVE  b = inc[r]
    BY <1>2, OneReceipt DEF LaneInv, StoreInv, StoreTypeOK, ReceiptIsCanonical
<1> QED  BY <1>1, <1>2 DEF OrphanedBy

\* A command on a row: a record is written beside a canonical block, not
\* below the inclusion, and a reconciled row is not touched again.
LEMMA RowCommandRecord ==
    ASSUME LaneInv, RecordIsCanonical, body' = body, NEW r \in Row, RowCommand(r)
    PROVE  RecordIsCanonical'
<1>1. blocks' = blocks
    BY RowCommandFrame
<1>2. ASSUME NEW q \in Row, rec'[q] # 0
      PROVE  /\ state'[q] = "Reconciled" /\ Canonical(rec'[q])
             /\ Height(inc'[q]) <= Height(rec'[q])
    <2>1. /\ state[q] = "Reconciled" =>
                 state'[q] = "Reconciled" /\ inc'[q] = inc[q] /\ rec'[q] = rec[q]
          /\ \/ rec'[q] = rec[q]
             \/ /\ state'[q] = "Reconciled" /\ inc'[q] = inc[q]
                /\ Canonical(rec'[q]) /\ Height(inc[q]) <= Height(rec'[q])
        BY Zenon, RowFields DEF LaneInv, StoreInv
    <2>2. CASE rec'[q] = rec[q]
        BY Zenon, <1>2, <2>1, <2>2 DEF RecordIsCanonical
    <2> QED  BY ZenonT(30), <2>1, <2>2
<1> QED  BY Zenon, <1>1, <1>2 DEF RecordIsCanonical, Canonical, On, Height

\* A rewind keeps a record only when it keeps the inclusion below it.
LEMMA RewindRecord ==
    ASSUME LaneInv, NonceInv, RecordIsCanonical, body' = body,
           NEW k \in 1..Len(blocks), Rewind(k)
    PROVE  RecordIsCanonical'
<1>0. blocks' = SubSeq(blocks, 1, k) /\ StoreTypeOK
    BY SMTT(30) DEF Rewind, KeptBlocks, LaneInv, StoreInv
<1>1. ASSUME NEW r \in Row, rec'[r] # 0
      PROVE  /\ state'[r] = "Reconciled" /\ inc'[r] = inc[r] /\ rec'[r] = rec[r]
             /\ Canonical(rec[r])' /\ Height(inc[r]) <= Height(rec[r])
    <2>1. rec'[r] = KeptRecord(r, k)
        BY Zenon DEF Rewind
    <2>2. rec[r] # 0 /\ rec'[r] = rec[r] /\ ~(Height(rec[r]) > k)
        BY SMTT(30), <1>1, <2>1 DEF KeptRecord
    <2>3. /\ state[r] = "Reconciled" /\ Canonical(rec[r])
          /\ Height(inc[r]) <= Height(rec[r])
        BY ZenonT(30), <2>2 DEF RecordIsCanonical
    <2>4. rec[r] \in BlockId /\ Height(rec[r]) \in Nat
        BY <1>0, <2>2, BlockType DEF StoreTypeOK
    <2>5. inc[r] \in BlockId /\ Height(inc[r]) \in Nat
        <3>1. inc[r] \in BlockId
            BY <2>3 DEF LaneInv, StoreInv, StoreTypeOK, ConfirmedIsCanonical, OwnSuccess,
                        Validated
        <3> QED  BY SMTT(30), <1>0, <3>1, BlockType DEF StoreTypeOK
    <2>6. r \notin LostRecord(k)
        BY SMTT(30), <2>2 DEF LostRecord
    <2>7. r \notin OrphanedBy(k)
        <3>1. state[r] \in Validated
            BY SMTT(30), <2>3 DEF Validated
        <3> QED  BY <2>2, <2>3, <2>4, <2>5, <3>1, OrphanedInclusion
    <2>8. state'[r] = state[r] /\ inc'[r] = inc[r]
        BY <2>6, <2>7 DEF Rewind
    <2>9. Height(rec[r]) <= k
        BY <2>2, <2>4
    <2>10. \A b \in BlockId : Canonical(b) /\ Height(b) <= k => Canonical(b)'
        BY <1>0, CanonicalKept
    <2>11. Canonical(rec[r])'
        BY Zenon, <2>2, <2>3, <2>4, <2>9, <2>10 DEF Canonical, On, Height
    <2> QED  BY ZenonT(30), <2>2, <2>3, <2>8, <2>11
<1> QED  BY ZenonT(30), <1>1 DEF RecordIsCanonical, Height, Canonical, On

\* Every step.
LEMMA RecordStep ==
    ASSUME LaneInv, NonceInv, RecordIsCanonical, [Next]_vars
    PROVE  RecordIsCanonical'
<1>0. StoreTypeOK /\ rec \in [Row -> BlockId \cup {0}] /\ inc \in [Row -> BlockId \cup {0}]
    BY DEF LaneInv, StoreInv, StoreTypeOK
<1>1. ASSUME UNCHANGED <<state, rec, inc>>,
             \A b \in BlockId : /\ Height(b)' = Height(b)
                                /\ Canonical(b) => Canonical(b)'
      PROVE  RecordIsCanonical'
    <2>1. ASSUME NEW r \in Row, rec[r] # 0
          PROVE  /\ state[r] = "Reconciled" /\ rec[r] \in BlockId /\ inc[r] \in BlockId
                 /\ Canonical(rec[r]) /\ Height(inc[r]) <= Height(rec[r])
        BY <1>0, <2>1 DEF RecordIsCanonical, LaneInv, StoreInv, ConfirmedIsCanonical,
                          OwnSuccess, Validated
    <2> QED  BY ZenonT(30), <1>1, <2>1 DEF RecordIsCanonical, Canonical, On, Height
<1>2. CASE UNCHANGED storeVars
    <2>1. UNCHANGED <<state, rec, inc, blocks>>
        BY <1>2 DEF storeVars
    <2>2. \A b \in BlockId : body'[b] = body[b]
        <3>1. ASSUME NEW k \in 1..Len(chain),
                     NEW tx \in Attempts \cup {NoTx, ForeignTx}, NewBlocks(k, tx)
              PROVE  \A b \in BlockId : body'[b] = body[b]
            BY <3>1 DEF NewBlocks, Grows, BodyGrows
        <3>2. CASE Calm \/ Ticks \/ CatchUp \/ RewindAndReplay
            BY <3>2 DEF Calm, Ticks, LaneKept, TickFrame, Frame, CatchUp,
                        RewindAndReplay, chainVars
        <3> QED  BY ZenonT(30), <3>1, <3>2, StepShape
    <2>3. \A b \in BlockId : Height(b)' = Height(b) /\ (Canonical(b) => Canonical(b)')
        BY Zenon, <2>1, <2>2 DEF Height, Canonical, On
    <2> QED  BY <1>1, <2>1, <2>3
<1>3. CASE body' = body /\ StoreCommand
    <2>1. ASSUME NEW r \in Row, RowCommand(r)
          PROVE  RecordIsCanonical'
        BY <1>3, <2>1, RowCommandRecord
    <2>2. CASE ReceiptCommand
        <3>1. UNCHANGED <<state, rec, inc, blocks>>
            BY <2>2 DEF ReceiptCommand, PersistCanonicalReceipt
        <3>2. \A b \in BlockId : Height(b)' = Height(b) /\ (Canonical(b) => Canonical(b)')
            BY Zenon, <1>3, <3>1 DEF Height, Canonical, On
        <3> QED  BY <1>1, <3>1, <3>2
    <2>3. ASSUME NEW x \in BlockId, ApplyBlock(x)
          PROVE  RecordIsCanonical'
        <3>1. UNCHANGED <<state, rec, inc>> /\ blocks' = Append(blocks, x)
            BY <2>3 DEF ApplyBlock
        <3>2. \A b \in BlockId : Canonical(b) => Canonical(b)'
            BY <1>0, <1>3, <3>1, CanonicalKept
        <3>3. \A b \in BlockId : Height(b)' = Height(b)
            BY <1>3 DEF Height
        <3> QED  BY Zenon, <1>1, <3>1, <3>2, <3>3
    <2>4. ASSUME NEW k \in 1..Len(blocks), Rewind(k)
          PROVE  RecordIsCanonical'
        BY <1>3, <2>4, RewindRecord
    <2> QED
        BY Zenon, <1>3, <2>1, <2>2, <2>3, <2>4 DEF StoreCommand, TickCommand, ChainCommand
<1> QED  BY SMTT(30), <1>2, <1>3, StepCommand

\* The invariant of this module, for every bound.
LedgerInv == LaneInv /\ NonceInv /\ RecordIsCanonical

LEMMA LedgerInvariant == Spec => []LedgerInv
<1>1. Init => LedgerInv
    BY LaneInit, NonceInit DEF LedgerInv
<1>2. LedgerInv /\ [Next]_vars => LedgerInv'
    BY LaneStep, NonceStep, RecordStep DEF LedgerInv
<1> QED  BY <1>1, <1>2, PTL DEF Spec

\* A reconciliation record belongs to a reconciled row and to a stored block
\* not below its inclusion, through any number of reorganisations of any
\* depth, so rewind never stops chain ingestion with its invariant error.
THEOREM RecordsCanonical == Spec => []RecordIsCanonical
<1>1. LedgerInv => RecordIsCanonical
    BY DEF LedgerInv
<1> QED  BY <1>1, LedgerInvariant, PTL

\* The durable row is the quarantine: while a row holds a foreign nonce, no
\* step of any service, no crash and no reorganisation reserves another row.
THEOREM ForeignRowsHoldTheLane == Spec => ForeignHoldsLane
<1> DEFINE Holds == \A r \in Row : state[r] = "ForeignNonceConsumed" =>
                       \A q \in Row : state[q] = "Absent" => state'[q] = "Absent"
<1>1. ASSUME LaneInv, [Next]_vars
      PROVE  Holds
    <2> SUFFICES ASSUME NEW r \in Row, state[r] = "ForeignNonceConsumed",
                        NEW q \in Row, state[q] = "Absent"
                 PROVE  state'[q] = "Absent"
        OBVIOUS
    <2>1. Unresolved # {}
        BY DEF Unresolved, IsUnresolved
    <2>2. CASE UNCHANGED storeVars
        BY <2>2 DEF storeVars
    <2>3. CASE StoreCommand
        BY SMTT(30), <1>1, <2>1, <2>3, CommandFields DEF LaneInv
    <2> QED  BY SMTT(30), <1>1, <2>2, <2>3, StepCommand
<1>2. LaneInv /\ [Next]_vars => [Holds]_vars
    BY <1>1
<1> QED  BY <1>2, LaneInvariant, PTL DEF Spec, ForeignHoldsLane

=============================================================================
