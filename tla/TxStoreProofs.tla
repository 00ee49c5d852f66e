--------------------------- MODULE TxStoreProofs ---------------------------
(***************************************************************************)
(* What the commands of the storage actor preserve, for every number of    *)
(* rows and every budget.  NonceLaneProofs shows that each step of the     *)
(* composed lane is one of these commands or leaves the tables alone.      *)
(***************************************************************************)
EXTENDS TxStore, TLAPS

USE DEF Row, MoveState, AttemptKind, KeptBlocks, KeptReceipts, KeptRecord,
        ConfirmMovement

\* The commands on one row.  The generic transition is the one command whose
\* effect rests on its caller: Included is stored with the caller's block, and
\* Confirmed is issued after the caller compared the stored block.
CheckedTransition(r, from, to, b) ==
    /\ TransitionTransaction(r, from, to, b)
    /\ to = "Included" => OwnSuccess(r, b)
    /\ to = "Confirmed" => b = 0 /\ Canonical(inc[r])
    /\ from = "NonceReserved" => to = "AbortedBeforeSigning"

RowCommand(r) ==
    \/ \E head \in BlockId, n \in Nat, plan \in BlockId, rate \in BOOLEAN :
          ReserveNonce(r, head, n, plan, rate)
    \/ PersistSigned(r)
    \/ \E kind \in AttemptKind, height \in Nat :
          PersistSignedAttempt(r, kind, height)
    \/ \E height \in Nat : RecordAttemptBroadcast(r, height)
    \/ \E from, to \in TransactionState, b \in BlockId \cup {0} :
          CheckedTransition(r, from, to, b)
    \/ \E b \in BlockId : PersistConformance(r, b)
    \/ \E b \in BlockId : PersistReconciliation(r, b)
    \/ \E from \in TransactionState : FinalizeConformedFailure(r, from)

\* The commands on the stored chain: a receipt, and what the chain service
\* issues.
ReceiptCommand == \E b \in BlockId : PersistCanonicalReceipt(b)

ChainCommand ==
    \/ ReceiptCommand
    \/ \E b \in BlockId : Height(b) = Len(blocks) + 1 /\ ApplyBlock(b)
    \/ \E k \in 1..Len(blocks) : Rewind(k)

\* The commands of the execution service, and all of them.
TickCommand == (\E r \in Row : RowCommand(r)) \/ ReceiptCommand
StoreCommand == TickCommand \/ ChainCommand

-----------------------------------------------------------------------------
\* The lifecycle: what the generic transition may do to a state.  A resolved
\* row never becomes a lane owner again, and a row leaves NonceReserved only
\* to be signed, aborted or failed.
LEMMA Lifecycle ==
    ASSUME NEW s, NEW next, AllowsTransition(s, next)
    PROVE  /\ s \in TransactionState /\ next \in TransactionState
           /\ IsUnresolved(s) \/ s = "ReconciliationPending"
           /\ s = "ReconciliationPending" => next = "Failed"
           /\ next \notin {"NonceReserved", "ConformanceValidated",
                           "ReconciliationPending", "Reconciled"}
           /\ next = "Confirmed" => s = "Included"
           /\ s = "NonceReserved"
                 => next \in {"AbortedBeforeSigning", "Signed", "Failed"}
           /\ IsUnresolved(next) \/ ReleasesMovement(next)
BY DEF AllowsTransition, Permits, TransactionState, IsUnresolved,
       RequiresReconciliation, ReleasesMovement
-----------------------------------------------------------------------------
\* The log of blocks: every identity has a block with a positive height.
LEMMA BlockType ==
    ASSUME body \in Seq(Block), NEW b \in BlockId
    PROVE  body[b] \in Block /\ Height(b) \in Nat \ {0}
<1>1. body[b] \in Block
    BY DEF BlockId
<1> QED  BY <1>1 DEF Height, Block

\* Appending an attempt keeps the type of the attempts.
LEMMA AppendKind ==
    ASSUME NEW s \in Seq(AttemptKind), NEW kind \in AttemptKind
    PROVE  /\ Append(s, kind) \in Seq(AttemptKind)
           /\ DOMAIN s \subseteq DOMAIN Append(s, kind)
           /\ Append(s, kind) # <<>>
<1> DEFINE K == AttemptKind
<1>1. s \in Seq(K) /\ kind \in K
    OBVIOUS
<1> HIDE DEF K
<1>2. /\ Append(s, kind) \in Seq(K)
      /\ Len(Append(s, kind)) = Len(s) + 1
      /\ Len(s) \in Nat
      /\ DOMAIN s = 1..Len(s) /\ DOMAIN Append(s, kind) = 1..(Len(s) + 1)
    BY <1>1
<1>3. Append(s, kind) # <<>>
    BY <1>2
<1> QED  BY <1>2, <1>3 DEF K

-----------------------------------------------------------------------------
\* Every command on a row keeps the types of the tables.
LEMMA RowCommandType ==
    ASSUME StoreTypeOK, PlannedAtBlock, body' = body, NEW r \in Row,
           RowCommand(r)
    PROVE  StoreTypeOK' /\ PlannedAtBlock'
<1> USE DEF StoreTypeOK, BlockId, PlannedAtBlock
<1>1. CASE \E head \in BlockId, n \in Nat, plan \in BlockId, rate \in BOOLEAN :
              ReserveNonce(r, head, n, plan, rate)
    BY <1>1 DEF ReserveNonce, TransactionState
<1>2. CASE PersistSigned(r)
    <2>1. Height(created[r]) \in Nat
        BY <1>2, BlockType DEF PersistSigned
    <2>2. Append(kinds[r], "Initial") \in Seq(AttemptKind)
        BY AppendKind
    <2> QED  BY <1>2, <2>1, <2>2 DEF PersistSigned, TransactionState
<1>3. CASE \E kind \in AttemptKind, height \in Nat :
              PersistSignedAttempt(r, kind, height)
    <2>1. PICK kind \in AttemptKind, height \in Nat :
             PersistSignedAttempt(r, kind, height)
        BY <1>3
    <2>2. Append(kinds[r], kind) \in Seq(AttemptKind)
        BY Zenon, AppendKind
    <2> QED
        BY <2>1, <2>2 DEF PersistSignedAttempt, PersistSignedAttemptOk,
                          SignedStateOf, TransactionState
<1>4. CASE \E height \in Nat : RecordAttemptBroadcast(r, height)
    BY <1>4 DEF RecordAttemptBroadcast
<1>5. CASE \E from, to \in TransactionState, b \in BlockId \cup {0} :
              CheckedTransition(r, from, to, b)
    <2>1. PICK from \in TransactionState, to \in TransactionState,
               b \in BlockId \cup {0} : TransitionTransaction(r, from, to, b)
        BY <1>5 DEF CheckedTransition
    <2>2. move' \in [Row -> MoveState]
        BY Zenon, <2>1 DEF TransitionTransaction
    <2>3. /\ state' \in [Row -> TransactionState \cup {"Absent"}]
          /\ inc' \in [Row -> BlockId \cup {0}]
        BY <2>1 DEF TransitionTransaction
    <2>4. state[r] # "Absent"
        BY <2>1, Lifecycle DEF TransitionTransaction, TransitionOk, TransactionState
    <2> QED  BY <2>1, <2>2, <2>3, <2>4 DEF TransitionTransaction
<1>6. CASE \E b \in BlockId : PersistConformance(r, b)
    BY <1>6 DEF PersistConformance, PersistConformanceOk, TransactionState
<1>7. CASE \E b \in BlockId : PersistReconciliation(r, b)
    <2>1. move' \in [Row -> MoveState]
        BY <1>7 DEF PersistReconciliation
    <2> QED  BY <1>7, <2>1 DEF PersistReconciliation, PersistReconciliationOk,
                               RequiresReconciliation, TransactionState
<1>8. CASE \E from \in TransactionState : FinalizeConformedFailure(r, from)
    BY <1>8 DEF FinalizeConformedFailure, FinalizeOk, RequiresReconciliation,
                TransactionState
<1> QED
    BY Zenon, <1>1, <1>2, <1>3, <1>4, <1>5, <1>6, <1>7, <1>8 DEF RowCommand

\* Every command on the stored chain keeps the types of the tables.
LEMMA ChainCommandType ==
    ASSUME StoreTypeOK, PlannedAtBlock, body' = body, ChainCommand
    PROVE  StoreTypeOK' /\ PlannedAtBlock'
<1> USE DEF StoreTypeOK, BlockId, PlannedAtBlock
<1>1. CASE ReceiptCommand
    BY <1>1 DEF ReceiptCommand, PersistCanonicalReceipt
<1>2. CASE \E b \in BlockId : Height(b) = Len(blocks) + 1 /\ ApplyBlock(b)
    BY <1>2 DEF ApplyBlock
<1>3. CASE \E k \in 1..Len(blocks) : Rewind(k)
    <2>1. PICK k \in 1..Len(blocks) : Rewind(k)
        BY <1>3
    <2>2. SubSeq(blocks, 1, k) \in Seq(BlockId) /\ Len(SubSeq(blocks, 1, k)) = k
        <3>1. Len(blocks) \in Nat
            OBVIOUS
        <3> QED  BY <3>1
    <2>3. /\ state' \in [Row -> TransactionState \cup {"Absent"}]
          /\ inc' \in [Row -> BlockId \cup {0}]
          /\ rec' \in [Row -> BlockId \cup {0}]
          /\ move' \in [Row -> MoveState]
        BY <2>1 DEF Rewind, TransactionState
    <2>4. receipts' \subseteq BlockId
        BY <2>1 DEF Rewind
    <2>5. ASSUME NEW r \in Row, state[r] = "Absent"
          PROVE  state'[r] = "Absent"
        BY Zenon, <2>1, <2>5
           DEF Rewind, OrphanedBy, LostRecord, RewindOk, Reopenable
    <2> QED  BY <2>1, <2>2, <2>3, <2>4, <2>5 DEF Rewind
<1> QED  BY <1>1, <1>2, <1>3 DEF ChainCommand

-----------------------------------------------------------------------------
\* A block stays canonical when a block is applied above it, and when a rewind
\* stops at or above its height.
LEMMA CanonicalKept ==
    ASSUME StoreTypeOK, body' = body, NEW b \in BlockId, Canonical(b)
    PROVE  /\ \A x \in BlockId : blocks' = Append(blocks, x) => Canonical(b)'
           /\ \A k \in 1..Len(blocks) :
                 blocks' = SubSeq(blocks, 1, k) /\ Height(b) <= k => Canonical(b)'
<1>1. Height(b) \in Nat \ {0} /\ Height(b)' = Height(b)
    BY BlockType DEF StoreTypeOK, Height
<1>2. blocks \in Seq(BlockId) /\ Len(blocks) \in Nat
    BY DEF StoreTypeOK
<1>3. ASSUME NEW x \in BlockId, blocks' = Append(blocks, x)
      PROVE  Canonical(b)'
    <2>1. /\ Len(blocks') = Len(blocks) + 1
          /\ \A i \in 1..Len(blocks) : blocks'[i] = blocks[i]
        BY <1>2, <1>3
    <2> QED  BY <1>1, <1>2, <2>1 DEF Canonical, On
<1>4. ASSUME NEW k \in 1..Len(blocks), blocks' = SubSeq(blocks, 1, k),
             Height(b) <= k
      PROVE  Canonical(b)'
    <2>1. /\ Len(blocks') = k
          /\ \A i \in 1..k : blocks'[i] = blocks[i]
        BY <1>2, <1>4
    <2> QED  BY <1>1, <1>2, <1>4, <2>1 DEF Canonical, On
<1> QED  BY <1>3, <1>4

\* Stored blocks stay linked by height, and stored receipts canonical: a
\* rewind drops the receipts of the blocks it drops.
LEMMA ChainCommandCanonical ==
    ASSUME StoreTypeOK, BlocksLinked, ReceiptIsCanonical, body' = body,
           ChainCommand
    PROVE  BlocksLinked' /\ ReceiptIsCanonical'
<1>0. blocks \in Seq(BlockId) /\ Len(blocks) \in Nat /\ receipts \subseteq BlockId
    BY DEF StoreTypeOK
<1>1. CASE ReceiptCommand
    BY <1>1
       DEF ReceiptCommand, PersistCanonicalReceipt, BlocksLinked, ReceiptIsCanonical,
                Canonical, On, Height
<1>2. CASE \E b \in BlockId : Height(b) = Len(blocks) + 1 /\ ApplyBlock(b)
    <2>1. PICK x \in BlockId : Height(x) = Len(blocks) + 1 /\ ApplyBlock(x)
        BY <1>2
    <2>2. blocks' = Append(blocks, x) /\ receipts' \subseteq receipts \cup {x}
        BY <2>1 DEF ApplyBlock
    <2>3. /\ Len(blocks') = Len(blocks) + 1
          /\ DOMAIN blocks = 1..Len(blocks)
          /\ DOMAIN blocks' = 1..(Len(blocks) + 1)
          /\ \A i \in 1..Len(blocks) : blocks'[i] = blocks[i]
          /\ blocks'[Len(blocks) + 1] = x
        BY <1>0, <2>2
    <2>4. BlocksLinked'
        BY <1>0, <2>1, <2>3 DEF BlocksLinked, Height
    <2>5. Canonical(x)'
        BY <1>0, <2>1, <2>3 DEF Canonical, On, Height
    <2>6. \A b \in receipts : Canonical(b)'
        BY <1>0, <2>2, CanonicalKept DEF ReceiptIsCanonical
    <2> QED  BY <2>2, <2>4, <2>5, <2>6 DEF ReceiptIsCanonical
<1>3. CASE \E k \in 1..Len(blocks) : Rewind(k)
    <2>1. PICK k \in 1..Len(blocks) : Rewind(k)
        BY <1>3
    <2>2. /\ blocks' = SubSeq(blocks, 1, k)
          /\ \A b \in receipts' : b \in receipts /\ Height(b) <= k
        BY <2>1 DEF Rewind
    <2>3. /\ Len(blocks') = k /\ DOMAIN blocks = 1..Len(blocks)
          /\ DOMAIN blocks' = 1..k
          /\ \A i \in 1..k : blocks'[i] = blocks[i]
        BY <1>0, <2>2
    <2>4. BlocksLinked'
        BY <1>0, <2>3 DEF BlocksLinked, Height
    <2>5. \A b \in receipts' : Canonical(b)'
        BY <1>0, <2>2, CanonicalKept DEF ReceiptIsCanonical
    <2> QED  BY <2>4, <2>5 DEF ReceiptIsCanonical
<1> QED  BY <1>1, <1>2, <1>3 DEF ChainCommand

\* A command on a row leaves the stored chain and the receipts alone.
LEMMA RowCommandFrame ==
    ASSUME NEW r, RowCommand(r)
    PROVE  UNCHANGED <<blocks, receipts>>
BY DEF RowCommand, ReserveNonce, PersistSigned, PersistSignedAttempt,
       RecordAttemptBroadcast, CheckedTransition, TransitionTransaction,
       PersistConformance, PersistReconciliation, FinalizeConformedFailure

-----------------------------------------------------------------------------
\* The movement of a row follows its state through every command on a row.
LEMMA RowCommandMovement ==
    ASSUME StoreTypeOK, MovementFollowsState, NEW r \in Row, RowCommand(r)
    PROVE  MovementFollowsState'
<1> USE DEF StoreTypeOK, MovementFollowsState, IsUnresolved
<1>1. CASE \E head \in BlockId, n \in Nat, plan \in BlockId, rate \in BOOLEAN :
              ReserveNonce(r, head, n, plan, rate)
    BY <1>1 DEF ReserveNonce
<1>2. CASE PersistSigned(r)
    BY <1>2 DEF PersistSigned
<1>3. CASE \E kind \in AttemptKind, height \in Nat :
              PersistSignedAttempt(r, kind, height)
    BY <1>3 DEF PersistSignedAttempt, PersistSignedAttemptOk, SignedStateOf
<1>4. CASE \E height \in Nat : RecordAttemptBroadcast(r, height)
    BY <1>4 DEF RecordAttemptBroadcast
<1>5. CASE \E from, to \in TransactionState, b \in BlockId \cup {0} :
              CheckedTransition(r, from, to, b)
    <2>1. PICK from \in TransactionState, to \in TransactionState,
               b \in BlockId \cup {0} : TransitionTransaction(r, from, to, b)
        BY <1>5 DEF CheckedTransition
    <2>2. /\ state[r] = from /\ AllowsTransition(from, to)
          /\ state' = [state EXCEPT ![r] = to]
          /\ move' = [move EXCEPT ![r] =
                         IF ReleasesMovement(to) /\ @ = "Pending"
                         THEN "Released" ELSE @]
        BY <2>1 DEF TransitionTransaction, TransitionOk
    <2>3. /\ IsUnresolved(from) \/ (from = "ReconciliationPending" /\ to = "Failed")
          /\ to \notin {"ReconciliationPending", "Reconciled"}
          /\ IsUnresolved(to) \/ ReleasesMovement(to)
        BY <2>2, Lifecycle
    <2>4. ASSUME NEW q \in Row, q # r
          PROVE  state'[q] = state[q] /\ move'[q] = move[q]
        BY <2>2, <2>4
    <2>5. state'[r] = to
        BY <2>2
    <2>6. /\ move'[r] = "Pending" => move[r] = "Pending" /\ ~ReleasesMovement(to)
          /\ move'[r] = "Confirmed" => move[r] = "Confirmed"
        BY <2>2
    <2>7. /\ move'[r] = "Pending" => IsUnresolved(state'[r])
          /\ state'[r] \notin {"ReconciliationPending", "Reconciled"}
          /\ move'[r] = "Confirmed" => state'[r] = "Failed"
        BY Zenon, <2>2, <2>3, <2>5, <2>6
    <2> QED  BY <2>4, <2>7
<1>6. CASE \E b \in BlockId : PersistConformance(r, b)
    BY <1>6 DEF PersistConformance, PersistConformanceOk
<1>7. CASE \E b \in BlockId : PersistReconciliation(r, b)
    BY <1>7 DEF PersistReconciliation, PersistReconciliationOk, MovementAgrees,
                RequiresReconciliation
<1>8. CASE \E from \in TransactionState : FinalizeConformedFailure(r, from)
    BY <1>8 DEF FinalizeConformedFailure, FinalizeOk, MovementAgrees
<1> QED
    BY <1>1, <1>2, <1>3, <1>4, <1>5, <1>6, <1>7, <1>8 DEF RowCommand

\* A rewind gives a confirmed movement back to the lane exactly when it
\* reopens the row; a revalidated row keeps it confirmed.
LEMMA ChainCommandMovement ==
    ASSUME StoreTypeOK, MovementFollowsState, ChainCommand
    PROVE  MovementFollowsState'
<1> USE DEF StoreTypeOK, MovementFollowsState, IsUnresolved
<1>1. CASE ReceiptCommand
    BY <1>1 DEF ReceiptCommand, PersistCanonicalReceipt
<1>2. CASE \E b \in BlockId : Height(b) = Len(blocks) + 1 /\ ApplyBlock(b)
    BY <1>2 DEF ApplyBlock
<1>3. CASE \E k \in 1..Len(blocks) : Rewind(k)
    <2>1. PICK k \in 1..Len(blocks) : Rewind(k)
        BY <1>3
    <2> DEFINE revalidated == {r \in LostRecord(k) : inc[r] # 0 /\ Canonical(inc[r])}
               orphaned == OrphanedBy(k) \cup (LostRecord(k) \ revalidated)
    <2>2. \A r \in revalidated : state[r] = "Reconciled"
        BY <2>1 DEF Rewind, RewindOk
    <2>3. ASSUME NEW r \in Row
          PROVE  /\ state'[r] = IF r \in orphaned THEN "Orphaned"
                                ELSE IF r \in revalidated
                                     THEN "ReconciliationPending"
                                ELSE state[r]
                 /\ move'[r] = IF r \in orphaned /\ move[r] = "Confirmed"
                               THEN "Pending" ELSE move[r]
        BY <2>1 DEF Rewind
    <2> HIDE DEF revalidated, orphaned
    <2> QED  BY ZenonT(30), <2>2, <2>3
<1> QED  BY <1>1, <1>2, <1>3 DEF ChainCommand

-----------------------------------------------------------------------------
\* What a command on row r does to a row: nothing to another row, and to r
\* itself only what its new state allows.
LEMMA RowCommandEffect ==
    ASSUME StoreTypeOK, SignedHasBytes, body' = body, NEW r \in Row,
           RowCommand(r), NEW q \in Row
    PROVE  /\ Known(q) \subseteq Known(q)'
           /\ kinds[q] # <<>> => kinds'[q] # <<>>
           /\ q # r => state'[q] = state[q] /\ inc'[q] = inc[q]
           /\ state'[r] \in Validated =>
                 /\ inc'[r] = inc[r]
                 /\ \/ state[r] \in Validated
                    \/ state[r] = "Included" /\ Canonical(inc[r])
           /\ state'[r] = "Included" =>
                 \/ state[r] = "Included" /\ inc'[r] = inc[r]
                 \/ OwnSuccess(r, inc'[r])
           /\ state'[r] \notin Unsigned => kinds'[r] # <<>>
           /\ IsUnresolved(state'[r]) =>
                 IsUnresolved(state[r]) \/ Unresolved = {}
<1> USE DEF StoreTypeOK, Validated, Unsigned, SignedHasBytes
<1>1. CASE \E head \in BlockId, n \in Nat, plan \in BlockId, rate \in BOOLEAN :
              ReserveNonce(r, head, n, plan, rate)
    BY <1>1 DEF ReserveNonce, ReserveOk, Known
<1>2. CASE PersistSigned(r)
    <2>1. /\ kinds' = [kinds EXCEPT ![r] = Append(kinds[r], "Initial")]
          /\ state' = [state EXCEPT ![r] = "Signed"]
          /\ state[r] = "NonceReserved" /\ inc' = inc
        BY <1>2 DEF PersistSigned
    <2>2. /\ DOMAIN kinds[r] \subseteq DOMAIN Append(kinds[r], "Initial")
          /\ Append(kinds[r], "Initial") # <<>>
        BY Zenon, AppendKind
    <2> QED  BY <2>1, <2>2 DEF Known, IsUnresolved
<1>3. CASE \E kind \in AttemptKind, height \in Nat :
              PersistSignedAttempt(r, kind, height)
    <2>1. PICK kind \in AttemptKind, height \in Nat :
             PersistSignedAttempt(r, kind, height)
        BY <1>3
    <2>2. /\ kinds' = [kinds EXCEPT ![r] = Append(kinds[r], kind)]
          /\ state' = [state EXCEPT ![r] = SignedStateOf(kind)]
          /\ SignedStateOf(kind) \in {"ReplacementSigned", "CancellationSigned"}
          /\ IsUnresolved(state[r]) /\ inc' = inc
        BY <2>1 DEF PersistSignedAttempt, PersistSignedAttemptOk, SignedStateOf,
                    IsUnresolved
    <2>3. /\ DOMAIN kinds[r] \subseteq DOMAIN Append(kinds[r], kind)
          /\ Append(kinds[r], kind) # <<>>
        BY Zenon, AppendKind
    <2> QED  BY <2>2, <2>3 DEF Known
<1>4. CASE \E height \in Nat : RecordAttemptBroadcast(r, height)
    BY <1>4 DEF RecordAttemptBroadcast, Known
<1>5. CASE \E from, to \in TransactionState, b \in BlockId \cup {0} :
              CheckedTransition(r, from, to, b)
    <2>1. PICK from \in TransactionState, to \in TransactionState,
               b \in BlockId \cup {0} : CheckedTransition(r, from, to, b)
        BY <1>5
    <2>2. /\ state[r] = from /\ AllowsTransition(from, to)
          /\ state' = [state EXCEPT ![r] = to]
          /\ inc' = [inc EXCEPT ![r] = IF b = 0 THEN @ ELSE b]
          /\ kinds' = kinds
        BY <2>1 DEF CheckedTransition, TransitionTransaction, TransitionOk
    <2>3. /\ IsUnresolved(from) \/ (from = "ReconciliationPending" /\ to = "Failed")
          /\ to \notin {"NonceReserved", "ConformanceValidated",
                        "ReconciliationPending", "Reconciled"}
          /\ to = "Confirmed" => from = "Included"
        BY <2>2, Lifecycle
    <2>4. /\ to = "Included" => OwnSuccess(r, b)
          /\ to = "Confirmed" => b = 0 /\ Canonical(inc[r])
          /\ from = "NonceReserved" => to = "AbortedBeforeSigning"
        BY <2>1 DEF CheckedTransition
    <2>5. /\ state'[r] = to /\ inc'[r] = IF b = 0 THEN inc[r] ELSE b
          /\ q # r => state'[q] = state[q] /\ inc'[q] = inc[q]
        BY <2>2
    <2>6. OwnSuccess(r, b) => b # 0
        BY DEF OwnSuccess
    <2>7. from \notin Unsigned \/ from = "NonceReserved"
        BY <2>3 DEF IsUnresolved
    <2>8. ~IsUnresolved("Failed")
        BY DEF IsUnresolved
    <2> QED  BY <2>2, <2>3, <2>4, <2>5, <2>6, <2>7, <2>8 DEF Known
<1>6. CASE \E b \in BlockId : PersistConformance(r, b)
    BY <1>6 DEF PersistConformance, PersistConformanceOk, Known, IsUnresolved
<1>7. CASE \E b \in BlockId : PersistReconciliation(r, b)
    BY SMTT(30), <1>7 DEF PersistReconciliation, PersistReconciliationOk,
                RequiresReconciliation, Known, IsUnresolved
<1>8. CASE \E from \in TransactionState : FinalizeConformedFailure(r, from)
    BY Zenon, <1>8 DEF FinalizeConformedFailure, FinalizeOk, RequiresReconciliation,
                Known, IsUnresolved
<1> QED
    BY <1>1, <1>2, <1>3, <1>4, <1>5, <1>6, <1>7, <1>8 DEF RowCommand

\* Confirmed rows stay canonical through the commands on a row: Confirmed is
\* reached only from Included, with the stored block compared.
LEMMA RowCommandConfirmed ==
    ASSUME StoreTypeOK, ConfirmedIsCanonical, IncludedIsOwn, SignedHasBytes,
           body' = body, NEW r \in Row, RowCommand(r)
    PROVE  ConfirmedIsCanonical' /\ IncludedIsOwn' /\ SignedHasBytes'
<1>1. blocks' = blocks
    BY RowCommandFrame
<1>3. ASSUME NEW q \in Row, state'[q] \in Validated
      PROVE  /\ inc'[q] # 0 /\ body'[inc'[q]].tx \in Known(q)'
             /\ body'[inc'[q]].ok /\ Canonical(inc[q])'
    <2>1. inc'[q] = inc[q] /\ Known(q) \subseteq Known(q)'
        BY <1>3, RowCommandEffect
    <2>2. /\ OwnSuccess(q, inc[q]) /\ Canonical(inc[q])
        BY <1>3, RowCommandEffect DEF ConfirmedIsCanonical, IncludedIsOwn
    <2> QED  BY <1>1, <2>1, <2>2 DEF OwnSuccess, Canonical, On, Height
<1>4. ASSUME NEW q \in Row, state'[q] = "Included"
      PROVE  /\ inc'[q] # 0 /\ body'[inc'[q]].tx \in Known(q)'
             /\ body'[inc'[q]].ok
    <2>1. Known(q) \subseteq Known(q)'
        BY RowCommandEffect
    <2>2. OwnSuccess(q, inc'[q])
        BY <1>4, RowCommandEffect DEF IncludedIsOwn
    <2> QED  BY <2>1, <2>2 DEF OwnSuccess
<1>5. ASSUME NEW q \in Row, state'[q] \notin Unsigned
      PROVE  kinds'[q] # <<>>
    BY <1>5, RowCommandEffect DEF SignedHasBytes
<1> QED
    BY <1>3, <1>4, <1>5 DEF ConfirmedIsCanonical, IncludedIsOwn, SignedHasBytes,
                            OwnSuccess, Validated, Unsigned

\* A rewind reopens every confirmed or included row whose block it drops.
LEMMA ChainCommandConfirmed ==
    ASSUME StoreTypeOK, ConfirmedIsCanonical, IncludedIsOwn, SignedHasBytes,
           body' = body, ChainCommand
    PROVE  ConfirmedIsCanonical' /\ IncludedIsOwn' /\ SignedHasBytes'
<1> USE DEF Validated, Unsigned
<1>0. inc \in [Row -> BlockId \cup {0}]
    BY DEF StoreTypeOK
<1>1. CASE ReceiptCommand
    BY <1>1
       DEF ReceiptCommand, PersistCanonicalReceipt, ConfirmedIsCanonical, IncludedIsOwn,
                SignedHasBytes, OwnSuccess, Canonical, On, Height, Known
<1>2. CASE \E b \in BlockId : Height(b) = Len(blocks) + 1 /\ ApplyBlock(b)
    <2>1. PICK x \in BlockId : ApplyBlock(x)
        BY <1>2
    <2>2. /\ blocks' = Append(blocks, x)
          /\ state' = state /\ inc' = inc /\ kinds' = kinds
        BY <2>1 DEF ApplyBlock
    <2>3. ASSUME NEW r \in Row, state[r] \in Validated
          PROVE  Canonical(inc[r])'
        <3>1. inc[r] \in BlockId /\ Canonical(inc[r])
            BY <1>0, <2>3 DEF ConfirmedIsCanonical, OwnSuccess
        <3>2. \A b \in BlockId : Canonical(b) => Canonical(b)'
            BY <2>2, CanonicalKept
        <3> QED  BY Zenon, <2>2, <3>1, <3>2 DEF Canonical, On, Height
    <2> QED
        BY <2>2, <2>3 DEF ConfirmedIsCanonical, IncludedIsOwn, SignedHasBytes,
                          OwnSuccess, Known
<1>3. CASE \E k \in 1..Len(blocks) : Rewind(k)
    <2>1. PICK k \in 1..Len(blocks) : Rewind(k)
        BY <1>3
    <2> DEFINE revalidated == {r \in LostRecord(k) : inc[r] # 0 /\ Canonical(inc[r])}
               orphaned == OrphanedBy(k) \cup (LostRecord(k) \ revalidated)
    <2>2. blocks' = SubSeq(blocks, 1, k) /\ kinds' = kinds
        BY <2>1 DEF Rewind
    <2>3. \A r \in LostRecord(k) : state[r] = "Reconciled" /\ r \notin OrphanedBy(k)
        BY <2>1 DEF Rewind, RewindOk, LostRecord
    <2>4. ASSUME NEW r \in Row
          PROVE  /\ state'[r] = IF r \in orphaned THEN "Orphaned"
                                ELSE IF r \in revalidated
                                     THEN "ReconciliationPending"
                                ELSE state[r]
                 /\ inc'[r] = IF r \in orphaned THEN 0 ELSE inc[r]
        BY <2>1 DEF Rewind
    <2>5. ASSUME NEW r \in Row, state'[r] \in Validated
          PROVE  /\ state[r] \in Validated /\ inc'[r] = inc[r]
                 /\ r \notin OrphanedBy(k)
        BY <2>3, <2>4, <2>5
    <2>6. ASSUME NEW r \in Row, state'[r] = "Included"
          PROVE  state[r] = "Included" /\ inc'[r] = inc[r]
        BY <2>4, <2>6
    <2>7. ASSUME NEW r \in Row, state'[r] \notin Unsigned
          PROVE  state[r] \notin Unsigned
        <3>1. r \in OrphanedBy(k) => state[r] \notin Unsigned
            BY DEF OrphanedBy, Reopenable
        <3> QED  BY <2>3, <2>4, <2>7, <3>1
    <2>8. ASSUME NEW r \in Row, state'[r] \in Validated
          PROVE  Canonical(inc[r])'
        <3>1. inc[r] \in BlockId /\ Canonical(inc[r])
            BY <1>0, <2>5, <2>8 DEF ConfirmedIsCanonical, OwnSuccess
        <3>2. Height(inc[r]) <= k
            <4>1. Height(inc[r]) \in Nat
                BY <3>1, BlockType DEF StoreTypeOK
            <4>2. state[r] \in Reopenable /\ inc[r] # 0
                BY <2>5, <2>8, <1>0 DEF Reopenable, ConfirmedIsCanonical, OwnSuccess
            <4> QED  BY <2>5, <2>8, <4>1, <4>2 DEF OrphanedBy
        <3>3. \A b \in BlockId : Canonical(b) /\ Height(b) <= k => Canonical(b)'
            BY <2>2, CanonicalKept
        <3> QED  BY <2>5, <2>8, <3>1, <3>2, <3>3 DEF Canonical, On, Height
    <2> HIDE DEF revalidated, orphaned
    <2>9. ConfirmedIsCanonical'
        BY <2>2, <2>5, <2>8 DEF ConfirmedIsCanonical, OwnSuccess, Known
    <2>10. IncludedIsOwn' /\ SignedHasBytes'
        BY <2>2, <2>6, <2>7 DEF IncludedIsOwn, SignedHasBytes, OwnSuccess, Known
    <2> QED  BY <2>9, <2>10
<1> QED  BY <1>1, <1>2, <1>3 DEF ChainCommand

-----------------------------------------------------------------------------
\* The inductive invariant of the tables.
StoreInv ==
    /\ StoreTypeOK /\ BlocksLinked /\ ReceiptIsCanonical
    /\ MovementFollowsState
    /\ ConfirmedIsCanonical /\ IncludedIsOwn /\ SignedHasBytes /\ PlannedAtBlock

\* The tables an empty store starts with satisfy the invariant.
LEMMA StoreInitInv == StoreInit => StoreInv
<1> SUFFICES ASSUME StoreInit PROVE StoreInv
    OBVIOUS
<1> USE DEF StoreInit
<1>1. body \in Seq(Block) /\ DOMAIN body = {1} /\ body[1].n = 1
    BY DEF Block, Attempts, NoTx
<1>2. /\ blocks \in Seq({1}) /\ Len(blocks) = 1 /\ DOMAIN blocks = {1}
      /\ blocks[1] = 1
    OBVIOUS
<1>3. kinds \in [Row -> Seq(AttemptKind)]
    OBVIOUS
<1>4. StoreTypeOK
    BY <1>1, <1>2, <1>3 DEF StoreTypeOK, BlockId
<1> QED
    BY <1>1, <1>2, <1>4
       DEF StoreInv, BlocksLinked, ReceiptIsCanonical, MovementFollowsState,
           ConfirmedIsCanonical, IncludedIsOwn, SignedHasBytes, Height,
           IsUnresolved, Validated, Unsigned, PlannedAtBlock

\* Every command of the actor preserves it.
THEOREM StoreCommandInv ==
    ASSUME StoreInv, body' = body, StoreCommand
    PROVE  StoreInv'
<1> USE DEF StoreInv
<1>1. ASSUME NEW r \in Row, RowCommand(r)
      PROVE  StoreInv'
    <2>1. StoreTypeOK' /\ PlannedAtBlock' /\ MovementFollowsState'
        BY <1>1, RowCommandType, RowCommandMovement
    <2>2. ConfirmedIsCanonical' /\ IncludedIsOwn' /\ SignedHasBytes'
        BY <1>1, RowCommandConfirmed
    <2>3. BlocksLinked' /\ ReceiptIsCanonical'
        BY <1>1, RowCommandFrame
           DEF BlocksLinked, ReceiptIsCanonical, Canonical, On, Height
    <2> QED  BY <2>1, <2>2, <2>3
<1>2. ASSUME ChainCommand
      PROVE  StoreInv'
    BY <1>2, ChainCommandType, ChainCommandMovement, ChainCommandConfirmed,
       ChainCommandCanonical
<1> QED  BY <1>1, <1>2 DEF StoreCommand, TickCommand, ChainCommand

\* The network only adds blocks to the log.
BodyGrows ==
    /\ body' \in Seq(Block) /\ Len(body) <= Len(body')
    /\ \A b \in BlockId : body'[b] = body[b]

\* What the tables say stays true while the network goes on.
LEMMA BodyGrowsInv ==
    ASSUME StoreInv, BodyGrows, UNCHANGED storeVars
    PROVE  StoreInv'
<1> USE DEF StoreInv, storeVars
<1>1. BlockId \subseteq BlockId'
    BY DEF BodyGrows, BlockId, StoreTypeOK
<1>2. StoreTypeOK'
    BY <1>1 DEF StoreTypeOK, BodyGrows
<1>3. \A b \in BlockId : Height(b)' = Height(b) /\ (Canonical(b) => Canonical(b)')
    BY DEF BodyGrows, Canonical, On, Height
<1>4. BlocksLinked'
    <2>1. \A i \in DOMAIN blocks : blocks[i] \in BlockId
        BY DEF StoreTypeOK
    <2> QED  BY <1>3, <2>1 DEF BlocksLinked, Height
<1>5. ReceiptIsCanonical'
    BY <1>3 DEF ReceiptIsCanonical, StoreTypeOK
<1>6. MovementFollowsState' /\ SignedHasBytes'
    BY DEF MovementFollowsState, SignedHasBytes, IsUnresolved, Unsigned
<1>7. ASSUME NEW r \in Row, OwnSuccess(r, inc[r])
      PROVE  /\ inc[r] \in BlockId /\ OwnSuccess(r, inc[r])'
             /\ Canonical(inc[r]) => Canonical(inc[r])'
    <2>1. inc[r] \in BlockId /\ inc'[r] = inc[r]
        BY <1>7 DEF OwnSuccess, StoreTypeOK
    <2> QED
        BY <1>7, <2>1 DEF OwnSuccess, BodyGrows, Known, Canonical, On, Height
<1>8. ConfirmedIsCanonical' /\ IncludedIsOwn'
    BY <1>7 DEF ConfirmedIsCanonical, IncludedIsOwn, Validated
<1>9. PlannedAtBlock'
    BY <1>1 DEF PlannedAtBlock
<1> QED  BY <1>2, <1>4, <1>5, <1>6, <1>8, <1>9

\* Durable signed bytes are never forgotten: a command only adds attempts.
LEMMA StoreCommandKnown ==
    ASSUME StoreInv, body' = body, StoreCommand, NEW q \in Row
    PROVE  Known(q) \subseteq Known(q)' /\ (kinds[q] # <<>> => kinds'[q] # <<>>)
<1>1. ASSUME NEW r \in Row, RowCommand(r)
      PROVE  Known(q) \subseteq Known(q)' /\ (kinds[q] # <<>> => kinds'[q] # <<>>)
    BY <1>1, RowCommandEffect DEF StoreInv
<1>2. ASSUME ChainCommand
      PROVE  kinds' = kinds
    BY <1>2
       DEF ChainCommand, ReceiptCommand, PersistCanonicalReceipt, ApplyBlock, Rewind
<1> QED  BY <1>1, <1>2 DEF StoreCommand, TickCommand, ChainCommand, Known

\* No command of the execution service gives the lane a second owner: a
\* reservation needs a free lane, and a resolved row is never reopened.
THEOREM OneUnresolvedStep ==
    ASSUME StoreInv, OneUnresolved, body' = body, TickCommand
    PROVE  OneUnresolved'
<1> USE DEF StoreInv
<1>1. ASSUME NEW r \in Row, RowCommand(r)
      PROVE  OneUnresolved'
    <2>1. \A q \in Row : q # r => state'[q] = state[q]
        BY <1>1, RowCommandEffect
    <2>2. IsUnresolved(state'[r]) => IsUnresolved(state[r]) \/ Unresolved = {}
        BY <1>1, RowCommandEffect
    <2>3. ASSUME NEW p \in Row, NEW q \in Row, p # q,
                 IsUnresolved(state'[p]), IsUnresolved(state'[q])
          PROVE  FALSE
        BY <2>1, <2>2, <2>3 DEF OneUnresolved, Unresolved
    <2> QED  BY <2>3 DEF OneUnresolved
<1>2. CASE ReceiptCommand
    BY <1>2 DEF ReceiptCommand, PersistCanonicalReceipt, OneUnresolved, Unresolved
<1> QED  BY <1>1, <1>2 DEF TickCommand

\* The execution service leaves the stored chain alone.
LEMMA TickCommandFrame ==
    ASSUME TickCommand
    PROVE  blocks' = blocks
BY RowCommandFrame DEF TickCommand, ReceiptCommand, PersistCanonicalReceipt
=============================================================================
