------------------------------ MODULE TxStore ------------------------------
(***************************************************************************)
(* The transaction tables of the storage actor, src/storage/actor.rs.      *)
(*                                                                         *)
(* Every command of the actor runs alone on a copy of the state and is     *)
(* committed by one journal append, so a command is one atomic step.  This *)
(* module defines the commands on the durable tables; NonceLane composes   *)
(* them with the services that issue them.  A command Cmd(...) is enabled  *)
(* exactly when the actor accepts it, so a caller models the error path    *)
(* with the negation of the command's guard (CmdOk).                       *)
(*                                                                         *)
(* One signer and one vault.  A row is a nonce reservation; <<r, k>> is    *)
(* its k-th signed attempt.  Block identities index body, the log of every *)
(* block ever mined, so a block orphaned by a reorganisation keeps its     *)
(* identity and its contents.                                              *)
(***************************************************************************)
EXTENDS TxLifecycle, Integers, Sequences, FiniteSets

CONSTANTS
    MaxRows,      \* bound on nonce reservations
    Budget        \* maximum movement of the rate episode, in unit movements

ASSUME StoreAssumption == MaxRows \in Nat /\ Budget \in Nat

VARIABLES
    body,         \* contents of every block: [n, tx, nonce, ok]
    blocks,       \* canonical_blocks up to the cursor, by height
    receipts,     \* blocks whose allocator receipt is in canonical_receipts
    state,        \* row -> TransactionState, or "Absent"
    nonce,        \* row -> reserved nonce
    made,         \* row -> head hash its transaction_id was derived from
    created,      \* row -> block it was planned at (created_block)
    kinds,        \* row -> kinds of its durable signed attempts, in order
    last,         \* row -> signed or last broadcast block, latest attempt
    sent,         \* row -> latest attempt has a last_broadcast_block
    inc,          \* row -> included_block and hash, or 0
    rec,          \* row -> block of its reconciliation record, or 0
    move          \* row -> state of its rate movement reservation

storeVars == <<blocks, receipts, state, nonce, made, created, kinds, last,
               sent, inc, rec, move>>

Row == 1..MaxRows
NoTx == <<0, 0>>
ForeignTx == <<0, 1>>
MoveState == {"None", "Pending", "Confirmed", "Released"}

Height(b) == body[b].n

\* Block b lies on the chain c; a stored block is canonical when it is the
\* block stored at its height.
On(b, c) == Height(b) <= Len(c) /\ c[Height(b)] = b
Canonical(b) == On(b, blocks)

Cursor == blocks[Len(blocks)]

\* known_transaction_hashes: the durable signed attempts of a row.
Known(r) == {<<r, k>> : k \in DOMAIN kinds[r]}

IsCancellation(tx) ==
    /\ tx \notin {NoTx, ForeignTx}
    /\ kinds[tx[1]][tx[2]] = "Cancellation"

\* Faulty variant of Unresolved: an included row no longer owns the lane.
OwnersBeforeInclusion ==
    {r \in Row : IsUnresolved(state[r]) /\ state[r] \notin
                    {"Included", "Confirmed", "ConformanceValidated"}}

\* rows of load_all_unresolved; load_unresolved fails when there are two.
Unresolved == {r \in Row : IsUnresolved(state[r])}
AwaitingReconciliation == {r \in Row : state[r] = "ReconciliationPending"}

\* A conformance record is committed with ConformanceValidated, and a rewind
\* drops it exactly when it reopens the row, so the state tells.
HasConformance(r) ==
    RequiresReconciliation(state[r]) \/ state[r] = "Reconciled"

\* available_budget of the episode.
Charged == {r \in Row : move[r] \in {"Pending", "Confirmed"}}
AvailableBudget == Budget - Cardinality(Charged)

StoreInit ==
    /\ body = <<[n |-> 1, tx |-> NoTx, nonce |-> 0, ok |-> TRUE]>>
    /\ blocks = <<1>>
    /\ receipts = {}
    /\ state = [r \in Row |-> "Absent"]
    /\ nonce = [r \in Row |-> 0]
    /\ made = [r \in Row |-> 0]
    /\ created = [r \in Row |-> 0]
    /\ kinds = [r \in Row |-> <<>>]
    /\ last = [r \in Row |-> 0]
    /\ sent = [r \in Row |-> FALSE]
    /\ inc = [r \in Row |-> 0]
    /\ rec = [r \in Row |-> 0]
    /\ move = [r \in Row |-> "None"]

-----------------------------------------------------------------------------
(* The commands. *)

\* persist_plan: the plan's exact snapshot must be durable.  A rewind drops
\* the snapshots of the blocks it drops.
PersistPlanOk(plan) == Canonical(plan)

\* reserve_nonce, and reserve_rate_movement_and_nonce for a plan that charges
\* the rate episode: the reservation and the movement are one commit.  The
\* transaction identity is derived from (head hash, nonce); the final
\* preflight plans again from the snapshot alone, so the block it planned at
\* stands for the plan_id of a rate plan.
DuplicateIdentity(head, n) ==
    \E q \in Row : state[q] # "Absent" /\ made[q] = head /\ nonce[q] = n

MovementReserved(plan) ==
    \E q \in Row : \/ move[q] = "Pending"
                   \/ move[q] # "None" /\ created[q] = plan

ReserveOk(head, n, plan, rate) ==
    /\ Unresolved = {}
    /\ ~DuplicateIdentity(head, n)
    /\ rate => ~MovementReserved(plan) /\ AvailableBudget >= 1

ReserveNonce(r, head, n, plan, rate) ==
    /\ state[r] = "Absent"
    /\ ReserveOk(head, n, plan, rate)
    /\ state' = [state EXCEPT ![r] = "NonceReserved"]
    /\ nonce' = [nonce EXCEPT ![r] = n]
    /\ made' = [made EXCEPT ![r] = head]
    /\ created' = [created EXCEPT ![r] = plan]
    /\ move' = [move EXCEPT ![r] = IF rate THEN "Pending" ELSE "None"]
    /\ UNCHANGED <<blocks, receipts, kinds, last, sent, inc, rec>>

\* persist_signed: the first attempt, signed at the reservation's block.
PersistSigned(r) ==
    /\ state[r] = "NonceReserved"
    /\ state' = [state EXCEPT ![r] = "Signed"]
    /\ kinds' = [kinds EXCEPT ![r] = Append(@, "Initial")]
    /\ last' = [last EXCEPT ![r] = Height(created[r])]
    /\ sent' = [sent EXCEPT ![r] = FALSE]
    /\ UNCHANGED <<blocks, receipts, nonce, made, created, inc, rec, move>>

\* persist_signed_attempt: compares with the row's own state, not with the
\* caller's copy.
SignedStateOf(kind) ==
    IF kind = "Replacement" THEN "ReplacementSigned" ELSE "CancellationSigned"

PersistSignedAttemptOk(r, kind) ==
    \/ kind = "Replacement" /\ state[r] \in {"Submitted", "Replaced"}
    \/ /\ kind = "Cancellation"
       /\ state[r] \in {"Signed", "Submitted", "Replaced", "Orphaned"}

PersistSignedAttempt(r, kind, height) ==
    /\ PersistSignedAttemptOk(r, kind)
    /\ state' = [state EXCEPT ![r] = SignedStateOf(kind)]
    /\ kinds' = [kinds EXCEPT ![r] = Append(@, kind)]
    /\ last' = [last EXCEPT ![r] = height]
    /\ sent' = [sent EXCEPT ![r] = FALSE]
    /\ UNCHANGED <<blocks, receipts, nonce, made, created, inc, rec, move>>

\* record_attempt_broadcast: the broadcast clock never runs backwards.
RecordBroadcastOk(r, height) == kinds[r] # <<>> /\ height >= last[r]

RecordAttemptBroadcast(r, height) ==
    /\ RecordBroadcastOk(r, height)
    /\ last' = [last EXCEPT ![r] = height]
    /\ sent' = [sent EXCEPT ![r] = TRUE]
    /\ UNCHANGED <<blocks, receipts, state, nonce, made, created, kinds, inc,
                   rec, move>>

\* transition_transaction: compare-and-set on the caller's copy of the state.
\* The included block, when there is one, is stored as the caller gives it.
TransitionOk(r, from, to) == AllowsTransition(from, to) /\ state[r] = from

TransitionTransaction(r, from, to, b) ==
    /\ TransitionOk(r, from, to)
    /\ state' = [state EXCEPT ![r] = to]
    /\ inc' = [inc EXCEPT ![r] = IF b = 0 THEN @ ELSE b]
    /\ move' = [move EXCEPT ![r] = IF ReleasesMovement(to) /\ @ = "Pending"
                                   THEN "Released" ELSE @]
    /\ UNCHANGED <<blocks, receipts, nonce, made, created, kinds, last, sent,
                   rec>>

\* load_pending_conformance: a confirmed row must have its inclusion block,
\* the receipt in it and the exact snapshot it was planned from.
ConformanceEvidence(r) ==
    /\ Canonical(inc[r]) /\ inc[r] \in receipts
    /\ Canonical(created[r])

\* persist_conformance.
PersistConformanceOk(r, b) == state[r] = "Confirmed" /\ inc[r] = b

PersistConformance(r, b) ==
    /\ PersistConformanceOk(r, b)
    /\ state' = [state EXCEPT ![r] = "ConformanceValidated"]
    /\ UNCHANGED <<blocks, receipts, nonce, made, created, kinds, last, sent,
                   inc, rec, move>>

\* persist_reconciliation: the record, the terminal state and the confirmed
\* movement, if there is one, are one commit.
MovementAgrees(r, s) ==
    move[r] \in {"None", IF s = "ConformanceValidated" THEN "Pending"
                                                       ELSE "Confirmed"}

ConfirmMovement(r) ==
    move' = [move EXCEPT ![r] = IF @ = "Pending" THEN "Confirmed" ELSE @]

PersistReconciliationOk(r, b) ==
    /\ HasConformance(r) /\ rec[r] = 0
    /\ Canonical(b)
    /\ RequiresReconciliation(state[r])
    /\ Height(b) >= Height(inc[r])
    /\ MovementAgrees(r, state[r])

PersistReconciliation(r, b) ==
    /\ PersistReconciliationOk(r, b)
    /\ state' = [state EXCEPT ![r] = "Reconciled"]
    /\ rec' = [rec EXCEPT ![r] = b]
    /\ ConfirmMovement(r)
    /\ UNCHANGED <<blocks, receipts, nonce, made, created, kinds, last, sent,
                   inc>>

\* finalize_conformed_post_state_failure: Failed, but the movement executed
\* on chain, so it is confirmed and not released.
FinalizeOk(r, from) ==
    /\ state[r] = from /\ RequiresReconciliation(from)
    /\ inc[r] # 0 /\ Canonical(inc[r])
    /\ MovementAgrees(r, from)

\* Faulty variant of FinalizeConformedFailure: the movement is left pending.
FinalizeStateOnly(r, from) ==
    /\ FinalizeOk(r, from)
    /\ state' = [state EXCEPT ![r] = "Failed"]
    /\ UNCHANGED <<blocks, receipts, nonce, made, created, kinds, last, sent,
                   inc, rec, move>>

FinalizeConformedFailure(r, from) ==
    /\ FinalizeOk(r, from)
    /\ state' = [state EXCEPT ![r] = "Failed"]
    /\ ConfirmMovement(r)
    /\ UNCHANGED <<blocks, receipts, nonce, made, created, kinds, last, sent,
                   inc, rec>>

\* persist_canonical_receipt, issued for a block that is stored canonical.
PersistCanonicalReceipt(b) ==
    /\ Canonical(b)
    /\ receipts' = receipts \cup {b}
    /\ UNCHANGED <<blocks, state, nonce, made, created, kinds, last, sent,
                   inc, rec, move>>

\* apply_block: a block whose watched logs name a successful routine call
\* carries that receipt; a revert or a cancellation emits no watched log.
HasWatchedLogs(b) ==
    /\ body[b].tx \notin {NoTx, ForeignTx}
    /\ body[b].ok /\ ~IsCancellation(body[b].tx)

ApplyBlock(b) ==
    /\ blocks' = Append(blocks, b)
    /\ receipts' = receipts \cup (IF HasWatchedLogs(b) THEN {b} ELSE {})
    /\ UNCHANGED <<state, nonce, made, created, kinds, last, sent, inc, rec,
                   move>>

\* rewind to the common ancestor at height k.  A row loses its outcome when
\* its inclusion, or a stored receipt of one of its attempts, is above k.  A
\* row that loses only its reconciliation record is revalidated.
OrphanedBy(k) ==
    {r \in Row :
        /\ state[r] \in Reopenable
        /\ \/ inc[r] # 0 /\ Height(inc[r]) > k
           \/ \E b \in receipts : Height(b) > k /\ body[b].tx \in Known(r)}

LostRecord(k) ==
    {r \in Row : rec[r] # 0 /\ Height(rec[r]) > k} \ OrphanedBy(k)

\* Faulty variant of KeptRecord: orphaned reconciliation records stay behind.
AnyRecord(r, k) == rec[r]

\* What a rewind retains of the stored chain, of the receipts, and of the
\* reconciliation record of a row.
KeptBlocks(k) == SubSeq(blocks, 1, k)
KeptReceipts(k) == {b \in receipts : Height(b) <= k}
KeptRecord(r, k) == IF rec[r] # 0 /\ Height(rec[r]) > k THEN 0 ELSE rec[r]

RewindOk(k) == \A r \in LostRecord(k) : state[r] = "Reconciled"

Rewind(k) ==
    LET revalidated == {r \in LostRecord(k) : inc[r] # 0 /\ Canonical(inc[r])}
        orphaned == OrphanedBy(k) \cup (LostRecord(k) \ revalidated)
    IN  /\ RewindOk(k)
        /\ blocks' = KeptBlocks(k)
        /\ receipts' = KeptReceipts(k)
        /\ state' = [r \in Row |->
                        IF r \in orphaned THEN "Orphaned"
                        ELSE IF r \in revalidated THEN "ReconciliationPending"
                        ELSE state[r]]
        /\ inc' = [r \in Row |-> IF r \in orphaned THEN 0 ELSE inc[r]]
        /\ rec' = [r \in Row |-> KeptRecord(r, k)]
        /\ move' = [r \in Row |->
                       IF r \in orphaned /\ move[r] = "Confirmed"
                       THEN "Pending" ELSE move[r]]
        /\ UNCHANGED <<nonce, made, created, kinds, last, sent>>

-----------------------------------------------------------------------------
(* What the tables promise. *)

BlockId == DOMAIN body
Attempts == Row \X (Nat \ {0})
Block == [n : Nat \ {0}, tx : Attempts \cup {NoTx, ForeignTx}, nonce : Nat,
          ok : BOOLEAN]

StoreTypeOK ==
    /\ body \in Seq(Block)
    /\ blocks \in Seq(BlockId) /\ Len(blocks) >= 1
    /\ receipts \subseteq BlockId
    /\ state \in [Row -> TransactionState \cup {"Absent"}]
    /\ nonce \in [Row -> Nat] /\ last \in [Row -> Nat]
    /\ made \in [Row -> BlockId \cup {0}] /\ created \in [Row -> BlockId \cup {0}]
    /\ inc \in [Row -> BlockId \cup {0}] /\ rec \in [Row -> BlockId \cup {0}]
    /\ kinds \in [Row -> Seq(AttemptKind)]
    /\ sent \in [Row -> BOOLEAN] /\ move \in [Row -> MoveState]

\* At most one row owns the signer's nonce lane (load_unresolved calls more
\* than one "impossible").
OneUnresolved ==
    \A r, q \in Row :
        IsUnresolved(state[r]) /\ IsUnresolved(state[q]) => r = q

\* A block of the stored chain is stored at its own height.
BlocksLinked == \A i \in DOMAIN blocks : Height(blocks[i]) = i

\* A block that holds one of the row's own attempts, executed successfully.
OwnSuccess(r, b) == b # 0 /\ body[b].tx \in Known(r) /\ body[b].ok

Validated == {"Confirmed", "ConformanceValidated", "ReconciliationPending",
              "Reconciled"}

\* A row past confirmation points at a block of the stored canonical chain
\* that holds one of the row's own attempts, executed successfully, whatever
\* rewinds came between the reads of a tick and its commit.
ConfirmedIsCanonical ==
    \A r \in Row : state[r] \in Validated =>
        OwnSuccess(r, inc[r]) /\ Canonical(inc[r])

\* A row is marked Included for a block with its own successful attempt.
IncludedIsOwn ==
    \A r \in Row : state[r] = "Included" => OwnSuccess(r, inc[r])

\* A row past its reservation has durable signed bytes.
Unsigned == {"Absent", "NonceReserved", "AbortedBeforeSigning"}
SignedHasBytes ==
    \A r \in Row : state[r] \notin Unsigned => kinds[r] # <<>>

\* A reserved row was planned at a block.
PlannedAtBlock == \A r \in Row : state[r] # "Absent" => created[r] \in BlockId

\* A reconciliation record belongs to a Reconciled row and to a stored
\* canonical block not below the inclusion, so rewind never meets the
\* invariant error that would stop chain ingestion.
RecordIsCanonical ==
    \A r \in Row : rec[r] # 0 =>
        /\ state[r] = "Reconciled" /\ Canonical(rec[r])
        /\ Height(inc[r]) <= Height(rec[r])

\* A stored receipt is in a stored canonical block, through every rewind.
ReceiptIsCanonical == \A b \in receipts : Canonical(b)

\* The movement follows the row: only a lane owner holds a pending movement,
\* that of a reconciled row, if any, is confirmed, and a confirmed one belongs to a row
\* that executed.
MovementFollowsState ==
    \A r \in Row :
        /\ move[r] = "Pending" => IsUnresolved(state[r])
        /\ state[r] \in {"ReconciliationPending", "Reconciled"}
              => move[r] \in {"None", "Confirmed"}
        /\ move[r] = "Confirmed"
              => state[r] \in {"ReconciliationPending", "Reconciled", "Failed"}
=============================================================================
