----------------------------- MODULE NonceLane -----------------------------
(***************************************************************************)
(* One allocator nonce lane, end to end: the execution service             *)
(* (src/runtime/execution_service.rs) with the final preflight and the     *)
(* pending policy it calls, the canonical chain service                    *)
(* (src/chain/heads.rs), the storage actor (TxStore), and the network that *)
(* mines, reorganises, loses and delays.                                   *)
(*                                                                         *)
(* The execution service is one task.  Between two of its steps the other  *)
(* services and the network may act, so what a tick has read (job) may be  *)
(* stale when it commits.  A step here is one storage command together     *)
(* with the reads that precede it since the previous command.              *)
(***************************************************************************)
EXTENDS TxStore, Functions

CONSTANTS
    MaxReplacements,   \* fee bumps below maximum_fee_per_gas_wei
    Confirmations,     \* receipt_confirmation_evm_blocks
    RebroadcastAfter,  \* identical_rebroadcast_after_opportunities
    Charges,           \* whether plans charge a rate episode: a set of Booleans
    PinnedBlock,       \* snapshot.mode = PinnedBlock (else AtomicLatest)
    MayRevert,         \* routine calls may revert
    MayForeign,        \* the key may be used outside the bot
    MayDrift,          \* receipt or post-state may differ from the plan
    MaxNoise,          \* bound: empty blocks nobody waits for
    MaxReorgs,         \* bound: chain reorganisations
    ReorgDepth,        \* bound: blocks one reorganisation replaces
    MaxFaults          \* bound: crashes, evictions, provider and signer failures

ASSUME LaneAssumption ==
    /\ MaxReplacements \in Nat /\ Confirmations \in Nat
    /\ RebroadcastAfter \in Nat /\ MaxNoise \in Nat
    /\ MaxReorgs \in Nat /\ ReorgDepth \in Nat /\ MaxFaults \in Nat
    /\ Charges \subseteq BOOLEAN
    /\ PinnedBlock \in BOOLEAN /\ MayRevert \in BOOLEAN
    /\ MayForeign \in BOOLEAN /\ MayDrift \in BOOLEAN

VARIABLES
    chain,        \* the provider's canonical chain, block identities
    network,      \* attempts whose bytes reached a node
    ready,        \* provider_ready
    paused,       \* "no", or why the vault is quarantined
    pc, job,      \* the execution service's tick
    noise, reorgs, faults

chainVars == <<body, chain, network>>
bounds == <<noise, reorgs, faults>>
vars == <<storeVars, chainVars, ready, paused, pc, job, bounds>>

PauseReason ==
    {"no", "future", "unattributed", "foreign", "recovery", "storage",
     "multiple", "duplicate", "superseded", "fee", "signer", "reconcile",
     "orphaned"}

Step ==
    {"idle", "observe", "commit", "conform", "reconcile", "finalize",
     "attempt", "submit", "resubmit", "record", "plan", "reserve", "gate",
     "sign"}

NoJob == [r |-> 0, st |-> "Absent", head |-> 0, aim |-> "None", blk |-> 0,
          tip |-> 0, nonce |-> 0, rate |-> FALSE, ok |-> FALSE]

-----------------------------------------------------------------------------
(* The chain: at most one allocator transaction per block. *)

NonceOn(c) == Cardinality({i \in DOMAIN c : body[c[i]].tx # NoTx})
ConfirmedNonce == NonceOn(chain)

Latest(r) == <<r, Len(kinds[r])>>
Mineable(c) == {a \in network : nonce[a[1]] = NonceOn(c)}
Outcomes(tx) ==
    IF MayRevert /\ tx # NoTx /\ ~IsCancellation(tx) THEN BOOLEAN ELSE {TRUE}

BlockOn(c, tx, ok) ==
    [n |-> Len(c) + 1, tx |-> tx, nonce |-> NonceOn(c), ok |-> ok]

Extend(tx, ok) ==
    /\ body' = Append(body, BlockOn(chain, tx, ok))
    /\ chain' = Append(chain, Len(body) + 1)
    /\ UNCHANGED <<storeVars, network, ready, paused, pc, job, reorgs, faults>>

MineTx ==
    /\ \E tx \in Mineable(chain) : \E ok \in Outcomes(tx) : Extend(tx, ok)
    /\ UNCHANGED noise

\* The exclusive key is used elsewhere, once, at any time.
MineForeign ==
    /\ MayForeign
    /\ \A b \in DOMAIN body : body[b].tx # ForeignTx
    /\ Extend(ForeignTx, TRUE)
    /\ UNCHANGED noise

\* Blocks the lane waits for, as confirmations or as rebroadcast
\* opportunities, are not charged to the bound on empty blocks.
Awaited ==
    \/ \E r \in Unresolved :
          state[r] = "Included" /\ Len(chain) < Height(inc[r]) + Confirmations
    \/ \E r \in Unresolved :
          Latest(r) \notin network /\ Len(chain) < last[r] + RebroadcastAfter

MineEmpty ==
    /\ Awaited \/ noise < MaxNoise
    /\ noise' = IF Awaited THEN noise ELSE noise + 1
    /\ Extend(NoTx, TRUE)

\* The top d blocks are replaced by d others; the first of them may hold a
\* pending attempt.
Reorg ==
    /\ reorgs < MaxReorgs
    /\ \E d \in 1..ReorgDepth :
          LET c == SubSeq(chain, 1, Len(chain) - d)
          IN  /\ d < Len(chain)
              /\ \E tx \in Mineable(c) \cup {NoTx} : \E ok \in Outcomes(tx) :
                    body' = body \o [i \in 1..d |->
                        IF i = 1 THEN BlockOn(c, tx, ok)
                        ELSE [n |-> Len(c) + i, tx |-> NoTx, nonce |-> 0,
                              ok |-> TRUE]]
              /\ chain' = c \o [i \in 1..d |-> Len(body) + i]
    /\ reorgs' = reorgs + 1
    /\ UNCHANGED <<storeVars, network, ready, paused, pc, job, noise, faults>>

-----------------------------------------------------------------------------
(* The chain service: poll_once rewinds to the common ancestor, then applies
   the missing blocks one commit at a time. *)

Follows == Len(blocks) <= Len(chain) /\ Cursor = chain[Len(blocks)]

\* find_common_ancestor walks back to the last height where the two agree.
CommonAncestor(k) ==
    /\ k <= Len(chain) /\ blocks[k] = chain[k]
    /\ k = Len(blocks) \/ k = Len(chain) \/ blocks[k + 1] # chain[k + 1]

RewindAndReplay ==
    /\ ~Follows
    /\ \E k \in 1..Len(blocks) : CommonAncestor(k) /\ Rewind(k)
    /\ ready' = FALSE
    /\ UNCHANGED <<chainVars, paused, pc, job, bounds>>

CatchUp ==
    /\ Follows /\ Len(blocks) < Len(chain)
    /\ ApplyBlock(chain[Len(blocks) + 1])
    /\ ready' = (Len(blocks) + 1 = Len(chain))
    /\ UNCHANGED <<chainVars, paused, pc, job, bounds>>

\* A poll that finds the cursor at the head makes the provider ready again.
PollIdle ==
    /\ Follows /\ Len(blocks) = Len(chain) /\ ~ready
    /\ ready' = TRUE
    /\ UNCHANGED <<storeVars, chainVars, paused, pc, job, bounds>>

\* The state service's refresh: an unresolved transaction replaces an
\* incident quarantine by PendingTransaction; without one it is preserved.
StateRefresh ==
    /\ paused # "no"
    /\ \E r \in Unresolved :
          Unresolved = {r} /\ state[r] # "ForeignNonceConsumed"
    /\ paused' = "no"
    /\ UNCHANGED <<storeVars, chainVars, ready, pc, job, bounds>>

-----------------------------------------------------------------------------
(* The execution service: ending a tick. *)

Idle == pc' = "idle" /\ job' = NoJob

\* The tick ends with nothing more to do, or with a retryable error.
Done ==
    /\ Idle
    /\ UNCHANGED <<storeVars, chainVars, ready, paused, bounds>>

\* The tick ends in pause_signer, pause_reconciliation_failure or an error
\* whose disposition is a quarantine.
Quarantine(why) ==
    /\ Idle
    /\ paused' = why
    /\ UNCHANGED <<storeVars, chainVars, ready, bounds>>

\* The tick goes on to the storage command at pc = step.
Go(step, next) ==
    /\ pc' = step /\ job' = next
    /\ UNCHANGED <<chainVars, ready, paused, bounds>>

GoOn(step, next) == Go(step, next) /\ UNCHANGED storeVars

Fault == faults < MaxFaults /\ faults' = faults + 1

-----------------------------------------------------------------------------
(* tick_once, recovery half: load the one unresolved row and the cursor. *)

BeginTick ==
    /\ pc = "idle" /\ ready /\ Unresolved # {}
    /\ IF Cardinality(Unresolved) > 1
       THEN Quarantine("multiple")
       ELSE \E r \in Unresolved :
               GoOn("observe", [NoJob EXCEPT !.r = r, !.st = state[r],
                                             !.head = Len(blocks)])

\* canonical_receipt: the durable receipt, else the provider's, which is
\* used only when its block is the stored one.  0 is no receipt, and Mismatch
\* the error of a receipt in another block than the stored one.
Mismatch == 0 - 1
Mined(r) == {b \in Range(chain) : body[b].tx \in Known(r)}
Durable(r) == {b \in receipts : body[b].tx \in Known(r)}

CanonicalReceipt(r) ==
    IF Durable(r) # {} THEN Durable(r)
    ELSE IF Mined(r) = {} THEN {0}
    ELSE {IF Height(b) > Len(blocks) THEN 0
          ELSE IF Canonical(b) THEN b ELSE Mismatch : b \in Mined(r)}

\* What the tick gets from canonical_receipt.  A receipt that is found is made
\* durable before it is used.
Received == IF pc = "observe" THEN CanonicalReceipt(job.r) ELSE {}

\* A lookup by hash finds a mined attempt, and may find one in a mempool.
MaySee(a) == a \in network
MayMiss(a) == \A b \in Range(chain) : body[b].tx # a
LatestKind(r) == kinds[r][Len(kinds[r])]

\* rebroadcast_due counts the opportunities since the last broadcast; a
\* cursor behind that block is a reversed range, an error of the actor.
ClockReversed(r) == job.head < last[r]
RebroadcastDue(r) == job.head - last[r] >= RebroadcastAfter

\* advance_pending's nonce gate.
FutureNonce ==
    /\ pc = "observe" /\ nonce[job.r] > ConfirmedNonce
    /\ Quarantine("future")

ReceiptMismatch ==
    /\ pc = "observe" /\ nonce[job.r] <= ConfirmedNonce
    /\ Mismatch \in Received
    /\ Done

\* Faulty variant of ClassifyConsumedNonce: a known receipt ahead of the
\* cursor is not waited for.
ClassifyAtOnce ==
    LET r == job.r
        scanned == {blocks[h] : h \in {i \in DOMAIN blocks :
                                         Height(created[r]) <= i
                                         /\ i <= job.head}}
        spender == {b \in scanned : body[b].tx # NoTx
                                    /\ body[b].nonce = nonce[r]}
    IN  /\ pc = "observe" /\ nonce[r] < ConfirmedNonce
        /\ 0 \in Received
        /\ IF \E b \in scanned : ~On(b, chain) THEN Done
           ELSE IF spender = {} THEN Quarantine("unattributed")
           ELSE \E b \in spender :
                   IF body[b].tx \in Known(r) THEN Done
                   ELSE GoOn("commit", [job EXCEPT
                           !.aim = "ForeignNonceConsumed", !.blk = b])

\* classify_consumed_nonce: the nonce is spent and no stored block holds the
\* receipt.  A known receipt ahead of the cursor is waited for.
ClassifyConsumedNonce ==
    LET r == job.r
        scanned == {blocks[h] : h \in {i \in DOMAIN blocks :
                                         Height(created[r]) <= i
                                         /\ i <= job.head}}
        spender == {b \in scanned : body[b].tx # NoTx
                                    /\ body[b].nonce = nonce[r]}
    IN  /\ pc = "observe" /\ nonce[r] < ConfirmedNonce
        /\ 0 \in Received
        /\ IF Mined(r) # {} \/ \E b \in scanned : ~On(b, chain) THEN Done
           ELSE IF spender = {} THEN Quarantine("unattributed")
           ELSE \E b \in spender :
                   IF body[b].tx \in Known(r) THEN Done
                   ELSE GoOn("commit", [job EXCEPT
                           !.aim = "ForeignNonceConsumed", !.blk = b])

\* The gate passed: the nonce is the next one, or a stored block holds a
\* receipt of the row.
Observing(got) ==
    /\ got \in Received \ {Mismatch}
    /\ nonce[job.r] <= ConfirmedNonce
    /\ nonce[job.r] = ConfirmedNonce \/ got > 0

RecoverReserved ==
    /\ Observing(0) /\ job.st = "NonceReserved"
    /\ GoOn("commit", [job EXCEPT !.aim = "AbortedBeforeSigning"])

\* Faulty variant of RecoverSigned: bytes that no node shows are given up.
GiveUpUnseen ==
    LET r == job.r IN
    \E got \in Received :
      /\ Observing(got) /\ job.st = "Signed"
      /\ \/ /\ got > 0
            /\ PersistCanonicalReceipt(got)
            /\ Go("commit", [job EXCEPT !.aim = "Submitted"])
         \/ got = 0 /\ GoOn("commit", [job EXCEPT !.aim =
                                IF MaySee(Latest(r)) THEN "Submitted" ELSE "Failed"])

\* recover_signed: the bytes own the nonce, whatever became of the send.
RecoverSigned ==
    LET r == job.r
        submitted == [job EXCEPT !.aim = "Submitted"]
    IN  \E got \in Received :
          /\ Observing(got) /\ job.st = "Signed"
          /\ \/ /\ got > 0
                /\ PersistCanonicalReceipt(got) /\ Go("commit", submitted)
             \/ /\ got = 0 /\ MaySee(Latest(r))
                /\ GoOn("commit", submitted)
             \/ /\ got = 0 /\ MayMiss(Latest(r))
                /\ IF sent[r] /\ ClockReversed(r) THEN Quarantine("storage")
                   ELSE IF sent[r] /\ ~RebroadcastDue(r) THEN Done
                   ELSE GoOn("resubmit", submitted)

\* Faulty variant of RecoverSignedAttempt: an attempt that no node shows is
\* waited for, and not sent again.
WaitForAttempt ==
    LET r == job.r
        done == [job EXCEPT !.aim = IF job.st = "ReplacementSigned"
                            THEN "Replaced" ELSE "CancellationSubmitted"]
    IN  \E got \in Received :
          /\ Observing(got)
          /\ job.st \in {"ReplacementSigned", "CancellationSigned"}
          /\ \/ /\ got > 0
                /\ PersistCanonicalReceipt(got) /\ Go("record", [done EXCEPT !.ok = TRUE])
             \/ /\ got = 0 /\ MaySee(Latest(r))
                /\ GoOn("record", [done EXCEPT !.ok = TRUE])
             \/ got = 0 /\ MayMiss(Latest(r)) /\ Done

\* recover_signed_pending_attempt.
RecoverSignedAttempt ==
    LET r == job.r
        done == [job EXCEPT !.aim = IF job.st = "ReplacementSigned"
                            THEN "Replaced" ELSE "CancellationSubmitted"]
    IN  \E got \in Received :
          /\ Observing(got)
          /\ job.st \in {"ReplacementSigned", "CancellationSigned"}
          /\ \/ /\ got > 0
                /\ PersistCanonicalReceipt(got) /\ Go("record", [done EXCEPT !.ok = TRUE])
             \/ /\ got = 0 /\ MaySee(Latest(r))
                /\ GoOn("record", [done EXCEPT !.ok = TRUE])
             \/ /\ got = 0 /\ MayMiss(Latest(r))
                /\ GoOn("resubmit", done)

InFlight == {"Submitted", "Replaced", "CancellationSubmitted", "Orphaned"}

\* canonical_receipt_outcome: a cancellation won only when the copied state
\* is CancellationSubmitted and the receipt is the latest attempt's.
ReceiptOutcome(r, st, b) ==
    IF ~body[b].ok THEN "Reverted"
    ELSE IF st = "CancellationSubmitted" /\ body[b].tx = Latest(r)
         THEN "Cancelled"
    ELSE "Included"

ObserveReceipt ==
    LET r == job.r IN
    \E got \in Received :
      /\ Observing(got) /\ got > 0 /\ job.st \in InFlight
      /\ PersistCanonicalReceipt(got)
      /\ Go("commit", [job EXCEPT !.aim = ReceiptOutcome(r, job.st, got),
                                  !.blk = got])

\* cancellation_fees: a cancellation is signed at the configured maximum, so
\* there is no second one.
CanCancel(r) == LatestKind(r) # "Cancellation"
Attempt(kind) == [job EXCEPT !.aim = kind]

\* recover_orphaned.
RecoverOrphaned ==
    /\ Observing(0) /\ job.st = "Orphaned"
    /\ IF CanCancel(job.r) THEN GoOn("attempt", Attempt("Cancellation"))
       ELSE Quarantine("fee")

\* manage_pending: assess_pending decides; a replacement whose bumped fee
\* reaches the maximum becomes a cancellation.
Replacements(r) == Cardinality({k \in DOMAIN kinds[r] : kinds[r][k] = "Replacement"})

ManagePending(r) ==
    IF job.head < Height(created[r]) THEN Quarantine("storage")
    ELSE \/ Done
         \/ /\ Replacements(r) < MaxReplacements
            /\ GoOn("attempt", Attempt("Replacement"))
         \/ GoOn("attempt", Attempt("Cancellation"))

\* reconcile_nonce_or_rebroadcast, then manage_pending.  A visible
\* transaction is compared with the routine call, also when the latest
\* attempt is a cancellation.
ReconcileOrRebroadcast ==
    LET r == job.r
        manage == IF job.st = "CancellationSubmitted" THEN Done
                  ELSE ManagePending(r)
    IN  /\ Observing(0) /\ job.st \in InFlight \ {"Orphaned"}
        /\ \/ /\ MaySee(Latest(r))
              /\ IF LatestKind(r) = "Cancellation" THEN Quarantine("recovery")
                 ELSE manage
           \/ /\ MayMiss(Latest(r))
              /\ IF ClockReversed(r) THEN Quarantine("storage")
                 ELSE IF RebroadcastDue(r)
                      THEN GoOn("resubmit", [job EXCEPT !.aim = "None"])
                 ELSE manage

-----------------------------------------------------------------------------
(* After inclusion. *)

\* The gate for rows whose lookup result is not used further: the receipt,
\* if the nonce is spent, was found.
PastGate(states) ==
    \E got \in Received :
       Observing(got) /\ job.st \in states

\* Faulty variant of ConfirmInclusion: one confirmation too few.
ConfirmEarly ==
    LET b == inc[job.r] IN
    /\ PastGate({"Included"})
    /\ IF b = 0 \/ ~Canonical(b) THEN Quarantine("recovery")
       ELSE IF job.head + 1 < Height(b) + Confirmations THEN Done
       ELSE GoOn("commit", [job EXCEPT !.aim = "Confirmed"])

\* Included: the stored block at the row's height must be the inclusion
\* block, and deep enough under the copied cursor.
ConfirmInclusion ==
    LET b == inc[job.r] IN
    /\ PastGate({"Included"})
    /\ IF b = 0 \/ ~Canonical(b) THEN Quarantine("recovery")
       ELSE IF job.head < Height(b) + Confirmations THEN Done
       ELSE GoOn("commit", [job EXCEPT !.aim = "Confirmed"])

\* reconcile_confirmed_transaction: load_pending_conformance reads the row
\* again.  A row moved by a rewind is left alone; a cancellation's receipt
\* is not the routine call, which pauses; a receipt that differs from the
\* plan's events fails the row.
ReconcileConfirmed ==
    LET r == job.r IN
    /\ PastGate({"Confirmed"})
    /\ IF state[r] # "Confirmed" THEN Done
       ELSE IF ~ConformanceEvidence(r) \/ IsCancellation(body[inc[r]].tx)
       THEN Quarantine("reconcile")
       ELSE \/ GoOn("conform", [job EXCEPT !.blk = inc[r]])
            \/ MayDrift /\ GoOn("commit", [job EXCEPT !.aim = "Failed"])

\* reconcile_validated_post_state: the post-state is rebuilt at the cursor.
PostState(next) ==
    IF ~HasConformance(next.r) THEN Quarantine("recovery")
    ELSE IF ~MovementAgrees(next.r, state[next.r])
         THEN Quarantine("reconcile")
    ELSE \/ GoOn("reconcile", [next EXCEPT !.blk = Cursor])
         \/ MayDrift /\ GoOn("finalize", next)

ReconcileValidated ==
    /\ PastGate({"ConformanceValidated"})
    /\ PostState(job)

\* advance_reconciliation_pending: only when no row owns the lane and the
\* vault is not quarantined.
Revalidate ==
    /\ pc = "idle" /\ ready /\ paused = "no" /\ Unresolved = {}
    /\ \E r \in AwaitingReconciliation :
          PostState([NoJob EXCEPT !.r = r, !.st = state[r], !.head = Len(blocks)])

HoldForeign ==
    /\ PastGate({"ForeignNonceConsumed"})
    /\ Quarantine("foreign")

-----------------------------------------------------------------------------
(* The storage commands of a tick. *)

\* recover_terminal_outcome returns the vault to Automatic.
Recovers(aim) == aim \in {"Reverted", "Cancelled", "Failed"}

\* transition_transaction with the copied state; a refused command is a
\* storage error and quarantines the signer.  confirm_canonical_inclusion
\* checks the stored block once more and only retries when it moved.
Commit ==
    LET r == job.r IN
    /\ pc = "commit"
    /\ IF job.aim = "Confirmed" /\ (inc[r] = 0 \/ ~Canonical(inc[r])) THEN Done
       ELSE IF ~TransitionOk(r, job.st, job.aim) THEN Quarantine("storage")
       ELSE /\ TransitionTransaction(r, job.st, job.aim, job.blk)
            /\ paused' = IF job.aim = "ForeignNonceConsumed" THEN "foreign"
                         ELSE IF Recovers(job.aim) THEN "no" ELSE paused
            /\ Idle
            /\ UNCHANGED <<chainVars, ready, bounds>>

Conform ==
    /\ pc = "conform"
    /\ IF PersistConformanceOk(job.r, job.blk)
       THEN /\ PersistConformance(job.r, job.blk) /\ Idle
            /\ UNCHANGED <<chainVars, ready, paused, bounds>>
       ELSE Quarantine("reconcile")

\* A missing conformance record is an invariant error and pauses; a moved
\* snapshot block is stale context and is retried.
Reconcile ==
    LET r == job.r IN
    /\ pc = "reconcile"
    /\ IF PersistReconciliationOk(r, job.blk)
       THEN /\ PersistReconciliation(r, job.blk) /\ Idle
            /\ UNCHANGED <<chainVars, ready, paused, bounds>>
       ELSE IF HasConformance(r) /\ (~Canonical(job.blk)
                    \/ Height(job.blk) < Height(inc[r]))
            THEN Done
       ELSE Quarantine(IF HasConformance(r) THEN "reconcile" ELSE "orphaned")

Finalize ==
    /\ pc = "finalize"
    /\ IF FinalizeOk(job.r, job.st)
       THEN /\ FinalizeConformedFailure(job.r, job.st) /\ Idle
            /\ paused' = "no"
            /\ UNCHANGED <<chainVars, ready, bounds>>
       ELSE Quarantine("storage")

\* execute_pending_attempt: sign, then make the bytes durable.
SignAttempt ==
    LET r == job.r
        kind == job.aim
        next == [job EXCEPT !.st = SignedStateOf(kind),
                            !.aim = IF kind = "Replacement" THEN "Replaced"
                                    ELSE "CancellationSubmitted"]
    IN  /\ pc = "attempt"
        /\ IF PersistSignedAttemptOk(r, kind)
           THEN PersistSignedAttempt(r, kind, job.head) /\ Go("submit", next)
           ELSE Quarantine("storage")

\* submit_signed_bytes: a failed send may have reached a node all the same.
\* handle_submission_error: on the recovery paths some of the error categories
\* pause the signer.
Submit ==
    /\ pc \in {"submit", "resubmit"} /\ pc' = "record"
    /\ \/ /\ network' = network \cup {Latest(job.r)}
          /\ job' = [job EXCEPT !.ok = TRUE]
          /\ UNCHANGED <<paused, faults>>
       \/ /\ network' \in {network, network \cup {Latest(job.r)}}
          /\ paused' \in {paused} \cup {w \in {"signer"} : pc = "resubmit"}
          /\ Fault /\ UNCHANGED job
    /\ UNCHANGED <<storeVars, body, chain, ready, noise, reorgs>>

\* record_attempt_broadcast, at the copied cursor.  Only the first attempt's
\* transition waits for an acknowledged send.
Record ==
    LET r == job.r IN
    /\ pc = "record"
    /\ IF ~RecordBroadcastOk(r, job.head) THEN Quarantine("storage")
       ELSE /\ RecordAttemptBroadcast(r, job.head)
            /\ IF job.aim = "None" \/ (job.aim = "Submitted" /\ ~job.ok)
               THEN Idle /\ UNCHANGED <<chainVars, ready, paused, bounds>>
               ELSE Go("commit", job)

-----------------------------------------------------------------------------
(* tick_once, signing half: execute and the final preflight. *)

\* Rows are used in order.
FreshRow(r) == state[r] = "Absent" /\ \A q \in 1..(r - 1) : state[q] # "Absent"

\* execute and rebuild_plan: the identity is derived from the provider's
\* head, the plan is built at the cursor.
BeginExecute ==
    /\ pc = "idle" /\ ready /\ paused = "no"
    /\ Unresolved = {} /\ AwaitingReconciliation = {}
    /\ \E r \in Row : state[r] = "Absent"
    /\ PinnedBlock => Cursor = chain[Len(chain)]
    /\ \E rate \in Charges :
          /\ rate => AvailableBudget >= 1
          /\ GoOn("plan", [NoJob EXCEPT !.head = Len(blocks), !.blk = Cursor,
                                        !.tip = chain[Len(chain)],
                                        !.nonce = ConfirmedNonce,
                                        !.rate = rate])

\* persist_plan and persist_final_preflight.
PersistPlan ==
    /\ pc = "plan"
    /\ IF PersistPlanOk(job.blk) THEN GoOn("reserve", job)
       ELSE Quarantine("superseded")

\* reserve_durable_rebalance.  A refused reservation is a signing-boundary
\* error: with no unresolved row left behind it quarantines the signer.
Reserve ==
    /\ pc = "reserve"
    /\ IF ReserveOk(job.tip, job.nonce, job.blk, job.rate)
       THEN \E r \in Row :
               /\ FreshRow(r)
               /\ ReserveNonce(r, job.tip, job.nonce, job.blk, job.rate)
               /\ Go("gate", [job EXCEPT !.r = r, !.st = "NonceReserved"])
       ELSE IF Unresolved # {} THEN Done
       ELSE Quarantine("duplicate")

\* The signing gate: head, cursor, nonce and queued invalidations are read
\* again.  Latency or an invalidation aborts at any time.
GateHolds ==
    /\ PinnedBlock => chain[Len(chain)] = job.blk /\ Cursor = job.blk
    /\ ConfirmedNonce = job.nonce
    /\ ready
    /\ Cursor = job.blk \/ Len(blocks) > job.head

Gate ==
    /\ pc = "gate"
    /\ \/ GateHolds /\ GoOn("sign", [job EXCEPT !.blk = 0])
       \/ GoOn("commit", [job EXCEPT !.aim = "AbortedBeforeSigning", !.blk = 0])

\* Faulty variant of Sign: the bytes are sent before they are durable.
SendBeforePersist ==
    /\ pc = "sign"
    /\ IF job.ok
       THEN PersistSigned(job.r) /\ Go("record", [job EXCEPT !.st = "Signed",
                                                             !.aim = "Submitted"])
       ELSE /\ network' = network \cup {<<job.r, 1>>}
            /\ job' = [job EXCEPT !.ok = TRUE]
            /\ UNCHANGED <<storeVars, body, chain, ready, paused, pc, bounds>>

\* sign_durable_rebalance: the bytes are durable before they are sent.
Sign ==
    /\ pc = "sign"
    /\ IF state[job.r] = "NonceReserved"
       THEN PersistSigned(job.r) /\ Go("submit", [job EXCEPT !.st = "Signed",
                                                             !.aim = "Submitted"])
       ELSE Quarantine("storage")

-----------------------------------------------------------------------------
(* Failures. *)

\* The signer fails: the reservation is aborted and the signer quarantined.
SignerFailure ==
    /\ Fault /\ pc = "sign"
    /\ TransitionOk(job.r, "NonceReserved", "AbortedBeforeSigning")
    /\ TransitionTransaction(job.r, "NonceReserved", "AbortedBeforeSigning", 0)
    /\ paused' = "signer" /\ Idle
    /\ UNCHANGED <<chainVars, ready, noise, reorgs>>

PendingSignerFailure ==
    /\ Fault /\ pc = "attempt"
    /\ paused' = "signer" /\ Idle
    /\ UNCHANGED <<storeVars, chainVars, ready, noise, reorgs>>

\* A provider read fails, the rebuild before a terminal transition fails, or
\* a latency bound expires: the tick ends and the row stays as it is.
TickFails ==
    /\ Fault
    /\ \/ pc \in {"observe", "gate"}
       \/ pc = "submit" /\ job.tip # 0
       \/ pc = "commit" /\ Recovers(job.aim)
    /\ Idle
    /\ UNCHANGED <<storeVars, chainVars, ready, paused, noise, reorgs>>

\* The nodes forget an attempt that is not mined.
Evict ==
    /\ Fault
    /\ \E a \in network :
          nonce[a[1]] >= ConfirmedNonce /\ network' = network \ {a}
    /\ UNCHANGED <<storeVars, body, chain, ready, paused, pc, job, noise, reorgs>>

\* The process dies and restarts from the durable tables.
Crash ==
    /\ Fault
    /\ Idle /\ ready' = FALSE /\ paused' = "no"
    /\ UNCHANGED <<storeVars, chainVars, noise, reorgs>>

-----------------------------------------------------------------------------
Init ==
    /\ StoreInit
    /\ chain = <<1>> /\ network = {}
    /\ ready = TRUE /\ paused = "no"
    /\ pc = "idle" /\ job = NoJob
    /\ noise = 0 /\ reorgs = 0 /\ faults = 0

Network == MineTx \/ MineForeign \/ MineEmpty \/ Reorg \/ Evict

ChainService == RewindAndReplay \/ CatchUp \/ PollIdle

Recover ==
    \/ BeginTick \/ FutureNonce \/ ReceiptMismatch \/ ClassifyConsumedNonce
    \/ RecoverReserved \/ RecoverSigned \/ RecoverSignedAttempt
    \/ ObserveReceipt \/ RecoverOrphaned \/ ReconcileOrRebroadcast
    \/ ConfirmInclusion \/ ReconcileConfirmed \/ ReconcileValidated
    \/ Revalidate \/ HoldForeign

Execute == BeginExecute \/ PersistPlan \/ Reserve \/ Gate \/ Sign

Persist ==
    \/ Commit \/ Conform \/ Reconcile \/ Finalize
    \/ SignAttempt \/ Submit \/ Record

Failure == SignerFailure \/ PendingSignerFailure \/ TickFails \/ Crash

Next ==
    \/ Network \/ ChainService \/ StateRefresh
    \/ Recover \/ Execute \/ Persist \/ Failure

Spec == Init /\ [][Next]_vars

\* The services are supervised loops on timers, so an enabled step of each is
\* eventually taken.  The network mines a valid attempt it holds, and goes on
\* producing the blocks the lane counts.
Tick == Recover \/ Execute \/ Persist

Fairness ==
    /\ WF_vars(Tick) /\ WF_vars(ChainService) /\ WF_vars(StateRefresh)
    /\ WF_vars(MineTx) /\ WF_vars(Awaited /\ MineEmpty)

FairSpec == Spec /\ Fairness

-----------------------------------------------------------------------------
(* Properties. *)

Job == [r : Row \cup {0}, st : TransactionState \cup {"Absent"}, head : Nat,
        aim : TransactionState \cup AttemptKind \cup {"None"},
        blk : BlockId \cup {0}, tip : BlockId \cup {0}, nonce : Nat,
        rate : BOOLEAN, ok : BOOLEAN]

\* Every variable of the store and of the lane stays in its type: each
\* command and each step of a tick writes what the next one can read.
TypeOK ==
    /\ StoreTypeOK
    /\ chain \in Seq(BlockId) /\ Len(chain) >= 1
    /\ network \subseteq Attempts
    /\ ready \in BOOLEAN /\ paused \in PauseReason
    /\ pc \in Step /\ job \in Job
    /\ noise \in Nat /\ reorgs \in Nat /\ faults \in Nat

\* Bytes reach a node only after persist_signed or persist_signed_attempt
\* made them durable, also when the process dies between the two.
DurableBeforeBroadcast == network \subseteq UNION {Known(r) : r \in Row}

\* The lane is freed only when its nonce is spent: a resolved row with signed
\* bytes leaves nothing behind that could still be mined.
FreedMeansSpent ==
    \A r \in Row : kinds[r] # <<>> /\ ~IsUnresolved(state[r]) =>
        \E b \in Range(chain) : body[b].tx # NoTx /\ body[b].nonce = nonce[r]

Executed(r) ==
    \E b \in Mined(r) : body[b].ok /\ ~IsCancellation(body[b].tx)

\* The rate movements executed on the provider's chain stay within the episode's
\* budget, across aborts, reverts, cancellations and crashes.
MovementWithinBudget ==
    Cardinality({r \in Row : move[r] # "None" /\ Executed(r)}) <= Budget

\* The nonce is attributed to an unknown transaction, and the signer
\* quarantined for it, only when there is such a transaction.
ForeignIsReal ==
    (\/ paused \in {"foreign", "unattributed"}
     \/ \E r \in Row : state[r] = "ForeignNonceConsumed")
    => \E b \in BlockId : body[b].tx = ForeignTx

\* While a foreign transaction holds the row's nonce on the stored chain, no
\* further row is reserved: the durable row is the quarantine.
ForeignHoldsLane ==
    [][\A r \in Row : state[r] = "ForeignNonceConsumed" =>
          \A q \in Row : state[q] = "Absent" => state'[q] = "Absent"]_vars

\* Without reorganisations and foreign transactions no compare-and-set of a
\* tick is refused and no evidence is missing: crashes, lost sends and
\* failed reads between any two commands are not mistaken for corruption.
NoFalseAlarm ==
    paused \notin {"future", "unattributed", "foreign", "storage", "multiple",
                   "superseded", "fee", "reconcile", "orphaned"}

\* receipt_confirmation_evm_blocks protects a confirmed row: only a rewind that
\* drops more stored blocks than the confirmation depth orphans it.
ConfirmedNotOrphaned ==
    [][\A r \in Row : state[r] \in Validated /\ state'[r] = "Orphaned"
                        => Len(blocks) - Len(blocks') > Confirmations]_vars

\* Every lane that is taken is freed again.
LaneResolves == Unresolved # {} ~> Unresolved = {}

-----------------------------------------------------------------------------
(* Statements of the repository that the code does not keep. *)

\* "Bounded preflight retry": aborting an unsigned reservation leaves the lane
\* free for the next attempt.
AbortedIsRetried == paused # "duplicate"

\* A reverted or cancelled outcome whose block is orphaned does not stay
\* behind as the row's terminal outcome.
OutcomeIsCanonical ==
    \A r \in Row : state[r] \in {"Reverted", "Cancelled"} =>
        inc[r] # 0 /\ Canonical(inc[r])

\* A successful canonical cancellation ends in Cancelled and is not taken for
\* the routine call.
CancellationIsNotConfirmed ==
    \A r \in Row : state[r] \in Validated => ~IsCancellation(body[inc[r]].tx)

\* The signer is quarantined for an invalid reservation only when the durable
\* nonce is ahead of the account's.
InvalidReservationIsReal ==
    paused = "recovery" =>
        \E r \in Unresolved : nonce[r] > ConfirmedNonce
=============================================================================
