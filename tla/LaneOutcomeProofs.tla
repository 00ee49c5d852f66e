------------------------- MODULE LaneOutcomeProofs -------------------------
(***************************************************************************)
(* What becomes of a row.  First a frame of the tick: what each of its     *)
(* steps hands on, writes and blames.  From it, with at most one           *)
(* reorganisation, the depth of a confirmation; and without                *)
(* reorganisations, that a freed lane has its nonce spent and that a       *)
(* foreign transaction is never invented.                                  *)
(***************************************************************************)
EXTENDS LaneNonceProofs

-----------------------------------------------------------------------------
(* What a tick carries on, and what it writes. *)

Rows == <<state, nonce, kinds, inc>>

\* The nonce of the tick's row is spent on the provider's chain, by none of
\* the row's attempts.
Unexplained ==
    pc = "observe" /\ nonce[job.r] < ConfirmedNonce /\ Mined(job.r) = {}

\* The transitions that a tick decides on.
CommitAim(j) ==
    \/ j.aim \in {"AbortedBeforeSigning", "Submitted", "Replaced",
                  "CancellationSubmitted"}
    \/ j.aim = "ForeignNonceConsumed" /\ Unexplained
    \/ /\ j.aim \in {"Included", "Reverted", "Cancelled"}
       /\ \E b \in Received : b > 0
    \/ /\ j.aim = "Confirmed" /\ pc = "observe" /\ inc[job.r] # 0
       /\ ~(job.head < Height(inc[job.r]) + Confirmations)
    \/ j.aim = "Failed" /\ j.st = "Confirmed"

JobMoves ==
    /\ job'.head \in {0, job.head, Len(blocks)}
    /\ pc' = "observe" =>
          UNCHANGED Rows /\ job'.r \in Unresolved /\ job'.st = state[job'.r]
    /\ pc' = "commit" =>
          UNCHANGED Rows /\ job'.r = job.r /\ job'.head = job.head /\ CommitAim(job')
    /\ pc' = "plan" =>
          UNCHANGED Rows /\ job'.nonce = ConfirmedNonce /\ Unresolved = {}
    /\ pc' = "reserve" => UNCHANGED Rows /\ pc = "plan" /\ job' = job

\* The fields of a job made from another.
LEMMA NextFields ==
    ASSUME NEW j \in Job, NEW aim, NEW b, NEW st
    PROVE  /\ [j EXCEPT !.aim = aim].head = j.head /\ [j EXCEPT !.aim = aim].r = j.r
           /\ [j EXCEPT !.aim = aim].aim = aim /\ [j EXCEPT !.aim = aim].st = j.st
           /\ [j EXCEPT !.blk = b].head = j.head
           /\ [j EXCEPT !.aim = aim, !.blk = b].head = j.head
           /\ [j EXCEPT !.aim = aim, !.blk = b].r = j.r
           /\ [j EXCEPT !.aim = aim, !.blk = b].aim = aim
           /\ [j EXCEPT !.ok = TRUE].head = j.head
           /\ [[j EXCEPT !.aim = aim] EXCEPT !.ok = TRUE].head = j.head
           /\ [j EXCEPT !.st = st, !.aim = aim].head = j.head
           /\ [j EXCEPT !.r = b, !.st = st].head = j.head
BY Zenon DEF Job

\* A tick that ends.
LEMMA EndMoves ==
    ASSUME Idle
    PROVE  JobMoves
<1>1. pc' = "idle" /\ job'.head = 0
    BY DEF Idle, NoJob
<1> QED  BY <1>1 DEF JobMoves

\* A tick that goes on to a command that needs no more than JobOK.
LEMMA GoMoves ==
    ASSUME NEW step, NEW next, Go(step, next), next.head \in {0, job.head, Len(blocks)},
           step \notin {"observe", "commit", "plan", "reserve"}
    PROVE  JobMoves
BY DEF Go, JobMoves

\* A tick that goes on to a transition.
LEMMA CommitMoves ==
    ASSUME NEW next, Go("commit", next), next.head = job.head, next.r = job.r,
           UNCHANGED Rows, CommitAim(next)
    PROVE  JobMoves
<1>1. pc' = "commit" /\ job' = next
    BY DEF Go
<1> QED  BY <1>1 DEF JobMoves

\* The recovery half of a tick.
LEMMA LookupMoves ==
    ASSUME LaneInv,
           BeginTick \/ FutureNonce \/ ReceiptMismatch \/ ClassifyConsumedNonce
    PROVE  JobMoves
<1>0. job \in Job
    BY DEF LaneInv, TypeOK
<1>1. CASE BeginTick
    <2>1. CASE \E r \in Unresolved :
                  GoOn("observe", [NoJob EXCEPT !.r = r, !.st = state[r],
                                                !.head = Len(blocks)])
        <3>1. PICK r \in Unresolved :
                 GoOn("observe", [NoJob EXCEPT !.r = r, !.st = state[r],
                                               !.head = Len(blocks)])
            BY Zenon, <2>1
        <3>2. /\ pc' = "observe" /\ job'.r = r /\ job'.st = state[r]
              /\ job'.head = Len(blocks) /\ UNCHANGED storeVars
            <4> DEFINE next == [NoJob EXCEPT !.r = r, !.st = state[r],
                                             !.head = Len(blocks)]
            <4>1. next.r = r /\ next.st = state[r] /\ next.head = Len(blocks)
                BY Zenon DEF NoJob
            <4>2. GoOn("observe", next)
                BY Zenon, <3>1
            <4> HIDE DEF next
            <4> QED  BY Zenon, <4>1, <4>2 DEF GoOn, Go
        <3>3. UNCHANGED Rows
            BY <3>2 DEF storeVars, Rows
        <3> QED  BY <3>2, <3>3 DEF JobMoves
    <2> QED  BY Zenon, <1>1, <2>1, EndMoves DEF BeginTick, Quarantine
<1>2. CASE FutureNonce \/ ReceiptMismatch
    BY Zenon, <1>2, EndMoves DEF FutureNonce, ReceiptMismatch, Quarantine, Done
<1>3. CASE ClassifyConsumedNonce
    <2>1. CASE /\ Unexplained
               /\ \E b : GoOn("commit", [job EXCEPT !.aim = "ForeignNonceConsumed",
                                                    !.blk = b])
        <3>1. PICK b : GoOn("commit", [job EXCEPT !.aim = "ForeignNonceConsumed",
                                                  !.blk = b])
            BY Zenon, <2>1
        <3> DEFINE next == [job EXCEPT !.aim = "ForeignNonceConsumed", !.blk = b]
        <3>2. /\ next.head = job.head /\ next.r = job.r
              /\ next.aim = "ForeignNonceConsumed"
            BY Zenon, <1>0 DEF Job
        <3>3. Go("commit", next) /\ UNCHANGED storeVars
            BY Zenon, <3>1 DEF GoOn
        <3> HIDE DEF next
        <3>4. UNCHANGED Rows
            BY <3>3 DEF storeVars, Rows
        <3>5. CommitAim(next)
            BY Zenon, <2>1, <3>2 DEF CommitAim
        <3> QED  BY Zenon, <3>2, <3>3, <3>4, <3>5, CommitMoves
    <2> QED
        BY Zenon, <1>3, <2>1, EndMoves
           DEF ClassifyConsumedNonce, Quarantine, Done, Unexplained
<1> QED  BY Zenon, <1>1, <1>2, <1>3

\* A tick that goes on to a transition or to a send with a new aim.
LEMMA AimMoves ==
    ASSUME LaneInv, NEW step, NEW aim,
           \/ GoOn(step, [job EXCEPT !.aim = aim])
           \/ \E b : PersistCanonicalReceipt(b) /\ Go(step, [job EXCEPT !.aim = aim])
           \/ GoOn(step, [[job EXCEPT !.aim = aim] EXCEPT !.ok = TRUE])
           \/ \E b : /\ PersistCanonicalReceipt(b)
                     /\ Go(step, [[job EXCEPT !.aim = aim] EXCEPT !.ok = TRUE]),
           \/ step \in {"resubmit", "record", "attempt"}
           \/ /\ step = "commit"
              /\ aim \in {"AbortedBeforeSigning", "Submitted"}
              /\ \/ GoOn(step, [job EXCEPT !.aim = aim])
                 \/ \E b : PersistCanonicalReceipt(b) /\ Go(step, [job EXCEPT !.aim = aim])
    PROVE  JobMoves
<1>0. job \in Job
    BY DEF LaneInv, TypeOK
<1> DEFINE next == [job EXCEPT !.aim = aim]
           acked == [[job EXCEPT !.aim = aim] EXCEPT !.ok = TRUE]
<1>1. /\ next.head = job.head /\ next.r = job.r /\ next.aim = aim
      /\ acked.head = job.head
    BY Zenon, <1>0, NextFields
<1>2. CASE step \in {"resubmit", "record", "attempt"}
    <2>1. Go(step, next) \/ Go(step, acked)
        BY Zenon DEF GoOn
    <2> HIDE DEF next, acked
    <2> QED  BY <1>1, <1>2, <2>1, GoMoves
<1>3. CASE /\ step = "commit" /\ aim \in {"AbortedBeforeSigning", "Submitted"}
           /\ GoOn(step, next) \/ \E b : PersistCanonicalReceipt(b) /\ Go(step, next)
    <2>1. Go("commit", next)
        BY Zenon, <1>3 DEF GoOn
    <2>2. UNCHANGED Rows
        BY Zenon, <1>3 DEF GoOn, Rows, storeVars, PersistCanonicalReceipt
    <2> HIDE DEF next
    <2>3. CommitAim(next)
        BY <1>1, <1>3 DEF CommitAim
    <2> QED  BY <1>1, <2>1, <2>2, <2>3, CommitMoves
<1> QED  BY Zenon, <1>2, <1>3

\* The steps that recover an attempt.
LEMMA AttemptMoves ==
    ASSUME LaneInv, RecoverReserved \/ RecoverSigned \/ RecoverSignedAttempt
    PROVE  JobMoves
<1>1. CASE RecoverReserved
    <2>1. GoOn("commit", [job EXCEPT !.aim = "AbortedBeforeSigning"])
        BY Zenon, <1>1 DEF RecoverReserved
    <2> QED  BY Zenon, <2>1, AimMoves
<1>2. CASE RecoverSigned
    <2> DEFINE next == [job EXCEPT !.aim = "Submitted"]
    <2>1. \/ \E b : PersistCanonicalReceipt(b) /\ Go("commit", next)
          \/ GoOn("commit", next)
          \/ Quarantine("storage") \/ Done
          \/ GoOn("resubmit", next)
        BY Zenon, <1>2 DEF RecoverSigned
    <2>2. CASE GoOn("resubmit", next)
        BY Zenon, <2>2, AimMoves
    <2>3. CASE \/ \E b : PersistCanonicalReceipt(b) /\ Go("commit", next)
               \/ GoOn("commit", next)
        BY Zenon, <2>3, AimMoves
    <2> QED  BY Zenon, <2>1, <2>2, <2>3, EndMoves DEF Quarantine, Done
<1>3. CASE RecoverSignedAttempt
    <2> DEFINE aim == IF job.st = "ReplacementSigned" THEN "Replaced"
                      ELSE "CancellationSubmitted"
               next == [job EXCEPT !.aim = aim]
               acked == [next EXCEPT !.ok = TRUE]
    <2>1. \/ \E b : PersistCanonicalReceipt(b) /\ Go("record", acked)
          \/ GoOn("record", acked)
          \/ GoOn("resubmit", next)
        BY Zenon, <1>3 DEF RecoverSignedAttempt
    <2> HIDE DEF aim
    <2>2. CASE GoOn("resubmit", next)
        BY Zenon, <2>2, AimMoves
    <2>3. CASE \/ \E b : PersistCanonicalReceipt(b) /\ Go("record", acked)
               \/ GoOn("record", acked)
        BY Zenon, <2>3, AimMoves
    <2> QED  BY Zenon, <2>1, <2>2, <2>3
<1> QED  BY <1>1, <1>2, <1>3

\* The steps of an attempt in flight.
LEMMA InFlightMoves ==
    ASSUME LaneInv, ObserveReceipt \/ RecoverOrphaned \/ ReconcileOrRebroadcast
    PROVE  JobMoves
<1>0. job \in Job
    BY DEF LaneInv, TypeOK
<1>1. CASE ObserveReceipt
    <2>1. PICK got \in Received :
             /\ got > 0 /\ PersistCanonicalReceipt(got)
             /\ Go("commit", [job EXCEPT !.aim = ReceiptOutcome(job.r, job.st, got),
                                         !.blk = got])
        BY Zenon, <1>1 DEF ObserveReceipt
    <2> DEFINE aim == ReceiptOutcome(job.r, job.st, got)
               next == [job EXCEPT !.aim = aim, !.blk = got]
    <2>2. aim \in {"Reverted", "Cancelled", "Included"}
        BY DEF ReceiptOutcome
    <2>3. Go("commit", next)
        BY Zenon, <2>1
    <2> HIDE DEF aim
    <2>4. next.head = job.head /\ next.r = job.r /\ next.aim = aim
        BY Zenon, <1>0 DEF Job
    <2> HIDE DEF next
    <2>5. UNCHANGED Rows
        BY Zenon, <2>1 DEF Rows, PersistCanonicalReceipt
    <2>6. CommitAim(next)
        BY <2>1, <2>2, <2>4 DEF CommitAim
    <2> QED  BY <2>3, <2>4, <2>5, <2>6, CommitMoves
<1>2. ASSUME NEW kind, GoOn("attempt", Attempt(kind))
      PROVE  JobMoves
    <2>1. GoOn("attempt", [job EXCEPT !.aim = kind])
        BY Zenon, <1>2 DEF Attempt
    <2> QED  BY Zenon, <2>1, AimMoves
<1>3. CASE RecoverOrphaned
    BY Zenon, <1>2, <1>3, EndMoves DEF RecoverOrphaned, Quarantine
<1>4. CASE ReconcileOrRebroadcast
    <2>1. \/ Quarantine("recovery") \/ Quarantine("storage") \/ Done
          \/ ManagePending(job.r)
          \/ GoOn("resubmit", [job EXCEPT !.aim = "None"])
        BY Zenon, <1>4 DEF ReconcileOrRebroadcast
    <2>2. CASE ManagePending(job.r)
        BY Zenon, <1>2, <2>2, EndMoves DEF ManagePending, Quarantine, Done
    <2>3. CASE GoOn("resubmit", [job EXCEPT !.aim = "None"])
        BY Zenon, <2>3, AimMoves
    <2> QED  BY Zenon, <2>1, <2>2, <2>3, EndMoves DEF Quarantine, Done
<1> QED  BY <1>1, <1>3, <1>4

\* The steps of a row after inclusion.
LEMMA InclusionMoves ==
    ASSUME LaneInv, \/ ConfirmInclusion \/ ReconcileConfirmed
                    \/ ReconcileValidated \/ Revalidate \/ HoldForeign
    PROVE  JobMoves
<1>0. job \in Job
    BY DEF LaneInv, TypeOK
<1>1. ASSUME NEW aim, GoOn("commit", [job EXCEPT !.aim = aim]),
             CommitAim([job EXCEPT !.aim = aim])
      PROVE  JobMoves
    <2> DEFINE next == [job EXCEPT !.aim = aim]
    <2>1. next.head = job.head /\ next.r = job.r
        BY Zenon, <1>0 DEF Job
    <2>2. Go("commit", next) /\ UNCHANGED Rows /\ CommitAim(next)
        BY Zenon, <1>1 DEF GoOn, Rows, storeVars
    <2> HIDE DEF next
    <2> QED  BY <2>1, <2>2, CommitMoves
<1>2. CASE ConfirmInclusion
    <2> DEFINE next == [job EXCEPT !.aim = "Confirmed"]
    <2>1. /\ pc = "observe"
          /\ \/ Quarantine("recovery") \/ Done
             \/ /\ GoOn("commit", next) /\ inc[job.r] # 0
                /\ ~(job.head < Height(inc[job.r]) + Confirmations)
        BY <1>2 DEF ConfirmInclusion, PastGate, Received
    <2>2. next.aim = "Confirmed"
        BY Zenon, <1>0 DEF Job
    <2>3. CASE Quarantine("recovery") \/ Done
        BY Zenon, <2>3, EndMoves DEF Quarantine, Done
    <2>4. CASE /\ GoOn("commit", next) /\ inc[job.r] # 0
               /\ ~(job.head < Height(inc[job.r]) + Confirmations)
        <3>1. CommitAim(next)
            BY Zenon, <2>1, <2>2, <2>4 DEF CommitAim
        <3> QED  BY Zenon, <1>1, <2>4, <3>1
    <2> QED  BY <2>1, <2>3, <2>4
<1>3. CASE ReconcileConfirmed
    <2> DEFINE fail == [job EXCEPT !.aim = "Failed"]
               next == [job EXCEPT !.blk = inc[job.r]]
    <2>1. /\ job.st = "Confirmed"
          /\ \/ Quarantine("reconcile") \/ Done
             \/ GoOn("commit", fail)
             \/ GoOn("conform", next)
        BY <1>3 DEF ReconcileConfirmed, PastGate
    <2>2. fail.aim = "Failed" /\ fail.st = job.st /\ next.head = job.head
        BY Zenon, <1>0 DEF Job
    <2>3. CASE GoOn("commit", fail)
        <3>1. CommitAim(fail)
            BY Zenon, <2>1, <2>2 DEF CommitAim
        <3> QED  BY Zenon, <1>1, <2>3, <3>1
    <2>4. CASE GoOn("conform", next)
        <3>1. Go("conform", next)
            BY Zenon, <2>4 DEF GoOn
        <3> HIDE DEF next
        <3> QED  BY <2>2, <3>1, GoMoves
    <2> QED  BY Zenon, <2>1, <2>3, <2>4, EndMoves DEF Quarantine, Done
<1>4. ASSUME NEW j \in Job, j.head \in {job.head, Len(blocks)}, PostState(j)
      PROVE  JobMoves
    <2> DEFINE next == [j EXCEPT !.blk = Cursor]
    <2>1. \/ Quarantine("recovery") \/ Quarantine("reconcile")
          \/ Go("reconcile", next) \/ Go("finalize", j)
        BY Zenon, <1>4 DEF PostState, GoOn
    <2>2. next.head = j.head
        BY Zenon DEF Job
    <2> HIDE DEF next
    <2>3. CASE Go("reconcile", next) \/ Go("finalize", j)
        BY <1>4, <2>2, <2>3, GoMoves
    <2> QED  BY Zenon, <2>1, <2>3, EndMoves DEF Quarantine
<1>5. CASE ReconcileValidated
    BY <1>0, <1>4, <1>5 DEF ReconcileValidated
<1>6. CASE Revalidate
    <2>1. PICK r \in AwaitingReconciliation :
             PostState([NoJob EXCEPT !.r = r, !.st = state[r], !.head = Len(blocks)])
        BY Zenon, <1>6 DEF Revalidate
    <2> DEFINE j == [NoJob EXCEPT !.r = r, !.st = state[r], !.head = Len(blocks)]
    <2>2. /\ r \in Row /\ state[r] \in TransactionState \cup {"Absent"}
          /\ Len(blocks) \in Nat
        BY DEF AwaitingReconciliation, LaneInv, TypeOK, StoreTypeOK
    <2>3. j \in Job /\ j.head = Len(blocks)
        BY Zenon, <2>2 DEF NoJob, Job
    <2>4. PostState(j)
        BY <2>1
    <2> HIDE DEF j
    <2> QED  BY <1>4, <2>3, <2>4
<1>7. CASE HoldForeign
    BY Zenon, <1>7, EndMoves DEF HoldForeign, Quarantine
<1> QED  BY Zenon, <1>2, <1>3, <1>5, <1>6, <1>7

\* The signing half of a tick.
LEMMA ExecuteMoves ==
    ASSUME LaneInv, Execute
    PROVE  JobMoves
<1>0. job \in Job
    BY DEF LaneInv, TypeOK
<1>1. CASE BeginExecute
    <2>1. PICK rate \in Charges :
             GoOn("plan", [NoJob EXCEPT !.head = Len(blocks), !.blk = Cursor,
                                        !.tip = chain[Len(chain)],
                                        !.nonce = ConfirmedNonce, !.rate = rate])
        BY Zenon, <1>1 DEF BeginExecute
    <2> DEFINE next == [NoJob EXCEPT !.head = Len(blocks), !.blk = Cursor,
                                     !.tip = chain[Len(chain)],
                                     !.nonce = ConfirmedNonce, !.rate = rate]
    <2>2. next.head = Len(blocks) /\ next.nonce = ConfirmedNonce
        BY Zenon DEF NoJob
    <2>3. GoOn("plan", next)
        BY <2>1
    <2> HIDE DEF next
    <2>4. pc' = "plan" /\ job' = next /\ UNCHANGED Rows
        BY Zenon, <2>3 DEF GoOn, Go, Rows, storeVars
    <2>5. Unresolved = {}
        BY Zenon, <1>1 DEF BeginExecute
    <2> QED  BY <2>2, <2>4, <2>5 DEF JobMoves
<1>2. CASE PersistPlan
    <2>1. CASE GoOn("reserve", job)
        <3>1. pc' = "reserve" /\ job' = job /\ UNCHANGED Rows
            BY Zenon, <2>1 DEF GoOn, Go, Rows, storeVars
        <3>2. pc = "plan"
            BY Zenon, <1>2 DEF PersistPlan
        <3> QED  BY <3>1, <3>2 DEF JobMoves
    <2> QED  BY Zenon, <1>2, <2>1, EndMoves DEF PersistPlan, Quarantine
<1>3. CASE Reserve
    <2>1. CASE \E r \in Row : Go("gate", [job EXCEPT !.r = r, !.st = "NonceReserved"])
        <3>1. PICK r \in Row : Go("gate", [job EXCEPT !.r = r, !.st = "NonceReserved"])
            BY Zenon, <2>1
        <3> DEFINE next == [job EXCEPT !.r = r, !.st = "NonceReserved"]
        <3>2. next.head = job.head
            BY Zenon, <1>0 DEF Job
        <3>3. Go("gate", next)
            BY <3>1
        <3> HIDE DEF next
        <3> QED  BY SMTT(30), <3>2, <3>3, GoMoves
    <2> QED  BY Zenon, <1>3, <2>1, EndMoves DEF Reserve, Quarantine, Done
<1>4. CASE Gate
    <2> DEFINE sign == [job EXCEPT !.blk = 0]
               abort == [job EXCEPT !.aim = "AbortedBeforeSigning", !.blk = 0]
    <2>1. GoOn("sign", sign) \/ GoOn("commit", abort)
        BY Zenon, <1>4 DEF Gate
    <2>2. /\ sign.head = job.head /\ abort.head = job.head /\ abort.r = job.r
          /\ abort.aim = "AbortedBeforeSigning"
        BY Zenon, <1>0 DEF Job
    <2> HIDE DEF sign, abort
    <2>3. Go("sign", sign) \/ (Go("commit", abort) /\ UNCHANGED Rows)
        BY Zenon, <2>1 DEF GoOn, Rows, storeVars
    <2>4. CommitAim(abort)
        BY <2>2 DEF CommitAim
    <2> QED  BY <2>2, <2>3, <2>4, GoMoves, CommitMoves
<1>5. CASE Sign
    <2> DEFINE next == [job EXCEPT !.st = "Signed", !.aim = "Submitted"]
    <2>1. Go("submit", next) \/ Quarantine("storage")
        BY Zenon, <1>5 DEF Sign
    <2>2. next.head = job.head
        BY Zenon, <1>0 DEF Job
    <2> HIDE DEF next
    <2>3. CASE Go("submit", next)
        BY <2>2, <2>3, GoMoves
    <2> QED  BY Zenon, <2>1, <2>3, EndMoves DEF Quarantine
<1> QED  BY Zenon, <1>1, <1>2, <1>3, <1>4, <1>5 DEF Execute

\* The storage commands of a tick, and its failures.
LEMMA PersistMoves ==
    ASSUME LaneInv, Persist \/ Failure
    PROVE  JobMoves
<1>0. job \in Job
    BY DEF LaneInv, TypeOK
<1>1. CASE Commit \/ Conform \/ Reconcile \/ Finalize
    BY Zenon, <1>1, EndMoves
       DEF Commit, Conform, Reconcile, Finalize, Quarantine, Done
<1>2. CASE SignAttempt
    <2> DEFINE st == SignedStateOf(job.aim)
               aim == IF job.aim = "Replacement" THEN "Replaced"
                      ELSE "CancellationSubmitted"
               next == [job EXCEPT !.st = st, !.aim = aim]
    <2>1. Go("submit", next) \/ Quarantine("storage")
        BY Zenon, <1>2 DEF SignAttempt
    <2> HIDE DEF st, aim
    <2>2. next.head = job.head
        BY Zenon, <1>0 DEF Job
    <2> HIDE DEF next
    <2>3. CASE Go("submit", next)
        BY <2>2, <2>3, GoMoves
    <2> QED  BY Zenon, <2>1, <2>3, EndMoves DEF Quarantine
<1>3. CASE Submit
    <2>1. pc' = "record" /\ (job' = job \/ job' = [job EXCEPT !.ok = TRUE])
        BY Zenon, <1>3 DEF Submit
    <2>2. [job EXCEPT !.ok = TRUE].head = job.head
        BY Zenon, <1>0 DEF Job
    <2>3. job'.head = job.head
        BY Zenon, <2>1, <2>2
    <2> QED  BY <2>1, <2>3 DEF JobMoves
<1>4. CASE Record
    <2>1. CASE RecordAttemptBroadcast(job.r, job.head) /\ Go("commit", job)
        <3>1. job.aim \in {"None", "Submitted", "Replaced", "CancellationSubmitted"}
            BY <1>4 DEF Record, LaneInv, JobOK, JobFor
        <3>2. CASE job.aim = "None"
            BY Zenon, <1>4, <3>2, EndMoves DEF Record, Quarantine
        <3>3. CASE job.aim # "None"
            <4>1. CommitAim(job)
                BY <3>1, <3>3 DEF CommitAim
            <4>2. UNCHANGED Rows
                BY Zenon, <2>1 DEF RecordAttemptBroadcast, Rows
            <4> QED  BY Zenon, <2>1, <4>1, <4>2, CommitMoves
        <3> QED  BY <3>2, <3>3
    <2> QED  BY Zenon, <1>4, <2>1, EndMoves DEF Record, Quarantine
<1>5. CASE Failure
    BY Zenon, <1>5, EndMoves
       DEF Failure, SignerFailure, PendingSignerFailure, TickFails, Crash
<1> QED  BY Zenon, <1>1, <1>2, <1>3, <1>4, <1>5 DEF Persist

\* Every step of the execution service.
LEMMA TickMoves ==
    ASSUME LaneInv, Ticks
    PROVE  JobMoves
BY Zenon, LookupMoves, AttemptMoves, InFlightMoves, InclusionMoves, ExecuteMoves,
   PersistMoves DEF Ticks, Recover

-----------------------------------------------------------------------------
(* What a tick writes, and when it takes the nonce for a foreign one. *)

Writes ==
    \/ UNCHANGED Rows
    \/ pc = "commit" /\ TransitionTransaction(job.r, job.st, job.aim, job.blk)
    \/ TransitionTransaction(job.r, "NonceReserved", "AbortedBeforeSigning", 0)
    \/ PersistConformance(job.r, job.blk)
    \/ PersistReconciliation(job.r, job.blk)
    \/ FinalizeConformedFailure(job.r, job.st)
    \/ PersistSignedAttempt(job.r, job.aim, job.head)
    \/ /\ pc = "reserve"
       /\ \E r \in Row : ReserveNonce(r, job.tip, job.nonce, job.blk, job.rate)
    \/ PersistSigned(job.r)

\* The causes of the two pauses that blame a transaction outside the bot.
Blames ==
    paused' \in {"foreign", "unattributed"} =>
        \/ paused' = paused
        \/ pc = "commit" /\ job.aim = "ForeignNonceConsumed"
        \/ pc = "observe" /\ job.st = "ForeignNonceConsumed"
        \/ Unexplained

\* The recovery half writes a receipt at most.
LEMMA RecoverWrites ==
    ASSUME Recover
    PROVE  UNCHANGED Rows
<1> USE DEF Done, Quarantine, Go, GoOn, storeVars, PersistCanonicalReceipt, Rows
<1>1. CASE BeginTick \/ FutureNonce \/ ReceiptMismatch \/ ClassifyConsumedNonce
    BY Zenon, <1>1 DEF BeginTick, FutureNonce, ReceiptMismatch, ClassifyConsumedNonce
<1>2. CASE RecoverReserved \/ RecoverSigned \/ RecoverSignedAttempt
    BY Zenon, <1>2 DEF RecoverReserved, RecoverSigned, RecoverSignedAttempt
<1>3. CASE ObserveReceipt \/ RecoverOrphaned \/ ReconcileOrRebroadcast
    BY Zenon, <1>3
       DEF ObserveReceipt, RecoverOrphaned, ReconcileOrRebroadcast, ManagePending
<1>4. CASE \/ ConfirmInclusion \/ ReconcileConfirmed
           \/ ReconcileValidated \/ Revalidate \/ HoldForeign
    BY Zenon, <1>4
       DEF ConfirmInclusion, ReconcileConfirmed, ReconcileValidated, Revalidate,
           HoldForeign, PostState
<1> QED  BY Zenon, <1>1, <1>2, <1>3, <1>4 DEF Recover

\* The other half writes one row.
LEMMA TickWrites ==
    ASSUME Ticks
    PROVE  Writes
<1> USE DEF Done, Quarantine, Go, GoOn, storeVars, Rows, Writes
<1>1. CASE Execute
    BY Zenon, <1>1 DEF Execute, BeginExecute, PersistPlan, Reserve, Gate, Sign
<1>2. CASE Persist
    BY Zenon, <1>2
       DEF Persist, Commit, Conform, Reconcile, Finalize, SignAttempt, Submit, Record,
           RecordAttemptBroadcast
<1>3. CASE Failure
    BY Zenon, <1>3
       DEF Failure, SignerFailure, PendingSignerFailure, TickFails, Crash
<1> QED  BY Zenon, <1>1, <1>2, <1>3, RecoverWrites DEF Ticks

\* The signer is paused for a foreign nonce only by the recovery's own finding.
LEMMA TickBlames ==
    ASSUME Ticks
    PROVE  Blames
<1> USE DEF Done, Quarantine, Go, GoOn, Blames
<1>1. CASE BeginTick \/ FutureNonce \/ ReceiptMismatch
    BY Zenon, <1>1 DEF BeginTick, FutureNonce, ReceiptMismatch
<1>2. CASE ClassifyConsumedNonce
    <2>1. Unexplained \/ paused' = paused
        BY Zenon, <1>2 DEF ClassifyConsumedNonce, Unexplained
    <2> QED  BY <2>1
<1>3. CASE RecoverReserved \/ RecoverSigned \/ RecoverSignedAttempt
    BY SMTT(30), <1>3 DEF RecoverReserved, RecoverSigned, RecoverSignedAttempt
<1>4. CASE ObserveReceipt \/ RecoverOrphaned \/ ReconcileOrRebroadcast
    BY ZenonT(30), <1>4
       DEF ObserveReceipt, RecoverOrphaned, ReconcileOrRebroadcast, ManagePending
<1>5. CASE ConfirmInclusion \/ ReconcileConfirmed \/ ReconcileValidated \/ Revalidate
    BY Zenon, <1>5
       DEF ConfirmInclusion, ReconcileConfirmed, ReconcileValidated, Revalidate,
           PostState
<1>6. CASE HoldForeign
    BY SMTT(30), <1>6 DEF HoldForeign, PastGate, Received
<1>7. CASE Execute
    BY Zenon, <1>7 DEF Execute, BeginExecute, PersistPlan, Reserve, Gate, Sign
<1>8. CASE Conform \/ Reconcile \/ Finalize \/ SignAttempt \/ Record \/ Commit
    BY <1>8
       DEF Commit, Conform, Reconcile, Finalize, SignAttempt, Record, Recovers
<1>9. CASE Submit
    BY <1>9 DEF Submit
<1>10. CASE Failure
    BY <1>10
       DEF Failure, SignerFailure, PendingSignerFailure, TickFails, Crash
<1> QED
    BY Zenon, <1>1, <1>2, <1>3, <1>4, <1>5, <1>6, <1>7, <1>8, <1>9, <1>10
       DEF Ticks, Recover, Persist

\* What the writes of a tick do to a row.
LEMMA WrittenRow ==
    ASSUME LaneInv, Writes, NEW q \in Row
    PROVE  /\ \/ state'[q] = state[q]
              \/ /\ pc = "commit" /\ q = job.r /\ state'[q] = job.aim
                 /\ state[q] = job.st /\ AllowsTransition(job.st, job.aim)
              \/ state[q] = "NonceReserved"
                 /\ state'[q] \in {"AbortedBeforeSigning", "Signed"}
              \/ state[q] = "Confirmed" /\ state'[q] = "ConformanceValidated"
              \/ /\ state[q] \in {"ConformanceValidated", "ReconciliationPending"}
                 /\ state'[q] \in {"Reconciled", "Failed"}
              \/ /\ state[q] \in {"Signed", "Submitted", "Replaced", "Orphaned"}
                 /\ state'[q] \in {"ReplacementSigned", "CancellationSigned"}
              \/ /\ state[q] = "Absent" /\ state'[q] = "NonceReserved"
                 /\ pc = "reserve" /\ nonce'[q] = job.nonce /\ Unresolved = {}
           /\ kinds'[q] = kinds[q] \/ state[q] = "NonceReserved" \/ kinds[q] # <<>>
           /\ nonce'[q] = nonce[q] \/ state[q] = "Absent"
<1>0. StoreTypeOK /\ state \in [Row -> TransactionState \cup {"Absent"}]
      /\ kinds \in [Row -> Seq(AttemptKind)] /\ nonce \in [Row -> Nat]
    BY DEF LaneInv, StoreInv, StoreTypeOK
<1>1. CASE UNCHANGED Rows
    BY <1>1 DEF Rows
<1>2. CASE \/ pc = "commit" /\ TransitionTransaction(job.r, job.st, job.aim, job.blk)
           \/ TransitionTransaction(job.r, "NonceReserved", "AbortedBeforeSigning", 0)
    BY <1>0, <1>2 DEF TransitionTransaction, TransitionOk
<1>3. CASE PersistConformance(job.r, job.blk)
    BY <1>0, <1>3 DEF PersistConformance, PersistConformanceOk
<1>4. CASE PersistReconciliation(job.r, job.blk)
    <2>1. /\ state[job.r] \in {"ConformanceValidated", "ReconciliationPending"}
          /\ state' = [state EXCEPT ![job.r] = "Reconciled"]
          /\ UNCHANGED <<kinds, nonce>>
        BY Zenon, <1>4 DEF PersistReconciliation, PersistReconciliationOk,
                           RequiresReconciliation
    <2> QED  BY <1>0, <2>1
<1>5. CASE FinalizeConformedFailure(job.r, job.st)
    <2>1. /\ state[job.r] \in {"ConformanceValidated", "ReconciliationPending"}
          /\ state' = [state EXCEPT ![job.r] = "Failed"]
          /\ UNCHANGED <<kinds, nonce>>
        BY Zenon, <1>5 DEF FinalizeConformedFailure, FinalizeOk, RequiresReconciliation
    <2> QED  BY <1>0, <2>1
<1>6. CASE PersistSignedAttempt(job.r, job.aim, job.head)
    <2>1. /\ state[job.r] \in {"Signed", "Submitted", "Replaced", "Orphaned"}
          /\ SignedStateOf(job.aim) \in {"ReplacementSigned", "CancellationSigned"}
          /\ state' = [state EXCEPT ![job.r] = SignedStateOf(job.aim)]
          /\ \A p \in Row : p # job.r => kinds'[p] = kinds[p]
          /\ UNCHANGED nonce
        BY <1>0, <1>6 DEF PersistSignedAttempt, PersistSignedAttemptOk, SignedStateOf
    <2>2. q = job.r => kinds[q] # <<>>
        BY <2>1 DEF LaneInv, StoreInv, SignedHasBytes, Unsigned
    <2> QED  BY <1>0, <2>1, <2>2
<1>7. CASE /\ pc = "reserve"
           /\ \E r \in Row : ReserveNonce(r, job.tip, job.nonce, job.blk, job.rate)
    BY <1>0, <1>7 DEF ReserveNonce, ReserveOk
<1>8. CASE PersistSigned(job.r)
    BY <1>0, <1>8 DEF PersistSigned
<1> QED  BY Zenon, <1>1, <1>2, <1>3, <1>4, <1>5, <1>6, <1>7, <1>8 DEF Writes

-----------------------------------------------------------------------------
(* The depth of a confirmation. *)

\* A confirmed row lies under its confirmations on the stored chain, and so
\* does a row about to be confirmed, as long as the cursor has not moved back.
Deep ==
    /\ \A r \in Row : state[r] \in Validated =>
          Len(blocks) >= Height(inc[r]) + Confirmations
    /\ job.head <= Len(blocks)
    /\ pc = "commit" /\ job.aim = "Confirmed" =>
          inc[job.r] \in BlockId /\ job.head >= Height(inc[job.r]) + Confirmations

DepthInv ==
    /\ LedgerInv /\ reorgs <= MaxReorgs
    /\ reorgs = 0 => StoredPrefix
    /\ Deep \/ (reorgs = MaxReorgs /\ StoredPrefix)

\* The chain service that follows never rewinds.
LEMMA PrefixFollows ==
    ASSUME LaneInv, StoredPrefix
    PROVE  Follows
BY DEF LaneInv, TypeOK, StoreTypeOK, StoredPrefix, Follows, Cursor

\* A step of the tick keeps confirmed rows deep.
LEMMA TickDeep ==
    ASSUME LaneInv, Deep, Ticks
    PROVE  Deep'
<1>0. /\ body' = body /\ blocks' = blocks /\ Writes /\ JobMoves
      /\ UNCHANGED storeVars \/ TickCommand
    BY TickWrites, TickMoves DEF Ticks, LaneKept, TickFrame, Frame
<1>1. /\ job \in Job /\ StoreTypeOK /\ SignedHasBytes /\ job.head \in Nat
      /\ Len(blocks) \in Nat /\ Confirmations \in Nat
    BY LaneAssumption DEF LaneInv, TypeOK, StoreInv, StoreTypeOK, Job
<1>2. ASSUME NEW r \in Row, state'[r] \in Validated
      PROVE  /\ inc'[r] = inc[r]
             /\ Len(blocks) >= Height(inc[r]) + Confirmations
    <2>1. /\ inc'[r] = inc[r]
          /\ state[r] \in Validated \/ state[r] = "Included"
        <3>1. CASE UNCHANGED storeVars
            BY <1>2, <3>1 DEF storeVars
        <3>2. ASSUME NEW p \in Row, RowCommand(p)
              PROVE  /\ inc'[r] = inc[r]
                     /\ state[r] \in Validated \/ state[r] = "Included"
            BY <1>0, <1>1, <1>2, <3>2, RowCommandEffect
        <3>3. CASE ReceiptCommand
            BY <1>2, <3>3 DEF ReceiptCommand, PersistCanonicalReceipt
        <3> QED  BY <1>0, <3>1, <3>2, <3>3 DEF TickCommand
    <2>2. CASE state[r] = "Included"
        <3>1. r = job.r /\ pc = "commit" /\ job.aim = state'[r]
            BY <1>0, <1>2, <2>2, WrittenRow DEF Validated
        <3>2. job.aim = "Confirmed"
            <4>1. AllowsTransition("Included", job.aim)
                BY <1>0, <1>2, <2>2, WrittenRow DEF Validated
            <4> QED  BY <1>2, <3>1, <4>1, Lifecycle DEF Validated
        <3>3. /\ inc[r] \in BlockId /\ job.head >= Height(inc[r]) + Confirmations
              /\ job.head <= Len(blocks)
            BY <3>1, <3>2 DEF Deep
        <3>4. Height(inc[r]) \in Nat
            BY <1>1, <3>3, BlockType DEF StoreTypeOK
        <3> QED  BY <1>1, <2>1, <3>3, <3>4
    <2> QED  BY <2>1, <2>2 DEF Deep
<1>3. job'.head <= Len(blocks)
    BY <1>0, <1>1 DEF JobMoves, Deep
<1>4. ASSUME pc' = "commit", job'.aim = "Confirmed"
      PROVE  /\ inc'[job'.r] = inc[job.r] /\ inc[job.r] \in BlockId
             /\ job'.head >= Height(inc[job.r]) + Confirmations
    <2>1. UNCHANGED inc /\ job'.r = job.r /\ job'.head = job.head /\ CommitAim(job')
        BY <1>0, <1>4 DEF JobMoves, Rows
    <2>2. /\ pc = "observe" /\ inc[job.r] # 0
          /\ ~(job.head < Height(inc[job.r]) + Confirmations)
        BY <1>4, <2>1 DEF CommitAim
    <2>3. job.r \in Row
        BY <2>2 DEF LaneInv, JobOK, JobFor
    <2>4. inc[job.r] \in BlockId
        BY <1>1, <2>2, <2>3 DEF StoreTypeOK
    <2>5. Height(inc[job.r]) \in Nat
        BY <1>1, <2>4, BlockType DEF StoreTypeOK
    <2> QED  BY <1>1, <2>1, <2>2, <2>4, <2>5
<1>5. \A b : Height(b)' = Height(b)
    BY <1>0 DEF Height
<1>6. \A r \in Row : state'[r] \in Validated' =>
          Len(blocks') >= Height(inc[r])' + Confirmations
    BY Zenon, <1>0, <1>2 DEF Height, Validated
<1>7. pc' = "commit" /\ job'.aim = "Confirmed" =>
          inc'[job'.r] \in BlockId' /\ job'.head >= Height(inc[job.r])' + Confirmations
    BY Zenon, <1>0, <1>4 DEF Height, BlockId
<1> QED  BY Zenon, <1>0, <1>3, <1>6, <1>7 DEF Deep

\* New blocks and new stored blocks do.
LEMMA GrowthDeep ==
    ASSUME LaneInv, LaneInv', Deep, UNCHANGED <<state, inc, pc, job>>,
           Len(blocks') >= Len(blocks),
           \A b \in BlockId : body'[b] = body[b] /\ b \in BlockId'
    PROVE  Deep'
<1>0. /\ StoreTypeOK /\ job.head \in Nat /\ Len(blocks) \in Nat /\ Len(blocks') \in Nat
      /\ Confirmations \in Nat
    <2>1. StoreTypeOK /\ job \in Job
        BY Zenon DEF LaneInv, TypeOK
    <2>2. job.head \in Nat /\ Len(blocks) \in Nat
        BY <2>1 DEF StoreTypeOK, Job
    <2>3. Len(blocks') \in Nat
        BY DEF LaneInv, TypeOK, StoreTypeOK
    <2> QED  BY <2>1, <2>2, <2>3, LaneAssumption
<1>1. ASSUME NEW b \in BlockId
      PROVE  Height(b) \in Nat /\ body'[b].n = Height(b)
    BY <1>0, BlockType DEF StoreTypeOK, Height
<1>2. ASSUME NEW r \in Row, state[r] \in Validated
      PROVE  Len(blocks') >= body'[inc[r]].n + Confirmations
    <2>1. inc[r] \in BlockId /\ Len(blocks) >= Height(inc[r]) + Confirmations
        BY <1>2 DEF Deep, LaneInv, StoreInv, StoreTypeOK, ConfirmedIsCanonical, OwnSuccess
    <2>2. Height(inc[r]) \in Nat /\ body'[inc[r]].n = Height(inc[r])
        BY <1>1, <2>1
    <2> QED  BY SMTT(30), <1>0, <2>1, <2>2
<1>3. job.head <= Len(blocks')
    BY <1>0 DEF Deep
<1>4. ASSUME pc = "commit", job.aim = "Confirmed"
      PROVE  inc[job.r] \in BlockId' /\ job.head >= body'[inc[job.r]].n + Confirmations
    BY Zenon, <1>1, <1>4 DEF Deep
<1> QED  BY Zenon, <1>2, <1>3, <1>4 DEF Deep, Height, Validated

\* The execution service does not reorganise the chain.
LEMMA TickReorgs ==
    ASSUME Ticks
    PROVE  reorgs' = reorgs
<1> USE DEF Done, Quarantine, Go, GoOn, bounds
<1>1. CASE BeginTick \/ FutureNonce \/ ReceiptMismatch \/ ClassifyConsumedNonce
    BY Zenon, <1>1 DEF BeginTick, FutureNonce, ReceiptMismatch, ClassifyConsumedNonce
<1>2. CASE RecoverReserved \/ RecoverSigned \/ RecoverSignedAttempt
    BY Zenon, <1>2 DEF RecoverReserved, RecoverSigned, RecoverSignedAttempt
<1>3. CASE ObserveReceipt \/ RecoverOrphaned \/ ReconcileOrRebroadcast
    BY Zenon, <1>3
       DEF ObserveReceipt, RecoverOrphaned, ReconcileOrRebroadcast, ManagePending
<1>4. CASE \/ ConfirmInclusion \/ ReconcileConfirmed
           \/ ReconcileValidated \/ Revalidate \/ HoldForeign
    BY Zenon, <1>4
       DEF ConfirmInclusion, ReconcileConfirmed, ReconcileValidated, Revalidate,
           HoldForeign, PostState
<1>5. CASE Execute
    BY Zenon, <1>5 DEF Execute, BeginExecute, PersistPlan, Reserve, Gate, Sign
<1>6. CASE Persist
    BY Zenon, <1>6
       DEF Persist, Commit, Conform, Reconcile, Finalize, SignAttempt, Submit, Record
<1>7. CASE Failure
    BY Zenon, <1>7
       DEF Failure, SignerFailure, PendingSignerFailure, TickFails, Crash
<1> QED  BY Zenon, <1>1, <1>2, <1>3, <1>4, <1>5, <1>6, <1>7 DEF Ticks, Recover

\* With one reorganisation, the cursor moves back at most once.
LEMMA DepthStep ==
    ASSUME MaxReorgs <= 1, DepthInv, [Next]_vars
    PROVE  DepthInv'
<1>0. /\ LaneInv /\ NonceInv /\ LaneInv' /\ LedgerInv'
      /\ reorgs \in Nat /\ MaxReorgs \in Nat
    <2>1. LaneInv /\ NonceInv /\ RecordIsCanonical
        BY DEF DepthInv, LedgerInv
    <2>2. LaneInv' /\ NonceInv' /\ RecordIsCanonical'
        BY <2>1, LaneStep, NonceStep, RecordStep
    <2> QED  BY <2>1, <2>2, LaneAssumption DEF LedgerInv, LaneInv, TypeOK
<1>1. /\ chain \in Seq(BlockId) /\ blocks \in Seq(BlockId) /\ body \in Seq(Block)
      /\ Len(chain) \in Nat /\ Len(blocks) \in Nat
    BY <1>0 DEF LaneInv, TypeOK, StoreTypeOK
<1>2. CASE Calm
    <2>1. UNCHANGED <<state, inc, pc, job, blocks, body, chain, reorgs>>
        BY <1>2 DEF Calm, storeVars
    <2>2. Deep => Deep'
        BY Zenon, <2>1 DEF Deep, Height, BlockId, Validated
    <2>3. StoredPrefix' <=> StoredPrefix
        BY Zenon, <2>1 DEF StoredPrefix
    <2> QED  BY <1>0, <2>1, <2>2, <2>3 DEF DepthInv
<1>3. CASE Ticks
    <2>1. Deep => Deep'
        BY <1>0, <1>3, TickDeep
    <2>2. StoredPrefix' <=> StoredPrefix
        BY <1>3 DEF StoredPrefix, Ticks, LaneKept
    <2>3. reorgs' = reorgs
        BY Zenon, <1>3, TickReorgs
    <2> QED  BY <1>0, <2>1, <2>2, <2>3 DEF DepthInv
<1>4. CASE CatchUp
    <2>1. /\ Len(blocks') = Len(blocks) + 1 /\ StoredPrefix'
        BY <1>0, <1>4, CatchUpNonces DEF StoredPrefix
    <2>2. UNCHANGED <<state, inc, pc, job, body, reorgs>>
        BY <1>4 DEF CatchUp, ApplyBlock, chainVars, bounds
    <2>3. Deep => Deep'
        <3>1. Len(blocks') >= Len(blocks)
            BY <1>1, <2>1
        <3>2. \A b \in BlockId : body'[b] = body[b] /\ b \in BlockId'
            BY <2>2 DEF BlockId
        <3> QED  BY <1>0, <2>2, <3>1, <3>2, GrowthDeep
    <2> QED  BY <1>0, <2>1, <2>2, <2>3 DEF DepthInv
<1>5. CASE RewindAndReplay
    <2>1. ~StoredPrefix
        BY <1>0, <1>5, PrefixFollows DEF RewindAndReplay
    <2>2. reorgs = MaxReorgs
        <3>1. reorgs # 0 /\ reorgs <= MaxReorgs
            BY <2>1 DEF DepthInv
        <3> QED  BY <1>0, <3>1
    <2>3. reorgs' = reorgs /\ body' = body /\ chain' = chain
        BY <1>5 DEF RewindAndReplay, bounds, chainVars
    <2>4. PICK k \in 1..Len(blocks) : CommonAncestor(k) /\ Rewind(k)
        BY <1>5 DEF RewindAndReplay
    <2>5. StoredPrefix'
        BY <1>0, <2>3, <2>4, RewindNonces DEF StoredPrefix
    <2> QED  BY <1>0, <2>2, <2>3, <2>5 DEF DepthInv
<1>6. ASSUME NEW k \in 1..Len(chain), NEW tx \in Attempts \cup {NoTx, ForeignTx},
             NewBlocks(k, tx)
      PROVE  DepthInv'
    <2>1. UNCHANGED <<state, inc, pc, job, blocks>>
        BY <1>6 DEF NewBlocks, storeVars
    <2>2. /\ k < Len(chain') /\ BodyGrows /\ \A i \in 1..k : chain'[i] = chain[i]
        BY <1>6 DEF NewBlocks, Grows
    <2>3. \A b \in BlockId : body'[b] = body[b] /\ b \in BlockId'
        BY <1>1, <2>2 DEF BodyGrows, BlockId
    <2>4. Deep => Deep'
        <3>1. Len(blocks') >= Len(blocks)
            BY <1>1, <2>1
        <3> QED  BY <1>0, <2>1, <2>3, <3>1, GrowthDeep
    <2>5. CASE k = Len(chain) /\ reorgs' = reorgs
        <3>1. Len(chain') \in Nat
            BY <1>0 DEF LaneInv, TypeOK
        <3>2. StoredPrefix => StoredPrefix'
            BY <1>1, <2>1, <2>2, <2>5, <3>1 DEF StoredPrefix
        <3> QED  BY <1>0, <2>4, <2>5, <3>2 DEF DepthInv
    <2>6. CASE reorgs < MaxReorgs /\ reorgs' = reorgs + 1
        <3>1. reorgs # MaxReorgs /\ reorgs' # 0
            BY <1>0, <2>6
        <3>2. reorgs' <= MaxReorgs
            BY <1>0, <2>6
        <3> QED  BY <1>0, <2>4, <3>1, <3>2 DEF DepthInv
    <2> QED  BY Zenon, <1>6, <2>5, <2>6 DEF NewBlocks
<1> QED  BY Zenon, <1>0, <1>2, <1>3, <1>4, <1>5, <1>6, StepShape

\* A rewind that orphans a confirmed row drops its inclusion and every block of
\* its confirmations.
LEMMA OrphanedDeep ==
    ASSUME DepthInv, [Next]_vars, NEW r \in Row, state[r] \in Validated,
           state'[r] = "Orphaned"
    PROVE  Len(blocks) - Len(blocks') > Confirmations
<1>0. /\ LaneInv /\ NonceInv /\ StoreTypeOK /\ Confirmations \in Nat
      /\ Len(blocks) \in Nat
    BY LaneAssumption DEF DepthInv, LedgerInv, LaneInv, StoreInv, StoreTypeOK
<1>1. state'[r] # state[r]
    BY DEF Validated
<1>2. ~Ticks
    <2> SUFFICES ASSUME Ticks PROVE FALSE
        OBVIOUS
    <2>1. AllowsTransition(state[r], "Orphaned")
        BY <1>0, <1>1, TickWrites, WrittenRow DEF Validated
    <2> QED  BY <2>1 DEF AllowsTransition, Permits, Validated, RequiresReconciliation
<1>3. ~UNCHANGED storeVars /\ ~CatchUp
    BY Zenon, <1>1 DEF storeVars, CatchUp, ApplyBlock
<1>4. RewindAndReplay
    BY Zenon, <1>0, <1>2, <1>3, StepShape DEF Calm, NewBlocks
<1>5. PICK k \in 1..Len(blocks) : CommonAncestor(k) /\ Rewind(k)
    BY <1>4 DEF RewindAndReplay
<1>6. Len(blocks') = k
    <2>1. blocks' = SubSeq(blocks, 1, k)
        BY <1>5 DEF Rewind, KeptBlocks
    <2> QED  BY <1>0, <2>1 DEF StoreTypeOK
<1>7. inc[r] \in BlockId /\ Canonical(inc[r])
    BY <1>0 DEF LaneInv, StoreInv, StoreTypeOK, ConfirmedIsCanonical, OwnSuccess
<1>8. r \in OrphanedBy(k)
    <2>1. inc[r] # 0
        BY SMTT(30), <1>0, <1>7 DEF StoreTypeOK, BlockId
    <2>2. \/ r \in OrphanedBy(k)
          \/ r \in LostRecord(k) /\ ~(inc[r] # 0 /\ Canonical(inc[r]))
        BY <1>1, <1>5 DEF Rewind
    <2> QED  BY <1>7, <2>1, <2>2
<1>9. Height(inc[r]) > k /\ Height(inc[r]) \in Nat
    BY SMTT(30), <1>0, <1>7, <1>8, OrphanedInclusion, BlockType DEF StoreTypeOK
<1>10. Deep
    BY SMTT(30), <1>0, <1>4, PrefixFollows DEF DepthInv, RewindAndReplay
<1>11. Len(blocks) >= Height(inc[r]) + Confirmations
    BY <1>10 DEF Deep
<1> QED  BY <1>0, <1>6, <1>9, <1>11

\* receipt_confirmation_evm_blocks protects a confirmed row: while the chain
\* reorganises once, to any depth, only a rewind that drops more stored blocks
\* than the confirmation depth orphans it.
THEOREM ConfirmedStaysConfirmed ==
    ASSUME MaxReorgs <= 1
    PROVE  Spec => ConfirmedNotOrphaned
<1> DEFINE Protected == \A r \in Row : state[r] \in Validated /\ state'[r] = "Orphaned"
                           => Len(blocks) - Len(blocks') > Confirmations
<1>1. Init => DepthInv
    <2> SUFFICES ASSUME Init PROVE DepthInv
        OBVIOUS
    <2>1. LedgerInv
        BY LaneInit, NonceInit DEF LedgerInv
    <2>2. blocks = <<1>> /\ chain = <<1>> /\ reorgs = 0 /\ job = NoJob /\ pc = "idle"
          /\ state = [r \in Row |-> "Absent"]
        BY DEF Init, StoreInit
    <2>3. Len(blocks) = 1 /\ job.head = 0 /\ StoredPrefix
        BY <2>2 DEF StoredPrefix, NoJob
    <2>4. Deep
        BY <2>2, <2>3 DEF Deep, Validated
    <2> QED  BY <2>1, <2>2, <2>3, <2>4, LaneAssumption DEF DepthInv
<1>2. DepthInv /\ [Next]_vars => DepthInv'
    BY DepthStep
<1>3. DepthInv /\ [Next]_vars => [Protected]_vars
    BY OrphanedDeep
<1> QED  BY <1>1, <1>2, <1>3, PTL DEF Spec, ConfirmedNotOrphaned

-----------------------------------------------------------------------------
(* Outcomes: without reorganisations, what frees the lane and what blames a
   foreign transaction. *)

\* The chain holds a transaction of the allocator at nonce n.
SpentOn(n) ==
    \E i \in DOMAIN chain : body[chain[i]].tx # NoTx /\ body[chain[i]].nonce = n

\* A transaction from outside the bot was mined.
ForeignMined == \E b \in BlockId : body[b].tx = ForeignTx

\* The states that rest on a receipt.
Landed ==
    {"Included", "Confirmed", "ConformanceValidated", "ReconciliationPending",
     "Reconciled", "Reverted", "Cancelled", "Failed"}

\* A row that rests on a receipt has its nonce spent.
LandedIsSpent == \A r \in Row : state[r] \in Landed => SpentOn(nonce[r])

\* Signed bytes and another row that is signed, or may still be, never share a
\* nonce.
NoncesDiffer ==
    \A q, r \in Row :
        q # r /\ state[q] \notin Unsigned
        /\ state[r] \notin {"Absent", "AbortedBeforeSigning"}
        => nonce[q] # nonce[r]

\* What a tick has read is still so when it commits.
ReadsHold ==
    /\ pc = "observe" => state[job.r] = job.st /\ IsUnresolved(job.st)
    /\ pc = "commit" =>
          /\ job.aim \in {"Included", "Reverted", "Cancelled"} => SpentOn(nonce[job.r])
          /\ job.aim = "Failed" => job.st = "Confirmed"
          /\ job.aim = "ForeignNonceConsumed" => ForeignMined
    /\ pc \in {"plan", "reserve"} =>
          \A q \in Row : state[q] \notin Unsigned => nonce[q] < job.nonce

OutcomeInv ==
    /\ QuietInv /\ NonceInv
    /\ LandedIsSpent /\ NoncesDiffer /\ ReadsHold /\ ForeignIsReal

-----------------------------------------------------------------------------
(* The nonces of the chain are those below its count. *)

\* NonceOn counts what Below counts at the end of the chain.
LEMMA NonceOnBelow ==
    ASSUME LaneInv
    PROVE  /\ Len(chain) \in Nat /\ DOMAIN chain = 1..Len(chain)
           /\ NonceOn(chain) = Cardinality(Below(body, chain, Len(chain) + 1))
<1>1. Len(chain) \in Nat /\ DOMAIN chain = 1..Len(chain)
    BY DEF LaneInv, TypeOK
<1>2. (Len(chain) + 1) - 1 = Len(chain)
    BY <1>1
<1> QED  BY Zenon, <1>1, <1>2 DEF NonceOn, Below

\* A nonce on the chain is below the provider's count.
LEMMA SpentIsBelow ==
    ASSUME LaneInv, NonceInv, NEW n, SpentOn(n)
    PROVE  n \in Nat /\ n < ConfirmedNonce
<1> DEFINE C(i) == Cardinality(Below(body, chain, i))
<1>1. PICK i \in DOMAIN chain : body[chain[i]].tx # NoTx /\ body[chain[i]].nonce = n
    BY DEF SpentOn
<1>2. /\ Len(chain) \in Nat /\ i \in 1..Len(chain) /\ i \in Nat \ {0}
      /\ NonceOn(chain) = C(Len(chain) + 1)
    BY <1>1, NonceOnBelow
<1>3. n = C(i)
    BY <1>1 DEF NonceInv, Counts
<1>4. C(i + 1) = C(i) + 1
    BY <1>1, <1>2, BelowStep
<1>5. C(i) \in Nat
    <2>1. i \in Nat /\ i <= i
        BY <1>2
    <2> QED  BY <2>1, BelowCounted
<1>6. C(i + 1) <= C(Len(chain) + 1) /\ C(Len(chain) + 1) \in Nat
    <2>1. i + 1 \in Nat /\ Len(chain) + 1 \in Nat /\ i + 1 <= Len(chain) + 1
        BY <1>2
    <2> QED  BY <2>1, BelowCounted
<1> HIDE DEF C
<1> QED  BY <1>2, <1>3, <1>4, <1>5, <1>6 DEF ConfirmedNonce

\* A nonce below the provider's count is on the chain.
LEMMA BelowIsSpent ==
    ASSUME LaneInv, NonceInv, NEW n \in Nat, n < ConfirmedNonce
    PROVE  SpentOn(n)
<1> DEFINE C(i) == Cardinality(Below(body, chain, i))
           S == {i \in Nat : n < C(i)}
           R == OpToRel(<, Nat)
<1>1. /\ Len(chain) \in Nat /\ DOMAIN chain = 1..Len(chain)
      /\ NonceOn(chain) = C(Len(chain) + 1)
    BY NonceOnBelow
<1>2. ASSUME NEW i \in Nat, NEW k \in Nat, k <= i
      PROVE  C(k) \in Nat /\ C(i) \in Nat /\ C(k) <= C(i)
    <2>1. k <= k
        OBVIOUS
    <2> QED  BY <1>2, <2>1, BelowCounted
<1>3. \A i \in Nat \ {0} : C(i + 1) = C(i) + (IF body[chain[i]].tx # NoTx THEN 1 ELSE 0)
    BY BelowStep
<1>4. C(0) = 0 /\ C(1) = 0
    <2>1. Below(body, chain, 0) = {} /\ Below(body, chain, 1) = {}
        BY DEF Below
    <2> QED  BY <2>1, FS_EmptySet
<1> HIDE DEF C
<1>5. S \subseteq Nat /\ Len(chain) + 1 \in S
    BY <1>1 DEF ConfirmedNonce
<1>6. PICK x \in S : \A y \in S : <<y, x>> \notin R
    <2> HIDE DEF S
    <2> QED  BY ZenonT(30), <1>5, NatLessThanWellFounded, WFMin
<1>7. x \in Nat /\ n < C(x) /\ x # 0 /\ x # 1
    <2>1. x \in Nat /\ n < C(x)
        OBVIOUS
    <2> QED  BY SMTT(30), <1>4, <2>1
<1> DEFINE m == x - 1
<1>8. m \in Nat \ {0} /\ x = m + 1
    BY <1>7
<1>9. ~(n < C(m))
    <2>1. <<m, x>> \in R
        BY <1>7, <1>8 DEF OpToRel
    <2>2. m \notin S
        BY ZenonT(30), <1>6, <2>1
    <2> QED  BY <1>8, <2>2
<1> HIDE DEF m
<1>10. C(m) \in Nat /\ C(m + 1) = C(m) + (IF body[chain[m]].tx # NoTx THEN 1 ELSE 0)
    <2>1. m \in Nat /\ m <= m
        BY <1>8
    <2> QED  BY <1>2, <1>3, <1>8, <2>1
<1>11. body[chain[m]].tx # NoTx /\ C(m) = n
    BY <1>7, <1>8, <1>9, <1>10
<1>12. m \in 1..Len(chain)
    <2>1. SUFFICES ASSUME ~(m <= Len(chain)) PROVE FALSE
        BY <1>1, <1>8
    <2>2. Len(chain) + 1 <= m /\ Len(chain) + 1 \in Nat /\ m \in Nat
        BY SMTT(30), <1>1, <1>8, <2>1
    <2>3. C(Len(chain) + 1) <= C(m) /\ C(Len(chain) + 1) \in Nat
        BY SMTT(30), <1>2, <2>2
    <2> QED  BY <1>1, <1>9, <1>10, <2>3 DEF ConfirmedNonce
<1>13. body[chain[m]].nonce = n
    BY SMTT(30), <1>1, <1>11, <1>12 DEF NonceInv, Counts, C
<1> QED  BY <1>1, <1>11, <1>12, <1>13 DEF SpentOn

\* A receipt that the tick found spends the nonce of its row.
LEMMA ReceivedIsSpent ==
    ASSUME LaneInv, NonceInv, StoredPrefix, NEW got \in Received, got > 0
    PROVE  SpentOn(nonce[job.r])
<1>1. /\ got \in BlockId /\ Canonical(got)
      /\ body[got].tx \in Known(job.r) /\ job.r \in Row
    BY ReceiptIsOwn
<1>2. /\ blocks \in Seq(BlockId) /\ chain \in Seq(BlockId) /\ StoreTypeOK
    BY DEF LaneInv, TypeOK, StoreTypeOK
<1>3. Height(got) \in Nat \ {0}
    BY <1>1, <1>2, BlockType DEF StoreTypeOK
<1>4. Height(got) \in 1..Len(blocks) /\ blocks[Height(got)] = got
    BY <1>1, <1>2, <1>3 DEF Canonical, On
<1>5. Height(got) \in DOMAIN chain /\ chain[Height(got)] = got
    BY <1>2, <1>4 DEF StoredPrefix
<1>6. body[got].tx[1] = job.r /\ job.r # 0
    BY <1>1 DEF Known, Row
<1>7. body[got].tx \notin {NoTx, ForeignTx}
    BY SMTT(30), <1>6 DEF NoTx, ForeignTx
<1>8. PICK q \in Row : body[got].tx \in Known(q) /\ body[got].nonce = nonce[q]
    BY <1>1, <1>7 DEF NonceInv, MinedAtNonce
<1>9. q = job.r
    BY SMTT(30), <1>6, <1>8 DEF Known
<1> QED  BY <1>5, <1>7, <1>8, <1>9 DEF SpentOn

\* A nonce that is spent, and by none of the row's attempts, was spent outside
\* the bot.
LEMMA UnexplainedIsForeign ==
    ASSUME OutcomeInv, Unexplained
    PROVE  ForeignMined
<1>0. /\ LaneInv /\ NonceInv /\ NoncesDiffer /\ ReadsHold
      /\ MinedAtNonce /\ UnsignedHasNoBytes
    BY DEF OutcomeInv, QuietInv, NonceInv
<1>1. /\ job.r \in Row /\ pc = "observe" /\ nonce[job.r] < ConfirmedNonce
      /\ Mined(job.r) = {}
    BY <1>0 DEF Unexplained, LaneInv, JobOK, JobFor
<1>2. nonce[job.r] \in Nat
    BY SMTT(30), <1>0, <1>1 DEF LaneInv, StoreInv, StoreTypeOK
<1>3. SpentOn(nonce[job.r])
    BY <1>0, <1>1, <1>2, BelowIsSpent
<1>4. PICK i \in DOMAIN chain : /\ body[chain[i]].tx # NoTx
                                /\ body[chain[i]].nonce = nonce[job.r]
    BY <1>3 DEF SpentOn
<1>5. chain[i] \in BlockId /\ chain[i] \in Range(chain)
    BY <1>0 DEF LaneInv, TypeOK, Range
<1>6. ASSUME body[chain[i]].tx # ForeignTx
      PROVE  FALSE
    <2>1. PICK q \in Row : /\ body[chain[i]].tx \in Known(q)
                           /\ body[chain[i]].nonce = nonce[q]
        BY <1>0, <1>4, <1>5, <1>6 DEF MinedAtNonce
    <2>2. q # job.r
        BY SMTT(30), <1>1, <1>5, <2>1 DEF Mined
    <2>3. kinds[q] # <<>>
        BY <2>1 DEF Known
    <2>4. state[q] \notin Unsigned
        BY <1>0, <2>3 DEF UnsignedHasNoBytes
    <2>5. state[job.r] \notin {"Absent", "AbortedBeforeSigning"}
        BY <1>0, <1>1 DEF ReadsHold, IsUnresolved
    <2> QED  BY ZenonT(30), <1>0, <1>1, <1>4, <2>1, <2>2, <2>4, <2>5 DEF NoncesDiffer
<1> QED  BY <1>5, <1>6 DEF ForeignMined

-----------------------------------------------------------------------------
(* The outcome invariant is inductive. *)

\* A row that changes, changes to a state that its receipt, its old state or
\* its tick accounts for.
LEMMA TickLands ==
    ASSUME OutcomeInv, Ticks
    PROVE  /\ LandedIsSpent'
           /\ (\E r \in Row : state'[r] = "ForeignNonceConsumed") => ForeignMined
<1>0. LaneInv /\ LandedIsSpent /\ ReadsHold /\ Writes /\ ForeignIsReal
    BY TickWrites DEF OutcomeInv, QuietInv
<1>1. body' = body /\ chain' = chain
    BY DEF Ticks, LaneKept, TickFrame, Frame
<1>2. ASSUME NEW r \in Row, state'[r] \in Landed
      PROVE  SpentOn(nonce'[r])
    <2>1. state[r] \notin Landed => SpentOn(nonce[r])
        <3> SUFFICES ASSUME state[r] \notin Landed PROVE SpentOn(nonce[r])
            OBVIOUS
        <3>1. /\ pc = "commit" /\ r = job.r /\ state'[r] = job.aim
              /\ state[r] = job.st /\ AllowsTransition(job.st, job.aim)
            BY SMTT(30), <1>0, <1>2, WrittenRow DEF Landed
        <3>2. job.aim \in {"Included", "Reverted", "Cancelled", "Failed"}
            BY SMTT(30), <1>2, <3>1 DEF Landed, AllowsTransition, Permits, RequiresReconciliation
        <3>3. job.aim # "Failed"
            BY <1>0, <3>1 DEF ReadsHold, Landed
        <3> QED  BY <1>0, <3>1, <3>2, <3>3 DEF ReadsHold
    <2>2. SpentOn(nonce[r])
        BY SMTT(30), <1>0, <2>1 DEF LandedIsSpent
    <2>3. nonce'[r] = nonce[r]
        BY <1>0, <1>2, WrittenRow
           DEF Landed, AllowsTransition, Permits, RequiresReconciliation
    <2> QED  BY SMTT(30), <2>2, <2>3
<1>3. LandedIsSpent'
    BY ZenonT(30), <1>1, <1>2 DEF LandedIsSpent, SpentOn, Landed
<1>4. ASSUME NEW r \in Row, state'[r] = "ForeignNonceConsumed"
      PROVE  ForeignMined
    <2>1. \/ state[r] = "ForeignNonceConsumed"
          \/ pc = "commit" /\ job.aim = "ForeignNonceConsumed"
        BY <1>0, <1>4, WrittenRow
    <2> QED  BY SMTT(30), <1>0, <2>1 DEF ReadsHold, ForeignIsReal, ForeignMined
<1> QED  BY <1>3, <1>4

\* A nonce is reserved when every signed row is below it, and bytes are signed
\* while their row alone owns the lane.
LEMMA TickDiffers ==
    ASSUME OutcomeInv, Ticks
    PROVE  NoncesDiffer'
<1>0. LaneInv /\ NoncesDiffer /\ ReadsHold /\ Writes /\ OneUnresolved
    BY TickWrites DEF OutcomeInv, QuietInv
<1>1. ASSUME NEW q \in Row, NEW r \in Row, q # r, state'[q] \notin Unsigned,
             state'[r] \notin {"Absent", "AbortedBeforeSigning"}
      PROVE  nonce'[q] # nonce'[r]
    <2>1. /\ state[q] \notin Unsigned \/ state[q] = "NonceReserved"
          /\ nonce'[q] = nonce[q]
        BY SMTT(30), <1>0, <1>1, WrittenRow
           DEF Unsigned, AllowsTransition, Permits, RequiresReconciliation
    <2>2. \/ /\ state[r] \notin {"Absent", "AbortedBeforeSigning"}
             /\ nonce'[r] = nonce[r]
          \/ pc = "reserve" /\ nonce'[r] = job.nonce /\ Unresolved = {}
        BY <1>0, <1>1, WrittenRow
           DEF AllowsTransition, Permits, RequiresReconciliation
    <2>3. CASE pc = "reserve" /\ nonce'[r] = job.nonce /\ Unresolved = {}
        <3>1. state[q] \notin Unsigned
            BY SMTT(30), <2>1, <2>3 DEF Unresolved, IsUnresolved
        <3>2. nonce[q] < job.nonce
            BY SMTT(30), <1>0, <2>3, <3>1 DEF ReadsHold
        <3>3. nonce[q] \in Nat /\ job.nonce \in Nat
            BY <1>0 DEF LaneInv, TypeOK, StoreTypeOK, Job
        <3> QED  BY <2>1, <2>3, <3>2, <3>3
    <2>4. CASE state[r] \notin {"Absent", "AbortedBeforeSigning"} /\ nonce'[r] = nonce[r]
        <3>1. CASE state[q] \notin Unsigned
            BY ZenonT(30), <1>0, <1>1, <2>1, <2>4, <3>1 DEF NoncesDiffer
        <3>2. CASE state[q] = "NonceReserved"
            <4>1. state[r] \notin Unsigned
                BY ZenonT(30), <1>0, <1>1, <2>4, <3>2 DEF OneUnresolved, IsUnresolved, Unsigned
            <4>2. state[q] \notin {"Absent", "AbortedBeforeSigning"}
                BY <3>2
            <4> QED  BY ZenonT(30), <1>0, <1>1, <2>1, <2>4, <4>1, <4>2 DEF NoncesDiffer
        <3> QED  BY SMTT(30), <2>1, <3>1, <3>2
    <2> QED  BY SMTT(30), <2>2, <2>3, <2>4
<1> QED  BY Zenon, <1>1 DEF NoncesDiffer, Unsigned

\* What the tick carries on holds when it is read.
LEMMA TickReads ==
    ASSUME OutcomeInv, Ticks
    PROVE  ReadsHold'
<1>0. /\ LaneInv /\ NonceInv /\ LandedIsSpent /\ ReadsHold /\ JobMoves /\ StoredPrefix
      /\ body' = body /\ chain' = chain
    BY TickMoves DEF OutcomeInv, QuietInv, Ticks, LaneKept, TickFrame, Frame
<1>1. ASSUME pc' = "observe"
      PROVE  state'[job'.r] = job'.st /\ IsUnresolved(job'.st)
    <2>1. UNCHANGED state /\ job'.r \in Unresolved /\ job'.st = state[job'.r]
        BY <1>0, <1>1 DEF JobMoves, Rows
    <2> QED  BY <2>1 DEF Unresolved
<1>2. ASSUME pc' = "commit"
      PROVE  /\ job'.aim \in {"Included", "Reverted", "Cancelled"} => SpentOn(nonce'[job'.r])
             /\ job'.aim = "Failed" => job'.st = "Confirmed"
             /\ job'.aim = "ForeignNonceConsumed" => ForeignMined
    <2>1. nonce' = nonce /\ job'.r = job.r /\ CommitAim(job')
        BY <1>0, <1>2 DEF JobMoves, Rows
    <2>2. ASSUME job'.aim \in {"Included", "Reverted", "Cancelled"}
          PROVE  SpentOn(nonce'[job'.r])
        <3>1. \E b \in Received : b > 0
            BY <2>1, <2>2 DEF CommitAim
        <3>2. SpentOn(nonce[job.r])
            BY SMTT(30), <1>0, <3>1, ReceivedIsSpent
        <3> QED  BY <2>1, <3>2
    <2>3. job'.aim = "Failed" => job'.st = "Confirmed"
        BY <2>1 DEF CommitAim
    <2>4. ASSUME job'.aim = "ForeignNonceConsumed"
          PROVE  ForeignMined
        <3>1. Unexplained
            BY <2>1, <2>4 DEF CommitAim
        <3> QED  BY <3>1, UnexplainedIsForeign
    <2> QED  BY SMTT(30), <2>2, <2>3, <2>4
<1>3. ASSUME pc' \in {"plan", "reserve"}, NEW q \in Row, state'[q] \notin Unsigned
      PROVE  nonce'[q] < job'.nonce
    <2>1. state' = state /\ nonce' = nonce
        BY <1>0, <1>3 DEF JobMoves, Rows
    <2>2. CASE pc' = "plan"
        <3>1. job'.nonce = ConfirmedNonce /\ Unresolved = {}
            BY <1>0, <2>2 DEF JobMoves
        <3>2. state[q] \in TransactionState \cup {"Absent"}
            BY <1>0 DEF LaneInv, StoreInv, StoreTypeOK
        <3>3. state[q] \in Landed
            BY <1>3, <2>1, <3>1, <3>2
               DEF Unresolved, IsUnresolved, Unsigned, TransactionState, Landed
        <3>4. SpentOn(nonce[q])
            BY <1>0, <3>3 DEF LandedIsSpent
        <3>5. nonce[q] < ConfirmedNonce
            BY SMTT(30), <1>0, <3>4, SpentIsBelow
        <3> QED  BY SMTT(30), <2>1, <3>1, <3>5
    <2>3. CASE pc' = "reserve"
        <3>1. pc = "plan" /\ job' = job
            BY <1>0, <2>3 DEF JobMoves
        <3> QED  BY <1>0, <1>3, <2>1, <3>1 DEF ReadsHold
    <2> QED  BY SMTT(30), <1>3, <2>2, <2>3
<1>4. ForeignMined' = ForeignMined
    BY Zenon, <1>0 DEF ForeignMined, BlockId
<1> DEFINE Landing == job.aim \in {"Included", "Reverted", "Cancelled"}
           Spends == \E i \in DOMAIN chain : /\ body[chain[i]].tx # NoTx
                                             /\ body[chain[i]].nonce = nonce[job.r]
<1>5. pc' = "commit" /\ Landing' => Spends'
    BY Zenon, <1>0, <1>2 DEF SpentOn
<1> QED  BY Zenon, <1>1, <1>2, <1>3, <1>4, <1>5 DEF ReadsHold, SpentOn, Unsigned, IsUnresolved

\* The tick blames a foreign transaction that was mined.
LEMMA TickForeign ==
    ASSUME OutcomeInv, Ticks
    PROVE  ForeignIsReal'
<1>0. ReadsHold /\ ForeignIsReal /\ Blames /\ body' = body /\ LaneInv
    BY TickBlames DEF OutcomeInv, QuietInv, Ticks, LaneKept, TickFrame, Frame
<1>1. ASSUME paused' \in {"foreign", "unattributed"}
      PROVE  ForeignMined
    <2>1. CASE paused' = paused
        BY SMTT(30), <1>0, <1>1, <2>1 DEF ForeignIsReal, ForeignMined
    <2>2. CASE pc = "commit" /\ job.aim = "ForeignNonceConsumed"
        BY <1>0, <2>2 DEF ReadsHold
    <2>3. CASE pc = "observe" /\ job.st = "ForeignNonceConsumed"
        <3>1. job.r \in Row /\ state[job.r] = "ForeignNonceConsumed"
            BY <1>0, <2>3 DEF LaneInv, JobOK, JobFor, ReadsHold
        <3> QED  BY SMTT(30), <1>0, <3>1 DEF ForeignIsReal, ForeignMined
    <2>4. CASE Unexplained
        BY <2>4, UnexplainedIsForeign
    <2> QED  BY <1>0, <1>1, <2>1, <2>2, <2>3, <2>4 DEF Blames
<1>2. (\E r \in Row : state'[r] = "ForeignNonceConsumed") => ForeignMined
    BY TickLands
<1> QED  BY Zenon, <1>0, <1>1, <1>2 DEF ForeignIsReal, ForeignMined, BlockId

\* Blocks on top of the chain, stored or not, take nothing back.
LEMMA GrowthOutcome ==
    ASSUME OutcomeInv, UNCHANGED <<state, nonce, pc, job>>, paused' \in {paused, "no"},
           Len(chain') \in Nat, Len(chain) \in Nat, Len(chain) <= Len(chain'),
           DOMAIN chain = 1..Len(chain), DOMAIN chain' = 1..Len(chain'),
           \A i \in 1..Len(chain) : chain'[i] = chain[i] /\ body'[chain[i]] = body[chain[i]],
           \A b \in BlockId : b \in DOMAIN body' /\ body'[b] = body[b]
    PROVE  LandedIsSpent' /\ NoncesDiffer' /\ ReadsHold' /\ ForeignIsReal'
<1>0. LandedIsSpent /\ NoncesDiffer /\ ReadsHold /\ ForeignIsReal
    BY DEF OutcomeInv
<1>1. ASSUME NEW n, SpentOn(n)
      PROVE  \E i \in DOMAIN chain' : body'[chain'[i]].tx # NoTx /\ body'[chain'[i]].nonce = n
    <2>1. PICK i \in DOMAIN chain : body[chain[i]].tx # NoTx /\ body[chain[i]].nonce = n
        BY SMTT(30), <1>1 DEF SpentOn
    <2>2. i \in DOMAIN chain' /\ chain'[i] = chain[i] /\ body'[chain[i]] = body[chain[i]]
        OBVIOUS
    <2> QED  BY <2>1, <2>2
<1>2. ForeignMined => \E b \in DOMAIN body' : body'[b].tx = ForeignTx
    BY DEF ForeignMined
<1>3. LandedIsSpent'
    BY Zenon, <1>0, <1>1 DEF LandedIsSpent, SpentOn, Landed
<1>4. NoncesDiffer'
    BY Zenon, <1>0 DEF NoncesDiffer, Unsigned
<1>5. ReadsHold'
    <2>1. pc = "commit" /\ job.aim \in {"Included", "Reverted", "Cancelled"} =>
             \E i \in DOMAIN chain' : /\ body'[chain'[i]].tx # NoTx
                                      /\ body'[chain'[i]].nonce = nonce[job.r]
        BY Zenon, <1>0, <1>1 DEF ReadsHold
    <2>2. pc = "commit" /\ job.aim = "ForeignNonceConsumed" =>
             \E b \in DOMAIN body' : body'[b].tx = ForeignTx
        BY Zenon, <1>0, <1>2 DEF ReadsHold
    <2> QED  BY Zenon, <1>0, <2>1, <2>2
                DEF ReadsHold, SpentOn, ForeignMined, BlockId, Unsigned, IsUnresolved
<1>6. ForeignIsReal'
    <2>1. paused' \in {"foreign", "unattributed"} => paused' = paused
        OBVIOUS
    <2> QED  BY ZenonT(30), <1>0, <1>2, <2>1 DEF ForeignIsReal, ForeignMined, BlockId
<1> QED  BY <1>3, <1>4, <1>5, <1>6

\* Every step, while the chain does not reorganise.
LEMMA OutcomeStep ==
    ASSUME MaxReorgs = 0, OutcomeInv, [Next]_vars
    PROVE  OutcomeInv'
<1>0. /\ LaneInv /\ NonceInv /\ StoredPrefix /\ QuietInv' /\ NonceInv'
    BY QuietStep, NonceStep DEF OutcomeInv, QuietInv
<1>1. /\ Len(chain) \in Nat /\ DOMAIN chain = 1..Len(chain) /\ body \in Seq(Block)
      /\ \A i \in 1..Len(chain) : chain[i] \in BlockId
    BY <1>0 DEF LaneInv, TypeOK, StoreTypeOK
<1>2. ASSUME UNCHANGED <<state, nonce, pc, job, body, chain>>, paused' \in {paused, "no"}
      PROVE  LandedIsSpent' /\ NoncesDiffer' /\ ReadsHold' /\ ForeignIsReal'
    <2>1. /\ Len(chain') = Len(chain) /\ DOMAIN chain' = DOMAIN chain
          /\ Len(chain) <= Len(chain')
        BY <1>1, <1>2
    <2>2. \A b \in BlockId : b \in DOMAIN body' /\ body'[b] = body[b]
        BY <1>2 DEF BlockId
    <2> QED  BY <1>1, <1>2, <2>1, <2>2, GrowthOutcome
<1>3. CASE Calm
    <2>1. UNCHANGED <<state, nonce, pc, job, body, chain>> /\ paused' \in {paused, "no"}
        BY Zenon, <1>3 DEF Calm, storeVars
    <2> QED  BY Zenon, <1>0, <1>2, <2>1 DEF OutcomeInv
<1>4. CASE CatchUp
    <2>1. UNCHANGED <<state, nonce, pc, job, body, chain>> /\ paused' \in {paused, "no"}
        BY Zenon, <1>4 DEF CatchUp, ApplyBlock, chainVars
    <2> QED  BY Zenon, <1>0, <1>2, <2>1 DEF OutcomeInv
<1>5. CASE Ticks
    BY Zenon, <1>0, <1>5, TickLands, TickDiffers, TickReads, TickForeign DEF OutcomeInv
<1>6. ~RewindAndReplay
    BY <1>0, PrefixFollows DEF RewindAndReplay
<1>7. ASSUME NEW k \in 1..Len(chain), NEW tx \in Attempts \cup {NoTx, ForeignTx},
             NewBlocks(k, tx)
      PROVE  OutcomeInv'
    <2>1. UNCHANGED <<state, nonce, pc, job, paused>>
        BY Zenon, <1>7 DEF NewBlocks, storeVars
    <2>2. k = Len(chain)
        <3>1. reorgs \in Nat
            BY SMTT(30), <1>0 DEF LaneInv, TypeOK
        <3> QED  BY <1>7, <3>1 DEF NewBlocks
    <2>3. /\ k < Len(chain') /\ BodyGrows /\ \A i \in 1..k : chain'[i] = chain[i]
        BY SMTT(30), <1>7 DEF NewBlocks, Grows
    <2>4. \A b \in BlockId : b \in DOMAIN body' /\ body'[b] = body[b]
        BY <1>1, <2>3 DEF BodyGrows, BlockId
    <2>5. LaneInv'
        BY <1>0 DEF QuietInv
    <2>6. Len(chain') \in Nat /\ DOMAIN chain' = 1..Len(chain')
        BY <2>5 DEF LaneInv, TypeOK
    <2>7. /\ Len(chain) <= Len(chain')
          /\ \A i \in 1..Len(chain) :
                chain'[i] = chain[i] /\ body'[chain[i]] = body[chain[i]]
        BY SMTT(30), <1>1, <2>2, <2>3, <2>4, <2>6
    <2>8. LandedIsSpent' /\ NoncesDiffer' /\ ReadsHold' /\ ForeignIsReal'
        BY <1>1, <2>1, <2>4, <2>6, <2>7, GrowthOutcome
    <2> QED  BY Zenon, <1>0, <2>8 DEF OutcomeInv
<1> QED  BY Zenon, <1>0, <1>3, <1>4, <1>5, <1>6, <1>7, StepShape

\* The empty lane.
LEMMA OutcomeInit == Init => OutcomeInv
<1> SUFFICES ASSUME Init PROVE OutcomeInv
    OBVIOUS
<1>1. /\ state = [r \in Row |-> "Absent"] /\ pc = "idle" /\ paused = "no"
      /\ blocks = <<1>> /\ chain = <<1>>
    BY DEF Init, StoreInit
<1>2. QuietInv
    BY <1>1, LaneInit DEF QuietInv, StoredPrefix, OneUnresolved, IsUnresolved
<1>3. LandedIsSpent /\ NoncesDiffer
    BY <1>1 DEF LandedIsSpent, NoncesDiffer, Landed, Unsigned
<1>4. ReadsHold /\ ForeignIsReal
    BY <1>1 DEF ReadsHold, ForeignIsReal
<1> QED  BY <1>2, <1>3, <1>4, NonceInit DEF OutcomeInv

\* A signed row that no longer owns the lane rests on a receipt, and so on a
\* mined transaction of its nonce.
LEMMA OutcomeFrees ==
    ASSUME OutcomeInv
    PROVE  FreedMeansSpent
<1>0. LaneInv /\ UnsignedHasNoBytes /\ LandedIsSpent
    BY DEF OutcomeInv, QuietInv, NonceInv
<1>1. ASSUME NEW r \in Row, kinds[r] # <<>>, ~IsUnresolved(state[r])
      PROVE  \E b \in Range(chain) : body[b].tx # NoTx /\ body[b].nonce = nonce[r]
    <2>1. state[r] \in TransactionState \cup {"Absent"} /\ state[r] \notin Unsigned
        BY <1>0, <1>1 DEF LaneInv, StoreInv, StoreTypeOK, UnsignedHasNoBytes
    <2>2. state[r] \in Landed
        BY <1>1, <2>1 DEF TransactionState, Unsigned, IsUnresolved, Landed
    <2>3. PICK i \in DOMAIN chain : body[chain[i]].tx # NoTx /\ body[chain[i]].nonce = nonce[r]
        BY <1>0, <2>2 DEF LandedIsSpent, SpentOn
    <2>4. chain[i] \in Range(chain)
        BY DEF Range
    <2> QED  BY SMTT(30), <2>3, <2>4
<1> QED  BY <1>1 DEF FreedMeansSpent

\* A row that holds signed bytes gives the lane free only when a transaction at
\* its nonce is on the chain, so nothing it signed can still be mined: for any
\* rows, replacements, cancellations, crashes, lost sends and foreign
\* transactions, while the chain does not reorganise.
THEOREM LaneFreedWhenSpent ==
    ASSUME MaxReorgs = 0
    PROVE  Spec => []FreedMeansSpent
<1>1. OutcomeInv /\ [Next]_vars => OutcomeInv'
    BY OutcomeStep
<1> QED  BY <1>1, OutcomeInit, OutcomeFrees, PTL DEF Spec

\* classify_consumed_nonce and hold_foreign blame a transaction from outside the
\* bot only when one was mined, whatever is resent, replaced, cancelled or
\* evicted, while the chain does not reorganise.
THEOREM ForeignBlameIsReal ==
    ASSUME MaxReorgs = 0
    PROVE  Spec => []ForeignIsReal
<1>1. OutcomeInv /\ [Next]_vars => OutcomeInv'
    BY OutcomeStep
<1>2. OutcomeInv => ForeignIsReal
    BY DEF OutcomeInv
<1> QED  BY <1>1, <1>2, OutcomeInit, PTL DEF Spec
=============================================================================
