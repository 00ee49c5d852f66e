---------------------------- MODULE TxLifecycle ----------------------------
(***************************************************************************)
(* The durable transaction lifecycle of src/storage/models.rs: the states  *)
(* of one nonce reservation, which of them own the signer's nonce lane,    *)
(* and the transitions the storage actor accepts.                          *)
(***************************************************************************)

\* The variants of the enum TransactionState.
TransactionState ==
    {"NonceReserved", "AbortedBeforeSigning", "Signed", "Submitted",
     "Replaced", "ReplacementSigned", "CancellationSigned",
     "CancellationSubmitted", "Included", "Confirmed",
     "ConformanceValidated", "ReconciliationPending", "Reconciled",
     "Reverted", "Orphaned", "Cancelled", "Failed", "ForeignNonceConsumed"}

\* TransactionAttemptKind: the three kinds of signed bytes of one nonce.
AttemptKind == {"Initial", "Replacement", "Cancellation"}

\* Faulty variant of IsUnresolved: a foreign spender frees the lane.
LaneWithoutForeign(s) ==
    s \in {"NonceReserved", "Signed", "Submitted", "Replaced",
           "ReplacementSigned", "CancellationSigned",
           "CancellationSubmitted", "Included", "Confirmed", "Orphaned",
           "ConformanceValidated"}

\* TransactionState::is_unresolved: the row owns the signer's nonce lane.
IsUnresolved(s) ==
    s \in {"NonceReserved", "Signed", "Submitted", "Replaced",
           "ReplacementSigned", "CancellationSigned",
           "CancellationSubmitted", "Included", "Confirmed", "Orphaned",
           "ConformanceValidated", "ForeignNonceConsumed"}

\* TransactionState::requires_reconciliation.
RequiresReconciliation(s) ==
    s \in {"ConformanceValidated", "ReconciliationPending"}

\* TransactionState::permits.
Permits(s, next) ==
    \/ s = "NonceReserved"
       /\ next \in {"AbortedBeforeSigning", "Signed", "Failed"}
    \/ s = "Signed"
       /\ next \in {"Submitted", "CancellationSigned", "CancellationSubmitted",
                    "ForeignNonceConsumed", "Failed"}
    \/ s = "Submitted"
       /\ next \in {"ReplacementSigned", "CancellationSigned", "Replaced",
                    "CancellationSubmitted", "Included", "Reverted",
                    "ForeignNonceConsumed", "Failed"}
    \/ s = "Replaced"
       /\ next \in {"ReplacementSigned", "CancellationSigned", "Replaced",
                    "CancellationSubmitted", "Included", "Reverted",
                    "Orphaned", "ForeignNonceConsumed", "Failed"}
    \/ s = "CancellationSubmitted"
       /\ next \in {"Included", "Reverted", "ForeignNonceConsumed", "Failed",
                    "Cancelled"}
    \/ s = "ReplacementSigned" /\ next \in {"Replaced", "Failed"}
    \/ s = "CancellationSigned" /\ next \in {"CancellationSubmitted", "Failed"}
    \/ s = "Included"
       /\ next \in {"Confirmed", "Reverted", "Orphaned", "Failed"}
    \/ s = "Confirmed" /\ next \in {"ConformanceValidated", "Failed"}
    \/ s = "Orphaned"
       /\ next \in {"Submitted", "CancellationSigned", "CancellationSubmitted",
                    "Included", "Reverted", "ForeignNonceConsumed", "Failed"}
    \/ RequiresReconciliation(s) /\ next \in {"Reconciled", "Failed"}

\* transition_transaction, the generic command, refuses the two states that
\* need an evidence record committed with them.
AllowsTransition(s, next) ==
    /\ next \notin {"ConformanceValidated", "Reconciled"}
    /\ Permits(s, next)

\* The targets for which transition_transaction releases a pending rate
\* movement.
ReleasesMovement(next) ==
    next \in {"AbortedBeforeSigning", "Reverted", "Cancelled", "Failed"}

\* Faulty variant of Reopenable: a row with a conformance record is not
\* reopened.
ReopenableExceptValidated ==
    {"Included", "Confirmed", "Reverted", "Cancelled",
     "ForeignNonceConsumed", "Failed"}

\* The states a canonical rewind reopens as Orphaned.
Reopenable ==
    {"Included", "Confirmed", "Reverted", "Cancelled",
     "ForeignNonceConsumed", "ConformanceValidated",
     "ReconciliationPending", "Reconciled", "Failed"}
=============================================================================
