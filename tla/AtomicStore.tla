---------------------------- MODULE AtomicStore ----------------------------
(***************************************************************************)
(* What the storage actor promises its callers: one log of mutations, each *)
(* of them atomic.  A crash decides the fate of the mutation in hand, and  *)
(* of nothing else.                                                        *)
(***************************************************************************)
EXTENDS Sequences

CONSTANTS Command, None

VARIABLES
    log,    \* the mutations that have happened, in order
    pend    \* the mutation the actor is working on, or None

vars == <<log, pend>>

Init == log = <<>> /\ pend = None

\* The actor takes the next mutation from its mailbox.
Begin == pend = None /\ pend' \in Command /\ UNCHANGED log

\* The mutation happens; its reply comes later.
Commit == pend # None /\ log' = Append(log, pend) /\ pend' = None

\* The mutation is refused or fails, without a trace.
Abort == pend # None /\ pend' = None /\ UNCHANGED log

\* The process dies and comes back.
Crash == pend # None /\ pend' = None /\ log' \in {log, Append(log, pend)}

Next == Begin \/ Commit \/ Abort \/ Crash

Spec == Init /\ [][Next]_vars
=============================================================================
