---------------------------- MODULE ChainIngest ----------------------------
(***************************************************************************)
(* The canonical chain worker of chain/heads.rs: it polls the provider's   *)
(* head, persists every block it skipped, rewinds the store to the common  *)
(* ancestor when its cursor is orphaned, and tells the state owner through *)
(* a bounded update channel and a replaceable head hint.                   *)
(*                                                                         *)
(* A block is its own history, the sequence of <<fork, event>> entries up  *)
(* to it: its number is its length, its parent its front, and an ancestor  *)
(* is a prefix.  `event' says whether the block holds a watched log of the *)
(* vault.  Every await between two storage commands, sends or provider     *)
(* reads is a step of its own.                                             *)
(***************************************************************************)
EXTENDS Integers, SequencesExt, FiniteSetsExt

CONSTANTS MaxHead,      \* highest block the provider reaches
          MaxTroubles,  \* reorganisations and failed polls
          Depth,        \* blocks a reorganisation removes at most
          MaxEvents,    \* blocks that hold a watched log
          Rescan,       \* reorg_rescan_blocks
          MaxPublished, \* MAX_PUBLISHED_CATCH_UP_BLOCKS
          LatestOnly,   \* the latest_only option
          QueueCap,     \* CHAIN_TO_STATE_CAPACITY
          MayTimeOut    \* the updates whose send may wait ten seconds

ASSUME IngestAssumption ==
    /\ {MaxHead, MaxTroubles, Depth, MaxEvents, Rescan, MaxPublished} \subseteq Nat
    /\ QueueCap \in Nat \ {0}
    /\ LatestOnly \in BOOLEAN
    /\ MayTimeOut \subseteq {"block", "reorg", "degraded"}

VARIABLES chain,          \* the provider's canonical head
          forks, faults,  \* reorganisations and failed polls so far
          store, cursor,  \* canonical_blocks and the chain cursor
          snapshots,      \* the exact snapshots made durable
          poll,           \* the poll in progress
          providerReady,  \* the atomic readiness gate
          updates,        \* the update channel
          hint, hinted    \* the head watch, and whether its receiver has a change

chainVars == <<chain, forks, faults, store, snapshots, cursor, poll, providerReady,
               updates, hint, hinted>>

NoBlock == <<>>

Number(b) == Len(b)
At(b, n) == SubSeq(b, 1, n)
HasEvent(b) == Last(b)[2]
\* The blocks of h's branch above block number n that hold a watched log.
EventsAbove(h, n) == {m \in n + 1 .. Len(h) : h[m][2]}
Events(h) == Cardinality(EventsAbove(h, 0))

StoredAt(n) == {b \in store : Number(b) = n}
\* load_canonical_logs: the stored blocks of the range that hold a watched log.
StoredEvents(from, to) == {Number(b) : b \in {c \in store :
                              Number(c) \in from .. to /\ HasEvent(c)}}

Idle == [pc |-> "idle"]

IngestInit ==
    /\ chain = << <<0, FALSE>> >>
    /\ forks = 0 /\ faults = 0
    /\ store = {} /\ snapshots = {} /\ cursor = NoBlock
    /\ poll = Idle
    /\ providerReady = FALSE
    /\ updates = <<>>
    /\ hint = NoBlock /\ hinted = FALSE

-----------------------------------------------------------------------------
(* The provider. *)

Mine ==
    /\ Number(chain) < MaxHead
    /\ \E e \in BOOLEAN :
        /\ e => Events(chain) < MaxEvents
        /\ chain' = Append(chain, <<forks, e>>)
    /\ UNCHANGED <<forks, faults, store, snapshots, cursor, poll, providerReady, updates, hint, hinted>>

\* The replacement branch is as long as the one it replaces, and may hold the
\* logs in other blocks.
Reorg ==
    /\ forks + faults < MaxTroubles
    /\ Number(chain) < MaxHead
    /\ \E d \in 1 .. Min({Depth, Number(chain) - 1}) : \E e \in [1 .. d -> BOOLEAN] :
        LET branch == At(chain, Number(chain) - d) \o [i \in 1 .. d |-> <<forks + 1, e[i]>>]
        IN  /\ Events(branch) <= MaxEvents
            /\ chain' = branch
    /\ forks' = forks + 1
    /\ UNCHANGED <<faults, store, snapshots, cursor, poll, providerReady, updates, hint, hinted>>

-----------------------------------------------------------------------------
(* Sends to the state owner. *)

Update(k, b) == [kind |-> k, block |-> b]

\* Every error leaves poll_once with the readiness gate closed.  The worker
\* keeps nothing: a retry and a restart both start from the durable cursor.
PollFails ==
    /\ poll' = Idle
    /\ providerReady' = FALSE

\* send_update: room, or ten seconds without room.
Send(m, then) ==
    \/ /\ Len(updates) < QueueCap
       /\ updates' = Append(updates, m)
       /\ poll' = then
       /\ UNCHANGED providerReady
    \/ /\ Len(updates) = QueueCap
       /\ m.kind \in MayTimeOut
       /\ PollFails
       /\ UNCHANGED updates

PublishHead(b) ==
    /\ hint' = b
    /\ hinted' = TRUE

-----------------------------------------------------------------------------
(* One poll. *)

\* The blocks a catch-up persists: all of them, or for a latest-only gap the
\* ones with watched logs and the complete rewind window.
Span(from, latest) == Number(latest) - from + 1
Sparse(from, latest) == LatestOnly /\ Span(from, latest) > MaxPublished
RecentStart(from, latest) == Max({from, Number(latest) - Rescan + 1})
SparseBlocks(from, latest) ==
    EventsAbove(latest, from - 1) \cup RecentStart(from, latest) .. Number(latest)

CatchUp(from, latest, publish, sparse) ==
    IF from > Number(latest) THEN [pc |-> "head", latest |-> latest]
    ELSE [pc |-> "persist", latest |-> latest, from |-> from, publish |-> publish,
          sparse |-> sparse,
          todo |-> IF sparse THEN SparseBlocks(from, latest) ELSE from .. Number(latest)]

\* The header at a height: the head itself is the one already fetched.
HeaderAt(n) == IF n = Number(poll.latest) THEN poll.latest ELSE At(chain, n)

\* find_common_ancestor: the highest stored block within the bound that the
\* provider still has.
Ancestor ==
    LET top == Min({Number(cursor), Number(chain)})
        common == {n \in Max({1, top - Rescan}) .. top : StoredAt(n) = {At(chain, n)}}
    IN  IF common = {} THEN NoBlock ELSE At(chain, Max(common))

CursorCanonical(latest) ==
    \/ cursor = NoBlock
    \/ Number(latest) >= Number(cursor) /\ At(latest, Number(cursor)) = cursor

\* A disagreeing or unreachable checkpoint.
CheckpointFails ==
    /\ poll.pc = "idle"
    /\ forks + faults < MaxTroubles
    /\ faults' = faults + 1
    /\ poll' = [pc |-> "degraded"]
    /\ providerReady' = FALSE
    /\ UNCHANGED <<chain, forks, store, snapshots, cursor, updates, hint, hinted>>

SendDegraded ==
    /\ poll.pc = "degraded"
    /\ Send(Update("degraded", NoBlock), Idle)
    /\ UNCHANGED <<chain, forks, faults, store, snapshots, cursor, hint, hinted>>

PollOnce ==
    /\ poll.pc = "idle"
    /\ CursorCanonical(chain)
    /\ LET from == Number(cursor) + 1
       IN  poll' = CatchUp(from, chain, Span(from, chain) <= MaxPublished,
                           Sparse(from, chain))
    /\ providerReady' = (providerReady /\ cursor = chain)
    /\ UNCHANGED <<chain, forks, faults, store, snapshots, cursor, updates, hint, hinted>>

\* rewind_and_replay: the store forgets every block above the ancestor, then
\* the state owner is told.
RewindAndReplay ==
    /\ poll.pc = "idle"
    /\ ~CursorCanonical(chain)
    /\ LET a == Ancestor
       IN  IF a = NoBlock
           THEN PollFails /\ UNCHANGED <<store, snapshots, cursor>>
           ELSE /\ store' = {b \in store : Number(b) <= Number(a)}
                /\ snapshots' = {b \in snapshots : Number(b) <= Number(a)}
                /\ cursor' = a
                /\ poll' = [pc |-> "reorg", latest |-> chain, block |-> a]
                /\ providerReady' = FALSE
    /\ UNCHANGED <<chain, forks, faults, updates, hint, hinted>>

SendReorg ==
    /\ poll.pc = "reorg"
    /\ Send(Update("reorg", poll.block),
            CatchUp(Number(poll.block) + 1, poll.latest, FALSE, FALSE))
    /\ UNCHANGED <<chain, forks, faults, store, snapshots, cursor, hint, hinted>>

\* A bundle whose header is gone or does not extend the previous one.
Unlinked(n) ==
    \/ n > Number(chain) /\ n # Number(poll.latest)
    \/ /\ ~(poll.sparse /\ n <= RecentStart(poll.from, poll.latest))
       /\ \E p \in StoredAt(n - 1) : p # Front(HeaderAt(n))

\* What follows a persisted bundle; a sparse catch-up reads its head again.
AfterBundle(rest) ==
    IF rest.todo # {} THEN poll' = rest /\ UNCHANGED providerReady
    ELSE IF rest.sparse /\ ~IsPrefix(rest.latest, chain) THEN PollFails
    ELSE poll' = [pc |-> "head", latest |-> rest.latest] /\ UNCHANGED providerReady

PersistBundle ==
    /\ poll.pc = "persist"
    /\ LET n == Min(poll.todo)
           b == HeaderAt(n)
           rest == [poll EXCEPT !.todo = @ \ {n}]
       IN  IF Unlinked(n)
           THEN PollFails /\ UNCHANGED <<store, snapshots, cursor>>
           ELSE /\ store' = {c \in store : Number(c) # n} \cup {b}
                /\ cursor' = b
                /\ UNCHANGED snapshots
                /\ IF poll.publish
                   THEN /\ poll' = [pc |-> "block", block |-> b, next |-> rest]
                        /\ UNCHANGED providerReady
                   ELSE AfterBundle(rest)
    /\ UNCHANGED <<chain, forks, faults, updates, hint, hinted>>

\* A log, receipt or header read fails in the middle of the catch-up.
BundleFails ==
    /\ poll.pc = "persist"
    /\ forks + faults < MaxTroubles
    /\ faults' = faults + 1
    /\ PollFails
    /\ UNCHANGED <<chain, forks, store, snapshots, cursor, updates, hint, hinted>>

SendBlock ==
    /\ poll.pc = "block"
    /\ Send(Update("block", poll.block), [poll EXCEPT !.pc = "hint"])
    /\ UNCHANGED <<chain, forks, faults, store, snapshots, cursor, hint, hinted>>

HintBlock ==
    /\ poll.pc = "hint"
    /\ PublishHead(poll.block)
    /\ AfterBundle(poll.next)
    /\ UNCHANGED <<chain, forks, faults, store, snapshots, cursor, updates>>

\* The final hint of the poll, and the readiness gate that poll_once opens.
HintHead ==
    /\ poll.pc = "head"
    /\ PublishHead(poll.latest)
    /\ providerReady' = TRUE
    /\ poll' = Idle
    /\ UNCHANGED <<chain, forks, faults, store, snapshots, cursor, updates>>

ChainWorker ==
    \/ PollOnce \/ RewindAndReplay \/ SendReorg
    \/ PersistBundle \/ SendBlock \/ HintBlock \/ HintHead \/ SendDegraded

=============================================================================
