---------------------------- MODULE RateEpisode ----------------------------
(***************************************************************************)
(* The rate-signal episode of planner/episodes.rs and the four services    *)
(* that write it: the planner observes, confirms, unlocks and completes it *)
(* (planning_service.rs), the state owner adds independent events          *)
(* (state_service.rs), execution reserves and resolves its movement, and   *)
(* the chain worker's rewind reopens or drops it (storage/actor.rs).       *)
(*                                                                         *)
(* The planner and the state owner load an episode, change the copy and    *)
(* persist the whole copy; the other two change it inside one storage      *)
(* command.  Time is the block number; movements are small units.          *)
(***************************************************************************)
EXTENDS Integers, SequencesExt, FiniteSetsExt

CONSTANTS MaxHead,       \* highest block
          MaxRewinds,    \* rewinds of the stored chain
          MaxTxs,        \* rate movements reserved
          Movements,     \* desired movements of a signal
          Opportunities, \* confirmation_opportunities
          Lifetime,      \* maximum_rate_episode_duration
          PersistAfter,  \* persistent_confirmation_duration
          MinEvents,     \* minimum_independent_rate_events
          Overlap        \* the commands that may run between a load and its persist

ASSUME EpisodeAssumption ==
    /\ {MaxHead, MaxRewinds, MaxTxs, Opportunities, Lifetime, PersistAfter, MinEvents} \subseteq Nat
    /\ Lifetime > 0
    /\ Movements \subseteq Nat \ {0}
    /\ Overlap \subseteq {"reserve", "rewind", "event"}

VARIABLES chain,    \* the stored chain: the fork of each block
          signal,   \* what the state at its head says
          rewinds,
          episodes, \* rate_episodes, by detection block number
          txs,      \* the rate movement reservations with their row's inclusion
          plan,     \* the published rate plan
          planner,  \* the planner's pass
          owner     \* the state owner's pass

vars == <<chain, signal, rewinds, episodes, txs, plan, planner, owner>>

Nil == [nil |-> TRUE]
Block(n) == <<n, chain[n]>>
HeadBlock == Block(Len(chain))
OnChain(b) == b[1] <= Len(chain) /\ Block(b[1]) = b
\* A head as the planner sees it, with its parent.
Observation == [block |-> HeadBlock, parent |-> Block(Len(chain) - 1),
                signal |-> signal]

\* What the state at a block says of the frozen direction: the spread exceeds
\* the entry, or only the convergence threshold; neither, or another direction,
\* topology or configuration; or a plan of a higher priority comes first.
Signals == {"entry", "hold", "other", "higher"}

Idle == [pc |-> "idle"]

Init ==
    /\ chain = <<0, 0>> /\ signal = "other" /\ rewinds = 0
    /\ episodes = [n \in 1 .. MaxHead |-> Nil]
    /\ txs = <<>> /\ plan = Nil
    /\ planner = Idle /\ owner = Idle

-----------------------------------------------------------------------------
(* RateSignalEpisode. *)

\* start: the identity of an episode is its detection block number.
Start(head) ==
    [state |-> "Detecting", detection |-> head, confirmation |-> Nil, last |-> head,
     baseline |-> 0, confirmed |-> 0, pending |-> 0, events |-> <<>>]

Complete(e) == [e EXCEPT !.state = "Complete"]

ConfirmShort(e, head, desired) ==
    [e EXCEPT !.state = "Immediate", !.confirmation = head, !.last = head,
              !.baseline = desired]

\* The block span covered by exact observations.
Observations(e, n) == n - e.detection[1] + 1

\* observe_short_confirmation: Nil for NonConsecutiveObservation.
ObserveShortConfirmation(e, seen, desired) ==
    LET head == seen.block
        required == Max({Opportunities, 1})
    IN  IF Observations(e, e.last[1]) >= required THEN ConfirmShort(e, head, desired)
        ELSE IF head = e.last THEN e
        ELSE IF head[1] <= e.last[1] \/ (head[1] = e.last[1] + 1 /\ seen.parent # e.last)
        THEN Nil
        ELSE IF Observations(e, head[1]) >= required THEN ConfirmShort(e, head, desired)
        ELSE [e EXCEPT !.last = head]

\* available_budget: the immediate and the persistent ceiling are the baseline.
Ceiling(e) == IF e.state \in {"Immediate", "Persistent"} THEN e.baseline ELSE 0
Available(e) == Ceiling(e) - e.confirmed - e.pending

ReservePending(e, m) == [e EXCEPT !.pending = @ + m]
ReleasePending(e, m) == [e EXCEPT !.pending = @ - m]
\* Bug: the reservation is not taken out of pending.
ConfirmKeepsPending(e, m) == [e EXCEPT !.confirmed = @ + m]
ConfirmPending(e, m) == [e EXCEPT !.pending = @ - m, !.confirmed = @ + m]

\* Bug: the orphaned movement is forgotten.
ReopenDropped(e, m, before) ==
    [e EXCEPT !.confirmed = @ - m, !.state = "Immediate"]

\* reopen_confirmed: back to pending, in the tranche that authorised it.
ReopenConfirmed(e, m, before) ==
    [e EXCEPT !.confirmed = @ - m, !.pending = @ + m,
              !.state = IF before <= e.baseline - (e.confirmed - m)
                        THEN "Immediate" ELSE "Persistent"]

IndependentReady(e) == Len(e.events) >= MinEvents

RewindEvents(e, a) == [e EXCEPT !.events = SelectSeq(@, LAMBDA b : b[1] <= a)]

-----------------------------------------------------------------------------
(* Storage commands. *)

Active == {n \in DOMAIN episodes : episodes[n] # Nil /\ episodes[n].state # "Complete"}
Pending == {i \in DOMAIN txs : txs[i].state = "Pending"}
LaneFree == Pending = {}

\* persist_episode refuses a second active episode and replaces the whole row.
PersistOk(e) == e.state = "Complete" \/ Active \subseteq {e.detection[1]}
PersistEpisode(e) == episodes' = [episodes EXCEPT ![e.detection[1]] = e]

-----------------------------------------------------------------------------
(* The planner: refresh_rate_plan and terminate_rate_episode. *)

SignalMatches(e, s) == s = "entry" \/ (s = "hold" /\ e.state # "Detecting")
\* Bug: an episode never expires.
NeverExpires(e, seen) == ~SignalMatches(e, seen.signal)
Incompatible(e, seen) ==
    \/ seen.block[1] >= e.detection[1] + Lifetime
    \/ ~SignalMatches(e, seen.signal)

Persist(j, e, then) == [j EXCEPT !.pc = "persist", !.copy = e, !.then = then]

\* unlock_persistent, by time or by independent events.
Unlock(j) ==
    LET e == j.copy
    IN  IF e.state = "Detecting" THEN Idle
        ELSE IF /\ e.state = "Immediate"
                /\ \/ j.seen.block[1] >= e.confirmation[1] + PersistAfter
                   \/ IndependentReady(e)
                /\ SignalMatches(e, j.seen.signal)
        THEN Persist(j, [e EXCEPT !.state = "Persistent"], "plan")
        ELSE [j EXCEPT !.pc = "plan"]

Observe(j) ==
    IF j.copy.state # "Detecting" THEN Unlock(j)
    ELSE LET e == ObserveShortConfirmation(j.copy, j.seen, j.desired)
         IN  IF e = Nil THEN Persist(j, Complete(j.copy), "idle")
             ELSE Persist(j, e, "unlock")

\* A new episode at the head of this pass.
Enter(j) ==
    IF j.seen.signal = "entry" THEN Persist(j, Start(j.seen.block), "observe") ELSE Idle

Judge(j) ==
    IF j.copy = Nil THEN Enter(j)
    ELSE IF Incompatible(j.copy, j.seen)
    THEN Persist(j, Complete(j.copy), "enter")
    ELSE Observe(j)

After(j) ==
    CASE j.then = "idle" -> Idle
      [] j.then = "enter" -> Enter(j)
      [] j.then = "observe" -> Observe(j)
      [] j.then = "unlock" -> Unlock(j)
      [] j.then = "plan" -> [j EXCEPT !.pc = "plan"]

\* process_revision: nothing is planned while a transaction is unresolved.
PlanStart ==
    /\ planner.pc = "idle"
    /\ LaneFree
    /\ planner' = [pc |-> "load", seen |-> Observation]
    /\ UNCHANGED <<chain, signal, rewinds, episodes, txs, plan, owner>>

Loaded == IF Active = {} THEN Nil ELSE episodes[CHOOSE n \in Active : TRUE]

\* Two active episodes end the coordinator, which starts again.
PlanLoad ==
    /\ planner.pc = "load"
    /\ "event" \in Overlap \/ owner.pc = "idle"
    /\ planner.seen.signal # "higher"
    /\ \E d \in Movements :
        planner' = IF Cardinality(Active) > 1 THEN Idle
                   ELSE Judge([pc |-> "judge", seen |-> planner.seen,
                               desired |-> d, copy |-> Loaded, then |-> "idle"])
    /\ UNCHANGED <<chain, signal, rewinds, episodes, txs, plan, owner>>

\* A higher-priority plan ends the episode.
TerminateRateEpisode ==
    /\ planner.pc = "load"
    /\ "event" \in Overlap \/ owner.pc = "idle"
    /\ planner.seen.signal = "higher"
    /\ planner' = IF Cardinality(Active) # 1 THEN Idle
                  ELSE [pc |-> "persist", copy |-> Complete(Loaded), then |-> "idle"]
    /\ UNCHANGED <<chain, signal, rewinds, episodes, txs, plan, owner>>

PlanPersist ==
    /\ planner.pc = "persist"
    /\ IF PersistOk(planner.copy)
       THEN /\ PersistEpisode(planner.copy)
            /\ planner' = After(planner)
       ELSE planner' = Idle /\ UNCHANGED episodes
    /\ UNCHANGED <<chain, signal, rewinds, txs, plan, owner>>

\* The solver's movement is within the copy's budget.
PublishPlan ==
    /\ planner.pc = "plan"
    /\ planner' = Idle
    /\ IF Available(planner.copy) > 0
       THEN \E m \in 1 .. Available(planner.copy) :
                plan' = [episode |-> planner.copy.detection[1], movement |-> m]
       ELSE plan' = Nil
    /\ UNCHANGED <<chain, signal, rewinds, episodes, txs, owner>>

-----------------------------------------------------------------------------
(* The state owner: record_independent_rate_event. *)

OwnerLoad ==
    /\ owner.pc = "idle"
    /\ "event" \in Overlap \/ planner.pc \in {"idle", "load"}
    /\ Cardinality(Active) = 1
    /\ Loaded.state = "Immediate"
    /\ HeadBlock[1] > Loaded.confirmation[1]
    /\ ~Contains(Loaded.events, HeadBlock)
    /\ owner' = [pc |-> "persist", copy |-> [Loaded EXCEPT !.events = Append(@, HeadBlock)]]
    /\ UNCHANGED <<chain, signal, rewinds, episodes, txs, plan, planner>>

OwnerPersist ==
    /\ owner.pc = "persist"
    /\ IF PersistOk(owner.copy) THEN PersistEpisode(owner.copy) ELSE UNCHANGED episodes
    /\ owner' = Idle
    /\ UNCHANGED <<chain, signal, rewinds, txs, plan, planner>>

-----------------------------------------------------------------------------
(* Execution. *)

\* No copy is waiting to be persisted.
NoCopy == planner.pc \in {"idle", "load"} /\ owner.pc = "idle"
Free(command) == command \in Overlap \/ NoCopy
BetweenPasses == planner.pc = "idle" /\ owner.pc = "idle"

\* reserve_rate_movement_and_nonce, after a preflight that started with a free
\* lane; refused when the stored budget is too small.
Reserve ==
    /\ Free("reserve")
    /\ plan # Nil /\ LaneFree
    /\ Len(txs) < MaxTxs
    /\ LET e == episodes[plan.episode]
       IN  /\ e # Nil
           /\ plan.movement <= Available(e)
           /\ episodes' = [episodes EXCEPT ![plan.episode] = ReservePending(e, plan.movement)]
           /\ txs' = Append(txs, [episode |-> plan.episode, movement |-> plan.movement,
                                  before |-> Available(e), state |-> "Pending", block |-> 0,
                                  start |-> e.detection])
    /\ plan' = Nil
    /\ UNCHANGED <<chain, signal, rewinds, planner, owner>>

\* The movement is not executed: abort, revert or cancellation.
ReleaseMovement ==
    /\ Free("reserve")
    /\ \E i \in Pending :
        LET e == episodes[txs[i].episode]
        IN  /\ e # Nil /\ e.pending >= txs[i].movement
            /\ episodes' = [episodes EXCEPT ![txs[i].episode] = ReleasePending(e, txs[i].movement)]
            /\ txs' = [txs EXCEPT ![i].state = "Released"]
    /\ UNCHANGED <<chain, signal, rewinds, plan, planner, owner>>

\* persist_reconciliation: the confirmed movement of an included transaction.
ConfirmMovement ==
    /\ Free("reserve")
    /\ \E i \in Pending :
        LET e == episodes[txs[i].episode]
        IN  /\ e # Nil /\ e.pending >= txs[i].movement
            /\ episodes' = [episodes EXCEPT ![txs[i].episode] = ConfirmPending(e, txs[i].movement)]
            /\ txs' = [txs EXCEPT ![i].state = "Confirmed", ![i].block = Len(chain)]
    /\ UNCHANGED <<chain, signal, rewinds, plan, planner, owner>>

-----------------------------------------------------------------------------
(* The chain. *)

Mine ==
    /\ Len(chain) < MaxHead
    /\ chain' = Append(chain, rewinds)
    /\ signal' \in Signals
    /\ UNCHANGED <<rewinds, episodes, txs, plan, planner, owner>>

\* rewind: orphaned confirmed movements become pending again, then episodes
\* observed above the ancestor end, and those without a pending movement go.
\* The replay brings at least one block of the new branch.
Orphaned(a) == {i \in DOMAIN txs : txs[i].state = "Confirmed" /\ txs[i].block > a}
\* reserve keeps one pending movement per episode; two orphaned ones both return.
ReopenEach(e, n, a) ==
    FoldLeft(LAMBDA x, i : IF i \in Orphaned(a) /\ txs[i].episode = n
                           THEN ReopenConfirmed(x, txs[i].movement, txs[i].before) ELSE x,
             e, [i \in 1 .. Len(txs) |-> i])
\* Bug: the detection block is not looked at.
ConfirmedAbove(e, a) == e.confirmation # Nil /\ e.confirmation[1] > a
Above(e, a) == e.detection[1] > a \/ (e.confirmation # Nil /\ e.confirmation[1] > a)
EndAbove(e, a) == IF Above(e, a) THEN Complete(e) ELSE e
Kept(n, e, a) ==
    \/ \E i \in DOMAIN txs : txs[i].episode = n /\ (i \in Pending \/ i \in Orphaned(a))
    \/ ~Above(e, a)

RewoundEpisode(n, a) ==
    LET e == EndAbove(RewindEvents(ReopenEach(episodes[n], n, a), a), a)
    IN  IF episodes[n] # Nil /\ Kept(n, e, a) THEN e ELSE Nil

\* checked_sub refuses a rewind that returns more than was confirmed.
RewindOk(a) ==
    \A n \in DOMAIN episodes : episodes[n] # Nil => ReopenEach(episodes[n], n, a).confirmed >= 0

Rewind ==
    /\ rewinds < MaxRewinds
    /\ "rewind" \in Overlap \/ BetweenPasses
    /\ \E a \in 2 .. Len(chain) - 1 :
        /\ RewindOk(a)
        /\ chain' = Append(SubSeq(chain, 1, a), rewinds + 1)
        /\ episodes' = [n \in DOMAIN episodes |->
                          IF episodes[n] = Nil THEN Nil ELSE RewoundEpisode(n, a)]
        /\ txs' = [i \in DOMAIN txs |-> IF i \in Orphaned(a)
                     THEN [txs[i] EXCEPT !.state = "Pending", !.block = 0] ELSE txs[i]]
    /\ rewinds' = rewinds + 1
    /\ signal' \in Signals
    /\ plan' = Nil
    /\ UNCHANGED <<planner, owner>>

Planner == PlanStart \/ PlanLoad \/ TerminateRateEpisode \/ PlanPersist \/ PublishPlan
Owner == OwnerLoad \/ OwnerPersist
Execution == Reserve \/ ReleaseMovement \/ ConfirmMovement

Next == Planner \/ Owner \/ Execution \/ Mine \/ Rewind

Spec == Init /\ [][Next]_vars

\* The planner and the owner are supervised loops, a pending transaction is
\* resolved by the execution loop, and the chain grows.
Fairness ==
    /\ WF_vars(Planner) /\ WF_vars(Owner)
    /\ WF_vars(ReleaseMovement \/ ConfirmMovement)
    /\ WF_vars(Mine)

FairSpec == Spec /\ Fairness

-----------------------------------------------------------------------------
(* Properties. *)

\* The movement of an episode's transactions in a state.  Another branch may
\* start an episode under the same number; it has its own transactions.
Sum(n, s) == FoldSet(LAMBDA i, t : t + txs[i].movement, 0,
                     {i \in DOMAIN txs : /\ txs[i].episode = n
                                        /\ txs[i].start = episodes[n].detection
                                        /\ txs[i].state = s})

\* The movement an episode holds is the movement of its transactions: nothing
\* reserved is forgotten, nothing executed is counted twice, and together they
\* stay within the budget frozen at the confirmation, whatever was reopened
\* (reserve_pending, release_pending, confirm_pending, reopen_confirmed,
\* available_budget).
MovementAccounted ==
    \A n \in DOMAIN episodes : episodes[n] # Nil =>
        /\ episodes[n].pending = Sum(n, "Pending")
        /\ episodes[n].confirmed = Sum(n, "Confirmed")
        /\ episodes[n].pending + episodes[n].confirmed <= episodes[n].baseline

\* A vault has at most one active episode, so load_active_rate_episode never
\* fails, and it was detected and confirmed on the stored chain (rewind).
ActiveIsCanonical ==
    /\ Cardinality(Active) <= 1
    /\ \A n \in Active :
          LET e == episodes[n]
          IN  OnChain(e.detection) /\ (e.confirmation = Nil \/ OnChain(e.confirmation))

\* Completion never rearms a budget: only a rewind that returns a movement
\* makes a complete episode active again (complete).  An episode is numbered by
\* its detection block, so another branch may start one in its place.
CompleteIsFinal ==
    [][\A n \in DOMAIN episodes :
         /\ episodes[n] # Nil /\ episodes[n].state = "Complete"
         /\ episodes'[n] # Nil /\ episodes'[n].state # "Complete"
         /\ episodes'[n].detection = episodes[n].detection
         => rewinds' > rewinds /\ episodes'[n].pending > episodes[n].pending]_vars

\* An episode ends once its lifetime has passed, although passes are skipped
\* while its movement is pending and rewinds return movements
\* (refresh_rate_plan).
EpisodeEnds ==
    \A n \in 1 .. MaxHead - Lifetime : n \in Active ~> n \notin Active

=============================================================================
