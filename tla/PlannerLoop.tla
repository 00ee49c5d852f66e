---------------------------- MODULE PlannerLoop ----------------------------
(* runtime/planning_service.rs and transaction/firewall.rs around the         *)
(* searches: the plan classes in priority order, the firewall on every plan,  *)
(* and a vault that the plans and its users move.                             *)
(*                                                                            *)
(* A refresh returns [kind, reason, acts, st]; kind is "none", "error" or     *)
(* "plan", and "stale" before the refresh of a new state. Snapshots, hashes   *)
(* and revisions are the pipeline's matter; the confirmation of a rate        *)
(* episode is RateEpisode's: here an episode is confirmed, and has opened all *)
(* or half of its budget.                                                     *)
EXTENDS TopK

CONSTANTS
    Scenarios,      \* [cfg, s]: configurations with the state they start from
    MaxMoves,       \* moves of the users, borrowers and interest
    MaxStreak,      \* how many plans may follow one move
    Amounts         \* how much a user or borrower moves

VARIABLES
    cfg,            \* the vault's configuration
    vault,          \* its exact state
    topk,           \* the strategy memory
    plan,           \* what the refresh of this state returned, if it has run
    moves,          \* moves so far
    streak          \* plans executed since the last move

loopVars == <<cfg, vault, topk, plan, moves, streak>>

--------------------------------------------------------------------------
(* The firewall: validate_plan_integrity and validate_actions. *)

ActionAdmitted(c, a) ==
    IF a.p = Wrapped THEN HasWrapped(c) /\ a.x <= c.liqAct
    ELSE /\ a.x <= c.pos[a.p].act
         /\ c.pos[a.p].mode \in IF a.k = "alloc" THEN {"Active"}
                                ELSE {"Active", "SourceOnly", "Disabled"}

FlowAdmitted(reason, acts, in, out, before, after) ==
    /\ in # 0
    /\ reason \in {"rate", "topk"} => out = in /\ after < before
    /\ reason = "capital" =>
           /\ in >= out
           /\ \A i \in DOMAIN acts : acts[i].k = "dealloc" => acts[i].p = Wrapped
    /\ reason = "liquidity" => out = 0 \/ out = in
ReasonAdmitted(reason, acts, before, after) ==
    FlowAdmitted(reason, acts, Allocated(acts), Deallocated(acts), before, after)

Firewall(c, reason, acts, loss, before, after) ==
    /\ acts # <<>> /\ Len(acts) <= c.maxActs
    /\ Grammar(acts)
    /\ \A i \in DOMAIN acts : ActionAdmitted(c, acts[i])
    /\ loss <= c.maxLoss
    /\ ReasonAdmitted(reason, acts, before, after)

--------------------------------------------------------------------------
(* The plan classes. *)

Result(kind, reason, s) == [kind |-> kind, reason |-> reason, acts |-> <<>>, st |-> s]
NoPlan(s) == Result("none", "none", s)
Stale(s) == Result("stale", "stale", s)

\* A solved bundle becomes a plan or an error.
Validated(c, s, reason, r, before, after) ==
    IF Firewall(c, reason, r.acts, r.st.loss, before, after)
    THEN [kind |-> "plan", reason |-> reason, acts |-> r.acts, st |-> r.st]
    ELSE Result("error", reason, s)

Executable(c, r) == r.full /\ r.acts # <<>> /\ Len(r.acts) <= c.maxActs

\* build_validated_non_rate_plan: a bundle that gives up too much terminal
\* value is an error, not the absence of a plan.
BuildNonRate(c, s, reason, r) ==
    IF ~Executable(c, r) THEN NoPlan(s)
    ELSE IF ~KeepsValue(c, s, r.st) THEN Result("error", reason, s)
    ELSE Validated(c, s, reason, r, Spread(s, Included(c)), Spread(r.st, Included(c)))

BuildRate(c, s, ep, r) ==
    IF ~Executable(c, r) THEN NoPlan(s)
    ELSE Validated(c, s, "rate", r, Primary(ep, s), Primary(ep, r.st))

BuildTopKRebalance(c, s, tgt, r) ==
    IF ~Executable(c, r) \/ ~KeepsValue(c, s, r.st) THEN NoPlan(s)
    ELSE Validated(c, s, "topk", r, tgt.score,
                   AllocationScore(CurrentAssets(c, r.st), tgt.want, tgt.direct))

\* The first class that has a plan or an error decides.
OrElse(first, second) == IF first.kind # "none" THEN first ELSE second

\* build_validated_top_k_plan
BuildTopK(c, s, tgt) ==
    OrElse(IF Deployable(c, s) = 0 THEN NoPlan(s)
           ELSE BuildNonRate(c, s, "capital", SolveTopKCapital(c, s, tgt)),
           BuildTopKRebalance(c, s, tgt, SolveTopKRebalance(c, s, tgt)))

\* What the strategy sees of a state: the funding counts as direct assets.
ViewWith(c, s, direct) ==
    [ev |-> Evidence(c, s, direct), assets |-> CurrentAssets(c, s), direct |-> direct]
ViewOf(c, s) == ViewWith(c, s, DirectAssets(c, s) + Deployable(c, s))

RefreshTopK(c, s, tgt) == IF tgt = NoTarget THEN NoPlan(s) ELSE BuildTopK(c, s, tgt)

\* The episode that a signal would start.
Episode(sig, half) ==
    [src |-> sig.src, dst |-> sig.dst, eval |-> sig.eval, ctl |-> sig.ctl,
     left |-> sig.want, open |-> IF half THEN sig.want \div 2 ELSE sig.want]

\* A mutant: an episode starts below its entry threshold.
RateAtAnySpread(c, s, ep) ==
    IF ep.left < c.minAct THEN NoPlan(s) ELSE BuildRate(c, s, ep, SolveRate(c, s, ep))

\* refresh_rate_plan of an episode that this state would start and confirm.
RefreshEpisode(c, s, ep) ==
    IF ep.left < c.minAct \/ Primary(ep, s) <= c.entry THEN NoPlan(s)
    ELSE BuildRate(c, s, ep, SolveRate(c, s, ep))
RefreshRate(c, s, half) == RefreshEpisode(c, s, Episode(RateSignal(c, s, FALSE), half))

\* refresh_priority_plan
Refresh(c, s, tgt, half) ==
    OrElse(BuildNonRate(c, s, "liquidity", SolveLiquidity(c, s)),
           IF c.diversified THEN RefreshTopK(c, s, tgt)
           ELSE OrElse(BuildNonRate(c, s, "capital", SolveCapital(c, s)), RefreshRate(c, s, half)))

Planned(v, obs, half) ==
    /\ topk' = IF cfg.diversified THEN obs.mem ELSE topk
    /\ plan' = Refresh(cfg, vault, Target(cfg, v, obs), half)
    /\ UNCHANGED <<cfg, vault, moves, streak>>

\* Every new exact state is in the next block, and is planned before it changes.
Observing(v, half) == Planned(v, Observe(cfg, v, topk, topk.blk + 1, topk.blk + 1), half)
Replan == plan.kind = "stale" /\ \E half \in BOOLEAN : Observing(ViewOf(cfg, vault), half)

--------------------------------------------------------------------------
(* The vault between two refreshes. The contracts are external. *)

\* The bundle is executed; the parent records its total.
Settled(c, st) == [st EXCEPT !.stored = ParentTotal(c, st), !.first = NoTotal, !.loss = 0]

NewState(s) == vault' = s /\ plan' = Stale(s) /\ UNCHANGED <<cfg, topk>>

Execute ==
    /\ plan.kind = "plan" /\ streak <= MaxStreak
    /\ NewState(Settled(cfg, plan.st))
    /\ streak' = streak + 1
    /\ UNCHANGED moves

Moves(s) == /\ plan.kind # "stale" /\ moves < MaxMoves
            /\ moves' = moves + 1
            /\ streak' = 0
            /\ NewState(s)

Deposit(x) ==
    Moves([vault EXCEPT !.idle = @ + x, !.stored = ParentTotal(cfg, vault) + x,
                        !.supply = @ + MulDivDown(x, vault.supply + VirtualShares,
                                                  ParentTotal(cfg, vault) + 1)])

\* A withdrawal takes the idle assets first, then the liquidity path; what it
\* takes of a lock is gone.
Paid(x, paid) ==
    /\ paid.ok
    /\ Moves([Settled(cfg, paid) EXCEPT
                 !.idle = @ - x, !.locked = Least(@, paid.idle - x), !.stored = @ - x,
                 !.supply = @ - MulDivUp(x, @ + VirtualShares, ParentTotal(cfg, vault) + 1)])

Withdraw(x) ==
    IF x <= vault.idle THEN Paid(x, Start(vault))
    ELSE /\ cfg.path # NoPath
         /\ Paid(x, SimulateDeallocation(cfg, Start(vault), cfg.path, x - vault.idle))

\* A forced deallocation leaves its assets locked for the user who forced it.
ForceDeallocate(p, x) ==
    /\ CanWithdraw(vault.mk[p], vault.sh[p], x, vault.tok)
    /\ Moves([Left(cfg, vault, p, x) EXCEPT !.tok = @ - x, !.idle = @ + x, !.locked = @ + x])

Borrow(p, x) ==
    /\ x <= Liquidity(vault.mk[p]) /\ x <= vault.tok
    /\ Moves([vault EXCEPT !.mk[p].b = @ + x, !.tok = @ - x])

Repay(p, x) ==
    /\ x <= vault.mk[p].b
    /\ Moves([vault EXCEPT !.mk[p].b = @ - x, !.tok = @ + x])

\* Interest on every market, one unit at least.
Accrue ==
    Moves([vault EXCEPT !.mk = [p \in Positions(cfg) |->
               Grown(@[p], IF @[p].b = 0 THEN 0 ELSE 1 + HorizonInterest(cfg, @[p]))]])

LoopInit ==
    \E sc \in Scenarios :
        /\ cfg = sc.cfg /\ vault = sc.s /\ moves = 0 /\ streak = 0
        /\ topk = FreshMemory /\ plan = Stale(sc.s)

LoopNext ==
    \/ Replan
    \/ Execute
    \/ Accrue
    \/ \E x \in Amounts : Deposit(x) \/ Withdraw(x)
    \/ \E x \in Amounts, p \in Positions(cfg) : ForceDeallocate(p, x) \/ Borrow(p, x) \/ Repay(p, x)
--------------------------------------------------------------------------
(* Properties. *)

HasPlan == plan.kind = "plan"

\* The books of the vault balance: no executed plan spent idle that is locked
\* for a user (simulate_allocation); what a plan leaves the vault differs by the
\* reported losses only, through every rounding of shares to assets and back;
\* and a shared cap records the sum of its markets after any mix of plans and
\* forced exits (apply_delta).
BooksBalance ==
    /\ vault.locked <= vault.idle
    /\ HasPlan => Real(cfg, plan.st) \in (Real(cfg, vault) - plan.st.loss) .. Real(cfg, vault)
    /\ \A id \in DOMAIN cfg.cap \ (Positions(cfg) \cup {Wrapped}) :
          vault.cap[id] = MapThenSumSet(LAMBDA p : vault.cap[p],
                                        {p \in Positions(cfg) : id \in CapsOf(cfg, p)})

\* No deposit above the headroom that monotone_maximum reports would pass, and
\* the lattices, cap bounds and early stop of solve_capital_deployment lose no
\* larger deployment into one or two markets.
CapitalIsMaximal ==
  /\ plan.kind # "stale" /\ cfg.path # NoPath =>
        \A x \in (MaximumDeposit(cfg, vault) + 1) .. cfg.upper :
            ~PathAdmits(cfg, vault, ParentTotal(cfg, vault), x)
  /\ ~cfg.diversified /\ plan.reason \in {"capital", "rate", "none"} =>
        \A p, q \in {p \in Positions(cfg) : cfg.pos[p].mode = "Active"} :
            \A x \in {0} \cup (cfg.minAct .. cfg.pos[p].act),
               y \in {0} \cup (cfg.minAct .. cfg.pos[q].act) :
                p < q /\ x + y \in (IF plan.reason = "capital" THEN Allocated(plan.acts) + 1
                                   ELSE cfg.minAct) .. Deployable(cfg, vault) =>
                    ~Acceptable(cfg, vault,
                         Simulate(cfg, vault,
                             CapitalActions(cfg, vault, <<p, q>>, x + y, <<x, y>>)))

\* solve_liquidity_maintenance: no smaller movement would restore the floors.
Restores(st) == st.ok /\ LossBounded(cfg, st) /\ Served(cfg, vault, st)

LiquidityIsMinimal ==
    HasPlan /\ plan.reason = "liquidity" =>
        \A p, q \in Positions(cfg) \cup {Wrapped, IdleSource} :
            \A x \in cfg.minAct .. (Allocated(plan.acts) - 1) :
                p # q /\ q # IdleSource /\ (Wrapped \in {p, q} => HasWrapped(cfg)) =>
                    ~Restores(Simulate(cfg, vault, MaintenanceActions(<<p>>, <<q>>,
                                           [out |-> <<x>>, in |-> <<x>>])))

\* The searches and the firewall agree: a planning error, which also stops the
\* lower classes, comes only from the two searches that check no terminal value.
SolvedPlansPass ==
    plan.kind = "error" =>
        plan.reason = "liquidity" \/ (cfg.diversified /\ plan.reason = "capital")

\* build_validated_top_k_plan: an unusable remainder of capital does not
\* suppress an independent rebalance.
RemainderDoesNotSuppress ==
    cfg.diversified /\ plan.kind = "error" /\ plan.reason = "capital" =>
        LET v == ViewOf(cfg, vault)
            tgt == Target(cfg, v, Observe(cfg, v, topk, topk.blk, topk.blk))
        IN  BuildTopKRebalance(cfg, vault, tgt, SolveTopKRebalance(cfg, vault, tgt)).kind # "plan"

\* The loop settles: while users, borrowers and interest leave the vault alone,
\* at most MaxStreak plans follow each other, and none of them repairs what the
\* one before it did; assets never go back and forth.
Settles == streak <= MaxStreak /\ (streak > 0 => plan.reason # "liquidity")
============================================================================
