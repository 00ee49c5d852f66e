----------------------------- MODULE Simulator -----------------------------
(* planner/simulator.rs and state/projection.rs: what a routine bundle does   *)
(* to a vault, and the floors that must hold afterwards.                      *)
(*                                                                            *)
(* A vault state s is a record: mk[p] the market and sh[p] the shares of      *)
(* position p, cap[id] the recorded allocation of a cap, liq the wrapped idle *)
(* vault, idle and locked the parent's assets and the verified locks, tok the *)
(* token balance of Morpho, stored the last recorded total and supply the     *)
(* parent's shares. `first`, `loss` and `ok` are the simulation's own: the    *)
(* total before the first allocation, the losses so far, and whether every    *)
(* action so far was admitted. Values that the code keeps in step (expected   *)
(* assets, the recorded market allocation, the idle vault's real assets) are  *)
(* derived. The projection is taken at the snapshot's own time: interest      *)
(* comes between two snapshots.                                               *)
(*                                                                            *)
(* A configuration c is a record too; c.path names the liquidity path: a      *)
(* position, Wrapped for the idle vault, or NoPath.                           *)
EXTENDS AdapterMath, FiniteSets, FiniteSetsExt, Sequences

NoPath == -1
Wrapped == 0        \* the idle vault's position, and the id of its cap
AdapterCap == -1    \* the direct adapter's cap; a market's cap is its position
NoTotal == -1

Positions(c) == DOMAIN c.pos
CapsOf(c, p) == {AdapterCap, c.pos[p].col, p}

Expected(s, p) == AssetsDown(s.sh[p], s.mk[p])
HasWrapped(c) == c.path = Wrapped

\* position_expected_assets, for the idle vault too
AssetsOf(s, p) == IF p = Wrapped THEN RealAssets(s.liq) ELSE Expected(s, p)
WrappedAssets(c, s) == IF HasWrapped(c) THEN RealAssets(s.liq) ELSE 0
DirectAssets(c, s) == MapThenSumSet(LAMBDA p : Expected(s, p), Positions(c))

\* adapter_real_assets and the idle balance.
Real(c, s) == s.idle + DirectAssets(c, s) + WrappedAssets(c, s)

ParentTotal(c, s) == AccruedTotal(Real(c, s), s.stored, c.growth)

\* A mutant: the locks are ignored.
AllIdle(s) == s.idle

UnreservedIdle(s) == s.idle - s.locked

--------------------------------------------------------------------------
(* The interest of the benefit horizon, with the rate at target fixed. *)

HorizonInterest(c, m) == MulDivDown(m.b, Compounded(BorrowRate(m), c.horizon), Wad)

Grown(m, interest) == [m EXCEPT !.a = @ + interest, !.b = @ + interest]
AtHorizon(c, m) == Grown(m, HorizonInterest(c, m))

TerminalReal(c, s) ==
    s.idle + WrappedAssets(c, s)
    + MapThenSumSet(LAMBDA p : AssetsDown(s.sh[p], AtHorizon(c, s.mk[p])), Positions(c))

Shareholders(s, total) == MulDivDown(s.supply, total + 1, s.supply + VirtualShares)

\* terminal_existing_shareholder_assets after the actions, and without them.
TerminalValue(c, s) ==
    Shareholders(s, AccruedTotal(TerminalReal(c, s),
                                 IF s.first = NoTotal THEN ParentTotal(c, s) ELSE s.first,
                                 c.growth))
NoPlanValue(c, s) ==
    Shareholders(s, AccruedTotal(TerminalReal(c, s), s.stored, 2 * c.growth))

--------------------------------------------------------------------------
(* Deposits and withdrawals of the vault's users. *)

AfterSupply(s, p, x) == AssetsDown(s.sh[p] + SharesDown(x, s.mk[p]), Supplied(s.mk[p], x))

PathAdmits(c, s, total, x) ==
    IF HasWrapped(c)
    THEN /\ CanDeposit(s.liq, x)
         /\ CapAdmits(c.cap[Wrapped], total + x,
                      RealAssets(Deposited(s.liq, x)))
    ELSE /\ CanSupply(s.mk[c.path], x)
         /\ \A id \in CapsOf(c, c.path) :
                CapAdmits(c.cap[id], total + x,
                          s.cap[id] + AfterSupply(s, c.path, x) - s.cap[c.path])

\* maximum_executable_deposit, with the gates open.
MaximumDeposit(c, s) ==
    IF c.path = NoPath THEN c.upper
    ELSE MonotoneMaximum(LAMBDA x : PathAdmits(c, s, ParentTotal(c, s), x),
                         IF HasWrapped(c) THEN Least(c.upper, s.liq.dep) ELSE c.upper)

ExitCoverage(c, s) ==
    s.idle +
    IF HasWrapped(c) THEN Least(s.liq.wd, RealAssets(s.liq))
    ELSE IF c.path = NoPath THEN 0
    ELSE MonotoneMaximum(LAMBDA x : CanWithdraw(s.mk[c.path], s.sh[c.path], x, s.tok),
                         Least(Expected(s, c.path), Least(Liquidity(s.mk[c.path]), s.tok)))

--------------------------------------------------------------------------
(* validate_service_constraints: `s` after the actions, `s0` before them. *)

Retained(c, s) ==
    Cardinality({p \in Positions(c) : c.pos[p].mode = "Active" /\ s.sh[p] # 0})

ExitAllowed(c, s0, s, p) ==
    LET pos == c.pos[p]
    IN  /\ Expected(s, p) = 0 /\ s.cap[p] = 0
        /\ \/ pos.mode \in {"SourceOnly", "Disabled"}
           \/ p # c.path /\ Expected(s0, p) <= pos.dust
           \/ pos.mode = "Active" /\ pos.exit /\ Retained(c, s) >= c.minActive

PositionServed(c, s0, s, p) ==
    LET pos == c.pos[p]
        x == Expected(s, p)
    IN  /\ s0.sh[p] # 0 /\ s.sh[p] = 0 => ExitAllowed(c, s0, s, p)
        /\ (x = 0 \/ x >= pos.min) /\ x <= pos.max
        /\ s.sh[p] # 0 /\ pos.mode \in {"Active", "SourceOnly"} =>
               /\ Liquidity(s.mk[p]) >= pos.minLiq
               /\ Utilization(s.mk[p]) <= pos.maxUtil
               /\ s.tok >= c.minTok

\* All positions share one adapter, which is the liquidity adapter when the
\* path is a position.
LiquidityAdapterAssets(c, s) ==
    WrappedAssets(c, s) + IF c.path \in Positions(c) THEN DirectAssets(c, s) ELSE 0

Served(c, s0, s) ==
    /\ \A p \in Positions(c) : PositionServed(c, s0, s, p)
    /\ DirectAssets(c, s) \in c.groupMin .. c.groupMax
    /\ LiquidityAdapterAssets(c, s) >= c.minLiq
    /\ MaximumDeposit(c, s) >= c.minHead
    /\ ExitCoverage(c, s) >= c.minExit

--------------------------------------------------------------------------
(* The actions of a bundle: [k, p, x]. *)

Dealloc(p, x) == [k |-> "dealloc", p |-> p, x |-> x]
Alloc(p, x) == [k |-> "alloc", p |-> p, x |-> x]

Rejected(s) == [s EXCEPT !.ok = FALSE]

\* Every cap of a position moves by the difference to its recorded allocation.
Moved(c, s, p, after) ==
    [id \in DOMAIN s.cap |->
        IF id \in CapsOf(c, p) THEN s.cap[id] + after - s.cap[p] ELSE s.cap[id]]

\* x leaves an adapter for the idle balance, and what goes missing is a loss.
TakenOut(s, x, before, after) ==
    [s EXCEPT !.tok = @ - x, !.idle = @ + x, !.loss = @ + Monus(before, after + x)]
PutIn(s, x, before, after) ==
    [s EXCEPT !.tok = @ + x, !.idle = @ - x, !.loss = @ + Monus(before + x, after)]

WithIdleVault(s, liq) == [s EXCEPT !.liq = liq, !.cap[Wrapped] = RealAssets(liq)]

SimulateWrappedDeallocation(c, s, x) ==
    IF ~(x <= c.liqAct /\ CanRedeem(s.liq, x) /\ x <= s.tok) THEN Rejected(s)
    ELSE TakenOut(WithIdleVault(s, Redeemed(s.liq, x)), x,
                  RealAssets(s.liq), RealAssets(Redeemed(s.liq, x)))

\* The market, the shares and the caps of a position after a move.
WithPosition(c, s, p, m, sh) ==
    [s EXCEPT !.mk[p] = m, !.sh[p] = sh, !.cap = Moved(c, s, p, AssetsDown(sh, m))]
Left(c, s, p, x) == WithPosition(c, s, p, Withdrawn(s.mk[p], x), s.sh[p] - SharesUp(x, s.mk[p]))
Entered(c, s, p, x) == WithPosition(c, s, p, Supplied(s.mk[p], x), s.sh[p] + SharesDown(x, s.mk[p]))

\* The caps must be nonzero before, and stay nonnegative.
DirectDeallocated(c, s, p, x, t) ==
    IF \E id \in CapsOf(c, p) : s.cap[id] = 0 \/ t.cap[id] < 0 THEN Rejected(s)
    ELSE TakenOut(t, x, Expected(s, p), Expected(t, p))

SimulateDirectDeallocation(c, s, p, x) ==
    IF ~(/\ c.pos[p].mode \in {"Active", "SourceOnly", "Disabled"}
         /\ CanWithdraw(s.mk[p], s.sh[p], x, s.tok))
    THEN Rejected(s)
    ELSE DirectDeallocated(c, s, p, x, Left(c, s, p, x))

\* The total that relative caps refer to is taken once, before the first
\* allocation.
WithFirst(c, s) == IF s.first # NoTotal THEN s ELSE [s EXCEPT !.first = ParentTotal(c, s)]

SimulateWrappedAllocation(c, s, x) ==
    IF ~(/\ x <= c.liqAct /\ CanDeposit(s.liq, x)
         /\ CapAdmits(c.cap[Wrapped], s.first, RealAssets(Deposited(s.liq, x))))
    THEN Rejected(s)
    ELSE PutIn(WithIdleVault(s, Deposited(s.liq, x)), x,
               RealAssets(s.liq), RealAssets(Deposited(s.liq, x)))

DirectAllocated(c, s, p, x, t) ==
    IF \E id \in CapsOf(c, p) : t.cap[id] < 0 \/ ~CapAdmits(c.cap[id], s.first, t.cap[id])
    THEN Rejected(s)
    ELSE PutIn(t, x, Expected(s, p), Expected(t, p))

SimulateDirectAllocation(c, s, p, x) ==
    IF ~(c.pos[p].mode = "Active" /\ CanSupply(s.mk[p], x)) THEN Rejected(s)
    ELSE DirectAllocated(c, s, p, x, Entered(c, s, p, x))

SimulateDeallocation(c, s, p, x) ==
    IF p = Wrapped THEN SimulateWrappedDeallocation(c, s, x)
    ELSE SimulateDirectDeallocation(c, s, p, x)

\* simulate_allocation never spends locked idle.
Allocate(c, s, p, x) ==
    IF p = Wrapped THEN SimulateWrappedAllocation(c, s, x)
    ELSE SimulateDirectAllocation(c, s, p, x)
SimulateAllocation(c, s, p, x) ==
    IF x > UnreservedIdle(s) THEN Rejected(s) ELSE Allocate(c, WithFirst(c, s), p, x)

\* Deallocations first, no position twice, no zero amount.
Grammar(acts) ==
    \A i, j \in DOMAIN acts :
        /\ acts[i].x # 0
        /\ i < j => /\ acts[i].p # acts[j].p
                    /\ ~(acts[i].k = "alloc" /\ acts[j].k = "dealloc")

Start(s) == [s EXCEPT !.first = NoTotal, !.loss = 0, !.ok = s.locked <= s.idle]

\* simulate_actions
SimulateAction(c, s, a) ==
    IF ~s.ok THEN s
    ELSE IF a.k = "dealloc" THEN SimulateDeallocation(c, s, a.p, a.x)
    ELSE SimulateAllocation(c, s, a.p, a.x)

Simulate(c, s, acts) ==
    LET run[i \in 0..Len(acts)] ==
            IF i = 0 THEN Start(s) ELSE SimulateAction(c, run[i - 1], acts[i])
    IN  IF Grammar(acts) THEN run[Len(acts)] ELSE Rejected(Start(s))
============================================================================
