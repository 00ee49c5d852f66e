---------------------------- MODULE AdapterMath ----------------------------
(* The arithmetic of one Morpho market, of the wrapped idle vault and of the  *)
(* caps: morpho/blue_math.rs, market_adapter.rs, vault_v1_adapter.rs,         *)
(* vault_v2.rs and state/caps.rs.                                             *)
(*                                                                            *)
(* A market is [a, s, b]: supplied assets, supply shares, borrowed assets. An *)
(* idle vault is [a, s, bal, dep, wd, ma, ms, msh]: its assets and shares,    *)
(* the adapter's shares, its deposit and withdrawal limits, and the idle      *)
(* market's assets, shares and shares of the vault. Amounts are small         *)
(* integers; the 256-bit overflow checks cannot fail here.                    *)
EXTENDS Integers

CONSTANTS
    Wad,            \* one in fixed point (10^18 in the code)
    VirtualShares,  \* Morpho's VIRTUAL_SHARES, the idle vault's and the parent's
    RateAtTarget    \* the curve's rate at its target utilization

ASSUME MathAssumption ==
    /\ Wad \in Nat \ {0} /\ VirtualShares \in Nat \ {0} /\ RateAtTarget \in Nat
    /\ (9 * Wad) \div 10 \in 1 .. (Wad - 1)

Least(x, y) == IF x <= y THEN x ELSE y
Greatest(x, y) == IF x >= y THEN x ELSE y
Monus(x, y) == IF x >= y THEN x - y ELSE 0

MulDivDown(x, y, d) == (x * y) \div d

MulDivUp(x, y, d) == (x * y + d - 1) \div d

\* A share of ten thousand in the code, of ten here.
Bps == 10

--------------------------------------------------------------------------
(* One market. *)

SharesDown(x, m) == MulDivDown(x, m.s + VirtualShares, m.a + 1)
SharesUp(x, m) == MulDivUp(x, m.s + VirtualShares, m.a + 1)

\* expected_adapter_assets: what `sh` shares are worth, rounded down.
AssetsDown(sh, m) == MulDivDown(sh, m.a + 1, m.s + VirtualShares)

Utilization(m) == IF m.a = 0 THEN 0 ELSE MulDivDown(m.b, Wad, m.a)
Liquidity(m) == m.a - m.b

TargetUtilization == (9 * Wad) \div 10
CurveSteepness == 4 * Wad

\* normalized_error, as a sign and a magnitude: signed division goes to zero.
Above(u) == u > TargetUtilization
NormalizedError(u) ==
    IF Above(u) THEN MulDivDown(u - TargetUtilization, Wad, Wad - TargetUtilization)
    ELSE MulDivDown(TargetUtilization - u, Wad, TargetUtilization)

\* adaptive_curve_spot_rate at a fixed rate at target.
Curve(u) ==
    IF Above(u) THEN Wad + MulDivDown(CurveSteepness - Wad, NormalizedError(u), Wad)
    ELSE Wad - MulDivDown(Wad - MulDivDown(Wad, Wad, CurveSteepness), NormalizedError(u), Wad)
BorrowRate(m) == MulDivDown(Curve(Utilization(m)), RateAtTarget, Wad)

\* The native supply rate, without a fee.
SupplyRate(m) == MulDivDown(BorrowRate(m), Utilization(m), Wad)

\* w_taylor_compounded of a rate over n units of time.
Terms(one, two) == one + two + MulDivDown(two, one, 3 * Wad)
Compounded(rate, n) == Terms(rate * n, MulDivDown(rate * n, rate * n, 2 * Wad))

\* market_adapter::allocate: supplying must mint at least a share per asset.
CanSupply(m, x) == x = 0 \/ SharesDown(x, m) >= x
Supplied(m, x) == [m EXCEPT !.a = @ + x, !.s = @ + SharesDown(x, m)]

\* market_adapter::deallocate: both liquidity domains and the owner's shares.
CanWithdraw(m, sh, x, tokens) ==
    /\ x <= Liquidity(m)
    /\ x <= tokens
    /\ SharesUp(x, m) <= sh
Withdrawn(m, x) == [m EXCEPT !.a = @ - x, !.s = @ - SharesUp(x, m)]

--------------------------------------------------------------------------
(* The wrapped idle vault. *)

PreviewDeposit(x, v) == MulDivDown(x, v.s + VirtualShares, v.a + 1)
PreviewWithdraw(x, v) == MulDivUp(x, v.s + VirtualShares, v.a + 1)
PreviewRedeem(sh, v) == MulDivDown(sh, v.a + 1, v.s + VirtualShares)

\* The adapter's real assets.
RealAssets(v) == PreviewRedeem(v.bal, v)

IdleMarket(v) == [a |-> v.ma, s |-> v.ms, b |-> 0]

\* vault_v1_adapter::allocate, and the limits that simulate_allocation keeps.
CanDeposit(v, x) ==
    /\ x # 0 /\ x <= v.dep
    /\ PreviewDeposit(x, v) # 0
    /\ SharesDown(x, IdleMarket(v)) # 0
Minted(v, x, minted, morpho) ==
    [a |-> v.a + x, s |-> v.s + minted, bal |-> v.bal + minted,
     dep |-> Monus(v.dep, x), wd |-> v.wd + x,
     ma |-> v.ma + x, ms |-> v.ms + morpho, msh |-> v.msh + morpho]
Deposited(v, x) == Minted(v, x, PreviewDeposit(x, v), SharesDown(x, IdleMarket(v)))

\* vault_v1_adapter::deallocate, and the limits that simulate_deallocation keeps.
CanRedeem(v, x) ==
    /\ x # 0 /\ x <= v.wd /\ x <= v.a
    /\ PreviewWithdraw(x, v) <= Least(v.bal, v.s)
    /\ SharesUp(x, IdleMarket(v)) <= Least(v.msh, v.ms)
Burned(v, x, burned, morpho) ==
    [a |-> v.a - x, s |-> v.s - burned, bal |-> v.bal - burned,
     dep |-> v.dep, wd |-> Monus(v.wd, x),
     ma |-> v.ma - x, ms |-> v.ms - morpho, msh |-> v.msh - morpho]
Redeemed(v, x) == Burned(v, x, PreviewWithdraw(x, v), SharesUp(x, IdleMarket(v)))

--------------------------------------------------------------------------
(* The parent vault and its caps. *)

\* accrue_parent_view without fees: what the vault really has, but no more
\* than the stored total and the growth its maximum rate allows.
AccruedTotal(real, stored, growth) == Least(real, stored + growth)

\* validate_allocation_cap
CapAdmits(cap, total, new) ==
    /\ cap.abs # 0
    /\ new <= cap.abs
    /\ cap.rel <= Wad
    /\ cap.rel < Wad => new <= MulDivDown(total, cap.rel, Wad)

\* The largest x in 0..upper with P(x), by bisection: monotone_maximum in the
\* simulator, the exact deposit searches of the projection.
MonotoneMaximum(P(_), upper) ==
    LET search[low \in 0..upper, high \in 0..upper] ==
            IF low >= high THEN low
            ELSE LET mid == low + ((high - low + 1) \div 2)
                 IN  IF P(mid) THEN search[mid, high] ELSE search[low, mid - 1]
    IN  search[0, upper]
============================================================================
