------------------------------ MODULE Solvers ------------------------------
(* planner/candidates.rs, capital.rs, liquidity.rs, rate.rs and objective.rs: *)
(* the bounded searches for a bundle.                                         *)
(*                                                                            *)
(* A search returns [acts, st, full]: the bundle (empty when there is none),  *)
(* the simulated state and whether the whole lattice was searched. Where the  *)
(* code keeps the first of several equally good candidates in the order it    *)
(* builds them, the amounts end the ranking key. The objective is the spread  *)
(* of utilizations (StrategyObjective::UtilizationSpread).                    *)
EXTENDS Simulator, SequencesExt

SumSeq(v) == MapThenSumSet(LAMBDA i : v[i], DOMAIN v)
Ordered(S) == [i \in 1..Cardinality(S) |-> CHOOSE x \in S : Cardinality({y \in S : y < x}) = i - 1]

LexLess(a, b) == \E i \in DOMAIN a : a[i] < b[i] /\ \A j \in 1..(i - 1) : a[j] = b[j]

Unfound(s, full) == [acts |-> <<>>, st |-> s, full |-> full]
BestOf(found, s, full) ==
    IF found = {} THEN Unfound(s, full)
    ELSE LET best == CHOOSE x \in found : \A y \in found : y = x \/ LexLess(x.key, y.key)
         IN  [acts |-> best.acts, st |-> best.st, full |-> full]

\* The amounts xs are tried in order within a budget of nodes. A trial with so
\* many nodes left is [n, full, found]: the nodes it took, whether its own
\* lattices were complete, and what it found. The first amount with a plan ends
\* the search ...
Stopped(s, trial, left, Rest(_)) ==
    IF ~trial.full \/ trial.n > left THEN Unfound(s, FALSE)
    ELSE IF trial.found # {} THEN BestOf(trial.found, s, TRUE)
    ELSE Rest(left - trial.n)

FirstFound(s, xs, nodes, Trial(_, _)) ==
    LET search[i \in 1..(Len(xs) + 1), left \in 0..nodes] ==
            IF i > Len(xs) THEN Unfound(s, TRUE)
            ELSE Stopped(s, Trial(xs[i], left), left, LAMBDA l : search[i + 1, l])
    IN  search[1, nodes]

\* ... or every amount is tried.
Merged(trial, rest) == [all |-> trial.found \cup rest.all, full |-> rest.full]
Gathered(trial, left, Rest(_)) ==
    IF ~trial.full \/ trial.n > left THEN [all |-> {}, full |-> FALSE]
    ELSE Merged(trial, Rest(left - trial.n))

AllFound(xs, nodes, Trial(_, _)) ==
    LET search[i \in 1..(Len(xs) + 1), left \in 0..nodes] ==
            IF i > Len(xs) THEN [all |-> {}, full |-> TRUE]
            ELSE Gathered(Trial(xs[i], left), left, LAMBDA l : search[i + 1, l])
    IN  search[1, nodes]

--------------------------------------------------------------------------
(* candidates.rs *)

Truncated(seq, limit) ==
    LET take[i \in 0..Len(seq)] ==
            IF i = 0 THEN {}
            ELSE LET before == take[i - 1]
                 IN  IF Cardinality(before) = limit THEN before ELSE before \cup {seq[i]}
    IN  take[Len(seq)]

Neighbors(x, max) == SelectSeq(<<x - 1, x, x + 1>>, LAMBDA y : y \in 0..max)

\* A mutant: only the smallest and the largest amount.
EndsOnly(c, max, bounds) == {0, Least(c.minAct, max), max}

\* build_candidate_lattice: everything when it fits, otherwise boundaries,
\* their neighbours and binary fractions, up to the limit.
Fine(marks, max, limit) ==
    Truncated(marks \o FlattenSeq([i \in DOMAIN marks |-> Neighbors(marks[i], max)])
                    \o [i \in 1..16 |-> max \div 2^i], limit)
Lattice(c, max, bounds) ==
    IF max + 1 <= c.limit THEN 0..max
    ELSE Fine(<<0, Least(c.minAct, max), max>> \o [i \in DOMAIN bounds |-> Least(bounds[i], max)],
              max, c.limit)

\* The amounts of a lattice worth moving, in order.
Usable(c, lattice) == Ordered({x \in lattice : x >= c.minAct})

\* bounded_distributions: for each sink, the others take lattice amounts and
\* the sink takes the rest; nothing at all when a stage exceeds the limit. A
\* stage holds the amounts chosen so far with their sum.
Bounded(S, most) == IF Cardinality(S) > most THEN {} ELSE S

Extended(before, amounts, total) ==
    {u \in {[v |-> Append(w.v, x), sum |-> w.sum + x] : w \in before, x \in amounts} :
        u.sum <= total}

\* The amounts of all endpoints but the sink.
Stages(lats, sink, total, most) ==
    LET stage[k \in 0..Len(lats)] ==
            IF k = 0 THEN {[v |-> <<>>, sum |-> 0]}
            ELSE Bounded(Extended(stage[k - 1], IF k = sink THEN {0} ELSE lats[k], total), most)
    IN  stage[Len(lats)]

WithRest(maxs, ends, total, minAct) ==
    {v \in UNION {{[u.v EXCEPT ![sink] = total - u.sum] : u \in ends[sink]} : sink \in DOMAIN maxs} :
        \A i \in DOMAIN maxs : v[i] <= maxs[i] /\ (v[i] = 0 \/ v[i] >= minAct)}

Complete(found, cut, most) ==
    IF cut \/ Cardinality(found) > most THEN [all |-> {}, full |-> FALSE]
    ELSE [all |-> found, full |-> TRUE]

DistributionsOf(maxs, ends, total, minAct, most) ==
    Complete(WithRest(maxs, ends, total, minAct), {} \in Range(ends), most)

Distributions(maxs, lats, total, minAct, limit) ==
    DistributionsOf(maxs, [sink \in DOMAIN maxs |-> Stages(lats, sink, total, Greatest(limit, 1))],
                    total, minAct, Greatest(limit, 1))

Allocs(ps, v) ==
    SelectSeq([i \in DOMAIN ps |-> Alloc(ps[i], v[i])], LAMBDA a : a.x # 0)
Deallocs(ps, v) ==
    SelectSeq([i \in DOMAIN ps |-> Dealloc(ps[i], v[i])], LAMBDA a : a.x # 0)

--------------------------------------------------------------------------
(* Cap headroom, capital.rs. *)

\* The allocation of a cap once the interest of its positions is recorded.
Recorded(c, s, id) ==
    IF id = Wrapped THEN WrappedAssets(c, s)
    ELSE s.cap[id] + MapThenSumSet(LAMBDA p : Expected(s, p) - s.cap[p],
                                   {p \in Positions(c) : id \in CapsOf(c, p)})

CapHeadroom(c, s, id) ==
    LET cap == c.cap[id]
    IN  IF cap.abs = 0 \/ cap.rel > Wad THEN 0
        ELSE Monus(IF cap.rel < Wad
                   THEN Least(cap.abs, MulDivDown(ParentTotal(c, s), cap.rel, Wad))
                   ELSE cap.abs,
                   Recorded(c, s, id))

CapBoundaries(c, s, p) ==
    <<CapHeadroom(c, s, AdapterCap), CapHeadroom(c, s, c.pos[p].col), CapHeadroom(c, s, p)>>
CapLimited(c, s, p) == Min({CapHeadroom(c, s, id) : id \in CapsOf(c, p)})

\* A net-zero move first frees what the other positions of a cap may give.
ReallocationLimited(c, s, p) ==
    Min({CapHeadroom(c, s, id)
         + MapThenSumSet(LAMBDA q : Monus(Expected(s, q), c.pos[q].min),
               {q \in Positions(c) \ {p} :
                   /\ c.pos[q].mode \in {"Active", "SourceOnly", "Disabled"}
                   /\ id \in CapsOf(c, q)})
         : id \in CapsOf(c, p)})

--------------------------------------------------------------------------
(* What every search asks of a simulated bundle. *)

Included(c) == {p \in Positions(c) : c.pos[p].mode \notin {"Disabled", "SyncRequired"}}

Spread(s, ps) ==
    LET rates == {Utilization(s.mk[p]) : p \in ps}
    IN  IF rates = {} THEN 0 ELSE Max(rates) - Min(rates)

KeepsValue(c, s, st) == TerminalValue(c, st) + c.sacrifice >= NoPlanValue(c, s)
ValueDelta(c, s, st) == TerminalValue(c, st) - NoPlanValue(c, s)
LossBounded(c, st) == st.loss <= c.maxLoss

Acceptable(c, s, st) ==
    st.ok /\ Served(c, s, st) /\ LossBounded(c, st) /\ KeepsValue(c, s, st)

--------------------------------------------------------------------------
(* The two sides of a movement. The ends [ps, maxs] are the positions that    *)
(* can move something, with their most; a side adds their lattices.           *)

EndsOf(ps, Most(_)) == [ps |-> ps, maxs |-> [i \in DOMAIN ps |-> Most(ps[i])]]
Ends(ps, Most(_)) == EndsOf(SelectSeq(ps, LAMBDA p : Most(p) # 0), Most)

Side(c, ends, Bounds(_)) ==
    [ps |-> ends.ps, maxs |-> ends.maxs,
     lats |-> [i \in DOMAIN ends.ps |-> Lattice(c, ends.maxs[i], Bounds(ends.ps[i]))]]

Spreads(c, side, total, left, sets) ==
    Distributions(side.maxs, side.lats, total, c.minAct, Least(left, sets))

\* Every pair of a source and a destination distribution of one amount.
PairsOf(total, out, in) ==
    [all |-> {[x |-> total, out |-> u, in |-> v] : u \in out.all, v \in in.all},
     full |-> out.full /\ in.full]
Pairs(c, from, to, total, left) ==
    PairsOf(total, Spreads(c, from, total, left, c.sources), Spreads(c, to, total, left, c.destinations))

--------------------------------------------------------------------------
(* solve_capital_deployment *)

WrappedAvailable(c, s) ==
    IF HasWrapped(c)
    THEN Least(Monus(RealAssets(s.liq), Greatest(c.minLiq, c.minExit)), Least(s.liq.wd, c.liqAct))
    ELSE 0

Deployable(c, s) == UnreservedIdle(s) + WrappedAvailable(c, s)

CapitalMaximum(c, s, p) ==
    Min({Deployable(c, s), Monus(c.pos[p].max, Expected(s, p)), c.pos[p].act, CapLimited(c, s, p)})

CapitalBounds(c, s) ==
    <<Deployable(c, s), Deployable(c, s), UnreservedIdle(s), WrappedAvailable(c, s),
      Monus(MaximumDeposit(c, s), c.minHead), Monus(ExitCoverage(c, s), c.minExit)>>

\* A mutant: the second destination is forgotten.
OneDestination(maxs, lats, total, minAct) ==
    {[k \in DOMAIN maxs |-> IF k = i THEN total ELSE 0] : i \in {i \in DOMAIN maxs : total <= maxs[i]}}

\* capital_distributions: one destination, or two with the first on its lattice.
CapitalDistributions(maxs, lats, total, minAct) ==
    LET zero == [k \in DOMAIN maxs |-> 0]
    IN  {[zero EXCEPT ![i] = total] : i \in {i \in DOMAIN maxs : total <= maxs[i]}}
        \cup UNION {
            {[zero EXCEPT ![ij[1]] = x, ![ij[2]] = total - x] :
                x \in {x \in lats[ij[1]] :
                          /\ x # 0 /\ x >= minAct /\ x <= maxs[ij[1]] /\ x < total
                          /\ total - x \in minAct..maxs[ij[2]]}}
            : ij \in {ij \in (DOMAIN maxs) \X (DOMAIN maxs) : ij[1] # ij[2]}}

CapitalActions(c, s, ps, total, v) ==
    Deallocs(<<Wrapped>>, <<Monus(total, UnreservedIdle(s))>>) \o Allocs(ps, v)

CapitalKey(c, s, st, total, acts, v) ==
    <<UnreservedIdle(st), -total, Spread(st, Included(c)), -ValueDelta(c, s, st),
      total, Len(acts)>> \o v

\* One target with its distributions.
CapitalTrial(c, s, side, t, dists) ==
    [n |-> Cardinality(dists), full |-> TRUE,
     found |-> {[acts |-> x.acts, st |-> x.st, key |-> CapitalKey(c, s, x.st, t, x.acts, x.v)] :
         x \in {x \in {[acts |-> acts[1], v |-> acts[2], st |-> Simulate(c, s, acts[1])] :
                          acts \in {<<CapitalActions(c, s, side.ps, t, v), v>> : v \in dists}} :
                  Acceptable(c, s, x.st)}}]

\* Targets from the largest down; the first that has a plan ends the search.
CapitalSearch(c, s, side, bounds, most) ==
    FirstFound(s, Reverse(Usable(c, Lattice(c, most, bounds))), c.nodes,
               LAMBDA t, left :
                   CapitalTrial(c, s, side, t, CapitalDistributions(side.maxs, side.lats, t, c.minAct)))

CapitalFrom(c, s, ends, bounds, most) ==
    CapitalSearch(c, s, Side(c, ends, LAMBDA p : [bounds EXCEPT ![1] = most]), bounds, most)

SolveCapitalInto(c, s, ends) ==
    CapitalFrom(c, s, ends, CapitalBounds(c, s), Least(SumSeq(ends.maxs), Deployable(c, s)))

SolveCapital(c, s) ==
    SolveCapitalInto(c, s, Ends(Ordered({p \in Positions(c) : c.pos[p].mode = "Active"}),
                                LAMBDA p : CapitalMaximum(c, s, p)))

--------------------------------------------------------------------------
(* solve_liquidity_maintenance *)

IdleSource == -2

MaintenanceOut(c, s, p) ==
    IF p = IdleSource THEN UnreservedIdle(s)
    ELSE IF p = Wrapped
    THEN Min({Monus(RealAssets(s.liq), c.minLiq), s.liq.wd, c.liqAct})
    ELSE Least(Monus(Expected(s, p), c.pos[p].min), c.pos[p].act)

MaintenanceIn(c, s, p) ==
    IF p = Wrapped THEN Least(c.liqAct, s.liq.dep)
    ELSE Least(Monus(c.pos[p].max, Expected(s, p)), c.pos[p].act)

MaintenanceSources(c, s) ==
    Ends(<<IdleSource>> \o Ordered(Positions(c)) \o (IF HasWrapped(c) THEN <<Wrapped>> ELSE <<>>),
         LAMBDA p : MaintenanceOut(c, s, p))

MaintenanceDestinations(c, s) ==
    Ends(<<c.path>> \o Ordered({p \in Positions(c) \ {c.path} : c.pos[p].mode = "Active"}),
         LAMBDA p : MaintenanceIn(c, s, p))

MaintenanceBoundary(c, s, p) ==
    IF p # c.path THEN CapBoundaries(c, s, p)
    ELSE IF HasWrapped(c) THEN <<CapHeadroom(c, s, Wrapped)>>
    ELSE <<>>

MaintenanceBounds(c, s, outs, ins, most) ==
    <<Monus(c.minHead, MaximumDeposit(c, s)), Monus(c.minExit, ExitCoverage(c, s)),
      Monus(c.minLiq, AssetsOf(s, c.path)), UnreservedIdle(s), SumSeq(outs.maxs), SumSeq(ins.maxs),
      most>>
    \o FlattenSeq([i \in DOMAIN ins.ps |-> MaintenanceBoundary(c, s, ins.ps[i])])

\* A position is never both a source and a destination.
Overlap(from, to, pair) ==
    \E i \in DOMAIN from, j \in DOMAIN to :
        from[i] = to[j] /\ pair.out[i] # 0 /\ pair.in[j] # 0

MaintenanceActions(from, to, pair) ==
    SelectSeq(Deallocs(from, pair.out), LAMBDA a : a.p # IdleSource) \o Allocs(to, pair.in)

\* The candidates that restore service, without regard to the terminal value.
Restoring(c, s, from, to, pairs) ==
    {x \in {[acts |-> y.acts, st |-> Simulate(c, s, y.acts),
             key |-> <<Len(y.acts)>> \o y.pair.out \o y.pair.in] :
               y \in {[acts |-> MaintenanceActions(from.ps, to.ps, pair), pair |-> pair] :
                         pair \in {pair \in pairs : ~Overlap(from.ps, to.ps, pair)}}} :
        /\ x.acts # <<>> /\ Len(x.acts) <= c.maxActs
        /\ x.st.ok /\ LossBounded(c, x.st) /\ Served(c, s, x.st)}

MaintenanceTrial(c, s, from, to, pairs) ==
    [n |-> Cardinality(pairs.all), full |-> pairs.full,
     found |-> Restoring(c, s, from, to, pairs.all)]

\* Movements from the smallest up; the first that restores service ends the search.
MaintenanceSearch(c, s, from, to, moves) ==
    FirstFound(s, moves, c.nodes,
               LAMBDA x, left : MaintenanceTrial(c, s, from, to, Pairs(c, from, to, x, left)))

MaintenanceWithin(c, s, outs, ins, most, bounds) ==
    MaintenanceSearch(c, s, Side(c, outs, LAMBDA p : bounds),
                      Side(c, ins, LAMBDA p : bounds \o MaintenanceBoundary(c, s, p)),
                      Usable(c, Lattice(c, most, bounds)))

MaintenanceUpTo(c, s, outs, ins, most) ==
    MaintenanceWithin(c, s, outs, ins, most, MaintenanceBounds(c, s, outs, ins, most))

MaintenanceBetween(c, s, outs, ins) ==
    MaintenanceUpTo(c, s, outs, ins, Least(SumSeq(outs.maxs), SumSeq(ins.maxs)))

SolveLiquidity(c, s) ==
    IF Served(c, s, Start(s)) THEN Unfound(s, TRUE)
    ELSE IF c.path = NoPath THEN Unfound(s, FALSE)
    ELSE MaintenanceBetween(c, s, MaintenanceSources(c, s), MaintenanceDestinations(c, s))

--------------------------------------------------------------------------
(* detect_rate_signal and solve_rate_rebalance. An episode is the frozen      *)
(* signal [src, dst, eval, ctl] with its remaining and its unlocked budget.   *)

Relevant(c, s, p, active) ==
    LET pos == c.pos[p]
        m == s.mk[p]
    IN  /\ \/ Expected(s, p) >= IF active THEN pos.relExit ELSE pos.relEntry
           \/ pos.mode = "Active" /\ m.a >= pos.seed
        /\ m.a >= pos.relSupply /\ m.b >= pos.relBorrow
        /\ pos.mode \notin {"Disabled", "SyncRequired"}

CanSource(c, s, p) ==
    c.pos[p].mode \in {"Active", "SourceOnly"} /\ Expected(s, p) > c.pos[p].min
CanDestination(c, s, p) == c.pos[p].mode = "Active" /\ Expected(s, p) < c.pos[p].max

NoSignal(eval, ctl) == [src |-> {}, dst |-> {}, eval |-> eval, ctl |-> ctl, want |-> 0]

\* What the sources can give and the destinations can take.
Signal(c, s, eval, ctl, src, dst) ==
    IF src = {} \/ dst = {} THEN NoSignal(eval, ctl)
    ELSE [src |-> src, dst |-> dst, eval |-> eval, ctl |-> ctl,
          want |-> Least(MapThenSumSet(LAMBDA p : Monus(Expected(s, p), c.pos[p].min), src),
                         MapThenSumSet(LAMBDA p : Monus(c.pos[p].max, Expected(s, p)), dst))]

SignalAround(c, s, eval, ctl, mid) ==
    Signal(c, s, eval, ctl,
           {p \in eval : CanSource(c, s, p) /\ Utilization(s.mk[p]) <= mid},
           {p \in eval : CanDestination(c, s, p) /\ Utilization(s.mk[p]) > mid})

SignalOf(c, s, eval, ctl, rates) ==
    IF Cardinality(ctl) < 2 \/ Cardinality(rates) < 2 THEN NoSignal(eval, ctl)
    ELSE SignalAround(c, s, eval, ctl, Min(rates) + ((Max(rates) - Min(rates)) \div 2))

Controlled(c, s, eval) == {p \in eval : CanSource(c, s, p) \/ CanDestination(c, s, p)}
SignalAmong(c, s, eval, ctl) == SignalOf(c, s, eval, ctl, {Utilization(s.mk[p]) : p \in ctl})
SignalFrom(c, s, eval) == SignalAmong(c, s, eval, Controlled(c, s, eval))
RateSignal(c, s, active) == SignalFrom(c, s, {p \in Positions(c) : Relevant(c, s, p, active)})

\* The branch's own spread, and the other one.
Primary(ep, s) == Spread(s, IF ep.eval = ep.ctl THEN ep.eval ELSE ep.ctl)
Secondary(ep, s) == Spread(s, IF ep.eval = ep.ctl THEN ep.ctl ELSE ep.eval)

\* A mutant: a bundle that does not widen the spread is good enough.
NotWorse(c, s, ep, st) == Primary(ep, st) <= Primary(ep, s) + c.tolerance

Improves(c, s, ep, st) ==
    /\ Primary(ep, st) <= Primary(ep, s) + c.tolerance
    /\ Monus(Primary(ep, s), Primary(ep, st)) >= c.minImprove

RateActions(from, to, pair) == Deallocs(from, pair.out) \o Allocs(to, pair.in)

Converging(c, s, ep, from, to, pairs) ==
    {x \in {[acts |-> y.acts, pair |-> y.pair, st |-> Simulate(c, s, y.acts)] :
               y \in {[acts |-> RateActions(from.ps, to.ps, pair), pair |-> pair] : pair \in pairs}} :
        /\ Acceptable(c, s, x.st)
        /\ c.strict => UnreservedIdle(x.st) <= c.dust
        /\ Improves(c, s, ep, x.st)}

RankedBy(c, x, reachable, main) ==
    (IF reachable /\ main[1] <= c.target THEN <<0, x.pair.x>> \o main \o <<Len(x.acts)>>
     ELSE <<IF reachable THEN 1 ELSE 0>> \o main \o <<Len(x.acts), x.pair.x>>)
    \o <<x.pair.x>> \o x.pair.out \o x.pair.in

RateKey(c, s, ep, x, reachable) ==
    RankedBy(c, x, reachable, <<Primary(ep, x.st), Secondary(ep, x.st), -ValueDelta(c, s, x.st)>>)

RateDestinationMaximum(c, s, p) == Least(Monus(c.pos[p].max, Expected(s, p)), c.pos[p].act)
RateSourceMaximum(c, s, p) == Least(Monus(Expected(s, p), c.pos[p].min), c.pos[p].act)

RateTrial(c, s, ep, from, to, pairs) ==
    [n |-> Cardinality(pairs.all), full |-> pairs.full,
     found |-> Converging(c, s, ep, from, to, pairs.all)]

\* The best of all movements: the smallest that reaches the target spread, or
\* else the one that comes closest.
RateBest(c, s, ep, r, reachable) ==
    BestOf({[acts |-> x.acts, st |-> x.st, key |-> RateKey(c, s, ep, x, reachable)] : x \in r.all},
           s, r.full)
RateChoice(c, s, ep, r) == RateBest(c, s, ep, r, \E x \in r.all : Primary(ep, x.st) <= c.target)

RateSearch(c, s, ep, from, to, moves) ==
    RateChoice(c, s, ep,
        AllFound(moves, c.nodes,
                 LAMBDA x, left : RateTrial(c, s, ep, from, to, Pairs(c, from, to, x, left))))

RateBounds(c, s, p) ==
    <<RateDestinationMaximum(c, s, p)>> \o CapBoundaries(c, s, p)
    \o <<Least(RateDestinationMaximum(c, s, p), ReallocationLimited(c, s, p))>>

RateWithin(c, s, ep, budget, outs, ins, out, in) ==
    RateSearch(c, s, ep,
        Side(c, outs, LAMBDA p : <<budget, out>>),
        Side(c, ins, LAMBDA p : <<budget, in, RateDestinationMaximum(c, s, p)>> \o CapBoundaries(c, s, p)),
        Usable(c, Lattice(c, Min({out, in, budget}),
                          <<budget, out, in>>
                          \o FlattenSeq([i \in DOMAIN ins.ps |-> RateBounds(c, s, ins.ps[i])]))))

RateBetween(c, s, ep, budget, outs, ins) ==
    RateWithin(c, s, ep, budget, outs, ins, SumSeq(outs.maxs), SumSeq(ins.maxs))

SearchRate(c, s, ep, budget) ==
    RateBetween(c, s, ep, budget, Ends(Ordered(ep.src), LAMBDA p : RateSourceMaximum(c, s, p)),
                Ends(Ordered(ep.dst), LAMBDA p : RateDestinationMaximum(c, s, p)))

Allocated(acts) ==
    MapThenSumSet(LAMBDA i : IF acts[i].k = "alloc" THEN acts[i].x ELSE 0, DOMAIN acts)
Deallocated(acts) ==
    MapThenSumSet(LAMBDA i : IF acts[i].k = "dealloc" THEN acts[i].x ELSE 0, DOMAIN acts)

\* action_movement
Movement(acts) == Greatest(Allocated(acts), Deallocated(acts))

\* The full search sizes the tranche; a second search finds the bundle within it.
WithinTranche(c, s, ep, full, cap) ==
    IF ~full.full \/ full.acts = <<>> \/ cap >= Movement(full.acts) THEN full
    ELSE SearchRate(c, s, ep, cap)

Tranche(c, s, ep, full) ==
    WithinTranche(c, s, ep, full, Least(MulDivDown(Movement(full.acts), c.tranche, Bps), ep.open))

SolveRate(c, s, ep) == Tranche(c, s, ep, SearchRate(c, s, ep, ep.left))
============================================================================
