-------------------------------- MODULE TopK --------------------------------
(* planner/top_k_apy.rs: the diversified strategy. A market is named by its   *)
(* position. c.top holds the strategy's settings.                             *)
(*                                                                            *)
(* Evidence maps each eligible market to [cur, post, room]: its supply rate   *)
(* now and after the probe deposit, and what it could still take. A view is   *)
(* [ev, assets, direct]: the evidence of one exact state, what each market    *)
(* holds, and the sum with the deployable funds. A memory is [blk, ts, gen,   *)
(* sel, smooth, pend, since], as in TopKApyMemory.                            *)
EXTENDS Solvers

NoTime == -1
FreshMemory == [blk |-> 0, ts |-> 0, gen |-> 0, sel |-> <<>>, smooth |-> <<>>,
                pend |-> <<>>, since |-> NoTime]

--------------------------------------------------------------------------
(* Evidence of one exact state. *)

CurrentAssets(c, s) == [p \in Positions(c) |-> Expected(s, p)]

Room(c, s, p) == Least(Monus(c.pos[p].max, Expected(s, p)), ReallocationLimited(c, s, p))

Eligible(c, s) ==
    {p \in Positions(c) : /\ c.pos[p].mode = "Active"
                          /\ s.mk[p].a >= c.pos[p].seed
                          /\ Expected(s, p) + Room(c, s, p) >= c.pos[p].min}

Probe(c, s, p, direct) ==
    Least(Greatest(MulDivDown(direct, c.top.probe, Bps), c.pos[p].min), Room(c, s, p))

Evidence(c, s, direct) ==
    [p \in Eligible(c, s) |->
        [cur |-> SupplyRate(s.mk[p]),
         post |-> SupplyRate(Supplied(s.mk[p], Probe(c, s, p, direct))),
         room |-> Room(c, s, p)]]

--------------------------------------------------------------------------
(* Smoothing, ranking and weights. *)

\* smoothed_rate: a fall counts at once, a rise by a fraction.
Smoothed(top, old, rate) ==
    IF rate <= old THEN rate ELSE old + MulDivDown(rate - old, top.alpha, Bps)

\* A mutant: every observation smooths, not every block.
SmoothAlways(top, ev, mem, first) ==
    [p \in DOMAIN ev |-> IF p \notin DOMAIN mem.smooth THEN ev[p].cur
                         ELSE Smoothed(top, mem.smooth[p], ev[p].cur)]

\* The rates of the next memory: smoothed once per block number.
SmoothRates(top, ev, mem, first) ==
    [p \in DOMAIN ev |->
        IF p \notin DOMAIN mem.smooth THEN ev[p].cur
        ELSE IF first THEN Smoothed(top, mem.smooth[p], ev[p].cur)
        ELSE mem.smooth[p]]

RankingRates(ev, smooth) == [p \in DOMAIN ev |-> Min({ev[p].cur, ev[p].post, smooth[p]})]

RanksBefore(rank, p, q) == rank[p] > rank[q] \/ (rank[p] = rank[q] /\ p < q)

\* The k best markets, best first.
Ranked(rank, k) ==
    [i \in 1..k |-> CHOOSE p \in DOMAIN rank :
                       Cardinality({q \in DOMAIN rank : RanksBefore(rank, q, p)}) = i - 1]

Apy(rate) == Compounded(rate, 1)

BoostRequired(top, sel, rank) ==
    Apy(rank[sel[1]]) >
        (SumSeq([i \in 1..(Len(sel) - 1) |-> Apy(rank[sel[i + 1]])]) \div (Len(sel) - 1))
        + top.boostGap

\* The last of n parts takes the remainder of the whole.
Completed(parts, n, whole) ==
    [parts EXCEPT ![n] = whole - SumSeq([i \in 1..(n - 1) |-> parts[i]])]

\* effective_target_weights: a boosted leader leaves the rest in proportion.
Boosted(top, base) ==
    [i \in DOMAIN base |-> IF i = 1 THEN top.boost
                           ELSE ((Bps - top.boost) * base[i]) \div (Bps - base[1])]
Weights(top, sel, rank, base) ==
    IF BoostRequired(top, sel, rank) THEN Completed(Boosted(top, base), Len(sel), Bps) ELSE base
EffectiveWeights(top, sel, rank) ==
    Weights(top, sel, rank, IF Len(sel) = 3 THEN top.weights3 ELSE top.weights4)

\* target_allocations
ByMarket(sel, parts) == [p \in Range(sel) |-> parts[CHOOSE i \in DOMAIN sel : sel[i] = p]]
TargetAllocations(sel, direct, weights) ==
    ByMarket(sel, Completed([i \in DOMAIN sel |-> MulDivDown(direct, weights[i], Bps)],
                            Len(sel), direct))

Wanted(want, p) == IF p \in DOMAIN want THEN want[p] ELSE 0
Distance(x, y) == Monus(x, y) + Monus(y, x)

AllocationScore(held, want, direct) ==
    IF direct = 0 THEN 0
    ELSE MulDivDown(MapThenSumSet(LAMBDA p : Distance(held[p], Wanted(want, p)), DOMAIN held),
                    Wad, 2 * direct)

PortfolioAverage(held, mk, total) ==
    IF total = 0 THEN 0
    ELSE MapThenSumSet(LAMBDA p : held[p] * SupplyRate(mk[p]), DOMAIN held) \div total
PortfolioRate(held, mk) ==
    PortfolioAverage(held, mk, MapThenSumSet(LAMBDA p : held[p], DOMAIN held))

--------------------------------------------------------------------------
(* Membership. *)

\* market_transition_allowed: three thresholds on compounded yields.
TransitionAllowed(top, ev, rank, new, old) ==
    /\ Apy(rank[new]) >= Apy(rank[old]) + top.enter
    /\ Apy(ev[new].cur) >= Apy(ev[old].cur) + top.exit
    /\ Apy(ev[new].post) >= Apy(ev[old].post) + top.replace

FourthFits(c, v, rank, four, want) ==
    LET p == four[4]
    IN  /\ want[p] >= c.pos[p].min
        /\ v.assets[p] + v.ev[p].room >= want[p]
        /\ Monus(Apy(rank[four[1]]), Apy(rank[p])) <= c.top.gap4
FourthAllowed(c, v, rank, four) ==
    FourthFits(c, v, rank, four,
               TargetAllocations(four, v.direct, EffectiveWeights(c.top, four, rank)))

Desired(c, v, rank) ==
    IF Cardinality(DOMAIN v.ev) < 3 THEN <<>>
    ELSE Ranked(rank, IF Cardinality(DOMAIN v.ev) >= 4 /\ FourthAllowed(c, v, rank, Ranked(rank, 4))
                      THEN 4 ELSE 3)

\* Every replaced market and every promotion passes the transition gates.
ReplacementsAllowed(top, ev, rank, in, out) ==
    \A i \in DOMAIN in : TransitionAllowed(top, ev, rank, in[i], out[i])
ChangeAllowed(top, ev, rank, sel, want) ==
    /\ ReplacementsAllowed(top, ev, rank, SelectSeq(want, LAMBDA p : p \notin Range(sel)),
                                          SelectSeq(sel, LAMBDA p : p \notin Range(want)))
    /\ \A i \in DOMAIN want :
           (\E j \in DOMAIN sel : j > i /\ sel[j] = want[i]) =>
               TransitionAllowed(top, ev, rank, want[i], sel[i])

Proposal(c, v, rank, sel, want) ==
    IF \/ sel = <<>> \/ want = <<>>
       \/ ~(Range(sel) \subseteq DOMAIN v.ev)
       \/ Len(sel) # Len(want)
       \/ ChangeAllowed(c.top, v.ev, rank, sel, want)
    THEN want ELSE sel
ProposedMembership(c, v, rank, sel) == Proposal(c, v, rank, sel, Desired(c, v, rank))

--------------------------------------------------------------------------
(* observe_top_k_target *)

NoTarget == [sel |-> <<>>]

\* A mutant: another pending set inherits the time of the one before.
PendingKeepsClock(top, ev, mem, proposed, now) ==
    LET chosen == [mem EXCEPT !.sel = proposed, !.pend = <<>>, !.since = NoTime, !.gen = @ + 1]
        waiting == [mem EXCEPT !.pend = proposed, !.since = IF @ = NoTime THEN now ELSE @]
    IN  IF proposed = <<>> THEN mem
        ELSE IF proposed = mem.sel THEN [mem EXCEPT !.pend = <<>>, !.since = NoTime]
        ELSE IF ~(Range(mem.sel) \subseteq DOMAIN ev) \/ now >= waiting.since + top.window
        THEN chosen ELSE waiting

\* The memory once the block is seen: the pending set waits out its window,
\* unless a selected market has become ineligible.
Membership(top, ev, mem, proposed, now) ==
    LET chosen == [mem EXCEPT !.sel = proposed, !.pend = <<>>, !.since = NoTime, !.gen = @ + 1]
        waiting == IF mem.pend = proposed THEN mem
                   ELSE [mem EXCEPT !.pend = proposed, !.since = now]
    IN  IF proposed = <<>> THEN mem
        ELSE IF proposed = mem.sel THEN [mem EXCEPT !.pend = <<>>, !.since = NoTime]
        ELSE IF ~(Range(mem.sel) \subseteq DOMAIN ev) \/ now >= waiting.since + top.window
        THEN chosen ELSE waiting

Seen(c, v, mem, blk, now) ==
    [mem EXCEPT !.smooth = SmoothRates(c.top, v.ev, mem, mem.blk # blk), !.blk = blk,
                !.ts = IF mem.blk # blk THEN now ELSE @]

Resolved(c, v, seen, now, rank, proposed) ==
    [mem |-> Membership(c.top, v.ev, seen, proposed, now), proposed |-> proposed, rank |-> rank]
Judged(c, v, seen, now, rank) ==
    Resolved(c, v, seen, now, rank, ProposedMembership(c, v, rank, seen.sel))
ObserveSeen(c, v, seen, now) == Judged(c, v, seen, now, RankingRates(v.ev, seen.smooth))
Observe(c, v, mem, blk, now) == ObserveSeen(c, v, Seen(c, v, mem, blk, now), now)

\* The target of an observation, unless a set is still pending.
TargetFor(v, sel, want) ==
    [sel |-> sel, want |-> want, direct |-> v.direct, ev |-> v.ev,
     score |-> AllocationScore(v.assets, want, v.direct)]
Target(c, v, obs) ==
    IF obs.proposed = <<>> \/ obs.mem.pend # <<>> THEN NoTarget
    ELSE TargetFor(v, obs.mem.sel,
                   TargetAllocations(obs.mem.sel, v.direct,
                                     EffectiveWeights(c.top, obs.mem.sel, obs.rank)))

--------------------------------------------------------------------------
(* solve_top_k_capital_deployment: greedy over the target's deficits, in rank *)
(* order, with the caps the destinations share.                               *)

TopKAmount(c, s, tgt, head, left, p) ==
    Min({Monus(tgt.want[p], Expected(s, p)), c.pos[p].act, tgt.ev[p].room, CapLimited(c, s, p),
         left} \cup {head[id] : id \in CapsOf(c, p)})

TopKFilled(c, f, p, x) ==
    IF x < c.minAct THEN f
    ELSE [acts |-> Append(f.acts, Alloc(p, x)), left |-> f.left - x,
          head |-> [id \in DOMAIN f.head |->
                       IF id \in CapsOf(c, p) THEN f.head[id] - x ELSE f.head[id]]]
TopKFillOne(c, s, tgt, f, p) == TopKFilled(c, f, p, TopKAmount(c, s, tgt, f.head, f.left, p))

TopKFill(c, s, tgt, deployment) ==
    LET fill[i \in 0..Len(tgt.sel)] ==
            IF i = 0 THEN [acts |-> <<>>, left |-> deployment,
                           head |-> [id \in DOMAIN c.cap |-> CapHeadroom(c, s, id)]]
            ELSE TopKFillOne(c, s, tgt, fill[i - 1], tgt.sel[i])
    IN  fill[Len(tgt.sel)]

TopKCapitalFound(c, s, acts, st) ==
    IF Len(acts) > c.maxActs THEN Unfound(s, FALSE)
    ELSE IF st.ok /\ Served(c, s, st) /\ LossBounded(c, st)
    THEN [acts |-> acts, st |-> st, full |-> TRUE]
    ELSE Unfound(s, TRUE)
TopKCapitalActions(c, s, acts) == TopKCapitalFound(c, s, acts, Simulate(c, s, acts))

TopKDeploy(c, s, f, deployment) ==
    IF deployment < c.minAct \/ deployment - f.left < c.minAct THEN Unfound(s, TRUE)
    ELSE TopKCapitalActions(c, s,
             Deallocs(<<Wrapped>>, <<Monus(deployment - f.left, UnreservedIdle(s))>>) \o f.acts)
TopKCapital(c, s, tgt, deployment) == TopKDeploy(c, s, TopKFill(c, s, tgt, deployment), deployment)
SolveTopKCapital(c, s, tgt) ==
    TopKCapital(c, s, tgt, MulDivDown(Deployable(c, s), c.tranche, Bps))

--------------------------------------------------------------------------
(* solve_top_k_rebalance *)

TopKOut(c, s, tgt, p) ==
    Min({Monus(Expected(s, p), Wanted(tgt.want, p)), c.pos[p].act,
         Monus(Expected(s, p), c.pos[p].min)})
TopKIn(c, s, tgt, p) ==
    Min({Monus(tgt.want[p], Expected(s, p)), c.pos[p].act, tgt.ev[p].room})

TopKExcess(c, s, tgt) ==
    MapThenSumSet(LAMBDA p : Monus(Expected(s, p), Wanted(tgt.want, p)), Positions(c))
Fractions(c, tranche, excess) ==
    {x \in {tranche, tranche \div 2, tranche \div 4, c.minAct} : x \in c.minAct..excess}
TopKAmounts(c, s, tgt) ==
    Fractions(c, MulDivDown(TopKExcess(c, s, tgt), c.tranche, Bps), TopKExcess(c, s, tgt))

\* movement_action_candidates uses lattices of eight amounts, one bound each.
TopKSide(c, ends) ==
    [ps |-> ends.ps, maxs |-> ends.maxs,
     lats |-> [i \in DOMAIN ends.ps |->
                  Lattice([c EXCEPT !.limit = 8], ends.maxs[i], <<ends.maxs[i]>>)]]

TopKPairs(c, from, to, total, left) ==
    IF total = 0 THEN [all |-> {}, full |-> TRUE]
    ELSE Pairs([c EXCEPT !.sources = left, !.destinations = left], from, to, total, left)

\* What a rebalance must show: a better score, at a bounded cost in yield.
TopKImproves(c, s, tgt, st, held) ==
    /\ Monus(tgt.score, AllocationScore(held, tgt.want, tgt.direct)) >= c.top.minScore
    /\ Apy(PortfolioRate(held, st.mk)) + c.top.cost
         >= Apy(PortfolioRate(CurrentAssets(c, s), s.mk))

TopKKey(tgt, x, held) ==
    <<AllocationScore(held, tgt.want, tgt.direct), -PortfolioRate(held, x.st.mk), x.st.loss,
      Deallocated(x.acts), Len(x.acts), -x.amount>> \o x.pair.out \o x.pair.in

TopKCandidates(c, s, tgt, from, to, amount, pairs) ==
    {[acts |-> x.acts, st |-> x.st, key |-> TopKKey(tgt, x, CurrentAssets(c, x.st))] :
        x \in {x \in {[acts |-> y.acts, pair |-> y.pair, amount |-> amount,
                       st |-> Simulate(c, s, y.acts)] :
                         y \in {[acts |-> RateActions(from.ps, to.ps, pair), pair |-> pair] :
                                   pair \in pairs}} :
                  /\ x.acts # <<>> /\ Len(x.acts) <= c.maxActs
                  /\ x.st.ok /\ Served(c, s, x.st) /\ LossBounded(c, x.st)
                  /\ TopKImproves(c, s, tgt, x.st, CurrentAssets(c, x.st))}}

TopKTrial(c, s, tgt, from, to, amount, left, pairs) ==
    [n |-> Cardinality(pairs.all), full |-> left # 0 /\ pairs.full,
     found |-> TopKCandidates(c, s, tgt, from, to, amount, pairs.all)]

TopKBest(s, r) == BestOf(r.all, s, r.full)
TopKBetween(c, s, tgt, from, to, most) ==
    TopKBest(s, AllFound(Reverse(Ordered(TopKAmounts(c, s, tgt))), c.nodes,
                    LAMBDA x, left : TopKTrial(c, s, tgt, from, to, x, left,
                                               TopKPairs(c, from, to, Least(x, most), left))))
TopKSearch(c, s, tgt, outs, ins) ==
    TopKBetween(c, s, tgt, TopKSide(c, outs), TopKSide(c, ins),
                Least(SumSeq(outs.maxs), SumSeq(ins.maxs)))

SolveTopKRebalance(c, s, tgt) ==
    IF tgt.score <= c.top.target \/ tgt.score < c.top.entry THEN Unfound(s, TRUE)
    ELSE TopKSearch(c, s, tgt, Ends(Ordered(Positions(c)), LAMBDA p : TopKOut(c, s, tgt, p)),
                    Ends(Ordered(Range(tgt.sel)), LAMBDA p : TopKIn(c, s, tgt, p)))
============================================================================
