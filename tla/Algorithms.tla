----------------------------- MODULE Algorithms -----------------------------
(* Instances of the algorithm modules for one run. *)
EXTENDS PlannerLoop, TopKMemory

Position == [mode |-> "Active", min |-> 0, max |-> 12, act |-> 6, minLiq |-> 0, maxUtil |-> 100,
             dust |-> 1, exit |-> TRUE, col |-> -2, relEntry |-> 2, relExit |-> 1, seed |-> 1,
             relSupply |-> 1, relBorrow |-> 0]

Caps(n, abs, rel) == [id \in -2..n |-> [abs |-> IF id > 0 THEN abs ELSE 40, rel |-> rel]]

Config(n, path) ==
    [pos |-> [p \in 1..n |-> Position], path |-> path, cap |-> Caps(n, 14, 100),
     growth |-> 4, horizon |-> 1, upper |-> 12, minActive |-> 1, minTok |-> 0,
     groupMin |-> 0, groupMax |-> 60, minLiq |-> 0, minHead |-> 0, minExit |-> 0,
     liqAct |-> 6, sacrifice |-> 0, maxLoss |-> 2, minAct |-> 2, limit |-> 16, nodes |-> 300,
     sources |-> 60, destinations |-> 60, maxActs |-> 4, strict |-> FALSE, dust |-> 0,
     tolerance |-> 0, minImprove |-> 1, target |-> 10, tranche |-> 10, entry |-> 20,
     diversified |-> FALSE, top |-> <<>>]

\* A vault that holds half of every market, at two shares an asset.
State(n, borrowed, idle) ==
    [mk |-> [p \in 1..n |-> [a |-> 10, s |-> 20, b |-> borrowed[p]]],
     sh |-> [p \in 1..n |-> 10],
     cap |-> [id \in -2..n |-> IF id > 0 THEN 5 ELSE IF id = 0 THEN 6 ELSE 5 * n],
     liq |-> [a |-> 6, s |-> 12, bal |-> 12, dep |-> 8, wd |-> 6, ma |-> 6, ms |-> 12, msh |-> 12],
     idle |-> idle, locked |-> 0, tok |-> 6 + SumSeq([p \in 1..n |-> 10 - borrowed[p]]),
     stored |-> idle + 6 + 5 * n, supply |-> 2 * (idle + 6 + 5 * n), first |-> NoTotal, loss |-> 0,
     ok |-> TRUE]

WrappedPath ==
    [cfg |-> [Config(2, Wrapped) EXCEPT !.minLiq = 3, !.minExit = 4, !.minHead = 2],
     s |-> State(2, <<3, 7>>, 1)]

DirectPath ==
    [cfg |-> [Config(2, 1) EXCEPT !.minExit = 3, !.minHead = 2, !.pos[1].min = 2],
     s |-> State(2, <<5, 8>>, 0)]

ThreeMarkets ==
    [cfg |-> [Config(3, NoPath) EXCEPT !.pos[1].mode = "SourceOnly"],
     s |-> State(3, <<2, 5, 9>>, 0)]

Settings == [weights3 |-> <<5, 3, 2>>, weights4 |-> <<4, 3, 2, 1>>, boost |-> 6, boostGap |-> 20,
             gap4 |-> 10, enter |-> 2, exit |-> 2, replace |-> 1, alpha |-> 5, probe |-> 1,
             window |-> 1, target |-> 5, entry |-> 10, minScore |-> 3, cost |-> 5]

Diversified ==
    [cfg |-> [Config(4, Wrapped) EXCEPT !.diversified = TRUE, !.top = Settings, !.tranche = 5],
     s |-> State(4, <<2, 5, 7, 8>>, 3)]

AllScenarios == {WrappedPath, DirectPath, ThreeMarkets, Diversified}

--------------------------------------------------------------------------
(* What a block may show of four markets that hold five units each. *)

View(rates) ==
    [ev |-> [p \in {p \in 1..4 : rates[p] # 0} |->
                [cur |-> rates[p], post |-> rates[p] - 1, room |-> 5]],
     assets |-> [p \in 1..4 |-> 5], direct |-> 20]

\* The first leads, the last leads, the first is gone.
LeadingView == View(<<20, 18, 16, 2>>)
MemoryViews == {LeadingView, View(<<8, 12, 16, 20>>), View(<<0, 18, 16, 12>>)}

MemoryConfig == [Diversified.cfg EXCEPT !.top.window = 1]

--------------------------------------------------------------------------
(* One component moves in a behaviour; the others keep their initial state. *)

VARIABLE part

ObserverSymmetry == Permutations(Observers)

vars == <<part, loopVars, memoryVars>>

Init ==
    /\ part \in {"loop", "memory"}
    /\ LoopInit /\ MemoryInit
    /\ part # "loop" => cfg = WrappedPath.cfg

Next ==
    /\ part' = part
    /\ \/ part = "loop" /\ LoopNext /\ UNCHANGED memoryVars
       \/ part = "memory" /\ MemoryNext /\ UNCHANGED loopVars

Spec == Init /\ [][Next]_vars
============================================================================
