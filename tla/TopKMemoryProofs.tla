-------------------------- MODULE TopKMemoryProofs --------------------------
(* What the diversified strategy's memory guarantees, for every configuration, *)
(* every view a block may show, and every number of observers, blocks, rewinds *)
(* and retries. The ranking and the wanted set stay opaque: nothing depends on *)
(* how they are computed.                                                      *)
EXTENDS TopKMemory, WellFoundedInduction, TLAPS

\* The memory with the given fields, as a set of one element.
Fields(blk, ts, gen, sel, smooth, pend, since) ==
    [blk : {blk}, ts : {ts}, gen : {gen}, sel : {sel}, smooth : {smooth},
     pend : {pend}, since : {since}]

IsMemory(m) ==
    /\ m \in Fields(m.blk, m.ts, m.gen, m.sel, m.smooth, m.pend, m.since)
    /\ m.since \in Int

\* One rate per market of the evidence.
AreRates(f, ev) == f = [p \in DOMAIN ev |-> f[p]]

\* The fields make the memory.
LEMMA FieldsDetermine ==
  ASSUME NEW blk, NEW ts, NEW gen, NEW sel, NEW smooth, NEW pend, NEW since \in Int,
         NEW m \in Fields(blk, ts, gen, sel, smooth, pend, since)
  PROVE  /\ IsMemory(m)
         /\ m.blk = blk /\ m.ts = ts /\ m.gen = gen /\ m.sel = sel
         /\ m.smooth = smooth /\ m.pend = pend /\ m.since = since
         /\ \A n \in Fields(blk, ts, gen, sel, smooth, pend, since) : n = m
  BY DEF IsMemory, Fields

\* The updates observe_top_k_target makes.
LEMMA Updates ==
  ASSUME NEW m, IsMemory(m), NEW w, NEW x, NEW y, NEW z
  PROVE  /\ [m EXCEPT !.pend = x, !.since = y]
                \in Fields(m.blk, m.ts, m.gen, m.sel, m.smooth, x, y)
         /\ [m EXCEPT !.sel = w, !.pend = x, !.since = y, !.gen = z]
                \in Fields(m.blk, m.ts, z, w, m.smooth, x, y)
         /\ [m EXCEPT !.smooth = w, !.blk = x, !.ts = y]
                \in Fields(x, y, m.gen, m.sel, w, m.pend, m.since)
  BY Zenon DEF IsMemory, Fields

\* A seen block changes neither the sets nor the time one has waited.
LEMMA SeenFields ==
  ASSUME NEW c, NEW v, NEW m, IsMemory(m), NEW blk, NEW now
  PROVE  LET s == Seen(c, v, m, blk, now)
         IN  /\ IsMemory(s)
             /\ s.sel = m.sel /\ s.pend = m.pend /\ s.since = m.since /\ s.blk = blk
             /\ AreRates(s.smooth, v.ev)
<1> DEFINE s == Seen(c, v, m, blk, now)
           f == SmoothRates(c.top, v.ev, m, m.blk # blk)
           t == IF m.blk # blk THEN now ELSE m.ts
<1>1. s = [m EXCEPT !.smooth = f, !.blk = blk, !.ts = t]
  BY DEF Seen
<1> HIDE DEF s, f, t
<1>2. s \in Fields(blk, t, m.gen, m.sel, f, m.pend, m.since) /\ m.since \in Int
  BY Zenon, <1>1, Updates DEF IsMemory
<1>3. /\ IsMemory(s) /\ s.sel = m.sel /\ s.pend = m.pend /\ s.since = m.since /\ s.blk = blk
      /\ s.smooth = f
  BY <1>2, FieldsDetermine
<1>4. AreRates(f, v.ev)
  BY DEF f, SmoothRates, AreRates
<1> QED
  BY <1>3, <1>4 DEF s

\* Another set than before is the proposed one.
LEMMA MembershipShape ==
  ASSUME NEW top, NEW ev, NEW m, IsMemory(m), NEW proposed, NEW now \in Int,
         NEW r, r = Membership(top, ev, m, proposed, now)
  PROVE  IsMemory(r) /\ (r.sel # m.sel => r.sel = proposed /\ proposed # <<>>)
<1>1. r.sel # m.sel => r.sel = proposed /\ proposed # <<>>
  BY DEF Membership, IsMemory, Fields
<1>2. IsMemory(r)
  <2>1. NoTime \in Int
    BY DEF NoTime
  <2>2. \/ r = m
        \/ r \in Fields(m.blk, m.ts, m.gen, m.sel, m.smooth, <<>>, NoTime)
        \/ r \in Fields(m.blk, m.ts, m.gen, m.sel, m.smooth, proposed, now)
        \/ r \in Fields(m.blk, m.ts, m.gen + 1, proposed, m.smooth, <<>>, NoTime)
    BY Zenon DEF Membership, IsMemory, Fields
  <2> QED
    BY <2>1, <2>2, FieldsDetermine
<1> QED
  BY <1>1, <1>2

\* A set starts to wait now, or waited already; it replaces an eligible one
\* only when its window is over.
WindowOver(since, top, now) == now >= since + top.window

LEMMA MembershipFields ==
  ASSUME NEW top, NEW ev, NEW m, IsMemory(m), NEW proposed, NEW now \in Int,
         NEW r, r = Membership(top, ev, m, proposed, now)
  PROVE  /\ r.pend # <<>> => \/ r.pend = m.pend /\ r.since = m.since
                             \/ r.pend = proposed /\ r.since = now
         /\ r.sel # m.sel /\ Range(m.sel) \subseteq DOMAIN ev =>
               \/ m.pend = proposed /\ WindowOver(m.since, top, now)
               \/ WindowOver(now, top, now)
  BY DEF Membership, IsMemory, Fields, WindowOver

\* Nothing is left to do for a proposal that was just applied.
LEMMA MembershipTwice ==
  ASSUME NEW top, NEW ev, NEW m, IsMemory(m), NEW proposed, NEW again, NEW now,
         NEW r, r = Membership(top, ev, m, proposed, now),
         again = proposed \/ (again = r.sel /\ r.sel # m.sel)
  PROVE  Membership(top, ev, r, again, now) = r
  BY Zenon DEF Membership, IsMemory, Fields

\* observe_top_k_target in three steps: the block is seen, a set is proposed,
\* the pending set waits or is chosen.
LEMMA ObserveSteps ==
  ASSUME NEW c, NEW v, NEW m, NEW blk, NEW now
  PROVE  LET s == Seen(c, v, m, blk, now)
             rank == RankingRates(v.ev, s.smooth)
             obs == Observe(c, v, m, blk, now)
         IN  /\ obs.proposed = Proposal(c, v, rank, s.sel, Desired(c, v, rank))
             /\ obs.mem = Membership(c.top, v.ev, s, obs.proposed, now)
  BY DEF Observe, ObserveSeen, Judged, Resolved, ProposedMembership

\* A block that was seen is seen again without a change.
LEMMA SeenTwice ==
  ASSUME NEW c, NEW v, NEW m, IsMemory(m), NEW blk, NEW now, m.blk = blk,
         AreRates(m.smooth, v.ev)
  PROVE  Seen(c, v, m, blk, now) = m
<1>1. SmoothRates(c.top, v.ev, m, m.blk # blk) = m.smooth
  BY DEF SmoothRates, AreRates
<1>2. Seen(c, v, m, blk, now) = [m EXCEPT !.smooth = m.smooth, !.blk = m.blk, !.ts = m.ts]
  BY Zenon, <1>1 DEF Seen
<1>3. [m EXCEPT !.smooth = m.smooth, !.blk = m.blk, !.ts = m.ts]
         \in Fields(m.blk, m.ts, m.gen, m.sel, m.smooth, m.pend, m.since)
  BY Zenon, Updates
<1> QED
  BY <1>2, <1>3, FieldsDetermine DEF IsMemory

\* Membership leaves what the block set.
LEMMA MembershipKeeps ==
  ASSUME NEW top, NEW ev, NEW m, IsMemory(m), NEW proposed, NEW now,
         NEW r, r = Membership(top, ev, m, proposed, now)
  PROVE  r.blk = m.blk /\ r.smooth = m.smooth
  BY DEF Membership, IsMemory, Fields

\* The second observation of a block changes nothing: the proposal it derives
\* is the first's, or the set the first has just chosen.
LEMMA ObserveTwice ==
  ASSUME NEW c, NEW v, NEW m, IsMemory(m), NEW blk, NEW now \in Int, c.top.window \in Int
  PROVE  LET r == Observe(c, v, m, blk, now).mem
         IN  Observe(c, v, r, blk, now).mem = r
<1> DEFINE s == Seen(c, v, m, blk, now)
           rank == RankingRates(v.ev, s.smooth)
           want == Desired(c, v, rank)
           p == Observe(c, v, m, blk, now).proposed
           r == Observe(c, v, m, blk, now).mem
           q == Observe(c, v, r, blk, now).proposed
<1>1. /\ IsMemory(s) /\ s.sel = m.sel /\ s.blk = blk
      /\ AreRates(s.smooth, v.ev)
  BY SeenFields
<1>2. p = Proposal(c, v, rank, s.sel, want)
  BY ObserveSteps
<1>3. r = Membership(c.top, v.ev, s, p, now)
  BY ObserveSteps
<1> HIDE DEF s, p, r
<1>4. r.blk = blk /\ r.smooth = s.smooth
  BY <1>1, <1>3, MembershipKeeps
<1>5. IsMemory(r) /\ (r.sel # s.sel => r.sel = p /\ p # <<>>)
  <2>1. IsMemory(s)
    BY <1>1
  <2> HIDE DEF rank, want, q
  <2> QED
    BY <1>3, <2>1, MembershipShape
<1>6. Seen(c, v, r, blk, now) = r
  BY ZenonT(30), <1>1, <1>4, <1>5, SeenTwice
<1>7. /\ q = Proposal(c, v, rank, r.sel, want)
      /\ Observe(c, v, r, blk, now).mem = Membership(c.top, v.ev, r, q, now)
  BY <1>4, <1>6, ObserveSteps
<1> HIDE DEF q, rank, want
<1>8. q = p \/ (q = r.sel /\ r.sel # s.sel)
  BY <1>2, <1>5, <1>7 DEF Proposal
<1>9. Membership(c.top, v.ev, r, q, now) = r
  BY <1>1, <1>3, <1>8, MembershipTwice
<1> QED
  BY <1>7, <1>9 DEF r

--------------------------------------------------------------------------
(* The store and the observers. *)

\* LoadTopKApyMemory finds a stored memory, for the numbers are bounded.
LEMMA LatestStored ==
  ASSUME NEW T, T # {}, NEW B \in Nat, \A e \in T : e.blk \in 0..B
  PROVE  Latest(T) \in T
<1> DEFINE S == {B - e.blk : e \in T}
           R == OpToRel(<, Nat)
<1>1. S \subseteq Nat /\ S # {}
  OBVIOUS
<1>2. \E x \in S : \A y \in S : <<y, x>> \notin R
  <2> HIDE DEF S
  <2> QED BY ZenonT(30), <1>1, NatLessThanWellFounded, WFMin
<1>3. PICK x \in S : \A y \in S : <<y, x>> \notin R
  BY Zenon, <1>2
<1>4. PICK e \in T : x = B - e.blk
  BY Zenon, <1>3
<1>5. ASSUME NEW f \in T PROVE f.blk <= e.blk
  <2>1. <<B - f.blk, B - e.blk>> \notin R
    BY Zenon, <1>3, <1>4
  <2>2. B - f.blk \in Nat /\ B - e.blk \in Nat
    OBVIOUS
  <2>3. ~(B - f.blk < B - e.blk)
    BY <2>1, <2>2 DEF OpToRel
  <2> QED BY <2>2, <2>3
<1> QED
  BY <1>5 DEF Latest

Block == [n : Nat, t : Nat, view : Views]

\* The set that a memory waits for was proposed when the wait began.
Backed(m) ==
    /\ IsMemory(m)
    /\ m.pend # <<>> => \E p \in seen : p.set = m.pend /\ p.t <= m.since

Confirmed(j) ==
    j.mem.sel # j.old /\ Range(j.old) \subseteq DOMAIN j.block.view.ev =>
        \E p \in seen : p.set = j.mem.sel /\ p.t + TopKConfig.top.window <= j.block.t

MemoryInv ==
    /\ chain \in Seq(Block) /\ held \subseteq Block
    /\ \A p \in seen : p.t \in Nat
    /\ \E B \in Nat : \A e \in table : e.blk \in 0..B
    /\ \A e \in table : Backed(e)
    /\ job = [o \in Observers |-> job[o]]
    /\ \A o \in Observers : job[o] # NoJob =>
          /\ Backed(job[o].mem) /\ job[o].mem.blk \in Nat
          /\ Confirmed(job[o])
          /\ ObserveAt(job[o].mem, job[o].block).mem = job[o].mem

LEMMA MemoryInvImplies == MemoryInv => ChangeIsConfirmed /\ ObservedOnce
  BY DEF MemoryInv, ChangeIsConfirmed, ObservedOnce, Observed, Confirmed

LEMMA FreshIsMemory == IsMemory(FreshMemory)
  BY DEF FreshMemory, IsMemory, Fields, NoTime

\* What an observation of a block gives from any memory.
LEMMA ObservedFields ==
  ASSUME NEW m, IsMemory(m), NEW b \in Block, NEW obs, obs = ObserveAt(m, b)
  PROVE  LET r == obs.mem
         IN  /\ IsMemory(r) /\ r.blk = b.n
             /\ r.pend # <<>> => \/ r.pend = m.pend /\ r.since = m.since
                                 \/ r.pend = obs.proposed /\ r.since = b.t
             /\ r.sel # m.sel => r.sel = obs.proposed /\ obs.proposed # <<>>
             /\ r.sel # m.sel /\ Range(m.sel) \subseteq DOMAIN b.view.ev =>
                   \/ m.pend = obs.proposed /\ WindowOver(m.since, TopKConfig.top, b.t)
                   \/ WindowOver(b.t, TopKConfig.top, b.t)
             /\ ObserveAt(r, b).mem = r
<1> DEFINE s == Seen(TopKConfig, b.view, m, b.n, b.t)
           top == TopKConfig.top
           p == obs.proposed
           r == obs.mem
<1>1. b.n \in Nat /\ b.t \in Int /\ top.window \in Int
  BY MemoryAssumption DEF Block
<1>2. IsMemory(s) /\ s.sel = m.sel /\ s.pend = m.pend /\ s.since = m.since /\ s.blk = b.n
  BY SeenFields
<1>3. r = Membership(top, b.view.ev, s, p, b.t)
  BY ObserveSteps DEF ObserveAt
<1>4. ObserveAt(r, b).mem = r
  BY <1>1, ObserveTwice DEF ObserveAt
<1> HIDE DEF s, p, r, top
<1>5. r.blk = b.n
  BY <1>2, <1>3, MembershipKeeps
<1>6. IsMemory(r) /\ (r.sel # s.sel => r.sel = p /\ p # <<>>)
  BY <1>1, <1>2, <1>3, MembershipShape
<1>7. /\ r.pend # <<>> => \/ r.pend = s.pend /\ r.since = s.since
                          \/ r.pend = p /\ r.since = b.t
      /\ r.sel # s.sel /\ Range(s.sel) \subseteq DOMAIN b.view.ev =>
            \/ s.pend = p /\ WindowOver(s.since, top, b.t)
            \/ WindowOver(b.t, top, b.t)
  BY <1>1, <1>2, <1>3, MembershipFields
<1> QED
  BY <1>2, <1>4, <1>5, <1>6, <1>7 DEF r, p, top

CurrentRates(ev) == [p \in DOMAIN ev |-> ev[p].cur]

\* smoothed_rate: a rate that did not move is its own average.
LEMMA SteadyRates ==
  ASSUME NEW c, NEW v \in Views, NEW m, IsMemory(m), NEW blk, NEW now,
         m.smooth = <<>> \/ m.smooth = CurrentRates(v.ev)
  PROVE  Seen(c, v, m, blk, now).smooth = CurrentRates(v.ev)
<1> DEFINE f == SmoothRates(c.top, v.ev, m, m.blk # blk)
<1>1. \A p \in DOMAIN v.ev : v.ev[p].cur \in Nat
  BY MemoryAssumption
<1>2. \A p \in DOMAIN v.ev : Smoothed(c.top, v.ev[p].cur, v.ev[p].cur) = v.ev[p].cur
  BY <1>1 DEF Smoothed
<1>3. CASE m.smooth = <<>>
  <2>1. f = CurrentRates(v.ev)
    BY <1>3 DEF SmoothRates, CurrentRates
  <2> QED BY <2>1 DEF Seen, IsMemory, Fields
<1>4. CASE m.smooth = CurrentRates(v.ev)
  <2>1. f = CurrentRates(v.ev)
    BY SMTT(30), <1>2, <1>4 DEF SmoothRates, CurrentRates
  <2> QED BY <2>1 DEF Seen, IsMemory, Fields
<1> QED
  BY <1>3, <1>4

\* The second of two equal blocks proposes what the first proposed.
LEMMA SameProposal ==
  ASSUME NEW b1 \in Block, NEW b2 \in Block, b1.view = b2.view,
         NEW one, one = ObserveAt(FreshMemory, b1), NEW two, two = ObserveAt(one.mem, b2),
         IsMemory(one.mem), one.mem.sel # <<>> => one.mem.sel = one.proposed
  PROVE  two.proposed = one.proposed
<1> DEFINE c == TopKConfig
           v == b1.view
           s1 == Seen(c, v, FreshMemory, b1.n, b1.t)
           s2 == Seen(c, v, one.mem, b2.n, b2.t)
           rank == RankingRates(v.ev, CurrentRates(v.ev))
<1>1. v \in Views
  BY DEF Block
<1>2. FreshMemory.smooth = <<>> /\ FreshMemory.sel = <<>>
  BY SMTT(30) DEF FreshMemory
<1>3. s1.smooth = CurrentRates(v.ev) /\ IsMemory(s1) /\ s1.sel = <<>>
  BY <1>1, <1>2, FreshIsMemory, SteadyRates, SeenFields
<1>4. /\ one.proposed = Proposal(c, v, RankingRates(v.ev, s1.smooth), s1.sel,
                                 Desired(c, v, RankingRates(v.ev, s1.smooth)))
      /\ one.mem = Membership(c.top, v.ev, s1, one.proposed, b1.t)
  BY ObserveSteps DEF ObserveAt
<1>5. one.mem.smooth = CurrentRates(v.ev)
  <2> HIDE DEF s1, v, c
  <2> QED BY SMTT(30), <1>3, <1>4, MembershipKeeps
<1>6. s2.smooth = CurrentRates(v.ev) /\ s2.sel = one.mem.sel
  BY <1>1, <1>5, SteadyRates, SeenFields
<1>7. two.proposed = Proposal(c, v, RankingRates(v.ev, s2.smooth), s2.sel,
                              Desired(c, v, RankingRates(v.ev, s2.smooth)))
  BY ObserveSteps DEF ObserveAt
<1> HIDE DEF s1, s2, c, v
<1>8. one.proposed = Proposal(c, v, rank, <<>>, Desired(c, v, rank))
  BY <1>3, <1>4
<1>9. two.proposed = Proposal(c, v, rank, one.mem.sel, Desired(c, v, rank))
  BY <1>6, <1>7
<1> HIDE DEF rank
<1> QED
  BY SMTT(30), <1>8, <1>9 DEF Proposal

LEMMA ObservedWait ==
  ASSUME NEW m, IsMemory(m), NEW b \in Block, NEW obs, obs = ObserveAt(m, b)
  PROVE  /\ IsMemory(obs.mem) /\ obs.mem.blk = b.n
         /\ obs.mem.pend # <<>> => \/ obs.mem.pend = m.pend /\ obs.mem.since = m.since
                                   \/ obs.mem.pend = obs.proposed /\ obs.mem.since = b.t
         /\ obs.mem.sel # m.sel => obs.mem.sel = obs.proposed
  BY SMTT(30), ObservedFields

LEMMA InitMemory == MemoryInit => MemoryInv
<1> SUFFICES ASSUME MemoryInit PROVE MemoryInv
  OBVIOUS
<1> DEFINE b1 == FirstBlock(1)
           b2 == FirstBlock(2)
           one == ObserveAt(FreshMemory, b1)
           two == ObserveAt(one.mem, b2)
<1>1. b1 \in Block /\ b2 \in Block /\ b1.n = 1 /\ b2.n = 2 /\ b1.view = b2.view
      /\ b1.view \in Views
  BY MemoryAssumption DEF FirstBlock, Block
<1>2. /\ table = {one.mem, two.mem} /\ seen = {[set |-> one.proposed, t |-> b1.t]}
      /\ chain = <<b1, b2>> /\ held = {b2} /\ job = [o \in Observers |-> NoJob]
  BY DEF MemoryInit, Remembered
<1>3. /\ IsMemory(one.mem) /\ one.mem.blk = 1
      /\ one.mem.pend # <<>> => one.mem.pend = one.proposed /\ one.mem.since = b1.t
      /\ one.mem.sel # <<>> => one.mem.sel = one.proposed
  <2>1. FreshMemory.pend = <<>> /\ FreshMemory.sel = <<>>
    BY DEF FreshMemory
  <2> HIDE DEF b1, one
  <2>2. one = ObserveAt(FreshMemory, b1)
    BY DEF one
  <2>3. b1 \in Block /\ b1.n = 1
    BY Zenon, <1>1
  <2> QED
    BY SMTT(30), <2>1, <2>2, <2>3, FreshIsMemory, ObservedWait
<1>4. /\ IsMemory(two.mem) /\ two.mem.blk = 2
      /\ two.mem.pend # <<>> => \/ two.mem.pend = one.mem.pend /\ two.mem.since = one.mem.since
                                \/ two.mem.pend = two.proposed /\ two.mem.since = b2.t
  <2> HIDE DEF b2, one, two
  <2>2. two = ObserveAt(one.mem, b2)
    BY DEF two
  <2>3. IsMemory(one.mem) /\ b2 \in Block /\ b2.n = 2
    BY Zenon, <1>1, <1>3
  <2>4. /\ IsMemory(two.mem) /\ two.mem.blk = b2.n
        /\ two.mem.pend # <<>> => \/ two.mem.pend = one.mem.pend /\ two.mem.since = one.mem.since
                                  \/ two.mem.pend = two.proposed /\ two.mem.since = b2.t
    BY SMTT(30), <2>2, <2>3, ObservedWait
  <2> QED
    BY Zenon, <2>3, <2>4
<1>5. two.proposed = one.proposed
  <2> HIDE DEF b1, b2
  <2> QED BY <1>1, <1>3, SameProposal
<1>6. b1.t \in Nat /\ b2.t \in Nat /\ b1.t <= b2.t
  BY MemoryAssumption DEF FirstBlock
<1> HIDE DEF b1, b2, one, two
<1>7. [set |-> one.proposed, t |-> b1.t] \in seen
  BY <1>2
<1>8. Backed(one.mem)
  BY <1>3, <1>6, <1>7 DEF Backed
<1>9. Backed(two.mem)
  BY <1>3, <1>4, <1>5, <1>6, <1>7 DEF Backed
<1>10. \A e \in table : e.blk \in 0..2
  BY SMTT(30), <1>2, <1>3, <1>4
<1>11. chain \in Seq(Block) /\ held \subseteq Block /\ \A p \in seen : p.t \in Nat
  BY <1>1, <1>2, <1>6
<1> QED
  BY <1>2, <1>8, <1>9, <1>10, <1>11 DEF MemoryInv

\* What is proposed stays proposed.
LEMMA BackedStays ==
  ASSUME NEW m, Backed(m), seen \subseteq seen' PROVE Backed(m)'
  BY DEF Backed

\* An observer that saw a block from a backed memory.
LEMMA LookedInv ==
  ASSUME MemoryInv, NEW o \in Observers, NEW b \in held, NEW old, Backed(old),
         Looked(o, b, old, ObserveAt(old, b)), UNCHANGED <<chain, held, table>>
  PROVE  MemoryInv'
<1> DEFINE obs == ObserveAt(old, b)
           j == [block |-> b, old |-> old.sel, mem |-> obs.mem]
<1>1. b \in Block /\ IsMemory(old) /\ b.t \in Nat /\ b.n \in Nat
  BY DEF MemoryInv, Backed, Block
<1>2. /\ job' = [job EXCEPT ![o] = j] /\ seen \subseteq seen'
      /\ \A p \in seen' : p.t \in Nat
      /\ \E p \in seen' : p.set = obs.proposed /\ p.t <= b.t
  <2>1. job' = [job EXCEPT ![o] = j]
    BY DEF Looked
  <2>2. CASE \E p \in seen : p.set = obs.proposed /\ p.t <= b.t
    BY <2>1, <2>2 DEF Looked, MemoryInv
  <2>3. CASE seen' = seen \cup {[set |-> obs.proposed, t |-> b.t]}
    <3>1. [set |-> obs.proposed, t |-> b.t] \in seen' /\ seen \subseteq seen'
      BY <2>3
    <3>2. \A p \in seen' : p \in seen \/ p = [set |-> obs.proposed, t |-> b.t]
      BY <2>3
    <3>3. /\ [set |-> obs.proposed, t |-> b.t].t = b.t
          /\ [set |-> obs.proposed, t |-> b.t].set = obs.proposed
      OBVIOUS
    <3>4. \A p \in seen' : p.t \in Nat
      BY <1>1, <3>2, <3>3 DEF MemoryInv
    <3>5. b.t <= b.t
      BY <1>1
    <3> QED
      BY <2>1, <3>1, <3>3, <3>4, <3>5
  <2> QED
    BY <2>2, <2>3 DEF Looked
<1>3. /\ IsMemory(obs.mem) /\ obs.mem.blk = b.n
      /\ obs.mem.pend # <<>> => \/ obs.mem.pend = old.pend /\ obs.mem.since = old.since
                                \/ obs.mem.pend = obs.proposed /\ obs.mem.since = b.t
      /\ obs.mem.sel # old.sel => obs.mem.sel = obs.proposed /\ obs.proposed # <<>>
      /\ obs.mem.sel # old.sel /\ Range(old.sel) \subseteq DOMAIN b.view.ev =>
            \/ old.pend = obs.proposed /\ WindowOver(old.since, TopKConfig.top, b.t)
            \/ WindowOver(b.t, TopKConfig.top, b.t)
      /\ ObserveAt(obs.mem, b).mem = obs.mem
  BY SMTT(30), <1>1, ObservedFields
<1> HIDE DEF obs
<1>4. Backed(obs.mem)'
  BY <1>2, <1>3 DEF Backed
<1>5. Confirmed(j)'
  <2>1. SUFFICES ASSUME obs.mem.sel # old.sel, Range(old.sel) \subseteq DOMAIN b.view.ev
                 PROVE  \E p \in seen' : /\ p.set = obs.mem.sel
                                         /\ p.t + TopKConfig.top.window <= b.t
    BY DEF Confirmed
  <2>2. TopKConfig.top.window \in Nat /\ old.since \in Int
    BY <1>1, MemoryAssumption DEF IsMemory
  <2>3. CASE old.pend = obs.proposed /\ WindowOver(old.since, TopKConfig.top, b.t)
    <3>1. PICK p \in seen : p.set = old.pend /\ p.t <= old.since
      BY <1>3, <2>1, <2>3 DEF Backed
    <3>2. p.t \in Nat
      BY DEF MemoryInv
    <3>3. p.t + TopKConfig.top.window <= b.t
      BY <1>1, <2>2, <2>3, <3>1, <3>2 DEF WindowOver
    <3> QED
      BY <1>2, <1>3, <2>1, <2>3, <3>1, <3>3
  <2>4. CASE WindowOver(b.t, TopKConfig.top, b.t)
    <3>1. PICK p \in seen' : p.set = obs.proposed /\ p.t <= b.t
      BY <1>2
    <3>2. p.t \in Nat
      BY <1>2
    <3>3. p.t + TopKConfig.top.window <= b.t
      BY <1>1, <2>2, <2>4, <3>1, <3>2 DEF WindowOver
    <3> QED
      BY <1>3, <2>1, <3>1, <3>3
  <2> QED
    BY <1>3, <2>1, <2>3, <2>4
<1>6. ASSUME NEW i \in Observers, job'[i] # NoJob
      PROVE  /\ Backed(job[i].mem)' /\ job'[i].mem.blk \in Nat /\ Confirmed(job[i])'
             /\ ObserveAt(job'[i].mem, job'[i].block).mem = job'[i].mem
  <2>1. CASE i = o
    <3>1. job'[i] = j
      BY <1>2, <2>1 DEF MemoryInv
    <3>2. j.mem = obs.mem /\ j.block = b
      OBVIOUS
    <3> HIDE DEF j
    <3> QED
      BY <1>1, <1>3, <1>4, <1>5, <3>1, <3>2
  <2>2. CASE i # o
    <3>1. job'[i] = job[i]
      BY <1>2, <2>2 DEF MemoryInv
    <3>2. /\ Backed(job[i].mem) /\ job[i].mem.blk \in Nat /\ Confirmed(job[i])
          /\ ObserveAt(job[i].mem, job[i].block).mem = job[i].mem
      BY <1>6, <3>1 DEF MemoryInv
    <3> QED
      BY <1>2, <3>1, <3>2 DEF Backed, Confirmed
  <2> QED
    BY <2>1, <2>2
<1>7. job' = [i \in Observers |-> job'[i]]
  BY <1>2 DEF MemoryInv
<1>8. \A e \in table' : Backed(e)'
  BY <1>2 DEF MemoryInv, Backed
<1> QED
  BY <1>2, <1>6, <1>7, <1>8 DEF MemoryInv

LEMMA MemoryStep == MemoryInv /\ [MemoryNext]_memoryVars => MemoryInv'
<1> SUFFICES ASSUME MemoryInv, [MemoryNext]_memoryVars PROVE MemoryInv'
  OBVIOUS
<1>1. ASSUME NEW v \in Views, NEW span \in 1..MaxSpan, NewBlock(v, span) PROVE MemoryInv'
  <2> DEFINE t == span + IF chain = <<>> THEN 0 ELSE chain[Len(chain)].t
             b == [n |-> Len(chain) + 1, t |-> t, view |-> v]
  <2>1. chain' = Append(chain, b) /\ held' = held \cup {b} /\ UNCHANGED <<table, job, seen>>
    BY <1>1 DEF NewBlock
  <2>2. Len(chain) \in Nat /\ (chain # <<>> => chain[Len(chain)] \in Block)
    BY DEF MemoryInv
  <2>3. t \in Nat
    BY <2>2, MemoryAssumption DEF Block
  <2>4. b \in Block
    BY <2>2, <2>3 DEF Block
  <2> HIDE DEF b, t
  <2>5. chain' \in Seq(Block) /\ held' \subseteq Block
    BY SMTT(30), <2>1, <2>4 DEF MemoryInv
  <2> QED
    BY SMTT(30), <2>1, <2>5 DEF MemoryInv, Backed, Confirmed
<1>2. ASSUME NEW k \in 0..(MaxBlocks + 1), RewindMemory(k) PROVE MemoryInv'
  <2>1. /\ chain' = SubSeq(chain, 1, k) /\ k < Len(chain) /\ k \in Nat
        /\ table' \subseteq table /\ UNCHANGED <<held, job, seen>>
    BY <1>2, MemoryAssumption DEF RewindMemory, KeptMemory
  <2>2. chain' \in Seq(Block)
    BY <2>1 DEF MemoryInv
  <2>3. \E B \in Nat : \A e \in table' : e.blk \in 0..B
    BY <2>1 DEF MemoryInv
  <2> QED
    BY ZenonT(30), <2>1, <2>2, <2>3 DEF MemoryInv, Backed, Confirmed
<1>3. ASSUME NEW o \in Observers, NEW b \in held, ObserveBlock(o, b) PROVE MemoryInv'
  <2>1. Backed(Latest(table))
    <3>1. CASE table = {}
      BY <3>1, FreshIsMemory DEF Latest, FreshMemory, Backed
    <3>2. CASE table # {}
      BY SMTT(30), <3>2, LatestStored DEF MemoryInv
    <3> QED
      BY <3>1, <3>2
  <2> QED
    BY <1>3, <2>1, LookedInv DEF ObserveBlock
<1>4. ASSUME NEW o \in Observers, PersistMemory(o) PROVE MemoryInv'
  <2> DEFINE m == job[o].mem
  <2>1. /\ table' = {e \in table : e.blk # m.blk} \cup {m}
        /\ job' = [job EXCEPT ![o] = NoJob] /\ UNCHANGED <<chain, held, seen>>
    BY <1>4 DEF PersistMemory
  <2>2. Backed(m) /\ m.blk \in Nat
    BY <1>4 DEF PersistMemory, MemoryInv
  <2> HIDE DEF m
  <2>3. \E B \in Nat : \A e \in table' : e.blk \in 0..B
    <3>1. PICK B \in Nat : \A e \in table : e.blk \in 0..B
      BY DEF MemoryInv
    <3>2. \A e \in table' : e.blk \in 0..(B + m.blk)
      BY <2>1, <2>2, <3>1
    <3>3. B + m.blk \in Nat
      BY <2>2
    <3> QED
      BY <3>2, <3>3
  <2>4. \A e \in table' : Backed(e)'
    BY <2>1, <2>2 DEF MemoryInv, Backed
  <2>5. \A i \in Observers : job'[i] = NoJob \/ job'[i] = job[i]
    BY <2>1 DEF MemoryInv
  <2>6. job' = [i \in Observers |-> job'[i]]
    BY SMTT(30), <2>1 DEF MemoryInv
  <2> QED
    BY Zenon, <2>1, <2>3, <2>4, <2>5, <2>6 DEF MemoryInv, Backed, Confirmed
<1>5. ASSUME NEW o \in Observers, AbandonMemory(o) PROVE MemoryInv'
  <2>1. job' = [job EXCEPT ![o] = NoJob] /\ UNCHANGED <<chain, held, table, seen>>
    BY <1>5 DEF AbandonMemory
  <2>2. \A i \in Observers : job'[i] = NoJob \/ job'[i] = job[i]
    BY <2>1 DEF MemoryInv
  <2>3. job' = [i \in Observers |-> job'[i]]
    BY <2>1 DEF MemoryInv
  <2> QED
    BY ZenonT(30), <2>1, <2>2, <2>3 DEF MemoryInv, Backed, Confirmed
<1>6. CASE UNCHANGED memoryVars
  BY <1>6 DEF memoryVars, MemoryInv, Backed, Confirmed
<1> QED
  BY <1>1, <1>2, <1>3, <1>4, <1>5, <1>6 DEF MemoryNext

\* membership_confirmed (top_k_apy.rs): whatever configuration, views, observers,
\* retries and rewinds, a set of markets replaces one that is still eligible only
\* after it was proposed at a block at least the confirmation window earlier.
THEOREM ChangesAreConfirmed == MemorySpec => []ChangeIsConfirmed
<1>1. MemoryInit => MemoryInv
  BY InitMemory
<1>2. MemoryInv /\ [MemoryNext]_memoryVars => MemoryInv'
  BY MemoryStep
<1>3. MemoryInv => ChangeIsConfirmed
  BY MemoryInvImplies
<1> QED
  BY <1>1, <1>2, <1>3, PTL DEF MemorySpec

\* observe_top_k_target (top_k_apy.rs): planner, preflight and recovery may all
\* observe one block; the second observation changes neither the smoothed rates,
\* nor the pending set and its clock, nor the selection and its generation.
THEOREM BlocksCountOnce == MemorySpec => []ObservedOnce
<1>1. MemoryInit => MemoryInv
  BY InitMemory
<1>2. MemoryInv /\ [MemoryNext]_memoryVars => MemoryInv'
  BY MemoryStep
<1>3. MemoryInv => ObservedOnce
  BY MemoryInvImplies
<1> QED
  BY <1>1, <1>2, <1>3, PTL DEF MemorySpec
============================================================================
