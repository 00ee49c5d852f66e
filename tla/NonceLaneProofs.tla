-------------------------- MODULE NonceLaneProofs --------------------------
(***************************************************************************)
(* The composed lane, for every number of rows, budget, bound and failure: *)
(* its types, durability before broadcast, and the canonicity of what is   *)
(* confirmed; and, without reorganisations, a single lane owner.           *)
(***************************************************************************)
EXTENDS NonceLane, TxStoreProofs, FiniteSetTheorems

\* The provider's chain is linked by height.
ChainLinked == \A i \in DOMAIN chain : Height(chain[i]) = i

\* What a tick carries between two storage commands.
JobFor(step, j) ==
    /\ step \notin {"idle", "plan", "reserve"} =>
          /\ j.r \in Row
          /\ j.st \notin Unsigned => kinds[j.r] # <<>>
    /\ step = "observe" => j.blk = 0
    /\ step = "commit" =>
          /\ j.aim = "Included" => j.blk \in BlockId /\ OwnSuccess(j.r, j.blk)
          /\ j.aim = "Confirmed" => j.blk = 0
          /\ j.st = "NonceReserved"
                => j.aim \in {"AbortedBeforeSigning", "ForeignNonceConsumed"}
    /\ step \in {"conform", "reconcile", "plan", "reserve"} => j.blk \in BlockId
    /\ step \in {"plan", "reserve"} => j.tip \in BlockId
    /\ step \in {"gate", "sign"} => j.st = "NonceReserved"
    /\ step = "attempt" => j.aim \in {"Replacement", "Cancellation"}
    /\ step \in {"submit", "resubmit", "record"} =>
          /\ j.st \notin Unsigned
          /\ j.aim \in {"None", "Submitted", "Replaced", "CancellationSubmitted"}

JobOK == JobFor(pc, job)

\* The inductive invariant of the lane.
LaneInv == TypeOK /\ StoreInv /\ ChainLinked /\ JobOK /\ DurableBeforeBroadcast

-----------------------------------------------------------------------------
\* The types of the lane's own variables, and what its current job points at.
LEMMA LaneScalars ==
    ASSUME LaneInv
    PROVE  /\ ready \in BOOLEAN /\ paused \in PauseReason
           /\ noise \in Nat /\ reorgs \in Nat /\ faults \in Nat
BY Zenon DEF LaneInv, TypeOK

LEMMA LaneJob ==
    ASSUME LaneInv
    PROVE  /\ job \in Job
           /\ pc \in {"commit", "conform", "reconcile", "finalize", "sign", "attempt"}
                 => job.r \in Row
           /\ pc \in {"conform", "reconcile"} => job.blk \in BlockId
           /\ pc = "attempt" => job.aim \in {"Replacement", "Cancellation"}
<1>1. JobFor(pc, job) /\ job \in Job
    BY Zenon DEF LaneInv, TypeOK, JobOK
<1> QED  BY <1>1 DEF JobFor

LEMMA Reasons ==
    /\ "no" \in PauseReason /\ "foreign" \in PauseReason /\ "signer" \in PauseReason
    /\ "storage" \in PauseReason /\ "reconcile" \in PauseReason
    /\ "orphaned" \in PauseReason
BY DEF PauseReason

\* The number of nonces used on a chain is a number.
LEMMA NonceOnType ==
    ASSUME NEW S, NEW c \in Seq(S)
    PROVE  NonceOn(c) \in Nat
<1> DEFINE used == {i \in DOMAIN c : body[c[i]].tx # NoTx}
<1>1. DOMAIN c = 1..Len(c) /\ Len(c) \in Nat
    OBVIOUS
<1>2. IsFiniteSet(1..Len(c))
    BY <1>1, FS_Interval
<1>3. IsFiniteSet(used)
    BY <1>1, <1>2, FS_Subset
<1> QED  BY <1>3, FS_CardinalityType DEF NonceOn

\* The lane starts in its invariant.
LEMMA LaneInit == Init => LaneInv
<1> SUFFICES ASSUME Init PROVE LaneInv
    OBVIOUS
<1>1. StoreInv
    BY StoreInitInv DEF Init
<1>2. body = <<[n |-> 1, tx |-> NoTx, nonce |-> 0, ok |-> TRUE]>> /\ BlockId = {1}
    BY DEF Init, StoreInit, BlockId
<1>3. chain \in Seq(BlockId) /\ Len(chain) = 1 /\ DOMAIN chain = {1} /\ chain[1] = 1
    BY <1>2 DEF Init
<1>4. TypeOK
    BY <1>1, <1>2, <1>3
       DEF Init, TypeOK, StoreInv, Job, NoJob, Step, PauseReason
<1>5. ChainLinked
    BY <1>2, <1>3 DEF ChainLinked, Height
<1>6. JobOK /\ DurableBeforeBroadcast
    BY DEF Init, JobOK, JobFor, DurableBeforeBroadcast
<1> QED  BY <1>1, <1>4, <1>5, <1>6 DEF LaneInv

-----------------------------------------------------------------------------
(* The network. *)

\* Blocks are added on top of a kept prefix of the chain.  The tables, the
\* tick and the broadcast attempts are left alone, and what they refer to
\* keeps its contents.
LEMMA NetworkGrows ==
    ASSUME LaneInv, BodyGrows, ChainLinked',
           chain' \in Seq(DOMAIN body'), Len(chain') >= 1,
           UNCHANGED <<storeVars, network, ready, paused, pc, job>>,
           noise' \in Nat, reorgs' \in Nat, faults' \in Nat
    PROVE  LaneInv'
<1>1. StoreInv'
    BY BodyGrowsInv DEF LaneInv
<1>2. BlockId \subseteq BlockId'
    BY DEF BodyGrows, BlockId, LaneInv, TypeOK, StoreTypeOK
<1>3. TypeOK'
    BY <1>1, <1>2 DEF LaneInv, TypeOK, StoreInv, Job, BlockId
<1>4. JobOK'
    <2>1. \A r \in Row : Known(r)' = Known(r) /\ kinds' = kinds
        BY DEF Known, storeVars
    <2>2. ASSUME pc = "commit", job.aim = "Included"
          PROVE  /\ job.blk \in BlockId /\ OwnSuccess(job.r, job.blk)'
        BY <2>1, <2>2 DEF LaneInv, JobOK, JobFor, OwnSuccess, BodyGrows
    <2> QED  BY <1>2, <2>1, <2>2 DEF LaneInv, JobOK, JobFor, Unsigned
<1>5. DurableBeforeBroadcast'
    BY DEF LaneInv, DurableBeforeBroadcast, Known, storeVars
<1> QED  BY <1>1, <1>3, <1>4, <1>5 DEF LaneInv

\* A function on 1..d is a sequence of length d.
LEMMA FunctionIsSeq ==
    ASSUME NEW S, NEW d \in Nat, NEW f \in [1..d -> S]
    PROVE  f \in Seq(S) /\ Len(f) = d
OBVIOUS

\* The elements of a concatenation.
LEMMA ConcatElements ==
    ASSUME NEW S, NEW s \in Seq(S), NEW t \in Seq(S), NEW u, u = s \o t
    PROVE  /\ u \in Seq(S) /\ Len(u) = Len(s) + Len(t)
           /\ DOMAIN u = 1..(Len(s) + Len(t))
           /\ \A i \in 1..Len(s) : u[i] = s[i]
           /\ \A i \in 1..Len(t) : u[Len(s) + i] = t[i]
<1>1. Len(s) \in Nat /\ Len(t) \in Nat
    OBVIOUS
<1>2. /\ s \o t \in Seq(S) /\ Len(s \o t) = Len(s) + Len(t)
      /\ \A i \in 1..(Len(s) + Len(t)) :
            (s \o t)[i] = IF i <= Len(s) THEN s[i] ELSE t[i - Len(s)]
    OBVIOUS
<1>3. ASSUME NEW i \in 1..Len(t)
      PROVE  (s \o t)[Len(s) + i] = t[i]
    <2>1. /\ Len(s) + i \in 1..(Len(s) + Len(t)) /\ ~(Len(s) + i <= Len(s))
          /\ (Len(s) + i) - Len(s) = i
        BY <1>1
    <2> QED  BY <1>2, <2>1
<1>4. DOMAIN (s \o t) = 1..(Len(s) + Len(t))
    BY <1>2
<1>5. \A i \in 1..Len(s) : (s \o t)[i] = s[i]
    BY <1>1, <1>2
<1> QED  BY <1>2, <1>3, <1>4, <1>5

\* The allocator transactions among the first k blocks of a chain.
Used(c, k) == {j \in 1..k : body[c[j]].tx # NoTx}

\* The chain keeps its first k blocks and goes on with new ones, of which only
\* the first may hold an allocator transaction, at the next nonce.
Grows(k, tx) ==
    /\ k \in 1..Len(chain) /\ k < Len(chain') /\ BodyGrows
    /\ \A i \in 1..k : chain'[i] = chain[i]
    /\ \A i \in (k + 1)..Len(chain') : chain'[i] \notin BlockId
    /\ \A b \in DOMAIN body' \ BlockId : body'[b].tx # NoTx =>
          /\ b = chain'[k + 1] /\ body'[b].tx = tx
          /\ body'[b].nonce = Cardinality(Used(chain, k))

\* One block on top of the chain.
LEMMA ExtendInv ==
    ASSUME LaneInv, NEW tx \in Attempts \cup {NoTx, ForeignTx},
           NEW ok \in BOOLEAN, Extend(tx, ok), noise' \in Nat
    PROVE  LaneInv' /\ Grows(Len(chain), tx)
<1> DEFINE new == BlockOn(chain, tx, ok)
<1>0. /\ body \in Seq(Block) /\ chain \in Seq(BlockId) /\ Len(chain) \in Nat
      /\ Len(body) \in Nat /\ BlockId = 1..Len(body) /\ Len(chain) >= 1
      /\ DOMAIN chain = 1..Len(chain)
    BY DEF LaneInv, TypeOK, StoreTypeOK, BlockId
<1>1. new \in Block /\ new.n = Len(chain) + 1
    BY SMTT(30), <1>0, NonceOnType DEF BlockOn, Block
<1> HIDE DEF new
<1>2. /\ body' = Append(body, new)
      /\ chain' = Append(chain, Len(body) + 1)
      /\ UNCHANGED <<storeVars, network, ready, paused, pc, job, reorgs, faults>>
    BY DEF Extend, new
<1>3. /\ body' \in Seq(Block) /\ Len(body') = Len(body) + 1
      /\ \A b \in 1..Len(body) : body'[b] = body[b]
      /\ body'[Len(body) + 1] = new
      /\ DOMAIN body' = 1..(Len(body) + 1)
    BY <1>0, <1>1, <1>2
<1>4. BodyGrows
    BY <1>0, <1>3 DEF BodyGrows
<1>5. /\ Len(chain') = Len(chain) + 1 /\ DOMAIN chain' = 1..(Len(chain) + 1)
      /\ \A i \in 1..Len(chain) : chain'[i] = chain[i]
      /\ chain'[Len(chain) + 1] = Len(body) + 1
    BY <1>0, <1>2
<1>6. chain' \in Seq(DOMAIN body')
    <2>1. chain \in Seq(DOMAIN body') /\ Len(body) + 1 \in DOMAIN body'
        BY <1>0, <1>3
    <2> DEFINE S == DOMAIN body'
               e == Len(body) + 1
    <2>2. chain \in Seq(S) /\ e \in S /\ chain' = Append(chain, e)
        BY <1>2, <2>1
    <2> HIDE DEF S, e
    <2>3. chain' \in Seq(S)
        BY <2>2
    <2> QED  BY <2>3 DEF S
<1>7. \A i \in DOMAIN chain' : Height(chain[i])' = i
    <2>1. \A i \in 1..Len(chain) : chain[i] \in 1..Len(body) /\ body[chain[i]].n = i
        BY <1>0 DEF LaneInv, ChainLinked, Height
    <2>2. \A i \in 1..Len(chain) : body'[chain'[i]].n = i
        BY <1>3, <1>5, <2>1
    <2>3. body'[chain'[Len(chain) + 1]].n = Len(chain) + 1
        BY <1>1, <1>3, <1>5
    <2>4. \A i \in DOMAIN chain' : i \in 1..Len(chain) \/ i = Len(chain) + 1
        BY <1>0, <1>5
    <2> QED  BY <2>2, <2>3, <2>4 DEF Height
<1>8. ChainLinked'
    BY <1>7 DEF ChainLinked
<1>9. LaneInv'
    BY <1>0, <1>2, <1>4, <1>5, <1>6, <1>8, NetworkGrows DEF LaneInv, TypeOK
<1>10. new.tx = tx /\ new.nonce = Cardinality(Used(chain, Len(chain)))
    BY Zenon, <1>0 DEF new, BlockOn, NonceOn, Used
<1>11. Grows(Len(chain), tx)
    <2>1. \A b \in DOMAIN body' \ BlockId : b = Len(body) + 1
        BY <1>0, <1>3
    <2>2. \A i \in (Len(chain) + 1)..Len(chain') : chain'[i] \notin BlockId
        BY <1>0, <1>5
    <2> QED  BY <1>0, <1>3, <1>4, <1>5, <1>10, <2>1, <2>2 DEF Grows
<1> QED  BY <1>9, <1>11

\* The top of the chain is replaced by new blocks on a kept prefix.
LEMMA ReorgInv ==
    ASSUME LaneInv, Reorg
    PROVE  /\ LaneInv'
           /\ \E k \in 1..Len(chain) :
                 \E tx \in Mineable(SubSeq(chain, 1, k)) \cup {NoTx} : Grows(k, tx)
<1>0. /\ body \in Seq(Block) /\ chain \in Seq(BlockId) /\ Len(chain) \in Nat
      /\ Len(body) \in Nat /\ BlockId = 1..Len(body)
      /\ DOMAIN chain = 1..Len(chain)
    BY DEF LaneInv, TypeOK, StoreTypeOK, BlockId
<1>1. PICK d \in 1..ReorgDepth :
         /\ d < Len(chain)
         /\ \E tx \in Mineable(SubSeq(chain, 1, Len(chain) - d)) \cup {NoTx} :
               \E ok \in Outcomes(tx) :
                  body' = body \o [i \in 1..d |->
                     IF i = 1
                     THEN BlockOn(SubSeq(chain, 1, Len(chain) - d), tx, ok)
                     ELSE [n |-> Len(SubSeq(chain, 1, Len(chain) - d)) + i,
                           tx |-> NoTx, nonce |-> 0, ok |-> TRUE]]
         /\ chain' = SubSeq(chain, 1, Len(chain) - d)
                        \o [i \in 1..d |-> Len(body) + i]
    BY Zenon DEF Reorg
<1> DEFINE keep == Len(chain) - d
           c == SubSeq(chain, 1, keep)
<1>2. /\ d \in Nat \ {0} /\ keep \in Nat \ {0} /\ keep <= Len(chain)
      /\ c \in Seq(BlockId) /\ Len(c) = keep
      /\ \A i \in 1..keep : c[i] = chain[i]
    <2>1. d \in Nat \ {0} /\ keep \in Nat \ {0} /\ keep <= Len(chain)
        <3>1. d < Len(chain) /\ d \in Nat \ {0}
            BY <1>1, LaneAssumption
        <3>2. Len(chain) \in Nat
            BY <1>0
        <3> QED  BY <3>1, <3>2
    <2>2. /\ SubSeq(chain, 1, keep) \in Seq(BlockId)
          /\ Len(SubSeq(chain, 1, keep)) = keep
          /\ \A i \in 1..keep : SubSeq(chain, 1, keep)[i] = chain[i]
        <3> HIDE DEF keep
        <3> QED  BY <1>0, <2>1
    <2> QED  BY <2>1, <2>2
<1>3. PICK tx \in Mineable(c) \cup {NoTx} : \E ok \in Outcomes(tx) :
         body' = body \o [i \in 1..d |->
                     IF i = 1 THEN BlockOn(c, tx, ok)
                     ELSE [n |-> Len(c) + i, tx |-> NoTx, nonce |-> 0,
                           ok |-> TRUE]]
    BY Zenon, <1>1
<1>4. PICK ok \in Outcomes(tx) :
         body' = body \o [i \in 1..d |->
                     IF i = 1 THEN BlockOn(c, tx, ok)
                     ELSE [n |-> Len(c) + i, tx |-> NoTx, nonce |-> 0,
                           ok |-> TRUE]]
    BY <1>3
<1> DEFINE top == [i \in 1..d |-> IF i = 1 THEN BlockOn(c, tx, ok)
                                  ELSE [n |-> Len(c) + i, tx |-> NoTx,
                                        nonce |-> 0, ok |-> TRUE]]
           ids == [i \in 1..d |-> Len(body) + i]
<1>5. tx \in Attempts \cup {NoTx, ForeignTx} /\ ok \in BOOLEAN
    BY Zenon, <1>3, <1>4 DEF Mineable, Outcomes, LaneInv, TypeOK
<1>6. ASSUME NEW i \in 1..d
      PROVE  top[i] \in Block /\ top[i].n = keep + i
    <2>1. BlockOn(c, tx, ok) \in Block /\ BlockOn(c, tx, ok).n = keep + 1
        <3> HIDE DEF c, keep
        <3>1. NonceOn(c) \in Nat
            BY <1>2, NonceOnType
        <3> QED  BY <1>2, <1>5, <3>1 DEF BlockOn, Block
    <2> DEFINE e == [n |-> Len(c) + i, tx |-> NoTx, nonce |-> 0, ok |-> TRUE]
    <2>2. e \in Block /\ e.n = keep + i
        <3> HIDE DEF c, keep
        <3> QED  BY <1>2 DEF Block
    <2>3. top[i] = IF i = 1 THEN BlockOn(c, tx, ok) ELSE e
        OBVIOUS
    <2> HIDE DEF top, e, c
    <2> QED  BY <2>1, <2>2, <2>3
<1>7. top \in [1..d -> Block]
    <2>1. top = [i \in 1..d |-> top[i]]
        OBVIOUS
    <2> HIDE DEF top
    <2> QED  BY <1>6, <2>1
<1>8. body' = body \o top /\ chain' = c \o ids
    BY Zenon, <1>1, <1>4
<1>9. ids \in [1..d -> 1..(Len(body) + d)] /\ \A i \in 1..d : ids[i] = Len(body) + i
    <2>1. \A i \in 1..d : Len(body) + i \in 1..(Len(body) + d)
        <3> HIDE DEF c, keep
        <3> QED  BY <1>0, <1>2
    <2> QED  BY <2>1
<1> HIDE DEF top, ids, c, keep
<1>10. /\ body' \in Seq(Block) /\ Len(body') = Len(body) + d
       /\ DOMAIN body' = 1..(Len(body) + d)
       /\ \A b \in 1..Len(body) : body'[b] = body[b]
       /\ \A i \in 1..d : body'[Len(body) + i] = top[i]
    <2>1. top \in Seq(Block) /\ Len(top) = d
        BY <1>2, <1>7, FunctionIsSeq
    <2>2. /\ body' \in Seq(Block) /\ Len(body') = Len(body) + Len(top)
          /\ DOMAIN body' = 1..(Len(body) + Len(top))
          /\ \A b \in 1..Len(body) : body'[b] = body[b]
          /\ \A i \in 1..Len(top) : body'[Len(body) + i] = top[i]
        <3>1. body \in Seq(Block) /\ body' = body \o top
            BY <1>0, <1>8
        <3> DEFINE S == Block
        <3>2. body \in Seq(S) /\ top \in Seq(S)
            BY <2>1, <3>1
        <3> HIDE DEF S
        <3>3. body' \in Seq(S)
            BY <3>1, <3>2, ConcatElements
        <3>4. /\ Len(body') = Len(body) + Len(top)
              /\ DOMAIN body' = 1..(Len(body) + Len(top))
              /\ \A b \in 1..Len(body) : body'[b] = body[b]
              /\ \A i \in 1..Len(top) : body'[Len(body) + i] = top[i]
            BY <3>1, <3>2, ConcatElements
        <3> QED  BY <3>3, <3>4 DEF S
    <2> QED  BY <2>1, <2>2
<1>11. /\ chain' \in Seq(1..(Len(body) + d)) /\ Len(chain') = keep + d
       /\ DOMAIN chain' = 1..(keep + d)
       /\ \A i \in 1..keep : chain'[i] = c[i]
       /\ \A i \in 1..d : chain'[keep + i] = Len(body) + i
    <2> DEFINE S == 1..(Len(body) + d)
    <2>1. ids \in Seq(S) /\ Len(ids) = d
        BY Zenon, <1>2, <1>9, FunctionIsSeq
    <2>2. BlockId \subseteq S
        BY <1>0, <1>2
    <2>3. c \in Seq(S)
        <3>1. c \in Seq(BlockId)
            BY <1>2
        <3> HIDE DEF S
        <3> QED  BY <2>2, <3>1
    <2>4. /\ chain' \in Seq(S) /\ Len(chain') = Len(c) + Len(ids)
          /\ DOMAIN chain' = 1..(Len(c) + Len(ids))
          /\ \A i \in 1..Len(c) : chain'[i] = c[i]
          /\ \A i \in 1..Len(ids) : chain'[Len(c) + i] = ids[i]
        <3>1. c \in Seq(S) /\ ids \in Seq(S) /\ chain' = c \o ids
            BY <1>8, <2>1, <2>3
        <3> HIDE DEF S, c, ids
        <3> QED  BY <3>1, ConcatElements
    <2> HIDE DEF S
    <2> QED  BY Zenon, <1>2, <1>9, <2>1, <2>4 DEF S
<1>12. BodyGrows
    BY <1>0, <1>2, <1>10 DEF BodyGrows
<1>13. \A i \in DOMAIN chain' : body'[chain'[i]].n = i
    <2>1. \A i \in 1..Len(chain) : chain[i] \in 1..Len(body) /\ body[chain[i]].n = i
        BY <1>0 DEF LaneInv, ChainLinked, Height
    <2>2. \A i \in 1..keep : body'[chain'[i]].n = i
        <3> SUFFICES ASSUME NEW i \in 1..keep PROVE body'[chain'[i]].n = i
            OBVIOUS
        <3>1. i \in 1..Len(chain) /\ chain'[i] = chain[i]
            BY SMTT(30), <1>0, <1>2, <1>11
        <3>2. chain[i] \in 1..Len(body) /\ body[chain[i]].n = i
            BY <2>1, <3>1
        <3> QED  BY <1>10, <3>1, <3>2
    <2>3. \A i \in 1..d : body'[chain'[keep + i]].n = keep + i
        BY Zenon, <1>6, <1>10, <1>11
    <2>4. ASSUME NEW i \in 1..(keep + d), ~(i <= keep)
          PROVE  body'[chain'[i]].n = i
        <3>1. i - keep \in 1..d /\ keep + (i - keep) = i
            BY <1>2, <2>4
        <3> QED  BY <2>3, <3>1
    <2> QED  BY SMTT(30), <1>2, <1>11, <2>2, <2>4
<1>14. ChainLinked'
    BY <1>13 DEF ChainLinked, Height
<1>15. LaneInv'
    <2>1. /\ UNCHANGED <<storeVars, network, ready, paused, pc, job, noise, faults>>
          /\ reorgs' = reorgs + 1
        BY DEF Reorg
    <2> QED
        BY SMTT(30), <1>2, <1>10, <1>11, <1>12, <1>14, <2>1, NetworkGrows
           DEF LaneInv, TypeOK
<1>16. Grows(keep, tx)
    <2>1. /\ top[1].tx = tx /\ top[1].nonce = NonceOn(c)
          /\ \A i \in 1..d : i # 1 => top[i].tx = NoTx
        <3>1. top[1] = BlockOn(c, tx, ok) /\ 1 \in 1..d
            BY <1>2 DEF top
        <3> QED  BY Zenon, <3>1 DEF top, BlockOn
    <2>2. NonceOn(c) = Cardinality(Used(chain, keep))
        <3>1. {i \in DOMAIN c : body[c[i]].tx # NoTx} = Used(chain, keep)
            BY <1>2 DEF Used
        <3> QED  BY Zenon, <3>1 DEF NonceOn
    <2>3. ASSUME NEW b \in DOMAIN body' \ BlockId
          PROVE  b - Len(body) \in 1..d /\ b = Len(body) + (b - Len(body))
        BY <1>0, <1>2, <1>10
    <2>4. ASSUME NEW b \in DOMAIN body' \ BlockId, body'[b].tx # NoTx
          PROVE  b = Len(body) + 1 /\ body'[b] = top[1]
        <3>1. body'[b] = top[b - Len(body)]
            BY <1>10, <2>3
        <3>2. b - Len(body) = 1
            BY <2>1, <2>3, <2>4, <3>1
        <3> QED  BY <2>3, <3>1, <3>2
    <2>5. chain'[keep + 1] = Len(body) + 1
        BY <1>2, <1>11
    <2>6. ASSUME NEW i \in (keep + 1)..Len(chain')
          PROVE  chain'[i] \notin BlockId
        <3>1. i - keep \in 1..d /\ keep + (i - keep) = i
            BY <1>2, <1>11
        <3>2. chain'[i] = Len(body) + (i - keep)
            BY Zenon, <1>11, <3>1
        <3> QED  BY <1>0, <3>1, <3>2
    <2>7. keep \in 1..Len(chain) /\ keep < Len(chain')
        BY <1>0, <1>2, <1>11
    <2> QED  BY SMTT(30), <1>2, <1>11, <1>12, <2>1, <2>2, <2>4, <2>5, <2>6, <2>7 DEF Grows
<1>17. keep \in 1..Len(chain) /\ tx \in Mineable(SubSeq(chain, 1, keep)) \cup {NoTx}
    BY <1>0, <1>2, <1>3 DEF c
<1> QED  BY <1>15, <1>16, <1>17

-----------------------------------------------------------------------------
(* The shape of every other step: the chain is left alone, and the tables
   change by at most one command. *)

Frame ==
    /\ body' = body /\ chain' = chain
    /\ StoreCommand \/ UNCHANGED storeVars
    /\ ready' \in BOOLEAN /\ paused' \in PauseReason
    /\ noise' \in Nat /\ reorgs' \in Nat /\ faults' \in Nat

\* What such a step keeps, whatever it does to the tick.
LEMMA FrameKept ==
    ASSUME LaneInv, Frame
    PROVE  /\ StoreInv' /\ ChainLinked' /\ BlockId' = BlockId
           /\ \A r \in Row : /\ Known(r) \subseteq Known(r)'
                             /\ kinds[r] # <<>> => kinds'[r] # <<>>
           /\ UNION {Known(r) : r \in Row} \subseteq UNION {Known(r)' : r \in Row}
           /\ pc' \in Step /\ job' \in Job /\ network' \subseteq Attempts => TypeOK'
<1>1. StoreInv' /\ \A r \in Row : /\ Known(r) \subseteq Known(r)'
                                  /\ kinds[r] # <<>> => kinds'[r] # <<>>
    <2>1. CASE StoreCommand
        BY <2>1, StoreCommandInv, StoreCommandKnown DEF LaneInv, Frame
    <2>2. CASE UNCHANGED storeVars
        <3>1. BodyGrows
            BY DEF BodyGrows, Frame, LaneInv, TypeOK, StoreTypeOK
        <3> QED  BY <2>2, <3>1, BodyGrowsInv DEF LaneInv, Known, storeVars
    <2> QED  BY <2>1, <2>2 DEF Frame
<1>2. ChainLinked' /\ BlockId' = BlockId
    BY DEF Frame, LaneInv, ChainLinked, BlockId, Height
<1>3. UNION {Known(r) : r \in Row} \subseteq UNION {Known(r)' : r \in Row}
    BY SMTT(30), <1>1
<1>4. ASSUME pc' \in Step, job' \in Job, network' \subseteq Attempts
      PROVE  TypeOK'
    BY <1>1, <1>2, <1>4 DEF Frame, LaneInv, TypeOK, StoreInv, Job
<1> QED  BY <1>1, <1>2, <1>3, <1>4

\* The execution service's own steps, moreover, leave both chains alone
\* and never add a second owner of the lane.
TickFrame == Frame /\ (TickCommand \/ UNCHANGED storeVars)

LaneKept ==
    /\ LaneInv' /\ TickFrame /\ UNCHANGED <<chain, blocks>>
    /\ OneUnresolved => OneUnresolved'

\* The part of LaneKept that does not depend on the tick's job.
LEMMA TickFrameKept ==
    ASSUME LaneInv, TickFrame
    PROVE  UNCHANGED <<chain, blocks>> /\ (OneUnresolved => OneUnresolved')
<1>1. CASE TickCommand
    BY <1>1, TickCommandFrame, OneUnresolvedStep DEF LaneInv, TickFrame, Frame
<1>2. CASE UNCHANGED storeVars
    BY <1>2 DEF storeVars, OneUnresolved, Unresolved, TickFrame, Frame
<1> QED  BY <1>1, <1>2 DEF TickFrame

\* A step that ends the tick keeps the invariant.
LEMMA EndTick ==
    ASSUME LaneInv, TickFrame, Idle, network' = network
    PROVE  LaneKept
<1>0. Frame
    BY DEF TickFrame
<1>1. pc' \in Step /\ job' \in Job
    BY DEF Idle, NoJob, Job, Step, TransactionState
<1>2. TypeOK'
    BY <1>0, <1>1, FrameKept DEF LaneInv, TypeOK
<1>3. JobOK'
    BY DEF Idle, JobOK, JobFor
<1>4. DurableBeforeBroadcast'
    BY <1>0, FrameKept DEF LaneInv, DurableBeforeBroadcast
<1>5. LaneInv'
    BY <1>0, <1>2, <1>3, <1>4, FrameKept DEF LaneInv
<1> QED  BY <1>5, TickFrameKept DEF LaneKept

\* A step that goes on keeps it when it carries on with a good job.
LEMMA GoOnTick ==
    ASSUME LaneInv, Frame, pc' \in Step, job' \in Job, JobOK',
           network' \subseteq network
    PROVE  LaneInv'
<1>1. TypeOK'
    BY FrameKept DEF LaneInv, TypeOK
<1>2. DurableBeforeBroadcast'
    BY FrameKept DEF LaneInv, DurableBeforeBroadcast
<1> QED  BY <1>1, <1>2, FrameKept DEF LaneInv

\* Another service's step leaves the tick and its job alone.
LEMMA OtherStep ==
    ASSUME LaneInv, Frame, UNCHANGED <<pc, job>>, network' \subseteq network
    PROVE  LaneInv'
<1>1. BlockId' = BlockId /\ \A r \in Row : /\ Known(r) \subseteq Known(r)'
                                           /\ kinds[r] # <<>> => kinds'[r] # <<>>
    BY FrameKept
<1>2. ASSUME NEW r \in Row, NEW b, OwnSuccess(r, b)
      PROVE  OwnSuccess(r, b)'
    BY SMTT(30), <1>1, <1>2 DEF OwnSuccess, Frame
<1>3. JobOK'
    BY <1>1, <1>2 DEF LaneInv, JobOK, JobFor, Unsigned, OwnSuccess
<1>4. pc' \in Step /\ job' \in Job
    BY DEF LaneInv, TypeOK
<1> QED  BY <1>3, <1>4, GoOnTick

\* The chain service and the state service.
LEMMA ChainServiceInv ==
    ASSUME LaneInv, ChainService \/ StateRefresh
    PROVE  LaneInv'
<1> USE DEF bounds, chainVars
<1>0. /\ ready \in BOOLEAN /\ paused \in PauseReason
      /\ noise \in Nat /\ reorgs \in Nat /\ faults \in Nat
    BY DEF LaneInv, TypeOK
<1>1. CASE RewindAndReplay
    <2>1. StoreCommand
        BY <1>1 DEF RewindAndReplay, StoreCommand, ChainCommand
    <2> QED  BY Zenon, <1>0, <1>1, <2>1, OtherStep DEF RewindAndReplay, Frame
<1>2. CASE CatchUp
    <2>1. Len(blocks) \in Nat /\ Len(chain) \in Nat /\ Len(blocks) < Len(chain)
        BY <1>2 DEF CatchUp, LaneInv, TypeOK, StoreTypeOK
    <2>2. Len(blocks) + 1 \in DOMAIN chain
        BY <2>1 DEF LaneInv, TypeOK
    <2>3. chain[Len(blocks) + 1] \in BlockId
        BY <2>2 DEF LaneInv, TypeOK
    <2>4. Height(chain[Len(blocks) + 1]) = Len(blocks) + 1
        BY <2>2 DEF LaneInv, ChainLinked
    <2>5. ApplyBlock(chain[Len(blocks) + 1])
        BY <1>2 DEF CatchUp
    <2>6. StoreCommand
        BY <2>3, <2>4, <2>5 DEF StoreCommand, ChainCommand
    <2>7. ready' \in BOOLEAN
        BY <1>2 DEF CatchUp
    <2> QED  BY SMTT(30), <1>0, <1>2, <2>6, <2>7, OtherStep DEF CatchUp, Frame
<1>3. CASE PollIdle
    BY <1>0, <1>3, OtherStep DEF PollIdle, Frame
<1>4. CASE StateRefresh
    BY <1>0, <1>4, OtherStep DEF StateRefresh, Frame, PauseReason
<1> QED  BY <1>1, <1>2, <1>3, <1>4 DEF ChainService

-----------------------------------------------------------------------------
(* The tick: its three ways to end a step without a command. *)

\* A tick that ends without an effect.
LEMMA DoneInv ==
    ASSUME LaneInv, Done
    PROVE  LaneKept
BY EndTick DEF Done, TickFrame, Frame, LaneInv, TypeOK, chainVars, bounds

\* A tick that ends in a quarantine.
LEMMA QuarantineInv ==
    ASSUME LaneInv, NEW why \in PauseReason, Quarantine(why)
    PROVE  LaneKept
BY EndTick DEF Quarantine, TickFrame, Frame, LaneInv, TypeOK, chainVars, bounds

\* A tick that goes on to its next storage command.
LEMMA GoOnInv ==
    ASSUME LaneInv, NEW step \in Step, NEW next \in Job, GoOn(step, next),
           JobFor(step, next)
    PROVE  LaneKept
<1>1. /\ pc' = step /\ job' = next
      /\ UNCHANGED <<storeVars, body, chain, network, ready, paused, noise,
                     reorgs, faults>>
    BY DEF GoOn, Go, chainVars, bounds
<1>2. TickFrame
    BY SMTT(30), <1>1 DEF TickFrame, Frame, StoreCommand, LaneInv, TypeOK
<1>3. \A r, b : OwnSuccess(r, b)' = OwnSuccess(r, b)
    BY Zenon, <1>1 DEF OwnSuccess, Known, storeVars
<1>4. BlockId' = BlockId /\ kinds' = kinds
    BY SMTT(30), <1>1 DEF BlockId, storeVars
<1>5. JobOK'
    BY Zenon, <1>1, <1>3, <1>4 DEF JobOK, JobFor, Unsigned, OwnSuccess
<1>6. LaneInv'
    BY <1>1, <1>2, <1>5, GoOnTick DEF TickFrame
<1> QED  BY <1>2, <1>6, TickFrameKept DEF LaneKept

\* The fields of a job, and of the jobs made from it.
LEMMA JobFields ==
    ASSUME NEW j \in Job
    PROVE  /\ \A aim \in TransactionState \cup AttemptKind \cup {"None"} :
                 [j EXCEPT !.aim = aim] \in Job
           /\ \A aim \in TransactionState \cup AttemptKind \cup {"None"},
                 b \in BlockId \cup {0} :
                 [j EXCEPT !.aim = aim, !.blk = b] \in Job
           /\ \A b \in BlockId \cup {0} : [j EXCEPT !.blk = b] \in Job
           /\ j.st \in TransactionState \cup {"Absent"}
           /\ j.blk \in BlockId \cup {0} /\ j.r \in Row \cup {0}
BY Zenon DEF Job

\* canonical_receipt returns nothing, an error, or a stored block with an
\* attempt of the row.
LEMMA ReceiptIsOwn ==
    ASSUME LaneInv, NEW got \in Received, got > 0
    PROVE  /\ got \in BlockId /\ Canonical(got)
           /\ body[got].tx \in Known(job.r) /\ job.r \in Row
<1>1. pc = "observe" /\ got \in CanonicalReceipt(job.r)
    BY DEF Received
<1>2. job.r \in Row
    BY <1>1 DEF LaneInv, JobOK, JobFor
<1>3. CASE got \in Durable(job.r)
    BY <1>2, <1>3 DEF Durable, LaneInv, StoreInv, ReceiptIsCanonical, StoreTypeOK
<1>4. CASE got \notin Durable(job.r)
    <2>1. PICK b \in Mined(job.r) :
             got = IF Height(b) > Len(blocks) THEN 0
                   ELSE IF Canonical(b) THEN b ELSE Mismatch
        BY <1>1, <1>4 DEF CanonicalReceipt
    <2>2. got = b /\ Canonical(b)
        BY <2>1 DEF Mismatch
    <2>3. b \in BlockId /\ body[b].tx \in Known(job.r)
        BY DEF Mined, Range, LaneInv, TypeOK
    <2> QED  BY <1>2, <2>2, <2>3
<1> QED  BY <1>3, <1>4

\* A tick that issues a command and goes on with a job that was good before.
LEMMA CommandGoInv ==
    ASSUME LaneInv, TickCommand, NEW step \in Step, NEW next \in Job,
           Go(step, next), JobFor(step, next)
    PROVE  LaneKept
<1>1. /\ pc' = step /\ job' = next
      /\ UNCHANGED <<body, chain, network, ready, paused, noise, reorgs, faults>>
    BY DEF Go, chainVars, bounds
<1>2. TickFrame
    BY SMTT(30), <1>1 DEF TickFrame, Frame, StoreCommand, LaneInv, TypeOK
<1>3. BlockId' = BlockId /\ \A r \in Row : /\ Known(r) \subseteq Known(r)'
                                           /\ kinds[r] # <<>> => kinds'[r] # <<>>
    BY <1>2, FrameKept DEF TickFrame
<1>4. \A r \in Row : \A b : OwnSuccess(r, b) => OwnSuccess(r, b)'
    BY SMTT(30), <1>1, <1>3 DEF OwnSuccess
<1>5. JobOK'
    BY <1>1, <1>3, <1>4 DEF JobOK, JobFor, Unsigned, OwnSuccess
<1>6. job' \in Job
    BY <1>1
<1>7. LaneInv'
    BY <1>1, <1>2, <1>5, <1>6, GoOnTick DEF TickFrame
<1> QED  BY <1>2, <1>7, TickFrameKept DEF LaneKept

\* Keeping a receipt is a command when there is one.
LEMMA ReceiptIsCommand ==
    ASSUME LaneInv, NEW got \in Received, got > 0, PersistCanonicalReceipt(got)
    PROVE  TickCommand
BY ReceiptIsOwn DEF TickCommand, ReceiptCommand

-----------------------------------------------------------------------------
(* Recovery. *)

\* The steps that load the row and look up its receipt.
LEMMA LookupInv ==
    ASSUME LaneInv,
           BeginTick \/ FutureNonce \/ ReceiptMismatch \/ ClassifyConsumedNonce
    PROVE  LaneKept
<1>0. job \in Job /\ DOMAIN blocks = 1..Len(blocks) /\ Len(blocks) \in Nat
    BY DEF LaneInv, TypeOK, StoreTypeOK
<1>1. CASE BeginTick
    <2>1. CASE Quarantine("multiple")
        BY <2>1, QuarantineInv DEF PauseReason
    <2>2. CASE \E r \in Unresolved :
                  GoOn("observe", [NoJob EXCEPT !.r = r, !.st = state[r],
                                                !.head = Len(blocks)])
        <3>1. PICK r \in Unresolved :
                 GoOn("observe", [NoJob EXCEPT !.r = r, !.st = state[r],
                                               !.head = Len(blocks)])
            BY Zenon, <2>2
        <3> DEFINE next == [NoJob EXCEPT !.r = r, !.st = state[r],
                                         !.head = Len(blocks)]
        <3>2. r \in Row /\ state[r] \in TransactionState \cup {"Absent"}
            BY DEF Unresolved, LaneInv, TypeOK, StoreTypeOK
        <3>3. next \in Job /\ next.r = r /\ next.st = state[r] /\ next.blk = 0
            BY Zenon, <1>0, <3>2 DEF NoJob, Job
        <3>4. state[r] \notin Unsigned => kinds[r] # <<>>
            BY <3>2 DEF LaneInv, StoreInv, SignedHasBytes
        <3> HIDE DEF next
        <3>5. JobFor("observe", next)
            BY <3>2, <3>3, <3>4 DEF JobFor
        <3>6. GoOn("observe", next)
            BY <3>1 DEF next
        <3> QED  BY <3>3, <3>5, <3>6, GoOnInv DEF Step
    <2> QED  BY Zenon, <1>1, <2>1, <2>2 DEF BeginTick
<1>2. CASE FutureNonce
    BY <1>2, QuarantineInv DEF FutureNonce, PauseReason
<1>3. CASE ReceiptMismatch
    BY <1>3, DoneInv DEF ReceiptMismatch
<1>4. CASE ClassifyConsumedNonce
    <2>1. pc = "observe"
        BY Zenon, <1>4 DEF ClassifyConsumedNonce
    <2>2. CASE Done
        BY <2>2, DoneInv
    <2>3. CASE Quarantine("unattributed")
        BY <2>3, QuarantineInv DEF PauseReason
    <2>4. CASE \E h \in DOMAIN blocks :
                  GoOn("commit", [job EXCEPT !.aim = "ForeignNonceConsumed",
                                             !.blk = blocks[h]])
        <3>1. PICK h \in DOMAIN blocks :
                 GoOn("commit", [job EXCEPT !.aim = "ForeignNonceConsumed",
                                            !.blk = blocks[h]])
            BY Zenon, <2>4
        <3> DEFINE next == [job EXCEPT !.aim = "ForeignNonceConsumed",
                                       !.blk = blocks[h]]
        <3>2. blocks[h] \in BlockId
            BY DEF LaneInv, TypeOK, StoreTypeOK
        <3>3. /\ next \in Job /\ next.r = job.r /\ next.st = job.st
              /\ next.aim = "ForeignNonceConsumed"
            BY Zenon, <1>0, <3>2 DEF Job, TransactionState
        <3> HIDE DEF next
        <3>4. JobFor("commit", next)
            BY <2>1, <3>3 DEF LaneInv, JobOK, JobFor
        <3>5. GoOn("commit", next)
            BY <3>1 DEF next
        <3> QED  BY <3>3, <3>4, <3>5, GoOnInv DEF Step
    <2> QED  BY Zenon, <1>4, <2>2, <2>3, <2>4 DEF ClassifyConsumedNonce
<1> QED  BY <1>1, <1>2, <1>3, <1>4

\* The job a recovering tick goes on with: the same row, a new aim.
LEMMA ObserveAim ==
    ASSUME LaneInv, pc = "observe",
           NEW step \in {"commit", "attempt", "resubmit", "record", "finalize"},
           NEW next,
           NEW aim \in TransactionState \cup AttemptKind \cup {"None"},
           \/ next = [job EXCEPT !.aim = aim]
           \/ next = [[job EXCEPT !.aim = aim] EXCEPT !.ok = TRUE],
           step = "commit" =>
              /\ aim # "Included"
              /\ job.st = "NonceReserved" => aim = "AbortedBeforeSigning",
           step = "attempt" => aim \in {"Replacement", "Cancellation"},
           step \in {"resubmit", "record"} =>
              /\ job.st \notin Unsigned
              /\ aim \in {"None", "Submitted", "Replaced", "CancellationSubmitted"}
    PROVE  step \in Step /\ next \in Job /\ JobFor(step, next)
<1>1. job \in Job
    BY DEF LaneInv, TypeOK
<1>2. /\ next \in Job /\ next.r = job.r /\ next.st = job.st
      /\ next.aim = aim /\ next.blk = job.blk
    BY Zenon, <1>1 DEF Job
<1>3. /\ job.r \in Row /\ job.blk = 0
      /\ job.st \notin Unsigned => kinds[job.r] # <<>>
    BY DEF LaneInv, JobOK, JobFor
<1>4. JobFor(step, next)
    BY <1>2, <1>3 DEF JobFor
<1> QED  BY <1>2, <1>4 DEF Step

\* The steps that recover an unsigned, a signed, and a replaced or cancelled
\* attempt.
LEMMA RecoverAttemptInv ==
    ASSUME LaneInv, RecoverReserved \/ RecoverSigned \/ RecoverSignedAttempt
    PROVE  LaneKept
<1>1. CASE RecoverReserved
    <2> DEFINE next == [job EXCEPT !.aim = "AbortedBeforeSigning"]
    <2>1. pc = "observe" /\ GoOn("commit", next)
        BY <1>1 DEF RecoverReserved, Observing, Received
    <2>2. "commit" \in Step /\ next \in Job /\ JobFor("commit", next)
        BY Zenon, <2>1, ObserveAim DEF TransactionState
    <2> HIDE DEF next
    <2> QED  BY <2>1, <2>2, GoOnInv
<1>2. CASE RecoverSigned
    <2> DEFINE next == [job EXCEPT !.aim = "Submitted"]
    <2>1. PICK got \in Received :
             /\ Observing(got) /\ job.st = "Signed"
             /\ \/ got > 0 /\ PersistCanonicalReceipt(got) /\ Go("commit", next)
                \/ GoOn("commit", next)
                \/ Quarantine("storage")
                \/ Done
                \/ GoOn("resubmit", next)
        BY <1>2 DEF RecoverSigned
    <2>2. pc = "observe" /\ job.st \notin Unsigned /\ job.st # "NonceReserved"
        BY <2>1 DEF Received, Unsigned
    <2>3. /\ "commit" \in Step /\ next \in Job /\ JobFor("commit", next)
          /\ "resubmit" \in Step /\ JobFor("resubmit", next)
        <3>1. "Submitted" \in TransactionState
            BY DEF TransactionState
        <3>2. "commit" \in Step /\ next \in Job /\ JobFor("commit", next)
            BY Zenon, <2>2, <3>1, ObserveAim
        <3>3. "resubmit" \in Step /\ JobFor("resubmit", next)
            BY Zenon, <2>2, <3>1, ObserveAim
        <3> QED  BY <3>2, <3>3
    <2> HIDE DEF next
    <2>4. CASE got > 0 /\ PersistCanonicalReceipt(got) /\ Go("commit", next)
        BY <2>3, <2>4, ReceiptIsCommand, CommandGoInv
    <2>5. CASE GoOn("commit", next)
        BY <2>3, <2>5, GoOnInv
    <2>6. CASE GoOn("resubmit", next)
        BY <2>3, <2>6, GoOnInv
    <2>7. CASE Quarantine("storage") \/ Done
        BY <2>7, DoneInv, QuarantineInv DEF PauseReason
    <2> QED  BY <2>1, <2>4, <2>5, <2>6, <2>7
<1>3. CASE RecoverSignedAttempt
    <2> DEFINE aim == IF job.st = "ReplacementSigned" THEN "Replaced"
                      ELSE "CancellationSubmitted"
               next == [job EXCEPT !.aim = aim]
               noted == [next EXCEPT !.ok = TRUE]
    <2>1. PICK got \in Received :
             /\ Observing(got)
             /\ job.st \in {"ReplacementSigned", "CancellationSigned"}
             /\ \/ got > 0 /\ PersistCanonicalReceipt(got) /\ Go("record", noted)
                \/ GoOn("record", noted)
                \/ GoOn("resubmit", next)
        BY <1>3 DEF RecoverSignedAttempt
    <2>2. pc = "observe" /\ job.st \notin Unsigned
        BY <2>1 DEF Received, Unsigned
    <2>3. aim \in {"Replaced", "CancellationSubmitted"} /\ aim \in TransactionState
        BY DEF TransactionState
    <2>4. noted = [[job EXCEPT !.aim = aim] EXCEPT !.ok = TRUE]
        OBVIOUS
    <2> HIDE DEF aim, noted
    <2>5. /\ "record" \in Step /\ noted \in Job /\ JobFor("record", noted)
          /\ "resubmit" \in Step /\ next \in Job /\ JobFor("resubmit", next)
        BY Zenon, <2>2, <2>3, <2>4, ObserveAim
    <2> HIDE DEF next
    <2>6. CASE got > 0 /\ PersistCanonicalReceipt(got) /\ Go("record", noted)
        BY <2>5, <2>6, ReceiptIsCommand, CommandGoInv
    <2>7. CASE GoOn("record", noted)
        BY <2>5, <2>7, GoOnInv
    <2>8. CASE GoOn("resubmit", next)
        BY SMTT(30), <2>5, <2>8, GoOnInv
    <2> QED  BY <2>1, <2>6, <2>7, <2>8
<1> QED  BY <1>1, <1>2, <1>3

\* The steps of a row in flight: a receipt, a cancellation of an orphaned row,
\* a rebroadcast, a replacement or a cancellation.
LEMMA InFlightInv ==
    ASSUME LaneInv, ObserveReceipt \/ RecoverOrphaned \/ ReconcileOrRebroadcast
    PROVE  LaneKept
<1>0. job \in Job
    BY DEF LaneInv, TypeOK
<1>1. CASE ObserveReceipt
    <2>1. PICK got \in Received :
             /\ got > 0 /\ job.st \in InFlight
             /\ PersistCanonicalReceipt(got)
             /\ Go("commit", [job EXCEPT !.aim = ReceiptOutcome(job.r, job.st, got),
                                         !.blk = got])
        BY Zenon, <1>1 DEF ObserveReceipt
    <2> DEFINE aim == ReceiptOutcome(job.r, job.st, got)
               next == [job EXCEPT !.aim = aim, !.blk = got]
    <2>2. pc = "observe"
        BY DEF Received
    <2>3. /\ got \in BlockId /\ body[got].tx \in Known(job.r) /\ job.r \in Row
        BY <2>1, ReceiptIsOwn
    <2>4. /\ aim \in {"Reverted", "Cancelled", "Included"}
          /\ aim = "Included" => body[got].ok
        BY DEF ReceiptOutcome
    <2>5. got # 0
        BY <2>3 DEF BlockId, LaneInv, TypeOK, StoreTypeOK
    <2> HIDE DEF aim
    <2>6. /\ next \in Job /\ next.r = job.r /\ next.st = job.st
          /\ next.aim = aim /\ next.blk = got
        BY ZenonT(30), <1>0, <2>3, <2>4 DEF Job, TransactionState
    <2>7. Go("commit", next)
        BY SMTT(30), <2>1 DEF aim
    <2> HIDE DEF next
    <2>8. JobFor("commit", next)
        <3>1. job.st # "NonceReserved" /\ job.st \notin Unsigned
            BY <2>1 DEF InFlight, Unsigned
        <3>2. aim = "Included" => OwnSuccess(job.r, got)
            BY SMTT(30), <2>3, <2>4, <2>5 DEF OwnSuccess
        <3>3. kinds[job.r] # <<>>
            BY <2>2, <3>1 DEF LaneInv, JobOK, JobFor
        <3> QED  BY SMTT(30), <2>3, <2>4, <2>6, <3>1, <3>2, <3>3 DEF JobFor
    <2> QED  BY <2>1, <2>6, <2>7, <2>8, ReceiptIsCommand, CommandGoInv DEF Step
<1>2. ASSUME NEW kind \in {"Replacement", "Cancellation"}, pc = "observe",
             GoOn("attempt", Attempt(kind))
      PROVE  LaneKept
    <2> DEFINE next == [job EXCEPT !.aim = kind]
    <2>1. "attempt" \in Step /\ next \in Job /\ JobFor("attempt", next)
        <3>1. kind \in TransactionState \cup AttemptKind \cup {"None"}
            BY <1>2 DEF AttemptKind
        <3> QED  BY Zenon, <1>2, <3>1, ObserveAim
    <2>2. GoOn("attempt", next)
        BY <1>2 DEF Attempt
    <2> HIDE DEF next
    <2> QED  BY <2>1, <2>2, GoOnInv
<1>3. CASE RecoverOrphaned
    <2>1. pc = "observe"
        BY <1>3 DEF RecoverOrphaned, Observing, Received
    <2> QED
        BY SMTT(30), <1>2, <1>3, <2>1, QuarantineInv
           DEF RecoverOrphaned, PauseReason
<1>4. CASE ReconcileOrRebroadcast
    <2> DEFINE next == [job EXCEPT !.aim = "None"]
    <2>1. /\ pc = "observe" /\ job.st \in InFlight
          /\ \/ Quarantine("recovery") \/ Quarantine("storage") \/ Done
             \/ ManagePending(job.r)
             \/ GoOn("resubmit", next)
        BY <1>4 DEF ReconcileOrRebroadcast, Observing, Received
    <2>2. CASE ManagePending(job.r)
        BY <1>2, <2>1, <2>2, DoneInv, QuarantineInv DEF ManagePending, PauseReason
    <2>3. CASE GoOn("resubmit", next)
        <3>1. job.st \notin Unsigned
            BY <2>1 DEF InFlight, Unsigned
        <3>2. "resubmit" \in Step /\ next \in Job /\ JobFor("resubmit", next)
            BY Zenon, <2>1, <3>1, ObserveAim
        <3> HIDE DEF next
        <3> QED  BY <2>3, <3>2, GoOnInv
    <2>4. CASE Quarantine("recovery") \/ Quarantine("storage") \/ Done
        BY <2>4, DoneInv, QuarantineInv DEF PauseReason
    <2> QED  BY <2>1, <2>2, <2>3, <2>4
<1> QED  BY <1>1, <1>3, <1>4

\* The steps of a row after inclusion.
LEMMA AfterInclusionInv ==
    ASSUME LaneInv, \/ ConfirmInclusion \/ ReconcileConfirmed
                    \/ ReconcileValidated \/ Revalidate \/ HoldForeign
    PROVE  LaneKept
<1>0. job \in Job /\ StoreTypeOK /\ Len(blocks) \in Nat \ {0}
    BY DEF LaneInv, TypeOK, StoreTypeOK
<1>1. CASE ConfirmInclusion
    <2> DEFINE next == [job EXCEPT !.aim = "Confirmed"]
    <2>1. /\ pc = "observe" /\ job.st = "Included"
          /\ Quarantine("recovery") \/ Done \/ GoOn("commit", next)
        BY <1>1 DEF ConfirmInclusion, PastGate, Received
    <2>2. "Confirmed" \in TransactionState
        BY DEF TransactionState
    <2>3. "commit" \in Step /\ next \in Job /\ JobFor("commit", next)
        BY Zenon, <2>1, <2>2, ObserveAim
    <2> HIDE DEF next
    <2> QED  BY <2>1, <2>3, DoneInv, QuarantineInv, GoOnInv DEF PauseReason
<1>2. CASE ReconcileConfirmed
    <2> DEFINE fail == [job EXCEPT !.aim = "Failed"]
               next == [job EXCEPT !.blk = inc[job.r]]
    <2>1. /\ pc = "observe" /\ job.st = "Confirmed"
          /\ \/ Quarantine("reconcile") \/ Done
             \/ GoOn("commit", fail)
             \/ /\ GoOn("conform", next)
                /\ state[job.r] = "Confirmed"
        BY <1>2 DEF ReconcileConfirmed, PastGate, Received
    <2>2. "Failed" \in TransactionState
        BY DEF TransactionState
    <2>3. CASE GoOn("commit", fail)
        <3>1. "commit" \in Step /\ fail \in Job /\ JobFor("commit", fail)
            BY Zenon, <2>1, <2>2, ObserveAim
        <3> HIDE DEF fail
        <3> QED  BY <2>3, <3>1, GoOnInv
    <2>4. CASE GoOn("conform", next) /\ state[job.r] = "Confirmed"
        <3>1. /\ job.r \in Row
              /\ job.st \notin Unsigned => kinds[job.r] # <<>>
            BY <2>1 DEF LaneInv, JobOK, JobFor
        <3>2. inc[job.r] \in BlockId
            BY <1>0, <2>4, <3>1 DEF LaneInv, StoreInv, ConfirmedIsCanonical,
                                    Validated, OwnSuccess, StoreTypeOK
        <3>3. /\ next \in Job /\ next.r = job.r /\ next.st = job.st
              /\ next.blk = inc[job.r]
            BY SMTT(30), <1>0, <3>2 DEF Job
        <3> HIDE DEF next
        <3>4. JobFor("conform", next)
            BY <3>1, <3>2, <3>3 DEF JobFor
        <3> QED  BY <2>4, <3>3, <3>4, GoOnInv DEF Step
    <2> QED
        BY <2>1, <2>3, <2>4, DoneInv, QuarantineInv DEF PauseReason
<1>3. ASSUME NEW j \in Job, j.r \in Row, j.st \notin Unsigned => kinds[j.r] # <<>>,
             PostState(j)
      PROVE  LaneKept
    <2> DEFINE next == [j EXCEPT !.blk = Cursor]
    <2>1. \/ Quarantine("recovery") \/ Quarantine("reconcile")
          \/ GoOn("reconcile", next)
          \/ GoOn("finalize", j)
        BY <1>3 DEF PostState
    <2>2. Cursor \in BlockId
        BY <1>0 DEF Cursor, StoreTypeOK
    <2>3. next \in Job /\ next.r = j.r /\ next.st = j.st /\ next.blk \in BlockId
        BY SMTT(30), <2>2 DEF Job
    <2> HIDE DEF next
    <2>4. JobFor("reconcile", next) /\ JobFor("finalize", j)
        BY <1>3, <2>3 DEF JobFor
    <2> QED
        BY <2>1, <2>3, <2>4, QuarantineInv, GoOnInv DEF PauseReason, Step
<1>4. CASE ReconcileValidated
    <2>1. pc = "observe" /\ PostState(job)
        BY <1>4 DEF ReconcileValidated, PastGate, Received
    <2>2. job.r \in Row /\ (job.st \notin Unsigned => kinds[job.r] # <<>>)
        BY <2>1 DEF LaneInv, JobOK, JobFor
    <2> QED  BY <1>0, <1>3, <2>1, <2>2
<1>5. CASE Revalidate
    <2>1. PICK r \in AwaitingReconciliation :
             PostState([NoJob EXCEPT !.r = r, !.st = state[r], !.head = Len(blocks)])
        BY Zenon, <1>5 DEF Revalidate
    <2> DEFINE j == [NoJob EXCEPT !.r = r, !.st = state[r], !.head = Len(blocks)]
    <2>2. r \in Row /\ state[r] \in TransactionState \cup {"Absent"}
        BY <1>0 DEF AwaitingReconciliation, StoreTypeOK
    <2>3. j \in Job /\ j.r = r /\ j.st = state[r]
        BY Zenon, <1>0, <2>2 DEF NoJob, Job
    <2>4. state[r] \notin Unsigned => kinds[r] # <<>>
        BY <2>2 DEF LaneInv, StoreInv, SignedHasBytes
    <2>5. PostState(j)
        BY <2>1
    <2> HIDE DEF j
    <2> QED  BY <1>3, <2>2, <2>3, <2>4, <2>5
<1>6. CASE HoldForeign
    BY <1>6, QuarantineInv DEF HoldForeign, PauseReason
<1> QED  BY SMTT(30), <1>1, <1>2, <1>4, <1>5, <1>6

-----------------------------------------------------------------------------
(* The storage commands of a tick. *)

\* A tick that issues a command and ends.
LEMMA CommandEndInv ==
    ASSUME LaneInv, TickCommand, Idle, UNCHANGED <<body, chain, network, ready>>,
           paused' \in PauseReason, noise' \in Nat, reorgs' \in Nat, faults' \in Nat
    PROVE  LaneKept
<1>1. TickFrame
    BY SMTT(30) DEF TickFrame, Frame, StoreCommand, LaneInv, TypeOK
<1> QED  BY <1>1, EndTick

\* The compare-and-set of a tick is a command with its caller's evidence: the
\* Included block was found by canonical_receipt, the block of a Confirmed row
\* is compared once more, and an unsigned row is only aborted.
LEMMA CommitInv ==
    ASSUME LaneInv, Commit
    PROVE  LaneKept
<1>1. CASE Done
    BY <1>1, DoneInv
<1>2. CASE Quarantine("storage")
    BY Zenon, <1>2, QuarantineInv, Reasons
<1>3. CASE /\ ~(job.aim = "Confirmed" /\ (inc[job.r] = 0 \/ ~Canonical(inc[job.r])))
           /\ TransitionTransaction(job.r, job.st, job.aim, job.blk)
           /\ paused' = IF job.aim = "ForeignNonceConsumed" THEN "foreign"
                        ELSE IF Recovers(job.aim) THEN "no" ELSE paused
           /\ Idle
           /\ UNCHANGED <<chainVars, ready, bounds>>
    <2>1. pc = "commit" /\ job \in Job
        BY Zenon DEF Commit, LaneInv, TypeOK
    <2>2. job.r \in Row /\ job.blk \in BlockId \cup {0}
        BY Zenon, <2>1, JobFields DEF LaneInv, JobOK, JobFor
    <2>3. AllowsTransition(job.st, job.aim)
        BY <1>3 DEF TransitionTransaction, TransitionOk
    <2>4. /\ job.st \in TransactionState /\ job.aim \in TransactionState
          /\ job.st = "NonceReserved"
                => job.aim \in {"AbortedBeforeSigning", "Signed", "Failed"}
        BY SMTT(30), <2>3, Lifecycle
    <2>5. /\ job.aim = "Included" => OwnSuccess(job.r, job.blk)
          /\ job.aim = "Confirmed" => job.blk = 0
          /\ job.st = "NonceReserved"
                => job.aim \in {"AbortedBeforeSigning", "ForeignNonceConsumed"}
        BY SMTT(30), <2>1 DEF LaneInv, JobOK, JobFor
    <2>6. CheckedTransition(job.r, job.st, job.aim, job.blk)
        BY ZenonT(30), <1>3, <2>4, <2>5 DEF CheckedTransition
    <2>7. TickCommand
        BY SMTT(30), <2>2, <2>4, <2>6 DEF TickCommand, RowCommand
    <2>8. paused' \in PauseReason
        BY Zenon, <1>3, LaneScalars, Reasons
    <2>9. Idle /\ UNCHANGED <<body, chain, network, ready, noise, reorgs, faults>>
        BY Zenon, <1>3 DEF chainVars, bounds
    <2>10. noise' \in Nat /\ reorgs' \in Nat /\ faults' \in Nat
        BY Zenon, <2>9, LaneScalars
    <2> QED
        BY Zenon, <2>7, <2>8, <2>9, <2>10, CommandEndInv
<1> QED  BY <1>1, <1>2, <1>3 DEF Commit, TransitionTransaction

\* Conformance, reconciliation and the final failure of a conformed row.
LEMMA EvidenceInv ==
    ASSUME LaneInv, Conform \/ Reconcile \/ Finalize
    PROVE  LaneKept
<1>0. /\ ready \in BOOLEAN /\ paused \in PauseReason
      /\ noise \in Nat /\ reorgs \in Nat /\ faults \in Nat
    BY Zenon, LaneScalars
<1>1. CASE Conform
    <2>1. job.r \in Row /\ job.blk \in BlockId
        BY Zenon, <1>1, LaneJob DEF Conform
    <2>2. CASE PersistConformance(job.r, job.blk) /\ ~Quarantine("reconcile")
        <3>1. TickCommand
            BY <2>1, <2>2 DEF TickCommand, RowCommand
        <3>2. Idle /\ UNCHANGED <<chainVars, ready, paused, bounds>>
            BY Zenon, <1>1, <2>2 DEF Conform
        <3>3. UNCHANGED <<body, chain, network, ready, paused, noise, reorgs, faults>>
            BY Zenon, <3>2 DEF chainVars, bounds
        <3> QED
            BY Zenon, <1>0, <3>1, <3>2, <3>3, CommandEndInv
    <2> QED  BY Zenon, <1>1, <2>2, QuarantineInv, Reasons DEF Conform
<1>2. CASE Reconcile
    <2>1. job.r \in Row /\ job.blk \in BlockId
        BY Zenon, <1>2, LaneJob DEF Reconcile
    <2>2. CASE /\ PersistReconciliation(job.r, job.blk) /\ Idle
               /\ UNCHANGED <<chainVars, ready, paused, bounds>>
        <3>1. TickCommand
            BY SMTT(30), <2>1, <2>2 DEF TickCommand, RowCommand
        <3>2. UNCHANGED <<body, chain, network, ready, paused, noise, reorgs, faults>>
            BY Zenon, <2>2 DEF chainVars, bounds
        <3> QED
            BY Zenon, <1>0, <2>2, <3>1, <3>2, CommandEndInv
    <2>3. \/ /\ PersistReconciliation(job.r, job.blk) /\ Idle
             /\ UNCHANGED <<chainVars, ready, paused, bounds>>
          \/ Done
          \/ Quarantine(IF HasConformance(job.r) THEN "reconcile" ELSE "orphaned")
        BY Zenon, <1>2 DEF Reconcile
    <2> QED  BY Zenon, <2>2, <2>3, DoneInv, QuarantineInv, Reasons
<1>3. CASE Finalize
    <2>1. job.r \in Row
        BY Zenon, <1>3, LaneJob DEF Finalize
    <2>2. CASE /\ FinalizeConformedFailure(job.r, job.st) /\ Idle /\ paused' = "no"
               /\ UNCHANGED <<chainVars, ready, bounds>>
        <3>1. job.st \in TransactionState
            BY Zenon, <2>2 DEF FinalizeConformedFailure, FinalizeOk,
                        RequiresReconciliation, TransactionState
        <3>2. TickCommand
            BY <2>1, <2>2, <3>1 DEF TickCommand, RowCommand
        <3>3. UNCHANGED <<body, chain, network, ready, noise, reorgs, faults>>
            BY Zenon, <2>2 DEF chainVars, bounds
        <3> QED
            BY Zenon, <1>0, <2>2, <3>2, <3>3, CommandEndInv, Reasons
    <2> QED  BY Zenon, <1>3, <2>2, QuarantineInv, Reasons DEF Finalize
<1> QED  BY <1>1, <1>2, <1>3

\* Signing a replacement or a cancellation makes its bytes durable before the
\* tick goes on to send them.
LEMMA SignAttemptInv ==
    ASSUME LaneInv, SignAttempt
    PROVE  LaneKept
<1>0. pc = "attempt"
    BY Zenon DEF SignAttempt
<1>1. /\ pc = "attempt" /\ job \in Job /\ job.head \in Nat
      /\ job.r \in Row /\ job.aim \in {"Replacement", "Cancellation"}
    BY Zenon, <1>0, LaneJob DEF Job
<1> DEFINE kind == job.aim
           aim == IF kind = "Replacement" THEN "Replaced"
                  ELSE "CancellationSubmitted"
           next == [job EXCEPT !.st = SignedStateOf(kind), !.aim = aim]
<1>2. \/ PersistSignedAttempt(job.r, kind, job.head) /\ Go("submit", next)
      \/ Quarantine("storage")
    BY DEF SignAttempt
<1>3. CASE PersistSignedAttempt(job.r, kind, job.head) /\ Go("submit", next)
    <2>1. TickCommand
        BY <1>1, <1>3 DEF TickCommand, RowCommand, AttemptKind
    <2>2. kinds[job.r] # <<>>
        <3>1. state[job.r] \notin Unsigned
            BY <1>3 DEF PersistSignedAttempt, PersistSignedAttemptOk, Unsigned
        <3> QED  BY <1>1, <3>1 DEF LaneInv, StoreInv, SignedHasBytes
    <2>3. /\ SignedStateOf(kind) \in {"ReplacementSigned", "CancellationSigned"}
          /\ aim \in {"Replaced", "CancellationSubmitted"}
        BY DEF SignedStateOf
    <2> HIDE DEF aim, kind
    <2>4. /\ next \in Job /\ next.r = job.r /\ next.st = SignedStateOf(kind)
          /\ next.aim = aim
        BY ZenonT(30), <1>1, <2>3 DEF Job, TransactionState
    <2> HIDE DEF next
    <2>5. JobFor("submit", next)
        BY SMTT(30), <1>1, <2>2, <2>3, <2>4 DEF JobFor, Unsigned
    <2>6. "submit" \in Step
        BY DEF Step
    <2> QED  BY Zenon, <1>3, <2>1, <2>4, <2>5, <2>6, CommandGoInv
<1> QED  BY Zenon, <1>2, <1>3, QuarantineInv, Reasons

\* The attempt a tick sends is the row's latest durable one.
LEMMA LatestIsKnown ==
    ASSUME LaneInv, NEW r \in Row, kinds[r] # <<>>
    PROVE  Latest(r) \in Known(r) /\ Latest(r) \in Attempts
<1>1. kinds[r] \in Seq(AttemptKind)
    BY DEF LaneInv, TypeOK, StoreTypeOK
<1>2. Len(kinds[r]) \in Nat \ {0} /\ Len(kinds[r]) \in DOMAIN kinds[r]
    BY <1>1
<1> QED  BY <1>2 DEF Latest, Known, Attempts

\* Sending reaches the network with durable bytes only.
LEMMA SubmitInv ==
    ASSUME LaneInv, Submit
    PROVE  LaneKept
<1>1. /\ pc \in {"submit", "resubmit"} /\ job \in Job
      /\ job.r \in Row /\ kinds[job.r] # <<>> /\ job.st \notin Unsigned
      /\ job.aim \in {"None", "Submitted", "Replaced", "CancellationSubmitted"}
    BY DEF Submit, LaneInv, TypeOK, JobOK, JobFor
<1>2. /\ pc' = "record" /\ job' \in {job, [job EXCEPT !.ok = TRUE]}
      /\ network' \subseteq network \cup {Latest(job.r)}
      /\ paused' \in {paused, "signer"} /\ faults' \in {faults, faults + 1}
      /\ UNCHANGED <<storeVars, body, chain, ready, noise, reorgs>>
    BY DEF Submit, Fault
<1>3. TickFrame
    BY <1>2 DEF TickFrame, Frame, LaneInv, TypeOK, PauseReason
<1>4. /\ job' \in Job /\ job'.r = job.r /\ job'.st = job.st /\ job'.aim = job.aim
    BY Zenon, <1>1, <1>2 DEF Job
<1>5. pc' \in Step /\ network' \subseteq Attempts
    BY SMTT(30), <1>1, <1>2, LatestIsKnown DEF Step, LaneInv, TypeOK
<1>6. TypeOK'
    BY <1>3, <1>4, <1>5, FrameKept DEF TickFrame
<1>7. JobOK'
    <2>1. kinds' = kinds
        BY <1>2 DEF storeVars
    <2> QED  BY <1>1, <1>2, <1>4, <2>1 DEF JobOK, JobFor, Unsigned
<1>8. DurableBeforeBroadcast'
    <2>1. network' \subseteq UNION {Known(r) : r \in Row}
        BY SMTT(30), <1>1, <1>2, LatestIsKnown DEF LaneInv, DurableBeforeBroadcast
    <2> QED  BY <1>3, <2>1, FrameKept DEF DurableBeforeBroadcast, TickFrame
<1>9. LaneInv'
    BY SMTT(30), <1>3, <1>6, <1>7, <1>8, FrameKept DEF LaneInv, TickFrame
<1> QED  BY <1>3, <1>9, TickFrameKept DEF LaneKept

\* Recording a broadcast.
LEMMA RecordInv ==
    ASSUME LaneInv, Record
    PROVE  LaneKept
<1>1. /\ pc = "record" /\ job \in Job /\ job.head \in Nat
      /\ job.r \in Row /\ kinds[job.r] # <<>> /\ job.st \notin Unsigned
      /\ job.aim \in {"None", "Submitted", "Replaced", "CancellationSubmitted"}
    BY DEF Record, LaneInv, TypeOK, JobOK, JobFor, Job
<1>2. CASE Quarantine("storage")
    BY <1>2, QuarantineInv DEF PauseReason
<1>3. CASE RecordAttemptBroadcast(job.r, job.head)
    <2>1. TickCommand
        BY Zenon, <1>1, <1>3 DEF TickCommand, RowCommand
    <2>2. CASE Idle /\ UNCHANGED <<chainVars, ready, paused, bounds>>
        BY SMTT(30), <2>1, <2>2, CommandEndInv
           DEF chainVars, bounds, LaneInv, TypeOK
    <2>3. CASE Go("commit", job)
        <3>1. JobFor("commit", job)
            BY SMTT(30), <1>1 DEF JobFor, Unsigned
        <3> QED  BY SMTT(30), <1>1, <2>1, <2>3, <3>1, CommandGoInv DEF Step
    <2>4. CASE Quarantine("storage")
        BY <2>4, QuarantineInv DEF PauseReason
    <2> QED  BY SMTT(30), <2>2, <2>3, <2>4 DEF Record
<1> QED  BY SMTT(30), <1>2, <1>3 DEF Record

-----------------------------------------------------------------------------
(* Execution. *)

\* Planning, reserving and the signing gate.
LEMMA ReserveInv ==
    ASSUME LaneInv, BeginExecute \/ PersistPlan \/ Reserve \/ Gate
    PROVE  LaneKept
<1>0. job \in Job /\ StoreTypeOK /\ Len(blocks) \in Nat \ {0}
    BY DEF LaneInv, TypeOK, StoreTypeOK
<1>1. CASE BeginExecute
    <2>1. PICK rate \in Charges :
             GoOn("plan", [NoJob EXCEPT !.head = Len(blocks), !.blk = Cursor,
                                        !.tip = chain[Len(chain)],
                                        !.nonce = ConfirmedNonce,
                                        !.rate = rate])
        BY Zenon, <1>1 DEF BeginExecute
    <2> DEFINE next == [NoJob EXCEPT !.head = Len(blocks), !.blk = Cursor,
                                     !.tip = chain[Len(chain)],
                                     !.nonce = ConfirmedNonce,
                                     !.rate = rate]
    <2>2. GoOn("plan", next) /\ rate \in BOOLEAN
        BY <2>1, LaneAssumption
    <2>3. Cursor \in BlockId
        BY <1>0 DEF Cursor, StoreTypeOK
    <2>4. chain[Len(chain)] \in BlockId /\ ConfirmedNonce \in Nat
        BY NonceOnType DEF LaneInv, TypeOK, ConfirmedNonce
    <2>5. next \in Job /\ next.blk = Cursor /\ next.tip = chain[Len(chain)]
        BY ZenonT(30), <1>0, <2>2, <2>3, <2>4 DEF NoJob, Job, TransactionState
    <2> HIDE DEF next
    <2>6. JobFor("plan", next)
        BY <2>3, <2>4, <2>5 DEF JobFor
    <2> QED  BY <2>2, <2>5, <2>6, GoOnInv DEF Step
<1>2. CASE PersistPlan
    <2>1. JobFor("reserve", job)
        BY <1>2 DEF PersistPlan, LaneInv, JobOK, JobFor
    <2> QED
        BY SMTT(30), <1>0, <1>2, <2>1, GoOnInv, QuarantineInv
           DEF PersistPlan, Step, PauseReason
<1>3. CASE Reserve
    <2>1. /\ pc = "reserve" /\ job.blk \in BlockId /\ job.tip \in BlockId
          /\ job.nonce \in Nat /\ job.rate \in BOOLEAN
        BY Zenon, <1>0, <1>3 DEF Reserve, LaneInv, JobOK, JobFor, Job
    <2>2. CASE \E r \in Row :
                  /\ ReserveNonce(r, job.tip, job.nonce, job.blk, job.rate)
                  /\ Go("gate", [job EXCEPT !.r = r, !.st = "NonceReserved"])
        <3>1. PICK r \in Row :
                 /\ ReserveNonce(r, job.tip, job.nonce, job.blk, job.rate)
                 /\ Go("gate", [job EXCEPT !.r = r, !.st = "NonceReserved"])
            BY Zenon, <2>2
        <3> DEFINE next == [job EXCEPT !.r = r, !.st = "NonceReserved"]
        <3>2. TickCommand
            BY <2>1, <3>1 DEF TickCommand, RowCommand
        <3>3. next \in Job /\ next.r = r /\ next.st = "NonceReserved"
            BY Zenon, <1>0 DEF Job, TransactionState
        <3>4. Go("gate", next)
            BY SMTT(30), <3>1
        <3> HIDE DEF next
        <3>5. JobFor("gate", next)
            BY SMTT(30), <3>3 DEF JobFor, Unsigned
        <3> QED  BY <3>2, <3>3, <3>4, <3>5, CommandGoInv DEF Step
    <2> QED
        BY Zenon, <1>3, <2>2, DoneInv, QuarantineInv DEF Reserve, PauseReason
<1>4. CASE Gate
    <2> DEFINE sign == [job EXCEPT !.blk = 0]
               abort == [job EXCEPT !.aim = "AbortedBeforeSigning", !.blk = 0]
    <2>1. job.r \in Row /\ job.st = "NonceReserved"
        BY <1>4 DEF Gate, LaneInv, JobOK, JobFor
    <2>2. /\ sign \in Job /\ sign.r = job.r /\ sign.st = job.st
          /\ abort \in Job /\ abort.r = job.r /\ abort.st = job.st
          /\ abort.aim = "AbortedBeforeSigning"
        BY ZenonT(30), <1>0 DEF Job, TransactionState
    <2>3. GoOn("sign", sign) \/ GoOn("commit", abort)
        BY <1>4 DEF Gate
    <2> HIDE DEF sign, abort
    <2>4. JobFor("sign", sign) /\ JobFor("commit", abort)
        BY <2>1, <2>2 DEF JobFor, Unsigned
    <2> QED  BY <2>2, <2>3, <2>4, GoOnInv DEF Step
<1> QED  BY <1>1, <1>2, <1>3, <1>4

\* Signing: the bytes are durable when the tick goes on to send them.
LEMMA SignInv ==
    ASSUME LaneInv, Sign
    PROVE  LaneKept
<1> DEFINE next == [job EXCEPT !.st = "Signed", !.aim = "Submitted"]
<1>1. job \in Job /\ job.r \in Row
    BY DEF Sign, LaneInv, TypeOK, JobOK, JobFor
<1>2. CASE PersistSigned(job.r) /\ Go("submit", next)
    <2>1. TickCommand
        BY <1>1, <1>2 DEF TickCommand, RowCommand
    <2>2. TickFrame
        BY <1>2, <2>1
           DEF TickFrame, Frame, StoreCommand, Go, chainVars, bounds, LaneInv, TypeOK
    <2>3. next \in Job /\ next.r = job.r /\ next.aim = "Submitted"
        BY Zenon, <1>1 DEF Job, TransactionState
    <2>4. pc' = "submit" /\ job' = next /\ network' = network
        BY <1>2 DEF Go, chainVars
    <2>5. kinds'[job.r] # <<>>
        <3>1. kinds \in [Row -> Seq(AttemptKind)]
            BY DEF LaneInv, TypeOK, StoreTypeOK
        <3>2. kinds' = [kinds EXCEPT ![job.r] = Append(@, "Initial")]
            BY <1>2 DEF PersistSigned
        <3>3. kinds'[job.r] = Append(kinds[job.r], "Initial")
            BY Zenon, <1>1, <3>1, <3>2
        <3>4. kinds[job.r] \in Seq(AttemptKind)
            BY SMTT(30), <1>1, <3>1
        <3>5. Len(kinds'[job.r]) = Len(kinds[job.r]) + 1
            BY <3>3, <3>4
        <3> QED  BY <3>4, <3>5
    <2>6. next.st = "Signed"
        BY ZenonT(30), <1>1 DEF Job
    <2> HIDE DEF next
    <2>7. JobOK'
        BY SMTT(30), <1>1, <2>3, <2>4, <2>5, <2>6 DEF JobOK, JobFor, Unsigned
    <2>8. LaneInv'
        BY <2>2, <2>3, <2>4, <2>7, GoOnTick DEF TickFrame, Step
    <2> QED  BY <2>2, <2>8, TickFrameKept DEF LaneKept
<1> QED  BY <1>2, QuarantineInv DEF Sign, PauseReason

-----------------------------------------------------------------------------
(* Failures. *)

\* A signer failure aborts the row it holds; every other failure ends the tick
\* and leaves the tables as they are.
LEMMA FailureInv ==
    ASSUME LaneInv, Failure
    PROVE  LaneKept
<1>0. /\ faults' \in Nat
      /\ noise \in Nat /\ reorgs \in Nat /\ ready \in BOOLEAN /\ paused \in PauseReason
    <2>1. faults' = faults + 1
        BY Zenon DEF Failure, SignerFailure, PendingSignerFailure, TickFails, Crash, Fault
    <2>2. faults' \in Nat
        BY <2>1, LaneScalars
    <2> QED  BY Zenon, <2>2, LaneScalars
<1>1. CASE SignerFailure
    <2>1. job.r \in Row
        BY Zenon, <1>1, LaneJob DEF SignerFailure
    <2>2. CheckedTransition(job.r, "NonceReserved", "AbortedBeforeSigning", 0)
        BY <1>1 DEF SignerFailure, CheckedTransition
    <2>3. TickCommand
        BY <2>1, <2>2 DEF TickCommand, RowCommand, TransactionState
    <2> QED
        BY Zenon, <1>0, <1>1, <2>3, CommandEndInv, Reasons DEF SignerFailure, chainVars
<1>2. CASE PendingSignerFailure \/ TickFails \/ Crash
    <2>1. TickFrame
        BY Zenon, <1>0, <1>2
           DEF PendingSignerFailure, TickFails, Crash, TickFrame, Frame,
                          chainVars, PauseReason
    <2>2. Idle /\ network' = network
        BY <1>2 DEF PendingSignerFailure, TickFails, Crash, chainVars
    <2> QED  BY <2>1, <2>2, EndTick
<1> QED  BY Zenon, <1>1, <1>2 DEF Failure

-----------------------------------------------------------------------------
(* The specification. *)

\* Every step of the execution service, its failures included.
LEMMA TickInv ==
    ASSUME LaneInv, Recover \/ Execute \/ Persist \/ Failure
    PROVE  LaneKept
<1>1. CASE Recover
    BY <1>1, LookupInv, RecoverAttemptInv, InFlightInv, AfterInclusionInv
       DEF Recover
<1>2. CASE Execute
    BY <1>2, ReserveInv, SignInv DEF Execute
<1>3. CASE Persist
    BY Zenon, <1>3, CommitInv, EvidenceInv, SignAttemptInv, SubmitInv, RecordInv
       DEF Persist
<1> QED  BY <1>1, <1>2, <1>3, FailureInv

\* Every step of the network.
LEMMA NetworkInv ==
    ASSUME LaneInv, Network
    PROVE  LaneInv'
<1>1. CASE MineTx
    <2>1. PICK tx \in Mineable(chain) : \E ok \in Outcomes(tx) : Extend(tx, ok)
        BY <1>1 DEF MineTx
    <2>2. PICK ok \in Outcomes(tx) : Extend(tx, ok)
        BY <2>1
    <2>3. ok \in BOOLEAN
        BY Zenon DEF Outcomes
    <2>4. tx \in Attempts \cup {NoTx, ForeignTx}
        BY DEF Mineable, LaneInv, TypeOK
    <2>5. noise' \in Nat
        BY <1>1 DEF MineTx, LaneInv, TypeOK
    <2> QED  BY <2>2, <2>3, <2>4, <2>5, ExtendInv
<1>2. CASE MineForeign
    BY Zenon, <1>2, ExtendInv DEF MineForeign, LaneInv, TypeOK
<1>3. CASE MineEmpty
    <2>1. noise \in Nat
        BY DEF LaneInv, TypeOK
    <2>2. Extend(NoTx, TRUE)
        BY Zenon, <1>3 DEF MineEmpty
    <2>3. noise' = noise \/ noise' = noise + 1
        BY Zenon, <1>3 DEF MineEmpty
    <2>4. noise' \in Nat
        BY <2>1, <2>3
    <2> QED  BY Zenon, <2>2, <2>4, ExtendInv
<1>4. CASE Evict
    <2>1. faults' \in Nat
        BY <1>4, LaneScalars DEF Evict, Fault
    <2>2. network' \subseteq network /\ UNCHANGED <<pc, job>>
        BY Zenon, <1>4 DEF Evict
    <2>3. Frame
        BY Zenon, <1>4, <2>1, LaneScalars DEF Evict, Frame
    <2> QED  BY Zenon, <2>2, <2>3, OtherStep
<1> QED  BY <1>1, <1>2, <1>3, <1>4, ReorgInv DEF Network

\* LaneInv is inductive.
LEMMA LaneStep ==
    ASSUME LaneInv, [Next]_vars
    PROVE  LaneInv'
<1>1. CASE Next
    BY Zenon, <1>1, NetworkInv, ChainServiceInv, TickInv DEF Next, LaneKept
<1>2. CASE UNCHANGED vars
    <2>1. Frame
        BY Zenon, <1>2, LaneScalars DEF vars, bounds, chainVars, Frame
    <2> QED  BY Zenon, <1>2, <2>1, OtherStep DEF vars, chainVars
<1> QED  BY <1>1, <1>2

\* The inductive invariant of the lane holds in every reachable state: types,
\* the promises of the tables, the linked chain, what a tick carries from one
\* command to the next, and the durability of every byte sent.
THEOREM LaneInvariant == Spec => []LaneInv
<1>1. Init => LaneInv
    BY LaneInit
<1>2. LaneInv /\ [Next]_vars => LaneInv'
    BY LaneStep
<1> QED  BY <1>1, <1>2, PTL DEF Spec

\* Every command and every step of a tick writes what the next can read.
THEOREM TypeCorrect == Spec => []TypeOK
<1>1. LaneInv => TypeOK
    BY DEF LaneInv
<1> QED  BY <1>1, LaneInvariant, PTL

\* No node ever holds bytes that the tables do not: whatever crashes, lost
\* sends and reorganisations intervene, execute_pending_attempt and
\* sign_durable_rebalance persist before submit_signed_bytes sends.
THEOREM DurableBytes == Spec => []DurableBeforeBroadcast
<1>1. LaneInv => DurableBeforeBroadcast
    BY DEF LaneInv
<1> QED  BY <1>1, LaneInvariant, PTL

\* A confirmed row's inclusion block is on the stored chain and holds one of
\* its own attempts, executed successfully, at every depth of rewind.
THEOREM ConfirmedCanonical == Spec => []ConfirmedIsCanonical
<1>1. LaneInv => ConfirmedIsCanonical
    BY DEF LaneInv, StoreInv
<1> QED  BY <1>1, LaneInvariant, PTL

\* Every durable receipt belongs to a block of the stored chain.
THEOREM ReceiptsCanonical == Spec => []ReceiptIsCanonical
<1>1. LaneInv => ReceiptIsCanonical
    BY DEF LaneInv, StoreInv
<1> QED  BY <1>1, LaneInvariant, PTL

\* A row's rate movement is held, spent or returned as its lifecycle state
\* says, through every rewind.
THEOREM MovementsFollow == Spec => []MovementFollowsState
<1>1. LaneInv => MovementFollowsState
    BY DEF LaneInv, StoreInv
<1> QED  BY <1>1, LaneInvariant, PTL

-----------------------------------------------------------------------------
(* Without reorganisations the stored chain is a prefix of the provider's, the
   chain service never rewinds, and the lane never has two owners. *)

StoredPrefix ==
    /\ Len(blocks) <= Len(chain)
    /\ \A i \in 1..Len(blocks) : blocks[i] = chain[i]

QuietInv == LaneInv /\ StoredPrefix /\ OneUnresolved

\* A step of any actor keeps the prefix and the single owner.
LEMMA QuietStep ==
    ASSUME MaxReorgs = 0, QuietInv, [Next]_vars
    PROVE  QuietInv'
<1>0. /\ chain \in Seq(BlockId) /\ blocks \in Seq(BlockId)
      /\ Len(chain) \in Nat /\ Len(blocks) \in Nat \ {0}
    BY DEF QuietInv, LaneInv, TypeOK, StoreTypeOK
<1>1. LaneInv'
    BY SMTT(30), LaneStep DEF QuietInv
<1>2. ASSUME UNCHANGED <<blocks, state>>, UNCHANGED chain \/ Network
      PROVE  StoredPrefix' /\ OneUnresolved'
    <2>1. OneUnresolved'
        BY <1>2 DEF QuietInv, OneUnresolved, Unresolved
    <2>2. CASE Network
        <3>1. ~Reorg
            BY SMTT(30) DEF Reorg, QuietInv, LaneInv, TypeOK
        <3>2. chain' = chain \/ chain' = Append(chain, Len(body) + 1)
            BY Zenon, <2>2, <3>1
               DEF Network, MineTx, MineForeign, MineEmpty, Evict, Extend
        <3>3. /\ Len(chain') \in {Len(chain), Len(chain) + 1}
              /\ \A i \in 1..Len(chain) : chain'[i] = chain[i]
            BY <1>0, <3>2
        <3> QED  BY SMTT(30), <1>0, <1>2, <2>1, <3>3 DEF QuietInv, StoredPrefix
    <2> QED  BY <1>2, <2>1, <2>2 DEF QuietInv, StoredPrefix
<1>3. CASE Network
    <2>1. UNCHANGED storeVars
        BY Zenon, <1>3
           DEF Network, MineTx, MineForeign, MineEmpty, Reorg, Evict, Extend
    <2>2. UNCHANGED <<blocks, state>>
        BY <2>1 DEF storeVars
    <2> QED  BY <1>1, <1>2, <1>3, <2>2 DEF QuietInv
<1>4. CASE ChainService \/ StateRefresh
    <2>1. ~RewindAndReplay
        BY <1>0 DEF RewindAndReplay, Follows, Cursor, QuietInv, StoredPrefix
    <2>2. CASE CatchUp
        <3>1. blocks' = Append(blocks, chain[Len(blocks) + 1])
            BY <2>2 DEF CatchUp, ApplyBlock
        <3>2. /\ Len(blocks') = Len(blocks) + 1
              /\ blocks'[Len(blocks) + 1] = chain[Len(blocks) + 1]
              /\ \A i \in 1..Len(blocks) : blocks'[i] = blocks[i]
            BY <1>0, <3>1
        <3>3. chain' = chain /\ state' = state /\ Len(blocks) < Len(chain)
            BY SMTT(30), <2>2 DEF CatchUp, ApplyBlock, chainVars
        <3>4. StoredPrefix'
            BY SMTT(30), <1>0, <3>2, <3>3 DEF QuietInv, StoredPrefix
        <3> QED  BY <3>3, <3>4, <1>1 DEF QuietInv, OneUnresolved, Unresolved
    <2>3. CASE PollIdle \/ StateRefresh
        BY SMTT(30), <1>1, <1>2, <2>3
           DEF PollIdle, StateRefresh, storeVars, chainVars, QuietInv
    <2> QED  BY SMTT(30), <1>4, <2>1, <2>2, <2>3 DEF ChainService
<1>5. CASE Recover \/ Execute \/ Persist \/ Failure
    BY SMTT(30), <1>1, <1>5, TickInv DEF QuietInv, LaneKept, StoredPrefix
<1>6. CASE UNCHANGED vars
    BY <1>1, <1>2, <1>6 DEF vars, storeVars, chainVars, QuietInv
<1> QED  BY SMTT(30), <1>1, <1>3, <1>4, <1>5, <1>6 DEF Next, QuietInv

\* While the provider's chain does not reorganise, the lane has at most one
\* unresolved row, across crashes, lost sends, replacements, cancellations,
\* foreign transactions and any number of rows.
THEOREM OneOwner ==
    ASSUME MaxReorgs = 0
    PROVE  Spec => []OneUnresolved
<1>1. Init => QuietInv
    BY LaneInit
       DEF Init, StoreInit, QuietInv, StoredPrefix, OneUnresolved, Unresolved,
                    IsUnresolved
<1>2. QuietInv /\ [Next]_vars => QuietInv'
    BY QuietStep
<1>3. QuietInv => OneUnresolved
    BY DEF QuietInv
<1> QED  BY <1>1, <1>2, <1>3, PTL DEF Spec
=============================================================================
