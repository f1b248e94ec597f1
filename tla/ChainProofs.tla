----------------------------- MODULE ChainProofs ----------------------------
(***************************************************************************)
(* Proofs about dag.Chain, for any number of nodes, stakes, batches and    *)
(* heights and whatever the scenario lets go wrong: blocks of one height   *)
(* share a parent, complete blocks have their data in a quorum of pools,   *)
(* and only committed batches leave their owner's pool.                    *)
(***************************************************************************)
EXTENDS Chain, StakeQuorumProofs

-----------------------------------------------------------------------------
(* The inductive invariant *)

\* Nodes that have or had a batch hold a quorum of stake.
Available(b) == Weight[{n \in Nodes : b \in held[n]}] >= StakeRequired

\* What is in a pool was stored there.
Stored == \A n \in Nodes : pool[n] \subseteq held[n]

\* A Chain assembles and waits within the modelled heights, and waits for the
\* round that its broadcaster started last.
Started ==
  \A n \in Nodes : /\ cpc[n] \in {"list", "await"} => height[n] <= MaxHeight
                   /\ cpc[n] = "await" => latest[n] = height[n]

\* A block is processed only after its producer started the round of its height,
\* so that Assemble never replaces a block that anyone has seen.
Seen ==
  \A n \in Nodes, id \in Ids : status[n][id] # "none" => id[1] <= latest[id[2]]

\* A validator that waits, or has signed, had every batch it does not need any
\* more, or a quorum had it before the batch was deleted under its Pull.
Pulled ==
  \A n \in Nodes, id \in Ids : status[n][id] \in {"waiting", "signed"} =>
    \A b \in blocks[id].batches \ need[n][id] : b \in held[n] \/ Available(b)

\* Producers of a set of blocks.
ProducersOf(L) == {id[2] : id \in L}

\* The blocks a Chain listed are complete, and their producers hold a quorum of
\* stake unless the node refused a block.
ListedComplete ==
  \A n \in Nodes :
    /\ \A id \in lastCerts[n] : Complete(id)
    /\ height[n] > 1 /\ Refused(n) = {} => Weight[ProducersOf(lastCerts[n])] >= StakeRequired

\* The same for the parents of a block, one height below it.
ParentsComplete ==
  \A id \in Ids :
    /\ \A p \in blocks[id].parents : p[1] = id[1] - 1 /\ Complete(p)
    /\ blocks[id] # NoBlock /\ id[1] > 1 /\ Refused(id[2]) = {} =>
         Weight[ProducersOf(blocks[id].parents)] >= StakeRequired

IInv == /\ TypeOK
        /\ Stored
        /\ Started
        /\ Seen
        /\ Pulled
        /\ ListedComplete
        /\ ParentsComplete
        /\ NoBatchLost

-----------------------------------------------------------------------------
(* What stays true of blocks, signatures and pools *)

\* A set of nodes that grows keeps a quorum of stake.
LEMMA QuorumGrows ==
  ASSUME NEW S \in SUBSET Nodes, NEW T \in SUBSET Nodes, S \subseteq T,
         Weight[S] >= StakeRequired
  PROVE  Weight[T] >= StakeRequired
<1>1. S \in SUBSET Includers /\ T \in SUBSET Includers
  BY ChainAssumption
<1>2. Weight[S] \in Nat /\ Weight[T] \in Nat /\ Weight[S] <= Weight[T]
  BY <1>1, WeightBound, WeightMonotone
<1> QED
  BY <1>2, StakeFacts

\* The producer of an id is a node.
LEMMA IdFacts ==
  ASSUME NEW id \in Ids
  PROVE  /\ id = <<id[1], id[2]>> /\ id[1] \in 1..MaxHeight /\ id[2] \in Nodes
         /\ id[1] \in Int /\ MaxHeight \in Nat
  BY ChainAssumption

\* A complete block was signed by someone.
LEMMA CompleteSigned ==
  ASSUME NEW id \in Ids, Complete(id)
  PROVE  \E n \in Nodes : status[n][id] = "signed"
<1> SUFFICES ASSUME \A n \in Nodes : status[n][id] # "signed" PROVE FALSE
  OBVIOUS
<1>1. {n \in Nodes : status[n][id] = "signed"} = {}
  OBVIOUS
<1>2. 0 >= StakeRequired
  BY <1>1, WeightEmpty DEF Complete
<1> QED
  BY <1>2, StakeFacts

\* Signatures, refusals and stored batches are never taken back, and a block that
\* someone has seen is never replaced.
Grows ==
  /\ \A n \in Nodes, id \in Ids : status[n][id] = "signed" => status'[n][id] = "signed"
  /\ \A n \in Nodes, id \in Ids : status[n][id] = "refused" => status'[n][id] = "refused"
  /\ \A n \in Nodes : held[n] \subseteq held'[n]
  /\ \A n \in Nodes, id \in Ids : status[n][id] # "none" => blocks'[id] = blocks[id]

\* So complete blocks stay complete and unchanged, and available batches available.
LEMMA GrowsFacts ==
  ASSUME Grows
  PROVE  /\ \A id \in Ids : Complete(id) => Complete(id)' /\ blocks'[id] = blocks[id]
         /\ \A b \in Batches : Available(b) => Available(b)'
         /\ \A n \in Nodes : Refused(n) \subseteq Refused(n)'
<1>1. ASSUME NEW id \in Ids, Complete(id)
      PROVE  Complete(id)'
  <2>1. {n \in Nodes : status[n][id] = "signed"} \subseteq {n \in Nodes : status'[n][id] = "signed"}
    BY DEF Grows
  <2> QED
    BY <1>1, <2>1, QuorumGrows DEF Complete
<1>2. ASSUME NEW id \in Ids, Complete(id)
      PROVE  blocks'[id] = blocks[id]
  BY <1>2, CompleteSigned DEF Grows
<1>3. ASSUME NEW b \in Batches, Available(b)
      PROVE  Available(b)'
  <2>1. {n \in Nodes : b \in held[n]} \subseteq {n \in Nodes : b \in held'[n]}
    BY DEF Grows
  <2> QED
    BY <1>3, <2>1, QuorumGrows DEF Available
<1>4. \A n \in Nodes : Refused(n) \subseteq Refused(n)'
  BY DEF Grows, Refused
<1> QED
  BY <1>1, <1>2, <1>3, <1>4

\* What the Chains listed, and took as parents, stays complete as long as they
\* do not list or assemble anew.
LEMMA GrowsKeeps ==
  ASSUME IInv, Grows, UNCHANGED <<height, lastCerts>>
  PROVE  /\ ListedComplete'
         /\ UNCHANGED blocks => ParentsComplete'
<1>1. ListedComplete'
  BY GrowsFacts DEF IInv, ListedComplete, TypeOK
<1>2. ASSUME UNCHANGED blocks
      PROVE  ParentsComplete'
  <2>1. \A id \in Ids : id[2] \in Nodes /\ blocks[id].parents \subseteq Ids
    BY IdFacts DEF IInv, TypeOK, Block
  <2> QED
    BY <1>2, <2>1, GrowsFacts DEF IInv, ParentsComplete
<1> QED
  BY <1>1, <1>2

-----------------------------------------------------------------------------
(* The pools *)

\* The scenario's parts.
LEMMA EnvFacts ==
  ASSUME IInv
  PROVE  /\ env.batches \subseteq Batches
         /\ env.late \subseteq Batches \X Nodes
  BY PoolAssumption DEF IInv, TypeOK, PoolTypeOK, Scenario

\* Push, rcvBatch, lost sends and the collector: batches are stored in pool and
\* history together, and only the collector removes one.
LEMMA PoolStepFacts ==
  ASSUME IInv, UNCHANGED env, NEW n \in Nodes, PoolStep(n)
  PROVE  /\ PoolTypeOK'
         /\ Stored'
         /\ \A k \in Nodes : held[k] \subseteq held'[k]
         /\ \A k \in Nodes : \A b \in held'[k] \ pool'[k] :
              b \in held[k] \ pool[k] \/ <<b, k>> \in env.expiring
<1>0. PoolTypeOK /\ \A k \in Nodes : pool[k] \subseteq held[k]
  BY DEF IInv, TypeOK, Stored
<1> USE <1>0 DEF PoolTypeOK, Stored
<1>1. ASSUME NEW S \in SUBSET Nodes, NEW b \in Batches, Store(S, b)
      PROVE  /\ pool' \in [Nodes -> SUBSET Batches] /\ held' \in [Nodes -> SUBSET Batches]
             /\ \A k \in Nodes : /\ held[k] \subseteq held'[k]
                                 /\ pool'[k] \subseteq held'[k]
                                 /\ held'[k] \ pool'[k] \subseteq held[k] \ pool[k]
  BY <1>1 DEF Store
<1>2. CASE Produce(n)
  <2>1. PICK b \in env.batches : Push(b)
    BY <1>2 DEF Produce
  <2>2. b \in Batches
    BY <2>1, EnvFacts
  <2>3. Store({k \in Nodes : <<b, k>> \notin env.late}, b)
    BY <2>1 DEF Push
  <2>4. wire' \in SUBSET env.late
    BY <2>1 DEF Push, MulticastBatch
  <2>5. {k \in Nodes : <<b, k>> \notin env.late} \in SUBSET Nodes
    OBVIOUS
  <2>6. /\ pool' \in [Nodes -> SUBSET Batches] /\ held' \in [Nodes -> SUBSET Batches]
        /\ \A k \in Nodes : /\ held[k] \subseteq held'[k]
                            /\ pool'[k] \subseteq held'[k]
                            /\ held'[k] \ pool'[k] \subseteq held[k] \ pool[k]
    BY <1>1, <2>2, <2>3, <2>5
  <2> QED
    BY <2>4, <2>6
<1>3. CASE RcvBatch(n)
  <2>1. PICK b \in Batches : Store({n}, b) /\ wire' = wire \ {<<b, n>>}
    BY <1>3 DEF RcvBatch
  <2> QED
    BY <1>1, <2>1
<1>4. CASE SendFails(n)
  BY <1>4 DEF SendFails
<1>5. CASE Collect(n)
  BY <1>5 DEF Collect
<1> QED
  BY <1>2, <1>3, <1>4, <1>5 DEF PoolStep

\* The pools' steps leave the Chains alone.
LEMMA PoolStepIInv ==
  ASSUME IInv, UNCHANGED <<env, chainVars>>, NEW n \in Nodes, PoolStep(n)
  PROVE  IInv'
<1>1. /\ PoolTypeOK' /\ Stored'
      /\ \A k \in Nodes : held[k] \subseteq held'[k]
      /\ \A k \in Nodes : \A b \in held'[k] \ pool'[k] :
           b \in held[k] \ pool[k] \/ <<b, k>> \in env.expiring
  BY PoolStepFacts
<1>2. UNCHANGED <<cpc, height, latest, lastCerts, blocks, status, need, env>>
  BY DEF chainVars
<1>3. Grows
  BY <1>1, <1>2 DEF Grows
<1>4. TypeOK' /\ Started' /\ Seen'
  BY <1>1, <1>2 DEF IInv, TypeOK, Started, Seen
<1>5. Pulled'
  <2>1. \A id \in Ids : blocks[id].batches \subseteq Batches
    BY DEF IInv, TypeOK, Block
  <2> QED
    BY <1>1, <1>2, <1>3, <2>1, GrowsFacts DEF IInv, Pulled
<1>6. ListedComplete' /\ ParentsComplete'
  BY <1>2, <1>3, GrowsKeeps
<1>7. NoBatchLost'
  <2>1. \A b \in Batches : Owner[b] \in Nodes
    BY PoolAssumption
  <2> QED
    BY <1>1, <1>2, <1>3, <2>1, GrowsFacts DEF IInv, NoBatchLost
<1> QED
  BY <1>1, <1>4, <1>5, <1>6, <1>7 DEF IInv

-----------------------------------------------------------------------------
(* Validators *)

\* One validator moves on: what it has still to pull is M, and the batches it does
\* not need any more it had, or a quorum had them.
LEMMA ValidatorMoves ==
  ASSUME IInv, NEW n \in Nodes, NEW id \in Ids, NEW v \in {"waiting", "signed", "refused"},
         NEW M \in SUBSET Batches,
         status[n][id] \in {"none", "waiting"},
         status[n][id] = "waiting" \/ Published(id),
         M # {} => v = "waiting",
         v # "refused" => \A b \in blocks[id].batches \ M : b \in held[n] \/ Available(b),
         status' = [status EXCEPT ![n][id] = v],
         need' = [need EXCEPT ![n][id] = M],
         UNCHANGED <<env, poolVars, cpc, height, latest, lastCerts, blocks>>
  PROVE  IInv'
<1>1. /\ \A k \in Nodes, i \in Ids : (k = n /\ i = id) \/ status'[k][i] = status[k][i]
      /\ status'[n][id] = v
      /\ status' \in [Nodes -> [Ids -> {"none", "waiting", "signed", "refused"}]]
  BY DEF IInv, TypeOK
<1>2. /\ \A k \in Nodes, i \in Ids : (k = n /\ i = id) \/ need'[k][i] = need[k][i]
      /\ need'[n][id] = M
      /\ need' \in [Nodes -> [Ids -> SUBSET Batches]]
  BY DEF IInv, TypeOK
<1>3. UNCHANGED <<env, pool, wire, held, cpc, height, latest, lastCerts, blocks>>
  BY DEF poolVars
<1>4. Grows
  BY <1>1, <1>3 DEF Grows
<1>5. TypeOK'
  BY <1>1, <1>2, <1>3 DEF IInv, TypeOK, PoolTypeOK
<1>6. Stored' /\ Started'
  BY <1>3 DEF IInv, Stored, Started
<1>7. Seen'
  <2>1. id[1] <= latest[id[2]]
    BY IdFacts DEF IInv, Seen, Published
  <2> QED
    BY <1>1, <1>3, <2>1 DEF IInv, Seen
<1>8. Pulled'
  <2>1. \A i \in Ids : blocks[i].batches \subseteq Batches
    BY DEF IInv, TypeOK, Block
  <2>2. \A b : Available(b)' <=> Available(b)
    BY <1>3 DEF Available
  <2>3. ASSUME NEW k \in Nodes, NEW i \in Ids, status'[k][i] \in {"waiting", "signed"},
               NEW b \in blocks[i].batches \ need'[k][i]
        PROVE  b \in held[k] \/ Available(b)
    <3>1. CASE k = n /\ i = id
      BY <1>1, <1>2, <2>3, <3>1
    <3>2. CASE ~(k = n /\ i = id)
      BY <1>1, <1>2, <2>3, <3>2 DEF IInv, Pulled
    <3> QED
      BY <3>1, <3>2
  <2> QED
    BY <1>3, <2>2, <2>3 DEF Pulled
<1>9. ListedComplete' /\ ParentsComplete'
  BY <1>3, <1>4, GrowsKeeps
<1>10. NoBatchLost'
  BY <1>3, <1>4, GrowsFacts DEF IInv, NoBatchLost
<1> QED
  BY <1>5, <1>6, <1>7, <1>8, <1>9, <1>10 DEF IInv

\* Deliver, Pull, PullDeleted and Refuse are such moves.
LEMMA ValidatorIInv ==
  ASSUME IInv, UNCHANGED env, NEW n \in Nodes, NEW id \in Ids, Validator(n, id)
  PROVE  IInv'
<1>0. /\ status \in [Nodes -> [Ids -> {"none", "waiting", "signed", "refused"}]]
      /\ need \in [Nodes -> [Ids -> SUBSET Batches]]
      /\ need[n][id] # {} => status[n][id] = "waiting"
      /\ blocks[id].batches \in SUBSET Batches
      /\ pool[n] \subseteq held[n]
      /\ status[n][id] = "waiting" =>
           \A b \in blocks[id].batches \ need[n][id] : b \in held[n] \/ Available(b)
  BY DEF IInv, TypeOK, Block, Stored, Pulled
<1>1. CASE Deliver(n, id)
  <2>1. /\ status[n][id] = "none" /\ Published(id)
        /\ UNCHANGED <<poolVars, cpc, height, latest, lastCerts, blocks>>
    BY <1>1 DEF Deliver
  <2>2. CASE /\ Missing(n, id) = {} /\ UNCHANGED need
             /\ status' = [status EXCEPT ![n][id] = "signed"]
    <3>1. need' = [need EXCEPT ![n][id] = {}]
      BY <1>0, <2>1, <2>2
    <3>2. \A b \in blocks[id].batches \ {} : b \in held[n]
      BY <1>0, <2>2 DEF Missing
    <3> QED
      BY <2>1, <2>2, <3>1, <3>2, ValidatorMoves
  <2>3. CASE /\ status' = [status EXCEPT ![n][id] = "waiting"]
             /\ need' = [need EXCEPT ![n][id] = Missing(n, id)]
    <3>1. Missing(n, id) \in SUBSET Batches
      BY <1>0 DEF Missing
    <3>2. \A b \in blocks[id].batches \ Missing(n, id) : b \in held[n]
      BY <1>0 DEF Missing
    <3> QED
      BY <2>1, <2>3, <3>1, <3>2, ValidatorMoves
  <2>4. CASE /\ status' = [status EXCEPT ![n][id] = "waiting"]
             /\ need' = [need EXCEPT ![n][id] = blocks[id].batches]
    <3>1. \A b \in blocks[id].batches \ blocks[id].batches : b \in held[n]
      OBVIOUS
    <3> QED
      BY <1>0, <2>1, <2>4, <3>1, ValidatorMoves
  <2> QED
    BY <1>1, <2>2, <2>3, <2>4 DEF Deliver
<1>2. CASE Pull(n, id)
  <2>1. UNCHANGED <<poolVars, cpc, height, latest, lastCerts, blocks>>
    BY <1>2 DEF Pull
  <2>2. PICK b \in need[n][id] \cap pool[n] :
          /\ need' = [need EXCEPT ![n][id] = @ \ {b}]
          /\ IF need[n][id] = {b} THEN Sign(n, id) ELSE UNCHANGED status
    BY <1>2 DEF Pull
  <2> DEFINE M == need[n][id] \ {b}
  <2>3. /\ status[n][id] = "waiting" /\ M \in SUBSET Batches
        /\ need' = [need EXCEPT ![n][id] = M]
    BY <1>0, <2>2
  <2>4. \A c \in blocks[id].batches \ M : c \in held[n] \/ Available(c)
    BY <1>0, <2>2, <2>3
  <2>5. PICK v \in {"waiting", "signed", "refused"} :
          status' = [status EXCEPT ![n][id] = v] /\ (M # {} => v = "waiting")
    <3>1. CASE need[n][id] = {b}
      BY <2>2, <3>1 DEF Sign
    <3>2. CASE need[n][id] # {b}
      <4>1. status' = [status EXCEPT ![n][id] = "waiting"]
        BY <1>0, <2>2, <2>3, <3>2
      <4> QED
        BY <4>1
    <3> QED
      BY <3>1, <3>2
  <2> HIDE DEF M
  <2> QED
    BY <2>1, <2>3, <2>4, <2>5, ValidatorMoves
<1>3. CASE PullDeleted(n, id)
  <2>1. /\ UNCHANGED <<poolVars, cpc, height, latest, lastCerts, blocks>>
        /\ status[n][id] = "waiting" /\ need[n][id] = {} /\ Sign(n, id)
        /\ UNCHANGED need
    BY <1>3 DEF PullDeleted
  <2>2. need' = [need EXCEPT ![n][id] = {}]
    BY <1>0, <2>1
  <2>3. PICK v \in {"signed", "refused"} : status' = [status EXCEPT ![n][id] = v]
    BY <2>1 DEF Sign
  <2>4. \A b \in blocks[id].batches \ {} : b \in held[n] \/ Available(b)
    BY <1>0, <2>1
  <2> QED
    BY <2>1, <2>2, <2>3, <2>4, ValidatorMoves
<1>4. CASE Refuse(n, id)
  <2>1. /\ UNCHANGED <<poolVars, cpc, height, latest, lastCerts, blocks>>
        /\ status' = [status EXCEPT ![n][id] = "refused"]
        /\ need' = [need EXCEPT ![n][id] = {}]
        /\ \/ status[n][id] = "none" /\ Published(id)
           \/ status[n][id] = "waiting"
    BY <1>4 DEF Refuse, TimedOut
  <2>2. status[n][id] \in {"none", "waiting"} /\ (status[n][id] = "waiting" \/ Published(id))
    BY <2>1
  <2>3. {} \in SUBSET Batches /\ "refused" \in {"waiting", "signed", "refused"}
    OBVIOUS
  <2> QED
    BY <2>1, <2>2, <2>3, ValidatorMoves
<1> QED
  BY <1>1, <1>2, <1>3, <1>4 DEF Validator

-----------------------------------------------------------------------------
(* startRound *)

\* The batches of a complete block are available: a signer had the batch, unless it
\* was available already when it was deleted under the signer's Pull.
LEMMA CompleteAvailable ==
  ASSUME IInv, NEW id \in Ids, Complete(id), NEW b \in blocks[id].batches
  PROVE  Available(b)
<1> DEFINE S == {n \in Nodes : status[n][id] = "signed"}
           T == {n \in Nodes : b \in held[n]}
<1>1. \A n \in S : b \in held[n] \/ Available(b)
  <2>1. \A n \in S : need[n][id] = {}
    BY DEF IInv, TypeOK
  <2> QED
    BY <2>1 DEF IInv, Pulled
<1>2. CASE S \subseteq T
  BY <1>2, QuorumGrows DEF Complete, Available
<1>3. CASE ~(S \subseteq T)
  BY <1>1, <1>3
<1> QED
  BY <1>2, <1>3

\* Clean removes batches of complete blocks only.
LEMMA CleanIInv ==
  ASSUME IInv, UNCHANGED env, NEW n \in Nodes, Clean(n)
  PROVE  IInv'
<1>1. /\ cpc[n] = "clean" /\ height[n] <= MaxHeight
      /\ pool' = [pool EXCEPT ![n] = @ \ Committed(n)]
      /\ cpc' = [cpc EXCEPT ![n] = "list"]
      /\ UNCHANGED <<wire, held, height, latest, lastCerts, blocks, status>>
  BY DEF Clean
<1>2. \A b \in Committed(n) : \E id \in Ids : Complete(id) /\ b \in blocks[id].batches
  BY DEF Committed, IInv, ListedComplete, TypeOK
<1>3. PICK S \in SUBSET {s \in Ids \X Committed(n) : s[2] \in need[n][s[1]] \ pool[n]} :
        need' = [need EXCEPT ![n] = [id \in Ids |-> {b \in @[id] : <<id, b>> \notin S}]]
  BY Zenon DEF Clean
<1>4. /\ \A k \in Nodes : k # n => need'[k] = need[k]
      /\ \A id \in Ids : need'[n][id] = {b \in need[n][id] : <<id, b>> \notin S}
      /\ need' \in [Nodes -> [Ids -> SUBSET Batches]]
      /\ \A k \in Nodes, id \in Ids : need'[k][id] \subseteq need[k][id]
  BY <1>3 DEF IInv, TypeOK
<1>5. /\ \A k \in Nodes : k # n => pool'[k] = pool[k]
      /\ pool'[n] = pool[n] \ Committed(n)
      /\ pool' \in [Nodes -> SUBSET Batches]
  BY <1>1 DEF IInv, TypeOK, PoolTypeOK
<1>6. Grows
  BY <1>1 DEF Grows
<1>7. TypeOK'
  <2>1. PoolTypeOK'
    BY <1>1, <1>5 DEF IInv, TypeOK, PoolTypeOK
  <2>2. \A k \in Nodes, id \in Ids : need'[k][id] # {} => status[k][id] = "waiting"
    BY <1>4 DEF IInv, TypeOK
  <2>3. cpc' \in [Nodes -> {"clean", "list", "await", "ended"}]
    BY <1>1 DEF IInv, TypeOK
  <2> QED
    BY <1>1, <1>4, <2>1, <2>2, <2>3 DEF IInv, TypeOK
<1>8. Stored' /\ Started' /\ Seen'
  BY <1>1, <1>5 DEF IInv, TypeOK, Stored, Started, Seen
<1>9. Pulled'
  <2>1. \A b : Available(b)' <=> Available(b)
    BY <1>1 DEF Available
  <2>2. ASSUME NEW k \in Nodes, NEW id \in Ids, status[k][id] \in {"waiting", "signed"},
               NEW b \in blocks[id].batches \ need'[k][id]
        PROVE  b \in held[k] \/ Available(b)
    <3>1. CASE b \notin need[k][id]
      BY <2>2, <3>1 DEF IInv, Pulled
    <3>2. CASE b \in need[k][id]
      <4>1. b \in Committed(n)
        <5>1. <<id, b>> \in S
          BY <1>4, <2>2, <3>2
        <5> QED
          BY <1>3, <5>1
      <4> QED
        BY <1>2, <4>1, CompleteAvailable
    <3> QED
      BY <3>1, <3>2
  <2> QED
    BY <1>1, <2>1, <2>2 DEF Pulled
<1>10. ListedComplete' /\ ParentsComplete'
  BY <1>1, <1>6, GrowsKeeps
<1>11. NoBatchLost'
  <2>1. \A id \in Ids : Complete(id)' <=> Complete(id)
    BY <1>1 DEF Complete
  <2>2. \A b \in Batches : Owner[b] \in Nodes
    BY PoolAssumption
  <2> QED
    BY <1>1, <1>2, <1>5, <2>1, <2>2 DEF IInv, NoBatchLost
<1> QED
  BY <1>7, <1>8, <1>9, <1>10, <1>11 DEF IInv

\* Assemble makes the block of a height once, of batches in the node's pool.
LEMMA AssembleIInv ==
  ASSUME IInv, UNCHANGED env, NEW n \in Nodes, Assemble(n)
  PROVE  IInv'
<1> DEFINE own == <<height[n], n>>
           new == [batches |-> BySigner(n), parents |-> lastCerts[n]]
<1>1. /\ cpc[n] = "list" /\ height[n] > latest[n]
      /\ blocks' = [blocks EXCEPT ![own] = new]
      /\ latest' = [latest EXCEPT ![n] = height[n]]
      /\ UNCHANGED <<pool, wire, held, height, lastCerts, need>>
  BY DEF Assemble, Own, poolVars
<1>2. PICK v \in {"signed", "refused"}, l \in {"await", "clean"} :
        /\ status' = [status EXCEPT ![n][own] = v]
        /\ cpc' = [cpc EXCEPT ![n] = l]
  BY DEF Assemble, Own
<1>3. /\ height[n] \in 1..MaxHeight /\ own \in Ids /\ own[1] = height[n] /\ own[2] = n
      /\ latest[n] \in Int /\ height[n] \in Int
  BY <1>1, ChainAssumption DEF IInv, TypeOK, Started
<1> HIDE DEF own
<1>4. \A k \in Nodes : status[k][own] = "none" /\ need[k][own] = {}
  <2>1. ~(own[1] <= latest[own[2]])
    BY <1>1, <1>3
  <2>2. \A k \in Nodes : status[k][own] = "none"
    BY <1>3, <2>1 DEF IInv, Seen
  <2> QED
    BY <1>3, <2>2 DEF IInv, TypeOK
<1>5. /\ \A k \in Nodes, i \in Ids : (k = n /\ i = own) \/ status'[k][i] = status[k][i]
      /\ status'[n][own] = v
      /\ status' \in [Nodes -> [Ids -> {"none", "waiting", "signed", "refused"}]]
  BY <1>2, <1>3 DEF IInv, TypeOK
<1>6. new \in Block /\ new.batches = BySigner(n) /\ new.parents = lastCerts[n]
  BY DEF Block, BySigner, IInv, TypeOK, PoolTypeOK
<1> HIDE DEF new
<1>7. /\ \A i \in Ids : i # own => blocks'[i] = blocks[i]
      /\ blocks'[own] = new /\ blocks' \in [Ids -> Block]
  BY <1>1, <1>3, <1>6 DEF IInv, TypeOK
<1>8. /\ \A k \in Nodes : k # n => latest'[k] = latest[k]
      /\ latest'[n] = height[n] /\ latest' \in [Nodes -> 0..MaxHeight]
      /\ \A k \in Nodes : k # n => cpc'[k] = cpc[k]
      /\ cpc'[n] \in {"await", "clean"}
      /\ cpc' \in [Nodes -> {"clean", "list", "await", "ended"}]
  BY <1>1, <1>2, <1>3, ChainAssumption DEF IInv, TypeOK
<1>9. Grows
  BY <1>1, <1>4, <1>5, <1>7 DEF Grows
<1>10. TypeOK'
  <2>1. PoolTypeOK'
    BY <1>1 DEF IInv, TypeOK, PoolTypeOK
  <2>2. ASSUME NEW k \in Nodes, NEW i \in Ids, need[k][i] # {}
        PROVE  status'[k][i] = "waiting"
    <3>1. i # own /\ status[k][i] = "waiting"
      BY <1>4, <2>2 DEF IInv, TypeOK
    <3> QED
      BY <1>5, <3>1
  <2>3. \A k \in Nodes : latest'[k] \in {height[k] - 1, height[k]}
    BY <1>8 DEF IInv, TypeOK
  <2> QED
    BY <1>1, <1>5, <1>7, <1>8, <2>1, <2>2, <2>3 DEF IInv, TypeOK
<1>11. Stored' /\ Started'
  BY <1>1, <1>3, <1>8 DEF IInv, Stored, Started
<1>12. Seen'
  <2>1. \A k \in Nodes : latest[k] \in Int /\ latest'[k] \in Int /\ latest[k] <= latest'[k]
    BY <1>1, <1>3, <1>8 DEF IInv, TypeOK
  <2>2. ASSUME NEW k \in Nodes, NEW i \in Ids, status'[k][i] # "none"
        PROVE  i[1] <= latest'[i[2]]
    <3>1. CASE i = own
      BY <1>3, <1>8, <3>1
    <3>2. CASE i # own
      <4>1. i[1] <= latest[i[2]] /\ i[1] \in Int /\ i[2] \in Nodes
        BY <1>5, <2>2, <3>2, IdFacts DEF IInv, Seen
      <4> QED
        BY <2>1, <4>1
    <3> QED
      BY <3>1, <3>2
  <2> QED
    BY <2>2 DEF Seen
<1>13. Pulled'
  <2>1. \A b : Available(b)' <=> Available(b)
    BY <1>1 DEF Available
  <2>2. ASSUME NEW k \in Nodes, NEW i \in Ids, status'[k][i] \in {"waiting", "signed"},
               NEW b \in blocks'[i].batches \ need[k][i]
        PROVE  b \in held[k] \/ Available(b)
    <3>1. CASE i = own
      <4>1. k = n
        BY <1>4, <1>5, <2>2, <3>1
      <4> QED
        BY <1>6, <1>7, <2>2, <3>1, <4>1 DEF BySigner, IInv, Stored
    <3>2. CASE i # own
      BY <1>5, <1>7, <2>2, <3>2 DEF IInv, Pulled
    <3> QED
      BY <3>1, <3>2
  <2> QED
    BY <1>1, <2>1, <2>2 DEF Pulled
<1>14. ListedComplete'
  BY <1>1, <1>9, GrowsKeeps
<1>15. ParentsComplete'
  <2>1. ASSUME NEW i \in Ids
        PROVE  /\ \A p \in blocks'[i].parents : p[1] = i[1] - 1 /\ Complete(p)'
               /\ blocks'[i] # NoBlock /\ i[1] > 1 /\ Refused(i[2])' = {} =>
                    Weight[ProducersOf(blocks'[i].parents)] >= StakeRequired
    <3>1. CASE i = own
      <4>1. \A p \in lastCerts[n] : p \in Ids /\ p[1] = own[1] - 1 /\ Complete(p)
        BY <1>3 DEF IInv, TypeOK, ListedComplete
      <4>2. \A p \in blocks'[i].parents : p[1] = i[1] - 1 /\ Complete(p)'
        BY <1>6, <1>7, <1>9, <3>1, <4>1, GrowsFacts
      <4>3. ASSUME i[1] > 1, Refused(i[2])' = {}
            PROVE  Weight[ProducersOf(blocks'[i].parents)] >= StakeRequired
        <5>1. height[n] > 1 /\ Refused(n) = {}
          BY <1>3, <1>9, <3>1, <4>3, GrowsFacts
        <5> QED
          BY <1>6, <1>7, <3>1, <5>1 DEF IInv, ListedComplete
      <4> QED
        BY <4>2, <4>3
    <3>2. CASE i # own
      <4>1. blocks'[i] = blocks[i] /\ blocks[i].parents \subseteq Ids /\ i[2] \in Nodes
        BY <1>7, <3>2, IdFacts DEF IInv, TypeOK, Block
      <4>2. Refused(i[2])' = {} => Refused(i[2]) = {}
        BY <1>9, <4>1, GrowsFacts
      <4> QED
        BY <1>9, <4>1, <4>2, GrowsFacts DEF IInv, ParentsComplete
    <3> QED
      BY <3>1, <3>2
  <2> QED
    BY <2>1 DEF ParentsComplete, ProducersOf
<1>16. NoBatchLost'
  BY <1>1, <1>9, GrowsFacts DEF IInv, NoBatchLost
<1> QED
  BY <1>10, <1>11, <1>12, <1>13, <1>14, <1>15, <1>16 DEF IInv

\* Return lists complete blocks of the height, backed by a quorum of producers
\* when the node refused none.
LEMMA ReturnIInv ==
  ASSUME IInv, UNCHANGED env, NEW n \in Nodes, Return(n)
  PROVE  IInv'
<1>1. /\ cpc[n] = "await"
      /\ height' = [height EXCEPT ![n] = @ + 1]
      /\ cpc' = [cpc EXCEPT ![n] = "clean"]
      /\ UNCHANGED <<pool, wire, held, latest, blocks, status, need>>
  BY DEF Return, poolVars
<1>2. PICK L \in SUBSET Known(n) : Final(n, L) /\ lastCerts' = [lastCerts EXCEPT ![n] = L]
  BY DEF Return
<1>3. L \subseteq Ids /\ \A id \in L : id[1] = height[n] /\ Complete(id)
  BY <1>2 DEF Known
<1>4. height[n] \in 1..MaxHeight /\ latest[n] = height[n] /\ MaxHeight \in Nat
  BY <1>1, ChainAssumption DEF IInv, TypeOK, Started
<1>5. /\ \A k \in Nodes : k # n => /\ height'[k] = height[k] /\ cpc'[k] = cpc[k]
                                   /\ lastCerts'[k] = lastCerts[k]
      /\ height'[n] = height[n] + 1 /\ cpc'[n] = "clean" /\ lastCerts'[n] = L
  BY <1>1, <1>2 DEF IInv, TypeOK
<1>6. Grows
  BY <1>1 DEF Grows
<1>7. TypeOK'
  <2>1. PoolTypeOK'
    BY <1>1 DEF IInv, TypeOK, PoolTypeOK
  <2>2. height' \in [Nodes -> 1..MaxHeight + 1] /\ cpc' \in [Nodes -> {"clean", "list", "await", "ended"}]
    BY <1>1, <1>4 DEF IInv, TypeOK
  <2>3. lastCerts' \in [Nodes -> SUBSET Ids]
    BY <1>2, <1>3 DEF IInv, TypeOK
  <2>4. \A k \in Nodes : latest[k] \in {height'[k] - 1, height'[k]}
    BY <1>4, <1>5 DEF IInv, TypeOK
  <2>5. \A k \in Nodes : lastCerts'[k] \subseteq {id \in Ids : id[1] = height'[k] - 1}
    <3>1. height'[n] - 1 = height[n]
      BY <1>4, <1>5
    <3>2. lastCerts'[n] \subseteq {id \in Ids : id[1] = height'[n] - 1}
      BY <1>3, <1>5, <3>1
    <3>3. \A k \in Nodes : k # n => lastCerts'[k] \subseteq {id \in Ids : id[1] = height'[k] - 1}
      BY <1>5 DEF IInv, TypeOK
    <3> QED
      BY <3>2, <3>3
  <2> QED
    BY <1>1, <2>1, <2>2, <2>3, <2>4, <2>5 DEF IInv, TypeOK
<1>8. Stored' /\ Started' /\ Seen'
  BY <1>1, <1>5 DEF IInv, Stored, Started, Seen
<1>9. Pulled'
  <2>1. \A b : Available(b)' <=> Available(b)
    BY <1>1 DEF Available
  <2> QED
    BY <1>1, <2>1 DEF IInv, Pulled
<1>10. ListedComplete'
  <2>1. \A id \in Ids : Complete(id)' <=> Complete(id)
    BY <1>1 DEF Complete
  <2>2. \A k \in Nodes : Refused(k)' = Refused(k)
    BY <1>1 DEF Refused
  <2>3. Refused(n) = {} => Weight[ProducersOf(L)] >= StakeRequired
    <3>1. SUFFICES ASSUME Refused(n) = {} PROVE Weight[ProducersOf(L)] >= StakeRequired
      OBVIOUS
    <3>2. L \cup (Known(n) \cap Refused(n)) = L
      BY <3>1
    <3> QED
      BY <1>2, <3>2 DEF Final, ProducersOf
  <2>4. ASSUME NEW k \in Nodes
        PROVE  /\ \A id \in lastCerts'[k] : Complete(id)'
               /\ height'[k] > 1 /\ Refused(k)' = {} =>
                    Weight[ProducersOf(lastCerts'[k])] >= StakeRequired
    <3>1. CASE k = n
      BY <1>3, <1>5, <2>1, <2>2, <2>3, <3>1
    <3>2. CASE k # n
      <4>1. lastCerts[k] \subseteq Ids
        BY DEF IInv, TypeOK
      <4> QED
        BY <1>5, <2>1, <2>2, <3>2, <4>1 DEF IInv, ListedComplete
    <3> QED
      BY <3>1, <3>2
  <2> QED
    BY <2>4 DEF ListedComplete, ProducersOf
<1>11. ParentsComplete'
  <2>1. \A id \in Ids : id[2] \in Nodes /\ blocks[id].parents \subseteq Ids
    BY IdFacts DEF IInv, TypeOK, Block
  <2> QED
    BY <1>1, <1>6, <2>1, GrowsFacts DEF IInv, ParentsComplete
<1>12. NoBatchLost'
  BY <1>1, <1>6, GrowsFacts DEF IInv, NoBatchLost
<1> QED
  BY <1>7, <1>8, <1>9, <1>10, <1>11, <1>12 DEF IInv

\* A refused height and the end of a process only move the Chain's place.
LEMMA PlaceIInv ==
  ASSUME IInv, UNCHANGED <<env, poolVars, height, latest, lastCerts, blocks, status, need>>,
         NEW n \in Nodes, NEW l \in {"clean", "ended"}, cpc' = [cpc EXCEPT ![n] = l]
  PROVE  IInv'
<1>1. UNCHANGED <<pool, wire, held>>
  BY DEF poolVars
<1>2. TypeOK' /\ Stored' /\ Started' /\ Seen'
  BY <1>1 DEF IInv, TypeOK, PoolTypeOK, Stored, Started, Seen
<1>3. Pulled' /\ NoBatchLost'
  <2>1. /\ \A b : Available(b)' <=> Available(b)
        /\ \A id : Complete(id)' <=> Complete(id)
    BY <1>1 DEF Available, Complete
  <2> QED
    BY <1>1, <2>1 DEF IInv, Pulled, NoBatchLost
<1>4. ListedComplete' /\ ParentsComplete'
  BY DEF IInv, ListedComplete, ParentsComplete, Complete, Refused
<1> QED
  BY <1>2, <1>3, <1>4 DEF IInv

-----------------------------------------------------------------------------
(* Theorems *)

\* Before the first height nothing is stored, listed or processed.
LEMMA InitIInv == Init => IInv
<1> SUFFICES ASSUME Init PROVE IInv
  OBVIOUS
<1>1. TypeOK
  BY ChainAssumption DEF Init, TypeOK, PoolInit, PoolTypeOK, NoBlock, Block
<1>2. Stored /\ Started /\ Seen /\ Pulled /\ NoBatchLost
  BY PoolAssumption DEF Init, PoolInit, Stored, Started, Seen, Pulled, NoBatchLost
<1>3. ListedComplete /\ ParentsComplete
  BY DEF Init, ListedComplete, ParentsComplete, NoBlock
<1> QED
  BY <1>1, <1>2, <1>3 DEF IInv

\* Every step of a Chain, a validator or a pool keeps the inductive invariant.
LEMMA NextIInv == IInv /\ [Next]_vars => IInv'
<1> SUFFICES ASSUME IInv, [Next]_vars PROVE IInv'
  OBVIOUS
<1>1. CASE Next
  <2>1. PICK n \in Nodes : \/ PoolStep(n) /\ UNCHANGED chainVars
                           \/ StartRound(n)
                           \/ \E id \in Ids : Validator(n, id)
                           \/ End(n)
    BY <1>1 DEF Next
  <2>2. UNCHANGED env
    BY <1>1 DEF Next
  <2>3. CASE PoolStep(n) /\ UNCHANGED chainVars
    BY <2>2, <2>3, PoolStepIInv
  <2>4. CASE Elapsed(n) \/ End(n)
    BY <2>2, <2>4, PlaceIInv DEF Elapsed, End
  <2>5. CASE StartRound(n)
    BY <2>2, <2>4, <2>5, CleanIInv, AssembleIInv, ReturnIInv DEF StartRound
  <2>6. CASE \E id \in Ids : Validator(n, id)
    BY <2>2, <2>6, ValidatorIInv
  <2> QED
    BY <2>1, <2>3, <2>4, <2>5, <2>6
<1>2. CASE UNCHANGED vars
  <2>1. UNCHANGED <<env, pool, wire, held, cpc, height, latest, lastCerts, blocks, status, need>>
    BY <1>2 DEF vars, poolVars, chainVars
  <2>2. TypeOK' /\ Stored' /\ Started' /\ Seen'
    BY <2>1 DEF IInv, TypeOK, PoolTypeOK, Stored, Started, Seen
  <2>3. Pulled' /\ NoBatchLost'
    BY <2>1 DEF IInv, Pulled, Available, NoBatchLost, Complete
  <2>4. ListedComplete' /\ ParentsComplete'
    BY <2>1 DEF IInv, ListedComplete, ParentsComplete, Complete, Refused
  <2> QED
    BY <2>2, <2>3, <2>4 DEF IInv
<1> QED
  BY <1>1, <1>2

\* Whatever is late, lost, collected or refused, the Chains keep the invariant.
THEOREM InductiveInvariant == Spec => []IInv
  BY InitIInv, NextIInv, PTL DEF Spec

\* A height is started once before it is passed, Chain lists blocks of the height
\* it passed, and only validators that wait have batches to pull.
THEOREM TypeCorrect == Spec => []TypeOK
  BY InductiveInvariant, PTL DEF IInv

\* A batch leaves its owner's pool when a complete block has it, or by the
\* collector: startRound's Delete loses nothing.
THEOREM BatchesKept == Spec => []NoBatchLost
  BY InductiveInvariant, PTL DEF IInv

\* The batches of a complete block were in the pools of a quorum, although Certify
\* treats ErrBatchDeleted as success.
THEOREM BlocksAvailable == Spec => []DataAvailable
<1>1. IInv => DataAvailable
  BY CompleteAvailable DEF DataAvailable, Available
<1> QED
  BY <1>1, InductiveInvariant, PTL

\* Two blocks of one height share a complete parent, for any includers and stakes,
\* as long as their producers refused nothing.
THEOREM ParentsShared == Spec => []CommonParent
<1>1. IInv => CommonParent
  <2> SUFFICES ASSUME IInv, NEW h \in 2..MaxHeight, NEW n \in Nodes, NEW m \in Nodes,
                      blocks[<<h, n>>] # NoBlock, blocks[<<h, m>>] # NoBlock,
                      Refused(n) = {}, Refused(m) = {}
               PROVE  \E p \in blocks[<<h, n>>].parents \cap blocks[<<h, m>>].parents :
                        p[1] = h - 1 /\ Complete(p)
    BY DEF CommonParent
  <2> DEFINE P(k) == blocks[<<h, k>>].parents
  <2>1. ASSUME NEW k \in {n, m}
        PROVE  /\ \A p \in P(k) : p \in Ids /\ p[1] = h - 1 /\ Complete(p)
               /\ ProducersOf(P(k)) \in SUBSET Includers
               /\ Weight[ProducersOf(P(k))] >= StakeRequired
    <3>1. <<h, k>> \in Ids /\ <<h, k>>[1] = h /\ <<h, k>>[2] = k /\ h > 1
      BY ChainAssumption
    <3>2. \A p \in P(k) : p \in Ids /\ p[1] = h - 1 /\ Complete(p)
      BY <3>1 DEF IInv, TypeOK, Block, ParentsComplete
    <3>3. ProducersOf(P(k)) \in SUBSET Includers
      BY <3>2, IdFacts, ChainAssumption DEF ProducersOf
    <3>4. Weight[ProducersOf(P(k))] >= StakeRequired
      BY <3>1 DEF IInv, ParentsComplete
    <3> QED
      BY <3>2, <3>3, <3>4
  <2> DEFINE A == ProducersOf(P(n))
             B == ProducersOf(P(m))
  <2>2. A \in SUBSET Includers /\ B \in SUBSET Includers /\ A \cap B # {}
    <3>1. A \in SUBSET Includers /\ B \in SUBSET Includers
      BY <2>1
    <3>2. 3 * Weight[A \cap B] > TotalStake
      BY <2>1, <3>1, QuorumIntersection
    <3>3. A \cap B # {}
      BY <3>2, WeightEmpty, StakeFacts
    <3> QED
      BY <3>1, <3>3
  <2>3. PICK k : k \in A /\ k \in B
    BY <2>2
  <2>4. PICK p \in P(n) : p[2] = k
    BY <2>3 DEF ProducersOf
  <2>5. PICK q \in P(m) : q[2] = k
    BY <2>3 DEF ProducersOf
  <2>6. p = q
    <3>1. p \in Ids /\ p[1] = h - 1 /\ q \in Ids /\ q[1] = h - 1
      BY <2>1, <2>4, <2>5
    <3>2. p = <<p[1], p[2]>> /\ q = <<q[1], q[2]>>
      BY <3>1, IdFacts
    <3> QED
      BY <2>4, <2>5, <3>1, <3>2
  <2>7. p[1] = h - 1 /\ Complete(p)
    BY <2>1, <2>4
  <2> QED
    BY <2>4, <2>5, <2>6, <2>7
<1> QED
  BY <1>1, InductiveInvariant, PTL
=============================================================================
