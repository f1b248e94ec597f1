------------------------------- MODULE Chain --------------------------------
(***************************************************************************)
(* dag.Chain on all nodes over several heights, with the batch pools and    *)
(* the certifiers: every node deletes the batches of the blocks it listed,  *)
(* lists its own batches, makes a block of them with the listed blocks as   *)
(* parents, broadcasts it and goes on when its round has a quorum.          *)
(*                                                                          *)
(* A round of the broadcaster is what ReliableRound promises.  Validators   *)
(* wait for their round and then in Pull for each batch of the block; one   *)
(* that waits too long refuses the block for good.                          *)
(***************************************************************************)
EXTENDS MulticastPool, StakeQuorum

CONSTANT MaxHeight   \* bound: heights that are modelled

ASSUME ChainAssumption ==
  /\ Nodes \subseteq Includers
  /\ MaxHeight \in Nat \ {0}
  /\ Ids = (1..MaxHeight) \X Nodes
  /\ \A id \in Ids : Signer[id] = id[2]

VARIABLES
  cpc,        \* where each Chain is in startRound
  height,     \* Chain.height
  latest,     \* Manager.latestRound of each node's broadcaster
  lastCerts,  \* Chain.lastCerts
  blocks,     \* the block of each id, NoBlock before it is made
  status,     \* processData of each block at each node
  need        \* batches its Certify has still to pull

chainVars == <<cpc, height, latest, lastCerts, blocks, status, need>>
vars == <<env, poolVars, chainVars>>

Block == [batches : SUBSET Batches, parents : SUBSET Ids]

NoBlock == [batches |-> {}, parents |-> {}]

\* Beyond the types: a height is started once before it is passed, the listed
\* blocks are those of the height before, only waiting validators need batches.
TypeOK ==
  /\ PoolTypeOK
  /\ cpc \in [Nodes -> {"clean", "list", "await", "ended"}]
  /\ height \in [Nodes -> 1..MaxHeight + 1]
  /\ latest \in [Nodes -> 0..MaxHeight]
  /\ \A n \in Nodes : latest[n] \in {height[n] - 1, height[n]}
  /\ lastCerts \in [Nodes -> SUBSET Ids]
  /\ \A n \in Nodes : lastCerts[n] \subseteq {id \in Ids : id[1] = height[n] - 1}
  /\ blocks \in [Ids -> Block]
  /\ status \in [Nodes -> [Ids -> {"none", "waiting", "signed", "refused"}]]
  /\ need \in [Nodes -> [Ids -> SUBSET Batches]]
  /\ \A n \in Nodes, id \in Ids : need[n][id] # {} => status[n][id] = "waiting"

Init ==
  /\ PoolInit
  /\ cpc = [n \in Nodes |-> "clean"]
  /\ height = [n \in Nodes |-> 1]
  /\ latest = [n \in Nodes |-> 0]
  /\ lastCerts = [n \in Nodes |-> {}]
  /\ blocks = [id \in Ids |-> NoBlock]
  /\ status = [n \in Nodes |-> [id \in Ids |-> "none"]]
  /\ need = [n \in Nodes |-> [id \in Ids |-> {}]]

Own(n) == <<height[n], n>>

\* Publish floods a block after its own node's validator accepted it.
Published(id) == status[id[2]][id] = "signed"

Complete(id) == Weight[{n \in Nodes : status[n][id] = "signed"}] >= StakeRequired

\* The round of a height is registered and running.
Open(n, h) == height[n] = h /\ latest[n] = h

-----------------------------------------------------------------------------
(* Chain.startRound *)

\* Fault: the node also deletes the batches of its own last block, listed or not.
CommittedOwn(n) ==
  UNION {blocks[id].batches : id \in lastCerts[n] \cup {i \in Ids : i = <<height[n] - 1, n>>}}

\* The batches of the listed blocks, deleted before the next block is made.
Committed(n) == UNION {blocks[id].batches : id \in lastCerts[n]}

\* Committed batches are deleted one by one.  A Certify that is in Pull for one of
\* them gets ErrBatchDeleted and goes on to its next batch, which may be deleted
\* under it as well; one that is about to call Pull does not notice, and waits.
Clean(n) ==
  LET subs == {s \in Ids \X Committed(n) : s[2] \in need[n][s[1]] \ pool[n]}
  IN  /\ cpc[n] = "clean" /\ height[n] <= MaxHeight
      /\ pool' = [pool EXCEPT ![n] = @ \ Committed(n)]
      /\ \E S \in SUBSET subs :
           need' = [need EXCEPT ![n] = [id \in Ids |-> {b \in @[id] : <<id, b>> \notin S}]]
      /\ cpc' = [cpc EXCEPT ![n] = "list"]
      /\ UNCHANGED <<wire, held, height, latest, lastCerts, blocks, status>>

\* ListBySigner returns, StartRound accepts a new height, and Publish hands the
\* block to the node's own validator.  That refuses it when the collector took a
\* batch in the meantime; Broadcast fails then, and its round stays open.
Assemble(n) ==
  /\ cpc[n] = "list" /\ BySigner(n) # {} /\ height[n] > latest[n]
  /\ blocks' = [blocks EXCEPT ![Own(n)] = [batches |-> BySigner(n), parents |-> lastCerts[n]]]
  /\ latest' = [latest EXCEPT ![n] = height[n]]
  /\ \/ /\ status' = [status EXCEPT ![n][Own(n)] = "signed"]
        /\ cpc' = [cpc EXCEPT ![n] = "await"]
     \/ /\ \E b \in BySigner(n) : <<b, n>> \in env.expiring
        /\ status' = [status EXCEPT ![n][Own(n)] = "refused"]
        /\ cpc' = [cpc EXCEPT ![n] = "clean"]
  /\ UNCHANGED <<poolVars, height, lastCerts, need>>

\* StartRound refuses the height of a Broadcast that failed, and run tries again.
Elapsed(n) ==
  /\ cpc[n] = "list" /\ BySigner(n) # {} /\ height[n] <= latest[n]
  /\ cpc' = [cpc EXCEPT ![n] = "clean"]
  /\ UNCHANGED <<poolVars, height, latest, lastCerts, blocks, status, need>>

\* The complete blocks of the node's round.
Known(n) == {id \in Ids : id[1] = height[n] /\ status[n][id] # "none" /\ Complete(id)}

Refused(n) == {id \in Ids : status[n][id] = "refused"}

\* Fault: the node's own block is enough.
FinalOwn(n, L) == Own(n) \in L

\* Fault: the blocks of all includers are needed.
FinalAll(n, L) == L = {height[n]} \X Nodes

\* Finalize returned when L was complete; a refused block that was complete counts.
Final(n, L) == Weight[{id[2] : id \in L \cup (Known(n) \cap Refused(n))}] >= StakeRequired

\* Broadcast returns, and L is what the quorum lists.
Return(n) ==
  /\ cpc[n] = "await"
  /\ \E L \in SUBSET Known(n) : Final(n, L) /\ lastCerts' = [lastCerts EXCEPT ![n] = L]
  /\ height' = [height EXCEPT ![n] = @ + 1]
  /\ cpc' = [cpc EXCEPT ![n] = "clean"]
  /\ UNCHANGED <<poolVars, latest, blocks, status, need>>

StartRound(n) == Clean(n) \/ Assemble(n) \/ Elapsed(n) \/ Return(n)

-----------------------------------------------------------------------------
(* processData and Certify *)

\* Certify succeeded.  When the round is over, the node's own validator takes the
\* signature, or refuses it after waiting for a round that does not come back.
Sign(n, id) ==
  \/ status' = [status EXCEPT ![n][id] = "signed"]
  \/ ~Open(n, id[1]) /\ status' = [status EXCEPT ![n][id] = "refused"]

\* Fault: the batches are not looked for.
MissingNone(n, id) == {}

Missing(n, id) == blocks[id].batches \ pool[n]

\* The validator found the round, added the certificate and pulls the batches: it
\* signs when all are there and waits for the others.  A slow one pulls later.
Deliver(n, id) ==
  /\ status[n][id] = "none" /\ Published(id) /\ Open(n, id[1])
  /\ \/ /\ Missing(n, id) = {}
        /\ status' = [status EXCEPT ![n][id] = "signed"]
        /\ UNCHANGED need
     \/ /\ Missing(n, id) # {}
        /\ status' = [status EXCEPT ![n][id] = "waiting"]
        /\ need' = [need EXCEPT ![n][id] = Missing(n, id)]
     \/ /\ <<n, id[2]>> \in env.slow
        /\ status' = [status EXCEPT ![n][id] = "waiting"]
        /\ need' = [need EXCEPT ![n][id] = blocks[id].batches]
  /\ UNCHANGED <<poolVars, cpc, height, latest, lastCerts, blocks>>

Pull(n, id) ==
  /\ \E b \in need[n][id] \cap pool[n] :
       /\ need' = [need EXCEPT ![n][id] = @ \ {b}]
       /\ IF need[n][id] = {b} THEN Sign(n, id) ELSE UNCHANGED status
  /\ UNCHANGED <<poolVars, cpc, height, latest, lastCerts, blocks>>

\* The last batch was deleted: ErrBatchDeleted is not a failure of Certify.
PullDeleted(n, id) ==
  /\ status[n][id] = "waiting" /\ need[n][id] = {}
  /\ Sign(n, id)
  /\ UNCHANGED <<poolVars, cpc, height, latest, lastCerts, blocks, need>>

\* ValidationTimeout, while the validator waits for its round or for a batch.
TimedOut(n, id) ==
  \/ /\ <<n, id[2]>> \in env.slow
     /\ status[n][id] = "none" /\ Published(id) /\ latest[n] < id[1]
  \/ /\ status[n][id] = "waiting"
     /\ \E b \in need[n][id] \ pool[n] : <<b, n>> \notin wire \/ <<n, id[2]>> \in env.slow

\* Fault: the subscription of a Pull that timed out is kept.
RefuseSubscribed(n, id) ==
  /\ TimedOut(n, id)
  /\ status' = [status EXCEPT ![n][id] = "refused"]
  /\ UNCHANGED <<poolVars, cpc, height, latest, lastCerts, blocks, need>>

Refuse(n, id) ==
  /\ TimedOut(n, id)
  /\ status' = [status EXCEPT ![n][id] = "refused"]
  /\ need' = [need EXCEPT ![n][id] = {}]
  /\ UNCHANGED <<poolVars, cpc, height, latest, lastCerts, blocks>>

Validator(n, id) == Deliver(n, id) \/ Pull(n, id) \/ PullDeleted(n, id) \/ Refuse(n, id)

-----------------------------------------------------------------------------
\* The process ends.
End(n) ==
  /\ n \in env.mortal
  /\ cpc' = [cpc EXCEPT ![n] = "ended"]
  /\ UNCHANGED <<poolVars, height, latest, lastCerts, blocks, status, need>>

Next == /\ UNCHANGED env
        /\ \E n \in Nodes :
             /\ cpc[n] # "ended"
             /\ \/ PoolStep(n) /\ UNCHANGED chainVars
                \/ StartRound(n)
                \/ \E id \in Ids : Validator(n, id)
                \/ End(n)

Spec == Init /\ [][Next]_vars

\* Nothing stops while something can happen.
FairSpec == Spec /\ WF_vars(Next)

-----------------------------------------------------------------------------
(* Properties *)

\* The batches of a complete block were in the pools of a quorum, although Certify
\* takes a batch that was deleted under it for certified.
DataAvailable ==
  \A id \in Ids : Complete(id) =>
    \A b \in blocks[id].batches : Weight[{n \in Nodes : b \in held[n]}] >= StakeRequired

\* Any two blocks of one height have a complete block of the height before as a
\* common parent, unless their producers refused a block.
CommonParent ==
  \A h \in 2..MaxHeight, n, m \in Nodes :
    /\ blocks[<<h, n>>] # NoBlock /\ blocks[<<h, m>>] # NoBlock
    /\ Refused(n) = {} /\ Refused(m) = {}
    => \E p \in blocks[<<h, n>>].parents \cap blocks[<<h, m>>].parents :
         p[1] = h - 1 /\ Complete(p)

\* A batch that left its owner's pool is in a complete block, unless the collector
\* took it.
NoBatchLost ==
  \A b \in Batches :
    /\ b \in held[Owner[b]] \ pool[Owner[b]]
    /\ <<b, Owner[b]>> \notin env.expiring
    => \E id \in Ids : Complete(id) /\ b \in blocks[id].batches

\* Nodes that run and do not wait for a batch that the scenario does not have.
Working ==
  {n \in Nodes : /\ cpc[n] # "ended"
                 /\ ~(cpc[n] = "list" /\ \A b \in env.batches : Owner[b] = n => b \in held[n] \ pool[n])}

\* Chain produces blocks for ever, as long as all nodes work.
ChainAdvances == <>(Working # Nodes \/ \A n \in Nodes : height[n] > MaxHeight)

\* Working nodes pass every height, as long as they hold a quorum and no node ever
\* refuses a block.
AdvancesUnlessRefused ==
  <>(\/ \A n \in Working : height[n] > MaxHeight
     \/ Weight[Working] < StakeRequired
     \/ \E n \in Nodes : Refused(n) # {})
=============================================================================
