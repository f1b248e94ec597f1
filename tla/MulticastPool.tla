--------------------------- MODULE MulticastPool ----------------------------
(***************************************************************************)
(* bapl.MulticastPool: the MemPools of all nodes, joined by one-shot        *)
(* streams.  A batch is stored at its owner and sent once to every peer; a  *)
(* send that fails is only logged.  Waiting in Pull and the collector's     *)
(* clock are MemPool's business: here a pool is the set of its batches.     *)
(***************************************************************************)
EXTENDS Integers, FiniteSets

CONSTANTS
  Nodes,     \* running nodes, each connected to all others
  Batches,
  Owner,     \* Batch.Signature.Signer
  Scenarios  \* what is produced and what may go wrong, see Scenario

\* A behaviour has one scenario: the batches that RandomBatches produces, how many
\* of them a node may have in its pool before it waits with the next (a bound), the
\* deliveries that may be overtaken by gossip, those of them that may be lost,
\* the pool entries that may become older than a minute, the pairs of a node and
\* a producer whose blocks its validators may be slow with, and the processes
\* that may end.  Deliveries that are not late come with the Push.
Scenario == [batches : SUBSET Batches, backlog : Nat,
             late : SUBSET (Batches \X Nodes), lossy : SUBSET (Batches \X Nodes),
             expiring : SUBSET (Batches \X Nodes),
             slow : SUBSET (Nodes \X Nodes), mortal : SUBSET Nodes]

ASSUME PoolAssumption ==
  /\ Owner \in [Batches -> Nodes]
  /\ Scenarios \subseteq Scenario
  /\ \A s \in Scenarios : \A d \in s.late : Owner[d[1]] # d[2]

VARIABLES
  env,    \* the scenario of this behaviour
  pool,   \* batches in each node's MemPool
  wire,   \* sends under way: batch and recipient
  held    \* history: batches that were in each pool at some time

poolVars == <<pool, wire, held>>

PoolTypeOK ==
  /\ env \in Scenarios
  /\ pool \in [Nodes -> SUBSET Batches]
  /\ wire \in SUBSET env.late
  /\ held \in [Nodes -> SUBSET Batches]

PoolInit ==
  /\ env \in Scenarios
  /\ pool = [n \in Nodes |-> {}]
  /\ wire = {}
  /\ held = [n \in Nodes |-> {}]

-----------------------------------------------------------------------------
\* What ListBySigner returns when it does not wait.
BySigner(n) == {b \in pool[n] : Owner[b] = n}

Store(S, b) ==
  /\ pool' = [n \in Nodes |-> IF n \in S THEN pool[n] \cup {b} ELSE pool[n]]
  /\ held' = [n \in Nodes |-> IF n \in S THEN held[n] \cup {b} ELSE held[n]]

\* sendBatch to every peer, each in a goroutine of its own.
MulticastBatch(b) == wire' = wire \cup {d \in env.late : d[1] = b}

\* Push signs the batch, stores it and sends it to all peers.
Push(b) ==
  /\ Store({n \in Nodes : <<b, n>> \notin env.late}, b)
  /\ MulticastBatch(b)

\* A tick of RandomBatches.
Produce(n) ==
  /\ Cardinality(BySigner(n)) < env.backlog
  /\ \E b \in env.batches : Owner[b] = n /\ b \notin held[n] /\ Push(b)

\* rcvBatch acknowledges, verifies and stores.
RcvBatch(n) ==
  \E b \in Batches : /\ <<b, n>> \in wire
                     /\ Store({n}, b)
                     /\ wire' = wire \ {<<b, n>>}

\* The stream fails, or the batch is lost after the acknowledgement.
SendFails(n) ==
  /\ \E b \in Batches : <<b, n>> \in env.lossy \cap wire /\ wire' = wire \ {<<b, n>>}
  /\ UNCHANGED <<pool, held>>

\* gc removes a batch that was pushed more than a minute ago.
Collect(n) ==
  /\ \E b \in pool[n] : <<b, n>> \in env.expiring /\ pool' = [pool EXCEPT ![n] = @ \ {b}]
  /\ UNCHANGED <<wire, held>>

PoolStep(n) == Produce(n) \/ RcvBatch(n) \/ SendFails(n) \/ Collect(n)
=============================================================================
