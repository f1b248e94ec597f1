# Verification of unison

unison is a DAG-based consensus layer in Go. Every node runs a *chain* that assembles blocks
of batches round after round and hands each block to a *reliable broadcast* (`rebro`), which
collects signatures of the other nodes until the blocks of a round form a quorum. This
directory holds TLA+ models of its core, TLC configurations that check them on small
instances, and TLAPS proofs of their safety properties for every instance.

- `*.tla` without prefix or suffix: the models. `MC*.tla` and `*.cfg`: TLC instances.
  `*Proofs.tla`: theorems and proofs.
- `PROJECT.json`: components, runs, mutants, the map from definitions to source lines,
  findings, hazards and theorems.

Check a model with `tlc -workers 2 -config X.cfg MCx`, a proof with `tlapm XProofs.tla`.

## 1. Inventory

| component | state | operations | talks to |
|---|---|---|---|
| `dag/quorum` Includers | keys and stakes, memoised total | `GetByPubKey`, `TotalStake`, `Validate` | Quorum |
| `dag/quorum` Quorum, certificate | certificates by message id, each with signers, stake and a completed flag; stake of completed producers | `Add`, `Get`, `Delete`, `List`, `Finalize`, `AddSignature` | owned by a Round until that is stopped |
| `rebro/gossip/internal/round` Round | operation channel, subscriptions, three signalling channels, the quorum | `AddCertificate`, `GetCertificate`, `DeleteCertificate`, `AddSignature`, `Finalize`, `Stop`; one goroutine `stateLoop` | called by validators and Broadcast |
| `round.Manager` | rounds, subscriptions by round, latest number, one mutex | `StartRound`, `StopRound`, `GetRound`, `Stop` | Broadcaster |
| `rebro/gossip` Broadcaster | a Manager, a pubsub topic | `Broadcast`, `processData`, `processSignature`, `Start`, `Stop` | pubsub, certifier, signer |
| `dag` certifier | none | `Certify`: pulls every batch of a block | BatchPool |
| `dag` Chain | height, last certificates | `startRound` in a loop | Broadcaster, BatchPool |
| `bapl` MemPool | batches by hash with their age, subscriptions by hash, one mutex, one condition | `Push`, `Pull`, `ListBySigner`, `Delete`, `gc` | Chain, certifier |
| `bapl` MulticastPool | a MemPool, peers | `Push` to all peers over one-shot streams, `rcvBatch` | libp2p |
| `unison-poc` bootstrap | connected peers, the peer store, a channel closed at network size | `Start`, `Serve`, `GetMembers` | libp2p |
| `unison-poc` main, randomizer | none | bootstrap, wait, take the members, start the Chain; push a batch every second | everyone |
| crypto, block, generated messages | keys, encodings | signing, hashing, (de)serialising | everyone |

**What is hard here.**

* *Round*: callers block in two selects, the loop blocks on channels of size one, and a canceled
  `GetCertificate` executes the same operation a second time. Right means: the callers see a
  sequential quorum, nobody misses a certificate, nothing promised is lost, `Stop` ends.
* *Manager, MemPool*: one mutex, but subscription maps outlive the critical section in local
  variables, so a canceled caller works on a map that may have been replaced. Right means: a
  waiter is in the map the notifier reads, and a send under the mutex never blocks.
* *Quorum*: saturating integers, deletions and re-additions of certificates, several messages of
  one producer. Right means: a complete certificate has more than two thirds of the stake, and
  finality means what the listed blocks say.
* *Broadcast*: data and signatures arrive in any order, before the round is known, or after it is
  over; certification may fail on some nodes. Right means: a signature is only counted when its
  node certified the message, and a Broadcast that returns leaves a settled quorum.
* *Chain*: nodes list different quorums of blocks, delete the batches of those, and certify the
  next blocks from what is left in their pools; batches come late or never, expire, and are listed
  again; validators that wait too long refuse a block for good; a failed Broadcast cannot be repeated.
  Right means: certified data is available, the blocks of a height share a parent, no batch gets lost,
  and the chains advance.
* *Bootstrap*: everybody waits for the bootstrapper, which waits for everybody, and the peers a node is
  connected to when its kickoff timeout ends are its includers from then on. Nothing but
  timers keeps one node's kickoff behind another's dials. Right means: all start, and nobody is missing
  among the includers of one node only.

## 2. Modules

| module | models | state | actions |
|---|---|---|---|
| `StakeQuorum` | `quorum.go`, `includer.go`, `certificate.go` | none: a data type with one operator per method | – |
| `QuorumCertificate` | the promise of `rebro.QuorumCertificate` as `dag/quorum` keeps it; the abstract specification | `quorum`, and `dropped`, a history of deleted complete certificates | `AddStep`, `DeleteStep`, `SignStep` |
| `Round` | `round.go`, `state_op.go` | calls (`pc`, `errs`, `got`, `canceled`, and `gaveUp`, a history of cancellations that timed out), operations (`doneCh`, `rejected`, `comms`), the round (`stateOpCh`, `getOpSubs`, `finalCh`, `closeCh`, `phase`, `quorum`) and where the loop blocks (`sending`, `notify`, `current`) | callers: `Submit`, `Receive`, `SeeClosed`, `SeeCanceled`, `SeeTimeout`, `FinalizeCall`, `StopCall`, `StopReturn`, `CancelContext`; loop: `DoOp` (`StateAdd`, `StateGet`, `StateDelete`, `StateAddSign`), `Send`, `BeginDrain`, `FinishDrain`, `CloseRound` |
| `RoundManager` | `manager.go` and the part of `Broadcast` that drives it | the mutex, the maps with their identity, `latestRound`, each waiter's channel, each round's lifecycle | one per critical section or select of `StartRound`, `StopRound`, `GetRound`, `Stop` |
| `MemPool` | `mem.go` | batches, ages, maps with identity, channels | `Push`, `Pull`, `PullReturn`, `Unsubscribe`, `ListBySigner`, `Delete`, `Age`, `Collect`, `CancelContext` |
| `Gossip` | `broadcaster.go`, `process.go` for one round over all nodes | per node: Broadcast, round, quorum, each message's processing; what was flooded | `StartRound`, `Publish`, `AwaitFinal`, `StopRound`, `AddCertificate`, `CertifyAndSign`, `CertifyFails`, `DeliverSignature` |
| `ReliableRound` | the promise of one round of a `rebro.Broadcaster`; the abstract specification of `Gossip` | messages published, certified, refused; who returned, with which list | `Certify`, `Refuse`, `Publish`, `Return` |
| `MulticastPool` | `multicast.go`, `randomizer.go`, and of `mem.go` what other nodes notice | pools of all nodes, sends under way, history of what was held, the scenario | `Produce` (`Push`, `MulticastBatch`), `RcvBatch`, `SendFails`, `Collect` |
| `Chain` | `chain.go`, `certifier.go`, the validators of `process.go`, over several heights and all nodes | per node: where `startRound` is, height, latest round, listed blocks; per block its content, and its processing at each node | `Clean`, `Assemble`, `Elapsed`, `Return`; `Deliver`, `Pull`, `PullDeleted`, `Refuse`; `End` |
| `Bootstrap` | `bootstrap.go` and `main.run` up to the start of the Chain | position and timer of each node, connections, peer store, `dn`, dials to make, members | `Connect`, `Identify`, `Request`, `Handle`, `Answer`, `Dial`, `Dialed`; `Serve`, `Drained`; `Kickoff`; `Tick` |

How they fit together: `Round`, `QuorumCertificate` and `Gossip` extend `StakeQuorum`. `Round`
implements `QuorumCertificate` (identity mapping of `quorum` and `dropped`), so `Gossip`, where
operations on a node's round are atomic, may use the quorum directly. `RoundManager` abstracts a
round to its lifecycle; that a closing round closes is `StopCompletes` of `Round`,
except for the blocked loop named there. `Round` lets its
calls of `Stop` not overlap, which is `NoOverlappingStops` of `RoundManager`. `Gossip` implements
`ReliableRound` under a refinement mapping (`RR` in `Gossip`): a message is certified where
`processData` got past `Certify`, a Broadcast's list is that of its quorum once it is done. `Chain`
extends `MulticastPool` and uses that promise: a block is complete when nodes of a quorum certified it, and
`Return` takes any list `ReliableRound` allows. The other modules assume that all
nodes have one set of includers; `Bootstrap` says how far that is so: up to failed dials, and when the
network is fast enough for the timeouts.

Correspondence worth knowing:

* A call of `execOp` is in front of its first select (`submit`) or its second (`await`); the
  second execution of a canceled `GetCertificate` is `resubmit` and `reawait`. `SeeTimeout` is
  `subscriptionCancellationTimeout`, which may elapse whenever a cancellation waits; `gaveUp` remembers
  for whom it did.
* The deferred drain of `stateLoop` sees the channel empty (`FinishDrain`) and closes `closedCh`
  (`CloseRound`) in two steps; `Submit` is possible between them.
* The state loop executes an operation up to its first send on a `doneCh` in one step. `Send` is
  disabled while that `doneCh` is full, which is how the loop blocks.
* Maps of subscriptions are named by the call that made them, so that a `GetRound` or `Pull` can
  keep using a map that was replaced.
* `Weight` gives the stake of a *set* of includers. It is a constant with the laws of a measure
  (`QuorumAssumption`), which avoids a recursive sum; the MC modules define it by a fold, and TLC
  evaluates the laws.
* int64 is kept as `0..MaxInt64` with the saturation of `safeAddClip`; TLC uses a small `MaxInt64`
  so that the counter reaches it.
* In `Gossip`, pubsub is external: `Publish` runs the own validator first, other validators see a
  message at most once, in any order or never. A validator that waits is one whose step is not
  enabled. `Lacking` are nodes where `Certify` may fail. A signature whose own validator meets a
  stopped round is flooded or not, depending on whether that validator saw an elapsed round or its
  timeout.
* In `Chain`, `status` is how far `processData` of a block is at a node: `waiting` in `Certify` for the
  batches in `need`, `signed`, or `refused`. `Clean` is the loop of deletions: a `Certify` that is in
  `Pull` for such a batch gets `ErrBatchDeleted` and goes on to its next batch, which the same loop may
  delete under it too; one that asks afterwards waits. `Elapsed` is
  the retry after a Broadcast that failed in its own validator. A block that meets a round which is over
  stays `none`. A signature made after the node's own round is over is published or refused.
* A behaviour of `MulticastPool` and `Chain` has one *scenario* (`env`): which batches the randomizer
  produces and how many at a time, which deliveries may be overtaken by gossip or get lost, which pool
  entries may grow older than a minute, which validators may be slow, which processes may end. That
  keeps the faults of different kinds apart where their product would be too large for TLC.
* In `Bootstrap`, `Flaky` are the pairs of nodes whose dials may fail. Each node has its own `timer`: the
  second that `Start` sleeps (`Settle`), then at most `Delay` for its request, the answer once `dn` is
  closed, and its dials, then `KickoffTimeout`. Identification takes at most `Delay` as well. `Tick` lets one
  unit pass at all nodes; `Due` holds it back while a node has used up the time its step takes at
  most. While the bootstrapper keeps a request waiting, its timer stands still (`Counts`). No step
  waits for another node's timer. Dialing oneself and dialing the bootstrapper again have no effect
  and are left out.
* Definitions commented `Fault:` are the code with one plausible bug; each is used to show that a
  property notices it. None is part of a specification.

## 3. Runs

| run | instance | shows |
|---|---|---|
| `quorum` | three includers with stakes 3, 2, 2, two messages of one producer, one of another, one of an outsider; narrow int64 | any sequence of calls keeps certificates sound, counters in range, `Finalize` stable and never late, and exact without deletions and equivocation |
| `round_safety` | all assignments of four calls out of publish/await/delete/stop of one message, and out of add/sign/delete/finalize of two; channel of 2; any cancellation and timeout | no missed certificate, waiters remembered, no nil-nil answer, `finalCh` exact, effects durable, nothing changes after `Stop`, the loop blocks only on a caller that will receive or one whose cancellation timed out, refinement of `QuorumCertificate` |
| `round_live` | three calls, channel of 1, any cancellation and timeout, fair scheduling | closing completes, what was accepted before the drain saw the channel empty is executed, callers are released, certificates delivered - unless a caller whose cancellation timed out left the loop blocked |
| `manager_safety` | three Broadcasts over two rounds, two waiters, one `Manager.Stop` | waiters are registered and served, no send blocks under the mutex, stops never overlap, a successful Broadcast leaves nothing |
| `manager_stop` (violation) | one Broadcast, one waiter, one Stop, fair | `Manager.Stop` waits for the mutex it holds |
| `mempool` | two hashes, two signers, three pushes, four pulls, a lister, a deletion, the collector | no send blocks, no lister oversleeps, undisturbed pulls are served |
| `pool_lost_batch` (violation) | one push, one deletion, two pulls | a Pull that waits although its batch is present |
| `gossip` | three nodes with stakes 2, 1, 1, two publish, one may fail to certify; fair | signatures backed, blocks of a quorum listed, refinement of `ReliableRound`, Broadcasts return |
| `gossip_quorum` (violation) | three nodes publish, one may fail to certify | a Broadcast that returns with too little stake |
| `chain` | three nodes with stakes 2, 1, 1 over two heights; scenarios: one process may end; a batch that is late or lost, one that expires, a slow validator; blocks of up to two late batches, and a node without batches | batches of complete blocks are in a quorum of pools, blocks share a parent, no batch is lost, working nodes advance unless a block is refused; fair |
| `chain_stuck` (violation) | the same nodes, one batch each and a second one for the heaviest, nothing fails; fair | chains that wait in Broadcast for ever |
| `bootstrap` | four nodes; a pair of joiners and a joiner and the bootstrapper may fail to connect; fair | with a network that is fast enough for the timers, includers are mutual and complete up to failed dials; everybody starts |

**Why the bounds are enough to be interesting.** In `round_safety` the channel of two is both
filled and drained by four calls; two calls of `GetCertificate`, an addition and a deletion are what
it takes to cross an answer with a cancellation. One includer alone holds a quorum, so that a
certificate is completed by one signature and only its own message makes the round final; several
signers per certificate are `quorum`'s business. In `manager_safety` two calls share a map, one may
leave it, and two rounds make one elapse. In `mempool` each hash has two pulls, and one hash
is pushed twice, with both signers, and deleted. In `gossip` two of three nodes hold a quorum, so the
third is free to fail, to lag and to finish first; with two messages, a list is both of them, or
one where a node refused the other. In `chain` two heights are what it takes for a node to
delete what another one lists again, and stakes of 2, 1, 1 let nodes list two different quorums and the full
set. In `bootstrap` three joiners are needed so that two of them miss each other while
a third sees both; `Settle` 2, `Delay` 1 and `KickoffTimeout` 4 are the
smallest that satisfy `Timely` with a positive delay, and the condition is tight: without it in
`MembersAgree`, a `KickoffTimeout` of 3 or a `Delay` of 2 violates the rest of the property. Calls that ask for the same are interchangeable
(`CallSymmetry`); symmetry is only used in runs without liveness properties. All
deadlock checks are off because each instance has finitely many calls and may simply be done.

**Fairness.** `Round`: the state loop, and each caller whose select has a ready case, keeps being
scheduled (weak fairness); goroutines are, and a running timer of `time.After` fires (`SeeTimeout`). No context ever has to end. `RoundManager`: the
same, and a closing round closes; nothing makes a round final. `Gossip`: goroutines run and pubsub
delivers what was flooded; `BroadcastTerminates` is only claimed when publishers hold a quorum and
nobody refuses a message. `Chain` and `Bootstrap`: the system does not stop while some step is
enabled (weak fairness of `Next`), the weakest assumption that makes sense; it suffices because
nothing in these instances repeats for ever, except the retries after a failed Broadcast, where a block
was refused. `MemPool` has no fairness: its properties are invariants.

## 4. Proofs

All proofs are for every value of the constants that satisfies the named assumptions:
`QuorumAssumption` (stakes are natural numbers, `Weight` is a measure, and the total is at most
`MaxStake` because `updateTotalStake` panics otherwise), `RoundAssumption` (a positive channel size),
`ManagerAssumption`, `GossipAssumption` (a publisher signs its own message), `ChainAssumption` (an id is a height and a producer),
`BootstrapAssumption` (finitely many nodes) and the two `PoolAssumption`s. TLC evaluates each of
them in a passing run. Every strengthened invariant below was first checked by TLC on the instance of its run.
Every safety property of a passing run, invariant, action property or refinement, is stated by a theorem.

* `StakeQuorumProofs`: facts about stake, `QuorumIntersection` (two sets that
  each complete a certificate share more than a third of the stake), and what `Add`, `Delete` and
  `AddSignature` do to a sound quorum value (`AddFacts`, `DeleteFacts`, `SignFacts`), for
  any module that keeps a quorum in a variable.
* `QuorumCertificateProofs`: `TypeCorrect`, `CertificatesSound`, `FinalizeNeverLate`,
  `CounterExact`, `FinalizeIsStable`. The inductive invariant `IInv` is types, `CertificateSound`,
  `FinalizeExact` and `StakeCovered`: the counter is at least the stake of the listed producers.
  `NeverLate` alone is not inductive, because a counter that lags behind is only noticed when
  the next certificate completes; a saturated counter still covers any set of includers, because the
  total is at most `MaxStake`.
* `RoundProofs`: `ImplementsQuorum` (every step of the round is a step of `QuorumCertificate` or
  leaves the quorum alone), and through it, with the quorum's invariant instantiated, `TypeCorrect` and
  `RoundCertificatesSound`. `NoCertificateMissed` is inductive with the types. `FinalChannelExact` needs
  `SignatureStake`: a signature that moves the quorum's counter also reports the certificate as
  complete, so `stateAddSign` looks at `Finalize` whenever the answer may have changed.
  `StopFreezesQuorum` needs the invariant that a Stop that returned nil saw the loop stopped.
  The theorems about callers count *tokens*: how often an operation is in the channel, the subscriptions,
  the loop's registers and its `doneCh` together. `LoopTokens`: no step of the loop makes more of them.
  `Bounded`: at most as many are under way as the caller submitted and did not receive, so none before its
  first select, one in its first execution, two in its second. From it: `LoopWaitsForReceiver` (a loop
  blocked on a full `doneCh` sees two tokens, so the caller is in its second await, or it returned from there
  because its cancellation timed out: that is the only return that leaves two tokens behind), and `Answered`: in its first execution
  a get is not queued and subscribed at once, so `stateGet` never takes it for a cancellation and
  `GetReturnsSomething` follows. `WaitersRemembered` only needs `Idle`, that the loop's registers
  are free when it takes an operation. `EffectsDurable` follows from `Effects`: from the moment the loop has
  executed an operation without refusing it, its effect is in the quorum, because an `add`
  overwrites nothing, signatures only accumulate, and only a delete of the id removes.
* `RoundManagerProofs`: `ManagerInv` is the conjunction of `Control` (which calls are where, and who
  holds the mutex), `OneBroadcast` (at most one Broadcast per number got past StartRound),
  `Waiters` (waiters of a round still to come are in its current map), `Maps` (a map holds calls that
  asked for one round, is empty until its maker subscribes, and is current for that round only) and `Progress`
  (what a Broadcast's position says of its round). From it: `WaitersRegistered`, `SendsNeverBlock`,
  `StopsNeverOverlap`, `BroadcastsLeaveNothing`, `WaitersServed`. The subtle one is `Waiters`: a canceled
  GetRound drops whatever map the round has, which is harmless only because a map that is not
  current belongs to a round that already started. In
  `StopsNeverOverlap`, Manager.Stop never competes with a Broadcast because it never gets past its
  second lock; a repair of `manager_stop` has to prove this again.
* `MemPoolProofs`: the pool has the maps of the manager but not its argument, since a hash can be deleted and
  asked for again; the unconditional property fails (`pool_lost_batch`). `Together` is what is left of it:
  as long as an undisturbed hash is not pushed, all who wait for it, also those that are
  about to unsubscribe, are in the one map that the push will find. A canceled Pull drops that map only when
  it was the last one in it. `Maps` and `Waiting` say which calls are in which map, and `Fresh` that a
  Pull begins with an empty channel; with them `SendsNeverBlock`, `ListersSleepForReason` and `PullersServed`
  are inductive. `Answer`, the step Push, Delete and the collector share, has its own lemmas.
* `GossipProofs`: `ImplementsReliableRound` under the mapping `RR`, `SignaturesAreBacked`,
  `ReturnsWithQuorum`, `TypeCorrect`. `Finalize` reads one counter; `Backed` says what it can stand for: at most
  the stake of the producers whose messages are listed, or were listed when they were deleted
  (`DroppedOnce`). `SignaturesBacked` turns a complete certificate into a quorum of nodes that certified.
  `Processed`, `Sent` and `Waited` keep `processData`, the quorum and Broadcast in step; a stopped
  round's list is frozen (`ListedFrozen`), which is what the abstract `Return` needs.
* `ChainProofs`: `ParentsShared`, `BlocksAvailable`, `BatchesKept`, `TypeCorrect`. `Seen` (a
  block is processed only after its producer started that round) shows that no block changes after
  anyone saw it, so that completeness is for ever. `Pulled` is the step that `DataAvailable` hides: a
  validator is done with a batch because it stored it, or because it was deleted under its Pull; then it was
  in a complete block already, and a quorum had it. `ListedComplete` and `ParentsComplete` give both
  blocks of a height parents of a quorum of producers, and `QuorumIntersection` the common one.
* `BootstrapProofs`: `IncludersAgree`, for networks of the announced size with `Timely`: identification takes
  less than `Settle`, and `Settle` with `Delay` less than `KickoffTimeout`. Nodes read their peers at
  different times, each when its own timer ends. `Race` is the argument about them: what a joining node has
  left to do (`Left`) is over before any kickoff that is already awaited, because `dn` is closed only once
  all are connected, so at that moment each has at most `Settle + Delay` left, and every kickoff wait
  starts later. So nobody is joining when the first node runs (`Settled`), although no step waits for
  that. `Told` says that of any two nodes with an answer one has dialed the other or is going to: the one
  that asked later was told of the earlier, which `Asked` owes to identification within the second. The counting
  of `Serve` enters as `EnoughIsAll`: with the announced size, enough connected peers are all of them.

**Only model-checked**: all liveness (under fairness, and ENABLED, the prover does not reach):
`StopCompletes`, `AcceptedIsExecuted`, `ClosedReleasesCallers`, `CertificateReachesWaiter`,
`BroadcastTerminates`, `AdvancesUnlessRefused`, `BootstrapTerminates`. What
a recursive definition computes for every input is out of the prover's reach too, and it loses its
SMT backend in modules with RECURSIVE operators: the modules use none, and the sum of stakes is the
constant `Weight` with its laws, which TLC evaluates for the folds of the MC modules.

## 5. Findings

Each is a run that TLC answers with a counterexample; `PROJECT.json` quotes the lines it disagrees with.

1. `manager_stop`: `Manager.Stop` locks its own mutex again.
2. `pool_lost_batch`: a canceled `Pull` drops the map of another one.
3. `gossip_quorum`: deleting a complete certificate leaves its stake in the quorum's counter. A repair that
   gives the stake back would let `Finalize` turn false again, against `FinalizeStable`; since `finalCh`
   cannot be opened again (`FinalIffQuorum`), a repair has to keep complete certificates, or to
   weaken both properties on purpose.
4. `chain_stuck`: a block that lists batches again which others have deleted is not certified, and
   with few batches the chains stop for good.

Observations without a run of their own:

* `GetCertificate` cancels its subscription by executing the operation again. When the first answer and
  the cancellation cross, it subscribes instead, and when its caller gives up after
  `subscriptionCancellationTimeout`, the second answer blocks the state loop on a full `doneCh`
  for good, and the round never stops. `LoopNeverStuck` shows that this is the only way for the loop to
  block on a caller that left; the liveness properties of `Round` except it by name (`Stuck`).
* Between the drain's last look at the channel (round.go:298) and the closing of `closedCh` (round.go:299) an
  operation is still accepted, and never executed, although the comment on the drain (round.go:292-293)
  has it "execute all the pending ops before we fully close". `AcceptedIsExecuted` is therefore about
  operations submitted before that look. No promise to a caller is broken: this one returns
  `ErrClosedRound` (`ClosedReleasesCallers`), and `EffectDurable` is about calls that returned nil.
* `GetRound` of the latest round subscribes after `StopRound` has removed it, and waits until its
  context ends (`CertifyAndSign` of `Gossip` and `Sign` of `Chain` have that outcome).
* With the default `network-size` 0 the bootstrapper never answers (`Serve` of `Bootstrap`), and
  `MembersAgree` rests on `Timely`: when identification takes longer than the second, or the second with
  request and dials longer than the kickoff timeout, a node may start without peers that are still joining.
  Also where it holds, two nodes may have different includers: each leaves out whom it could not dial.

## 6. Not modelled

* Includers' sort and memoisation (nothing reads the order), serialisation, hashing and
  cryptography: ids, keys and signatures are model values, a signature is the pair of message and signer.
* `Broadcaster.Start` and `Stop`, the orchestrator, flags and keys in `main`, logging, generated code.
* Joining after the start, and restarts: `main` takes the members once, keeps no state on disk but its key,
  and a Chain that starts again begins at height 1, which the others have passed.
* `execOpAsync`, which only tests use; `MemPool.Size` (reads only) and `MemPool.Close` (after it `Collect`
  is not taken any more, a behaviour the model already has).
* Errors of bootstrap's `Start` after it has connected (stream, answer): the process ends, and
  to the others it is a node whose dials fail.
* Contexts of validators in `Gossip`: a processData that times out between its submission and its
  answer (see the hazards).

## 7. Plan

Done: the data type, the abstract quorum, the round, the manager, the pool, one round of gossip and
its promise, the pools and chains of all nodes, the bootstrap; theorems for every safety property of the
passing runs, and the two refinements.

1. Proofs about `ReliableRound` alone: what any two returned lists have in common, so that `Chain` can cite the
   promise instead of arguing from completeness.
2. `Gossip` with validator contexts: a timeout between submission and answer of AddCertificate.
