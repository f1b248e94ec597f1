--------------------------- MODULE BootstrapProofs --------------------------
(***************************************************************************)
(* Proof that the nodes of a network of the announced size agree on their  *)
(* includers when its delays fit the timeouts, for any number of nodes,    *)
(* any set of unreliable pairs and any such delays and timeouts.  Each     *)
(* node reads its peers once, when its own timer ends; the argument is     *)
(* that no timer of a kickoff can overtake what a joining node has left.   *)
(***************************************************************************)
EXTENDS Bootstrap, FiniteSetTheorems, TLAPS

-----------------------------------------------------------------------------
(* The inductive invariant *)

Others == Nodes \ {Bootstrapper}

Types ==
  /\ boot \in [Nodes -> {"serve", "drain", "connect", "settle", "request", "handled",
                         "dial", "kickoff", "running", "failed"}]
  /\ store \subseteq Nodes
  /\ dn \in BOOLEAN
  /\ dial \in [Nodes -> SUBSET Nodes]
  /\ members \in [Nodes -> SUBSET Nodes]
  /\ timer \in [Nodes -> Nat]

\* Serve runs on the bootstrapper, Start on the others.
Roles ==
  /\ boot[Bootstrapper] \in {"serve", "drain", "kickoff", "running"}
  /\ \A n \in Others : boot[n] \notin {"serve", "drain"}

\* dn is closed when all are connected to the bootstrapper, and nobody gets past
\* the request before.
Gathered ==
  /\ dn => \A n \in Others : {n, Bootstrapper} \in conn
  /\ \A n \in Others : boot[n] \in {"connect", "failed"} => {n, Bootstrapper} \notin conn
  /\ \A n \in Nodes : boot[n] \in {"drain", "dial", "kickoff", "running"} => dn

\* A node that sleeps is identified in time; one that made its request is in the
\* peer store, and dials what it was told.
Asked ==
  /\ \A n \in Others : boot[n] = "settle" /\ n \notin store => Settle <= timer[n] + Delay
  /\ \A n \in Others :
       boot[n] \in {"request", "handled", "dial", "kickoff", "running"} => n \in store
  /\ \A n \in Nodes : dial[n] # {} => boot[n] = "dial" /\ n \in Others
  /\ \A n \in Nodes : n \notin dial[n]

\* Of two nodes with an answer, the later one was told of the earlier: one of them
\* has dialed the other or is going to.
Told ==
  \A n, m \in Others :
    n # m /\ boot[n] \in {"dial", "kickoff", "running"} /\ boot[m] \in {"dial", "kickoff", "running"}
    => {n, m} \in conn \cup Flaky \/ m \in dial[n] \/ n \in dial[m]

\* What a joining node has left to do takes at most this long.
Left(n) == IF boot[n] = "settle" THEN timer[n] + Delay ELSE timer[n]

\* It never takes longer than the second and the delay, and it is over before any
\* kickoff that is already awaited.
Race ==
  \A n \in Nodes : boot[n] \in Joining =>
    /\ Left(n) <= Settle + Delay
    /\ \A m \in Nodes : boot[m] = "kickoff" => Left(n) < timer[m]

\* When a node runs, nobody is joining any more, and its includers are its peers.
Settled ==
  \A n \in Nodes : boot[n] = "running" => /\ \A m \in Nodes : boot[m] \notin Joining
                                          /\ members[n] = {n} \cup Peers(n)

IInv == Types /\ Roles /\ Gathered /\ Asked /\ Told /\ Race /\ Settled

\* The network has the size every node was told, and its delays fit the timeouts.
Announced == NetworkSize = Cardinality(Nodes) /\ Timely

-----------------------------------------------------------------------------
(* Every step preserves it *)

\* The loop of Serve ends only when everyone is connected to the bootstrapper.
LEMMA EnoughIsAll ==
  ASSUME Announced, Enough(Bootstrapper)
  PROVE  \A n \in Others : {n, Bootstrapper} \in conn
<1>1. IsFiniteSet(Nodes) /\ Bootstrapper \in Nodes
  BY BootstrapAssumption
<1>2. IsFiniteSet(Others) /\ Cardinality(Others) = Cardinality(Nodes) - 1
  BY <1>1, FS_RemoveElement DEF Others
<1>3. Peers(Bootstrapper) \in SUBSET Others
  BY DEF Peers, Others
<1>4. /\ Cardinality(Peers(Bootstrapper)) <= Cardinality(Others)
      /\ Cardinality(Others) = Cardinality(Peers(Bootstrapper)) => Others = Peers(Bootstrapper)
      /\ IsFiniteSet(Peers(Bootstrapper))
  BY <1>2, <1>3, FS_Subset
<1>5. Cardinality(Others) \in Nat /\ Cardinality(Peers(Bootstrapper)) \in Nat
  BY <1>2, <1>4, FS_CardinalityType
<1>6. Cardinality(Peers(Bootstrapper)) >= Cardinality(Others)
  BY <1>2 DEF Announced, Enough
<1>7. Others = Peers(Bootstrapper)
  BY <1>4, <1>5, <1>6
<1>8. \A n \in Others : {Bootstrapper, n} \in conn
  BY <1>7 DEF Peers
<1>9. \A n : {Bootstrapper, n} = {n, Bootstrapper}
  OBVIOUS
<1> QED
  BY <1>8, <1>9

\* The announced network has somebody in it, so that Serve closes dn.
LEMMA SizePositive ==
  ASSUME Announced
  PROVE  NetworkSize > 0
<1>1. IsFiniteSet(Nodes) /\ Bootstrapper \in Nodes
  BY BootstrapAssumption
<1>2. Cardinality(Nodes \ {Bootstrapper}) = Cardinality(Nodes) - 1
      /\ IsFiniteSet(Nodes \ {Bootstrapper})
  BY <1>1, FS_RemoveElement
<1>3. Cardinality(Nodes \ {Bootstrapper}) \in Nat /\ Cardinality(Nodes) \in Nat
  BY <1>1, <1>2, FS_CardinalityType
<1> QED
  BY <1>2, <1>3 DEF Announced

\* The delays fit the timeouts.
LEMMA TimelyFacts ==
  ASSUME Announced
  PROVE  /\ Settle \in Nat /\ Delay \in Nat /\ KickoffTimeout \in Nat
         /\ Delay < Settle /\ Settle + Delay < KickoffTimeout
  BY BootstrapAssumption DEF Announced, Timely

\* Nobody is connected at first.
LEMMA InitIInv == Init => IInv
<1> SUFFICES ASSUME Init PROVE IInv
  OBVIOUS
<1>1. \A n \in Nodes : boot[n] \in {"serve", "connect"}
  BY DEF Init
<1>2. Types /\ Roles /\ Gathered
  BY BootstrapAssumption DEF Init, Types, Roles, Gathered, Others
<1>3. Asked /\ Told /\ Settled
  BY <1>1 DEF Init, Asked, Told, Settled, Others
<1>4. Race
  BY <1>1 DEF Race, Joining
<1> QED
  BY <1>2, <1>3, <1>4 DEF IInv

\* Connect: only before dn is closed, so before anyone awaits its kickoff.
LEMMA ConnectIInv ==
  ASSUME IInv, NEW n \in Nodes, Connect(n)
  PROVE  IInv'
<1> USE DEF IInv
<1>1. n \in Others /\ boot[n] = "connect" /\ {n, Bootstrapper} \notin conn /\ ~dn
  BY DEF Connect, Roles, Others, Gathered
<1>2. /\ UNCHANGED <<store, dn, dial, members>>
      /\ boot' = [boot EXCEPT ![n] = IF {n, Bootstrapper} \in conn' THEN "settle" ELSE "failed"]
      /\ timer' = [timer EXCEPT ![n] = Settle]
      /\ conn' = conn \/ conn' = conn \cup {{n, Bootstrapper}}
  BY DEF Connect, Goto, Wait, Dials
<1>3. /\ \A k \in Nodes : k # n => boot'[k] = boot[k] /\ timer'[k] = timer[k]
      /\ boot'[n] = IF {n, Bootstrapper} \in conn' THEN "settle" ELSE "failed"
      /\ timer'[n] = Settle
  BY <1>2 DEF Types
<1>4. Types' /\ Roles'
  BY <1>1, <1>2, <1>3, BootstrapAssumption DEF Types, Roles, Others
<1>5. Gathered'
  <2>1. \A k \in Others : k # n => {k, Bootstrapper} # {n, Bootstrapper}
    BY <1>1 DEF Others
  <2> QED
    BY <1>1, <1>2, <1>3, <2>1 DEF Gathered, Others
<1>6. Asked'
  BY <1>1, <1>2, <1>3, BootstrapAssumption DEF Asked, Others
<1>7. Told'
  BY <1>1, <1>2, <1>3 DEF Told, Others
<1>8. Race'
  <2>1. \A k \in Nodes : boot'[k] # "kickoff"
    BY <1>1, <1>3 DEF Gathered
  <2>2. Left(n)' <= Settle + Delay
    BY <1>3, BootstrapAssumption DEF Left
  <2> QED
    BY <1>3, <2>1, <2>2 DEF Race, Left
<1>9. Settled'
  BY <1>1, <1>2, <1>3 DEF Settled, Gathered
<1> QED
  BY <1>4, <1>5, <1>6, <1>7, <1>8, <1>9

\* Identify: the peer store grows.
LEMMA IdentifyIInv ==
  ASSUME IInv, NEW n \in Nodes, Identify(n)
  PROVE  IInv'
<1>1. /\ store \subseteq store' /\ store' \subseteq Nodes
      /\ UNCHANGED <<boot, conn, dn, dial, members, timer>>
  BY DEF Identify, IInv, Types
<1> QED
  BY <1>1 DEF IInv, Types, Roles, Gathered, Asked, Told, Race, Left, Settled, Peers

\* Request: after the second the node is in the peer store, and it has the delay left.
LEMMA RequestIInv ==
  ASSUME Announced, IInv, NEW n \in Nodes, Request(n)
  PROVE  IInv'
<1>1. /\ boot[n] = "settle" /\ timer[n] = 0
      /\ boot' = [boot EXCEPT ![n] = "request"]
      /\ timer' = [timer EXCEPT ![n] = Delay]
      /\ UNCHANGED <<conn, store, dn, dial, members>>
  BY DEF Request, Goto, Wait
<1>2. /\ boot'[n] = "request" /\ timer'[n] = Delay
      /\ \A k \in Nodes : k # n => boot'[k] = boot[k] /\ timer'[k] = timer[k]
  BY <1>1 DEF IInv, Types
<1>3. Types' /\ Roles' /\ Gathered'
  BY <1>1, <1>2, BootstrapAssumption DEF IInv, Types, Roles, Gathered, Others
<1>4. n \in Others => n \in store
  BY <1>1, TimelyFacts DEF IInv, Asked
<1>5. Asked' /\ Told'
  BY <1>1, <1>2, <1>4 DEF IInv, Asked, Told, Others
<1>6. Race'
  <2>1. Left(n)' = Left(n)
    BY <1>1, <1>2, TimelyFacts DEF Left
  <2>2. \A k \in Nodes : Left(k)' = Left(k)
    BY <1>2, <2>1 DEF Left
  <2> QED
    BY <1>1, <1>2, <2>2 DEF IInv, Race, Joining
<1>7. \A k \in Nodes : boot[k] # "running"
  BY <1>1 DEF IInv, Settled, Joining
<1>8. Settled'
  BY <1>2, <1>7 DEF Settled
<1> QED
  BY <1>3, <1>5, <1>6, <1>8 DEF IInv

\* Handle: the handler starts to run.
LEMMA HandleIInv ==
  ASSUME IInv, NEW n \in Nodes, Handle(n)
  PROVE  IInv'
<1>1. /\ boot[n] = "request"
      /\ boot' = [boot EXCEPT ![n] = "handled"]
      /\ UNCHANGED <<conn, store, dn, dial, members, timer>>
  BY DEF Handle, Goto
<1>2. boot'[n] = "handled" /\ \A k \in Nodes : k # n => boot'[k] = boot[k]
  BY <1>1 DEF IInv, Types
<1>3. Types' /\ Roles' /\ Gathered'
  BY <1>1, <1>2, BootstrapAssumption DEF IInv, Types, Roles, Gathered, Others
<1>4. Asked' /\ Told'
  BY <1>1, <1>2 DEF IInv, Asked, Told, Others
<1>5. Race'
  BY <1>1, <1>2 DEF IInv, Race, Left, Joining
<1>6. \A k \in Nodes : boot[k] # "running"
  BY <1>1 DEF IInv, Settled, Joining
<1>7. Settled'
  BY <1>2, <1>6 DEF Settled
<1> QED
  BY <1>3, <1>4, <1>5, <1>7 DEF IInv

\* Answer: the node is told of everyone who made a request before.
LEMMA AnswerIInv ==
  ASSUME IInv, NEW n \in Nodes, Answer(n)
  PROVE  IInv'
<1> USE DEF IInv
<1>1. /\ boot[n] = "handled" /\ dn /\ n \in Others
      /\ boot' = [boot EXCEPT ![n] = "dial"]
      /\ dial' = [dial EXCEPT ![n] = store \ {n}]
      /\ UNCHANGED <<conn, store, dn, members, timer>>
  BY DEF Answer, Goto, Roles, Others
<1>2. /\ boot'[n] = "dial" /\ \A k \in Nodes : k # n => boot'[k] = boot[k]
      /\ dial'[n] = store \ {n} /\ \A k \in Nodes : k # n => dial'[k] = dial[k]
  BY <1>1 DEF Types
<1>3. Types' /\ Roles' /\ Gathered'
  BY <1>1, <1>2, BootstrapAssumption DEF Types, Roles, Gathered, Others
<1>4. Asked'
  BY <1>1, <1>2 DEF Asked, Others
<1>5. Told'
  <2>1. \A k \in Others : k # n /\ boot[k] \in {"dial", "kickoff", "running"} => k \in dial'[n]
    BY <1>2 DEF Asked
  <2> QED
    BY <1>1, <1>2, <2>1 DEF Told, Others
<1>6. Race'
  BY <1>1, <1>2 DEF Race, Left, Joining
<1>7. \A k \in Nodes : boot[k] # "running"
  BY <1>1 DEF Settled, Joining
<1>8. Settled'
  BY <1>2, <1>7 DEF Settled
<1> QED
  BY <1>3, <1>4, <1>5, <1>6, <1>8

\* Dial: the pair is connected, or it is one whose dials may fail.
LEMMA DialIInv ==
  ASSUME IInv, NEW n \in Nodes, Dial(n)
  PROVE  IInv'
<1> USE DEF IInv
<1>1. PICK m \in dial[n] : Dials(n, m) /\ dial' = [dial EXCEPT ![n] = @ \ {m}]
  BY DEF Dial
<1>2. /\ UNCHANGED <<boot, store, dn, members, timer>>
      /\ boot[n] = "dial" /\ dn /\ n \in Others /\ m \in Nodes
  BY DEF Dial, Asked, Gathered, Types
<1>3. conn \subseteq conn' /\ ({n, m} \in conn' \/ {n, m} \in Flaky)
  BY <1>1 DEF Dials
<1>4. dial'[n] = dial[n] \ {m} /\ \A k \in Nodes : k # n => dial'[k] = dial[k]
  BY <1>1 DEF Types
<1>5. Types' /\ Roles'
  BY <1>1, <1>2, <1>4 DEF Types, Roles
<1>6. Gathered'
  BY <1>2, <1>3 DEF Gathered
<1>7. Asked'
  BY <1>2, <1>4 DEF Asked
<1>8. Told'
  <2>1. SUFFICES ASSUME NEW k \in Others, NEW l \in Others, k # l,
                        boot[k] \in {"dial", "kickoff", "running"},
                        boot[l] \in {"dial", "kickoff", "running"}
                 PROVE  {k, l} \in conn' \cup Flaky \/ l \in dial'[k] \/ k \in dial'[l]
    BY <1>2 DEF Told
  <2>2. {k, l} \in conn \cup Flaky \/ l \in dial[k] \/ k \in dial[l]
    BY <2>1 DEF Told
  <2>3. {k, l} = {l, k}
    OBVIOUS
  <2> QED
    BY <1>3, <1>4, <2>2, <2>3 DEF Others
<1>9. Race'
  BY <1>2 DEF Race, Left
<1>10. \A k \in Nodes : boot[k] # "running"
  BY <1>2 DEF Settled, Joining
<1>11. Settled'
  BY <1>2, <1>10 DEF Settled
<1> QED
  BY <1>5, <1>6, <1>7, <1>8, <1>9, <1>11

\* Whoever begins to wait for its kickoff waits longer than anyone has left.
LEMMA KickoffIsLast ==
  ASSUME Announced, IInv, NEW n \in Nodes, boot[n] # "kickoff",
         boot' = [boot EXCEPT ![n] = "kickoff"],
         timer' = [timer EXCEPT ![n] = KickoffTimeout]
  PROVE  Race'
<1>1. /\ boot'[n] = "kickoff" /\ timer'[n] = KickoffTimeout
      /\ \A k \in Nodes : k # n => boot'[k] = boot[k] /\ timer'[k] = timer[k]
  BY DEF IInv, Types
<1>2. SUFFICES ASSUME NEW k \in Nodes, boot'[k] \in Joining
               PROVE  /\ Left(k)' <= Settle + Delay
                      /\ \A m \in Nodes : boot'[m] = "kickoff" => Left(k)' < timer'[m]
  BY DEF Race
<1>3. k # n /\ boot[k] \in Joining /\ Left(k)' = Left(k)
  BY <1>1, <1>2 DEF Joining, Left
<1>4. /\ Left(k) <= Settle + Delay /\ Left(k) \in Nat
      /\ \A m \in Nodes : boot[m] = "kickoff" => Left(k) < timer[m]
  BY <1>3, TimelyFacts DEF IInv, Race, Left, Types
<1>5. Left(k) < KickoffTimeout
  BY <1>4, TimelyFacts
<1> QED
  BY <1>1, <1>3, <1>4, <1>5

\* Dialed: a node whose dials are made waits for its kickoff.
LEMMA DialedIInv ==
  ASSUME Announced, IInv, NEW n \in Nodes, Dialed(n)
  PROVE  IInv'
<1> USE DEF IInv
<1>1. /\ boot[n] = "dial" /\ dial[n] = {}
      /\ boot' = [boot EXCEPT ![n] = "kickoff"]
      /\ timer' = [timer EXCEPT ![n] = KickoffTimeout]
      /\ UNCHANGED <<conn, store, dn, dial, members>>
  BY DEF Dialed, Goto, Wait
<1>2. /\ boot'[n] = "kickoff"
      /\ \A k \in Nodes : k # n => boot'[k] = boot[k] /\ timer'[k] = timer[k]
  BY <1>1 DEF Types
<1>3. Types' /\ Roles' /\ Gathered'
  BY <1>1, <1>2, BootstrapAssumption DEF Types, Roles, Gathered, Others
<1>4. Asked' /\ Told'
  BY <1>1, <1>2 DEF Asked, Told, Others
<1>5. Race'
  BY <1>1, KickoffIsLast
<1>6. \A k \in Nodes : boot[k] # "running"
  BY <1>1 DEF Settled, Joining
<1>7. Settled'
  BY <1>2, <1>6 DEF Settled
<1> QED
  BY <1>3, <1>4, <1>5, <1>7

\* Serve: dn is closed when all are connected.
LEMMA ServeIInv ==
  ASSUME Announced, IInv, NEW n \in Nodes, Serve(n)
  PROVE  IInv'
<1> USE DEF IInv
<1>1. n = Bootstrapper /\ boot[n] = "serve"
  BY DEF Serve, Roles, Others
<1>2. /\ dn' = TRUE /\ Enough(Bootstrapper)
      /\ boot' = [boot EXCEPT ![n] = "drain"]
      /\ UNCHANGED <<conn, store, dial, members, timer>>
  BY <1>1, SizePositive DEF Serve, Goto
<1>3. boot'[n] = "drain" /\ \A k \in Nodes : k # n => boot'[k] = boot[k]
  BY <1>2 DEF Types
<1>4. \A k \in Others : {k, Bootstrapper} \in conn
  BY <1>2, EnoughIsAll
<1>5. Types' /\ Roles' /\ Gathered'
  BY <1>1, <1>2, <1>3, <1>4 DEF Types, Roles, Gathered, Others
<1>6. Asked' /\ Told'
  BY <1>1, <1>2, <1>3 DEF Asked, Told, Others
<1>7. Race'
  BY <1>1, <1>2, <1>3 DEF Race, Left, Joining
<1>8. Settled'
  BY <1>2, <1>3 DEF Settled, Joining, Peers
<1> QED
  BY <1>5, <1>6, <1>7, <1>8

\* Drained: Serve returns.
LEMMA DrainedIInv ==
  ASSUME Announced, IInv, NEW n \in Nodes, Drained(n)
  PROVE  IInv'
<1> USE DEF IInv
<1>1. /\ boot[n] = "drain" /\ n = Bootstrapper
      /\ boot' = [boot EXCEPT ![n] = "kickoff"]
      /\ timer' = [timer EXCEPT ![n] = KickoffTimeout]
      /\ UNCHANGED <<conn, store, dn, dial, members>>
  BY DEF Drained, Goto, Wait, Roles, Others
<1>2. /\ boot'[n] = "kickoff"
      /\ \A k \in Nodes : k # n => boot'[k] = boot[k] /\ timer'[k] = timer[k]
  BY <1>1 DEF Types
<1>3. Types' /\ Roles' /\ Gathered'
  BY <1>1, <1>2, BootstrapAssumption DEF Types, Roles, Gathered, Others
<1>4. Asked' /\ Told'
  BY <1>1, <1>2 DEF Asked, Told, Others
<1>5. Race'
  BY <1>1, KickoffIsLast
<1>6. Settled'
  BY <1>1, <1>2 DEF Settled, Joining, Peers
<1> QED
  BY <1>3, <1>4, <1>5, <1>6

\* Kickoff: nobody has anything left when the timer ends, so the peers read now are final.
LEMMA KickoffIInv ==
  ASSUME Announced, IInv, NEW n \in Nodes, Kickoff(n)
  PROVE  IInv'
<1> USE DEF IInv
<1>1. /\ boot[n] = "kickoff" /\ timer[n] = 0 /\ dn
      /\ boot' = [boot EXCEPT ![n] = "running"]
      /\ members' = [members EXCEPT ![n] = {n} \cup Peers(n)]
      /\ UNCHANGED <<conn, store, dn, dial, timer>>
  BY DEF Kickoff, Goto, Gathered
<1>2. \A m \in Nodes : boot[m] \notin Joining
  <2>1. \A m \in Nodes : Left(m) \in Nat
    BY TimelyFacts DEF Left, Types
  <2> QED
    BY <1>1, <2>1 DEF Race
<1>3. /\ boot'[n] = "running" /\ \A k \in Nodes : k # n => boot'[k] = boot[k]
      /\ members'[n] = {n} \cup Peers(n) /\ \A k \in Nodes : k # n => members'[k] = members[k]
  BY <1>1 DEF Types
<1>4. Types'
  BY <1>1 DEF Types, Peers
<1>5. Roles' /\ Gathered'
  BY <1>1, <1>3, BootstrapAssumption DEF Roles, Gathered, Others
<1>6. Asked' /\ Told'
  BY <1>1, <1>3 DEF Asked, Told, Others
<1>7. Race'
  BY <1>2, <1>3 DEF Race, Joining
<1>8. Settled'
  BY <1>1, <1>2, <1>3 DEF Settled, Joining, Peers
<1> QED
  BY <1>4, <1>5, <1>6, <1>7, <1>8

\* Tick: what a joining node has left shrinks with every awaited kickoff, and nobody is
\* overdue.
LEMMA TickIInv ==
  ASSUME IInv, Tick
  PROVE  IInv'
<1> USE DEF IInv
<1>1. /\ \A n \in Nodes : ~Due(n)
      /\ timer' = [n \in Nodes |-> IF Counts(n) /\ timer[n] > 0 THEN timer[n] - 1 ELSE timer[n]]
      /\ UNCHANGED <<boot, conn, store, dn, dial, members>>
  BY DEF Tick
<1>2. \A n \in Nodes : /\ timer[n] \in Nat /\ timer'[n] \in Nat
                       /\ timer'[n] <= timer[n]
                       /\ timer'[n] = timer[n] - 1 \/ timer'[n] = timer[n]
                       /\ Counts(n) /\ timer[n] > 0 => timer'[n] = timer[n] - 1
  BY <1>1 DEF Types
<1>3. Types' /\ Roles' /\ Gathered' /\ Told' /\ Settled'
  <2>1. timer' \in [Nodes -> Nat]
    BY <1>1, <1>2
  <2> QED
    BY <1>1, <2>1 DEF Types, Roles, Gathered, Told, Settled, Peers
<1>4. Asked'
  <2>1. ASSUME NEW n \in Others, boot[n] = "settle", n \notin store
        PROVE  Settle <= timer'[n] + Delay
    <3>1. n \in Nodes /\ Settle - timer[n] < Delay
      BY <1>1, <1>2, <2>1, BootstrapAssumption DEF Due, Others
    <3> QED
      BY <1>2, <3>1, BootstrapAssumption
  <2> QED
    BY <1>1, <2>1 DEF Asked
<1>5. Race'
  <2>1. SUFFICES ASSUME NEW n \in Nodes, boot[n] \in Joining
                 PROVE  /\ Left(n)' <= Settle + Delay
                        /\ \A m \in Nodes : boot[m] = "kickoff" => Left(n)' < timer'[m]
    BY <1>1 DEF Race
  <2>2. /\ Left(n) <= Settle + Delay
        /\ \A m \in Nodes : boot[m] = "kickoff" => Left(n) < timer[m]
    BY <2>1 DEF Race
  <2>3. /\ Left(n) \in Int /\ Left(n)' \in Int
        /\ Left(n)' = Left(n) - 1 \/ Left(n)' = Left(n)
        /\ Counts(n) /\ timer[n] > 0 => Left(n)' = Left(n) - 1
    BY <1>1, <1>2, BootstrapAssumption DEF Left
  <2>4. ASSUME NEW m \in Nodes, boot[m] = "kickoff"
        PROVE  Left(n)' < timer'[m]
    <3>1. dn
      BY <2>4 DEF Gathered
    <3>2. Counts(n) /\ timer[n] > 0
      BY <1>1, <1>2, <2>1, <3>1 DEF Counts, Due, Joining
    <3> QED
      BY <1>2, <2>2, <2>3, <2>4, <3>2
  <2> QED
    BY <2>2, <2>3, <2>4, BootstrapAssumption
<1> QED
  BY <1>3, <1>4, <1>5

\* Every step keeps the invariant in a network of the announced size.
LEMMA NextIInv ==
  ASSUME Announced
  PROVE  IInv /\ [Next]_vars => IInv'
<1> SUFFICES ASSUME IInv, [Next]_vars PROVE IInv'
  OBVIOUS
<1>1. CASE Next
  BY <1>1, TickIInv, ConnectIInv, IdentifyIInv, RequestIInv, HandleIInv, AnswerIInv, DialIInv,
     DialedIInv, ServeIInv, DrainedIInv, KickoffIInv DEF Next
<1>2. CASE UNCHANGED vars
  BY <1>2 DEF vars, IInv, Types, Roles, Gathered, Asked, Told, Race, Left, Settled, Peers
<1> QED
  BY <1>1, <1>2

-----------------------------------------------------------------------------
(* Theorems *)

\* A running node includes everyone whose dials cannot fail, and two running nodes
\* include each other or do not.
LEMMA SettledAgree ==
  ASSUME IInv, NEW n \in Nodes, NEW m \in Nodes, boot[n] = "running"
  PROVE  /\ {n, m} \notin Flaky => m \in members[n]
         /\ boot[m] = "running" => (m \in members[n] <=> n \in members[m])
<1>1. {n, m} = {m, n}
  OBVIOUS
<1>2. members[n] = {n} \cup Peers(n) /\ (boot[m] = "running" => members[m] = {m} \cup Peers(m))
  BY DEF IInv, Settled
<1>3. boot[m] = "running" => (m \in members[n] <=> n \in members[m])
  BY <1>1, <1>2 DEF Peers
<1>4. ASSUME {n, m} \notin Flaky, n # m
      PROVE  {n, m} \in conn
  <2>1. dn /\ boot[m] \notin Joining
    BY DEF IInv, Gathered, Settled
  <2>2. CASE n = Bootstrapper \/ m = Bootstrapper
    BY <1>1, <1>4, <2>1, <2>2 DEF IInv, Gathered, Others
  <2>3. CASE n # Bootstrapper /\ m # Bootstrapper
    <3>1. n \in Others /\ m \in Others
      BY <2>3 DEF Others
    <3>2. boot[m] \notin {"connect", "failed", "serve", "drain"}
      BY <2>1, <3>1 DEF IInv, Gathered, Roles
    <3>3. boot[m] \in {"kickoff", "running"}
      BY <2>1, <3>2 DEF IInv, Types, Joining
    <3>4. dial[n] = {} /\ dial[m] = {}
      BY <3>3 DEF IInv, Asked
    <3> QED
      BY <1>4, <3>1, <3>3, <3>4 DEF IInv, Told
  <2> QED
    BY <2>2, <2>3
<1>5. {n, m} \notin Flaky => m \in members[n]
  BY <1>2, <1>4 DEF Peers
<1> QED
  BY <1>3, <1>5

\* In a network of the announced size, whose identification is over within the second
\* and whose second, request, answer and dials are over within the kickoff timeout,
\* every node includes everyone but peers whose dials may fail, and inclusion is mutual,
\* although each node starts and ends its kickoff timeout on its own.
THEOREM IncludersAgree == Spec => []MembersAgree
<1>1. CASE Announced
  <2>1. IInv => MembersAgree
    BY SettledAgree DEF MembersAgree
  <2>2. Init => IInv
    BY InitIInv
  <2>3. IInv /\ [Next]_vars => IInv'
    BY <1>1, NextIInv
  <2> QED
    BY <2>1, <2>2, <2>3, PTL DEF Spec
<1>2. CASE ~Announced
  <2>1. MembersAgree
    BY <1>2 DEF Announced, MembersAgree
  <2> QED
    BY <2>1, PTL
<1> QED
  BY <1>1, <1>2
=============================================================================
