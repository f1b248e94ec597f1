----------------------------- MODULE Bootstrap ------------------------------
(***************************************************************************)
(* unison-poc/bootstrap and the beginning of main.run: every node connects *)
(* to the bootstrapper, which lets them wait until it has networkSize - 1  *)
(* peers and then tells each of them the peers it knows.  A node dials     *)
(* those once, waits for its own kickoff timeout and takes whoever it is   *)
(* connected to then as its includers, for all rounds.                     *)
(*                                                                         *)
(* Nothing but timers keeps one node's kickoff behind another's dials, so  *)
(* time is modelled: timer is what is left of the wait a node is in, or of *)
(* the time its network operations take at most, and Tick lets a unit of   *)
(* it pass everywhere.                                                     *)
(***************************************************************************)
EXTENDS Integers, FiniteSets

CONSTANTS
  Nodes,
  Bootstrapper,
  NetworkSize,     \* the flag network-size, the same on every node
  Flaky,           \* pairs of nodes whose dials may fail
  Settle,          \* the second that Start sleeps after it has connected
  KickoffTimeout,  \* the flag kickoff-timeout
  Delay            \* what identification takes at most, and so do, together, the
                   \* request, the answer once dn is closed, and the dials

ASSUME BootstrapAssumption ==
  /\ IsFiniteSet(Nodes) /\ Bootstrapper \in Nodes
  /\ NetworkSize \in Nat
  /\ Flaky \subseteq SUBSET Nodes
  /\ Settle \in Nat /\ KickoffTimeout \in Nat /\ Delay \in Nat

VARIABLES
  boot,     \* how far each node's Serve ("serve", "drain") or Start ("connect", "settle",
            \* "request", "handled", "dial") is, then "kickoff", "running" or "failed"
  conn,     \* connected pairs
  store,    \* peers with addresses in the bootstrapper's peer store
  dn,       \* Serve's channel is closed
  dial,     \* peers each Start has still to dial
  members,  \* the includers main.run gave the Chain
  timer     \* see above

vars == <<boot, conn, store, dn, dial, members, timer>>

Joining == {"settle", "request", "handled", "dial"}

Init ==
  /\ boot = [n \in Nodes |-> IF n = Bootstrapper THEN "serve" ELSE "connect"]
  /\ conn = {} /\ store = {} /\ dn = FALSE
  /\ dial = [n \in Nodes |-> {}]
  /\ members = [n \in Nodes |-> {}]
  /\ timer = [n \in Nodes |-> 0]

\* host.Network().Peers()
Peers(n) == {m \in Nodes \ {n} : {n, m} \in conn}

Goto(n, l) == boot' = [boot EXCEPT ![n] = l]

Wait(n, t) == timer' = [timer EXCEPT ![n] = t]

\* A dial connects the pair or fails.
Dials(n, m) == conn' \in {conn \cup {{n, m}}} \cup {conn : f \in Flaky \cap {{n, m}}}

-----------------------------------------------------------------------------
(* Start *)

\* Connect to the bootstrapper; when that fails, main ends.
Connect(n) ==
  /\ boot[n] = "connect"
  /\ Dials(n, Bootstrapper)
  /\ Goto(n, IF {n, Bootstrapper} \in conn' THEN "settle" ELSE "failed")
  /\ Wait(n, Settle)
  /\ UNCHANGED <<store, dn, dial, members>>

\* Identification of an incoming connection fills the peer store.
Identify(n) ==
  /\ {n, Bootstrapper} \in conn /\ n \notin store
  /\ store' = store \cup {n}
  /\ UNCHANGED <<boot, conn, dn, dial, members, timer>>

\* After a second, open the stream.
Request(n) ==
  /\ boot[n] = "settle" /\ timer[n] = 0
  /\ Goto(n, "request")
  /\ Wait(n, Delay)
  /\ UNCHANGED <<conn, store, dn, dial, members>>

\* The bootstrapper's handler of the stream starts to run.
Handle(n) ==
  /\ boot[n] = "request"
  /\ Goto(n, "handled")
  /\ UNCHANGED <<conn, store, dn, dial, members, timer>>

\* The handler has passed dn and writes the peers of its store; Start reads them.
Answer(n) ==
  /\ boot[n] = "handled" /\ dn
  /\ dial' = [dial EXCEPT ![n] = store \ {n}]
  /\ Goto(n, "dial")
  /\ UNCHANGED <<conn, store, dn, members, timer>>

\* One of Start's goroutines dials a peer; a failure is only logged.
Dial(n) ==
  /\ \E m \in dial[n] : Dials(n, m) /\ dial' = [dial EXCEPT ![n] = @ \ {m}]
  /\ UNCHANGED <<boot, store, dn, members, timer>>

\* wg.Wait, and Start returns.
Dialed(n) ==
  /\ boot[n] = "dial" /\ dial[n] = {}
  /\ Goto(n, "kickoff")
  /\ Wait(n, KickoffTimeout)
  /\ UNCHANGED <<conn, store, dn, dial, members>>

-----------------------------------------------------------------------------
(* Serve *)

\* Fault: the bootstrapper counts itself among the peers.
EnoughWithSelf(n) == Cardinality(Peers(n)) + 1 >= NetworkSize - 1

\* Fault: the bootstrapper waits for one peer too many.
EnoughPeers(n) == Cardinality(Peers(n)) >= NetworkSize

Enough(n) == Cardinality(Peers(n)) >= NetworkSize - 1

\* The loop of Serve ends and dn is closed; with networkSize 0 there is no loop
\* and dn stays open.
Serve(n) ==
  /\ boot[n] = "serve"
  /\ NetworkSize > 0 => Enough(n)
  /\ dn' = (NetworkSize > 0)
  /\ Goto(n, "drain")
  /\ UNCHANGED <<conn, store, dial, members, timer>>

\* wg.Wait for the handlers that run by now, and Serve returns.
Drained(n) ==
  /\ boot[n] = "drain"
  /\ NetworkSize > 0 => \A m \in Nodes : boot[m] # "handled"
  /\ Goto(n, "kickoff")
  /\ Wait(n, KickoffTimeout)
  /\ UNCHANGED <<conn, store, dn, dial, members>>

-----------------------------------------------------------------------------
\* The node's kickoff timeout has passed: GetMembers, once, and the Chain starts.
Kickoff(n) ==
  /\ boot[n] = "kickoff" /\ timer[n] = 0
  /\ members' = [members EXCEPT ![n] = {n} \cup Peers(n)]
  /\ Goto(n, "running")
  /\ UNCHANGED <<conn, store, dn, dial, timer>>

-----------------------------------------------------------------------------
(* Time *)

\* The node's operation has taken what it takes at most; time does not pass before
\* its next step.
Due(n) ==
  \/ boot[n] = "settle" /\ timer[n] = 0
  \/ boot[n] = "settle" /\ n \notin store /\ Settle - timer[n] >= Delay
  \/ boot[n] \in {"request", "handled"} /\ dn /\ timer[n] = 0
  \/ boot[n] = "dial" /\ timer[n] = 0

\* A request takes no time while the bootstrapper keeps it waiting.
Counts(n) == \/ boot[n] \in {"settle", "dial", "kickoff"}
             \/ boot[n] \in {"request", "handled"} /\ dn

Tick ==
  /\ \A n \in Nodes : ~Due(n)
  /\ \E n \in Nodes : Counts(n) /\ timer[n] > 0
  /\ timer' = [n \in Nodes |-> IF Counts(n) /\ timer[n] > 0 THEN timer[n] - 1 ELSE timer[n]]
  /\ UNCHANGED <<boot, conn, store, dn, dial, members>>

Next == \/ Tick
        \/ \E n \in Nodes :
             \/ Connect(n) \/ Identify(n) \/ Request(n) \/ Handle(n) \/ Answer(n)
             \/ Dial(n) \/ Dialed(n) \/ Serve(n) \/ Drained(n) \/ Kickoff(n)

Spec == Init /\ [][Next]_vars

\* Nothing stops while something can happen.
FairSpec == Spec /\ WF_vars(Next)

-----------------------------------------------------------------------------
(* Properties *)

\* The network is fast enough for the timeouts: identification is over within the
\* second, and the second with everything after it within the kickoff timeout.
Timely == Delay < Settle /\ Settle + Delay < KickoffTimeout

\* When the network has the size every node was told and is fast enough for the
\* timeouts, GetMembers leaves out nobody but peers whose dials may fail, and of two
\* running nodes either both include the other or none does.  Two nodes may still
\* have different includers, where a dial between others of them failed.
MembersAgree ==
  NetworkSize = Cardinality(Nodes) /\ Timely =>
    \A n \in {k \in Nodes : boot[k] = "running"} :
      /\ \A m \in Nodes : {n, m} \notin Flaky => m \in members[n]
      /\ \A m \in Nodes : boot[m] = "running" => (m \in members[n] <=> n \in members[m])

\* When the network size is given and not too large, every node gets to run,
\* unless one cannot connect to the bootstrapper.
BootstrapTerminates ==
  NetworkSize \in 1..Cardinality(Nodes) =>
    <>(\/ \A n \in Nodes : boot[n] = "running"
       \/ \E n \in Nodes : boot[n] = "failed")
=============================================================================
