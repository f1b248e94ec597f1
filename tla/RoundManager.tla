---------------------------- MODULE RoundManager ----------------------------
(***************************************************************************)
(* round.Manager and the part of Broadcaster.Broadcast that drives it.     *)
(* Calls start, await and stop rounds concurrently.  roundsMu is taken and *)
(* released within one step everywhere but in Manager.Stop, which keeps it *)
(* while it waits; a step that takes it needs it free.                     *)
(*                                                                          *)
(* A Round is abstracted to what the manager sees of it: Round.tla shows   *)
(* when its Finalize and Stop return.  The maps of subscriptions have an   *)
(* identity, the call that made them: a GetRound keeps the map it found    *)
(* and goes on using it when it is no longer the one in roundSubs.         *)
(***************************************************************************)
EXTENDS Integers

CONSTANTS
  Calls,      \* calls of Broadcast, GetRound and Manager.Stop
  NoCall,     \* not a call, and no map
  Req,        \* what each call asks for
  MaxRound    \* bound on round numbers

Rounds == 1..MaxRound

Request == [kind : {"broadcast", "get", "stop"}, round : Rounds]

ASSUME ManagerAssumption ==
  /\ NoCall \notin Calls
  /\ MaxRound \in Nat
  /\ Req \in [Calls -> Request]

VARIABLES
  roundsMu,     \* the call that keeps the mutex, or NoCall
  rounds,       \* numbers of the registered rounds
  roundSubs,    \* the map of subscriptions of each round, or NoCall
  subs,         \* the content of each map
  latestRound,
  sub,          \* the channel of each GetRound: "empty", "round" or "closed"
  mine,         \* the map each GetRound subscribed in, or NoCall
  state,        \* each Round: "none", "open", "closing", "closed"
  final,        \* rounds whose finalCh is closed
  target,       \* the round Manager.Stop is at
  pc,
  canceled,     \* calls whose context is done
  err           \* the error a finished call returned, "" for nil

managerVars == <<rounds, roundSubs, subs, latestRound, sub>>
vars == <<roundsMu, managerVars, mine, state, final, target, pc, canceled, err>>

PCs == {"start", "publish", "finalize", "lookup", "stopRound", "stopWait", "remove",
        "get", "wait", "unsubscribe", "lock", "next", "stopFinalize", "done"}

TypeOK ==
  /\ roundsMu \in Calls \cup {NoCall}
  /\ rounds \in SUBSET Rounds
  /\ roundSubs \in [Rounds -> Calls \cup {NoCall}]
  /\ subs \in [Calls -> SUBSET Calls]
  /\ latestRound \in 0..MaxRound
  /\ sub \in [Calls -> {"empty", "round", "closed"}]
  /\ mine \in [Calls -> Calls \cup {NoCall}]
  /\ state \in [Rounds -> {"none", "open", "closing", "closed"}]
  /\ final \in SUBSET Rounds
  /\ target \in [Calls -> Rounds]
  /\ pc \in [Calls -> PCs]
  /\ canceled \in SUBSET Calls
  /\ err \in [Calls -> {"", "elapsed", "closed", "canceled", "publish"}]

Init ==
  /\ roundsMu = NoCall
  /\ rounds = {}
  /\ roundSubs = [n \in Rounds |-> NoCall]
  /\ subs = [c \in Calls |-> {}]
  /\ latestRound = 0
  /\ sub = [c \in Calls |-> "empty"]
  /\ mine = [c \in Calls |-> NoCall]
  /\ state = [n \in Rounds |-> "none"]
  /\ final = {}
  /\ target = [c \in Calls |-> Req[c].round]
  /\ pc = [c \in Calls |-> CASE Req[c].kind = "broadcast" -> "start"
                             [] Req[c].kind = "get" -> "get"
                             [] OTHER -> "lock"]
  /\ canceled = {}
  /\ err = [c \in Calls |-> ""]

-----------------------------------------------------------------------------
Goto(c, l) == pc' = [pc EXCEPT ![c] = l] /\ UNCHANGED err

Finish(c, e) == pc' = [pc EXCEPT ![c] = "done"] /\ err' = [err EXCEPT ![c] = e]

\* The subscriptions a step finds for round n in roundSubs.
Subscribed(n) == IF roundSubs[n] = NoCall THEN {} ELSE subs[roundSubs[n]]

\* Send a value to, or close, the channels in round n's map and drop the map.
Answer(n, v) ==
  /\ sub' = [c \in Calls |-> IF c \in Subscribed(n) THEN v ELSE sub[c]]
  /\ roundSubs' = [roundSubs EXCEPT ![n] = NoCall]
  /\ UNCHANGED subs

\* The caller's context is done; only the selects look at it.
CancelContext(c) ==
  /\ c \notin canceled
  /\ pc[c] \in {"finalize", "stopWait", "wait", "stopFinalize"}
  /\ canceled' = canceled \cup {c}
  /\ UNCHANGED <<roundsMu, managerVars, mine, state, final, target, pc, err>>

-----------------------------------------------------------------------------
(* The rounds *)

\* Signatures complete a quorum; the state loop executes them until it stops.
Finalizes(n) ==
  /\ state[n] \in {"open", "closing"} /\ n \notin final
  /\ final' = final \cup {n}
  /\ UNCHANGED <<roundsMu, managerVars, mine, state, target, pc, canceled, err>>

\* The state loop has drained its channel and closes closedCh.
Closes(n) ==
  /\ state[n] = "closing"
  /\ state' = [state EXCEPT ![n] = "closed"]
  /\ UNCHANGED <<roundsMu, managerVars, mine, final, target, pc, canceled, err>>

-----------------------------------------------------------------------------
(* StartRound, StopRound and the Broadcast around them *)

\* Fault: the latest round may be started again.
StartRoundAgain(c) ==
  LET n == Req[c].round IN
  /\ pc[c] = "start" /\ roundsMu = NoCall
  /\ IF latestRound > n
     THEN Finish(c, "elapsed") /\ UNCHANGED <<managerVars, state>>
     ELSE /\ latestRound' = n
          /\ rounds' = rounds \cup {n}
          /\ state' = [state EXCEPT ![n] = "open"]
          /\ Answer(n, "round")
          /\ Goto(c, "publish")
  /\ UNCHANGED <<roundsMu, mine, final, target, canceled>>

\* Fault: the subscriptions are dropped without sending the round.
StartRoundSilent(c) ==
  LET n == Req[c].round IN
  /\ pc[c] = "start" /\ roundsMu = NoCall
  /\ IF latestRound >= n
     THEN Finish(c, "elapsed") /\ UNCHANGED <<managerVars, state>>
     ELSE /\ latestRound' = n
          /\ rounds' = rounds \cup {n}
          /\ state' = [state EXCEPT ![n] = "open"]
          /\ roundSubs' = [roundSubs EXCEPT ![n] = NoCall]
          /\ UNCHANGED <<subs, sub>>
          /\ Goto(c, "publish")
  /\ UNCHANGED <<roundsMu, mine, final, target, canceled>>

\* Fault: the map of the served subscriptions is kept.
StartRoundKeepMap(c) ==
  LET n == Req[c].round IN
  /\ pc[c] = "start" /\ roundsMu = NoCall
  /\ IF latestRound >= n
     THEN Finish(c, "elapsed") /\ UNCHANGED <<managerVars, state>>
     ELSE /\ latestRound' = n
          /\ rounds' = rounds \cup {n}
          /\ state' = [state EXCEPT ![n] = "open"]
          /\ sub' = [d \in Calls |-> IF d \in Subscribed(n) THEN "round" ELSE sub[d]]
          /\ UNCHANGED <<roundSubs, subs>>
          /\ Goto(c, "publish")
  /\ UNCHANGED <<roundsMu, mine, final, target, canceled>>

\* Fault: latestRound names the next round.
StartRoundNext(c) ==
  LET n == Req[c].round IN
  /\ pc[c] = "start" /\ roundsMu = NoCall
  /\ IF latestRound >= n
     THEN Finish(c, "elapsed") /\ UNCHANGED <<managerVars, state>>
     ELSE /\ latestRound' = n + 1
          /\ rounds' = rounds \cup {n}
          /\ state' = [state EXCEPT ![n] = "open"]
          /\ Answer(n, "round")
          /\ Goto(c, "publish")
  /\ UNCHANGED <<roundsMu, mine, final, target, canceled>>

\* StartRound: a number is started at most once; its waiters get the new round.
StartRound(c) ==
  LET n == Req[c].round IN
  /\ pc[c] = "start" /\ roundsMu = NoCall
  /\ IF latestRound >= n
     THEN Finish(c, "elapsed") /\ UNCHANGED <<managerVars, state>>
     ELSE /\ latestRound' = n
          /\ rounds' = rounds \cup {n}
          /\ state' = [state EXCEPT ![n] = "open"]
          /\ Answer(n, "round")
          /\ Goto(c, "publish")
  /\ UNCHANGED <<roundsMu, mine, final, target, canceled>>

\* broadcastGossip publishes the message; on an error Broadcast returns and
\* leaves its round registered.
Publish(c) ==
  /\ pc[c] = "publish"
  /\ Goto(c, "finalize") \/ Finish(c, "publish")
  /\ UNCHANGED <<roundsMu, managerVars, mine, state, final, target, canceled>>

\* Broadcast awaits r.Finalize(ctx).
AwaitFinal(c) ==
  /\ pc[c] = "finalize"
  /\ \/ target[c] \in final /\ Goto(c, "lookup")
     \/ c \in canceled /\ Finish(c, "canceled")
  /\ UNCHANGED <<roundsMu, managerVars, mine, state, final, target, canceled>>

\* StopRound's first critical section.
StopRoundLookup(c) ==
  /\ pc[c] = "lookup" /\ roundsMu = NoCall
  /\ IF target[c] \in rounds THEN Goto(c, "stopRound") ELSE Finish(c, "elapsed")
  /\ UNCHANGED <<roundsMu, managerVars, mine, state, final, target, canceled>>

\* r.Stop up to its second select.
RoundStop(c) ==
  /\ pc[c] = "stopRound"
  /\ IF state[target[c]] = "open"
     THEN state' = [state EXCEPT ![target[c]] = "closing"] /\ Goto(c, "stopWait")
     ELSE Finish(c, "closed") /\ UNCHANGED state
  /\ UNCHANGED <<roundsMu, managerVars, mine, final, target, canceled>>

\* r.Stop's second select.
RoundStopWait(c) ==
  /\ pc[c] = "stopWait"
  /\ \/ state[target[c]] = "closed" /\ Goto(c, "remove")
     \/ c \in canceled /\ Finish(c, "canceled")
  /\ UNCHANGED <<roundsMu, managerVars, mine, state, final, target, canceled>>

\* Fault: the stopped round stays in the map.
StopRoundKeep(c) ==
  /\ pc[c] = "remove" /\ roundsMu = NoCall
  /\ Answer(target[c], "closed")
  /\ IF Req[c].kind = "stop" THEN Goto(c, "next") ELSE Finish(c, "")
  /\ UNCHANGED <<roundsMu, rounds, latestRound, mine, state, final, target, canceled>>

\* StopRound's second critical section; it returns to Broadcast, which is done,
\* or to the loop of Manager.Stop.
StopRoundRemove(c) ==
  /\ pc[c] = "remove" /\ roundsMu = NoCall
  /\ rounds' = rounds \ {target[c]}
  /\ Answer(target[c], "closed")
  /\ IF Req[c].kind = "stop" THEN Goto(c, "next") ELSE Finish(c, "")
  /\ UNCHANGED <<roundsMu, latestRound, mine, state, final, target, canceled>>

-----------------------------------------------------------------------------
(* GetRound *)

\* Fault: a fresh map replaces the one other callers are subscribed in.
GetRoundFreshMap(c) ==
  LET n == Req[c].round IN
  /\ pc[c] = "get" /\ roundsMu = NoCall
  /\ \/ latestRound > n /\ Finish(c, "elapsed") /\ UNCHANGED <<roundSubs, subs, mine>>
     \/ latestRound <= n /\ n \in rounds /\ Finish(c, "") /\ UNCHANGED <<roundSubs, subs, mine>>
     \/ /\ latestRound <= n /\ n \notin rounds
        /\ roundSubs' = [roundSubs EXCEPT ![n] = c]
        /\ subs' = [subs EXCEPT ![c] = @ \cup {c}]
        /\ mine' = [mine EXCEPT ![c] = c]
        /\ Goto(c, "wait")
  /\ UNCHANGED <<roundsMu, rounds, latestRound, sub, state, final, target, canceled>>

\* The critical section of GetRound: fail, return the round, or subscribe.
GetRound(c) ==
  LET n == Req[c].round
      m == IF roundSubs[n] = NoCall THEN c ELSE roundSubs[n]
  IN
  /\ pc[c] = "get" /\ roundsMu = NoCall
  /\ \/ latestRound > n /\ Finish(c, "elapsed") /\ UNCHANGED <<roundSubs, subs, mine>>
     \/ latestRound <= n /\ n \in rounds /\ Finish(c, "") /\ UNCHANGED <<roundSubs, subs, mine>>
     \/ /\ latestRound <= n /\ n \notin rounds
        /\ roundSubs' = [roundSubs EXCEPT ![n] = m]
        /\ subs' = [subs EXCEPT ![m] = @ \cup {c}]
        /\ mine' = [mine EXCEPT ![c] = m]
        /\ Goto(c, "wait")
  /\ UNCHANGED <<roundsMu, rounds, latestRound, sub, state, final, target, canceled>>

\* GetRound's select: the round, a closed channel, or the end of the context.
GetRoundReturn(c) ==
  /\ pc[c] = "wait"
  /\ \/ sub[c] # "empty" /\ Finish(c, IF sub[c] = "round" THEN "" ELSE "elapsed")
     \/ c \in canceled /\ Goto(c, "unsubscribe")
  /\ UNCHANGED <<roundsMu, managerVars, mine, state, final, target, canceled>>

\* The canceled GetRound leaves the map it subscribed in, and when that is empty
\* drops whatever map the round has by now.
Unsubscribe(c) ==
  /\ pc[c] = "unsubscribe" /\ roundsMu = NoCall
  /\ subs' = [subs EXCEPT ![mine[c]] = @ \ {c}]
  /\ roundSubs' = IF subs[mine[c]] \ {c} = {}
                  THEN [roundSubs EXCEPT ![Req[c].round] = NoCall] ELSE roundSubs
  /\ Finish(c, "canceled")
  /\ UNCHANGED <<roundsMu, rounds, latestRound, sub, mine, state, final, target, canceled>>

-----------------------------------------------------------------------------
(* Manager.Stop *)

Lock(c) ==
  /\ pc[c] = "lock" /\ roundsMu = NoCall
  /\ roundsMu' = c
  /\ Goto(c, "next")
  /\ UNCHANGED <<managerVars, mine, state, final, target, canceled>>

\* The loop over rm.rounds; the deferred Unlock when there is none left.
NextRound(c) ==
  /\ pc[c] = "next"
  /\ \/ /\ \E n \in rounds : target' = [target EXCEPT ![c] = n]
        /\ Goto(c, "stopFinalize")
        /\ UNCHANGED roundsMu
     \/ rounds = {} /\ Finish(c, "") /\ roundsMu' = NoCall /\ UNCHANGED target
  /\ UNCHANGED <<managerVars, mine, state, final, canceled>>

\* r.Finalize(ctx), then rm.StopRound, which takes the mutex that is held here.
StopFinalize(c) ==
  /\ pc[c] = "stopFinalize"
  /\ \/ target[c] \in final /\ Goto(c, "lookup") /\ UNCHANGED roundsMu
     \/ c \in canceled /\ Finish(c, "canceled") /\ roundsMu' = NoCall
  /\ UNCHANGED <<managerVars, mine, state, final, target, canceled>>

-----------------------------------------------------------------------------
Step(c) ==
  \/ StartRound(c) \/ Publish(c) \/ AwaitFinal(c)
  \/ StopRoundLookup(c) \/ RoundStop(c) \/ RoundStopWait(c) \/ StopRoundRemove(c)
  \/ GetRound(c) \/ GetRoundReturn(c) \/ Unsubscribe(c)
  \/ Lock(c) \/ NextRound(c) \/ StopFinalize(c)

Next == \/ \E c \in Calls : Step(c) \/ CancelContext(c)
        \/ \E n \in Rounds : Finalizes(n) \/ Closes(n)

Spec == Init /\ [][Next]_vars

\* Goroutines are scheduled fairly and a closing round closes (StopCompletes of
\* Round.tla).  Nothing makes a round final or a context end.
Fairness == /\ \A c \in Calls : WF_vars(Step(c))
            /\ \A n \in Rounds : WF_vars(Closes(n))

FairSpec == Spec /\ Fairness

-----------------------------------------------------------------------------
(* Properties *)

\* GetRound and StartRound: whoever waits for a round that can still start is in
\* the map StartRound will read, whatever maps canceled calls dropped meanwhile.
WaiterRegistered ==
  \A c \in Calls : pc[c] = "wait" /\ Req[c].round > latestRound
                     => c \in Subscribed(Req[c].round)

\* Starting a round serves every GetRound that waits for it.
StartServesWaiters ==
  [][\A c \in Calls :
       (/\ pc[c] = "wait" /\ latestRound < Req[c].round /\ latestRound' = Req[c].round)
       => sub'[c] = "round"]_vars

\* "subs are always buffered, so this won't block": StartRound, which holds the
\* mutex, only sends to channels that have room, and nothing is closed twice.
SendNeverBlocks == \A n \in Rounds : \A c \in Subscribed(n) : sub[c] = "empty"

\* Round.Stop checks closeCh and closes it in two steps, which panics if two
\* calls overlap; the manager's callers never stop one round at the same time.
NoOverlappingStops ==
  \A c, d \in Calls :
    /\ c # d
    /\ pc[c] \in {"stopRound", "stopWait"} /\ pc[d] \in {"stopRound", "stopWait"}
    => target[c] # target[d]

\* A Broadcast that returned nil leaves a final, stopped round behind that is
\* not registered any more and never comes back.
BroadcastLeavesNothing ==
  \A c \in Calls :
    Req[c].kind = "broadcast" /\ pc[c] = "done" /\ err[c] = "" =>
      /\ Req[c].round \in final \ rounds
      /\ state[Req[c].round] = "closed"

\* Manager.Stop performs Finalize and Stop on all rounds and then terminates: if
\* the round it waits for is final, it does not stay there.
ManagerStopTerminates ==
  \A c \in Calls : (pc[c] = "stopFinalize" /\ target[c] \in final) ~> pc[c] = "done"
=============================================================================
