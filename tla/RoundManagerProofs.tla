------------------------- MODULE RoundManagerProofs --------------------------
(***************************************************************************)
(* Proofs about round.Manager, for any number of calls, any requests and   *)
(* any number of rounds.                                                    *)
(***************************************************************************)
EXTENDS RoundManager, TLAPS

-----------------------------------------------------------------------------
(* Types *)

\* The bound on round numbers as a fact of its own, for arithmetic.
LEMMA MaxRoundNat == MaxRound \in Nat
  BY ManagerAssumption

\* NewManager's state and the calls before their first step are well typed.
LEMMA InitTypes == Init => TypeOK
<1> SUFFICES ASSUME Init PROVE TypeOK
  OBVIOUS
<1>0. 0 \in 0..MaxRound
  BY MaxRoundNat
<1> USE ManagerAssumption DEF Init, Request, Rounds
<1>1. pc \in [Calls -> PCs]
  BY DEF PCs
<1>2. target \in [Calls -> 1..MaxRound] /\ latestRound \in 0..MaxRound
  <2>1. \A c \in Calls : Req[c].round \in 1..MaxRound
    OBVIOUS
  <2> QED
    BY <1>0, <2>1
<1> QED
  BY <1>1, <1>2 DEF TypeOK

\* Answer keeps the types of what it changes.
LEMMA AnswerTypes ==
  ASSUME TypeOK, NEW n \in Rounds, NEW v \in {"round", "closed"}, Answer(n, v)
  PROVE  /\ sub' \in [Calls -> {"empty", "round", "closed"}]
         /\ roundSubs' \in [Rounds -> Calls \cup {NoCall}]
         /\ subs' \in [Calls -> SUBSET Calls]
  BY DEF TypeOK, Answer

Errs == {"", "elapsed", "closed", "canceled", "publish"}

\* Goto and Finish keep the types of the control state.
LEMMA ControlTypes ==
  ASSUME TypeOK, NEW c \in Calls,
         (\E l \in PCs : Goto(c, l)) \/ (\E e \in Errs : Finish(c, e))
  PROVE  pc' \in [Calls -> PCs] /\ err' \in [Calls -> Errs]
<1>1. "done" \in PCs /\ pc \in [Calls -> PCs] /\ err \in [Calls -> Errs]
  BY DEF TypeOK, PCs, Errs
<1>2. ASSUME NEW l \in PCs, Goto(c, l)
      PROVE  pc' \in [Calls -> PCs] /\ err' \in [Calls -> Errs]
  BY <1>1, <1>2 DEF Goto
<1>3. ASSUME NEW e \in Errs, Finish(c, e)
      PROVE  pc' \in [Calls -> PCs] /\ err' \in [Calls -> Errs]
  BY <1>1, <1>3 DEF Finish
<1> QED
  BY <1>2, <1>3

\* The numbers a call may ask for.
LEMMA RoundNumbers ==
  ASSUME NEW c \in Calls
  PROVE  Req[c].round \in Rounds /\ Req[c].round \in Nat /\ Req[c].round \in 0..MaxRound
<1>1. Req[c] \in Request
  BY ManagerAssumption
<1>2. Req[c].round \in 1..MaxRound
  BY <1>1 DEF Request, Rounds
<1> QED
  BY <1>2, ManagerAssumption DEF Rounds

\* Each step of a call keeps the types.
LEMMA StepTypes ==
  ASSUME TypeOK, NEW c \in Calls, Step(c) \/ CancelContext(c)
  PROVE  TypeOK'
<1> DEFINE n == Req[c].round
<1>0. n \in Rounds /\ n \in 0..MaxRound /\ target[c] \in Rounds
  BY RoundNumbers DEF TypeOK
<1> HIDE DEF n
<1> USE DEF managerVars, Errs
<1>1. CASE StartRound(c)
  <2>1. CASE latestRound >= n
    BY <1>1, <2>1, ControlTypes DEF StartRound, TypeOK, n
  <2>2. CASE ~(latestRound >= n)
    <3>1. Answer(n, "round") /\ latestRound' = n /\ rounds' = rounds \cup {n}
          /\ state' = [state EXCEPT ![n] = "open"] /\ Goto(c, "publish")
          /\ UNCHANGED <<roundsMu, mine, final, target, canceled>>
      BY <1>1, <2>2 DEF StartRound, n
    <3>2. /\ sub' \in [Calls -> {"empty", "round", "closed"}]
          /\ roundSubs' \in [Rounds -> Calls \cup {NoCall}]
          /\ subs' \in [Calls -> SUBSET Calls]
      BY <1>0, <3>1, AnswerTypes
    <3>3. pc' \in [Calls -> PCs] /\ err' \in [Calls -> Errs]
      BY <3>1, ControlTypes DEF PCs
    <3> QED
      BY <1>0, <3>1, <3>2, <3>3 DEF TypeOK
  <2> QED
    BY <2>1, <2>2
<1>2. CASE \/ Publish(c) \/ AwaitFinal(c) \/ StopRoundLookup(c) \/ RoundStop(c)
           \/ RoundStopWait(c) \/ GetRoundReturn(c)
  <2>1. pc' \in [Calls -> PCs] /\ err' \in [Calls -> Errs]
    BY <1>2, ControlTypes DEF Publish, AwaitFinal, StopRoundLookup, RoundStop, RoundStopWait,
                              GetRoundReturn, PCs
  <2>2. state' \in [Rounds -> {"none", "open", "closing", "closed"}]
        /\ UNCHANGED <<roundsMu, managerVars, mine, final, target, canceled>>
    BY <1>0, <1>2 DEF Publish, AwaitFinal, StopRoundLookup, RoundStop, RoundStopWait,
                      GetRoundReturn, TypeOK
  <2> QED
    BY <2>1, <2>2 DEF TypeOK
<1>3. CASE StopRoundRemove(c)
  <2>1. /\ sub' \in [Calls -> {"empty", "round", "closed"}]
        /\ roundSubs' \in [Rounds -> Calls \cup {NoCall}]
        /\ subs' \in [Calls -> SUBSET Calls]
    BY <1>0, <1>3, AnswerTypes DEF StopRoundRemove
  <2>2. pc' \in [Calls -> PCs] /\ err' \in [Calls -> Errs]
    BY <1>3, ControlTypes DEF StopRoundRemove, PCs
  <2> QED
    BY <1>3, <2>1, <2>2 DEF StopRoundRemove, TypeOK
<1>4. CASE GetRound(c)
  <2> DEFINE m == IF roundSubs[n] = NoCall THEN c ELSE roundSubs[n]
  <2>1. m \in Calls
    BY <1>0 DEF TypeOK
  <2>2. /\ \/ UNCHANGED <<roundSubs, subs, mine>>
           \/ /\ roundSubs' = [roundSubs EXCEPT ![n] = m]
              /\ subs' = [subs EXCEPT ![m] = @ \cup {c}]
              /\ mine' = [mine EXCEPT ![c] = m]
        /\ Finish(c, "elapsed") \/ Finish(c, "") \/ Goto(c, "wait")
        /\ UNCHANGED <<roundsMu, rounds, latestRound, sub, state, final, target, canceled>>
    BY <1>4 DEF GetRound, n
  <2> HIDE DEF m
  <2>3. /\ roundSubs' \in [Rounds -> Calls \cup {NoCall}]
        /\ subs' \in [Calls -> SUBSET Calls]
        /\ mine' \in [Calls -> Calls \cup {NoCall}]
    <3>1. CASE UNCHANGED <<roundSubs, subs, mine>>
      BY <3>1 DEF TypeOK
    <3>2. CASE /\ roundSubs' = [roundSubs EXCEPT ![n] = m]
               /\ subs' = [subs EXCEPT ![m] = @ \cup {c}]
               /\ mine' = [mine EXCEPT ![c] = m]
      BY <1>0, <2>1, <3>2 DEF TypeOK
    <3> QED
      BY <2>2, <3>1, <3>2
  <2>4. pc' \in [Calls -> PCs] /\ err' \in [Calls -> Errs]
    BY <2>2, ControlTypes DEF PCs
  <2> QED
    BY <2>2, <2>3, <2>4 DEF TypeOK
<1>5. CASE Unsubscribe(c)
  <2>1. subs' \in [Calls -> SUBSET Calls]
    BY <1>5 DEF Unsubscribe, TypeOK
  <2>2. roundSubs' \in [Rounds -> Calls \cup {NoCall}]
    BY <1>0, <1>5 DEF Unsubscribe, TypeOK
  <2>3. pc' \in [Calls -> PCs] /\ err' \in [Calls -> Errs]
    BY <1>5, ControlTypes DEF Unsubscribe
  <2> QED
    BY <1>5, <2>1, <2>2, <2>3 DEF Unsubscribe, TypeOK
<1>6. CASE Lock(c) \/ NextRound(c) \/ StopFinalize(c)
  <2>1. pc' \in [Calls -> PCs] /\ err' \in [Calls -> Errs]
    BY <1>6, ControlTypes DEF Lock, NextRound, StopFinalize, PCs
  <2>2. target' \in [Calls -> Rounds] /\ roundsMu' \in Calls \cup {NoCall}
    BY <1>6 DEF Lock, NextRound, StopFinalize, TypeOK
  <2> QED
    BY <1>6, <2>1, <2>2 DEF Lock, NextRound, StopFinalize, TypeOK
<1>7. CASE CancelContext(c)
  BY <1>7 DEF CancelContext, TypeOK
<1> QED
  BY <1>1, <1>2, <1>3, <1>4, <1>5, <1>6, <1>7 DEF Step

\* Each step of the system keeps the types.
LEMMA NextTypes == TypeOK /\ [Next]_vars => TypeOK'
<1> SUFFICES ASSUME TypeOK, [Next]_vars PROVE TypeOK'
  OBVIOUS
<1>1. CASE UNCHANGED vars
  BY <1>1 DEF vars, managerVars, TypeOK
<1>2. CASE \E n \in Rounds : Finalizes(n) \/ Closes(n)
  BY <1>2 DEF Finalizes, Closes, managerVars, TypeOK
<1> QED
  BY <1>1, <1>2, StepTypes DEF Next

\* latestRound never leaves the rounds, and no map or channel is of anything but
\* a call.
THEOREM TypeCorrect == Spec => []TypeOK
  BY InitTypes, NextTypes, PTL DEF Spec

-----------------------------------------------------------------------------
(* The inductive invariant *)

\* Broadcast has started its round and has not returned.
Active(c) == pc[c] \in {"publish", "finalize", "lookup", "stopRound", "stopWait", "remove"}

\* Where a call of each kind can be.  A round is started once, so that the rounds
\* of Broadcasts are at most latestRound; Manager.Stop never gets past lookup,
\* which needs the mutex it holds.
Control ==
  \A c \in Calls :
    /\ Req[c].kind = "broadcast" =>
         /\ Active(c) \/ pc[c] \in {"start", "done"}
         /\ target[c] = Req[c].round
         /\ pc[c] # "start" => Req[c].round <= latestRound
    /\ Req[c].kind = "get" => pc[c] \in {"get", "wait", "unsubscribe", "done"}
    /\ Req[c].kind = "stop" =>
         /\ pc[c] \in {"lock", "next", "stopFinalize", "lookup", "done"}
         /\ pc[c] \in {"next", "stopFinalize", "lookup"} => roundsMu = c

\* A round has one active Broadcast.
OneBroadcast ==
  \A c, d \in Calls : c # d /\ Req[c].kind = "broadcast" /\ Req[d].kind = "broadcast"
                      /\ Active(c) /\ Active(d) => Req[c].round # Req[d].round

\* Whoever waits for a round still to come, or is about to leave, shares the map
\* that roundSubs has for the round.
Waiters ==
  \A c \in Calls :
    pc[c] \in {"wait", "unsubscribe"} /\ Req[c].round > latestRound =>
      /\ mine[c] \in Calls
      /\ roundSubs[Req[c].round] = mine[c]
      /\ c \in subs[mine[c]]

\* A map holds channels of GetRounds of one round, is made empty, and is in
\* roundSubs under that round only.
Maps ==
  /\ \A c \in Calls : pc[c] = "get" => subs[c] = {} /\ sub[c] = "empty"
  /\ \A m \in Calls : \A c \in subs[m] : Req[m].round = Req[c].round /\ pc[c] # "get"
  /\ \A n \in Rounds : roundSubs[n] # NoCall =>
       Req[roundSubs[n]].round = n /\ pc[roundSubs[n]] # "get"

\* How far a Broadcast's round is.
Progress ==
  \A c \in Calls :
    Req[c].kind = "broadcast" =>
      /\ pc[c] \in {"lookup", "stopRound", "stopWait", "remove"} => Req[c].round \in final
      /\ pc[c] = "remove" => state[Req[c].round] = "closed"

ManagerInv == /\ TypeOK
              /\ Control /\ OneBroadcast /\ Waiters
              /\ Maps /\ SendNeverBlocks
              /\ Progress /\ BroadcastLeavesNothing

\* latestRound as a number, for arithmetic.
LEMMA LatestNat == TypeOK => latestRound \in Nat
<1>1. TypeOK => latestRound \in 0..MaxRound
  BY DEF TypeOK
<1> QED
  BY <1>1, MaxRoundNat

\* What a step of c leaves alone of the other calls.
LEMMA OthersStay ==
  ASSUME TypeOK, NEW c \in Calls, Step(c) \/ CancelContext(c), NEW d \in Calls, d # c
  PROVE  /\ pc'[d] = pc[d] /\ err'[d] = err[d]
         /\ target'[d] = target[d] /\ mine'[d] = mine[d]
<1>0. /\ pc \in [Calls -> PCs] /\ err \in [Calls -> Errs]
      /\ target \in [Calls -> Rounds] /\ mine \in [Calls -> Calls \cup {NoCall}]
  BY DEF TypeOK, Errs
<1>1. pc'[d] = pc[d] /\ err'[d] = err[d]
  <2>1. \/ UNCHANGED <<pc, err>>
        \/ \E l \in {pc'[c]} : Goto(c, l)
        \/ \E e \in Errs : Finish(c, e)
    BY <1>0 DEF Step, StartRound, Publish, AwaitFinal, StopRoundLookup, RoundStop,
         RoundStopWait, StopRoundRemove, GetRound, GetRoundReturn, Unsubscribe, Lock, NextRound,
         StopFinalize, CancelContext, Errs, Goto
  <2> QED
    BY <1>0, <2>1 DEF Goto, Finish
<1>2. target'[d] = target[d]
  BY <1>0 DEF Step, StartRound, Publish, AwaitFinal, StopRoundLookup, RoundStop,
       RoundStopWait, StopRoundRemove, GetRound, GetRoundReturn, Unsubscribe, Lock, NextRound,
       StopFinalize, CancelContext
<1>3. mine'[d] = mine[d]
  BY <1>0 DEF Step, StartRound, Publish, AwaitFinal, StopRoundLookup, RoundStop,
       RoundStopWait, StopRoundRemove, GetRound, GetRoundReturn, Unsubscribe, Lock, NextRound,
       StopFinalize, CancelContext
<1> QED
  BY <1>1, <1>2, <1>3

\* Only StartRound changes latestRound, and it never goes back.
LEMMA LatestGrows ==
  ASSUME TypeOK, NEW c \in Calls, Step(c) \/ CancelContext(c)
  PROVE  /\ latestRound \in Nat /\ latestRound' \in Nat /\ latestRound' >= latestRound
         /\ ~StartRound(c) => latestRound' = latestRound
         /\ final' = final
<1>0. latestRound \in Nat /\ Req[c].round \in Nat
  BY LatestNat, RoundNumbers
<1>1. CASE StartRound(c)
  BY <1>0, <1>1 DEF StartRound, managerVars
<1>2. CASE ~StartRound(c)
  <2>1. latestRound' = latestRound /\ final' = final
    BY <1>2 DEF Step, Publish, AwaitFinal, StopRoundLookup, RoundStop,
         RoundStopWait, StopRoundRemove, GetRound, GetRoundReturn, Unsubscribe, Lock, NextRound,
         StopFinalize, CancelContext, managerVars
  <2> QED
    BY <1>0, <1>2, <2>1
<1> QED
  BY <1>1, <1>2

\* Calls stay on the path of their kind, and the mutex stays with Manager.Stop.
LEMMA ControlStep ==
  ASSUME TypeOK, Control, NEW c \in Calls, Step(c) \/ CancelContext(c)
  PROVE  Control'
<1>0. /\ Req[c].kind \in {"broadcast", "get", "stop"} /\ Req[c].round \in Nat
      /\ NoCall \notin Calls
  BY RoundNumbers, ManagerAssumption DEF Request
<1>1. /\ pc \in [Calls -> PCs] /\ target \in [Calls -> Rounds] /\ roundsMu \in Calls \cup {NoCall}
  BY DEF TypeOK
<1>2. ASSUME NEW d \in Calls, d # c
      PROVE  /\ Req[d].kind = "broadcast" =>
                  /\ Active(d)' \/ pc'[d] \in {"start", "done"}
                  /\ target'[d] = Req[d].round
                  /\ pc'[d] # "start" => Req[d].round <= latestRound'
             /\ Req[d].kind = "get" => pc'[d] \in {"get", "wait", "unsubscribe", "done"}
             /\ Req[d].kind = "stop" => pc'[d] \in {"lock", "next", "stopFinalize", "lookup", "done"}
  BY <1>2, OthersStay, LatestGrows, RoundNumbers DEF Control, Active
<1>3. ASSUME NEW d \in Calls, d # c, roundsMu = d
      PROVE  roundsMu' = d
  <2>1. pc[c] # "next" /\ pc[c] # "stopFinalize"
    BY <1>0, <1>2, <1>3 DEF Control, Active
  <2> QED
    BY <1>0, <1>3, <2>1 DEF Step, StartRound, Publish, AwaitFinal, StopRoundLookup, RoundStop,
         RoundStopWait, StopRoundRemove, GetRound, GetRoundReturn, Unsubscribe, Lock, NextRound,
         StopFinalize, CancelContext
<1>4. ASSUME Req[c].kind = "broadcast"
      PROVE  /\ Active(c)' \/ pc'[c] \in {"start", "done"}
             /\ target'[c] = Req[c].round
             /\ pc'[c] # "start" => Req[c].round <= latestRound'
  <2>1. /\ Active(c) \/ pc[c] \in {"start", "done"}
        /\ target[c] = Req[c].round
        /\ pc[c] # "start" => Req[c].round <= latestRound
    BY <1>4 DEF Control
  <2>2. latestRound' >= latestRound /\ latestRound \in Nat /\ latestRound' \in Nat
    BY LatestGrows
  <2> USE <1>0, <1>1, <1>4, <2>1, <2>2 DEF Active, Goto, Finish, managerVars
  <2>3. CASE StartRound(c)
    BY <2>3 DEF StartRound
  <2>4. CASE Publish(c) \/ AwaitFinal(c) \/ StopRoundLookup(c)
    BY <2>4 DEF Publish, AwaitFinal, StopRoundLookup
  <2>5. CASE RoundStop(c) \/ RoundStopWait(c) \/ StopRoundRemove(c)
    BY <2>5 DEF RoundStop, RoundStopWait, StopRoundRemove
  <2>6. CASE GetRound(c) \/ GetRoundReturn(c) \/ Unsubscribe(c)
    BY <2>6 DEF GetRound, GetRoundReturn, Unsubscribe
  <2>7. CASE Lock(c) \/ NextRound(c) \/ StopFinalize(c)
    BY <2>7 DEF Lock, NextRound, StopFinalize
  <2>8. CASE CancelContext(c)
    BY <2>8 DEF CancelContext
  <2> QED
    BY <2>3, <2>4, <2>5, <2>6, <2>7, <2>8 DEF Step
<1>5. ASSUME Req[c].kind = "get"
      PROVE  pc'[c] \in {"get", "wait", "unsubscribe", "done"}
  <2>1. pc[c] \in {"get", "wait", "unsubscribe", "done"}
    BY <1>5 DEF Control
  <2> QED
    BY <1>1, <2>1 DEF Step, StartRound, Publish, AwaitFinal, StopRoundLookup, RoundStop,
         RoundStopWait, StopRoundRemove, GetRound, GetRoundReturn, Unsubscribe, Lock, NextRound,
         StopFinalize, CancelContext, Goto, Finish
<1>6. ASSUME Req[c].kind = "stop"
      PROVE  /\ pc'[c] \in {"lock", "next", "stopFinalize", "lookup", "done"}
             /\ pc'[c] \in {"next", "stopFinalize", "lookup"} => roundsMu' = c
  <2>1. /\ pc[c] \in {"lock", "next", "stopFinalize", "lookup", "done"}
        /\ pc[c] \in {"next", "stopFinalize", "lookup"} => roundsMu = c
    BY <1>6 DEF Control
  <2>2. Lock(c) \/ NextRound(c) \/ StopFinalize(c) \/ CancelContext(c)
    BY <1>0, <2>1 DEF Step, StartRound, Publish, AwaitFinal, StopRoundLookup, RoundStop,
         RoundStopWait, StopRoundRemove, GetRound, GetRoundReturn, Unsubscribe
  <2> QED
    BY <1>1, <2>1, <2>2 DEF Lock, NextRound, StopFinalize, CancelContext, Goto, Finish
<1> QED
  BY <1>2, <1>3, <1>4, <1>5, <1>6, OthersStay DEF Control

\* StartRound admits one Broadcast per round: it starts only rounds above latestRound.
LEMMA OneBroadcastStep ==
  ASSUME TypeOK, Control, OneBroadcast, NEW c \in Calls, Step(c) \/ CancelContext(c)
  PROVE  OneBroadcast'
<1>0. pc \in [Calls -> PCs] /\ Req[c].round \in Nat /\ latestRound \in Nat
  BY LatestNat, RoundNumbers DEF TypeOK
<1>1. ASSUME Req[c].kind = "broadcast", Active(c)'
      PROVE  Active(c) \/ (Req[c].round > latestRound)
  <2>1. CASE StartRound(c)
    BY <1>0, <1>1, <2>1 DEF StartRound, Active, Goto, Finish
  <2>2. CASE ~StartRound(c)
    BY <1>0, <1>1, <2>2 DEF Control, Active, Step, Publish, AwaitFinal, StopRoundLookup, RoundStop,
         RoundStopWait, StopRoundRemove, GetRound, GetRoundReturn, Unsubscribe, Lock, NextRound,
         StopFinalize, CancelContext, Goto, Finish
  <2> QED
    BY <2>1, <2>2
<1>2. ASSUME NEW d \in Calls, d # c, Req[d].kind = "broadcast", Active(d)',
             Req[c].kind = "broadcast", Active(c)'
      PROVE  Req[c].round # Req[d].round
  <2>1. Active(d) /\ Req[d].round <= latestRound /\ Req[d].round \in Nat
    BY <1>2, OthersStay, LatestGrows, RoundNumbers DEF Control, Active
  <2> QED
    BY <1>0, <1>1, <1>2, <2>1 DEF OneBroadcast
<1>3. ASSUME NEW d \in Calls, NEW e \in Calls, d # e, d # c, e # c,
             Req[d].kind = "broadcast", Req[e].kind = "broadcast", Active(d)', Active(e)'
      PROVE  Req[d].round # Req[e].round
  BY <1>3, OthersStay DEF Active, OneBroadcast
<1> QED
  BY <1>2, <1>3 DEF OneBroadcast

\* The steps that touch neither the maps nor the channels nor latestRound.
MapsStay(c) == ~(StartRound(c) \/ StopRoundRemove(c) \/ GetRound(c) \/ Unsubscribe(c))

\* What those steps leave of the subscriptions.
LEMMA MapsUntouched ==
  ASSUME TypeOK, NEW c \in Calls, Step(c) \/ CancelContext(c), MapsStay(c)
  PROVE  /\ UNCHANGED <<roundSubs, subs, sub, mine, latestRound, rounds>>
         /\ pc'[c] \in {"wait", "unsubscribe"} => pc[c] = "wait"
         /\ pc'[c] # "get"
         /\ pc' \in [Calls -> PCs]
<1>0. pc \in [Calls -> PCs]
  BY DEF TypeOK
<1>1. UNCHANGED <<roundSubs, subs, sub, mine, latestRound, rounds>>
  BY DEF MapsStay, Step, Publish, AwaitFinal, StopRoundLookup, RoundStop, RoundStopWait,
         GetRoundReturn, Lock, NextRound, StopFinalize, CancelContext, managerVars
<1>2. (pc'[c] \in {"wait", "unsubscribe"} => pc[c] = "wait") /\ pc'[c] # "get"
  BY <1>0 DEF MapsStay, Step, Publish, AwaitFinal, StopRoundLookup, RoundStop, RoundStopWait,
         GetRoundReturn, Lock, NextRound, StopFinalize, CancelContext, Goto, Finish
<1>3. pc' \in [Calls -> PCs]
  BY StepTypes DEF TypeOK
<1> QED
  BY <1>1, <1>2, <1>3

\* A canceled GetRound may drop the round's map only when nobody else is in it:
\* for a round still to come the map it left is the map roundSubs has.
LEMMA WaitersStep ==
  ASSUME TypeOK, Control, Waiters, NEW c \in Calls, Step(c) \/ CancelContext(c)
  PROVE  Waiters'
<1> SUFFICES ASSUME NEW d \in Calls, pc'[d] \in {"wait", "unsubscribe"},
                    Req[d].round > latestRound'
             PROVE  /\ mine'[d] \in Calls
                    /\ roundSubs'[Req[d].round] = mine'[d]
                    /\ d \in subs'[mine'[d]]
  BY DEF Waiters
<1>0. /\ pc \in [Calls -> PCs] /\ roundSubs \in [Rounds -> Calls \cup {NoCall}]
      /\ subs \in [Calls -> SUBSET Calls] /\ mine \in [Calls -> Calls \cup {NoCall}]
      /\ Req[c].round \in Rounds /\ Req[d].round \in Rounds
  BY RoundNumbers DEF TypeOK
<1>1. Req[d].round > latestRound /\ Req[d].round \in Nat
  BY LatestGrows, RoundNumbers
<1>2. ASSUME pc[d] \in {"wait", "unsubscribe"}
      PROVE  /\ mine[d] \in Calls
             /\ roundSubs[Req[d].round] = mine[d]
             /\ d \in subs[mine[d]]
  BY <1>1, <1>2 DEF Waiters
<1>3. d # c => pc[d] \in {"wait", "unsubscribe"} /\ mine'[d] = mine[d]
  BY OthersStay
<1>4. CASE StartRound(c)
  <2>1. d # c
    BY <1>0, <1>4 DEF StartRound, Goto, Finish
  <2>2. \/ UNCHANGED <<roundSubs, subs>>
        \/ /\ latestRound' = Req[c].round /\ subs' = subs
           /\ roundSubs' = [roundSubs EXCEPT ![Req[c].round] = NoCall]
    BY <1>4 DEF StartRound, Answer, managerVars
  <2>3. latestRound' = Req[c].round => Req[d].round # Req[c].round
    BY <1>1, LatestGrows
  <2> QED
    BY <1>0, <1>2, <1>3, <2>1, <2>2, <2>3
<1>5. CASE StopRoundRemove(c)
  <2>1. Req[c].kind = "broadcast" /\ target[c] = Req[c].round /\ Req[c].round <= latestRound
    <3>1. pc[c] = "remove" /\ Req[c].kind \in {"broadcast", "get", "stop"}
      BY <1>5, ManagerAssumption DEF StopRoundRemove, Request
    <3> QED
      BY <3>1 DEF Control
  <2>2. d # c
    BY <1>0, <1>5 DEF StopRoundRemove, Goto, Finish
  <2>3. subs' = subs /\ roundSubs' = [roundSubs EXCEPT ![Req[c].round] = NoCall]
    BY <1>5, <2>1 DEF StopRoundRemove, Answer
  <2>4. Req[d].round # Req[c].round
    BY <1>1, <2>1, LatestGrows
  <2> QED
    BY <1>0, <1>2, <1>3, <2>2, <2>3, <2>4
<1>6. CASE GetRound(c)
  <2> DEFINE n == Req[c].round
             m == IF roundSubs[n] = NoCall THEN c ELSE roundSubs[n]
  <2>1. m \in Calls
    BY <1>0
  <2>2. CASE /\ roundSubs' = [roundSubs EXCEPT ![n] = m]
             /\ subs' = [subs EXCEPT ![m] = @ \cup {c}]
             /\ mine' = [mine EXCEPT ![c] = m]
    <3>1. CASE d = c
      <4> HIDE DEF m
      <4> QED
        BY <1>0, <2>1, <2>2, <3>1
    <3>2. CASE d # c
      <4>1. Req[d].round = n => m = mine[d]
        BY <1>2, <1>3, <3>2, ManagerAssumption
      <4> HIDE DEF m, n
      <4>2. n \in Rounds
        BY <1>0 DEF n
      <4>3. roundSubs'[Req[d].round] = mine[d]
        BY <1>0, <1>2, <1>3, <2>2, <3>2, <4>1, <4>2
      <4>4. d \in subs'[mine[d]]
        BY <1>0, <1>2, <1>3, <2>1, <2>2, <3>2
      <4> QED
        BY <1>2, <1>3, <3>2, <4>3, <4>4
    <3> QED
      BY <3>1, <3>2
  <2>3. CASE UNCHANGED <<roundSubs, subs, mine>> /\ pc'[c] = "done"
    BY <1>2, <1>3, <2>3
  <2> QED
    BY <1>0, <1>6, <2>2, <2>3 DEF GetRound, Finish
<1>7. CASE Unsubscribe(c)
  <2>1. d # c
    BY <1>0, <1>7 DEF Unsubscribe, Finish
  <2>2. d \in subs'[mine[d]]
    BY <1>0, <1>2, <1>3, <1>7, <2>1 DEF Unsubscribe
  <2>3. roundSubs'[Req[d].round] = mine[d]
    <3>1. CASE Req[d].round # Req[c].round
      BY <1>0, <1>2, <1>3, <1>7, <2>1, <3>1 DEF Unsubscribe
    <3>2. CASE Req[d].round = Req[c].round
      <4>1. mine[c] = mine[d]
        BY <1>1, <1>2, <1>3, <1>7, <2>1, <3>2 DEF Unsubscribe, Waiters
      <4>2. subs[mine[c]] \ {c} # {}
        BY <1>2, <1>3, <2>1, <4>1
      <4> QED
        BY <1>2, <1>3, <1>7, <2>1, <4>2 DEF Unsubscribe
    <3> QED
      BY <3>1, <3>2
  <2> QED
    BY <1>2, <1>3, <2>1, <2>2, <2>3
<1>8. CASE MapsStay(c)
  BY <1>2, <1>3, <1>8, MapsUntouched
<1> QED
  BY <1>4, <1>5, <1>6, <1>7, <1>8 DEF MapsStay

\* No call comes back to the beginning of GetRound.
LEMMA NeverBackToGet ==
  ASSUME TypeOK, NEW c \in Calls, Step(c) \/ CancelContext(c), NEW d \in Calls, pc'[d] = "get"
  PROVE  pc[d] = "get" /\ d # c
<1>0. pc \in [Calls -> PCs]
  BY DEF TypeOK
<1>1. pc'[c] # "get"
  BY <1>0 DEF Step, StartRound, Publish, AwaitFinal, StopRoundLookup, RoundStop,
       RoundStopWait, StopRoundRemove, GetRound, GetRoundReturn, Unsubscribe, Lock, NextRound,
       StopFinalize, CancelContext, Goto, Finish
<1> QED
  BY <1>1, OthersStay

\* Answering the channels in round n's map leaves only empty channels in the
\* other maps, since these are of other rounds.
LEMMA AnswerMaps ==
  ASSUME TypeOK, Maps, SendNeverBlocks, NEW n \in Rounds, NEW v, Answer(n, v),
         \A d \in Calls : pc'[d] = "get" => pc[d] = "get"
  PROVE  Maps' /\ SendNeverBlocks'
<1>0. /\ roundSubs \in [Rounds -> Calls \cup {NoCall}] /\ subs \in [Calls -> SUBSET Calls]
      /\ subs' = subs /\ roundSubs' = [roundSubs EXCEPT ![n] = NoCall]
      /\ \A d \in Calls : sub'[d] = IF d \in Subscribed(n) THEN v ELSE sub[d]
  BY DEF TypeOK, Answer
<1>1. \A k \in Rounds : roundSubs'[k] # NoCall => k # n /\ roundSubs'[k] = roundSubs[k]
  BY <1>0
<1>2. \A k \in Rounds : \A d \in Subscribed(k) : d \in Calls /\ Req[d].round = k /\ pc[d] # "get"
  BY <1>0 DEF Subscribed, Maps
<1>3. ASSUME NEW d \in Calls, pc'[d] = "get"
      PROVE  subs'[d] = {} /\ sub'[d] = "empty"
  BY <1>0, <1>2, <1>3 DEF Maps
<1>4. ASSUME NEW k \in Rounds, NEW d \in Subscribed(k)'
      PROVE  sub'[d] = "empty"
  <2>1. k # n /\ d \in Subscribed(k)
    BY <1>0, <1>1, <1>4 DEF Subscribed
  <2>2. d \notin Subscribed(n) /\ d \in Calls
    BY <1>2, <2>1
  <2> QED
    BY <1>0, <2>1, <2>2 DEF SendNeverBlocks
<1>5. \A m \in Calls : \A d \in subs'[m] : Req[m].round = Req[d].round /\ pc'[d] # "get"
  BY <1>0 DEF Maps
<1>6. \A k \in Rounds : roundSubs'[k] # NoCall =>
         Req[roundSubs'[k]].round = k /\ pc'[roundSubs'[k]] # "get"
  BY <1>0, <1>1 DEF Maps
<1> QED
  BY <1>3, <1>4, <1>5, <1>6 DEF Maps, SendNeverBlocks

\* Every step keeps the maps apart by round and their channels empty.
LEMMA MapsStep ==
  ASSUME TypeOK, Maps, SendNeverBlocks, NEW c \in Calls, Step(c) \/ CancelContext(c)
  PROVE  Maps' /\ SendNeverBlocks'
<1>0. /\ roundSubs \in [Rounds -> Calls \cup {NoCall}] /\ subs \in [Calls -> SUBSET Calls]
      /\ Req[c].round \in Rounds /\ target[c] \in Rounds
  BY RoundNumbers DEF TypeOK
<1>1. \A d \in Calls : pc'[d] = "get" => pc[d] = "get" /\ d # c
  BY NeverBackToGet
<1>2. CASE UNCHANGED <<roundSubs, subs, sub>>
  <2>1. Maps'
    BY <1>0, <1>1, <1>2 DEF Maps
  <2> QED
    BY <1>2, <2>1 DEF SendNeverBlocks, Subscribed
<1>3. CASE StartRound(c)
  <2>1. UNCHANGED <<roundSubs, subs, sub>> \/ Answer(Req[c].round, "round")
    BY <1>3 DEF StartRound, managerVars
  <2> QED
    BY <1>0, <1>1, <1>2, <2>1, AnswerMaps
<1>4. CASE StopRoundRemove(c)
  BY <1>0, <1>1, <1>4, AnswerMaps DEF StopRoundRemove
<1>5. CASE GetRound(c) /\ ~UNCHANGED <<roundSubs, subs, sub>>
  <2> DEFINE n == Req[c].round
             m == IF roundSubs[n] = NoCall THEN c ELSE roundSubs[n]
  <2>1. /\ roundSubs' = [roundSubs EXCEPT ![n] = m]
        /\ subs' = [subs EXCEPT ![m] = @ \cup {c}]
        /\ sub' = sub /\ pc[c] = "get"
    BY <1>5 DEF GetRound
  <2>2. m \in Calls /\ Req[m].round = n /\ (m = c \/ pc[m] # "get") /\ n \in Rounds
    BY <1>0, <2>1 DEF Maps
  <2>3. subs[c] = {} /\ sub[c] = "empty"
    BY <2>1 DEF Maps
  <2>4. \A d \in subs[m] : sub[d] = "empty"
    <3>1. CASE roundSubs[n] = NoCall
      BY <2>3, <3>1
    <3>2. CASE roundSubs[n] # NoCall
      BY <2>2, <3>2 DEF SendNeverBlocks, Subscribed
    <3> QED
      BY <3>1, <3>2
  <2>5. n = Req[c].round
    OBVIOUS
  <2> HIDE DEF n, m
  <2>6. ASSUME NEW d \in Calls, pc'[d] = "get"
        PROVE  subs'[d] = {} /\ sub'[d] = "empty"
    <3>1. pc[d] = "get" /\ d # c /\ d # m
      BY <1>1, <2>2, <2>6
    <3> QED
      BY <1>0, <2>1, <2>2, <3>1 DEF Maps
  <2>7. ASSUME NEW x \in Calls, NEW d \in subs'[x]
        PROVE  Req[x].round = Req[d].round /\ pc'[d] # "get"
    <3>1. d \in subs[x] \/ (x = m /\ d = c)
      BY <1>0, <2>1, <2>2
    <3> QED
      BY <1>0, <1>1, <2>2, <2>5, <3>1 DEF Maps
  <2>8. ASSUME NEW k \in Rounds, roundSubs'[k] # NoCall
        PROVE  Req[roundSubs'[k]].round = k /\ pc'[roundSubs'[k]] # "get"
    <3>1. roundSubs'[k] = IF k = n THEN m ELSE roundSubs[k]
      BY <1>0, <2>1, <2>2
    <3> QED
      BY <1>0, <1>1, <2>2, <2>8, <3>1 DEF Maps
  <2>9. ASSUME NEW k \in Rounds, NEW d \in Subscribed(k)'
        PROVE  sub'[d] = "empty"
    <3>1. CASE k = n
      <4>1. d \in subs[m] \cup {c}
        BY <1>0, <2>1, <2>2, <2>9, <3>1 DEF Subscribed
      <4> QED
        BY <2>1, <2>3, <2>4, <4>1
    <3>2. CASE k # n
      <4>1. roundSubs'[k] = roundSubs[k] /\ roundSubs[k] # NoCall /\ roundSubs[k] \in Calls
        BY <1>0, <2>1, <2>2, <2>9, <3>2 DEF Subscribed
      <4>2. roundSubs[k] # m
        BY <2>2, <3>2, <4>1 DEF Maps
      <4>3. d \in Subscribed(k)
        BY <1>0, <2>1, <2>2, <2>9, <4>1, <4>2 DEF Subscribed
      <4> QED
        BY <2>1, <4>3 DEF SendNeverBlocks
    <3> QED
      BY <3>1, <3>2
  <2> QED
    BY <2>6, <2>7, <2>8, <2>9 DEF Maps, SendNeverBlocks
<1>6. CASE Unsubscribe(c)
  <2>1. /\ \A m \in Calls : subs'[m] \subseteq subs[m]
        /\ \A n \in Rounds : roundSubs'[n] \in {NoCall, roundSubs[n]}
        /\ sub' = sub
    BY <1>0, <1>6 DEF Unsubscribe
  <2>2. \A n \in Rounds : Subscribed(n)' \subseteq Subscribed(n)
    BY <1>0, <2>1 DEF Subscribed
  <2>3. Maps'
    BY <1>0, <1>1, <2>1 DEF Maps
  <2> QED
    BY <2>1, <2>2, <2>3 DEF SendNeverBlocks
<1>7. CASE MapsStay(c)
  BY <1>2, <1>7, MapsUntouched
<1> QED
  BY <1>2, <1>3, <1>4, <1>5, <1>6, <1>7 DEF MapsStay

\* The round of a Broadcast that returned nil stays final, closed and removed,
\* since StartRound only starts rounds above latestRound.
LEMMA ProgressStep ==
  ASSUME TypeOK, Control, Progress, BroadcastLeavesNothing,
         NEW c \in Calls, Step(c) \/ CancelContext(c)
  PROVE  Progress' /\ BroadcastLeavesNothing'
<1>0. /\ pc \in [Calls -> PCs] /\ err \in [Calls -> Errs]
      /\ state \in [Rounds -> {"none", "open", "closing", "closed"}]
      /\ Req[c].round \in Rounds /\ target[c] \in Rounds
  BY RoundNumbers DEF TypeOK, Errs
\* What is closed stays closed and what is removed stays removed.
<1>1. ASSUME NEW n \in Rounds, n <= latestRound
      PROVE  (state[n] = "closed" => state'[n] = "closed") /\ (n \notin rounds => n \notin rounds')
  <2>1. CASE StartRound(c)
    <3>1. \/ UNCHANGED <<state, rounds>>
          \/ /\ ~(latestRound >= Req[c].round)
             /\ state' = [state EXCEPT ![Req[c].round] = "open"]
             /\ rounds' = rounds \cup {Req[c].round}
      BY <2>1 DEF StartRound, managerVars
    <3>2. ~(latestRound >= Req[c].round) => n # Req[c].round
      BY <1>1, LatestNat, RoundNumbers
    <3> QED
      BY <1>0, <3>1, <3>2
  <2>2. CASE RoundStop(c)
    BY <1>0, <2>2 DEF RoundStop, managerVars
  <2>3. CASE ~StartRound(c) /\ ~RoundStop(c)
    BY <2>3 DEF Step, Publish, AwaitFinal, StopRoundLookup,
         RoundStopWait, StopRoundRemove, GetRound, GetRoundReturn, Unsubscribe, Lock, NextRound,
         StopFinalize, CancelContext, managerVars
  <2> QED
    BY <2>1, <2>2, <2>3
<1>2. ASSUME NEW d \in Calls, d # c, Req[d].kind = "broadcast"
      PROVE  /\ pc'[d] \in {"lookup", "stopRound", "stopWait", "remove"} => Req[d].round \in final'
             /\ pc'[d] = "remove" => state'[Req[d].round] = "closed"
             /\ pc'[d] = "done" /\ err'[d] = "" => Req[d].round \in final' \ rounds'
                                                  /\ state'[Req[d].round] = "closed"
  <2>1. pc'[d] = pc[d] /\ err'[d] = err[d] /\ final' = final /\ Req[d].round \in Rounds
    BY <1>2, OthersStay, LatestGrows, RoundNumbers
  <2>2. pc[d] # "start" => Req[d].round <= latestRound
    BY <1>2 DEF Control
  <2> QED
    BY <1>1, <1>2, <2>1, <2>2 DEF Progress, BroadcastLeavesNothing
<1>3. ASSUME Req[c].kind = "broadcast"
      PROVE  /\ pc'[c] \in {"lookup", "stopRound", "stopWait", "remove"} => Req[c].round \in final'
             /\ pc'[c] = "remove" => state'[Req[c].round] = "closed"
             /\ pc'[c] = "done" /\ err'[c] = "" => Req[c].round \in final' \ rounds'
                                                  /\ state'[Req[c].round] = "closed"
  <2>1. /\ Active(c) \/ pc[c] \in {"start", "done"}
        /\ target[c] = Req[c].round
        /\ pc[c] \in {"lookup", "stopRound", "stopWait", "remove"} => Req[c].round \in final
        /\ pc[c] = "remove" => state[Req[c].round] = "closed"
        /\ final' = final
    BY <1>3, LatestGrows DEF Control, Progress
  <2> USE <1>0, <1>3, <2>1 DEF Goto, Finish, Active
  <2>2. CASE StartRound(c)
    BY <2>2 DEF StartRound
  <2>3. CASE Publish(c) \/ AwaitFinal(c) \/ StopRoundLookup(c)
    BY <2>3 DEF Publish, AwaitFinal, StopRoundLookup
  <2>4. CASE RoundStop(c) \/ RoundStopWait(c)
    BY <2>4 DEF RoundStop, RoundStopWait
  <2>5. CASE StopRoundRemove(c)
    BY <2>5 DEF StopRoundRemove
  <2>6. CASE GetRound(c) \/ GetRoundReturn(c) \/ Unsubscribe(c) \/ Lock(c) \/ NextRound(c)
             \/ StopFinalize(c)
    BY <2>6 DEF GetRound, GetRoundReturn, Unsubscribe, Lock, NextRound, StopFinalize
  <2>7. CASE CancelContext(c)
    BY <2>7 DEF CancelContext
  <2> QED
    BY <2>2, <2>3, <2>4, <2>5, <2>6, <2>7 DEF Step
<1> QED
  BY <1>2, <1>3 DEF Progress, BroadcastLeavesNothing

-----------------------------------------------------------------------------
(* The theorems *)

\* A new manager satisfies the inductive invariant.
LEMMA InitManagerInv == Init => ManagerInv
<1> SUFFICES ASSUME Init PROVE ManagerInv
  OBVIOUS
<1>1. TypeOK
  BY InitTypes
<1>2. \A c \in Calls :
        /\ pc[c] \in {"start", "get", "lock"}
        /\ Req[c].kind = "broadcast" => pc[c] = "start"
        /\ Req[c].kind = "get" => pc[c] = "get"
        /\ Req[c].kind = "stop" => pc[c] = "lock"
        /\ target[c] = Req[c].round /\ subs[c] = {} /\ sub[c] = "empty"
  BY ManagerAssumption DEF Init, Request
<1>3. Control /\ OneBroadcast /\ Waiters /\ Progress /\ BroadcastLeavesNothing
  BY <1>2 DEF Control, OneBroadcast, Waiters, Progress, BroadcastLeavesNothing, Active
<1>4. Maps /\ SendNeverBlocks
  BY <1>2 DEF Init, Maps, SendNeverBlocks, Subscribed
<1> QED
  BY <1>1, <1>3, <1>4 DEF ManagerInv

\* Every step of the system preserves the inductive invariant.
LEMMA NextManagerInv == ManagerInv /\ [Next]_vars => ManagerInv'
<1> SUFFICES ASSUME ManagerInv, [Next]_vars PROVE ManagerInv'
  OBVIOUS
<1> USE DEF ManagerInv
<1>1. ASSUME NEW c \in Calls, Step(c) \/ CancelContext(c)
      PROVE  ManagerInv'
  BY <1>1, StepTypes, ControlStep, OneBroadcastStep, WaitersStep, MapsStep, ProgressStep
\* The rounds' own steps and stuttering change neither calls nor maps.
<1>2. ASSUME UNCHANGED vars \/ \E n \in Rounds : Finalizes(n) \/ Closes(n)
      PROVE  ManagerInv'
  <2>1. /\ UNCHANGED <<roundsMu, rounds, roundSubs, subs, latestRound, sub, mine, target, pc, err>>
        /\ final \subseteq final'
        /\ \A n \in Rounds : state[n] = "closed" => state'[n] = "closed"
    BY <1>2 DEF vars, managerVars, Finalizes, Closes, TypeOK
  <2>2. TypeOK'
    BY <1>2, NextTypes DEF Next
  <2>3. Control' /\ OneBroadcast' /\ Waiters'
    BY <2>1 DEF Control, OneBroadcast, Waiters, Active
  <2>4. Maps' /\ SendNeverBlocks'
    BY <2>1 DEF Maps, SendNeverBlocks, Subscribed
  <2>5. Progress' /\ BroadcastLeavesNothing'
    BY <2>1, RoundNumbers DEF Progress, BroadcastLeavesNothing
  <2> QED
    BY <2>2, <2>3, <2>4, <2>5
<1> QED
  BY <1>1, <1>2 DEF Next

\* The manager's inductive invariant: where calls are, who is in which map, and how
\* far the round of each Broadcast is.
THEOREM ManagerInvariant == Spec => []ManagerInv
  BY InitManagerInv, NextManagerInv, PTL DEF Spec

\* Whoever waits for a round still to come is in the map StartRound will read.
THEOREM WaitersRegistered == Spec => []WaiterRegistered
<1>1. ManagerInv => WaiterRegistered
  BY ManagerAssumption DEF ManagerInv, Waiters, WaiterRegistered, Subscribed
<1> QED
  BY <1>1, ManagerInvariant, PTL

\* The sends and closes under roundsMu never block and never panic.
THEOREM SendsNeverBlock == Spec => []SendNeverBlocks
  BY ManagerInvariant, PTL DEF ManagerInv

\* Two calls never run Round.Stop of one round at the same time.
THEOREM StopsNeverOverlap == Spec => []NoOverlappingStops
<1>1. ASSUME ManagerInv
      PROVE  NoOverlappingStops
  <2> SUFFICES ASSUME NEW c \in Calls, NEW d \in Calls, c # d,
                      pc[c] \in {"stopRound", "stopWait"}, pc[d] \in {"stopRound", "stopWait"}
               PROVE  target[c] # target[d]
    BY DEF NoOverlappingStops
  <2>1. \A x \in Calls : Req[x].kind \in {"broadcast", "get", "stop"}
    BY ManagerAssumption DEF Request
  <2>2. Req[c].kind = "broadcast" /\ Req[d].kind = "broadcast"
    BY <1>1, <2>1 DEF ManagerInv, Control
  <2> QED
    BY <1>1, <2>2 DEF ManagerInv, Control, OneBroadcast, Active
<1> QED
  BY <1>1, ManagerInvariant, PTL

\* A Broadcast that returned nil leaves a final, closed and removed round.
THEOREM BroadcastsLeaveNothing == Spec => []BroadcastLeavesNothing
  BY ManagerInvariant, PTL DEF ManagerInv

\* The step that starts a round hands it to every GetRound that waits for it.
THEOREM WaitersServed == Spec => StartServesWaiters
<1>1. ASSUME ManagerInv, [Next]_vars, NEW d \in Calls,
             pc[d] = "wait", latestRound < Req[d].round, latestRound' = Req[d].round
      PROVE  sub'[d] = "round"
  <2>0. latestRound \in Nat /\ Req[d].round \in Nat
    BY <1>1, LatestNat, RoundNumbers DEF ManagerInv
  <2>1. latestRound' # latestRound
    BY <1>1, <2>0
  <2>2. PICK c \in Calls : StartRound(c)
    <3>1. CASE UNCHANGED vars \/ \E n \in Rounds : Finalizes(n) \/ Closes(n)
      BY <2>1, <3>1 DEF vars, managerVars, Finalizes, Closes
    <3>2. CASE \E c \in Calls : Step(c) \/ CancelContext(c)
      BY <1>1, <2>1, <3>2, LatestGrows DEF ManagerInv
    <3> QED
      BY <1>1, <3>1, <3>2 DEF Next
  <2>3. Req[c].round = Req[d].round /\ Answer(Req[d].round, "round")
    BY <1>1, <2>1, <2>2 DEF StartRound, managerVars
  <2>4. d \in Subscribed(Req[d].round)
    <3>1. Req[d].round > latestRound
      BY <1>1, <2>0
    <3> QED
      BY <1>1, <3>1, ManagerAssumption DEF ManagerInv, Waiters, Subscribed
  <2> QED
    BY <2>3, <2>4 DEF Answer
<1>2. ManagerInv /\ [Next]_vars =>
        [\A c \in Calls :
           (/\ pc[c] = "wait" /\ latestRound < Req[c].round /\ latestRound' = Req[c].round)
           => sub'[c] = "round"]_vars
  BY <1>1
<1> QED
  BY <1>2, ManagerInvariant, PTL DEF Spec, StartServesWaiters
=============================================================================
