----------------------------- MODULE RoundProofs ----------------------------
(***************************************************************************)
(* Proofs about the round, for any number of calls, any requests and any   *)
(* channel size; a cancellation may time out whenever it waits.            *)
(***************************************************************************)
EXTENDS Round, StakeQuorumProofs, FiniteSetTheorems

\* The theorems of the sequential quorum, about the round's quorum.
QCP == INSTANCE QuorumCertificateProofs

-----------------------------------------------------------------------------
(* Types of everything but the quorum *)

CallsType ==
  /\ req \in [Calls -> Request]
  /\ pc \in [Calls -> {"submit", "await", "resubmit", "reawait", "finalize",
                       "stop", "stopWait", "done"}]
  /\ canceled \in SUBSET Calls
  /\ errs \in [Calls -> SUBSET Errors]
  /\ got \in SUBSET Calls
  /\ gaveUp \in SUBSET Calls

ChannelsType ==
  /\ doneCh \in SUBSET Calls
  /\ stateOpCh \in Seq(Calls)
  /\ Len(stateOpCh) <= ChanSize
  /\ closeCh \in BOOLEAN
  /\ phase \in {"run", "drain", "closing", "stopped"}

LoopType ==
  /\ rejected \in SUBSET Calls
  /\ comms \in SUBSET Calls
  /\ getOpSubs \in [Ids -> SUBSET Calls]
  /\ finalCh \in BOOLEAN
  /\ sending \in Calls \cup {NoCall}
  /\ notify \in SUBSET Calls
  /\ current \in Calls \cup {NoCall}

Types == CallsType /\ ChannelsType /\ LoopType

\* NewRound's state and the calls before their first select are well typed.
LEMMA InitTypes == Init => Types
<1> SUFFICES ASSUME Init PROVE Types
  OBVIOUS
<1> USE RoundAssumption DEF Init
<1>1. req \in [Calls -> Request]
  OBVIOUS
<1>2. CallsType
  BY <1>1 DEF CallsType, Request, Kinds
<1>3. ChannelsType
  <2>1. stateOpCh \in Seq(Calls) /\ Len(stateOpCh) = 0 /\ ChanSize >= 0
    OBVIOUS
  <2> QED
    BY <2>1 DEF ChannelsType
<1>4. LoopType
  BY DEF LoopType
<1> QED
  BY <1>2, <1>3, <1>4 DEF Types

\* What Return leaves of the callers' types.
LEMMA ReturnTypes ==
  ASSUME CallsType, NEW c \in Calls, NEW es \in SUBSET Errors, Return(c, es),
         UNCHANGED <<req, canceled>>, gaveUp' \in SUBSET Calls
  PROVE  CallsType'
  BY DEF CallsType, Return

\* Each step of a caller keeps the types.
LEMMA CallerTypes ==
  ASSUME Types, NEW c \in Calls, Caller(c) \/ CancelContext(c)
  PROVE  Types'
<1> USE RoundAssumption DEF Types
<1>1. CASE CancelContext(c)
  BY <1>1 DEF CancelContext, CallsType, ChannelsType, LoopType, callVars, loopVars
<1>2. CASE Submit(c)
  BY <1>2 DEF Submit, CallsType, ChannelsType, LoopType, loopVars
<1>3. CASE Receive(c)
  <2>1. CallsType'
    <3>1. gaveUp' \in SUBSET Calls
      BY <1>3 DEF Receive, CallsType
    <3> QED
      BY <1>3, <3>1, ReturnTypes DEF Receive, Errors
  <2> QED
    BY <1>3, <2>1 DEF Receive, ChannelsType, LoopType, loopVars
<1>4. CASE SeeClosed(c) \/ SeeCanceled(c) \/ SeeTimeout(c)
  <2>1. CallsType'
    <3>1. gaveUp' \in SUBSET Calls
      BY <1>4 DEF SeeClosed, SeeCanceled, SeeTimeout, CallsType
    <3> QED
      BY <1>4, <3>1, ReturnTypes DEF SeeClosed, SeeCanceled, SeeTimeout, Errors
  <2> QED
    BY <1>4, <2>1 DEF SeeClosed, SeeCanceled, SeeTimeout, ChannelsType, LoopType, loopVars
<1>5. CASE FinalizeCall(c)
  BY <1>5 DEF FinalizeCall, CallsType, ChannelsType, LoopType, loopVars, Errors
<1>6. CASE StopCall(c)
  BY <1>6 DEF StopCall, CallsType, ChannelsType, LoopType, loopVars, Errors
<1>7. CASE StopReturn(c)
  BY <1>7 DEF StopReturn, CallsType, ChannelsType, LoopType, loopVars, Errors
<1> QED
  BY <1>1, <1>2, <1>3, <1>4, <1>5, <1>6, <1>7 DEF Caller

\* The operation DoOp takes is a call with a well-formed request.
LEMMA HeadIsCall ==
  ASSUME Types, stateOpCh # <<>>
  PROVE  /\ Head(stateOpCh) \in Calls
         /\ req[Head(stateOpCh)].id \in Ids
         /\ req[Head(stateOpCh)].key \in Keys
         /\ Tail(stateOpCh) \in Seq(Calls)
         /\ Len(Tail(stateOpCh)) <= ChanSize
  BY RoundAssumption DEF Types, CallsType, ChannelsType, Request

\* Each step of the state loop keeps the types.
LEMMA LoopTypes ==
  ASSUME Types, Loop
  PROVE  Types'
<1> USE RoundAssumption DEF Types
<1>1. CASE DoOp
  <2> DEFINE o == Head(stateOpCh)
  <2>1. o \in Calls /\ req[o].id \in Ids
    BY <1>1, HeadIsCall DEF DoOp
  <2>2. CallsType' /\ ChannelsType'
    BY <1>1, HeadIsCall DEF DoOp, CallsType, ChannelsType, callVars
  <2> HIDE DEF o
  <2>3. CASE StateAdd(o)
    BY <2>1, <2>2, <2>3 DEF StateAdd, Reply, LoopType
  <2>4. CASE StateGet(o)
    BY <2>1, <2>2, <2>4 DEF StateGet, Reply, LoopType
  <2>5. CASE StateDelete(o)
    BY <2>1, <2>2, <2>5 DEF StateDelete, Reply, LoopType
  <2>6. CASE StateAddSign(o)
    BY <2>1, <2>2, <2>6 DEF StateAddSign, Reply, LoopType
  <2> QED
    BY <1>1, <2>3, <2>4, <2>5, <2>6 DEF DoOp, o
<1>2. CASE Send
  BY <1>2 DEF Send, CallsType, ChannelsType, LoopType, callVars
<1>3. CASE BeginDrain
  BY <1>3 DEF BeginDrain, CallsType, ChannelsType, LoopType, callVars, loopVars
<1>4. CASE FinishDrain \/ CloseRound
  BY <1>4 DEF FinishDrain, CloseRound, CallsType, ChannelsType, LoopType, callVars, loopVars
<1> QED
  BY <1>1, <1>2, <1>3, <1>4 DEF Loop

\* Each step of the round keeps the types.
LEMMA NextTypes == Types /\ [Next]_vars => Types'
<1>1. CASE UNCHANGED vars
  BY <1>1 DEF vars, Types, CallsType, ChannelsType, LoopType, callVars, loopVars
<1> QED
  BY <1>1, CallerTypes, LoopTypes DEF Next

\* The channel, the subscriptions and the calls are always well typed.
LEMMA TypesInvariant == Spec => []Types
  BY InitTypes, NextTypes, PTL DEF Spec

-----------------------------------------------------------------------------
(* The round implements the sequential quorum *)

\* The steps that leave the quorum alone.
LEMMA CallersKeepQuorum ==
  ASSUME NEW c \in Calls, Caller(c) \/ CancelContext(c)
  PROVE  UNCHANGED <<quorum, dropped, finalCh, getOpSubs>>
  BY DEF Caller, CancelContext, Submit, Receive, SeeClosed, SeeCanceled, SeeTimeout,
         FinalizeCall, StopCall, StopReturn, loopVars

\* A step of the round is one step of the quorum, or none.
LEMMA StepRefines ==
  ASSUME Types, [Next]_vars
  PROVE  [QC!Next]_(QC!vars)
<1>1. CASE DoOp
  <2> DEFINE o == Head(stateOpCh)
  <2>1. o \in Calls /\ req[o].id \in Ids /\ req[o].key \in Keys
    BY <1>1, HeadIsCall DEF DoOp
  <2> HIDE DEF o
  <2>2. CASE StateAdd(o)
    <3>1. CASE CanAdd(quorum, req[o].id)
      <4>1. quorum' = Add(quorum, req[o].id) /\ dropped' = dropped
        BY <2>2, <3>1 DEF StateAdd
      <4>2. QC!AddStep(req[o].id)
        BY <3>1, <4>1 DEF QC!AddStep, CanAdd, QC!CanAdd, Add, QC!Add, Get, QC!Get,
                          NewCertificate, QC!NewCertificate
      <4> QED
        BY <2>1, <4>2 DEF QC!Next
    <3>2. CASE ~CanAdd(quorum, req[o].id)
      BY <2>2, <3>2 DEF StateAdd, QC!vars
    <3> QED
      BY <3>1, <3>2
  <2>3. CASE StateGet(o)
    BY <2>3 DEF StateGet, QC!vars
  <2>4. CASE StateDelete(o)
    BY <2>1, <2>4 DEF StateDelete, QC!Next, QC!DeleteStep, QC!vars, CanDelete, QC!CanDelete,
                      Get, QC!Get, Delete, QC!Delete, NoCert, QC!NoCert, List, QC!List
  <2>5. CASE StateAddSign(o)
    <3>1. CASE CanSign(quorum, req[o].id, req[o].key)
      <4>1. quorum' = AddSignature(quorum, req[o].id, req[o].key) /\ dropped' = dropped
        BY <2>5, <3>1 DEF StateAddSign
      <4>2. QC!SignStep(req[o].id, req[o].key)
        BY <3>1, <4>1 DEF QC!SignStep, CanSign, QC!CanSign, Get, QC!Get,
             AddSignature, QC!AddSignature, SafeAddClip, QC!SafeAddClip,
             StakeRequired, QC!StakeRequired, TotalStake, QC!TotalStake
      <4> QED
        BY <2>1, <4>2 DEF QC!Next
    <3>2. CASE ~CanSign(quorum, req[o].id, req[o].key)
      BY <2>5, <3>2 DEF StateAddSign, QC!vars
    <3> QED
      BY <3>1, <3>2
  <2> QED
    BY <1>1, <2>2, <2>3, <2>4, <2>5 DEF DoOp, o
<1>2. CASE Send \/ BeginDrain \/ FinishDrain \/ CloseRound \/ UNCHANGED vars
  BY <1>2 DEF Send, BeginDrain, FinishDrain, CloseRound, vars, loopVars, QC!vars
<1>3. CASE \E c \in Calls : Caller(c) \/ CancelContext(c)
  BY <1>3, CallersKeepQuorum DEF QC!vars
<1> QED
  BY <1>1, <1>2, <1>3 DEF Next, Loop

\* What a client of the round sees of its quorum is a sequence of calls of the
\* quorum's methods, however the calls of the round interleave, time out or
\* race with Stop.
THEOREM ImplementsQuorum == Spec => QuorumCertificateSpec
<1>1. Init => QC!Init
  BY DEF Init, QC!Init, NewQuorum, QC!NewQuorum, NoCert, QC!NoCert
<1>2. Types /\ [Next]_vars => [QC!Next]_(QC!vars)
  BY StepRefines
<1> QED
  BY <1>1, <1>2, TypesInvariant, PTL DEF Spec, QuorumCertificateSpec, QC!Spec

\* The quorum's theorems hold of the round's quorum.
LEMMA QuorumInvariant == Spec => []QCP!IInv
<1>1. QC!Init => QCP!Init
  BY DEF QC!Init, QCP!Init, QC!NewQuorum, QCP!NewQuorum, QC!NoCert, QCP!NoCert
<1>2. [QC!Next]_(QC!vars) => [QCP!Next]_(QCP!vars)
  <2>1. ASSUME NEW id \in Ids, QC!AddStep(id)
        PROVE  QCP!AddStep(id)
    BY <2>1 DEF QC!AddStep, QCP!AddStep, QC!CanAdd, QCP!CanAdd, QC!Get, QCP!Get,
                QC!Add, QCP!Add, QC!NewCertificate, QCP!NewCertificate
  <2>2. ASSUME NEW id \in Ids, QC!DeleteStep(id)
        PROVE  QCP!DeleteStep(id)
    BY <2>2 DEF QC!DeleteStep, QCP!DeleteStep, QC!CanDelete, QCP!CanDelete, QC!Get, QCP!Get,
                QC!Delete, QCP!Delete, QC!NoCert, QCP!NoCert, QC!List, QCP!List
  <2>3. ASSUME NEW id \in Ids, NEW key \in Keys, QC!SignStep(id, key)
        PROVE  QCP!SignStep(id, key)
    BY <2>3 DEF QC!SignStep, QCP!SignStep, QC!CanSign, QCP!CanSign, QC!Get, QCP!Get,
                QC!AddSignature, QCP!AddSignature, QC!SafeAddClip, QCP!SafeAddClip,
                QC!StakeRequired, QCP!StakeRequired, QC!TotalStake, QCP!TotalStake
  <2> QED
    BY <2>1, <2>2, <2>3 DEF QC!Next, QCP!Next, QC!vars, QCP!vars
<1>3. Spec => QC!Spec
  BY ImplementsQuorum DEF QuorumCertificateSpec
<1>4. QCP!QuorumAssumption
  BY QuorumAssumption DEF MaxStake, QCP!MaxStake
<1>5. QCP!Spec => []QCP!IInv
  BY <1>4, QCP!InductiveInvariant, PTL
<1> QED
  BY <1>1, <1>2, <1>3, <1>5, PTL DEF QC!Spec, QCP!Spec

\* The channel keeps its bound, subscriptions are of calls, and the quorum of the
\* round stays within its widths.
THEOREM TypeCorrect == Spec => []TypeOK
<1>1. Types /\ QCP!IInv => TypeOK
  BY DEF Types, CallsType, ChannelsType, LoopType, TypeOK, QCP!IInv, QCP!TypeOK,
         QuorumType, QCP!QuorumType, Cert, QCP!Cert
<1> QED
  BY <1>1, TypesInvariant, QuorumInvariant, PTL

\* Every certificate of the round is sound, for any interleaving of its callers.
THEOREM RoundCertificatesSound == Spec => []QC!CertificateSound
<1>1. QCP!IInv => QC!CertificateSound
  BY DEF QCP!IInv, QCP!CertificateSound, QC!CertificateSound, QCP!CertOK, QC!CertOK,
         QCP!Get, QC!Get, QCP!StakeRequired, QC!StakeRequired, QCP!TotalStake, QC!TotalStake
<1> QED
  BY <1>1, QuorumInvariant, PTL

-----------------------------------------------------------------------------
(* Subscriptions *)

\* A certificate and a subscription for it never coexist: stateAdd empties the
\* subscriptions in the step that adds, and stateGet subscribes only while the
\* certificate is absent.
THEOREM NoCertificateMissed == Spec => []NoMissedCertificate
<1>1. Init => NoMissedCertificate
  BY DEF Init, NoMissedCertificate
<1>2. ASSUME Types, QCP!IInv, NoMissedCertificate, [Next]_vars
      PROVE  NoMissedCertificate'
  <2>0. quorum \in QuorumType /\ getOpSubs \in [Ids -> SUBSET Calls]
    BY <1>2 DEF Types, LoopType, QCP!IInv, QCP!TypeOK, QCP!QuorumType, QuorumType, QCP!Cert, Cert
  <2>1. CASE DoOp
    <3> DEFINE o == Head(stateOpCh)
    <3>1. o \in Calls /\ req[o].id \in Ids
      BY <1>2, <2>1, HeadIsCall DEF DoOp
    <3> HIDE DEF o
    <3>2. CASE StateAdd(o)
      <4>1. CASE CanAdd(quorum, req[o].id)
        <5>1. /\ quorum' = Add(quorum, req[o].id)
              /\ getOpSubs' = [getOpSubs EXCEPT ![req[o].id] = {}]
          BY <3>2, <4>1 DEF StateAdd
        <5>2. \A id \in Ids \ {req[o].id} : Get(quorum', id) = Get(quorum, id)
          BY <1>2, <2>0, <3>1, <5>1 DEF Add, Get, QuorumType
        <5> QED
          BY <1>2, <2>0, <3>1, <5>1, <5>2 DEF NoMissedCertificate
      <4>2. CASE ~CanAdd(quorum, req[o].id)
        BY <1>2, <3>2, <4>2 DEF StateAdd, NoMissedCertificate
      <4> QED
        BY <4>1, <4>2
    <3>3. CASE StateGet(o)
      BY <1>2, <2>0, <3>1, <3>3 DEF StateGet, NoMissedCertificate
    <3>4. CASE StateDelete(o)
      <4>1. \A id \in Ids : Get(quorum', id) => Get(quorum, id)
        BY <2>0, <3>1, <3>4 DEF StateDelete, Delete, NoCert, Get, QuorumType
      <4> QED
        BY <1>2, <3>4, <4>1 DEF StateDelete, NoMissedCertificate
    <3>5. CASE StateAddSign(o)
      <4>1. \A id \in Ids : Get(quorum', id) => Get(quorum, id)
        BY <2>0, <3>1, <3>5 DEF StateAddSign, AddSignature, CanSign, Get, QuorumType
      <4> QED
        BY <1>2, <3>5, <4>1 DEF StateAddSign, NoMissedCertificate
    <3> QED
      BY <2>1, <3>2, <3>3, <3>4, <3>5 DEF DoOp, o
  <2>2. CASE Send \/ BeginDrain \/ FinishDrain \/ CloseRound \/ UNCHANGED vars
    BY <1>2, <2>2 DEF Send, BeginDrain, FinishDrain, CloseRound, vars, loopVars, NoMissedCertificate
  <2>3. CASE \E c \in Calls : Caller(c) \/ CancelContext(c)
    BY <1>2, <2>3, CallersKeepQuorum DEF NoMissedCertificate
  <2> QED
    BY <1>2, <2>1, <2>2, <2>3 DEF Next, Loop
<1> QED
  BY <1>1, <1>2, TypesInvariant, QuorumInvariant, PTL DEF Spec

-----------------------------------------------------------------------------
(* Finalization *)

\* What one signature does to the quorum's counter: nothing while the certificate
\* is incomplete, and never less than before.
LEMMA SignatureStake ==
  ASSUME QCP!IInv, NEW id \in Ids, NEW key \in Keys, CanSign(quorum, id, key)
  PROVE  LET q == AddSignature(quorum, id, key) IN
         /\ quorum.activeStake \in 0..MaxInt64
         /\ q.activeStake \in 0..MaxInt64
         /\ q.activeStake >= quorum.activeStake
         /\ ~Completes(quorum, id, key) => q.activeStake = quorum.activeStake
<1>1. quorum.activeStake \in 0..MaxInt64 /\ quorum.certificates \in [Ids -> Cert]
  BY DEF QCP!IInv, QCP!TypeOK, QCP!QuorumType, QCP!Cert, Cert
<1>2. Signer[id] \in Includers
  BY DEF CanSign, Get, QCP!IInv, QCP!CertificateSound, QCP!Get
<1>3. /\ SafeAddClip(quorum.activeStake, Stake[Signer[id]]) \in 0..MaxInt64
      /\ SafeAddClip(quorum.activeStake, Stake[Signer[id]]) >= quorum.activeStake
  BY <1>1, <1>2, StakeBound, SafeAddClipFacts
<1> DEFINE q == AddSignature(quorum, id, key)
<1>4. \/ q.activeStake = quorum.activeStake
      \/ q.activeStake = SafeAddClip(quorum.activeStake, Stake[Signer[id]])
  BY DEF AddSignature
<1>5. ASSUME ~Completes(quorum, id, key)
      PROVE  q.activeStake = quorum.activeStake
  BY <1>1, <1>5 DEF AddSignature, Completes
<1> HIDE DEF q
<1>6. quorum.activeStake >= quorum.activeStake
  BY <1>1, QuorumAssumption
<1>7. /\ q.activeStake \in 0..MaxInt64 /\ q.activeStake >= quorum.activeStake
  BY <1>1, <1>3, <1>4, <1>6
<1> QED
  BY <1>1, <1>5, <1>7 DEF q

\* finalCh is closed exactly when the quorum is final: no signature can make the
\* quorum final without stateAddSign noticing, and nothing revokes it.
THEOREM FinalChannelExact == Spec => []FinalIffQuorum
<1>1. Init => FinalIffQuorum
  BY StakeFacts DEF Init, FinalIffQuorum, Finalize, NewQuorum
<1>2. ASSUME Types, QCP!IInv, FinalIffQuorum, [Next]_vars
      PROVE  FinalIffQuorum'
  <2>0. quorum \in QuorumType /\ StakeRequired \in Nat
    BY <1>2, StakeFacts DEF QCP!IInv, QCP!TypeOK, QCP!QuorumType, QuorumType, QCP!Cert, Cert
  <2>1. CASE DoOp
    <3> DEFINE o == Head(stateOpCh)
    <3>1. o \in Calls /\ req[o].id \in Ids /\ req[o].key \in Keys
      BY <1>2, <2>1, HeadIsCall DEF DoOp
    <3> HIDE DEF o
    <3>2. CASE StateAdd(o) \/ StateGet(o) \/ StateDelete(o)
      <4>1. finalCh' = finalCh /\ quorum'.activeStake = quorum.activeStake
        BY <2>0, <3>2 DEF StateAdd, StateGet, StateDelete, Add, Delete, QuorumType
      <4> QED
        BY <1>2, <4>1 DEF FinalIffQuorum, Finalize
    <3>3. CASE StateAddSign(o)
      <4> DEFINE id == req[o].id
                 key == req[o].key
      <4>1. CASE CanSign(quorum, id, key)
        <5>1. /\ quorum' = AddSignature(quorum, id, key)
              /\ finalCh' = (finalCh \/ (Completes(quorum, id, key) /\ Finalize(quorum')))
          BY <3>3, <4>1 DEF StateAddSign
        <5>2. /\ quorum.activeStake \in 0..MaxInt64
              /\ quorum'.activeStake \in 0..MaxInt64
              /\ quorum'.activeStake >= quorum.activeStake
              /\ ~Completes(quorum, id, key) => quorum'.activeStake = quorum.activeStake
          BY <1>2, <3>1, <4>1, <5>1, SignatureStake
        <5>3. Finalize(quorum) => Finalize(quorum')
          BY <2>0, <5>2 DEF Finalize
        <5>4. ~Completes(quorum, id, key) => (Finalize(quorum') <=> Finalize(quorum))
          BY <5>2 DEF Finalize
        <5> QED
          BY <1>2, <5>1, <5>3, <5>4 DEF FinalIffQuorum
      <4>2. CASE ~CanSign(quorum, id, key)
        BY <1>2, <3>3, <4>2 DEF StateAddSign, FinalIffQuorum
      <4> QED
        BY <4>1, <4>2
    <3> QED
      BY <2>1, <3>2, <3>3 DEF DoOp, o
  <2>2. CASE Send \/ BeginDrain \/ FinishDrain \/ CloseRound \/ UNCHANGED vars
    BY <1>2, <2>2 DEF Send, BeginDrain, FinishDrain, CloseRound, vars, loopVars, FinalIffQuorum
  <2>3. CASE \E c \in Calls : Caller(c) \/ CancelContext(c)
    BY <1>2, <2>3, CallersKeepQuorum DEF FinalIffQuorum
  <2> QED
    BY <1>2, <2>1, <2>2, <2>3 DEF Next, Loop
<1> QED
  BY <1>1, <1>2, TypesInvariant, QuorumInvariant, PTL DEF Spec

-----------------------------------------------------------------------------
(* Stop *)

\* A Stop that returns without an error has seen closedCh closed.
StoppedWhenReturned ==
  \A c \in Calls :
    req[c].kind = "stop" => /\ pc[c] \in {"stop", "stopWait", "done"}
                            /\ pc[c] = "done" /\ errs[c] = {} => phase = "stopped"

\* Only Stop's second select, on closedCh, lets it return without an error.
LEMMA StoppedInvariant == Spec => []StoppedWhenReturned
<1>1. Init => StoppedWhenReturned
  BY DEF Init, StoppedWhenReturned
<1>2. ASSUME Types, StoppedWhenReturned, [Next]_vars
      PROVE  StoppedWhenReturned'
  <2> USE DEF StoppedWhenReturned, Types, CallsType
  <2>1. CASE Loop \/ UNCHANGED vars
    <3>1. UNCHANGED <<req, pc, errs>> /\ (phase = "stopped" => phase' = "stopped")
      BY <2>1 DEF Loop, DoOp, Send, BeginDrain, FinishDrain, CloseRound, vars, callVars
    <3> QED
      BY <1>2, <3>1
  <2>2. ASSUME NEW c \in Calls, Caller(c) \/ CancelContext(c)
        PROVE  StoppedWhenReturned'
    <3>1. CASE Submit(c)
      BY <1>2, <3>1 DEF Submit
    <3>2. CASE Receive(c) \/ SeeClosed(c) \/ SeeCanceled(c) \/ SeeTimeout(c)
      <4>1. req[c].kind # "stop" /\ UNCHANGED <<req, phase>>
            /\ \A d \in Calls \ {c} : pc'[d] = pc[d] /\ errs'[d] = errs[d]
        BY <1>2, <3>2 DEF Receive, SeeClosed, SeeCanceled, SeeTimeout, Return
      <4> QED
        BY <1>2, <4>1
    <3>3. CASE FinalizeCall(c)
      BY <1>2, <3>3 DEF FinalizeCall
    <3>4. CASE StopCall(c)
      BY <1>2, <3>4 DEF StopCall
    <3>5. CASE StopReturn(c)
      BY <1>2, <3>5 DEF StopReturn
    <3>6. CASE CancelContext(c)
      BY <1>2, <3>6 DEF CancelContext, callVars
    <3> QED
      BY <2>2, <3>1, <3>2, <3>3, <3>4, <3>5, <3>6 DEF Caller
  <2> QED
    BY <1>2, <2>1, <2>2 DEF Next
<1> QED
  BY <1>1, <1>2, TypesInvariant, PTL DEF Spec

\* After a Stop that returned without an error the quorum and the round's
\* finality are frozen: what a block is built from cannot change under it.
THEOREM StopFreezesQuorum == Spec => StopIsFinal
<1>1. ASSUME StoppedWhenReturned, [Next]_vars,
             \E c \in Calls : req[c].kind = "stop" /\ pc[c] = "done" /\ errs[c] = {}
      PROVE  UNCHANGED <<quorum, finalCh>>
  <2>1. phase = "stopped"
    BY <1>1 DEF StoppedWhenReturned
  <2>2. CASE Loop \/ UNCHANGED vars
    BY <2>1, <2>2 DEF Loop, DoOp, Send, BeginDrain, FinishDrain, CloseRound, vars, loopVars
  <2>3. CASE \E c \in Calls : Caller(c) \/ CancelContext(c)
    BY <2>3, CallersKeepQuorum
  <2> QED
    BY <1>1, <2>2, <2>3 DEF Next
<1> QED
  BY <1>1, StoppedInvariant, PTL DEF Spec, StopIsFinal

-----------------------------------------------------------------------------
(* Where an operation is.  An operation travels from the channel to the     *)
(* subscriptions, to the loop and to its doneCh, and a GetCertificate that  *)
(* is canceled sends it on its way a second time.  The proofs about callers *)
(* count how often an operation is under way.                               *)

One(P) == IF P THEN 1 ELSE 0

\* How often the operation is in a sequence.
Occ(s, c) == Cardinality({i \in 1..Len(s) : s[i] = c})

Tokens(c) == Occ(stateOpCh, c)
               + One(c \in getOpSubs[req[c].id]) + One(c \in notify)
               + One(c = sending) + One(c = current) + One(c \in doneCh)

\* The loop has nothing left of an operation when it takes the next one, and
\* nothing at all once it is closing.
Idle == /\ sending = NoCall => notify = {} /\ current = NoCall
        /\ phase \in {"closing", "stopped"} => sending = NoCall

\* Which methods reach which select; only gets subscribe, and what the loop finishes
\* after its subscribers is an add.
Roles ==
  /\ \A c \in Calls :
       /\ req[c].kind \in OpKinds => pc[c] \notin {"finalize", "stop", "stopWait"}
       /\ pc[c] \in {"resubmit", "reawait"} => req[c].kind = "get" /\ errs[c] # {}
  /\ \A id \in Ids : \A s \in getOpSubs[id] : req[s].kind = "get" /\ req[s].id = id
  /\ \A s \in notify : req[s].kind = "get"
  /\ current # NoCall => req[current].kind = "add"

\* An operation is under way at most as often as its caller has submitted it and has
\* not received it.  A call that returned has left one behind at most, unless it gave
\* up its cancellation.
Bounded ==
  \A c \in Calls :
    /\ pc[c] \in {"submit", "finalize", "stop", "stopWait"} => Tokens(c) = 0
    /\ pc[c] \in {"await", "resubmit"} => Tokens(c) <= 1
    /\ pc[c] = "reawait" => Tokens(c) <= 2
    /\ pc[c] = "done" /\ c \notin gaveUp /\ phase # "stopped" => Tokens(c) <= 1

\* What answers a GetCertificate in its first execution is a certificate.
Answered ==
  \A c \in Calls :
    req[c].kind = "get" /\ pc[c] = "await" /\ c \in doneCh \cup {sending} => c \in comms

\* The operation was executed and not refused, or its caller knows that.
Performed(c) == \/ c \in doneCh \cup {sending, current} /\ c \notin rejected
                \/ pc[c] = "done" /\ errs[c] = {}

Undeleted(id) == \A d \in Calls : ~(req[d].kind = "delete" /\ req[d].id = id)

\* What a performed operation did to the quorum is still there.
Effects ==
  \A c \in Calls :
    Performed(c) /\ Undeleted(req[c].id) =>
      /\ req[c].kind \in {"add", "sign"} => Get(quorum, req[c].id)
      /\ req[c].kind = "sign" => req[c].key \in quorum.certificates[req[c].id].signers

\* A step of a call changes no more than its own place, errors and result, takes no
\* more than its own doneCh and submits no more than itself.
LEMMA CallersLocal ==
  ASSUME Types, NEW c \in Calls, Caller(c) \/ CancelContext(c)
  PROVE  /\ UNCHANGED <<req, phase, loopVars>>
         /\ \A d \in Calls \ {c} : /\ pc'[d] = pc[d] /\ errs'[d] = errs[d]
                                   /\ d \in got' <=> d \in got
                                   /\ d \in gaveUp' <=> d \in gaveUp
                                   /\ d \in doneCh' <=> d \in doneCh
<1> USE DEF Types, CallsType
<1>1. CASE CancelContext(c)
  BY <1>1 DEF CancelContext, callVars
<1>2. CASE Submit(c)
  BY <1>2 DEF Submit
<1>3. CASE Receive(c)
  BY <1>3 DEF Receive, Return
<1>4. CASE SeeClosed(c) \/ SeeCanceled(c) \/ SeeTimeout(c)
  BY <1>4 DEF SeeClosed, SeeCanceled, SeeTimeout, Return
<1>5. CASE FinalizeCall(c)
  BY <1>5 DEF FinalizeCall
<1>6. CASE StopCall(c)
  BY <1>6 DEF StopCall
<1>7. CASE StopReturn(c)
  BY <1>7 DEF StopReturn
<1> QED
  BY <1>1, <1>2, <1>3, <1>4, <1>5, <1>6, <1>7 DEF Caller

\* Return leaves a call at its second execution or at its end.
LEMMA ReturnPlace ==
  ASSUME Types, NEW c \in Calls, NEW es, Return(c, es)
  PROVE  /\ pc'[c] \in {"resubmit", "done"}
         /\ pc[c] \notin {"submit", "await"} => pc'[c] = "done"
         /\ pc'[c] = "resubmit" =>
              req[c].kind = "get" /\ es # {} /\ c \in canceled /\ errs'[c] = es /\ got' = got
         /\ pc'[c] = "done" =>
              /\ errs'[c] = errs[c] \cup es
              /\ req[c].kind = "get" /\ pc[c] \in {"submit", "await"} /\ c \in comms => c \in got'
              /\ got \subseteq got'
  BY DEF Return, Types, CallsType

\* The loop's steps leave the callers where they are.
LEMMA LoopKeepsCallers ==
  ASSUME Loop \/ UNCHANGED vars
  PROVE  UNCHANGED <<req, pc, errs, got, gaveUp, canceled>>
  BY DEF Loop, DoOp, Send, BeginDrain, FinishDrain, CloseRound, vars, callVars

\* What an operation of the loop does to its registers: it is replied to, it
\* subscribes, or it first replies to its subscribers.
Replied(o) ==
  /\ sending' = o /\ notify' = {} /\ current' = NoCall
  /\ comms \subseteq comms'
  /\ \A id \in Ids : getOpSubs'[id] \subseteq getOpSubs[id]
  /\ \A id \in Ids : \A d \in getOpSubs[id] : d # o => d \in getOpSubs'[id]
  /\ req[o].kind = "get" => o \in comms' \/ o \in getOpSubs[req[o].id]

Subscribes(o) ==
  /\ req[o].kind = "get" /\ o \notin getOpSubs[req[o].id]
  /\ UNCHANGED <<sending, notify, current, comms>>
  /\ getOpSubs' = [getOpSubs EXCEPT ![req[o].id] = @ \cup {o}]

Notifies(o) ==
  /\ req[o].kind = "add"
  /\ getOpSubs' = [getOpSubs EXCEPT ![req[o].id] = {}]
  /\ current' = o
  /\ \E s \in getOpSubs[req[o].id] : /\ sending' = s
                                     /\ notify' = getOpSubs[req[o].id] \ {s}
                                     /\ comms' = comms \cup {s}

\* DoOp takes an operation when its registers are free and does one of the three.
LEMMA DoOpShape ==
  ASSUME Types, Idle, DoOp, NEW o, o = Head(stateOpCh)
  PROVE  /\ o \in Calls /\ req[o].id \in Ids /\ req[o].kind \in OpKinds
         /\ phase \in {"run", "drain"} /\ sending = NoCall /\ notify = {} /\ current = NoCall
         /\ Replied(o) \/ Subscribes(o) \/ Notifies(o)
         /\ stateOpCh # <<>> /\ stateOpCh' = Tail(stateOpCh)
         /\ UNCHANGED <<req, pc, errs, got, doneCh, phase>>
<1>1. /\ o \in Calls /\ req[o].id \in Ids /\ req[o].kind \in OpKinds
      /\ phase \in {"run", "drain"} /\ sending = NoCall /\ notify = {} /\ current = NoCall
      /\ stateOpCh # <<>> /\ stateOpCh' = Tail(stateOpCh)
      /\ UNCHANGED <<req, pc, errs, got, doneCh, phase>>
  BY HeadIsCall DEF DoOp, Idle, OpKinds, callVars
<1>2. \/ req[o].kind = "add" /\ StateAdd(o)
      \/ req[o].kind = "get" /\ StateGet(o)
      \/ req[o].kind = "delete" /\ StateDelete(o)
      \/ req[o].kind = "sign" /\ StateAddSign(o)
  BY DEF DoOp
<1>3. getOpSubs \in [Ids -> SUBSET Calls]
  BY DEF Types, LoopType
<1>4. CASE req[o].kind = "add" /\ StateAdd(o)
  <2>1. CASE CanAdd(quorum, req[o].id) /\ getOpSubs[req[o].id] # {}
    BY <1>1, <1>4, <2>1 DEF StateAdd, Notifies
  <2>2. CASE CanAdd(quorum, req[o].id) /\ getOpSubs[req[o].id] = {}
    <3>1. getOpSubs' = [getOpSubs EXCEPT ![req[o].id] = {}] /\ Reply(o) /\ comms' = comms
      BY <1>4, <2>2 DEF StateAdd
    <3>2. \A id \in Ids : getOpSubs'[id] = getOpSubs[id]
      BY <1>1, <1>3, <2>2, <3>1
    <3> QED
      BY <1>1, <1>4, <3>1, <3>2 DEF Reply, Replied
  <2>3. CASE ~CanAdd(quorum, req[o].id)
    BY <1>1, <1>4, <2>3 DEF StateAdd, Reply, Replied
  <2> QED
    BY <1>1, <2>1, <2>2, <2>3
<1>5. CASE req[o].kind = "get" /\ StateGet(o)
  <2>1. CASE UNCHANGED getOpSubs /\ Reply(o) /\ comms' = comms \cup {o}
    BY <1>1, <1>5, <2>1 DEF Reply, Replied
  <2>2. CASE /\ o \notin getOpSubs[req[o].id]
             /\ getOpSubs' = [getOpSubs EXCEPT ![req[o].id] = @ \cup {o}]
             /\ UNCHANGED <<comms, sending, notify, current>>
    BY <1>1, <1>5, <2>2 DEF Subscribes
  <2>3. CASE /\ o \in getOpSubs[req[o].id]
             /\ getOpSubs' = [getOpSubs EXCEPT ![req[o].id] = @ \ {o}]
             /\ Reply(o) /\ UNCHANGED comms
    <3>1. \A id \in Ids : /\ getOpSubs'[id] \subseteq getOpSubs[id]
                          /\ \A d \in getOpSubs[id] : d # o => d \in getOpSubs'[id]
      BY <1>1, <1>3, <2>3
    <3> QED
      BY <1>1, <1>5, <2>3, <3>1 DEF Reply, Replied
  <2> QED
    BY <1>1, <1>5, <2>1, <2>2, <2>3 DEF StateGet
<1>6. CASE req[o].kind # "get" /\ (StateDelete(o) \/ StateAddSign(o))
  <2>1. Reply(o) /\ UNCHANGED <<getOpSubs, comms>>
    BY <1>6 DEF StateDelete, StateAddSign
  <2>2. Replied(o)
    BY <1>1, <1>6, <2>1 DEF Reply, Replied
  <2> QED
    BY <1>1, <2>2
<1> QED
  BY <1>1, <1>2, <1>4, <1>5, <1>6

-----------------------------------------------------------------------------
(* Control *)

\* The loop's registers and the callers' selects fit together.
LEMMA ControlInvariant == Spec => [](Idle /\ Roles)
<1>1. Init => Idle /\ Roles
  <2> SUFFICES ASSUME Init PROVE Idle /\ Roles
    OBVIOUS
  <2>1. \A c \in Calls : req[c].kind \in OpKinds => pc[c] \notin {"finalize", "stop", "stopWait"}
    BY DEF Init, OpKinds
  <2>2. \A c \in Calls : pc[c] \notin {"resubmit", "reawait"}
    BY DEF Init
  <2> QED
    BY <2>1, <2>2 DEF Init, Idle, Roles
<1>2. ASSUME Types, Idle, Roles, DoOp PROVE (Idle /\ Roles)'
  <2> DEFINE o == Head(stateOpCh)
  <2>1. /\ o \in Calls /\ req[o].id \in Ids
        /\ phase \in {"run", "drain"} /\ sending = NoCall /\ notify = {} /\ current = NoCall
        /\ Replied(o) \/ Subscribes(o) \/ Notifies(o)
        /\ UNCHANGED <<req, pc, errs, phase>>
    BY <1>2, DoOpShape
  <2> HIDE DEF o
  <2>2. getOpSubs \in [Ids -> SUBSET Calls]
    BY <1>2 DEF Types, LoopType
  <2>3. CASE Replied(o)
    BY <1>2, <2>1, <2>3, RoundAssumption DEF Replied, Idle, Roles
  <2>4. CASE Subscribes(o)
    <3>1. \A id \in Ids : \A s \in getOpSubs'[id] : s \in getOpSubs[id] \/ (s = o /\ id = req[o].id)
      BY <2>1, <2>2, <2>4 DEF Subscribes
    <3> QED
      BY <1>2, <2>1, <2>4, <3>1 DEF Subscribes, Idle, Roles
  <2>5. CASE Notifies(o)
    <3>1. \A id \in Ids : getOpSubs'[id] \subseteq getOpSubs[id]
      BY <2>1, <2>2, <2>5 DEF Notifies
    <3>2. sending' \in Calls /\ notify' \subseteq getOpSubs[req[o].id]
      BY <2>1, <2>2, <2>5 DEF Notifies
    <3> QED
      BY <1>2, <2>1, <2>5, <3>1, <3>2, RoundAssumption DEF Notifies, Idle, Roles
  <2> QED
    BY <2>1, <2>3, <2>4, <2>5
<1>3. ASSUME Types, Idle, Roles, Send PROVE (Idle /\ Roles)'
  <2>1. UNCHANGED <<req, pc, errs, getOpSubs, phase>> /\ phase # "stopped"
    BY <1>3 DEF Send, callVars, Idle
  <2> QED
    BY <1>3, <2>1, RoundAssumption DEF Send, Idle, Roles, Types, LoopType
<1>4. ASSUME Idle, Roles, BeginDrain \/ FinishDrain \/ CloseRound \/ UNCHANGED vars PROVE (Idle /\ Roles)'
  BY <1>4 DEF BeginDrain, FinishDrain, CloseRound, vars, callVars, loopVars, Idle, Roles
<1>5. ASSUME Types, Idle, Roles, NEW c \in Calls, Caller(c) \/ CancelContext(c)
      PROVE  (Idle /\ Roles)'
  <2>1. /\ UNCHANGED <<req, phase, loopVars>>
        /\ \A d \in Calls \ {c} : pc'[d] = pc[d] /\ errs'[d] = errs[d]
    BY <1>5, CallersLocal
  <2>2. /\ req[c].kind \in OpKinds => pc'[c] \notin {"finalize", "stop", "stopWait"}
        /\ pc'[c] \in {"resubmit", "reawait"} => req[c].kind = "get" /\ errs'[c] # {}
    <3> USE <1>5 DEF Roles, Types, CallsType
    <3>1. CASE CancelContext(c)
      BY <3>1 DEF CancelContext, callVars
    <3>2. CASE Submit(c)
      BY <3>2 DEF Submit
    <3>3. CASE Receive(c)
      BY <3>3 DEF Receive, Return
    <3>4. CASE SeeClosed(c) \/ SeeCanceled(c) \/ SeeTimeout(c)
      <4>1. Return(c, {"closed"}) \/ Return(c, {"canceled"})
        BY <3>4 DEF SeeClosed, SeeCanceled, SeeTimeout
      <4>2. /\ pc'[c] \in {"resubmit", "done"}
            /\ pc'[c] = "resubmit" => req[c].kind = "get" /\ errs'[c] # {}
        BY <4>1, ReturnPlace
      <4> QED
        BY <4>2
    <3>5. CASE FinalizeCall(c)
      BY <3>5 DEF FinalizeCall
    <3>6. CASE StopCall(c)
      BY <3>6 DEF StopCall
    <3>7. CASE StopReturn(c)
      BY <3>7 DEF StopReturn
    <3> QED
      BY <3>1, <3>2, <3>3, <3>4, <3>5, <3>6, <3>7 DEF Caller
  <2> QED
    BY <1>5, <2>1, <2>2 DEF loopVars, Idle, Roles
<1>6. Types /\ Idle /\ Roles /\ [Next]_vars => (Idle /\ Roles)'
  BY <1>2, <1>3, <1>4, <1>5 DEF Next, Loop
<1> QED
  BY <1>1, <1>6, TypesInvariant, PTL DEF Spec

-----------------------------------------------------------------------------
(* Counting *)

\* The places of an operation in the channel are finitely many.
LEMMA OccFinite ==
  ASSUME NEW s \in Seq(Calls), NEW c \in Calls
  PROVE  /\ IsFiniteSet({i \in 1..Len(s) : s[i] = c})
         /\ Occ(s, c) \in Nat
         /\ \A i \in 1..Len(s) : s[i] = c => Occ(s, c) >= 1
<1> DEFINE S == {i \in 1..Len(s) : s[i] = c}
<1>1. Occ(s, c) = Cardinality(S) /\ S \in SUBSET (1..Len(s)) /\ Len(s) \in Int
  BY DEF Occ
<1>2. \A i \in 1..Len(s) : s[i] = c => S # {}
  OBVIOUS
<1> HIDE DEF S
<1>3. IsFiniteSet(1..Len(s))
  BY <1>1, FS_Interval
<1>4. IsFiniteSet(S)
  BY <1>1, <1>3, FS_Subset
<1>5. Cardinality(S) \in Nat /\ (Cardinality(S) = 0 => S = {})
  BY <1>4, FS_CardinalityType, FS_EmptySet
<1>6. S # {} => Cardinality(S) >= 1
  BY <1>5
<1>7. IsFiniteSet({i \in 1..Len(s) : s[i] = c})
  BY <1>4 DEF S
<1> QED
  BY <1>1, <1>2, <1>5, <1>6, <1>7

\* Submitting an operation adds one occurrence of it.
LEMMA OccAppend ==
  ASSUME NEW s \in Seq(Calls), NEW c \in Calls, NEW d \in Calls
  PROVE  Occ(Append(s, d), c) = Occ(s, c) + One(d = c)
<1> DEFINE S == {i \in 1..Len(s) : s[i] = c}
           T == {i \in 1..Len(Append(s, d)) : Append(s, d)[i] = c}
<1>1. IsFiniteSet(S)
  BY OccFinite
<1>2. Occ(s, c) = Cardinality(S) /\ Occ(Append(s, d), c) = Cardinality(T) /\ Occ(s, c) \in Nat
  BY OccFinite DEF Occ
<1>3. d = c => T = S \cup {Len(s) + 1} /\ Len(s) + 1 \notin S
  OBVIOUS
<1>4. d # c => T = S
  OBVIOUS
<1> HIDE DEF S, T
<1>5. d = c => Cardinality(T) = Cardinality(S) + 1
  BY <1>1, <1>3, FS_AddElement
<1>6. d = c => One(d = c) = 1
  BY DEF One
<1>7. d # c => One(d = c) = 0
  BY DEF One
<1> QED
  BY <1>2, <1>4, <1>5, <1>6, <1>7

\* Taking the head of the channel takes one of its occurrences.
LEMMA OccTail ==
  ASSUME NEW s \in Seq(Calls), s # <<>>, NEW c \in Calls
  PROVE  Occ(Tail(s), c) + One(Head(s) = c) <= Occ(s, c)
<1> DEFINE S == {i \in 1..Len(s) : s[i] = c}
           T == {i \in 1..Len(Tail(s)) : Tail(s)[i] = c}
           f == [i \in T |-> i + 1]
<1>1. IsFiniteSet(S) /\ Tail(s) \in Seq(Calls)
  BY OccFinite
<1>2. /\ Occ(s, c) = Cardinality(S) /\ Occ(s, c) \in Nat
      /\ Occ(Tail(s), c) = Cardinality(T) /\ Occ(Tail(s), c) \in Nat
  BY <1>1, OccFinite DEF Occ
<1>3. \A i \in T : i \in Nat /\ i + 1 \in S \ {1}
  <2>1. \A i \in 1..Len(Tail(s)) : i + 1 \in 1..Len(s) /\ i + 1 # 1 /\ Tail(s)[i] = s[i + 1]
    OBVIOUS
  <2> QED
    BY <2>1
<1>4. Head(s) = c => 1 \in S
  OBVIOUS
<1> HIDE DEF S, T
<1>5. f \in Injection(T, S \ {1})
  BY <1>3 DEF Injection, IsInjective
<1> HIDE DEF f
<1>6. IsFiniteSet(S \ {1}) /\ Cardinality(S \ {1}) = IF 1 \in S THEN Cardinality(S) - 1 ELSE Cardinality(S)
  BY <1>1, FS_RemoveElement
<1>7. Cardinality(T) <= Cardinality(S \ {1})
  BY <1>5, <1>6, FS_Injection
<1>8. Head(s) = c => One(Head(s) = c) = 1
  BY DEF One
<1>9. Head(s) # c => One(Head(s) = c) = 0
  BY DEF One
<1> QED
  BY <1>2, <1>4, <1>6, <1>7, <1>8, <1>9

\* How often an operation is under way is a number.
LEMMA TokensType ==
  ASSUME Types, NEW c \in Calls
  PROVE  Tokens(c) \in Nat /\ Occ(stateOpCh, c) \in Nat
<1>1. Occ(stateOpCh, c) \in Nat
  BY OccFinite DEF Types, ChannelsType
<1> QED
  BY <1>1 DEF Tokens, One

\* The loop moves operations on; it never makes one more of them.
LEMMA LoopTokens ==
  ASSUME Types, Idle, Roles, Loop \/ UNCHANGED vars, NEW c \in Calls
  PROVE  Tokens(c)' <= Tokens(c)
<1>1. Occ(stateOpCh, c) \in Nat /\ c # NoCall /\ req[c].id \in Ids
  BY TokensType, RoundAssumption DEF Types, CallsType, Request
<1>2. CASE DoOp
  <2> DEFINE o == Head(stateOpCh)
  <2>1. /\ o \in Calls /\ req[o].id \in Ids
        /\ sending = NoCall /\ notify = {} /\ current = NoCall
        /\ Replied(o) \/ Subscribes(o) \/ Notifies(o)
        /\ stateOpCh # <<>> /\ stateOpCh' = Tail(stateOpCh)
        /\ UNCHANGED <<req, doneCh>>
    BY <1>2, DoOpShape
  <2>2. Occ(stateOpCh', c) \in Nat /\ Occ(stateOpCh', c) + One(o = c) <= Occ(stateOpCh, c)
    <3>1. stateOpCh \in Seq(Calls)
      BY DEF Types, ChannelsType
    <3>2. Tail(stateOpCh) \in Seq(Calls)
      BY <2>1, <3>1
    <3> QED
      BY <2>1, <3>1, <3>2, OccTail, OccFinite
  <2>3. getOpSubs \in [Ids -> SUBSET Calls]
    BY DEF Types, LoopType
  <2> HIDE DEF o
  <2>4. CASE Replied(o)
    <3>1. /\ sending' = o /\ notify' = {} /\ current' # c
          /\ c \in getOpSubs'[req[c].id] => c \in getOpSubs[req[c].id]
      BY <1>1, <2>4 DEF Replied
    <3> QED
      BY <1>1, <2>1, <2>2, <3>1 DEF Tokens, One
  <2>5. CASE Subscribes(o)
    <3>1. /\ UNCHANGED <<sending, notify, current>>
          /\ c # o => (c \in getOpSubs'[req[c].id] <=> c \in getOpSubs[req[c].id])
          /\ c = o => c \notin getOpSubs[req[c].id]
      BY <1>1, <2>1, <2>3, <2>5 DEF Subscribes
    <3> QED
      BY <1>1, <2>1, <2>2, <3>1 DEF Tokens, One
  <2>6. CASE Notifies(o)
    <3> DEFINE id == req[o].id
    <3>1. /\ c \in getOpSubs[id] => req[c].id = id
          /\ c \in getOpSubs[id] => c # o
      BY <2>1, <2>6 DEF Notifies, Roles
    <3>2. /\ current' = o
          /\ c \in getOpSubs'[req[c].id] => c \in getOpSubs[req[c].id] /\ req[c].id # id
          /\ c = sending' \/ c \in notify' => c \in getOpSubs[id]
          /\ ~(c = sending' /\ c \in notify')
      BY <1>1, <2>1, <2>3, <2>6 DEF Notifies
    <3> QED
      BY <1>1, <2>1, <2>2, <3>1, <3>2 DEF Tokens, One
  <2> QED
    BY <2>1, <2>4, <2>5, <2>6
<1>3. CASE Send
  <2>1. /\ UNCHANGED <<stateOpCh, req, getOpSubs>>
        /\ sending # NoCall /\ sending \notin doneCh /\ doneCh' = doneCh \cup {sending}
    BY <1>3 DEF Send
  <2>2. CASE \E s \in notify : sending' = s /\ notify' = notify \ {s} /\ UNCHANGED current
    BY <1>1, <2>1, <2>2 DEF Tokens, One
  <2>3. CASE notify = {} /\ sending' = current /\ current' = NoCall /\ UNCHANGED notify
    BY <1>1, <2>1, <2>3 DEF Tokens, One
  <2> QED
    BY <1>3, <2>2, <2>3 DEF Send
<1>4. CASE BeginDrain \/ FinishDrain \/ CloseRound \/ UNCHANGED vars
  BY <1>1, <1>4, TokensType DEF BeginDrain, FinishDrain, CloseRound, vars, loopVars, Tokens, One
<1> QED
  BY <1>2, <1>3, <1>4 DEF Loop

\* A step of one call leaves alone how often the other operations are under way;
\* submitting adds one, receiving takes one away.
LEMMA CallerTokens ==
  ASSUME Types, Idle, Roles, NEW c \in Calls, Caller(c) \/ CancelContext(c), NEW d \in Calls
  PROVE  /\ d # c => Tokens(d)' = Tokens(d)
         /\ Submit(c) => Tokens(c)' = Tokens(c) + 1
         /\ Receive(c) => Tokens(c)' = Tokens(c) - 1
         /\ ~Submit(c) /\ ~Receive(c) => Tokens(d)' = Tokens(d)
<1>1. UNCHANGED <<req, getOpSubs, notify, sending, current>>
  BY CallersLocal DEF loopVars
<1>2. Occ(stateOpCh, d) \in Nat /\ Occ(stateOpCh, c) \in Nat /\ stateOpCh \in Seq(Calls)
  BY TokensType DEF Types, ChannelsType
<1>3. CASE Submit(c)
  <2>1. stateOpCh' = Append(stateOpCh, c) /\ doneCh' = doneCh /\ ~Receive(c)
    BY <1>3 DEF Submit, Receive
  <2>2. Occ(stateOpCh', d) = Occ(stateOpCh, d) + One(c = d) /\ Occ(stateOpCh', c) = Occ(stateOpCh, c) + 1
    BY <1>2, <2>1, OccAppend DEF One
  <2> QED
    BY <1>1, <1>2, <1>3, <2>1, <2>2 DEF Tokens, One
<1>4. CASE Receive(c)
  <2>1. c \in doneCh /\ doneCh' = doneCh \ {c} /\ UNCHANGED stateOpCh
    BY <1>4 DEF Receive
  <2>2. ~Submit(c)
    BY <1>4 DEF Submit, Receive
  <2> QED
    BY <1>1, <1>2, <1>4, <2>1, <2>2 DEF Tokens, One
<1>5. CASE ~Submit(c) /\ ~Receive(c)
  <2>1. UNCHANGED <<stateOpCh, doneCh>>
    BY <1>5 DEF Caller, CancelContext, SeeClosed, SeeCanceled, SeeTimeout, FinalizeCall, StopCall, StopReturn
  <2> QED
    BY <1>1, <1>5, <2>1 DEF Tokens, One
<1> QED
  BY <1>3, <1>4, <1>5

\* An operation is never under way more often than its caller answers for.
LEMMA BoundedInvariant == Spec => []Bounded
<1>1. ASSUME Init PROVE Bounded
  <2>1. Types /\ stateOpCh = <<>>
    BY <1>1, InitTypes DEF Init
  <2>2. ASSUME NEW c \in Calls PROVE Tokens(c) = 0
    <3>1. {i \in 1..Len(stateOpCh) : stateOpCh[i] = c} = {}
      BY <2>1
    <3>2. Occ(stateOpCh, c) = 0
      BY <3>1, FS_EmptySet DEF Occ
    <3>3. req[c].id \in Ids /\ c # NoCall
      BY <2>1, RoundAssumption DEF Types, CallsType, Request
    <3> QED
      BY <1>1, <3>2, <3>3 DEF Init, Tokens, One
  <2> QED
    BY <2>2 DEF Bounded
<1>2. ASSUME Types, Idle, Roles, Bounded, Loop \/ UNCHANGED vars PROVE Bounded'
  <2>1. UNCHANGED <<pc, gaveUp>> /\ (phase' # "stopped" => phase # "stopped")
    BY <1>2 DEF Loop, DoOp, Send, BeginDrain, FinishDrain, CloseRound, vars, callVars
  <2>2. ASSUME NEW c \in Calls PROVE Tokens(c)' <= Tokens(c) /\ Tokens(c) \in Nat /\ Tokens(c)' \in Nat
    <3>1. stateOpCh' \in Seq(Calls)
      BY <1>2, NextTypes DEF Next, Types, ChannelsType
    <3>2. Occ(stateOpCh', c) \in Nat
      BY <3>1, OccFinite
    <3>3. Tokens(c)' \in Nat
      BY <3>2 DEF Tokens, One
    <3> QED
      BY <1>2, <3>3, LoopTokens, TokensType
  <2> QED
    BY <1>2, <2>1, <2>2 DEF Bounded
<1>3. ASSUME Types, Idle, Roles, Bounded, NEW c \in Calls, Caller(c) \/ CancelContext(c)
      PROVE  Bounded'
  <2>1. /\ phase' = phase
        /\ \A d \in Calls \ {c} : /\ pc'[d] = pc[d] /\ Tokens(d)' = Tokens(d)
                                  /\ d \in gaveUp' <=> d \in gaveUp
    BY <1>3, CallersLocal, CallerTokens
  <2>2. Tokens(c) \in Nat
    BY <1>3, TokensType
  <2>3. /\ pc'[c] \in {"submit", "finalize", "stop", "stopWait"} => Tokens(c)' = 0
        /\ pc'[c] \in {"await", "resubmit"} => Tokens(c)' <= 1
        /\ pc'[c] = "reawait" => Tokens(c)' <= 2
        /\ pc'[c] = "done" /\ c \notin gaveUp' /\ phase # "stopped" => Tokens(c)' <= 1
    <3> DEFINE n == Tokens(c)
               k == Tokens(c)'
    <3>1. /\ pc[c] \in {"submit", "finalize", "stop", "stopWait"} => n = 0
          /\ pc[c] \in {"await", "resubmit"} => n <= 1
          /\ pc[c] = "reawait" => n <= 2
          /\ pc[c] = "done" /\ c \notin gaveUp /\ phase # "stopped" => n <= 1
      BY <1>3 DEF Bounded
    <3>2. /\ Submit(c) => k = n + 1
          /\ Receive(c) => k = n - 1
          /\ ~Submit(c) /\ ~Receive(c) => k = n
      BY <1>3, CallerTokens
    <3>3. n \in Nat /\ pc \in [Calls -> {"submit", "await", "resubmit", "reawait", "finalize",
                                         "stop", "stopWait", "done"}]
      BY <1>3, <2>2 DEF Types, CallsType
    <3> HIDE DEF n, k
    <3>4. CASE Submit(c)
      <4>1. \/ pc[c] = "submit" /\ pc'[c] = "await"
            \/ pc[c] = "resubmit" /\ pc'[c] = "reawait"
        BY <3>3, <3>4 DEF Submit
      <4> QED
        BY <3>1, <3>2, <3>3, <3>4, <4>1 DEF n, k
    <3>5. CASE Receive(c)
      <4>1. pc[c] \in {"await", "reawait"} /\ pc'[c] \in {"resubmit", "done"}
            /\ (pc[c] = "reawait" => pc'[c] = "done")
        BY <1>3, <3>5, ReturnPlace DEF Receive
      <4> QED
        BY <3>1, <3>2, <3>3, <3>5, <4>1 DEF n, k
    <3>6. CASE ~Submit(c) /\ ~Receive(c)
      <4>1. k = n
        BY <3>2, <3>6
      <4>2. CASE SeeClosed(c) \/ SeeCanceled(c) \/ SeeTimeout(c)
        <5>1. /\ pc[c] \in {"submit", "await", "resubmit", "reawait"}
              /\ pc'[c] \in {"resubmit", "done"}
              /\ pc[c] \notin {"submit", "await"} => pc'[c] = "done"
              /\ pc[c] = "reawait" => phase = "stopped" \/ c \in gaveUp'
          BY <1>3, <4>2, ReturnPlace DEF SeeClosed, SeeCanceled, SeeTimeout
        <5> QED
          BY <3>1, <3>3, <4>1, <5>1 DEF n, k
      <4>3. CASE FinalizeCall(c) \/ StopCall(c) \/ StopReturn(c)
        <5>1. pc[c] \in {"finalize", "stop", "stopWait"} /\ pc'[c] \in {"stopWait", "done"}
          BY <3>3, <4>3 DEF FinalizeCall, StopCall, StopReturn
        <5> QED
          BY <3>1, <3>3, <4>1, <5>1 DEF n, k
      <4>4. CASE CancelContext(c)
        <5>1. pc' = pc /\ gaveUp' = gaveUp
          BY <4>4 DEF CancelContext, callVars
        <5> QED
          BY <3>1, <4>1, <5>1 DEF n, k
      <4> QED
        BY <1>3, <3>6, <4>2, <4>3, <4>4 DEF Caller
    <3> QED
      BY <3>4, <3>5, <3>6
  <2> QED
    BY <1>3, <2>1, <2>3 DEF Bounded
<1>4. Types /\ Idle /\ Roles /\ Bounded /\ [Next]_vars => Bounded'
  BY <1>2, <1>3 DEF Next
<1> QED
  BY <1>1, <1>4, TypesInvariant, ControlInvariant, PTL DEF Spec

\* A loop that is blocked on a full doneCh is blocked on a caller that is about to empty
\* it, or on one whose cancellation timed out: nothing else can block it.
THEOREM LoopWaitsForReceiver == Spec => []LoopNeverStuck
<1>1. ASSUME Types, Idle, Bounded, sending \in doneCh
      PROVE  pc[sending] \in {"await", "reawait"} \/ sending \in gaveUp
  <2>1. sending \in Calls /\ sending # NoCall
    BY <1>1, RoundAssumption DEF Types, ChannelsType
  <2>2. phase # "stopped"
    BY <1>1, <2>1 DEF Idle
  <2>3. Tokens(sending) >= 2 /\ Tokens(sending) \in Nat
    <3>1. Occ(stateOpCh, sending) \in Nat /\ Tokens(sending) \in Nat
      BY <1>1, <2>1, TokensType
    <3> QED
      BY <1>1, <3>1 DEF Tokens, One
  <2> QED
    BY <1>1, <2>1, <2>2, <2>3 DEF Bounded, Types, CallsType
<1>2. Types /\ Idle /\ Roles /\ Bounded => LoopNeverStuck
  BY <1>1 DEF LoopNeverStuck
<1> QED
  BY <1>2, TypesInvariant, ControlInvariant, BoundedInvariant, PTL

-----------------------------------------------------------------------------
(* GetCertificate *)

\* An execution that returns without an error has received an operation that was not
\* refused.
LEMMA CleanReturn ==
  ASSUME Types, Roles, NEW c \in Calls, Caller(c) \/ CancelContext(c),
         req[c].kind \in OpKinds, pc'[c] = "done", errs'[c] = {}
  PROVE  \/ pc[c] = "done" /\ errs[c] = {} /\ got' = got
         \/ /\ pc[c] \in {"await", "reawait"} /\ c \in doneCh /\ c \notin rejected /\ errs[c] = {}
            /\ req[c].kind = "get" /\ pc[c] = "await" /\ c \in comms => c \in got'
<1>1. pc[c] \notin {"finalize", "stop", "stopWait"}
  BY DEF Roles
<1>2. CASE CancelContext(c)
  BY <1>2 DEF CancelContext, callVars
<1>3. CASE Submit(c)
  BY <1>3 DEF Submit, Types, CallsType
<1>4. CASE Receive(c)
  <2> DEFINE es == IF c \in rejected THEN {"rejected"} ELSE {}
  <2>1. pc[c] \in {"await", "reawait"} /\ c \in doneCh /\ Return(c, es)
    BY <1>4 DEF Receive
  <2>2. /\ errs'[c] = errs[c] \cup es
        /\ req[c].kind = "get" /\ pc[c] = "await" /\ c \in comms => c \in got'
    BY <2>1, ReturnPlace
  <2>3. es = {} /\ errs[c] = {}
    BY <2>2
  <2>4. c \notin rejected
    BY <2>3
  <2> QED
    BY <2>1, <2>2, <2>3, <2>4
<1>5. CASE SeeClosed(c) \/ SeeCanceled(c) \/ SeeTimeout(c)
  <2>1. Return(c, {"closed"}) \/ Return(c, {"canceled"})
    BY <1>5 DEF SeeClosed, SeeCanceled, SeeTimeout
  <2>2. errs'[c] = errs[c] \cup {"closed"} \/ errs'[c] = errs[c] \cup {"canceled"}
    BY <2>1, ReturnPlace
  <2> QED
    BY <2>2
<1>6. CASE FinalizeCall(c) \/ StopCall(c) \/ StopReturn(c)
  BY <1>1, <1>6 DEF FinalizeCall, StopCall, StopReturn
<1> QED
  BY <1>2, <1>3, <1>4, <1>5, <1>6 DEF Caller

\* A call comes to its first await by submitting.
LEMMA CleanAwait ==
  ASSUME Types, NEW c \in Calls, Caller(c) \/ CancelContext(c), pc'[c] = "await"
  PROVE  \/ pc[c] = "submit" /\ Submit(c)
         \/ pc[c] = "await" /\ UNCHANGED <<doneCh, stateOpCh>>
<1>1. CASE CancelContext(c)
  BY <1>1 DEF CancelContext, callVars
<1>2. CASE Submit(c)
  BY <1>2 DEF Submit, Types, CallsType
<1>3. CASE Receive(c) \/ SeeClosed(c) \/ SeeCanceled(c) \/ SeeTimeout(c)
  <2>1. \E es : Return(c, es)
    BY <1>3 DEF Receive, SeeClosed, SeeCanceled, SeeTimeout
  <2> QED
    BY <2>1, ReturnPlace
<1>4. CASE FinalizeCall(c) \/ StopCall(c) \/ StopReturn(c)
  BY <1>4 DEF FinalizeCall, StopCall, StopReturn, Types, CallsType
<1> QED
  BY <1>1, <1>2, <1>3, <1>4 DEF Caller

\* In its first execution a GetCertificate is only ever answered with a certificate: its
\* operation is not subscribed and queued at once, so stateGet does not take it for a
\* cancellation.
LEMMA AnsweredInvariant == Spec => []Answered
<1>1. Init => Answered
  BY RoundAssumption DEF Init, Answered
<1>2. ASSUME Types, Idle, Roles, Bounded, Answered, DoOp PROVE Answered'
  <2> DEFINE o == Head(stateOpCh)
  <2>1. /\ o \in Calls
        /\ Replied(o) \/ Subscribes(o) \/ Notifies(o)
        /\ sending = NoCall
        /\ UNCHANGED <<req, pc, doneCh>>
    BY <1>2, DoOpShape
  <2>2. stateOpCh \in Seq(Calls) /\ stateOpCh # <<>>
    BY <1>2 DEF DoOp, Types, ChannelsType
  <2>3. 1 \in 1..Len(stateOpCh) /\ stateOpCh[1] = o
    BY <2>2
  <2>4. Occ(stateOpCh, o) \in Nat /\ Occ(stateOpCh, o) >= 1
    BY <2>1, <2>2, <2>3, OccFinite
  <2> HIDE DEF o
  <2>5. pc[o] = "await" => o \notin getOpSubs[req[o].id]
    <3>1. o \in getOpSubs[req[o].id] => Tokens(o) >= 2
      BY <2>4 DEF Tokens, One
    <3>2. Tokens(o) \in Nat
      BY <1>2, <2>1, TokensType
    <3> QED
      BY <1>2, <2>1, <3>1, <3>2 DEF Bounded
  <2>6. comms \subseteq comms'
    BY <2>1 DEF Replied, Subscribes, Notifies
  <2>7. ASSUME NEW c \in Calls, req[c].kind = "get", pc[c] = "await", c = sending'
        PROVE  c \in comms'
    <3>1. CASE Replied(o)
      BY <2>5, <2>7, <3>1 DEF Replied
    <3>2. CASE Subscribes(o)
      BY <2>1, <2>7, <3>2, RoundAssumption DEF Subscribes
    <3>3. CASE Notifies(o)
      BY <2>7, <3>3 DEF Notifies
    <3> QED
      BY <2>1, <3>1, <3>2, <3>3
  <2> QED
    BY <1>2, <2>1, <2>6, <2>7 DEF Answered
<1>3. ASSUME Types, Roles, Answered, Send PROVE Answered'
  <2>1. UNCHANGED <<req, pc>> /\ doneCh' = doneCh \cup {sending} /\ comms \subseteq comms'
    BY <1>3 DEF Send, callVars
  <2>2. \/ sending' \in comms'
        \/ sending' = NoCall
        \/ sending' = current /\ req[current].kind = "add"
    BY <1>3 DEF Send, Roles
  <2> QED
    BY <1>3, <2>1, <2>2, RoundAssumption DEF Answered
<1>4. ASSUME Answered, BeginDrain \/ FinishDrain \/ CloseRound \/ UNCHANGED vars PROVE Answered'
  BY <1>4 DEF BeginDrain, FinishDrain, CloseRound, vars, callVars, loopVars, Answered
<1>5. ASSUME Types, Bounded, Answered, NEW c \in Calls, Caller(c) \/ CancelContext(c)
      PROVE  Answered'
  <2>1. /\ UNCHANGED <<req, sending, comms>>
        /\ \A d \in Calls \ {c} : pc'[d] = pc[d] /\ (d \in doneCh' <=> d \in doneCh)
    BY <1>5, CallersLocal DEF loopVars
  <2>2. ASSUME pc'[c] = "await", c \in doneCh' \cup {sending'}, req[c].kind = "get" PROVE c \in comms
    <3>1. CASE pc[c] = "submit" /\ Submit(c)
      <4>1. c \in doneCh \cup {sending}
        BY <2>1, <2>2, <3>1 DEF Submit
      <4>2. Occ(stateOpCh, c) \in Nat /\ Tokens(c) = 0
        BY <1>5, <3>1, TokensType DEF Bounded
      <4> QED
        BY <4>1, <4>2 DEF Tokens, One
    <3>2. CASE pc[c] = "await" /\ UNCHANGED doneCh
      BY <1>5, <2>1, <2>2, <3>2 DEF Answered
    <3> QED
      BY <1>5, <2>2, <3>1, <3>2, CleanAwait
  <2> QED
    BY <1>5, <2>1, <2>2 DEF Answered
<1>6. Types /\ Idle /\ Roles /\ Bounded /\ Answered /\ [Next]_vars => Answered'
  BY <1>2, <1>3, <1>4, <1>5 DEF Next, Loop
<1> QED
  BY <1>1, <1>6, TypesInvariant, ControlInvariant, BoundedInvariant, PTL DEF Spec

\* GetCertificate returns a certificate or an error, also when its cancellation, the
\* certificate and Stop race.
THEOREM GetReturnsSomething == Spec => []GetNeverNilNil
<1>1. Init => GetNeverNilNil
  BY DEF Init, GetNeverNilNil
<1>2. ASSUME GetNeverNilNil, Loop \/ UNCHANGED vars PROVE GetNeverNilNil'
  BY <1>2, LoopKeepsCallers DEF GetNeverNilNil
<1>3. ASSUME Types, Roles, Answered, GetNeverNilNil, NEW c \in Calls, Caller(c) \/ CancelContext(c)
      PROVE  GetNeverNilNil'
  <2>1. /\ UNCHANGED req
        /\ \A d \in Calls \ {c} : pc'[d] = pc[d] /\ errs'[d] = errs[d] /\ (d \in got' <=> d \in got)
    BY <1>3, CallersLocal
  <2>2. ASSUME req[c].kind = "get", pc'[c] = "done", errs'[c] = {} PROVE c \in got'
    <3>1. CASE pc[c] = "done" /\ errs[c] = {} /\ got' = got
      BY <1>3, <2>2, <3>1 DEF GetNeverNilNil
    <3>2. CASE /\ pc[c] \in {"await", "reawait"} /\ c \in doneCh /\ errs[c] = {}
               /\ req[c].kind = "get" /\ pc[c] = "await" /\ c \in comms => c \in got'
      BY <1>3, <2>2, <3>2 DEF Roles, Answered
    <3> QED
      BY <1>3, <2>2, <3>1, <3>2, CleanReturn DEF OpKinds
  <2> QED
    BY <1>3, <2>1, <2>2 DEF GetNeverNilNil
<1>4. Types /\ Roles /\ Answered /\ GetNeverNilNil /\ [Next]_vars => GetNeverNilNil'
  BY <1>2, <1>3 DEF Next
<1> QED
  BY <1>1, <1>4, TypesInvariant, ControlInvariant, AnsweredInvariant, PTL DEF Spec

\* Wherever a waiting GetCertificate's operation is, every step that takes it from there
\* puts it somewhere else.
THEOREM WaitersRemembered == Spec => []WaiterRemembered
<1>1. ASSUME Init PROVE WaiterRemembered
  <2>1. \A c \in Calls : pc[c] # "await"
    BY <1>1 DEF Init
  <2> QED
    BY <2>1 DEF WaiterRemembered
<1>2. ASSUME Types, Idle, Roles, WaiterRemembered, DoOp PROVE WaiterRemembered'
  <2> DEFINE o == Head(stateOpCh)
  <2>1. /\ o \in Calls /\ req[o].id \in Ids
        /\ sending = NoCall /\ notify = {} /\ phase \in {"run", "drain"}
        /\ Replied(o) \/ Subscribes(o) \/ Notifies(o)
        /\ stateOpCh # <<>> /\ stateOpCh' = Tail(stateOpCh)
        /\ UNCHANGED <<req, pc, doneCh, phase>>
    BY <1>2, DoOpShape
  <2>2. stateOpCh \in Seq(Calls) /\ getOpSubs \in [Ids -> SUBSET Calls]
    BY <1>2 DEF Types, ChannelsType, LoopType
  <2> SUFFICES ASSUME NEW c \in Calls, req[c].kind = "get", pc[c] = "await"
               PROVE  \/ c \in doneCh' \cup notify' \cup {sending'} \cup getOpSubs'[req[c].id]
                      \/ Queued(c)'
    BY <2>1 DEF WaiterRemembered
  <2>3. c # NoCall /\ req[c].id \in Ids
    BY <1>2, RoundAssumption DEF Types, CallsType, Request
  <2>4. c \in doneCh \cup getOpSubs[req[c].id] \/ Queued(c)
    BY <1>2, <2>1, <2>3 DEF WaiterRemembered
  <2>5. ASSUME Queued(c), c # o PROVE Queued(c)'
    <3>1. PICK i \in 1..Len(stateOpCh) : stateOpCh[i] = c
      BY <2>5 DEF Queued
    <3>2. i # 1
      BY <2>2, <2>5, <3>1
    <3>3. i - 1 \in 1..Len(Tail(stateOpCh)) /\ Tail(stateOpCh)[i - 1] = c
      BY <2>1, <2>2, <3>1, <3>2
    <3> QED
      BY <2>1, <3>3 DEF Queued
  <2> HIDE DEF o
  <2>6. CASE Replied(o)
    <3>1. c = o => c = sending'
      BY <2>6 DEF Replied
    <3>2. c # o /\ c \in getOpSubs[req[c].id] => c \in getOpSubs'[req[c].id]
      BY <2>3, <2>6 DEF Replied
    <3> QED
      BY <2>1, <2>4, <2>5, <3>1, <3>2
  <2>7. CASE Subscribes(o)
    <3>1. c = o \/ c \in getOpSubs[req[c].id] => c \in getOpSubs'[req[c].id]
      BY <2>1, <2>2, <2>3, <2>7 DEF Subscribes
    <3> QED
      BY <2>1, <2>4, <2>5, <3>1
  <2>8. CASE Notifies(o)
    <3>1. c # o
      BY <2>8 DEF Notifies
    <3>2. c \in getOpSubs[req[c].id] => c \in notify' \cup {sending'} \cup getOpSubs'[req[c].id]
      BY <2>1, <2>2, <2>3, <2>8 DEF Notifies
    <3> QED
      BY <2>1, <2>4, <2>5, <3>1, <3>2
  <2> QED
    BY <2>1, <2>6, <2>7, <2>8
<1>3. ASSUME WaiterRemembered, Send PROVE WaiterRemembered'
  <2>1. /\ UNCHANGED <<req, pc, phase, stateOpCh, getOpSubs>> /\ doneCh' = doneCh \cup {sending}
        /\ notify \subseteq notify' \cup {sending'}
    BY <1>3 DEF Send, callVars
  <2> QED
    BY <1>3, <2>1 DEF WaiterRemembered, Queued
<1>4. ASSUME WaiterRemembered, BeginDrain \/ FinishDrain \/ CloseRound \/ UNCHANGED vars PROVE WaiterRemembered'
  BY <1>4 DEF BeginDrain, FinishDrain, CloseRound, vars, callVars, loopVars, WaiterRemembered, Queued
<1>5. ASSUME Types, WaiterRemembered, NEW c \in Calls, Caller(c) \/ CancelContext(c)
      PROVE  WaiterRemembered'
  <2>1. /\ UNCHANGED <<req, phase, getOpSubs, notify, sending>>
        /\ \A d \in Calls \ {c} : pc'[d] = pc[d] /\ (d \in doneCh' <=> d \in doneCh)
    BY <1>5, CallersLocal DEF loopVars
  <2>2. stateOpCh \in Seq(Calls)
    BY <1>5 DEF Types, ChannelsType
  <2>3. stateOpCh' = stateOpCh \/ stateOpCh' = Append(stateOpCh, c)
    BY <1>5 DEF Caller, CancelContext, Submit, Receive, SeeClosed, SeeCanceled, SeeTimeout,
                FinalizeCall, StopCall, StopReturn
  <2>4. \A d \in Calls : Queued(d) => Queued(d)'
    BY <2>2, <2>3 DEF Queued
  <2>5. Submit(c) => Queued(c)'
    BY <2>2 DEF Submit, Queued
  <2>6. pc'[c] = "await" => Submit(c) \/ (pc[c] = "await" /\ UNCHANGED doneCh)
    BY <1>5, CleanAwait
  <2> QED
    BY <1>5, <2>1, <2>4, <2>5, <2>6 DEF WaiterRemembered
<1>6. Types /\ Idle /\ Roles /\ WaiterRemembered /\ [Next]_vars => WaiterRemembered'
  BY <1>2, <1>3, <1>4, <1>5 DEF Next, Loop
<1> QED
  BY <1>1, <1>6, TypesInvariant, ControlInvariant, PTL DEF Spec

-----------------------------------------------------------------------------
(* AddCertificate and AddSignature *)

\* Nothing but a Delete of its id takes a certificate or a signature away.
LEMMA DoOpKeepsCertificate ==
  ASSUME Types, quorum \in QuorumType, DoOp, NEW id \in Ids, Undeleted(id), Get(quorum, id)
  PROVE  /\ Get(quorum', id)
         /\ quorum.certificates[id].signers \subseteq quorum'.certificates[id].signers
<1> DEFINE o == Head(stateOpCh)
<1>1. o \in Calls /\ req[o].id \in Ids
  BY HeadIsCall DEF DoOp
<1>2. \/ StateAdd(o) \/ StateGet(o) \/ StateAddSign(o)
      \/ req[o].kind = "delete" /\ StateDelete(o)
  BY DEF DoOp
<1> HIDE DEF o
<1>3. CASE StateAdd(o)
  <2>1. CASE CanAdd(quorum, req[o].id)
    <3>1. req[o].id # id /\ quorum' = Add(quorum, req[o].id)
      BY <1>3, <2>1 DEF StateAdd, CanAdd
    <3> QED
      BY <1>1, <3>1 DEF Add, Get, QuorumType
  <2>2. CASE ~CanAdd(quorum, req[o].id)
    BY <1>3, <2>2 DEF StateAdd
  <2> QED
    BY <2>1, <2>2
<1>4. CASE StateGet(o)
  BY <1>4 DEF StateGet
<1>5. CASE StateAddSign(o)
  <2>1. CASE CanSign(quorum, req[o].id, req[o].key)
    <3>1. quorum' = AddSignature(quorum, req[o].id, req[o].key)
      BY <1>5, <2>1 DEF StateAddSign
    <3> QED
      BY <1>1, <3>1 DEF AddSignature, Get, QuorumType
  <2>2. CASE ~CanSign(quorum, req[o].id, req[o].key)
    BY <1>5, <2>2 DEF StateAddSign
  <2> QED
    BY <2>1, <2>2
<1>6. CASE req[o].kind = "delete" /\ StateDelete(o)
  <2>1. req[o].id # id
    BY <1>1, <1>6 DEF Undeleted
  <2> QED
    BY <1>1, <1>6, <2>1 DEF StateDelete, Delete, Get, QuorumType
<1> QED
  BY <1>2, <1>3, <1>4, <1>5, <1>6

\* What the loop has just executed and not refused is in the quorum.
LEMMA DoOpEffect ==
  ASSUME Types, quorum \in QuorumType, DoOp, NEW o, o = Head(stateOpCh), o \notin rejected'
  PROVE  /\ req[o].kind \in {"add", "sign"} => Get(quorum', req[o].id)
         /\ req[o].kind = "sign" => req[o].key \in quorum'.certificates[req[o].id].signers
<1>1. o \in Calls /\ req[o].id \in Ids
  BY HeadIsCall DEF DoOp
<1>2. CASE req[o].kind = "add"
  <2>1. StateAdd(o)
    BY <1>2 DEF DoOp
  <2>2. quorum' = Add(quorum, req[o].id)
    BY <2>1 DEF StateAdd
  <2> QED
    BY <1>1, <1>2, <2>2 DEF Add, Get, QuorumType, NewCertificate
<1>3. CASE req[o].kind = "sign"
  <2>1. StateAddSign(o)
    BY <1>3 DEF DoOp
  <2>2. quorum' = AddSignature(quorum, req[o].id, req[o].key)
    BY <2>1 DEF StateAddSign
  <2> QED
    BY <1>1, <2>2 DEF AddSignature, Get, QuorumType
<1> QED
  BY <1>2, <1>3

\* A successful AddCertificate or AddSignature took effect before its caller returned, and
\* the effect stays until somebody deletes the certificate.
THEOREM EffectsDurable == Spec => []EffectDurable
<1>1. Init => Effects
  BY RoundAssumption DEF Init, Effects, Performed
<1>2. ASSUME Types, QCP!IInv, Idle, Roles, Effects, DoOp PROVE Effects'
  <2> DEFINE o == Head(stateOpCh)
  <2>1. /\ o \in Calls /\ req[o].id \in Ids
        /\ Replied(o) \/ Subscribes(o) \/ Notifies(o)
        /\ sending = NoCall /\ current = NoCall
        /\ UNCHANGED <<req, pc, errs, doneCh>>
    BY <1>2, DoOpShape
  <2>2. quorum \in QuorumType
    BY <1>2 DEF QCP!IInv, QCP!TypeOK, QCP!QuorumType, QuorumType, QCP!Cert, Cert
  <2>3. rejected \subseteq rejected'
    BY <1>2 DEF DoOp, StateAdd, StateGet, StateDelete, StateAddSign
  <2>4. SUFFICES ASSUME NEW c \in Calls, Performed(c)', Undeleted(req[c].id),
                        req[c].kind \in {"add", "sign"}
                 PROVE  /\ Get(quorum', req[c].id)
                        /\ req[c].kind = "sign" => req[c].key \in quorum'.certificates[req[c].id].signers
    BY <2>1 DEF Effects, Undeleted
  <2>5. req[c].id \in Ids /\ c # NoCall
    BY <1>2, RoundAssumption DEF Types, CallsType, Request
  <2>6. CASE Performed(c)
    <3>1. /\ Get(quorum, req[c].id)
          /\ req[c].kind = "sign" => req[c].key \in quorum.certificates[req[c].id].signers
      BY <1>2, <2>4, <2>6 DEF Effects
    <3> QED
      BY <1>2, <2>2, <2>4, <2>5, <3>1, DoOpKeepsCertificate
  <2>7. CASE c = o /\ c \notin rejected'
    BY <1>2, <2>2, <2>4, <2>7, DoOpEffect
  <2>8. Performed(c) \/ (c = o /\ c \notin rejected')
    <3>1. c \in doneCh \/ (pc[c] = "done" /\ errs[c] = {}) => Performed(c) \/ c \in rejected
      BY DEF Performed
    <3>2. c \in {sending', current'} => c = o
      <4> HIDE DEF o
      <4>1. CASE Notifies(o)
        BY <1>2, <2>1, <2>4, <4>1 DEF Notifies, Roles
      <4> QED
        BY <2>1, <2>5, <4>1 DEF Replied, Subscribes
    <3> QED
      BY <2>1, <2>3, <2>4, <3>2 DEF Performed
  <2> QED
    BY <2>6, <2>7, <2>8
<1>3. ASSUME Types, Roles, Effects, Send PROVE Effects'
  <2>1. UNCHANGED <<req, pc, errs, quorum, rejected>> /\ doneCh' = doneCh \cup {sending}
    BY <1>3 DEF Send, callVars
  <2>2. \/ sending' \in notify /\ current' = current
        \/ sending' = current /\ current' = NoCall
    BY <1>3 DEF Send
  <2>3. ASSUME NEW c \in Calls, Performed(c)', req[c].kind \in {"add", "sign"}
        PROVE  Performed(c)
    BY <1>3, <2>1, <2>2, <2>3, RoundAssumption DEF Performed, Roles
  <2> QED
    BY <1>3, <2>1, <2>3 DEF Effects, Undeleted
<1>4. ASSUME Effects, BeginDrain \/ FinishDrain \/ CloseRound \/ UNCHANGED vars PROVE Effects'
  BY <1>4 DEF BeginDrain, FinishDrain, CloseRound, vars, callVars, loopVars, Effects, Performed, Undeleted
<1>5. ASSUME Types, Roles, Effects, NEW c \in Calls, Caller(c) \/ CancelContext(c) PROVE Effects'
  <2>1. /\ UNCHANGED <<req, quorum, rejected, sending, current>>
        /\ \A d \in Calls \ {c} : /\ pc'[d] = pc[d] /\ errs'[d] = errs[d]
                                  /\ d \in doneCh' <=> d \in doneCh
    BY <1>5, CallersLocal DEF loopVars
  <2>2. doneCh' \subseteq doneCh
    BY <1>5 DEF Caller, CancelContext, Submit, Receive, SeeClosed, SeeCanceled, SeeTimeout,
                FinalizeCall, StopCall, StopReturn
  <2>3. ASSUME Performed(c)', req[c].kind \in {"add", "sign"} PROVE Performed(c)
    <3>1. CASE pc'[c] = "done" /\ errs'[c] = {}
      BY <1>5, <2>3, <3>1, CleanReturn DEF OpKinds, Performed
    <3>2. CASE c \in doneCh' \cup {sending', current'} /\ c \notin rejected'
      BY <2>1, <2>2, <3>2 DEF Performed
    <3> QED
      BY <2>3, <3>1, <3>2 DEF Performed
  <2>4. \A d \in Calls \ {c} : Performed(d)' => Performed(d)
    BY <2>1 DEF Performed
  <2> QED
    BY <1>5, <2>1, <2>3, <2>4 DEF Effects, Undeleted
<1>6. Types /\ QCP!IInv /\ Idle /\ Roles /\ Effects /\ [Next]_vars => Effects'
  BY <1>2, <1>3, <1>4, <1>5 DEF Next, Loop
<1>7. Effects => EffectDurable
  BY DEF Effects, EffectDurable, Performed, Undeleted
<1> QED
  BY <1>1, <1>6, <1>7, TypesInvariant, QuorumInvariant, ControlInvariant, PTL DEF Spec
=============================================================================
