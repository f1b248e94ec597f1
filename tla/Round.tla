------------------------------- MODULE Round --------------------------------
(***************************************************************************)
(* rebro/gossip/internal/round: one broadcasting round.  Many goroutines   *)
(* call the round's methods; each call makes one operation, submits it to  *)
(* the bounded channel stateOpCh and awaits its doneCh, the round's closing *)
(* or the end of its context.  The state loop alone reads and writes the   *)
(* quorum and the subscriptions, and blocks while a doneCh it sends on is  *)
(* full.                                                                    *)
(*                                                                          *)
(* A call and its operation are one element of Calls.  A call that has not *)
(* begun is one that has not yet reached its first select.  Calls of Stop  *)
(* do not overlap (RoundManager.tla shows that its callers see to it), so  *)
(* Stop's check and close are one step.                                     *)
(***************************************************************************)
EXTENDS StakeQuorum, Sequences

CONSTANTS
  Calls,          \* calls of the round's methods
  NoCall,         \* not a call
  Scenarios,      \* what the calls may ask for, together
  ChanSize        \* stateOperationsChannelSize

Kinds == {"add", "get", "delete", "sign", "finalize", "stop"}

Request == [kind : Kinds, id : Ids, key : Keys]

ASSUME RoundAssumption ==
  /\ NoCall \notin Calls
  /\ Scenarios \subseteq [Calls -> Request]
  /\ ChanSize \in Nat \ {0}

VARIABLES
  (* the callers *)
  req,        \* what each call asks for
  pc,         \* the select each call is at
  canceled,   \* calls whose context is done
  errs,       \* errors a call has joined so far, and returned once it is done
  got,        \* calls of GetCertificate that returned a certificate
  (* the operations *)
  doneCh,     \* operations whose doneCh (of size one) holds a value
  rejected,   \* operations with op.err set
  comms,      \* operations with op.comm set
  (* the round *)
  stateOpCh,  \* submitted operations
  getOpSubs,  \* subscribed operations by id
  finalCh,    \* finalCh is closed
  closeCh,    \* closeCh is closed
  phase,      \* stateLoop: "run", its deferred "drain", "closing" (the channel was
              \* seen empty), "stopped" (closedCh closed)
  sending,    \* the operation on whose doneCh the loop sends, or NoCall
  notify,     \* subscribers that stateAdd has still to notify
  current,    \* the add operation that stateAdd finishes after its subscribers
  quorum,     \* the rebro.QuorumCertificate
  dropped,    \* history: ids whose certificate was complete when it was deleted
  gaveUp      \* history: calls whose cancellation timed out

callVars  == <<pc, errs, got, gaveUp>>
loopVars  == <<getOpSubs, finalCh, sending, notify, current, rejected, comms, quorum, dropped>>
vars      == <<req, canceled, doneCh, stateOpCh, closeCh, phase, callVars, loopVars>>

Errors == {"canceled", "closed", "rejected"}

OpKinds == {"add", "get", "delete", "sign"}

TypeOK ==
  /\ req \in [Calls -> Request]
  /\ pc \in [Calls -> {"submit", "await", "resubmit", "reawait", "finalize",
                       "stop", "stopWait", "done"}]
  /\ canceled \in SUBSET Calls
  /\ errs \in [Calls -> SUBSET Errors]
  /\ got \in SUBSET Calls
  /\ gaveUp \in SUBSET Calls
  /\ doneCh \in SUBSET Calls
  /\ rejected \in SUBSET Calls
  /\ comms \in SUBSET Calls
  /\ stateOpCh \in Seq(Calls)
  /\ Len(stateOpCh) <= ChanSize
  /\ getOpSubs \in [Ids -> SUBSET Calls]
  /\ finalCh \in BOOLEAN
  /\ closeCh \in BOOLEAN
  /\ phase \in {"run", "drain", "closing", "stopped"}
  /\ sending \in Calls \cup {NoCall}
  /\ notify \in SUBSET Calls
  /\ current \in Calls \cup {NoCall}
  /\ quorum \in QuorumType
  /\ dropped \in SUBSET Ids

Init ==
  /\ req \in Scenarios
  /\ pc = [c \in Calls |-> CASE req[c].kind = "stop" -> "stop"
                             [] req[c].kind = "finalize" -> "finalize"
                             [] OTHER -> "submit"]
  /\ canceled = {} /\ got = {} /\ gaveUp = {}
  /\ doneCh = {} /\ rejected = {} /\ comms = {} /\ notify = {}
  /\ errs = [c \in Calls |-> {}]
  /\ stateOpCh = <<>>
  /\ getOpSubs = [id \in Ids |-> {}]
  /\ finalCh = FALSE /\ closeCh = FALSE
  /\ phase = "run"
  /\ sending = NoCall /\ current = NoCall
  /\ quorum = NewQuorum
  /\ dropped = {}

-----------------------------------------------------------------------------
(* Callers *)

\* The caller's context is done.  The selects of the first execOp, of Finalize
\* and of Stop look at it.
CancelContext(c) ==
  /\ pc[c] \in {"submit", "await", "finalize", "stopWait"}
  /\ c \notin canceled
  /\ canceled' = canceled \cup {c}
  /\ UNCHANGED <<req, doneCh, stateOpCh, closeCh, phase, callVars, loopVars>>

\* Fault: the second execution does not await its answer.
SubmitNoAwait(c) ==
  /\ pc[c] \in {"submit", "resubmit"}
  /\ Len(stateOpCh) < ChanSize
  /\ stateOpCh' = Append(stateOpCh, c)
  /\ pc' = [pc EXCEPT ![c] = IF @ = "submit" THEN "await" ELSE "done"]
  /\ UNCHANGED <<req, canceled, doneCh, closeCh, phase, errs, got, gaveUp, loopVars>>

\* Fault: the channel has no bound.
SubmitUnbounded(c) ==
  /\ pc[c] \in {"submit", "resubmit"}
  /\ stateOpCh' = Append(stateOpCh, c)
  /\ pc' = [pc EXCEPT ![c] = IF @ = "submit" THEN "await" ELSE "reawait"]
  /\ UNCHANGED <<req, canceled, doneCh, closeCh, phase, errs, got, gaveUp, loopVars>>

\* First select of execOp, in either of GetCertificate's two executions.
Submit(c) ==
  /\ pc[c] \in {"submit", "resubmit"}
  /\ Len(stateOpCh) < ChanSize
  /\ stateOpCh' = Append(stateOpCh, c)
  /\ pc' = [pc EXCEPT ![c] = IF @ = "submit" THEN "await" ELSE "reawait"]
  /\ UNCHANGED <<req, canceled, doneCh, closeCh, phase, errs, got, gaveUp, loopVars>>

\* execOp returns the errors es.  GetCertificate executes the operation over to
\* cancel its subscription when it failed and its context is done; otherwise the
\* call returns, a first execution with op.comm and a second one without it.
Return(c, es) ==
  LET first == pc[c] \in {"submit", "await"} IN
  IF first /\ req[c].kind = "get" /\ es # {} /\ c \in canceled
  THEN /\ pc' = [pc EXCEPT ![c] = "resubmit"]
       /\ errs' = [errs EXCEPT ![c] = es]
       /\ UNCHANGED got
  ELSE /\ pc' = [pc EXCEPT ![c] = "done"]
       /\ errs' = [errs EXCEPT ![c] = @ \cup es]
       /\ got' = IF first /\ req[c].kind = "get" /\ c \in comms THEN got \cup {c} ELSE got

\* Fault: execOp does not return the operation's error.
ReceiveNoError(c) ==
  /\ pc[c] \in {"await", "reawait"}
  /\ c \in doneCh
  /\ doneCh' = doneCh \ {c}
  /\ Return(c, {})
  /\ UNCHANGED <<req, canceled, stateOpCh, closeCh, phase, gaveUp, loopVars>>

\* Second select of execOp: the operation is done.
Receive(c) ==
  /\ pc[c] \in {"await", "reawait"}
  /\ c \in doneCh
  /\ doneCh' = doneCh \ {c}
  /\ Return(c, IF c \in rejected THEN {"rejected"} ELSE {})
  /\ UNCHANGED <<req, canceled, stateOpCh, closeCh, phase, gaveUp, loopVars>>

\* Fault: only the first select of execOp watches closedCh.
SeeClosedBeforeSubmit(c) ==
  /\ pc[c] \in {"submit", "resubmit"}
  /\ phase = "stopped"
  /\ Return(c, {"closed"})
  /\ UNCHANGED <<req, canceled, doneCh, stateOpCh, closeCh, phase, gaveUp, loopVars>>

\* Either select of execOp: the round has been closed.
SeeClosed(c) ==
  /\ pc[c] \in {"submit", "await", "resubmit", "reawait"}
  /\ phase = "stopped"
  /\ Return(c, {"closed"})
  /\ UNCHANGED <<req, canceled, doneCh, stateOpCh, closeCh, phase, gaveUp, loopVars>>

\* Either select of execOp: the caller's context is done.
SeeCanceled(c) ==
  /\ pc[c] \in {"submit", "await"}
  /\ c \in canceled
  /\ Return(c, {"canceled"})
  /\ UNCHANGED <<req, canceled, doneCh, stateOpCh, closeCh, phase, gaveUp, loopVars>>

\* Either select of the second execOp: subscriptionCancellationTimeout elapsed.
SeeTimeout(c) ==
  /\ pc[c] \in {"resubmit", "reawait"}
  /\ Return(c, {"canceled"})
  /\ gaveUp' = gaveUp \cup {c}
  /\ UNCHANGED <<req, canceled, doneCh, stateOpCh, closeCh, phase, loopVars>>

\* Finalize returns once finalCh is closed or its context is done.
FinalizeCall(c) ==
  /\ pc[c] = "finalize"
  /\ \/ finalCh /\ UNCHANGED errs
     \/ c \in canceled /\ errs' = [errs EXCEPT ![c] = {"canceled"}]
  /\ pc' = [pc EXCEPT ![c] = "done"]
  /\ UNCHANGED <<req, canceled, doneCh, stateOpCh, closeCh, phase, got, gaveUp, loopVars>>

\* Stop up to its second select.
StopCall(c) ==
  /\ pc[c] = "stop"
  /\ closeCh' = TRUE
  /\ IF closeCh
     THEN /\ pc' = [pc EXCEPT ![c] = "done"]
          /\ errs' = [errs EXCEPT ![c] = {"closed"}]
     ELSE /\ pc' = [pc EXCEPT ![c] = "stopWait"]
          /\ UNCHANGED errs
  /\ UNCHANGED <<req, canceled, doneCh, stateOpCh, phase, got, gaveUp, loopVars>>

\* Fault: Stop returns as soon as closing is triggered.
StopReturnEarly(c) ==
  /\ pc[c] = "stopWait"
  /\ pc' = [pc EXCEPT ![c] = "done"]
  /\ UNCHANGED <<req, canceled, doneCh, stateOpCh, closeCh, phase, errs, got, gaveUp, loopVars>>

\* Stop's second select.
StopReturn(c) ==
  /\ pc[c] = "stopWait"
  /\ \/ phase = "stopped" /\ UNCHANGED errs
     \/ c \in canceled /\ errs' = [errs EXCEPT ![c] = {"canceled"}]
  /\ pc' = [pc EXCEPT ![c] = "done"]
  /\ UNCHANGED <<req, canceled, doneCh, stateOpCh, closeCh, phase, got, gaveUp, loopVars>>

-----------------------------------------------------------------------------
(* The state loop's operations *)

\* SetError and SetCertificate of one operation: the loop is left sending on it.
Reply(o) == sending' = o /\ UNCHANGED <<notify, current>>

\* Fault: subscribers are not told of the new certificate.
StateAddSilent(o) ==
  LET id == req[o].id IN
  /\ Reply(o)
  /\ IF CanAdd(quorum, id)
     THEN quorum' = Add(quorum, id) /\ UNCHANGED rejected
     ELSE rejected' = rejected \cup {o} /\ UNCHANGED quorum
  /\ UNCHANGED <<getOpSubs, comms, finalCh, dropped>>

\* Fault: one subscriber is notified and all subscriptions are dropped.
StateAddNotifyOne(o) ==
  LET id == req[o].id IN
  /\ IF ~CanAdd(quorum, id)
     THEN rejected' = rejected \cup {o} /\ Reply(o) /\ UNCHANGED <<quorum, getOpSubs, comms>>
     ELSE /\ quorum' = Add(quorum, id)
          /\ getOpSubs' = [getOpSubs EXCEPT ![id] = {}]
          /\ UNCHANGED <<rejected, notify>>
          /\ \/ getOpSubs[id] = {} /\ Reply(o) /\ UNCHANGED comms
             \/ \E s \in getOpSubs[id] : /\ sending' = s
                                         /\ comms' = comms \cup {s}
                                         /\ current' = o
  /\ UNCHANGED <<finalCh, dropped>>

\* stateAdd: add the certificate, then notify its subscribers in map order, drop
\* their subscriptions and finish the operation.
StateAdd(o) ==
  LET id   == req[o].id
      subs == getOpSubs[id]
  IN
  /\ IF ~CanAdd(quorum, id)
     THEN rejected' = rejected \cup {o} /\ Reply(o) /\ UNCHANGED <<quorum, getOpSubs, comms>>
     ELSE /\ quorum' = Add(quorum, id)
          /\ getOpSubs' = [getOpSubs EXCEPT ![id] = {}]
          /\ UNCHANGED rejected
          /\ \/ subs = {} /\ Reply(o) /\ UNCHANGED comms
             \/ \E s \in subs : /\ sending' = s
                                /\ comms' = comms \cup {s}
                                /\ notify' = subs \ {s}
                                /\ current' = o
  /\ UNCHANGED <<finalCh, dropped>>

\* Fault: a get that finds no certificate is answered at once.
StateGetNoWait(o) ==
  /\ comms' = IF Get(quorum, req[o].id) THEN comms \cup {o} ELSE comms
  /\ Reply(o)
  /\ UNCHANGED <<quorum, getOpSubs, rejected, finalCh, dropped>>

\* stateGet: answer with the certificate, or subscribe, or, when the operation
\* is subscribed already, cancel its subscription.
StateGet(o) ==
  LET id == req[o].id IN
  /\ \/ /\ Get(quorum, id)
        /\ comms' = comms \cup {o}
        /\ Reply(o)
        /\ UNCHANGED getOpSubs
     \/ /\ ~Get(quorum, id)
        /\ o \notin getOpSubs[id]
        /\ getOpSubs' = [getOpSubs EXCEPT ![id] = @ \cup {o}]
        /\ UNCHANGED <<comms, sending, notify, current>>
     \/ /\ ~Get(quorum, id)
        /\ o \in getOpSubs[id]
        /\ getOpSubs' = [getOpSubs EXCEPT ![id] = @ \ {o}]
        /\ Reply(o)
        /\ UNCHANGED comms
  /\ UNCHANGED <<quorum, rejected, finalCh, dropped>>

StateDelete(o) ==
  LET id == req[o].id IN
  /\ IF CanDelete(quorum, id)
     THEN /\ quorum' = Delete(quorum, id)
          /\ dropped' = IF id \in List(quorum) THEN dropped \cup {id} ELSE dropped
          /\ UNCHANGED rejected
     ELSE rejected' = rejected \cup {o} /\ UNCHANGED <<quorum, dropped>>
  /\ Reply(o)
  /\ UNCHANGED <<getOpSubs, comms, finalCh>>

\* Fault: the round is final as soon as one certificate completes.
StateAddSignEager(o) ==
  LET id == req[o].id  key == req[o].key IN
  /\ IF CanSign(quorum, id, key)
     THEN /\ quorum' = AddSignature(quorum, id, key)
          /\ finalCh' = (finalCh \/ Completes(quorum, id, key))
          /\ UNCHANGED rejected
     ELSE rejected' = rejected \cup {o} /\ UNCHANGED <<quorum, finalCh>>
  /\ Reply(o)
  /\ UNCHANGED <<getOpSubs, comms, dropped>>

\* Fault: the error of AddSignature is not looked at.
StateAddSignUnchecked(o) ==
  LET id == req[o].id  key == req[o].key IN
  /\ quorum' = AddSignature(quorum, id, key)
  /\ finalCh' = (finalCh \/ (Completes(quorum, id, key) /\ Finalize(quorum')))
  /\ Reply(o)
  /\ UNCHANGED <<rejected, getOpSubs, comms, dropped>>

\* stateAddSign: sign, and when the signature leaves the certificate complete
\* and the quorum final, close finalCh unless it is closed.
StateAddSign(o) ==
  LET id == req[o].id  key == req[o].key IN
  /\ IF CanSign(quorum, id, key)
     THEN /\ quorum' = AddSignature(quorum, id, key)
          /\ finalCh' = (finalCh \/ (Completes(quorum, id, key) /\ Finalize(quorum')))
          /\ UNCHANGED rejected
     ELSE rejected' = rejected \cup {o} /\ UNCHANGED <<quorum, finalCh>>
  /\ Reply(o)
  /\ UNCHANGED <<getOpSubs, comms, dropped>>

-----------------------------------------------------------------------------
(* The state loop *)

\* Take the next operation and run it up to its first send.
DoOp ==
  /\ phase \in {"run", "drain"}
  /\ sending = NoCall
  /\ stateOpCh # <<>>
  /\ stateOpCh' = Tail(stateOpCh)
  /\ LET o == Head(stateOpCh) IN
       \/ req[o].kind = "add" /\ StateAdd(o)
       \/ req[o].kind = "get" /\ StateGet(o)
       \/ req[o].kind = "delete" /\ StateDelete(o)
       \/ req[o].kind = "sign" /\ StateAddSign(o)
  /\ UNCHANGED <<req, canceled, doneCh, closeCh, phase, callVars>>

\* The send on sending's doneCh goes through; go on with stateAdd's next
\* subscriber, then with the add operation itself.
Send ==
  /\ sending # NoCall
  /\ sending \notin doneCh
  /\ doneCh' = doneCh \cup {sending}
  /\ \/ \E s \in notify : /\ sending' = s
                          /\ comms' = comms \cup {s}
                          /\ notify' = notify \ {s}
                          /\ UNCHANGED current
     \/ /\ notify = {}
        /\ sending' = current
        /\ current' = NoCall
        /\ UNCHANGED <<comms, notify>>
  /\ UNCHANGED <<req, canceled, stateOpCh, closeCh, phase, callVars,
                 getOpSubs, finalCh, rejected, quorum, dropped>>

\* The main select sees closeCh; the deferred function takes over.
BeginDrain ==
  /\ phase = "run" /\ closeCh /\ sending = NoCall
  /\ phase' = "drain"
  /\ UNCHANGED <<req, canceled, doneCh, stateOpCh, closeCh, callVars, loopVars>>

\* Fault: the channel is not drained.
FinishUndrained ==
  /\ phase = "drain" /\ sending = NoCall
  /\ phase' = "closing"
  /\ UNCHANGED <<req, canceled, doneCh, stateOpCh, closeCh, callVars, loopVars>>

\* The drain's select finds the channel empty and takes its default case.
FinishDrain ==
  /\ phase = "drain" /\ sending = NoCall /\ stateOpCh = <<>>
  /\ phase' = "closing"
  /\ UNCHANGED <<req, canceled, doneCh, stateOpCh, closeCh, callVars, loopVars>>

\* closedCh is closed and the loop ends, with whatever was submitted meanwhile.
CloseRound ==
  /\ phase = "closing"
  /\ phase' = "stopped"
  /\ UNCHANGED <<req, canceled, doneCh, stateOpCh, closeCh, callVars, loopVars>>

Loop == DoOp \/ Send \/ BeginDrain \/ FinishDrain \/ CloseRound

Caller(c) ==
  \/ Submit(c)
  \/ Receive(c)
  \/ SeeClosed(c)
  \/ SeeCanceled(c)
  \/ SeeTimeout(c)
  \/ FinalizeCall(c)
  \/ StopCall(c)
  \/ StopReturn(c)

Next == Loop \/ \E c \in Calls : Caller(c) \/ CancelContext(c)

Spec == Init /\ [][Next]_vars

\* The goroutines are scheduled fairly: the loop keeps running and a caller
\* whose select has a ready case takes one.  No context has to be canceled.
Fairness == WF_vars(Loop) /\ \A c \in Calls : WF_vars(Caller(c))

FairSpec == Spec /\ Fairness

-----------------------------------------------------------------------------
(* Properties *)

\* The call's operation waits in the channel.
Queued(c) == \E i \in 1..Len(stateOpCh) : stateOpCh[i] = c

\* stateAdd and stateGet: nobody stays subscribed for a certificate that the
\* quorum has.
NoMissedCertificate == \A id \in Ids : Get(quorum, id) => getOpSubs[id] = {}

\* A GetCertificate that waits in its first execution is never forgotten: its
\* operation is queued, about to be answered, answered, or subscribed for.
WaiterRemembered ==
  \A c \in Calls :
    req[c].kind = "get" /\ pc[c] = "await" /\ phase # "stopped" =>
      \/ c \in doneCh \cup notify \cup {sending} \cup getOpSubs[req[c].id]
      \/ Queued(c)

\* finalCh is closed exactly when the quorum is final (stateAddSign checks it
\* only after a signature, and closes it once).
FinalIffQuorum == finalCh <=> Finalize(quorum)

\* GetCertificate never returns neither a certificate nor an error.
GetNeverNilNil ==
  \A c \in Calls : req[c].kind = "get" /\ pc[c] = "done" /\ errs[c] = {} => c \in got

\* A successful AddCertificate or AddSignature is in the quorum when the call
\* returns and stays there, unless someone deletes the certificate.
EffectDurable ==
  \A c \in Calls :
    /\ pc[c] = "done" /\ errs[c] = {}
    /\ \A d \in Calls : ~(req[d].kind = "delete" /\ req[d].id = req[c].id)
    => /\ req[c].kind = "add" => Get(quorum, req[c].id)
       /\ req[c].kind = "sign" => req[c].key \in quorum.certificates[req[c].id].signers

\* While the loop is blocked on a full doneCh (SetCertificate, SetError), that
\* operation's caller is at the select that empties it, unless it gave up its
\* cancellation after subscriptionCancellationTimeout.
LoopNeverStuck ==
  sending \in doneCh => pc[sending] \in {"await", "reawait"} \/ sending \in gaveUp

\* The loop waits for a caller that gave up and never comes back.
Stuck == sending \in doneCh /\ sending \in gaveUp

\* Stop "ensures all the in-progress state operations are completed": once a
\* Stop has returned without an error the quorum never changes again.
StopIsFinal ==
  [][(\E c \in Calls : req[c].kind = "stop" /\ pc[c] = "done" /\ errs[c] = {})
       => UNCHANGED <<quorum, finalCh>>]_vars

\* Once closing is triggered the round stops, unless a caller that gave up its
\* cancellation has left the loop blocked.
StopCompletes == closeCh ~> (phase = "stopped" \/ Stuck)

\* An operation submitted before the drain sees the channel empty is executed
\* (unless the loop is blocked for good).  One submitted between that moment and
\* the closing of closedCh is not; ClosedReleasesCallers is what its caller has.
AcceptedIsExecuted ==
  \A c \in Calls : (Queued(c) /\ phase \in {"run", "drain"}) ~> (~Queued(c) \/ Stuck)

\* Once the round is stopped every call of execOp returns.
ClosedReleasesCallers ==
  \A c \in Calls : (phase = "stopped" /\ req[c].kind \in OpKinds) ~> pc[c] = "done"

\* A waiting GetCertificate returns once its certificate is in the quorum and
\* nobody deletes it, unless the loop is blocked for good.
CertificateReachesWaiter ==
  \A c \in Calls :
    (/\ req[c].kind = "get" /\ pc[c] = "await" /\ Get(quorum, req[c].id)
     /\ \A d \in Calls : req[d].kind # "delete") ~> (pc[c] = "done" \/ Stuck)

\* The round gives its callers the sequential QuorumCertificate.
QC == INSTANCE QuorumCertificate

QuorumCertificateSpec == QC!Spec
=============================================================================
