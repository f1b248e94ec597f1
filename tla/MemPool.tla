------------------------------ MODULE MemPool -------------------------------
(***************************************************************************)
(* bapl.MemPool: batches by the hash of their data, pullers that wait for a *)
(* batch, listers that sleep until their signer has one, and a collector    *)
(* that drops batches older than a minute.  Every step below holds          *)
(* batchesMu from its beginning to its end.  Maps of subscriptions have an  *)
(* identity, the call that made them, as in RoundManager.                   *)
(***************************************************************************)
EXTENDS Integers

CONSTANTS
  Calls,      \* calls of Push, Pull, ListBySigner and Delete
  NoCall,     \* not a call, and no map
  Hashes,     \* Batch.Hash(), which does not cover the signature
  Signers,
  NoBatch,    \* not a batch
  Req         \* what each call asks for

Request == [kind : {"push", "pull", "list", "delete"}, hash : Hashes, signer : Signers]

ASSUME PoolAssumption ==
  /\ NoCall \notin Calls
  /\ NoBatch \notin Signers
  /\ Req \in [Calls -> Request]

VARIABLES
  batches,      \* the signer of the batch kept for each hash, or NoBatch
  old,          \* hashes whose entry is older than a minute
  batchesSubs,  \* the map of subscriptions of each hash, or NoCall
  subs,         \* the content of each map
  sub,          \* the channel of each Pull: "empty", "batch" or "closed"
  mine,         \* the map each Pull subscribed in, or NoCall
  pc,
  canceled,     \* calls whose context is done
  err           \* the error a finished call returned, "" for nil

vars == <<batches, old, batchesSubs, subs, sub, mine, pc, canceled, err>>

TypeOK ==
  /\ batches \in [Hashes -> Signers \cup {NoBatch}]
  /\ old \in SUBSET {h \in Hashes : batches[h] # NoBatch}
  /\ batchesSubs \in [Hashes -> Calls \cup {NoCall}]
  /\ subs \in [Calls -> SUBSET Calls]
  /\ sub \in [Calls -> {"empty", "batch", "closed"}]
  /\ mine \in [Calls -> Calls \cup {NoCall}]
  /\ pc \in [Calls -> {"begin", "wait", "unsubscribe", "sleep", "done"}]
  /\ canceled \in SUBSET Calls
  /\ err \in [Calls -> {"", "deleted", "canceled"}]

Init ==
  /\ batches = [h \in Hashes |-> NoBatch]
  /\ old = {}
  /\ batchesSubs = [h \in Hashes |-> NoCall]
  /\ subs = [c \in Calls |-> {}]
  /\ sub = [c \in Calls |-> "empty"]
  /\ mine = [c \in Calls |-> NoCall]
  /\ pc = [c \in Calls |-> "begin"]
  /\ canceled = {}
  /\ err = [c \in Calls |-> ""]

-----------------------------------------------------------------------------
Present(h) == batches[h] # NoBatch

\* The subscriptions a step finds in batchesSubs for a hash.
Subscribed(h) == IF batchesSubs[h] = NoCall THEN {} ELSE subs[batchesSubs[h]]

\* Send a value to, or close, the channels in the maps of the hashes H and drop
\* the maps.
Answer(H, v) ==
  /\ sub' = [c \in Calls |-> IF \E h \in H : c \in Subscribed(h) THEN v ELSE sub[c]]
  /\ batchesSubs' = [h \in Hashes |-> IF h \in H THEN NoCall ELSE batchesSubs[h]]
  /\ UNCHANGED <<subs, mine>>

Goto(c, l) == pc' = [pc EXCEPT ![c] = l] /\ UNCHANGED err

Finish(c, e) == pc' = [pc EXCEPT ![c] = "done"] /\ err' = [err EXCEPT ![c] = e]

Begins(c, k) == pc[c] = "begin" /\ Req[c].kind = k

\* Fault: Push does not wake the listers.
PushNoBroadcast(c) ==
  LET h == Req[c].hash IN
  /\ Begins(c, "push")
  /\ batches' = [batches EXCEPT ![h] = Req[c].signer]
  /\ old' = old \ {h}
  /\ Answer({h}, "batch")
  /\ Finish(c, "")
  /\ UNCHANGED canceled

\* Fault: Push keeps the map of the pullers it has served.
PushKeepMap(c) ==
  LET h == Req[c].hash IN
  /\ Begins(c, "push")
  /\ batches' = [batches EXCEPT ![h] = Req[c].signer]
  /\ old' = old \ {h}
  /\ sub' = [d \in Calls |-> IF d \in Subscribed(h) THEN "batch" ELSE sub[d]]
  /\ Finish(c, "")
  /\ UNCHANGED <<batchesSubs, subs, mine, canceled>>

\* Push: store the batch, serve its pullers and wake every lister, which will
\* look again when it gets the mutex.
Push(c) ==
  LET h == Req[c].hash IN
  /\ Begins(c, "push")
  /\ batches' = [batches EXCEPT ![h] = Req[c].signer]
  /\ old' = old \ {h}
  /\ Answer({h}, "batch")
  /\ pc' = [d \in Calls |-> IF d = c THEN "done" ELSE IF pc[d] = "sleep" THEN "begin" ELSE pc[d]]
  /\ err' = [err EXCEPT ![c] = ""]
  /\ UNCHANGED canceled

\* Pull: return the batch or subscribe for it.
Pull(c) ==
  LET h == Req[c].hash
      m == IF batchesSubs[h] = NoCall THEN c ELSE batchesSubs[h]
  IN
  /\ Begins(c, "pull")
  /\ IF Present(h)
     THEN Finish(c, "") /\ UNCHANGED <<batchesSubs, subs, mine>>
     ELSE /\ batchesSubs' = [batchesSubs EXCEPT ![h] = m]
          /\ subs' = [subs EXCEPT ![m] = @ \cup {c}]
          /\ mine' = [mine EXCEPT ![c] = m]
          /\ Goto(c, "wait")
  /\ UNCHANGED <<batches, old, sub, canceled>>

\* Pull's select: the batch, a closed channel, or the end of the context.
PullReturn(c) ==
  /\ pc[c] = "wait"
  /\ \/ sub[c] # "empty" /\ Finish(c, IF sub[c] = "batch" THEN "" ELSE "deleted")
     \/ c \in canceled /\ Goto(c, "unsubscribe")
  /\ UNCHANGED <<batches, old, batchesSubs, subs, sub, mine, canceled>>

\* Fault: a canceled Pull always drops the hash's map.
UnsubscribeAll(c) ==
  /\ pc[c] = "unsubscribe"
  /\ subs' = [subs EXCEPT ![mine[c]] = @ \ {c}]
  /\ batchesSubs' = [batchesSubs EXCEPT ![Req[c].hash] = NoCall]
  /\ Finish(c, "canceled")
  /\ UNCHANGED <<batches, old, sub, mine, canceled>>

\* The canceled Pull leaves the map it subscribed in, and when that is empty
\* drops whatever map the hash has by now.
Unsubscribe(c) ==
  /\ pc[c] = "unsubscribe"
  /\ subs' = [subs EXCEPT ![mine[c]] = @ \ {c}]
  /\ batchesSubs' = IF subs[mine[c]] \ {c} = {}
                    THEN [batchesSubs EXCEPT ![Req[c].hash] = NoCall] ELSE batchesSubs
  /\ Finish(c, "canceled")
  /\ UNCHANGED <<batches, old, sub, mine, canceled>>

\* ListBySigner: return the signer's batches, or sleep on the condition.  The
\* context is not looked at.
ListBySigner(c) ==
  /\ Begins(c, "list")
  /\ IF \E h \in Hashes : batches[h] = Req[c].signer THEN Finish(c, "") ELSE Goto(c, "sleep")
  /\ UNCHANGED <<batches, old, batchesSubs, subs, sub, mine, canceled>>

\* Drop the entries of the hashes H and close the channels subscribed for them.
Remove(H) ==
  /\ batches' = [h \in Hashes |-> IF h \in H THEN NoBatch ELSE batches[h]]
  /\ old' = old \ H
  /\ Answer(H, "closed")

Delete(c) ==
  /\ Begins(c, "delete")
  /\ Remove({Req[c].hash})
  /\ Finish(c, "")
  /\ UNCHANGED canceled

\* Fault: the collector does not reset the ages of what it drops.
CollectKeepAge ==
  /\ old # {}
  /\ batches' = [h \in Hashes |-> IF h \in old THEN NoBatch ELSE batches[h]]
  /\ Answer(old, "closed")
  /\ UNCHANGED <<old, pc, canceled, err>>

\* One tick of gc.
Collect ==
  /\ old # {}
  /\ Remove(old)
  /\ UNCHANGED <<pc, canceled, err>>

\* A minute has passed since the entry was pushed.
Age(h) ==
  /\ Present(h) /\ h \notin old
  /\ old' = old \cup {h}
  /\ UNCHANGED <<batches, batchesSubs, subs, sub, mine, pc, canceled, err>>

\* The puller's context is done.
CancelContext(c) ==
  /\ pc[c] = "wait" /\ c \notin canceled
  /\ canceled' = canceled \cup {c}
  /\ UNCHANGED <<batches, old, batchesSubs, subs, sub, mine, pc, err>>

Step(c) == Push(c) \/ Pull(c) \/ PullReturn(c) \/ Unsubscribe(c) \/ ListBySigner(c) \/ Delete(c)

Next == \/ \E c \in Calls : Step(c) \/ CancelContext(c)
        \/ \E h \in Hashes : Age(h)
        \/ Collect

Spec == Init /\ [][Next]_vars

-----------------------------------------------------------------------------
(* Properties *)

\* "subs are always buffered, so this won't block": Push and Delete, which hold
\* the mutex, only send on or close channels that are empty and open.
SendNeverBlocks == \A h \in Hashes : \A c \in Subscribed(h) : sub[c] = "empty"

\* A sleeping ListBySigner has nothing to return: no push of its signer's batch,
\* also one that replaces another signer's batch with the same data, is missed.
ListerSleepsForReason ==
  \A c \in Calls : pc[c] = "sleep" => \A h \in Hashes : batches[h] # Req[c].signer

\* The hash is pushed at most once and never deleted by a caller.
Undisturbed(h) ==
  /\ \A p, q \in Calls :
       (/\ Req[p].kind = "push" /\ Req[p].hash = h
        /\ Req[q].kind = "push" /\ Req[q].hash = h) => p = q
  /\ \A d \in Calls : ~(Req[d].kind = "delete" /\ Req[d].hash = h)

\* A Pull waits only for a batch that the pool does not have.
PullerServed ==
  \A c \in Calls : pc[c] = "wait" /\ sub[c] = "empty" => ~Present(Req[c].hash)

\* The same for a batch that is pushed once and collected by age only: other
\* pulls of the batch may come, be served and be canceled in any order.
UndisturbedPullerServed ==
  \A c \in Calls :
    pc[c] = "wait" /\ sub[c] = "empty" /\ Undisturbed(Req[c].hash) => ~Present(Req[c].hash)
=============================================================================
