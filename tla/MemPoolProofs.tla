---------------------------- MODULE MemPoolProofs ---------------------------
(***************************************************************************)
(* Proofs about bapl.MemPool, for any number of calls, hashes and signers. *)
(* The maps of subscriptions outlive their place in batchesSubs, because a *)
(* canceled Pull keeps a reference to its own: most of the invariant says  *)
(* which calls are in which map.                                           *)
(***************************************************************************)
EXTENDS MemPool, TLAPS

-----------------------------------------------------------------------------
(* The inductive invariant *)

\* Only pulls wait and unsubscribe, only listers sleep, and who waits is in the map
\* it subscribed in.
Waiting ==
  \A c \in Calls :
    /\ pc[c] = "sleep" => Req[c].kind = "list"
    /\ pc[c] \in {"wait", "unsubscribe"} =>
         Req[c].kind = "pull" /\ mine[c] \in Calls /\ c \in subs[mine[c]]

\* A map belongs to one hash, the one of the pull that made it, and each call is in
\* the one map it subscribed in.
Maps ==
  /\ \A h \in Hashes : batchesSubs[h] # NoCall =>
       LET m == batchesSubs[h] IN Req[m].hash = h /\ Req[m].kind = "pull" /\ pc[m] # "begin"
  /\ \A m \in Calls : \A c \in subs[m] :
       /\ mine[c] = m
       /\ Req[c].hash = Req[m].hash
       /\ Req[m].kind = "pull" /\ pc[m] # "begin"
       /\ Req[c].kind = "pull" /\ pc[c] # "begin"

\* A Pull that has not begun has a fresh channel.
Fresh == \A c \in Calls : Req[c].kind = "pull" /\ pc[c] = "begin" => sub[c] = "empty"

Unpushed(h) == \A p \in Calls : Req[p].kind = "push" /\ Req[p].hash = h => pc[p] = "begin"

\* Until an undisturbed hash is pushed, all who wait for it are in the map that the
\* push is going to find.
Together ==
  \A h \in Hashes : Undisturbed(h) /\ Unpushed(h) =>
    /\ ~Present(h)
    /\ \A c \in Calls : pc[c] \in {"wait", "unsubscribe"} /\ Req[c].hash = h =>
                          mine[c] = batchesSubs[h]

IInv == /\ TypeOK
        /\ Waiting
        /\ Maps
        /\ Fresh
        /\ Together
        /\ SendNeverBlocks
        /\ ListerSleepsForReason
        /\ UndisturbedPullerServed

-----------------------------------------------------------------------------
(* Answering the subscribers of some hashes *)

\* Subscribers of a hash asked for that hash and have begun.
LEMMA SubscribedFacts ==
  ASSUME IInv, NEW h \in Hashes, NEW c \in Subscribed(h)
  PROVE  /\ c \in Calls /\ Req[c].hash = h /\ Req[c].kind = "pull" /\ pc[c] # "begin"
         /\ sub[c] = "empty"
<1>1. batchesSubs[h] # NoCall /\ batchesSubs[h] \in Calls /\ c \in subs[batchesSubs[h]]
  BY DEF Subscribed, IInv, TypeOK
<1>2. c \in Calls
  BY <1>1 DEF IInv, TypeOK
<1> QED
  BY <1>1, <1>2 DEF IInv, Maps, SendNeverBlocks

\* Channels of the answered hashes get the value, all others keep what they have.
LEMMA AnswerFacts ==
  ASSUME IInv, NEW H \in SUBSET Hashes, NEW v \in {"batch", "closed"}, Answer(H, v)
  PROVE  /\ sub' \in [Calls -> {"empty", "batch", "closed"}]
         /\ batchesSubs' \in [Hashes -> Calls \cup {NoCall}]
         /\ \A h \in H : batchesSubs'[h] = NoCall
         /\ \A h \in Hashes \ H : batchesSubs'[h] = batchesSubs[h]
         /\ \A h \in H : \A c \in Subscribed(h) : sub'[c] = v
         /\ \A c \in Calls : sub'[c] = sub[c] \/ sub'[c] = v
         /\ \A c \in Calls : Req[c].hash \notin H => sub'[c] = sub[c]
         /\ \A c \in Calls : pc[c] = "begin" => sub'[c] = sub[c]
         /\ subs' = subs /\ mine' = mine
<1>1. /\ sub' = [c \in Calls |-> IF \E h \in H : c \in Subscribed(h) THEN v ELSE sub[c]]
      /\ batchesSubs' = [h \in Hashes |-> IF h \in H THEN NoCall ELSE batchesSubs[h]]
      /\ subs' = subs /\ mine' = mine
  BY DEF Answer
<1>2. sub \in [Calls -> {"empty", "batch", "closed"}] /\ batchesSubs \in [Hashes -> Calls \cup {NoCall}]
  BY DEF IInv, TypeOK
<1>3. \A h \in H : \A c \in Subscribed(h) : c \in Calls /\ Req[c].hash = h /\ pc[c] # "begin"
  BY SubscribedFacts
<1>4. \A c \in Calls : (~\E h \in H : c \in Subscribed(h)) => sub'[c] = sub[c]
  BY <1>1
<1>5. \A h \in H : \A c \in Subscribed(h) : sub'[c] = v
  BY <1>1, <1>3
<1>6. sub' \in [Calls -> {"empty", "batch", "closed"}]
  BY <1>1, <1>2
<1>7. /\ batchesSubs' \in [Hashes -> Calls \cup {NoCall}]
      /\ \A h \in H : batchesSubs'[h] = NoCall
      /\ \A h \in Hashes \ H : batchesSubs'[h] = batchesSubs[h]
  BY <1>1, <1>2
<1>8. \A c \in Calls : (Req[c].hash \notin H \/ pc[c] = "begin") => sub'[c] = sub[c]
  BY <1>3, <1>4
<1> QED
  BY <1>1, <1>4, <1>5, <1>6, <1>7, <1>8

\* Push, Delete and the collector keep the maps in order, as they leave the places
\* of all pulls alone.
LEMMA AnswerKeeps ==
  ASSUME IInv, NEW H \in SUBSET Hashes, NEW v \in {"batch", "closed"}, Answer(H, v),
         \A c \in Calls : /\ Req[c].kind = "pull" => pc'[c] = pc[c]
                          /\ pc'[c] \in {"wait", "unsubscribe", "sleep"} => pc'[c] = pc[c]
  PROVE  Waiting' /\ Maps' /\ Fresh' /\ SendNeverBlocks'
<1>1. /\ \A h \in Hashes : batchesSubs'[h] # NoCall => h \notin H /\ batchesSubs'[h] = batchesSubs[h]
      /\ \A c \in Calls : Req[c].hash \notin H => sub'[c] = sub[c]
      /\ \A c \in Calls : pc[c] = "begin" => sub'[c] = sub[c]
      /\ subs' = subs /\ mine' = mine
  BY AnswerFacts
<1>2. subs \in [Calls -> SUBSET Calls] /\ batchesSubs \in [Hashes -> Calls \cup {NoCall}]
  BY DEF IInv, TypeOK
<1>3. Waiting'
  BY <1>1 DEF IInv, Waiting
<1>4. Maps'
  BY <1>1, <1>2 DEF IInv, Maps
<1>5. Fresh'
  BY <1>1 DEF IInv, Fresh
<1>6. ASSUME NEW h \in Hashes, NEW c \in Subscribed(h)'
      PROVE  sub'[c] = "empty"
  <2>1. h \notin H /\ c \in Subscribed(h)
    BY <1>1, <1>6 DEF Subscribed
  <2>2. c \in Calls /\ Req[c].hash = h /\ sub[c] = "empty"
    BY <2>1, SubscribedFacts
  <2> QED
    BY <1>1, <2>1, <2>2
<1> QED
  BY <1>3, <1>4, <1>5, <1>6 DEF SendNeverBlocks

-----------------------------------------------------------------------------
(* Every step preserves the invariant *)

\* Push: everyone who waits for an undisturbed hash is in the map it finds.
LEMMA PushIInv ==
  ASSUME IInv, NEW c \in Calls, Push(c)
  PROVE  IInv'
<1> DEFINE h == Req[c].hash
<1> USE DEF IInv
<1>1. /\ pc[c] = "begin" /\ Req[c].kind = "push" /\ h \in Hashes /\ Req[c].signer \in Signers
      /\ batches' = [batches EXCEPT ![h] = Req[c].signer]
      /\ old' = old \ {h}
      /\ Answer({h}, "batch")
      /\ pc' = [d \in Calls |-> IF d = c THEN "done" ELSE IF pc[d] = "sleep" THEN "begin" ELSE pc[d]]
      /\ err' = [err EXCEPT ![c] = ""]
      /\ UNCHANGED canceled
  BY PoolAssumption DEF Push, Begins, Request
<1> HIDE DEF h
<1>2. /\ batches'[h] = Req[c].signer
      /\ \A i \in Hashes : i # h => batches'[i] = batches[i]
      /\ batches' \in [Hashes -> Signers \cup {NoBatch}]
  BY <1>1 DEF TypeOK
<1>3. /\ pc'[c] = "done" /\ \A d \in Calls : pc'[d] # "sleep"
      /\ \A d \in Calls : Req[d].kind = "pull" => pc'[d] = pc[d]
      /\ \A d \in Calls : pc'[d] \in {"wait", "unsubscribe", "sleep"} => pc'[d] = pc[d]
      /\ \A d \in Calls : Req[d].kind = "push" /\ pc'[d] = "begin" => pc[d] = "begin"
      /\ pc' \in [Calls -> {"begin", "wait", "unsubscribe", "sleep", "done"}]
  BY <1>1 DEF TypeOK, Waiting
<1>4. /\ sub' \in [Calls -> {"empty", "batch", "closed"}]
      /\ batchesSubs' \in [Hashes -> Calls \cup {NoCall}]
      /\ \A i \in Hashes : i # h => batchesSubs'[i] = batchesSubs[i]
      /\ \A d \in Subscribed(h) : sub'[d] = "batch"
      /\ \A d \in Calls : Req[d].hash # h => sub'[d] = sub[d]
      /\ \A d \in Calls : sub'[d] = sub[d] \/ sub'[d] = "batch"
      /\ subs' = subs /\ mine' = mine
  <2>1. {h} \in SUBSET Hashes
    BY <1>1
  <2> QED
    BY <1>1, <2>1, AnswerFacts
<1>5. Waiting' /\ Maps' /\ Fresh' /\ SendNeverBlocks'
  <2>1. {h} \in SUBSET Hashes
    BY <1>1
  <2> QED
    BY <1>1, <1>3, <2>1, AnswerKeeps
<1>6. TypeOK'
  BY <1>1, <1>2, <1>3, <1>4, PoolAssumption DEF TypeOK
<1>7. ListerSleepsForReason'
  BY <1>3 DEF ListerSleepsForReason
<1>8. Together'
  <2>1. SUFFICES ASSUME NEW i \in Hashes, Undisturbed(i), Unpushed(i)'
                 PROVE  /\ ~Present(i)'
                        /\ \A d \in Calls : pc'[d] \in {"wait", "unsubscribe"} /\ Req[d].hash = i =>
                                              mine'[d] = batchesSubs'[i]
    BY DEF Together, Undisturbed
  <2>2. i # h
    BY <1>1, <1>3, <2>1 DEF Unpushed, h
  <2>3. Unpushed(i)
    BY <1>3, <2>1 DEF Unpushed
  <2>4. /\ ~Present(i)
        /\ \A d \in Calls : pc[d] \in {"wait", "unsubscribe"} /\ Req[d].hash = i =>
                              mine[d] = batchesSubs[i]
    BY <2>1, <2>3 DEF Together
  <2> QED
    BY <1>2, <1>3, <1>4, <2>2, <2>4 DEF Present
<1>9. UndisturbedPullerServed'
  <2>1. SUFFICES ASSUME NEW d \in Calls, pc'[d] = "wait", sub'[d] = "empty", Undisturbed(Req[d].hash)
                 PROVE  ~Present(Req[d].hash)'
    BY DEF UndisturbedPullerServed, Undisturbed
  <2>2. pc[d] = "wait" /\ sub[d] = "empty" /\ Req[d].hash \in Hashes
    BY <1>3, <1>4, <2>1, PoolAssumption DEF Request
  <2>3. CASE Req[d].hash = h
    <3>1. Unpushed(h)
      BY <1>1, <2>1, <2>3 DEF Undisturbed, Unpushed, h
    <3>2. mine[d] = batchesSubs[h]
      BY <1>1, <2>1, <2>2, <2>3, <3>1 DEF Together
    <3>3. d \in Subscribed(h)
      BY <2>2, <3>2, PoolAssumption DEF Subscribed, Waiting
    <3> QED
      BY <1>4, <2>1, <3>3
  <2>4. CASE Req[d].hash # h
    BY <1>2, <2>1, <2>2, <2>4 DEF UndisturbedPullerServed, Present
  <2> QED
    BY <2>3, <2>4
<1> QED
  BY <1>5, <1>6, <1>7, <1>8, <1>9

\* The steps of which nothing but the places of calls, ages and contexts change.
LEMMA QuietIInv ==
  ASSUME IInv, TypeOK', UNCHANGED <<batches, batchesSubs, subs, sub, mine>>,
         \A d \in Calls :
           /\ pc'[d] \in {"wait", "begin"} => pc'[d] = pc[d]
           /\ pc'[d] = "unsubscribe" => pc[d] \in {"wait", "unsubscribe"}
           /\ pc'[d] = "sleep" =>
                \/ pc[d] = "sleep"
                \/ Req[d].kind = "list" /\ \A h \in Hashes : batches[h] # Req[d].signer
  PROVE  IInv'
<1> USE DEF IInv
<1>1. Waiting'
  BY DEF Waiting
<1>2. Maps'
  <2>1. subs \in [Calls -> SUBSET Calls] /\ batchesSubs \in [Hashes -> Calls \cup {NoCall}]
    BY DEF TypeOK
  <2> QED
    BY <2>1 DEF Maps
<1>3. Fresh'
  BY DEF Fresh
<1>4. Together'
  <2>1. SUFFICES ASSUME NEW i \in Hashes, Undisturbed(i), Unpushed(i)'
                 PROVE  /\ ~Present(i)
                        /\ \A d \in Calls : pc'[d] \in {"wait", "unsubscribe"} /\ Req[d].hash = i =>
                                              mine[d] = batchesSubs[i]
    BY DEF Together, Undisturbed, Present
  <2>2. Unpushed(i)
    BY <2>1 DEF Unpushed
  <2> QED
    BY <2>1, <2>2 DEF Together
<1>5. SendNeverBlocks'
  BY DEF SendNeverBlocks, Subscribed
<1>6. ListerSleepsForReason'
  BY DEF ListerSleepsForReason
<1>7. UndisturbedPullerServed'
  BY DEF UndisturbedPullerServed, Undisturbed, Present
<1> QED
  BY <1>1, <1>2, <1>3, <1>4, <1>5, <1>6, <1>7

\* A Pull that subscribes joins the map of its hash, or makes it when there is none.
LEMMA SubscribeIInv ==
  ASSUME IInv, NEW c \in Calls, Pull(c), ~Present(Req[c].hash)
  PROVE  IInv'
<1> DEFINE h == Req[c].hash
<1> DEFINE m == IF batchesSubs[h] = NoCall THEN c ELSE batchesSubs[h]
<1> USE DEF IInv
<1>1. /\ pc[c] = "begin" /\ Req[c].kind = "pull" /\ h \in Hashes /\ ~Present(h)
      /\ batchesSubs' = [batchesSubs EXCEPT ![h] = m]
      /\ subs' = [subs EXCEPT ![m] = @ \cup {c}]
      /\ mine' = [mine EXCEPT ![c] = m]
      /\ pc' = [pc EXCEPT ![c] = "wait"]
      /\ UNCHANGED <<batches, old, sub, canceled, err>>
  BY PoolAssumption DEF Pull, Begins, Goto, Request
<1>2. /\ m \in Calls /\ Req[m].hash = h /\ Req[m].kind = "pull" /\ (m = c \/ pc[m] # "begin")
      /\ batchesSubs[h] # NoCall => m = batchesSubs[h]
      /\ batchesSubs[h] = NoCall => m = c
  <2>1. batchesSubs[h] \in Calls \cup {NoCall}
    BY <1>1 DEF TypeOK
  <2>2. CASE batchesSubs[h] = NoCall
    BY <1>1, <2>2
  <2>3. CASE batchesSubs[h] # NoCall
    <3>1. m = batchesSubs[h] /\ m \in Calls
      BY <2>1, <2>3
    <3>2. Req[m].hash = h /\ Req[m].kind = "pull" /\ pc[m] # "begin"
      BY <1>1, <2>3, <3>1 DEF Maps
    <3> QED
      BY <2>3, <3>1, <3>2
  <2> QED
    BY <2>2, <2>3
<1> HIDE DEF m, h
<1>3. /\ batchesSubs'[h] = m /\ \A i \in Hashes : i # h => batchesSubs'[i] = batchesSubs[i]
      /\ subs'[m] = subs[m] \cup {c} /\ \A d \in Calls : d # m => subs'[d] = subs[d]
      /\ mine'[c] = m /\ \A d \in Calls : d # c => mine'[d] = mine[d]
      /\ pc'[c] = "wait" /\ \A d \in Calls : d # c => pc'[d] = pc[d]
  BY <1>1, <1>2 DEF TypeOK
<1>4. \A d \in Calls : c \notin subs[d]
  BY <1>1 DEF Maps
<1>5. subs[c] = {}
  BY <1>1 DEF Maps
<1>6. TypeOK'
  BY <1>1, <1>2 DEF TypeOK
<1>7. \A d \in Calls : subs[d] \subseteq Calls
  BY DEF TypeOK
<1>8. Waiting'
  BY <1>1, <1>2, <1>3, <1>7 DEF Waiting
<1>9. Maps'
  <2>1. ASSUME NEW i \in Hashes, batchesSubs'[i] # NoCall
        PROVE  Req[batchesSubs'[i]].hash = i /\ Req[batchesSubs'[i]].kind = "pull" /\ pc'[batchesSubs'[i]] # "begin"
    <3>1. batchesSubs[i] \in Calls \cup {NoCall}
      BY DEF TypeOK
    <3> QED
      BY <1>2, <1>3, <2>1, <3>1 DEF Maps
  <2>2. ASSUME NEW x \in Calls, NEW d \in subs'[x]
        PROVE  /\ mine'[d] = x
               /\ Req[d].hash = Req[x].hash
               /\ Req[x].kind = "pull" /\ pc'[x] # "begin"
               /\ Req[d].kind = "pull" /\ pc'[d] # "begin"
    <3>1. CASE x = m /\ d = c
      BY <1>1, <1>2, <1>3, <3>1 DEF h
    <3>2. CASE d \in subs[x]
      <4>1. d \in Calls /\ d # c
        BY <1>4, <1>7, <3>2
      <4> QED
        BY <1>3, <3>2, <4>1 DEF Maps
    <3> QED
      BY <1>3, <2>2, <3>1, <3>2
  <2> QED
    BY <2>1, <2>2 DEF Maps
<1>10. Fresh'
  BY <1>1, <1>3 DEF Fresh
<1>11. Together'
  <2>1. SUFFICES ASSUME NEW i \in Hashes, Undisturbed(i), Unpushed(i)'
                 PROVE  /\ ~Present(i)
                        /\ \A d \in Calls : pc'[d] \in {"wait", "unsubscribe"} /\ Req[d].hash = i =>
                                              mine'[d] = batchesSubs'[i]
    BY <1>1 DEF Together, Undisturbed, Present
  <2>2. Unpushed(i)
    BY <1>1, <1>3, <2>1 DEF Unpushed
  <2>3. /\ ~Present(i)
        /\ \A d \in Calls : pc[d] \in {"wait", "unsubscribe"} /\ Req[d].hash = i => mine[d] = batchesSubs[i]
    BY <2>1, <2>2 DEF Together
  <2>4. ASSUME NEW d \in Calls, pc'[d] \in {"wait", "unsubscribe"}, Req[d].hash = i
        PROVE  mine'[d] = batchesSubs'[i]
    <3>1. CASE d = c
      BY <1>3, <2>4, <3>1 DEF h
    <3>2. CASE d # c
      <4>1. mine[d] = batchesSubs[i] /\ mine[d] \in Calls /\ mine'[d] = mine[d]
        BY <1>3, <2>3, <2>4, <3>2 DEF Waiting
      <4>2. batchesSubs'[i] = batchesSubs[i]
        BY <1>2, <1>3, <4>1, PoolAssumption
      <4> QED
        BY <4>1, <4>2
    <3> QED
      BY <3>1, <3>2
  <2> QED
    BY <2>3, <2>4
<1>12. SendNeverBlocks'
  <2>1. SUFFICES ASSUME NEW i \in Hashes, NEW d \in Subscribed(i)'
                 PROVE  sub[d] = "empty"
    BY <1>1 DEF SendNeverBlocks
  <2>2. sub[c] = "empty"
    BY <1>1 DEF Fresh
  <2>3. CASE i = h
    <3>1. d \in subs[m] \cup {c}
      BY <1>2, <1>3, <2>1, <2>3, PoolAssumption DEF Subscribed
    <3>2. CASE batchesSubs[h] = NoCall
      BY <1>2, <1>5, <2>2, <3>1, <3>2
    <3>3. CASE batchesSubs[h] # NoCall
      BY <1>1, <1>2, <2>2, <3>1, <3>3 DEF SendNeverBlocks, Subscribed
    <3> QED
      BY <3>2, <3>3
  <2>4. CASE i # h
    <3>1. batchesSubs[i] # NoCall => batchesSubs[i] \in Calls /\ Req[batchesSubs[i]].hash = i
      <4>1. batchesSubs[i] \in Calls \cup {NoCall}
        BY DEF TypeOK
      <4> QED
        BY <4>1 DEF Maps
    <3>2. d \in Subscribed(i)
      BY <1>2, <1>3, <2>1, <2>4, <3>1 DEF Subscribed
    <3> QED
      BY <3>2 DEF SendNeverBlocks
  <2> QED
    BY <2>3, <2>4
<1>13. ListerSleepsForReason'
  BY <1>1, <1>3 DEF ListerSleepsForReason
<1>14. UndisturbedPullerServed'
  BY <1>1, <1>3 DEF UndisturbedPullerServed, Undisturbed, Present, h
<1> QED
  BY <1>6, <1>8, <1>9, <1>10, <1>11, <1>12, <1>13, <1>14

\* Pull: the batch is there, or the caller subscribes.
LEMMA PullIInv ==
  ASSUME IInv, NEW c \in Calls, Pull(c)
  PROVE  IInv'
<1>1. CASE Present(Req[c].hash)
  <2>1. /\ pc' = [pc EXCEPT ![c] = "done"] /\ err' = [err EXCEPT ![c] = ""]
        /\ UNCHANGED <<batches, old, batchesSubs, subs, sub, mine, canceled>>
    BY <1>1 DEF Pull, Finish
  <2>2. TypeOK'
    BY <2>1 DEF IInv, TypeOK
  <2>3. \A d \in Calls : pc'[d] = pc[d] \/ pc'[d] = "done"
    BY <2>1 DEF IInv, TypeOK
  <2> QED
    BY <2>1, <2>2, <2>3, QuietIInv
<1> QED
  BY <1>1, SubscribeIInv

\* Pull's select only moves the caller on.
LEMMA PullReturnIInv ==
  ASSUME IInv, NEW c \in Calls, PullReturn(c)
  PROVE  IInv'
<1>1. PICK l \in {"done", "unsubscribe"} : pc[c] = "wait" /\ pc' = [pc EXCEPT ![c] = l]
  BY DEF PullReturn, Finish, Goto
<1>2. err' \in [Calls -> {"", "deleted", "canceled"}]
  BY DEF PullReturn, Finish, Goto, IInv, TypeOK
<1>3. UNCHANGED <<batches, old, batchesSubs, subs, sub, mine, canceled>>
  BY DEF PullReturn
<1>4. TypeOK'
  BY <1>1, <1>2, <1>3 DEF IInv, TypeOK
<1>5. \A d \in Calls : pc'[d] = pc[d] \/ (d = c /\ pc'[d] = l)
  BY <1>1 DEF IInv, TypeOK
<1> QED
  BY <1>1, <1>3, <1>4, <1>5, QuietIInv

\* A canceled Pull drops the map of its hash only when nobody else is left in its own:
\* for an undisturbed hash that is the same map.
LEMMA UnsubscribeIInv ==
  ASSUME IInv, NEW c \in Calls, Unsubscribe(c)
  PROVE  IInv'
<1> DEFINE h == Req[c].hash
<1> USE DEF IInv
<1>1. /\ pc[c] = "unsubscribe" /\ h \in Hashes
      /\ subs' = [subs EXCEPT ![mine[c]] = @ \ {c}]
      /\ batchesSubs' = IF subs[mine[c]] \ {c} = {}
                        THEN [batchesSubs EXCEPT ![h] = NoCall] ELSE batchesSubs
      /\ pc' = [pc EXCEPT ![c] = "done"] /\ err' = [err EXCEPT ![c] = "canceled"]
      /\ UNCHANGED <<batches, old, sub, mine, canceled>>
  BY PoolAssumption DEF Unsubscribe, Finish, Request
<1>2. Req[c].kind = "pull" /\ mine[c] \in Calls /\ c \in subs[mine[c]]
  BY <1>1 DEF Waiting
<1>3. TypeOK'
  BY <1>1, <1>2 DEF TypeOK
<1>4. /\ pc'[c] = "done" /\ \A d \in Calls : d # c => pc'[d] = pc[d]
      /\ \A d \in Calls : subs'[d] \subseteq subs[d] /\ subs[d] \subseteq Calls
      /\ \A d, e \in Calls : e # c /\ e \in subs[d] => e \in subs'[d]
      /\ \A i \in Hashes : i # h => batchesSubs'[i] = batchesSubs[i]
      /\ \A i \in Hashes : batchesSubs'[i] # NoCall => batchesSubs'[i] = batchesSubs[i]
      /\ subs[mine[c]] # {c} => batchesSubs' = batchesSubs
      /\ \A i \in Hashes : batchesSubs[i] \in Calls \cup {NoCall}
  BY <1>1, <1>2 DEF TypeOK
<1> HIDE DEF h
<1>5. Waiting'
  BY <1>1, <1>4 DEF Waiting
<1>6. Maps'
  <2>1. ASSUME NEW i \in Hashes, batchesSubs'[i] # NoCall
        PROVE  Req[batchesSubs'[i]].hash = i /\ Req[batchesSubs'[i]].kind = "pull" /\ pc'[batchesSubs'[i]] # "begin"
    BY <1>4, <2>1 DEF Maps
  <2>2. ASSUME NEW x \in Calls, NEW d \in subs'[x]
        PROVE  /\ mine'[d] = x
               /\ Req[d].hash = Req[x].hash
               /\ Req[x].kind = "pull" /\ pc'[x] # "begin"
               /\ Req[d].kind = "pull" /\ pc'[d] # "begin"
    BY <1>1, <1>4, <2>2 DEF Maps
  <2> QED
    BY <2>1, <2>2 DEF Maps
<1>7. Fresh'
  BY <1>1, <1>4 DEF Fresh
<1>8. Together'
  <2>1. SUFFICES ASSUME NEW i \in Hashes, Undisturbed(i), Unpushed(i)'
                 PROVE  /\ ~Present(i)
                        /\ \A d \in Calls : pc'[d] \in {"wait", "unsubscribe"} /\ Req[d].hash = i =>
                                              mine[d] = batchesSubs'[i]
    BY <1>1 DEF Together, Undisturbed, Present
  <2>2. Unpushed(i)
    BY <1>2, <1>4, <2>1 DEF Unpushed
  <2>3. /\ ~Present(i)
        /\ \A d \in Calls : pc[d] \in {"wait", "unsubscribe"} /\ Req[d].hash = i => mine[d] = batchesSubs[i]
    BY <2>1, <2>2 DEF Together
  <2>4. ASSUME NEW d \in Calls, pc'[d] \in {"wait", "unsubscribe"}, Req[d].hash = i
        PROVE  mine[d] = batchesSubs'[i]
    <3>1. d # c /\ pc[d] = pc'[d]
      BY <1>4, <2>4
    <3>2. mine[d] = batchesSubs[i] /\ d \in subs[mine[d]]
      BY <2>3, <2>4, <3>1 DEF Waiting
    <3>3. CASE i = h
      <4>1. mine[c] = batchesSubs[h]
        BY <1>1, <2>3, <3>3 DEF h
      <4>2. d \in subs[mine[c]]
        BY <3>2, <3>3, <4>1
      <4> QED
        BY <1>4, <3>1, <3>2, <4>2
    <3>4. CASE i # h
      BY <1>4, <3>2, <3>4
    <3> QED
      BY <3>3, <3>4
  <2> QED
    BY <2>3, <2>4
<1>9. SendNeverBlocks'
  <2>1. SUFFICES ASSUME NEW i \in Hashes, NEW d \in Subscribed(i)'
                 PROVE  sub[d] = "empty"
    BY <1>1 DEF SendNeverBlocks
  <2>2. d \in Subscribed(i)
    BY <1>4, <2>1 DEF Subscribed
  <2> QED
    BY <2>2 DEF SendNeverBlocks
<1>10. ListerSleepsForReason'
  BY <1>1, <1>4 DEF ListerSleepsForReason
<1>11. UndisturbedPullerServed'
  BY <1>1, <1>4 DEF UndisturbedPullerServed, Undisturbed, Present
<1> QED
  BY <1>3, <1>5, <1>6, <1>7, <1>8, <1>9, <1>10, <1>11

\* A lister goes to sleep after it has seen that there is nothing for it.
LEMMA ListBySignerIInv ==
  ASSUME IInv, NEW c \in Calls, ListBySigner(c)
  PROVE  IInv'
<1>1. UNCHANGED <<batches, old, batchesSubs, subs, sub, mine, canceled>> /\ Req[c].kind = "list"
  BY DEF ListBySigner, Begins
<1>2. \/ /\ pc' = [pc EXCEPT ![c] = "done"]
         /\ err' = [err EXCEPT ![c] = ""]
      \/ /\ \A h \in Hashes : batches[h] # Req[c].signer
         /\ pc' = [pc EXCEPT ![c] = "sleep"] /\ err' = err
  BY DEF ListBySigner, Finish, Goto
<1>3. TypeOK'
  <2>1. PICK l \in {"done", "sleep"} : pc' = [pc EXCEPT ![c] = l]
    BY <1>2
  <2>2. pc' \in [Calls -> {"begin", "wait", "unsubscribe", "sleep", "done"}]
    BY <2>1 DEF IInv, TypeOK
  <2>3. err' = err \/ err' = [err EXCEPT ![c] = ""]
    BY <1>2
  <2>4. err' \in [Calls -> {"", "deleted", "canceled"}]
    BY <2>3 DEF IInv, TypeOK
  <2> QED
    BY <1>1, <2>2, <2>4 DEF IInv, TypeOK
<1>4. \A d \in Calls : \/ pc'[d] = pc[d]
                       \/ pc'[d] = "done"
                       \/ /\ pc'[d] = "sleep" /\ d = c
                          /\ \A h \in Hashes : batches[h] # Req[c].signer
  BY <1>2 DEF IInv, TypeOK
<1> QED
  BY <1>1, <1>3, <1>4, QuietIInv

\* Entries that are dropped are those of a disturbed hash or of one already pushed.
LEMMA RemoveIInv ==
  ASSUME IInv, NEW H \in SUBSET Hashes, Remove(H), canceled' = canceled,
         \A h \in H : Undisturbed(h) => Present(h),
         pc' \in [Calls -> {"begin", "wait", "unsubscribe", "sleep", "done"}],
         err' \in [Calls -> {"", "deleted", "canceled"}],
         \A c \in Calls : /\ Req[c].kind = "pull" => pc'[c] = pc[c]
                          /\ pc'[c] # "done" => pc'[c] = pc[c]
  PROVE  IInv'
<1> USE DEF IInv
<1>1. /\ batches' = [h \in Hashes |-> IF h \in H THEN NoBatch ELSE batches[h]]
      /\ old' = old \ H
      /\ Answer(H, "closed")
  BY DEF Remove
<1>2. \A h \in Hashes : batches'[h] = IF h \in H THEN NoBatch ELSE batches[h]
  BY <1>1
<1>3. /\ sub' \in [Calls -> {"empty", "batch", "closed"}]
      /\ batchesSubs' \in [Hashes -> Calls \cup {NoCall}]
      /\ \A i \in Hashes \ H : batchesSubs'[i] = batchesSubs[i]
      /\ \A d \in Calls : sub'[d] = sub[d] \/ sub'[d] = "closed"
      /\ subs' = subs /\ mine' = mine
  BY <1>1, AnswerFacts
<1>4. Waiting' /\ Maps' /\ Fresh' /\ SendNeverBlocks'
  BY <1>1, AnswerKeeps
<1>5. TypeOK'
  <2>1. batches' \in [Hashes -> Signers \cup {NoBatch}]
    BY <1>1 DEF TypeOK
  <2>2. old' \in SUBSET {h \in Hashes : batches'[h] # NoBatch}
    BY <1>1, <1>2 DEF TypeOK
  <2> QED
    BY <1>3, <2>1, <2>2 DEF TypeOK
<1>6. Together'
  <2>1. SUFFICES ASSUME NEW i \in Hashes, Undisturbed(i), Unpushed(i)'
                 PROVE  /\ ~Present(i)'
                        /\ \A d \in Calls : pc'[d] \in {"wait", "unsubscribe"} /\ Req[d].hash = i =>
                                              mine'[d] = batchesSubs'[i]
    BY DEF Together, Undisturbed
  <2>2. Unpushed(i)
    BY <2>1 DEF Unpushed
  <2>3. /\ ~Present(i)
        /\ \A d \in Calls : pc[d] \in {"wait", "unsubscribe"} /\ Req[d].hash = i => mine[d] = batchesSubs[i]
    BY <2>1, <2>2 DEF Together
  <2>4. i \notin H
    BY <2>1, <2>3
  <2> QED
    BY <1>2, <1>3, <2>3, <2>4 DEF Present
<1>7. ListerSleepsForReason'
  <2>1. \A d \in Calls : Req[d].signer \in Signers
    BY PoolAssumption DEF Request
  <2>2. \A d \in Calls : Req[d].signer # NoBatch
    BY <2>1, PoolAssumption
  <2> QED
    BY <1>2, <2>2 DEF ListerSleepsForReason
<1>8. UndisturbedPullerServed'
  <2>1. \A d \in Calls : Req[d].hash \in Hashes
    BY PoolAssumption DEF Request
  <2> QED
    BY <1>2, <1>3, <2>1 DEF UndisturbedPullerServed, Undisturbed, Present
<1> QED
  BY <1>4, <1>5, <1>6, <1>7, <1>8

\* A hash that a call deletes is not undisturbed.
LEMMA DeleteIInv ==
  ASSUME IInv, NEW c \in Calls, Delete(c)
  PROVE  IInv'
<1>1. /\ Req[c].kind = "delete" /\ Remove({Req[c].hash}) /\ canceled' = canceled
      /\ pc' = [pc EXCEPT ![c] = "done"] /\ err' = [err EXCEPT ![c] = ""]
  BY DEF Delete, Begins, Finish
<1>2. {Req[c].hash} \in SUBSET Hashes
  BY PoolAssumption DEF Request
<1>3. ~Undisturbed(Req[c].hash)
  BY <1>1 DEF Undisturbed
<1>4. /\ pc' \in [Calls -> {"begin", "wait", "unsubscribe", "sleep", "done"}]
      /\ err' \in [Calls -> {"", "deleted", "canceled"}]
      /\ \A d \in Calls : /\ Req[d].kind = "pull" => pc'[d] = pc[d]
                          /\ pc'[d] # "done" => pc'[d] = pc[d]
  BY <1>1 DEF IInv, TypeOK
<1> QED
  BY <1>1, <1>2, <1>3, <1>4, RemoveIInv

\* The collector drops entries the pool has, so their hashes have been pushed.
LEMMA CollectIInv ==
  ASSUME IInv, Collect
  PROVE  IInv'
<1>1. Remove(old) /\ UNCHANGED <<pc, canceled, err>>
  BY DEF Collect
<1>2. old \in SUBSET Hashes /\ \A h \in old : Present(h)
  BY DEF IInv, TypeOK, Present
<1>3. /\ pc' \in [Calls -> {"begin", "wait", "unsubscribe", "sleep", "done"}]
      /\ err' \in [Calls -> {"", "deleted", "canceled"}]
  BY <1>1 DEF IInv, TypeOK
<1> QED
  BY <1>1, <1>2, <1>3, RemoveIInv

\* Time and contexts touch no map, channel or batch.
LEMMA EnvironmentIInv ==
  ASSUME IInv, (\E h \in Hashes : Age(h)) \/ (\E c \in Calls : CancelContext(c))
  PROVE  IInv'
<1>1. UNCHANGED <<batches, batchesSubs, subs, sub, mine, pc, err>>
  BY DEF Age, CancelContext
<1>2. TypeOK'
  <2>1. CASE \E h \in Hashes : Age(h)
    BY <2>1 DEF IInv, TypeOK, Age, Present
  <2>2. CASE \E c \in Calls : CancelContext(c)
    BY <2>2 DEF IInv, TypeOK, CancelContext
  <2> QED
    BY <2>1, <2>2
<1> QED
  BY <1>1, <1>2, QuietIInv

-----------------------------------------------------------------------------
(* The theorems *)

\* NewMemPool: no batches and no calls under way.
LEMMA InitIInv == Init => IInv
<1> SUFFICES ASSUME Init PROVE IInv
  OBVIOUS
<1> USE DEF Init
<1>1. TypeOK
  BY DEF TypeOK
<1>2. Waiting /\ Fresh /\ ListerSleepsForReason /\ UndisturbedPullerServed
  BY DEF Waiting, Fresh, ListerSleepsForReason, UndisturbedPullerServed
<1>3. Maps /\ SendNeverBlocks
  BY DEF Maps, SendNeverBlocks, Subscribed
<1>4. Together
  BY DEF Together, Present
<1> QED
  BY <1>1, <1>2, <1>3, <1>4 DEF IInv

\* Every step of a caller, the collector, time or a context keeps the invariant.
LEMMA NextIInv == IInv /\ [Next]_vars => IInv'
<1> SUFFICES ASSUME IInv, [Next]_vars PROVE IInv'
  OBVIOUS
<1>1. ASSUME NEW c \in Calls, Step(c) PROVE IInv'
  BY <1>1, PushIInv, PullIInv, PullReturnIInv, UnsubscribeIInv, ListBySignerIInv, DeleteIInv DEF Step
<1>2. CASE (\E h \in Hashes : Age(h)) \/ (\E c \in Calls : CancelContext(c))
  BY <1>2, EnvironmentIInv
<1>3. CASE Collect
  BY <1>3, CollectIInv
<1>4. CASE UNCHANGED vars
  <2>1. TypeOK' /\ UNCHANGED <<batches, batchesSubs, subs, sub, mine, pc>>
    BY <1>4 DEF vars, IInv, TypeOK
  <2> QED
    BY <2>1, QuietIInv
<1> QED
  BY <1>1, <1>2, <1>3, <1>4 DEF Next

\* The invariant holds in every state of the pool.
THEOREM InductiveInvariant == Spec => []IInv
<1> QED
  BY InitIInv, NextIInv, PTL DEF Spec

\* Batches, ages, maps and channels keep their types; only entries the pool has grow old.
THEOREM TypeCorrect == Spec => []TypeOK
<1>1. IInv => TypeOK
  BY DEF IInv
<1> QED
  BY <1>1, InductiveInvariant, PTL

\* Push, Delete and the collector, which hold the mutex, find only empty, open channels:
\* the send does not block and nothing is closed twice.
THEOREM SendsNeverBlock == Spec => []SendNeverBlocks
<1>1. IInv => SendNeverBlocks
  BY DEF IInv
<1> QED
  BY <1>1, InductiveInvariant, PTL

\* No lister sleeps while the pool holds a batch of its signer.
THEOREM ListersSleepForReason == Spec => []ListerSleepsForReason
<1>1. IInv => ListerSleepsForReason
  BY DEF IInv
<1> QED
  BY <1>1, InductiveInvariant, PTL

\* A Pull of a batch that is pushed once and never deleted does not miss it, whatever
\* other pulls of the batch come and are canceled.
THEOREM PullersServed == Spec => []UndisturbedPullerServed
<1>1. IInv => UndisturbedPullerServed
  BY DEF IInv
<1> QED
  BY <1>1, InductiveInvariant, PTL
=============================================================================
