--------------------------- MODULE Polling_proofs ---------------------------
(***************************************************************************)
(* Proofs about Polling, for every set of listeners and keys, every limit  *)
(* and all bounds.                                                         *)
(***************************************************************************)
EXTENDS Polling, FiniteSetTheorems, TLAPS

-----------------------------------------------------------------------------
(* The type invariant.                                                     *)

LEMMA KeysFacts ==
  /\ NotificationKeys \subseteq Keys
  /\ Listeners \subseteq Keys
  /\ \A l \in Listeners : KeysOf[l] \subseteq NotificationKeys
BY DEF NotificationKeys, Keys, Prefix

LEMMA InitTypeOK == Init => TypeOK
BY BoundsAssumption DEF Init, TypeOK, PCs, NoRevision, Absent

(* A version of a notification key is one that the application can learn.  *)
LEMMA VersionType ==
  ASSUME TypeOK, NEW k \in NotificationKeys
  PROVE  Version(k) \in Versions
BY KeysFacts DEF TypeOK, Version, Versions

LEMMA PulledType ==
  ASSUME NEW l \in Listeners
  PROVE  Pulled(l) \subseteq KeysOf[l]
BY DEF Pulled, RangeReply, FirstDescending, Matching, Prefix

(* Every step keeps the types.                                             *)
LEMMA NextTypeOK == TypeOK /\ [Next]_vars => TypeOK'
<1> SUFFICES ASSUME TypeOK, [Next]_vars PROVE TypeOK'
  OBVIOUS
<1> USE DEF TypeOK
<1>1. ASSUME NEW l \in Listeners, NEW k \in KeysOf[l], Notify(l, k)
      PROVE  TypeOK'
  BY <1>1 DEF Notify, PutAll, process, history
<1>2. ASSUME NEW k \in NotificationKeys, Expire(k)
      PROVE  TypeOK'
  BY <1>2 DEF Expire, DeleteAll, Absent, process, history
<1>3. ASSUME NEW m \in Modes, Boot(m)
      PROVE  TypeOK'
  BY <1>3, BoundsAssumption DEF Boot, store, history
<1>4. ASSUME NEW l \in Listeners, Listen(l)
      PROVE  TypeOK'
  <2>1. pc' \in [Listeners -> PCs]
    BY <1>4, BoundsAssumption DEF Listen, FirstStep, PCs, AllModes
  <2> QED
    BY <1>4, <2>1 DEF Listen, store, history
<1>5. ASSUME NEW l \in Listeners, Thread(l)
      PROVE  TypeOK'
  <2>1. CASE ReadSaved(l)
    BY <2>1 DEF ReadSaved, EnterLoop, PCs, Looping, NoRevision, store, process
  <2>2. CASE DeleteSaved(l)
    BY <2>2 DEF DeleteSaved, PCs, store, process, history
  <2>3. CASE LatestRevision(l)
    BY <2>3 DEF LatestRevision, EnterLoop, PCs, Looping, store, process
  <2>4. CASE SearchFrom(l)
    BY <2>4 DEF SearchFrom, EnterLoop, PCs, Looping, store, process
  <2>5. CASE Pull(l)
    <3>1. {Version(k) : k \in Pulled(l)} \subseteq Versions
      BY PulledType, KeysFacts, VersionType
    <3>2. next' \in [Listeners -> Nat]
      BY <2>5, PulledType, KeysFacts DEF Pull
    <3> QED
      BY <2>5, <3>1, <3>2 DEF Pull, PCs, Looping, store, process, history
  <2>6. CASE OpenSaved(l)
    BY <2>6 DEF OpenSaved, PCs, Looping, store, process, history
  <2>7. CASE WriteSaved(l)
    BY <2>7 DEF WriteSaved, PCs, Looping, store, process, history
  <2>8. CASE Deliver(l)
    BY <2>8 DEF Deliver, PCs, Looping, store, process
  <2>9. CASE LeaveLoop(l)
    BY <2>9 DEF LeaveLoop, PCs, store, process, history
  <2> QED
    BY <1>5, <2>1, <2>2, <2>3, <2>4, <2>5, <2>6, <2>7, <2>8, <2>9 DEF Thread
<1>6. ASSUME NEW l \in Listeners, ThreadFault(l)
      PROVE  TypeOK'
  BY <1>6 DEF ThreadFault, DeleteFails, OpenFails, WriteFails, RequestFails, PCs, Looping,
              store, process, history
<1>7. CASE StopAll
  BY <1>7 DEF StopAll, store, history
<1>8. CASE Crash
  BY <1>8 DEF Crash, PCs, store
<1>9. CASE UNCHANGED vars
  BY <1>9 DEF vars, store, process, history
<1> QED
  BY <1>1, <1>2, <1>3, <1>4, <1>5, <1>6, <1>7, <1>8, <1>9 DEF Next

(* The variables of Polling keep their types.                              *)
THEOREM TypeCorrect == Spec => []TypeOK
<1>1. Init => TypeOK
  BY InitTypeOK
<1>2. TypeOK /\ [Next]_vars => TypeOK'
  BY NextTypeOK
<1> QED
  BY <1>1, <1>2, PTL DEF Spec

-----------------------------------------------------------------------------
(* Range replies.                                                          *)

(* MAX_KV_RETURNED covers the keys of every listener and its status.       *)
FitsInOneReply == \A l \in Listeners : Cardinality(Prefix(l)) <= Limit

(* A finite set that is not larger than the limit is returned whole.       *)
LEMMA FirstDescendingAll ==
  ASSUME NEW S, S \subseteq Nat, IsFiniteSet(S),
         NEW limit \in Nat, Cardinality(S) <= limit
  PROVE  FirstDescending(S, limit) = S
<1> SUFFICES ASSUME NEW k \in S
             PROVE  Cardinality({j \in S : k < j}) < limit
  BY DEF FirstDescending
<1> DEFINE After == {j \in S : k < j}
<1>1. After \in SUBSET (S \ {k})
  OBVIOUS
<1>2. IsFiniteSet(S \ {k}) /\ Cardinality(S \ {k}) = Cardinality(S) - 1
  BY FS_RemoveElement
<1>3. IsFiniteSet(After) /\ Cardinality(After) <= Cardinality(S \ {k})
  BY <1>1, <1>2, FS_Subset
<1>4. Cardinality(S) \in Nat /\ Cardinality(After) \in Nat
  BY <1>3, FS_CardinalityType
<1> QED
  BY <1>2, <1>3, <1>4

(* A pull returns every notification from next_rev on.                     *)
LEMMA PulledAll ==
  ASSUME FitsInOneReply, NEW l \in Listeners
  PROVE  Pulled(l) = {k \in KeysOf[l] : mod[k] # Absent /\ next[l] <= mod[k] /\ mod[k] <= rev}
<1> DEFINE M == Matching(mod, Prefix(l), next[l], rev)
<1>1. Prefix(l) \subseteq Nat /\ IsFiniteSet(Prefix(l))
  <2>1. IsFiniteSet(KeysOf[l] \cup {l})
    BY KeysAssumption, FS_AddElement
  <2> QED
    BY <2>1, ListenersAssumption, KeysAssumption DEF Prefix
<1>2. IsFiniteSet(M) /\ Cardinality(M) <= Cardinality(Prefix(l))
  <2>1. M \in SUBSET Prefix(l)
    BY DEF Matching
  <2> QED
    BY <1>1, <2>1, FS_Subset
<1>3. Cardinality(M) <= Limit
  <2>1. Cardinality(M) \in Nat /\ Cardinality(Prefix(l)) \in Nat
    BY <1>1, <1>2, FS_CardinalityType
  <2> QED
    BY <1>2, <2>1, BoundsAssumption DEF FitsInOneReply
<1>4. M \subseteq Nat
  BY <1>1 DEF Matching
<1>5. FirstDescending(M, Limit) = M
  BY <1>2, <1>3, <1>4, FirstDescendingAll, BoundsAssumption
<1>6. l \notin KeysOf[l]
  BY KeysAssumption, ListenersAssumption
<1> QED
  BY <1>5, <1>6 DEF Pulled, RangeReply, Matching, Prefix

(* Whatever the limit, it returns only such notifications.                 *)
LEMMA PulledInWindow ==
  ASSUME NEW l \in Listeners
  PROVE  Pulled(l) \subseteq {k \in KeysOf[l] : mod[k] # Absent /\ next[l] <= mod[k] /\ mod[k] <= rev}
BY DEF Pulled, RangeReply, FirstDescending, Matching, Prefix

-----------------------------------------------------------------------------
(* No notification is stepped over or delivered twice in a run.            *)

(* Where a thread is, for each part of the invariant.                      *)
Holding == {"save", "write", "deliver"}
Starting == {"idle", "saved", "delete", "latest", "search"}

(* What the threads' cursors have in common with the store and the file.   *)
CursorsInStore ==
  /\ \A k \in Keys : mod[k] <= rev
  /\ saved <= rev + 1
  /\ \A l \in Listeners : pc[l] \in Looping => next[l] <= rev + 1

(* A batch exists only while it is being saved and delivered, and what a   *)
(* thread has taken lies below its cursor.                                 *)
BatchBelowCursor ==
  \A l \in Listeners :
    /\ pc[l] \notin Holding => batch[l] = {}
    /\ pc[l] \in Starting => got[l] = {}
    /\ pc[l] \in Looping => \A v \in got[l] \cup batch[l] : v.rev < next[l]

(* A batch comes from one reply, which has one version of each key.        *)
OneVersionPerKey ==
  \A l \in Listeners : \A v, w \in batch[l] : v.key = w.key => v = w

(* What holds however many keys fit in a reply.                            *)
CursorInv ==
  /\ TypeOK
  /\ CursorsInStore
  /\ BatchBelowCursor
  /\ OneVersionPerKey
  /\ DeliveredOnce

IInv == CursorInv /\ NoVersionSkipped

LEMMA InitIInv == Init => IInv
<1> SUFFICES ASSUME Init PROVE IInv
  OBVIOUS
<1>1. TypeOK
  BY InitTypeOK
<1> QED
  BY <1>1 DEF Init, IInv, CursorInv, CursorsInStore, BatchBelowCursor, OneVersionPerKey,
              NoVersionSkipped, DeliveredOnce, Looping, Holding, Absent, NoRevision

LEMMA FirstStepStarts ==
  ASSUME TypeOK, mode # "down" PROVE FirstStep[mode] \in Starting
<1>1. mode \in {"catchup", "now", "replay"}
  BY BoundsAssumption DEF TypeOK, AllModes
<1>2. /\ FirstStep["catchup"] = "saved"
      /\ FirstStep["now"] = "delete"
      /\ FirstStep["replay"] = "search"
  BY DEF FirstStep
<1> QED
  BY <1>1, <1>2 DEF Starting

(* A step keeps the invariant, its part on replies that may be cut short   *)
(* only if they are not.                                                   *)
InvariantKept == CursorInv' /\ (FitsInOneReply /\ NoVersionSkipped => NoVersionSkipped')

(* A step that leaves the store and what the threads have taken, saves at  *)
(* most a revision that exists, and only moves threads along.              *)
LEMMA MoveStep ==
  ASSUME CursorInv, TypeOK',
         UNCHANGED <<rev, mod, next, batch, start, got>>,
         saved' <= rev + 1,
         \A m \in Listeners :
           /\ pc'[m] \in Looping => pc[m] \in Looping
           /\ pc'[m] \notin Holding => batch[m] = {}
           /\ pc'[m] \in Starting => got[m] = {}
  PROVE  InvariantKept
<1> USE DEF CursorInv, Holding, Starting
<1>1. CursorsInStore'
  BY DEF CursorsInStore
<1>2. BatchBelowCursor'
  BY DEF BatchBelowCursor
<1>3. ASSUME NoVersionSkipped PROVE NoVersionSkipped'
  BY <1>3 DEF NoVersionSkipped, Version
<1>4. DeliveredOnce' /\ OneVersionPerKey'
  BY DEF DeliveredOnce, OneVersionPerKey
<1> QED
  BY <1>1, <1>2, <1>3, <1>4 DEF InvariantKept

(* A thread enters its loop with nothing taken, at or below the point that *)
(* the next transaction will reach.                                        *)
LEMMA EnterLoopStep ==
  ASSUME CursorInv, TypeOK', NEW l \in Listeners, NEW r \in Nat, r <= rev + 1,
         pc[l] \in {"saved", "latest", "search"}, EnterLoop(l, r),
         UNCHANGED <<rev, mod, saved, batch, got>>
  PROVE  InvariantKept
<1> USE DEF CursorInv, TypeOK, EnterLoop, Looping, Holding, Starting
<1>1. CursorsInStore'
  BY DEF CursorsInStore
<1>2. BatchBelowCursor'
  BY DEF BatchBelowCursor
<1>3. ASSUME NoVersionSkipped PROVE NoVersionSkipped'
  <2> SUFFICES ASSUME NEW m \in Listeners, pc'[m] \in Looping, NEW k \in KeysOf[m],
                      mod[k] # Absent, start'[m] <= mod[k], mod[k] < next'[m]
               PROVE  Version(k) \in got[m] \cup batch[m]
    BY DEF NoVersionSkipped, Version
  <2>1. mod[k] \in Nat
    BY KeysFacts
  <2>2. m # l   \* the window of l is empty: it starts where it ends
    BY <2>1
  <2> QED
    BY <1>3, <2>2 DEF NoVersionSkipped
<1>4. DeliveredOnce' /\ OneVersionPerKey'
  BY DEF DeliveredOnce, OneVersionPerKey
<1> QED
  BY <1>1, <1>2, <1>3, <1>4 DEF InvariantKept

(* A pull moves the cursor past the versions that it takes.                *)
LEMMA PullFacts ==
  ASSUME CursorInv, NEW l \in Listeners, Pull(l)
  PROVE  /\ pc[l] = "poll" /\ batch[l] = {}
         /\ UNCHANGED <<rev, mod, saved, mode, start, got, past, dropped>>
         /\ pc' = [pc EXCEPT ![l] = "save"]
         /\ batch' = [batch EXCEPT ![l] = {Version(k) : k \in Pulled(l)}]
         /\ next[l] < next'[l] /\ next'[l] <= rev + 1
         /\ \A m \in Listeners : m # l => next'[m] = next[m]
         /\ \A v \in batch'[l] : next[l] <= v.rev /\ v.rev < next'[l]
<1> USE DEF CursorInv, TypeOK
<1>1. PICK top \in Pulled(l) :
        /\ \A j \in Pulled(l) : mod[j] <= mod[top]
        /\ next' = [next EXCEPT ![l] = mod[top] + 1]
  BY DEF Pull
<1>2. Pulled(l) \subseteq {k \in KeysOf[l] : mod[k] # Absent /\ next[l] <= mod[k] /\ mod[k] <= rev}
  BY PulledInWindow
<1>3. \A k \in KeysOf[l] : k \in Keys
  BY KeysFacts
<1>4. /\ pc[l] = "poll" /\ batch[l] = {}
      /\ UNCHANGED <<rev, mod, saved, mode, start, got, past, dropped>>
      /\ pc' = [pc EXCEPT ![l] = "save"]
      /\ batch' = [batch EXCEPT ![l] = {Version(k) : k \in Pulled(l)}]
  BY DEF Pull, store, process, history, BatchBelowCursor, Holding
<1>5. next[l] < next'[l] /\ next'[l] <= rev + 1
  BY <1>1, <1>2, <1>3 DEF CursorsInStore
<1>6. \A v \in batch'[l] : next[l] <= v.rev /\ v.rev < next'[l]
  BY <1>1, <1>2, <1>3, <1>4 DEF Version
<1>7. \A m \in Listeners : m # l => next'[m] = next[m]
  BY <1>1
<1> QED
  BY <1>4, <1>5, <1>6, <1>7

(* It takes every version between the old cursor and the new one.          *)
LEMMA PullStep ==
  ASSUME CursorInv, TypeOK', NEW l \in Listeners, Pull(l)
  PROVE  InvariantKept
<1> USE DEF CursorInv, TypeOK, Holding, Starting
<1>1. \A m \in Listeners : m # l => next'[m] = next[m]
  BY PullFacts
<1>3. \A m \in Listeners : \A k \in KeysOf[m] : k \in Keys
  BY KeysFacts
<1>4. /\ pc[l] = "poll" /\ batch[l] = {}
      /\ UNCHANGED <<rev, mod, saved, start, got>>
      /\ pc' = [pc EXCEPT ![l] = "save"]
      /\ batch' = [batch EXCEPT ![l] = {Version(k) : k \in Pulled(l)}]
  BY PullFacts
<1>5. next[l] < next'[l] /\ next'[l] <= rev + 1
  BY PullFacts
<1>6. \A v \in batch'[l] : next[l] <= v.rev /\ v.rev < next'[l]
  BY PullFacts
<1>7. \A v \in got[l] : v.rev < next[l]
  BY <1>4 DEF BatchBelowCursor, Looping
<1>8. CursorsInStore'
  BY <1>1, <1>4, <1>5 DEF CursorsInStore, Looping
<1>9. BatchBelowCursor'
  <2> SUFFICES ASSUME NEW m \in Listeners
               PROVE  /\ pc'[m] \notin Holding => batch'[m] = {}
                      /\ pc'[m] \in Starting => got'[m] = {}
                      /\ pc'[m] \in Looping => \A v \in got'[m] \cup batch'[m] : v.rev < next'[m]
    BY DEF BatchBelowCursor
  <2>1. CASE m = l
    <3>1. \A v \in got[l] : v \in Versions
      OBVIOUS
    <3> QED
      BY <2>1, <3>1, <1>4, <1>5, <1>6, <1>7 DEF Versions
  <2>2. CASE m # l
    BY <2>2, <1>1, <1>4 DEF BatchBelowCursor
  <2> QED
    BY <2>1, <2>2
<1>10. ASSUME FitsInOneReply, NoVersionSkipped PROVE NoVersionSkipped'
  <2> SUFFICES ASSUME NEW m \in Listeners, pc'[m] \in Looping, NEW k \in KeysOf[m],
                      mod[k] # Absent, start[m] <= mod[k], mod[k] < next'[m]
               PROVE  Version(k) \in got[m] \cup batch'[m]
    BY <1>4 DEF NoVersionSkipped, Version
  <2>1. CASE m = l /\ mod[k] < next[l]
    BY <2>1, <1>4, <1>10 DEF NoVersionSkipped, Looping
  <2>2. CASE m = l /\ next[l] <= mod[k]
    BY <2>2, <1>3, <1>4, <1>10, PulledAll DEF CursorsInStore
  <2>3. CASE m # l
    BY <2>3, <1>1, <1>4, <1>10 DEF NoVersionSkipped
  <2> QED
    BY <1>3, <2>1, <2>2, <2>3
<1>11. DeliveredOnce'
  <2> SUFFICES ASSUME NEW m \in Listeners PROVE batch'[m] \cap got[m] = {}
    BY <1>4 DEF DeliveredOnce
  <2>1. CASE m = l
    <3> SUFFICES ASSUME NEW v \in batch'[l], v \in got[l] PROVE FALSE
      BY <2>1
    <3>1. v.rev \in Nat
      BY DEF Versions
    <3> QED
      BY <3>1, <1>6, <1>7
  <2>2. CASE m # l
    BY <2>2, <1>4 DEF DeliveredOnce
  <2> QED
    BY <2>1, <2>2
<1>12. OneVersionPerKey'
  BY <1>4 DEF OneVersionPerKey, Version
<1> QED
  BY <1>8, <1>9, <1>10, <1>11, <1>12 DEF InvariantKept

(* A delivery moves one version from the batch to what was delivered.      *)
LEMMA DeliverStep ==
  ASSUME CursorInv, TypeOK', NEW l \in Listeners, Deliver(l)
  PROVE  InvariantKept
<1> USE DEF CursorInv, TypeOK, Deliver, Holding, Starting, Looping
<1>1. PICK v \in batch[l] :
        /\ batch' = [batch EXCEPT ![l] = @ \ {v}]
        /\ got' = [got EXCEPT ![l] = @ \cup {v}]
        /\ pc' = [pc EXCEPT ![l] = IF batch[l] = {v} THEN "poll" ELSE "deliver"]
  OBVIOUS
<1>2. UNCHANGED <<rev, mod, saved, next, start>>
  BY DEF store
<1>3. \A m \in Listeners :
        /\ got'[m] \cup batch'[m] = got[m] \cup batch[m]
        /\ pc'[m] \in Looping <=> pc[m] \in Looping
  BY <1>1
<1>4. CursorsInStore'
  BY <1>2, <1>3 DEF CursorsInStore
<1>5. BatchBelowCursor'
  <2>1. pc'[l] \notin Holding => batch'[l] = {}
    BY <1>1
  <2> QED
    BY <1>1, <1>2, <1>3, <2>1 DEF BatchBelowCursor
<1>6. ASSUME NoVersionSkipped PROVE NoVersionSkipped'
  BY <1>2, <1>3, <1>6 DEF NoVersionSkipped, Version
<1>7. DeliveredOnce' /\ OneVersionPerKey'
  BY <1>1 DEF DeliveredOnce, OneVersionPerKey
<1> QED
  BY <1>4, <1>5, <1>6, <1>7 DEF InvariantKept

(* A transaction gives the keys it writes a revision above every cursor,   *)
(* or removes them.                                                        *)
LEMMA TransactionStep ==
  ASSUME CursorInv, TypeOK', rev' = rev + 1,
         \A k \in Keys : mod'[k] \in {mod[k], rev + 1, Absent},
         UNCHANGED <<saved, pc, next, batch, start, got>>
  PROVE  InvariantKept
<1> USE DEF CursorInv, TypeOK
<1>1. CursorsInStore'
  BY DEF CursorsInStore, Absent
<1>2. BatchBelowCursor'
  BY DEF BatchBelowCursor
<1>3. ASSUME NoVersionSkipped PROVE NoVersionSkipped'
  <2> SUFFICES ASSUME NEW l \in Listeners, pc[l] \in Looping, NEW k \in KeysOf[l],
                      mod'[k] # Absent, start[l] <= mod'[k], mod'[k] < next[l]
               PROVE  Version(k)' \in got[l] \cup batch[l]
    BY DEF NoVersionSkipped
  <2>1. k \in Keys
    BY KeysFacts
  <2>2. mod'[k] = mod[k]
    BY <2>1 DEF CursorsInStore
  <2> QED
    BY <1>3, <2>2 DEF NoVersionSkipped, Version
<1>4. DeliveredOnce' /\ OneVersionPerKey'
  BY DEF DeliveredOnce, OneVersionPerKey
<1> QED
  BY <1>1, <1>2, <1>3, <1>4 DEF InvariantKept

(* Every step keeps the invariant.                                         *)
LEMMA NextInvariantKept == CursorInv /\ [Next]_vars => InvariantKept
<1> SUFFICES ASSUME CursorInv, [Next]_vars PROVE InvariantKept
  OBVIOUS
<1> TypeOK /\ TypeOK'
  BY NextTypeOK DEF CursorInv
<1>1. ASSUME NEW l \in Listeners, NEW k \in KeysOf[l], Notify(l, k)
      PROVE  InvariantKept
  BY <1>1, TransactionStep DEF Notify, PutAll, TypeOK, history
<1>2. ASSUME NEW k \in NotificationKeys, Expire(k)
      PROVE  InvariantKept
  BY <1>2, TransactionStep DEF Expire, DeleteAll, TypeOK, history
<1> saved <= rev + 1 /\ BatchBelowCursor
  BY DEF CursorInv, CursorsInStore
<1>3. ASSUME NEW m \in Modes, Boot(m)
      PROVE  InvariantKept
  BY <1>3, MoveStep DEF Boot, BatchBelowCursor, store, history
<1>4. ASSUME NEW l \in Listeners, Listen(l)
      PROVE  InvariantKept
  <2>1. FirstStep[mode] \in Starting
    BY <1>4, FirstStepStarts DEF Listen
  <2>2. \A m \in Listeners :
          /\ pc'[m] \in Looping => pc[m] \in Looping
          /\ pc'[m] \notin Holding => batch[m] = {}
          /\ pc'[m] \in Starting => got[m] = {}
    BY <1>4, <2>1 DEF Listen, TypeOK, BatchBelowCursor, Starting, Holding, Looping
  <2> QED
    BY <1>4, <2>2, MoveStep DEF Listen, store, history
<1>5. ASSUME NEW l \in Listeners, Thread(l)
      PROVE  InvariantKept
  <2>1. CASE ReadSaved(l)
    <3>1. CASE saved = NoRevision
      BY <2>1, <3>1, MoveStep
      DEF ReadSaved, TypeOK, BatchBelowCursor, Starting, Holding, Looping, store
    <3>2. CASE saved # NoRevision
      <4>1. saved \in Nat
        BY <3>2 DEF TypeOK
      <4> QED
        BY <2>1, <3>2, <4>1, EnterLoopStep DEF ReadSaved, store
    <3> QED
      BY <3>1, <3>2
  <2>2. CASE DeleteSaved(l)
    BY <2>2, MoveStep
    DEF DeleteSaved, TypeOK, NoRevision, BatchBelowCursor, Starting, Holding, Looping, store, history
  <2>3. CASE LatestRevision(l)
    BY <2>3, EnterLoopStep DEF LatestRevision, TypeOK, store
  <2>4. CASE SearchFrom(l)
    <3>1. CASE mod[l] = Absent
      BY <2>4, <3>1, MoveStep
      DEF SearchFrom, TypeOK, BatchBelowCursor, Starting, Holding, Looping, store
    <3>2. CASE mod[l] # Absent
      BY <2>4, <3>2, EnterLoopStep DEF SearchFrom, TypeOK, store
    <3> QED
      BY <3>1, <3>2
  <2>5. CASE Pull(l)
    BY <2>5, PullStep
  <2>6. CASE OpenSaved(l)
    BY <2>6, MoveStep
    DEF OpenSaved, TypeOK, NoRevision, BatchBelowCursor, Starting, Holding, Looping, store, history
  <2>7. CASE WriteSaved(l)
    <3>1. next[l] <= rev + 1
      BY <2>7 DEF WriteSaved, CursorInv, CursorsInStore, Looping
    <3> QED
      BY <2>7, <3>1, MoveStep
      DEF WriteSaved, TypeOK, BatchBelowCursor, Starting, Holding, Looping, store, history
  <2>8. CASE Deliver(l)
    BY <2>8, DeliverStep
  <2>9. CASE LeaveLoop(l)
    BY <2>9, MoveStep
    DEF LeaveLoop, TypeOK, BatchBelowCursor, Starting, Holding, Looping, store, history
  <2> QED
    BY <1>5, <2>1, <2>2, <2>3, <2>4, <2>5, <2>6, <2>7, <2>8, <2>9 DEF Thread
<1>6. ASSUME NEW l \in Listeners, ThreadFault(l)
      PROVE  InvariantKept
  BY <1>6, MoveStep
  DEF ThreadFault, DeleteFails, OpenFails, WriteFails, RequestFails, TypeOK, BatchBelowCursor,
      Starting, Holding, Looping, store, history
<1>7. CASE StopAll
  BY <1>7, MoveStep DEF StopAll, BatchBelowCursor, store, history
<1>8. CASE Crash
  <2>1. \A l \in Listeners : pc'[l] = "idle" /\ batch'[l] = {} /\ got'[l] = {}
    BY <1>8 DEF Crash
  <2> QED
    BY <1>8, <2>1
    DEF Crash, InvariantKept, CursorInv, CursorsInStore, BatchBelowCursor, OneVersionPerKey,
        NoVersionSkipped, DeliveredOnce, Looping, Holding, Starting, store
<1>9. CASE UNCHANGED vars
  BY <1>9, MoveStep DEF BatchBelowCursor, vars, store, process, history
<1> QED
  BY <1>1, <1>2, <1>3, <1>4, <1>5, <1>6, <1>7, <1>8, <1>9 DEF Next

LEMMA CursorInvHolds == Spec => []CursorInv
<1>1. Init => CursorInv
  BY InitIInv DEF IInv
<1>2. CursorInv /\ [Next]_vars => CursorInv'
  BY NextInvariantKept DEF InvariantKept
<1> QED
  BY <1>1, <1>2, PTL DEF Spec

LEMMA InvariantHolds == ASSUME FitsInOneReply PROVE Spec => []IInv
<1>1. Init => IInv
  BY InitIInv
<1>2. IInv /\ [Next]_vars => IInv'
  BY NextInvariantKept DEF InvariantKept, IInv
<1> QED
  BY <1>1, <1>2, PTL DEF Spec

(* When a reply has room for all the keys of a listener, a polling thread  *)
(* never steps over a notification.                                        *)
THEOREM NothingSkipped == ASSUME FitsInOneReply PROVE Spec => []NoVersionSkipped
<1>1. IInv => NoVersionSkipped
  BY DEF IInv
<1> QED
  BY <1>1, InvariantHolds, PTL

(* In one run of the application no notification is delivered twice.       *)
THEOREM NothingRepeated == Spec => []DeliveredOnce
<1>1. CursorInv => DeliveredOnce
  BY DEF CursorInv
<1> QED
  BY <1>1, CursorInvHolds, PTL

-----------------------------------------------------------------------------
(* The polling loop implements the coalescing feed.                        *)

(* A step that changes neither who is running nor what is to be fetched or *)
(* handled is a stutter of the feed.                                       *)
LEMMA FeedStutters ==
  ASSUME TypeOK, UNCHANGED <<mod, next, batch>>,
         \A l \in Listeners : pc'[l] \in Looping <=> pc[l] \in Looping
  PROVE  UNCHANGED Feed!vars
<1>1. Running' = Running
  BY DEF Running
<1>2. \A l \in Listeners : ToFetch(l)' = ToFetch(l) /\ InBatch(l)' = InBatch(l)
  BY <1>1 DEF ToFetch, InBatch
<1> QED
  BY <1>1, <1>2 DEF Feed!vars

(* A notification makes its key dirty for the thread that listens to it,   *)
(* and only for that one.                                                  *)
LEMMA NotifyInFeed ==
  ASSUME IInv, NEW l \in Listeners, NEW k \in KeysOf[l], Notify(l, k)
  PROVE  [Feed!Next]_Feed!vars
<1> USE DEF TypeOK, IInv, CursorInv
<1>1. /\ rev' = rev + 1 /\ UNCHANGED <<pc, next, batch>>
      /\ \A j \in Keys : mod'[j] = IF j \in {k, l} THEN rev + 1 ELSE mod[j]
  BY DEF Notify, PutAll
<1>2. Running' = Running /\ \A m \in Listeners : InBatch(m)' = InBatch(m)
  BY <1>1 DEF Running, InBatch
<1>3. \A m \in Listeners : \A j \in KeysOf[m] : j \in Keys /\ j # l /\ (j = k => m = l)
  BY KeysFacts, KeysAssumption, ListenersAssumption
<1>4. \A m \in Listeners : m # l => ToFetch(m)' = ToFetch(m)
  BY <1>1, <1>2, <1>3 DEF ToFetch
<1>5. CASE l \in Running
  <2>1. next[l] <= rev + 1
    BY <1>5 DEF CursorsInStore, Running
  <2>2. ToFetch(l)' = ToFetch(l) \cup {k}
    BY <1>1, <1>2, <1>3, <1>5, <2>1 DEF ToFetch, Absent
  <2>3. Feed!Publish(l, k)
    BY <1>2, <1>4, <1>5, <2>2 DEF Feed!Publish
  <2> QED
    BY <2>3 DEF Feed!Next
<1>6. CASE l \notin Running
  <2>1. ToFetch(l)' = ToFetch(l)
    BY <1>2, <1>6 DEF ToFetch
  <2> QED
    BY <1>2, <1>4, <2>1 DEF Feed!vars
<1> QED
  BY <1>5, <1>6

(* Keys that expire are withdrawn from the dirty keys.                     *)
LEMMA ExpireInFeed ==
  ASSUME IInv, NEW k \in NotificationKeys, Expire(k)
  PROVE  [Feed!Next]_Feed!vars
<1> USE DEF TypeOK, IInv, CursorInv
<1> DEFINE S == SameLease(mod, k) \cap NotificationKeys
<1>1. /\ UNCHANGED <<pc, next, batch>>
      /\ \A j \in Keys : mod'[j] = IF j \in SameLease(mod, k) THEN Absent ELSE mod[j]
  BY DEF Expire, DeleteAll
<1>2. Running' = Running /\ \A m \in Listeners : InBatch(m)' = InBatch(m)
  BY <1>1 DEF Running, InBatch
<1>3. \A m \in Listeners : ToFetch(m)' = ToFetch(m) \ S
  BY <1>1, <1>2, KeysFacts DEF ToFetch, Absent
<1>4. Feed!Withdraw(S)
  BY <1>2, <1>3 DEF Feed!Withdraw
<1>5. S \in SUBSET UNION {KeysOf[l] : l \in Listeners}
  BY DEF NotificationKeys
<1> QED
  BY <1>4, <1>5 DEF Feed!Next

(* Entering the loop is a subscription.                                    *)
LEMMA EnterLoopInFeed ==
  ASSUME TypeOK, NEW l \in Listeners, NEW r \in Nat, EnterLoop(l, r),
         pc[l] \in {"saved", "latest", "search"}, UNCHANGED <<mod, batch>>
  PROVE  [Feed!Next]_Feed!vars
<1> USE DEF TypeOK, EnterLoop
<1>1. Running' = Running \cup {l} /\ l \notin Running
  BY DEF Running, Looping
<1>2. \A m \in Listeners : InBatch(m)' = InBatch(m)
  BY DEF InBatch
<1>3. \A m \in Listeners : m # l => ToFetch(m)' = ToFetch(m)
  BY <1>1 DEF ToFetch
<1>4. ToFetch(l)' \in SUBSET KeysOf[l]
  BY DEF ToFetch
<1>5. Feed!Subscribe(l)
  BY <1>1, <1>2, <1>3, <1>4 DEF Feed!Subscribe
<1> QED
  BY <1>5 DEF Feed!Next

(* A pull fetches all the dirty keys.                                      *)
LEMMA PullInFeed ==
  ASSUME IInv, FitsInOneReply, NEW l \in Listeners, Pull(l)
  PROVE  [Feed!Next]_Feed!vars
<1> USE DEF TypeOK, IInv, CursorInv
<1>1. PICK top \in Pulled(l) :
        /\ \A j \in Pulled(l) : mod[j] <= mod[top]
        /\ next' = [next EXCEPT ![l] = mod[top] + 1]
  BY DEF Pull
<1>2. /\ pc[l] = "poll" /\ batch[l] = {} /\ mod' = mod
      /\ pc' = [pc EXCEPT ![l] = "save"]
      /\ batch' = [batch EXCEPT ![l] = {Version(k) : k \in Pulled(l)}]
  BY DEF Pull, store, BatchBelowCursor, Holding
<1>3. \A m \in Listeners : \A j \in KeysOf[m] : mod[j] \in Nat /\ mod[j] <= rev
  BY KeysFacts DEF CursorsInStore
<1>4. Running' = Running /\ l \in Running
  BY <1>2 DEF Running, Looping
<1>5. Pulled(l) = ToFetch(l)
  BY <1>3, <1>4, PulledAll DEF ToFetch
<1>6. InBatch(l) = {} /\ InBatch(l)' = ToFetch(l)
  <2>1. InBatch(l) = {}
    BY <1>2 DEF InBatch
  <2>2. batch'[l] = {Version(k) : k \in ToFetch(l)}
    BY <1>2, <1>5
  <2>3. \A k : Version(k).key = k
    BY DEF Version
  <2>4. \A k : k \in InBatch(l)' <=> \E v \in batch'[l] : k = v.key
    BY DEF InBatch
  <2>5. \A k : k \in InBatch(l)' <=> k \in ToFetch(l)
    BY <2>2, <2>3, <2>4
  <2> QED
    BY <2>1, <2>5
<1>7. ToFetch(l)' = {}
  <2> SUFFICES ASSUME NEW k \in KeysOf[l], mod[k] # Absent, next'[l] <= mod[k]
               PROVE  FALSE
    BY <1>2 DEF ToFetch
  <2>1. mod[top] \in Nat /\ mod[k] \in Nat /\ next'[l] = mod[top] + 1
    BY <1>1, <1>3, PulledType
  <2>2. next[l] <= mod[top]
    BY <1>1, <1>5 DEF ToFetch
  <2>3. k \in Pulled(l)
    BY <1>4, <1>5, <2>1, <2>2 DEF ToFetch
  <2> QED
    BY <1>1, <2>1, <2>3
<1>8. \A m \in Listeners : m # l => ToFetch(m)' = ToFetch(m) /\ InBatch(m)' = InBatch(m)
  BY <1>1, <1>2, <1>4 DEF ToFetch, InBatch
<1>9. ToFetch(l) # {}
  BY <1>1, <1>5
<1>10. Feed!Fetch(l)
  BY <1>4, <1>6, <1>7, <1>8, <1>9 DEF Feed!Fetch
<1> QED
  BY <1>10 DEF Feed!Next

(* A call of the callback handles one key of the batch.                    *)
LEMMA DeliverInFeed ==
  ASSUME IInv, NEW l \in Listeners, Deliver(l)
  PROVE  [Feed!Next]_Feed!vars
<1> USE DEF TypeOK, IInv, CursorInv
<1>1. PICK v \in batch[l] :
        /\ batch' = [batch EXCEPT ![l] = @ \ {v}]
        /\ pc' = [pc EXCEPT ![l] = IF batch[l] = {v} THEN "poll" ELSE "deliver"]
  BY DEF Deliver
<1>2. pc[l] = "deliver" /\ mod' = mod /\ next' = next
  BY DEF Deliver, store
<1>3. Running' = Running
  BY <1>1, <1>2 DEF Running, Looping
<1>4. \A m \in Listeners : ToFetch(m)' = ToFetch(m)
  BY <1>2, <1>3 DEF ToFetch
<1>5. InBatch(l)' = InBatch(l) \ {v.key} /\ v.key \in InBatch(l)
  BY <1>1 DEF InBatch, OneVersionPerKey
<1>6. \A m \in Listeners : m # l => InBatch(m)' = InBatch(m)
  BY <1>1 DEF InBatch
<1>7. Feed!Handle(l, v.key)
  BY <1>3, <1>4, <1>5, <1>6 DEF Feed!Handle
<1> QED
  BY <1>5, <1>7 DEF Feed!Next

(* Leaving the loop, or losing the process, halts subscriptions.           *)
LEMMA HaltInFeed ==
  ASSUME TypeOK, NEW S \in SUBSET Listeners, mod' = mod,
         \A l \in Listeners : IF l \in S
           THEN pc'[l] \notin Looping /\ batch'[l] = {}
           ELSE pc'[l] = pc[l] /\ next'[l] = next[l] /\ batch'[l] = batch[l]
  PROVE  [Feed!Next]_Feed!vars
<1>1. Running' = Running \ S
  BY DEF Running
<1>2. \A l \in Listeners : /\ ToFetch(l)' = IF l \in S THEN {} ELSE ToFetch(l)
                           /\ InBatch(l)' = IF l \in S THEN {} ELSE InBatch(l)
  BY <1>1 DEF ToFetch, InBatch
<1>3. Feed!Halt(S)
  BY <1>1, <1>2 DEF Feed!Halt
<1> QED
  BY <1>3 DEF Feed!Next

LEMMA InitInFeed == Init => Feed!Init
BY DEF Init, Feed!Init, Running, ToFetch, InBatch, Looping

(* Every step is a step of the feed or leaves it as it is.                 *)
LEMMA NextInFeed == FitsInOneReply /\ IInv /\ [Next]_vars => [Feed!Next]_Feed!vars
<1> SUFFICES ASSUME FitsInOneReply, IInv, [Next]_vars PROVE [Feed!Next]_Feed!vars
  OBVIOUS
<1> TypeOK /\ BatchBelowCursor
  BY DEF IInv, CursorInv
<1>1. ASSUME NEW l \in Listeners, NEW k \in KeysOf[l], Notify(l, k)
      PROVE  [Feed!Next]_Feed!vars
  BY <1>1, NotifyInFeed
<1>2. ASSUME NEW k \in NotificationKeys, Expire(k)
      PROVE  [Feed!Next]_Feed!vars
  BY <1>2, ExpireInFeed
<1>3. ASSUME NEW m \in Modes, Boot(m)
      PROVE  [Feed!Next]_Feed!vars
  BY <1>3, FeedStutters DEF Boot, store
<1>4. ASSUME NEW l \in Listeners, Listen(l)
      PROVE  [Feed!Next]_Feed!vars
  <2>1. FirstStep[mode] \in Starting
    BY <1>4, FirstStepStarts DEF Listen
  <2> QED
    BY <1>4, <2>1, FeedStutters DEF Listen, TypeOK, Starting, Looping, store
<1>5. ASSUME NEW l \in Listeners, Thread(l)
      PROVE  [Feed!Next]_Feed!vars
  <2>1. CASE ReadSaved(l)
    <3>1. CASE saved = NoRevision
      BY <2>1, <3>1, FeedStutters DEF ReadSaved, TypeOK, Looping, store
    <3>2. CASE saved # NoRevision
      BY <2>1, <3>2, EnterLoopInFeed DEF ReadSaved, TypeOK, store
    <3> QED
      BY <3>1, <3>2
  <2>2. CASE DeleteSaved(l)
    BY <2>2, FeedStutters DEF DeleteSaved, TypeOK, Looping, store
  <2>3. CASE LatestRevision(l)
    BY <2>3, EnterLoopInFeed DEF LatestRevision, TypeOK, store
  <2>4. CASE SearchFrom(l)
    <3>1. CASE mod[l] = Absent
      BY <2>4, <3>1, FeedStutters DEF SearchFrom, TypeOK, Looping, store
    <3>2. CASE mod[l] # Absent
      BY <2>4, <3>2, EnterLoopInFeed DEF SearchFrom, TypeOK, store
    <3> QED
      BY <3>1, <3>2
  <2>5. CASE Pull(l)
    BY <2>5, PullInFeed
  <2>6. CASE OpenSaved(l)
    BY <2>6, FeedStutters DEF OpenSaved, TypeOK, Looping, store
  <2>7. CASE WriteSaved(l)
    BY <2>7, FeedStutters DEF WriteSaved, TypeOK, Looping, store
  <2>8. CASE Deliver(l)
    BY <2>8, DeliverInFeed
  <2>9. CASE LeaveLoop(l)
    <3>1. batch[l] = {}
      BY <2>9 DEF LeaveLoop, BatchBelowCursor, Holding
    <3>2. {l} \in SUBSET Listeners
      OBVIOUS
    <3>3. \A m \in Listeners : IF m \in {l}
            THEN pc'[m] \notin Looping /\ batch'[m] = {}
            ELSE pc'[m] = pc[m] /\ next'[m] = next[m] /\ batch'[m] = batch[m]
      BY <2>9, <3>1 DEF LeaveLoop, TypeOK, Looping
    <3> QED
      BY <2>9, <3>2, <3>3, HaltInFeed DEF LeaveLoop, store
  <2> QED
    BY <1>5, <2>1, <2>2, <2>3, <2>4, <2>5, <2>6, <2>7, <2>8, <2>9 DEF Thread
<1>6. ASSUME NEW l \in Listeners, ThreadFault(l)
      PROVE  [Feed!Next]_Feed!vars
  <2>1. CASE DeleteFails(l) \/ OpenFails(l)
    BY <2>1, FeedStutters DEF DeleteFails, OpenFails, TypeOK, Looping, store
  <2>2. CASE WriteFails(l)
    BY <2>2, FeedStutters DEF WriteFails, TypeOK, Looping, store
  <2>3. CASE RequestFails(l) /\ pc[l] # "poll"
    BY <2>3, FeedStutters DEF RequestFails, TypeOK, Looping, store
  <2>4. CASE RequestFails(l) /\ pc[l] = "poll"
    <3>1. batch[l] = {}
      BY <2>4 DEF BatchBelowCursor, Holding
    <3>2. {l} \in SUBSET Listeners
      OBVIOUS
    <3>3. \A m \in Listeners : IF m \in {l}
            THEN pc'[m] \notin Looping /\ batch'[m] = {}
            ELSE pc'[m] = pc[m] /\ next'[m] = next[m] /\ batch'[m] = batch[m]
      BY <2>4, <3>1 DEF RequestFails, TypeOK, Looping
    <3> QED
      BY <2>4, <3>2, <3>3, HaltInFeed DEF RequestFails, store
  <2> QED
    BY <1>6, <2>1, <2>2, <2>3, <2>4 DEF ThreadFault
<1>7. CASE StopAll
  BY <1>7, FeedStutters DEF StopAll, store
<1>8. CASE Crash
  BY <1>8, HaltInFeed DEF Crash, Looping, store
<1>9. CASE UNCHANGED vars
  BY <1>9, FeedStutters DEF vars, store
<1> QED
  BY <1>1, <1>2, <1>3, <1>4, <1>5, <1>6, <1>7, <1>8, <1>9 DEF Next

(* When a reply has room for all the keys of a listener, the polling       *)
(* threads implement the coalescing feed.                                  *)
THEOREM PollingImplementsFeed == ASSUME FitsInOneReply PROVE Spec => ImplementsFeed
<1>1. Init => Feed!Init
  BY InitInFeed
<1>2. IInv /\ [Next]_vars => [Feed!Next]_Feed!vars
  BY NextInFeed
<1> QED
  BY <1>1, <1>2, InvariantHolds, PTL DEF Spec, ImplementsFeed, Feed!Spec

-----------------------------------------------------------------------------
(* Across restarts: at most once.                                          *)

(* One thread has the file for itself.                                     *)
OneListener == \A l, m \in Listeners : l = m

Seen(l) == got[l] \cup past[l]

(* The revision in the file lies above all that was ever delivered: that   *)
(* of the batch is saved before the first of its callbacks.  The file is   *)
(* empty while it is being written.                                        *)
SavedIsAhead ==
  saved # NoRevision =>
    \A l \in Listeners :
      /\ \A v \in Seen(l) : v.rev < saved
      /\ pc[l] = "deliver" => \A v \in batch[l] : v.rev < saved
      /\ pc[l] # "write"

(* What earlier runs delivered lies below all that this run may take.      *)
PastIsBehind ==
  \A l \in Listeners :
    /\ \A v \in Seen(l) : v.rev <= rev
    /\ pc[l] \in Looping => \A v \in past[l] : v.rev < next[l]
    /\ \A v \in past[l] : \A w \in got[l] \cup batch[l] : v.rev < w.rev

NeverSearches == \A l \in Listeners : pc[l] # "search"

OnceInv == SavedIsAhead /\ PastIsBehind /\ NeverSearches

(* No replay, and the file can be opened.                                  *)
OnceAssumption == OneListener /\ "replay" \notin Modes /\ "open" \notin Faults

LEMMA VersionsHaveRevisions ==
  ASSUME TypeOK, NEW l \in Listeners
  PROVE  \A v \in got[l] \cup past[l] \cup batch[l] \cup dropped[l] : v.rev \in Nat
BY DEF TypeOK, Versions

(* A step that delivers nothing keeps the invariant if the file keeps its  *)
(* revision, loses it or gets the cursor of the thread.                    *)
LEMMA MoveOnce ==
  ASSUME OnceAssumption, CursorInv, OnceInv, TypeOK',
         rev <= rev', UNCHANGED <<next, batch, got, past>>,
         NEW l \in Listeners,
         \/ /\ saved' = saved
            /\ pc'[l] = "write" => pc[l] = "write"
            /\ pc'[l] = "deliver" => pc[l] \in {"deliver", "write"}
         \/ saved' = NoRevision
         \/ saved' = next[l] /\ pc[l] \in Looping /\ pc'[l] # "write",
         pc'[l] \in Looping => pc[l] \in Looping,
         pc'[l] # "search"
  PROVE  OnceInv'
<1> USE DEF OnceInv, CursorInv, NoRevision
<1>0. \A m \in Listeners : m = l
  BY DEF OnceAssumption, OneListener
<1>1. \A v \in got[l] \cup past[l] \cup batch[l] : v.rev \in Nat
  BY VersionsHaveRevisions
<1>2. saved \in Int /\ saved' \in Int /\ rev \in Nat /\ rev' \in Nat /\ next[l] \in Nat
  BY DEF TypeOK
<1>3. SavedIsAhead'
  <2>1. pc[l] \in Looping => \A v \in got[l] \cup batch[l] : v.rev < next[l]
    BY DEF BatchBelowCursor
  <2>2. pc[l] \in Looping => \A v \in past[l] : v.rev < next[l]
    BY DEF PastIsBehind
  <2> QED
    BY <1>0, <1>2, <2>1, <2>2 DEF SavedIsAhead, Seen
<1>4. PastIsBehind'
  BY <1>0, <1>1, <1>2 DEF PastIsBehind, Seen
<1>5. NeverSearches'
  BY <1>0 DEF NeverSearches
<1> QED
  BY <1>3, <1>4, <1>5

(* A thread enters its loop above what was delivered.                      *)
LEMMA EnterLoopOnce ==
  ASSUME OnceAssumption, CursorInv, OnceInv, TypeOK',
         NEW l \in Listeners, NEW r \in Nat, EnterLoop(l, r), pc[l] \in {"saved", "latest"},
         \A v \in past[l] : v.rev < r,
         UNCHANGED <<rev, saved, batch, got, past>>
  PROVE  OnceInv'
<1> USE DEF OnceInv, CursorInv, EnterLoop
<1>0. \A m \in Listeners : m = l
  BY DEF OnceAssumption, OneListener
<1>1. pc'[l] = "poll" /\ next'[l] = r
  BY DEF TypeOK
<1>2. SavedIsAhead'
  BY <1>0, <1>1 DEF SavedIsAhead, Seen
<1>3. PastIsBehind'
  BY <1>0, <1>1 DEF PastIsBehind, Seen
<1>4. NeverSearches'
  BY <1>0, <1>1 DEF NeverSearches
<1> QED
  BY <1>2, <1>3, <1>4

LEMMA PullOnce ==
  ASSUME OnceAssumption, CursorInv, OnceInv, TypeOK', NEW l \in Listeners, Pull(l)
  PROVE  OnceInv'
<1> USE DEF OnceInv, CursorInv
<1>0. \A m \in Listeners : m = l
  BY DEF OnceAssumption, OneListener
<1>1. /\ pc[l] = "poll" /\ pc'[l] = "save" /\ UNCHANGED <<rev, saved, got, past>>
      /\ next[l] < next'[l]
      /\ \A v \in batch'[l] : next[l] <= v.rev
  BY PullFacts DEF TypeOK
<1>2. /\ next[l] \in Nat /\ next'[l] \in Nat
      /\ \A v \in past[l] : v.rev \in Nat
      /\ \A v \in batch'[l] : v.rev \in Nat
  BY VersionsHaveRevisions DEF TypeOK, Versions
<1>3. \A v \in past[l] : v.rev < next[l]
  BY <1>1 DEF PastIsBehind, Looping
<1>4. SavedIsAhead'
  BY <1>0, <1>1 DEF SavedIsAhead, Seen
<1>5. PastIsBehind'
  BY <1>0, <1>1, <1>2, <1>3 DEF PastIsBehind, Seen
<1>6. NeverSearches'
  BY <1>0, <1>1 DEF NeverSearches
<1> QED
  BY <1>4, <1>5, <1>6

LEMMA DeliverOnce ==
  ASSUME OnceAssumption, CursorInv, OnceInv, TypeOK', NEW l \in Listeners, Deliver(l)
  PROVE  OnceInv'
<1> USE DEF OnceInv, CursorInv
<1>0. \A m \in Listeners : m = l
  BY DEF OnceAssumption, OneListener
<1>1. PICK v \in batch[l] :
        /\ batch' = [batch EXCEPT ![l] = @ \ {v}]
        /\ got' = [got EXCEPT ![l] = @ \cup {v}]
        /\ pc' = [pc EXCEPT ![l] = IF batch[l] = {v} THEN "poll" ELSE "deliver"]
  BY DEF Deliver
<1>2. pc[l] = "deliver" /\ UNCHANGED <<rev, saved, next, past>>
  BY DEF Deliver, store
<1>3. /\ batch'[l] \subseteq batch[l] /\ got'[l] = got[l] \cup {v}
      /\ pc'[l] \in {"poll", "deliver"}
  BY <1>1 DEF TypeOK
<1>4. v.rev <= rev
  <2>1. v.rev < next[l] /\ next[l] <= rev + 1
    BY <1>2 DEF BatchBelowCursor, CursorsInStore, Looping
  <2>2. v.rev \in Nat /\ next[l] \in Nat /\ rev \in Nat
    BY VersionsHaveRevisions DEF TypeOK
  <2> QED
    BY <2>1, <2>2
<1>5. SavedIsAhead'
  BY <1>0, <1>2, <1>3 DEF SavedIsAhead, Seen
<1>6. PastIsBehind'
  BY <1>0, <1>2, <1>3, <1>4 DEF PastIsBehind, Seen, Looping
<1>7. NeverSearches'
  BY <1>0, <1>3 DEF NeverSearches
<1> QED
  BY <1>5, <1>6, <1>7

LEMMA CrashOnce ==
  ASSUME OnceInv, Crash
  PROVE  OnceInv'
<1> USE DEF OnceInv
<1>1. \A l \in Listeners :
        /\ pc'[l] = "idle" /\ batch'[l] = {} /\ got'[l] = {}
        /\ past'[l] = past[l] \cup got[l]
  BY DEF Crash
<1>2. UNCHANGED <<rev, saved>>
  BY DEF Crash, store
<1>3. SavedIsAhead'
  BY <1>1, <1>2 DEF SavedIsAhead, Seen
<1>4. PastIsBehind'
  BY <1>1, <1>2 DEF PastIsBehind, Seen, Looping
<1>5. NeverSearches'
  BY <1>1 DEF NeverSearches
<1> QED
  BY <1>3, <1>4, <1>5

LEMMA NextOnceInv == OnceAssumption /\ CursorInv /\ OnceInv /\ [Next]_vars => OnceInv'
<1> SUFFICES ASSUME OnceAssumption, CursorInv, OnceInv, [Next]_vars PROVE OnceInv'
  OBVIOUS
<1> TypeOK /\ TypeOK'
  BY NextTypeOK DEF CursorInv
<1>r. rev \in Nat /\ rev <= rev /\ rev <= rev + 1
  BY DEF TypeOK
<1>s. \A l \in Listeners : pc[l] # "search"
  BY DEF OnceInv, NeverSearches
<1>1. ASSUME UNCHANGED <<saved, pc, next, batch, got, past>>, rev' \in {rev, rev + 1}
      PROVE  OnceInv'
  <2>1. CASE Listeners = {}
    BY <2>1 DEF OnceInv, SavedIsAhead, PastIsBehind, NeverSearches
  <2>2. CASE Listeners # {}
    BY <1>1, <1>r, <1>s, <2>2, MoveOnce
  <2> QED
    BY <2>1, <2>2
<1>2. ASSUME NEW l \in Listeners, NEW k \in KeysOf[l], Notify(l, k) PROVE OnceInv'
  BY <1>1, <1>2 DEF Notify, history
<1>3. ASSUME NEW k \in NotificationKeys, Expire(k) PROVE OnceInv'
  BY <1>1, <1>3 DEF Expire, history
<1>4. ASSUME NEW m \in Modes, Boot(m) PROVE OnceInv'
  BY <1>1, <1>4 DEF Boot, store, history
<1>5. ASSUME NEW l \in Listeners, Listen(l) PROVE OnceInv'
  <2>1. FirstStep[mode] \in Starting /\ FirstStep[mode] # "search"
    <3>1. FirstStep[mode] \in Starting
      BY <1>5, FirstStepStarts DEF Listen
    <3>2. mode \in {"catchup", "now"}
      BY <1>5, BoundsAssumption DEF Listen, TypeOK, OnceAssumption, AllModes
    <3> QED
      BY <3>1, <3>2 DEF FirstStep
  <2> QED
    BY <1>5, <1>r, <2>1, MoveOnce DEF Listen, TypeOK, Starting, Looping, store, history
<1>6. ASSUME NEW l \in Listeners, Thread(l) PROVE OnceInv'
  <2>1. CASE ReadSaved(l)
    <3>1. CASE saved = NoRevision
      BY <2>1, <3>1, <1>r, MoveOnce DEF ReadSaved, TypeOK, Looping, store
    <3>2. CASE saved # NoRevision
      <4>1. saved \in Nat
        BY <3>2 DEF TypeOK
      <4>2. \A v \in past[l] : v.rev < saved
        BY <3>2 DEF OnceInv, SavedIsAhead, Seen
      <4> QED
        BY <2>1, <3>2, <4>1, <4>2, EnterLoopOnce DEF ReadSaved, store
    <3> QED
      BY <3>1, <3>2
  <2>2. CASE DeleteSaved(l)
    BY <2>2, <1>r, MoveOnce DEF DeleteSaved, TypeOK, Looping, store, history
  <2>3. CASE LatestRevision(l)
    <3>1. \A v \in past[l] : v.rev < rev + 1
      BY <1>r, VersionsHaveRevisions DEF OnceInv, PastIsBehind, Seen
    <3> QED
      BY <2>3, <1>r, <3>1, EnterLoopOnce DEF LatestRevision, store
  <2>4. CASE SearchFrom(l)
    BY <2>4, <1>s DEF SearchFrom
  <2>5. CASE Pull(l)
    BY <2>5, PullOnce
  <2>6. CASE OpenSaved(l)
    BY <2>6, <1>r, MoveOnce DEF OpenSaved, TypeOK, Looping, store, history
  <2>7. CASE WriteSaved(l)
    BY <2>7, <1>r, MoveOnce DEF WriteSaved, TypeOK, Looping, store, history
  <2>8. CASE Deliver(l)
    BY <2>8, DeliverOnce
  <2>9. CASE LeaveLoop(l)
    BY <2>9, <1>r, MoveOnce DEF LeaveLoop, TypeOK, Looping, store, history
  <2> QED
    BY <1>6, <2>1, <2>2, <2>3, <2>4, <2>5, <2>6, <2>7, <2>8, <2>9 DEF Thread
<1>7. ASSUME NEW l \in Listeners, ThreadFault(l) PROVE OnceInv'
  <2>1. ~ OpenFails(l)
    BY DEF OpenFails, OnceAssumption
  <2>2. CASE WriteFails(l)
    BY <2>2, <1>r, MoveOnce DEF WriteFails, TypeOK, Looping, store, history
  <2>3. CASE RequestFails(l) \/ DeleteFails(l)
    BY <2>3, <1>r, MoveOnce DEF RequestFails, DeleteFails, TypeOK, Looping, store, history
  <2> QED
    BY <1>7, <2>1, <2>2, <2>3 DEF ThreadFault
<1>8. CASE StopAll
  BY <1>1, <1>8 DEF StopAll, store, history
<1>9. CASE Crash
  BY <1>9, CrashOnce
<1>10. CASE UNCHANGED vars
  BY <1>1, <1>10 DEF vars, store, process, history
<1> QED
  BY <1>2, <1>3, <1>4, <1>5, <1>6, <1>7, <1>8, <1>9, <1>10 DEF Next

(* One listener, no replay, and a file that can be opened: whatever        *)
(* requests and writes fail and wherever the process dies, no notification *)
(* that was passed to the callback is passed to it by a later run          *)
(* (_polling: _save_last_revision before the callbacks).                   *)
THEOREM DeliveredAtMostOnce == ASSUME OnceAssumption PROVE Spec => []AtMostOnce
<1>1. Init => OnceInv
  BY DEF Init, OnceInv, SavedIsAhead, PastIsBehind, NeverSearches, Seen, Looping
<1>2. CursorInv /\ OnceInv /\ [Next]_vars => OnceInv'
  BY NextOnceInv
<1>3. CursorInv /\ OnceInv => AtMostOnce
  <2> SUFFICES ASSUME CursorInv, OnceInv, NEW l \in Listeners,
                      NEW v \in batch[l] \cup got[l], v \in past[l]
               PROVE  FALSE
    BY DEF AtMostOnce
  <2>1. v.rev < v.rev
    BY DEF OnceInv, PastIsBehind
  <2>2. v.rev \in Nat
    BY VersionsHaveRevisions DEF CursorInv
  <2> QED
    BY <2>1, <2>2
<1> QED
  BY <1>1, <1>2, <1>3, CursorInvHolds, PTL DEF Spec

-----------------------------------------------------------------------------
(* Across restarts: nothing is missed but what was in flight.              *)

(* One listener that only catches up, replies that are not cut short, and  *)
(* a file that is not lost, neither for a fault nor for the death of the   *)
(* process while it is written.                                            *)
FlightAssumption ==
  /\ OneListener /\ FitsInOneReply
  /\ Modes \subseteq {"catchup"} /\ Faults \subseteq {"pull"}
  /\ "write" \notin CrashPoints

(* Up to which revision a run of l has come, or the next one will begin.   *)
Reached(l) == IF pc[l] \in Looping THEN next[l] ELSE saved

Known(l, k) == Version(k) \in Seen(l) \cup batch[l] \cup dropped[l]

KnownBelow(l, r) ==
  \A k \in KeysOf[l] :
    (mod[k] # Absent /\ mod[k] < r /\ \E v \in Seen(l) : v.rev < mod[k]) => Known(l, k)

(* Once something was delivered there is a revision in the file, which is  *)
(* never ahead of the thread.                                              *)
FileKept ==
  \A l \in Listeners :
    /\ pc[l] \notin {"delete", "search"}
    /\ pc[l] = "latest" => saved = NoRevision /\ Seen(l) = {}
    /\ pc[l] # "write" /\ (Seen(l) # {} \/ pc[l] = "deliver") => saved # NoRevision
    /\ pc[l] \in Looping => saved <= next[l]

BatchFromStart ==
  \A l \in Listeners : pc[l] \in Looping =>
    start[l] <= next[l] /\ \A v \in batch[l] : start[l] <= v.rev

FlightInv ==
  /\ FileKept
  /\ BatchFromStart
  /\ \A l \in Listeners : KnownBelow(l, Reached(l))

(* A step that moves l along and takes, delivers and drops nothing.        *)
LEMMA MoveFlight ==
  ASSUME FlightAssumption, IInv, FlightInv, TypeOK', NEW l \in Listeners,
         UNCHANGED <<mod, next, batch, start, got, past, dropped>>,
         \/ saved' = saved /\ pc[l] # "write" /\ pc'[l] \notin {"write", "deliver"}
         \/ saved' = saved /\ pc'[l] = pc[l]
         \/ saved' = NoRevision /\ pc'[l] = "write"
         \/ saved' = next[l] /\ pc[l] = "write" /\ pc'[l] = "deliver",
         pc'[l] \in Looping => pc[l] \in Looping,
         pc'[l] \notin {"delete", "search"},
         pc'[l] = "latest" => saved' = NoRevision
  PROVE  FlightInv'
<1> USE DEF FlightInv, IInv, CursorInv
<1>0. \A m \in Listeners : m = l
  BY DEF FlightAssumption, OneListener
<1>1. saved \in Int /\ saved' \in Int /\ next[l] \in Nat /\ NoRevision = -1
  BY DEF TypeOK, NoRevision
<1>2. FileKept'
  BY <1>0, <1>1 DEF FileKept, Seen, Looping
<1>3. BatchFromStart'
  BY <1>0 DEF BatchFromStart
<1>4. KnownBelow(l, Reached(l))'
  <2>1. Reached(l)' <= Reached(l) /\ Reached(l) \in Int /\ Reached(l)' \in Int
    BY <1>1 DEF Reached, FileKept, Looping
  <2>2. \A k \in KeysOf[l] : mod[k] \in Nat
    BY KeysFacts DEF TypeOK
  <2>3. KnownBelow(l, Reached(l))
    OBVIOUS
  <2>4. Seen(l)' = Seen(l) /\ \A k \in KeysOf[l] : Known(l, k)' <=> Known(l, k)
    BY DEF Seen, Known, Version
  <2> HIDE DEF FlightInv, IInv, CursorInv
  <2> QED
    BY <2>1, <2>2, <2>3, <2>4 DEF KnownBelow
<1> QED
  BY <1>0, <1>2, <1>3, <1>4

(* It enters its loop where the last run ended, or for the first time.     *)
LEMMA EnterLoopFlight ==
  ASSUME FlightAssumption, IInv, FlightInv, TypeOK', NEW l \in Listeners, NEW r \in Nat,
         EnterLoop(l, r),
         \/ pc[l] = "saved" /\ r = saved
         \/ pc[l] = "latest",
         UNCHANGED <<mod, saved, batch, got, past, dropped>>
  PROVE  FlightInv'
<1> USE DEF FlightInv, IInv, CursorInv, EnterLoop
<1>0. \A m \in Listeners : m = l
  BY DEF FlightAssumption, OneListener
<1>1. pc'[l] = "poll" /\ next'[l] = r /\ batch[l] = {}
  BY DEF TypeOK, BatchBelowCursor, Holding
<1>2. FileKept'
  BY <1>0, <1>1 DEF FileKept, Seen, Looping, NoRevision
<1>3. BatchFromStart'
  BY <1>0, <1>1 DEF BatchFromStart, TypeOK
<1>4. KnownBelow(l, Reached(l))'
  <2>1. Seen(l)' = Seen(l) /\ \A k \in KeysOf[l] : Known(l, k)' <=> Known(l, k)
    BY DEF Seen, Known, Version
  <2>2. Reached(l)' = r
    BY <1>1 DEF Reached, Looping
  <2>3. CASE pc[l] = "latest"
    BY <2>1, <2>3 DEF KnownBelow, FileKept
  <2>4. CASE pc[l] = "saved" /\ r = saved
    <3>1. KnownBelow(l, r)
      BY <2>4 DEF Reached, Looping
    <3> QED
      BY <2>1, <2>2, <3>1 DEF KnownBelow
  <2> QED
    BY <2>3, <2>4
<1> QED
  BY <1>0, <1>2, <1>3, <1>4

(* A pull takes all there is up to the new cursor.                         *)
LEMMA PullFlight ==
  ASSUME FlightAssumption, IInv, FlightInv, TypeOK', NEW l \in Listeners, Pull(l)
  PROVE  FlightInv'
<1> USE DEF FlightInv, IInv, CursorInv
<1>0. \A m \in Listeners : m = l
  BY DEF FlightAssumption, OneListener
<1>1. /\ pc[l] = "poll" /\ pc'[l] = "save" /\ batch[l] = {}
      /\ UNCHANGED <<mod, saved, start, got, past, dropped>>
      /\ batch'[l] = {Version(k) : k \in Pulled(l)}
      /\ next[l] < next'[l]
      /\ \A v \in batch'[l] : next[l] <= v.rev
  BY PullFacts DEF TypeOK
<1>2. /\ next[l] \in Nat /\ next'[l] \in Nat /\ start[l] \in Nat /\ saved \in Int
      /\ \A v \in batch'[l] : v.rev \in Nat
      /\ \A k \in KeysOf[l] : mod[k] \in Nat /\ mod[k] <= rev
  BY VersionsHaveRevisions, KeysFacts DEF TypeOK, Versions, NoRevision, CursorsInStore
<1>3. FileKept'
  BY <1>0, <1>1, <1>2 DEF FileKept, Seen, Looping
<1>4. BatchFromStart'
  <2>1. start[l] <= next[l]
    BY <1>1 DEF BatchFromStart, Looping
  <2> QED
    BY <1>0, <1>1, <1>2, <2>1 DEF BatchFromStart
<1>5. KnownBelow(l, Reached(l))'
  <2> SUFFICES ASSUME NEW k \in KeysOf[l], mod[k] # Absent, mod[k] < next'[l],
                      NEW v \in Seen(l), v.rev < mod[k]
               PROVE  Version(k) \in Seen(l) \cup batch'[l] \cup dropped[l]
    BY <1>1 DEF KnownBelow, Reached, Known, Seen, Version, Looping
  <2>1. CASE mod[k] < next[l]
    BY <1>1, <2>1 DEF KnownBelow, Reached, Known, Looping
  <2>2. CASE next[l] <= mod[k]
    BY <1>1, <1>2, <2>2, PulledAll DEF FlightAssumption
  <2> QED
    BY <1>2, <2>1, <2>2
<1> QED
  BY <1>0, <1>3, <1>4, <1>5

(* What a thread delivers is not older than where it started, from where   *)
(* on it has skipped nothing.                                              *)
LEMMA DeliverFlight ==
  ASSUME FlightAssumption, IInv, FlightInv, TypeOK', NEW l \in Listeners, Deliver(l)
  PROVE  FlightInv'
<1> USE DEF FlightInv, IInv, CursorInv
<1>0. \A m \in Listeners : m = l
  BY DEF FlightAssumption, OneListener
<1>1. PICK v \in batch[l] :
        /\ batch' = [batch EXCEPT ![l] = @ \ {v}]
        /\ got' = [got EXCEPT ![l] = @ \cup {v}]
        /\ pc' = [pc EXCEPT ![l] = IF batch[l] = {v} THEN "poll" ELSE "deliver"]
  BY DEF Deliver
<1>2. pc[l] = "deliver" /\ UNCHANGED <<mod, saved, next, start, past, dropped>>
  BY DEF Deliver, store
<1>3. /\ batch'[l] = batch[l] \ {v} /\ got'[l] = got[l] \cup {v}
      /\ pc'[l] \in {"poll", "deliver"}
  BY <1>1 DEF TypeOK
<1>4. FileKept'
  BY <1>0, <1>2, <1>3 DEF FileKept, Seen, Looping
<1>5. BatchFromStart'
  BY <1>0, <1>2, <1>3 DEF BatchFromStart, Looping
<1>6. KnownBelow(l, Reached(l))'
  <2>1. /\ Seen(l)' = Seen(l) \cup {v} /\ Seen(l)' \cup batch'[l] = Seen(l) \cup batch[l]
        /\ \A k \in KeysOf[l] : Known(l, k)' <=> Known(l, k)
    BY <1>2, <1>3 DEF Seen, Known, Version
  <2>2. Reached(l)' = next[l] /\ Reached(l) = next[l]
    BY <1>2, <1>3 DEF Reached, Looping
  <2>3. ASSUME NEW k \in KeysOf[l], mod[k] # Absent, mod[k] < next[l], v.rev < mod[k]
        PROVE  Known(l, k)
    <3>1. start[l] <= v.rev
      BY <1>2 DEF BatchFromStart, Looping
    <3>2. start[l] <= mod[k]
      BY <2>3, <3>1, VersionsHaveRevisions, KeysFacts DEF TypeOK
    <3> QED
      BY <1>2, <2>3, <3>2 DEF NoVersionSkipped, Known, Seen, Looping
  <2> QED
    BY <1>2, <2>1, <2>2, <2>3 DEF KnownBelow
<1> QED
  BY <1>0, <1>4, <1>5, <1>6

(* The batch of a process that dies is dropped; the next run begins at the *)
(* revision in the file, at most where this one had come.                  *)
LEMMA CrashFlight ==
  ASSUME FlightAssumption, IInv, FlightInv, Crash
  PROVE  FlightInv'
<1> USE DEF FlightInv, IInv, CursorInv
<1>1. \A l \in Listeners :
        /\ pc[l] # "write" /\ pc'[l] = "idle" /\ batch'[l] = {} /\ got'[l] = {}
        /\ past'[l] = past[l] \cup got[l] /\ dropped'[l] = dropped[l] \cup batch[l]
  BY DEF Crash, FlightAssumption
<1>2. UNCHANGED <<mod, saved>>
  BY DEF Crash, store
<1>3. FileKept'
  BY <1>1, <1>2 DEF FileKept, Seen, Looping
<1>4. BatchFromStart'
  BY <1>1 DEF BatchFromStart, Looping
<1>5. ASSUME NEW l \in Listeners PROVE KnownBelow(l, Reached(l))'
  <2>1. Seen(l)' = Seen(l) /\ \A k \in KeysOf[l] : Known(l, k)' <=> Known(l, k)
    BY <1>1, <1>2 DEF Seen, Known, Version
  <2>2. Reached(l)' = saved /\ saved <= Reached(l)
        /\ Reached(l) \in Int /\ saved \in Int
    BY <1>1, <1>2 DEF Reached, FileKept, TypeOK, NoRevision, Looping
  <2>3. \A k \in KeysOf[l] : mod[k] \in Nat
    BY KeysFacts DEF TypeOK
  <2> QED
    BY <1>2, <2>1, <2>2, <2>3 DEF KnownBelow
<1> QED
  BY <1>3, <1>4, <1>5

(* A transaction writes at a revision that nobody has reached.             *)
LEMMA TransactionFlight ==
  ASSUME IInv, FlightInv, TypeOK', \A k \in Keys : mod'[k] \in {mod[k], rev + 1, Absent},
         UNCHANGED <<saved, pc, next, batch, start, got, past, dropped>>
  PROVE  FlightInv'
<1> USE DEF FlightInv, IInv, CursorInv
<1>1. FileKept' /\ BatchFromStart'
  BY DEF FileKept, BatchFromStart, Seen
<1>2. ASSUME NEW l \in Listeners PROVE KnownBelow(l, Reached(l))'
  <2>1. Reached(l)' = Reached(l) /\ Reached(l) <= rev + 1 /\ Reached(l) \in Int /\ rev \in Nat
    BY DEF Reached, CursorsInStore, TypeOK, NoRevision
  <2> SUFFICES ASSUME NEW k \in KeysOf[l], mod'[k] # Absent, mod'[k] < Reached(l),
                      NEW v \in Seen(l), v.rev < mod'[k]
               PROVE  Version(k)' \in Seen(l) \cup batch[l] \cup dropped[l]
    BY <2>1 DEF KnownBelow, Known, Seen
  <2>2. mod'[k] = mod[k]
    BY <2>1, KeysFacts DEF TypeOK
  <2> QED
    BY <2>2 DEF KnownBelow, Known, Version
<1> QED
  BY <1>1, <1>2

LEMMA NextFlightInv == FlightAssumption /\ IInv /\ FlightInv /\ [Next]_vars => FlightInv'
<1> SUFFICES ASSUME FlightAssumption, IInv, FlightInv, [Next]_vars PROVE FlightInv'
  OBVIOUS
<1> TypeOK /\ TypeOK'
  BY NextTypeOK DEF IInv, CursorInv
<1>1. ASSUME NEW l \in Listeners, NEW k \in KeysOf[l], Notify(l, k) PROVE FlightInv'
  BY <1>1, TransactionFlight DEF Notify, PutAll, TypeOK, history
<1>2. ASSUME NEW k \in NotificationKeys, Expire(k) PROVE FlightInv'
  BY <1>2, TransactionFlight DEF Expire, DeleteAll, TypeOK, history
<1>3. ASSUME UNCHANGED <<mod, saved, pc, next, batch, start, got, past, dropped>>
      PROVE  FlightInv'
  BY <1>3, TransactionFlight
<1>4. ASSUME NEW m \in Modes, Boot(m) PROVE FlightInv'
  BY <1>3, <1>4 DEF Boot, store, history
<1>f. FileKept
  BY DEF FlightInv
<1>5. ASSUME NEW l \in Listeners, Listen(l) PROVE FlightInv'
  <2>1. FirstStep[mode] = "saved"
    <3>1. mode = "catchup"
      BY <1>5 DEF Listen, TypeOK, FlightAssumption
    <3> QED
      BY <3>1 DEF FirstStep
  <2> QED
    BY <1>5, <2>1, MoveFlight DEF Listen, TypeOK, Looping, store, history
<1>6. ASSUME NEW l \in Listeners, Thread(l) PROVE FlightInv'
  <2>1. CASE ReadSaved(l)
    <3>1. CASE saved = NoRevision
      BY <2>1, <3>1, MoveFlight DEF ReadSaved, TypeOK, Looping, store
    <3>2. CASE saved # NoRevision
      <4>1. saved \in Nat
        BY <3>2 DEF TypeOK
      <4> QED
        BY <2>1, <3>2, <4>1, EnterLoopFlight DEF ReadSaved, store
    <3> QED
      BY <3>1, <3>2
  <2>2. CASE DeleteSaved(l) \/ SearchFrom(l)
    BY <2>2, <1>f DEF DeleteSaved, SearchFrom, FileKept
  <2>3. CASE LatestRevision(l)
    BY <2>3, EnterLoopFlight DEF LatestRevision, TypeOK, store
  <2>5. CASE Pull(l)
    BY <2>5, PullFlight
  <2>6. CASE OpenSaved(l)
    BY <2>6, MoveFlight DEF OpenSaved, TypeOK, Looping, store, history
  <2>7. CASE WriteSaved(l)
    BY <2>7, MoveFlight DEF WriteSaved, TypeOK, Looping, store, history
  <2>8. CASE Deliver(l)
    BY <2>8, DeliverFlight
  <2>9. CASE LeaveLoop(l)
    BY <2>9, MoveFlight DEF LeaveLoop, TypeOK, Looping, store, history
  <2> QED
    BY <1>6, <2>1, <2>2, <2>3, <2>5, <2>6, <2>7, <2>8, <2>9 DEF Thread
<1>7. ASSUME NEW l \in Listeners, ThreadFault(l) PROVE FlightInv'
  <2>1. ~ OpenFails(l) /\ ~ WriteFails(l)
    BY DEF OpenFails, WriteFails, FlightAssumption
  <2>2. CASE RequestFails(l)
    BY <2>2, MoveFlight DEF RequestFails, TypeOK, Looping, store, history
  <2>3. CASE DeleteFails(l)
    BY <2>3, <1>f DEF DeleteFails, FileKept
  <2> QED
    BY <1>7, <2>1, <2>2, <2>3 DEF ThreadFault
<1>8. CASE StopAll
  BY <1>3, <1>8 DEF StopAll, store, history
<1>9. CASE Crash
  BY <1>9, CrashFlight
<1>10. CASE UNCHANGED vars
  BY <1>3, <1>10 DEF vars, store, process, history
<1> QED
  BY <1>1, <1>2, <1>4, <1>5, <1>6, <1>7, <1>8, <1>9, <1>10 DEF Next

(* One listener that catches up after every restart: of what it has gone   *)
(* past since the first notification it delivered, it has delivered all    *)
(* but what a process had received and not delivered when it died          *)
(* (_polling: _save_last_revision before the callbacks).                   *)
THEOREM OnlyInFlightIsMissed == ASSUME FlightAssumption PROVE Spec => []MissedOnlyInFlight
<1>1. Init => FlightInv
  BY DEF Init, FlightInv, FileKept, BatchFromStart, KnownBelow, Reached, Seen, Looping, Absent
<1>2. IInv /\ FlightInv /\ [Next]_vars => FlightInv'
  BY NextFlightInv
<1>3. FlightInv => MissedOnlyInFlight
  BY DEF FlightInv, MissedOnlyInFlight, Missed, KnownBelow, Known, Reached, Seen
<1>4. Spec => []IInv
  BY InvariantHolds DEF FlightAssumption
<1> QED
  BY <1>1, <1>2, <1>3, <1>4, PTL DEF Spec
=============================================================================
