------------------------------- MODULE Polling -------------------------------
(***************************************************************************)
(* The listening side of Aviso: the background threads that poll etcd for  *)
(* notifications (EtcdEngine._polling), the file in which they all save    *)
(* the last revision received, and the restarts of the application.        *)
(*                                                                         *)
(* One thread listens to one base key, whose number also names the thread. *)
(* The base key itself holds the status that every push updates.           *)
(*                                                                         *)
(* The threads belong to one engine: EventListenerFactory creates one      *)
(* engine for a listener file, and Engine.listen starts one thread for     *)
(* each of its keys.                                                       *)
(***************************************************************************)
EXTENDS EtcdStore, Integers

CONSTANTS
  Listeners,    \* the base keys listened to
  KeysOf,       \* the notification keys below each base key
  Limit,        \* MAX_KV_RETURNED
  Modes,        \* how the user may start the application: subset of AllModes
  Faults,       \* what may fail: subset of AllFaults
  CrashPoints,  \* where every thread is when the process may die: subset of PCs
  MaxRev,       \* bound: no transaction after this revision
  MaxBoots      \* bound: number of times the application is started

AllModes == {"catchup", "now", "replay"}
AllFaults == {"pull", "open", "write", "delete"}

(* A thread is in its polling loop at the points in Looping.               *)
Looping == {"poll", "save", "write", "deliver"}
PCs == {"idle", "saved", "delete", "latest", "search", "done", "failed"} \cup Looping

ASSUME ListenersAssumption == Listeners \subseteq Nat /\ IsFiniteSet(Listeners)
ASSUME KeysAssumption ==
  /\ DOMAIN KeysOf = Listeners
  /\ \A l \in Listeners : KeysOf[l] \subseteq Nat /\ IsFiniteSet(KeysOf[l])
  \* every key below a base key extends it, and follows it in the key order
  /\ \A l \in Listeners : \A k \in KeysOf[l] : l < k
  \* base keys end with "/": no two of them have keys in common
  /\ \A l, m \in Listeners : l # m => KeysOf[l] \cap (KeysOf[m] \cup {m}) = {}
ASSUME BoundsAssumption ==
  /\ Limit \in Nat \ {0} /\ MaxRev \in Nat /\ MaxBoots \in Nat
  /\ Modes \subseteq AllModes /\ Faults \subseteq AllFaults /\ CrashPoints \subseteq PCs

(* The keys of a range request on the prefix l.                            *)
Prefix(l) == KeysOf[l] \cup {l}
Keys == UNION {Prefix(l) : l \in Listeners}
NotificationKeys == UNION {KeysOf[l] : l \in Listeners}

(* What the application can learn of a notification: key and revision.     *)
Versions == [key : NotificationKeys, rev : Nat]

NoRevision == -1   \* what _last_saved_revision returns for lack of a revision

VARIABLES
  rev,        \* revision of the store
  mod,        \* revision at which each key was put last
  saved,      \* the revision in the file, NoRevision if it is absent or empty
  mode,       \* "down", or how the application was started
  boots,      \* number of starts so far
  listeners,  \* Engine._listeners
  pc,         \* where each thread is
  next,       \* next_rev of each thread
  batch,      \* notifications pulled and not yet passed to the callback
  start,      \* history: next_rev when the thread entered its loop
  got,        \* history: versions passed to the callback in this run
  past,       \* history: versions passed to the callback in earlier runs
  dropped     \* history: versions in a batch when the process died

store == <<rev, mod>>
process == <<mode, boots, listeners>>
history == <<start, got, past, dropped>>
vars == <<store, saved, process, pc, next, batch, history>>

Version(k) == [key |-> k, rev |-> mod[k]]

TypeOK ==
  /\ rev \in Nat \ {0}
  /\ mod \in [Keys -> Nat]
  /\ saved \in Nat \cup {NoRevision}
  /\ mode \in {"down"} \cup Modes
  /\ boots \in 0..MaxBoots
  /\ listeners \in SUBSET Listeners
  /\ pc \in [Listeners -> PCs]
  /\ next \in [Listeners -> Nat]
  /\ batch \in [Listeners -> SUBSET Versions]
  /\ start \in [Listeners -> Nat]
  /\ got \in [Listeners -> SUBSET Versions]
  /\ past \in [Listeners -> SUBSET Versions]
  /\ dropped \in [Listeners -> SUBSET Versions]

Init ==
  /\ rev = 1   \* an empty etcd store is at revision 1
  /\ mod = [k \in Keys |-> Absent]
  /\ saved = NoRevision
  /\ mode = "down"
  /\ boots = 0
  /\ listeners = {}
  /\ pc = [l \in Listeners |-> "idle"]
  /\ next = [l \in Listeners |-> 0]
  /\ batch = [l \in Listeners |-> {}]
  /\ start = [l \in Listeners |-> 0]
  /\ got = [l \in Listeners |-> {}]
  /\ past = [l \in Listeners |-> {}]
  /\ dropped = [l \in Listeners |-> {}]

-----------------------------------------------------------------------------
(* The notification providers and the store.                               *)

(* NotificationManager.notify: one transaction puts the notification and   *)
(* the status of its base key.                                             *)
Notify(l, k) ==
  /\ rev < MaxRev
  /\ rev' = rev + 1
  /\ mod' = PutAll(mod, {k, l}, rev + 1)
  /\ UNCHANGED <<saved, process, pc, next, batch, history>>

(* The lease of a notification ends: etcd removes its keys.                *)
Expire(k) ==
  /\ rev < MaxRev
  /\ mod[k] # Absent
  /\ rev' = rev + 1
  /\ mod' = DeleteAll(mod, SameLease(mod, k))
  /\ UNCHANGED <<saved, process, pc, next, batch, history>>

-----------------------------------------------------------------------------
(* The application: NotificationManager.listen, Engine.listen and stop.    *)

Boot(m) ==
  /\ mode = "down"
  /\ boots < MaxBoots
  /\ mode' = m
  /\ boots' = boots + 1
  /\ UNCHANGED <<store, saved, listeners, pc, next, batch, history>>

(* What a thread does first depends on the dates and the catch-up setting. *)
FirstStep == [catchup |-> "saved", now |-> "delete", replay |-> "search"]

(* Engine.listen registers the key, then starts its thread.                *)
Listen(l) ==
  /\ mode # "down"
  /\ pc[l] = "idle"
  /\ listeners' = listeners \cup {l}
  /\ pc' = [pc EXCEPT ![l] = FirstStep[mode]]
  /\ UNCHANGED <<store, saved, mode, boots, next, batch, history>>

(* Engine.stop without a key, called by ListenerManager.cancel_listeners.  *)
StopAll ==
  /\ listeners # {}
  /\ listeners' = {}
  /\ UNCHANGED <<store, saved, mode, boots, pc, next, batch, history>>

(* The process ends, on a signal, a crash or a reboot, or because the main *)
(* thread leaves: the polling threads are daemons and end wherever they    *)
(* are.  Only the file survives.                                           *)
Crash ==
  /\ mode # "down"
  /\ \A l \in Listeners : pc[l] \in CrashPoints
  /\ mode' = "down"
  /\ listeners' = {}
  /\ pc' = [l \in Listeners |-> "idle"]
  /\ next' = [l \in Listeners |-> 0]
  /\ batch' = [l \in Listeners |-> {}]
  /\ start' = [l \in Listeners |-> 0]
  /\ got' = [l \in Listeners |-> {}]
  /\ past' = [l \in Listeners |-> past[l] \cup got[l]]
  /\ dropped' = [l \in Listeners |-> dropped[l] \cup batch[l]]
  /\ UNCHANGED <<store, saved, boots>>

-----------------------------------------------------------------------------
(* EtcdEngine._polling, one thread: where to start from.                   *)

EnterLoop(l, r) ==
  /\ next' = [next EXCEPT ![l] = r]
  /\ start' = [start EXCEPT ![l] = r]
  /\ pc' = [pc EXCEPT ![l] = "poll"]

(* Mutant: the value for "no revision" is taken for a revision.            *)
ReadSaved_Unchecked(l) ==
  /\ pc[l] = "saved"
  /\ EnterLoop(l, saved)
  /\ UNCHANGED <<store, saved, process, batch, got, past, dropped>>

(* Mutant: the revision in the file is taken for the last one received,    *)
(* where it is the next one to ask for.                                    *)
ReadSaved_OneFurther(l) ==
  /\ pc[l] = "saved"
  /\ IF saved # NoRevision
       THEN EnterLoop(l, saved + 1)
       ELSE pc' = [pc EXCEPT ![l] = "latest"] /\ UNCHANGED <<next, start>>
  /\ UNCHANGED <<store, saved, process, batch, got, past, dropped>>

(* _last_saved_revision: a file that is absent, empty or unreadable counts *)
(* as no revision.  It is read without the state lock.                     *)
ReadSaved(l) ==
  /\ pc[l] = "saved"
  /\ IF saved # NoRevision
       THEN EnterLoop(l, saved)
       ELSE pc' = [pc EXCEPT ![l] = "latest"] /\ UNCHANGED <<next, start>>
  /\ UNCHANGED <<store, saved, process, batch, got, past, dropped>>

(* Engine._state_lock is held from the opening of the file to its closing. *)
StateLockFree == \A m \in Listeners : pc[m] # "write"

DeleteSaved(l) ==
  /\ pc[l] = "delete"
  /\ StateLockFree
  /\ saved' = NoRevision
  /\ pc' = [pc EXCEPT ![l] = "latest"]
  /\ UNCHANGED <<store, process, next, batch, history>>

(* The file cannot be removed, and is kept: the thread carries on.         *)
DeleteFails(l) ==
  /\ "delete" \in Faults
  /\ pc[l] = "delete"
  /\ StateLockFree
  /\ pc' = [pc EXCEPT ![l] = "latest"]
  /\ UNCHANGED <<store, saved, process, next, batch, history>>

LatestRevision(l) ==
  /\ pc[l] = "latest"
  /\ EnterLoop(l, rev + 1)
  /\ UNCHANGED <<store, saved, process, batch, got, past, dropped>>

(* A start date, no end date: the search for the revision of the start     *)
(* date (_from_to_revisions) ends anywhere in the history, or without a    *)
(* result when the base key holds no status.                               *)
SearchFrom(l) ==
  /\ pc[l] = "search"
  /\ IF mod[l] = Absent
       THEN pc' = [pc EXCEPT ![l] = "failed"] /\ UNCHANGED <<next, start>>
       ELSE \E r \in 1..(rev + 1) : EnterLoop(l, r)
  /\ UNCHANGED <<store, saved, process, batch, got, past, dropped>>

-----------------------------------------------------------------------------
(* EtcdEngine._polling, one thread: the loop.                              *)

(* Mutant: the status is not removed from the notifications.               *)
Pulled_WithStatus(l) == RangeReply(mod, Prefix(l), next[l], rev, Limit)

(* The notifications a pull by l returns, without the status.              *)
Pulled(l) == RangeReply(mod, Prefix(l), next[l], rev, Limit) \ {l}

(* Mutant: the next pull begins at the last revision received.             *)
Pull_FromLast(l) ==
  /\ pc[l] = "poll"
  /\ l \in listeners
  /\ \E k \in Pulled(l) :
       /\ \A j \in Pulled(l) : mod[j] <= mod[k]
       /\ next' = [next EXCEPT ![l] = mod[k]]
  /\ batch' = [batch EXCEPT ![l] = {Version(k) : k \in Pulled(l)}]
  /\ pc' = [pc EXCEPT ![l] = "save"]
  /\ UNCHANGED <<store, saved, process, history>>

(* Mutant: the next pull begins two revisions after the last one received. *)
Pull_OffByOne(l) ==
  /\ pc[l] = "poll"
  /\ l \in listeners
  /\ \E k \in Pulled(l) :
       /\ \A j \in Pulled(l) : mod[j] <= mod[k]
       /\ next' = [next EXCEPT ![l] = mod[k] + 2]
  /\ batch' = [batch EXCEPT ![l] = {Version(k) : k \in Pulled(l)}]
  /\ pc' = [pc EXCEPT ![l] = "save"]
  /\ UNCHANGED <<store, saved, process, history>>

(* A pull that returns notifications.  One that returns nothing, after     *)
(* which the thread sleeps and polls again, changes no state.              *)
Pull(l) ==
  /\ pc[l] = "poll"
  /\ l \in listeners
  /\ \E k \in Pulled(l) :
       /\ \A j \in Pulled(l) : mod[j] <= mod[k]
       /\ next' = [next EXCEPT ![l] = mod[k] + 1]
  /\ batch' = [batch EXCEPT ![l] = {Version(k) : k \in Pulled(l)}]
  /\ pc' = [pc EXCEPT ![l] = "save"]
  /\ UNCHANGED <<store, saved, process, history>>

(* _save_last_revision: opening the file for writing empties it; its new   *)
(* content reaches it when it is closed.                                   *)
OpenSaved(l) ==
  /\ pc[l] = "save"
  /\ StateLockFree
  /\ saved' = NoRevision
  /\ pc' = [pc EXCEPT ![l] = "write"]
  /\ UNCHANGED <<store, process, next, batch, history>>

(* Mutant: the file gets the last revision received.                       *)
WriteSaved_Last(l) ==
  /\ pc[l] = "write"
  /\ saved' = next[l] - 1
  /\ pc' = [pc EXCEPT ![l] = "deliver"]
  /\ UNCHANGED <<store, process, next, batch, history>>

WriteSaved(l) ==
  /\ pc[l] = "write"
  /\ saved' = next[l]
  /\ pc' = [pc EXCEPT ![l] = "deliver"]
  /\ UNCHANGED <<store, process, next, batch, history>>

(* The folder, the file or the disk fails: the thread carries on.          *)
OpenFails(l) ==
  /\ "open" \in Faults
  /\ pc[l] = "save"
  /\ StateLockFree
  /\ pc' = [pc EXCEPT ![l] = "deliver"]
  /\ UNCHANGED <<store, saved, process, next, batch, history>>

WriteFails(l) ==
  /\ "write" \in Faults
  /\ pc[l] = "write"
  /\ pc' = [pc EXCEPT ![l] = "deliver"]
  /\ UNCHANGED <<store, saved, process, next, batch, history>>

(* One call of the callback, in the order of the reply.  An exception in a *)
(* trigger is logged, and the next notification follows.                   *)
Deliver(l) ==
  /\ pc[l] = "deliver"
  /\ \E v \in batch[l] :
       /\ \A w \in batch[l] : w.key <= v.key
       /\ batch' = [batch EXCEPT ![l] = @ \ {v}]
       /\ got' = [got EXCEPT ![l] = @ \cup {v}]
       /\ pc' = [pc EXCEPT ![l] = IF batch[l] = {v} THEN "poll" ELSE "deliver"]
  /\ UNCHANGED <<store, saved, process, next, start, past, dropped>>

(* Mutant: a thread leaves its loop although it was not stopped.           *)
LeaveLoop_Unasked(l) ==
  /\ pc[l] = "poll"
  /\ pc' = [pc EXCEPT ![l] = "done"]
  /\ UNCHANGED <<store, saved, process, next, batch, history>>

(* The stop condition of the loop.                                         *)
LeaveLoop(l) ==
  /\ pc[l] = "poll"
  /\ l \notin listeners
  /\ pc' = [pc EXCEPT ![l] = "done"]
  /\ UNCHANGED <<store, saved, process, next, batch, history>>

(* A request is refused: the thread reports it to the main thread and ends *)
(* (a request that times out is repeated for ever).                        *)
RequestFails(l) ==
  /\ "pull" \in Faults
  /\ \/ pc[l] \in {"latest", "search"}
     \/ pc[l] = "poll" /\ l \in listeners
  /\ pc' = [pc EXCEPT ![l] = "failed"]
  /\ UNCHANGED <<store, saved, process, next, batch, history>>

-----------------------------------------------------------------------------
Thread(l) ==
  \/ ReadSaved(l) \/ DeleteSaved(l) \/ LatestRevision(l) \/ SearchFrom(l)
  \/ Pull(l) \/ OpenSaved(l) \/ WriteSaved(l) \/ Deliver(l) \/ LeaveLoop(l)

ThreadFault(l) == DeleteFails(l) \/ OpenFails(l) \/ WriteFails(l) \/ RequestFails(l)

Next ==
  \/ \E l \in Listeners : \E k \in KeysOf[l] : Notify(l, k)
  \/ \E k \in NotificationKeys : Expire(k)
  \/ \E m \in Modes : Boot(m)
  \/ \E l \in Listeners : Listen(l) \/ Thread(l) \/ ThreadFault(l)
  \/ StopAll
  \/ Crash

Spec == Init /\ [][Next]_vars

(* A started thread is scheduled again and again, and a server that is     *)
(* asked again and again ends by answering.                                *)
FairSpec == Spec /\ \A l \in Listeners : WF_vars(Thread(l))
-----------------------------------------------------------------------------
(* Properties of one run of the application.                               *)

(* A thread never steps over a notification: a current version whose       *)
(* revision lies between the point where the thread started and the point  *)
(* it has reached was passed to the callback, or is in the batch that is   *)
(* being passed (_polling: next_rev against what pull returned).           *)
NoVersionSkipped ==
  \A l \in Listeners : pc[l] \in Looping =>
    \A k \in KeysOf[l] :
      (mod[k] # Absent /\ start[l] <= mod[k] /\ mod[k] < next[l])
        => Version(k) \in got[l] \cup batch[l]

(* In one run no notification reaches the callback of a thread twice.      *)
DeliveredOnce == \A l \in Listeners : batch[l] \cap got[l] = {}

(* The polling loop implements the coalescing feed: a revision cursor and  *)
(* range queries on a store that other processes write behave as a set of  *)
(* dirty keys that is taken whole.                                         *)
Running == {l \in Listeners : pc[l] \in Looping}
ToFetch(l) ==
  {k \in KeysOf[l] : l \in Running /\ mod[k] # Absent /\ next[l] <= mod[k]}
InBatch(l) == {v.key : v \in batch[l]}

Feed == INSTANCE CoalescingFeed WITH
  running <- Running,
  dirty <- [l \in Listeners |-> ToFetch(l)],
  inbox <- [l \in Listeners |-> InBatch(l)]

ImplementsFeed == Feed!Spec

(* The keys of which l has a notification to fetch or to pass on.          *)
Waiting(l) == ToFetch(l) \cup InBatch(l)

(* A notification for a listening thread is passed to its callback, or is  *)
(* replaced or expires first, or the thread stops for a cause it reports.  *)
EventuallyDelivered ==
  \A l \in Listeners : \A k \in KeysOf[l] :
    (pc[l] \in Looping /\ l \in listeners /\ k \in Waiting(l))
      ~> \/ pc[l] \in Looping /\ k \notin Waiting(l)
         \/ l \notin listeners
         \/ pc[l] = "failed"

-----------------------------------------------------------------------------
(* Properties across restarts.                                             *)

(* The notifications that l missed: it has gone past them without passing  *)
(* them to the callback, now or in an earlier run, although it had passed  *)
(* an older one to it.                                                     *)
Missed(l) ==
  {k \in KeysOf[l] :
     /\ pc[l] \in Looping
     /\ mod[k] # Absent /\ mod[k] < next[l]
     /\ Version(k) \notin got[l] \cup past[l] \cup batch[l]
     /\ \E v \in got[l] \cup past[l] : v.rev < mod[k]}

(* Catch-up returns all the notifications missed since the last one.       *)
NoNotificationMissed == \A l \in Listeners : Missed(l) = {}

(* What catch-up cannot return is what the process had received when it    *)
(* died: the revision is saved before the callbacks run.                   *)
MissedOnlyInFlight ==
  \A l \in Listeners : \A k \in Missed(l) : Version(k) \in dropped[l]

(* Saving before delivering makes delivery at most once: no version that a *)
(* run has passed to the callback comes back in a later run.               *)
AtMostOnce ==
  \A l \in Listeners : (batch[l] \cup got[l]) \cap past[l] = {}
=============================================================================
