----------------------- MODULE ListenerLifecycle_proofs -----------------------
(***************************************************************************)
(* Proofs about ListenerLifecycle, for any number of listener files,       *)
(* listeners, keys and signals.                                            *)
(***************************************************************************)
EXTENDS ListenerLifecycle, SequenceTheorems, TLAPS

LEMMA ThreadFacts ==
  /\ Listeners \subseteq Nat
  /\ \A t \in Threads : /\ t[1] \in Listeners /\ t[2] \in Nat
                        /\ t = <<t[1], t[2]>> /\ Engine(t) \in Engines
  /\ \A l \in Listeners : EngineOf[l] \in Engines
<1>1. Listeners = 1..Len(EngineOf) /\ Len(EngineOf) \in Nat
  BY ListenersAssumption DEF Listeners
<1>2. \A l \in Listeners : EngineOf[l] \in Engines
  BY DEF Engines
<1>3. ASSUME NEW t \in Threads
      PROVE  t[1] \in Listeners /\ t[2] \in Nat /\ t = <<t[1], t[2]>> /\ Engine(t) \in Engines
  <2>1. PICK l \in Listeners : \E j \in DOMAIN KeysOf[l] : t = <<l, j>>
    BY DEF Threads
  <2>2. PICK j \in DOMAIN KeysOf[l] : t = <<l, j>>
    BY <2>1
  <2>3. j \in Nat
    BY KeysAssumption, <2>2
  <2> QED
    BY <2>2, <2>3, <1>2 DEF Engine
<1> QED
  BY <1>1, <1>2, <1>3

LEMMA InitTypeOK == Init => TypeOK
  BY ChoicesAssumption DEF Init, TypeOK, MainPCs, PCs, Replayed

LEMMA NextTypeOK == TypeOK /\ [Next]_vars => TypeOK'
<1> SUFFICES ASSUME TypeOK, [Next]_vars PROVE TypeOK'
  OBVIOUS
<1> USE DEF TypeOK
<1>1. ASSUME NEW b \in BOOLEAN, Put(b) PROVE channel' \in Seq(BOOLEAN)
  BY <1>1 DEF Put
<1>2. CASE Acquire
  BY <1>2 DEF Acquire, starting, stopping, MainPCs
<1>3. CASE Add
  BY <1>3 DEF Add, starting, stopping, MainPCs
<1>4. NextListener(at) \in Nat \X Nat /\ After(at) \in Nat \X Nat
  BY DEF NextListener, After
<1>5. CASE Spawn
  BY <1>5, <1>4 DEF Spawn, stopping, MainPCs, PCs, Replayed
<1>6. CASE SpawnFails
  BY <1>6, <1>4, ThreadFacts DEF SpawnFails, stopping, MainPCs
<1>7. Managed \in SUBSET Listeners
  BY DEF Managed
<1>8. CASE Started
  BY <1>8 DEF Started, starting, MainPCs
<1>a. channel # <<>> => Tail(channel) \in Seq(BOOLEAN)
  BY HeadTailProperties
<1>9. CASE Succeed
  BY <1>9, <1>a DEF Succeed, starting, MainPCs
<1>10. CASE Fail
  BY <1>10, <1>7, <1>a DEF Fail, starting, MainPCs
<1>11. ASSUME NEW l \in Listeners, Stop(l) \/ Clear(l) PROVE TypeOK'
  BY <1>11 DEF Stop, Clear, starting, MainPCs
<1>12. CASE Exit
  BY <1>12 DEF Exit, starting, stopping, MainPCs
<1>13. CASE Signal
  <2>1. Holding \in SUBSET Engines
    BY ThreadFacts DEF Holding
  <2> QED
    BY <1>13, <2>1, <1>7, ChoicesAssumption DEF Signal, starting, MainPCs
<1>14. ASSUME NEW t \in Threads, Thread(t) PROVE TypeOK'
  <2>1. CASE Search(t) \/ RequestFails(t)
    BY <2>1, <1>1 DEF Search, RequestFails, starting, stopping, PCs, Replayed
  <2>2. CASE Retrieve(t) \/ StopSelf(t) \/ LeaveLoop(t)
    BY <2>2 DEF Retrieve, StopSelf, LeaveLoop, starting, stopping, PCs, Replayed
  <2>3. CASE Remove(t) \/ Last(t)
    BY <2>3, <1>1 DEF Remove, Last, ToCome, starting, stopping, PCs, Replayed
  <2> QED
    BY <1>14, <2>1, <2>2, <2>3 DEF Thread
<1>15. CASE UNCHANGED vars
  BY <1>15 DEF vars, starting, stopping
<1> QED
  BY <1>2, <1>3, <1>5, <1>6, <1>8, <1>9, <1>10, <1>11, <1>12, <1>13, <1>14, <1>15
  DEF Next, Main

(* The variables keep their types, and a thread is being started only if   *)
(* there is one left to start (Engine.listen, ListenerManager).            *)
THEOREM TypeCorrect == Spec => []TypeOK
<1> QED
  BY InitTypeOK, NextTypeOK, PTL DEF Spec

-----------------------------------------------------------------------------
(* What the end of a replay means.                                         *)

(* The main thread starts listeners, or waits for them.                    *)
Working == {"run", "adding", "spawn", "wait"}

Before(u, v) == u[1] < v[1] \/ (u[1] = v[1] /\ u[2] < v[2])

(* The threads are started in order.                                       *)
StartOrder == \A u \in Threads : pc[u] # "off" => Before(u, at)

(* As long as nothing was stopped, a thread that is not done is in the     *)
(* list of its engine, and so is one that is about to be started.          *)
Listed ==
  main \in Working =>
    /\ main = "spawn" => at \in registered
    /\ \A u \in Threads : pc[u] \notin {"off", "last", "done"} => u \in registered

LInv == TypeOK /\ StartOrder /\ Listed

LEMMA InitLInv == Init => LInv
  BY InitTypeOK DEF LInv, StartOrder, Listed, Init

LEMMA AtMovesOn ==
  ASSUME TypeOK, NEW u \in Threads, Before(u, at) \/ u = at, at \in Threads
  PROVE  Before(u, After(at)) /\ Before(u, NextListener(at))
<1>1. at = <<at[1], at[2]>> /\ at[1] \in Nat /\ at[2] \in Nat /\ u[1] \in Nat /\ u[2] \in Nat
  BY ThreadFacts
<1> QED
  BY <1>1 DEF Before, After, NextListener

LEMMA NextStartOrder == TypeOK /\ StartOrder /\ [Next]_vars => StartOrder'
<1> SUFFICES ASSUME TypeOK, StartOrder, [Next]_vars PROVE StartOrder'
  OBVIOUS
<1> USE DEF StartOrder
<1>1. CASE Spawn
  <2> SUFFICES ASSUME NEW u \in Threads, pc'[u] # "off" PROVE Before(u, at')
    BY DEF StartOrder
  <2>1. pc[u] # "off" \/ u = at
    BY <1>1 DEF Spawn, TypeOK
  <2> QED
    BY <1>1, <2>1, AtMovesOn DEF Spawn, TypeOK
<1>2. CASE SpawnFails
  BY <1>2, AtMovesOn DEF SpawnFails, TypeOK
<1>3. CASE \/ Acquire \/ Add \/ Started \/ Succeed \/ Fail \/ Exit \/ Signal
           \/ \E l \in Listeners : Stop(l) \/ Clear(l)
  BY <1>3 DEF Acquire, Add, Started, Succeed, Fail, Exit, Signal, Stop, Clear, starting
<1>4. ASSUME NEW t \in Threads, Thread(t) PROVE StartOrder'
  <2>1. at' = at /\ pc[t] # "off"
    BY <1>4 DEF Thread, Search, Retrieve, StopSelf, Remove, Last, LeaveLoop, RequestFails, starting
  <2>2. \A u \in Threads : u # t => pc'[u] = pc[u]
    BY <1>4 DEF Thread, Search, Retrieve, StopSelf, Remove, Last, LeaveLoop, RequestFails, TypeOK
  <2> QED
    BY <2>1, <2>2
<1>5. CASE UNCHANGED vars
  BY <1>5 DEF vars, starting
<1> QED
  BY <1>1, <1>2, <1>3, <1>4, <1>5 DEF Next, Main

LEMMA NextListed == LInv /\ [Next]_vars => Listed'
<1> SUFFICES ASSUME LInv, [Next]_vars PROVE Listed'
  OBVIOUS
<1> USE DEF LInv, Working, starting
<1>1. CASE Acquire
  BY <1>1 DEF Listed, Acquire
<1>2. CASE Add
  BY <1>2 DEF Listed, Add
<1>3. CASE Spawn
  BY <1>3 DEF Listed, Spawn, TypeOK
<1>4. CASE SpawnFails
  <2>1. \A u \in Threads : pc[u] # "off" => u # at
    BY ThreadFacts DEF StartOrder, Before
  <2> QED
    BY <1>4, <2>1 DEF Listed, SpawnFails
<1>5. CASE \/ Started \/ Succeed \/ Fail \/ Exit \/ Signal
           \/ \E l \in Listeners : Stop(l) \/ Clear(l)
  BY <1>5 DEF Listed, Started, Succeed, Fail, Exit, Signal, Stop, Clear
<1>6. ASSUME NEW t \in Threads, Thread(t) PROVE Listed'
  <2> USE DEF TypeOK
  <2>1. CASE Search(t) \/ RequestFails(t)
    <3>1. /\ main' = main /\ at' = at /\ registered' = registered
          /\ pc[t] \in {"search", "retrieve", "loop"}
      BY <2>1 DEF Search, RequestFails
    <3>2. \A u \in Threads : u # t => pc'[u] = pc[u]
      BY <2>1 DEF Search, RequestFails
    <3> QED
      BY <3>1, <3>2 DEF Listed
  <2>2. CASE Retrieve(t) \/ StopSelf(t) \/ LeaveLoop(t)
    BY <2>2 DEF Listed, Retrieve, StopSelf, LeaveLoop, SameKey
  <2>3. CASE Remove(t)
    <3>1. main \in Working => t \in SameKey(t)
      BY <2>3 DEF Listed, Remove, SameKey, Entries
    <3>2. main' = main /\ at' = at
      BY <2>3 DEF Remove
    <3>3. CASE main \in Working
      <4>1. registered' = registered \ {t} /\ pc' = [pc EXCEPT ![t] = "last"]
        BY <2>3, <3>1, <3>3 DEF Remove
      <4>2. main # "spawn" \/ at # t
        BY <2>3, ThreadFacts DEF StartOrder, Before, Remove
      <4> QED
        BY <4>1, <4>2, <3>2, <3>3 DEF Listed
    <3> QED
      BY <3>2, <3>3 DEF Listed
  <2>4. CASE Last(t)
    BY <2>4 DEF Listed, Last
  <2> QED
    BY <1>6, <2>1, <2>2, <2>3, <2>4 DEF Thread
<1>7. CASE UNCHANGED vars
  BY <1>7 DEF Listed, vars
<1> QED
  BY <1>1, <1>2, <1>3, <1>4, <1>5, <1>6, <1>7 DEF Next, Main

LEMMA LInvHolds == Spec => []LInv
<1>1. LInv /\ [Next]_vars => LInv'
  BY NextTypeOK, NextStartOrder, NextListed DEF LInv
<1> QED
  BY InitLInv, <1>1, PTL DEF Spec

LEMMA PeriodStays == [Next]_vars => period' = period
<1> SUFFICES ASSUME [Next]_vars PROVE period' = period
  OBVIOUS
<1>1. CASE \/ Acquire \/ Add \/ Spawn \/ SpawnFails \/ Started \/ Succeed \/ Fail \/ Exit
           \/ Signal \/ UNCHANGED vars
  BY <1>1 DEF Acquire, Add, Spawn, SpawnFails, Started, Succeed, Fail, Exit, Signal, vars
<1>2. CASE \E l \in Listeners : Stop(l) \/ Clear(l)
  BY <1>2 DEF Stop, Clear
<1>3. ASSUME NEW t \in Threads, Thread(t) PROVE period' = period
  BY <1>3 DEF Thread, Search, Retrieve, StopSelf, Remove, Last, LeaveLoop, RequestFails
<1> QED
  BY <1>1, <1>2, <1>3 DEF Next, Main

(* The list of the engine of u was found empty, and so every thread of it  *)
(* has replayed its period or was not started yet.                         *)
Concluded(u) ==
  /\ pc[u] = "done"
  /\ \A t \in Threads : Engine(t) = Engine(u) => pc[t] \in Replayed \/ t \in early

(* In a replay that ends well there is such a thread, unless one found     *)
(* nothing in its period.                                                  *)
EndsWell ==
  \/ \E u \in Threads : pc[u] = "empty"
  \/ \E u \in Threads : Concluded(u)

ReplayInv ==
  period = "replay" =>
    /\ main \in Working => ((\E i \in 1..Len(channel) : channel[i]) => EndsWell)
    /\ main = "ended" /\ code = "success" => EndsWell
    /\ main # "ended" => code # "success"

LEMMA HeadIsFirst ==
  ASSUME NEW c \in Seq(BOOLEAN), c # <<>>
  PROVE  /\ 1 \in 1..Len(c) /\ Head(c) = c[1]
         /\ \A i \in 1..Len(Tail(c)) : i + 1 \in 1..Len(c) /\ Tail(c)[i] = c[i + 1]
<1>1. Len(c) \in Nat /\ Len(c) # 0 /\ Head(c) = c[1]
  BY EmptySeq
<1>2. /\ Len(Tail(c)) = Len(c) - 1
      /\ \A i \in 1..Len(Tail(c)) : Tail(c)[i] = c[i + 1]
  BY HeadTailProperties
<1> QED
  BY <1>1, <1>2

LEMMA Appended ==
  ASSUME NEW c \in Seq(BOOLEAN), NEW b \in BOOLEAN, NEW i \in 1..Len(Append(c, b))
  PROVE  (i \in 1..Len(c) /\ Append(c, b)[i] = c[i]) \/ Append(c, b)[i] = b
  BY AppendProperties

(* What one thread has concluded the steps of the others do not change:    *)
(* only a removal can leave Replayed, and only after a stop.               *)
LEMMA EndsWellStays ==
  ASSUME LInv, EndsWell, early \subseteq early', NEW t \in Threads, NEW p,
         pc' = [pc EXCEPT ![t] = p], pc[t] \notin {"empty", "done"},
         pc[t] \in Replayed => p \in Replayed
  PROVE  EndsWell'
<1>0. \A u \in Threads : pc'[u] = IF u = t THEN p ELSE pc[u]
  BY DEF LInv, TypeOK
<1>1. CASE \E u \in Threads : pc[u] = "empty"
  BY <1>0, <1>1 DEF EndsWell
<1>2. CASE \E u \in Threads : Concluded(u)
  BY <1>0, <1>2 DEF EndsWell, Concluded
<1> QED
  BY <1>1, <1>2 DEF EndsWell

LEMMA NextReplayInv == LInv /\ ReplayInv /\ [Next]_vars => ReplayInv'
<1> SUFFICES ASSUME LInv, ReplayInv, [Next]_vars, period = "replay" PROVE ReplayInv'
  BY PeriodStays DEF ReplayInv
<1> USE DEF ReplayInv, Working, starting, stopping
<1>1. CASE Acquire \/ Add \/ SpawnFails \/ Started
  BY <1>1 DEF Acquire, Add, SpawnFails, Started, EndsWell, Concluded
<1>2. CASE Spawn
  <2>1. pc[at] = "off" /\ at \in Threads
    BY <1>2, ThreadFacts DEF Spawn, LInv, TypeOK, StartOrder, Before
  <2>2. EndsWell => EndsWell'
    BY <1>2, <2>1, EndsWellStays DEF Spawn, Replayed
  <2> QED
    BY <1>2, <2>2 DEF Spawn
<1>3. CASE Succeed
  <2>1. EndsWell
    <3>1. channel[1] /\ 1 \in 1..Len(channel)
      BY <1>3, HeadIsFirst, Zenon DEF Succeed, LInv, TypeOK
    <3> QED
      BY <1>3, <3>1 DEF Succeed
  <2> QED
    BY <1>3, <2>1 DEF Succeed, EndsWell, Concluded
<1>4. CASE Fail \/ Signal \/ Exit
  BY <1>4 DEF Fail, Signal, Exit
<1>5. CASE \E l \in Listeners : Stop(l) \/ Clear(l)
  BY <1>5 DEF Stop, Clear
<1>6. ASSUME NEW t \in Threads, Thread(t) PROVE ReplayInv'
  <2>0. main' = main /\ main # "ended" /\ code' = code
    BY <1>6 DEF Thread, Search, Retrieve, StopSelf, Remove, Last, LeaveLoop, RequestFails, Alive
  <2> SUFFICES ASSUME main \in Working, NEW i \in 1..Len(channel'), channel'[i] PROVE EndsWell'
    BY <2>0
  <2>1. (\E k \in 1..Len(channel) : channel[k]) => EndsWell
    OBVIOUS
  <2>2. ASSUME NEW b \in BOOLEAN, Put(b) PROVE EndsWell \/ b
    <3>1. i \in 1..Len(Append(channel, b)) /\ Append(channel, b)[i]
      BY <2>2 DEF Put
    <3> QED
      BY <2>1, <3>1, Appended DEF LInv, TypeOK
  <2>3. channel' = channel => EndsWell
    BY <2>1
  <2>4. CASE Search(t)
    <3>1. CASE pc' = [pc EXCEPT ![t] = "empty"]
      BY <3>1 DEF EndsWell, LInv, TypeOK
    <3>2. CASE channel' = channel /\ pc' = [pc EXCEPT ![t] = "retrieve"]
      BY <2>3, <2>4, <3>2, EndsWellStays DEF Search, Replayed
    <3>3. CASE Put(FALSE) /\ pc' = [pc EXCEPT ![t] = "failed"]
      BY <2>2, <2>4, <3>3, EndsWellStays DEF Search, Replayed
    <3> QED
      BY <2>4, <3>1, <3>2, <3>3 DEF Search
  <2>5. CASE Retrieve(t) \/ StopSelf(t)
    BY <2>3, <2>5, EndsWellStays DEF Retrieve, StopSelf, Replayed
  <2>6. CASE Remove(t)
    <3>1. t \in SameKey(t)
      BY <2>6 DEF LInv, Listed, Remove, SameKey, Entries
    <3> QED
      BY <2>3, <2>6, <3>1, EndsWellStays DEF Remove, Replayed
  <2>7. CASE Last(t)
    <3>1. CASE Entries(Engine(t)) = {}
      <4>1. ASSUME NEW u \in Threads, Engine(u) = Engine(t), pc'[u] \notin Replayed PROVE u \in early'
        <5>1. u \notin registered /\ u # t
          BY <2>7, <3>1, <4>1 DEF Entries, Last, Replayed, LInv, TypeOK
        <5>2. pc[u] = "off"
          BY <2>7, <4>1, <5>1 DEF LInv, Listed, Last, Replayed, TypeOK
        <5> QED
          BY <2>7, <3>1, <4>1, <5>2 DEF Last, ToCome
      <4>2. pc'[t] = "done"
        BY <2>7 DEF Last, LInv, TypeOK
      <4> QED
        BY <4>1, <4>2 DEF EndsWell, Concluded
    <3>2. CASE Entries(Engine(t)) # {}
      BY <2>3, <2>7, <3>2, EndsWellStays DEF Last, Replayed
    <3> QED
      BY <3>1, <3>2
  <2>8. CASE LeaveLoop(t)
    BY <2>3, <2>8, EndsWellStays DEF LeaveLoop, Replayed
  <2>9. CASE RequestFails(t)
    BY <2>2, <2>9, EndsWellStays DEF RequestFails, Replayed
  <2> QED
    BY <1>6, <2>4, <2>5, <2>6, <2>7, <2>8, <2>9 DEF Thread
<1>7. CASE UNCHANGED vars
  BY <1>7 DEF vars, EndsWell, Concluded
<1> QED
  BY <1>1, <1>2, <1>3, <1>4, <1>5, <1>6, <1>7 DEF Next, Main

(* A replay that ends well has replayed the period of every thread, but    *)
(* those that were not started when the list of their engine was found     *)
(* empty, and unless a thread had nothing in its period or another file    *)
(* was over (_polling, the length of _listeners; Engine.listen and stop).  *)
THEOREM ReplayCompletes == Spec => []ReplayIsComplete
<1>1. Init => ReplayInv
  BY DEF Init, ReplayInv, Working
<1>2. ReplayInv => ReplayIsComplete
  <2> SUFFICES ASSUME EndsWell, NEW t \in Threads PROVE pc[t] \in Replayed \/ Overlooked(t)
    BY DEF ReplayInv, ReplayIsComplete, EndedWell
  <2>1. CASE \E u \in Threads : pc[u] = "empty"
    BY <2>1 DEF Overlooked
  <2>2. ASSUME NEW u \in Threads, Concluded(u) PROVE pc[t] \in Replayed \/ Overlooked(t)
    <3>1. Engine(u) \in Engines /\ Over(Engine(u))
      BY <2>2, ThreadFacts DEF Concluded, Over
    <3> QED
      BY <2>2, <3>1 DEF Concluded, Overlooked
  <2> QED
    BY <2>1, <2>2 DEF EndsWell
<1> QED
  BY LInvHolds, <1>1, <1>2, NextReplayInv, PTL DEF Spec

-----------------------------------------------------------------------------
(* What a stop leaves.                                                     *)

(* The engines of the listeners that were stopped have empty lists, and    *)
(* the application exits with no listener left to stop.                    *)
Stopped ==
  /\ main \in {"cancel", "clearing"} \/ (main = "ended" /\ code # "success")
       => \A l \in Managed \ toStop : Entries(EngineOf[l]) = {}
  /\ main = "ended" /\ code # "success" => toStop = {}

LEMMA NextStopped == TypeOK /\ Stopped /\ [Next]_vars => Stopped'
<1> SUFFICES ASSUME TypeOK, Stopped, [Next]_vars PROVE Stopped'
  OBVIOUS
<1> USE DEF Stopped, starting, stopping
<1>1. CASE Acquire \/ Add \/ Spawn \/ SpawnFails
  BY <1>1 DEF Acquire, Add, Spawn, SpawnFails
<1>2. CASE Started
  BY <1>2 DEF Started, Managed
<1>3. CASE Succeed
  BY <1>3 DEF Succeed
<1>4. CASE Fail \/ Signal
  BY <1>4 DEF Fail, Signal, Managed
<1>5. ASSUME NEW l \in Listeners, Stop(l) PROVE Stopped'
  BY <1>5 DEF Stop, Managed, Entries
<1>6. ASSUME NEW l \in Listeners, Clear(l) PROVE Stopped'
  <2>1. Managed' = Managed /\ main' = "cancel" /\ toStop' = toStop \ {l} /\ main = "clearing"
    BY <1>6 DEF Clear, Managed
  <2>2. Entries(EngineOf[l])' = {}
    BY <1>6 DEF Clear, Entries
  <2>3. \A k \in Managed \ toStop : Entries(EngineOf[k])' \subseteq Entries(EngineOf[k])
    BY <1>6 DEF Clear, Entries
  <2> QED
    BY <2>1, <2>2, <2>3
<1>7. CASE Exit
  BY <1>7 DEF Exit, Managed, Entries
<1>8. ASSUME NEW t \in Threads, Thread(t) PROVE Stopped'
  <2>1. UNCHANGED <<main, at, unstarted, toStop, code>> /\ registered' \subseteq registered
    BY <1>8 DEF Thread, Search, Retrieve, StopSelf, Remove, Last, LeaveLoop, RequestFails
  <2>2. \A l \in Listeners : Entries(EngineOf[l])' \subseteq Entries(EngineOf[l])
    BY <2>1 DEF Entries
  <2> QED
    BY <2>1, <2>2 DEF Managed
<1>9. CASE UNCHANGED vars
  BY <1>9 DEF vars, Managed, Entries
<1> QED
  BY <1>1, <1>2, <1>3, <1>4, <1>5, <1>6, <1>7, <1>8, <1>9 DEF Next, Main

(* An application that does not end well has stopped all the threads of    *)
(* the engines it manages (cancel_listeners), wherever a signal found it.  *)
THEOREM CancelIsComplete == Spec => []CancelStops
<1>1. Init => Stopped
  BY DEF Init, Stopped
<1>2. Stopped => CancelStops
  BY DEF Stopped, CancelStops
<1> QED
  BY TypeCorrect, <1>1, <1>2, NextStopped, PTL DEF Spec

-----------------------------------------------------------------------------
(* Why an application ends.                                                *)

Refused == \E t \in Threads : pc[t] = "failed"
Cause == signals > 0 \/ Refused \/ unstarted = Listeners

(* Without an end date the threads only poll; while nothing was stopped,   *)
(* success is reported by replays only, and failure by threads that were   *)
(* refused something; and the main thread stops waiting for a cause.       *)
CauseInv ==
  /\ period = "live" => \A t \in Threads : pc[t] \in {"off", "loop", "failed", "done"}
  /\ main \in Working => \A i \in 1..Len(channel) : IF channel[i] THEN period = "replay" ELSE Refused
  /\ main \in {"cancel", "clearing"} => Cause
  /\ main = "ended" => Cause \/ EndedWell

LEMMA NextCauseInv == LInv /\ CauseInv /\ [Next]_vars => CauseInv'
<1> SUFFICES ASSUME LInv, CauseInv, [Next]_vars PROVE CauseInv'
  OBVIOUS
<1> USE DEF CauseInv, Cause, Working, starting, stopping
<1>1. CASE Acquire \/ Add
  BY <1>1 DEF Acquire, Add, Refused
<1>2. CASE Spawn
  <2>1. pc[at] = "off" /\ at \in Threads
    BY <1>2, ThreadFacts DEF Spawn, LInv, TypeOK, StartOrder, Before
  <2>2. \A u \in Threads : pc'[u] = IF u = at THEN (IF period = "replay" THEN "search" ELSE "loop")
                                             ELSE pc[u]
    BY <1>2 DEF Spawn, LInv, TypeOK
  <2>3. Refused => Refused'
    BY <2>1, <2>2 DEF Refused
  <2> QED
    BY <1>2, <2>1, <2>2, <2>3 DEF Spawn
<1>3. CASE SpawnFails
  BY <1>3 DEF SpawnFails, Refused
<1>4. CASE Started
  BY <1>4 DEF Started, Managed, LInv, TypeOK, Refused
<1>5. CASE Succeed
  <2>1. channel[1] /\ 1 \in 1..Len(channel)
    BY <1>5, HeadIsFirst, Zenon DEF Succeed, LInv, TypeOK
  <2>2. period = "replay"
    BY <1>5, <2>1 DEF Succeed
  <2> QED
    BY <1>5, <2>2 DEF Succeed, EndedWell
<1>6. CASE Fail
  <2>1. ~ channel[1] /\ 1 \in 1..Len(channel)
    BY <1>6, HeadIsFirst, Zenon DEF Fail, LInv, TypeOK
  <2>2. Refused
    BY <1>6, <2>1 DEF Fail
  <2> QED
    BY <1>6, <2>2 DEF Fail, Refused
<1>7. CASE Exit \/ \E l \in Listeners : Stop(l) \/ Clear(l)
  BY <1>7 DEF Exit, Stop, Clear, Refused
<1>8. CASE Signal
  BY <1>8 DEF Signal, LInv, TypeOK
<1>9. ASSUME NEW t \in Threads, Thread(t) PROVE CauseInv'
  <2>0. UNCHANGED <<period, main, unstarted, signals>> /\ main # "ended"
    BY <1>9 DEF Thread, Search, Retrieve, StopSelf, Remove, Last, LeaveLoop, RequestFails, Alive
  <2>1. PICK p \in PCs : pc' = [pc EXCEPT ![t] = p]
    BY <1>9 DEF Thread, Search, Retrieve, StopSelf, Remove, Last, LeaveLoop, RequestFails, PCs, Replayed
  <2>2. pc[t] # "failed"
    BY <1>9 DEF Thread, Search, Retrieve, StopSelf, Remove, Last, LeaveLoop, RequestFails
  <2>3. \A u \in Threads : pc'[u] = IF u = t THEN p ELSE pc[u]
    BY <2>1 DEF LInv, TypeOK
  <2>4. Refused => Refused'
    BY <2>2, <2>3 DEF Refused
  <2>5. period = "live" => p \in {"off", "loop", "failed", "done"}
    <3> SUFFICES ASSUME period = "live" PROVE p \in {"failed", "done"}
      OBVIOUS
    <3>1. pc[t] \in {"off", "loop", "failed", "done"}
      OBVIOUS
    <3>2. LeaveLoop(t) \/ RequestFails(t)
      BY <1>9, <3>1 DEF Thread, Search, Retrieve, StopSelf, Remove, Last
    <3> QED
      BY <2>3, <3>2 DEF LeaveLoop, RequestFails, LInv, TypeOK
  <2>6. ASSUME main \in Working
        PROVE  \/ channel' = channel
               \/ Put(TRUE) /\ period = "replay"
               \/ Put(FALSE) /\ p = "failed"
    <3>1. CASE Search(t) \/ Last(t)
      <4>1. period # "live"
        BY <3>1 DEF Search, Last
      <4>2. period = "replay"
        BY <4>1, ChoicesAssumption DEF LInv, TypeOK
      <4> QED
        BY <2>3, <3>1, <4>2 DEF Search, Last, LInv, TypeOK
    <3>2. CASE Remove(t)
      BY <2>6, <3>2 DEF LInv, Listed, Remove, SameKey, Entries
    <3>3. CASE RequestFails(t)
      BY <2>3, <3>3 DEF RequestFails, LInv, TypeOK
    <3> QED
      BY <1>9, <3>1, <3>2, <3>3 DEF Thread, Retrieve, StopSelf, LeaveLoop
  <2>7. ASSUME main \in Working, NEW i \in 1..Len(channel')
        PROVE  IF channel'[i] THEN period = "replay" ELSE Refused'
    <3>1. CASE channel' = channel
      BY <2>4, <2>7, <3>1
    <3>2. CASE Put(TRUE) /\ period = "replay"
      <4>1. (i \in 1..Len(channel) /\ channel'[i] = channel[i]) \/ channel'[i] = TRUE
        BY <2>7, <3>2, Appended DEF Put, LInv, TypeOK
      <4> QED
        BY <2>4, <2>7, <3>2, <4>1
    <3>3. CASE Put(FALSE) /\ p = "failed"
      <4>1. Refused'
        BY <2>3, <3>3 DEF Refused
      <4>2. (i \in 1..Len(channel) /\ channel'[i] = channel[i]) \/ channel'[i] = FALSE
        BY <2>7, <3>3, Appended DEF Put, LInv, TypeOK
      <4> QED
        BY <2>7, <4>1, <4>2
    <3> QED
      BY <2>6, <2>7, <3>1, <3>2, <3>3
  <2> QED
    BY <2>0, <2>3, <2>4, <2>5, <2>7
<1>10. CASE UNCHANGED vars
  BY <1>10 DEF vars, Refused, EndedWell
<1> QED
  BY <1>1, <1>2, <1>3, <1>4, <1>5, <1>6, <1>7, <1>8, <1>9, <1>10 DEF Next, Main

(* An application ends only on a signal, on a refusal, without any         *)
(* listener, or as a replay that ends well; not because a key was gone     *)
(* when its thread took it out (NotificationManager.listen, Engine.stop).  *)
THEOREM EndsWithACause == Spec => []EndsForACause
<1>1. Init => CauseInv
  BY DEF Init, CauseInv, Working
<1>2. CauseInv => EndsForACause
  BY DEF CauseInv, EndsForACause, Cause, Refused
<1> QED
  BY LInvHolds, <1>1, <1>2, NextCauseInv, PTL DEF Spec
=============================================================================
