------------------------- MODULE ListenerLifecycle -------------------------
(***************************************************************************)
(* How "aviso listen" starts its listeners, waits for them and ends: the   *)
(* main thread (ListenerManager, Engine.listen, the wait on exit_channel,  *)
(* the signal handlers) and one background thread for each key.            *)
(*                                                                         *)
(* A listener file has an engine of its own, and every engine has a list   *)
(* of the keys that are listened to.  With an end date ("replay") a thread *)
(* retrieves the past notifications, leaves the list and, if it was the    *)
(* last, tells the main thread to end.  Without ("live") it polls as long  *)
(* as its key is in the list: module Polling is about that loop.           *)
(*                                                                         *)
(* Thread <<l, j>> is for the j-th key of the l-th listener.               *)
(***************************************************************************)
EXTENDS Naturals, Sequences

CONSTANTS
  EngineOf,   \* the engine of each listener, in the order of the manager
  KeysOf,     \* the keys of each listener, a sequence
  Periods,    \* subset of {"replay", "live"}
  Outcomes,   \* of the search for a period: subset of {"found", "nothing", "unknown"}
  Faults,     \* subset of {"request", "spawn"}
  MaxSignals  \* bound: number of signals

Listeners == DOMAIN EngineOf
Engines == {EngineOf[l] : l \in Listeners}
Threads == UNION {{<<l, j>> : j \in DOMAIN KeysOf[l]} : l \in Listeners}

ASSUME ListenersAssumption == EngineOf \in Seq(Engines)
ASSUME KeysAssumption ==
  /\ DOMAIN KeysOf = Listeners
  \* every request expands into one key at least
  /\ \A l \in Listeners :
       Len(KeysOf[l]) \in Nat \ {0} /\ DOMAIN KeysOf[l] = 1..Len(KeysOf[l])
ASSUME ChoicesAssumption ==
  /\ Periods \subseteq {"replay", "live"}
  /\ Outcomes \subseteq {"found", "nothing", "unknown"}
  /\ Faults \subseteq {"request", "spawn"}
  /\ MaxSignals \in Nat

Engine(t) == EngineOf[t[1]]
Key(t) == KeysOf[t[1]][t[2]]

(* The order in which the threads are started; beyond the last listener    *)
(* there is no thread.                                                     *)
NextListener(t) == <<t[1] + 1, 1>>
After(t) == IF <<t[1], t[2] + 1>> \in Threads THEN <<t[1], t[2] + 1>> ELSE NextListener(t)

VARIABLES
  period,     \* "replay" or "live"
  main,       \* where the main thread is
  at,         \* the thread to start next
  unstarted,  \* listeners of which a thread could not be started
  toStop,     \* listeners that the main thread has still to stop
  held,       \* engines whose list lock an interrupted frame of main holds
  signals,    \* number of signals so far
  code,       \* how the application ends
  registered, \* the lists of all the engines: each entry as its thread
  pc,         \* where each thread is
  early,      \* history: threads not yet started when one of their engine found its list empty
  channel     \* exit_channel

starting == <<at, unstarted>>
stopping == <<toStop, held, signals, code>>
vars == <<period, main, starting, stopping, registered, pc, early, channel>>

MainPCs == {"run", "adding", "spawn", "wait", "cancel", "clearing", "ended"}
(* A thread is at one of these points once it has replayed its period.     *)
Replayed == {"stop", "remove", "last", "done"}
(* "empty" found nothing in its period, "failed" was refused a request,    *)
(* "raised" found its key gone when it took it out.                        *)
PCs == {"off", "search", "retrieve", "loop", "empty", "failed", "raised"} \cup Replayed

TypeOK ==
  /\ period \in Periods
  /\ main \in MainPCs
  /\ at \in Nat \X Nat
  /\ main \in {"adding", "spawn"} => at \in Threads
  /\ unstarted \in SUBSET Listeners
  /\ toStop \in SUBSET Listeners
  /\ held \in SUBSET Engines
  /\ signals \in 0..MaxSignals
  /\ code \in {"none", "success", "error", "signal"}
  /\ registered \in SUBSET Threads
  /\ pc \in [Threads -> PCs]
  /\ early \in SUBSET Threads
  /\ channel \in Seq(BOOLEAN)

Init ==
  /\ period \in Periods
  /\ main = "run"
  /\ at = <<1, 1>>
  /\ unstarted = {}
  /\ toStop = {}
  /\ held = {}
  /\ signals = 0
  /\ code = "none"
  /\ registered = {}
  /\ pc = [t \in Threads |-> "off"]
  /\ early = {}
  /\ channel = <<>>

(* The list of an engine, and the entries of it that are the key of t.     *)
(* Equal entries are interchangeable: a thread that takes its key out      *)
(* takes its own entry.                                                    *)
Entries(e) == {u \in registered : Engine(u) = e}
SameKey(t) == {u \in Entries(Engine(t)) : Key(u) = Key(t)}

-----------------------------------------------------------------------------
(* The main thread starts the listeners.                                   *)

(* Mutant: the loop does not end with the last listener.                   *)
Acquire_Unbounded ==
  /\ main = "run"
  /\ main' = "adding"
  /\ UNCHANGED <<period, early, starting, stopping, registered, pc, channel>>

(* Engine.listen for one key: _add_listener takes the lock of the list ... *)
Acquire ==
  /\ main = "run"
  /\ at \in Threads
  /\ main' = "adding"
  /\ UNCHANGED <<period, early, starting, stopping, registered, pc, channel>>

(* ... appends the key, releases the lock ...                              *)
Add ==
  /\ main = "adding"
  /\ registered' = registered \cup {at}
  /\ main' = "spawn"
  /\ UNCHANGED <<period, early, starting, stopping, pc, channel>>

(* Mutant: the start date, not the end date, makes a replay.               *)
Spawn_FromDate ==
  /\ main = "spawn"
  /\ pc' = [pc EXCEPT ![at] = "search"]
  /\ at' = After(at)
  /\ main' = "run"
  /\ UNCHANGED <<period, early, unstarted, stopping, registered, channel>>

(* ... and starts the thread.                                              *)
Spawn ==
  /\ main = "spawn"
  /\ pc' = [pc EXCEPT ![at] = IF period = "replay" THEN "search" ELSE "loop"]
  /\ at' = After(at)
  /\ main' = "run"
  /\ UNCHANGED <<period, early, unstarted, stopping, registered, channel>>

(* The thread cannot be started: its key is taken out again, and the other *)
(* keys of the listener are left out.                                      *)
SpawnFails ==
  /\ "spawn" \in Faults
  /\ main = "spawn"
  /\ registered' = registered \ {at}
  /\ unstarted' = unstarted \cup {at[1]}
  /\ at' = NextListener(at)
  /\ main' = "run"
  /\ UNCHANGED <<period, early, stopping, pc, channel>>

(* The listeners of the manager: those that could not be started leave it  *)
(* when all have been tried.                                               *)
Managed == IF at \in Threads THEN Listeners ELSE Listeners \ unstarted

(* All the listeners are tried: without any the application ends in error. *)
Started ==
  /\ main = "run"
  /\ at \notin Threads
  /\ IF Managed = {}
       THEN main' = "cancel" /\ code' = "error"
       ELSE main' = "wait" /\ UNCHANGED code
  /\ UNCHANGED <<period, early, starting, toStop, held, signals, registered, pc, channel>>

-----------------------------------------------------------------------------
(* The main thread waits, and ends.                                        *)

Succeed ==
  /\ main = "wait"
  /\ channel # <<>>
  /\ Head(channel)
  /\ channel' = Tail(channel)
  /\ main' = "ended"
  /\ code' = "success"
  /\ UNCHANGED <<period, early, starting, toStop, held, signals, registered, pc>>

(* NotificationManager.listen raises, and the command stops the listeners. *)
Fail ==
  /\ main = "wait"
  /\ channel # <<>>
  /\ ~ Head(channel)
  /\ channel' = Tail(channel)
  /\ main' = "cancel"
  /\ toStop' = Managed
  /\ code' = "error"
  /\ UNCHANGED <<period, early, starting, held, signals, registered, pc>>

FirstToStop(l) == l \in toStop /\ \A k \in toStop : l <= k

(* The lock of a list that the main thread holds where it is now.          *)
Holding ==
  IF main = "adding" THEN {Engine(at)}
  ELSE {EngineOf[l] : l \in {k \in toStop : main = "clearing" /\ FirstToStop(k)}}

(* Mutant: a listener is removed from the list that is being iterated, so  *)
(* that the one after it is passed over.                                   *)
Stop_PassOver(l) ==
  /\ main = "cancel"
  /\ FirstToStop(l)
  /\ IF Entries(EngineOf[l]) = {}
       THEN toStop' = toStop \ {l, l + 1} /\ UNCHANGED main
       ELSE EngineOf[l] \notin held /\ main' = "clearing" /\ UNCHANGED toStop
  /\ UNCHANGED <<period, early, starting, held, signals, code, registered, pc, channel>>

(* cancel_listeners, one listener: Engine.stop without a key does nothing  *)
(* if the list is empty, otherwise it takes the lock, which is not         *)
(* reentrant ...                                                           *)
Stop(l) ==
  /\ main = "cancel"
  /\ FirstToStop(l)
  /\ IF Entries(EngineOf[l]) = {}
       THEN toStop' = toStop \ {l} /\ UNCHANGED main
       ELSE EngineOf[l] \notin held /\ main' = "clearing" /\ UNCHANGED toStop
  /\ UNCHANGED <<period, early, starting, held, signals, code, registered, pc, channel>>

(* ... and empties it.                                                     *)
Clear(l) ==
  /\ main = "clearing"
  /\ FirstToStop(l)
  /\ registered' = registered \ Entries(EngineOf[l])
  /\ toStop' = toStop \ {l}
  /\ main' = "cancel"
  /\ UNCHANGED <<period, early, starting, held, signals, code, pc, channel>>

(* sys.exit: the background threads are daemons and end with it.           *)
Exit ==
  /\ main = "cancel"
  /\ toStop = {}
  /\ main' = "ended"
  /\ UNCHANGED <<period, early, starting, stopping, registered, pc, channel>>

(* A signal: stop_listeners_and_exit runs in the main thread, on top of    *)
(* what it interrupts, which keeps its lock.                               *)
Signal ==
  /\ signals < MaxSignals
  /\ main # "ended"
  /\ signals' = signals + 1
  /\ held' = held \cup Holding
  /\ main' = "cancel"
  /\ toStop' = Managed
  /\ code' = "signal"
  /\ UNCHANGED <<period, early, starting, registered, pc, channel>>

-----------------------------------------------------------------------------
(* A background thread.                                                    *)

Alive == main # "ended"
Put(b) == channel' = Append(channel, b)

(* The search for the revisions of the period: it finds them, or nothing   *)
(* in the period, or no status at all.                                     *)
Search(t) ==
  /\ Alive
  /\ pc[t] = "search"
  /\ \/ /\ "found" \in Outcomes
        /\ pc' = [pc EXCEPT ![t] = "retrieve"]
        /\ UNCHANGED channel
     \/ /\ "nothing" \in Outcomes
        /\ pc' = [pc EXCEPT ![t] = "empty"]
        /\ Put(TRUE)
     \/ /\ "unknown" \in Outcomes
        /\ pc' = [pc EXCEPT ![t] = "failed"]
        /\ Put(FALSE)
  /\ UNCHANGED <<period, early, main, starting, stopping, registered>>

(* The pull and the calls of the callback.                                 *)
Retrieve(t) ==
  /\ Alive
  /\ pc[t] = "retrieve"
  /\ pc' = [pc EXCEPT ![t] = "stop"]
  /\ UNCHANGED <<period, early, main, starting, stopping, registered, channel>>

(* Engine.stop with the key: the list is tested without its lock ...       *)
StopSelf(t) ==
  /\ Alive
  /\ pc[t] = "stop"
  /\ pc' = [pc EXCEPT ![t] = IF SameKey(t) # {} THEN "remove" ELSE "last"]
  /\ UNCHANGED <<period, early, main, starting, stopping, registered, channel>>

(* Mutant: all the entries of the key are taken out.                       *)
Remove_All(t) ==
  /\ Alive
  /\ pc[t] = "remove"
  /\ Engine(t) \notin held \cup Holding
  /\ registered' = registered \ SameKey(t)
  /\ pc' = [pc EXCEPT ![t] = "last"]
  /\ UNCHANGED <<period, early, main, starting, stopping, channel>>

(* ... and the key is taken out with it; if the list was emptied meanwhile *)
(* this raises, and the thread reports an error.                           *)
Remove(t) ==
  /\ Alive
  /\ pc[t] = "remove"
  /\ Engine(t) \notin held \cup Holding
  /\ IF SameKey(t) # {}
       THEN /\ registered' = registered \ {t}
            /\ pc' = [pc EXCEPT ![t] = "last"]
            /\ UNCHANGED channel
       ELSE /\ pc' = [pc EXCEPT ![t] = "raised"]
            /\ Put(FALSE)
            /\ UNCHANGED registered
  /\ UNCHANGED <<period, early, main, starting, stopping>>

(* Mutant: the test for the last one is left out.                          *)
Last_Silent(t) ==
  /\ Alive
  /\ pc[t] = "last"
  /\ pc' = [pc EXCEPT ![t] = "done"]
  /\ UNCHANGED <<period, early, main, starting, stopping, registered, channel>>

(* The threads of an engine that are not started yet.                      *)
ToCome(e) == {u \in Threads : Engine(u) = e /\ pc[u] = "off"}

(* A thread that finds the list of its engine empty ends the application.  *)
Last(t) ==
  /\ Alive
  /\ pc[t] = "last"
  /\ pc' = [pc EXCEPT ![t] = "done"]
  /\ IF Entries(Engine(t)) = {}
       THEN Put(TRUE) /\ early' = early \cup ToCome(Engine(t))
       ELSE UNCHANGED <<channel, early>>
  /\ UNCHANGED <<period, main, starting, stopping, registered>>

(* The stop condition of the polling loop.                                 *)
LeaveLoop(t) ==
  /\ Alive
  /\ pc[t] = "loop"
  /\ SameKey(t) = {}
  /\ pc' = [pc EXCEPT ![t] = "done"]
  /\ UNCHANGED <<period, early, main, starting, stopping, registered, channel>>

(* A request is refused, or a start date without a status to search from.  *)
RequestFails(t) ==
  /\ "request" \in Faults
  /\ Alive
  /\ pc[t] \in {"search", "retrieve", "loop"}
  /\ pc' = [pc EXCEPT ![t] = "failed"]
  /\ Put(FALSE)
  /\ UNCHANGED <<period, early, main, starting, stopping, registered>>

-----------------------------------------------------------------------------
Main ==
  \/ Acquire \/ Add \/ Spawn \/ SpawnFails \/ Started
  \/ Succeed \/ Fail \/ Exit
  \/ \E l \in Listeners : Stop(l) \/ Clear(l)

Thread(t) ==
  \/ Search(t) \/ Retrieve(t) \/ StopSelf(t) \/ Remove(t) \/ Last(t)
  \/ LeaveLoop(t) \/ RequestFails(t)

Next == Main \/ Signal \/ \E t \in Threads : Thread(t)

Spec == Init /\ [][Next]_vars

(* The operating system runs every thread that can run; requests are       *)
(* repeated until they are answered.                                       *)
FairSpec == Spec /\ WF_vars(Main) /\ \A t \in Threads : WF_vars(Thread(t))

-----------------------------------------------------------------------------
(* Properties.                                                             *)

(* The list of an engine was found empty: all its threads have replayed    *)
(* their period, or were not started yet.                                  *)
Over(e) ==
  /\ \E u \in Threads : Engine(u) = e /\ pc[u] = "done"
  /\ \A u \in Threads : Engine(u) = e => pc[u] \in Replayed \/ u \in early

(* Reasons for which a replay may end before the thread t has replayed its *)
(* period: t was not started when a thread of its engine found the list    *)
(* empty; a thread found nothing in its period; another listener file is   *)
(* over, for the list is that of its engine.                               *)
Overlooked(t) ==
  \/ t \in early
  \/ \E u \in Threads : pc[u] = "empty"
  \/ \E e \in Engines \ {Engine(t)} : Over(e)

EndedWell == period = "replay" /\ main = "ended" /\ code = "success"

(* A replay that ends well has replayed the period of every thread, but    *)
(* for the three cases in which the code ends it too early: whatever the   *)
(* order in which the threads search, retrieve and take out their keys,    *)
(* equal ones included, no other one is overlooked (_polling, the length   *)
(* of the list; Engine.stop and listen, the entries of it).                *)
ReplayIsComplete ==
  EndedWell => \A t \in Threads : pc[t] \in Replayed \/ Overlooked(t)

(* A replay ends when all its past notifications have been retrieved       *)
(* (catch_up.rst, lines 27 and 34, on the option --to).                    *)
ReplayRetrievesAll ==
  EndedWell => \A t \in Threads : pc[t] \in Replayed

(* Unless it ends well, the application stops all the threads of the       *)
(* engines it manages before it exits, wherever a signal finds it.         *)
CancelStops ==
  (main = "ended" /\ code # "success")
    => \A l \in Managed : Entries(EngineOf[l]) = {}

(* An application ends only on a signal, when a thread was refused what it *)
(* asked for or found no status, if none of its listeners could be         *)
(* started, or as a replay that ends well.  In particular a key that is    *)
(* gone when its thread takes it out does not end an application in error. *)
EndsForACause ==
  main = "ended"
    => \/ signals > 0
       \/ \E t \in Threads : pc[t] = "failed"
       \/ unstarted = Listeners
       \/ EndedWell

(* A replay ends by itself, if all its threads could be started.           *)
ReplayTerminates ==
  (period = "replay") ~> (main = "ended" \/ signals > 0 \/ unstarted # {})

(* A signal stops the listeners and ends the application.                  *)
SignalEnds == (signals > 0) ~> (main = "ended")
=============================================================================
