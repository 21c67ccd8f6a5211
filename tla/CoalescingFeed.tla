--------------------------- MODULE CoalescingFeed ---------------------------
(***************************************************************************)
(* What the listening threads promise while they run, without revisions:   *)
(* a key that is published while a listener is subscribed becomes dirty    *)
(* for that listener; the listener takes all its dirty keys at once and    *)
(* handles each of them once.  Several publications of a key between two   *)
(* fetches count as one, and a key that is withdrawn before it is fetched  *)
(* is not handled.  Nothing is promised across a halt: the dirty keys with *)
(* which a subscription begins are arbitrary.                              *)
(***************************************************************************)
CONSTANTS Listeners, KeysOf

VARIABLES
  running,  \* the subscribed listeners
  dirty,    \* for each listener, the keys to fetch
  inbox     \* for each listener, the keys fetched and not yet handled

vars == <<running, dirty, inbox>>

Init ==
  /\ running = {}
  /\ dirty = [l \in Listeners |-> {}]
  /\ inbox = [l \in Listeners |-> {}]

Subscribe(l) ==
  /\ l \notin running
  /\ running' = running \cup {l}
  /\ \E S \in SUBSET KeysOf[l] : dirty' = [dirty EXCEPT ![l] = S]
  /\ UNCHANGED inbox

Publish(l, k) ==
  /\ l \in running
  /\ dirty' = [dirty EXCEPT ![l] = @ \cup {k}]
  /\ UNCHANGED <<running, inbox>>

Withdraw(S) ==
  /\ dirty' = [l \in Listeners |-> dirty[l] \ S]
  /\ UNCHANGED <<running, inbox>>

(* All the dirty keys, and only when the previous ones are handled.        *)
Fetch(l) ==
  /\ l \in running
  /\ inbox[l] = {}
  /\ dirty[l] # {}
  /\ inbox' = [inbox EXCEPT ![l] = dirty[l]]
  /\ dirty' = [dirty EXCEPT ![l] = {}]
  /\ UNCHANGED running

Handle(l, k) ==
  /\ k \in inbox[l]
  /\ inbox' = [inbox EXCEPT ![l] = @ \ {k}]
  /\ UNCHANGED <<running, dirty>>

Halt(S) ==
  /\ running' = running \ S
  /\ dirty' = [l \in Listeners |-> IF l \in S THEN {} ELSE dirty[l]]
  /\ inbox' = [l \in Listeners |-> IF l \in S THEN {} ELSE inbox[l]]

Next ==
  \/ \E l \in Listeners :
       \/ Subscribe(l)
       \/ \E k \in KeysOf[l] : Publish(l, k)
       \/ Fetch(l)
       \/ \E k \in inbox[l] : Handle(l, k)
  \/ \E S \in SUBSET UNION {KeysOf[l] : l \in Listeners} : Withdraw(S)
  \/ \E S \in SUBSET Listeners : Halt(S)

Spec == Init /\ [][Next]_vars
=============================================================================
