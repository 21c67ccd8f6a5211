---------------------------- MODULE AuthContract ----------------------------
(***************************************************************************)
(* What aviso-auth promises, without servers to ask and without caches: a  *)
(* request is admitted to the backend, or refused, for a reason that was   *)
(* true not long before the request arrived; and every request is admitted *)
(* at most once before it is answered.                                     *)
(***************************************************************************)
EXTENDS Rights

CONSTANTS Workers,      \* the requests that may be served at once
          TokenBound,   \* how old a true credential may be
          ListBound     \* how old a list of destinations may be

VARIABLES state,    \* "idle", "pending", "admitted" or the answer
          request   \* [user, key, proper, arrived], or NoRequest

contractVars == <<rightsVars, state, request>>

(* What the key of a request asks for, "unread" before anybody looked     *)
Keys == Destinations \cup {"open", "closed"}
Answers == {"200", "400", "401", "403", "404", "500", "503", "dropped"}
NoRequest == [user |-> "", key |-> "unread", proper |-> FALSE, arrived |-> 0]

Init ==
  /\ RightsInit
  /\ state = [w \in Workers |-> "idle"]
  /\ request = [w \in Workers |-> NoRequest]

Arrive(w, u, p) ==
  /\ state[w] = "idle"
  /\ state' = [state EXCEPT ![w] = "pending"]
  /\ request' = [request EXCEPT ![w] =
       [user |-> u, key |-> "unread", proper |-> p, arrived |-> now]]
  /\ UNCHANGED rightsVars

ReadKey(w, k) ==
  /\ state[w] = "pending" /\ request[w].key = "unread"
  /\ request' = [request EXCEPT ![w].key = k]
  /\ UNCHANGED <<rightsVars, state>>

(* The evidence for or against a request *)
Known(r) == r.proper /\ lastHeld[r.user] + TokenBound > r.arrived
Allowed(r) ==
  /\ r.key \in Destinations
  /\ lastHeld[<<r.user, r.key>>] + ListBound > r.arrived
NotAllowed(r) ==
  /\ r.key \in Destinations
  /\ lastLacked[<<r.user, r.key>>] + ListBound > r.arrived

Admit(w) ==
  /\ state[w] = "pending"
  /\ Known(request[w])
  /\ request[w].key = "open" \/ Allowed(request[w])
  /\ state' = [state EXCEPT ![w] = "admitted"]
  /\ UNCHANGED <<rightsVars, request>>

Answer(w, a) ==
  /\ state' = [state EXCEPT ![w] = a]
  /\ request' = [request EXCEPT ![w] = NoRequest]
  /\ UNCHANGED rightsVars

(* A credential is refused only if it was not valid after the request came; *)
(* access only for lack of the right                                        *)
Refuse(w) ==
  /\ state[w] = "pending"
  /\ \/ /\ ~ request[w].proper \/ lastLacked[request[w].user] >= request[w].arrived
        /\ Answer(w, "401")
     \/ /\ Known(request[w])
        /\ request[w].key = "closed" \/ NotAllowed(request[w])
        /\ Answer(w, "403")

(* A failure may come at any moment; success only after the backend was asked *)
Finish(w) ==
  \/ /\ state[w] \in {"pending", "admitted"}
     /\ \E a \in {"400", "404", "500", "503"} : Answer(w, a)
  \/ /\ state[w] = "admitted"
     /\ Answer(w, "200")

(* Requests of several workers may be lost at once *)
Drop(S) ==
  LET hit == {w \in S : state[w] \in {"pending", "admitted"}}
  IN /\ state' = [w \in Workers |-> IF w \in hit THEN "dropped" ELSE state[w]]
     /\ request' = [w \in Workers |-> IF w \in hit THEN NoRequest ELSE request[w]]
     /\ UNCHANGED rightsVars

Next ==
  \/ \E w \in Workers :
       \/ \E u \in Users, p \in BOOLEAN : Arrive(w, u, p)
       \/ \E k \in Keys : ReadKey(w, k)
       \/ Admit(w) \/ Refuse(w) \/ Finish(w)
  \/ \E S \in SUBSET Workers : Drop(S)
  \/ \E r \in Rights : Change(r) /\ UNCHANGED <<state, request>>
  \/ Tick /\ UNCHANGED <<state, request>>

Spec == Init /\ [][Next]_contractVars
=============================================================================
