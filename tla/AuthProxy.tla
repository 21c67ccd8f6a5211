------------------------------ MODULE AuthProxy ------------------------------
(***************************************************************************)
(* aviso-auth (src/aviso-server/auth): the proxy in front of etcd.  A      *)
(* worker serves one request (a thread that serves several is as many      *)
(* workers of its process).  It validates the credentials of the user by a *)
(* request to auth-o-tron, with retries; it authorises the key, for a      *)
(* protected key by a request to ECPDS for the destinations of the user;   *)
(* then it forwards the request.  The replies of both servers are memoized *)
(* by Flask-Caching, in a cache that belongs to a process: its threads     *)
(* share it, the processes of Gunicorn each have their own.                *)
(*                                                                         *)
(* A server decides at some moment between the question and its reply,     *)
(* and its reply may wait on the wire for ReqTimeout.  A user stands for   *)
(* one set of credentials that comes from one address (both are in the key *)
(* of the memo), a destination for the keys below it.                      *)
(***************************************************************************)
EXTENDS Rights

CONSTANTS Workers,
          Caches,         \* the processes
          CacheOf,        \* the process of each worker
          ReqTimeout,     \* req_timeout of both servers
          TokenTimeout,   \* cache_timeout of authentication_server
          ListTimeout,    \* cache_timeout of authorisation_server
          MaxTries        \* MAX_N_TRIES, 25 in the code

ASSUME WorkersAssumption == CacheOf \in [Workers -> Caches]
ASSUME TimeoutsAssumption == /\ ReqTimeout \in Nat \ {0}
                             /\ TokenTimeout \in Nat \ {0}
                             /\ ListTimeout \in Nat \ {0}
ASSUME TriesAssumption == MaxTries \in Nat \ {0}

VARIABLES
  pc,        \* where each worker is, or the answer it gave last
  request,   \* its request
  tries,     \* n_tries
  verdict,   \* the reply on its way
  tokens,    \* per cache and user, the memoized reply of auth-o-tron
  lists      \* per cache and user, the memoized list of destinations

askVars == <<tries, verdict>>
workerVars == <<pc, request, askVars>>
cacheVars == <<tokens, lists>>
vars == <<rightsVars, workerVars, cacheVars>>

(* A key below a destination, below one of open_keys, or below neither     *)
Keys == Destinations \cup {"open", "closed"}
Answers == {"200", "400", "401", "403", "404", "500", "503", "dropped"}
NoRequest == [user |-> "", key |-> "unread", proper |-> FALSE, arrived |-> 0]
NoVerdict == [says |-> "nothing", list |-> {}, at |-> 0]
NoToken == [expires |-> 0, good |-> FALSE]
NoList == [expires |-> 0, list |-> {}]

Mine(w) == CacheOf[w]
User(w) == request[w].user

Init ==
  /\ RightsInit
  /\ pc = [w \in Workers |-> "idle"]
  /\ request = [w \in Workers |-> NoRequest]
  /\ tries = [w \in Workers |-> 0]
  /\ verdict = [w \in Workers |-> NoVerdict]
  /\ tokens = [c \in Caches |-> [u \in Users |-> NoToken]]
  /\ lists = [c \in Caches |-> [u \in Users |-> NoList]]

(***************************************************************************)
(* The headers: Basic for the type plain, Bearer for the others, and       *)
(* EmailKey for Bearer, with or without a type.                            *)
(***************************************************************************)
Schemes == {"bearer", "basic", "emailkey", "none"}
Types == {"ecmwf", "openid", "plain", "unknown", "missing"}

TypeGiven(scheme, type) ==
  IF type = "missing" /\ scheme = "emailkey" THEN "ecmwf" ELSE type

(* What _validate_token_uncached sends: the type decides, also for a token *)
(* that came as an EmailKey                                                *)
Sent(scheme, type) ==
  IF TypeGiven(scheme, type) \in {"ecmwf", "openid"} THEN "bearer"
  ELSE IF type = "plain" THEN "basic" ELSE "none"

(* What extract_token and the test of the type let through *)
Parses(scheme, type) ==
  /\ scheme # "none"
  /\ scheme = "emailkey" \/ (scheme = "basic" <=> type = "plain")
  /\ Sent(scheme, type) # "none"

(* The credentials reach auth-o-tron in the form in which it knows them    *)
Proper(scheme, type) ==
  /\ Parses(scheme, type)
  /\ Sent(scheme, type) = IF scheme = "basic" THEN "basic" ELSE "bearer"

Arrive(w, u, scheme, type) ==
  /\ pc[w] = "idle"
  /\ pc' = [pc EXCEPT ![w] =
       IF Parses(scheme, type) THEN "authenticate" ELSE "unparsed"]
  /\ request' = [request EXCEPT ![w] =
       [user |-> u, key |-> "unread", proper |-> Proper(scheme, type), arrived |-> now]]
  /\ UNCHANGED <<rightsVars, askVars, cacheVars>>

Goto(w, step) ==
  /\ pc' = [pc EXCEPT ![w] = step]
  /\ UNCHANGED request

(* The answer to the client ends the work on the request *)
Answer(w, a) ==
  /\ pc' = [pc EXCEPT ![w] = a]
  /\ request' = [request EXCEPT ![w] = NoRequest]

Reset(w) ==
  /\ tries' = [tries EXCEPT ![w] = 0]
  /\ verdict' = [verdict EXCEPT ![w] = NoVerdict]

RefuseHeaders(w) ==
  /\ pc[w] = "unparsed"
  /\ Answer(w, "401")
  /\ UNCHANGED <<rightsVars, askVars, cacheVars>>

(***************************************************************************)
(* Authentication.  Only a reply with a success status is memoized, but    *)
(* before the name of the user is read from it: a reply without a name     *)
(* ("garbled") fails every request that finds it.                          *)
(***************************************************************************)
(* Mutant: the cache is given no timeout *)
Fresh_Always(entry) == entry.expires > 0
Fresh(entry) == entry.expires > now

CheckToken(w) ==
  LET entry == tokens[Mine(w)][User(w)]
  IN /\ pc[w] = "authenticate"
     /\ \/ /\ request[w].proper /\ Fresh(entry) /\ entry.good
           /\ Goto(w, "authorise")
        \/ /\ request[w].proper /\ Fresh(entry) /\ ~ entry.good
           /\ Answer(w, "500")
        \/ /\ ~ (request[w].proper /\ Fresh(entry))
           /\ Goto(w, "asktoken")
     /\ UNCHANGED <<rightsVars, askVars, cacheVars>>

Verdict(w, says, list) ==
  verdict' = [verdict EXCEPT ![w] = [says |-> says, list |-> list, at |-> now]]

(* auth-o-tron decides                                                     *)
JudgeToken(w) ==
  /\ pc[w] = "asktoken" /\ verdict[w] = NoVerdict
  /\ Verdict(w, IF request[w].proper /\ holds[User(w)] THEN "good" ELSE "denied", {})
  /\ UNCHANGED <<rightsVars, pc, request, tries, cacheVars>>

(* Mutant: one try too many *)
Retry_OneMore(w) ==
  /\ pc[w] = "asktoken"
  /\ tries[w] < MaxTries
  /\ tries' = [tries EXCEPT ![w] = @ + 1]
  /\ verdict' = [verdict EXCEPT ![w] = NoVerdict]
  /\ UNCHANGED <<rightsVars, pc, request, cacheVars>>

(* Mutant: being told to slow down (429) is not counted as a try *)
Retry_Uncounted(w) ==
  /\ pc[w] = "asktoken"
  /\ verdict[w] # NoVerdict
  /\ verdict' = [verdict EXCEPT ![w] = NoVerdict]
  /\ UNCHANGED <<rightsVars, pc, request, tries, cacheVars>>

(* A fault to be tried again: 429, 408, 5xx, no connection, no answer in   *)
(* time, be it that auth-o-tron did decide                                 *)
Retry(w) ==
  /\ pc[w] = "asktoken"
  /\ \/ /\ tries[w] + 1 < MaxTries
        /\ tries' = [tries EXCEPT ![w] = @ + 1]
        /\ verdict' = [verdict EXCEPT ![w] = NoVerdict]
        /\ UNCHANGED <<pc, request>>
     \/ /\ tries[w] + 1 >= MaxTries
        /\ Answer(w, "500") /\ Reset(w)
  /\ UNCHANGED <<rightsVars, cacheVars>>

MemoizeToken(w, good) ==
  tokens' = [tokens EXCEPT ![Mine(w)][User(w)] =
               [expires |-> now + TokenTimeout, good |-> good]]

ReceiveToken(w) ==
  /\ pc[w] = "asktoken"
  /\ \/ /\ verdict[w].says = "good"
        /\ \/ MemoizeToken(w, TRUE) /\ Goto(w, "authorise")
           \/ MemoizeToken(w, FALSE) /\ Answer(w, "500")
     \/ verdict[w].says = "denied" /\ Answer(w, "401") /\ UNCHANGED tokens
     \/ Answer(w, "500") /\ UNCHANGED tokens   \* any other status or error
  /\ Reset(w)
  /\ UNCHANGED <<rightsVars, lists>>

(***************************************************************************)
(* Authorisation.  The body is read here for the first time: it may have   *)
(* no key (400), be no JSON, or have a key that cannot be decoded (500).   *)
(* A protected key that names no destination fails as well, in the code    *)
(* after the list of the user was asked for, here at once.                 *)
(***************************************************************************)
ReadKey(w) ==
  /\ pc[w] = "authorise" /\ request[w].key = "unread"
  /\ \/ \E a \in {"400", "500"} : Answer(w, a)
     \/ \E k \in Keys :
          /\ request' = [request EXCEPT ![w].key = k]
          /\ UNCHANGED pc
  /\ UNCHANGED <<rightsVars, askVars, cacheVars>>

Decide(w, list) ==
  IF request[w].key \in list THEN Goto(w, "forward") ELSE Answer(w, "403")

Authorise(w) ==
  LET entry == lists[Mine(w)][User(w)]
      key == request[w].key
  IN /\ pc[w] = "authorise"
     /\ \/ key = "open" /\ Goto(w, "forward")
        \/ key = "closed" /\ Answer(w, "403")
        \/ key \in Destinations /\ Fresh(entry) /\ Decide(w, entry.list)
        \/ key \in Destinations /\ ~ Fresh(entry) /\ Goto(w, "asklist")
     /\ UNCHANGED <<rightsVars, askVars, cacheVars>>

(* ECPDS replies with the destinations of the user, or does not know a     *)
(* user without any                                                        *)
Granted(u) == {d \in Destinations : holds[<<u, d>>]}

JudgeList(w) ==
  /\ pc[w] = "asklist" /\ verdict[w] = NoVerdict
  /\ \/ Verdict(w, "list", Granted(User(w)))
     \/ Granted(User(w)) = {} /\ Verdict(w, "unknown", {})
  /\ UNCHANGED <<rightsVars, pc, request, tries, cacheVars>>

MemoizeList(w) ==
  lists' = [lists EXCEPT ![Mine(w)][User(w)] =
              [expires |-> now + ListTimeout, list |-> verdict[w].list]]

(* Here a fault is not tried again: 503 if the server is not available or  *)
(* too slow (408, 5xx, no connection, no answer), 500 for any other, 429   *)
(* included                                                                *)
ReceiveList(w) ==
  /\ pc[w] = "asklist"
  /\ \/ verdict[w].says = "list" /\ MemoizeList(w) /\ Decide(w, verdict[w].list)
     \/ verdict[w].says = "unknown" /\ Answer(w, "404") /\ UNCHANGED lists
     \/ \E a \in {"503", "500"} : Answer(w, a) /\ UNCHANGED lists
  /\ Reset(w)
  /\ UNCHANGED <<rightsVars, tokens>>

(* The backend replies, refuses a compacted revision, is not available or fails *)
Forward(w) ==
  /\ pc[w] = "forward"
  /\ \E a \in {"200", "400", "503", "500"} : Answer(w, a)
  /\ UNCHANGED <<rightsVars, askVars, cacheVars>>

(***************************************************************************)
(* Gunicorn kills a process whose worker has not come back for its timeout *)
(* (30 s, while the retries may take MAX_N_TRIES times up to 5 s of sleep, *)
(* besides the waits), and starts another one; so does an operator.        *)
(***************************************************************************)
Busy(w) == pc[w] \notin Answers \cup {"idle"}

Restart(c) ==
  LET S == {w \in Workers : Mine(w) = c}
      hit == {w \in S : Busy(w)}
  IN /\ pc' = [w \in Workers |-> IF w \in hit THEN "dropped" ELSE pc[w]]
     /\ request' = [w \in Workers |-> IF w \in hit THEN NoRequest ELSE request[w]]
     /\ tries' = [w \in Workers |-> IF w \in S THEN 0 ELSE tries[w]]
     /\ verdict' = [w \in Workers |-> IF w \in S THEN NoVerdict ELSE verdict[w]]
     /\ tokens' = [tokens EXCEPT ![c] = [u \in Users |-> NoToken]]
     /\ lists' = [lists EXCEPT ![c] = [u \in Users |-> NoList]]
     /\ UNCHANGED rightsVars

(* A reply is on its way for ReqTimeout at most: later it counts as none   *)
Advance ==
  /\ \A w \in Workers :
       verdict[w] # NoVerdict => now < verdict[w].at + ReqTimeout
  /\ Tick
  /\ UNCHANGED <<workerVars, cacheVars>>

Serve(w) ==
  \/ RefuseHeaders(w) \/ CheckToken(w) \/ JudgeToken(w) \/ Retry(w)
  \/ ReceiveToken(w) \/ ReadKey(w) \/ Authorise(w) \/ JudgeList(w) \/ ReceiveList(w) \/ Forward(w)

Next ==
  \/ \E w \in Workers :
       \/ \E u \in Users, scheme \in Schemes, type \in Types :
            Arrive(w, u, scheme, type)
       \/ Serve(w)
  \/ \E c \in Caches : Restart(c)
  \/ \E r \in Rights : Change(r) /\ UNCHANGED <<workerVars, cacheVars>>
  \/ Advance

Spec == Init /\ [][Next]_vars

(* A worker never waits for ever: each request it makes has a timeout      *)
FairSpec == Spec /\ \A w \in Workers : WF_vars(Serve(w))

(***************************************************************************)
(* Types of the variables                                                  *)
(***************************************************************************)
Steps == {"unparsed", "authenticate", "asktoken", "authorise", "asklist", "forward"}
Requests == [user : Users, key : Keys \cup {"unread"}, proper : BOOLEAN, arrived : Nat]
Says == {"good", "denied", "list", "unknown", "nothing"}

TypeOK ==
  /\ now \in Nat
  /\ holds \in [Rights -> BOOLEAN]
  /\ lastHeld \in [Rights -> Nat] /\ lastLacked \in [Rights -> Nat]
  /\ pc \in [Workers -> Steps \cup Answers \cup {"idle"}]
  /\ request \in [Workers -> Requests \cup {NoRequest}]
  /\ \A w \in Workers : Busy(w) => request[w] \in Requests
  /\ tries \in [Workers -> 0..(MaxTries - 1)]
  /\ verdict \in [Workers -> [says : Says, list : SUBSET Destinations, at : Nat]]
  /\ tokens \in [Caches -> [Users -> [expires : Nat, good : BOOLEAN]]]
  /\ lists \in [Caches -> [Users -> [expires : Nat, list : SUBSET Destinations]]]

(***************************************************************************)
(* The proxy keeps the contract: whatever the caches hold, whichever       *)
(* replies come late, are repeated or are overwritten by another worker,   *)
(* a request is admitted or refused only for a reason that was true at     *)
(* most a cache timeout and a request timeout before it arrived.           *)
(***************************************************************************)
State(w) ==
  IF pc[w] = "forward" THEN "admitted"
  ELSE IF Busy(w) THEN "pending" ELSE pc[w]

Contract == INSTANCE AuthContract WITH
  TokenBound <- TokenTimeout + ReqTimeout,
  ListBound <- ListTimeout + ReqTimeout,
  state <- [w \in Workers |-> State(w)]

ImplementsContract == Contract!Spec

(***************************************************************************)
(* Every request is answered, however long auth-o-tron stays unavailable.  *)
(***************************************************************************)
EventuallyAnswered == \A w \in Workers : Busy(w) ~> ~ Busy(w)
=============================================================================
